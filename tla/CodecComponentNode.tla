------------------------- MODULE CodecComponentNode -------------------------
(***************************************************************************)
(* The passthrough codec adapter's ComponentNode                           *)
(* (codec/hal/passthrough/adapter/src/component_node.cpp): the OMX state   *)
(* kept in state_, the codec engine it starts and stops, the buffers it    *)
(* hands to the engine, and the notifications it sends to the client's     *)
(* callback.  One client thread issues the HDI calls (an OMX client waits  *)
(* for CmdComplete before its next command); the engine thread runs the    *)
(* callbacks OnEvent, InputBufferAvailable and OutputBufferAvailable.      *)
(* The engine (CodecStart, CodecStop, CodecQueueInput, ...) is a vendor    *)
(* library: its calls succeed or fail nondeterministically.                *)
(***************************************************************************)
EXTENDS Naturals, Sequences

CONSTANTS
    MaxBuffers,     \* bound on bufferId_, the ids UseBuffer/AllocateBuffer hand out
    MaxReports,     \* bound on the state changes reported to the client
    MaxNotices      \* bound on the engine's other notifications to the client

ASSUME MaxBuffers \in Nat /\ MaxReports \in Nat /\ MaxNotices \in Nat

OmxStates == {"Invalid", "Loaded", "Idle", "Executing", "Pause",
              "WaitForResources"}
\* OMX_StateMax is the value the constructor gives state_.
States == OmxStates \cup {"Max"}
Ports == {"in", "out"}                    \* INPUT_PORTINDEX, OUTPUT_PORTINDEX
BufIds == 0 .. MaxBuffers - 1
EngineEvents == {"Error", "BufferFlag", "Max"}  \* EVENT_ERROR, EVENT_EOS_COMPLETE, other

VARIABLES
    state_,                 \* OMX state of the node
    running,                \* the engine has been started and not stopped
    setCallbackComplete_,   \* the node's callbacks are registered with the engine
    omxCallback_,           \* "null" until SetCallbacks, then "client"
    bufferId_,              \* next buffer id
    engineBufs,             \* per port, the buffer ids queued to the engine
    flushing,               \* ports the engine is flushing
    reported,               \* CmdComplete(StateSet) events sent to the client, in order
    notices                 \* other EventHandler, EmptyBufferDone, FillBufferDone calls

vars == <<state_, running, setCallbackComplete_, omxCallback_, bufferId_,
          engineBufs, flushing, reported, notices>>

\* SetState's switch: the states from which each target state is accepted.
AllowedFromLoose ==
    [s \in OmxStates |->
        CASE s = "Invalid"          -> States
          [] s = "Loaded"           -> {"Idle", "WaitForResources", "Max"}
          [] s = "Idle"             -> {"WaitForResources", "Loaded", "Pause", "Executing"}
          [] s = "Executing"        -> {"Idle", "Pause", "Loaded"}
          [] s = "Pause"            -> {"Idle", "Executing"}
          [] s = "WaitForResources" -> {"Loaded"}]
AllowedFrom ==
    [s \in OmxStates |->
        CASE s = "Invalid"          -> States
          [] s = "Loaded"           -> {"Idle", "WaitForResources", "Max"}
          [] s = "Idle"             -> {"WaitForResources", "Loaded", "Pause", "Executing"}
          [] s = "Executing"        -> {"Idle", "Pause"}
          [] s = "Pause"            -> {"Idle", "Executing"}
          [] s = "WaitForResources" -> {"Loaded"}]

\* SetState: accepted targets move state_, others leave it.
SetStateOkInitSuccess(s) == TRUE
SetStateOk(s) == s \in OmxStates /\ state_ \in AllowedFrom[s]

\* ChangeComponentState calls CodecStart before Executing and CodecStop
\* before Pause, and reaches SetState only when that call succeeded.
EngineCall(p) == p \in {"Executing", "Pause"}
ReachesSetStateAlways(p, engineOk) == TRUE
ReachesSetState(p, engineOk) == ~EngineCall(p) \/ engineOk

\* The engine's state after ChangeComponentState's CodecStart / CodecStop.
EngineAfter(p, engineOk) ==
    CASE p = "Executing" /\ engineOk -> TRUE
      [] p = "Pause" /\ engineOk     -> FALSE
      [] OTHER                       -> running

\* A callback from the engine reaches the client only while omxCallback_ is set.
Notify == IF omxCallback_ = "null" THEN notices ELSE notices + 1

NoticeRoom == notices < MaxNotices

\* The node as the constructor leaves it.
Init ==
    /\ state_ = "Max"
    /\ running = FALSE
    /\ setCallbackComplete_ = FALSE
    /\ omxCallback_ = "null"
    /\ bufferId_ = 0
    /\ engineBufs = [p \in Ports |-> {}]
    /\ flushing = {}
    /\ reported = <<>>
    /\ notices = 0

\* The HDI's CreateComponent hands the client's callbacks to the node before
\* it returns the component, so every other client call comes after one.
Created == omxCallback_ # "null"

-----------------------------------------------------------------------------
(* Client calls *)

SetCallbacks ==
    /\ \E regOk \in BOOLEAN :
        IF setCallbackComplete_ \/ regOk
        THEN /\ setCallbackComplete_' = TRUE
             /\ omxCallback_' = "client"
        ELSE UNCHANGED <<setCallbackComplete_, omxCallback_>>
    /\ UNCHANGED <<state_, running, bufferId_, engineBufs, flushing, reported, notices>>

\* SendCommand(OMX_CommandStateSet, p).
ChangeComponentState(p) ==
    /\ Created /\ Len(reported) < MaxReports
    /\ \E engineOk \in BOOLEAN :
        LET ok == ReachesSetState(p, engineOk) /\ SetStateOk(p)
        IN /\ running' = EngineAfter(p, engineOk)
           /\ state_' = IF ok THEN p ELSE state_
           /\ reported' = IF ok THEN Append(reported, p) ELSE reported
    /\ UNCHANGED <<setCallbackComplete_, omxCallback_, bufferId_, engineBufs,
                   flushing, notices>>

\* SendCommand(OMX_CommandFlush, p): CodecFlush on that port.
FlushComponent(p) ==
    /\ Created
    /\ \E flushOk \in BOOLEAN :
        flushing' = IF flushOk THEN flushing \cup {p} ELSE flushing
    /\ UNCHANGED <<state_, running, setCallbackComplete_, omxCallback_,
                   bufferId_, engineBufs, reported, notices>>

\* UseBuffer and AllocateBuffer (they differ only in the port mode passed to
\* SetPortMode, which is abstracted): SetPortMode or the calloc may fail
\* first; the id is taken before CodecQueueInput/Output can fail, so a
\* failed queue still uses up an id.
NewBuffer(p) ==
    /\ Created /\ bufferId_ < MaxBuffers
    /\ \/ /\ UNCHANGED <<bufferId_, engineBufs>>            \* mode or calloc failure
       \/ /\ bufferId_' = bufferId_ + 1
          /\ \E queued \in BOOLEAN :
               engineBufs' = IF queued
                             THEN [engineBufs EXCEPT ![p] = @ \cup {bufferId_}]
                             ELSE engineBufs
    /\ UNCHANGED <<state_, running, setCallbackComplete_, omxCallback_, flushing,
                   reported, notices>>

UseBuffer(p) == NewBuffer(p)

AllocateBuffer(p) == NewBuffer(p)

\* EmptyThisBuffer ("in") and FillThisBuffer ("out") accept any id below
\* bufferId_ and queue it to the engine.
ThisBuffer(p, id) ==
    /\ Created /\ id < bufferId_
    /\ \E queued \in BOOLEAN :
        engineBufs' = IF queued THEN [engineBufs EXCEPT ![p] = @ \cup {id}]
                      ELSE engineBufs
    /\ UNCHANGED <<state_, running, setCallbackComplete_, omxCallback_,
                   bufferId_, flushing, reported, notices>>

EmptyThisBuffer(id) == ThisBuffer("in", id)

FillThisBuffer(id) == ThisBuffer("out", id)

\* GetParameter and SetParameter: SplitParam (an unsupported index returns
\* at once), then CodecGetParameter / CodecSetParameter on each piece,
\* HDF_SUCCESS when any one piece succeeded.  The parameters live in the
\* vendor engine; nothing the node keeps changes.
GetParameter == Created /\ UNCHANGED vars

SetParameter == Created /\ UNCHANGED vars

\* GetState copies state_ out.
GetState == Created /\ UNCHANGED vars

\* FreeBuffer returns HDF_ERR_NOT_SUPPORT: an id handed out is never taken
\* back, and bufferId_ only grows.
FreeBuffer(p) == Created /\ UNCHANGED vars

\* GetConfig, SetConfig and GetExtensionIndex return HDF_ERR_NOT_SUPPORT.
NotSupported == Created /\ UNCHANGED vars

\* SendCommand: OMX_CommandStateSet and OMX_CommandFlush go to their
\* handlers; any other command returns HDF_ERR_NOT_SUPPORT unchanged.
SendCommand ==
    \/ \E p \in States : ChangeComponentState(p)
    \/ \E p \in Ports : FlushComponent(p)

-----------------------------------------------------------------------------
(* Engine thread: the node's static callbacks and their member handlers *)

\* InputBufferAvailable -> OnEmptyBufferDone, OutputBufferAvailable ->
\* OnFillBufferDone: the engine gives a buffer back.
BufferDone(p, id) ==
    /\ NoticeRoom /\ id \in engineBufs[p]
    /\ engineBufs' = [engineBufs EXCEPT ![p] = @ \ {id}]
    /\ notices' = Notify
    /\ UNCHANGED <<state_, running, setCallbackComplete_, omxCallback_,
                   bufferId_, flushing, reported>>

OnEmptyBufferDone(id) == BufferDone("in", id)

OnFillBufferDone(id) == BufferDone("out", id)

\* OnEvent(EVENT_FLUSH_COMPLETE) once the port's buffers are all back.
FlushDone(p) ==
    /\ NoticeRoom /\ p \in flushing /\ engineBufs[p] = {}
    /\ flushing' = flushing \ {p}
    /\ notices' = Notify
    /\ UNCHANGED <<state_, running, setCallbackComplete_, omxCallback_,
                   bufferId_, engineBufs, reported>>

\* OnEvent for an error, end of stream or unknown event.
OnEvent(ev) ==
    /\ NoticeRoom
    /\ notices' = Notify
    /\ UNCHANGED <<state_, running, setCallbackComplete_, omxCallback_,
                   bufferId_, engineBufs, flushing, reported>>

-----------------------------------------------------------------------------
Next ==
    \/ SetCallbacks
    \/ SendCommand
    \/ GetParameter \/ SetParameter \/ GetState \/ NotSupported
    \/ \E p \in Ports : FreeBuffer(p)
    \/ \E p \in Ports : UseBuffer(p) \/ AllocateBuffer(p)
    \/ \E id \in BufIds : EmptyThisBuffer(id) \/ FillThisBuffer(id)
    \/ \E id \in BufIds : OnEmptyBufferDone(id) \/ OnFillBufferDone(id)
    \/ \E p \in Ports : FlushDone(p)
    \/ \E ev \in EngineEvents : OnEvent(ev)

Spec == Init /\ [][Next]_vars

-----------------------------------------------------------------------------
(* Properties *)

TypeOK ==
    /\ state_ \in States
    /\ running \in BOOLEAN
    /\ setCallbackComplete_ \in BOOLEAN
    /\ omxCallback_ \in {"null", "client"}
    /\ bufferId_ \in 0 .. MaxBuffers
    /\ engineBufs \in [Ports -> SUBSET BufIds]
    /\ flushing \subseteq Ports
    /\ reported \in Seq(OmxStates) /\ Len(reported) <= MaxReports
    /\ notices \in 0 .. MaxNotices

\* Refinement: through ChangeComponentState's engine calls, SetState's switch
\* and the EventHandler call, the node moves only along the edges of the OMX
\* IL state diagram and reports each move once, in order, with its state.
Omx == INSTANCE OmxComponent
           WITH state <- IF state_ = "Max" THEN "Created" ELSE state_,
                reported <- reported
OmxRefinement == Omx!Spec

\* ChangeComponentState never leaves the node in Executing unless the engine
\* was started: a failed CodecStart must not reach SetState(Executing).
ExecutingImpliesRunning == state_ = "Executing" => running

\* The engine runs only while the node is Executing: every way out of
\* Executing stops it and no failed command leaves it started.
RunningOnlyWhenExecuting == running => state_ = "Executing"
=============================================================================
