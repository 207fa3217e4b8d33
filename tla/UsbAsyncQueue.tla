---------------------------- MODULE UsbAsyncQueue ----------------------------
(***************************************************************************)
(* The asynchronous request pool and completion queue of one HostDevice   *)
(* of the USB host HDI service (usb_impl.cpp): RequestQueue, RequestWait  *)
(* and RequestCancel called by client threads, and the host controller    *)
(* completing submitted transfers on its own thread.                      *)
(*                                                                         *)
(* An entry of reqASyncList is a number in Entries; reqList holds the      *)
(* entries in list order, requestQueue the completion FIFO.  A client     *)
(* thread is a program counter pc[c] and the entry ent[c] it works on;    *)
(* each step is the code between two points where another thread can     *)
(* observe or change the shared state (a lock release or a call into the  *)
(* host library).  A RequestQueue call is numbered by ncall; subOf[e] is  *)
(* the call whose transfer was last submitted on e and inflight[e] the    *)
(* calls whose transfers the host controller has not completed yet.       *)
(***************************************************************************)
EXTENDS Naturals, Sequences, SequencesExt, FiniteSets

CONSTANTS
    Clients,              \* threads calling the HDI interface
    Pipes,                \* (interfaceId, endpoint) pairs of the device
    ClientPipes,          \* ClientPipes[c]: the pipes thread c queues on
    MAX_REQUESTASYNC_NUM, \* per-pipe cap of reqASyncList (usbd.h)
    MaxCalls,             \* bound: RequestQueue calls in one behaviour
    MaxEntries,           \* bound: entries ever created
    NoEntry               \* ent[c] of a thread that holds no entry

ASSUME /\ MAX_REQUESTASYNC_NUM \in Nat \ {0}
       /\ MaxCalls \in Nat /\ MaxEntries \in Nat
       /\ ClientPipes \in [Clients -> SUBSET Pipes]

Entries == 1..MaxEntries
Calls == 1..MaxCalls

VARIABLES
    reqList,      \* port->reqASyncList, entries in list order
    pipeOf,       \* req->pipe
    status,       \* req->status: 0 free, 1 in use
    compPending,  \* reqMsg.request->compInfo.status == -1
    sem,          \* hostRequest->sem count
    inflight,     \* calls submitted on e and not yet completed
    subOf,        \* call of the last successful submit on e
    requestQueue, \* port->requestQueue
    ncall,        \* RequestQueue calls made so far
    callNo,       \* the RequestQueue call thread c is in
    pipeArg,      \* pipe argument of thread c's RequestQueue call
    pc, ent

vars == <<reqList, pipeOf, status, compPending, sem, inflight, subOf,
          requestQueue, ncall, callNo, pipeArg, pc, ent>>

Pcs == {"idle", "rq_create", "rq_mark", "rq_alloc", "rq_submit",
        "rq_enqueue", "rw_wait", "rw_data", "rw_copy", "rc_loop"}

\* Program points at which thread c holds a pointer to ent[c] as its own.
HoldingPcs == {"rq_mark", "rq_alloc", "rq_submit", "rq_enqueue",
               "rw_wait", "rw_data", "rw_copy"}

Created == ToSet(reqList)

\* The entries of pipe p, in list order.
PipeEntries(p) == SelectSeq(reqList, LAMBDA e : pipeOf[e] = p)

\* Mutant of ScanFree: the scan takes an entry whatever its status.
ScanFreeAnyStatus(p) == DOMAIN PipeEntries(p)

\* The positions among PipeEntries(p) the scan of UsbdFindRequestASync
\* stops at: entries whose status is 0.
ScanFree(p) == {i \in DOMAIN PipeEntries(p) : status[PipeEntries(p)[i]] = 0}

\* reqnum < MAX_REQUESTASYNC_NUM: another entry may be created.
BelowCap(n) == n < MAX_REQUESTASYNC_NUM

\* Mutant of Requeue: a timed-out entry goes back to the tail.
RequeueTail(q, e) == Append(q, e)

\* HdfSListAdd: a timed-out wait puts the entry back at the front.
Requeue(q, e) == <<e>> \o q

Goto(c, l) == pc' = [pc EXCEPT ![c] = l]

Init ==
    /\ reqList = <<>>
    /\ pipeOf = [e \in Entries |-> CHOOSE p \in Pipes : TRUE]
    /\ status = [e \in Entries |-> 0]
    /\ compPending = [e \in Entries |-> FALSE]
    /\ sem = [e \in Entries |-> 0]
    /\ inflight = [e \in Entries |-> {}]
    /\ subOf = [e \in Entries |-> 0]
    /\ requestQueue = <<>>
    /\ ncall = 0
    /\ callNo = [c \in Clients |-> 0]
    /\ pipeArg = [c \in Clients |-> CHOOSE p \in Pipes : TRUE]
    /\ pc = [c \in Clients |-> "idle"]
    /\ ent = [c \in Clients |-> NoEntry]

-----------------------------------------------------------------------------
(* RequestQueue(dev, pipe, clientData, buffer)                            *)

\* UsbdFindRequestASync, the scan under reqASyncLock: the first free entry
\* of the pipe is taken; with none free a new one is created while fewer
\* than MAX_REQUESTASYNC_NUM exist, else the call fails with DEVICE_BUSY.
\* The lock is released before the entry is marked or created.
RqFind(c) ==
    /\ pc[c] = "idle"
    /\ ncall < MaxCalls
    /\ ncall' = ncall + 1
    /\ callNo' = [callNo EXCEPT ![c] = ncall + 1]
    /\ \E p \in ClientPipes[c] :
         LET pes == PipeEntries(p) IN
         /\ pipeArg' = [pipeArg EXCEPT ![c] = p]
         /\ \/ /\ ScanFree(p) # {}
               /\ ent' = [ent EXCEPT ![c] = pes[Min(ScanFree(p))]]
               /\ Goto(c, "rq_mark")
            \/ /\ ScanFree(p) = {}
               /\ BelowCap(Len(pes))
               /\ Goto(c, "rq_create")
               /\ UNCHANGED ent
            \/ /\ ScanFree(p) = {}
               /\ ~BelowCap(Len(pes))
               /\ UNCHANGED <<pc, ent>>
    /\ UNCHANGED <<reqList, pipeOf, status, compPending, sem, inflight,
                   subOf, requestQueue>>

\* UsbdDispatcher::UsbdRequestASyncCreatAndInsert: a new free entry for the
\* pipe is linked into reqASyncList (at a position the dispatcher chooses),
\* or allocation fails and RequestQueue returns DEVICE_BUSY.
RqCreate(c) ==
    /\ pc[c] = "rq_create"
    /\ \/ /\ Len(reqList) < MaxEntries
          /\ LET e == Len(reqList) + 1 IN
               /\ \E i \in 1..Len(reqList) + 1 :
                    reqList' = InsertAt(reqList, i, e)
               /\ pipeOf' = [pipeOf EXCEPT ![e] = pipeArg[c]]
               /\ ent' = [ent EXCEPT ![c] = e]
          /\ Goto(c, "rq_mark")
       \/ /\ Goto(c, "idle")
          /\ UNCHANGED <<reqList, pipeOf, ent>>
    /\ UNCHANGED <<status, compPending, sem, inflight, subOf, requestQueue,
                   ncall, callNo, pipeArg>>

\* req->status = 1 under req->lock, after the scan's lock was released.
RqMark(c) ==
    /\ pc[c] = "rq_mark"
    /\ status' = [status EXCEPT ![ent[c]] = 1]
    /\ Goto(c, "rq_alloc")
    /\ UNCHANGED <<reqList, pipeOf, compPending, sem, inflight, subOf,
                   requestQueue, ncall, callNo, pipeArg, ent>>

\* The two OsalMemAlloc calls for clientData and buffer.  When one fails
\* RequestQueue returns INVALID_PARAM and leaves the entry's status at 1.
RqAlloc(c) ==
    /\ pc[c] = "rq_alloc"
    /\ \/ /\ Goto(c, "rq_submit")
          /\ UNCHANGED ent
       \/ /\ Goto(c, "idle")
          /\ ent' = [ent EXCEPT ![c] = NoEntry]
    /\ UNCHANGED <<reqList, pipeOf, status, compPending, sem, inflight,
                   subOf, requestQueue, ncall, callNo, pipeArg>>

\* FunRequestQueueFillAndSubmit up to the submit: UsbFillRequest, then
\* OsalSemInit(sem, 0) and UsbSubmitRequestAsync.  A fill or submit
\* failure frees the entry (status 0) and RequestQueue frees the buffers.
\* A submitted transfer is pending (compInfo.status -1) until it completes.
RqSubmit(c) ==
    /\ pc[c] = "rq_submit"
    /\ LET e == ent[c] IN
       \/ /\ status' = [status EXCEPT ![e] = 0]
          /\ UNCHANGED <<compPending, sem, inflight, subOf>>
          /\ Goto(c, "idle")
          /\ ent' = [ent EXCEPT ![c] = NoEntry]
       \/ /\ sem' = [sem EXCEPT ![e] = 0]
          /\ status' = [status EXCEPT ![e] = 0]
          /\ UNCHANGED <<compPending, inflight, subOf>>
          /\ Goto(c, "idle")
          /\ ent' = [ent EXCEPT ![c] = NoEntry]
       \/ /\ sem' = [sem EXCEPT ![e] = 0]
          /\ compPending' = [compPending EXCEPT ![e] = TRUE]
          /\ inflight' = [inflight EXCEPT ![e] = @ \cup {callNo[c]}]
          /\ subOf' = [subOf EXCEPT ![e] = callNo[c]]
          /\ Goto(c, "rq_enqueue")
          /\ UNCHANGED <<status, ent>>
    /\ UNCHANGED <<reqList, pipeOf, requestQueue, ncall, callNo, pipeArg>>

\* HdfSListAddTail(&port->requestQueue) under requestLock; RequestQueue
\* returns success.
RqEnqueue(c) ==
    /\ pc[c] = "rq_enqueue"
    /\ requestQueue' = Append(requestQueue, ent[c])
    /\ Goto(c, "idle")
    /\ ent' = [ent EXCEPT ![c] = NoEntry]
    /\ UNCHANGED <<reqList, pipeOf, status, compPending, sem, inflight,
                   subOf, ncall, callNo, pipeArg>>

-----------------------------------------------------------------------------
(* RequestWait(dev, clientData, buffer, timeout)                          *)

\* GetRequestMsgFromQueue: HdfSListPop under requestLock; an empty queue
\* returns HDF_FAILURE.
GetRequestMsgFromQueue ==
    /\ requestQueue # <<>>
    /\ requestQueue' = Tail(requestQueue)

\* UsbdRequestASyncReleaseData: frees reqMsg.buffer and clientData, clears
\* their lengths and sets status = 0.
UsbdRequestASyncReleaseData(e) == status' = [status EXCEPT ![e] = 0]

\* RequestWait pops the oldest request (failing without a change when the
\* queue is empty) and waits on its semaphore only when compInfo.status is
\* still -1.
RwPop(c) ==
    /\ pc[c] = "idle"
    /\ GetRequestMsgFromQueue
    /\ LET e == Head(requestQueue) IN
         /\ ent' = [ent EXCEPT ![c] = e]
         /\ Goto(c, IF compPending[e] THEN "rw_wait" ELSE "rw_data")
    /\ UNCHANGED <<reqList, pipeOf, status, compPending, sem, inflight,
                   subOf, ncall, callNo, pipeArg>>

\* Mutant of RwWaitWake: the wait's result is not checked.
RwWaitWakeUnguarded(c) ==
    /\ pc[c] = "rw_wait"
    /\ sem' = [sem EXCEPT ![ent[c]] = @ - 1]
    /\ Goto(c, "rw_data")
    /\ UNCHANGED <<reqList, pipeOf, status, compPending, inflight, subOf,
                   requestQueue, ncall, callNo, pipeArg, ent>>

\* OsalSemWait returns success once the semaphore has been posted.
RwWaitWake(c) ==
    /\ pc[c] = "rw_wait"
    /\ sem[ent[c]] > 0
    /\ sem' = [sem EXCEPT ![ent[c]] = @ - 1]
    /\ Goto(c, "rw_data")
    /\ UNCHANGED <<reqList, pipeOf, status, compPending, inflight, subOf,
                   requestQueue, ncall, callNo, pipeArg, ent>>

\* OsalSemWait times out (the semaphore is not posted): the entry is put
\* back at the front of requestQueue under requestLock and the timeout is
\* returned.  GetRequestMsgData, reached with compInfo.status -1, waits
\* again and times out the same way.
RwWaitTimeout(c) ==
    /\ \/ pc[c] = "rw_wait"
       \/ pc[c] = "rw_data" /\ compPending[ent[c]]
    /\ sem[ent[c]] = 0
    /\ requestQueue' = Requeue(requestQueue, ent[c])
    /\ Goto(c, "idle")
    /\ ent' = [ent EXCEPT ![c] = NoEntry]
    /\ UNCHANGED <<reqList, pipeOf, status, compPending, sem, inflight,
                   subOf, ncall, callNo, pipeArg>>

\* GetRequestMsgData: (after its own wait when compInfo.status is still
\* -1) takes reqMsg.buffer and sets status = 0 under req->lock.
RwData(c) ==
    /\ pc[c] = "rw_data"
    /\ compPending[ent[c]] => sem[ent[c]] > 0
    /\ sem' = IF compPending[ent[c]]
                THEN [sem EXCEPT ![ent[c]] = @ - 1] ELSE sem
    /\ status' = [status EXCEPT ![ent[c]] = 0]
    /\ Goto(c, "rw_copy")
    /\ UNCHANGED <<reqList, pipeOf, compPending, inflight, subOf,
                   requestQueue, ncall, callNo, pipeArg, ent>>

\* RequestWait copies reqMsg.clientData and compInfo.buffer out, then
\* UsbdRequestASyncReleaseData frees them and sets status = 0 again.
RwCopy(c) ==
    /\ pc[c] = "rw_copy"
    /\ UsbdRequestASyncReleaseData(ent[c])
    /\ Goto(c, "idle")
    /\ ent' = [ent EXCEPT ![c] = NoEntry]
    /\ UNCHANGED <<reqList, pipeOf, compPending, sem, inflight, subOf,
                   requestQueue, ncall, callNo, pipeArg>>

-----------------------------------------------------------------------------
(* RequestCancel(dev, pipe)                                               *)

RcStart(c) ==
    /\ pc[c] = "idle"
    /\ Goto(c, "rc_loop")
    /\ UNCHANGED <<reqList, pipeOf, status, compPending, sem, inflight,
                   subOf, requestQueue, ncall, callNo, pipeArg, ent>>

\* One turn of the loop: pop an entry, UsbCancelRequest (which asks the
\* host controller to abort; the transfer still completes later, and a
\* failure is only logged), UsbdRequestASyncReleaseData and status = 0.
\* The loop ends when GetRequestMsgFromQueue finds the queue empty.
RcStep(c) ==
    /\ pc[c] = "rc_loop"
    /\ \/ /\ GetRequestMsgFromQueue
          /\ UsbdRequestASyncReleaseData(Head(requestQueue))
          /\ UNCHANGED pc
       \/ /\ requestQueue = <<>>
          /\ Goto(c, "idle")
          /\ UNCHANGED <<status, requestQueue>>
    /\ UNCHANGED <<reqList, pipeOf, compPending, sem, inflight, subOf,
                   ncall, callNo, pipeArg, ent>>

-----------------------------------------------------------------------------
(* The host controller                                                     *)

\* A submitted transfer of entry e completes (normally or cancelled): the
\* completion callback stores compInfo and posts the entry's semaphore.
HcComplete(e) ==
    /\ \E k \in inflight[e] :
         inflight' = [inflight EXCEPT ![e] = @ \ {k}]
    /\ compPending' = [compPending EXCEPT ![e] = FALSE]
    /\ sem' = [sem EXCEPT ![e] = @ + 1]
    /\ UNCHANGED <<reqList, pipeOf, status, subOf, requestQueue, ncall,
                   callNo, pipeArg, pc, ent>>

Next ==
    \/ \E c \in Clients :
         \/ RqFind(c) \/ RqCreate(c) \/ RqMark(c) \/ RqAlloc(c)
         \/ RqSubmit(c) \/ RqEnqueue(c)
         \/ RwPop(c) \/ RwWaitWake(c) \/ RwWaitTimeout(c) \/ RwData(c)
         \/ RwCopy(c)
         \/ RcStart(c) \/ RcStep(c)
    \/ \E e \in Entries : HcComplete(e)

Spec == Init /\ [][Next]_vars

-----------------------------------------------------------------------------
(* Properties                                                              *)

TypeOK ==
    /\ reqList \in Seq(Entries)
    /\ pipeOf \in [Entries -> Pipes]
    /\ status \in [Entries -> {0, 1}]
    /\ compPending \in [Entries -> BOOLEAN]
    /\ sem \in [Entries -> 0..MaxCalls]
    /\ inflight \in [Entries -> SUBSET Calls]
    /\ subOf \in [Entries -> 0..MaxCalls]
    /\ requestQueue \in Seq(Created)
    /\ ncall \in 0..MaxCalls
    /\ callNo \in [Clients -> 0..MaxCalls]
    /\ pc \in [Clients -> Pcs]
    /\ ent \in [Clients -> Entries \cup {NoEntry}]

Holders(e) == {c \in Clients : pc[c] \in HoldingPcs /\ ent[c] = e}

Queued(e) == Len(SelectSeq(requestQueue, LAMBDA x : x = e))

\* An async entry has one owner at a time: the thread that claimed it in
\* RequestQueue or popped it in RequestWait, or the completion queue.  Two
\* owners means two calls use one transfer request, or one qNode is linked
\* into requestQueue twice.
SingleOwner ==
    \A e \in Created : Cardinality(Holders(e)) + Queued(e) <= 1

\* An entry in use (status 1) is owned by a thread or queued for
\* RequestWait: every failure path of RequestQueue frees the entry, so a
\* pipe cannot run out of entries while none is used.
NoOrphanInUse ==
    \A e \in Created :
        status[e] = 1 => Holders(e) # {} \/ Queued(e) > 0

\* RequestWait hands over a request only after the transfer submitted by
\* that request's own RequestQueue call has completed.
WaitAfterOwnCompletion ==
    \A c \in Clients :
        pc[c] = "rw_copy" => subOf[ent[c]] \notin inflight[ent[c]]
\* The requests RequestWait has popped but not yet taken (it may still
\* time out and put them back), followed by requestQueue, as call numbers.
WaitingCalls == SetToSeq({subOf[ent[c]] : c \in {d \in Clients : pc[d] \in {"rw_wait", "rw_data"}}})
PendingCalls == WaitingCalls \o [i \in DOMAIN requestQueue |-> subOf[requestQueue[i]]]

\* Refinement: with one calling thread, RequestQueue, RequestWait (with its
\* timeouts and requeues) and RequestCancel keep the submitted requests in
\* a FIFO: each is taken once, oldest first, and a timed-out wait puts its
\* request back where it was.
Fifo == INSTANCE UsbRequestFifo WITH fifo <- PendingCalls
FifoRefinement == Fifo!Spec
=============================================================================
