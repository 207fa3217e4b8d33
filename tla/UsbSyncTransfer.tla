--------------------------- MODULE UsbSyncTransfer ---------------------------
(***************************************************************************)
(* The synchronous transfers of the USB host HDI service (usb_impl.cpp):   *)
(* Bulk/Interrupt/IsoTransferRead and -Write and ControlTransferRead and  *)
(* -Write of one calling thread.  A pipe call looks up (or lazily creates) *)
(* the pipe's UsbdRequestSync, checks the pipe, then runs the chunk loop   *)
(* of UsbdBulkReadSyncBase or UsbdBulkWriteSyncBase, one step per chunk    *)
(* submitted to the host controller.  A control call goes through          *)
(* UsbControlTransferEx and the device's shared control request.  Byte counts keep the code's widths: the write loop's       *)
(* cursor is a uint16_t.  Time is counted in 500 ms chunk timeouts.        *)
(***************************************************************************)
EXTENDS Naturals, FiniteSets, FiniteSetsExt

CONSTANTS
    Pipes,          \* endpoints of the device
    PipeType,       \* PipeType[p] \in {"bulk", "interrupt", "iso"}
    PipeDir,        \* PipeDir[p] \in {"in", "out"}
    MaxPacketSize,  \* requestSync->pipe.maxPacketSize
    READ_BUF_SIZE,  \* size of the tbuf the read wrappers pass
    MAX_CONTROL_BUFF_SIZE, \* buffer of a control read and of ctrlReq
    ShortLen,       \* actualLength of a short (non-empty) packet
    WriteLengths,   \* data.size() of the write calls
    MaxChunks,      \* bound on the chunks of one write call
    Budgets         \* caller timeouts in units of the 500 ms chunk timeout;
                    \* 0 is "no timeout" (timeout <= 0 in the code)

ASSUME /\ MaxPacketSize \in Nat \ {0}
       /\ ShortLen \in 1..MaxPacketSize - 1
       /\ READ_BUF_SIZE \in Nat
       /\ WriteLengths \subseteq Nat \ {0}
       /\ Budgets \subseteq Nat

\* Mutant of U16: the cursor and chunk size declared uint8_t.
U8(n) == n % 256

\* uint16_t arithmetic of UsbdBulkWriteSyncBase.
U16(n) == n % 65536

PipeKinds == {"bulk", "interrupt", "iso"}
Kinds == PipeKinds \cup {"control"}
Ops == Kinds \X {"read", "write"}

VARIABLES
    syncEntry,  \* pipes that have a UsbdRequestSync in reqSyncList
    ctrlReq,    \* dev->ctrlReq has been allocated
    actualLen,  \* compInfo.actualLength of the last control transfer
    dataOut,    \* bytes a control read assigns to the caller's data
    pc,         \* program counter of the calling thread
    op,         \* the API being called: <<kind, direction>>
    pipe,       \* its pipe argument
    len,        \* size of the transfer (READ_BUF_SIZE for reads)
    budget,     \* caller timeout, in chunk timeouts
    waited,     \* chunk timeouts seen so far in this call
    tcur,       \* the loop's byte cursor
    sent,       \* bytes handed to the host controller by this write
    chunks,     \* chunks submitted by this call
    ret         \* the loop's / call's return code

vars == <<syncEntry, ctrlReq, actualLen, dataOut, pc, op, pipe, len, budget,
          waited, tcur, sent, chunks, ret>>

\* Variables of the control path, left alone by the pipe transfers.
ctrlVars == <<ctrlReq, actualLen, dataOut>>

Rets == {"ok", "failure", "timeout", "invalid", "error"}

Init ==
    /\ syncEntry = {}
    /\ ctrlReq = FALSE /\ actualLen = 0 /\ dataOut = 0
    /\ pc = "idle"
    /\ op = <<"bulk", "read">>
    /\ pipe = CHOOSE p \in Pipes : TRUE
    /\ len = 0 /\ budget = 0 /\ waited = 0
    /\ tcur = 0 /\ sent = 0 /\ chunks = 0
    /\ ret = "ok"

\* A thread calls transfer API o: FindDevFromService has found the device.
\* A read passes its fixed buffer; a write passes one of WriteLengths.  A
\* control call has no pipe argument.  Only a pipe read's timeout is kept:
\* that of a write or a control call bounds each submit, whose timing out
\* is one of the submit's failures.
Call(o) ==
    /\ pc = "idle"
    /\ op' = o
    /\ \E p \in IF o[1] = "control" THEN {pipe} ELSE Pipes,
          b \in IF o[1] \in PipeKinds /\ o[2] = "read" THEN Budgets ELSE {0} :
         pipe' = p /\ budget' = b
    /\ len' \in CASE o = <<"control", "read">> -> {MAX_CONTROL_BUFF_SIZE}
                [] o[2] = "read" -> {READ_BUF_SIZE}
                [] OTHER -> WriteLengths
    /\ pc' = IF o[1] = "control" THEN "ctrl_dir" ELSE "find"
    /\ waited' = 0 /\ tcur' = 0 /\ sent' = 0 /\ chunks' = 0
    /\ ret' = "failure"
    /\ dataOut' = 0
    /\ UNCHANGED <<syncEntry, ctrlReq, actualLen>>

BulkTransferRead == Call(<<"bulk", "read">>)
BulkTransferWrite == Call(<<"bulk", "write">>)
InterruptTransferRead == Call(<<"interrupt", "read">>)
InterruptTransferWrite == Call(<<"interrupt", "write">>)
IsoTransferRead == Call(<<"iso", "read">>)
IsoTransferWrite == Call(<<"iso", "write">>)
ControlTransferRead == Call(<<"control", "read">>)
ControlTransferWrite == Call(<<"control", "write">>)

\* UsbdFindRequestSyncAndCreat: an existing entry of the pipe is used;
\* otherwise GetPipe, InterfaceIdToHandle, UsbdRequestSyncAlloc and
\* UsbdRequestSyncInit create one, and a failure of any of them ends the
\* call with its error.
FindRequestSync ==
    /\ pc = "find"
    /\ \/ /\ pipe \in syncEntry
          /\ pc' = "check"
          /\ UNCHANGED <<syncEntry, ret>>
       \/ /\ pipe \notin syncEntry
          /\ syncEntry' = syncEntry \cup {pipe}
          /\ pc' = "check"
          /\ UNCHANGED ret
       \/ /\ pipe \notin syncEntry
          /\ ret' = "error"
          /\ pc' = "done"
          /\ UNCHANGED syncEntry
    /\ UNCHANGED <<ctrlVars, op, pipe, len, budget, waited, tcur, sent, chunks>>

\* Every wrapper rejects a pipe of the wrong direction and every pipe whose
\* type is not USB_PIPE_TYPE_BULK, Interrupt* and Iso* calls included.
CheckPipe ==
    /\ pc = "check"
    /\ IF PipeDir[pipe] = (IF op[2] = "read" THEN "in" ELSE "out")
          /\ PipeType[pipe] = "bulk"
         THEN pc' = op[2] /\ UNCHANGED ret
         ELSE pc' = "done" /\ ret' = "invalid"
    /\ UNCHANGED <<syncEntry, ctrlVars, op, pipe, len, budget, waited, tcur, sent,
                   chunks>>

\* Mutant of WrapperResult: UsbdBulkReadSyncBase's result is passed on.
WrapperResultPassThrough(r, n) == r

\* The read wrappers: the call succeeds whenever bytes were read,
\* whatever UsbdBulkReadSyncBase returned.
WrapperResult(r, n) == IF n > 0 THEN "ok" ELSE r

\* Mutant of Retry: the elapsed-time check is dropped.
RetryAlways(w) == TRUE

\* intTimeout == 0 || ntime < stime + intTimeout, after w chunk timeouts:
\* an empty read is retried.
Retry(w) == budget = 0 \/ w < budget

\* Mutant of RoomForPacket: the loop runs while tcur < size.
RoomForPacketLoose(t) == t < len

\* The read loop's condition: a whole packet still fits into the buffer.
RoomForPacket(t) == t + MaxPacketSize < len

\* Mutant of ChunkSize: the two arms of the minimum swapped.
ChunkSizeSwapped(rest) == IF rest < MaxPacketSize THEN MaxPacketSize ELSE rest

\* tsize = (length - tcur) < msize ? (length - tcur) : msize, as uint16_t.
ChunkSize(rest) == U16(IF rest < MaxPacketSize THEN rest ELSE MaxPacketSize)

ReadEnds(r, n) ==
    /\ pc' = "done"
    /\ ret' = WrapperResult(r, n)

\* A turn of the loop of UsbdBulkReadSyncBase, entered while
\* tcur + msize < size, starts with UsbFillRequest; its failure ends the
\* read.  Otherwise the chunk is submitted with the 500 ms chunk timeout.
ReadSubmit ==
    /\ pc = "read"
    /\ RoomForPacket(tcur)
    /\ \/ pc' = "read_wait" /\ UNCHANGED ret
       \/ ReadEnds("error", tcur)
    /\ UNCHANGED <<syncEntry, ctrlVars, op, pipe, len, budget, waited, tcur, sent,
                   chunks>>

\* UsbSubmitRequestSync returns.  A completed chunk adds its actualLength
\* (a full packet, a short packet or a zero-length packet) and the loop
\* goes on.  A chunk timeout ends the read with success once bytes were
\* read, and is retried while the caller's timeout has not elapsed (or is
\* 0).  Any other error ends the read.
ReadComplete ==
    /\ pc = "read_wait"
    /\ \/ \E a \in {0, ShortLen, MaxPacketSize} :
            /\ tcur' = tcur + a
            /\ ret' = "ok"
            /\ pc' = "read"
            /\ UNCHANGED waited
       \/ /\ tcur > 0
          /\ ReadEnds("ok", tcur)
          /\ UNCHANGED <<tcur, waited>>
       \/ /\ tcur = 0
          /\ waited' = IF budget = 0 THEN waited ELSE waited + 1
          /\ IF Retry(waited')
               THEN ret' = "timeout" /\ pc' = "read"
               ELSE ReadEnds("timeout", 0)
          /\ UNCHANGED tcur
       \/ ReadEnds("error", tcur) /\ UNCHANGED <<tcur, waited>>
    /\ UNCHANGED <<syncEntry, ctrlVars, op, pipe, len, budget, sent, chunks>>

\* The loop condition tcur + msize < size fails: *actlength = tcur.
ReadEnd ==
    /\ pc = "read"
    /\ ~RoomForPacket(tcur)
    /\ ReadEnds(ret, tcur)
    /\ UNCHANGED <<syncEntry, ctrlVars, op, pipe, len, budget, waited, tcur, sent,
                   chunks>>

\* One turn of the loop of UsbDBulkWriteSyncBase, entered while
\* tcur < length: tsize = min(length - tcur, msize), tcur += tsize (both
\* uint16_t), then UsbFillRequest and UsbSubmitRequestSync of the chunk at
\* buffer + tcur; a failure of either ends the write with its error.
WriteChunk ==
    /\ pc = "write"
    /\ tcur < len /\ chunks < MaxChunks
    /\ LET tsize == ChunkSize(len - tcur) IN /\ tcur' = U16(tcur + tsize)
          /\ \/ /\ sent' = sent + tsize
                /\ chunks' = chunks + 1
                /\ ret' = "ok"
                /\ UNCHANGED pc
             \/ /\ pc' = "done"
                /\ ret' = "error"
                /\ UNCHANGED <<sent, chunks>>
    /\ UNCHANGED <<syncEntry, ctrlVars, op, pipe, len, budget, waited>>

\* The loop condition tcur < length fails: the write returns ret.
WriteEnd ==
    /\ pc = "write"
    /\ ~(tcur < len)
    /\ pc' = "done"
    /\ UNCHANGED <<syncEntry, ctrlVars, op, pipe, len, budget, waited, tcur, sent,
                   chunks, ret>>

\* ControlTransferRead and -Write: bit 7 of ctrl.requestType must be the
\* call's direction, else HDF_FAILURE.  A read then allocates its
\* MAX_CONTROL_BUFF_SIZE buffer (which may fail).  The device's
\* ctrDevHandle is open.
ControlCheckDir ==
    /\ pc = "ctrl_dir"
    /\ \E dir \in {"in", "out"} :
         IF dir # (IF op[2] = "read" THEN "in" ELSE "out")
         THEN pc' = "done" /\ ret' = "failure"
         ELSE \/ pc' = "ctrl_xfer" /\ UNCHANGED ret
              \/ op[2] = "read" /\ pc' = "done" /\ ret' = "error"
    /\ UNCHANGED <<syncEntry, ctrlVars, op, pipe, len, budget, waited, tcur,
                   sent, chunks>>

\* Mutant of CtrlSize: the size is left as the caller gave it.
CtrlSizeUnclamped(size, a) == size

\* ctrParams->size after a read: the smaller of size and actualLength.
CtrlSize(size, a) == IF size < a THEN size ELSE a

\* UsbControlTransferEx: allocate dev->ctrlReq on first use (failure:
\* HDF_ERR_MALLOC_FAIL), then UsbControlSetUp, UsbFillRequest and
\* UsbSubmitRequestSync, any of which may fail.  A read copies
\* actualLength bytes out of the request and clamps ctrParams->size; the
\* copy cannot fail, as actualLength is at most the request's
\* MAX_CONTROL_BUFF_SIZE.
UsbControlTransferEx ==
    /\ pc = "ctrl_xfer"
    /\ \/ /\ ~ctrlReq
          /\ ret' = "error"
          /\ UNCHANGED <<ctrlReq, actualLen, len>>
       \/ /\ ctrlReq' = TRUE
          /\ \/ ret' = "error" /\ UNCHANGED <<actualLen, len>>
             \/ /\ op[2] = "write"
                /\ ret' = "ok" /\ UNCHANGED <<actualLen, len>>
             \/ /\ op[2] = "read"
                /\ \E a \in {0, ShortLen, MAX_CONTROL_BUFF_SIZE} :
                     actualLen' = a /\ len' = CtrlSize(len, a)
                /\ ret' = "ok"
    /\ pc' = "ctrl_ret"
    /\ UNCHANGED <<syncEntry, dataOut, op, pipe, budget, waited, tcur, sent,
                   chunks>>

\* ControlTransferRead assigns controlParams.size bytes to data whatever
\* UsbControlTransferEx returned; both wrappers return its result.
ControlReturn ==
    /\ pc = "ctrl_ret"
    /\ dataOut' = IF op[2] = "read" THEN len ELSE 0
    /\ pc' = "done"
    /\ UNCHANGED <<syncEntry, ctrlReq, actualLen, op, pipe, len, budget, waited,
                   tcur, sent, chunks, ret>>

\* The call returns to the thread, which may call again.
Return ==
    /\ pc = "done"
    /\ pc' = "idle"
    /\ UNCHANGED <<syncEntry, ctrlVars, op, pipe, len, budget, waited, tcur, sent,
                   chunks, ret>>

Step == FindRequestSync \/ CheckPipe \/ ReadSubmit \/ ReadComplete \/ ReadEnd
        \/ WriteChunk \/ WriteEnd \/ ControlCheckDir \/ UsbControlTransferEx
        \/ ControlReturn \/ Return

Next == \/ BulkTransferRead \/ BulkTransferWrite
        \/ InterruptTransferRead \/ InterruptTransferWrite
        \/ IsoTransferRead \/ IsoTransferWrite
        \/ ControlTransferRead \/ ControlTransferWrite
        \/ Step

\* The calling thread runs its call to the end once it has made it; the
\* device's answers to each chunk are not constrained.
Spec == Init /\ [][Next]_vars /\ WF_vars(Step)

-----------------------------------------------------------------------------
(* Properties                                                              *)

TypeOK ==
    /\ syncEntry \subseteq Pipes
    /\ pc \in {"idle", "find", "check", "read", "read_wait", "write", "done",
              "ctrl_dir", "ctrl_xfer", "ctrl_ret"}
    /\ ctrlReq \in BOOLEAN
    /\ actualLen \in {0, ShortLen, MAX_CONTROL_BUFF_SIZE}
    /\ dataOut \in 0..MAX_CONTROL_BUFF_SIZE
    /\ op \in Ops /\ pipe \in Pipes
    /\ len \in WriteLengths \cup {READ_BUF_SIZE, MAX_CONTROL_BUFF_SIZE, ShortLen, 0}
    /\ budget \in Budgets \cup {0}
    /\ waited \in 0..(IF Budgets = {} THEN 0 ELSE Max(Budgets))
    /\ tcur \in 0..65535
    /\ sent \in Nat /\ chunks \in 0..MaxChunks
    /\ ret \in Rets

CeilDiv(a, b) == (a + b - 1) \div b

\* A write of K bytes that returns success has handed exactly K bytes to
\* the host controller in ceil(K / maxPacketSize) chunks (spec: 300 bytes
\* with maxPacketSize 64 are five chunks, 64 x 4 + 44).
WriteSendsExactly ==
    pc = "done" /\ op[1] \in PipeKinds /\ op[2] = "write" /\ ret = "ok" =>
        /\ sent = len
        /\ chunks = CeilDiv(len, MaxPacketSize)

\* A write never hands the host controller more bytes than the caller
\* passed: the chunk at buffer + tcur always lies inside data.
WriteNeverResends == op[2] = "write" => sent <= len

\* The read loop never copies beyond tbuf: memcpy_s at tbuf + tcur of
\* actualLength bytes keeps tcur within READ_BUF_SIZE.
ReadWithinBuffer == op[2] = "read" => tcur <= len

\* A read call succeeds exactly when it returns bytes: data is assigned
\* whenever actlength > 0, and a failure returns none.
ReadOutcome ==
    pc = "done" /\ op[1] \in PipeKinds /\ op[2] = "read" =>
        (ret = "ok" <=> tcur > 0)

\* A control read that succeeds hands the caller exactly the bytes the
\* device transferred: UsbControlTransferEx clamps the size to
\* min(requested, actualLength) and ControlTransferRead assigns that many
\* (spec, control transfers).
ControlReadLength ==
    pc = "done" /\ op = <<"control", "read">> /\ ret = "ok" =>
        dataOut = actualLen

\* A pipe write of fewer than 64 KiB returns: each turn of the loop of
\* UsbdBulkWriteSyncBase moves the uint16_t cursor forward by one chunk
\* until it reaches length (a write of 64 KiB or more wraps it instead).
WriteReturns == pc = "write" ~> pc = "done"

\* A read with a finite caller timeout returns: every chunk is bounded by
\* the 500 ms timeout, and a short or empty packet ends the read.
ReadReturns ==
    \A b \in Budgets \ {0} :
        (pc = "read" /\ budget = b) ~> pc = "done"
=============================================================================
