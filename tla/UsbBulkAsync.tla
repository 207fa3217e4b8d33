---------------------------- MODULE UsbBulkAsync ----------------------------
(***************************************************************************)
(* The bulk-async streaming list of one pipe (usb_impl.cpp): the ring of   *)
(* request nodes, the mapped shared-memory buffer and the client callback, *)
(* driven by one client thread (RegBulkCallback, UnRegBulkCallback,        *)
(* BulkRead, BulkWrite, BulkCancel) and by the host library's completion   *)
(* thread, which runs the callback of each finished request.              *)
(*                                                                         *)
(* The completion path is in the host library, outside the repository; it *)
(* follows the spec: a finished request is reported to the callback and    *)
(* its node resubmitted while the callback is registered and the request   *)
(* was not cancelled, and otherwise the node goes back to the free list.  *)
(* OsalMSleep in BulkRequestCancel is taken to be long enough for every    *)
(* cancelled request to finish: the model lets it end only then.          *)
(***************************************************************************)
EXTENDS Naturals

CONSTANT NodeCount     \* USBD_BULKASYNCREQ_NUM_MAX, the ring size

Nodes == 1 .. NodeCount

VARIABLES
    listExists,   \* the pipe's UsbdBulkASyncList is in port->bulkASyncList
    cb,           \* list->cb: "null" or "client"
    tcb,          \* BulkCancel's saved callback
    mapped,       \* asmHandle maps the client's shared memory (size > 0)
    use,          \* [Nodes -> {"NoUse", "Use"}]: node->use
    pending,      \* nodes whose request is submitted and not yet completed
    cancelled,    \* pending nodes UsbCancelRequest was issued for
    pc,           \* the client thread: "idle" or a step of BulkCancel
    i             \* BulkRequestCancel's loop index

vars == <<listExists, cb, tcb, mapped, use, pending, cancelled, pc, i>>

Init ==
    /\ listExists = FALSE /\ cb = "null" /\ tcb = "null" /\ mapped = FALSE
    /\ use = [n \in Nodes |-> "NoUse"]
    /\ pending = {} /\ cancelled = {}
    /\ pc = "idle" /\ i = 1

FreeNodes == {n \in Nodes : use[n] = "NoUse"}

-----------------------------------------------------------------------------
(* Client thread *)

\* UsbdBulkASyncListInit: find the list or allocate and link a new one.
\* Returns whether a list is there afterwards.
ListInit(ok) ==
    /\ listExists' = (listExists \/ ok)

\* RegBulkCallback: a failed list allocation still returns HDF_SUCCESS.
RegBulkCallback ==
    /\ pc = "idle"
    /\ \E ok \in BOOLEAN :
        /\ ListInit(ok)
        /\ cb' = IF listExists' THEN "client" ELSE cb
    /\ UNCHANGED <<tcb, mapped, use, pending, cancelled, pc, i>>

UnRegBulkCallback ==
    /\ pc = "idle" /\ listExists
    /\ cb' = "null"
    /\ UNCHANGED <<listExists, tcb, mapped, use, pending, cancelled, pc, i>>

\* BulkRead and BulkWrite: UsbdBulkASyncListInit, InitAsmBufferHandle (which
\* first unmaps any earlier buffer, then refuses a negative ashmem fd or
\* size, else maps the new one: a failed mmap returns MAP_FAILED, which the
\* nullptr test at 685 lets through as a success),
\* and the priming loop, which takes free nodes off the ring and submits
\* them until a submit fails or the ring is empty.
BulkTransfer ==
    /\ pc = "idle"
    /\ \E ok \in BOOLEAN : ListInit(ok)
    /\ IF ~listExists'
       THEN UNCHANGED <<mapped, use, pending>>
       ELSE \E argsOk \in BOOLEAN :
              /\ mapped' = argsOk
              /\ IF ~argsOk THEN UNCHANGED <<use, pending>>
                 ELSE \E sub \in SUBSET FreeNodes :
                        /\ use' = [n \in Nodes |-> IF n \in sub THEN "Use" ELSE use[n]]
                        /\ pending' = pending \cup sub
    /\ UNCHANGED <<cb, tcb, cancelled, pc, i>>

BulkRead == BulkTransfer

BulkWrite == BulkTransfer

\* BulkCancel up to BulkRequestCancel: save and clear the callback, then
\* ReleaseAsmBufferHandle unmaps the buffer.
BulkCancelStart ==
    /\ pc = "idle" /\ listExists
    /\ tcb' = cb /\ cb' = "null" /\ mapped' = FALSE
    /\ pc' = "bc_cancel" /\ i' = 1
    /\ UNCHANGED <<listExists, use, pending, cancelled>>

\* BulkRequestCancel's first loop: UsbCancelRequest on every node in use;
\* the first failure returns at once.  A cancel fails when the request has
\* already finished in the controller, its completion not yet delivered.
CancelNode ==
    /\ pc = "bc_cancel" /\ i <= NodeCount
    /\ IF use[i] = "NoUse"
       THEN /\ i' = i + 1 /\ UNCHANGED <<pc, cancelled>>
       ELSE \E ok \in BOOLEAN :
              IF ok THEN /\ cancelled' = cancelled \cup ({i} \cap pending)
                         /\ i' = i + 1 /\ UNCHANGED pc
                    ELSE /\ pc' = "bc_restore" /\ UNCHANGED <<cancelled, i>>
    /\ UNCHANGED <<listExists, cb, tcb, mapped, use, pending>>

\* OsalMSleep, then the second loop forces every node completed and free.
ForceReset ==
    /\ pc = "bc_cancel" /\ i > NodeCount
    /\ cancelled \cap pending = {}
    /\ use' = [n \in Nodes |-> "NoUse"]
    /\ pc' = "bc_restore"
    /\ UNCHANGED <<listExists, cb, tcb, mapped, pending, cancelled, i>>

\* BulkCancel restores the saved callback and returns HDF_SUCCESS.
BulkCancelRestore ==
    /\ pc = "bc_restore"
    /\ cb' = tcb /\ pc' = "idle"
    /\ UNCHANGED <<listExists, tcb, mapped, use, pending, cancelled, i>>

-----------------------------------------------------------------------------
(* Completion thread of the host library *)

\* A submitted request finishes.  With the callback set and no cancel, the
\* client is told and the node is resubmitted (or, at the end of the data,
\* freed); otherwise the node goes back to the free list.
BulkCompletion(n) ==
    /\ n \in pending
    /\ cancelled' = cancelled \ {n}
    /\ \/ /\ cb = "client" /\ n \notin cancelled
          /\ UNCHANGED <<use, pending>>
       \/ /\ use' = [use EXCEPT ![n] = "NoUse"]
          /\ pending' = pending \ {n}
    /\ UNCHANGED <<listExists, cb, tcb, mapped, pc, i>>

-----------------------------------------------------------------------------
Next ==
    \/ RegBulkCallback \/ UnRegBulkCallback \/ BulkRead \/ BulkWrite
    \/ BulkCancelStart \/ CancelNode \/ ForceReset \/ BulkCancelRestore
    \/ \E n \in Nodes : BulkCompletion(n)

Spec == Init /\ [][Next]_vars

-----------------------------------------------------------------------------
(* Properties *)

TypeOK ==
    /\ listExists \in BOOLEAN /\ mapped \in BOOLEAN
    /\ cb \in {"null", "client"} /\ tcb \in {"null", "client"}
    /\ use \in [Nodes -> {"NoUse", "Use"}]
    /\ pending \subseteq Nodes /\ cancelled \subseteq pending
    /\ pc \in {"idle", "bc_cancel", "bc_restore"}
    /\ i \in 1 .. NodeCount + 1

\* When BulkCancel puts the callback back and returns, the ring is reset:
\* no node is in use and no request of the list is still in flight, so no
\* completion can reach the restored callback or the unmapped buffer.
RingResetOnReturn ==
    pc = "bc_restore" => /\ \A n \in Nodes : use[n] = "NoUse"
                         /\ pending = {}
=============================================================================
