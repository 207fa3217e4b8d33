--------------------------- MODULE UsbRequestFifo ---------------------------
(***************************************************************************)
(* What the async request queue of a HostDevice promises: RequestQueue     *)
(* calls whose transfers were submitted form a FIFO; RequestWait hands     *)
(* back the oldest, RequestCancel discards the oldest, and nothing else    *)
(* leaves or reorders it.  A request is named by its RequestQueue call.    *)
(***************************************************************************)
EXTENDS Sequences, SequencesExt

CONSTANT Calls

VARIABLE fifo

Init == fifo = <<>>

\* A RequestQueue call whose transfer was submitted joins the tail.
Put(k) ==
    /\ k \notin ToSet(fifo)
    /\ fifo' = Append(fifo, k)

\* RequestWait takes, or RequestCancel drops, the request at the head.
Take ==
    /\ fifo # <<>>
    /\ fifo' = Tail(fifo)

Next == Take \/ \E k \in Calls : Put(k)

Spec == Init /\ [][Next]_fifo
=============================================================================
