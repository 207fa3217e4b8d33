--------------------------- MODULE MC_UsbAsyncQueue ---------------------------
(* Instantiation of UsbAsyncQueue for TLC.  c1, c2 are calling threads and *)
(* p1, p2 pipes, all model values.                                          *)
EXTENDS UsbAsyncQueue, TLC

CONSTANTS c1, c2, p1, p2

\* One thread queueing on both pipes.
OneClientPipes == [c \in Clients |-> Pipes]

\* Two threads, each queueing on a pipe of its own.
SplitPipes == (c1 :> {p1}) @@ (c2 :> {p2})

\* Two threads queueing on the same pipe.
SharedPipe == [c \in Clients |-> {p1}]

\* Enough entries that MaxEntries never binds: every pipe may hold
\* MAX_REQUESTASYNC_NUM entries plus one per racing thread.
MC_MaxEntries == 2 * (MAX_REQUESTASYNC_NUM + 2)
=============================================================================
