-------------------------- MODULE MC_UsbSyncTransfer --------------------------
(* Instantiation of UsbSyncTransfer for TLC: one pipe of each type and      *)
(* direction, 64-byte packets.                                              *)
EXTENDS UsbSyncTransfer, TLC

CONSTANTS bulkIn, bulkOut, intrIn

MC_PipeType == (bulkIn :> "bulk") @@ (bulkOut :> "bulk") @@ (intrIn :> "interrupt")
MC_PipeDir == (bulkIn :> "in") @@ (bulkOut :> "out") @@ (intrIn :> "in")

\* Writes below the uint16_t range: shorter than a packet, the spec's
\* 300-byte example, an exact multiple, and the largest uint16_t length.
MC_WriteLengths == {1, 300, 512, 65535}

\* Writes of 64 KiB and more.
MC_LongWrites == {65536}
=============================================================================
