\* Writes of 64 KiB on a bulk OUT pipe.
CONSTANTS
    bulkIn = bulkIn
    bulkOut = bulkOut
    intrIn = intrIn
    Pipes = {bulkIn, bulkOut, intrIn}
    PipeType <- MC_PipeType
    PipeDir <- MC_PipeDir
    MaxPacketSize = 64
    READ_BUF_SIZE = 256
    MAX_CONTROL_BUFF_SIZE = 1024
    ShortLen = 20
    WriteLengths <- MC_LongWrites
    MaxChunks = 1100  \* above the 1025 chunks after which a 64 KiB write wraps and resends
    Budgets = {0, 2}

SPECIFICATION Spec

INVARIANT WriteNeverResends
