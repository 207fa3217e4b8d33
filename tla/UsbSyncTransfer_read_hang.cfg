\* Reads with a finite caller timeout.
CONSTANTS
    bulkIn = bulkIn
    bulkOut = bulkOut
    intrIn = intrIn
    Pipes = {bulkIn, bulkOut, intrIn}
    PipeType <- MC_PipeType
    PipeDir <- MC_PipeDir
    MaxPacketSize = 64
    READ_BUF_SIZE = 256
    MAX_CONTROL_BUFF_SIZE = 1024
    ShortLen = 20
    WriteLengths <- MC_WriteLengths
    MaxChunks = 1100  \* reads only: the write bound never binds
    Budgets = {2}

SPECIFICATION Spec

PROPERTY ReadReturns
