\* Transfers of every kind on bulk and interrupt pipes, writes below 64 KiB.
CONSTANTS
    bulkIn = bulkIn
    bulkOut = bulkOut
    intrIn = intrIn
    Pipes = {bulkIn, bulkOut, intrIn}
    PipeType <- MC_PipeType
    PipeDir <- MC_PipeDir
    MaxPacketSize = 64
    READ_BUF_SIZE = 256
    MAX_CONTROL_BUFF_SIZE = 1024
    ShortLen = 20
    WriteLengths <- MC_WriteLengths
    MaxChunks = 1024  \* ceil(65535 / 64): a write below 64 KiB never reaches it
    Budgets = {0, 2}

SPECIFICATION Spec

INVARIANTS
    TypeOK
    WriteSendsExactly
    ReadWithinBuffer
    ReadOutcome
    ControlReadLength

PROPERTY
    WriteReturns
