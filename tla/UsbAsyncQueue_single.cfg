\* One calling thread, two pipes, two entries per pipe.
CONSTANTS
    c1 = c1
    c2 = c2
    p1 = p1
    p2 = p2
    NoEntry = NoEntry
    Clients = {c1}
    Pipes = {p1, p2}
    ClientPipes <- OneClientPipes
    MAX_REQUESTASYNC_NUM = 2
    MaxCalls = 4
    MaxEntries <- MC_MaxEntries

SPECIFICATION Spec

INVARIANTS
    TypeOK
    SingleOwner

PROPERTY
    FifoRefinement
