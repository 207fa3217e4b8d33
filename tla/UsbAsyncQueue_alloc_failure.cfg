\* One thread; an allocation in RequestQueue fails.
CONSTANTS
    c1 = c1
    c2 = c2
    p1 = p1
    p2 = p2
    NoEntry = NoEntry
    MaxEntries <- MC_MaxEntries
    Clients = {c1}
    Pipes = {p1}
    ClientPipes <- OneClientPipes
    MAX_REQUESTASYNC_NUM = 1
    MaxCalls = 2

SPECIFICATION Spec

INVARIANT NoOrphanInUse
