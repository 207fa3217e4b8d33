\* Two threads on pipes of their own share the completion queue.
CONSTANTS
    c1 = c1
    c2 = c2
    p1 = p1
    p2 = p2
    NoEntry = NoEntry
    MaxEntries <- MC_MaxEntries
    Clients = {c1, c2}
    Pipes = {p1, p2}
    ClientPipes <- SplitPipes
    MAX_REQUESTASYNC_NUM = 1
    MaxCalls = 3

SPECIFICATION Spec

INVARIANT SingleOwner
