\* One client thread and the engine: two buffer ids, five reported state
\* changes (enough for Loaded, Idle, Executing, Pause and back), two notices.
CONSTANTS
    MaxBuffers = 2
    MaxReports = 5
    MaxNotices = 2

SPECIFICATION Spec

INVARIANTS
    TypeOK
    ExecutingImpliesRunning

PROPERTY
    OmxRefinement
