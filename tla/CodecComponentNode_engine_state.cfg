\* One client thread and the engine: is the engine ever left running while
\* the node is not Executing?
CONSTANTS
    MaxBuffers = 2
    MaxReports = 5
    MaxNotices = 2

SPECIFICATION Spec

INVARIANT
    RunningOnlyWhenExecuting
