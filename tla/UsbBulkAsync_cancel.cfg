\* One pipe's list with a ring of two nodes.
CONSTANT NodeCount = 2

SPECIFICATION Spec

INVARIANT RingResetOnReturn
