\* Every stage, from its start code to its last call.
\* A kernel ends in an empty loop, with nothing left to raise in MP1 and MP2.
CONSTANT Stages = {1, 2, 3, 4, 5, 6, 7}
SPECIFICATION Spec
INVARIANT Captured
INVARIANT BuiltBeforeUsed
INVARIANT StaysUp
INVARIANT AllAcknowledged
PROPERTY BootEnds
CHECK_DEADLOCK FALSE
