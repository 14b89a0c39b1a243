\* An ISR lowers the scan index between the test and the write of a call.
CONSTANTS
    MaxPrio = 3
    MaxThreads = 5
    Window = 0
SPECIFICATION Spec
INVARIANT IndexPointsToFirst
