\* A lock, and an ISR that posts another semaphore during a system call.
CONSTANTS
    MaxPrio = 2
    MaxThreads = 4
    NewPriority = {0}
    Overflow = 2
    Penalty = 1
    Delays = {}
    Sem = {0, 1}
    Locks = {0}
    Timed = {}
    Events = {1}
    EventInCall = TRUE
SPECIFICATION FairSpec
INVARIANT MutualExclusion
