\* A semaphore that every thread may post, waited for with a timeout.
CONSTANTS
    MaxPrio = 2
    MaxThreads = 4
    NewPriority = {0}
    Overflow = 2
    Penalty = 1
    Delays = {0, 3}
    Sem = {0}
    Locks = {}
    Timed = {0}
    Events = {}
    EventInCall = FALSE
SPECIFICATION FairSpec
INVARIANT TimedWaitTellsTheTruth
