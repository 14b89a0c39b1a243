\* Idle, main and one more thread, which share a lock that they also wait for
\* with a timeout.
CONSTANTS
    MaxPrio = 3
    MaxThreads = 4
    NewPriority = {1}
    Overflow = 2
    Penalty = 1
    Delays = {0, 3}
    Sem = {0}
    Locks = {0}
    Timed = {0}
    Events = {}
    EventInCall = FALSE
SPECIFICATION FairSpec
INVARIANTS
    TypeOK
    WokenWaitsNowhere
    NobodyWaitsForFreeSem
    MutualExclusion
    
    TimedWaitTellsTheTruth
    TimeQueueSorted
    OneShotIsRunning
PROPERTIES
    NoEarlyWake
    ImplementsSched
