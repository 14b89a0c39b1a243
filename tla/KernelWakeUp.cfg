\* Two threads of one priority that sleep and wait for an event.
CONSTANTS
    MaxPrio = 2
    MaxThreads = 4
    NewPriority = {0}
    Overflow = 2
    Penalty = 1
    Delays = {3}
    Sem = {0}
    Locks = {}
    Timed = {}
    Events = {0}
    EventInCall = FALSE
SPECIFICATION FairSpec
PROPERTY ExpiredThreadsWake
