\* A semaphore that an ISR posts.
CONSTANTS
    MaxPrio = 2
    MaxThreads = 4
    NewPriority = {0}
    Overflow = 2
    Penalty = 1
    Delays = {}
    Sem = {0}
    Locks = {}
    Timed = {}
    Events = {0}
    EventInCall = FALSE
SPECIFICATION FairSpec
PROPERTY EventsArrive
