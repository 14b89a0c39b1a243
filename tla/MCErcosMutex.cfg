\* Three threads over two mutexes of any policy.
CONSTANTS
    high = high
    middle = middle
    low = low
    User <- MCUser
    Idle = Idle
    Boot = Boot
    MaxPrio = 4
    UserPriority <- MCPriority
    MaxResem = 2
    NewType = {"NONE", "INHERIT", "CEILING"}
    Ceilings = {0}
    Adjusted = {low}
    NewPriority = {0, 2}
    Tried = {"NONE", "CEILING"}
SPECIFICATION Spec
INVARIANTS
    TypeOK
    OnePlace
    MutualExclusion
    ChainIsHeld
    OwnerIsHolder
    BoostComesFromMutex
PROPERTY
    WaiterLendsPriority
\* Threads may lock two mutexes in opposite orders and wait for ever, and a
\* behaviour ends when a thread was overtaken.
CHECK_DEADLOCK FALSE
