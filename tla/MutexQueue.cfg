\* One inheriting mutex; no thread changes its priority.
CONSTANTS
    high = high
    middle = middle
    low = low
    User <- MCUser
    Idle = Idle
    Boot = Boot
    MaxPrio = 4
    UserPriority <- MCPriority
    MaxResem = 1
    NewType = {"INHERIT"}
    Ceilings = {}
    Adjusted = {}
    NewPriority = {}
    Tried = {}
SPECIFICATION Spec
INVARIANT QueueSorted
