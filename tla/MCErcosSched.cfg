\* Idle, main and two more threads, three priorities; no interrupt between
\* OS_Schedule and the context switch but those that it lets through itself.
CONSTANTS
    MaxPrio = 3
    MaxThreads = 5
    Window = 0
SPECIFICATION Spec
INVARIANTS
    TypeOK
    ScanIndexIsLowerBound
    OwnQueue
    HighestPriorityRuns
    NoThreadLost
    ContextsKept
PROPERTY ImplementsPriorityLine
