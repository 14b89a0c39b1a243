\* One interrupt may be taken between OS_Schedule and the context switch.
CONSTANTS
    MaxPrio = 3
    MaxThreads = 4
    Window = 1
SPECIFICATION Spec
INVARIANT ContextOfItsThread
