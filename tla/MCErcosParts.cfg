SPECIFICATION PartsSpec
CONSTANTS
    node1 = node1
    node2 = node2
    node3 = node3
    Node = {node1, node2, node3}
    Deadline <- DeadlineOf
    TracerSize = 2
    SeqRange = 8
    MaxLag = 6
    MaxNested = 1
    Tracers = {t1, t2}
    Payload = 2
    Whole255 = 3
    FrameBytes = 160
    Addresses = {2, 4}
    BufMax = 4
    Commands = 2
    Damages = 2
    Windows = 3
    Tasks = {1, 2}
    MaxFrames = 4
    MaxTraps = 2
    Reload = 3
    Period = 4
    CounterMod = 8
    Latency = 2
    MaxTicks = 3
    CountMod = 16
    InEntry = FALSE
    Threads = {t1, t2}
    Levels = {2, 3}
    PitLevel = 3
    Tids = {t1, t2}
    GdtEntries = 8
    Runners = {t1, t2}
    MaxContexts = 3
    Vecs = {7, 25, 28}
    Registrable = {7, 25, 28}
    MaxNesting = 2
INVARIANTS
    PointersSpellQueue
    TraceIsTruthful
    ReaderCatchesUp
    FragmentsReassemble
    FrameStackHolds
    EachCommandOnce
    RegistersSurvive
    TimeReadIsClose
    LevelsComeBack
    FpuValuesComeBack
    IrqStacksHold
    NoUnhandledTrap
PROPERTIES
    TraceInOrder
    CommandsAnswered
    TimersOnTime
CHECK_DEADLOCK FALSE
