SPECIFICATION SparcTimerSpec
CONSTANTS
    Board = "leon3"
    Word = 64
    Clicks = 9
    Overhead = 3
    MaxTime = 40
INVARIANT TicksHaveElapsed
CHECK_DEADLOCK FALSE
