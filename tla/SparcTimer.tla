----------------------------- MODULE SparcTimer -----------------------------
(***************************************************************************)
(* The clock of the kernel on the SPARC boards: a counter that counts down *)
(* and interrupts when it starts again, OS_TimerISR, which counts the      *)
(* periods, and OS_TimeGetTicks, which adds what the counter says.  A step *)
(* of the clock is a microsecond.                                          *)
(***************************************************************************)
EXTENDS Integers

CONSTANTS
    Board,     \* "erc32", "leon2" or "leon3"
    Word,      \* 2^32, the size of the registers
    Clicks,    \* CONFIG_ERCOS_CLICKS_PER_TICK
    Overhead,  \* *_AVG_TIMER_OVERHEAD, less than Clicks
    MaxTime    \* bound: the time that is looked at

VARIABLES
    elapsed,     \* microseconds since the counter was started
    count,       \* its counter register
    tickPending, \* its interrupt
    tickCounter, \* timer_tick_counter
    the_counter, \* that of a call of OS_TimeGetTicks, or -1
    ticks        \* what the last call returned

timerRegisters == <<elapsed, count, tickPending>>
sparcTimerVars == <<timerRegisters, tickCounter, the_counter, ticks>>

\* The value CPU_TimerInit starts the counter with, and starts it again with
\* at the end of each period.
Erc32Reload == Word - 1
Leon2Reload == Clicks
Leon3Reload == Clicks
Reload == CASE Board = "erc32" -> Erc32Reload
            [] Board = "leon2" -> Leon2Reload
            [] Board = "leon3" -> Leon3Reload

\* CPU_GetTimer, in a word.
Erc32Counter(c) == (Erc32Reload - c - Overhead) % Word
Leon2Counter(c) == (Leon2Reload - c - Overhead) % Word
Leon3Counter(c) == (Leon3Reload - c - Overhead) % Word
GetTimer(c) == CASE Board = "erc32" -> Erc32Counter(c)
                 [] Board = "leon2" -> Leon2Counter(c)
                 [] Board = "leon3" -> Leon3Counter(c)

\* The interrupts are enabled, and the clock read, when the kernel is up.
SparcTimerInit ==
    /\ elapsed = Overhead /\ count = Reload - Overhead /\ tickPending = FALSE
    /\ tickCounter = 0 /\ the_counter = -1 /\ ticks = 0

Microsecond ==
    /\ elapsed < MaxTime /\ ~tickPending
    /\ elapsed' = elapsed + 1
    /\ count' = IF count = 0 THEN Reload ELSE count - 1
    /\ tickPending' = (count = 0)
    /\ UNCHANGED <<tickCounter, the_counter, ticks>>

OS_TimerISR ==
    /\ tickPending /\ tickPending' = FALSE
    /\ tickCounter' = tickCounter + Clicks + 1
    /\ UNCHANGED <<elapsed, count, the_counter, ticks>>

\* OS_TimeGetTicks reads the counter first.
ReadsCounter ==
    /\ the_counter = -1 /\ the_counter' = GetTimer(count)
    /\ UNCHANGED <<timerRegisters, tickCounter, ticks>>

ReadsTicks ==
    /\ the_counter # -1 /\ the_counter' = -1
    /\ ticks' = tickCounter + the_counter
    /\ UNCHANGED <<timerRegisters, tickCounter>>

SparcTimerNext == Microsecond \/ OS_TimerISR \/ ReadsCounter \/ ReadsTicks
SparcTimerSpec == SparcTimerInit /\ [][SparcTimerNext]_sparcTimerVars

----------------------------------------------------------------------------
\* "Return the timer ticks" (time.c:400): a call does not return a time that
\* is still to come, but for the period that the interrupt between its two
\* reads may add.
TicksHaveElapsed == ticks <= elapsed + Clicks + 1
=============================================================================
