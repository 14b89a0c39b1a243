---------------------------- MODULE Mc68332Timer ----------------------------
(***************************************************************************)
(* The timers of the mc68332 HAL.  One hardware timer ticks every Period   *)
(* units; pit_entry in crt0.S counts the ticks down, and the C handler of  *)
(* time.c, entered at zero, makes two interrupts of them: the PIT, every   *)
(* Reload ticks, and the clock, cd ticks after mc68332_clock_init.  The    *)
(* free-running counter of oc.c, latched at every tick, gives the time     *)
(* between ticks; a unit is one step of it.                                *)
(*                                                                         *)
(* A unit is 250 ns, four cycles of the CPU: no read falls into the unit   *)
(* of the latch.                                                           *)
(***************************************************************************)
EXTENDS Integers, Sequences

LOCAL INSTANCE SequencesExt

CONSTANTS
    Reload,      \* TIME_PIT_RELOAD
    Period,      \* units between two ticks, TIME_PIT_PERIOD
    CounterMod,  \* 2^16, the range of TCR1
    Latency,     \* bound: units a tick waits for its interrupt
    MaxTicks,    \* bound: the longest countdown asked of clock_init
    CountMod,    \* 2^32, the range of the countdown
    InEntry      \* whether a higher interrupt comes where pit_interrupted
                 \* matters to pit_entry

ASSUME TimerAssumption ==
    /\ {Reload, Period, CounterMod, Latency, MaxTicks, CountMod} \subseteq Nat
    /\ Reload > 0 /\ Period > Latency /\ CounterMod > Period + Latency
    /\ MaxTicks <= Reload + 1 /\ Reload + 1 < CountMod
    /\ InEntry \in BOOLEAN

VARIABLES
    pitStatus, countdown, reminder, pitInterrupted,
    tcr, latched,       \* TCR1 and mc68332_oc
    since,              \* units since the last tick
    pending,            \* the tick has not been served
    levels,             \* the interrupts in progress, innermost last: "low"
                        \* of level 1, "entry" at the first instruction of
                        \* pit_entry, "pit" in the C handler
    age, due,           \* what should be: ticks of this PIT period, ticks to
                        \* go to the clock interrupt or -1
    raised,             \* the interrupts that the last tick raised
    asserted            \* no assertion failed

timerVars == <<pitStatus, countdown, reminder, pitInterrupted, tcr, latched,
               since, pending, levels, age, due, raised, asserted>>
hardware == <<tcr, latched, since, pending>>
wanted == <<age, due, raised>>

\* mc68332_pit_init; the interrupts are let in later.
TimerInit ==
    /\ pitStatus = "OFF" /\ countdown = Reload /\ reminder = 0
    /\ pitInterrupted = FALSE
    /\ tcr = 0 /\ latched = 0 /\ since = 0 /\ pending = FALSE
    /\ levels = <<>>
    /\ age = 0 /\ due = -1 /\ raised = {} /\ asserted = TRUE

Top == IF levels = <<>> THEN "task" ELSE Last(levels)

\* Time passes; the tick comes when it is due, and is served before the next.
Unit ==
    /\ asserted
    /\ pending => since < Latency
    /\ tcr' = (tcr + 1) % CounterMod
    /\ since' = (since + 1) % Period
    /\ pending' = (pending \/ since' = 0)
    /\ UNCHANGED <<pitStatus, countdown, reminder, pitInterrupted, latched, levels,
                   wanted, asserted>>

\* The CPU accepts the interrupt, from a thread or a handler of level 1.
PitAccept ==
    /\ asserted /\ pending /\ Top \in {"task", "low"}
    /\ levels' = Append(levels, "entry")
    /\ UNCHANGED <<pitStatus, countdown, reminder, pitInterrupted, hardware,
                   wanted, asserted>>

---------------------------------------------------------------------------
(* mc68332_pit_handler: what it does to the countdown and what it raises.  *)

\* The ticks of the next PIT period that the clock leaves.
Rest(r) == Reload - r

Within ==
    /\ pitStatus = "WITHIN"
    /\ countdown' = reminder
    /\ pitStatus' = "OFF"
    /\ raised' = {"clock"}
    /\ UNCHANGED reminder

Beyond ==
    /\ pitStatus = "BEYOND"
    /\ countdown' = reminder
    /\ pitStatus' = "WITHIN"
    /\ reminder' = Rest(reminder)
    /\ raised' = {"pit"}

Exact ==
    /\ pitStatus = "EXACT"
    /\ countdown' = Reload
    /\ pitStatus' = "OFF"
    /\ raised' = {"clock", "pit"}
    /\ UNCHANGED reminder

Off ==
    /\ pitStatus = "OFF"
    /\ countdown' = Reload
    /\ raised' = {"pit"}
    /\ UNCHANGED <<pitStatus, reminder>>

\* What the tick should do: the reference.
TickWanted ==
    /\ age' = (age + 1) % Reload
    /\ due' = IF due > 0 THEN due - 1 ELSE -1

\* pit_entry: latch, count down, and into the handler at zero, or if another
\* interrupt came at the first instruction and left the events to this one.
PitEntry ==
    /\ Top = "entry" /\ asserted
    /\ latched' = tcr
    /\ pending' = FALSE
    /\ LET left == (countdown - 1) % CountMod IN
       IF left = 0
       THEN /\ Within \/ Beyond \/ Exact \/ Off
            /\ levels' = Append(Front(levels), "pit")
            /\ UNCHANGED asserted
       ELSE /\ raised' = {}
            /\ countdown' = left
            /\ asserted' = ~pitInterrupted
            /\ levels' = Front(levels)
            /\ UNCHANGED <<pitStatus, reminder>>
    /\ TickWanted
    /\ UNCHANGED <<pitInterrupted, tcr, since>>

\* mc68332_intr_epilogue, back at the level below: a handler of level 1 goes
\* on, a thread does so with the events flushed, in or out of a system call.
Epilogue(below) ==
    /\ levels' = below
    /\ pitInterrupted' = (below # <<>> /\ pitInterrupted)
    /\ UNCHANGED <<pitStatus, countdown, reminder, hardware, wanted, asserted>>

PitEnds == asserted /\ Top = "pit" /\ Epilogue(Front(levels))

LowInterrupt ==
    /\ asserted /\ levels = <<>>
    /\ levels' = <<"low">>
    /\ UNCHANGED <<pitStatus, countdown, reminder, pitInterrupted, hardware,
                   wanted, asserted>>

LowEnds == asserted /\ Top = "low" /\ Epilogue(<<>>)

\* A whole interrupt of a higher level.  From the level of the PIT its epilogue
\* leaves the events to the handler below.
HigherInterrupt ==
    /\ asserted
    /\ Top = "entry" \/ Len(levels) = 2 => InEntry
    /\ pitInterrupted' = CASE Top \in {"pit", "entry"} -> TRUE
                           [] Top = "low"              -> pitInterrupted
                           [] OTHER                -> FALSE
    /\ UNCHANGED <<pitStatus, countdown, reminder, hardware, levels, wanted, asserted>>

---------------------------------------------------------------------------
\* mc68332_clock_init, with the interrupts disabled by trap 2.
\* Mutant of Merged: what is left of the PIT period is forgotten.
NotMerged == countdown
Merged == IF pitStatus = "WITHIN" THEN countdown + reminder ELSE countdown

ClockInit ==
    /\ asserted /\ Top # "entry"
    /\ \E cd \in 1..MaxTicks :
          /\ \/ /\ cd < Merged
                /\ reminder' = Merged - cd
                /\ countdown' = cd
                /\ pitStatus' = "WITHIN"
             \/ /\ cd > Merged
                /\ reminder' = cd - Merged
                /\ countdown' = Merged
                /\ pitStatus' = "BEYOND"
             \/ /\ cd = Merged
                /\ countdown' = Merged
                /\ pitStatus' = "EXACT"
                /\ UNCHANGED reminder
          /\ due' = cd
    /\ UNCHANGED <<pitInterrupted, hardware, levels, age, raised, asserted>>

TimerNext ==
    \/ Unit \/ PitAccept \/ PitEntry \/ PitEnds
    \/ LowInterrupt \/ LowEnds \/ HigherInterrupt \/ ClockInit

TimerSpec == TimerInit /\ [][TimerNext]_timerVars

---------------------------------------------------------------------------
\* mc68332_oc_read and mc68332_pit_read.
\* Mutant of OcRead: the counter has not wrapped.
OcReadUnwrapped == tcr - latched
OcRead == (IF tcr <= latched THEN tcr + CounterMod ELSE tcr) - latched
PitRead == (Reload - countdown - (IF pitStatus = "WITHIN" THEN reminder ELSE 0)) * Period
              + OcRead

\* Each PIT interrupt comes Reload ticks after the last one and each clock
\* interrupt cd ticks after it was asked for, in whatever states of the shared
\* countdown it was asked for again and again.  Holds for countdowns of at most
\* Reload ticks.
TimersOnTime ==
    [][pending /\ ~pending' => ("pit" \in raised' <=> age' = 0)
                               /\ ("clock" \in raised' <=> due' = 0)]_timerVars

\* The units since the tick that raised the PIT interrupt, also while a tick waits.
SincePit == (IF pending THEN age + 1 ELSE age) * Period + since

\* mc68332_pit_read gives the time since the PIT interrupt: it is never ahead
\* of it, and late by at most what the last tick waited for its interrupt,
\* also while a tick waits and the countdown is one too high.
TimeReadIsClose == tcr # latched => SincePit - PitRead \in 0..Latency

\* time.c:264 asserts that the C handler is entered with the countdown at zero,
\* where pit_entry also enters it for pit_interrupted.
HandlerAtZero == asserted
=============================================================================
