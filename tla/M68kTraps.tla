----------------------------- MODULE M68kTraps -----------------------------
(***************************************************************************)
(* Interrupt levels and task switches of the mc68332 HAL.  Traps and       *)
(* interrupts push a frame on the one supervisor stack (crt0.S); the       *)
(* handlers of trap.c change the frame below theirs, which rte goes back   *)
(* to: trap 1 and 2 its interrupt level, trap 0 and the interrupt epilogue *)
(* the task it belongs to.  A trap does not raise the level, so that any   *)
(* handler may be interrupted wherever the code below it may be.           *)
(*                                                                         *)
(* A context is what it belongs to (own), its mode, the level it came in   *)
(* with and the one it runs at, whether the interrupts are off by its last *)
(* call, and the steps it has left to do.                                  *)
(***************************************************************************)
EXTENDS Naturals, Sequences

LOCAL INSTANCE SequencesExt

CONSTANTS
    Threads,     \* the threads, all created before the first dispatch
    Levels,      \* interrupt levels in use, below 7
    PitLevel     \* _TIME_PIT_IRQL

ASSUME TrapAssumption ==
    Levels \subseteq 1..6 /\ {"boot", "trap", "intr"} \cap Threads = {}

VARIABLES
    stacked,     \* the contexts in progress, the running one last
    contexts,    \* the context stored in the TCB of each thread
    cur, prev,   \* current and old_current
    active,      \* schedule_active
    iplCache,    \* _mc68332_sup_ipl_cache and _mc68332_usr_ipl_cache
    srCache,     \* the level in _m68k_sr_cache
    torn         \* a switch replaced a frame that is not that of the current
                 \* task in its own code

trapVars == <<stacked, contexts, cur, prev, active, iplCache, srCache, torn>>

Running == Last(stacked)
Below == stacked[Len(stacked) - 1]
TrapContext(own, sup, level, steps) ==
    [own |-> own, sup |-> sup, entry |-> level, level |-> level,
     off |-> FALSE, todo |-> steps]

\* m68k_hwcontext_init, with the level 0 that OS_TaskCreate asks for.
HwContextInit(t) == TrapContext(t, FALSE, 0, <<>>)

\* The steps of the handlers of the traps: 3 idles, 4 sends, 5 receives.
TrapHandler ==
    [trap0 |-> <<"store", "load">>, trap1 |-> <<"unmask">>,
     trap2 |-> <<"keep", "mask">>, trap3 |-> <<"console">>,
     trap4 |-> <<"console">>, trap5 |-> <<"receive">>]

\* What the kernel asks of the HAL: OS_Schedule; a system call that
\* schedules and one that does not; intr_disable and intr_enable; the idle
\* thread; printf and the console.
OS_Schedule_ == <<"trap2", "pick", "trap1", "idle">>
Syscall == <<"trap2", "active", "trap1", "trap2">>
ThreadCalls ==
    {Syscall \o OS_Schedule_ \o <<"trap0", "trap1">>,
     Syscall \o <<"idle", "trap1">>, <<"trap2", "trap1">>,
     <<"trap3">>, <<"trap4">>, <<"trap5">>}

\* An interrupt: the handler of a vector, which marks an event, and the
\* epilogue; the epilogue that flushes the events.
EpilogueSteps == <<"keepSr", "check">>
IntrHandler == <<"trap2", "trap1">> \o EpilogueSteps
PitHandler == <<"level", "trap2", "trap1">> \o EpilogueSteps
FlushEvents == <<"unmaskSr">> \o OS_Schedule_ \o <<"store", "load">>

\* Reset, OS_Start up to the first dispatch: task 0 takes the context of
\* the boot code, which starts at level 7.
BootFrames == <<TrapContext("boot", TRUE, 7, OS_Schedule_ \o <<"trap0">>)>>
FreshContexts == [t \in Threads \cup {"boot"} |-> HwContextInit(t)]
TrapStart ==
    /\ stacked = BootFrames /\ contexts = FreshContexts
    /\ cur = "boot" /\ prev = "boot" /\ active = TRUE
    /\ iplCache = [sup |-> 0, usr |-> 0] /\ srCache = 0
    /\ torn = FALSE

\* The running context goes on from `to`, and the one below becomes b.
With(to, b) ==
    stacked' = [stacked EXCEPT ![Len(stacked)].todo = to, ![Len(stacked) - 1] = b]
RunsOn(c) == stacked' = [stacked EXCEPT ![Len(stacked)] = [c EXCEPT !.todo = Tail(@)]]
Next_ == RunsOn(Running)

\* Mutant of Mode: one cache for both modes.
OneCache(c) == "sup"
Mode(c) == IF c.sup THEN "sup" ELSE "usr"

\* trap #n, the first step of what the running context has to do; a thread
\* with nothing left to do makes a call.
TakeTrap ==
    /\ \E steps \in IF Running.todo = <<>> /\ Len(stacked) = 1 THEN ThreadCalls
                   ELSE {Running.todo} :
         /\ steps # <<>> /\ Head(steps) \in DOMAIN TrapHandler
         /\ stacked' = Append([stacked EXCEPT ![Len(stacked)].todo = Tail(steps)],
                              TrapContext("trap", TRUE, Running.level,
                                          TrapHandler[Head(steps)]))
    /\ UNCHANGED <<contexts, cur, prev, active, iplCache, srCache, torn>>

\* An interrupt above the level of the processor; that of the PIT masks all
\* the others at once.
TakeInterrupt ==
    \E l \in Levels :
        /\ l > Running.level
        /\ stacked' = Append(stacked,
             IF l = PitLevel
             THEN [TrapContext("intr", TRUE, 7, PitHandler) EXCEPT !.entry = l]
             ELSE TrapContext("intr", TRUE, l, IntrHandler))
        /\ UNCHANGED <<contexts, cur, prev, active, iplCache, srCache, torn>>

\* mc68332_trap_disable: the level below is kept for its mode, then masked.
TrapDisable(op) ==
    /\ \/ /\ op = "keep" /\ Below.level = 7
          /\ With(<<>>, [Below EXCEPT !.off = TRUE]) /\ UNCHANGED iplCache
       \/ /\ op = "keep" /\ Below.level # 7
          /\ iplCache' = [iplCache EXCEPT ![Mode(Below)] = Below.level]
          /\ Next_
       \/ /\ op = "mask"
          /\ With(<<>>, [Below EXCEPT !.level = 7, !.off = TRUE])
          /\ UNCHANGED iplCache
    /\ UNCHANGED <<contexts, cur, prev, active, srCache, torn>>

\* mc68332_trap_enable
TrapEnable(op) ==
    /\ op = "unmask"
    /\ LET l == IF Below.level = 7 THEN iplCache[Mode(Below)] ELSE Below.level
       IN With(<<>>, [Below EXCEPT !.level = l, !.off = FALSE])
    /\ UNCHANGED <<contexts, cur, prev, active, iplCache, srCache, torn>>

\* mc68332_trap_dispatch: the frame below goes to the TCB of the previous
\* task, and that of the current one takes its place.
TrapDispatch(op) ==
    /\ \/ /\ op = "store"
          /\ IF cur = prev THEN With(<<>>, Below) /\ UNCHANGED <<contexts, torn>>
             ELSE /\ contexts' = [contexts EXCEPT ![prev] = Below]
                  /\ torn' = (torn \/ Below.own # prev)
                  /\ Next_
       \/ op = "load" /\ With(<<>>, contexts[cur]) /\ UNCHANGED <<contexts, torn>>
    /\ UNCHANGED <<cur, prev, active, iplCache, srCache>>

\* trap_lowpower, trap_tx and trap_rx leave the frame as it is; the character
\* 2 restarts the system.
TrapConsole(op) ==
    \/ /\ op = "console" /\ Next_
       /\ UNCHANGED <<contexts, cur, prev, active, iplCache, srCache, torn>>
    \/ /\ op = "receive"
       /\ stacked' = BootFrames /\ contexts' = FreshContexts
       /\ cur' = "boot" /\ prev' = "boot" /\ active' = TRUE
       /\ iplCache' = [sup |-> 0, usr |-> 0] /\ srCache' = 0 /\ torn' = FALSE

\* m68k_intr_level, m68k_intr_disable up to the mask, m68k_intr_enable: the
\* processor's own level.
SetLevel(op) ==
    /\ \/ op = "level" /\ RunsOn([Running EXCEPT !.level = PitLevel])
          /\ UNCHANGED srCache
       \/ op = "keepSr" /\ srCache' = Running.level /\ Next_
       \/ op = "unmaskSr" /\ RunsOn([Running EXCEPT !.level = srCache])
          /\ UNCHANGED srCache
    /\ UNCHANGED <<contexts, cur, prev, active, iplCache, torn>>

\* mc68332_intr_epilogue, once it has masked the interrupts: an interrupted
\* handler goes on, and so does a task in a system call; else the events are
\* flushed.
IntrEpilogue(op) ==
    /\ op = "check"
    /\ IF Below.level # 0 \/ active
       THEN With(<<>>, Below) /\ UNCHANGED active
       ELSE /\ RunsOn([Running EXCEPT !.level = 7, !.todo = <<op>> \o FlushEvents])
            /\ active' = TRUE
    /\ UNCHANGED <<contexts, cur, prev, iplCache, srCache, torn>>

\* The state of the kernel that the HAL looks at.
Kernel(op) ==
    /\ \/ op = "active" /\ active' = TRUE /\ UNCHANGED <<cur, prev>>
       \/ op = "idle" /\ active' = FALSE /\ UNCHANGED <<cur, prev>>
       \/ op = "pick" /\ cur' \in Threads /\ prev' = cur /\ UNCHANGED active
    /\ Next_
    /\ UNCHANGED <<contexts, iplCache, srCache, torn>>

TrapStep ==
    /\ Running.todo # <<>>
    /\ LET op == Head(Running.todo)
       IN \/ TrapDisable(op) \/ TrapEnable(op)
          \/ TrapDispatch(op) \/ TrapConsole(op) \/ SetLevel(op)
          \/ IntrEpilogue(op) \/ Kernel(op)

\* rte
Rte ==
    /\ Running.todo = <<>> /\ Len(stacked) > 1
    /\ stacked' = Front(stacked)
    /\ UNCHANGED <<contexts, cur, prev, active, iplCache, srCache, torn>>

\* What follows a torn switch depends on what the stack holds then.
TrapNext ==
    /\ ~torn
    /\ TakeTrap \/ TrapStep \/ TakeInterrupt \/ Rte

TrapSpec == TrapStart /\ [][TrapNext]_trapVars

----------------------------------------------------------------------------
LastOp(c) == IF c.todo = <<>> THEN "" ELSE Head(c.todo)

\* Whoever traps or interrupts whom, and at whatever step, an enable gives
\* back an own level: a thread runs its own code at level 0 and every handler
\* between the level it came in with and 6, except where its last call was a
\* disable, when it runs at 7.  So neither of the two caches of trap.c is
\* ever given to a context it was not kept for, as one cache for both modes
\* would.  And a thread that does not run waits in its own user context, at
\* level 0; what is stored for it is never a handler that was interrupted.
LevelsComeBack ==
    /\ \A t \in DOMAIN contexts : contexts[t].own # "intr"
    /\ ~torn =>
        /\ \A i \in DOMAIN stacked :
             LET c == stacked[i]
             IN /\ c.own \in Threads /\ ~c.off => c.level = 0
                /\ c.own \in Threads /\ c.off => c.level = 7
                /\ c.own = "intr" => c.level >= c.entry
                /\ c.own = "intr" /\ c.level = 7 =>
                     c.off \/ LastOp(c) \in {"level", "unmaskSr"}
        /\ \A t \in Threads \ {cur, prev} :
             contexts[t].own = t /\ ~contexts[t].sup /\ contexts[t].level = 0
=============================================================================
