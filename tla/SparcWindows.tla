---------------------------- MODULE SparcWindows ----------------------------
(***************************************************************************)
(* The register windows of the SPARC in the HAL: the trap handlers that    *)
(* spill and fill them, the entry and exit of interrupts, the schedule     *)
(* trap and the context switch, in the two forms the HAL is built in.      *)
(* With CONFIG_FAST_MODE (window.S, isr.S, syscall.S, context.S) one       *)
(* window is invalid and the others hold the frames of nested calls;       *)
(* without it (window2.S, isr2.S, syscall2.S, context2.S) all windows but  *)
(* the current one are invalid and every call and return traps.            *)
(*                                                                         *)
(* A frame is the locals and ins of one activation; it lives in a window,  *)
(* and in the memory its stack pointer names once it has been spilled.     *)
(* The handlers run with the traps disabled, so each is one step; a        *)
(* window trap taken then puts the processor in error mode.                *)
(***************************************************************************)
EXTENDS Integers, Sequences, FiniteSets

LOCAL INSTANCE SequencesExt

CONSTANTS
    Windows,     \* SPARC_NUMBER_OF_REGISTER_WINDOWS
    Tasks,       \* threads
    MaxFrames,   \* bound on the frames of a thread
    MaxTraps     \* bound on nested interrupts

ASSUME WindowAssumption ==
    Windows \in Nat /\ Windows >= 3 /\ MaxFrames \in Nat \ {0}

VARIABLES
    fast,        \* CONFIG_FAST_MODE
    cpu,         \* [cwp, wim: set of invalid windows, win: frame in each]
    memory,      \* what was last spilled for each thread and depth
    context,     \* the trap frame kept in the TCB of each switched-out thread
    calls,       \* the frames each thread should have, oldest first
    running,     \* current
    errorMode    \* the instruction whose window trap met disabled traps, or "no"

windowVars == <<fast, cpu, memory, context, calls, running, errorMode>>

W == 0..(Windows - 1)
Left(w) == (w + Windows - 1) % Windows    \* the window a save goes to
Right(w) == (w + 1) % Windows             \* the window a restore goes to
OnlyValid(w) == W \ {w}

\* The frame of t at depth d; colour tells activations at one depth apart.
Frame(t, d) == <<t, d, calls[t][d].colour>>
Depth(t) == Len(calls[t])
Junk == << >>
OnTrap(t) == calls[t][Depth(t)].kind = "trap"
TrapFrames(t) == {d \in DOMAIN calls[t] : calls[t][d].kind = "trap"}

\* CPU_ContextInit: the entry point is called from a trap frame made by hand.
WindowContextInit(t) == <<t, 2, 0>>

WindowInit ==
    /\ fast \in BOOLEAN
    /\ running \in Tasks
    /\ calls = [t \in Tasks |->
                   IF t = running THEN << [kind |-> "call", colour |-> 0] >>
                   ELSE << [kind |-> "call", colour |-> 0], [kind |-> "trap", colour |-> 0] >>]
    /\ memory = [t \in Tasks |-> [d \in 1..MaxFrames |-> IF d = 1 THEN <<t, 1, 0>> ELSE Junk]]
    /\ context = [t \in Tasks |-> WindowContextInit(t)]
    /\ cpu = [cwp |-> 0, wim |-> IF fast THEN {1} ELSE OnlyValid(0),
              win |-> [w \in W |-> IF w = 0 THEN <<running, 1, 0>> ELSE Junk]]
    /\ errorMode = "no"

---------------------------------------------------------------------------
(* Spilling and filling.  Each operator gives the windows s, the memory m  *)
(* after it; traps are taken in the window to the left.                    *)

\* The windows ws are stored where their stack pointers point.
Spill(m, s, ws) ==
    [t \in Tasks |-> [d \in 1..MaxFrames |->
        IF \E w \in ws : s.win[w] # Junk /\ s.win[w][1] = t /\ s.win[w][2] = d
        THEN s.win[CHOOSE w \in ws : s.win[w] # Junk /\ s.win[w][1] = t /\ s.win[w][2] = d]
        ELSE m[t][d]]]

\* wof_trap, and the same in irq_entry: the window left of the invalid one is
\* spilled and becomes the invalid one.
OverflowWim(s) == {Left(w) : w \in s.wim}
OverflowMemory(m, s) == Spill(m, s, OverflowWim(s))

\* wuf_trap: the window to the right is filled, the one right of it is invalid.
\* Mutant of Underflow: the invalid window stays where it is.
UnderflowKeepsWim(s, m, t, d) ==
    [s EXCEPT !.win = [@ EXCEPT ![Left(s.cwp)] = Junk, ![Right(s.cwp)] = m[t][d]]]
Underflow(s, m, t, d) ==
    [s EXCEPT !.wim = {Right(w) : w \in @},
              !.win = [@ EXCEPT ![Left(s.cwp)] = Junk, ![Right(s.cwp)] = m[t][d]]]

\* window2.S.  Overflow: the current window is spilled and the next one alone
\* is valid.  Underflow: the window to the right is filled and alone valid.
Overflow2(s) == OnlyValid(Left(s.cwp))
Underflow2(s, m, t, d) ==
    [s EXCEPT !.wim = OnlyValid(Right(s.cwp)),
              !.win = [@ EXCEPT ![Left(s.cwp)] = Junk, ![Right(s.cwp)] = m[t][d]]]

\* The cpu in the window to the left, with a new frame in it.
Entered(s, wim, frame) ==
    [cwp |-> Left(s.cwp), wim |-> wim, win |-> [s.win EXCEPT ![Left(s.cwp)] = frame]]
\* The cpu back in the window to the right.
BackFrom(s) == [s EXCEPT !.cwp = Right(s.cwp)]

Pushed(t, frame) == calls' = [calls EXCEPT ![t] = Append(@, frame)]

---------------------------------------------------------------------------
(* Calls and returns, of threads and of the C code of the handlers.        *)

Call ==
    /\ Depth(running) < MaxFrames
    /\ \E colour \in {0, 1} :
          LET frame == <<running, Depth(running) + 1, colour>> IN
          /\ Pushed(running, [kind |-> "call", colour |-> colour])
          /\ IF ~fast
             THEN /\ memory' = Spill(memory, cpu, {cpu.cwp})
                  /\ cpu' = Entered(cpu, Overflow2(cpu), frame)
             ELSE IF Left(cpu.cwp) \in cpu.wim
             THEN /\ memory' = OverflowMemory(memory, cpu)
                  /\ cpu' = Entered(cpu, OverflowWim(cpu), frame)
             ELSE /\ cpu' = Entered(cpu, cpu.wim, frame)
                  /\ UNCHANGED memory
    /\ UNCHANGED <<fast, context, running, errorMode>>

Return ==
    /\ Depth(running) > 1 /\ ~OnTrap(running)
    /\ LET d == Depth(running) - 1
           s == IF ~fast THEN Underflow2(cpu, memory, running, d)
                ELSE IF Right(cpu.cwp) \in cpu.wim THEN Underflow(cpu, memory, running, d)
                ELSE cpu
       IN cpu' = BackFrom(s)
    /\ calls' = [calls EXCEPT ![running] = Front(@)]
    /\ UNCHANGED <<fast, memory, context, running, errorMode>>

---------------------------------------------------------------------------
(* Interrupts.                                                             *)

TrapFrame == <<running, Depth(running) + 1, 0>>

\* irq_entry of isr.S: in the invalid window it makes room as wof_trap does.
IrqEntry ==
    IF Left(cpu.cwp) \in cpu.wim
    THEN /\ memory' = OverflowMemory(memory, cpu)
         /\ cpu' = Entered(cpu, OverflowWim(cpu), TrapFrame)
    ELSE /\ cpu' = Entered(cpu, cpu.wim, TrapFrame)
         /\ UNCHANGED memory

\* irq_entry of isr2.S spills the interrupted window, whatever it is.
IrqEntry2 ==
    /\ memory' = Spill(memory, cpu, {cpu.cwp})
    /\ cpu' = Entered(cpu, OnlyValid(Left(cpu.cwp)), TrapFrame)

Interrupt ==
    /\ Depth(running) < MaxFrames
    /\ Cardinality(TrapFrames(running)) < MaxTraps
    /\ IF fast THEN IrqEntry ELSE IrqEntry2
    /\ Pushed(running, [kind |-> "trap", colour |-> 0])
    /\ UNCHANGED <<fast, context, running, errorMode>>

\* rett with the traps disabled: into an invalid window it is the end.
ReturnFromTrap(s) ==
    IF Right(s.cwp) \in s.wim
    THEN errorMode' = "rett" /\ UNCHANGED <<cpu, calls>>
    ELSE /\ cpu' = BackFrom(s)
         /\ calls' = [calls EXCEPT ![running] = Front(@)]
         /\ UNCHANGED errorMode

\* trap_entry_return: from a nested interrupt, or one that came while the kernel
\* was scheduling or serving a call.
NestedReturn == fast /\ ReturnFromTrap(cpu)

\* isr.S, after the scheduler has run and kept the thread: restore and save
\* bring the interrupted frame back before rett needs it.
RestoreSave(s, m, t, d) ==
    IF Right(s.cwp) \in s.wim THEN Underflow(s, m, t, d) ELSE s
SameTaskReturn ==
    fast /\ ReturnFromTrap(RestoreSave(cpu, memory, running, Depth(running) - 1))

\* isr2.S always fills the interrupted window, and has the one whose number follows
\* that of the trap's alone valid.  window2.S and context2.S take that number modulo
\* the ring; here the bit shifted from the last window leaves the register.
ShiftedWim(s, m, t, d) == [Underflow2(s, m, t, d) EXCEPT !.wim = W \ {s.cwp + 1}]
TrapReturn2 ==
    ~fast /\ ReturnFromTrap(ShiftedWim(cpu, memory, running, Depth(running) - 1))

InterruptReturn ==
    /\ OnTrap(running) /\ Depth(running) > 1
    /\ \/ NestedReturn
       \/ Cardinality(TrapFrames(running)) = 1 /\ SameTaskReturn
       \/ TrapReturn2
    /\ UNCHANGED <<fast, memory, context, running>>

---------------------------------------------------------------------------
(* Context switches, from the trap frame of an interrupt or of a call.     *)

\* context.S, save_frame_loop: the windows from the caller's to the invalid one.
UsedWindows(s) ==
    {w \in W : \E k \in 1..(Windows - 1) :
        /\ w = (s.cwp + k) % Windows
        /\ \A j \in 1..k : (s.cwp + j) % Windows \notin s.wim}

\* From windows s and memory m, in the trap frame of the running thread: the
\* thread's windows go to its stack, the heir's trap frame takes the place of
\* its own and the frame below is filled before the return from the trap.
ContextSwitch(s, m, heir) ==
    LET flushed == Spill(m, s, UsedWindows(s))
        kept == [context EXCEPT ![running] = s.win[s.cwp]]
        d == Depth(heir) - 1
        loaded == [s EXCEPT !.wim = {Right(s.cwp)},
                            !.win = [@ EXCEPT ![s.cwp] = kept[heir]]]
    IN /\ memory' = flushed
       /\ context' = kept
       /\ cpu' = BackFrom(Underflow(loaded, flushed, heir, d))

\* context2.S: the caller's window was spilled on entry, there are no others.
ContextSwitch2(s, m, heir) ==
    LET kept == [context EXCEPT ![running] = s.win[s.cwp]]
        loaded == [s EXCEPT !.win = [@ EXCEPT ![s.cwp] = kept[heir]]]
    IN /\ memory' = m
       /\ context' = kept
       /\ cpu' = BackFrom(Underflow2(loaded, m, heir, Depth(heir) - 1))

\* The heir is in the frame below its trap frame.
Switched(heir, stacks) ==
    /\ running' = heir
    /\ calls' = [stacks EXCEPT ![heir] = Front(@)]

\* restore_irq_context: the end of an interrupt, another thread was scheduled.
SwitchFromInterrupt ==
    /\ Cardinality(TrapFrames(running)) = 1 /\ OnTrap(running)
    /\ \E heir \in Tasks \ {running} :
          /\ IF fast
             THEN LET d == Depth(running) - 1
                  IN ContextSwitch(RestoreSave(cpu, memory, running, d), memory, heir)
             ELSE ContextSwitch2(cpu, memory, heir)
          /\ Switched(heir, calls)
    /\ UNCHANGED <<fast, errorMode>>

\* The schedule trap of syscall.S.  To make room it loads the new WIM and only
\* then saves into the window that has just become invalid.
ScheduleCall ==
    /\ fast
    /\ IF Left(cpu.cwp) \in cpu.wim
       THEN errorMode' = "save" /\ UNCHANGED <<cpu, memory, context, calls, running>>
       ELSE \E heir \in Tasks \ {running} :
              /\ ContextSwitch(Entered(cpu, cpu.wim, TrapFrame), memory, heir)
              /\ Switched(heir, [calls EXCEPT ![running] =
                                     Append(@, [kind |-> "trap", colour |-> 0])])
              /\ UNCHANGED errorMode

\* The schedule trap of syscall2.S: the caller's window is spilled on entry.
ScheduleCall2 ==
    /\ ~fast
    /\ \E heir \in Tasks \ {running} :
          /\ ContextSwitch2(Entered(cpu, OnlyValid(Left(cpu.cwp)), TrapFrame),
                            Spill(memory, cpu, {cpu.cwp}), heir)
          /\ Switched(heir, [calls EXCEPT ![running] =
                                 Append(@, [kind |-> "trap", colour |-> 0])])
    /\ UNCHANGED errorMode

SYS_Schedule ==
    /\ TrapFrames(running) = {} /\ Depth(running) < MaxFrames
    /\ ScheduleCall \/ ScheduleCall2
    /\ UNCHANGED fast

WindowNext ==
    /\ errorMode = "no"
    /\ \/ Call \/ Return \/ Interrupt \/ InterruptReturn
       \/ SwitchFromInterrupt \/ SYS_Schedule

WindowSpec == WindowInit /\ [][WindowNext]_windowVars

---------------------------------------------------------------------------
\* However deep the calls go, and whatever interrupts them or switches threads
\* in between, a frame that becomes current again finds its own registers; and
\* without CONFIG_FAST_MODE no return from an interrupt stops the processor but
\* that of isr2.S from the last window, whose bit of the WIM does not wrap.
RegistersSurvive ==
    /\ cpu.win[cpu.cwp] = Frame(running, Depth(running))
    /\ errorMode = "rett" /\ ~fast => cpu.cwp = Windows - 1

\* The return from a trap never meets an invalid window.  isr.S:201, where one path
\* out of the trap takes care of it: "It is possible that the interrupt handler
\* leaves the invalid window mark in the previous window, so the rett instruction
\* provokes an IU error".
RettFindsValidWindow == errorMode # "rett"
=============================================================================
