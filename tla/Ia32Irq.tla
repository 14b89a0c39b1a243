------------------------------ MODULE Ia32Irq ------------------------------
(***************************************************************************)
(* The interrupts of the ia32 HAL.  The periodic timer of the LAPIC        *)
(* (vector 48) and the one-shot clock behind the 8259 (32) have a stack    *)
(* each, which HANDLER_STUB of crt0.S changes to; the ISRs of handlers.c   *)
(* change back and flush the events on the stack that was interrupted.     *)
(*                                                                         *)
(* A context is the stack it is on (0, that of its thread), its interrupt  *)
(* flag and the steps it has left.  What runs with the interrupts disabled *)
(* is one step.                                                            *)
(***************************************************************************)
EXTENDS Naturals, Sequences

LOCAL INSTANCE SequencesExt

CONSTANTS
    Runners,     \* the threads, the first of which runs
    MaxContexts  \* bound: contexts of a thread

VARIABLES
    contexts32,  \* the contexts in progress, the running one last
    tss,         \* those of the threads that wait
    current32, old32, running32, \* current, old_current, the task register
    scheduling,  \* schedule_active
    prevStack,   \* prev_handler32_stack, prev_handler48_stack: a context
    irqNesting,  \* ia32_intr_nesting
    armed,       \* the clock counts, its line unmasked
    tracer32,    \* CONFIG_ERCOS_KERNEL_TRACER
    fault        \* "" or what stopped the system

tasks == <<tss, current32, old32, running32>>
irqVars == <<contexts32, tasks, scheduling, prevStack, irqNesting,
             armed, tracer32, fault>>

Timer == 48
Clock == 32

Context32(on, if, steps) == [on |-> on, if |-> if, todo |-> steps]
Now == Last(contexts32)
Goes(c) == contexts32' = [contexts32 EXCEPT ![Len(contexts32)] = c]
Done(c) == [c EXCEPT !.todo = Tail(@)]

\* What is asked of the HAL: OS_Schedule and ia32_dispatch; a system call
\* that schedules.
Scheduled == <<"pick", "release", "dispatch">>
CallOfHal == <<"enter">> \o Scheduled

\* What is left of an ISR once it has enabled the interrupts, or all of it if it
\* never does.  OS_TimerISR may read the time, which enables them, and then call
\* clock_init; OS_ClockISR traces, which reads the time; OS_ClearInterrupt is "eoi".
IsrOf(v) ==
    IF v = Timer
    THEN {<<"epilogue">>, <<"eoi", "epilogue">>, <<"clock_init", "eoi", "epilogue">>}
    ELSE {IF tracer32 THEN <<"eoi", "epilogue">> ELSE <<"epilogue">>}

\* enable_APIC, pic_init, and the first dispatch.
Ia32Start ==
    \E first \in Runners :
        /\ current32 = first /\ old32 = first /\ running32 = first
        /\ contexts32 = <<Context32(0, TRUE, <<>>)>>
        /\ tss = [t \in Runners |-> <<Context32(0, TRUE, <<>>)>>]
        /\ scheduling = FALSE
        /\ prevStack = [v \in {Clock, Timer} |-> 0] /\ irqNesting = 0
        /\ armed = FALSE /\ tracer32 \in BOOLEAN /\ fault = ""

----------------------------------------------------------------------------
\* An interrupt that is in service comes again only after its EOI.
Comes(v) ==
    /\ Now.if /\ Len(contexts32) < MaxContexts /\ (v = Clock => armed)
    /\ \A i \in DOMAIN contexts32 :
          contexts32[i].on = v => contexts32[i].todo = <<"epilogue">>
Entered32(v) == \E i \in DOMAIN contexts32 : contexts32[i].on = v

\* HANDLER_STUB, the prologue and oneshot_timer_isr, which masks the line.
TakeVector(v) ==
    /\ Comes(v) /\ ~Entered32(v)
    /\ \E steps \in IsrOf(v) :
          contexts32' = Append(contexts32, Context32(v, steps # <<"epilogue">>, steps))
    /\ prevStack' = [prevStack EXCEPT ![v] = Len(contexts32)]
    /\ irqNesting' = irqNesting + 1
    /\ armed' = (v # Clock /\ armed)
    /\ UNCHANGED <<tasks, scheduling, tracer32, fault>>

\* The vector comes between its EOI and irq_disable: HANDLER_STUB takes the
\* stack that its ISR is on from the top, which is the end.
EntersOwnStack(v) ==
    /\ Comes(v) /\ Entered32(v) /\ fault' = IF v = Clock THEN "clock" ELSE "timer"
    /\ UNCHANGED <<contexts32, tasks, scheduling, prevStack, irqNesting, armed, tracer32>>

\* clock_init programmes the clock and unmasks its line.
IsrStep(op) ==
    op \in {"clock_init", "eoi"} /\ Goes(Done(Now)) /\ armed' = (armed \/ op = "clock_init")

\* Mutant of Epilogue32: the nested ISR flushes the events too.
Epilogue32Flushes(op) ==
    /\ op = "epilogue" /\ irqNesting' = irqNesting - 1
    /\ prevStack' = [prevStack EXCEPT ![Now.on] = 0]     \* not read again
    /\ fault' = IF prevStack[Now.on] = Len(contexts32) - 1 THEN fault ELSE "stack"
    /\ IF scheduling
       THEN Goes(Context32(0, FALSE, <<>>)) /\ UNCHANGED scheduling
       ELSE Goes(Context32(0, TRUE, Scheduled)) /\ scheduling' = TRUE

\* irq_disable, the stack of the interrupted context, ia32_intr_epilogue: a
\* nested ISR and one in a system call return at once, another flushes the
\* events with the interrupts enabled.
Epilogue32(op) ==
    /\ op = "epilogue" /\ irqNesting' = irqNesting - 1
    /\ prevStack' = [prevStack EXCEPT ![Now.on] = 0]     \* not read again
    /\ fault' = IF prevStack[Now.on] = Len(contexts32) - 1 THEN fault ELSE "stack"
    /\ IF irqNesting > 1 \/ scheduling
       THEN Goes(Context32(0, FALSE, <<>>)) /\ UNCHANGED scheduling
       ELSE Goes(Context32(0, TRUE, Scheduled)) /\ scheduling' = TRUE

\* The kernel's side of OS_Schedule and of the system calls.
KernelStep(op) ==
    \/ /\ op = "enter" /\ scheduling' = TRUE /\ Goes(Done(Now))
       /\ UNCHANGED <<current32, old32>>
    \/ /\ op = "release" /\ scheduling' = FALSE /\ Goes(Done(Now))
       /\ UNCHANGED <<current32, old32>>
    \/ /\ op = "pick" /\ current32' \in Runners /\ old32' = current32
       /\ Goes([Done(Now) EXCEPT !.if = TRUE]) /\ UNCHANGED scheduling

\* ia32_dispatch: a jump to the TSS that is in use faults.  The thread left
\* must not have a handler on the stack of a vector.
Dispatch32(op) ==
    /\ op = "dispatch"
    /\ LET left == [contexts32 EXCEPT ![Len(contexts32)] = Done(Now)]
       IN \/ /\ current32 = old32 /\ contexts32' = left
             /\ UNCHANGED <<tss, running32, fault>>
          \/ /\ current32 # old32 /\ current32 = running32 /\ fault' = "#GP"
             /\ UNCHANGED <<contexts32, tss, running32>>
          \/ /\ current32 # old32 /\ current32 # running32
             /\ tss' = [tss EXCEPT ![running32] = left]
             /\ contexts32' = tss[current32] /\ running32' = current32
             /\ fault' = IF \E i \in DOMAIN left : left[i].on # 0 THEN "stack"
                         ELSE fault

Step32 ==
    /\ Now.todo # <<>> /\ UNCHANGED tracer32
    /\ LET op == Head(Now.todo)
       IN \/ IsrStep(op) /\ UNCHANGED <<tasks, scheduling, prevStack, irqNesting, fault>>
          \/ Epilogue32(op) /\ UNCHANGED <<tasks, armed>>
          \/ /\ KernelStep(op)
             /\ UNCHANGED <<tss, running32, prevStack, irqNesting, armed, fault>>
          \/ /\ Dispatch32(op)
             /\ UNCHANGED <<current32, old32, scheduling, prevStack, irqNesting, armed>>

CallHal ==
    /\ Now.todo = <<>> /\ Len(contexts32) = 1
    /\ Goes([Now EXCEPT !.todo = CallOfHal])
    /\ UNCHANGED <<tasks, scheduling, prevStack, irqNesting, armed, tracer32, fault>>

Iret ==
    /\ Now.todo = <<>> /\ Len(contexts32) > 1
    /\ contexts32' = Front(contexts32)
    /\ UNCHANGED <<tasks, scheduling, prevStack, irqNesting, armed, tracer32, fault>>

Ia32Next ==
    /\ fault = ""
    /\ \/ \E v \in {Clock, Timer} : TakeVector(v) \/ EntersOwnStack(v)
       \/ Step32 \/ CallHal \/ Iret

Ia32Spec == Ia32Start /\ [][Ia32Next]_irqVars

----------------------------------------------------------------------------
\* An interrupt goes back to the stack that it interrupted, also when the
\* other vector has interrupted its ISR or its epilogue in between, and no
\* thread is left with a handler on the stack of a vector, which the next
\* interrupt uses from its top.  The clock enters the stack that its own ISR is
\* on only where that traces (time.c:191), with which the timer nests in it and
\* programmes it anew; of a tick before the timer's ISR is done nothing is said.
IrqStacksHold == fault # "stack" /\ (fault = "clock" => tracer32)
=============================================================================
