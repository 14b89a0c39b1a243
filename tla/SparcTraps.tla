----------------------------- MODULE SparcTraps -----------------------------
(***************************************************************************)
(* The trap tables of the SPARC boards (crt0.S), the start-up code up to   *)
(* the registration of the timers, and the table of handlers of the        *)
(* kernel (traps.c), which a thread changes while interrupts arrive, nest, *)
(* are masked and stay pending.                                            *)
(*                                                                         *)
(* The line of an interrupt is its level: trap type 16 + l.  What runs     *)
(* with the interrupts disabled is one step.                               *)
(***************************************************************************)
EXTENDS Naturals, Sequences

LOCAL INSTANCE SequencesExt

CONSTANTS
    Vecs,        \* trap types in play, interrupts and synchronous traps
    Registrable, \* those that threads register handlers for
    MaxNesting   \* bound: traps in progress

ASSUME TableAssumption == Vecs \subseteq 0..255 /\ Registrable \subseteq Vecs

VARIABLES
    board,              \* "erc32", "leon2" or "leon3"
    stage,              \* how far the system is
    fpu,                \* CONFIG_HAS_FPU, a unit on the chip, and PSR_EF
    isr, oldIsr,        \* interrupt_handler[].isr and .old_isr
    bare,               \* history: vectors unlocked since they had no handler
    maskRegister,       \* the bits set in the mask register of the board
    irqPending,         \* the lines whose pending bit is set
    pil,                \* the processor interrupt level
    nested,             \* the traps in progress
    calling             \* what the call of the thread has left to do

tableVars == <<isr, oldIsr, bare>>
trapTableVars == <<board, stage, fpu, tableVars, maskRegister, irqPending, pil,
                   nested, calling>>

Line(v) == v % 16
Lines == {Line(v) : v \in {w \in Vecs : w > 16 /\ w < 32}}

----------------------------------------------------------------------------
(* The boards.                                                             *)

\* The entry point of every trap type.
Erc32Table ==
    [tt \in 0..255 |->
       CASE tt = 0 -> "system_reset"
         [] tt = 4 -> "fpu_dis"
         [] tt = 5 -> "wof_trap"
         [] tt = 6 -> "wuf_trap"
         [] tt \in (1..31) \ {4, 5, 6} -> "irq_entry"
         [] tt \in 32..127 -> "bad_trap_handler"
         [] tt = 128 -> "syscall"
         [] tt = 131 -> "disable_interrupts"
         [] tt = 132 -> "enable_interrupts"
         [] OTHER -> "halt"]
Leon2Table == Erc32Table
Leon3Table == Leon2Table
TrapTable == [erc32 |-> Erc32Table, leon2 |-> Leon2Table, leon3 |-> Leon3Table]

\* The mask register after an operation on the line of a vector: a bit of the
\* MEC that is set masks, one of the LEONs enables.
Erc32Mask(reg, op, v) == IF op = "mask" THEN reg \cup {Line(v)} ELSE reg \ {Line(v)}
Leon2Mask(reg, op, v) == IF op = "mask" THEN reg \ {Line(v)} ELSE reg \cup {Line(v)}
Leon3Mask(reg, op, v) == Leon2Mask(reg, op, v)
MaskAfter(reg, op, v) ==
    CASE board = "erc32" -> Erc32Mask(reg, op, v)
      [] board = "leon2" -> Leon2Mask(reg, op, v)
      [] board = "leon3" -> Leon3Mask(reg, op, v)
Masked(l) == IF board = "erc32" THEN l \in maskRegister ELSE l \notin maskRegister

\* TRAP_GP_TIMER and TRAP_REAL_TIME_CLOCK, and whether CPU_TimerInit and
\* CPU_ClockInit enable their interrupts themselves.
Erc32Timers == [timer |-> 28, clock |-> 29, enables |-> TRUE]
Leon2Timers == [timer |-> 24, clock |-> 25, enables |-> TRUE]
Leon3Timers == [timer |-> 25, clock |-> 24, enables |-> FALSE]
Timers == CASE board = "erc32" -> Erc32Timers
            [] board = "leon2" -> Leon2Timers
            [] board = "leon3" -> Leon3Timers
OwnVecs == Registrable \ {Timers.timer, Timers.clock}

----------------------------------------------------------------------------
(* The start-up code.                                                      *)

\* The processor and the interrupt controller at reset; the table of handlers
\* is not cleared.
TrapsAtReset ==
    /\ board \in {"erc32", "leon2", "leon3"} /\ stage = "reset"
    /\ fpu \in [config : BOOLEAN, unit : BOOLEAN, ef : {FALSE}]
    /\ isr = [v \in Vecs |-> "garbage"] /\ oldIsr = isr /\ bare = {}
    /\ maskRegister = IF board = "erc32" THEN Lines ELSE {}
    /\ irqPending = {} /\ pil = 0 /\ nested = <<>> /\ calling = <<>>

\* system_reset clears the registers, sets the trap table and enables the
\* traps; whether with the floating point enabled, and whether it loads the
\* registers of the FPU then.
Erc32Reset == [ef |-> TRUE, loads |-> TRUE]
Leon2Reset == [ef |-> fpu.config, loads |-> ~fpu.config]
Leon3Reset == [ef |-> fpu.config, loads |-> ~fpu.config]
ResetOf == CASE board = "erc32" -> Erc32Reset
             [] board = "leon2" -> Leon2Reset
             [] board = "leon3" -> Leon3Reset

SystemReset ==
    /\ stage = "reset" /\ stage' = "fpu"
    /\ fpu' = [fpu EXCEPT !.ef = ResetOf.ef /\ fpu.unit]
    /\ UNCHANGED <<board, tableVars, maskRegister, irqPending, pil, nested, calling>>

\* The first load of an FPU that is disabled traps to fpu_dis, which sets
\* PSR_EF and goes back to the load; without a unit the bit stays clear, and
\* the start-up code goes no further.
LoadFpu ==
    /\ stage = "fpu"
    /\ IF ResetOf.loads /\ ~fpu.ef
       THEN /\ TrapTable[board][4] = "fpu_dis"
            /\ fpu' = [fpu EXCEPT !.ef = fpu.unit] /\ UNCHANGED stage
       ELSE /\ stage' = "OS_TrapInit"      \* fpu is not looked at again
            /\ fpu' = [config |-> FALSE, unit |-> FALSE, ef |-> FALSE]
    /\ UNCHANGED <<board, tableVars, maskRegister, irqPending, pil, nested, calling>>

OS_TrapInit ==
    /\ stage = "OS_TrapInit" /\ stage' = "OS_TimeInit"
    /\ isr' = [v \in Vecs |-> "NULL"] /\ oldIsr' = isr'
    /\ UNCHANGED <<board, fpu, bare, maskRegister, irqPending, pil, nested, calling>>

\* The steps of OS_RegisterIRQ: the table, with the interrupts disabled, and
\* the mask.
RegisterSteps(v, handler) ==
    IF v \in Vecs THEN <<[do |-> "write", vec |-> v, handler |-> handler],
                         [do |-> "enable", vec |-> v, handler |-> handler]>>
    ELSE <<>>

\* The clock, then the timer and CPU_TimerInit.
OS_TimeInit ==
    /\ stage = "OS_TimeInit" /\ stage' = "run"
    /\ calling' = RegisterSteps(Timers.clock, "OS_ClockISR")
                 \o RegisterSteps(Timers.timer, "OS_TimerISR")
                 \o IF Timers.enables /\ Timers.timer \in Vecs
                    THEN <<[do |-> "enable", vec |-> Timers.timer, handler |-> ""]>>
                    ELSE <<>>
    /\ UNCHANGED <<board, fpu, tableVars, maskRegister, irqPending, pil, nested>>

----------------------------------------------------------------------------
(* The calls of the thread.                                                *)

InThread == stage = "run" /\ nested = <<>>
Idle == InThread /\ calling = <<>>

\* disable_interrupts and enable_interrupts
SetsPil(level) ==
    /\ Idle /\ pil' = level
    /\ UNCHANGED <<board, stage, fpu, tableVars, maskRegister, irqPending, nested, calling>>
CPU_DisableIRQ == SetsPil(15)
CPU_EnableIRQ == SetsPil(0)

RegisterIRQ(v) ==
    /\ Idle /\ calling' = RegisterSteps(v, "handler")
    /\ UNCHANGED <<board, stage, fpu, tableVars, maskRegister, irqPending, pil, nested>>

RegisterWrites ==
    /\ InThread /\ calling # <<>> /\ Head(calling).do = "write"
    /\ LET v == Head(calling).vec
       IN /\ oldIsr' = [oldIsr EXCEPT ![v] = isr[v]]
          /\ isr' = [isr EXCEPT ![v] = Head(calling).handler]
          /\ bare' = bare \ {v}
    /\ calling' = Tail(calling) /\ pil' = 0
    /\ UNCHANGED <<board, stage, fpu, maskRegister, irqPending, nested>>

RegisterEnables ==
    /\ InThread /\ calling # <<>> /\ Head(calling).do = "enable"
    /\ maskRegister' = MaskAfter(maskRegister, "enable", Head(calling).vec)
    /\ calling' = Tail(calling) /\ pil' = 0
    /\ UNCHANGED <<board, stage, fpu, tableVars, irqPending, nested>>

\* Mutant of RestoreIRQ: the line stays enabled.
RestoreIRQUnmasked(v) ==
    /\ Idle /\ isr[v] # "NULL"
    /\ isr' = [isr EXCEPT ![v] = oldIsr[v]] /\ oldIsr' = [oldIsr EXCEPT ![v] = "NULL"]
    /\ pil' = 0
    /\ UNCHANGED <<board, stage, fpu, bare, maskRegister, irqPending, nested, calling>>

RestoreIRQ(v) ==
    /\ Idle /\ isr[v] # "NULL"
    /\ isr' = [isr EXCEPT ![v] = oldIsr[v]] /\ oldIsr' = [oldIsr EXCEPT ![v] = "NULL"]
    /\ maskRegister' = MaskAfter(maskRegister, "mask", v) /\ pil' = 0
    /\ UNCHANGED <<board, stage, fpu, bare, irqPending, nested, calling>>

\* SYS_IntrLock and SYS_IntrUnlock, neither of which asks for a handler.
IntrLock(v, op) ==
    /\ Idle /\ maskRegister' = MaskAfter(maskRegister, op, v) /\ pil' = 0
    /\ bare' = IF op = "enable" /\ isr[v] = "NULL" THEN bare \cup {v}
               ELSE IF op = "mask" THEN bare \ {v} ELSE bare
    /\ UNCHANGED <<board, stage, fpu, isr, oldIsr, irqPending, nested, calling>>

----------------------------------------------------------------------------
(* The traps.                                                              *)

DeviceRaises(l) ==
    /\ irqPending' = irqPending \cup {l}
    /\ UNCHANGED <<board, stage, fpu, tableVars, maskRegister, pil, nested, calling>>

\* The exclusive or of two levels of four bits.
ExclusiveOr(a, b) ==
    LET Bit(n, w) == (n \div w) % 2
        Differ(w) == (Bit(a, w) + Bit(b, w)) % 2
    IN 8 * Differ(8) + 4 * Differ(4) + 2 * Differ(2) + Differ(1)

\* irq_entry: the new level is the exclusive or of the level of the trap and
\* that of the interrupted code, which is what wr does.
EntersTrap(v) ==
    /\ Len(nested) < MaxNesting
    /\ nested' = Append(nested, [vec |-> v, pil |-> pil, at |-> "check"])
    /\ pil' = ExclusiveOr(pil, Line(v))

\* The processor takes an interrupt and clears its pending bit.
TakeIrq(l) ==
    /\ stage \notin {"reset", "panic", "halt"}
    /\ l \in irqPending /\ ~Masked(l) /\ l > pil
    /\ TrapTable[board][16 + l] = "irq_entry" /\ EntersTrap(16 + l)
    /\ irqPending' = irqPending \ {l}
    /\ UNCHANGED <<board, stage, fpu, tableVars, maskRegister, calling>>

\* The thread causes a trap: one that the kernel may have a handler for, or one
\* that has none in the trap table.
TakeSynchronous(v) ==
    /\ Idle /\ v <= 16
    /\ TrapTable[board][v] = "irq_entry" /\ EntersTrap(v)
    /\ UNCHANGED <<board, stage, fpu, tableVars, maskRegister, irqPending, calling>>
BadTrap ==
    /\ Idle /\ \E tt \in 32..255 : TrapTable[board][tt] \in {"bad_trap_handler", "halt"}
    /\ stage' = "halt"
    /\ UNCHANGED <<board, fpu, tableVars, maskRegister, irqPending, pil, nested, calling>>

At(step) == stage = "run" /\ nested # <<>> /\ Last(nested).at = step
Moves(step) == nested' = [nested EXCEPT ![Len(nested)].at = step]

\* OS_TrapEntry asks for a handler, and calls it.
FindsHandler ==
    /\ At("check")
    /\ IF isr[Last(nested).vec] = "NULL"
       THEN stage' = "panic" /\ UNCHANGED nested
       ELSE Moves("call") /\ UNCHANGED stage
    /\ UNCHANGED <<board, fpu, tableVars, maskRegister, irqPending, pil, calling>>

\* A handler may trace an event, which enables the interrupts, and that of
\* the timer may programme the clock.
RunsHandler ==
    /\ At("call") /\ Moves("clear")
    /\ pil' \in {pil, 0}
    /\ maskRegister' \in
         {maskRegister} \cup
         IF isr[Last(nested).vec] = "OS_TimerISR" /\ Timers.enables
         THEN {MaskAfter(maskRegister, "enable", Timers.clock)} ELSE {}
    /\ UNCHANGED <<board, stage, fpu, tableVars, irqPending, calling>>

\* OS_ClearInterrupt clears the pending bit of the line once more.
ClearInterrupt ==
    /\ At("clear") /\ Moves("exit")
    /\ irqPending' = irqPending \ {Line(Last(nested).vec)} /\ pil' = 0
    /\ UNCHANGED <<board, stage, fpu, tableVars, maskRegister, calling>>

\* irq_exit
IrqExit ==
    /\ At("exit") /\ nested' = Front(nested) /\ pil' = Last(nested).pil
    /\ UNCHANGED <<board, stage, fpu, tableVars, maskRegister, irqPending, calling>>

TrapTableNext ==
    \/ SystemReset \/ LoadFpu \/ OS_TrapInit \/ OS_TimeInit
    \/ CPU_DisableIRQ \/ CPU_EnableIRQ \/ RegisterWrites \/ RegisterEnables
    \/ \E v \in OwnVecs :
         RegisterIRQ(v) \/ RestoreIRQ(v) \/ \E op \in {"mask", "enable"} : IntrLock(v, op)
    \/ \E l \in Lines : DeviceRaises(l) \/ TakeIrq(l)
    \/ \E v \in Vecs : TakeSynchronous(v)
    \/ BadTrap \/ FindsHandler \/ RunsHandler \/ ClearInterrupt \/ IrqExit

TrapTableSpec == TrapsAtReset /\ [][TrapTableNext]_trapTableVars

----------------------------------------------------------------------------
\* Whatever is registered, restored, locked and unlocked while interrupts are
\* pending and nest, the kernel panics for want of a handler only on a trap that
\* the thread itself causes, or on an interrupt that a thread has unlocked
\* (SYS_IntrUnlock does not ask) while it had no handler, and neither locked nor
\* given a handler since.
NoUnhandledTrap ==
    stage = "panic" => Last(nested).vec <= 16 \/ Last(nested).vec \in bare
=============================================================================
