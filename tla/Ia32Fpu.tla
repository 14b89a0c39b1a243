------------------------------ MODULE Ia32Fpu ------------------------------
(***************************************************************************)
(* The task switch of the ia32 HAL: ia32_dispatch jumps to the descriptor  *)
(* of the new thread, upon which the processor stores the registers in the *)
(* TSS of the running one, but not those of the FPU.  It sets the TS flag, *)
(* and the first use of the FPU traps to vector 7 (handlers.c), which      *)
(* hands the registers over.  Threads end and their slots are used again.  *)
(***************************************************************************)
EXTENDS Naturals, Sequences

CONSTANTS
    Tids,        \* the threads but the idle one
    GdtEntries   \* IA32_GDT_ENTRY_NR; bound: a thread created over it is not
                 \* modelled

ASSUME GdtAssumption == GdtEntries \in Nat /\ GdtEntries > 5 /\ "idle" \notin Tids

VARIABLES
    alive,                  \* the threads created and not ended
    gdt, index,             \* the descriptors, and the one of each thread
    currentTid, oldTid,     \* current and old_current
    taskRegister,           \* the thread that runs
    ts,                     \* the TS flag of cr0
    fpuRegs, fpuSaved,      \* whose values the FPU and each TSS hold
    hasUsed, lastTask       \* has_used_fpu, FPU_Last_Task

switchVars == <<gdt, index, currentTid, oldTid, taskRegister>>
fpuVars == <<alive, switchVars, ts, fpuRegs, fpuSaved, hasUsed, lastTask>>

Slots == Tids \cup {"idle"}

\* idt_install and gdt_install: the null, code, data and kernel descriptors;
\* FPU_Last_Task is the idle thread, whose slot is 1.
FpuInit ==
    /\ alive = {"idle"} /\ gdt = <<"null", "code", "data", "kernel", "idle">>
    /\ index = [t \in Slots |-> 5]
    /\ currentTid = "idle" /\ oldTid = "idle" /\ taskRegister = "idle"
    /\ ts = TRUE /\ fpuRegs = "idle" /\ fpuSaved = [t \in Slots |-> "idle"]
    /\ hasUsed = [t \in Slots |-> FALSE] /\ lastTask = "idle"

\* OS_TaskCreate in a slot: ia32_context_init clears the TSS and takes a
\* descriptor more, whatever the slot had.  What is left of an ended thread
\* in the FPU is nobody's.
ContextInit(t) ==
    /\ t \notin alive /\ taskRegister # t /\ taskRegister = currentTid
    /\ Len(gdt) < GdtEntries
    /\ alive' = alive \cup {t}
    /\ gdt' = Append(gdt, t) /\ index' = [index EXCEPT ![t] = Len(gdt) + 1]
    /\ fpuSaved' = [s \in Slots |->
                      IF s = t \/ fpuSaved[s] = t THEN "idle" ELSE fpuSaved[s]]
    /\ fpuRegs' = IF fpuRegs = t THEN "idle" ELSE fpuRegs
    /\ hasUsed' = [hasUsed EXCEPT ![t] = FALSE]
    /\ UNCHANGED <<currentTid, oldTid, taskRegister, ts, lastTask>>

\* OS_Schedule, in a system call, in the exit of the thread and in the
\* epilogue of an interrupt, which may come before the last choice is
\* dispatched.
Choose(ending) ==
    /\ ending => taskRegister \in alive \ {"idle"} /\ taskRegister = currentTid
    /\ alive' = IF ending THEN alive \ {taskRegister} ELSE alive
    /\ currentTid' \in alive' /\ oldTid' = currentTid
    /\ UNCHANGED <<gdt, index, taskRegister, ts, fpuRegs, fpuSaved, hasUsed, lastTask>>

\* ia32_dispatch; a jump to the descriptor of the running thread faults, and
\* the system stops.
Dispatch ==
    /\ currentTid # oldTid /\ gdt[index[currentTid]] # taskRegister
    /\ taskRegister' = gdt[index[currentTid]] /\ ts' = TRUE
    /\ UNCHANGED <<alive, gdt, index, currentTid, oldTid, fpuRegs, fpuSaved,
                   hasUsed, lastTask>>

\* Mutant of DeviceNotAvailable: FPU_Last_Task names the first thread that
\* used the FPU for good.
DeviceNotAvailableOnce ==
    /\ ts' = FALSE
    /\ fpuSaved' = IF lastTask \in {"idle", currentTid} THEN fpuSaved
                   ELSE [fpuSaved EXCEPT ![lastTask] = fpuRegs]
    /\ lastTask' = IF lastTask = "idle" THEN currentTid ELSE lastTask
    /\ hasUsed' = [hasUsed EXCEPT ![currentTid] = TRUE]

\* ia32_interrupt_handlers, vector 7, on behalf of current
DeviceNotAvailable ==
    /\ ts' = FALSE
    /\ fpuSaved' = IF lastTask \in {"idle", currentTid} THEN fpuSaved
                   ELSE [fpuSaved EXCEPT ![lastTask] = fpuRegs]
    /\ lastTask' = currentTid /\ hasUsed' = [hasUsed EXCEPT ![currentTid] = TRUE]

\* A thread computes: the FPU then holds values of its own.
UseFpu ==
    /\ taskRegister = currentTid /\ taskRegister \in alive \ {"idle"}
    /\ IF ts THEN DeviceNotAvailable
       ELSE UNCHANGED <<ts, fpuSaved, lastTask, hasUsed>>
    /\ fpuRegs' = taskRegister
    /\ UNCHANGED <<alive, switchVars>>

FpuNext ==
    \/ \E t \in Tids : ContextInit(t)
    \/ \E ending \in BOOLEAN : Choose(ending)
    \/ Dispatch \/ UseFpu

FpuSpec == FpuInit /\ [][FpuNext]_fpuVars

----------------------------------------------------------------------------
\* Where the values are that a thread finds at its next use: in the FPU if it
\* runs and TS is clear, else where vector 7 takes them from.
ValuesOf(t) == IF lastTask = t \/ (taskRegister = t /\ ~ts) THEN fpuRegs
               ELSE fpuSaved[t]

\* A thread that has used the FPU finds its own values there at its next
\* use, however many threads used it, ended and were created in between:
\* vector 7 and ia32_context_init keep FPU_Last_Task, has_used_fpu and TS
\* consistent with whose values the FPU holds.
FpuValuesComeBack == \A t \in alive : hasUsed[t] => ValuesOf(t) = t
=============================================================================
