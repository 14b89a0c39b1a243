# ERCOS-RT: a TLA+ verification development

ERCOS-RT is a small priority-preemptive real-time kernel in C for one CPU (ia32,
sparc/ERC32 and LEON, m68k/mc68332).  This directory models the kernel proper,
`src/src/*.c`, and what its hardware layers (`src/hals`) do to threads, registers, time and
interrupts, checks the models with TLC and proves theorems about them with TLAPS.  Paths below are
those of the repository under `src/`; `sched.c:131` means `src/src/sched.c`, line 131, and
names of files of a HAL are relative to its directory.

Contents: 1 inventory; 2 modules and how they correspond to the code; 3 what the runs
check; 4 bounds and fairness; 5 proofs; 6 disagreements found; 7 what is not modelled;
8 plan.

## 1. Inventory

| part | code | state | operations | interacts with |
|---|---|---|---|---|
| Intrusive lists | `list.c`, `kernel/list.h` | header `first/last/num`; node `next/prev/inside` | insert, append, extract, get, add, reset | all queues |
| Scheduler | `sched.c` | `sched_list[]`, `sched_queue_i`, `current`, `old_current`, `schedule_active` | `OS_SchedTaskReady`, `OS_SchedCurrentReady`, `OS_Schedule`, priority changes | called by every part that readies a thread |
| Threads | `task.c` | `task_table`, free list `tcb_list`, `status` | create, exit, `OS_TaskIsBlocked`, initialisation | scheduler |
| System calls | `syscall.c` | `need_reesched` | entry, body, exit (events, then schedule) | everything |
| Semaphores | `sem.c` | value, waiters, `tid_in`; `task->wait_sem` | wait, timed wait, try, post, extraction by a timeout | scheduler, time queue, events |
| Mutexes | `mutex.c` | counter, owner, waiters, policy, `prio`, stack `pmutex/next` | init, lock, try, unlock, ceiling | scheduler, priorities |
| Time queue, timers | `time.c` | sorted `time_list`, `abs_timeout`, tick counter, one-shot flag | `OS_DoSleep`, `OS_ClockBottomISR`, `OS_TimerISR`, `OS_ClockISR`, programming | HAL timers, semaphores, events |
| Interrupt events | `irqev.c` | event list, clock event, pending count | mark, handle (bottom half) | semaphores, clock |
| HAL entry and switch | `hals/*`, `public/ercos-lah.h` | hardware contexts | prologue and epilogue of interrupts, context switch | scheduler |
| &nbsp;&nbsp;SPARC | `isr.S`, `window.S`, `syscall.S`, `context.S` and their `*2.S` | register windows, WIM, trap frames | spill, fill, entry, exit, flush, switch | threads' stacks |
| &nbsp;&nbsp;m68k | `crt0.S`, `trap.c`, `intr.c` | frames on one supervisor stack, level caches | traps 0 to 5, prologue, epilogue | scheduler |
| &nbsp;&nbsp;ia32 | `crt0.S`, `handlers.c`, `misc.c`, `Tables.c` | TSS, GDT, a stack per vector, `FPU_Last_Task`, `TS` | ISRs, epilogue, FPU trap, dispatch | scheduler, timers |
| Trap table | `traps.c`, SPARC `crt0.S` | `interrupt_handler[]`, mask register, level | register, restore, enter | ISRs, interrupt lock |
| Tracer | `tracer.c`, `posix/trace.c` | ring buffer, cursors, sequence numbers | save (threads, ISRs), read and send (idle); fragments | idle thread, host |
| HAL timers | `time.c`, `oc.c`, `timer.c` of the HALs | PIT and one-shot timer, shared on the mc68332 | program, read, handlers | time queue |
| Debugger stubs | mc68332 `gdb/m68k-stub.c`, `old-gdb/stub.c` | stack of exception frames, packet buffers | catch, resume, packets | serial line, host |
| POSIX layer | `posix/*.c` | wrappers, pthread keys | | system calls |
| Boot, memory, panic, consoles, library | `main.c`, `nomm.c`, `panic.c`, drivers, `lib` | | | |

**What is hard.**  There is one CPU and the kernel is *not* protected by a lock: most of a
system call runs with the interrupts enabled and only `schedule_active` keeps an interrupt
from scheduling in the middle of it.  So ISRs ready threads at any point of a call, also between
a test and the write that follows it; the epilogue and the end of a call both schedule; a
thread may leave a wait by two ways (a post
and a timeout) that touch two queues each; two timers, both late in their own way, serve one
time queue, and each relies on the other where it does nothing; flags are cleared a few
instructions after they were tested.  PROJECT.json lists these as hazards with their lines.

**What has to be right.**

* Scheduler: the highest ready thread runs; a thread is in one place, and never in none; a
  thread's context is saved in its own TCB; peers keep their turns.
* Semaphores: one holder of a lock, no sleeper beside a free semaphore, no lock lost when a
  timeout and a post meet, and a caller that is told the truth about its timed wait.
* Time: nobody wakes early, everybody wakes at last, the queue stays sorted, and "the
  one-shot timer is programmed" means that it really runs.
* Events: an event that an ISR marks reaches a waiter or is kept for one.
* Mutexes: exclusion through hand-overs, the right owner, links that spell what a thread
  has, boosts that come from a mutex the thread has and end with it.
* Lists: the pointers implement the sequences used above, also when an ISR changes a list
  that a thread is in the middle of changing.
* Tracer: the reader sends no event that is half written, none twice, and in the end the
  last one; the host puts the fragments of an event together.
* HAL: registers, FPU values, interrupt levels and interrupt stacks come back to whom they
  were taken from, through every nesting and switch; the timers of the mc68332 fire when they
  were asked to; no interrupt is let through that has no handler.
* Debugger: its exception frames stay in their array; every command runs once and is answered
  over a line that spoils characters.

## 2. Modules

```
ReadyQueue            operators on the ready queues            sched.c, list.c
  ErcosSched          scheduler and ISRs, by statements         sched.c, task.c, syscall.c, HAL
    MCErcosSched        refinement to PriorityLine
  PriorityLine        abstract: one sorted line of threads
  SchedCalls          abstract: what a whole call does to it   sched.c, syscall.c
  ErcosKernel         semaphores, time, events, their calls    sem.c, time.c, irqev.c, syscall.c
    MCErcosKernel       refinement to SchedCalls
  ErcosMutex          mutexes over the ready queues            mutex.c
    MCErcosMutex        the threads for TLC
ReadyQueue_proofs     lemmas on the list operators
  ErcosSched_proofs   theorems of ErcosSched; it implements PriorityLine
  ErcosKernel_proofs  theorems of ErcosKernel
    MCErcosKernel_proofs  ErcosKernel implements SchedCalls
  ErcosMutex_proofs   theorems of ErcosMutex

MCErcosParts          one of the following at a time
  LinkedList          list.c statement by statement            list.c, time.c
  TracerRing          the trace buffer                         tracer.c
  TraceEvent          events in fragments                      posix/trace.c
  SparcWindows        register windows                         hals/sparc/src/*.S
  SparcTraps          trap tables, start-up, handlers          traps.c, hals/sparc
  M68kTraps           levels and switches                      hals/m68k
  Mc68332Timer        two timers made of one                   hals/m68k/mc68332/src/time.c
  Ia32Irq             interrupt stacks and epilogues           hals/ia32/x86
  Ia32Fpu             lazy FPU, task descriptors               hals/ia32/x86
  GdbFrames, GdbLine  the debugger stubs                       mc68332/src/gdb, old-gdb
LinkedList_proofs     theorem of LinkedList
Hal_proofs            theorems of Ia32Fpu, Ia32Irq, Mc68332Timer, SparcTraps, SparcWindows
Parts_proofs          theorems of TraceEvent, TracerRing, M68kTraps, GdbFrames, GdbLine
SparcTimer            the clock over the SPARC counters        time.c, hals/sparc/*/src/timer.c
```

**ReadyQueue.**  A list of nodes is the sequence of its threads; a node's `inside` flag is
membership, so an insertion of a queued node and an extraction of an unqueued one do
nothing, as in the code.  `ScanStops` is the loop of `OS_Schedule`: from `sched_queue_i`
upwards, modulo the number of priorities, to the first list in use.  An operator is a
whole operation, as an ISR performs it with the interrupts disabled (`Lower` is the test and the
write of the index); ErcosSched takes the same operations of the kernel apart.

**PriorityLine** is what a scheduler promises: a line sorted by priority; arrivals go
behind their peers, a thread that is preempted goes before them, the first one is taken;
a thread whose priority changes is out of the line meanwhile (`away`).
`LineOf` of **MCErcosSched** reads it from the lists: the k-th thread is the one with k - 1
before it, in a list of higher priority or nearer to the head of the same list.

**ErcosSched** takes the kernel apart to the statements that an ISR can come between.
`OS_SyscallEntry` sets `schedule_active` and enables the interrupts again (syscall.c:81-86), and
so do the epilogues of m68k and ia32, so the insertions, extractions and priority changes of the
kernel are open to the ISRs that ready threads on the same queues (time.c:258, 455).  `pc` is the
place: `user`, `entry` (after `OS_SyscallEntry`), `unlink` and `change` (a priority changes, of a
queued or of another thread), `tail` and `head` (an insertion), `body` and `epilogue` (before
`OS_Schedule`), `switch` (after the selection, interrupts on, flag not yet clear) and `dispatch`
(flag clear, context not switched).  An insertion is three steps: `TestIndex`
(sched.c:220), `WriteIndex` (221) and `Link`, whose write of the list may be later than its
reading (`seen`); an extraction reads and writes too; `SYS_SetPriority` asks first and then goes
to `unlink` or `change`.  `PlainCall`, `BlockingCall`, `WakingCall`, `TaskCreate`,
`SetPriority`, `SetTmpPriority` and `ThreadExit` are the kinds of call, up to their first
insertion; `HandleEvent` is a wake-up by `OS_IRQHandleEvent`.  `InterruptThread` is an
interrupt with `schedule_active` clear (the epilogue puts `current` at the head of its list and
schedules); `InterruptKernel` is one with the flag set (the HAL returns after the ISR), at
every place of the kernel.

When such an interrupt breaks the ready queues, `broken` says how, and nothing is modelled after it:

* `index`: the ISR lowered the index between the test and the write of a call, which wrote a
  higher value over it;
* `list`: the ISR appended to the list whose links the call had read (LinkedList shows at its
  statements which of these cases break the chain; here every one counts as broken);
* `priority`: the ISR readied the thread that `SYS_SetPriority` had found blocked;
* `test`: `SYS_SetTmpPriority` readied a thread that waits; this one takes no interrupt.

The properties say `broken = "none" =>`, `torn` says that an interrupt came in a dispatch and
`stale` that one readied a thread after `OS_Schedule` had chosen: these are what the properties
except, and the runs `sched_index` and `sched_window` show that two of them happen.  `context`
and `running` say which thread's registers a TCB and the CPU hold; `depth` counts interrupted
dispatches.  Choices made:

* the switch is the software switch of sparc and m68k, which saves into `old_current`;
* `Window` is how many interrupts may be taken between `OS_Schedule` and the switch;
* an ISR is one step and readies one thread; a nested one comes before or after it;
* the epilogue's steps may be interrupted, as on m68k and ia32; on the SPARC the level stays up
  (traps.c and isr.S) and it is one of the behaviours;
* the idle thread makes no calls; priorities of dead or idle threads are not changed; a
  `SYS_TaskCreate` without a free TCB is a `PlainCall`.

**SchedCalls** is what ErcosKernel implements: the same scheduler with the body of a call as one
step, and interrupts before and after it.  What comes between its statements is ErcosSched's
matter.

**ErcosKernel** refines the wake-ups and waits of SchedCalls by what the calls really do.

* *Time is relative.*  `left[t]` is `abs_timeout` minus the true time, `shot` the clicks
  left of the one-shot timer, `pit` the clicks into the PIT period.  `OS_TimeGetTicks` is
  a period (`Overflow`, `OVERHEAD_CLICKS`) behind from the wrap of the PIT until
  `OS_TimerISR` has run: `Late`.  `Penalty` is `TIME_PENALTY`.
* *Places.*  `events` is the loop of `OS_IRQHandleEvent`, `clear` the moment before
  `CLEAR_PENDING_EVENTS`, `sched` the one after it.  ISRs may come at each: HAL epilogues
  call the handler with interrupts enabled, and on ia32 reading or programming a timer
  enables them.  `Tick` is confined to `user` and `events`, which loses nothing: elsewhere
  it commutes with the step before it.  `queue` is the place in `OS_SemWait` between the test of
  the semaphore (sem.c:166) and the insertion of the caller (sem.c:178), with the interrupts
  enabled.  The other bodies are one step.
* *Calls that block* leave a continuation in `resume`: what the thread does when it gets
  the processor again.  `SYS_SemTimedWait` has a second half, `SemTimedWaitReturns`, a
  call of its own that looks at `tid_in`.
* *One wake-up per round.*  `OS_ClockBottomISR` wakes one thread and leaves the rest to the
  event that it marks, for `OS_ListGetNode` clears the link its loop goes on with.
* *Events.*  Only the `inside` flags of the event nodes are state (`event_inside`): the list
  itself is empty outside `IRQMarkEvent`, which marks and handles in one step.  The pending
  count is a boolean, as it is only compared with 0.  An event of an ISR in a call clears
  `schedule_active` and schedules, so a wait that had found its semaphore taken is *cut*: the
  thread goes on with it when it has the processor again, whatever the semaphore has become.  `cut`
  records such semaphores.
* *Abstractions.*  Programming the one-shot timer with 0 fires on the next click.  A timeout that has
  been over for `Overflow` clicks counts no further.  Semaphore ids start at 0 and
  `wait_sem` 0 also means "none", as in the code.
* *Discipline of the threads.*  A lock (`Locks`) is posted by its holder only, not waited for
  twice, and released before exit; semaphores of `Events` are posted by ISRs only.
* `holds` and `expired` are history variables: who has been told that it caught a lock, and
  whose timeout ended a timed wait that has not returned yet.

**ErcosMutex** takes a system call with its schedule as one step, but for those that change the
priority of a thread they have found blocked (`FindsBlocked`): `OS_MutexLock` of an inheriting
mutex (mutex.c:335-342) and `SYS_SetPriority` (syscall.c:219-226).  They go on in `LendsPriority`
and `ChangesPriority`, and in between ISRs wake sleepers without scheduling.  If they wake the
thread that was found, it is in the list of one priority and gets another: `overtaken` names it,
and nothing is modelled after the call.  Elsewhere an interrupt in the middle of a call changes
the ready queues as one after it does, and ErcosSched has those between two statements of a queue
operation.  The
scheduler takes the head of the highest list in use, which ErcosSched justifies.  Threads
sleep and are woken so that urgent ones arrive while others hold mutexes.  `Catch` and
`Block` are the branches of `OS_MutexLock`; `Restored` is the policy switch at the head of
`OS_MutexUnlock`, the hand-over the rest of it.  `Chain` follows `pmutex` and `next` as the
loop of the ceiling policy does.  `held` is a history variable, the stack of mutexes that
each thread has.  Threads unlock in the reverse order of locking, which
`current->pmutex = mutex->next` takes for granted, and do not lock what they have.

**MCErcosParts** runs the modules below.  They share no state with ErcosKernel or with one
another, so the first step of a behaviour chooses one (`part`) and the others stand still:
the run is the sum of eleven state spaces, not their product, and says nothing of two parts
together.

**LinkedList.**  `list` is the header and the nodes; `call` is the statement a thread is at.
Each statement of `OS_ListInsert`, `OS_ListAppend`, `OS_ListExtract`, `OS_ListGetNode` and of
the search of `OS_DoSleep` is a step, and an ISR runs a whole operation between two of them.
`listRole` chooses what threads and ISRs do with the list: a ready list, the time queue, the
waiters of a semaphore.  `Whole` is the operation of an ISR, six or seven statements at once.
`queue` is what the list should spell, `TakesEffect` the statement at which a node counts as in
or out, which differs from operation to operation; `hit` records that an ISR
appended while the thread was at work on the end of the list or took out a node beside the
thread's, which breaks the chain and is excluded from `PointersSpellQueue`.  `OS_ListReset` in
`OS_ClockBottomISR` only matters after such a hit.

**TracerRing.**  A save by a thread reserves a slot with the interrupts disabled, and fills
and seals it in steps of its own; ISRs save in between.  The idle thread's `memcpy` copies
event, crc and number in turn.  The crc is the pair of what it covers.  `SeqRange` is 2^16
scaled down.  **TraceEvent**: the ids 0 and 255 (`Whole255`, scaled down) mean the end and a
whole event; the host is external and follows the comment in `posix_trace_event`.

**SparcWindows.**  A frame (locals and ins of an activation) is in a window or in memory.  Window
traps, interrupt entry and exit, `syscall.S` and the switch are steps, since they run with the
traps disabled; a window trap in one of them is error mode.  `fast` is `CONFIG_FAST_MODE`,
the other half of the files.  `TrapReturn2` computes the WIM as isr2.S:247-254 does, from CWP + 1
without the wrap that window2.S and context2.S have: in the last window the bit
leaves the register (`ShiftedWim`), every window is marked invalid and `rett` faults.
`RegistersSurvive` says that without `CONFIG_FAST_MODE` this is the only return from a trap that
does.

**SparcTraps.**  `Erc32Table`, `Leon2Table` and `Leon3Table` are the trap tables;
`stage` goes from reset through `OS_TrapInit` and `OS_TimeInit` to running.  A call of the
thread is a list of steps (`calling`) between which interrupts come.  The mask register is the
set of its bits and `ExclusiveOr` what `isr.S` does to a level.  `SYS_IntrLock` and
`SYS_IntrUnlock` change the mask for any vector, with a handler or without (syscall.c:583-607),
and a thread may cause a trap that has none; `bare` records the vectors unlocked without one.
Only the thread registers handlers.  `Vecs` takes vectors of different lines: `traps.c` masks by
`vec & 0xf`.

**M68kTraps.**  `stacked` is the one supervisor stack.  A trap does not raise the level, so a
handler may be interrupted like the code below it.  `torn` ends a behaviour in which an
interrupt inside a trap of a thread at level 0 switches threads: the epilogue then stores
the frame of a handler as the thread's context (section 6).

**Mc68332Timer.**  `pit_entry` counts ticks down, the C handler makes a PIT interrupt of every
`Reload` of them and a clock interrupt of the others; `age` and `due` are history variables,
what each should be.  **SparcTimer** is the periodic counter, read before the tick counter.

**Ia32Irq.**  A context is the stack it is on, its interrupt flag and the steps it has left.
`HANDLER_STUB` and the ISRs save the interrupted stack in one word per vector.  `tracer32` is
`CONFIG_ERCOS_KERNEL_TRACER`: with it the ISR of the clock reads the time and saves an event,
which enable the interrupts (time.c:191, ktracer.h:79, tracer.c:143), so that the timer may nest
in it, arm the clock again and let vector 32 enter its own stack: fault `"clock"`, where a
behaviour ends.  That of the timer enables them when it reads the time or calls `clock_init`.  A
vector in service comes again only after its EOI; fault `"timer"` is a second tick between the EOI
of the timer and its `irq_disable`, a few instructions of which nothing is claimed.
**Ia32Fpu**: `fpuRegs` is whose values the FPU holds; TSS slots are reused, descriptors never.

**GdbFrames** has the frames in `gdbFrameStack`, each with the offset it is at, what a resume
drops and the test for room when it makes one up; sizes are those of the m68k structures.  **GdbLine** has `getpacket` and
`putpacket` of both stubs character by character, over a line that may spoil `Damages`
characters, with a host (external) that sends a command again when nothing moves.

## 3. What the runs check

| run | what it shows |
|---|---|
| `sched` | With an ISR at every statement of the queue operations, as long as none has come where `broken`, `stale` or `torn` say that the code does not stand it: the scan index is a lower bound of the lists in use; every queued thread is in its own list once; at user level the highest priority runs, no thread is lost or in two places, every TCB has its own context; the queues implement `PriorityLine`. |
| `kernel` | Two threads share a lock that they wait for, with and without timeouts, sleep and exit: woken threads wait nowhere, nobody waits for a free semaphore, one holder, no lock lost, timed waits told truthfully, sorted time queue, nobody woken early, the one-shot flag means that the timer runs, and the scheduling implements `SchedCalls`. |
| `kernel_wakeup` | Liveness: every timeout ends the sleep, with sleepers out of the one-shot timer's reach, sleepers that expire together, device events and forgotten clock events. |
| `mutex` | All mixes of policies over two mutexes that nest, with timeouts in the middle of the calls that change a priority: exclusion, links, owners, queues of boosted owners, boosts, inheritance on blocking. |
| `parts` | `PointersSpellQueue`; the trace is truthful, in order, complete, and its fragments reassemble; the debugger's frames fit and its commands run once and are answered; register windows, interrupt levels, FPU values and interrupt stacks come back to their owners; the mc68332 timers are on time and their reading is close; a SPARC interrupt meets an empty entry only if a thread unlocked it. |
| `clock_wrap`, `sched_window`, `sched_index`, `kernel_timed_wait`, `kernel_event_lost`, `kernel_event_in_call`, `mutex_queue` | Violations of what the repository says of itself: section 6. |

For each property of a passing run PROJECT.json names a plausible bug (a mutant of a
definition, kept beside it in the module) that breaks it.

The most telling ones.  `LockNotLost` relates the value of a lock, the owner recorded in
`tid_in` and the continuation of that thread, over the race of a timeout and a post.
`OneShotIsRunning` is the fact `OS_TimerISR` stakes every sleeper on.  `ExpiredThreadsWake`
holds although `CLEAR_PENDING_EVENTS` can forget a marked event and although a timeout
nearer than `TIME_PENALTY` programs nothing: the PIT looks at the queue as soon as the
one-shot timer is idle.  `BoostComesFromMutex` says that a boost never outlives the mutexes
it came from, for nested inheriting mutexes with priorities stored in each of them.
`PointersSpellQueue` says exactly when the kernel's habit of changing lists with the interrupts
enabled is safe, and `ScanIndexIsLowerBound`, `OwnQueue` and `NoThreadLost` what an ISR may do
between the statements of the scheduler without harm.  `TraceIsTruthful` rests on the crc and not on the order of the writes.
`LevelsComeBack` is about two variables shared by everything that nests.

## 4. Bounds and fairness

| run | bounds | why they are enough | distinct states |
|---|---|---|---|
| `sched` | 3 priorities, 4 threads (idle, main, two more; TCB 0 is the boot thread) | two peers beside a more urgent and a less urgent thread; every index move, wrap of the scan and reuse of a TCB, an ISR at every statement | 263,700 |
| `kernel` | 3 priorities, 3 threads, one lock, delays 0 and 3, PIT period 2, penalty 1 | a holder, a waiter and the idle thread; a timeout in the past, one beyond the reach of the one-shot timer that comes into it later | 732,062 |
| `kernel_wakeup` | 2 priorities, 3 threads, one event, delay 3 | two sleepers that expire together or apart, across a wrap of the PIT | 288,716 |
| `mutex` | 4 priorities, 3 threads and idle, 2 mutexes, ceiling 0, one thread whose priority is set to 0 and back | a thread of each priority above idle's: an owner boosted twice, two waiters for one mutex, one for each, all mixes of policies, nesting, any sleeper woken in the middle of a call | 992,795 |
| `parts` | LinkedList 3 nodes, two of equal deadline; TracerRing 2 slots, 8 numbers, lag 6, one nested save; TraceEvent 2 threads, payload 2, 3 for 255; GdbFrames 160 bytes, 2 addresses; GdbLine bodies of 4, 2 commands, 2 damages; SparcWindows 3 windows, 2 threads, 4 frames, 2 traps; Mc68332Timer reload 3, period 4; M68kTraps 2 threads, 2 levels; Ia32Irq 2 threads, 3 contexts; Ia32Fpu 2 threads, 8 descriptors; SparcTraps 2 interrupts and a trap, nesting 2 | a node with two neighbours; writers that lap the reader and numbers that wrap; a stack that fills and is reset; a body one too long; calls deeper than the windows; countdowns shorter and longer than what is left of a period; a user and a handler cache in use at once | 1,239,659 |

The parts have 2265 (LinkedList), 6830 (TracerRing), 2366 (GdbFrames), 2223 (GdbLine), 54,304
(SparcWindows), 7464 (Mc68332Timer), 576,938 (M68kTraps), 5993 (Ia32Fpu), 473,340 (Ia32Irq) and
98,332 (SparcTraps) states, and the rest is TraceEvent.  Bounds that matter:
`MaxNested < TracerSize`, for an ISR that saves as many events as there are slots within one
save makes `TraceIsTruthful` false; `MaxTicks <= Reload`, for a longer countdown makes
`TimersOnTime` false (time.c:289); `InEntry = FALSE`, for a higher interrupt at the first
instruction of `pit_entry` breaks the assertion of time.c:264; `Vecs` without two vectors of
one line.

The other bounds on executions are the sizes above and the floor of `left`; there are no
state constraints.  `sched` has `Window = 0`: the interrupt between `OS_Schedule` and the dispatch
is the run `sched_window`; the theorems hold for any `Window`.  `parts` does not check for
deadlock, as a bounded part may stop.  Nor do the `mutex` runs: two threads may lock two mutexes
in opposite orders, a thread of the idle priority never runs, and a behaviour ends when a thread
was overtaken.

Fairness (`ErcosKernel!FairSpec`): `WF(Kernel)`, the CPU goes on executing kernel code and
threads in the middle of a call; `SF(TimerISR)` and `SF(ClockISR)`, a requested interrupt stays
pending and is taken at the first instruction with interrupts enabled, though the kernel
disables them again and again; `SF(Tick)`, hardware time passes.  Nothing is assumed of
threads, which may compute for ever, and of devices, which may never interrupt.
`ExpiredThreadsWake` says that a sleeper becomes ready; that it runs is a matter of
priorities.  The serial line has `WF(LineNext)`: the stub polls it, the host repeats what is not
answered, and the line spoils at most `Damages` characters, so that something goes on moving.

## 5. Proofs

Every theorem is `Spec => []P` (or `[][A]_vars`, or a refinement) for every value of the constants that the
named ASSUMEs of the modules allow, and under the hypotheses below and no others.

| theorem | states | hypotheses |
|---|---|---|
| **ErcosSched_proofs** | | |
| `TypeCorrect`, `ScanIndexCorrect`, `OwnQueueCorrect`, `NoThreadLostCorrect`, from `SchedInvariant` | `TypeOK`, `ScanIndexIsLowerBound`, `OwnQueue`, `NoThreadLost` | none |
| `PriorityLineImplemented` | `ImplementsPriorityLine`: the refinement | none |
| `HighestPriorityCorrect`, `ContextsKeptCorrect` | `HighestPriorityRuns`, `ContextsKept` | none |
| **ErcosKernel_proofs** | | |
| `TypeCorrect`, `NoLostPost`, `TimerNotForgotten` | `TypeOK`, `NobodyWaitsForFreeSem`, `OneShotIsRunning` | none |
| `PlacesCorrect`, `WokenLeaveTheirQueues`, `TimeQueueInOrder`, `NobodyWakesEarly` | `PlaceInv`, `WokenWaitsNowhere`, `TimeQueueSorted`, `NoEarlyWake` | `EventInCall = FALSE`, `Timed \cap Events = {}` |
| `OneOwnerCorrect`, `LocksExclude`, `LocksAreNotLost` | `LockHasOneOwner`, `MutualExclusion`, `LockNotLost` | the same |
| `TimedWaitsAreTrue` | `TimedWaitTellsTheTruth` | also `Timed \subseteq Locks` |
| **MCErcosKernel_proofs** | | |
| `ImplementsSchedCorrect` | `ImplementsSched`: the refinement | as `PlacesCorrect` |
| **ErcosMutex_proofs** | | |
| `TypeCorrect`, `OnePlaceCorrect`, `MutexExcludes`, `ChainCorrect`, `OwnerCorrect`, `BoostCorrect`, `WaiterLends` | `TypeOK`, `OnePlace`, `MutualExclusion`, `ChainIsHeld`, `OwnerIsHolder`, `BoostComesFromMutex`, `WaiterLendsPriority` | none |
| **Hal_proofs** | | |
| `FpuValuesCorrect` | `FpuValuesComeBack` | none |
| `TimersCorrect`, `TimeReadCorrect` | `TimersOnTime`, `TimeReadIsClose` | `MaxTicks <= Reload` |
| `IrqStacksCorrect` | `IrqStacksHold` | none |
| `HandlersCorrect` | `NoUnhandledTrap` | `OneVectorPerLine` |
| `RegistersCorrect` | `RegistersSurvive` | none |
| **Parts_proofs** | | |
| `FragmentsCorrect` | `FragmentsReassemble` | none |
| `TraceTruthful` | `TraceIsTruthful` | `MaxNested < TracerSize` |
| `TraceOrderCorrect`, `ReaderCatchesUpCorrect` | `TraceInOrder`, `ReaderCatchesUp` | also `SeqRange = 2 * Half`, `TracerSize <= Half + 1` |
| `LevelsCorrect` | `LevelsComeBack` | none |
| `FrameStackCorrect` | `FrameStackHolds` | `RoomForAFrame` |
| `CommandsCorrect` | `EachCommandOnce` | none |
| **LinkedList_proofs** | | |
| `ListsCorrect` | `PointersSpellQueue` | none |

### Why the hypotheses

Where the code does not keep a property under some interleaving, the model has the interleaving
and a variable that records it: `broken`, `torn` and `stale` of ErcosSched, `cut` of ErcosKernel,
`overtaken` of ErcosMutex, `bare` of SparcTraps, `hit` of LinkedList, fault `"clock"` of Ia32Irq.
The property excepts what follows, in its text, and the theorem needs no hypothesis: it covers every
interleaving but those that set the variable.  A hypothesis excludes a behaviour of the code
by the constants, in which the property or the invariant that it rests on is false, and the
behaviour is recorded elsewhere:

* `EventInCall = FALSE`: no ISR marks an event inside the call that it interrupts; the run
  `kernel_event_in_call` shows what happens otherwise.
* `Timed \cap Events = {}`: no thread waits with a timeout for an event.  `OS_IRQSemPost`
  (irqev.c:176) readies the waiter and leaves it in the time queue (section 7).
* `Timed \subseteq Locks`: timed waits are for locks.  For another semaphore `tid_in` may be what
  the thread left there itself: the run `kernel_timed_wait`.
* `MaxTicks <= Reload`: a countdown longer than the PIT's is late (time.c:289).
* `MaxNested < TracerSize`: ISRs that save a whole buffer within one save take the slot that
  is being filled, whose crc then covers a number that is not its own (section 4).
* `TracerSize <= Half + 1`: numbers are compared modulo `SeqRange`, 2^16 in the code, and a
  slot that holds the event of a round before has to look old.
* `OneVectorPerLine`: no two vectors in play have the same `vec & 0xf`, by which `traps.c` masks
  (section 6).
* `RoomForAFrame`: `gdbFrameStack` has room for the frame at the bottom and one of the largest
  kind, 76 bytes of the 2000 in the code.  In a smaller one the first bus error does not fit.

### The arguments

**ErcosSched.**  `HighestPriorityRuns` and `NoThreadLost` speak of user level only, while the
steps between two visits leave threads in transit, so neither is inductive.  `SchedInv` says
what holds at every place: types, always; and until `broken`, the scan index below every list in
use; each queued thread once, in the list of its priority; `OnePlace`, no thread in two places,
where `current` counts as placed only while it has the processor (`Settled`) and the thread that is
worked on only before and after; `SomePlace`, none in no place; and `TargetOK`, what the
statements done so far have found and written of that thread, the index and its list.  The index
makes the scan find the highest list, the own-list part makes an extraction find its node, and the
placing of `current` makes the insertion of the epilogue a real one.  `TargetOK` is what an ISR
between two statements must leave: one that appends to the list that `seen` holds, lowers the index
under a write to come or readies the thread found blocked does not, and these are the three values of
`broken` that an interrupt sets.  `CurrentIsHighest` (until `stale`) and `ContextOfCurrent` (until
`torn`) carry the last two theorems from `OS_Schedule` to the next entry of the kernel.  There is a
lemma per action, resting on the lemmas of `ReadyQueue_proofs` on what an insertion and an
extraction leave of a family of lists (`Inserted`, `Removed`).

**Refinement to PriorityLine.**  The line is the one sequence that holds the queued threads and
no others, each before those that `LineOf` puts after it (`Spelled`).  Two such sequences are
equal, since the place of a thread is one more than the number of those before it
(`SpelledIsLine`).  That there is one is `LineSpelled`, which is inductive: `AddSpelled`,
`RemoveSpelled` and `TakeSpelled` say what the insertion, the extraction and `OS_Schedule` do to
the line where they change one list, and that it is what PriorityLine does.  An insertion
at the head of its list goes before the first thread of that priority or a lower one, an
insertion at the tail before the first of a lower one; the threads before that place are a
prefix of the line (`CountPrefix`).  Whether the scan index is right decides which list
`OS_Schedule` takes, so the steps also need `SchedInv`.  An operation that the kernel does in
several statements is one step of PriorityLine, at the statement that links or unlinks the node
(`LinkStep`, `UnlinkStep`), and the others are stutters; a thread that is neither queued nor settled
in between is `away`.  `YieldStep`, `ArriveStep`, `IsrReadiesStep` and `ScheduleStep` name the steps
of the other actions.  Both the spelling and the steps are claimed until `broken`.

**ErcosKernel.**  Types and `OneShotIsRunning` stand alone.  `NobodyWaitsForFreeSem` needs that
what a wait has found still holds when it blocks (`TakenUntilBlocked`), and is proved together with
it for all constants, events included: a post by an ISR between the two puts the semaphore into
`cut`, and the property is about the others.  The rest rests on `PlaceInv`: no wait is cut
(`EventInCall = FALSE`); the ready queues are in order; no thread is in two places (`OnePlace`);
and a thread goes on with the wait that it is in (`GoesOnWithItsWait`), that is, who stands in
line for `s` has `wait_sem` on `s` and `s` in its continuation, and is in the time queue too only if its wait
is a timed one.  This makes the two ways out of a timed wait exclusive: each finds the node of
the other queue where it is and takes it out.  The time queue stays sorted because a wake-up
takes its head and a post a node from its middle, and `time_list` is distinct.
`LockHasOneOwner` says of a lock that is not free that either `tid_in` holds it and nobody has been
granted it, or nobody holds it and `tid_in` alone has been *granted* it: it will be told when it
runs again.  `MutualExclusion` and `LockNotLost` are its two halves and are not inductive
apart: a post trusts that its caller is the only holder, and a return from a timed wait
trusts that nobody else was handed the lock meanwhile.  Its last part, that `tid_in` is never
one who still waits or has waited in vain, gives `TimedWaitTellsTheTruth`.

**Refinement to SchedCalls.**  The mapping is the one of `MCErcosKernel`: the event handling is a
place of the call or of the epilogue around it, `queue` is still the entry of the call, and a thread
is `waiting` if it is in line or in the time queue.  `PlaceInv` gives that a thread that is readied
was waiting and that only `current` blocks.  One lemma per action names the step of SchedCalls, or
the stutter, that it maps to.

**ErcosMutex.**  `PlaceInv`: types; the ready lists agree with the states (`Placed`); who waits
for a mutex is in line once, for one that exists (`InLine`); owners are threads (`Owned`); and a
call that has found a thread blocked (`Asking`) has its caller running, or blocked and lending its
priority, and the thread where it was found unless it was `overtaken`.  A call that goes on with a
thread that was overtaken ends the behaviour in a state of which less holds (`Ended`: types, owners,
`OnePlace` with its exemption), so what is inductive is `PlaceInv \/ Ended`, and `Ended` has no
successors.  On `PlaceInv` rests `HeldInv`: mutual exclusion, `HeldOnce`, `ChainIsHeld` and `OwnerIsHolder` together, for the
unlock goes by `in_thread` and the links where exclusion is about the stacks `held`; a lock and
an unlock change the first link of a stack only.  On it `BoostInv`: a priority that is not the
base one is the `prio` of an inheriting mutex that the thread has; the unlock gives back the base
priority or the `prio` of the mutex below.

**HALs.**  `FpuInv`: `TS` is clear only while the thread runs that vector 7 gave the FPU to, and
what a thread that has used it needs is in the FPU or in its own slot, as `FPU_Last_Task` says.
`TickInv` relates the countdown of the mc68332 and what the clock took off it to the ticks since
the last PIT interrupt; `CounterInv` the counter, the latch and the time since the tick.
`StackOK` says of every context on the ia32 that an ISR on the stack of a vector is the only
one there and that the word of the vector names the context below it, until fault `"clock"`, which only `tracer32` brings.
`LevelsInv` is about the supervisor stack of the mc68332: what each kind of context can still
have to do (`ContextOK`), how two neighbours fit together (`OnOK`), and that the levels that
contexts came in with only grow up the stack.  A cache of levels is shared by all of them;
what is stored in it is the level of the context on top, and by the order that covers every
context below.  A context about to switch, or in the epilogue of an interrupt, has no disable
of its own in force (`Needs`), so no thread is stored with its level raised.  It says nothing of a state
after `torn`, where `LevelsComeBack` claims nothing either.

**Tracer.**  `FragmentInv`: what the host has of an event follows from the id that comes next.
`RingInv`: the ISRs within a save have taken the slots after its own and not come round to it.
`OrderInv`: the number in each slot was given as many saves ago as the slot is behind the
writer, unless it was never reserved; the reader's next slot holds the event after the last
one sent or one that has lapped it; and so does its copy, which may be rounds older.

**Debugger.**  `FrameInv`: each frame was put where at least 46 bytes remained, as much as the
largest one takes; a return from the exception drops the frame, so there is room again, and a
resume elsewhere, which leaves its frame behind, has passed the test for 78.  `LineInv` says where
the one command under way is: on its way behind the acknowledgement of the last reply (`Queued`),
being read or lost (`Reading`), refused (`Refused`), accepted and not yet answered (`Accepted`) or
answered (`Replying`); the stub has run the commands up to it or one fewer, as the place says.
A packet that the line spoilt adds up to no checksum that is taken for right.

**SPARC.**  `TrapTableInv`: the vector of an unmasked line has a handler or is in `bare`; each step
of a call that is under way enables only what will be in one of the two by then; and the table does not change
while a trap is in progress.  `WindowInv`: the windows hold the youngest frames of the thread, down
to the one that the WIM marks, and its memory the older ones; `ShiftedWim` is the WIM that this asks
for in every window but the last, and in that one the return stops the processor.

**LinkedList.**  A list with its header is a ring, with Null for the header.  `Sound` says, for
each statement of each operation, which links of the ring of `queue` the list lacks: at most those
at the place that the operation works on; what it has read into `r` and `h` and written into its
node agrees with the ring; count and flag are behind by what the last statements do; and a
sleeper that `OS_DoSleep` is looking for a place for belongs no further forward.  An insertion into
the ring and a removal from it change two links each (`RingGrown`, `RingShrunk`).  The statement
that takes effect makes the started links those of the new ring; an ISR that works apart
from the thread's links changes both rings alike.  The condition for "apart" is the negation of
`hit`, so the theorem has no hypothesis.  The proof found that `TakesEffect` had two
CASE arms that were both true for an append to the time queue, of which TLC takes the first and
TLA+ either; they exclude one another now.

The invariants that TLC can evaluate were checked with it before they were proved.

### Only model-checked

* Liveness under fairness: `ExpiredThreadsWake`, `CommandsAnswered`.  ENABLED and leads-to from
  fairness are beyond this version of the prover.

## 6. Disagreements with the repository's own words

Each is a run that TLC must find violated; PROJECT.json quotes the lines.

* `sched_window`: `OS_Schedule` enables interrupts before the dispatch (sched.c:148); an
  interrupt taken there schedules again and a context is saved in another thread's TCB.
* `sched_index`: the insertions read and write `sched_queue_i` with the interrupts enabled
  (sched.c:220-221, 240-241).  An ISR that readies a more urgent thread in between lowers the index
  and the call raises it again; it no longer points to the first list in use, as the comment at
  sched.c:54 has it, and `OS_Schedule` passes the urgent thread.
* `kernel_timed_wait`: `tid_in` outlives a post; a thread that was the last to catch a semaphore
  and then times out on it is told that it caught it (syscall.c:345, sem.c:240).
* `kernel_event_lost`: the event list is emptied by resetting its header (irqev.c:109);
  the nodes stay marked as inside, and a second event of the same semaphore is ignored.
* `kernel_event_in_call`: `SYS_IRQMarkEvent` of an ISR is a whole system call inside the one
  it interrupts and clears `need_reesched` (syscall.c:634); a caller that was blocking
  returns from its wait without the lock.  Where it interrupts a wait between the test and the
  insertion (`cut`), the caller blocks on what may be free by then.
* `mutex_queue`: waiters of an inheriting mutex go to the head of its list (mutex.c:147), where
  the comment says that the queue is sorted by priority.
* `clock_wrap`: on the SPARC boards `OS_TimeGetTicks` adds an unsigned 32-bit difference less an
  overhead to a 64-bit counter (time.c:411, leon3.h:150); in the first microseconds of a period the
  difference is negative and the clock about 2^32 ahead.

Met while modelling, without a run of their own:

* Statements that an ISR comes between, where the code has no protection.  The scheduler (values of
  `broken`): `list`, an append to a list whose links the call has read breaks its chain and loses a
  thread (list.c:96-154); `priority`, `SYS_SetPriority` finds a thread blocked and changes its
  priority when an ISR has queued it (syscall.c:219-226); `test`, which needs no ISR,
  `SYS_SetTmpPriority` asks whether the *caller* is blocked, contrary to the comment above
  (syscall.c:248-251), and readies a thread that waits.  Mutexes (`overtaken`): an owner that was
  found blocked and is queued when it gets the priority of a waiter (mutex.c:335-342); without
  its exemption `OnePlace` is violated within five states.  Semaphores (`cut`): `OS_SemWait` tests the
  value and appends later (sem.c:166-178), and a post in between finds no waiter; without the
  exception `NobodyWaitsForFreeSem` is violated within ten states under `KernelEventInCall.cfg`.
* Mutexes (recorded as hazards): a nested unlock can restore a priority below the base
  priority (`mutex->prio` is stale, mutex.c:220); under the ceiling policy a hand-over boosts the
  wrong thread (mutex.c:271).
* mc68332: a countdown longer than the PIT's makes the clock late (time.c:289); the assertion of
  time.c:264 fails if a higher interrupt comes at the first instruction of `pit_entry`; an
  interrupt inside trap 0, 1 or 2 of a thread at level 0 switches threads in the middle of the
  handler, contrary to intr.h:41.  The mask of the trap table is empty there.
* SPARC: nested interrupts leave through `trap_entry_return` without the `restore` and `save` of
  isr.S:204, so that with more frames than windows (`Windows = 4`, `MaxFrames = 6`)
  `RettFindsValidWindow` of SparcWindows does not hold.  syscall.S:103-106 loads the new WIM before
  `save`.  isr.S:140 combines the level by exclusive or, contrary to the comment above it.
  `OS_TrapEntry` clears an interrupt after its handler, which drops one raised meanwhile.
  `OS_RestoreIRQ` masks the line also when it restores an older handler.  `SYS_IntrUnlock`
  asks for no handler (syscall.c:596-607), so a thread can unlock an interrupt whose entry is empty
  and the next one panics.  isr2.S:247-254 shifts by the number of a window plus one without
  taking it modulo the windows, as window2.S and context2.S do: a return in the last window finds all
  windows invalid.  traps.c:64-65 says that
  a vector that is no interrupt is ignored, but the mask takes `vec & 0xf`: with vectors of one
  line in `Vecs`, `NoUnhandledTrap` does not hold.  On erc32 the counter is reloaded with 2^32-1
  whatever `CONFIG_ERCOS_CLICKS_PER_TICK` says.  On LEON the test for `CONFIG_HAS_FPU` in
  `crt0.S` is inverted.
* ia32: with the tracer, `KTRACE` in the ISR of the clock (time.c:191, ktracer.h:79, tracer.c:143)
  enables the interrupts after the one-shot flag was cleared, so a tick can arm the clock again
  and vector 32 enter its own stack.  A vector that interrupts itself overwrites `prev_handlerN_stack`; a jump to the thread's
  own TSS, which is busy, faults (`"#GP"` in Ia32Irq, outside the property); GDT entries of ended
  threads are never used again; the PIC mask is read and written non-atomically (misc.c:327).
* POSIX: `ts_bitmap` is read and written non-atomically (pthread.c:241); the address of a key's
  value is computed with a scaled pointer (pthread.c:271).

## 7. What is not modelled, and why

* An ISR is one step: what an ISR does to another in its middle, and events saved within ISRs,
  are in Ia32Irq, M68kTraps and SparcTraps only.  An ISR of the SPARC epilogue comes at places where
  that HAL keeps the level up; the behaviours of the code are among those of the model.
* What the ready queues become after `broken`, the mutexes after `overtaken`, the stacks after fault
  `"clock"`: broken chains and overwritten words, of which nothing useful is true.
* The statements of ErcosKernel's and ErcosMutex's other bodies: an ISR comes before or after
  them.  Those of the queue operations are in ErcosSched and LinkedList.  A cut wait's steps between
  its insertion and the next disabling of the interrupts, when `schedule_active` is clear, and the
  flag word of a thread that blocks while an ISR changes it, are not apart.
* A timeout that comes between `OS_DoSleep` and `OS_SemWait` in the body of
  `SYS_SemTimedWait` (syscall.c:320), for bodies are single steps.  `OS_TimerISR` would have to
  find the one-shot timer not programmed and the new timeout over.  The caller would then be
  ready and in line for the semaphore: `WokenWaitsNowhere` and `LockNotLost` are not claimed for
  that window.
* `OS_SemDestroy` and `OS_MutexDestroy`, which forget their waiters; threads that exit with a
  mutex; unlocking out of order; a timed wait for an event that an ISR marks.
* A countdown of exactly one more than the PIT's on the mc68332 (`us = Reload * Period`, m68k
  time.c:216): `MaxTicks <= Reload` leaves it out with the longer ones.
* What a reader of the trace does at the end: on ia32 `power_down` (misc.c:200) never returns, so
  `ReaderCatchesUp` speaks of targets where the idle thread goes on.  Handlers that are registered by
  ISRs or by more than one thread.
* `OS_FreeIRQ`, which nothing calls; `OS_TimeGetTime` with its division, whose seconds and
  microseconds are two reads; the calibration and tick arithmetic of the ia32 timers.
* The general registers that an entry saves, page tables, descriptors other than those of
  threads: straight-line data.  The ia32 stub saves no general registers of what it interrupts.
* The POSIX wrappers but `posix_trace_event`: arguments are checked and one call is made.
* The commands of the debugger stubs (registers, memory dumps) but what they do to frames.
* Stack memory (`OS_Free` does nothing), `OS_Start`, panic, C++ runtime, consoles and the
  library: no state that the kernel's logic depends on.

## 8. Plan

In this order; done parts first.

1. ReadyQueue, ErcosSched at the grain of statements, PriorityLine, runs `sched*`, theorems: done.
2. ErcosKernel and its refinement to SchedCalls, runs `kernel*`: done.
3. ErcosMutex, runs `mutex*`: done.
4. LinkedList, TracerRing, TraceEvent, run `parts`: done.
5. HALs and debugger stubs (SparcWindows, SparcTraps, SparcTimer, M68kTraps, Mc68332Timer,
   Ia32Irq, Ia32Fpu, GdbFrames, GdbLine), runs `parts` and `clock_wrap`: done.
6. Proofs of the core: ErcosSched, ErcosKernel and its refinement to SchedCalls, ErcosMutex:
   done.
7. Proofs of the parts, all of `parts` but the liveness of the line: done.
8. Refinement of PriorityLine by ErcosSched, proved step by step: done.
9. Interrupts between the test and the write of a call, in the scheduler, the semaphores and the
   mutexes, with the properties that hold until one breaks something: done.
10. To be taken apart in the same way: `SYS_SemTimedWait` and the other bodies of ErcosKernel, as far
    as section 7 names their windows.
11. Left to TLC: the two liveness properties.  Left out: the rest of section 7.
