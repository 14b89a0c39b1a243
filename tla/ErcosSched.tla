----------------------------- MODULE ErcosSched -----------------------------
(***************************************************************************)
(* The ERCOS-RT scheduler: sched.c, the thread life cycle of task.c, the   *)
(* entry and exit of every system call in syscall.c, and the interrupt     *)
(* epilogue and the context switch of the HALs.                            *)
(*                                                                         *)
(* The processor is always in one thread's code or in the kernel on its    *)
(* behalf; pc says where.  The queues a thread can wait in (semaphores,    *)
(* mutexes, time) are abstracted to the set waiting: a system call puts    *)
(* the calling thread there, and a system call, an event or an interrupt   *)
(* service routine (ISR) takes a thread out and readies it.                *)
(*                                                                         *)
(* OS_SyscallEntry enables the interrupts again, and most of the epilogue  *)
(* runs with them enabled, so what the kernel does to the ready queues is  *)
(* done statement by statement: an ISR, which runs with them disabled and  *)
(* is one step, readies threads between a test and the write that follows  *)
(* it.  When that breaks the ready queues broken says how, and the model   *)
(* stops there.                                                            *)
(***************************************************************************)
EXTENDS ReadyQueue, FiniteSets

CONSTANTS MaxThreads,     \* CONFIG_ERCOS_MAX_THREADS
          Window          \* bound: how many interrupts a context takes between
                          \* the end of OS_Schedule and its own dispatch

ASSUME SchedAssumption == /\ MaxThreads \in Nat /\ MaxThreads >= 3
                          /\ Window \in Nat

Boot == 0       \* task_table[0]: only the context of OS_Start is saved in it
Idle == 1
Main == 2
Tid == 0 .. (MaxThreads - 1)
Thread == Tid \ {Boot}

\* The TS_* bits of status: none for TS_RUNNING; "BLOCKED" stands for
\* TS_SEM_BLOCKED and TS_TIME_BLOCKED.
Flags == {"READY", "BLOCKED"}
Places == {"user", "entry", "unlink", "change", "tail", "head", "body", "epilogue",
           "switch", "dispatch"}

VARIABLES
    sched_list, sched_queue_i,  \* the ready queues and the scan index
    current, old_current,       \* tids, for the pointers into task_table
    status, priority,           \* base_priority is in module ErcosMutex
    tcb_list,                   \* the free TCBs
    waiting,                    \* threads in a semaphore, mutex or time queue
    need_reesched,
    pc,
    target, wanted,             \* at "unlink", "change", "tail" and "head": the
                                \* thread that is worked on, its new priority
    step,                       \* how far its insertion is
    seen,                       \* the list when its links were read
    offers,                     \* whether the caller is put back after it
    broken,                     \* "none", or what an ISR came between
    running,                    \* the thread whose context the CPU executes
    depth,                      \* dispatches this context was interrupted in
    context,                    \* what is saved in the TCB of each thread
    torn, stale                 \* history: a dispatch was interrupted; an ISR has
                                \* readied a thread since OS_Schedule chose

queues == <<sched_list, sched_queue_i>>
threads == <<status, priority, tcb_list, waiting>>
work == <<target, wanted, step, seen, offers>>
cpu == <<running, depth, context, torn>>
vars == <<queues, current, old_current, threads, need_reesched, pc, work, broken,
          cpu, stale>>

\* schedule_active is set by OS_SyscallEntry and by the interrupt epilogue,
\* and cleared at the end of OS_Schedule.
schedule_active == pc \notin {"user", "dispatch"}

\* Mutant of Blocked: the wrong status bit.
BlockedTestsReady(t) == "READY" \in status[t]

\* OS_TaskIsBlocked.
Blocked(t) == "BLOCKED" \in status[t]

Live(t) == ~In(tcb_list, t)

----------------------------------------------------------------------------
(* Initialisation.                                                         *)

\* OS_TCBInit makes TCBs 1 to MaxThreads - 1 free and creates the idle and
\* the main thread; the first OS_Schedule of OS_Start selects main.
Init ==
    /\ sched_list = [EmptyQueues EXCEPT ![MinPriority] = <<Idle>>]
    /\ sched_queue_i = MaxPriority
    /\ current = Main /\ old_current = Boot
    /\ status = [t \in Tid |-> IF t = Idle THEN {"READY"} ELSE {}]
    /\ priority = [t \in Tid |-> IF t = Idle THEN MinPriority ELSE MaxPriority]
    /\ tcb_list = [i \in 1 .. (MaxThreads - 3) |-> i + 2]
    /\ waiting = {}
    /\ need_reesched = FALSE
    /\ pc = "user"
    /\ target = Boot /\ wanted = MaxPriority /\ step = "test" /\ seen = <<>>
    /\ offers = FALSE /\ broken = "none"
    /\ running = Main /\ depth = 0 /\ torn = FALSE /\ stale = FALSE
    /\ context = [t \in Tid |-> [thread |-> t, depth |-> 0]]

----------------------------------------------------------------------------
(* What the kernel does to the ready queues, by statements.                *)

\* OS_SchedTaskReady and OS_SchedCurrentReady are called: t is about to go to
\* the tail or to the head of its list.
Inserts(end, t) ==
    /\ pc' = end /\ target' = t /\ step' = "test" /\ seen' = <<>>
    /\ wanted' = MaxPriority

\* The list of the target, whose links are about to be read.
ReadsLinks == step' = "link" /\ seen' = sched_list[priority[target]]

Inserting == pc \in {"tail", "head"}

TestIndex ==
    /\ Inserting /\ step = "test"
    /\ status' = [status EXCEPT ![target] = {"READY"}]
    /\ IF priority[target] < sched_queue_i
       THEN step' = "write" /\ UNCHANGED seen
       ELSE ReadsLinks
    /\ UNCHANGED <<queues, current, old_current, priority, tcb_list, waiting,
                   need_reesched, pc, target, wanted, offers, broken, cpu, stale>>

\* An ISR may have lowered the index further since the test.
WriteIndex ==
    /\ Inserting /\ step = "write"
    /\ sched_queue_i' = priority[target]
    /\ broken' = IF sched_queue_i < priority[target] THEN "index" ELSE "none"
    /\ ReadsLinks
    /\ UNCHANGED <<sched_list, current, old_current, threads, need_reesched, pc,
                   target, wanted, offers, cpu, stale>>

\* OS_ListAppend, OS_ListInsert and OS_ListExtract write what they have read,
\* also the number of nodes: what an ISR has appended since is lost.
ListKept == broken' = IF sched_list[priority[target]] = seen THEN "none" ELSE "list"

\* A call goes on with the thread that makes it; without one, and for that
\* thread, the kernel is done.
Link ==
    /\ Inserting /\ step = "link" /\ ListKept
    /\ sched_list' = IF pc = "tail" THEN AddTail(sched_list, target, priority[target])
                                    ELSE AddHead(sched_list, target, priority[target])
    /\ IF pc = "tail" /\ offers
       THEN Inserts("head", current)
       ELSE Inserts(IF need_reesched THEN "body" ELSE "epilogue", Boot)
    /\ offers' = FALSE
    /\ UNCHANGED <<sched_queue_i, current, old_current, threads, need_reesched,
                   cpu, stale>>

\* OS_SchedRemoveThread and OS_SetPriority; then the target is inserted again.
Unlink ==
    /\ pc = "unlink" /\ ListKept
    /\ sched_list' = RemoveThread(sched_list, target, priority[target])
    /\ priority' = [priority EXCEPT ![target] = wanted]
    /\ Inserts("tail", target)
    /\ UNCHANGED <<sched_queue_i, current, old_current, status, tcb_list, waiting,
                   need_reesched, offers, cpu, stale>>

\* OS_SetPriority alone, of a thread that was in no list when it was looked at.
Change ==
    /\ pc = "change"
    /\ broken' = IF Queued(sched_list, target) THEN "priority" ELSE "none"
    /\ priority' = [priority EXCEPT ![target] = wanted]
    /\ Inserts("head", current)
    /\ offers' = FALSE
    /\ UNCHANGED <<queues, current, old_current, status, tcb_list, waiting,
                   need_reesched, cpu, stale>>

----------------------------------------------------------------------------
(* System calls.  Idle only powers the CPU down and makes none.            *)

\* OS_SyscallEntry.
SyscallEntry ==
    /\ pc = "user"
    /\ current # Idle
    /\ pc' = "entry"
    /\ UNCHANGED <<queues, current, old_current, threads, need_reesched, work, broken,
                   cpu, stale>>

\* The body of a call up to its first insertion.  All bodies ask for a new
\* schedule; an ISR that makes a call of its own is in module ErcosKernel.
Body == /\ pc = "entry"
        /\ need_reesched' = TRUE
        /\ UNCHANGED <<queues, current, old_current, running, depth, torn, stale>>

\* A call that does not touch the scheduler: a try, a query, or a wait for
\* something that is free.  SET_NEEDREESCHED puts the caller at the head of
\* its list.
PlainCall ==
    /\ Body
    /\ Inserts("head", current)
    /\ UNCHANGED <<threads, offers, broken, context>>

\* The caller blocks: SET_NEEDREESCHED_FLAG alone, it is not made ready.
BlockingCall ==
    /\ Body /\ pc' = "body"
    /\ status' = [status EXCEPT ![current] = @ \cup {"BLOCKED"}]
    /\ waiting' = waiting \cup {current}
    /\ UNCHANGED <<priority, tcb_list, work, broken, context>>

\* The caller releases something that t waits for.
WakingCall(t) ==
    /\ Body
    /\ t \in waiting
    /\ waiting' = waiting \ {t}
    /\ Inserts("tail", t) /\ offers' = TRUE
    /\ UNCHANGED <<status, priority, tcb_list, broken, context>>

\* SYS_TaskCreate: the first free TCB.  Without one it is PlainCall.
TaskCreate(p) ==
    LET t == Head(tcb_list) IN
    /\ Body
    /\ tcb_list # <<>>
    /\ tcb_list' = Tail(tcb_list)
    /\ priority' = [priority EXCEPT ![t] = p]
    /\ context' = [context EXCEPT ![t] = [thread |-> t, depth |-> 0]]
    /\ Inserts("tail", t) /\ offers' = TRUE
    /\ UNCHANGED <<status, waiting, broken>>

\* A thread whose priority changes to p is taken out of its list first, if it
\* is in one, and put into the new one.
Reprioritises(t, p, queued) ==
    /\ pc' = IF queued THEN "unlink" ELSE "change"
    /\ target' = t /\ wanted' = p /\ step' = "test" /\ offers' = TRUE
    /\ seen' = IF queued THEN sched_list[priority[t]] ELSE <<>>
    /\ UNCHANGED <<threads, context>>

\* SYS_SetPriority, of a thread that holds no mutex.  OS_SchedRemoveThread
\* asserts that the thread is not idle.
SetPriority(t, p) ==
    /\ Body
    /\ Live(t) /\ t # Idle
    /\ Reprioritises(t, p, t # current /\ ~Blocked(t))
    /\ UNCHANGED broken

\* SYS_SetTmpPriority, which asks whether the caller is blocked and not whether
\* t is: a thread that waits is put in a ready queue.
SetTmpPriority(t, p) ==
    /\ Body
    /\ Live(t) /\ t # Idle
    /\ Reprioritises(t, p, t # current /\ ~Blocked(current))
    /\ broken' = IF t # current /\ Blocked(t) THEN "test" ELSE "none"

\* SYS_ThreadExit: the TCB is free at once, while the thread still runs.
ThreadExit ==
    /\ Body /\ pc' = "body"
    /\ status' = [status EXCEPT ![current] = {}]
    /\ tcb_list' = Append(tcb_list, current)
    /\ UNCHANGED <<priority, waiting, work, broken, context>>

\* OS_IRQHandleEvent, at the end of a call and of an interrupt, readies a
\* thread for an event or a timeout.
HandleEvent(t) ==
    /\ pc \in {"body", "epilogue"}
    /\ t \in waiting
    /\ waiting' = waiting \ {t}
    /\ Inserts("tail", t)
    /\ UNCHANGED <<queues, current, old_current, status, priority, tcb_list,
                   need_reesched, offers, broken, cpu, stale>>

----------------------------------------------------------------------------
(* OS_Schedule.                                                            *)

\* Mutant of Schedule: old_current is set after current has changed.
ScheduleForgetsOld ==
    /\ \E p \in Prio :
          /\ ScanStops(sched_list, sched_queue_i, p)
          /\ sched_queue_i' = p
          /\ sched_list' = [sched_list EXCEPT ![p] = Tail(@)]
          /\ current' = Head(sched_list[p])
    /\ old_current' = current'
    /\ status' = [status EXCEPT ![current'] = {}]
    /\ pc' = "switch" /\ stale' = FALSE
    /\ UNCHANGED <<priority, tcb_list, waiting, work, broken, cpu>>

Schedule ==
    /\ \E p \in Prio :
          /\ ScanStops(sched_list, sched_queue_i, p)
          /\ sched_queue_i' = p
          /\ sched_list' = [sched_list EXCEPT ![p] = Tail(@)]
          /\ current' = Head(sched_list[p])
    /\ old_current' = current
    /\ status' = [status EXCEPT ![current'] = {}]
    /\ pc' = "switch" /\ stale' = FALSE
    /\ UNCHANGED <<priority, tcb_list, waiting, work, broken, cpu>>

\* OS_SyscallExit of a call that asked for a new schedule, as all calls do.
SyscallExit ==
    /\ pc = "body"
    /\ need_reesched
    /\ need_reesched' = FALSE
    /\ Schedule

\* ercos_lah_intr_epilogue ends with OS_Schedule whatever the ISR did.
EpilogueSchedule ==
    /\ pc = "epilogue"
    /\ Schedule
    /\ UNCHANGED need_reesched

\* OS_Schedule enables the interrupts and then clears schedule_active.
ClearScheduleActive ==
    /\ pc = "switch"
    /\ pc' = "dispatch"
    /\ UNCHANGED <<queues, current, old_current, threads, need_reesched, work, broken,
                   cpu, stale>>

\* The context switch saves the context the CPU executes in the TCB of
\* old_current and resumes the one in the TCB of current.  A context that
\* was interrupted in a dispatch goes on with that dispatch.
Dispatch ==
    LET resumed == IF current = old_current
                   THEN [thread |-> running, depth |-> depth]
                   ELSE context[current]
    IN /\ pc = "dispatch"
       /\ IF current = old_current
          THEN UNCHANGED context
          ELSE context' = [context EXCEPT
                 ![old_current] = [thread |-> running, depth |-> depth]]
       /\ running' = resumed.thread
       /\ IF resumed.depth = 0
          THEN pc' = "user" /\ depth' = 0
          ELSE pc' = "dispatch" /\ depth' = resumed.depth - 1
       /\ UNCHANGED <<queues, current, old_current, threads, need_reesched, work,
                      broken, torn, stale>>

----------------------------------------------------------------------------
(* Interrupts.  An ISR may ready a thread that waits.                      *)

IsrReadies(t) ==
    /\ t \in waiting /\ waiting' = waiting \ {t}
    /\ sched_list' = AddTail(sched_list, t, priority[t])
    /\ sched_queue_i' = Lower(sched_queue_i, priority[t])
    /\ status' = [status EXCEPT ![t] = {"READY"}]
    /\ UNCHANGED <<current, old_current, priority, tcb_list, need_reesched, broken>>

IsrReadiesNone ==
    UNCHANGED <<queues, current, old_current, threads, need_reesched, broken>>

\* An interrupt of a thread, with schedule_active clear: the HAL's epilogue
\* sets it and puts current at the head of its list.
InterruptThread ==
    /\ \/ pc = "user" /\ UNCHANGED <<depth, torn>>
       \/ pc = "dispatch" /\ depth < Window /\ depth' = depth + 1 /\ torn' = TRUE
    /\ IsrReadiesNone \/ \E t \in waiting : IsrReadies(t)
    /\ Inserts("head", current)
    /\ UNCHANGED <<offers, running, context, stale>>

\* An interrupt of the kernel, with schedule_active set: the HAL returns
\* right after the ISR.
InterruptKernel ==
    /\ schedule_active
    /\ \E t \in waiting : IsrReadies(t)
    /\ stale' = (stale \/ pc = "switch")
    /\ UNCHANGED <<pc, work, cpu>>

----------------------------------------------------------------------------

Kernel == \/ SyscallEntry
          \/ PlainCall
          \/ BlockingCall
          \/ \E t \in Thread : WakingCall(t) \/ HandleEvent(t)
          \/ \E p \in Prio : TaskCreate(p)
          \/ \E t \in Thread, p \in Prio : SetPriority(t, p) \/ SetTmpPriority(t, p)
          \/ ThreadExit
          \/ TestIndex \/ WriteIndex \/ Link \/ Unlink \/ Change
          \/ SyscallExit \/ EpilogueSchedule
          \/ ClearScheduleActive \/ Dispatch

Next == \/ broken = "none" /\ (Kernel \/ InterruptThread \/ InterruptKernel)
        \/ broken # "none" /\ UNCHANGED vars

Spec == Init /\ [][Next]_vars
----------------------------------------------------------------------------
(* Properties.                                                             *)

Breaks == {"none", "index", "list", "priority", "test"}

\* The variables have the types of their C declarations; TS_RUNNING is {}.
TypeOK ==
    /\ sched_list \in [Prio -> Seq(Thread)]
    /\ sched_queue_i \in Prio
    /\ current \in Thread
    /\ old_current \in Tid
    /\ status \in [Tid -> SUBSET Flags]
    /\ priority \in [Tid -> Prio]
    /\ tcb_list \in Seq(Thread)
    /\ waiting \subseteq Thread
    /\ need_reesched \in BOOLEAN
    /\ pc \in Places
    /\ target \in Tid /\ wanted \in Prio
    /\ step \in {"test", "write", "link"} /\ seen \in Seq(Thread)
    /\ offers \in BOOLEAN /\ broken \in Breaks
    /\ running \in Tid
    /\ depth \in Nat
    /\ context \in [Tid -> [thread : Tid, depth : Nat]]
    /\ torn \in BOOLEAN /\ stale \in BOOLEAN

\* "This index points to the mayor priority and non empty queue"
\* (sched.c:54): every list above it is empty, so the scan of OS_Schedule,
\* which starts there, cannot pass a thread of higher priority.  It does not
\* hold: an ISR may lower the index between the test and the write of a call
\* (sched.c:220-221), which then writes a higher value over it.
IndexPointsToFirst ==
    \A p \in Prio : p < sched_queue_i => sched_list[p] = <<>>

\* It holds as long as that has not happened, wherever else an ISR comes: between
\* the write and the insertion, between an insertion and the schedule, or while
\* priorities change.
ScanIndexIsLowerBound == broken = "none" => IndexPointsToFirst

\* A queued thread is in the list of its own priority, once, unless an ISR has
\* come between the statements of a list operation on that list (list.c:96-154)
\* or has readied the thread whose priority changes (syscall.c:219-226).
\* OS_SchedRemoveThread and OS_ListAppend rely on it: taking a node out of
\* another list than its own corrupts both.
OwnQueue ==
    broken = "none" =>
       \A p \in Prio :
          /\ Distinct(sched_list[p])
          /\ \A t \in Thread : In(sched_list[p], t) => priority[t] = p

\* While a thread executes its own code no ready thread has a higher
\* priority: every wake-up and every priority change, by system calls, events
\* and interrupts at any point of the kernel, is followed by a schedule in time;
\* but that of an ISR between the end of OS_Schedule and the write that clears
\* schedule_active waits for the next (sched.c:148-154).
HighestPriorityRuns ==
    pc = "user" /\ broken = "none" =>
       stale \/ \A p \in Prio : sched_list[p] # <<>> => priority[current] <= p

\* While a thread executes its own code every thread is in exactly one
\* place: it executes, or it is ready and queued, or it waits, or its TCB is
\* free.  A thread in none is lost for ever, one in two is resumed twice.
NoThreadLost ==
    pc = "user" /\ broken = "none" =>
       \A t \in Thread :
          LET queued == Queued(sched_list, t)
              free   == In(tcb_list, t)
              waits  == t \in waiting
          IN IF t = current
             THEN ~queued /\ ~waits /\ ~free
             ELSE \/ queued /\ ~waits /\ ~free
                  \/ ~queued /\ waits /\ ~free
                  \/ ~queued /\ ~waits /\ free

\* The CPU executes the context of current, and the TCB of every other live
\* thread holds the context of that thread: the context switch never saves one
\* thread's registers in the TCB of another (ercos-lah.h:46-50).  It does not
\* hold: an interrupt may come before the switch that OS_Schedule has decided.
ContextOfItsThread ==
    pc = "user" => /\ running = current
                   /\ \A t \in Thread : Live(t) /\ t # current => context[t].thread = t

\* It holds as long as no dispatch has been interrupted, also when ISRs ready
\* threads while one is decided.
ContextsKept == ~torn => ContextOfItsThread
----------------------------------------------------------------------------
(* The inductive invariant behind the theorems of ErcosSched_proofs.       *)

\* The places of the kernel where current has the processor and is in no
\* queue: it has not offered the processor, or has just been given it.
Settled == pc \notin {"tail", "body", "epilogue"} \/ (pc = "tail" /\ offers)

\* No thread is in two places, whatever the kernel is doing.
OnePlace ==
    /\ \A t \in Thread : Queued(sched_list, t) =>
          ~Blocked(t) /\ t \notin waiting /\ ~In(tcb_list, t)
    /\ \A t \in waiting : Blocked(t) /\ ~In(tcb_list, t)
    /\ Settled => /\ ~Queued(sched_list, current)
                  /\ ~Blocked(current)
                  /\ current \notin waiting
                  /\ ~In(tcb_list, current)
    /\ Distinct(tcb_list)

\* No thread is in none; current has one when it has left the processor, and
\* the thread that is about to be appended.
SomePlace ==
    \A t \in Thread :
       \/ t = current /\ Settled
       \/ t = target /\ pc = "tail"
       \/ Queued(sched_list, t)
       \/ t \in waiting
       \/ In(tcb_list, t)

\* What is known of the thread that is worked on.
TargetOK ==
    /\ pc \in {"unlink", "change", "tail", "head"} => target \in Thread
    /\ pc = "unlink" => Queued(sched_list, target) /\ offers
    /\ pc = "tail" => /\ ~Queued(sched_list, target) /\ target \notin waiting
                      /\ ~In(tcb_list, target)
                      /\ step # "test" => ~Blocked(target)
                      /\ offers => target # current
    /\ pc = "head" => target = current
    /\ Inserting /\ step = "link" => sched_queue_i <= priority[target]
    /\ offers => pc \in {"unlink", "change", "tail"}

\* From OS_Schedule to the next kernel entry, current has the highest
\* priority of all.
CurrentIsHighest ==
    pc \in {"switch", "dispatch", "user"} =>
       stale \/ \A p \in Prio : p < priority[current] => sched_list[p] = <<>>

\* The CPU executes current's context, old_current's during the switch.
ContextOfCurrent ==
    torn \/ /\ running = IF pc \in {"switch", "dispatch"} THEN old_current ELSE current
            /\ depth = 0
            /\ \A t \in Tid : context[t] = [thread |-> t, depth |-> 0]

SchedInv ==
    /\ TypeOK
    /\ broken = "none" => IndexPointsToFirst /\ OwnQueue /\ OnePlace /\ SomePlace /\ TargetOK
=============================================================================
