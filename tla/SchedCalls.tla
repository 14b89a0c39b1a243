----------------------------- MODULE SchedCalls -----------------------------
(***************************************************************************)
(* What the scheduler of ERCOS-RT offers to the kernel's wait queues: the  *)
(* body of a system call that readies, blocks, creates or ends a thread,   *)
(* each as one step, and the interrupts that come before and after it.     *)
(*                                                                         *)
(* It is the abstract specification that module ErcosKernel implements.    *)
(* ErcosSched takes the bodies apart and says what an ISR can do between   *)
(* their statements; the priorities here are those of creation.            *)
(***************************************************************************)
EXTENDS ReadyQueue, FiniteSets

CONSTANT MaxThreads     \* CONFIG_ERCOS_MAX_THREADS

Boot == 0       \* task_table[0]: only the context of OS_Start is saved in it
Idle == 1
Main == 2
Tid == 0 .. (MaxThreads - 1)
Thread == Tid \ {Boot}

VARIABLES
    sched_list, sched_queue_i,  \* the ready queues and the scan index
    current, old_current,       \* tids, for the pointers into task_table
    status,                     \* of {"READY", "BLOCKED"}; {} for TS_RUNNING
    priority,
    tcb_list,                   \* the free TCBs
    waiting,                    \* threads in a semaphore, mutex or time queue
    need_reesched,
    pc

queues == <<sched_list, sched_queue_i>>
threads == <<status, priority, tcb_list, waiting>>
vars == <<queues, current, old_current, threads, need_reesched, pc>>

\* schedule_active is set by OS_SyscallEntry and by the interrupt epilogue,
\* and cleared at the end of OS_Schedule.
schedule_active == pc \in {"entry", "body", "epilogue", "switch"}

----------------------------------------------------------------------------
(* Initialisation.                                                         *)

\* OS_TCBInit makes TCBs 1 to MaxThreads - 1 free and creates the idle and
\* the main thread; the first OS_Schedule of OS_Start selects main.
Init ==
    /\ sched_list = [EmptyQueues EXCEPT ![MinPriority] = <<Idle>>]
    /\ sched_queue_i = MaxPriority
    /\ current = Main /\ old_current = Boot
    /\ status = [t \in Tid |-> IF t = Idle THEN {"READY"} ELSE {}]
    /\ priority = [t \in Tid |-> IF t = Idle THEN MinPriority ELSE MaxPriority]
    /\ tcb_list = [i \in 1 .. (MaxThreads - 3) |-> i + 2]
    /\ waiting = {}
    /\ need_reesched = FALSE
    /\ pc = "user"

----------------------------------------------------------------------------
(* System calls.  Idle only powers the CPU down and makes none.            *)

\* OS_SyscallEntry.
SyscallEntry ==
    /\ pc = "user"
    /\ current # Idle
    /\ pc' = "entry"
    /\ UNCHANGED <<queues, current, old_current, threads, need_reesched>>

\* SET_NEEDREESCHED, after a body that leaves the queues q, i and the threads
\* st, pr: the caller goes to the head of its list and offers the processor.
SetNeedReesched(q, i, st, pr) ==
    /\ need_reesched' = TRUE
    /\ sched_list' = AddHead(q, current, pr[current])
    /\ sched_queue_i' = Lower(i, pr[current])
    /\ status' = [st EXCEPT ![current] = {"READY"}]

Body == /\ pc = "entry"
        /\ pc' = "body"
        /\ UNCHANGED <<current, old_current>>

\* A call that does not touch the scheduler: a try, a query, or a wait for
\* something that is free.
PlainCall ==
    /\ Body
    /\ SetNeedReesched(sched_list, sched_queue_i, status, priority)
    /\ priority' = priority
    /\ UNCHANGED <<tcb_list, waiting>>

\* The caller blocks: SET_NEEDREESCHED_FLAG alone, it is not made ready.
BlockingCall ==
    /\ Body
    /\ status' = [status EXCEPT ![current] = @ \cup {"BLOCKED"}]
    /\ waiting' = waiting \cup {current}
    /\ need_reesched' = TRUE
    /\ UNCHANGED <<queues, priority, tcb_list>>

\* The caller releases something that t waits for.
WakingCall(t) ==
    /\ Body
    /\ t \in waiting
    /\ waiting' = waiting \ {t}
    /\ SetNeedReesched(AddTail(sched_list, t, priority[t]),
                       Lower(sched_queue_i, priority[t]),
                       [status EXCEPT ![t] = {"READY"}], priority)
    /\ UNCHANGED <<priority, tcb_list>>

\* SYS_TaskCreate: the first free TCB.  Without one it is PlainCall.
TaskCreate(p) ==
    LET t == Head(tcb_list) IN
    /\ Body
    /\ tcb_list # <<>>
    /\ tcb_list' = Tail(tcb_list)
    /\ priority' = [priority EXCEPT ![t] = p]
    /\ SetNeedReesched(AddTail(sched_list, t, p), Lower(sched_queue_i, p),
                       [status EXCEPT ![t] = {"READY"}], priority')
    /\ UNCHANGED waiting

\* SYS_ThreadExit: the TCB is free at once, while the thread still runs.
ThreadExit ==
    /\ Body
    /\ status' = [status EXCEPT ![current] = {}]
    /\ tcb_list' = Append(tcb_list, current)
    /\ need_reesched' = TRUE
    /\ UNCHANGED <<queues, priority, waiting>>

----------------------------------------------------------------------------
(* OS_Schedule.                                                            *)

Schedule ==
    /\ \E p \in Prio :
          /\ ScanStops(sched_list, sched_queue_i, p)
          /\ sched_queue_i' = p
          /\ sched_list' = [sched_list EXCEPT ![p] = Tail(@)]
          /\ current' = Head(sched_list[p])
    /\ old_current' = current
    /\ status' = [status EXCEPT ![current'] = {}]
    /\ pc' = "switch"
    /\ UNCHANGED <<priority, tcb_list, waiting>>

\* OS_SyscallExit of a call that asked for a new schedule, as all calls do.
SyscallExit ==
    /\ pc = "body"
    /\ need_reesched
    /\ need_reesched' = FALSE
    /\ Schedule

\* ercos_lah_intr_epilogue ends with OS_Schedule whatever the ISR did.
EpilogueSchedule ==
    /\ pc = "epilogue"
    /\ Schedule
    /\ UNCHANGED need_reesched

\* OS_Schedule enables the interrupts and then clears schedule_active.
ClearScheduleActive ==
    /\ pc = "switch"
    /\ pc' = "dispatch"
    /\ UNCHANGED <<queues, current, old_current, threads, need_reesched>>

\* The context switch; ErcosSched has what it saves and resumes.
Dispatch ==
    /\ pc = "dispatch"
    /\ pc' = "user"
    /\ UNCHANGED <<queues, current, old_current, threads, need_reesched>>

----------------------------------------------------------------------------
(* Interrupts.  An ISR may ready a thread that waits.                      *)

IsrWakes(W) ==
    /\ W \subseteq waiting
    /\ waiting' = waiting \ W
    /\ UNCHANGED <<priority, tcb_list>>

\* An interrupt of a thread, with schedule_active clear: the HAL's epilogue
\* sets it and puts current at the head of its list.
InterruptThread ==
    /\ pc = "user"
    /\ pc' = "epilogue"
    /\ \/ /\ IsrWakes({})
          /\ sched_list' = AddHead(sched_list, current, priority[current])
          /\ sched_queue_i' = Lower(sched_queue_i, priority[current])
          /\ status' = [status EXCEPT ![current] = {"READY"}]
       \/ \E t \in waiting :
          /\ IsrWakes({t})
          /\ sched_list' = AddHead(AddTail(sched_list, t, priority[t]),
                                   current, priority[current])
          /\ sched_queue_i' = Lower(Lower(sched_queue_i, priority[t]),
                                    priority[current])
          /\ status' = [status EXCEPT ![t] = {"READY"}, ![current] = {"READY"}]
    /\ UNCHANGED <<current, old_current, need_reesched>>

\* An interrupt of the kernel, with schedule_active set: the HAL returns
\* right after the ISR.
InterruptKernel ==
    /\ schedule_active
    /\ \E t \in waiting :
          /\ IsrWakes({t})
          /\ sched_list' = AddTail(sched_list, t, priority[t])
          /\ sched_queue_i' = Lower(sched_queue_i, priority[t])
          /\ status' = [status EXCEPT ![t] = {"READY"}]
    /\ UNCHANGED <<current, old_current, need_reesched, pc>>

----------------------------------------------------------------------------

Next == \/ SyscallEntry
        \/ PlainCall
        \/ BlockingCall
        \/ \E t \in Thread : WakingCall(t)
        \/ \E p \in Prio : TaskCreate(p)
        \/ ThreadExit
        \/ SyscallExit
        \/ EpilogueSchedule
        \/ ClearScheduleActive
        \/ Dispatch
        \/ InterruptThread
        \/ InterruptKernel

Spec == Init /\ [][Next]_vars
=============================================================================
