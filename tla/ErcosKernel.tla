---------------------------- MODULE ErcosKernel ----------------------------
(***************************************************************************)
(* The wait queues of the ERCOS-RT kernel and the interrupts that serve    *)
(* them: the binary semaphores of sem.c, the time queue and its two timers *)
(* of time.c, the events that ISRs mark for the interrupt epilogue in      *)
(* irqev.c, and the system calls of syscall.c over them.                   *)
(*                                                                         *)
(* OS_SyscallEntry enables the interrupts again.  Here an ISR may come     *)
(* between the test of a semaphore and the wait that follows it; any other *)
(* body is one step, and module ErcosSched takes what it does to the ready *)
(* queues apart.  The steps implement module SchedCalls (MCErcosKernel).   *)
(*                                                                         *)
(* Time is counted in clicks.  The periodic timer (PIT) wraps every        *)
(* Overflow clicks and OS_TimerISR then moves the counter on, so until     *)
(* that ISR has run OS_TimeGetTicks is Overflow clicks late.  Timeouts are *)
(* kept relative to the true time.                                         *)
(***************************************************************************)
EXTENDS ReadyQueue, FiniteSets

CONSTANTS MaxThreads,     \* CONFIG_ERCOS_MAX_THREADS
          NewPriority,    \* the priorities threads are created with
          Overflow,       \* OVERHEAD_CLICKS, the length of a PIT period
          Penalty,        \* TIME_PENALTY
          Delays,         \* the delays threads ask for
          Sem,            \* the semaphores, by number from 0
          Locks,          \* those a thread posts only after it caught them
          Timed,          \* those threads also wait for with a timeout
          Events,         \* those ISRs post, and threads do not
          EventInCall     \* whether they do so during a system call

ASSUME KernelAssumption ==
    /\ MaxThreads \in Nat /\ MaxThreads >= 3
    /\ NewPriority \subseteq Prio
    /\ Overflow \in Nat /\ Penalty \in Nat
    /\ 0 < Penalty /\ Penalty < Overflow
    /\ Delays \subseteq Int
    /\ 0 \in Sem /\ Sem \subseteq Nat
    /\ Locks \subseteq Sem /\ Timed \subseteq Sem /\ Events \subseteq Sem
    /\ Locks \cap Events = {}
    /\ EventInCall \in BOOLEAN

Boot == 0
Idle == 1
Main == 2
Tid == 0 .. (MaxThreads - 1)
Thread == Tid \ {Boot}

Flags == {"READY", "SEM", "TIME"}
Places == {"user", "entry", "queue", "events", "clear", "sched", "switch", "dispatch"}

\* What a thread does when it gets the processor: its own code, or the rest
\* of the call it blocked in, a plain or a timed wait, or of one that has found
\* a semaphore taken and has not blocked yet.
Continuation == {<<"user">>} \cup ({"queue", "wait", "timed"} \X Sem)

VARIABLES
    sched_list, sched_queue_i, current, old_current, need_reesched, pc,
    status, priority, tcb_list,
    resume,                     \* the continuation of each thread
    sem_value, sem_list, tid_in,
    wait_sem,                   \* task->wait_sem, 0 when reset
    time_list,
    left,                       \* abs_timeout minus the true time
    event_inside,               \* the semaphores whose event node is linked
    event_pending, clock_event,
    oneshot_programed,
    pit, pit_irq,               \* clicks of the PIT, its interrupt request
    shot, clock_irq,            \* clicks left of the one-shot timer or 0
    holds, expired,             \* history: who caught a lock, whose timeout
                                \* ended its wait and has not been told yet
    cut                         \* history: the semaphores that a call has found
                                \* taken before an event came, and then blocked

queues == <<sched_list, sched_queue_i>>
cpu == <<current, old_current>>
sems == <<sem_value, sem_list, tid_in, wait_sem, holds>>
marks == <<event_pending, clock_event>>
oneshot == <<oneshot_programed, shot>>
times == <<time_list, left, expired>>
irqs == <<pit, pit_irq, clock_irq>>
posted == <<event_inside, cut>>
tasks == <<priority, tcb_list>>
vars == <<queues, cpu, need_reesched, pc, status, tasks, resume, sems, times,
          posted, marks, oneshot, irqs>>

\* How late OS_TimeGetTicks is.
Late == IF pit_irq THEN Overflow ELSE 0

Init ==
    /\ sched_list = [EmptyQueues EXCEPT ![MinPriority] = <<Idle>>]
    /\ sched_queue_i = MaxPriority
    /\ current = Main /\ old_current = Boot
    /\ need_reesched = FALSE
    /\ pc = "user"
    /\ status = [t \in Tid |-> IF t = Idle THEN {"READY"} ELSE {}]
    /\ priority = [t \in Tid |-> IF t = Idle THEN MinPriority ELSE MaxPriority]
    /\ tcb_list = [i \in 1 .. (MaxThreads - 3) |-> i + 2]
    /\ resume = [t \in Tid |-> <<"user">>]
    /\ sem_value = [s \in Sem |-> IF s \in Locks THEN 1 ELSE 0]
    /\ sem_list = [s \in Sem |-> <<>>]
    /\ tid_in = [s \in Sem |-> 0]
    /\ wait_sem = [t \in Tid |-> 0]
    /\ time_list = <<>>
    /\ left = [t \in Tid |-> 0]
    /\ event_inside = {}
    /\ event_pending = FALSE /\ clock_event = FALSE
    /\ oneshot_programed = FALSE
    /\ pit = 0 /\ pit_irq = FALSE
    /\ shot = 0 /\ clock_irq = FALSE
    /\ holds = [s \in Locks |-> {}]
    /\ expired = {} /\ cut = {}

----------------------------------------------------------------------------
(* Readying threads and the end of a call.                                 *)

\* OS_SchedTaskReady for the thread in T, if there is one, and then, if it
\* offers the processor, OS_SchedCurrentReady.
Ready(T, offers) ==
    LET t == CHOOSE x \in T : TRUE
        q == IF T = {} THEN sched_list ELSE AddTail(sched_list, t, priority[t])
        i == IF T = {} THEN sched_queue_i ELSE Lower(sched_queue_i, priority[t])
    IN /\ sched_list' = IF offers THEN AddHead(q, current, priority[current]) ELSE q
       /\ sched_queue_i' = IF offers THEN Lower(i, priority[current]) ELSE i
       /\ status' = [x \in Tid |-> IF x \in T \/ (offers /\ x = current)
                                   THEN {"READY"} ELSE status[x]]

\* A wait for a semaphore that an event has cut short: its thread was put back
\* in the ready queue and goes on with schedule_active clear.
IsCut == pc = "user" /\ resume[current][1] = "queue"

\* The body of a system call; its last statement sets need_reesched.
Body == /\ pc \in {"entry", "queue"} \/ IsCut
        /\ pc' = "events"
        /\ need_reesched' = TRUE
        /\ UNCHANGED <<cpu, posted, irqs>>

\* A body that begins and ends the call.
Call == Body /\ resume[current] = <<"user">>

\* Mutant of Returns: the caller is not put back in the ready queue.
ReturnsWithoutOffer(T) == Ready(T, FALSE)

\* SET_NEEDREESCHED after readying T, and SET_NEEDREESCHED_FLAG of a caller
\* that has blocked.
Returns(T) == Ready(T, TRUE)
Blocks(flags, continuation) ==
    /\ status' = [status EXCEPT ![current] = @ \cup flags]
    /\ resume' = [resume EXCEPT ![current] = continuation]
    /\ UNCHANGED queues

SyscallEntry ==
    /\ pc = "user" /\ ~IsCut
    /\ current # Idle
    /\ pc' = "entry"
    /\ UNCHANGED <<queues, cpu, need_reesched, status, tasks, resume, sems,
                   times, posted, marks, oneshot, irqs>>

----------------------------------------------------------------------------
(* Threads.                                                                *)

TaskCreate(p) ==
    LET t == Head(tcb_list) IN
    /\ Call
    /\ tcb_list # <<>>
    /\ tcb_list' = Tail(tcb_list)
    /\ priority' = [priority EXCEPT ![t] = p]
    /\ sched_list' = AddHead(AddTail(sched_list, t, p), current, priority'[current])
    /\ sched_queue_i' = Lower(Lower(sched_queue_i, p), priority'[current])
    /\ status' = [status EXCEPT ![t] = {"READY"}, ![current] = {"READY"}]
    /\ UNCHANGED <<resume, sems, times, marks, oneshot>>

\* A thread releases its locks before it exits.
ThreadExit ==
    /\ Call
    /\ \A s \in Locks : current \notin holds[s]
    /\ status' = [status EXCEPT ![current] = {}]
    /\ tcb_list' = Append(tcb_list, current)
    /\ UNCHANGED <<queues, priority, resume, sems, times, marks, oneshot>>

----------------------------------------------------------------------------
(* Semaphores.                                                             *)

\* The caller takes s, as OS_SemWait and OS_SemTryWait do when it is free.
Catch(s) ==
    /\ sem_value[s] = 1
    /\ sem_value' = [sem_value EXCEPT ![s] = 0]
    /\ tid_in' = [tid_in EXCEPT ![s] = current]
    /\ holds' = IF s \in Locks THEN [holds EXCEPT ![s] = @ \cup {current}] ELSE holds
    /\ UNCHANGED <<sem_list, wait_sem>>

\* Mutant of Taken: the caller blocks whether s is free or not.
TakenAlways(s) == TRUE

Taken(s) == sem_value[s] = 0

\* The caller goes to the end of the list of s.
Queue(s) ==
    /\ wait_sem' = [wait_sem EXCEPT ![current] = s]
    /\ sem_list' = [sem_list EXCEPT ![s] = Append(@, current)]
    /\ UNCHANGED <<sem_value, tid_in, holds>>

\* A thread does not wait for a lock that it holds.
MayWait(s) == s \in Locks => current \notin holds[s]

\* OS_SemWait has tested s, with the interrupts enabled, and will block.
FindsTaken(s) ==
    /\ pc = "entry" /\ resume[current] = <<"user">>
    /\ Taken(s)
    /\ pc' = "queue"
    /\ resume' = [resume EXCEPT ![current] = <<"queue", s>>]
    /\ UNCHANGED <<queues, cpu, need_reesched, status, tasks, sems, times, posted,
                   marks, oneshot, irqs>>

SemWait(s) ==
    /\ MayWait(s)
    /\ \/ FindsTaken(s)
       \/ /\ Call /\ Catch(s) /\ Returns({})
          /\ UNCHANGED <<tasks, resume, times, marks, oneshot>>

\* It blocks, whatever ISRs did to s since.
SemBlocks(s) ==
    /\ Body /\ resume[current] = <<"queue", s>>
    /\ Queue(s) /\ Blocks({"SEM"}, <<"wait", s>>)
    /\ UNCHANGED <<tasks, times, marks, oneshot>>

\* It leaves everything alone when s is not free.
SemTryWait(s) ==
    /\ Call
    /\ MayWait(s)
    /\ \/ Catch(s)
       \/ Taken(s) /\ UNCHANGED sems
    /\ Returns({})
    /\ UNCHANGED <<tasks, resume, times, marks, oneshot>>

\* Mutant of HandOver: the post also frees s.
HandOverFrees(s) ==
    /\ sem_list' = [sem_list EXCEPT ![s] = Tail(@)]
    /\ tid_in' = [tid_in EXCEPT ![s] = Head(sem_list[s])]
    /\ sem_value' = [sem_value EXCEPT ![s] = 1]

\* A post gives s to the first of its waiters, without freeing it.
HandOver(s) ==
    /\ sem_list' = [sem_list EXCEPT ![s] = Tail(@)]
    /\ tid_in' = [tid_in EXCEPT ![s] = Head(sem_list[s])]
    /\ UNCHANGED sem_value

Free(s) == sem_value' = [sem_value EXCEPT ![s] = 1] /\ UNCHANGED <<sem_list, tid_in>>

\* Mutant of TimeRemoveFromQueue: the timeout goes on.
TimeStaysInQueue(t) == UNCHANGED <<time_list, left>>

TimeRemoveFromQueue(t) ==
    /\ time_list' = Without(time_list, t)
    /\ left' = [left EXCEPT ![t] = 0]

SemPost(s) ==
    LET t == Head(sem_list[s]) IN
    /\ Call
    /\ s \in Locks => current \in holds[s]
    /\ holds' = IF s \in Locks THEN [holds EXCEPT ![s] = @ \ {current}] ELSE holds
    /\ IF sem_list[s] # <<>>
       THEN /\ HandOver(s)
            /\ TimeRemoveFromQueue(t)
            /\ wait_sem' = [wait_sem EXCEPT ![t] = 0]
            /\ Returns({t})
       ELSE /\ Free(s)
            /\ Returns({})
            /\ UNCHANGED <<wait_sem, time_list, left>>
    /\ UNCHANGED <<tasks, resume, expired, marks, oneshot>>

----------------------------------------------------------------------------
(* The time queue.                                                         *)

\* OS_ProgramClock.  A one-shot timer programmed with 0 fires at once.
ProgramClock(v) ==
    /\ oneshot_programed' = TRUE
    /\ shot' = IF v = 0 THEN 1 ELSE v

\* OS_IRQMarkClockEvent.
MarkClockEvent == clock_event' = TRUE /\ event_pending' = TRUE

\* OS_DoSleep blocks unless the timeout is nearly over.
MaySleep(d) == d + Late >= Penalty

\* Mutant of Enqueue: the time queue is a plain FIFO queue.
EnqueueAtTail(d) ==
    /\ time_list' = Append(time_list, current)
    /\ left' = [left EXCEPT ![current] = d]
    /\ UNCHANGED expired

\* The caller goes before the first thread with a later timeout.
Enqueue(d) ==
    /\ \E i \in 1 .. (Len(time_list) + 1) :
          /\ \A j \in 1 .. (i - 1) : left[time_list[j]] <= d
          /\ i <= Len(time_list) => left[time_list[i]] > d
          /\ time_list' = SubSeq(time_list, 1, i - 1) \o <<current>>
                             \o SubSeq(time_list, i, Len(time_list))
    /\ left' = [left EXCEPT ![current] = d]
    /\ UNCHANGED expired

\* Mutant of Program: a timeout that is over is programmed, not marked.
ProgramWithoutFloor(d) ==
    LET head  == Head(time_list)
        first == IF time_list # <<>> /\ left[head] <= d THEN left[head] ELSE d
        wait  == first + Late - Penalty
    IN /\ IF wait < Overflow THEN ProgramClock(wait) ELSE UNCHANGED oneshot
       /\ UNCHANGED marks

\* The one-shot timer is programmed for the head of the queue, unless the
\* PIT wraps before; a timeout that is nearly over is marked at once.
Program(d) ==
    LET head  == Head(time_list)
        first == IF time_list # <<>> /\ left[head] <= d THEN left[head] ELSE d
        wait  == first + Late - Penalty
    IN /\ IF 0 < wait /\ wait < Overflow
          THEN ProgramClock(wait)
          ELSE UNCHANGED oneshot
       /\ IF wait <= 0 THEN MarkClockEvent ELSE UNCHANGED marks

\* SYS_Sleep, of n clicks after the time it reads.
Sleep(n) ==
    LET d == n - Late IN
    /\ Call
    /\ \/ MaySleep(d) /\ Enqueue(d) /\ Program(d) /\ Blocks({"TIME"}, <<"user">>)
       \/ ~MaySleep(d) /\ Returns({}) /\ UNCHANGED <<resume, times, marks, oneshot>>
    /\ UNCHANGED <<tasks, sems>>

\* SYS_SemTimedWait until the caller returns or blocks.  A caller that gets
\* s at once leaves the time queue again; the timer stays programmed.
SemTimedWait(s, n) ==
    LET d == n - Late IN
    /\ Call
    /\ MayWait(s)
    /\ \/ /\ MaySleep(d) /\ Program(d)
          /\ \/ Taken(s) /\ Queue(s) /\ Enqueue(d) /\ Blocks({"SEM", "TIME"}, <<"timed", s>>)
             \/ Catch(s) /\ Returns({}) /\ UNCHANGED <<resume, times>>
       \/ ~MaySleep(d) /\ Returns({}) /\ UNCHANGED <<resume, sems, times, marks, oneshot>>
    /\ UNCHANGED tasks

\* Mutant of SemIsCatched: whoever has s, it is caught.
SemIsTaken(s) == sem_value[s] = 0

\* OS_SemIsCatched.
SemIsCatched(s) == tid_in[s] = current

\* The second half, a call of its own: it tells whether s was caught.
SemTimedWaitReturns(s) ==
    /\ Body
    /\ resume[current] = <<"timed", s>>
    /\ resume' = [resume EXCEPT ![current] = <<"user">>]
    /\ holds' = IF s \in Locks /\ SemIsCatched(s)
                THEN [holds EXCEPT ![s] = @ \cup {current}] ELSE holds
    /\ expired' = expired \ {current}
    /\ Returns({})
    /\ UNCHANGED <<tasks, sem_value, sem_list, tid_in, wait_sem, time_list, left,
                   marks, oneshot>>

----------------------------------------------------------------------------
(* Clock events.                                                           *)

\* Mutant of Due: the thread is woken as early as OS_DoSleep lets it pass.
DueWithPenalty(late) == time_list # <<>> /\ left[Head(time_list)] + late <= Penalty

\* The first timeout is over, for OS_TimeGetTicks that is late clicks behind.
Due(late) == time_list # <<>> /\ left[Head(time_list)] + late <= 0

\* Mutant of SemExtracThreadFromList: the thread stays in line for s.
SemKeepsThreadInList(t) == UNCHANGED <<sem_list, wait_sem>>

SemExtracThreadFromList(t) ==
    /\ sem_list' = [sem_list EXCEPT ![wait_sem[t]] = Without(@, t)]
    /\ wait_sem' = [wait_sem EXCEPT ![t] = 0]

\* OS_ClockBottomISR.  When the first timeout is over it wakes one thread: the
\* loop over the time queue ends there, for OS_ListGetNode clears the links of
\* the node that the loop stands on.  Then it programs the one-shot timer for
\* the next timeout, or marks another event if that one is over too.  A
\* timeout nearer than Penalty is left to the PIT.
ClockBottomISR(late, offers, marked) ==
    LET due   == Due(late)
        t     == Head(time_list)
        rest  == IF due THEN Tail(time_list) ELSE time_list
        first == left[Head(rest)] + late
        wait  == IF due THEN first - Penalty ELSE first
    IN /\ time_list' = rest
       /\ IF due
          THEN /\ left' = [left EXCEPT ![t] = 0]
               /\ SemExtracThreadFromList(t)
               /\ expired' = IF resume[t] = <<"user">> THEN expired ELSE expired \cup {t}
          ELSE UNCHANGED <<left, sem_list, wait_sem, expired>>
       /\ Ready(IF due THEN {t} ELSE {}, offers)
       /\ IF rest # <<>> /\ 0 <= wait /\ wait < Overflow
          THEN ProgramClock(wait)
          ELSE UNCHANGED oneshot
       /\ IF rest # <<>> /\ first <= 0
          THEN MarkClockEvent
          ELSE clock_event' = marked /\ UNCHANGED event_pending
       /\ UNCHANGED <<sem_value, tid_in, holds>>

\* One turn of the while loop of OS_IRQHandleEvent, which runs at the end of a
\* system call and of an interrupt.  ISRs may come between its steps: the HAL
\* epilogues call it with the interrupts enabled, and reading or programming
\* a timer enables them.
HandleClockEvent ==
    /\ pc = "events"
    /\ event_pending /\ clock_event
    /\ ClockBottomISR(Late, FALSE, FALSE)
    /\ UNCHANGED <<cpu, need_reesched, pc, tasks, resume, posted, irqs>>

NoClockEvent ==
    /\ pc = "events"
    /\ ~(event_pending /\ clock_event)
    /\ pc' = "clear"
    /\ UNCHANGED <<queues, cpu, need_reesched, status, tasks, resume, sems,
                   times, posted, marks, oneshot, irqs>>

\* CLEAR_PENDING_EVENTS forgets an event that was marked since the last test.
ClearPendingEvents ==
    /\ pc = "clear"
    /\ pc' = "sched"
    /\ event_pending' = FALSE
    /\ UNCHANGED <<queues, cpu, need_reesched, status, tasks, resume, sems,
                   times, posted, clock_event, oneshot, irqs>>

----------------------------------------------------------------------------
(* OS_Schedule and the context switch.                                     *)

Schedule ==
    /\ pc = "sched"
    /\ \E p \in Prio :
          /\ ScanStops(sched_list, sched_queue_i, p)
          /\ sched_queue_i' = p
          /\ sched_list' = [sched_list EXCEPT ![p] = Tail(@)]
          /\ current' = Head(sched_list[p])
    /\ old_current' = current
    /\ status' = [status EXCEPT ![current'] = {}]
    /\ need_reesched' = FALSE
    /\ pc' = "switch"
    /\ UNCHANGED <<tasks, resume, sems, times, posted, marks, oneshot, irqs>>

ClearScheduleActive ==
    /\ pc = "switch"
    /\ pc' = "dispatch"
    /\ UNCHANGED <<queues, cpu, need_reesched, status, tasks, resume, sems,
                   times, posted, marks, oneshot, irqs>>

\* The dispatched thread goes on where it left the processor; SYS_SemWait
\* reports success to whoever returns from it.
Dispatch ==
    LET k == resume[current] IN
    /\ pc = "dispatch"
    /\ pc' = "user"
    /\ IF k[1] = "wait"
       THEN /\ resume' = [resume EXCEPT ![current] = <<"user">>]
            /\ holds' = IF k[2] \in Locks
                        THEN [holds EXCEPT ![k[2]] = @ \cup {current}] ELSE holds
       ELSE UNCHANGED <<resume, holds>>
    /\ UNCHANGED <<queues, cpu, need_reesched, status, tasks, sem_value, sem_list,
                   tid_in, wait_sem, times, posted, marks, oneshot, irqs>>

----------------------------------------------------------------------------
(* Interrupts and time.                                                    *)

\* The places where an interrupt is taken.  From OS_Schedule to the end of
\* the context switch none is (module ErcosSched has the case that one is).
InterruptsEnabled == pc \in {"user", "entry", "queue", "events", "clear", "sched"}

\* Only the interrupt of a thread goes on to the epilogue: it puts current
\* at the head of its list and handles the events.
AtUser == pc = "user"
Epilogue == pc' = IF AtUser THEN "events" ELSE pc

\* Mutant of TimerLooksAtQueue: the test of the flag is inverted.
TimerLooksIfProgramed == oneshot_programed /\ time_list # <<>>

\* When the one-shot timer is not programmed the head of the time queue may
\* have come within its reach.
TimerLooksAtQueue == ~oneshot_programed /\ time_list # <<>>

\* OS_TimerISR, the PIT has wrapped.
TimerISR ==
    /\ InterruptsEnabled
    /\ pit_irq
    /\ pit_irq' = FALSE
    /\ IF TimerLooksAtQueue
       THEN ClockBottomISR(0, AtUser, clock_event)
       ELSE Ready({}, AtUser) /\ UNCHANGED <<sems, times, marks, oneshot>>
    /\ Epilogue
    /\ UNCHANGED <<cpu, need_reesched, tasks, resume, posted, pit, clock_irq>>

\* Mutant of OneShotNotProgramed: the flag stays.
OneShotStaysProgramed == UNCHANGED oneshot_programed

OneShotNotProgramed == oneshot_programed' = FALSE

\* OS_ClockISR, the one-shot timer has run out.
ClockISR ==
    /\ InterruptsEnabled
    /\ clock_irq
    /\ clock_irq' = FALSE
    /\ OneShotNotProgramed
    /\ MarkClockEvent
    /\ Ready({}, AtUser)
    /\ Epilogue
    /\ UNCHANGED <<cpu, need_reesched, tasks, resume, sems, times, posted,
                   shot, pit, pit_irq>>

\* The ISR of a device calls SYS_IRQMarkEvent, by sem_post: a system call of
\* its own, which also handles the events, clears need_reesched and
\* schedule_active and so leaves the HAL to schedule as after the interrupt of
\* a thread.  Clock events are left to that epilogue.  An ISR that comes into a
\* call cuts it short: when its thread is resumed it goes on with the wait it
\* was about to begin, and after the body nothing is left but the return.
\*
\* OS_IRQMarkEvent puts the event node of s in the event list, and
\* OS_IRQHandleEvent empties that list without unlinking its nodes: only the
\* first event of s finds its node free.  OS_IRQSemPost leaves the time queue
\* and wait_sem alone.
IRQMarkEvent(s) ==
    LET t == Head(sem_list[s])
        handled == s \notin event_inside
    IN /\ \/ AtUser
          \/ EventInCall /\ (pc = "queue" \/ (pc = "events" /\ need_reesched))
       /\ cut' = cut \cup {r \in Sem : pc = "queue" /\ resume[current] = <<"queue", r>>}
       /\ event_inside' = event_inside \cup {s}
       /\ event_pending' = TRUE
       /\ IF handled /\ sem_list[s] # <<>>
          THEN HandOver(s) /\ Ready({t}, TRUE)
          ELSE /\ IF handled THEN Free(s) ELSE UNCHANGED <<sem_value, sem_list, tid_in>>
               /\ Ready({}, TRUE)
       /\ need_reesched' = FALSE
       /\ pc' = "events"
       /\ UNCHANGED <<cpu, tasks, resume, wait_sem, holds, times, clock_event,
                      oneshot, irqs>>

\* One click.  An interrupt is taken before the PIT wraps again.  A timeout
\* that has been over for long is as good as one that is over.  A click at
\* another place has the same effect as one before the step that led there,
\* which neither reads the time nor changes a timer.
Tick ==
    /\ pc \in {"user", "events"}
    /\ pit_irq => pit + 1 < Overflow
    /\ pit' = (pit + 1) % Overflow
    /\ pit_irq' = (pit_irq \/ pit + 1 = Overflow)
    /\ left' = [t \in Tid |-> IF In(time_list, t) /\ left[t] > -Overflow
                              THEN left[t] - 1 ELSE left[t]]
    /\ shot' = IF shot > 0 THEN shot - 1 ELSE 0
    /\ clock_irq' = (clock_irq \/ shot = 1)
    /\ UNCHANGED <<queues, cpu, need_reesched, pc, status, tasks, resume, sems,
                   time_list, expired, posted, marks, oneshot_programed>>

----------------------------------------------------------------------------

Kernel == \/ \E p \in NewPriority : TaskCreate(p)
          \/ ThreadExit
          \/ \E s \in Sem : SemWait(s) \/ SemBlocks(s) \/ SemTryWait(s)
          \/ \E s \in Sem \ Events : SemPost(s)
          \/ \E n \in Delays : Sleep(n)
          \/ \E s \in Timed, n \in Delays : SemTimedWait(s, n)
          \/ \E s \in Timed : SemTimedWaitReturns(s)
          \/ HandleClockEvent
          \/ NoClockEvent
          \/ ClearPendingEvents
          \/ Schedule
          \/ ClearScheduleActive
          \/ Dispatch

Next == \/ SyscallEntry
        \/ Kernel
        \/ TimerISR
        \/ ClockISR
        \/ \E s \in Events : IRQMarkEvent(s)
        \/ Tick

\* The kernel goes on, time passes, and a requested interrupt is taken even
\* if the kernel disables the interrupts now and then.  Threads may do what
\* they like for as long as they like.
Fairness == WF_vars(Kernel) /\ SF_vars(TimerISR) /\ SF_vars(ClockISR) /\ SF_vars(Tick)

Spec == Init /\ [][Next]_vars

FairSpec == Spec /\ Fairness
----------------------------------------------------------------------------
(* Properties.                                                             *)

TypeOK ==
    /\ sched_list \in [Prio -> Seq(Thread)] /\ sched_queue_i \in Prio
    /\ current \in Thread /\ old_current \in Tid
    /\ need_reesched \in BOOLEAN /\ pc \in Places
    /\ status \in [Tid -> SUBSET Flags] /\ priority \in [Tid -> Prio]
    /\ tcb_list \in Seq(Thread)
    /\ resume \in [Tid -> Continuation]
    /\ sem_value \in [Sem -> {0, 1}] /\ sem_list \in [Sem -> Seq(Thread)]
    /\ tid_in \in [Sem -> Tid] /\ wait_sem \in [Tid -> Sem]
    /\ time_list \in Seq(Thread) /\ left \in [Tid -> Int]
    /\ event_inside \subseteq Events /\ cut \subseteq Sem
    /\ event_pending \in BOOLEAN /\ clock_event \in BOOLEAN
    /\ oneshot_programed \in BOOLEAN
    /\ pit \in 0 .. (Overflow - 1) /\ pit_irq \in BOOLEAN
    /\ shot \in 0 .. Overflow /\ clock_irq \in BOOLEAN
    /\ holds \in [Locks -> SUBSET Thread] /\ expired \subseteq Thread

InSem(t) == \E s \in Sem : In(sem_list[s], t)

\* A thread that is ready or has been given the processor is in no wait
\* queue, and a thread in the list of a semaphore is in the one that wait_sem
\* names: a thread woken by a post is no longer waiting for its timeout, and
\* one woken by its timeout is no longer in line for the semaphore
\* (sem.c:128-140, time.c:248-258).
WokenWaitsNowhere ==
    /\ \A t \in Thread :
          Queued(sched_list, t) => ~InSem(t) /\ ~In(time_list, t)
    /\ pc \in {"user", "entry", "queue"} => ~InSem(current) /\ ~In(time_list, current)
    /\ \A s \in Sem : \A t \in Thread : In(sem_list[s], t) => wait_sem[t] = s

\* Nobody waits for a semaphore that is free: such a thread would sleep through
\* a post that was meant for it.  Timeouts may come between the test of a wait
\* and its insertion (sem.c:166-178), but an event may not: it frees the
\* semaphore, or lets a thread run that does.
NobodyWaitsForFreeSem ==
    \A s \in Sem \ cut : sem_value[s] = 1 => sem_list[s] = <<>>

\* Two threads are never both told that they have caught a lock, and it is
\* not free while one has (SYS_SemWait, SYS_SemTimedWait, SYS_SemTryWait).
MutualExclusion ==
    \A s \in Locks : /\ Cardinality(holds[s]) <= 1
                     /\ holds[s] # {} => sem_value[s] = 0

\* A lock that is taken has an owner who knows, or will when it returns from
\* its wait: a timeout that ends as the lock is handed over does not lose it.
LockNotLost ==
    \A s \in Locks :
       sem_value[s] = 0 => \/ tid_in[s] \in holds[s]
                           \/ resume[tid_in[s]] \in {<<"wait", s>>, <<"timed", s>>}

\* A timed wait tells the caller what happened: it fails if the timeout woke
\* the caller and succeeds if a post did (syscall.h:198-200).
TimedWaitTellsTheTruth ==
    \A s \in Timed :
       pc = "entry" /\ resume[current] = <<"timed", s>> =>
          (SemIsCatched(s) <=> current \notin expired)

\* The time queue is in the order of the timeouts: OS_ClockBottomISR and the
\* timer look only at its head.
TimeQueueSorted ==
    \A i, j \in DOMAIN time_list : i < j => left[time_list[i]] <= left[time_list[j]]

\* A thread leaves the time queue before its time only when a post wakes it.
NoEarlyWake ==
    [][\A t \in Thread :
          In(time_list, t) /\ ~In(time_list', t) /\ left[t] > 0 =>
             resume[t] # <<"user">> /\ t \notin expired']_vars

\* While the kernel believes that the one-shot timer is programmed, it runs or
\* its interrupt is requested: OS_TimerISR relies on it and leaves the time
\* queue alone (time.c:446-456).
OneShotIsRunning == oneshot_programed => shot > 0 \/ clock_irq

\* Every timeout ends the wait at last, whatever the timers were programmed
\* for and even if a clock event was forgotten.
ExpiredThreadsWake ==
    \A t \in Thread \ {Idle} : (In(time_list, t) /\ left[t] <= 0) ~> ~In(time_list, t)

\* An event that an ISR marks wakes a thread that waits for it, or is kept in
\* the semaphore for the next one (irqev.c:64-73).
EventsArrive ==
    [][\A s \in Events :
          IRQMarkEvent(s) => sem_value'[s] = 1 \/ sem_list'[s] # sem_list[s]]_vars
----------------------------------------------------------------------------
(* The inductive invariant behind the theorems of ErcosKernel_proofs.      *)

Waits(t) == InSem(t) \/ In(time_list, t)

\* The places of the kernel where current has the processor and is in no
\* queue: it has not offered the processor, or has just been given it.
Settled == pc \in {"user", "entry", "queue", "switch", "dispatch"}

\* No thread is in two places, whatever the kernel is doing.
OnePlace ==
    /\ \A t \in Thread : Queued(sched_list, t) => ~Waits(t) /\ ~In(tcb_list, t)
    /\ \A t \in Thread : Waits(t) => ~In(tcb_list, t)
    /\ Settled => /\ ~Queued(sched_list, current)
                  /\ ~Waits(current)
                  /\ ~In(tcb_list, current)
    /\ Distinct(tcb_list) /\ Distinct(time_list)
    /\ \A s \in Sem : Distinct(sem_list[s])

\* A thread in line for s will go on with its wait for s; one in the time
\* queue sleeps, or is also in line for what it waits for with a timeout; and
\* one whose timeout ended its wait has not been told yet and waits nowhere.
GoesOnWithItsWait ==
    /\ \A s \in Sem, t \in Thread : In(sem_list[s], t) =>
          /\ wait_sem[t] = s
          /\ \/ resume[t] = <<"wait", s>> /\ ~In(time_list, t)
             \/ resume[t] = <<"timed", s>> /\ s \in Timed
    /\ \A t \in Thread : In(time_list, t) =>
          \/ resume[t] = <<"user">>
          \/ \E s \in Timed : resume[t] = <<"timed", s>> /\ In(sem_list[s], t)
    /\ \A t \in expired : /\ ~Waits(t)
                         /\ \E s \in Timed : resume[t] = <<"timed", s>>

\* t has been given s, and has not been told yet.
Granted(t, s) ==
    /\ resume[t] \in {<<"wait", s>>, <<"timed", s>>}
    /\ ~In(sem_list[s], t)
    /\ t \notin expired

\* A lock is free, or one thread has been told that it has it, or one has
\* been given it and will be told; and nobody who waits for it with a timeout,
\* or did in vain, is taken for its owner.
OneOwner(s) ==
    /\ sem_value[s] = 1 => holds[s] = {} /\ \A t \in Tid : ~Granted(t, s)
    /\ sem_value[s] = 0 =>
          \/ holds[s] = {tid_in[s]} /\ \A t \in Tid : ~Granted(t, s)
          \/ holds[s] = {} /\ \A t \in Tid : Granted(t, s) <=> t = tid_in[s]
    /\ \A t \in Tid :
          resume[t] = <<"timed", s>> /\ (In(sem_list[s], t) \/ t \in expired) =>
             tid_in[s] # t

LockHasOneOwner == \A s \in Locks : OneOwner(s)

\* What a wait has found holds until it blocks, unless an event comes.
TakenUntilBlocked ==
    \A t \in Tid, s \in Sem \ cut :
       resume[t] = <<"queue", s>> =>
          pc = "queue" /\ t = current /\ Taken(s) /\ MayWait(s)

\* A schedule is asked for by a call only, and is made before the call ends.
CallSchedules == Settled => ~need_reesched

ThreadsPlaced ==
    /\ TypeOK
    /\ QueuesOK(Thread, Tid, sched_list, sched_queue_i, priority)
    /\ OnePlace
    /\ GoesOnWithItsWait
    /\ CallSchedules

PlaceInv == ThreadsPlaced /\ TakenUntilBlocked /\ cut = {}

KernelInv == PlaceInv /\ NobodyWaitsForFreeSem /\ LockHasOneOwner /\ TimeQueueSorted
=============================================================================
