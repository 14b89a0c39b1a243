------------------------- MODULE ErcosKernel_proofs -------------------------
(***************************************************************************)
(* Theorems about the wait queues of the kernel for any number of threads, *)
(* priorities, semaphores and delays.                                      *)
(***************************************************************************)
EXTENDS ErcosKernel, ReadyQueue_proofs, FiniteSetTheorems

LEMMA TidFacts == /\ Thread \subseteq Tid /\ Idle \in Thread /\ Main \in Thread
                  /\ Boot \in Tid /\ Boot \notin Thread /\ Idle # Main
                  /\ 0 \in Tid
BY KernelAssumption DEF Thread, Tid, Boot, Idle, Main

----------------------------------------------------------------------------
(* Types.                                                                  *)

\* What Ready may be asked to ready: nobody or one thread.
AtMostOne(T) == T = {} \/ \E t \in Thread : T = {t}

LEMMA ReadyTypes ==
    ASSUME TypeOK, NEW T, AtMostOne(T), NEW offers \in BOOLEAN, Ready(T, offers)
    PROVE  /\ sched_list' \in [Prio -> Seq(Thread)] /\ sched_queue_i' \in Prio
           /\ status' \in [Tid -> SUBSET Flags]
<1> DEFINE t == CHOOSE x \in T : TRUE
           q == IF T = {} THEN sched_list ELSE AddTail(sched_list, t, priority[t])
           i == IF T = {} THEN sched_queue_i ELSE Lower(sched_queue_i, priority[t])
<1>1. /\ current \in Thread /\ priority[current] \in Prio
      /\ sched_list \in [Prio -> Seq(Thread)] /\ sched_queue_i \in Prio
      /\ status \in [Tid -> SUBSET Flags] /\ priority \in [Tid -> Prio]
  BY TidFacts DEF TypeOK
<1>2. T # {} => t \in Thread /\ priority[t] \in Prio
  BY <1>1, TidFacts DEF AtMostOne
<1>3. status' = [x \in Tid |-> IF x \in T \/ (offers /\ x = current)
                        THEN {"READY"} ELSE status[x]]
  BY DEF Ready
<1> HIDE DEF t
<1>4. q \in [Prio -> Seq(Thread)]
  BY <1>1, <1>2, AddTypes
<1>5. i \in Prio
  BY <1>1, <1>2, LowerBoundLowered
<1>6. /\ sched_list' = IF offers THEN AddHead(q, current, priority[current]) ELSE q
      /\ sched_queue_i' = IF offers THEN Lower(i, priority[current]) ELSE i
  BY DEF Ready, t
<1> HIDE DEF q, i
<1>7. AddHead(q, current, priority[current]) \in [Prio -> Seq(Thread)]
  BY <1>1, <1>4, AddTypes
<1>8. Lower(i, priority[current]) \in Prio
  BY <1>1, <1>5, LowerBoundLowered
<1>9. status' \in [Tid -> SUBSET Flags]
  BY <1>1, <1>3 DEF Flags
<1>10. QED
  BY <1>4, <1>5, <1>6, <1>7, <1>8, <1>9

\* The lists that are not ready queues.
LEMMA ListTypes ==
    ASSUME TypeOK
    PROVE  /\ tcb_list # <<>> => Head(tcb_list) \in Thread /\ Tail(tcb_list) \in Seq(Thread)
           /\ Append(tcb_list, current) \in Seq(Thread)
           /\ time_list # <<>> => Head(time_list) \in Thread /\ Tail(time_list) \in Seq(Thread)
           /\ \A t : Without(time_list, t) \in Seq(Thread)
           /\ \A s \in Sem :
                 /\ sem_list[s] \in Seq(Thread)
                 /\ sem_list[s] # <<>> =>
                       Head(sem_list[s]) \in Thread /\ Tail(sem_list[s]) \in Seq(Thread)
                 /\ Append(sem_list[s], current) \in Seq(Thread)
                 /\ \A t : Without(sem_list[s], t) \in Seq(Thread)
<1>1. /\ current \in Thread /\ tcb_list \in Seq(Thread) /\ time_list \in Seq(Thread)
      /\ \A s \in Sem : sem_list[s] \in Seq(Thread)
  BY DEF TypeOK
<1>2. ASSUME NEW l \in Seq(Thread)
      PROVE  /\ l # <<>> => Head(l) \in Thread /\ Tail(l) \in Seq(Thread)
             /\ Append(l, current) \in Seq(Thread)
             /\ \A t : Without(l, t) \in Seq(Thread)
  BY <1>1, TailHolds, AppendHolds, WithoutHolds
<1>3. QED
  BY <1>1, <1>2

LEMMA ReturnsTypes ==
    ASSUME TypeOK, Returns({})
    PROVE  /\ sched_list' \in [Prio -> Seq(Thread)] /\ sched_queue_i' \in Prio
           /\ status' \in [Tid -> SUBSET Flags]
BY ReadyTypes DEF Returns, AtMostOne

LEMMA BlocksTypes ==
    ASSUME TypeOK, NEW F \in SUBSET Flags, NEW k \in Continuation, Blocks(F, k)
    PROVE  /\ sched_list' \in [Prio -> Seq(Thread)] /\ sched_queue_i' \in Prio
           /\ status' \in [Tid -> SUBSET Flags]
           /\ resume' \in [Tid -> Continuation]
<1>1. current \in Tid /\ status[current] \cup F \in SUBSET Flags
  BY TidFacts DEF TypeOK
<1>2. QED
  BY <1>1 DEF Blocks, TypeOK, queues

\* The semaphores after one is caught or waited for, the queue after a thread
\* is put in it.
LEMMA CatchTypes ==
    ASSUME TypeOK, NEW s \in Sem, Catch(s) \/ Queue(s)
    PROVE  /\ sem_value' \in [Sem -> {0, 1}] /\ sem_list' \in [Sem -> Seq(Thread)]
           /\ tid_in' \in [Sem -> Tid] /\ wait_sem' \in [Tid -> Sem]
           /\ holds' \in [Locks -> SUBSET Thread]
<1>1. /\ current \in Thread /\ current \in Tid
      /\ Append(sem_list[s], current) \in Seq(Thread)
  BY ListTypes, TidFacts DEF TypeOK
<1>2. CASE Catch(s)
  BY <1>1, <1>2 DEF Catch, TypeOK
<1>3. CASE Queue(s)
  BY <1>1, <1>3 DEF Queue, TypeOK
<1>4. QED
  BY <1>2, <1>3

LEMMA EnqueueIs ==
    ASSUME TypeOK, NEW d \in Int, Enqueue(d)
    PROVE  \E i \in 1 .. (Len(time_list) + 1) :
              /\ \A j \in 1 .. (i - 1) : left[time_list[j]] <= d
              /\ i <= Len(time_list) => left[time_list[i]] > d
              /\ time_list' = Insertion(time_list, i, current)
BY DEF Enqueue, Insertion

LEMMA EnqueueTypes ==
    ASSUME TypeOK, NEW d \in Int, Enqueue(d)
    PROVE  /\ time_list' \in Seq(Thread) /\ left' \in [Tid -> Int] /\ expired' \subseteq Thread
<1>1. PICK i \in 1 .. (Len(time_list) + 1) : time_list' = Insertion(time_list, i, current)
  BY EnqueueIs
<1>2. time_list \in Seq(Thread) /\ current \in Thread
  BY DEF TypeOK
<1>3. time_list' \in Seq(Thread)
  BY <1>1, <1>2, InsertHolds
<1>4. QED
  BY <1>3 DEF Enqueue, TypeOK

LEMMA ProgramClockTypes ==
    ASSUME TypeOK, NEW v \in Int, 0 <= v, v < Overflow, ProgramClock(v)
    PROVE  oneshot_programed' \in BOOLEAN /\ shot' \in 0 .. Overflow
BY KernelAssumption DEF ProgramClock

LEMMA ProgramTypes ==
    ASSUME TypeOK, NEW d \in Int, Program(d)
    PROVE  /\ event_pending' \in BOOLEAN /\ clock_event' \in BOOLEAN
           /\ oneshot_programed' \in BOOLEAN /\ shot' \in 0 .. Overflow
<1> DEFINE first == IF time_list # <<>> /\ left[Head(time_list)] <= d
                    THEN left[Head(time_list)] ELSE d
           wait == first + Late - Penalty
<1>1. first \in Int
  BY ListTypes, TidFacts DEF TypeOK
<1> HIDE DEF first
<1>2. wait \in Int
  BY <1>1, KernelAssumption DEF Late
<1>3. /\ IF 0 < wait /\ wait < Overflow THEN ProgramClock(wait) ELSE UNCHANGED oneshot
      /\ IF wait <= 0 THEN MarkClockEvent ELSE UNCHANGED marks
  BY DEF Program, first
<1> HIDE DEF wait
<1>4. oneshot_programed' \in BOOLEAN /\ shot' \in 0 .. Overflow
  <2>1. CASE 0 < wait /\ wait < Overflow
    BY <1>2, <1>3, <2>1, ProgramClockTypes
  <2>2. CASE ~(0 < wait /\ wait < Overflow)
    BY <1>3, <2>2 DEF oneshot, TypeOK
  <2>3. QED
    BY <2>1, <2>2
<1>5. event_pending' \in BOOLEAN /\ clock_event' \in BOOLEAN
  <2>1. CASE wait <= 0
    BY <1>3, <2>1 DEF MarkClockEvent
  <2>2. CASE ~(wait <= 0)
    BY <1>3, <2>2 DEF marks, TypeOK
  <2>3. QED
    BY <2>1, <2>2
<1>6. QED
  BY <1>4, <1>5

LEMMA BodyTypes ==
    ASSUME TypeOK, Body
    PROVE  /\ current' \in Thread /\ old_current' \in Tid
           /\ need_reesched' \in BOOLEAN /\ pc' \in Places
           /\ event_inside' \subseteq Events /\ cut' \subseteq Sem
           /\ pit' \in 0 .. (Overflow - 1) /\ pit_irq' \in BOOLEAN /\ clock_irq' \in BOOLEAN
BY DEF Body, TypeOK, cpu, posted, irqs, Places
----------------------------------------------------------------------------
(* Each action keeps the types, whatever the constants.                    *)

LEMMA TaskCreateTypes == ASSUME TypeOK, NEW p \in Prio, TaskCreate(p) PROVE TypeOK'
<1> DEFINE t == Head(tcb_list)
           q == AddTail(sched_list, t, p)
<1>1. /\ Call /\ t \in Thread /\ t \in Tid /\ tcb_list' = Tail(tcb_list)
      /\ Tail(tcb_list) \in Seq(Thread)
  BY ListTypes, TidFacts DEF TaskCreate
<1>2. /\ priority' = [priority EXCEPT ![t] = p]
      /\ status' = [status EXCEPT ![t] = {"READY"}, ![current] = {"READY"}]
      /\ sched_list' = AddHead(q, current, priority'[current])
      /\ sched_queue_i' = Lower(Lower(sched_queue_i, p), priority'[current])
      /\ UNCHANGED <<resume, sems, times, marks, oneshot>>
  BY DEF TaskCreate
<1> HIDE DEF t
<1>3. /\ priority' \in [Tid -> Prio] /\ status' \in [Tid -> SUBSET Flags]
      /\ current \in Thread /\ priority'[current] \in Prio
  BY <1>1, <1>2, TidFacts DEF TypeOK, Flags
<1>4. q \in [Prio -> Seq(Thread)] /\ Lower(sched_queue_i, p) \in Prio
  BY <1>1, AddTypes, LowerBoundLowered DEF TypeOK
<1> HIDE DEF q
<1>5. sched_list' \in [Prio -> Seq(Thread)] /\ sched_queue_i' \in Prio
  BY <1>2, <1>3, <1>4, AddTypes, LowerBoundLowered
<1>6. QED
  BY <1>1, <1>2, <1>3, <1>5, BodyTypes DEF TypeOK, Call, sems, times, marks, oneshot

LEMMA ThreadExitTypes == ASSUME TypeOK, ThreadExit PROVE TypeOK'
<1>1. /\ Body /\ tcb_list' = Append(tcb_list, current)
      /\ status' = [status EXCEPT ![current] = {}]
      /\ UNCHANGED <<queues, priority, resume, sems, times, marks, oneshot>>
  BY DEF ThreadExit, Call
<1>2. tcb_list' \in Seq(Thread) /\ status' \in [Tid -> SUBSET Flags]
  BY <1>1, ListTypes DEF TypeOK
<1>3. QED
  BY <1>1, <1>2, BodyTypes DEF TypeOK, queues, sems, times, marks, oneshot

LEMMA FindsTakenTypes == ASSUME TypeOK, NEW s \in Sem, FindsTaken(s) PROVE TypeOK'
<1>1. /\ pc' \in Places /\ resume' = [resume EXCEPT ![current] = <<"queue", s>>]
      /\ UNCHANGED <<queues, cpu, need_reesched, status, tasks, sems, times, posted,
                     marks, oneshot, irqs>>
  BY DEF FindsTaken, Places
<1>2. resume' \in [Tid -> Continuation]
  <2>1. <<"queue", s>> \in Continuation
    BY DEF Continuation
  <2>2. QED
    BY <1>1, <2>1 DEF TypeOK
<1>3. QED
  BY <1>1, <1>2
     DEF TypeOK, queues, cpu, tasks, sems, times, posted, marks, oneshot, irqs

LEMMA SemWaitTypes == ASSUME TypeOK, NEW s \in Sem, SemWait(s) PROVE TypeOK'
<1>1. CASE FindsTaken(s)
  BY <1>1, FindsTakenTypes
<1>2. CASE Call /\ Catch(s) /\ Returns({}) /\ UNCHANGED <<tasks, resume, times, marks, oneshot>>
  BY <1>2, ReturnsTypes, CatchTypes, BodyTypes DEF TypeOK, Call, tasks, times, marks, oneshot
<1>3. QED
  BY <1>1, <1>2 DEF SemWait

LEMMA SemBlocksTypes == ASSUME TypeOK, NEW s \in Sem, SemBlocks(s) PROVE TypeOK'
<1>1. /\ Body /\ UNCHANGED <<tasks, times, marks, oneshot>> /\ Queue(s)
      /\ Blocks({"SEM"}, <<"wait", s>>)
  BY DEF SemBlocks
<1>2. <<"wait", s>> \in Continuation /\ {"SEM"} \in SUBSET Flags
  BY DEF Continuation, Flags
<1>3. QED
  BY <1>1, <1>2, BlocksTypes, CatchTypes, BodyTypes DEF TypeOK, tasks, times, marks, oneshot

LEMMA SemTryWaitTypes == ASSUME TypeOK, NEW s \in Sem, SemTryWait(s) PROVE TypeOK'
<1>1. /\ Body /\ Returns({}) /\ UNCHANGED <<tasks, resume, times, marks, oneshot>>
      /\ Catch(s) \/ UNCHANGED sems
  BY DEF SemTryWait, Call
<1>2. /\ sem_value' \in [Sem -> {0, 1}] /\ sem_list' \in [Sem -> Seq(Thread)]
      /\ tid_in' \in [Sem -> Tid] /\ wait_sem' \in [Tid -> Sem]
      /\ holds' \in [Locks -> SUBSET Thread]
  <2>1. CASE Catch(s)
    BY <2>1, CatchTypes
  <2>2. CASE UNCHANGED sems
    BY <2>2 DEF sems, TypeOK
  <2>3. QED
    BY <1>1, <2>1, <2>2
<1>3. QED
  BY <1>1, <1>2, ReturnsTypes, BodyTypes DEF TypeOK, tasks, times, marks, oneshot

\* A post to a waiter or without one.
LEMMA HandOverTypes ==
    ASSUME TypeOK, NEW s \in Sem,
           (sem_list[s] # <<>> /\ HandOver(s)) \/ Free(s)
    PROVE  /\ sem_value' \in [Sem -> {0, 1}] /\ sem_list' \in [Sem -> Seq(Thread)]
           /\ tid_in' \in [Sem -> Tid]
<1>1. CASE sem_list[s] # <<>> /\ HandOver(s)
  <2> DEFINE h == Head(sem_list[s])
             r == Tail(sem_list[s])
  <2>1. h \in Tid /\ r \in Seq(Thread)
    BY <1>1, ListTypes, TidFacts
  <2>2. /\ sem_list' = [sem_list EXCEPT ![s] = r] /\ tid_in' = [tid_in EXCEPT ![s] = h]
        /\ UNCHANGED sem_value
    BY <1>1 DEF HandOver
  <2> HIDE DEF h, r
  <2>3. QED
    BY <2>1, <2>2 DEF TypeOK
<1>2. CASE Free(s)
  BY <1>2 DEF Free, TypeOK
<1>3. QED
  BY <1>1, <1>2

LEMMA SemPostTypes == ASSUME TypeOK, NEW s \in Sem, SemPost(s) PROVE TypeOK'
<1> DEFINE t == Head(sem_list[s])
<1>1. /\ Body /\ UNCHANGED <<tasks, resume, expired, marks, oneshot>>
      /\ holds' = IF s \in Locks THEN [holds EXCEPT ![s] = @ \ {current}] ELSE holds
  BY DEF SemPost, Call
<1>2. holds' \in [Locks -> SUBSET Thread]
  BY <1>1 DEF TypeOK
<1>3. CASE sem_list[s] # <<>>
  <2>1. /\ HandOver(s) /\ TimeRemoveFromQueue(t)
        /\ wait_sem' = [wait_sem EXCEPT ![t] = 0] /\ Ready({t}, TRUE)
    BY <1>3 DEF SemPost, Returns
  <2>2. t \in Thread /\ t \in Tid
    BY <1>3, ListTypes, TidFacts
  <2> HIDE DEF t
  <2>3. /\ sched_list' \in [Prio -> Seq(Thread)] /\ sched_queue_i' \in Prio
        /\ status' \in [Tid -> SUBSET Flags]
    BY <2>1, <2>2, ReadyTypes DEF AtMostOne
  <2>4. /\ time_list' \in Seq(Thread) /\ left' \in [Tid -> Int] /\ wait_sem' \in [Tid -> Sem]
    <3>1. time_list' = Without(time_list, t) /\ left' = [left EXCEPT ![t] = 0]
      BY <2>1 DEF TimeRemoveFromQueue
    <3>2. time_list' \in Seq(Thread)
      BY <3>1, ListTypes
    <3>3. left' \in [Tid -> Int] /\ wait_sem' \in [Tid -> Sem]
      BY <2>1, <2>2, <3>1, KernelAssumption DEF TypeOK
    <3>4. QED
      BY <3>2, <3>3
  <2>5. QED
    BY <1>1, <1>2, <1>3, <2>1, <2>3, <2>4, HandOverTypes, BodyTypes
       DEF TypeOK, tasks, marks, oneshot
<1>4. CASE sem_list[s] = <<>>
  <2>1. Free(s) /\ Returns({}) /\ UNCHANGED <<wait_sem, time_list, left>>
    BY <1>4 DEF SemPost
  <2>2. QED
    BY <1>1, <1>2, <2>1, HandOverTypes, ReturnsTypes, BodyTypes
       DEF TypeOK, tasks, marks, oneshot
<1>5. QED
  BY <1>3, <1>4

\* A delay becomes a timeout.
LEMMA DelayIsTimeout == ASSUME NEW n \in Delays PROVE n - Late \in Int
BY KernelAssumption DEF Late

LEMMA SleepTypes == ASSUME TypeOK, NEW n \in Delays, Sleep(n) PROVE TypeOK'
<1> DEFINE d == n - Late
<1>1. /\ Body /\ UNCHANGED <<tasks, sems>> /\ d \in Int
      /\ \/ Enqueue(d) /\ Program(d) /\ Blocks({"TIME"}, <<"user">>)
         \/ Returns({}) /\ UNCHANGED <<resume, times, marks, oneshot>>
  BY DelayIsTimeout DEF Sleep, Call
<1> HIDE DEF d
<1>2. CASE Enqueue(d) /\ Program(d) /\ Blocks({"TIME"}, <<"user">>)
  <2>1. <<"user">> \in Continuation /\ {"TIME"} \in SUBSET Flags
    BY DEF Continuation, Flags
  <2>2. /\ sched_list' \in [Prio -> Seq(Thread)] /\ sched_queue_i' \in Prio
        /\ status' \in [Tid -> SUBSET Flags] /\ resume' \in [Tid -> Continuation]
    BY <1>2, <2>1, BlocksTypes
  <2>3. QED
    BY <1>1, <1>2, <2>2, EnqueueTypes, ProgramTypes, BodyTypes DEF TypeOK, tasks, sems
<1>3. CASE Returns({}) /\ UNCHANGED <<resume, times, marks, oneshot>>
  BY <1>1, <1>3, ReturnsTypes, BodyTypes DEF TypeOK, tasks, sems, times, marks, oneshot
<1>4. QED
  BY <1>1, <1>2, <1>3

LEMMA SemTimedWaitTypes ==
    ASSUME TypeOK, NEW s \in Sem, NEW n \in Delays, SemTimedWait(s, n) PROVE TypeOK'
<1> DEFINE d == n - Late
<1>1. /\ Body /\ UNCHANGED tasks /\ d \in Int
      /\ \/ Program(d) /\ Queue(s) /\ Enqueue(d) /\ Blocks({"SEM", "TIME"}, <<"timed", s>>)
         \/ Program(d) /\ Catch(s) /\ Returns({}) /\ UNCHANGED <<resume, times>>
         \/ Returns({}) /\ UNCHANGED <<resume, sems, times, marks, oneshot>>
  BY DelayIsTimeout DEF SemTimedWait, Call
<1> HIDE DEF d
<1>2. CASE Program(d) /\ Queue(s) /\ Enqueue(d) /\ Blocks({"SEM", "TIME"}, <<"timed", s>>)
  <2>1. <<"timed", s>> \in Continuation /\ {"SEM", "TIME"} \in SUBSET Flags
    BY DEF Continuation, Flags
  <2>2. /\ sched_list' \in [Prio -> Seq(Thread)] /\ sched_queue_i' \in Prio
        /\ status' \in [Tid -> SUBSET Flags] /\ resume' \in [Tid -> Continuation]
    BY <1>2, <2>1, BlocksTypes
  <2>3. QED
    BY <1>1, <1>2, <2>2, CatchTypes, EnqueueTypes, ProgramTypes, BodyTypes DEF TypeOK, tasks
<1>3. CASE Program(d) /\ Catch(s) /\ Returns({}) /\ UNCHANGED <<resume, times>>
  BY <1>1, <1>3, CatchTypes, ReturnsTypes, ProgramTypes, BodyTypes DEF TypeOK, tasks, times
<1>4. CASE Returns({}) /\ UNCHANGED <<resume, sems, times, marks, oneshot>>
  BY <1>1, <1>4, ReturnsTypes, BodyTypes DEF TypeOK, tasks, sems, times, marks, oneshot
<1>5. QED
  BY <1>1, <1>2, <1>3, <1>4

LEMMA SemTimedWaitReturnsTypes ==
    ASSUME TypeOK, NEW s \in Sem, SemTimedWaitReturns(s) PROVE TypeOK'
<1>1. /\ Body /\ Returns({})
      /\ resume' = [resume EXCEPT ![current] = <<"user">>]
      /\ holds' = IF s \in Locks /\ SemIsCatched(s)
                  THEN [holds EXCEPT ![s] = @ \cup {current}] ELSE holds
      /\ expired' = expired \ {current}
      /\ UNCHANGED <<tasks, sem_value, sem_list, tid_in, wait_sem, time_list, left,
                     marks, oneshot>>
  BY DEF SemTimedWaitReturns
<1>2. /\ resume' \in [Tid -> Continuation] /\ expired' \subseteq Thread
      /\ holds' \in [Locks -> SUBSET Thread]
  BY <1>1 DEF TypeOK, Continuation
<1>3. QED
  BY <1>1, <1>2, ReturnsTypes, BodyTypes DEF TypeOK, tasks, marks, oneshot

LEMMA ClockBottomTypes ==
    ASSUME TypeOK, NEW late \in {0, Overflow}, NEW offers \in BOOLEAN, NEW marked \in BOOLEAN,
           ClockBottomISR(late, offers, marked),
           UNCHANGED <<cpu, need_reesched, tasks, resume, posted>>,
           pc' \in Places, pit' \in 0 .. (Overflow - 1),
           pit_irq' \in BOOLEAN, clock_irq' \in BOOLEAN
    PROVE  TypeOK'
<1> DEFINE due == Due(late)
           t == Head(time_list)
           rest == IF due THEN Tail(time_list) ELSE time_list
           first == left[Head(rest)] + late
           wait == IF due THEN first - Penalty ELSE first
<1>1. /\ time_list' = rest
      /\ IF due THEN /\ left' = [left EXCEPT ![t] = 0]
                     /\ SemExtracThreadFromList(t)
                     /\ expired' = IF resume[t] = <<"user">> THEN expired ELSE expired \cup {t}
                ELSE UNCHANGED <<left, sem_list, wait_sem, expired>>
      /\ Ready(IF due THEN {t} ELSE {}, offers)
      /\ IF rest # <<>> /\ 0 <= wait /\ wait < Overflow
         THEN ProgramClock(wait) ELSE UNCHANGED oneshot
      /\ IF rest # <<>> /\ first <= 0
         THEN MarkClockEvent ELSE clock_event' = marked /\ UNCHANGED event_pending
      /\ UNCHANGED <<sem_value, tid_in, holds>>
  BY DEF ClockBottomISR
<1>2. due => t \in Thread /\ t \in Tid /\ Tail(time_list) \in Seq(Thread)
  BY ListTypes, TidFacts DEF Due
<1>3. rest \in Seq(Thread)
  BY <1>2 DEF TypeOK
<1>4. rest # <<>> => wait \in Int
  <2>1. rest # <<>> => Head(rest) \in Thread
    BY <1>3, TailHolds
  <2>2. \A x \in Thread : left[x] + late \in Int
    BY TidFacts, KernelAssumption DEF TypeOK
  <2>3. rest # <<>> => first \in Int
    BY <2>1, <2>2
  <2> HIDE DEF first
  <2>4. QED
    BY <2>3, KernelAssumption
<1> HIDE DEF due, t, rest, first, wait
<1>5. AtMostOne(IF due THEN {t} ELSE {})
  BY <1>2 DEF AtMostOne
<1>6. /\ sched_list' \in [Prio -> Seq(Thread)] /\ sched_queue_i' \in Prio
      /\ status' \in [Tid -> SUBSET Flags]
  BY <1>1, <1>5, ReadyTypes
<1>7. /\ left' \in [Tid -> Int] /\ expired' \subseteq Thread
      /\ sem_list' \in [Sem -> Seq(Thread)] /\ wait_sem' \in [Tid -> Sem]
  <2>1. CASE due
    <3> DEFINE w == wait_sem[t]
               l == Without(sem_list[w], t)
    <3>1. w \in Sem
      BY <1>2, <2>1 DEF TypeOK
    <3>2. l \in Seq(Thread)
      BY <3>1, ListTypes
    <3>3. sem_list' = [sem_list EXCEPT ![w] = l] /\ wait_sem' = [wait_sem EXCEPT ![t] = 0]
      BY <1>1, <2>1 DEF SemExtracThreadFromList
    <3> HIDE DEF w, l
    <3>4. sem_list' \in [Sem -> Seq(Thread)] /\ wait_sem' \in [Tid -> Sem]
      BY <3>1, <3>2, <3>3, KernelAssumption DEF TypeOK
    <3>5. /\ left' = [left EXCEPT ![t] = 0]
          /\ expired' = expired \/ expired' = expired \cup {t}
      BY <1>1, <2>1
    <3>6. left' \in [Tid -> Int]
      <4>1. left \in [Tid -> Int] /\ 0 \in Int
        BY DEF TypeOK
      <4>2. QED
        BY <1>2, <2>1, <3>5, <4>1
    <3>7. expired' \subseteq Thread
      BY <1>2, <2>1, <3>5 DEF TypeOK
    <3>8. QED
      BY <3>4, <3>6, <3>7
  <2>2. CASE ~due
    BY <1>1, <2>2 DEF TypeOK
  <2>3. QED
    BY <2>1, <2>2
<1>8. oneshot_programed' \in BOOLEAN /\ shot' \in 0 .. Overflow
  <2>1. CASE rest # <<>> /\ 0 <= wait /\ wait < Overflow
    BY <1>1, <1>4, <2>1, ProgramClockTypes
  <2>2. CASE ~(rest # <<>> /\ 0 <= wait /\ wait < Overflow)
    BY <1>1, <2>2 DEF oneshot, TypeOK
  <2>3. QED
    BY <2>1, <2>2
<1>9. event_pending' \in BOOLEAN /\ clock_event' \in BOOLEAN
  BY <1>1 DEF MarkClockEvent, TypeOK
<1>10. QED
  BY <1>1, <1>3, <1>6, <1>7, <1>8, <1>9 DEF TypeOK, cpu, tasks, posted

LEMMA ScheduleTypes == ASSUME TypeOK, Schedule PROVE TypeOK'
<1>1. PICK p \in Prio : /\ ScanStops(sched_list, sched_queue_i, p)
                        /\ sched_queue_i' = p
                        /\ sched_list' = [sched_list EXCEPT ![p] = Tail(@)]
                        /\ current' = Head(sched_list[p])
  BY DEF Schedule
<1>2. /\ UNCHANGED <<tasks, resume, sems, times, posted, marks, oneshot, irqs>>
      /\ status' = [status EXCEPT ![current'] = {}]
      /\ old_current' = current /\ need_reesched' \in BOOLEAN /\ pc' \in Places
  BY DEF Schedule, Places
<1>3. sched_list[p] # <<>> /\ sched_list \in [Prio -> Seq(Thread)]
  BY <1>1 DEF ScanStops, TypeOK
<1>4. current' \in Thread /\ sched_list' \in [Prio -> Seq(Thread)]
  <2>1. sched_list[p] \in Seq(Thread)
    BY <1>3
  <2>2. current' \in Thread /\ Tail(sched_list[p]) \in Seq(Thread)
    BY <1>1, <1>3, <2>1, TailHolds
  <2>3. QED
    BY <1>1, <1>3, <2>2
<1>5. old_current' \in Tid /\ status' \in [Tid -> SUBSET Flags]
  BY <1>2, TidFacts DEF TypeOK
<1>6. QED
  BY <1>1, <1>2, <1>4, <1>5 DEF TypeOK, tasks, sems, times, marks, oneshot, irqs, posted

LEMMA DispatchTypes == ASSUME TypeOK, Dispatch PROVE TypeOK'
<1> DEFINE k == resume[current]
<1>1. /\ pc' \in Places
      /\ UNCHANGED <<queues, cpu, need_reesched, status, tasks, sem_value, sem_list,
                     tid_in, wait_sem, times, posted, marks, oneshot, irqs>>
      /\ \/ /\ k[1] = "wait"
            /\ resume' = [resume EXCEPT ![current] = <<"user">>]
            /\ holds' = IF k[2] \in Locks
                        THEN [holds EXCEPT ![k[2]] = @ \cup {current}] ELSE holds
         \/ UNCHANGED <<resume, holds>>
  BY DEF Dispatch, Places
<1> HIDE DEF k
<1>2. resume' \in [Tid -> Continuation]
  <2>1. <<"user">> \in Continuation
    BY DEF Continuation
  <2>2. QED
    BY <1>1, <2>1 DEF TypeOK
<1>3. holds' \in [Locks -> SUBSET Thread]
  <2> DEFINE l == k[2]
  <2>1. \/ holds' = holds
        \/ l \in Locks /\ holds' = [holds EXCEPT ![l] = @ \cup {current}]
    BY <1>1
  <2> HIDE DEF l
  <2>2. holds \in [Locks -> SUBSET Thread] /\ current \in Thread
    BY DEF TypeOK
  <2>3. holds[l] \cup {current} \in SUBSET Thread \/ l \notin Locks
    BY <2>2
  <2>4. QED
    BY <2>1, <2>2, <2>3
<1>4. QED
  BY <1>1, <1>2, <1>3 DEF TypeOK, queues, cpu, tasks, times, marks, oneshot, irqs, posted

\* An interrupt that wakes nobody and perhaps ends in the epilogue.
LEMMA QuietTypes ==
    ASSUME TypeOK, Ready({}, AtUser)
    PROVE  /\ sched_list' \in [Prio -> Seq(Thread)] /\ sched_queue_i' \in Prio
           /\ status' \in [Tid -> SUBSET Flags]
<1>1. AtUser \in BOOLEAN /\ AtMostOne({})
  BY DEF AtUser, AtMostOne
<1>2. QED
  BY <1>1, ReadyTypes

LEMMA TimerISRTypes == ASSUME TypeOK, TimerISR PROVE TypeOK'
<1>1. /\ pc' \in Places
      /\ UNCHANGED <<cpu, need_reesched, tasks, resume, posted>>
      /\ pit' \in 0 .. (Overflow - 1) /\ pit_irq' \in BOOLEAN /\ clock_irq' \in BOOLEAN
  BY DEF TimerISR, Epilogue, Places, TypeOK
<1>2. CASE TimerLooksAtQueue
  <2>1. 0 \in {0, Overflow} /\ AtUser \in BOOLEAN /\ clock_event \in BOOLEAN
    BY DEF AtUser, TypeOK
  <2>2. ClockBottomISR(0, AtUser, clock_event)
    BY <1>2 DEF TimerISR
  <2>3. QED
    BY <1>1, <2>1, <2>2, ClockBottomTypes
<1>3. CASE ~TimerLooksAtQueue
  <2>1. Ready({}, AtUser) /\ UNCHANGED <<sems, times, marks, oneshot>>
    BY <1>3 DEF TimerISR
  <2>2. QED
    BY <1>1, <2>1, QuietTypes DEF TypeOK, cpu, tasks, sems, times, marks, oneshot, posted
<1>4. QED
  BY <1>2, <1>3

LEMMA ClockISRTypes == ASSUME TypeOK, ClockISR PROVE TypeOK'
<1>1. /\ pc' \in Places /\ Ready({}, AtUser)
      /\ clock_irq' \in BOOLEAN /\ oneshot_programed' \in BOOLEAN
      /\ clock_event' \in BOOLEAN /\ event_pending' \in BOOLEAN
      /\ UNCHANGED <<cpu, need_reesched, tasks, resume, sems, times, posted,
                     shot, pit, pit_irq>>
  BY DEF ClockISR, OneShotNotProgramed, MarkClockEvent, Epilogue, Places, TypeOK
<1>2. QED
  BY <1>1, QuietTypes DEF TypeOK, cpu, tasks, sems, times, posted

LEMMA IRQMarkEventTypes ==
    ASSUME TypeOK, NEW s \in Events, IRQMarkEvent(s) PROVE TypeOK'
<1> DEFINE t == Head(sem_list[s])
           handled == s \notin event_inside
<1>1. /\ event_inside' \subseteq Events /\ event_pending' \in BOOLEAN
      /\ cut' \subseteq Sem
      /\ need_reesched' \in BOOLEAN /\ pc' \in Places
      /\ UNCHANGED <<cpu, tasks, resume, wait_sem, holds, times, clock_event,
                     oneshot, irqs>>
  BY DEF IRQMarkEvent, Places, TypeOK
<1>2. s \in Sem
  BY KernelAssumption
<1>3. CASE handled /\ sem_list[s] # <<>>
  <2>1. HandOver(s) /\ Ready({t}, TRUE)
    BY <1>3 DEF IRQMarkEvent
  <2>2. t \in Thread
    BY <1>2, <1>3, ListTypes
  <2> HIDE DEF t
  <2>3. /\ sched_list' \in [Prio -> Seq(Thread)] /\ sched_queue_i' \in Prio
        /\ status' \in [Tid -> SUBSET Flags]
    BY <2>1, <2>2, ReadyTypes DEF AtMostOne
  <2>4. QED
    BY <1>1, <1>2, <1>3, <2>1, <2>3, HandOverTypes
       DEF TypeOK, cpu, tasks, times, oneshot, irqs
<1>4. CASE ~(handled /\ sem_list[s] # <<>>)
  <2>1. /\ Free(s) \/ UNCHANGED <<sem_value, sem_list, tid_in>>
        /\ Ready({}, TRUE)
    BY <1>4 DEF IRQMarkEvent
  <2>2. /\ sched_list' \in [Prio -> Seq(Thread)] /\ sched_queue_i' \in Prio
        /\ status' \in [Tid -> SUBSET Flags]
    BY <2>1, ReadyTypes DEF AtMostOne
  <2>3. /\ sem_value' \in [Sem -> {0, 1}] /\ sem_list' \in [Sem -> Seq(Thread)]
        /\ tid_in' \in [Sem -> Tid]
    BY <1>2, <2>1, HandOverTypes DEF TypeOK
  <2>4. QED
    BY <1>1, <2>2, <2>3 DEF TypeOK, cpu, tasks, times, oneshot, irqs
<1>5. QED
  BY <1>3, <1>4

LEMMA TickTypes == ASSUME TypeOK, Tick PROVE TypeOK'
<1>1. pit' \in 0 .. (Overflow - 1) /\ pit_irq' \in BOOLEAN
  <2>1. Overflow \in Int /\ Overflow > 0 /\ pit + 1 \in Int
    BY KernelAssumption DEF TypeOK
  <2>2. (pit + 1) % Overflow \in 0 .. (Overflow - 1)
    BY <2>1
  <2>3. QED
    BY <2>2 DEF Tick, TypeOK
<1>2. left' \in [Tid -> Int]
  <2>1. \A t \in Tid : left[t] \in Int /\ left[t] - 1 \in Int
    BY DEF TypeOK
  <2>2. QED
    BY <2>1 DEF Tick
<1>3. shot' \in 0 .. Overflow /\ clock_irq' \in BOOLEAN
  BY KernelAssumption DEF Tick, TypeOK
<1>4. UNCHANGED <<queues, cpu, need_reesched, pc, status, tasks, resume, sems,
                  time_list, expired, posted, marks, oneshot_programed>>
  BY DEF Tick
<1>5. QED
  BY <1>1, <1>2, <1>3, <1>4 DEF TypeOK, queues, cpu, tasks, sems, marks, posted

\* The steps that only move pc, or clear the count of pending events.
StepsOn == SyscallEntry \/ NoClockEvent \/ ClearPendingEvents \/ ClearScheduleActive

LEMMA StepsOnIs ==
    ASSUME StepsOn
    PROVE  /\ UNCHANGED <<queues, cpu, need_reesched, status, tasks, resume, sems,
                          times, posted, clock_event, oneshot, irqs>>
           /\ event_pending' \in {event_pending, FALSE}
           /\ \/ pc = "user" /\ pc' = "entry"
              \/ pc = "events" /\ pc' = "clear"
              \/ pc = "clear" /\ pc' = "sched"
              \/ pc = "switch" /\ pc' = "dispatch"
BY DEF StepsOn, SyscallEntry, NoClockEvent, ClearPendingEvents, ClearScheduleActive, marks

LEMMA StepsOnTypes == ASSUME TypeOK, StepsOn PROVE TypeOK'
<1>1. pc' \in Places /\ event_pending' \in BOOLEAN
  BY StepsOnIs DEF TypeOK, Places
<1>2. QED
  BY <1>1, StepsOnIs DEF TypeOK, queues, cpu, tasks, sems, times, oneshot, irqs, posted

LEMMA HandleClockEventTypes == ASSUME TypeOK, HandleClockEvent PROVE TypeOK'
<1>1. Late \in {0, Overflow} /\ FALSE \in BOOLEAN
  BY DEF Late
<1>2. /\ ClockBottomISR(Late, FALSE, FALSE)
      /\ UNCHANGED <<cpu, need_reesched, tasks, resume, posted>>
      /\ pc' \in Places /\ pit' \in 0 .. (Overflow - 1)
      /\ pit_irq' \in BOOLEAN /\ clock_irq' \in BOOLEAN
  BY DEF HandleClockEvent, TypeOK, irqs
<1>3. QED
  BY <1>1, <1>2, ClockBottomTypes

LEMMA InitTypes == Init => TypeOK
<1> SUFFICES ASSUME Init PROVE TypeOK
  OBVIOUS
<1>1. EmptyQueues \in [Prio -> Seq(Thread)] /\ <<Idle>> \in Seq(Thread)
  BY TidFacts, EmptySeq DEF EmptyQueues
<1>2. sched_list \in [Prio -> Seq(Thread)]
  BY <1>1 DEF Init
<1>3. tcb_list \in Seq(Thread)
  <2> DEFINE n == MaxThreads - 3
  <2>1. n \in Nat /\ tcb_list = [i \in 1 .. n |-> i + 2]
    BY KernelAssumption DEF Init
  <2>2. \A i \in 1 .. n : i + 2 \in Thread
    BY <2>1, KernelAssumption DEF Thread, Tid, Boot
  <2> HIDE DEF n
  <2>3. QED
    BY <2>1, <2>2
<1>4. <<>> \in Seq(Thread)
  BY EmptySeq
<1>5. /\ sched_queue_i \in Prio /\ priority \in [Tid -> Prio]
  BY PrioInt DEF Init
<1>6. status \in [Tid -> SUBSET Flags] /\ resume \in [Tid -> Continuation]
  BY DEF Init, Flags, Continuation
<1>7. /\ sem_value \in [Sem -> {0, 1}] /\ sem_list \in [Sem -> Seq(Thread)]
      /\ tid_in \in [Sem -> Tid] /\ wait_sem \in [Tid -> Sem]
      /\ holds \in [Locks -> SUBSET Thread] /\ left \in [Tid -> Int]
  BY <1>4, TidFacts, KernelAssumption DEF Init
<1>8. pit \in 0 .. (Overflow - 1) /\ shot \in 0 .. Overflow
  BY KernelAssumption DEF Init
<1>9. QED
  BY <1>2, <1>3, <1>4, <1>5, <1>6, <1>7, <1>8, TidFacts DEF Init, TypeOK, Places

\* Next, with its actions in the groups that the proofs go by.
LEMMA NextCases ==
    ASSUME Next
    PROVE  \/ \E p \in Prio : TaskCreate(p)
           \/ ThreadExit
           \/ \E s \in Sem : SemWait(s)
           \/ \E s \in Sem : SemBlocks(s)
           \/ \E s \in Sem : SemTryWait(s)
           \/ \E s \in Sem : SemPost(s)
           \/ \E n \in Delays : Sleep(n)
           \/ \E s \in Timed, n \in Delays : SemTimedWait(s, n)
           \/ \E s \in Timed : SemTimedWaitReturns(s)
           \/ HandleClockEvent
           \/ StepsOn
           \/ Schedule
           \/ Dispatch
           \/ TimerISR
           \/ ClockISR
           \/ \E s \in Events : IRQMarkEvent(s)
           \/ Tick
BY KernelAssumption DEF Next, Kernel, StepsOn

LEMMA NextTypes == TypeOK /\ [Next]_vars => TypeOK'
<1> SUFFICES ASSUME TypeOK, [Next]_vars PROVE TypeOK'
  OBVIOUS
<1>1. CASE Next
  <2>1. Timed \subseteq Sem
    BY KernelAssumption
  <2>2. ASSUME NEW s \in Timed, NEW n \in Delays, SemTimedWait(s, n) PROVE TypeOK'
    BY <2>1, <2>2, SemTimedWaitTypes
  <2>3. ASSUME NEW s \in Timed, SemTimedWaitReturns(s) PROVE TypeOK'
    BY <2>1, <2>3, SemTimedWaitReturnsTypes
  <2>4. QED
    BY <1>1, <2>2, <2>3, NextCases, TaskCreateTypes, ThreadExitTypes, SemWaitTypes, SemBlocksTypes,
       SemTryWaitTypes, SemPostTypes, SleepTypes, HandleClockEventTypes, StepsOnTypes,
       ScheduleTypes, DispatchTypes, TimerISRTypes, ClockISRTypes, IRQMarkEventTypes,
       TickTypes
<1>2. CASE UNCHANGED vars
  BY <1>2 DEF TypeOK, vars, queues, cpu, tasks, sems, times, marks, oneshot, irqs, posted
<1>3. QED
  BY <1>1, <1>2

\* The variables of the kernel keep their types, for any threads, semaphores,
\* delays and ISRs, those that post during a system call included.
THEOREM TypeCorrect == Spec => []TypeOK
<1>1. Init => TypeOK
  BY InitTypes
<1>2. TypeOK /\ [Next]_vars => TypeOK'
  BY NextTypes
<1>3. QED
  BY <1>1, <1>2, PTL DEF Spec


----------------------------------------------------------------------------
(* Nobody waits for a free semaphore.                                      *)

NoWaiter == NobodyWaitsForFreeSem /\ TakenUntilBlocked

\* A step that leaves the semaphores alone, or only the waiters' names.
LEMMA SemsStay ==
    ASSUME NobodyWaitsForFreeSem, UNCHANGED <<sem_value, sem_list>>, cut \subseteq cut'
    PROVE  NobodyWaitsForFreeSem'
BY DEF NobodyWaitsForFreeSem

LEMMA CatchLeavesNoWaiter ==
    ASSUME TypeOK, NobodyWaitsForFreeSem, NEW s \in Sem,
           Catch(s) \/ ((s \in cut \/ Taken(s)) /\ Queue(s)), cut' = cut
    PROVE  NobodyWaitsForFreeSem'
<1> SUFFICES ASSUME NEW r \in Sem, r \notin cut, sem_value'[r] = 1 PROVE sem_list'[r] = <<>>
  BY DEF NobodyWaitsForFreeSem
<1>1. CASE Catch(s)
  BY <1>1 DEF Catch, TypeOK, NobodyWaitsForFreeSem
<1>2. CASE (s \in cut \/ Taken(s)) /\ Queue(s)
  BY <1>2 DEF Queue, Taken, TypeOK, NobodyWaitsForFreeSem
<1>3. QED
  BY <1>1, <1>2

LEMMA PostLeavesNoWaiter ==
    ASSUME TypeOK, NobodyWaitsForFreeSem, NEW s \in Sem,
           \/ sem_list[s] # <<>> /\ HandOver(s)
           \/ sem_list[s] = <<>> /\ Free(s),
           cut \subseteq cut'
    PROVE  NobodyWaitsForFreeSem'
<1> SUFFICES ASSUME NEW r \in Sem, r \notin cut, sem_value'[r] = 1
             PROVE  sem_list'[r] = <<>>
  BY DEF NobodyWaitsForFreeSem
<1>1. CASE sem_list[s] # <<>> /\ HandOver(s)
  <2>1. sem_list' = [sem_list EXCEPT ![s] = Tail(sem_list[s])] /\ sem_value' = sem_value
    BY <1>1 DEF HandOver
  <2>2. r # s
    BY <1>1, <2>1 DEF NobodyWaitsForFreeSem
  <2>3. QED
    BY <2>1, <2>2 DEF TypeOK, NobodyWaitsForFreeSem
<1>2. CASE sem_list[s] = <<>> /\ Free(s)
  BY <1>2 DEF Free, TypeOK, NobodyWaitsForFreeSem
<1>3. QED
  BY <1>1, <1>2

LEMMA ExtractLeavesNoWaiter ==
    ASSUME TypeOK, NobodyWaitsForFreeSem, NEW t \in Tid,
           SemExtracThreadFromList(t), sem_value' = sem_value, cut' = cut
    PROVE  NobodyWaitsForFreeSem'
<1> DEFINE w == wait_sem[t]
           l == Without(sem_list[w], t)
<1> SUFFICES ASSUME NEW r \in Sem, r \notin cut, sem_value'[r] = 1
             PROVE  sem_list'[r] = <<>>
  BY DEF NobodyWaitsForFreeSem
<1>1. sem_list' = [sem_list EXCEPT ![w] = l] /\ sem_list[r] = <<>>
  BY DEF SemExtracThreadFromList, NobodyWaitsForFreeSem
<1>2. CASE r = w
  <2>1. Without(<<>>, t) = <<>>
    BY DEF Without, In
  <2>2. QED
    BY <1>1, <1>2, <2>1 DEF TypeOK
<1>3. CASE r # w
  <2> HIDE DEF w, l
  <2>1. QED
    BY <1>1, <1>3 DEF TypeOK
<1>4. QED
  BY <1>2, <1>3

LEMMA ClockBottomLeavesNoWaiter ==
    ASSUME TypeOK, NobodyWaitsForFreeSem, NEW late, NEW offers, NEW marked,
           ClockBottomISR(late, offers, marked), cut' = cut
    PROVE  NobodyWaitsForFreeSem'
<1>1. sem_value' = sem_value
  BY DEF ClockBottomISR
<1>2. CASE Due(late)
  <2>1. SemExtracThreadFromList(Head(time_list)) /\ Head(time_list) \in Tid
    BY <1>2, ListTypes, TidFacts DEF ClockBottomISR, Due
  <2>2. QED
    BY <1>1, <2>1, ExtractLeavesNoWaiter
<1>3. CASE ~Due(late)
  <2>1. sem_list' = sem_list
    BY <1>3 DEF ClockBottomISR
  <2>2. QED
    BY <1>1, <2>1, SemsStay
<1>4. QED
  BY <1>2, <1>3

LEMMA CutStays ==
    ASSUME [Next]_vars, \A s \in Events : ~IRQMarkEvent(s)
    PROVE  cut' = cut
<1>1. CASE \/ \E p \in Prio : TaskCreate(p)
           \/ ThreadExit
           \/ \E s \in Sem : SemWait(s) \/ SemBlocks(s) \/ SemTryWait(s) \/ SemPost(s)
           \/ \E n \in Delays : Sleep(n)
           \/ \E s \in Timed, n \in Delays : SemTimedWait(s, n)
           \/ \E s \in Timed : SemTimedWaitReturns(s)
  <2>1. Body \/ \E s \in Sem : FindsTaken(s)
    BY <1>1 DEF TaskCreate, ThreadExit, SemWait, SemBlocks, SemTryWait, SemPost, Sleep,
                SemTimedWait, SemTimedWaitReturns, Call
  <2>2. QED
    BY <2>1 DEF Body, FindsTaken, posted
<1>2. CASE HandleClockEvent \/ StepsOn \/ Schedule \/ Dispatch \/ TimerISR \/ ClockISR \/ Tick
  BY <1>2, StepsOnIs DEF HandleClockEvent, Schedule, Dispatch, TimerISR, ClockISR, Tick, posted
<1>3. CASE UNCHANGED vars
  BY <1>3 DEF vars, posted
<1>4. QED
  BY <1>1, <1>2, <1>3, NextCases

LEMMA NextLeavesNoWaiter ==
    TypeOK /\ NoWaiter /\ [Next]_vars => NobodyWaitsForFreeSem'
<1> SUFFICES ASSUME TypeOK, NobodyWaitsForFreeSem, TakenUntilBlocked, [Next]_vars
             PROVE  NobodyWaitsForFreeSem'
  BY DEF NoWaiter
<1>1. ASSUME NEW s \in Events, IRQMarkEvent(s) PROVE NobodyWaitsForFreeSem'
  <2>1. \/ sem_list[s] # <<>> /\ HandOver(s)
        \/ sem_list[s] = <<>> /\ Free(s)
        \/ UNCHANGED <<sem_value, sem_list>>
    BY <1>1 DEF IRQMarkEvent
  <2>2. s \in Sem /\ cut \subseteq cut'
    BY <1>1, KernelAssumption DEF IRQMarkEvent
  <2>3. QED
    BY <2>1, <2>2, PostLeavesNoWaiter, SemsStay
<1>2. CASE \A s \in Events : ~IRQMarkEvent(s)
  <2>1. cut' = cut /\ cut \subseteq cut'
    BY CutStays, <1>2
  <2>2. CASE UNCHANGED <<sem_value, sem_list>>
    BY <2>1, <2>2, SemsStay
  <2>3. ASSUME NEW s \in Sem, SemWait(s) \/ SemTryWait(s) PROVE NobodyWaitsForFreeSem'
    <3>1. Catch(s) \/ UNCHANGED <<sem_value, sem_list>>
      BY <2>3 DEF SemWait, SemTryWait, FindsTaken, sems
    <3>2. QED
      BY <2>1, <2>2, <3>1, CatchLeavesNoWaiter
  <2>4. ASSUME NEW s \in Sem, SemBlocks(s) PROVE NobodyWaitsForFreeSem'
    <3>1. Queue(s) /\ resume[current] = <<"queue", s>> /\ current \in Tid
      BY <2>4, TidFacts DEF SemBlocks, TypeOK
    <3>2. s \in cut \/ Taken(s)
      BY <3>1 DEF TakenUntilBlocked
    <3>3. QED
      BY <2>1, <3>1, <3>2, CatchLeavesNoWaiter
  <2>5. ASSUME NEW s \in Sem, SemPost(s) PROVE NobodyWaitsForFreeSem'
    <3>1. \/ sem_list[s] # <<>> /\ HandOver(s)
          \/ sem_list[s] = <<>> /\ Free(s)
      BY <2>5 DEF SemPost
    <3>2. QED
      BY <2>1, <3>1, PostLeavesNoWaiter
  <2>6. ASSUME NEW s \in Timed, NEW n \in Delays, SemTimedWait(s, n)
        PROVE  NobodyWaitsForFreeSem'
    <3>1. Catch(s) \/ (Taken(s) /\ Queue(s)) \/ UNCHANGED <<sem_value, sem_list>>
      BY <2>6 DEF SemTimedWait, sems
    <3>2. s \in Sem
      BY KernelAssumption
    <3>3. QED
      BY <2>1, <2>2, <3>1, <3>2, CatchLeavesNoWaiter
  <2>7. CASE HandleClockEvent \/ TimerISR
    <3>1. CASE \E late, offers, marked : ClockBottomISR(late, offers, marked)
      BY <2>1, <3>1, ClockBottomLeavesNoWaiter
    <3>2. QED
      BY <2>2, <2>7, <3>1 DEF HandleClockEvent, TimerISR, sems
  <2>8. CASE \/ \E p \in Prio : TaskCreate(p)
             \/ ThreadExit
             \/ \E n \in Delays : Sleep(n)
             \/ \E s \in Timed : SemTimedWaitReturns(s)
    BY <2>2, <2>8 DEF TaskCreate, ThreadExit, Sleep, SemTimedWaitReturns, sems
  <2>9. CASE StepsOn \/ Schedule \/ Dispatch \/ ClockISR \/ Tick \/ UNCHANGED vars
    BY <2>2, <2>9, StepsOnIs DEF Schedule, Dispatch, ClockISR, Tick, vars, sems
  <2>10. QED
    BY <1>2, <2>3, <2>4, <2>5, <2>6, <2>7, <2>8, <2>9, NextCases
<1>3. QED
  BY <1>1, <1>2

\* Of a step that gives nobody a wait to go on with: what a wait has found
\* holds until it blocks, or an event comes.
LEMMA TakenStays ==
    ASSUME TypeOK, TakenUntilBlocked, cut \subseteq cut',
           \A t \in Tid, s \in Sem :
              resume'[t] = <<"queue", s>> => resume[t] = <<"queue", s>>,
           \/ pc # "queue"
           \/ \A s \in Sem : resume'[current] # <<"queue", s>>
           \/ UNCHANGED <<pc, current, sem_value, holds>>
    PROVE  TakenUntilBlocked'
BY DEF TakenUntilBlocked, Taken, MayWait

LEMMA CallKeepsTaken ==
    ASSUME TypeOK, TakenUntilBlocked, cut' = cut, NEW k,
           \A s : k # <<"queue", s>>,
           \/ resume' = resume /\ resume[current] = k
           \/ resume' = [resume EXCEPT ![current] = k]
    PROVE  TakenUntilBlocked'
<1>1. resume \in [Tid -> Continuation] /\ current \in Tid /\ resume'[current] = k
  BY TidFacts DEF TypeOK
<1>2. \A t \in Tid, s \in Sem : resume'[t] = <<"queue", s>> => resume[t] = <<"queue", s>>
  BY <1>1
<1>3. QED
  BY <1>1, <1>2, TakenStays

LEMMA NextKeepsTaken ==
    TypeOK /\ TakenUntilBlocked /\ [Next]_vars => TakenUntilBlocked'
<1> SUFFICES ASSUME TypeOK, TakenUntilBlocked, [Next]_vars PROVE TakenUntilBlocked'
  OBVIOUS
<1>1. ASSUME NEW s \in Events, IRQMarkEvent(s) PROVE TakenUntilBlocked'
  <2>1. /\ resume' = resume /\ current \in Tid
        /\ cut' = cut \cup {r \in Sem : pc = "queue" /\ resume[current] = <<"queue", r>>}
    BY <1>1, TidFacts DEF IRQMarkEvent, TypeOK
  <2>2. QED
    BY <2>1 DEF TakenUntilBlocked
<1>2. CASE \A s \in Events : ~IRQMarkEvent(s)
  <2>1. cut' = cut /\ cut \subseteq cut'
    BY CutStays, <1>2
  <2>2. CASE \/ \E p \in Prio : TaskCreate(p)
             \/ ThreadExit
             \/ \E s \in Sem : SemPost(s) \/ SemTryWait(s)
    <3>1. resume' = resume /\ resume[current] = <<"user">>
      BY <2>2 DEF TaskCreate, ThreadExit, SemPost, SemTryWait, Call
    <3>2. \A s : <<"user">> # <<"queue", s>>
      OBVIOUS
    <3>3. QED
      BY <2>1, <3>1, <3>2, CallKeepsTaken
  <2>3. ASSUME NEW s \in Sem, SemBlocks(s) PROVE TakenUntilBlocked'
    <3>1. resume' = [resume EXCEPT ![current] = <<"wait", s>>]
      BY <2>3 DEF SemBlocks, Blocks
    <3>2. \A r : <<"wait", s>> # <<"queue", r>>
      OBVIOUS
    <3>3. QED
      BY <2>1, <3>1, <3>2, CallKeepsTaken
  <2>4. ASSUME NEW s \in Sem, SemWait(s) PROVE TakenUntilBlocked'
    <3>1. CASE FindsTaken(s)
      <4>1. /\ pc = "entry" /\ pc' = "queue" /\ current' = current /\ current \in Tid
            /\ sem_value' = sem_value /\ sem_value[s] = 0
            /\ holds' = holds /\ MayWait(s)
            /\ resume' = [resume EXCEPT ![current] = <<"queue", s>>]
        BY <2>4, <3>1, TidFacts DEF SemWait, FindsTaken, Taken, cpu, sems, TypeOK
      <4>2. \A t \in Tid, r \in Sem \ cut : resume[t] # <<"queue", r>>
        BY <4>1 DEF TakenUntilBlocked
      <4>3. \A t \in Tid, r \in Sem \ cut :
               resume'[t] = <<"queue", r>> => t = current /\ r = s
        BY <4>1, <4>2 DEF TypeOK
      <4>4. QED
        BY <2>1, <4>1, <4>3 DEF TakenUntilBlocked, Taken, MayWait
    <3>2. CASE Call /\ UNCHANGED resume
      <4>1. \A r : <<"user">> # <<"queue", r>>
        OBVIOUS
      <4>2. QED
        BY <2>1, <3>2, <4>1, CallKeepsTaken DEF Call
    <3>3. QED
      BY <2>4, <3>1, <3>2 DEF SemWait
  <2>5. ASSUME NEW n \in Delays, Sleep(n) PROVE TakenUntilBlocked'
    <3>1. /\ resume[current] = <<"user">>
          /\ resume' = resume \/ resume' = [resume EXCEPT ![current] = <<"user">>]
      BY <2>5 DEF Sleep, Call, Blocks
    <3>2. \A r : <<"user">> # <<"queue", r>>
      OBVIOUS
    <3>3. QED
      BY <2>1, <3>1, <3>2, CallKeepsTaken
  <2>6. ASSUME NEW s \in Timed, NEW n \in Delays, SemTimedWait(s, n) PROVE TakenUntilBlocked'
    <3>1. /\ resume[current] = <<"user">>
          /\ resume' = resume \/ resume' = [resume EXCEPT ![current] = <<"timed", s>>]
      BY <2>6 DEF SemTimedWait, Call, Blocks
    <3>2. \A r : <<"user">> # <<"queue", r>> /\ <<"timed", s>> # <<"queue", r>>
      OBVIOUS
    <3>3. QED
      BY <2>1, <3>1, <3>2, CallKeepsTaken
  <2>7. ASSUME NEW s \in Timed, SemTimedWaitReturns(s) PROVE TakenUntilBlocked'
    <3>1. resume' = [resume EXCEPT ![current] = <<"user">>]
      BY <2>7 DEF SemTimedWaitReturns
    <3>2. \A r : <<"user">> # <<"queue", r>>
      OBVIOUS
    <3>3. QED
      BY <2>1, <3>1, <3>2, CallKeepsTaken
  <2>8. CASE HandleClockEvent \/ StepsOn \/ Schedule \/ Tick
    <3>1. CASE StepsOn
      BY <2>1, <3>1, StepsOnIs, TakenStays
    <3>2. CASE HandleClockEvent \/ Schedule \/ Tick
      <4>1. pc # "queue" /\ resume' = resume
        BY <3>2 DEF HandleClockEvent, Schedule, Tick
      <4>2. QED
        BY <2>1, <4>1, TakenStays
    <3>3. QED
      BY <2>8, <3>1, <3>2
  <2>9. CASE Dispatch
    <3>1. /\ pc # "queue" /\ current \in Tid
          /\ resume' = resume \/ resume' = [resume EXCEPT ![current] = <<"user">>]
      BY <2>9, TidFacts DEF Dispatch, TypeOK
    <3>2. \A t \in Tid, s \in Sem : resume'[t] = <<"queue", s>> => resume[t] = <<"queue", s>>
      <4>1. \A s : <<"user">> # <<"queue", s>>
        OBVIOUS
      <4>2. QED
        BY <3>1, <4>1 DEF TypeOK
    <3>3. QED
      BY <2>1, <3>1, <3>2, TakenStays
  <2>10. CASE TimerISR \/ ClockISR
    <3>1. /\ resume' = resume /\ current' = current
          /\ pc # "queue" \/ pc' = pc
          /\ sem_value' = sem_value /\ holds' = holds
      BY <2>10 DEF TimerISR, ClockISR, ClockBottomISR, Epilogue, AtUser, cpu, sems
    <3>2. QED
      BY <2>1, <3>1, TakenStays
  <2>11. CASE UNCHANGED vars
    <3>1. UNCHANGED <<resume, current, pc, sem_value, holds>>
      BY <2>11 DEF vars, cpu, sems
    <3>2. QED
      BY <2>1, <3>1, TakenStays
  <2>12. QED
    BY <1>2, <2>2, <2>3, <2>4, <2>5, <2>6, <2>7, <2>8, <2>9, <2>10, <2>11, NextCases
<1>3. QED
  BY <1>1, <1>2

\* Nobody sleeps through a post that was meant for it: whatever the threads,
\* the timeouts and the ISRs do, also between the test of a wait and its
\* insertion, a semaphore that is free has no waiters, unless an event came
\* there (OS_SemWait, OS_SemPost and OS_IRQSemPost, and the timeout that takes
\* a waiter out of the line).
THEOREM NoLostPost == Spec => []NobodyWaitsForFreeSem
<1>1. Init => NoWaiter
  BY DEF Init, NoWaiter, NobodyWaitsForFreeSem, TakenUntilBlocked
<1>2. TypeOK /\ NoWaiter /\ [Next]_vars => NoWaiter'
  BY NextLeavesNoWaiter, NextKeepsTaken DEF NoWaiter
<1>3. NoWaiter => NobodyWaitsForFreeSem
  BY DEF NoWaiter
<1>4. QED
  BY <1>1, <1>2, <1>3, TypeCorrect, PTL DEF Spec

----------------------------------------------------------------------------
(* The one-shot timer runs while it is believed to.                        *)

LEMMA ProgramClockRuns ==
    ASSUME NEW v \in Int, 0 <= v, ProgramClock(v)
    PROVE  OneShotIsRunning'
BY DEF ProgramClock, OneShotIsRunning

LEMMA TimerStays ==
    ASSUME OneShotIsRunning, UNCHANGED <<oneshot, clock_irq>>
    PROVE  OneShotIsRunning'
BY DEF OneShotIsRunning, oneshot

LEMMA ProgramRuns ==
    ASSUME TypeOK, OneShotIsRunning, NEW d \in Int, Program(d), UNCHANGED clock_irq
    PROVE  OneShotIsRunning'
<1> DEFINE first == IF time_list # <<>> /\ left[Head(time_list)] <= d
                    THEN left[Head(time_list)] ELSE d
           wait == first + Late - Penalty
<1>1. first \in Int
  BY ListTypes, TidFacts DEF TypeOK
<1> HIDE DEF first
<1>2. wait \in Int
  BY <1>1, KernelAssumption DEF Late
<1>3. IF 0 < wait /\ wait < Overflow THEN ProgramClock(wait) ELSE UNCHANGED oneshot
  BY DEF Program, first
<1> HIDE DEF wait
<1>4. QED
  BY <1>2, <1>3, ProgramClockRuns, TimerStays

LEMMA ClockBottomRuns ==
    ASSUME TypeOK, OneShotIsRunning, NEW late \in {0, Overflow}, NEW offers, NEW marked,
           ClockBottomISR(late, offers, marked), UNCHANGED clock_irq
    PROVE  OneShotIsRunning'
<1> DEFINE due == Due(late)
           rest == IF due THEN Tail(time_list) ELSE time_list
           first == left[Head(rest)] + late
           wait == IF due THEN first - Penalty ELSE first
<1>1. IF rest # <<>> /\ 0 <= wait /\ wait < Overflow
      THEN ProgramClock(wait) ELSE UNCHANGED oneshot
  BY DEF ClockBottomISR
<1>2. rest \in Seq(Thread)
  BY ListTypes DEF Due, TypeOK
<1>3. rest # <<>> => Head(rest) \in Tid
  BY <1>2, TailHolds, TidFacts
<1>4. rest # <<>> => first \in Int
  <2>1. left \in [Tid -> Int] /\ late \in Int
    BY KernelAssumption DEF TypeOK
  <2>2. QED
    BY <1>3, <2>1
<1> HIDE DEF first
<1>5. rest # <<>> => wait \in Int
  BY <1>4, KernelAssumption
<1> HIDE DEF rest, wait
<1>6. QED
  BY <1>1, <1>5, ProgramClockRuns, TimerStays

LEMMA NextRuns == TypeOK /\ OneShotIsRunning /\ [Next]_vars => OneShotIsRunning'
<1> SUFFICES ASSUME TypeOK, OneShotIsRunning, [Next]_vars PROVE OneShotIsRunning'
  OBVIOUS
<1>1. ASSUME NEW n \in Delays, Sleep(n) \/ \E s \in Timed : SemTimedWait(s, n)
      PROVE  OneShotIsRunning'
  <2> DEFINE d == n - Late
  <2>1. d \in Int /\ (Program(d) \/ UNCHANGED oneshot) /\ UNCHANGED clock_irq
    BY <1>1, DelayIsTimeout DEF Sleep, SemTimedWait, Call, Body, irqs
  <2> HIDE DEF d
  <2>2. QED
    BY <2>1, ProgramRuns, TimerStays
<1>2. CASE HandleClockEvent \/ TimerISR
  <2>1. UNCHANGED clock_irq
    BY <1>2 DEF HandleClockEvent, TimerISR, irqs
  <2>2. CASE \E late \in {0, Overflow} : \E offers, marked : ClockBottomISR(late, offers, marked)
    BY <2>1, <2>2, ClockBottomRuns
  <2>3. CASE UNCHANGED oneshot
    BY <2>1, <2>3, TimerStays
  <2>4. QED
    BY <1>2, <2>2, <2>3 DEF HandleClockEvent, TimerISR, Late
<1>3. CASE ClockISR
  BY <1>3 DEF ClockISR, OneShotNotProgramed, OneShotIsRunning
<1>4. CASE Tick
  <2>1. /\ shot' = IF shot > 0 THEN shot - 1 ELSE 0
        /\ shot = 1 \/ clock_irq => clock_irq'
        /\ oneshot_programed' = oneshot_programed
    BY <1>4 DEF Tick
  <2>2. shot \in Int
    BY DEF TypeOK
  <2>3. QED
    BY <2>1, <2>2 DEF OneShotIsRunning
<1>5. CASE UNCHANGED <<oneshot, clock_irq>>
  BY <1>5, TimerStays
<1>6. CASE \/ \E p \in Prio : TaskCreate(p)
           \/ ThreadExit
           \/ \E s \in Sem : SemWait(s) \/ SemBlocks(s) \/ SemTryWait(s) \/ SemPost(s)
           \/ \E s \in Timed : SemTimedWaitReturns(s)
  <2>1. (Body \/ \E s \in Sem : FindsTaken(s)) /\ UNCHANGED oneshot
    BY <1>6 DEF TaskCreate, ThreadExit, SemWait, SemBlocks, SemTryWait, SemPost,
                SemTimedWaitReturns, Call, FindsTaken
  <2>2. QED
    BY <1>5, <2>1 DEF Body, FindsTaken, irqs
<1>7. CASE StepsOn \/ Schedule \/ Dispatch \/ \E s \in Events : IRQMarkEvent(s)
  BY <1>5, <1>7, StepsOnIs DEF Schedule, Dispatch, IRQMarkEvent, irqs
<1>8. CASE UNCHANGED vars
  BY <1>5, <1>8 DEF vars, irqs
<1>9. QED
  BY <1>1, <1>2, <1>3, <1>4, <1>6, <1>7, <1>8, NextCases

\* The timer is never believed to run after its interrupt was served: an
\* OS_TimerISR that finds oneshot_programed set may leave the time queue to
\* OS_ClockISR (time.c:446-456).
THEOREM TimerNotForgotten == Spec => []OneShotIsRunning
<1>1. Init => OneShotIsRunning
  BY DEF Init, OneShotIsRunning
<1>2. TypeOK /\ OneShotIsRunning /\ [Next]_vars => OneShotIsRunning'
  BY NextRuns
<1>3. QED
  BY <1>1, <1>2, TypeCorrect, PTL DEF Spec


----------------------------------------------------------------------------
(* The places of the threads: the effects of the operations on them.       *)

LEMMA PlaceParts ==
    ASSUME PlaceInv
    PROVE  /\ TypeOK
           /\ QueuesOK(Thread, Tid, sched_list, sched_queue_i, priority)
           /\ \A t \in Thread : Queued(sched_list, t) => ~Waits(t) /\ ~In(tcb_list, t)
           /\ \A t \in Thread : Waits(t) => ~In(tcb_list, t)
           /\ Settled => /\ ~Queued(sched_list, current) /\ ~Waits(current)
                         /\ ~In(tcb_list, current)
           /\ Distinct(tcb_list) /\ Distinct(time_list)
           /\ \A s \in Sem : Distinct(sem_list[s])
           /\ current \in Thread
BY DEF PlaceInv, ThreadsPlaced, OnePlace, TypeOK

\* Who waits, and where: a thread is in line for one semaphore at most, the
\* one that wait_sem names.
LEMMA WaitersAre ==
    ASSUME PlaceInv
    PROVE  /\ \A s \in Sem : \A t : In(sem_list[s], t) =>
                 /\ t \in Thread /\ Waits(t) /\ wait_sem[t] = s
                 /\ resume[t] # <<"user">> /\ t \notin expired
                 /\ \/ resume[t] = <<"wait", s>> /\ ~In(time_list, t)
                    \/ resume[t] = <<"timed", s>> /\ s \in Timed
           /\ \A t : In(time_list, t) =>
                 /\ t \in Thread /\ Waits(t) /\ t \notin expired
                 /\ \/ resume[t] = <<"user">>
                    \/ \E s \in Timed : resume[t] = <<"timed", s>> /\ In(sem_list[s], t)
           /\ \A t \in expired : ~Waits(t) /\ \E s \in Timed : resume[t] = <<"timed", s>>
<1>1. /\ time_list \in Seq(Thread) /\ expired \subseteq Thread
      /\ \A s \in Sem : sem_list[s] \in Seq(Thread)
  BY DEF PlaceInv, ThreadsPlaced, TypeOK
<1>2. /\ \A t : In(time_list, t) => t \in Thread /\ Waits(t)
      /\ \A s \in Sem : \A t : In(sem_list[s], t) => t \in Thread /\ Waits(t)
  BY <1>1, EmptyHoldsNothing DEF Waits, InSem
<1>3. /\ \A s \in Sem, t \in Thread : In(sem_list[s], t) =>
            /\ wait_sem[t] = s
            /\ \/ resume[t] = <<"wait", s>> /\ ~In(time_list, t)
               \/ resume[t] = <<"timed", s>> /\ s \in Timed
      /\ \A t \in Thread : In(time_list, t) =>
            \/ resume[t] = <<"user">>
            \/ \E s \in Timed : resume[t] = <<"timed", s>> /\ In(sem_list[s], t)
      /\ \A t \in expired : ~Waits(t) /\ \E s \in Timed : resume[t] = <<"timed", s>>
  BY DEF PlaceInv, ThreadsPlaced, GoesOnWithItsWait
<1>4. \A s : <<"wait", s>> # <<"user">> /\ <<"timed", s>> # <<"user">>
  OBVIOUS
<1>5. QED
  BY <1>2, <1>3, <1>4

\* A call that is in progress, and its thread.
LEMMA BodyPlace == ASSUME PlaceInv, Body PROVE pc \in {"entry", "queue"}
<1>1. CASE IsCut
  <2>1. resume[current] \in Continuation /\ resume[current][1] = "queue" /\ pc = "user"
        /\ current \in Tid
    BY <1>1, TidFacts DEF IsCut, PlaceInv, ThreadsPlaced, TypeOK
  <2>2. PICK s \in Sem : resume[current] = <<"queue", s>>
    BY <2>1 DEF Continuation
  <2>3. QED
    BY <2>1, <2>2 DEF PlaceInv, TakenUntilBlocked
<1>2. QED
  BY <1>1 DEF Body

LEMMA AtBody ==
    ASSUME PlaceInv, Body
    PROVE  /\ Settled /\ ~Settled' /\ ~need_reesched
           /\ ~Queued(sched_list, current) /\ ~Waits(current) /\ ~In(tcb_list, current)
           /\ current \in Thread /\ current' = current
           /\ \A s \in Sem : ~In(sem_list[s], current)
           /\ ~In(time_list, current)
BY BodyPlace DEF Body, PlaceInv, ThreadsPlaced, CallSchedules, OnePlace, Settled, TypeOK,
                 Waits, InSem, cpu

LEMMA ReadyEffect ==
    ASSUME PlaceInv, NEW T, AtMostOne(T), NEW offers \in BOOLEAN, Ready(T, offers)
    PROVE  /\ QueuesOK(Thread, Tid, sched_list', sched_queue_i', priority)
           /\ \A x : Queued(sched_list', x) <=>
                 Queued(sched_list, x) \/ x \in T \/ (offers /\ x = current)
<1> DEFINE t == CHOOSE x \in T : TRUE
           q == IF T = {} THEN sched_list ELSE AddTail(sched_list, t, priority[t])
           i == IF T = {} THEN sched_queue_i ELSE Lower(sched_queue_i, priority[t])
<1>1. /\ QueuesOK(Thread, Tid, sched_list, sched_queue_i, priority) /\ current \in Thread
  BY PlaceParts
<1>2. T # {} => t \in Thread /\ T = {t}
  BY DEF AtMostOne
<1>3. /\ sched_list' = IF offers THEN AddHead(q, current, priority[current]) ELSE q
      /\ sched_queue_i' = IF offers THEN Lower(i, priority[current]) ELSE i
  BY DEF Ready
<1> HIDE DEF t
<1>4. /\ QueuesOK(Thread, Tid, q, i, priority)
      /\ \A x : Queued(q, x) <=> Queued(sched_list, x) \/ x \in T
  <2>1. CASE T = {}
    BY <1>1, <2>1
  <2>2. CASE T # {}
    <3>1. t \in Thread /\ T = {t}
      BY <1>2, <2>2
    <3>2. q = AddTail(sched_list, t, priority[t]) /\ i = Lower(sched_queue_i, priority[t])
      BY <2>2
    <3> HIDE DEF q, i
    <3>3. QED
      BY <1>1, <3>1, <3>2, AddTailKeepsQueues
  <2>3. QED
    BY <2>1, <2>2
<1> HIDE DEF q, i
<1>5. /\ QueuesOK(Thread, Tid, AddHead(q, current, priority[current]),
                  Lower(i, priority[current]), priority)
      /\ \A x : Queued(AddHead(q, current, priority[current]), x) <=>
            Queued(q, x) \/ x = current
  BY <1>1, <1>4, AddHeadKeepsQueues
<1>6. QED
  BY <1>3, <1>4, <1>5

\* A step that takes the thread in T out of its wait queues and readies it,
\* and perhaps offers the processor: its effect on the places of the threads.
WakeEffect(T, offers) ==
    /\ QueuesOK(Thread, Tid, sched_list', sched_queue_i', priority')
    /\ \A x : Queued(sched_list', x) <=>
          Queued(sched_list, x) \/ x \in T \/ (offers /\ x = current)
    /\ \A r \in Sem : /\ Distinct(sem_list'[r])
                      /\ \A x : In(sem_list'[r], x) <=> In(sem_list[r], x) /\ x \notin T
    /\ Distinct(time_list')
    /\ \A x : In(time_list', x) <=> In(time_list, x) /\ x \notin T
    /\ tcb_list' = tcb_list /\ current' = current
    /\ \A x \in Thread : x \notin T => wait_sem'[x] = wait_sem[x]

\* Such a step keeps every thread in one place if the thread it wakes waited,
\* the thread that offers the processor had it, and the thread whose
\* continuation it changes is the one that has the processor.
LEMMA WakeKeeps ==
    ASSUME PlaceInv, TypeOK',
           NEW T, \A t \in T : t \in Thread /\ Waits(t),
           NEW offers \in BOOLEAN, WakeEffect(T, offers),
           offers => Settled,
           Settled' => Settled /\ ~offers /\ ~need_reesched',
           \A x \in Thread : resume'[x] = resume[x] \/ (Settled /\ x = current),
           \A x \in expired' :
              \/ x \in expired /\ resume'[x] = resume[x]
              \/ x \in T /\ \E s \in Timed : resume'[x] = <<"timed", s>>
    PROVE  ThreadsPlaced'
<1>1. /\ \A x \in Thread : Waits(x)' <=> Waits(x) /\ x \notin T
      /\ expired' \subseteq Thread
  BY DEF WakeEffect, Waits, InSem, TypeOK
<1>2. QueuesOK(Thread, Tid, sched_list, sched_queue_i, priority)'
  BY DEF WakeEffect
<1>3. \A x \in Thread : Waits(x)' => resume'[x] = resume[x] /\ wait_sem'[x] = wait_sem[x]
  BY <1>1, PlaceParts DEF WakeEffect
<1>4. OnePlace'
  <2>1. ASSUME NEW x \in Thread, Queued(sched_list', x)
        PROVE  ~Waits(x)' /\ ~In(tcb_list', x)
    BY <1>1, <2>1, PlaceParts DEF WakeEffect
  <2>2. ASSUME NEW x \in Thread, Waits(x)' PROVE ~In(tcb_list', x)
    BY <1>1, <2>2, PlaceParts DEF WakeEffect
  <2>3. ASSUME Settled'
        PROVE  (~Queued(sched_list, current) /\ ~Waits(current) /\ ~In(tcb_list, current))'
    <3>1. /\ current' = current /\ current \in Thread /\ current \notin T /\ ~offers
          /\ ~Queued(sched_list, current) /\ ~Waits(current) /\ ~In(tcb_list, current)
      BY <2>3, PlaceParts DEF WakeEffect
    <3>2. /\ ~Queued(sched_list', current) /\ ~In(tcb_list', current)
          /\ \A r \in Sem : ~In(sem_list'[r], current)
          /\ ~In(time_list', current)
      BY <3>1 DEF WakeEffect, Waits, InSem
    <3>3. QED
      BY <3>1, <3>2 DEF Waits, InSem
  <2>4. /\ Distinct(tcb_list') /\ Distinct(time_list')
        /\ \A s \in Sem : Distinct(sem_list'[s])
    BY PlaceParts DEF WakeEffect
  <2>5. QED
    BY <2>1, <2>2, <2>3, <2>4 DEF OnePlace
<1>5. GoesOnWithItsWait'
  <2>1. ASSUME NEW s \in Sem, NEW x \in Thread, In(sem_list'[s], x)
        PROVE  /\ wait_sem'[x] = s
               /\ \/ resume'[x] = <<"wait", s>> /\ ~In(time_list', x)
                  \/ resume'[x] = <<"timed", s>> /\ s \in Timed
    <3>1. Waits(x)' /\ In(sem_list[s], x)
      BY <2>1 DEF WakeEffect, Waits, InSem
    <3>2. QED
      BY <1>3, <3>1, WaitersAre DEF WakeEffect
  <2>2. ASSUME NEW x \in Thread, In(time_list', x)
        PROVE  \/ resume'[x] = <<"user">>
               \/ \E s \in Timed : resume'[x] = <<"timed", s>> /\ In(sem_list'[s], x)
    <3>1. Waits(x)' /\ In(time_list, x) /\ x \notin T
      BY <2>2 DEF WakeEffect, Waits
    <3>2. QED
      BY <1>3, <3>1, WaitersAre, KernelAssumption DEF WakeEffect
  <2>3. ASSUME NEW x \in expired'
        PROVE  ~Waits(x)' /\ \E s \in Timed : resume'[x] = <<"timed", s>>
    <3>1. x \in Thread
      BY <1>1, <2>3
    <3>2. CASE x \in expired /\ resume'[x] = resume[x]
      BY <1>1, <3>1, <3>2, WaitersAre
    <3>3. CASE x \in T /\ \E s \in Timed : resume'[x] = <<"timed", s>>
      BY <1>1, <3>1, <3>3
    <3>4. QED
      BY <3>2, <3>3
  <2>4. QED
    BY <2>1, <2>2, <2>3 DEF GoesOnWithItsWait
<1>6. CallSchedules'
  BY DEF CallSchedules
<1>7. QED
  BY <1>2, <1>4, <1>5, <1>6 DEF PlaceInv, ThreadsPlaced


----------------------------------------------------------------------------
(* The steps that wake or return.                                          *)

\* The lists after a thread has left one of them.
LEMMA LeavesList ==
    ASSUME PlaceInv, NEW t
    PROVE  /\ \A s \in Sem :
                 /\ \A x : In(Without(sem_list[s], t), x) <=> In(sem_list[s], x) /\ x # t
                 /\ Distinct(Without(sem_list[s], t))
                 /\ sem_list[s] # <<>> /\ t = Head(sem_list[s]) =>
                       /\ In(sem_list[s], t)
                       /\ \A x : In(Tail(sem_list[s]), x) <=> In(sem_list[s], x) /\ x # t
                       /\ Distinct(Tail(sem_list[s]))
           /\ \A x : In(Without(time_list, t), x) <=> In(time_list, x) /\ x # t
           /\ Distinct(Without(time_list, t))
           /\ time_list # <<>> /\ t = Head(time_list) =>
                 /\ In(time_list, t)
                 /\ \A x : In(Tail(time_list), x) <=> In(time_list, x) /\ x # t
                 /\ Distinct(Tail(time_list))
<1>1. /\ time_list \in Seq(Thread) /\ Distinct(time_list)
      /\ \A s \in Sem : sem_list[s] \in Seq(Thread) /\ Distinct(sem_list[s])
  BY DEF PlaceInv, ThreadsPlaced, OnePlace, TypeOK
<1>2. ASSUME NEW l \in Seq(Thread), Distinct(l)
      PROVE  /\ \A x : In(Without(l, t), x) <=> In(l, x) /\ x # t
             /\ Distinct(Without(l, t))
             /\ l # <<>> /\ t = Head(l) =>
                   /\ In(l, t)
                   /\ \A x : In(Tail(l), x) <=> In(l, x) /\ x # t
                   /\ Distinct(Tail(l))
  <2>1. /\ \A x : In(Without(l, t), x) => In(l, x)
        /\ \A x : In(l, x) => In(Without(l, t), x) \/ x = t
        /\ Distinct(Without(l, t)) /\ ~In(Without(l, t), t)
    BY <1>2, WithoutHolds
  <2>2. l # <<>> /\ t = Head(l) =>
           /\ In(l, t) /\ ~In(Tail(l), t)
           /\ \A x : In(Tail(l), x) => In(l, x)
           /\ \A x : In(l, x) => In(Tail(l), x) \/ x = t
           /\ Distinct(Tail(l))
    BY <1>2, TailHolds
  <2>3. QED
    BY <2>1, <2>2
<1>3. QED
  BY <1>1, <1>2

\* A post hands the semaphore over to the first thread in line.
LEMMA HandOverEffect ==
    ASSUME PlaceInv, NEW s \in Sem, sem_list[s] # <<>>, HandOver(s)
    PROVE  LET t == Head(sem_list[s])
           IN  /\ In(sem_list[s], t) /\ t \in Thread /\ t \in Tid /\ Waits(t)
               /\ \A r \in Sem : /\ Distinct(sem_list'[r])
                                 /\ \A x : In(sem_list'[r], x) <=> In(sem_list[r], x) /\ x # t
<1> DEFINE t == Head(sem_list[s])
<1>1. /\ In(sem_list[s], t)
      /\ \A x : In(Tail(sem_list[s]), x) <=> In(sem_list[s], x) /\ x # t
      /\ Distinct(Tail(sem_list[s]))
  BY LeavesList
<1>2. sem_list' = [sem_list EXCEPT ![s] = Tail(sem_list[s])]
  BY DEF HandOver
<1> HIDE DEF t
<1>3. t \in Thread /\ t \in Tid /\ Waits(t) /\ wait_sem[t] = s
  BY <1>1, WaitersAre, TidFacts
<1>4. ASSUME NEW r \in Sem
      PROVE  /\ Distinct(sem_list'[r])
             /\ \A x : In(sem_list'[r], x) <=> In(sem_list[r], x) /\ x # t
  <2>1. CASE r = s
    <3>1. sem_list'[r] = Tail(sem_list[s])
      BY <1>2, <2>1, PlaceParts DEF TypeOK
    <3>2. QED
      BY <1>1, <2>1, <3>1
  <2>2. CASE r # s
    <3>1. sem_list'[r] = sem_list[r] /\ Distinct(sem_list[r])
      BY <1>2, <2>2, PlaceParts DEF TypeOK
    <3>2. ~In(sem_list[r], t)
      BY <1>3, <2>2, WaitersAre
    <3>3. QED
      BY <3>1, <3>2
  <2>3. QED
    BY <2>1, <2>2
<1>5. QED
  BY <1>1, <1>3, <1>4 DEF t

\* A timeout takes its thread out of the line for the semaphore it waits for.
LEMMA ExtractEffect ==
    ASSUME PlaceInv, NEW t \in Thread, SemExtracThreadFromList(t)
    PROVE  /\ \A r \in Sem : /\ Distinct(sem_list'[r])
                             /\ \A x : In(sem_list'[r], x) <=> In(sem_list[r], x) /\ x # t
           /\ \A x \in Thread : x # t => wait_sem'[x] = wait_sem[x]
<1> DEFINE w == wait_sem[t]
           l == Without(sem_list[w], t)
<1>1. sem_list' = [sem_list EXCEPT ![w] = l] /\ wait_sem' = [wait_sem EXCEPT ![t] = 0]
  BY DEF SemExtracThreadFromList
<1>2. w \in Sem /\ t \in Tid
  BY PlaceParts, TidFacts DEF TypeOK
<1>3. /\ \A x : In(l, x) <=> In(sem_list[w], x) /\ x # t
      /\ Distinct(l)
  BY <1>2, LeavesList
<1>4. \A r \in Sem : In(sem_list[r], t) => r = w
  BY WaitersAre
<1> HIDE DEF w, l
<1>5. ASSUME NEW r \in Sem
      PROVE  /\ Distinct(sem_list'[r])
             /\ \A x : In(sem_list'[r], x) <=> In(sem_list[r], x) /\ x # t
  <2>1. CASE r = w
    <3>1. sem_list'[r] = l
      BY <1>1, <2>1, PlaceParts DEF TypeOK
    <3>2. QED
      BY <1>3, <2>1, <3>1
  <2>2. CASE r # w
    <3>1. sem_list'[r] = sem_list[r] /\ Distinct(sem_list[r])
      BY <1>1, <2>2, PlaceParts DEF TypeOK
    <3>2. QED
      BY <1>4, <2>2, <3>1
  <2>3. QED
    BY <2>1, <2>2
<1>6. \A x \in Thread : x # t => wait_sem'[x] = wait_sem[x]
  BY <1>1, <1>2, PlaceParts, TidFacts DEF TypeOK
<1>7. QED
  BY <1>5, <1>6

\* A step that wakes nobody.
LEMMA QuietEffect ==
    ASSUME PlaceInv, NEW offers \in BOOLEAN, Ready({}, offers),
           UNCHANGED <<sem_list, wait_sem, time_list, tcb_list, current, priority>>
    PROVE  WakeEffect({}, offers)
<1>1. AtMostOne({})
  BY DEF AtMostOne
<1>2. /\ QueuesOK(Thread, Tid, sched_list', sched_queue_i', priority)
      /\ \A x : Queued(sched_list', x) <=> Queued(sched_list, x) \/ (offers /\ x = current)
  BY <1>1, ReadyEffect
<1>3. QED
  BY <1>2, PlaceParts DEF WakeEffect

\* A call that returns at once, and may change the continuation of its caller.
LEMMA ReturnKeeps ==
    ASSUME PlaceInv, TypeOK', Body, Returns({}),
           UNCHANGED <<sem_list, wait_sem, time_list, tcb_list, priority>>,
           \A x \in Thread : x # current => resume'[x] = resume[x],
           \A x \in expired' : x \in expired /\ resume'[x] = resume[x]
    PROVE  ThreadsPlaced' /\ WakeEffect({}, TRUE)
<1>1. WakeEffect({}, TRUE)
  BY AtBody, QuietEffect DEF Returns
<1>2. QED
  BY <1>1, AtBody, WakeKeeps

\* A step that leaves the lists alone.
LEMMA ListsStayKeeps ==
    ASSUME PlaceInv, TypeOK',
           UNCHANGED <<sched_list, sched_queue_i, priority, tcb_list, current,
                       sem_list, wait_sem, time_list, expired>>,
           Settled' => Settled /\ ~need_reesched',
           \A x \in Thread : resume'[x] = resume[x] \/ (Settled /\ x = current),
           \A x \in expired : resume'[x] = resume[x]
    PROVE  ThreadsPlaced' /\ WakeEffect({}, FALSE)
<1>1. WakeEffect({}, FALSE)
  BY PlaceParts DEF WakeEffect
<1>2. QED
  BY <1>1, WakeKeeps


\* OS_ClockBottomISR wakes the first thread of the time queue or nobody.
LEMMA ClockBottomEffect ==
    ASSUME PlaceInv, NEW late, NEW offers \in BOOLEAN, NEW marked,
           ClockBottomISR(late, offers, marked),
           UNCHANGED <<tcb_list, current, priority>>
    PROVE  LET T == IF Due(late) THEN {Head(time_list)} ELSE {}
           IN  /\ WakeEffect(T, offers)
               /\ \A t \in T : t \in Thread /\ In(time_list, t) /\ Waits(t)
               /\ \A x \in expired' :
                     \/ x \in expired
                     \/ x \in T /\ \E s \in Timed : resume[x] = <<"timed", s>>
               /\ expired \subseteq expired'
               /\ \A x \in T : resume[x] # <<"user">> => x \in expired'
<1>1. CASE Due(late)
  <2> DEFINE t == Head(time_list)
  <2>1. time_list # <<>>
    BY <1>1 DEF Due
  <2>2. /\ In(time_list, t)
        /\ \A x : In(Tail(time_list), x) <=> In(time_list, x) /\ x # t
        /\ Distinct(Tail(time_list))
    BY <2>1, LeavesList
  <2>3. /\ time_list' = Tail(time_list) /\ SemExtracThreadFromList(t)
        /\ expired' = IF resume[t] = <<"user">> THEN expired ELSE expired \cup {t}
        /\ Ready({t}, offers)
    BY <1>1 DEF ClockBottomISR
  <2> HIDE DEF t
  <2>4. /\ t \in Thread /\ Waits(t)
        /\ resume[t] # <<"user">> => \E s \in Timed : resume[t] = <<"timed", s>>
    BY <2>2, WaitersAre
  <2>5. /\ \A r \in Sem : /\ Distinct(sem_list'[r])
                          /\ \A x : In(sem_list'[r], x) <=> In(sem_list[r], x) /\ x # t
        /\ \A x \in Thread : x # t => wait_sem'[x] = wait_sem[x]
    BY <2>3, <2>4, ExtractEffect
  <2>6. /\ QueuesOK(Thread, Tid, sched_list', sched_queue_i', priority)
        /\ \A x : Queued(sched_list', x) <=>
              Queued(sched_list, x) \/ x \in {t} \/ (offers /\ x = current)
    <3>1. AtMostOne({t})
      BY <2>4 DEF AtMostOne
    <3>2. QED
      BY <2>3, <3>1, ReadyEffect
  <2>7. WakeEffect({t}, offers)
    BY <2>2, <2>3, <2>5, <2>6 DEF WakeEffect
  <2>8. QED
    BY <1>1, <2>2, <2>3, <2>4, <2>7 DEF t
<1>2. CASE ~Due(late)
  <2>1. UNCHANGED <<sem_list, wait_sem, time_list, expired>> /\ Ready({}, offers)
    BY <1>2 DEF ClockBottomISR
  <2>2. WakeEffect({}, offers)
    BY <2>1, QuietEffect
  <2>3. QED
    BY <1>2, <2>1, <2>2
<1>3. QED
  BY <1>1, <1>2

\* The places where an interrupt is taken.
LEMMA InterruptPlaces ==
    ASSUME InterruptsEnabled
    PROVE  /\ AtUser => Settled
           /\ Epilogue => (Settled' => Settled /\ ~AtUser)
BY DEF InterruptsEnabled, AtUser, Epilogue, Settled

\* A timeout, handled at the end of a call or by OS_TimerISR.
LEMMA HandleClockEventKeeps ==
    ASSUME PlaceInv, TypeOK', HandleClockEvent PROVE ThreadsPlaced'
<1>1. /\ ClockBottomISR(Late, FALSE, FALSE) /\ FALSE \in BOOLEAN
      /\ UNCHANGED <<tcb_list, current, priority, resume>>
      /\ ~Settled'
  BY DEF HandleClockEvent, cpu, tasks, Settled
<1> DEFINE T == IF Due(Late) THEN {Head(time_list)} ELSE {}
<1>2. /\ WakeEffect(T, FALSE)
      /\ \A t \in T : t \in Thread /\ Waits(t)
      /\ \A x \in expired' :
            x \in expired \/ (x \in T /\ \E s \in Timed : resume[x] = <<"timed", s>>)
  BY <1>1, ClockBottomEffect
<1> HIDE DEF T
<1>3. QED
  BY <1>1, <1>2, WakeKeeps

LEMMA TimerISRKeeps ==
    ASSUME PlaceInv, TypeOK', TimerISR PROVE ThreadsPlaced'
<1>1. /\ UNCHANGED <<tcb_list, current, priority, resume, need_reesched>>
      /\ AtUser \in BOOLEAN
      /\ AtUser => Settled
      /\ Settled' => Settled /\ ~AtUser /\ ~need_reesched'
  BY InterruptPlaces DEF TimerISR, cpu, tasks, AtUser, PlaceInv, ThreadsPlaced, CallSchedules
<1>2. CASE TimerLooksAtQueue
  <2> DEFINE T == IF Due(0) THEN {Head(time_list)} ELSE {}
  <2>1. ClockBottomISR(0, AtUser, clock_event)
    BY <1>2 DEF TimerISR
  <2>2. /\ WakeEffect(T, AtUser)
        /\ \A t \in T : t \in Thread /\ Waits(t)
        /\ \A x \in expired' :
              x \in expired \/ (x \in T /\ \E s \in Timed : resume[x] = <<"timed", s>>)
    BY <1>1, <2>1, ClockBottomEffect
  <2> HIDE DEF T
  <2>3. QED
    BY <1>1, <2>2, WakeKeeps
<1>3. CASE ~TimerLooksAtQueue
  <2>1. /\ Ready({}, AtUser)
        /\ UNCHANGED <<sem_list, wait_sem, time_list, expired>>
    BY <1>3 DEF TimerISR, sems, times
  <2>2. WakeEffect({}, AtUser)
    BY <1>1, <2>1, QuietEffect
  <2>3. QED
    BY <1>1, <2>1, <2>2, WakeKeeps
<1>4. QED
  BY <1>2, <1>3

LEMMA ClockISRKeeps ==
    ASSUME PlaceInv, TypeOK', ClockISR PROVE ThreadsPlaced'
<1>1. /\ UNCHANGED <<sem_list, wait_sem, time_list, expired, tcb_list, current, priority,
                     resume, need_reesched>>
      /\ AtUser \in BOOLEAN /\ Ready({}, AtUser)
      /\ AtUser => Settled
      /\ Settled' => Settled /\ ~AtUser /\ ~need_reesched'
  BY InterruptPlaces DEF ClockISR, cpu, tasks, sems, times, AtUser, PlaceInv, ThreadsPlaced, CallSchedules
<1>2. WakeEffect({}, AtUser)
  BY <1>1, QuietEffect
<1>3. QED
  BY <1>1, <1>2, WakeKeeps

\* The ISR of a device, if it does not come during a system call and if no
\* thread waits with a timeout for what it posts.
IsrAssumption == EventInCall = FALSE /\ Timed \cap Events = {}

LEMMA IRQMarkEventEffect ==
    ASSUME PlaceInv, IsrAssumption, NEW s \in Events, IRQMarkEvent(s)
    PROVE  \E T : /\ \/ T = {} /\ sem_list' = sem_list
                     \/ \E t \in Thread : /\ T = {t} /\ In(sem_list[s], t)
                                          /\ resume[t] = <<"wait", s>>
                  /\ \A t \in T : t \in Thread /\ Waits(t)
                  /\ WakeEffect(T, TRUE)
<1>1. UNCHANGED <<tcb_list, current, priority, wait_sem, time_list>> /\ s \in Sem
  BY KernelAssumption DEF IRQMarkEvent, cpu, tasks, times
<1>2. CASE s \notin event_inside /\ sem_list[s] # <<>>
  <2> DEFINE t == Head(sem_list[s])
  <2>1. HandOver(s) /\ Ready({t}, TRUE)
    BY <1>2 DEF IRQMarkEvent
  <2>2. /\ In(sem_list[s], t) /\ t \in Thread /\ Waits(t)
        /\ \A r \in Sem : /\ Distinct(sem_list'[r])
                          /\ \A x : In(sem_list'[r], x) <=> In(sem_list[r], x) /\ x # t
    BY <1>1, <1>2, <2>1, HandOverEffect
  <2> HIDE DEF t
  <2>3. resume[t] = <<"wait", s>> /\ ~In(time_list, t)
    BY <1>1, <2>2, WaitersAre DEF IsrAssumption
  <2>4. /\ QueuesOK(Thread, Tid, sched_list', sched_queue_i', priority)
        /\ \A x : Queued(sched_list', x) <=>
              Queued(sched_list, x) \/ x \in {t} \/ (TRUE /\ x = current)
    <3>1. AtMostOne({t}) /\ TRUE \in BOOLEAN
      BY <2>2 DEF AtMostOne
    <3>2. QED
      BY <2>1, <3>1, ReadyEffect
  <2>5. WakeEffect({t}, TRUE)
    BY <1>1, <2>2, <2>3, <2>4, PlaceParts DEF WakeEffect
  <2>6. QED
    BY <2>2, <2>3, <2>5
<1>3. CASE ~(s \notin event_inside /\ sem_list[s] # <<>>)
  <2>1. Ready({}, TRUE) /\ sem_list' = sem_list
    BY <1>3 DEF IRQMarkEvent, Free
  <2>2. WakeEffect({}, TRUE)
    BY <1>1, <2>1, QuietEffect
  <2>3. QED
    BY <2>1, <2>2
<1>4. QED
  BY <1>2, <1>3

LEMMA IRQMarkEventKeeps ==
    ASSUME PlaceInv, TypeOK', IsrAssumption, NEW s \in Events, IRQMarkEvent(s)
    PROVE  ThreadsPlaced'
<1>1. /\ UNCHANGED <<resume, expired>> /\ Settled /\ ~Settled'
  BY DEF IRQMarkEvent, IsrAssumption, AtUser, Settled, times
<1>2. PICK T : /\ \A t \in T : t \in Thread /\ Waits(t)
               /\ WakeEffect(T, TRUE)
  BY IRQMarkEventEffect
<1>3. QED
  BY <1>1, <1>2, WakeKeeps

\* A post wakes the first thread in line, which leaves the time queue as well.
LEMMA SemPostEffect ==
    ASSUME PlaceInv, NEW s \in Sem, SemPost(s), sem_list[s] # <<>>
    PROVE  LET t == Head(sem_list[s])
           IN  /\ In(sem_list[s], t) /\ t \in Thread /\ Waits(t) /\ t # current
               /\ resume[t] \in {<<"wait", s>>, <<"timed", s>>} /\ t \notin expired
               /\ WakeEffect({t}, TRUE)
<1> DEFINE t == Head(sem_list[s])
<1>1. /\ Body /\ HandOver(s) /\ TimeRemoveFromQueue(t)
      /\ wait_sem' = [wait_sem EXCEPT ![t] = 0] /\ Ready({t}, TRUE)
      /\ UNCHANGED <<tcb_list, priority, current>>
  BY DEF SemPost, Call, Returns, tasks, Body, cpu
<1>2. /\ In(sem_list[s], t) /\ t \in Thread /\ t \in Tid /\ Waits(t)
      /\ \A r \in Sem : /\ Distinct(sem_list'[r])
                        /\ \A x : In(sem_list'[r], x) <=> In(sem_list[r], x) /\ x # t
  BY <1>1, HandOverEffect
<1> HIDE DEF t
<1>3. /\ t # current /\ t \notin expired
      /\ resume[t] \in {<<"wait", s>>, <<"timed", s>>}
  BY <1>1, <1>2, AtBody, WaitersAre
<1>4. /\ \A x : In(time_list', x) <=> In(time_list, x) /\ x # t
      /\ Distinct(time_list')
  BY <1>1, LeavesList DEF TimeRemoveFromQueue
<1>5. /\ QueuesOK(Thread, Tid, sched_list', sched_queue_i', priority)
      /\ \A x : Queued(sched_list', x) <=>
            Queued(sched_list, x) \/ x \in {t} \/ (TRUE /\ x = current)
  <2>1. AtMostOne({t}) /\ TRUE \in BOOLEAN
    BY <1>2 DEF AtMostOne
  <2>2. QED
    BY <1>1, <2>1, ReadyEffect
<1>6. \A x \in Thread : x # t => wait_sem'[x] = wait_sem[x]
  BY <1>1, <1>2, PlaceParts, TidFacts DEF TypeOK
<1>7. WakeEffect({t}, TRUE)
  BY <1>1, <1>2, <1>4, <1>5, <1>6 DEF WakeEffect
<1>8. QED
  BY <1>2, <1>3, <1>7 DEF t

LEMMA SemPostKeeps ==
    ASSUME PlaceInv, TypeOK', NEW s \in Sem, SemPost(s) PROVE ThreadsPlaced'
<1>1. /\ Body /\ UNCHANGED <<tcb_list, priority, resume, expired>>
  BY DEF SemPost, Call, tasks
<1>2. CASE sem_list[s] # <<>>
  <2> DEFINE t == Head(sem_list[s])
  <2>1. t \in Thread /\ Waits(t) /\ WakeEffect({t}, TRUE)
    BY <1>2, SemPostEffect
  <2> HIDE DEF t
  <2>2. QED
    BY <1>1, <2>1, AtBody, WakeKeeps
<1>3. CASE sem_list[s] = <<>>
  <2>1. Returns({}) /\ UNCHANGED <<sem_list, wait_sem, time_list>>
    BY <1>3 DEF SemPost, Free
  <2>2. QED
    BY <1>1, <2>1, ReturnKeeps
<1>4. QED
  BY <1>2, <1>3


----------------------------------------------------------------------------
(* The steps that block.                                                   *)

\* A call in which current gets in line for the semaphore in W, if there is
\* one, and in the time queue if it sleeps, and blocks: its effect on the
\* places of the threads.
BlockEffect(W, sleeps) ==
    /\ UNCHANGED <<sched_list, sched_queue_i, priority, tcb_list, expired>>
    /\ \A r \in Sem : /\ Distinct(sem_list'[r])
                      /\ \A x : In(sem_list'[r], x) <=>
                            In(sem_list[r], x) \/ (r \in W /\ x = current)
    /\ Distinct(time_list')
    /\ \A x : In(time_list', x) <=> In(time_list, x) \/ (sleeps /\ x = current)
    /\ \A x \in Thread : x # current => wait_sem'[x] = wait_sem[x] /\ resume'[x] = resume[x]
    /\ \A r \in W : /\ wait_sem'[current] = r
                    /\ \/ resume'[current] = <<"wait", r>> /\ ~sleeps
                       \/ resume'[current] = <<"timed", r>> /\ r \in Timed
    /\ sleeps => \/ resume'[current] = <<"user">>
                 \/ \E r \in W : resume'[current] = <<"timed", r>> /\ r \in Timed

\* A caller that is not in a timed wait has no timeout to be told of.
LEMMA NotTimedOut ==
    ASSUME PlaceInv,
           resume[current] = <<"user">> \/ \E s \in Sem : resume[current] = <<"queue", s>>
    PROVE  current \notin expired
<1>1. \A r, s : <<"timed", r>> # <<"user">> /\ <<"timed", r>> # <<"queue", s>>
  OBVIOUS
<1>2. QED
  BY <1>1, WaitersAre

LEMMA BlockKeeps ==
    ASSUME PlaceInv, TypeOK', Body, current \notin expired,
           NEW W, NEW sleeps \in BOOLEAN, BlockEffect(W, sleeps)
    PROVE  ThreadsPlaced'
<1>1. Body
  OBVIOUS
<1>2. current \notin expired
  OBVIOUS
<1>3. \A x \in Thread : x # current => (Waits(x)' <=> Waits(x))
  BY DEF BlockEffect, Waits, InSem
<1>4. QueuesOK(Thread, Tid, sched_list, sched_queue_i, priority)'
  BY PlaceParts DEF BlockEffect
<1>5. OnePlace'
  <2>1. ASSUME NEW x \in Thread, Queued(sched_list', x)
        PROVE  ~Waits(x)' /\ ~In(tcb_list', x)
    BY <1>1, <1>3, <2>1, AtBody, PlaceParts DEF BlockEffect
  <2>2. ASSUME NEW x \in Thread, Waits(x)' PROVE ~In(tcb_list', x)
    BY <1>1, <1>3, <2>2, AtBody, PlaceParts DEF BlockEffect
  <2>3. /\ Distinct(tcb_list') /\ Distinct(time_list')
        /\ \A s \in Sem : Distinct(sem_list'[s])
    BY PlaceParts DEF BlockEffect
  <2>4. ~Settled'
    BY <1>1, AtBody
  <2>5. QED
    BY <2>1, <2>2, <2>3, <2>4 DEF OnePlace
<1>6. GoesOnWithItsWait'
  <2>1. ASSUME NEW s \in Sem, NEW x \in Thread, In(sem_list'[s], x)
        PROVE  /\ wait_sem'[x] = s
               /\ \/ resume'[x] = <<"wait", s>> /\ ~In(time_list', x)
                  \/ resume'[x] = <<"timed", s>> /\ s \in Timed
    <3>1. CASE x = current
      <4>1. s \in W /\ ~In(time_list, x)
        BY <1>1, <2>1, <3>1, AtBody DEF BlockEffect
      <4>2. QED
        BY <3>1, <4>1 DEF BlockEffect
    <3>2. CASE x # current
      BY <2>1, <3>2, WaitersAre DEF BlockEffect
    <3>3. QED
      BY <3>1, <3>2
  <2>2. ASSUME NEW x \in Thread, In(time_list', x)
        PROVE  \/ resume'[x] = <<"user">>
               \/ \E s \in Timed : resume'[x] = <<"timed", s>> /\ In(sem_list'[s], x)
    <3>1. CASE x = current
      <4>1. sleeps
        BY <1>1, <2>2, <3>1, AtBody DEF BlockEffect
      <4>2. QED
        BY <3>1, <4>1, KernelAssumption DEF BlockEffect
    <3>2. CASE x # current
      BY <2>2, <3>2, WaitersAre, KernelAssumption DEF BlockEffect
    <3>3. QED
      BY <3>1, <3>2
  <2>3. ASSUME NEW x \in expired'
        PROVE  ~Waits(x)' /\ \E s \in Timed : resume'[x] = <<"timed", s>>
    <3>1. x \in expired /\ x \in Thread /\ x # current
      BY <1>2, <2>3 DEF BlockEffect, PlaceInv, ThreadsPlaced, TypeOK
    <3>2. QED
      BY <1>3, <3>1, WaitersAre DEF BlockEffect
  <2>4. QED
    BY <2>1, <2>2, <2>3 DEF GoesOnWithItsWait
<1>7. CallSchedules'
  BY <1>1, AtBody DEF CallSchedules
<1>8. QED
  BY <1>4, <1>5, <1>6, <1>7 DEF PlaceInv, ThreadsPlaced

\* OS_SemWait and OS_DoSleep put current in a queue.
LEMMA QueueEffect ==
    ASSUME PlaceInv, Body, NEW s \in Sem, Queue(s)
    PROVE  /\ \A r \in Sem : /\ Distinct(sem_list'[r])
                             /\ \A x : In(sem_list'[r], x) <=>
                                   In(sem_list[r], x) \/ (r \in {s} /\ x = current)
           /\ \A x \in Thread : x # current => wait_sem'[x] = wait_sem[x]
           /\ wait_sem'[current] = s
<1> DEFINE l == Append(sem_list[s], current)
<1>1. sem_list' = [sem_list EXCEPT ![s] = l] /\ wait_sem' = [wait_sem EXCEPT ![current] = s]
  BY DEF Queue
<1>2. /\ current \in Thread /\ current \in Tid /\ ~In(sem_list[s], current)
      /\ wait_sem \in [Tid -> Sem] /\ sem_list \in [Sem -> Seq(Thread)]
      /\ \A r \in Sem : Distinct(sem_list[r])
  BY AtBody, PlaceParts, TidFacts DEF TypeOK
<1>3. /\ \A x : In(l, x) <=> In(sem_list[s], x) \/ x = current
      /\ Distinct(l)
  <2>1. sem_list[s] \in Seq(Thread) /\ Distinct(sem_list[s])
    BY <1>2
  <2>2. QED
    BY <1>2, <2>1, AppendHolds
<1> HIDE DEF l
<1>4. ASSUME NEW r \in Sem
      PROVE  /\ Distinct(sem_list'[r])
             /\ \A x : In(sem_list'[r], x) <=> In(sem_list[r], x) \/ (r \in {s} /\ x = current)
  <2>1. CASE r = s
    <3>1. sem_list'[r] = l
      BY <1>1, <1>2, <2>1
    <3>2. QED
      BY <1>3, <2>1, <3>1
  <2>2. CASE r # s
    <3>1. sem_list'[r] = sem_list[r]
      BY <1>1, <1>2, <2>2
    <3>2. QED
      BY <1>2, <2>2, <3>1
  <2>3. QED
    BY <2>1, <2>2
<1>5. /\ \A x \in Thread : x # current => wait_sem'[x] = wait_sem[x]
      /\ wait_sem'[current] = s
  BY <1>1, <1>2, TidFacts
<1>6. QED
  BY <1>4, <1>5

LEMMA EnqueueEffect ==
    ASSUME PlaceInv, Body, NEW d \in Int, Enqueue(d)
    PROVE  /\ Distinct(time_list') /\ expired' = expired
           /\ \A x : In(time_list', x) <=> In(time_list, x) \/ x = current
<1>1. TypeOK /\ Distinct(time_list) /\ ~In(time_list, current)
  BY AtBody, PlaceParts
<1>2. PICK i \in 1 .. (Len(time_list) + 1) : time_list' = Insertion(time_list, i, current)
  BY <1>1, EnqueueIs
<1>3. time_list \in Seq(Thread) /\ current \in Thread
  BY <1>1 DEF TypeOK
<1>4. /\ \A x : In(time_list', x) <=> In(time_list, x) \/ x = current
      /\ Distinct(time_list')
  BY <1>1, <1>2, <1>3, InsertHolds
<1>5. QED
  BY <1>4 DEF Enqueue

\* The three ways to block.
LEMMA WaitBlocks ==
    ASSUME PlaceInv, Body, NEW s \in Sem, Queue(s), Blocks({"SEM"}, <<"wait", s>>),
           UNCHANGED <<priority, tcb_list, time_list, expired>>
    PROVE  BlockEffect({s}, FALSE)
<1>1. /\ UNCHANGED <<sched_list, sched_queue_i>>
      /\ resume' = [resume EXCEPT ![current] = <<"wait", s>>]
  BY DEF Blocks, queues
<1>2. /\ \A x \in Thread : x # current => resume'[x] = resume[x]
      /\ resume'[current] = <<"wait", s>>
  BY <1>1, PlaceParts, TidFacts DEF TypeOK
<1>3. QED
  BY <1>1, <1>2, QueueEffect, PlaceParts DEF BlockEffect

LEMMA SleepBlocks ==
    ASSUME PlaceInv, Body, NEW d \in Int, Enqueue(d), Blocks({"TIME"}, <<"user">>),
           UNCHANGED <<priority, tcb_list, sem_list, wait_sem>>
    PROVE  BlockEffect({}, TRUE)
<1>1. /\ UNCHANGED <<sched_list, sched_queue_i>>
      /\ resume' = [resume EXCEPT ![current] = <<"user">>]
  BY DEF Blocks, queues
<1>2. /\ \A x \in Thread : x # current => resume'[x] = resume[x]
      /\ resume'[current] = <<"user">>
  BY <1>1, PlaceParts, TidFacts DEF TypeOK
<1>3. QED
  BY <1>1, <1>2, EnqueueEffect, PlaceParts DEF BlockEffect

LEMMA TimedWaitBlocks ==
    ASSUME PlaceInv, Body, NEW s \in Timed, NEW d \in Int, Queue(s), Enqueue(d),
           Blocks({"SEM", "TIME"}, <<"timed", s>>), UNCHANGED <<priority, tcb_list>>
    PROVE  BlockEffect({s}, TRUE)
<1>1. /\ UNCHANGED <<sched_list, sched_queue_i>> /\ s \in Sem
      /\ resume' = [resume EXCEPT ![current] = <<"timed", s>>]
  BY KernelAssumption DEF Blocks, queues
<1>2. /\ \A x \in Thread : x # current => resume'[x] = resume[x]
      /\ resume'[current] = <<"timed", s>>
  BY <1>1, PlaceParts, TidFacts DEF TypeOK
<1>3. QED
  BY <1>1, <1>2, QueueEffect, EnqueueEffect DEF BlockEffect

LEMMA SemWaitKeeps ==
    ASSUME PlaceInv, TypeOK', NEW s \in Sem, SemWait(s) PROVE ThreadsPlaced'
<1>1. UNCHANGED <<priority, tcb_list, time_list, expired>>
  BY DEF SemWait, FindsTaken, tasks, times
<1>2. CASE FindsTaken(s)
  <2>1. /\ pc = "entry" /\ pc' = "queue" /\ resume[current] = <<"user">>
        /\ resume' = [resume EXCEPT ![current] = <<"queue", s>>]
        /\ UNCHANGED <<sched_list, sched_queue_i, current, need_reesched, sem_list, wait_sem>>
    BY <1>2 DEF FindsTaken, queues, cpu, sems
  <2>2. Settled /\ ~need_reesched' /\ current \notin expired
    BY <2>1, NotTimedOut DEF Settled, PlaceInv, ThreadsPlaced, CallSchedules
  <2>3. /\ \A x \in Thread : resume'[x] = resume[x] \/ (Settled /\ x = current)
        /\ \A x \in expired : resume'[x] = resume[x]
    BY <2>1, <2>2, PlaceParts, TidFacts DEF TypeOK
  <2>4. QED
    BY <1>1, <2>1, <2>2, <2>3, ListsStayKeeps
<1>3. CASE Call /\ Catch(s) /\ Returns({}) /\ UNCHANGED resume
  <2>1. UNCHANGED <<sem_list, wait_sem>> /\ Body
    BY <1>3 DEF Catch, Call
  <2>2. QED
    BY <1>1, <1>3, <2>1, ReturnKeeps
<1>4. QED
  BY <1>2, <1>3 DEF SemWait

LEMMA SemBlocksKeeps ==
    ASSUME PlaceInv, TypeOK', NEW s \in Sem, SemBlocks(s) PROVE ThreadsPlaced'
<1>1. /\ Body /\ Queue(s) /\ Blocks({"SEM"}, <<"wait", s>>)
      /\ resume[current] = <<"queue", s>>
      /\ UNCHANGED <<priority, tcb_list, time_list, expired>>
  BY DEF SemBlocks, tasks, times
<1>2. QED
  BY <1>1, NotTimedOut, WaitBlocks, BlockKeeps

LEMMA SemTryWaitKeeps ==
    ASSUME PlaceInv, TypeOK', NEW s \in Sem, SemTryWait(s) PROVE ThreadsPlaced'
<1>1. /\ Body /\ Returns({})
      /\ UNCHANGED <<priority, tcb_list, time_list, expired, resume, sem_list, wait_sem>>
  BY DEF SemTryWait, Call, tasks, times, Catch, sems
<1>2. QED
  BY <1>1, ReturnKeeps

LEMMA SleepKeeps ==
    ASSUME PlaceInv, TypeOK', NEW n \in Delays, Sleep(n) PROVE ThreadsPlaced'
<1> DEFINE d == n - Late
<1>1. /\ Call /\ Body /\ UNCHANGED <<priority, tcb_list, sem_list, wait_sem>> /\ d \in Int
      /\ \/ Enqueue(d) /\ Blocks({"TIME"}, <<"user">>)
         \/ Returns({}) /\ UNCHANGED <<resume, time_list, expired>>
  BY DelayIsTimeout DEF Sleep, Call, tasks, sems, times
<1> HIDE DEF d
<1>2. CASE Enqueue(d) /\ Blocks({"TIME"}, <<"user">>)
  <2>1. current \notin expired
    BY <1>1, NotTimedOut DEF Call
  <2>2. QED
    BY <1>1, <1>2, <2>1, SleepBlocks, BlockKeeps
<1>3. CASE Returns({}) /\ UNCHANGED <<resume, time_list, expired>>
  BY <1>1, <1>3, ReturnKeeps
<1>4. QED
  BY <1>1, <1>2, <1>3

LEMMA SemTimedWaitKeeps ==
    ASSUME PlaceInv, TypeOK', NEW s \in Timed, NEW n \in Delays, SemTimedWait(s, n)
    PROVE  ThreadsPlaced'
<1> DEFINE d == n - Late
<1>1. /\ Call /\ Body /\ UNCHANGED <<priority, tcb_list>> /\ d \in Int
      /\ \/ Queue(s) /\ Enqueue(d) /\ Blocks({"SEM", "TIME"}, <<"timed", s>>)
         \/ /\ Returns({})
            /\ UNCHANGED <<resume, time_list, expired, sem_list, wait_sem>>
  BY DelayIsTimeout DEF SemTimedWait, Call, tasks, sems, times, Catch
<1> HIDE DEF d
<1>2. CASE Queue(s) /\ Enqueue(d) /\ Blocks({"SEM", "TIME"}, <<"timed", s>>)
  <2>1. current \notin expired
    BY <1>1, NotTimedOut DEF Call
  <2>2. QED
    BY <1>1, <1>2, <2>1, TimedWaitBlocks, BlockKeeps
<1>3. CASE Returns({}) /\ UNCHANGED <<resume, time_list, expired, sem_list, wait_sem>>
  BY <1>1, <1>3, ReturnKeeps
<1>4. QED
  BY <1>1, <1>2, <1>3

LEMMA SemTimedWaitReturnsKeeps ==
    ASSUME PlaceInv, TypeOK', NEW s \in Timed, SemTimedWaitReturns(s) PROVE ThreadsPlaced'
<1>1. /\ Body /\ Returns({})
      /\ UNCHANGED <<priority, tcb_list, time_list, sem_list, wait_sem>>
      /\ resume' = [resume EXCEPT ![current] = <<"user">>]
      /\ expired' = expired \ {current}
  BY DEF SemTimedWaitReturns, tasks
<1>2. \A x \in Thread : x # current => resume'[x] = resume[x]
  BY <1>1, PlaceParts, TidFacts DEF TypeOK
<1>3. \A x \in expired' : x \in expired /\ resume'[x] = resume[x]
  BY <1>1, <1>2, PlaceParts DEF TypeOK
<1>4. QED
  BY <1>1, <1>2, <1>3, ReturnKeeps


----------------------------------------------------------------------------
(* Threads that start and end, the scheduler, and steps that leave the     *)
(* lists alone.                                                            *)

\* A step after which current is in no place, and that leaves the wait queues
\* alone.
LEMMA WaitsStay ==
    ASSUME PlaceInv, UNCHANGED <<sem_list, wait_sem, time_list, resume, expired>>
    PROVE  GoesOnWithItsWait' /\ \A x : Waits(x)' <=> Waits(x)
BY DEF PlaceInv, ThreadsPlaced, GoesOnWithItsWait, Waits, InSem

LEMMA TaskCreateKeeps ==
    ASSUME PlaceInv, TypeOK', NEW p \in Prio, TaskCreate(p) PROVE ThreadsPlaced'
<1> DEFINE t == Head(tcb_list)
           pr == [priority EXCEPT ![t] = p]
           q == AddTail(sched_list, t, p)
           i == Lower(sched_queue_i, p)
<1>1. /\ Body /\ tcb_list # <<>> /\ tcb_list' = Tail(tcb_list) /\ priority' = pr
      /\ sched_list' = AddHead(q, current, priority'[current])
      /\ sched_queue_i' = Lower(i, priority'[current])
      /\ UNCHANGED <<sem_list, wait_sem, time_list, resume, expired>>
  BY DEF TaskCreate, Call, sems, times
<1>2. tcb_list \in Seq(Thread) /\ Distinct(tcb_list)
  BY PlaceParts DEF TypeOK
<1>3. /\ t \in Thread /\ t \in Tid /\ In(tcb_list, t)
      /\ \A x : In(tcb_list', x) => In(tcb_list, x) /\ x # t
      /\ Distinct(tcb_list')
  <2>1. /\ t \in Thread /\ In(tcb_list, t)
        /\ \A x : In(Tail(tcb_list), x) => In(tcb_list, x)
        /\ Distinct(Tail(tcb_list)) /\ ~In(Tail(tcb_list), t)
    BY <1>1, <1>2, TailHolds
  <2> HIDE DEF t
  <2>2. QED
    BY <1>1, <2>1, TidFacts
<1> HIDE DEF t
<1>4. t # current /\ ~Waits(t) /\ ~Queued(sched_list, t)
  BY <1>1, <1>3, AtBody, PlaceParts
<1>5. QueuesOK(Thread, Tid, sched_list, sched_queue_i, pr) /\ pr[t] = p
  <2>1. QueuesOK(Thread, Tid, sched_list, sched_queue_i, priority)
    BY PlaceParts
  <2>2. pr[t] = p
    BY <1>3, <2>1 DEF QueuesOK
  <2>3. QueuesOK(Thread, Tid, sched_list, sched_queue_i, pr)
    BY <1>3, <1>4, <2>1, NewPriorityKeepsQueues
  <2>4. QED
    BY <2>2, <2>3
<1> HIDE DEF pr
<1>6. /\ QueuesOK(Thread, Tid, q, i, pr)
      /\ \A x : Queued(q, x) <=> Queued(sched_list, x) \/ x = t
  BY <1>3, <1>5, AddTailKeepsQueues
<1> HIDE DEF q, i
<1>7. /\ QueuesOK(Thread, Tid, sched_list', sched_queue_i', priority')
      /\ \A x : Queued(sched_list', x) <=> Queued(q, x) \/ x = current
  <2>1. /\ QueuesOK(Thread, Tid, AddHead(q, current, pr[current]), Lower(i, pr[current]), pr)
        /\ \A x : Queued(AddHead(q, current, pr[current]), x) <=> Queued(q, x) \/ x = current
    BY <1>6, PlaceParts, AddHeadKeepsQueues
  <2>2. QED
    BY <1>1, <2>1
<1>8. OnePlace'
  <2>1. ASSUME NEW x \in Thread, Queued(sched_list', x)
        PROVE  ~Waits(x)' /\ ~In(tcb_list', x)
    BY <1>1, <1>3, <1>4, <1>6, <1>7, <2>1, WaitsStay, AtBody, PlaceParts
  <2>2. ASSUME NEW x \in Thread, Waits(x)' PROVE ~In(tcb_list', x)
    BY <1>1, <1>3, <2>2, WaitsStay, PlaceParts
  <2>3. /\ Distinct(tcb_list') /\ Distinct(time_list') /\ ~Settled'
        /\ \A s \in Sem : Distinct(sem_list'[s])
    BY <1>1, <1>3, AtBody, PlaceParts
  <2>4. QED
    BY <2>1, <2>2, <2>3 DEF OnePlace
<1>9. CallSchedules'
  BY <1>1, AtBody DEF CallSchedules
<1>10. QED
  BY <1>1, <1>7, <1>8, <1>9, WaitsStay DEF PlaceInv, ThreadsPlaced

LEMMA ThreadExitKeeps == ASSUME PlaceInv, TypeOK', ThreadExit PROVE ThreadsPlaced'
<1>1. /\ Body /\ tcb_list' = Append(tcb_list, current)
      /\ UNCHANGED <<sched_list, sched_queue_i, priority>>
      /\ UNCHANGED <<sem_list, wait_sem, time_list, resume, expired>>
  BY DEF ThreadExit, Call, queues, sems, times
<1>2. /\ tcb_list \in Seq(Thread) /\ Distinct(tcb_list)
      /\ current \in Thread /\ ~In(tcb_list, current)
  BY <1>1, AtBody, PlaceParts DEF TypeOK
<1>3. /\ \A x : In(tcb_list', x) <=> In(tcb_list, x) \/ x = current
      /\ Distinct(tcb_list')
  BY <1>1, <1>2, AppendHolds
<1>4. OnePlace'
  <2>1. ASSUME NEW x \in Thread, Queued(sched_list', x)
        PROVE  ~Waits(x)' /\ ~In(tcb_list', x)
    BY <1>1, <1>3, <2>1, WaitsStay, AtBody, PlaceParts
  <2>2. ASSUME NEW x \in Thread, Waits(x)' PROVE ~In(tcb_list', x)
    BY <1>1, <1>3, <2>2, WaitsStay, AtBody, PlaceParts
  <2>3. /\ Distinct(tcb_list') /\ Distinct(time_list') /\ ~Settled'
        /\ \A s \in Sem : Distinct(sem_list'[s])
    BY <1>1, <1>3, AtBody, PlaceParts
  <2>4. QED
    BY <2>1, <2>2, <2>3 DEF OnePlace
<1>5. QueuesOK(Thread, Tid, sched_list, sched_queue_i, priority)'
  BY <1>1, PlaceParts
<1>6. CallSchedules'
  BY <1>1, AtBody DEF CallSchedules
<1>7. QED
  BY <1>1, <1>4, <1>5, <1>6, WaitsStay DEF PlaceInv, ThreadsPlaced

LEMMA ScheduleKeeps == ASSUME PlaceInv, TypeOK', Schedule PROVE ThreadsPlaced'
<1>1. PICK p \in Prio : /\ ScanStops(sched_list, sched_queue_i, p)
                        /\ sched_queue_i' = p
                        /\ sched_list' = [sched_list EXCEPT ![p] = Tail(@)]
                        /\ current' = Head(sched_list[p])
  BY DEF Schedule
<1>2. /\ UNCHANGED <<priority, tcb_list>>
      /\ UNCHANGED <<sem_list, wait_sem, time_list, resume, expired>>
      /\ need_reesched' = FALSE
  BY DEF Schedule, tasks, sems, times
<1>3. /\ QueuesOK(Thread, Tid, sched_list', sched_queue_i', priority')
      /\ \A x : Queued(sched_list', x) <=> Queued(sched_list, x) /\ x # current'
      /\ current' \in Thread /\ Queued(sched_list, current')
  <2>1. sched_list[p] # <<>> /\ sched_list \in [Prio -> Seq(Thread)]
    BY <1>1, PlaceParts DEF ScanStops, QueuesOK
  <2>2. /\ Removed(Thread, sched_list, sched_list', current', p)
        /\ current' \in Thread /\ In(sched_list[p], current')
    BY <1>1, <2>1, TakeRemoves
  <2>3. /\ ScanStops(sched_list, sched_queue_i, p) /\ sched_queue_i' = p
        /\ priority' = priority
        /\ QueuesOK(Thread, Tid, sched_list, sched_queue_i, priority)
    BY <1>1, <1>2, PlaceParts
  <2>4. QED
    BY <2>2, <2>3, ScanKeepsQueues
<1>4. OnePlace'
  <2>1. ASSUME NEW x \in Thread, Queued(sched_list', x)
        PROVE  ~Waits(x)' /\ ~In(tcb_list', x)
    BY <1>2, <1>3, <2>1, WaitsStay, PlaceParts
  <2>2. ASSUME NEW x \in Thread, Waits(x)' PROVE ~In(tcb_list', x)
    BY <1>2, <2>2, WaitsStay, PlaceParts
  <2>3. PICK c \in Thread : c = current'
    BY <1>3
  <2>4. ~Queued(sched_list', c) /\ ~Waits(c) /\ ~In(tcb_list', c)
    BY <1>2, <1>3, <2>3, PlaceParts
  <2>5. (~Queued(sched_list, current) /\ ~Waits(current) /\ ~In(tcb_list, current))'
    BY <1>2, <2>3, <2>4 DEF Waits, InSem
  <2>6. /\ Distinct(tcb_list') /\ Distinct(time_list')
        /\ \A s \in Sem : Distinct(sem_list'[s])
    BY <1>2, PlaceParts
  <2>7. QED
    BY <2>1, <2>2, <2>5, <2>6 DEF OnePlace
<1>5. CallSchedules'
  BY <1>2 DEF CallSchedules
<1>6. QED
  BY <1>2, <1>3, <1>4, <1>5, WaitsStay DEF PlaceInv, ThreadsPlaced

LEMMA DispatchEffect ==
    ASSUME PlaceInv, Dispatch
    PROVE  /\ Settled /\ Settled' /\ current' = current
           /\ UNCHANGED <<sched_list, sched_queue_i, priority, tcb_list, sem_list, wait_sem,
                          time_list, expired, need_reesched, sem_value, tid_in>>
           /\ \A x \in Tid : x # current => resume'[x] = resume[x]
           /\ \/ /\ UNCHANGED <<resume, holds>>
                 /\ resume[current][1] # "wait"
              \/ \E s \in Sem : /\ resume[current] = <<"wait", s>>
                                /\ resume'[current] = <<"user">>
                                /\ holds' = IF s \in Locks
                                            THEN [holds EXCEPT ![s] = @ \cup {current}]
                                            ELSE holds
<1> DEFINE k == resume[current]
<1>1. /\ Settled /\ Settled' /\ current' = current
      /\ UNCHANGED <<sched_list, sched_queue_i, priority, tcb_list, sem_list, wait_sem,
                     time_list, expired, need_reesched, sem_value, tid_in>>
  BY DEF Dispatch, Settled, queues, cpu, tasks, times
<1>2. k \in Continuation /\ current \in Tid /\ resume \in [Tid -> Continuation]
  BY PlaceParts, TidFacts DEF TypeOK
<1>3. CASE k[1] = "wait"
  <2>1. PICK s \in Sem : k = <<"wait", s>>
    BY <1>2, <1>3 DEF Continuation
  <2>2. /\ resume' = [resume EXCEPT ![current] = <<"user">>]
        /\ holds' = IF s \in Locks THEN [holds EXCEPT ![s] = @ \cup {current}] ELSE holds
    BY <1>3, <2>1 DEF Dispatch
  <2>3. /\ resume'[current] = <<"user">>
        /\ \A x \in Tid : x # current => resume'[x] = resume[x]
    BY <1>2, <2>2
  <2>4. QED
    BY <1>1, <2>1, <2>2, <2>3
<1>4. CASE k[1] # "wait"
  <2>1. UNCHANGED <<resume, holds>>
    BY <1>4 DEF Dispatch
  <2>2. QED
    BY <1>1, <1>4, <2>1
<1>5. QED
  BY <1>3, <1>4

LEMMA DispatchKeeps == ASSUME PlaceInv, TypeOK', Dispatch PROVE ThreadsPlaced'
<1>1. /\ UNCHANGED <<sched_list, sched_queue_i, priority, tcb_list, current,
                     sem_list, wait_sem, time_list, expired>>
      /\ Settled /\ ~need_reesched'
  BY DispatchEffect DEF PlaceInv, ThreadsPlaced, CallSchedules
<1>2. \A x \in Thread : resume'[x] = resume[x] \/ (Settled /\ x = current)
  BY DispatchEffect, TidFacts
<1>3. \A x \in expired : resume'[x] = resume[x]
  <2>1. ASSUME NEW x \in expired, x = current PROVE resume'[x] = resume[x]
    <3>1. PICK s \in Timed : resume[x] = <<"timed", s>>
      BY WaitersAre
    <3>2. \A r \in Sem : <<"wait", r>> # <<"timed", s>>
      OBVIOUS
    <3>3. QED
      BY <2>1, <3>1, <3>2, DispatchEffect
  <2>2. expired \subseteq Tid
    BY PlaceParts, TidFacts DEF TypeOK
  <2>3. QED
    BY <2>1, <2>2, DispatchEffect
<1>4. QED
  BY <1>1, <1>2, <1>3, ListsStayKeeps

LEMMA StepsOnKeeps == ASSUME PlaceInv, TypeOK', StepsOn PROVE ThreadsPlaced'
<1>1. /\ UNCHANGED <<sched_list, sched_queue_i, priority, tcb_list, current,
                     sem_list, wait_sem, time_list, expired, resume, need_reesched>>
      /\ Settled' => Settled
  BY StepsOnIs DEF queues, cpu, tasks, sems, times, Settled
<1>2. Settled' => ~need_reesched'
  BY <1>1 DEF PlaceInv, ThreadsPlaced, CallSchedules
<1>3. QED
  BY <1>1, <1>2, ListsStayKeeps

LEMMA TickKeeps == ASSUME PlaceInv, TypeOK', Tick PROVE ThreadsPlaced'
<1>1. /\ UNCHANGED <<sched_list, sched_queue_i, priority, tcb_list, current,
                     sem_list, wait_sem, time_list, expired, resume, need_reesched>>
      /\ Settled' <=> Settled
  BY DEF Tick, queues, cpu, tasks, sems, Settled
<1>2. Settled' => ~need_reesched'
  BY <1>1 DEF PlaceInv, ThreadsPlaced, CallSchedules
<1>3. QED
  BY <1>1, <1>2, ListsStayKeeps

LEMMA StutterKeeps == ASSUME PlaceInv, TypeOK', UNCHANGED vars PROVE ThreadsPlaced'
<1>1. /\ UNCHANGED <<sched_list, sched_queue_i, priority, tcb_list, current,
                     sem_list, wait_sem, time_list, expired, resume, need_reesched>>
      /\ Settled' <=> Settled
  BY DEF vars, queues, cpu, tasks, sems, times, Settled
<1>2. Settled' => ~need_reesched'
  BY <1>1 DEF PlaceInv, ThreadsPlaced, CallSchedules
<1>3. QED
  BY <1>1, <1>2, ListsStayKeeps

LEMMA NextPlaces == PlaceInv /\ IsrAssumption /\ [Next]_vars => PlaceInv'
<1> SUFFICES ASSUME PlaceInv, IsrAssumption, [Next]_vars PROVE PlaceInv'
  OBVIOUS
<1>1. TypeOK'
  BY PlaceParts, NextTypes
<1>2. ThreadsPlaced'
  <2>1. CASE Next
    BY <1>1, <2>1, NextCases, TaskCreateKeeps, ThreadExitKeeps, SemWaitKeeps,
       SemBlocksKeeps, SemTryWaitKeeps, SemPostKeeps, SleepKeeps, SemTimedWaitKeeps,
       SemTimedWaitReturnsKeeps, HandleClockEventKeeps, StepsOnKeeps, ScheduleKeeps,
       DispatchKeeps, TimerISRKeeps, ClockISRKeeps, IRQMarkEventKeeps, TickKeeps
  <2>2. CASE UNCHANGED vars
    BY <1>1, <2>2, StutterKeeps
  <2>3. QED
    BY <2>1, <2>2
<1>3. TakenUntilBlocked'
  BY PlaceParts, NextKeepsTaken DEF PlaceInv
<1>4. cut' = {}
  <2>1. ASSUME NEW s \in Events, IRQMarkEvent(s) PROVE cut' = cut
    <3>1. pc = "user" /\ cut' = cut \cup {r \in Sem : pc = "queue" /\ resume[current] = <<"queue", r>>}
      BY <2>1 DEF IRQMarkEvent, IsrAssumption, AtUser
    <3>2. QED
      BY <3>1
  <2>2. QED
    BY <2>1, CutStays DEF PlaceInv
<1>5. QED
  BY <1>2, <1>3, <1>4 DEF PlaceInv


LEMMA InitPlaces == Init => PlaceInv
<1> SUFFICES ASSUME Init PROVE PlaceInv
  OBVIOUS
<1> DEFINE q == [EmptyQueues EXCEPT ![MinPriority] = <<Idle>>]
<1>1. /\ \A p \in Prio : q[p] = IF p = MinPriority THEN <<Idle>> ELSE <<>>
      /\ q \in [Prio -> Seq(Thread)]
  <2>1. EmptyQueues \in [Prio -> Seq(Thread)] /\ <<Idle>> \in Seq(Thread)
    BY TidFacts, EmptySeq DEF EmptyQueues
  <2>2. QED
    BY <2>1 DEF EmptyQueues
<1>2. /\ \A x : In(<<Idle>>, x) <=> x = Idle
      /\ \A x : ~In(<<>>, x)
      /\ Distinct(<<Idle>>) /\ Distinct(<<>>)
  BY DEF In, Distinct
<1> HIDE DEF q
<1>3. \A x : Queued(q, x) <=> x = Idle
  BY <1>1, <1>2, PrioInt DEF Queued
<1>4. sched_list = q
  BY DEF Init, q
<1>5. QueuesOK(Thread, Tid, sched_list, sched_queue_i, priority)
  <2>1. priority \in [Tid -> Prio] /\ priority[Idle] = MinPriority
    BY TidFacts, PrioInt DEF Init
  <2>2. sched_queue_i \in Prio /\ \A p \in Prio : ~(p < sched_queue_i)
    BY PrioInt DEF Init, Prio, MaxPriority
  <2>3. \A p \in Prio : \A t \in Thread : In(q[p], t) => priority[t] = p
    BY <1>1, <1>2, <2>1
  <2>4. \A p \in Prio : Distinct(q[p])
    BY <1>1, <1>2
  <2>5. QED
    BY <1>1, <1>4, <2>1, <2>2, <2>3, <2>4, TidFacts DEF QueuesOK
<1>6. /\ Distinct(tcb_list)
      /\ \A x : In(tcb_list, x) => x # Idle /\ x # Main
  <2> DEFINE n == MaxThreads - 3
  <2>1. n \in Nat /\ tcb_list = [i \in 1 .. n |-> i + 2]
    BY KernelAssumption DEF Init
  <2> HIDE DEF n
  <2>2. DOMAIN tcb_list = 1 .. n /\ \A i \in 1 .. n : tcb_list[i] = i + 2
    BY <2>1
  <2>3. Distinct(tcb_list)
    BY <2>2 DEF Distinct
  <2>4. \A x : In(tcb_list, x) => x # Idle /\ x # Main
    BY <2>1, <2>2 DEF In, Idle, Main
  <2>5. QED
    BY <2>3, <2>4
<1>7. /\ \A t : ~Waits(t)
      /\ \A s \in Sem : \A t : ~In(sem_list[s], t)
      /\ \A t : ~In(time_list, t)
      /\ Distinct(time_list) /\ \A s \in Sem : Distinct(sem_list[s])
  BY <1>2 DEF Init, Waits, InSem
<1>8. current = Main /\ expired = {} /\ need_reesched = FALSE
  BY DEF Init
<1>9. OnePlace
  BY <1>3, <1>4, <1>6, <1>7, <1>8, TidFacts DEF OnePlace
<1>10. GoesOnWithItsWait /\ CallSchedules
  BY <1>7, <1>8 DEF GoesOnWithItsWait, CallSchedules
<1>11. TakenUntilBlocked /\ cut = {}
  BY DEF Init, TakenUntilBlocked
<1>12. QED
  BY <1>5, <1>9, <1>10, <1>11, InitTypes DEF PlaceInv, ThreadsPlaced

\* No thread is in two places, whatever the kernel is doing: in a ready queue,
\* in the wait queues, in the free list or on the processor.  An ISR that comes
\* during a system call puts the running thread in two places (irqev.c:176 and
\* run KernelEventInCall), and so does one whose post wakes a thread that is
\* also in the time queue.
THEOREM PlacesCorrect ==
    ASSUME EventInCall = FALSE, Timed \cap Events = {}
    PROVE  Spec => []PlaceInv
<1>1. IsrAssumption
  BY DEF IsrAssumption
<1>2. Init => PlaceInv
  BY InitPlaces
<1>3. PlaceInv /\ [Next]_vars => PlaceInv'
  BY <1>1, NextPlaces
<1>4. QED
  BY <1>2, <1>3, PTL DEF Spec

\* A thread that was woken waits nowhere: a post takes it out of the time
\* queue, its timeout takes it out of the line for the semaphore, and wait_sem
\* tells which line that is (sem.c:128-140, time.c:248-258).
THEOREM WokenLeaveTheirQueues ==
    ASSUME EventInCall = FALSE, Timed \cap Events = {}
    PROVE  Spec => []WokenWaitsNowhere
<1>1. PlaceInv => WokenWaitsNowhere
  <2> SUFFICES ASSUME PlaceInv PROVE WokenWaitsNowhere
    OBVIOUS
  <2>1. \A t \in Thread : Queued(sched_list, t) => ~InSem(t) /\ ~In(time_list, t)
    BY PlaceParts DEF Waits
  <2>2. pc \in {"user", "entry", "queue"} => ~InSem(current) /\ ~In(time_list, current)
    BY PlaceParts DEF Waits, Settled
  <2>3. \A s \in Sem : \A t \in Thread : In(sem_list[s], t) => wait_sem[t] = s
    BY WaitersAre
  <2>4. QED
    BY <2>1, <2>2, <2>3 DEF WokenWaitsNowhere
<1>2. QED
  BY <1>1, PlacesCorrect, PTL

----------------------------------------------------------------------------
(* The time queue is in order.                                             *)

LEMMA TimeQueueIsSorted == TimeQueueSorted <=> Sorted(time_list, left)
BY DEF TimeQueueSorted, Sorted

LEMMA EnqueueSorts ==
    ASSUME PlaceInv, TimeQueueSorted, Body, NEW d \in Int, Enqueue(d)
    PROVE  TimeQueueSorted'
<1>1. /\ TypeOK /\ ~In(time_list, current) /\ current \in Thread /\ current \in Tid
      /\ time_list \in Seq(Thread) /\ left \in [Tid -> Int]
  BY AtBody, PlaceParts, TidFacts DEF TypeOK
<1>2. left' = [left EXCEPT ![current] = d]
  BY DEF Enqueue
<1>3. PICK i \in 1 .. (Len(time_list) + 1) :
         /\ \A j \in 1 .. (i - 1) : left[time_list[j]] <= d
         /\ i <= Len(time_list) => left[time_list[i]] > d
         /\ time_list' = Insertion(time_list, i, current)
  BY <1>1, EnqueueIs
<1>4. /\ left'[current] = d /\ \A x \in Thread : left'[x] \in Int
      /\ \A x \in Thread : x # current => left'[x] = left[x]
  BY <1>1, <1>2, TidFacts
<1>5. Sorted(time_list, left')
  <2>1. \A x : In(time_list, x) => left'[x] = left[x]
    BY <1>1, <1>4, EmptyHoldsNothing
  <2>2. QED
    BY <2>1, TimeQueueIsSorted, SortedBySameValues
<1>6. \A j \in 1 .. Len(time_list) : left'[time_list[j]] = left[time_list[j]]
  <2>1. ASSUME NEW j \in 1 .. Len(time_list) PROVE left'[time_list[j]] = left[time_list[j]]
    <3>1. time_list[j] \in Thread /\ In(time_list, time_list[j])
      BY <1>1 DEF In
    <3>2. QED
      BY <1>1, <1>4, <3>1
  <2>2. QED
    BY <2>1
<1>7. /\ \A j \in 1 .. (i - 1) : left'[time_list[j]] <= left'[current]
      /\ i <= Len(time_list) => left'[current] < left'[time_list[i]]
  <2>1. \A j \in 1 .. Len(time_list) : left[time_list[j]] \in Int
    BY <1>1, TidFacts
  <2>2. Len(time_list) \in Nat
    BY <1>1
  <2> DEFINE n == Len(time_list)
             g(j) == left[time_list[j]]
             h(j) == left'[time_list[j]]
  <2>3. /\ \A j \in 1 .. n : g(j) \in Int /\ h(j) = g(j)
        /\ \A j \in 1 .. (i - 1) : g(j) <= d
        /\ i <= n => g(i) > d
    BY <1>3, <1>6, <2>1
  <2> HIDE DEF n, g, h
  <2>4. n \in Nat /\ i \in 1 .. (n + 1)
    BY <2>2 DEF n
  <2>5. /\ \A j \in 1 .. (i - 1) : h(j) <= d
        /\ i <= n => d < h(i)
    BY <2>3, <2>4
  <2>6. QED
    BY <1>4, <2>5 DEF n, h
<1>8. Sorted(Insertion(time_list, i, current), left')
  BY <1>1, <1>4, <1>5, <1>7, InsertKeepsOrder
<1>9. Sorted(time_list', left')
  BY <1>3, <1>8
<1>10. QED
  BY <1>9 DEF TimeQueueSorted, Sorted

\* A thread leaves the queue, and its timeout is reset.
LEMMA LeavingKeepsOrder ==
    ASSUME PlaceInv, TimeQueueSorted, NEW t \in Thread,
           \/ time_list' = Without(time_list, t)
           \/ time_list # <<>> /\ t = Head(time_list) /\ time_list' = Tail(time_list),
           left' = [left EXCEPT ![t] = 0]
    PROVE  TimeQueueSorted'
<1>1. time_list \in Seq(Thread) /\ TypeOK /\ Sorted(time_list, left)
  BY PlaceParts, TimeQueueIsSorted DEF TypeOK
<1>2. Sorted(time_list', left) /\ \A x : In(time_list', x) => In(time_list, x) /\ x # t
  <2>1. /\ Sorted(Without(time_list, t), left)
        /\ \A x : In(Without(time_list, t), x) => In(time_list, x) /\ x # t
    BY <1>1, WithoutKeepsOrder, LeavesList
  <2>2. time_list # <<>> /\ t = Head(time_list) =>
           /\ Sorted(Tail(time_list), left)
           /\ \A x : In(Tail(time_list), x) => In(time_list, x) /\ x # t
    BY <1>1, TailKeepsOrder, LeavesList
  <2>3. QED
    BY <2>1, <2>2
<1>3. \A x : In(time_list', x) => x # t /\ x \in Thread
  BY <1>2, WaitersAre
<1>4. \A x : In(time_list', x) => left'[x] = left[x]
  BY <1>1, <1>3, TidFacts DEF TypeOK
<1>5. Sorted(time_list', left')
  BY <1>2, <1>4, SortedBySameValues
<1>6. QED
  BY <1>5 DEF TimeQueueSorted, Sorted

LEMMA TickKeepsOrder == ASSUME TypeOK, TimeQueueSorted, Tick PROVE TimeQueueSorted'
<1> SUFFICES ASSUME NEW i \in DOMAIN time_list, NEW j \in DOMAIN time_list, i < j
             PROVE  left'[time_list[i]] <= left'[time_list[j]]
  BY DEF Tick, TimeQueueSorted
<1> DEFINE x == time_list[i]
           y == time_list[j]
<1>1. /\ x \in Tid /\ y \in Tid /\ left[x] \in Int /\ left[y] \in Int
      /\ In(time_list, x) /\ In(time_list, y) /\ left[x] <= left[y]
  <2>1. time_list \in Seq(Thread) /\ left \in [Tid -> Int]
    BY DEF TypeOK
  <2>2. x \in Tid /\ y \in Tid
    BY <2>1, TidFacts
  <2>3. In(time_list, x) /\ In(time_list, y)
    BY DEF In
  <2>4. left[x] <= left[y]
    BY DEF TimeQueueSorted
  <2> HIDE DEF x, y
  <2>5. QED
    BY <2>1, <2>2, <2>3, <2>4
<1> HIDE DEF x, y
<1>2. \A t \in Tid : In(time_list, t) =>
         left'[t] = IF left[t] > -Overflow THEN left[t] - 1 ELSE left[t]
  BY DEF Tick
<1>3. left'[x] <= left'[y]
  <2> DEFINE a == left[x]
             b == left[y]
  <2>1. /\ left'[x] = IF a > -Overflow THEN a - 1 ELSE a
        /\ left'[y] = IF b > -Overflow THEN b - 1 ELSE b
        /\ a \in Int /\ b \in Int /\ a <= b
    BY <1>1, <1>2
  <2> HIDE DEF a, b
  <2>2. QED
    BY <2>1, KernelAssumption
<1>4. QED
  BY <1>3 DEF x, y

LEMMA ClockBottomKeepsOrder ==
    ASSUME PlaceInv, TimeQueueSorted, NEW late, NEW offers, NEW marked,
           ClockBottomISR(late, offers, marked)
    PROVE  TimeQueueSorted'
<1>1. CASE Due(late)
  <2> DEFINE t == Head(time_list)
  <2>1. /\ time_list # <<>> /\ time_list' = Tail(time_list)
        /\ left' = [left EXCEPT ![t] = 0]
    BY <1>1 DEF ClockBottomISR, Due
  <2>2. t \in Thread
    BY <2>1, ListTypes, PlaceParts
  <2> HIDE DEF t
  <2>3. time_list # <<>> /\ t = Head(time_list) /\ time_list' = Tail(time_list)
    BY <2>1 DEF t
  <2>4. QED
    BY <2>1, <2>2, <2>3, LeavingKeepsOrder
<1>2. CASE ~Due(late)
  <2>1. UNCHANGED <<time_list, left>>
    BY <1>2 DEF ClockBottomISR
  <2>2. QED
    BY <2>1 DEF TimeQueueSorted
<1>3. QED
  BY <1>1, <1>2

LEMMA NextKeepsOrder ==
    PlaceInv /\ TimeQueueSorted /\ [Next]_vars => TimeQueueSorted'
<1> SUFFICES ASSUME PlaceInv, TimeQueueSorted, [Next]_vars PROVE TimeQueueSorted'
  OBVIOUS
<1>1. CASE UNCHANGED <<time_list, left>>
  BY <1>1 DEF TimeQueueSorted
<1>2. ASSUME NEW n \in Delays, Sleep(n) \/ \E s \in Timed : SemTimedWait(s, n)
      PROVE  TimeQueueSorted'
  <2> DEFINE d == n - Late
  <2>1. d \in Int /\ Body /\ (Enqueue(d) \/ UNCHANGED <<time_list, left>>)
    BY <1>2, DelayIsTimeout DEF Sleep, SemTimedWait, Call, times
  <2> HIDE DEF d
  <2>2. QED
    BY <1>1, <2>1, EnqueueSorts
<1>3. ASSUME NEW s \in Sem, SemPost(s) PROVE TimeQueueSorted'
  <2> DEFINE t == Head(sem_list[s])
  <2>1. CASE sem_list[s] # <<>>
    <3>1. /\ t \in Thread /\ time_list' = Without(time_list, t)
          /\ left' = [left EXCEPT ![t] = 0]
      BY <1>3, <2>1, ListTypes, PlaceParts DEF SemPost, TimeRemoveFromQueue
    <3> HIDE DEF t
    <3>2. QED
      BY <3>1, LeavingKeepsOrder
  <2>2. CASE sem_list[s] = <<>>
    BY <1>1, <1>3, <2>2 DEF SemPost
  <2>3. QED
    BY <2>1, <2>2
<1>4. CASE HandleClockEvent \/ TimerISR
  <2>1. CASE \E late, offers, marked : ClockBottomISR(late, offers, marked)
    BY <2>1, ClockBottomKeepsOrder
  <2>2. QED
    BY <1>1, <1>4, <2>1 DEF HandleClockEvent, TimerISR, times
<1>5. CASE Tick
  BY <1>5, TickKeepsOrder, PlaceParts
<1>6. CASE \/ \E p \in Prio : TaskCreate(p)
           \/ ThreadExit
           \/ \E s \in Sem : SemWait(s) \/ SemBlocks(s) \/ SemTryWait(s)
           \/ \E s \in Timed : SemTimedWaitReturns(s)
           \/ StepsOn \/ Schedule \/ Dispatch \/ ClockISR
           \/ \E s \in Events : IRQMarkEvent(s)
  <2>1. UNCHANGED <<time_list, left>>
    BY <1>6, StepsOnIs DEF TaskCreate, ThreadExit, SemWait, FindsTaken, SemBlocks,
       SemTryWait, SemTimedWaitReturns, Schedule, Dispatch, ClockISR, IRQMarkEvent, times
  <2>2. QED
    BY <1>1, <2>1
<1>7. CASE UNCHANGED vars
  BY <1>1, <1>7 DEF vars, times
<1>8. QED
  BY <1>2, <1>3, <1>4, <1>5, <1>6, <1>7, NextCases

\* The time queue stays in the order of the timeouts while threads enter it in
\* the middle, leave it from the middle when a post wakes them and from the
\* head when time is over: OS_ClockBottomISR may stop at its head.
THEOREM TimeQueueInOrder ==
    ASSUME EventInCall = FALSE, Timed \cap Events = {}
    PROVE  Spec => []TimeQueueSorted
<1>1. Init => TimeQueueSorted
  BY DEF Init, TimeQueueSorted
<1>2. PlaceInv /\ TimeQueueSorted /\ [Next]_vars => TimeQueueSorted'
  BY NextKeepsOrder
<1>3. QED
  BY <1>1, <1>2, PlacesCorrect, PTL DEF Spec


----------------------------------------------------------------------------
(* Nobody is woken before its time, but by a post.                         *)

\* What NoEarlyWake says of a step.
OnlyPostsAreEarly ==
    \A t \in Thread :
       In(time_list, t) /\ ~In(time_list', t) /\ left[t] > 0 =>
          resume[t] # <<"user">> /\ t \notin expired'

LEMMA ClockBottomOnTime ==
    ASSUME PlaceInv, NEW late \in {0, Overflow}, NEW offers \in BOOLEAN, NEW marked,
           ClockBottomISR(late, offers, marked),
           UNCHANGED <<tcb_list, current, priority>>
    PROVE  OnlyPostsAreEarly
<1> SUFFICES ASSUME NEW t \in Thread, In(time_list, t), ~In(time_list', t) PROVE ~(left[t] > 0)
  BY DEF OnlyPostsAreEarly
<1> DEFINE h == Head(time_list)
           T == IF Due(late) THEN {h} ELSE {}
<1>1. WakeEffect(T, offers)
  BY ClockBottomEffect
<1> HIDE DEF h
<1>2. Due(late) /\ t = h
  BY <1>1 DEF WakeEffect
<1>3. left[h] + late <= 0
  BY <1>2 DEF Due, h
<1>4. left[h] \in Int
  BY <1>2, PlaceParts, TidFacts DEF TypeOK
<1>5. QED
  BY <1>2, <1>3, <1>4, KernelAssumption

LEMMA NextOnTime == PlaceInv /\ IsrAssumption /\ Next => OnlyPostsAreEarly
<1> SUFFICES ASSUME PlaceInv, IsrAssumption, Next PROVE OnlyPostsAreEarly
  OBVIOUS
<1>1. CASE \A t \in Thread : In(time_list, t) => In(time_list', t)
  BY <1>1 DEF OnlyPostsAreEarly
<1>2. ASSUME NEW n \in Delays, Sleep(n) \/ \E s \in Timed : SemTimedWait(s, n)
      PROVE  OnlyPostsAreEarly
  <2> DEFINE d == n - Late
  <2>1. d \in Int /\ Body /\ (Enqueue(d) \/ UNCHANGED time_list)
    BY <1>2, DelayIsTimeout DEF Sleep, SemTimedWait, Call, times
  <2> HIDE DEF d
  <2>2. CASE Enqueue(d)
    BY <1>1, <2>1, <2>2, EnqueueEffect
  <2>3. CASE UNCHANGED time_list
    BY <1>1, <2>3
  <2>4. QED
    BY <2>1, <2>2, <2>3
<1>3. ASSUME NEW s \in Sem, SemPost(s) PROVE OnlyPostsAreEarly
  <2> DEFINE h == Head(sem_list[s])
  <2>1. CASE sem_list[s] # <<>>
    <3>1. /\ In(sem_list[s], h) /\ h \notin expired
          /\ WakeEffect({h}, TRUE)
      BY <1>3, <2>1, SemPostEffect
    <3>2. expired' = expired
      BY <1>3 DEF SemPost
    <3> HIDE DEF h
    <3>3. resume[h] # <<"user">>
      BY <3>1, WaitersAre
    <3>4. QED
      BY <3>1, <3>2, <3>3 DEF WakeEffect, OnlyPostsAreEarly
  <2>2. CASE sem_list[s] = <<>>
    BY <1>1, <1>3, <2>2 DEF SemPost
  <2>3. QED
    BY <2>1, <2>2
<1>4. CASE HandleClockEvent \/ TimerISR
  <2>1. UNCHANGED <<tcb_list, current, priority>> /\ AtUser \in BOOLEAN
    BY <1>4 DEF HandleClockEvent, TimerISR, tasks, cpu, AtUser
  <2>2. CASE \E late \in {0, Overflow} : \E offers \in BOOLEAN : \E marked :
                ClockBottomISR(late, offers, marked)
    BY <2>1, <2>2, ClockBottomOnTime
  <2>3. CASE UNCHANGED time_list
    BY <1>1, <2>3
  <2>4. QED
    BY <1>4, <2>1, <2>2, <2>3 DEF HandleClockEvent, TimerISR, times, Late
<1>5. CASE \/ \E p \in Prio : TaskCreate(p)
           \/ ThreadExit
           \/ \E s \in Sem : SemWait(s) \/ SemBlocks(s) \/ SemTryWait(s)
           \/ \E s \in Timed : SemTimedWaitReturns(s)
           \/ StepsOn \/ Schedule \/ Dispatch \/ ClockISR \/ Tick
           \/ \E s \in Events : IRQMarkEvent(s)
  <2>1. UNCHANGED time_list
    BY <1>5, StepsOnIs DEF TaskCreate, ThreadExit, SemWait, FindsTaken, SemBlocks,
       SemTryWait, SemTimedWaitReturns, Schedule, Dispatch, ClockISR, IRQMarkEvent, Tick, times
  <2>2. QED
    BY <1>1, <2>1
<1>6. QED
  BY <1>2, <1>3, <1>4, <1>5, NextCases

\* No thread that sleeps is woken before its timeout is over, and one that
\* waits for a semaphore with a timeout only by the post that gives it the
\* semaphore, although OS_TimerISR, OS_ClockISR and the end of every call look
\* at the time queue, with a clock that may be a period late (time.c:225-300).
THEOREM NobodyWakesEarly ==
    ASSUME EventInCall = FALSE, Timed \cap Events = {}
    PROVE  Spec => NoEarlyWake
<1>1. IsrAssumption
  BY DEF IsrAssumption
<1>2. PlaceInv /\ [Next]_vars => [OnlyPostsAreEarly]_vars
  BY <1>1, NextOnTime
<1>3. QED
  BY <1>2, PlacesCorrect, PTL DEF Spec, NoEarlyWake, OnlyPostsAreEarly


----------------------------------------------------------------------------
(* A lock has one owner.                                                   *)

\* A step that leaves the state of the lock s and what was granted alone.
LEMMA OwnerStays ==
    ASSUME NEW s \in Locks, OneOwner(s),
           sem_value'[s] = sem_value[s], tid_in'[s] = tid_in[s], holds'[s] = holds[s],
           \A t \in Tid : Granted(t, s)' <=> Granted(t, s),
           \A t \in Tid :
              resume'[t] = <<"timed", s>> /\ (In(sem_list'[s], t) \/ t \in expired') =>
                 \/ resume[t] = <<"timed", s>> /\ (In(sem_list[s], t) \/ t \in expired)
                 \/ tid_in[s] # t
    PROVE  OneOwner(s)'
BY DEF OneOwner

LEMMA LocksStay ==
    ASSUME LockHasOneOwner,
           UNCHANGED <<sem_value, tid_in, holds, sem_list, resume, expired>>
    PROVE  LockHasOneOwner'
BY DEF LockHasOneOwner, OneOwner, Granted

\* A step that wakes the thread in T, but not because it was given a lock.
LEMMA QuietLocks ==
    ASSUME PlaceInv, LockHasOneOwner, NEW T, NEW offers, WakeEffect(T, offers),
           UNCHANGED resume,
           \A s \in Locks :
              /\ sem_value'[s] = sem_value[s] /\ tid_in'[s] = tid_in[s]
              /\ holds'[s] = holds[s]
              /\ \A t \in T : \/ resume[t] \notin {<<"wait", s>>, <<"timed", s>>}
                              \/ In(sem_list[s], t) /\ t \in expired',
           expired \subseteq expired',
           \A x \in expired' : x \in expired \/ x \in T
    PROVE  LockHasOneOwner'
<1> SUFFICES ASSUME NEW s \in Locks PROVE OneOwner(s)'
  BY DEF LockHasOneOwner
<1>1. s \in Sem /\ OneOwner(s)
  BY KernelAssumption DEF LockHasOneOwner
<1>2. \A x : In(sem_list'[s], x) <=> In(sem_list[s], x) /\ x \notin T
  BY <1>1 DEF WakeEffect
<1>3. \A t \in Tid : Granted(t, s)' <=> Granted(t, s)
  BY <1>2 DEF Granted
<1>4. \A t \in Tid :
         resume'[t] = <<"timed", s>> /\ (In(sem_list'[s], t) \/ t \in expired') =>
            resume[t] = <<"timed", s>> /\ (In(sem_list[s], t) \/ t \in expired)
  BY <1>2
<1>5. QED
  BY <1>1, <1>3, <1>4, OwnerStays

LEMMA ClockBottomLocks ==
    ASSUME PlaceInv, LockHasOneOwner, NEW late, NEW offers \in BOOLEAN, NEW marked,
           ClockBottomISR(late, offers, marked),
           UNCHANGED <<tcb_list, current, priority, resume>>
    PROVE  LockHasOneOwner'
<1> DEFINE T == IF Due(late) THEN {Head(time_list)} ELSE {}
<1>1. /\ WakeEffect(T, offers) /\ expired \subseteq expired'
      /\ \A t \in T : In(time_list, t) /\ (resume[t] # <<"user">> => t \in expired')
      /\ \A x \in expired' : x \in expired \/ x \in T
  BY ClockBottomEffect
<1> HIDE DEF T
<1>2. UNCHANGED <<sem_value, tid_in, holds>>
  BY DEF ClockBottomISR
<1>3. ASSUME NEW s \in Locks, NEW t \in T
      PROVE  \/ resume[t] \notin {<<"wait", s>>, <<"timed", s>>}
             \/ In(sem_list[s], t) /\ t \in expired'
  <2>1. CASE resume[t] = <<"user">>
    BY <2>1
  <2>2. CASE resume[t] # <<"user">>
    <3>1. PICK r \in Timed : resume[t] = <<"timed", r>> /\ In(sem_list[r], t)
      BY <1>1, <2>2, WaitersAre
    <3>2. resume[t] \in {<<"wait", s>>, <<"timed", s>>} => r = s
      BY <3>1
    <3>3. QED
      BY <1>1, <2>2, <3>1, <3>2
  <2>3. QED
    BY <2>1, <2>2
<1>4. QED
  BY <1>1, <1>2, <1>3, QuietLocks

\* The caller takes a free lock.
LEMMA CatchLocks ==
    ASSUME PlaceInv, LockHasOneOwner, NEW s \in Sem, Catch(s),
           resume[current] = <<"user">>, UNCHANGED <<resume, expired>>
    PROVE  LockHasOneOwner'
<1> SUFFICES ASSUME NEW r \in Locks PROVE OneOwner(r)'
  BY DEF LockHasOneOwner
<1>1. r \in Sem /\ OneOwner(r)
  BY KernelAssumption DEF LockHasOneOwner
<1>2. /\ sem_value[s] = 1 /\ sem_list' = sem_list
      /\ sem_value' = [sem_value EXCEPT ![s] = 0]
      /\ tid_in' = [tid_in EXCEPT ![s] = current]
      /\ holds' = IF s \in Locks THEN [holds EXCEPT ![s] = @ \cup {current}] ELSE holds
  BY DEF Catch
<1>3. \A t \in Tid : Granted(t, r)' <=> Granted(t, r)
  BY <1>2 DEF Granted
<1>4. CASE r = s
  <2>1. sem_value'[r] = 0 /\ tid_in'[r] = current /\ holds'[r] = holds[r] \cup {current}
    BY <1>1, <1>2, <1>4, PlaceParts DEF TypeOK
  <2>2. holds[r] = {} /\ \A t \in Tid : ~Granted(t, r)
    BY <1>1, <1>2, <1>4 DEF OneOwner
  <2>3. holds'[r] = {tid_in'[r]} /\ \A t \in Tid : ~Granted(t, r)'
    BY <1>3, <2>1, <2>2
  <2>4. \A t \in Tid : resume'[t] = <<"timed", r>> => tid_in'[r] # t
    BY <2>1
  <2>5. QED
    BY <2>1, <2>3, <2>4 DEF OneOwner
<1>5. CASE r # s
  <2>1. /\ sem_value'[r] = sem_value[r] /\ tid_in'[r] = tid_in[r]
        /\ holds'[r] = holds[r]
    BY <1>1, <1>2, <1>5, PlaceParts DEF TypeOK
  <2>2. QED
    BY <1>1, <1>2, <1>3, <2>1, OwnerStays
<1>6. QED
  BY <1>4, <1>5

\* The caller gets in line for a lock that it does not hold.
LEMMA QueueLocks ==
    ASSUME PlaceInv, LockHasOneOwner, Body, NEW s \in Sem,
           resume[current] \in {<<"user">>, <<"queue", s>>},
           Taken(s), MayWait(s), Queue(s), NEW k \in {<<"wait", s>>, <<"timed", s>>},
           resume' = [resume EXCEPT ![current] = k], UNCHANGED expired
    PROVE  LockHasOneOwner'
<1> SUFFICES ASSUME NEW r \in Locks PROVE OneOwner(r)'
  BY DEF LockHasOneOwner
<1>1. r \in Sem /\ OneOwner(r)
  BY KernelAssumption DEF LockHasOneOwner
<1>2. UNCHANGED <<sem_value, tid_in, holds>> /\ sem_value[s] = 0
  BY DEF Queue, Taken
<1>3. \A x : In(sem_list'[r], x) <=> In(sem_list[r], x) \/ (r = s /\ x = current)
  BY <1>1, QueueEffect
<1>4. /\ current \in Tid /\ resume'[current] = k
      /\ \A x \in Tid : x # current => resume'[x] = resume[x]
  BY PlaceParts, TidFacts DEF TypeOK
<1>5. ~Granted(current, r)
  <2>1. /\ <<"user">> \notin {<<"wait", r>>, <<"timed", r>>}
        /\ <<"queue", s>> \notin {<<"wait", r>>, <<"timed", r>>}
    OBVIOUS
  <2>2. QED
    BY <2>1 DEF Granted
<1>6. \A t \in Tid : Granted(t, r)' <=> Granted(t, r)
  <2>1. ASSUME NEW t \in Tid, t # current PROVE Granted(t, r)' <=> Granted(t, r)
    BY <1>3, <1>4, <2>1 DEF Granted
  <2>2. ASSUME NEW t \in Tid, t = current PROVE Granted(t, r)' <=> Granted(t, r)
    <3>1. resume'[t] \in {<<"wait", r>>, <<"timed", r>>} => In(sem_list'[r], t)
      BY <1>3, <1>4, <2>2
    <3>2. ~Granted(t, r)'
      BY <3>1 DEF Granted
    <3>3. QED
      BY <1>5, <2>2, <3>2
  <2>3. QED
    BY <2>1, <2>2
<1>7. r = s => tid_in[r] # current
  <2>1. r = s => current \notin holds[r] /\ sem_value[r] = 0
    BY <1>2 DEF MayWait
  <2>2. QED
    BY <1>1, <1>4, <1>5, <2>1 DEF OneOwner
<1>8. \A t \in Tid :
         resume'[t] = <<"timed", r>> /\ (In(sem_list'[r], t) \/ t \in expired') =>
            \/ resume[t] = <<"timed", r>> /\ (In(sem_list[r], t) \/ t \in expired)
            \/ tid_in[r] # t
  <2>1. resume'[current] = <<"timed", r>> => r = s
    BY <1>4
  <2>2. QED
    BY <1>3, <1>4, <1>7, <2>1
<1>9. QED
  BY <1>1, <1>2, <1>6, <1>8, OwnerStays


\* A post frees the lock of the caller, or gives it to the first in line.
LEMMA SemPostLocks ==
    ASSUME PlaceInv, LockHasOneOwner, NEW s \in Sem, SemPost(s) PROVE LockHasOneOwner'
<1> SUFFICES ASSUME NEW r \in Locks PROVE OneOwner(r)'
  BY DEF LockHasOneOwner
<1>1. /\ r \in Sem /\ OneOwner(r) /\ UNCHANGED <<resume, expired>>
      /\ s \in Locks => current \in holds[s]
      /\ holds' = IF s \in Locks THEN [holds EXCEPT ![s] = @ \ {current}] ELSE holds
  BY KernelAssumption DEF LockHasOneOwner, SemPost
<1>2. /\ holds \in [Locks -> SUBSET Thread] /\ sem_value \in [Sem -> {0, 1}]
      /\ tid_in \in [Sem -> Tid]
  BY PlaceParts DEF TypeOK
<1>3. r = s => /\ sem_value[r] = 0 /\ holds[r] = {current} /\ holds'[r] = {}
               /\ \A t \in Tid : ~Granted(t, r)
  <2>1. r = s => /\ holds'[r] = holds[r] \ {current} /\ current \in holds[r]
                 /\ sem_value[r] \in {0, 1}
    BY <1>1, <1>2
  <2>2. QED
    BY <1>1, <2>1 DEF OneOwner
<1>4. r # s => holds'[r] = holds[r]
  BY <1>1, <1>2
<1>5. CASE sem_list[s] # <<>>
  <2> DEFINE h == Head(sem_list[s])
  <2>1. /\ In(sem_list[s], h) /\ h \in Thread /\ h \notin expired
        /\ resume[h] \in {<<"wait", s>>, <<"timed", s>>}
        /\ WakeEffect({h}, TRUE)
    BY <1>5, SemPostEffect
  <2>2. tid_in' = [tid_in EXCEPT ![s] = h] /\ sem_value' = sem_value
    BY <1>5 DEF SemPost, HandOver
  <2> HIDE DEF h
  <2>3. \A x : In(sem_list'[r], x) <=> In(sem_list[r], x) /\ x # h
    BY <1>1, <2>1 DEF WakeEffect
  <2>4. CASE r = s
    <3>1. sem_value'[r] = 0 /\ tid_in'[r] = h /\ holds'[r] = {}
      BY <1>1, <1>2, <1>3, <2>2, <2>4
    <3>2. ASSUME NEW t \in Tid PROVE Granted(t, r)' <=> t = h
      <4>1. CASE t = h
        BY <1>1, <2>1, <2>3, <2>4, <4>1 DEF Granted
      <4>2. CASE t # h
        <5>1. Granted(t, r)' <=> Granted(t, r)
          BY <1>1, <2>3, <4>2 DEF Granted
        <5>2. QED
          BY <1>3, <2>4, <4>2, <5>1
      <4>3. QED
        BY <4>1, <4>2
    <3>3. \A t \in Tid : In(sem_list'[r], t) \/ t \in expired' => h # t
      BY <1>1, <2>1, <2>3
    <3>4. QED
      BY <3>1, <3>2, <3>3 DEF OneOwner
  <2>5. CASE r # s
    <3>1. sem_value'[r] = sem_value[r] /\ tid_in'[r] = tid_in[r] /\ holds'[r] = holds[r]
      BY <1>1, <1>2, <1>4, <2>2, <2>5
    <3>2. ~In(sem_list[r], h) /\ resume[h] \notin {<<"wait", r>>, <<"timed", r>>}
      BY <1>1, <2>1, <2>5, WaitersAre
    <3>3. \A t \in Tid : Granted(t, r)' <=> Granted(t, r)
      BY <1>1, <2>3, <3>2 DEF Granted
    <3>4. QED
      BY <1>1, <2>3, <3>1, <3>3, OwnerStays
  <2>6. QED
    BY <2>4, <2>5
<1>6. CASE sem_list[s] = <<>>
  <2>1. /\ sem_value' = [sem_value EXCEPT ![s] = 1]
        /\ UNCHANGED <<sem_list, tid_in>>
    BY <1>6 DEF SemPost, Free
  <2>2. \A t \in Tid : Granted(t, r)' <=> Granted(t, r)
    BY <1>1, <2>1 DEF Granted
  <2>3. CASE r = s
    <3>1. sem_value'[r] = 1 /\ holds'[r] = {} /\ \A t \in Tid : ~Granted(t, r)'
      BY <1>1, <1>2, <1>3, <2>1, <2>2, <2>3
    <3>2. QED
      BY <1>1, <2>1, <3>1 DEF OneOwner
  <2>4. CASE r # s
    <3>1. sem_value'[r] = sem_value[r] /\ tid_in'[r] = tid_in[r] /\ holds'[r] = holds[r]
      BY <1>1, <1>2, <1>4, <2>1, <2>4
    <3>2. QED
      BY <1>1, <2>1, <2>2, <3>1, OwnerStays
  <2>5. QED
    BY <2>3, <2>4
<1>7. QED
  BY <1>5, <1>6

\* A thread is told the truth about the lock r when it returns from its wait
\* for it and nobody holds what it was not given.
LEMMA ToldLocks ==
    ASSUME PlaceInv, LockHasOneOwner, Settled, NEW s \in Sem,
           resume[current] \in {<<"wait", s>>, <<"timed", s>>},
           resume'[current] = <<"user">>,
           \A x \in Tid : x # current => resume'[x] = resume[x],
           UNCHANGED <<sem_value, tid_in, sem_list>>, expired' = expired \ {current},
           NEW told, told <=> resume[current] = <<"wait", s>> \/ tid_in[s] = current,
           holds' = IF s \in Locks /\ told THEN [holds EXCEPT ![s] = @ \cup {current}] ELSE holds
    PROVE  LockHasOneOwner'
<1> SUFFICES ASSUME NEW r \in Locks PROVE OneOwner(r)'
  BY DEF LockHasOneOwner
<1>1. /\ r \in Sem /\ OneOwner(r) /\ current \in Tid
      /\ holds \in [Locks -> SUBSET Thread] /\ sem_value[r] \in {0, 1}
  BY KernelAssumption, PlaceParts, TidFacts DEF LockHasOneOwner, TypeOK
<1>2. ~In(sem_list[r], current)
  BY <1>1, PlaceParts DEF Waits, InSem
<1>3. \A t \in Tid : t = current => ~Granted(t, r)'
  BY DEF Granted
<1>4. \A t \in Tid : t # current => (Granted(t, r)' <=> Granted(t, r))
  BY DEF Granted
<1>5. \A t \in Tid :
         resume'[t] = <<"timed", r>> /\ (In(sem_list'[r], t) \/ t \in expired') =>
            tid_in'[r] # t
  BY <1>1 DEF OneOwner
<1>6. CASE Granted(current, r)
  <2>1. /\ r = s /\ sem_value[r] = 0 /\ holds[r] = {} /\ tid_in[r] = current
        /\ \A t \in Tid : Granted(t, r) <=> t = current
    BY <1>1, <1>6 DEF OneOwner, Granted
  <2>2. holds'[r] = {tid_in'[r]} /\ sem_value'[r] = 0
    BY <1>1, <2>1
  <2>3. \A t \in Tid : ~Granted(t, r)'
    BY <1>3, <1>4, <2>1
  <2>4. QED
    BY <1>5, <2>2, <2>3 DEF OneOwner
<1>7. CASE ~Granted(current, r)
  <2>1. r = s => ~told
    <3>1. ASSUME r = s PROVE current \in expired
      BY <1>2, <1>7, <3>1 DEF Granted
    <3>2. ASSUME r = s PROVE resume[current] = <<"timed", s>>
      <4>1. PICK q \in Timed : resume[current] = <<"timed", q>>
        BY <3>1, <3>2, WaitersAre
      <4>2. QED
        BY <4>1
    <3>3. QED
      BY <1>1, <3>1, <3>2 DEF OneOwner
  <2>2. holds'[r] = holds[r]
    BY <1>1, <2>1
  <2>3. \A t \in Tid : Granted(t, r)' <=> Granted(t, r)
    BY <1>3, <1>4, <1>7
  <2>4. QED
    BY <1>1, <1>5, <2>2, <2>3 DEF OneOwner
<1>8. QED
  BY <1>6, <1>7


LEMMA SemTimedWaitReturnsLocks ==
    ASSUME PlaceInv, LockHasOneOwner, NEW s \in Timed, SemTimedWaitReturns(s)
    PROVE  LockHasOneOwner'
<1> DEFINE told == tid_in[s] = current
<1>1. /\ Body /\ resume[current] = <<"timed", s>> /\ s \in Sem
      /\ resume' = [resume EXCEPT ![current] = <<"user">>]
      /\ expired' = expired \ {current}
      /\ UNCHANGED <<sem_value, tid_in, sem_list>>
      /\ holds' = IF s \in Locks /\ told THEN [holds EXCEPT ![s] = @ \cup {current}] ELSE holds
  BY KernelAssumption DEF SemTimedWaitReturns, SemIsCatched
<1>2. /\ resume'[current] = <<"user">> /\ Settled
      /\ \A x \in Tid : x # current => resume'[x] = resume[x]
  BY <1>1, AtBody, PlaceParts, TidFacts DEF TypeOK
<1>3. told <=> resume[current] = <<"wait", s>> \/ tid_in[s] = current
  BY <1>1
<1> HIDE DEF told
<1>4. QED
  BY <1>1, <1>2, <1>3, ToldLocks

LEMMA DispatchLocks ==
    ASSUME PlaceInv, LockHasOneOwner, Dispatch PROVE LockHasOneOwner'
<1>1. /\ Settled /\ UNCHANGED <<sem_value, tid_in, sem_list, expired>>
      /\ \A x \in Tid : x # current => resume'[x] = resume[x]
  BY DispatchEffect
<1>2. CASE UNCHANGED <<resume, holds>>
  BY <1>1, <1>2, LocksStay
<1>3. ASSUME NEW s \in Sem, resume[current] = <<"wait", s>>, resume'[current] = <<"user">>,
             holds' = IF s \in Locks THEN [holds EXCEPT ![s] = @ \cup {current}] ELSE holds
      PROVE  LockHasOneOwner'
  <2>1. expired' = expired \ {current}
    <3>1. ASSUME current \in expired PROVE FALSE
      <4>1. PICK q \in Timed : resume[current] = <<"timed", q>>
        BY <3>1, WaitersAre
      <4>2. QED
        BY <1>3, <4>1
    <3>2. QED
      BY <1>1, <3>1
  <2> DEFINE told == TRUE
  <2>2. /\ told <=> resume[current] = <<"wait", s>> \/ tid_in[s] = current
        /\ holds' = IF s \in Locks /\ told
                    THEN [holds EXCEPT ![s] = @ \cup {current}] ELSE holds
    BY <1>3
  <2>3. resume[current] \in {<<"wait", s>>, <<"timed", s>>}
    BY <1>3
  <2> HIDE DEF told
  <2>4. QED
    BY <1>1, <1>3, <2>1, <2>2, <2>3, ToldLocks
<1>4. QED
  BY <1>2, <1>3, DispatchEffect

\* What an ISR posts is no lock.
LEMMA IRQMarkEventLocks ==
    ASSUME PlaceInv, LockHasOneOwner, IsrAssumption, NEW s \in Events, IRQMarkEvent(s)
    PROVE  LockHasOneOwner'
<1>1. PICK T : /\ \/ T = {} /\ sem_list' = sem_list
                  \/ \E t \in Thread : /\ T = {t} /\ In(sem_list[s], t)
                                       /\ resume[t] = <<"wait", s>>
               /\ WakeEffect(T, TRUE)
  BY IRQMarkEventEffect
<1>2. UNCHANGED <<resume, holds, expired>> /\ s \in Sem /\ s \notin Locks
  BY KernelAssumption DEF IRQMarkEvent, times
<1>3. ASSUME NEW r \in Locks
      PROVE  sem_value'[r] = sem_value[r] /\ tid_in'[r] = tid_in[r]
  <2>1. \/ UNCHANGED <<sem_value, tid_in>>
        \/ /\ sem_value' = [sem_value EXCEPT ![s] = 1]
           /\ UNCHANGED tid_in
        \/ /\ tid_in' = [tid_in EXCEPT ![s] = Head(sem_list[s])]
           /\ UNCHANGED sem_value
    BY DEF IRQMarkEvent, HandOver, Free
  <2>2. r # s /\ r \in Sem
    BY <1>2, KernelAssumption
  <2>3. sem_value \in [Sem -> {0, 1}] /\ tid_in \in [Sem -> Tid]
    BY PlaceParts DEF TypeOK
  <2>4. QED
    BY ONLY <2>1, <2>2, <2>3
<1>4. ASSUME NEW r \in Locks, NEW t \in T
      PROVE  resume[t] \notin {<<"wait", r>>, <<"timed", r>>}
  <2>1. resume[t] = <<"wait", s>> /\ r # s
    BY <1>1, <1>2
  <2>2. QED
    BY <2>1
<1>5. QED
  BY <1>1, <1>2, <1>3, <1>4, QuietLocks

\* The caller has found s taken, and has not blocked yet.
LEMMA FindsTakenLocks ==
    ASSUME PlaceInv, LockHasOneOwner, NEW s \in Sem, FindsTaken(s)
    PROVE  LockHasOneOwner'
<1> SUFFICES ASSUME NEW r \in Locks PROVE OneOwner(r)'
  BY DEF LockHasOneOwner
<1>1. r \in Sem /\ OneOwner(r)
  BY KernelAssumption DEF LockHasOneOwner
<1>2. /\ UNCHANGED <<sem_value, tid_in, holds, sem_list, expired>>
      /\ resume[current] = <<"user">>
      /\ resume' = [resume EXCEPT ![current] = <<"queue", s>>]
  BY DEF FindsTaken, sems, times
<1>3. /\ current \in Tid /\ resume'[current] = <<"queue", s>>
      /\ \A x \in Tid : x # current => resume'[x] = resume[x]
  BY <1>2, PlaceParts, TidFacts DEF TypeOK
<1>4. /\ <<"user">> \notin {<<"wait", r>>, <<"timed", r>>}
      /\ <<"queue", s>> \notin {<<"wait", r>>, <<"timed", r>>}
  OBVIOUS
<1>5. \A t \in Tid : Granted(t, r)' <=> Granted(t, r)
  <2>1. ASSUME NEW t \in Tid, t # current PROVE Granted(t, r)' <=> Granted(t, r)
    BY <1>2, <1>3, <2>1 DEF Granted
  <2>2. ASSUME NEW t \in Tid, t = current PROVE ~Granted(t, r) /\ ~Granted(t, r)'
    <3>1. resume[t] \notin {<<"wait", r>>, <<"timed", r>>}
      BY <1>2, <1>4, <2>2
    <3>2. resume'[t] \notin {<<"wait", r>>, <<"timed", r>>}
      BY <1>3, <1>4, <2>2
    <3>3. QED
      BY <3>1, <3>2 DEF Granted
  <2>3. QED
    BY <2>1, <2>2
<1>6. \A t \in Tid : resume'[t] = <<"timed", r>> => resume[t] = <<"timed", r>>
  BY <1>3, <1>4
<1>7. QED
  BY <1>1, <1>2, <1>5, <1>6, OwnerStays

\* The calls that may wait.
LEMMA SemWaitLocks ==
    ASSUME PlaceInv, LockHasOneOwner, NEW s \in Sem, SemWait(s) \/ SemTryWait(s)
    PROVE  LockHasOneOwner'
<1>1. UNCHANGED expired
  BY DEF SemWait, SemTryWait, FindsTaken, times
<1>2. CASE resume[current] = <<"user">> /\ Catch(s) /\ UNCHANGED resume
  BY <1>1, <1>2, CatchLocks
<1>3. CASE FindsTaken(s)
  BY <1>3, FindsTakenLocks
<1>4. CASE UNCHANGED <<sems, resume>>
  BY <1>1, <1>4, LocksStay DEF sems
<1>5. QED
  BY <1>2, <1>3, <1>4 DEF SemWait, SemTryWait, Call

LEMMA SemBlocksLocks ==
    ASSUME PlaceInv, LockHasOneOwner, NEW s \in Sem, SemBlocks(s)
    PROVE  LockHasOneOwner'
<1> DEFINE k == <<"wait", s>>
<1>1. /\ Body /\ resume[current] = <<"queue", s>> /\ Queue(s) /\ UNCHANGED expired
      /\ resume' = [resume EXCEPT ![current] = k]
  BY DEF SemBlocks, Blocks, times
<1>2. k \in {<<"wait", s>>, <<"timed", s>>}
  OBVIOUS
<1> HIDE DEF k
<1>3. Taken(s) /\ MayWait(s)
  BY <1>1, PlaceParts, TidFacts DEF PlaceInv, TakenUntilBlocked
<1>4. QED
  BY <1>1, <1>2, <1>3, QueueLocks

LEMMA SemTimedWaitLocks ==
    ASSUME PlaceInv, LockHasOneOwner, NEW s \in Timed, NEW n \in Delays, SemTimedWait(s, n)
    PROVE  LockHasOneOwner'
<1>1. /\ Call /\ MayWait(s) /\ resume[current] = <<"user">> /\ s \in Sem
      /\ UNCHANGED expired
  BY KernelAssumption DEF SemTimedWait, Call, times, Enqueue
<1>2. CASE Catch(s) /\ UNCHANGED resume
  BY <1>1, <1>2, CatchLocks
<1>3. CASE Taken(s) /\ Queue(s) /\ Blocks({"SEM", "TIME"}, <<"timed", s>>)
  <2> DEFINE k == <<"timed", s>>
  <2>1. resume' = [resume EXCEPT ![current] = k]
    BY <1>3 DEF Blocks
  <2>2. k \in {<<"wait", s>>, <<"timed", s>>}
    OBVIOUS
  <2> HIDE DEF k
  <2>3. QED
    BY <1>1, <1>3, <2>1, <2>2, QueueLocks DEF Call
<1>4. CASE UNCHANGED <<sems, resume>>
  BY <1>1, <1>4, LocksStay DEF sems
<1>5. QED
  BY <1>2, <1>3, <1>4 DEF SemTimedWait

LEMMA SleepLocks ==
    ASSUME PlaceInv, LockHasOneOwner, NEW n \in Delays, Sleep(n) PROVE LockHasOneOwner'
<1>1. /\ Call /\ UNCHANGED <<sems, expired>>
      /\ resume' = resume \/ resume' = [resume EXCEPT ![current] = <<"user">>]
  BY DEF Sleep, Enqueue, Blocks, times
<1>2. resume[current] = <<"user">> /\ resume \in [Tid -> Continuation]
  BY <1>1, PlaceParts DEF Call, TypeOK
<1>3. resume' = resume
  BY <1>1, <1>2
<1>4. QED
  BY <1>1, <1>3, LocksStay DEF sems

LEMMA NextLocks ==
    PlaceInv /\ LockHasOneOwner /\ IsrAssumption /\ [Next]_vars => LockHasOneOwner'
<1> SUFFICES ASSUME PlaceInv, LockHasOneOwner, IsrAssumption, [Next]_vars
             PROVE  LockHasOneOwner'
  OBVIOUS
<1>1. CASE HandleClockEvent \/ TimerISR
  <2>1. UNCHANGED <<tcb_list, current, priority, resume>> /\ AtUser \in BOOLEAN
    BY <1>1 DEF HandleClockEvent, TimerISR, tasks, cpu, AtUser
  <2>2. CASE \E late : \E offers \in BOOLEAN : \E marked :
                ClockBottomISR(late, offers, marked)
    BY <2>1, <2>2, ClockBottomLocks
  <2>3. CASE UNCHANGED <<sems, times>>
    BY <2>1, <2>3, LocksStay DEF sems, times
  <2>4. QED
    BY <1>1, <2>1, <2>2, <2>3 DEF HandleClockEvent, TimerISR
<1>2. CASE \/ \E p \in Prio : TaskCreate(p)
           \/ ThreadExit
           \/ StepsOn \/ Schedule \/ ClockISR \/ Tick
           \/ UNCHANGED vars
  <2>1. UNCHANGED <<sems, resume, expired>>
    BY <1>2, StepsOnIs DEF TaskCreate, ThreadExit, Schedule, ClockISR, Tick, vars, times
  <2>2. QED
    BY <2>1, LocksStay DEF sems
<1>3. QED
  BY <1>1, <1>2, NextCases, SemWaitLocks, SemBlocksLocks, SemPostLocks, SleepLocks, SemTimedWaitLocks,
     SemTimedWaitReturnsLocks, DispatchLocks, IRQMarkEventLocks

LEMMA InitLocks == Init => LockHasOneOwner
<1> SUFFICES ASSUME Init, NEW s \in Locks PROVE OneOwner(s)
  BY DEF LockHasOneOwner
<1>1. s \in Sem
  BY KernelAssumption
<1>2. sem_value[s] = 1 /\ holds[s] = {} /\ expired = {}
  BY <1>1 DEF Init
<1>3. \A t \in Tid : resume[t] = <<"user">>
  BY DEF Init
<1>4. QED
  BY <1>2, <1>3 DEF OneOwner, Granted

\* A lock is free, or exactly one thread was told that it has it, or one was
\* given it and will be told (OS_SemPost hands a semaphore over without freeing
\* it, and SYS_SemWait and SYS_SemTimedWait tell its thread only when it runs
\* again): the inductive invariant behind the next three theorems.
THEOREM OneOwnerCorrect ==
    ASSUME EventInCall = FALSE, Timed \cap Events = {}
    PROVE  Spec => []LockHasOneOwner
<1>1. IsrAssumption
  BY DEF IsrAssumption
<1>2. PlaceInv /\ LockHasOneOwner /\ [Next]_vars => LockHasOneOwner'
  BY <1>1, NextLocks
<1>3. QED
  BY <1>2, InitLocks, PlacesCorrect, PTL DEF Spec

\* Two threads are never both told that they have a lock, and it is not free
\* while one has, whichever of SYS_SemWait, SYS_SemTryWait and SYS_SemTimedWait
\* they got it by.
THEOREM LocksExclude ==
    ASSUME EventInCall = FALSE, Timed \cap Events = {}
    PROVE  Spec => []MutualExclusion
<1>1. PlaceInv /\ LockHasOneOwner => MutualExclusion
  <2> SUFFICES ASSUME PlaceInv, LockHasOneOwner, NEW s \in Locks
               PROVE  Cardinality(holds[s]) <= 1 /\ (holds[s] # {} => sem_value[s] = 0)
    BY DEF MutualExclusion
  <2>1. OneOwner(s) /\ sem_value[s] \in {0, 1}
    BY PlaceParts, KernelAssumption DEF LockHasOneOwner, TypeOK
  <2>2. holds[s] = {} \/ holds[s] = {tid_in[s]}
    BY <2>1 DEF OneOwner
  <2>3. Cardinality(holds[s]) <= 1
    <3>1. Cardinality({}) = 0 /\ \A x : Cardinality({x}) = 1
      BY FS_EmptySet, FS_Singleton
    <3>2. CASE holds[s] = {}
      <4>1. Cardinality(holds[s]) = 0
        BY <3>1, <3>2
      <4>2. QED
        BY <4>1
    <3>3. CASE holds[s] = {tid_in[s]}
      <4>1. Cardinality(holds[s]) = 1
        BY <3>1, <3>3
      <4>2. QED
        BY <4>1
    <3>4. QED
      BY <2>2, <3>2, <3>3
  <2>4. QED
    BY <2>1, <2>3 DEF OneOwner
<1>2. QED
  BY <1>1, PlacesCorrect, OneOwnerCorrect, PTL

\* A lock that is taken has an owner who knows, or will when it returns from
\* its wait: a timeout that ends as the lock is handed over does not lose it.
THEOREM LocksAreNotLost ==
    ASSUME EventInCall = FALSE, Timed \cap Events = {}
    PROVE  Spec => []LockNotLost
<1>1. PlaceInv /\ LockHasOneOwner => LockNotLost
  <2> SUFFICES ASSUME PlaceInv, LockHasOneOwner, NEW s \in Locks, sem_value[s] = 0
               PROVE  \/ tid_in[s] \in holds[s]
                      \/ resume[tid_in[s]] \in {<<"wait", s>>, <<"timed", s>>}
    BY DEF LockNotLost
  <2>1. OneOwner(s) /\ tid_in[s] \in Tid
    BY PlaceParts, KernelAssumption DEF LockHasOneOwner, TypeOK
  <2>2. QED
    BY <2>1 DEF OneOwner, Granted
<1>2. QED
  BY <1>1, PlacesCorrect, OneOwnerCorrect, PTL

\* A timed wait for a lock tells the caller what happened: it fails if the
\* timeout woke the caller and succeeds if a post did (syscall.h:198-200).  Of
\* a semaphore that is not a lock this is false (run KernelTimedWait).
THEOREM TimedWaitsAreTrue ==
    ASSUME EventInCall = FALSE, Timed \cap Events = {}, Timed \subseteq Locks
    PROVE  Spec => []TimedWaitTellsTheTruth
<1>1. PlaceInv /\ LockHasOneOwner => TimedWaitTellsTheTruth
  <2> SUFFICES ASSUME PlaceInv, LockHasOneOwner, NEW s \in Timed, pc = "entry",
                      resume[current] = <<"timed", s>>
               PROVE  tid_in[s] = current <=> current \notin expired
    BY DEF TimedWaitTellsTheTruth, SemIsCatched
  <2>1. OneOwner(s) /\ current \in Tid /\ s \in Sem /\ sem_value[s] \in {0, 1}
    BY PlaceParts, TidFacts, KernelAssumption DEF LockHasOneOwner, TypeOK
  <2>2. ~In(sem_list[s], current)
    BY <2>1, PlaceParts DEF Waits, InSem, Settled
  <2>3. CASE current \in expired
    BY <2>1, <2>3 DEF OneOwner
  <2>4. CASE current \notin expired
    <3>1. Granted(current, s)
      BY <2>2, <2>4 DEF Granted
    <3>2. QED
      BY <2>1, <2>4, <3>1 DEF OneOwner
  <2>5. QED
    BY <2>3, <2>4
<1>2. QED
  BY <1>1, PlacesCorrect, OneOwnerCorrect, PTL
=============================================================================
