------------------------ MODULE MCErcosKernel_proofs ------------------------
(***************************************************************************)
(* ErcosKernel implements SchedCalls: every step of the semaphores, the    *)
(* time queue and the events is, seen by the scheduler, one of the steps   *)
(* that module SchedCalls allows, or none.                                 *)
(***************************************************************************)
EXTENDS MCErcosKernel, ErcosKernel_proofs

----------------------------------------------------------------------------
(* The operators on lists are the same in both modules.                    *)

LEMMA SameTids ==
    /\ Sched!Prio = Prio /\ Sched!Tid = Tid /\ Sched!Thread = Thread
    /\ Sched!Boot = Boot /\ Sched!Idle = Idle /\ Sched!Main = Main
BY DEF Sched!Prio, Prio, Sched!Tid, Tid, Sched!Thread, Thread, Sched!Boot, Boot,
       Sched!Idle, Idle, Sched!Main, Main

LEMMA SameQueued ==
    /\ \A s, t : Sched!In(s, t) <=> In(s, t)
    /\ \A q, t : Sched!Queued(q, t) <=> Queued(q, t)
BY SameTids DEF Sched!In, In, Sched!Queued, Queued

LEMMA SameLists ==
    /\ \A q, t, p : Sched!AddTail(q, t, p) = AddTail(q, t, p)
    /\ \A q, t, p : Sched!AddHead(q, t, p) = AddHead(q, t, p)
    /\ \A i, p : Sched!Lower(i, p) = Lower(i, p)
    /\ \A q, i, p : Sched!ScanStops(q, i, p) <=> ScanStops(q, i, p)
BY SameTids, SameQueued DEF Sched!AddTail, AddTail, Sched!AddHead, AddHead,
   Sched!Lower, Lower, Sched!ScanStops, ScanStops

----------------------------------------------------------------------------
(* What the scheduler sees.                                                *)

LEMMA FlagsSeen ==
    /\ SchedFlags({"READY"}) = {"READY"} /\ SchedFlags({}) = {}
    /\ \A f, g : g \in {{"SEM"}, {"TIME"}, {"SEM", "TIME"}} =>
          SchedFlags(f \cup g) = SchedFlags(f) \cup {"BLOCKED"}
BY DEF SchedFlags

\* The body of a call.
LEMMA BodySeen ==
    ASSUME PlaceInv, Body
    PROVE  /\ SchedPlace = "entry" /\ SchedPlace' = "body" /\ need_reesched' = TRUE
           /\ current' = current /\ old_current' = old_current
           /\ Sched!Body
<1>1. /\ SchedPlace = "entry" /\ SchedPlace' = "body" /\ need_reesched' = TRUE
      /\ current' = current /\ old_current' = old_current
  BY BodyPlace DEF Body, SchedPlace, cpu
<1>2. QED
  BY <1>1 DEF Sched!Body

LEMMA ReadyOneIs ==
    ASSUME NEW t, NEW offers, Ready({t}, offers)
    PROVE  LET q == AddTail(sched_list, t, priority[t])
               i == Lower(sched_queue_i, priority[t])
           IN  /\ sched_list' = IF offers THEN AddHead(q, current, priority[current]) ELSE q
               /\ sched_queue_i' = IF offers THEN Lower(i, priority[current]) ELSE i
               /\ status' = [x \in Tid |-> IF x = t \/ (offers /\ x = current)
                                           THEN {"READY"} ELSE status[x]]
<1>1. (CHOOSE x \in {t} : TRUE) = t
  OBVIOUS
<1>2. QED
  BY <1>1 DEF Ready

LEMMA ReadyNoneIs ==
    ASSUME NEW offers, Ready({}, offers)
    PROVE  /\ sched_list' = IF offers THEN AddHead(sched_list, current, priority[current])
                                      ELSE sched_list
           /\ sched_queue_i' = IF offers THEN Lower(sched_queue_i, priority[current])
                                         ELSE sched_queue_i
           /\ status' = [x \in Tid |-> IF offers /\ x = current
                                       THEN {"READY"} ELSE status[x]]
BY DEF Ready

\* The status and the waiting threads after a wake-up.
LEMMA WakeSeen ==
    ASSUME NEW T, NEW offers \in BOOLEAN, WakeEffect(T, offers)
    PROVE  Waiting' = Waiting \ T
<1>1. \A x : Waits(x)' <=> Waits(x) /\ x \notin T
  BY DEF WakeEffect, Waits, InSem
<1>2. QED
  BY <1>1 DEF Waiting

LEMMA StatusSeen ==
    ASSUME NEW T, NEW offers \in BOOLEAN,
           status' = [x \in Tid |-> IF x \in T \/ (offers /\ x = current)
                                    THEN {"READY"} ELSE status[x]]
    PROVE  SchedStatus' = [x \in Tid |-> IF x \in T \/ (offers /\ x = current)
                                         THEN {"READY"} ELSE SchedStatus[x]]
<1>1. SchedStatus' = [x \in Tid |-> SchedFlags(status'[x])]
  BY DEF SchedStatus
<1>2. \A x \in Tid : SchedFlags(status'[x]) = IF x \in T \/ (offers /\ x = current)
                                              THEN {"READY"} ELSE SchedFlags(status[x])
  BY FlagsSeen
<1>3. QED
  BY <1>1, <1>2 DEF SchedStatus

\* A call that returns at once.
LEMMA ReturnStep ==
    ASSUME PlaceInv, Body, Returns({}),
           UNCHANGED <<sem_list, wait_sem, time_list, tcb_list, priority>>
    PROVE  Sched!PlainCall
<1>1. /\ Ready({}, TRUE) /\ TRUE \in BOOLEAN /\ WakeEffect({}, TRUE)
  BY AtBody, QuietEffect DEF Returns
<1>2. Waiting' = Waiting
  <2>1. Waiting' = Waiting \ {}
    BY <1>1, WakeSeen
  <2>2. QED
    BY <2>1
<1>3. /\ sched_list' = AddHead(sched_list, current, priority[current])
      /\ sched_queue_i' = Lower(sched_queue_i, priority[current])
      /\ status' = [x \in Tid |-> IF TRUE /\ x = current THEN {"READY"} ELSE status[x]]
  BY <1>1, ReadyNoneIs
<1>4. PICK T : T = {}
  OBVIOUS
<1>5. SchedStatus' = [SchedStatus EXCEPT ![current] = {"READY"}]
  <2>1. status' = [x \in Tid |-> IF x \in T \/ (TRUE /\ x = current)
                                 THEN {"READY"} ELSE status[x]]
    BY <1>3, <1>4
  <2>2. SchedStatus' = [x \in Tid |-> IF x \in T \/ (TRUE /\ x = current)
                                      THEN {"READY"} ELSE SchedStatus[x]]
    BY <2>1, StatusSeen
  <2>3. QED
    BY <1>4, <2>2 DEF SchedStatus
<1>6. Sched!SetNeedReesched(sched_list, sched_queue_i, SchedStatus, priority)
  BY <1>3, <1>5, BodySeen, SameLists DEF Sched!SetNeedReesched
<1>7. QED
  BY <1>2, <1>6, BodySeen DEF Sched!PlainCall

\* A call that blocks.
LEMMA BlockStep ==
    ASSUME PlaceInv, Body, NEW W \in SUBSET Sem, NEW sleeps \in BOOLEAN,
           W # {} \/ sleeps, BlockEffect(W, sleeps),
           NEW g \in {{"SEM"}, {"TIME"}, {"SEM", "TIME"}}, NEW k, Blocks(g, k)
    PROVE  Sched!BlockingCall
<1>1. /\ \A x : Waits(x)' <=> Waits(x) \/ x = current
      /\ current \in Thread
  BY AtBody DEF BlockEffect, Waits, InSem
<1>2. Waiting' = Waiting \cup {current}
  BY <1>1 DEF Waiting
<1>3. /\ status' = [status EXCEPT ![current] = @ \cup g]
      /\ UNCHANGED <<sched_list, sched_queue_i, priority, tcb_list>>
  BY DEF Blocks, BlockEffect
<1>4. status \in [Tid -> SUBSET Flags] /\ current \in Tid
  BY PlaceParts, TidFacts DEF TypeOK
<1>5. \A x \in Tid : status'[x] = IF x = current THEN status[x] \cup g ELSE status[x]
  BY <1>3, <1>4
<1>6. \A x \in Tid : SchedFlags(status'[x]) = IF x = current
                        THEN SchedFlags(status[x]) \cup {"BLOCKED"} ELSE SchedFlags(status[x])
  BY <1>5, FlagsSeen
<1>7. SchedStatus' = [SchedStatus EXCEPT ![current] = @ \cup {"BLOCKED"}]
  BY <1>4, <1>6 DEF SchedStatus
<1>8. QED
  BY <1>2, <1>3, <1>7, BodySeen DEF Sched!BlockingCall, Sched!queues

\* A call that wakes t.
LEMMA WakingStep ==
    ASSUME PlaceInv, Body, NEW t \in Thread, Waits(t), WakeEffect({t}, TRUE),
           Ready({t}, TRUE), UNCHANGED <<priority, tcb_list>>
    PROVE  Sched!WakingCall(t)
<1>1. Waiting' = Waiting \ {t} /\ t \in Waiting
  BY WakeSeen DEF Waiting
<1> DEFINE q == AddTail(sched_list, t, priority[t])
           i == Lower(sched_queue_i, priority[t])
           st == [SchedStatus EXCEPT ![t] = {"READY"}]
<1>2. /\ sched_list' = AddHead(q, current, priority[current])
      /\ sched_queue_i' = Lower(i, priority[current])
      /\ status' = [x \in Tid |-> IF x = t \/ (TRUE /\ x = current)
                                  THEN {"READY"} ELSE status[x]]
  BY ReadyOneIs
<1>3. status' = [x \in Tid |-> IF x \in {t} \/ (TRUE /\ x = current)
                               THEN {"READY"} ELSE status[x]]
  BY <1>2
<1>4. SchedStatus' = [x \in Tid |-> IF x \in {t} \/ (TRUE /\ x = current)
                                    THEN {"READY"} ELSE SchedStatus[x]]
  BY <1>3, StatusSeen
<1>5. SchedStatus' = [st EXCEPT ![current] = {"READY"}]
  BY <1>4 DEF SchedStatus
<1>6. Sched!SetNeedReesched(q, i, st, priority)
  BY <1>2, <1>5, BodySeen, SameLists DEF Sched!SetNeedReesched
<1>7. Sched!SetNeedReesched(Sched!AddTail(sched_list, t, priority[t]),
                            Sched!Lower(sched_queue_i, priority[t]), st, priority)
  BY <1>6, SameLists
<1>8. QED
  BY <1>1, <1>7, BodySeen DEF Sched!WakingCall

\* Nothing happens that the scheduler sees.
LEMMA HiddenStep ==
    ASSUME UNCHANGED <<sched_list, sched_queue_i, current, old_current, priority, tcb_list,
                       need_reesched, status, sem_list, time_list>>,
           SchedPlace' = SchedPlace
    PROVE  UNCHANGED Sched!vars
<1>1. Waiting' = Waiting
  BY DEF Waiting, Waits, InSem
<1>2. SchedStatus' = SchedStatus
  BY DEF SchedStatus
<1>3. QED
  BY <1>1, <1>2 DEF Sched!vars, Sched!queues, Sched!threads

----------------------------------------------------------------------------
(* The calls.                                                              *)

LEMMA TaskCreateStep ==
    ASSUME PlaceInv, NEW p \in Prio, TaskCreate(p) PROVE Sched!TaskCreate(p)
<1> DEFINE t == Head(tcb_list)
           q == AddTail(sched_list, t, p)
           i == Lower(sched_queue_i, p)
           st == [SchedStatus EXCEPT ![t] = {"READY"}]
<1>1. /\ Body /\ tcb_list # <<>> /\ tcb_list' = Tail(tcb_list)
      /\ priority' = [priority EXCEPT ![t] = p]
      /\ sched_list' = AddHead(q, current, priority'[current])
      /\ sched_queue_i' = Lower(i, priority'[current])
      /\ status' = [status EXCEPT ![t] = {"READY"}, ![current] = {"READY"}]
      /\ UNCHANGED <<sem_list, time_list>>
  BY DEF TaskCreate, Call, sems, times
<1>2. t \in Tid /\ current \in Tid /\ status \in [Tid -> SUBSET Flags]
  BY <1>1, PlaceParts, ListTypes, TidFacts DEF TypeOK
<1>3. SchedStatus' = [st EXCEPT ![current] = {"READY"}]
  <2>1. status' = [x \in Tid |-> IF x \in {t} \/ (TRUE /\ x = current)
                                 THEN {"READY"} ELSE status[x]]
    BY <1>1, <1>2
  <2>2. SchedStatus' = [x \in Tid |-> IF x \in {t} \/ (TRUE /\ x = current)
                                      THEN {"READY"} ELSE SchedStatus[x]]
    BY <2>1, StatusSeen
  <2>3. QED
    BY <2>2 DEF SchedStatus
<1>4. Waiting' = Waiting
  BY <1>1 DEF Waiting, Waits, InSem
<1>5. Sched!SetNeedReesched(Sched!AddTail(sched_list, t, p), Sched!Lower(sched_queue_i, p),
                            st, priority')
  BY <1>1, <1>3, BodySeen, SameLists DEF Sched!SetNeedReesched
<1>6. QED
  BY <1>1, <1>4, <1>5, BodySeen DEF Sched!TaskCreate

LEMMA ThreadExitStep == ASSUME PlaceInv, ThreadExit PROVE Sched!ThreadExit
<1>1. /\ Body /\ status' = [status EXCEPT ![current] = {}]
      /\ tcb_list' = Append(tcb_list, current)
      /\ UNCHANGED <<sched_list, sched_queue_i, priority, sem_list, time_list>>
  BY DEF ThreadExit, Call, sems, times, queues
<1>2. current \in Tid /\ status \in [Tid -> SUBSET Flags]
  BY PlaceParts, TidFacts DEF TypeOK
<1>3. \A x \in Tid : SchedFlags(status'[x]) = IF x = current THEN {} ELSE SchedFlags(status[x])
  BY <1>1, <1>2, FlagsSeen
<1>4. SchedStatus' = [SchedStatus EXCEPT ![current] = {}]
  BY <1>2, <1>3 DEF SchedStatus
<1>5. Waiting' = Waiting
  BY <1>1 DEF Waiting, Waits, InSem
<1>6. QED
  BY <1>1, <1>4, <1>5, BodySeen DEF Sched!ThreadExit, Sched!queues

LEMMA SemWaitStep ==
    ASSUME PlaceInv, NEW s \in Sem, SemWait(s)
    PROVE  Sched!PlainCall \/ UNCHANGED Sched!vars
<1>1. UNCHANGED <<priority, tcb_list, time_list, expired>>
  BY DEF SemWait, FindsTaken, tasks, times
<1>2. CASE FindsTaken(s)
  <2>1. /\ UNCHANGED <<sched_list, sched_queue_i, current, old_current, need_reesched,
                       status, sem_list>>
        /\ SchedPlace' = SchedPlace
    BY <1>2 DEF FindsTaken, queues, cpu, sems, SchedPlace
  <2>2. QED
    BY <1>1, <2>1, HiddenStep
<1>3. CASE Body /\ Catch(s) /\ Returns({})
  <2>1. UNCHANGED <<sem_list, wait_sem>>
    BY <1>3 DEF Catch
  <2>2. QED
    BY <1>1, <1>3, <2>1, ReturnStep
<1>4. QED
  BY <1>2, <1>3 DEF SemWait, Call

LEMMA SemBlocksStep ==
    ASSUME PlaceInv, NEW s \in Sem, SemBlocks(s) PROVE Sched!BlockingCall
<1>1. /\ Body /\ Queue(s) /\ Blocks({"SEM"}, <<"wait", s>>)
      /\ UNCHANGED <<priority, tcb_list, time_list, expired>>
  BY DEF SemBlocks, tasks, times
<1>2. BlockEffect({s}, FALSE)
  BY <1>1, WaitBlocks
<1>3. {s} \in SUBSET Sem /\ {s} # {}
  OBVIOUS
<1>4. QED
  BY <1>1, <1>2, <1>3, BlockStep

LEMMA SemTryWaitStep == ASSUME PlaceInv, NEW s \in Sem, SemTryWait(s) PROVE Sched!PlainCall
<1>1. /\ Body /\ Returns({})
      /\ UNCHANGED <<sem_list, wait_sem, time_list, tcb_list, priority>>
  BY DEF SemTryWait, Call, Catch, sems, tasks, times
<1>2. QED
  BY <1>1, ReturnStep

LEMMA SemPostStep ==
    ASSUME PlaceInv, NEW s \in Sem, SemPost(s)
    PROVE  Sched!PlainCall \/ \E t \in Thread : Sched!WakingCall(t)
<1>1. Body /\ UNCHANGED <<priority, tcb_list>>
  BY DEF SemPost, Call, tasks
<1>2. CASE sem_list[s] # <<>>
  <2> DEFINE t == Head(sem_list[s])
  <2>1. Ready({t}, TRUE)
    BY <1>2 DEF SemPost, Returns
  <2>2. t \in Thread /\ Waits(t) /\ WakeEffect({t}, TRUE)
    BY <1>2, SemPostEffect
  <2> HIDE DEF t
  <2>3. QED
    BY <1>1, <2>1, <2>2, WakingStep
<1>3. CASE sem_list[s] = <<>>
  <2>1. Returns({}) /\ UNCHANGED <<sem_list, wait_sem, time_list>>
    BY <1>3 DEF SemPost, Free
  <2>2. QED
    BY <1>1, <2>1, ReturnStep
<1>4. QED
  BY <1>2, <1>3

LEMMA SleepStep ==
    ASSUME PlaceInv, NEW n \in Delays, Sleep(n)
    PROVE  Sched!PlainCall \/ Sched!BlockingCall
<1> DEFINE d == n - Late
<1>1. /\ Body /\ UNCHANGED <<tcb_list, priority, sem_list, wait_sem>> /\ d \in Int
      /\ \/ Enqueue(d) /\ Blocks({"TIME"}, <<"user">>)
         \/ Returns({}) /\ UNCHANGED time_list
  BY DelayIsTimeout DEF Sleep, Call, tasks, sems, times
<1> HIDE DEF d
<1>2. CASE Enqueue(d) /\ Blocks({"TIME"}, <<"user">>)
  <2>1. BlockEffect({}, TRUE)
    BY <1>1, <1>2, SleepBlocks
  <2>2. {} \in SUBSET Sem /\ TRUE \in BOOLEAN
    OBVIOUS
  <2>3. QED
    BY <1>1, <1>2, <2>1, <2>2, BlockStep
<1>3. CASE Returns({}) /\ UNCHANGED time_list
  BY <1>1, <1>3, ReturnStep
<1>4. QED
  BY <1>1, <1>2, <1>3

LEMMA SemTimedWaitStep ==
    ASSUME PlaceInv, NEW s \in Timed, NEW n \in Delays, SemTimedWait(s, n)
    PROVE  Sched!PlainCall \/ Sched!BlockingCall
<1> DEFINE d == n - Late
<1>1. /\ Body /\ UNCHANGED <<tcb_list, priority>> /\ d \in Int
      /\ \/ Queue(s) /\ Enqueue(d) /\ Blocks({"SEM", "TIME"}, <<"timed", s>>)
         \/ Returns({}) /\ UNCHANGED <<sem_list, wait_sem, time_list>>
  BY DelayIsTimeout DEF SemTimedWait, Call, Catch, tasks, sems, times
<1> HIDE DEF d
<1>2. CASE Queue(s) /\ Enqueue(d) /\ Blocks({"SEM", "TIME"}, <<"timed", s>>)
  <2>1. BlockEffect({s}, TRUE)
    BY <1>1, <1>2, TimedWaitBlocks
  <2>2. {s} \in SUBSET Sem /\ {s} # {}
    BY KernelAssumption
  <2>3. QED
    BY <1>1, <1>2, <2>1, <2>2, BlockStep
<1>3. CASE Returns({}) /\ UNCHANGED <<sem_list, wait_sem, time_list>>
  BY <1>1, <1>3, ReturnStep
<1>4. QED
  BY <1>1, <1>2, <1>3

LEMMA SemTimedWaitReturnsStep ==
    ASSUME PlaceInv, NEW s \in Timed, SemTimedWaitReturns(s) PROVE Sched!PlainCall
<1>1. /\ Body /\ Returns({})
      /\ UNCHANGED <<sem_list, wait_sem, time_list, tcb_list, priority>>
  BY DEF SemTimedWaitReturns, tasks
<1>2. QED
  BY <1>1, ReturnStep

----------------------------------------------------------------------------
(* The end of a call or an interrupt, and the context switch.              *)

LEMMA SyscallEntryStep == ASSUME SyscallEntry PROVE Sched!SyscallEntry
<1>1. /\ current # Idle
      /\ UNCHANGED <<sched_list, sched_queue_i, current, old_current, priority, tcb_list,
                     need_reesched, status, sem_list, time_list>>
      /\ SchedPlace = "user" /\ SchedPlace' = "entry"
  BY DEF SyscallEntry, queues, cpu, tasks, sems, times, SchedPlace
<1>2. Waiting' = Waiting
  BY <1>1 DEF Waiting, Waits, InSem
<1>3. SchedStatus' = SchedStatus
  BY <1>1 DEF SchedStatus
<1>4. QED
  BY <1>1, <1>2, <1>3, SameTids
     DEF Sched!SyscallEntry, Sched!queues, Sched!threads

LEMMA EventsDoneStep ==
    ASSUME NoClockEvent \/ ClearPendingEvents PROVE UNCHANGED Sched!vars
<1>1. /\ UNCHANGED <<sched_list, sched_queue_i, current, old_current, priority, tcb_list,
                     need_reesched, status, sem_list, time_list>>
      /\ SchedPlace' = SchedPlace
  BY DEF NoClockEvent, ClearPendingEvents, queues, cpu, tasks, sems, times,
         SchedPlace
<1>2. QED
  BY <1>1, HiddenStep

LEMMA TickStep == ASSUME Tick PROVE UNCHANGED Sched!vars
<1>1. /\ UNCHANGED <<sched_list, sched_queue_i, current, old_current, priority, tcb_list,
                     need_reesched, status, sem_list, time_list>>
      /\ SchedPlace' = SchedPlace
  BY DEF Tick, queues, cpu, tasks, sems, SchedPlace
<1>2. QED
  BY <1>1, HiddenStep

LEMMA ScheduleStep ==
    ASSUME PlaceInv, Schedule PROVE Sched!SyscallExit \/ Sched!EpilogueSchedule
<1>1. PICK p \in Prio : /\ ScanStops(sched_list, sched_queue_i, p)
                        /\ sched_queue_i' = p
                        /\ sched_list' = [sched_list EXCEPT ![p] = Tail(@)]
                        /\ current' = Head(sched_list[p])
  BY DEF Schedule
<1>2. /\ old_current' = current /\ status' = [status EXCEPT ![current'] = {}]
      /\ need_reesched' = FALSE /\ pc = "sched" /\ pc' = "switch"
      /\ UNCHANGED <<priority, tcb_list, sem_list, time_list>>
  BY DEF Schedule, tasks, sems, times
<1>3. current' \in Tid /\ status \in [Tid -> SUBSET Flags] /\ need_reesched \in BOOLEAN
  <2>1. TypeOK /\ TypeOK'
    BY PlaceParts, ScheduleTypes
  <2>2. QED
    BY <2>1, TidFacts DEF TypeOK
<1>4. \A x \in Tid : SchedFlags(status'[x]) = IF x = current' THEN {} ELSE SchedFlags(status[x])
  BY <1>2, <1>3, FlagsSeen
<1>5. SchedStatus' = [SchedStatus EXCEPT ![current'] = {}]
  BY <1>3, <1>4 DEF SchedStatus
<1>6. Waiting' = Waiting
  BY <1>2 DEF Waiting, Waits, InSem
<1>7. /\ SchedPlace = IF need_reesched THEN "body" ELSE "epilogue"
      /\ SchedPlace' = "switch"
  BY <1>2 DEF SchedPlace
<1>8. Sched!Schedule
  <2>1. \E r \in Sched!Prio : /\ Sched!ScanStops(sched_list, sched_queue_i, r)
                              /\ sched_queue_i' = r
                              /\ sched_list' = [sched_list EXCEPT ![r] = Tail(@)]
                              /\ current' = Head(sched_list[r])
    BY <1>1, SameTids, SameLists
  <2>2. QED
    BY <1>2, <1>5, <1>6, <1>7, <2>1 DEF Sched!Schedule
<1>9. QED
  BY <1>2, <1>3, <1>7, <1>8 DEF Sched!SyscallExit, Sched!EpilogueSchedule

LEMMA ClearScheduleActiveStep == ASSUME ClearScheduleActive PROVE Sched!ClearScheduleActive
<1>1. /\ UNCHANGED <<sched_list, sched_queue_i, current, old_current, priority, tcb_list,
                     need_reesched, status, sem_list, time_list>>
      /\ SchedPlace = "switch" /\ SchedPlace' = "dispatch"
  BY DEF ClearScheduleActive, queues, cpu, tasks, sems, times, SchedPlace
<1>2. Waiting' = Waiting
  BY <1>1 DEF Waiting, Waits, InSem
<1>3. SchedStatus' = SchedStatus
  BY <1>1 DEF SchedStatus
<1>4. QED
  BY <1>1, <1>2, <1>3
     DEF Sched!ClearScheduleActive, Sched!queues, Sched!threads

LEMMA DispatchStep == ASSUME PlaceInv, Dispatch PROVE Sched!Dispatch
<1>1. /\ UNCHANGED <<sched_list, sched_queue_i, current, old_current, priority, tcb_list,
                     need_reesched, status, sem_list, time_list>>
      /\ SchedPlace = "dispatch" /\ SchedPlace' = "user"
  BY DEF Dispatch, queues, cpu, tasks, times, SchedPlace
<1>2. Waiting' = Waiting
  BY <1>1 DEF Waiting, Waits, InSem
<1>3. SchedStatus' = SchedStatus
  BY <1>1 DEF SchedStatus
<1>4. QED
  BY <1>1, <1>2, <1>3 DEF Sched!Dispatch, Sched!queues, Sched!threads

----------------------------------------------------------------------------
(* Interrupts.                                                             *)

\* An interrupt that readies the thread in T, or a timeout handled at the end
\* of a call; from a thread it goes on to the epilogue.
LEMMA InterruptStep ==
    ASSUME PlaceInv, InterruptsEnabled, NEW T, AtMostOne(T), \A t \in T : Waits(t),
           NEW offers \in BOOLEAN, offers <=> AtUser,
           WakeEffect(T, offers), Ready(T, offers),
           pc' = IF offers THEN "events" ELSE pc,
           UNCHANGED <<priority, tcb_list, current, old_current, need_reesched>>
    PROVE  Sched!InterruptThread \/ Sched!InterruptKernel \/ UNCHANGED Sched!vars
<1>1. Waiting' = Waiting \ T
  BY WakeSeen
<1>2. current' = current /\ current \in Tid
  BY PlaceParts, TidFacts
<1>3. offers => SchedPlace = "user" /\ SchedPlace' = "epilogue"
  BY DEF AtUser, SchedPlace, PlaceInv, ThreadsPlaced, CallSchedules, Settled
<1>4. ~offers => SchedPlace' = SchedPlace /\ SchedPlace \in {"entry", "body", "epilogue"}
  BY DEF AtUser, SchedPlace, InterruptsEnabled
<1>5. CASE T = {}
  <2>1. /\ sched_list' = IF offers THEN AddHead(sched_list, current, priority[current])
                                   ELSE sched_list
        /\ sched_queue_i' = IF offers THEN Lower(sched_queue_i, priority[current])
                                      ELSE sched_queue_i
        /\ status' = [x \in Tid |-> IF offers /\ x = current
                                    THEN {"READY"} ELSE status[x]]
    BY <1>5, ReadyNoneIs
  <2>2. SchedStatus' = [x \in Tid |-> IF offers /\ x = current
                                      THEN {"READY"} ELSE SchedStatus[x]]
    <3>1. status' = [x \in Tid |-> IF x \in T \/ (offers /\ x = current)
                                   THEN {"READY"} ELSE status[x]]
      BY <1>5, <2>1
    <3>2. SchedStatus' = [x \in Tid |-> IF x \in T \/ (offers /\ x = current)
                                        THEN {"READY"} ELSE SchedStatus[x]]
      BY <3>1, StatusSeen
    <3>3. QED
      BY <1>5, <3>2
  <2>3. Waiting' = Waiting /\ {} \subseteq Waiting /\ Waiting' = Waiting \ {}
    BY <1>1, <1>5
  <2>4. CASE offers
    <3>1. SchedStatus' = [SchedStatus EXCEPT ![current] = {"READY"}]
      BY <2>2, <2>4 DEF SchedStatus
    <3>2. QED
      BY <1>2, <1>3, <2>1, <2>3, <2>4, <3>1, SameLists
         DEF Sched!InterruptThread, Sched!IsrWakes
  <2>5. CASE ~offers
    <3>1. SchedStatus' = SchedStatus
      BY <2>2, <2>5 DEF SchedStatus
    <3>2. QED
      BY <1>2, <1>4, <2>1, <2>3, <2>5, <3>1
         DEF Sched!vars, Sched!queues, Sched!threads
  <2>6. QED
    BY <2>4, <2>5
<1>6. ASSUME NEW t \in Thread, T = {t}
      PROVE  Sched!InterruptThread \/ Sched!InterruptKernel \/ UNCHANGED Sched!vars
  <2> DEFINE q == AddTail(sched_list, t, priority[t])
             i == Lower(sched_queue_i, priority[t])
  <2>1. /\ sched_list' = IF offers THEN AddHead(q, current, priority[current]) ELSE q
        /\ sched_queue_i' = IF offers THEN Lower(i, priority[current]) ELSE i
        /\ status' = [x \in Tid |-> IF x = t \/ (offers /\ x = current)
                                    THEN {"READY"} ELSE status[x]]
    <3>1. Ready({t}, offers)
      BY <1>6
    <3>2. (CHOOSE x \in {t} : TRUE) = t
      OBVIOUS
    <3>3. QED
      BY <3>1, <3>2 DEF Ready
  <2>2. SchedStatus' = [x \in Tid |-> IF x = t \/ (offers /\ x = current)
                                      THEN {"READY"} ELSE SchedStatus[x]]
    <3>1. status' = [x \in Tid |-> IF x \in T \/ (offers /\ x = current)
                                   THEN {"READY"} ELSE status[x]]
      BY <1>6, <2>1
    <3>2. SchedStatus' = [x \in Tid |-> IF x \in T \/ (offers /\ x = current)
                                        THEN {"READY"} ELSE SchedStatus[x]]
      BY <3>1, StatusSeen
    <3>3. QED
      BY <1>6, <3>2
  <2>3. /\ t \in Waiting /\ Waiting' = Waiting \ {t}
        /\ {t} \subseteq Waiting
    BY <1>1, <1>6 DEF Waiting
  <2>4. CASE offers
    <3>1. SchedStatus' = [SchedStatus EXCEPT ![t] = {"READY"}, ![current] = {"READY"}]
      BY <2>2, <2>4 DEF SchedStatus
    <3>2. QED
      BY <1>2, <1>3, <2>1, <2>3, <2>4, <3>1, SameLists
         DEF Sched!InterruptThread, Sched!IsrWakes
  <2>5. CASE ~offers
    <3>1. SchedStatus' = [SchedStatus EXCEPT ![t] = {"READY"}]
      BY <2>2, <2>5 DEF SchedStatus
    <3>2. QED
      BY <1>2, <1>4, <2>1, <2>3, <2>5, <3>1, SameLists
         DEF Sched!InterruptKernel, Sched!IsrWakes, Sched!schedule_active
  <2>6. QED
    BY <2>4, <2>5
<1>7. QED
  BY <1>5, <1>6 DEF AtMostOne

LEMMA HandleClockEventStep ==
    ASSUME PlaceInv, HandleClockEvent
    PROVE  Sched!InterruptThread \/ Sched!InterruptKernel \/ UNCHANGED Sched!vars
<1> DEFINE T == IF Due(Late) THEN {Head(time_list)} ELSE {}
<1>1. /\ ClockBottomISR(Late, FALSE, FALSE) /\ FALSE \in BOOLEAN
      /\ UNCHANGED <<priority, tcb_list, current, old_current, need_reesched>>
      /\ pc = "events" /\ pc' = pc
  BY DEF HandleClockEvent, cpu, tasks
<1>2. WakeEffect(T, FALSE) /\ \A t \in T : t \in Thread /\ Waits(t)
  BY <1>1, ClockBottomEffect
<1>3. Ready(T, FALSE)
  BY <1>1 DEF ClockBottomISR
<1>4. AtMostOne(T)
  BY <1>2 DEF AtMostOne
<1> HIDE DEF T
<1>5. PICK offers \in BOOLEAN : offers = FALSE
  OBVIOUS
<1>6. InterruptsEnabled /\ ~AtUser
  BY <1>1 DEF InterruptsEnabled, AtUser
<1>7. WakeEffect(T, offers) /\ Ready(T, offers)
  BY <1>2, <1>3, <1>5
<1>8. QED
  BY <1>1, <1>2, <1>4, <1>5, <1>6, <1>7, InterruptStep

LEMMA TimerISRStep ==
    ASSUME PlaceInv, TimerISR
    PROVE  Sched!InterruptThread \/ Sched!InterruptKernel \/ UNCHANGED Sched!vars
<1>1. /\ InterruptsEnabled /\ Epilogue /\ AtUser \in BOOLEAN
      /\ UNCHANGED <<priority, tcb_list, current, old_current, need_reesched>>
  BY DEF TimerISR, cpu, tasks, AtUser
<1>2. CASE TimerLooksAtQueue
  <2> DEFINE T == IF Due(0) THEN {Head(time_list)} ELSE {}
  <2>1. ClockBottomISR(0, AtUser, clock_event)
    BY <1>2 DEF TimerISR
  <2>2. WakeEffect(T, AtUser) /\ \A t \in T : t \in Thread /\ Waits(t)
    BY <1>1, <2>1, ClockBottomEffect
  <2>3. Ready(T, AtUser) /\ AtMostOne(T)
    BY <2>1, <2>2 DEF ClockBottomISR, AtMostOne
  <2> HIDE DEF T
  <2>4. QED
    BY <1>1, <2>2, <2>3, InterruptStep DEF Epilogue
<1>3. CASE ~TimerLooksAtQueue
  <2>1. Ready({}, AtUser) /\ AtMostOne({}) /\ UNCHANGED <<sem_list, wait_sem, time_list>>
    BY <1>3 DEF TimerISR, sems, times, AtMostOne
  <2>2. WakeEffect({}, AtUser)
    BY <1>1, <2>1, QuietEffect
  <2>3. QED
    BY <1>1, <2>1, <2>2, InterruptStep DEF Epilogue
<1>4. QED
  BY <1>2, <1>3

LEMMA ClockISRStep ==
    ASSUME PlaceInv, ClockISR
    PROVE  Sched!InterruptThread \/ Sched!InterruptKernel \/ UNCHANGED Sched!vars
<1>1. /\ InterruptsEnabled /\ Epilogue /\ AtUser \in BOOLEAN
      /\ UNCHANGED <<priority, tcb_list, current, old_current, need_reesched>>
      /\ Ready({}, AtUser) /\ AtMostOne({}) /\ UNCHANGED <<sem_list, wait_sem, time_list>>
  BY DEF ClockISR, cpu, tasks, AtUser, sems, times, AtMostOne
<1>2. WakeEffect({}, AtUser)
  BY <1>1, QuietEffect
<1>3. QED
  BY <1>1, <1>2, InterruptStep DEF Epilogue

LEMMA IRQMarkEventStep ==
    ASSUME PlaceInv, IsrAssumption, NEW s \in Events, IRQMarkEvent(s)
    PROVE  Sched!InterruptThread \/ Sched!InterruptKernel \/ UNCHANGED Sched!vars
<1> DEFINE t == Head(sem_list[s])
           handled == s \notin event_inside /\ sem_list[s] # <<>>
<1>1. /\ AtUser /\ InterruptsEnabled /\ need_reesched' = FALSE /\ pc' = "events" /\ s \in Sem
      /\ UNCHANGED <<priority, tcb_list, current, old_current, wait_sem, time_list>>
  BY KernelAssumption DEF IRQMarkEvent, IsrAssumption, cpu, tasks, times, AtUser,
                          InterruptsEnabled
<1>2. need_reesched' = need_reesched
  BY <1>1 DEF PlaceInv, ThreadsPlaced, CallSchedules, Settled, AtUser, TypeOK
<1>3. PICK offers \in BOOLEAN : offers = TRUE
  OBVIOUS
<1>4. CASE handled
  <2>1. HandOver(s) /\ Ready({t}, offers)
    BY <1>3, <1>4 DEF IRQMarkEvent
  <2>2. /\ In(sem_list[s], t) /\ t \in Thread /\ Waits(t)
        /\ \A r \in Sem : /\ Distinct(sem_list'[r])
                          /\ \A x : In(sem_list'[r], x) <=> In(sem_list[r], x) /\ x # t
    BY <1>1, <1>4, <2>1, HandOverEffect
  <2> HIDE DEF t
  <2>3. ~In(time_list, t)
    BY <1>1, <2>2, WaitersAre DEF IsrAssumption
  <2>4. AtMostOne({t})
    BY <2>2 DEF AtMostOne
  <2>5. /\ QueuesOK(Thread, Tid, sched_list', sched_queue_i', priority)
        /\ \A x : Queued(sched_list', x) <=>
              Queued(sched_list, x) \/ x \in {t} \/ (offers /\ x = current)
    BY <2>1, <2>4, ReadyEffect
  <2>6. WakeEffect({t}, offers)
    BY <1>1, <2>2, <2>3, <2>5, PlaceParts DEF WakeEffect
  <2>7. QED
    BY <1>1, <1>2, <1>3, <2>1, <2>2, <2>4, <2>6, InterruptStep
<1>5. CASE ~handled
  <2>1. Ready({}, offers) /\ AtMostOne({}) /\ sem_list' = sem_list
    BY <1>3, <1>5 DEF IRQMarkEvent, Free, AtMostOne
  <2>2. WakeEffect({}, offers)
    BY <1>1, <2>1, QuietEffect
  <2>3. QED
    BY <1>1, <1>2, <1>3, <2>1, <2>2, InterruptStep
<1>6. QED
  BY <1>4, <1>5

----------------------------------------------------------------------------
(* The refinement.                                                         *)

LEMMA InitSeen == Init => Sched!Init
<1> SUFFICES ASSUME Init PROVE Sched!Init
  OBVIOUS
<1>1. Waiting = {}
  BY DEF Init, Waiting, Waits, InSem, In
<1>2. SchedStatus = [t \in Tid |-> IF t = Idle THEN {"READY"} ELSE {}]
  BY FlagsSeen DEF Init, SchedStatus
<1>3. SchedPlace = "user"
  BY DEF Init, SchedPlace
<1>4. /\ Sched!EmptyQueues = EmptyQueues /\ Sched!MinPriority = MinPriority
      /\ Sched!MaxPriority = MaxPriority
  BY SameTids DEF Sched!EmptyQueues, EmptyQueues, Sched!MinPriority, MinPriority,
                  Sched!MaxPriority, MaxPriority
<1>5. QED
  BY <1>1, <1>2, <1>3, <1>4, SameTids DEF Init, Sched!Init

LEMMA NextSeen ==
    PlaceInv /\ IsrAssumption /\ [Next]_vars => [Sched!Next]_(Sched!vars)
<1> SUFFICES ASSUME PlaceInv, IsrAssumption, [Next]_vars
             PROVE  Sched!Next \/ UNCHANGED Sched!vars
  OBVIOUS
<1>1. ASSUME NEW p \in NewPriority, TaskCreate(p) PROVE Sched!Next
  <2>1. p \in Prio
    BY KernelAssumption
  <2>2. QED
    BY <1>1, <2>1, TaskCreateStep, SameTids DEF Sched!Next
<1>2. CASE ThreadExit \/ SyscallEntry \/ Schedule \/ ClearScheduleActive \/ Dispatch
  BY <1>2, ThreadExitStep, SyscallEntryStep, ScheduleStep, ClearScheduleActiveStep,
     DispatchStep DEF Sched!Next
<1>3. ASSUME NEW s \in Sem, SemWait(s) \/ SemBlocks(s) \/ SemTryWait(s) \/ SemPost(s)
      PROVE  Sched!Next \/ UNCHANGED Sched!vars
  BY <1>3, SemWaitStep, SemBlocksStep, SemTryWaitStep, SemPostStep, SameTids
     DEF Sched!Next
<1>4. ASSUME NEW n \in Delays, Sleep(n) PROVE Sched!Next
  BY <1>4, SleepStep DEF Sched!Next
<1>5. ASSUME NEW s \in Timed, SemTimedWaitReturns(s) \/ \E n \in Delays : SemTimedWait(s, n)
      PROVE  Sched!Next
  BY <1>5, SemTimedWaitStep, SemTimedWaitReturnsStep DEF Sched!Next
<1>6. CASE HandleClockEvent \/ TimerISR \/ ClockISR \/ \E s \in Events : IRQMarkEvent(s)
  BY <1>6, HandleClockEventStep, TimerISRStep, ClockISRStep, IRQMarkEventStep DEF Sched!Next
<1>7. CASE NoClockEvent \/ ClearPendingEvents \/ Tick
  BY <1>7, EventsDoneStep, TickStep
<1>8. CASE UNCHANGED vars
  <2>1. /\ UNCHANGED <<sched_list, sched_queue_i, current, old_current, priority, tcb_list,
                       need_reesched, status, sem_list, time_list>>
        /\ SchedPlace' = SchedPlace
    BY <1>8 DEF vars, queues, cpu, tasks, sems, times, SchedPlace
  <2>2. QED
    BY <2>1, HiddenStep
<1>9. QED
  BY <1>1, <1>2, <1>3, <1>4, <1>5, <1>6, <1>7, <1>8 DEF Next, Kernel

\* Whatever the semaphores, timeouts and events are, they reach the ready
\* queues only by the calls and wake-ups of SchedCalls: a thread is readied
\* only out of a wait, blocks only as a whole call, and a schedule follows
\* (syscall.c, time.c:231-268, irqev.c:95-120).
THEOREM ImplementsSchedCorrect ==
    ASSUME EventInCall = FALSE, Timed \cap Events = {}
    PROVE  Spec => ImplementsSched
<1>1. IsrAssumption
  BY DEF IsrAssumption
<1>2. Init => Sched!Init
  BY InitSeen
<1>3. PlaceInv /\ [Next]_vars => [Sched!Next]_(Sched!vars)
  BY <1>1, NextSeen
<1>4. Spec => []PlaceInv
  BY PlacesCorrect
<1>5. QED
  BY <1>2, <1>3, <1>4, PTL DEF Spec, ImplementsSched, Sched!Spec
=============================================================================
