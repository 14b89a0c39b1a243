------------------------- MODULE ErcosSched_proofs -------------------------
(***************************************************************************)
(* Theorems about the scheduler for any number of threads and priorities   *)
(* and any number of interrupts: SchedInv is an inductive invariant of     *)
(* ErcosSched, which says of the ready queues what holds until an ISR      *)
(* comes between two statements that broken names; and every step that     *)
(* does not break them is a step of PriorityLine.                          *)
(***************************************************************************)
EXTENDS MCErcosSched, ReadyQueue_proofs, FiniteSetTheorems

LEMMA TidFacts == /\ Thread \subseteq Tid /\ Idle \in Thread /\ Main \in Thread
                  /\ Boot \in Tid /\ Boot \notin Thread /\ Idle # Main
BY SchedAssumption DEF Thread, Tid, Boot, Idle, Main

\* What TypeOK says of the variables that are in QueuesOK, and of the others.
QueueTypes ==
    /\ sched_list \in [Prio -> Seq(Thread)]
    /\ sched_queue_i \in Prio
    /\ priority \in [Tid -> Prio]

OtherTypes ==
    /\ current \in Thread
    /\ old_current \in Tid
    /\ status \in [Tid -> SUBSET Flags]
    /\ tcb_list \in Seq(Thread)
    /\ waiting \subseteq Thread
    /\ need_reesched \in BOOLEAN
    /\ pc \in Places
    /\ target \in Tid /\ wanted \in Prio
    /\ step \in {"test", "write", "link"} /\ seen \in Seq(Thread)
    /\ offers \in BOOLEAN /\ broken \in Breaks
    /\ running \in Tid
    /\ depth \in Nat
    /\ context \in [Tid -> [thread : Tid, depth : Nat]]
    /\ torn \in BOOLEAN /\ stale \in BOOLEAN

\* The ready queues are whole, and every thread is in one place.
Whole == /\ QueuesOK(Thread, Tid, sched_list, sched_queue_i, priority)
         /\ OnePlace
         /\ SomePlace
         /\ TargetOK

\* SchedInv in the parts the proofs handle one by one.
LEMMA SchedInvParts ==
    /\ SchedInv <=> QueueTypes /\ OtherTypes /\ (broken = "none" => Whole)
    /\ SchedInv' <=> QueueTypes' /\ OtherTypes' /\ (broken' = "none" => Whole')
<1>1. SchedInv <=> QueueTypes /\ OtherTypes /\ (broken = "none" => Whole)
  BY TidFacts DEF SchedInv, QueuesOK, OtherTypes, QueueTypes, TypeOK, IndexPointsToFirst,
                  OwnQueue, Whole
<1>2. SchedInv' <=> QueueTypes' /\ OtherTypes' /\ (broken' = "none" => Whole')
  BY TidFacts DEF SchedInv, QueuesOK, OtherTypes, QueueTypes, TypeOK, IndexPointsToFirst,
                  OwnQueue, Whole
<1>3. QED
  BY <1>1, <1>2

LEMMA WholeQueueTypes ==
    /\ QueuesOK(Thread, Tid, sched_list, sched_queue_i, priority) => QueueTypes
    /\ QueuesOK(Thread, Tid, sched_list', sched_queue_i', priority') => QueueTypes'
BY DEF QueuesOK, QueueTypes

LEMMA FreeList ==
    ASSUME OtherTypes
    PROVE  /\ \A x : In(tcb_list, x) => x \in Thread
           /\ \A t \in Thread :
                 /\ Append(tcb_list, t) \in Seq(Thread)
                 /\ \A x : In(Append(tcb_list, t), x) <=> In(tcb_list, x) \/ x = t
                 /\ Distinct(tcb_list) /\ ~In(tcb_list, t) => Distinct(Append(tcb_list, t))
           /\ tcb_list # <<>> =>
                 /\ Tail(tcb_list) \in Seq(Thread) /\ Head(tcb_list) \in Thread
                 /\ In(tcb_list, Head(tcb_list))
                 /\ \A x : In(Tail(tcb_list), x) => In(tcb_list, x)
                 /\ \A x : In(tcb_list, x) => In(Tail(tcb_list), x) \/ x = Head(tcb_list)
                 /\ Distinct(tcb_list) =>
                       Distinct(Tail(tcb_list)) /\ ~In(Tail(tcb_list), Head(tcb_list))
<1>1. tcb_list \in Seq(Thread)
  BY DEF OtherTypes
<1>2. \A x : In(tcb_list, x) => x \in Thread
  BY <1>1, EmptyHoldsNothing
<1>3. ASSUME NEW t \in Thread
      PROVE  /\ Append(tcb_list, t) \in Seq(Thread)
             /\ \A x : In(Append(tcb_list, t), x) <=> In(tcb_list, x) \/ x = t
             /\ Distinct(tcb_list) /\ ~In(tcb_list, t) => Distinct(Append(tcb_list, t))
  BY <1>1, AppendHolds
<1>4. ASSUME tcb_list # <<>>
      PROVE  /\ Tail(tcb_list) \in Seq(Thread) /\ Head(tcb_list) \in Thread
             /\ In(tcb_list, Head(tcb_list))
             /\ \A x : In(Tail(tcb_list), x) => In(tcb_list, x)
             /\ \A x : In(tcb_list, x) => In(Tail(tcb_list), x) \/ x = Head(tcb_list)
             /\ Distinct(tcb_list) =>
                   Distinct(Tail(tcb_list)) /\ ~In(Tail(tcb_list), Head(tcb_list))
  BY <1>1, <1>4, TailHolds
<1>5. QED
  BY <1>2, <1>3, <1>4

----------------------------------------------------------------------------
(* One lemma per group of actions: each keeps SchedInv.                    *)

----------------------------------------------------------------------------
(* System calls.  Each lemma is about the first step of one kind of body.  *)

\* What the kernel knows before it does anything to the ready queues.
LEMMA AtBody ==
    ASSUME OtherTypes, Whole, Body
    PROVE  /\ ~Queued(sched_list, current) /\ ~Blocked(current)
           /\ current \notin waiting /\ ~In(tcb_list, current)
           /\ current \in Thread /\ UNCHANGED <<current, old_current, running, depth, torn, stale>>
           /\ UNCHANGED <<sched_list, sched_queue_i>> /\ need_reesched' = TRUE
           /\ Settled /\ offers = FALSE
<1>1. Settled /\ pc = "entry"
  BY DEF Body, Settled
<1>2. QED
  BY <1>1 DEF OnePlace, OtherTypes, Body, Whole, TargetOK, queues

LEMMA PlainCallKeeps == ASSUME OtherTypes, Whole, PlainCall PROVE OtherTypes' /\ Whole'
<1>1. /\ Body /\ UNCHANGED <<status, priority, tcb_list, waiting, offers, broken, context>>
      /\ pc' = "head" /\ target' = current /\ step' = "test" /\ seen' = <<>>
      /\ wanted' = MaxPriority
  BY DEF PlainCall, threads, Inserts
<1>2. OtherTypes'
  BY <1>1, AtBody, TidFacts, PrioInt, EmptySeq DEF OtherTypes, Places
<1>3. OnePlace' /\ SomePlace' /\ TargetOK'
  BY <1>1, AtBody DEF Whole, OnePlace, SomePlace, TargetOK, Settled, Blocked, Inserting
<1>4. QED
  BY <1>1, <1>2, <1>3, AtBody DEF Whole

LEMMA BlockingCallKeeps == ASSUME OtherTypes, Whole, BlockingCall PROVE OtherTypes' /\ Whole'
<1>1. /\ Body /\ UNCHANGED <<priority, tcb_list, target, wanted, step, seen, offers,
                             broken, context>>
      /\ pc' = "body" /\ waiting' = waiting \cup {current}
  BY DEF BlockingCall, work
<1>2. /\ status' \in [Tid -> SUBSET Flags]
      /\ \A x \in Tid : x # current => status'[x] = status[x]
      /\ "BLOCKED" \in status'[current]
  BY <1>1, AtBody, TidFacts DEF BlockingCall, OtherTypes, Flags
<1>3. OtherTypes'
  BY <1>1, <1>2, AtBody DEF OtherTypes, Places
<1>4. OnePlace'
  <2>1. ASSUME NEW t \in Thread, Queued(sched_list', t)
        PROVE  ~Blocked(t)' /\ t \notin waiting' /\ ~In(tcb_list', t)
    BY <1>1, <1>2, <2>1, AtBody, TidFacts DEF Whole, OnePlace, Blocked
  <2>2. ASSUME NEW t \in waiting'
        PROVE  Blocked(t)' /\ ~In(tcb_list', t)
    BY <1>1, <1>2, AtBody, TidFacts DEF Whole, OnePlace, Blocked, OtherTypes
  <2>3. QED
    BY <1>1, <2>1, <2>2 DEF Whole, OnePlace, Blocked, Settled
<1>5. SomePlace' /\ TargetOK'
  BY <1>1, AtBody DEF Whole, SomePlace, TargetOK, Settled, Inserting
<1>6. QED
  BY <1>1, <1>3, <1>4, <1>5, AtBody DEF Whole

LEMMA WakingCallKeeps ==
    ASSUME OtherTypes, Whole, NEW t \in Thread, WakingCall(t) PROVE OtherTypes' /\ Whole'
<1>1. /\ Body /\ UNCHANGED <<status, priority, tcb_list, broken, context>>
      /\ t \in waiting /\ waiting' = waiting \ {t} /\ offers' = TRUE
      /\ pc' = "tail" /\ target' = t /\ step' = "test" /\ seen' = <<>>
      /\ wanted' = MaxPriority
  BY DEF WakingCall, Inserts
<1>2. OtherTypes'
  BY <1>1, AtBody, TidFacts, PrioInt, EmptySeq DEF OtherTypes, Places
<1>3. ~Queued(sched_list, t) /\ ~In(tcb_list, t) /\ t # current
  BY <1>1, AtBody DEF Whole, OnePlace
<1>4. OnePlace' /\ SomePlace' /\ TargetOK'
  BY <1>1, <1>3, AtBody DEF Whole, OnePlace, SomePlace, TargetOK, Settled, Blocked, Inserting
<1>5. QED
  BY <1>1, <1>2, <1>4, AtBody DEF Whole

LEMMA TaskCreateKeeps ==
    ASSUME OtherTypes, Whole, NEW p \in Prio, TaskCreate(p) PROVE OtherTypes' /\ Whole'
<1> DEFINE t == Head(tcb_list)
<1>1. /\ Body /\ tcb_list # <<>> /\ tcb_list' = Tail(tcb_list)
      /\ priority' = [priority EXCEPT ![t] = p]
      /\ context' = [context EXCEPT ![t] = [thread |-> t, depth |-> 0]]
      /\ UNCHANGED <<status, waiting, broken>> /\ offers' = TRUE
      /\ pc' = "tail" /\ target' = t /\ step' = "test" /\ seen' = <<>>
      /\ wanted' = MaxPriority
  BY DEF TaskCreate, Inserts
<1>2. /\ t \in Thread /\ tcb_list' \in Seq(Thread) /\ In(tcb_list, t)
      /\ \A x : In(tcb_list', x) => In(tcb_list, x)
      /\ \A x : In(tcb_list, x) => In(tcb_list', x) \/ x = t
      /\ Distinct(tcb_list') /\ ~In(tcb_list', t)
  BY <1>1, FreeList DEF Whole, OnePlace
<1> HIDE DEF t
<1>3. t # current /\ t \notin waiting /\ ~Queued(sched_list, t)
  BY <1>1, <1>2, AtBody DEF Whole, OnePlace
<1>4. context' \in [Tid -> [thread : Tid, depth : Nat]]
  BY <1>1, <1>2, TidFacts DEF OtherTypes
<1>5. OtherTypes'
  <2>1. t \in Thread /\ tcb_list' \in Seq(Thread)
    BY <1>2
  <2>2. /\ Body /\ UNCHANGED <<status, waiting, broken>> /\ offers' = TRUE
        /\ pc' = "tail" /\ target' = t /\ step' = "test" /\ seen' = <<>>
        /\ wanted' = MaxPriority
    BY <1>1
  <2>3. QED
    BY <1>4, <2>1, <2>2, AtBody, TidFacts, PrioInt, EmptySeq DEF OtherTypes, Places
<1>6. QueuesOK(Thread, Tid, sched_list', sched_queue_i', priority')
  BY <1>1, <1>2, <1>3, AtBody, NewPriorityKeepsQueues DEF Whole
<1>7. OnePlace'
  BY <1>1, <1>2, <1>3, AtBody DEF Whole, OnePlace, Blocked, Settled
<1>8. SomePlace'
  BY <1>1, <1>2, AtBody DEF Whole, SomePlace, Settled
<1>9. TargetOK'
  BY <1>1, <1>2, <1>3, AtBody DEF TargetOK, Inserting
<1>10. QED
  BY <1>5, <1>6, <1>7, <1>8, <1>9 DEF Whole

\* A change of priority begins; a thread taken for ready is in a list.
LEMMA ReprioritisesKeeps ==
    ASSUME OtherTypes, Whole, Body, NEW t \in Thread, NEW p \in Prio, NEW queued,
           Reprioritises(t, p, queued), broken' \in Breaks
    PROVE  /\ OtherTypes'
           /\ (queued => Queued(sched_list, t)) => Whole'
<1>1. /\ pc' = IF queued THEN "unlink" ELSE "change"
      /\ target' = t /\ wanted' = p /\ step' = "test" /\ offers' = TRUE
      /\ seen' = IF queued THEN sched_list[priority[t]] ELSE <<>>
      /\ UNCHANGED <<status, priority, tcb_list, waiting, context>>
  BY DEF Reprioritises, threads
<1>2. seen' \in Seq(Thread)
  BY <1>1, TidFacts, EmptySeq DEF Whole, QueuesOK
<1>3. pc' \in {"unlink", "change"}
  BY <1>1
<1>4. OtherTypes'
  BY <1>1, <1>2, <1>3, AtBody, TidFacts DEF OtherTypes, Places
<1>5. OnePlace' /\ SomePlace'
  BY <1>1, <1>3, AtBody DEF Whole, OnePlace, SomePlace, Settled, Blocked
<1>6. ASSUME queued => Queued(sched_list, t) PROVE TargetOK'
  BY <1>1, <1>3, <1>6, AtBody DEF TargetOK, Inserting
<1>7. QED
  BY <1>1, <1>4, <1>5, <1>6, AtBody DEF Whole

\* A live thread that is not current and not blocked is queued.
LEMMA ReadyIsQueued ==
    ASSUME OtherTypes, Whole, Body, NEW t \in Thread, Live(t), t # current, ~Blocked(t)
    PROVE  Queued(sched_list, t)
<1>1. pc = "entry"
  BY DEF Body
<1>2. QED
  BY <1>1 DEF Whole, OnePlace, SomePlace, Live

LEMMA SetPriorityKeeps ==
    ASSUME OtherTypes, Whole, NEW t \in Thread, NEW p \in Prio, SetPriority(t, p),
           broken = "none"
    PROVE  OtherTypes' /\ Whole'
<1>1. /\ Body /\ Live(t) /\ Reprioritises(t, p, t # current /\ ~Blocked(t))
      /\ broken' \in Breaks
  BY DEF SetPriority, Breaks
<1>2. t # current /\ ~Blocked(t) => Queued(sched_list, t)
  BY <1>1, ReadyIsQueued
<1>3. QED
  BY <1>1, <1>2, ReprioritisesKeeps

LEMMA SetTmpPriorityKeeps ==
    ASSUME OtherTypes, Whole, NEW t \in Thread, NEW p \in Prio, SetTmpPriority(t, p)
    PROVE  OtherTypes' /\ (broken' = "none" => Whole')
<1>1. /\ Body /\ Live(t) /\ Reprioritises(t, p, t # current /\ ~Blocked(current))
      /\ broken' = IF t # current /\ Blocked(t) THEN "test" ELSE "none"
  BY DEF SetTmpPriority
<1>2. broken' \in Breaks
  BY <1>1 DEF Breaks
<1>3. broken' = "none" => (t # current /\ ~Blocked(current) => Queued(sched_list, t))
  BY <1>1, ReadyIsQueued
<1>4. QED
  BY <1>1, <1>2, <1>3, ReprioritisesKeeps

LEMMA ThreadExitKeeps == ASSUME OtherTypes, Whole, ThreadExit PROVE OtherTypes' /\ Whole'
<1>1. /\ Body /\ UNCHANGED <<priority, waiting, target, wanted, step, seen, offers,
                             broken, context>>
      /\ pc' = "body" /\ tcb_list' = Append(tcb_list, current)
  BY DEF ThreadExit, work
<1>2. /\ tcb_list' \in Seq(Thread) /\ Distinct(tcb_list')
      /\ \A x : In(tcb_list', x) <=> In(tcb_list, x) \/ x = current
  BY <1>1, AtBody, FreeList DEF Whole, OnePlace
<1>3. /\ status' \in [Tid -> SUBSET Flags] /\ status'[current] = {}
      /\ \A x \in Tid : x # current => status'[x] = status[x]
  BY <1>1, AtBody, TidFacts DEF ThreadExit, OtherTypes
<1>4. OtherTypes'
  BY <1>1, <1>2, <1>3, AtBody DEF OtherTypes, Places
<1>5. OnePlace'
  <2>1. ASSUME NEW t \in Thread, Queued(sched_list', t)
        PROVE  ~Blocked(t)' /\ t \notin waiting' /\ ~In(tcb_list', t)
    BY <1>1, <1>2, <1>3, <2>1, AtBody, TidFacts DEF Whole, OnePlace, Blocked
  <2>2. ASSUME NEW t \in waiting'
        PROVE  Blocked(t)' /\ ~In(tcb_list', t)
    BY <1>1, <1>2, <1>3, AtBody, TidFacts DEF Whole, OnePlace, Blocked, OtherTypes
  <2>3. QED
    BY <1>1, <1>2, <2>1, <2>2 DEF OnePlace, Blocked, Settled
<1>6. SomePlace' /\ TargetOK'
  BY <1>1, <1>2, AtBody DEF Whole, SomePlace, TargetOK, Settled, Inserting
<1>7. QED
  BY <1>1, <1>4, <1>5, <1>6, AtBody DEF Whole

\* OS_IRQHandleEvent.
LEMMA HandleEventKeeps ==
    ASSUME OtherTypes, Whole, NEW t \in Thread, HandleEvent(t) PROVE OtherTypes' /\ Whole'
<1>1. /\ UNCHANGED <<sched_list, sched_queue_i, current, old_current, status, priority,
                     tcb_list, need_reesched, offers, broken, running, depth, context,
                     torn, stale>>
      /\ pc \in {"body", "epilogue"} /\ t \in waiting /\ waiting' = waiting \ {t}
      /\ pc' = "tail" /\ target' = t /\ step' = "test" /\ seen' = <<>>
      /\ wanted' = MaxPriority
  BY DEF HandleEvent, Inserts, queues, cpu
<1>2. OtherTypes'
  BY <1>1, TidFacts, PrioInt, EmptySeq DEF OtherTypes, Places
<1>3. ~Queued(sched_list, t) /\ ~In(tcb_list, t) /\ offers = FALSE
  BY <1>1 DEF Whole, OnePlace, TargetOK, OtherTypes
<1>4. OnePlace' /\ SomePlace' /\ TargetOK'
  BY <1>1, <1>3 DEF Whole, OnePlace, SomePlace, TargetOK, Settled, Blocked, Inserting
<1>5. QED
  BY <1>1, <1>2, <1>4 DEF Whole

----------------------------------------------------------------------------
(* The statements that work on the ready queues.                           *)

\* What is known of the thread that is about to go into a list.
LEMMA AtInsertion ==
    ASSUME OtherTypes, Whole, Inserting
    PROVE  /\ target \in Thread /\ priority[target] \in Prio
           /\ priority[target] \in Int /\ sched_queue_i \in Int
           /\ ~Queued(sched_list, target) /\ target \notin waiting
           /\ ~In(tcb_list, target)
           /\ pc = "head" => target = current
           /\ sched_list[priority[target]] \in Seq(Thread)
<1>1. /\ QueuesOK(Thread, Tid, sched_list, sched_queue_i, priority)
      /\ OnePlace /\ TargetOK /\ pc \in {"tail", "head"}
  BY DEF Whole, Inserting
<1>2. pc = "head" => Settled
  BY DEF Settled
<1>3. /\ target \in Thread
      /\ ~Queued(sched_list, target) /\ target \notin waiting /\ ~In(tcb_list, target)
      /\ pc = "head" => target = current
  BY <1>1, <1>2 DEF TargetOK, OnePlace
<1>4. /\ priority[target] \in Prio
      /\ priority[target] \in Int /\ sched_queue_i \in Int
  BY <1>1, <1>3, TidFacts, PrioInt DEF QueuesOK
<1>5. QED
  BY <1>1, <1>3, <1>4 DEF QueuesOK

LEMMA TestIndexKeeps == ASSUME OtherTypes, Whole, TestIndex PROVE OtherTypes' /\ Whole'
<1>1. /\ Inserting /\ step = "test"
      /\ status' = [status EXCEPT ![target] = {"READY"}]
      /\ UNCHANGED <<sched_list, sched_queue_i, current, old_current, priority, tcb_list,
                     waiting, need_reesched, pc, target, wanted, offers, broken,
                     running, depth, context, torn, stale>>
  BY DEF TestIndex, queues, cpu
<1>2. /\ step' \in {"write", "link"}
      /\ seen' = seen \/ seen' = sched_list[priority[target]]
      /\ step' = "link" => ~(priority[target] < sched_queue_i)
  BY DEF TestIndex, ReadsLinks
<1>3. /\ status' \in [Tid -> SUBSET Flags] /\ status'[target] = {"READY"}
      /\ \A x \in Tid : x # target => status'[x] = status[x]
  BY <1>1, AtInsertion, TidFacts DEF OtherTypes, Flags
<1>4. OtherTypes'
  BY <1>1, <1>2, <1>3, AtInsertion DEF OtherTypes
<1>5. OnePlace'
  <2>1. ASSUME NEW t \in Thread, Queued(sched_list', t)
        PROVE  ~Blocked(t)' /\ t \notin waiting' /\ ~In(tcb_list', t)
    BY <1>1, <1>3, <2>1, AtInsertion, TidFacts DEF Whole, OnePlace, Blocked
  <2>2. ASSUME NEW t \in waiting'
        PROVE  Blocked(t)' /\ ~In(tcb_list', t)
    BY <1>1, <1>3, AtInsertion, TidFacts DEF Whole, OnePlace, Blocked, OtherTypes
  <2>3. ~Blocked(current) => ~Blocked(current)'
    BY <1>1, <1>3, TidFacts DEF Blocked, OtherTypes
  <2>4. QED
    BY <1>1, <2>1, <2>2, <2>3 DEF Whole, OnePlace, Settled
<1>6. SomePlace'
  BY <1>1 DEF Whole, SomePlace, Settled
<1>7. TargetOK'
  <2>1. ~Blocked(target)'
    BY <1>1, <1>3 DEF Blocked
  <2>2. step' = "link" => sched_queue_i' <= priority'[target']
    BY <1>1, <1>2, AtInsertion
  <2>3. QED
    BY <1>1, <2>1, <2>2 DEF Whole, TargetOK, Inserting
<1>8. QED
  BY <1>1, <1>4, <1>5, <1>6, <1>7 DEF Whole

LEMMA WriteIndexKeeps ==
    ASSUME OtherTypes, Whole, WriteIndex
    PROVE  QueueTypes' /\ OtherTypes' /\ (broken' = "none" => Whole')
<1>1. /\ Inserting /\ step = "write"
      /\ sched_queue_i' = priority[target]
      /\ broken' = IF sched_queue_i < priority[target] THEN "index" ELSE "none"
      /\ step' = "link" /\ seen' = sched_list[priority[target]]
      /\ UNCHANGED <<sched_list, current, old_current, status, priority, tcb_list,
                     waiting, need_reesched, pc, target, wanted, offers,
                     running, depth, context, torn, stale>>
  BY DEF WriteIndex, ReadsLinks, threads, cpu
<1>2. broken' \in Breaks
  BY <1>1 DEF Breaks
<1>3. OtherTypes'
  BY <1>1, <1>2, AtInsertion DEF OtherTypes
<1>4. QueueTypes'
  BY <1>1, AtInsertion, WholeQueueTypes DEF Whole, QueueTypes
<1>5. ASSUME broken' = "none" PROVE Whole'
  <2>1. priority[target] <= sched_queue_i
    <3>1. ~(sched_queue_i < priority[target])
      BY <1>1, <1>5
    <3>2. QED
      BY <1>1, <3>1, AtInsertion
  <2>2. QueuesOK(Thread, Tid, sched_list', sched_queue_i', priority')
    <3>1. QueuesOK(Thread, Tid, sched_list, sched_queue_i, priority)
      BY DEF Whole
    <3>2. \A p \in Prio : p < priority[target] => p < sched_queue_i
      BY <1>1, <2>1, AtInsertion, PrioInt
    <3>3. /\ UNCHANGED <<sched_list, priority>> /\ sched_queue_i' = priority[target]
          /\ priority[target] \in Prio
      BY <1>1, AtInsertion
    <3>4. QED
      BY ONLY <3>1, <3>2, <3>3 DEF QueuesOK
  <2>3. OnePlace' /\ SomePlace'
    BY <1>1 DEF Whole, OnePlace, SomePlace, Blocked, Settled
  <2>4. TargetOK'
    <3>1. sched_queue_i' <= priority'[target']
      <4>1. sched_queue_i' = priority[target] /\ priority'[target'] = priority[target]
        BY <1>1
      <4>2. QED
        BY <1>1, <4>1, AtInsertion
    <3>2. QED
      BY <1>1, <3>1 DEF Whole, TargetOK, Inserting, Blocked
  <2>5. QED
    BY <2>2, <2>3, <2>4 DEF Whole
<1>6. QED
  BY <1>3, <1>4, <1>5

\* The list of the target gets it at an end that pc names.
LEMMA LinkInserts ==
    ASSUME OtherTypes, Whole, Link
    PROVE  /\ QueuesOK(Thread, Tid, sched_list', sched_queue_i', priority')
           /\ \A x : Queued(sched_list', x) <=> Queued(sched_list, x) \/ x = target
<1>1. /\ Inserting /\ step = "link" /\ UNCHANGED <<sched_queue_i, priority>>
      /\ \/ sched_list' = AddTail(sched_list, target, priority[target])
         \/ sched_list' = AddHead(sched_list, target, priority[target])
  BY DEF Link, threads
<1>2. Lower(sched_queue_i, priority[target]) = sched_queue_i
  BY <1>1, AtInsertion DEF Whole, TargetOK, Lower
<1>3. QED
  BY <1>1, <1>2, AtInsertion, AddTailKeepsQueues, AddHeadKeepsQueues DEF Whole

LEMMA LinkKeeps ==
    ASSUME OtherTypes, Whole, Link
    PROVE  QueueTypes' /\ OtherTypes' /\ (broken' = "none" => Whole')
<1>1. /\ Inserting /\ step = "link"
      /\ UNCHANGED <<sched_queue_i, current, old_current, status, priority, tcb_list,
                     waiting, need_reesched, running, depth, context, torn, stale>>
      /\ offers' = FALSE
  BY DEF Link, threads, cpu
<1>2. /\ IF pc = "tail" /\ offers
         THEN pc' = "head" /\ target' = current
         ELSE pc' \in {"body", "epilogue"} /\ target' = Boot
      /\ step' = "test" /\ seen' = <<>> /\ wanted' = MaxPriority
      /\ broken' \in Breaks
  BY DEF Link, Inserts, ListKept, Breaks
<1>3. OtherTypes'
  BY <1>1, <1>2, TidFacts, PrioInt, EmptySeq DEF OtherTypes, Places
<1>4. ~Blocked(target)
  BY <1>1, AtInsertion DEF Whole, OnePlace, TargetOK, Inserting, Settled
<1>5. OnePlace'
  <2>1. ASSUME NEW t \in Thread, Queued(sched_list', t)
        PROVE  ~Blocked(t)' /\ t \notin waiting' /\ ~In(tcb_list', t)
    BY <1>1, <1>4, <2>1, AtInsertion, LinkInserts DEF Whole, OnePlace, Blocked
  <2>2. Settled' => Settled /\ target # current
    BY <1>1, <1>2 DEF Settled, Whole, TargetOK
  <2>3. QED
    BY <1>1, <2>1, <2>2, LinkInserts DEF Whole, OnePlace, Blocked
<1>6. SomePlace'
  <2>1. pc' # "tail" /\ (Settled /\ ~Settled' => target = current)
    BY <1>1, <1>2, AtInsertion DEF Settled, Inserting
  <2>2. QED
    BY <1>1, <2>1, LinkInserts DEF Whole, SomePlace
<1>7. TargetOK'
  BY <1>1, <1>2 DEF TargetOK, Inserting, OtherTypes
<1>8. QED
  BY <1>3, <1>5, <1>6, <1>7, LinkInserts, WholeQueueTypes DEF Whole

\* The target leaves the list it is in, and its priority changes.
LEMMA UnlinkRemoves ==
    ASSUME OtherTypes, Whole, Unlink
    PROVE  /\ QueuesOK(Thread, Tid, sched_list', sched_queue_i', priority')
           /\ \A x : Queued(sched_list', x) <=> Queued(sched_list, x) /\ x # target
           /\ target \in Thread /\ Queued(sched_list, target)
<1> DEFINE m == RemoveThread(sched_list, target, priority[target])
<1>1. /\ pc = "unlink" /\ sched_list' = m /\ sched_queue_i' = sched_queue_i
      /\ priority' = [priority EXCEPT ![target] = wanted] /\ wanted \in Prio
  BY DEF Unlink, OtherTypes
<1>2. /\ target \in Thread /\ Queued(sched_list, target)
      /\ QueuesOK(Thread, Tid, sched_list, sched_queue_i, priority)
  BY <1>1 DEF Whole, TargetOK
<1>3. priority[target] \in Prio /\ sched_list \in [Prio -> Seq(Thread)]
  BY <1>2, TidFacts DEF QueuesOK
<1>4. Removed(Thread, sched_list, m, target, priority[target])
  BY <1>2, <1>3, RemoveThreadRemoves DEF QueuesOK
<1> HIDE DEF m
<1>5. /\ QueuesOK(Thread, Tid, m, sched_queue_i, priority)
      /\ \A x : Queued(m, x) <=> Queued(sched_list, x) /\ x # target
  BY <1>2, <1>3, <1>4, RemoveKeepsQueues
<1>6. QueuesOK(Thread, Tid, m, sched_queue_i, priority')
  BY <1>1, <1>2, <1>5, NewPriorityKeepsQueues
<1>7. QED
  BY <1>1, <1>2, <1>5, <1>6

LEMMA UnlinkKeeps ==
    ASSUME OtherTypes, Whole, Unlink
    PROVE  QueueTypes' /\ OtherTypes' /\ Whole'
<1>1. /\ pc = "unlink" /\ pc' = "tail" /\ target' = target /\ step' = "test"
      /\ seen' = <<>> /\ wanted' = MaxPriority /\ broken' \in Breaks
      /\ UNCHANGED <<current, old_current, status, tcb_list, waiting, need_reesched,
                     offers, running, depth, context, torn, stale>>
  BY DEF Unlink, Inserts, ListKept, Breaks, cpu
<1>2. OtherTypes'
  BY <1>1, TidFacts, PrioInt, EmptySeq DEF OtherTypes, Places
<1>3. /\ ~Queued(sched_list', target) /\ ~In(tcb_list, target) /\ target \notin waiting
      /\ target # current /\ offers = TRUE /\ Settled /\ Settled'
  BY <1>1, UnlinkRemoves DEF Whole, OnePlace, Settled, TargetOK, OtherTypes
<1>4. OnePlace' /\ SomePlace' /\ TargetOK'
  BY <1>1, <1>3, UnlinkRemoves DEF Whole, OnePlace, SomePlace, TargetOK, Blocked, Inserting
<1>5. QED
  BY <1>2, <1>4, UnlinkRemoves, WholeQueueTypes DEF Whole

LEMMA ChangeKeeps ==
    ASSUME OtherTypes, Whole, Change
    PROVE  QueueTypes' /\ OtherTypes' /\ (broken' = "none" => Whole')
<1>1. /\ pc = "change" /\ pc' = "head" /\ target' = current /\ step' = "test"
      /\ seen' = <<>> /\ wanted' = MaxPriority /\ offers' = FALSE
      /\ broken' = IF Queued(sched_list, target) THEN "priority" ELSE "none"
      /\ priority' = [priority EXCEPT ![target] = wanted]
      /\ UNCHANGED <<sched_list, sched_queue_i, current, old_current, status, tcb_list,
                     waiting, need_reesched, running, depth, context, torn, stale>>
  BY DEF Change, Inserts, queues, cpu
<1>2. broken' \in Breaks
  BY <1>1 DEF Breaks
<1>3. OtherTypes'
  BY <1>1, <1>2, TidFacts, PrioInt, EmptySeq DEF OtherTypes, Places
<1>4. target \in Thread /\ wanted \in Prio
  BY <1>1 DEF Whole, TargetOK, OtherTypes
<1>5. QueueTypes'
  BY <1>1, <1>4, WholeQueueTypes DEF Whole, QueueTypes
<1>6. ASSUME broken' = "none" PROVE Whole'
  <2>1. ~Queued(sched_list, target)
    BY <1>1, <1>6
  <2>2. QueuesOK(Thread, Tid, sched_list', sched_queue_i', priority')
    BY <1>1, <1>4, <2>1, NewPriorityKeepsQueues DEF Whole
  <2>3. OnePlace' /\ SomePlace' /\ TargetOK'
    BY <1>1 DEF Whole, OnePlace, SomePlace, TargetOK, Settled, Blocked, Inserting, OtherTypes
  <2>4. QED
    BY <2>2, <2>3 DEF Whole
<1>7. QED
  BY <1>3, <1>5, <1>6

----------------------------------------------------------------------------
(* OS_Schedule and the context switch.                                     *)

\* OS_Schedule takes the head of a list, and the index stays there.
LEMMA ScheduleTakes ==
    ASSUME OtherTypes, Whole, Schedule
    PROVE  /\ QueuesOK(Thread, Tid, sched_list', sched_queue_i', priority')
           /\ \A x : Queued(sched_list', x) <=> Queued(sched_list, x) /\ x # current'
           /\ current' \in Thread /\ Queued(sched_list, current')
<1>1. PICK p \in Prio : /\ ScanStops(sched_list, sched_queue_i, p)
                        /\ sched_queue_i' = p
                        /\ sched_list' = [sched_list EXCEPT ![p] = Tail(@)]
                        /\ current' = Head(sched_list[p])
  BY DEF Schedule
<1>2. priority' = priority /\ QueuesOK(Thread, Tid, sched_list, sched_queue_i, priority)
  BY DEF Schedule, Whole
<1>3. sched_list[p] # <<>> /\ sched_list \in [Prio -> Seq(Thread)]
  BY <1>1, <1>2 DEF ScanStops, QueuesOK
<1>4. /\ Removed(Thread, sched_list, sched_list', current', p)
      /\ current' \in Thread /\ In(sched_list[p], current')
  BY <1>1, <1>3, TakeRemoves
<1>5. ScanStops(sched_list, sched_queue_i, p) /\ sched_queue_i' = p /\ priority' = priority
  BY <1>1, <1>2
<1>6. QED
  BY <1>2, <1>4, <1>5, ScanKeepsQueues

LEMMA ScheduleKeeps ==
    ASSUME OtherTypes, Whole, Schedule, ~Settled, pc # "tail", need_reesched' \in BOOLEAN
    PROVE  OtherTypes' /\ Whole'
<1>1. /\ UNCHANGED <<priority, tcb_list, waiting, target, wanted, step, seen, offers,
                     broken, running, depth, context, torn>>
      /\ status' = [status EXCEPT ![current'] = {}]
      /\ old_current' = current /\ pc' = "switch" /\ stale' = FALSE
  BY DEF Schedule, work, cpu
<1>2. current' \in Thread /\ Queued(sched_list, current')
  BY ScheduleTakes
<1>3. /\ status' \in [Tid -> SUBSET Flags] /\ status'[current'] = {}
      /\ \A x \in Tid : x # current' => status'[x] = status[x]
  BY <1>1, <1>2, TidFacts DEF OtherTypes
<1>4. OtherTypes'
  BY <1>1, <1>2, <1>3, TidFacts DEF OtherTypes, Places
<1>5. OnePlace'
  <2>1. ASSUME NEW t \in Thread, Queued(sched_list', t)
        PROVE  ~Blocked(t)' /\ t \notin waiting' /\ ~In(tcb_list', t)
    BY <1>1, <1>3, <2>1, ScheduleTakes, TidFacts DEF Whole, OnePlace, Blocked
  <2>2. ASSUME NEW t \in waiting'
        PROVE  Blocked(t)' /\ ~In(tcb_list', t)
    BY <1>1, <1>2, <1>3, TidFacts DEF Whole, OnePlace, Blocked, OtherTypes
  <2>3. /\ ~Queued(sched_list', current') /\ ~Blocked(current)'
        /\ current' \notin waiting' /\ ~In(tcb_list', current')
        /\ Distinct(tcb_list')
    BY <1>1, <1>2, <1>3, ScheduleTakes DEF Whole, OnePlace, Blocked
  <2>4. QED
    BY <2>1, <2>2, <2>3 DEF OnePlace, Blocked, Settled
<1>6. SomePlace'
  BY <1>1, ScheduleTakes DEF Whole, SomePlace, Settled
<1>7. TargetOK'
  BY <1>1 DEF Whole, TargetOK, Settled, Inserting, OtherTypes
<1>8. QED
  BY <1>4, <1>5, <1>6, <1>7, ScheduleTakes DEF Whole

\* Steps that only move the processor between settled places.
LEMMA SettledKeeps ==
    ASSUME OtherTypes, Whole, pc \in {"user", "switch", "dispatch"},
           pc' \in {"user", "entry", "switch", "dispatch"},
           UNCHANGED <<queues, current, old_current, threads, need_reesched, work, broken,
                       torn, stale>>,
           running' \in Tid, depth' \in Nat,
           context' \in [Tid -> [thread : Tid, depth : Nat]]
    PROVE  OtherTypes' /\ Whole'
<1>1. UNCHANGED <<sched_list, sched_queue_i, current, old_current, status,
                  priority, tcb_list, waiting, need_reesched, target, wanted, step, seen,
                  offers, broken, torn, stale>>
  BY DEF queues, threads, work
<1>2. QueuesOK(Thread, Tid, sched_list', sched_queue_i', priority')
  BY <1>1 DEF Whole
<1>3. OtherTypes'
  BY <1>1 DEF OtherTypes, Places
<1>4. OnePlace' /\ SomePlace' /\ TargetOK'
  BY <1>1 DEF Whole, OnePlace, SomePlace, TargetOK, Blocked, Settled, Inserting
<1>5. QED
  BY <1>2, <1>3, <1>4 DEF Whole

LEMMA DispatchKeeps == ASSUME OtherTypes, Whole, Dispatch PROVE OtherTypes' /\ Whole'
<1> DEFINE new == [thread |-> running, depth |-> depth]
           resumed == IF current = old_current THEN new ELSE context[current]
<1>2. new \in [thread : Tid, depth : Nat] /\ context[current] \in [thread : Tid, depth : Nat]
  BY TidFacts DEF OtherTypes
<1>3. /\ pc = "dispatch" /\ running' = resumed.thread
      /\ \/ resumed.depth = 0 /\ pc' = "user" /\ depth' = 0
         \/ resumed.depth # 0 /\ pc' = "dispatch" /\ depth' = resumed.depth - 1
      /\ \/ context' = context
         \/ context' = [context EXCEPT ![old_current] = new]
      /\ UNCHANGED <<queues, current, old_current, threads, need_reesched, work, broken,
                    torn, stale>>
  BY DEF Dispatch
<1>4. context' \in [Tid -> [thread : Tid, depth : Nat]]
  BY <1>2, <1>3 DEF OtherTypes
<1> HIDE DEF new
<1>5. resumed \in [thread : Tid, depth : Nat]
  BY <1>2
<1> HIDE DEF resumed
<1>6. resumed.thread \in Tid /\ resumed.depth \in Nat
  BY <1>5
<1>7. running' \in Tid /\ depth' \in Nat
  BY <1>3, <1>6
<1>8. /\ pc \in {"user", "switch", "dispatch"}
      /\ pc' \in {"user", "entry", "switch", "dispatch"}
  BY <1>3
<1>9. QED
  BY <1>3, <1>4, <1>7, <1>8, SettledKeeps

----------------------------------------------------------------------------
(* Interrupts.                                                             *)

\* What an ISR does that readies the waiting thread t.
LEMMA IsrReadiesFacts ==
    ASSUME OtherTypes, Whole, NEW t \in waiting, IsrReadies(t)
    PROVE  /\ t \in Thread /\ ~Queued(sched_list, t)
           /\ QueuesOK(Thread, Tid, sched_list', sched_queue_i', priority')
           /\ \A x : Queued(sched_list', x) <=> Queued(sched_list, x) \/ x = t
           /\ sched_queue_i' <= sched_queue_i
           /\ status' \in [Tid -> SUBSET Flags] /\ status'[t] = {"READY"}
           /\ \A x \in Tid : x # t => status'[x] = status[x]
           /\ waiting' = waiting \ {t}
           /\ UNCHANGED <<current, old_current, priority, tcb_list, need_reesched, broken>>
<1>1. /\ waiting' = waiting \ {t}
      /\ sched_list' = AddTail(sched_list, t, priority[t])
      /\ sched_queue_i' = Lower(sched_queue_i, priority[t])
      /\ status' = [status EXCEPT ![t] = {"READY"}]
      /\ UNCHANGED <<current, old_current, priority, tcb_list, need_reesched, broken>>
  BY DEF IsrReadies
<1>2. t \in Thread /\ ~Queued(sched_list, t)
  BY DEF OtherTypes, Whole, OnePlace
<1>3. /\ QueuesOK(Thread, Tid, sched_list', sched_queue_i', priority')
      /\ \A x : Queued(sched_list', x) <=> Queued(sched_list, x) \/ x = t
  BY <1>1, <1>2, AddTailKeepsQueues DEF Whole
<1>4. /\ status' \in [Tid -> SUBSET Flags] /\ status'[t] = {"READY"}
      /\ \A x \in Tid : x # t => status'[x] = status[x]
  BY <1>1, <1>2, TidFacts DEF OtherTypes, Flags
<1>5. sched_queue_i' <= sched_queue_i
  <2>1. priority[t] \in Int /\ sched_queue_i \in Int
    BY <1>2, TidFacts, PrioInt DEF Whole, QueuesOK
  <2>2. QED
    BY <1>1, <2>1 DEF Lower
<1>6. QED
  BY <1>1, <1>2, <1>3, <1>4, <1>5

\* It keeps every thread in one place, whatever it interrupts.
LEMMA IsrReadiesPlaces ==
    ASSUME OtherTypes, Whole, NEW t \in waiting, IsrReadies(t),
           Settled' <=> Settled,
           pc = "tail" => pc' = "tail" /\ target' = target
    PROVE  OnePlace' /\ SomePlace'
<1>1. OnePlace'
  <2>1. ASSUME NEW x \in Thread, Queued(sched_list', x)
        PROVE  ~Blocked(x)' /\ x \notin waiting' /\ ~In(tcb_list', x)
    BY <2>1, IsrReadiesFacts, TidFacts DEF Whole, OnePlace, Blocked
  <2>2. ASSUME NEW x \in waiting'
        PROVE  Blocked(x)' /\ ~In(tcb_list', x)
    BY IsrReadiesFacts, TidFacts DEF Whole, OnePlace, Blocked, OtherTypes
  <2>3. Settled => /\ ~Queued(sched_list', current') /\ ~Blocked(current)'
                   /\ current' \notin waiting' /\ ~In(tcb_list', current')
    BY IsrReadiesFacts, TidFacts DEF Whole, OnePlace, Blocked, OtherTypes
  <2>4. Distinct(tcb_list)'
    BY IsrReadiesFacts DEF Whole, OnePlace
  <2>5. QED
    BY <2>1, <2>2, <2>3, <2>4 DEF OnePlace, Blocked
<1>2. SomePlace'
  BY IsrReadiesFacts DEF Whole, SomePlace
<1>3. QED
  BY <1>1, <1>2

LEMMA InterruptThreadKeeps ==
    ASSUME OtherTypes, Whole, InterruptThread PROVE OtherTypes' /\ Whole'
<1>1. /\ pc \in {"user", "dispatch"} /\ depth' \in Nat /\ torn' \in BOOLEAN
      /\ UNCHANGED <<current, old_current, priority, tcb_list, need_reesched, broken,
                     offers, running, context, stale>>
      /\ pc' = "head" /\ target' = current /\ step' = "test" /\ seen' = <<>>
      /\ wanted' = MaxPriority
  <2>1. pc \in {"user", "dispatch"} /\ depth' \in Nat /\ torn' \in BOOLEAN
    <3>1. \/ pc = "user" /\ depth' = depth /\ torn' = torn
          \/ pc = "dispatch" /\ depth' = depth + 1 /\ torn' = TRUE
      BY DEF InterruptThread
    <3>2. depth \in Nat /\ torn \in BOOLEAN
      BY DEF OtherTypes
    <3>3. torn' \in BOOLEAN
      BY <3>1, <3>2, Zenon
    <3>4. QED
      BY <3>1, <3>2, <3>3
  <2>2. UNCHANGED <<current, old_current, priority, tcb_list, need_reesched, broken>>
    BY DEF InterruptThread, IsrReadies, IsrReadiesNone, threads
  <2>3. /\ pc' = "head" /\ target' = current /\ step' = "test" /\ seen' = <<>>
        /\ wanted' = MaxPriority /\ UNCHANGED <<offers, running, context, stale>>
    BY DEF InterruptThread, Inserts
  <2>4. QED
    BY <2>1, <2>2, <2>3
<1>2. Settled /\ Settled'
  BY <1>1 DEF Settled
<1>3. TargetOK'
  BY <1>1 DEF Whole, TargetOK, OtherTypes, Inserting
<1>4. CASE IsrReadiesNone
  <2>1. UNCHANGED <<sched_list, sched_queue_i, status, waiting>>
    BY <1>4 DEF IsrReadiesNone, queues, threads
  <2>2. OtherTypes'
    BY <1>1, <2>1, TidFacts, PrioInt, EmptySeq DEF OtherTypes, Places
  <2>3. OnePlace' /\ SomePlace'
    BY <1>1, <1>2, <2>1 DEF Whole, OnePlace, SomePlace, Blocked
  <2>4. QED
    BY <1>1, <1>3, <2>1, <2>2, <2>3 DEF Whole
<1>5. ASSUME NEW t \in waiting, IsrReadies(t) PROVE OtherTypes' /\ Whole'
  <2>1. OtherTypes'
    BY <1>1, <1>5, IsrReadiesFacts, TidFacts, PrioInt, EmptySeq DEF OtherTypes, Places
  <2>2. OnePlace' /\ SomePlace'
    BY <1>1, <1>2, <1>5, IsrReadiesPlaces
  <2>3. QED
    BY <1>3, <1>5, <2>1, <2>2, IsrReadiesFacts DEF Whole
<1>6. QED
  BY <1>4, <1>5 DEF InterruptThread

LEMMA InterruptKernelKeeps ==
    ASSUME OtherTypes, Whole, InterruptKernel PROVE OtherTypes' /\ Whole'
<1>1. PICK t \in waiting : IsrReadies(t)
  BY DEF InterruptKernel
<1>2. /\ UNCHANGED <<pc, target, wanted, step, seen, offers, running, depth, context,
                     torn>>
      /\ stale' \in BOOLEAN
  BY DEF InterruptKernel, work, cpu, OtherTypes
<1>3. Settled' <=> Settled
  BY <1>2, IsrReadiesFacts DEF Settled
<1>4. OtherTypes'
  BY <1>1, <1>2, IsrReadiesFacts DEF OtherTypes
<1>5. OnePlace' /\ SomePlace'
  BY <1>1, <1>2, <1>3, IsrReadiesPlaces
<1>6. TargetOK'
  <2>1. /\ t \in Thread /\ ~Queued(sched_list, t)
        /\ \A x : Queued(sched_list', x) <=> Queued(sched_list, x) \/ x = t
        /\ sched_queue_i' <= sched_queue_i /\ status'[t] = {"READY"}
        /\ \A x \in Tid : x # t => status'[x] = status[x]
        /\ waiting' = waiting \ {t}
        /\ UNCHANGED <<current, priority, tcb_list>>
    BY <1>1, IsrReadiesFacts
  <2>2. ASSUME pc = "tail"
        PROVE  /\ ~Queued(sched_list', target) /\ target \notin waiting'
               /\ step # "test" => ~Blocked(target)'
    BY <1>2, <2>1, <2>2, TidFacts DEF Whole, TargetOK, Blocked
  <2>3. ASSUME Inserting, step = "link"
        PROVE  sched_queue_i' <= priority[target]
    <3>1. sched_queue_i <= priority[target] /\ sched_queue_i \in Int /\ priority[target] \in Int
      BY <2>3, AtInsertion DEF Whole, TargetOK
    <3>2. sched_queue_i' \in Int
      BY <1>1, IsrReadiesFacts, PrioInt DEF QueuesOK
    <3>3. QED
      BY <2>1, <3>1, <3>2
  <2>4. QED
    BY <1>2, <2>1, <2>2, <2>3 DEF Whole, TargetOK, Inserting
<1>7. QED
  BY <1>1, <1>4, <1>5, <1>6, IsrReadiesFacts DEF Whole

----------------------------------------------------------------------------
(* The theorems.                                                           *)

LEMMA InitSchedInv == Init => SchedInv
<1> SUFFICES ASSUME Init PROVE SchedInv
  OBVIOUS
<1> DEFINE q == [EmptyQueues EXCEPT ![MinPriority] = <<Idle>>]
<1>1. /\ \A p \in Prio : q[p] = IF p = MinPriority THEN <<Idle>> ELSE <<>>
      /\ q \in [Prio -> Seq(Thread)]
  <2>1. EmptyQueues \in [Prio -> Seq(Thread)] /\ <<Idle>> \in Seq(Thread)
    BY TidFacts, EmptySeq DEF EmptyQueues
  <2>2. QED
    BY <2>1 DEF EmptyQueues
<1>2. /\ \A x : In(<<Idle>>, x) <=> x = Idle
      /\ \A x : ~In(<<>>, x)
      /\ Distinct(<<Idle>>) /\ Distinct(<<>>)
  BY DEF In, Distinct
<1> HIDE DEF q
<1>3. \A x : Queued(q, x) <=> x = Idle
  BY <1>1, <1>2, PrioInt DEF Queued
<1>4. sched_list = q
  BY DEF Init, q
<1>5. QueuesOK(Thread, Tid, sched_list, sched_queue_i, priority)
  <2>1. priority \in [Tid -> Prio] /\ priority[Idle] = MinPriority
    BY TidFacts, PrioInt DEF Init
  <2>2. sched_queue_i \in Prio /\ \A p \in Prio : ~(p < sched_queue_i)
    BY PrioInt DEF Init, Prio, MaxPriority
  <2>3. \A p \in Prio : \A t \in Thread : In(q[p], t) => priority[t] = p
    BY <1>1, <1>2, <2>1
  <2>4. \A p \in Prio : Distinct(q[p])
    BY <1>1, <1>2
  <2>5. QED
    BY <1>1, <1>4, <2>1, <2>2, <2>3, <2>4, TidFacts DEF QueuesOK
<1>6. /\ tcb_list \in Seq(Thread) /\ Distinct(tcb_list)
      /\ \A x : In(tcb_list, x) <=> x \in Thread \ {Idle, Main}
  <2> DEFINE n == MaxThreads - 3
  <2>1. n \in Nat /\ tcb_list = [i \in 1 .. n |-> i + 2]
    BY SchedAssumption DEF Init
  <2>2. Thread \ {Idle, Main} = 3 .. (n + 2)
    BY SchedAssumption DEF Thread, Tid, Boot, Idle, Main
  <2> HIDE DEF n
  <2>3. \A i \in 1 .. n : i + 2 \in Thread
    BY <2>1, <2>2
  <2>4. tcb_list \in Seq(Thread)
    BY <2>1, <2>3
  <2>5. DOMAIN tcb_list = 1 .. n /\ \A i \in 1 .. n : tcb_list[i] = i + 2
    BY <2>1
  <2>6. Distinct(tcb_list)
    BY <2>5 DEF Distinct
  <2>7. ASSUME NEW x, In(tcb_list, x) PROVE x \in 3 .. (n + 2)
    BY <2>1, <2>5, <2>7 DEF In
  <2>8. ASSUME NEW x \in 3 .. (n + 2) PROVE In(tcb_list, x)
    <3>1. x - 2 \in 1 .. n /\ tcb_list[x - 2] = x
      BY <2>1, <2>5
    <3>2. QED
      BY <2>5, <3>1 DEF In
  <2>9. QED
    BY <2>2, <2>4, <2>6, <2>7, <2>8
<1>7. OtherTypes
  <2>1. context \in [Tid -> [thread : Tid, depth : Nat]]
    BY TidFacts DEF Init
  <2>2. QED
    BY <1>6, <2>1, TidFacts, PrioInt, EmptySeq DEF Init, OtherTypes, Flags, Places, Breaks
<1>8. OnePlace
  BY <1>3, <1>4, <1>6, TidFacts DEF Init, OnePlace, Blocked
<1>9. SomePlace
  BY <1>3, <1>4, <1>6, TidFacts DEF Init, SomePlace, Settled
<1>10. TargetOK
  BY DEF Init, TargetOK, Inserting
<1>11. QED
  BY <1>5, <1>7, <1>8, <1>9, <1>10, SchedInvParts, WholeQueueTypes DEF Whole

LEMMA KernelKeeps ==
    ASSUME OtherTypes, Whole, broken = "none", Kernel
    PROVE  QueueTypes' /\ OtherTypes' /\ (broken' = "none" => Whole')
<1>1. CASE SyscallEntry
  <2>1. /\ pc \in {"user", "switch", "dispatch"}
        /\ pc' \in {"user", "entry", "switch", "dispatch"}
        /\ UNCHANGED <<queues, current, old_current, threads, need_reesched, work, broken,
                       torn, stale, running, depth, context>>
    BY <1>1 DEF SyscallEntry, cpu
  <2>2. QED
    BY <2>1, SettledKeeps, WholeQueueTypes DEF OtherTypes, Whole
<1>2. CASE PlainCall \/ BlockingCall \/ ThreadExit
  BY <1>2, PlainCallKeeps, BlockingCallKeeps, ThreadExitKeeps, WholeQueueTypes DEF Whole
<1>3. CASE \E t \in Thread : WakingCall(t) \/ HandleEvent(t)
  BY <1>3, WakingCallKeeps, HandleEventKeeps, WholeQueueTypes DEF Whole
<1>4. CASE \E p \in Prio : TaskCreate(p)
  BY <1>4, TaskCreateKeeps, WholeQueueTypes DEF Whole
<1>5. CASE \E t \in Thread, p \in Prio : SetPriority(t, p)
  BY <1>5, SetPriorityKeeps, WholeQueueTypes DEF Whole
<1>6. CASE \E t \in Thread, p \in Prio : SetTmpPriority(t, p)
  <2>1. QueueTypes'
    BY <1>6, WholeQueueTypes DEF SetTmpPriority, Body, Reprioritises, Whole, QueueTypes,
                                 queues, threads
  <2>2. QED
    BY <1>6, <2>1, SetTmpPriorityKeeps
<1>7. CASE TestIndex
  BY <1>7, TestIndexKeeps, WholeQueueTypes DEF Whole
<1>8. CASE WriteIndex \/ Link \/ Unlink \/ Change
  BY <1>8, WriteIndexKeeps, LinkKeeps, UnlinkKeeps, ChangeKeeps
<1>9. CASE SyscallExit \/ EpilogueSchedule
  <2>1. ~Settled /\ pc # "tail" /\ Schedule /\ need_reesched' \in BOOLEAN
    BY <1>9 DEF SyscallExit, EpilogueSchedule, Settled, OtherTypes
  <2>2. QED
    BY <2>1, ScheduleKeeps, WholeQueueTypes DEF Whole
<1>10. CASE ClearScheduleActive
  <2>1. /\ pc \in {"user", "switch", "dispatch"}
        /\ pc' \in {"user", "entry", "switch", "dispatch"}
        /\ UNCHANGED <<queues, current, old_current, threads, need_reesched, work, broken,
                       torn, stale, running, depth, context>>
    BY <1>10 DEF ClearScheduleActive, cpu
  <2>2. QED
    BY <2>1, SettledKeeps, WholeQueueTypes DEF OtherTypes, Whole
<1>11. CASE Dispatch
  BY <1>11, DispatchKeeps, WholeQueueTypes DEF Whole
<1>12. QED
  BY <1>1, <1>2, <1>3, <1>4, <1>5, <1>6, <1>7, <1>8, <1>9, <1>10, <1>11 DEF Kernel

LEMMA NextSchedInv == ASSUME SchedInv, [Next]_vars PROVE SchedInv'
<1>1. CASE UNCHANGED vars
  <2>1. UNCHANGED <<sched_list, sched_queue_i, current, old_current, status, priority,
                    tcb_list, waiting, need_reesched, pc, target, wanted, step, seen,
                    offers, broken, running, depth, context, torn, stale>>
    BY <1>1 DEF vars, queues, threads, work, cpu
  <2>2. TypeOK'
    BY <2>1 DEF SchedInv, TypeOK
  <2>3. broken = "none" => (IndexPointsToFirst /\ OwnQueue /\ OnePlace /\ SomePlace /\ TargetOK)'
    BY <2>1 DEF SchedInv, IndexPointsToFirst, OwnQueue, OnePlace, SomePlace, TargetOK,
                Blocked, Settled, Inserting
  <2>4. QED
    BY <2>1, <2>2, <2>3 DEF SchedInv
<1>2. CASE broken = "none" /\ (Kernel \/ InterruptThread \/ InterruptKernel)
  <2>1. OtherTypes /\ Whole
    BY <1>2, SchedInvParts
  <2>2. QueueTypes' /\ OtherTypes' /\ (broken' = "none" => Whole')
    BY <1>2, <2>1, KernelKeeps, InterruptThreadKeeps, InterruptKernelKeeps,
       WholeQueueTypes DEF Whole
  <2>3. QED
    BY <2>2, SchedInvParts
<1>3. QED
  BY <1>1, <1>2 DEF Next

\* The scheduler keeps its queues, its scan index and its threads in order,
\* for any number of threads and priorities and any number of interrupts, until
\* one comes between two statements that broken names.
THEOREM SchedInvariant == Spec => []SchedInv
<1>1. Init => SchedInv
  BY InitSchedInv
<1>2. SchedInv /\ [Next]_vars => SchedInv'
  BY NextSchedInv
<1>3. QED
  BY <1>1, <1>2, PTL DEF Spec

\* Type correctness, also in what such an interrupt leaves behind.
THEOREM TypeCorrect == Spec => []TypeOK
<1>1. SchedInv => TypeOK
  BY DEF SchedInv
<1>2. QED
  BY <1>1, SchedInvariant, PTL

\* The scan of OS_Schedule cannot pass a ready thread of higher priority, unless
\* a call has written the index over that of an ISR.
THEOREM ScanIndexCorrect == Spec => []ScanIndexIsLowerBound
<1>1. SchedInv => ScanIndexIsLowerBound
  BY DEF SchedInv, ScanIndexIsLowerBound
<1>2. QED
  BY <1>1, SchedInvariant, PTL

\* OS_SchedRemoveThread finds every ready thread in the list it looks at.
THEOREM OwnQueueCorrect == Spec => []OwnQueue
<1>1. SchedInv => OwnQueue
  BY DEF SchedInv, OwnQueue
<1>2. QED
  BY <1>1, SchedInvariant, PTL

\* No call and no interrupt loses a thread or puts it in two places.
THEOREM NoThreadLostCorrect == Spec => []NoThreadLost
<1>1. SchedInv => NoThreadLost
  <2> SUFFICES ASSUME SchedInv, pc = "user", broken = "none", NEW t \in Thread
               PROVE  IF t = current
                      THEN ~Queued(sched_list, t) /\ t \notin waiting /\ ~In(tcb_list, t)
                      ELSE \/ Queued(sched_list, t) /\ t \notin waiting /\ ~In(tcb_list, t)
                           \/ ~Queued(sched_list, t) /\ t \in waiting /\ ~In(tcb_list, t)
                           \/ ~Queued(sched_list, t) /\ t \notin waiting /\ In(tcb_list, t)
    BY DEF NoThreadLost
  <2>1. OnePlace /\ SomePlace /\ Settled
    BY DEF SchedInv, Settled
  <2>2. QED
    BY <2>1 DEF OnePlace, SomePlace
<1>2. QED
  BY <1>1, SchedInvariant, PTL

----------------------------------------------------------------------------
(* The thread of highest priority, and the contexts.                       *)

LEMMA ScheduleTakesHighest ==
    ASSUME OtherTypes, Whole, Schedule PROVE CurrentIsHighest'
<1>1. QueuesOK(Thread, Tid, sched_list, sched_queue_i, priority)
  BY DEF Whole
<1>2. PICK p \in Prio : /\ ScanStops(sched_list, sched_queue_i, p)
                        /\ sched_list' = [sched_list EXCEPT ![p] = Tail(@)]
                        /\ current' = Head(sched_list[p])
  BY DEF Schedule
<1>3. sched_list[p] # <<>> /\ priority' = priority
  BY <1>2 DEF ScanStops, Schedule
<1>4. current' \in Thread /\ In(sched_list[p], current')
  BY <1>1, <1>2, <1>3, TakeRemoves DEF QueuesOK
<1>5. priority'[current'] = p
  BY <1>1, <1>3, <1>4 DEF QueuesOK
<1>6. ASSUME NEW r \in Prio, r < p PROVE sched_list'[r] = <<>>
  <2>1. r \in Int /\ p \in Int /\ sched_queue_i \in Int
    BY <1>1, PrioInt DEF QueuesOK
  <2>2. ~(p < sched_queue_i)
    BY <1>1, <1>3 DEF QueuesOK
  <2>3. sched_list[r] = <<>>
    BY <1>1, <1>2, <1>6, <2>1, <2>2 DEF QueuesOK, ScanStops
  <2>4. sched_list'[r] = sched_list[r]
    BY <1>1, <1>2, <1>6, <2>1 DEF QueuesOK
  <2>5. QED
    BY <2>3, <2>4
<1>7. QED
  BY <1>5, <1>6 DEF CurrentIsHighest

\* What a step that is none of OS_Schedule does to current and its rivals.
LEMMA NextCurrentIsHighest ==
    ASSUME SchedInv, broken = "none", CurrentIsHighest, Next PROVE CurrentIsHighest'
<1> DEFINE Chosen == {"switch", "dispatch", "user"}
<1>1. CASE pc' \notin Chosen
  BY <1>1 DEF CurrentIsHighest
<1>2. CASE Schedule
  BY <1>2, SchedInvParts, ScheduleTakesHighest
<1>3. CASE pc \in Chosen /\ UNCHANGED <<sched_list, current, priority, stale>>
  BY <1>3 DEF CurrentIsHighest
<1>4. CASE stale'
  BY <1>4 DEF CurrentIsHighest
<1>5. \/ pc' \notin Chosen
      \/ Schedule
      \/ pc \in Chosen /\ UNCHANGED <<sched_list, current, priority, stale>>
      \/ stale'
  <2>1. ASSUME ClearScheduleActive \/ Dispatch
        PROVE  pc \in Chosen /\ UNCHANGED <<sched_list, current, priority, stale>>
    BY <2>1 DEF ClearScheduleActive, Dispatch, queues, threads
  <2>2. ASSUME InterruptKernel PROVE pc' \notin Chosen \/ stale'
    <3>1. pc' = pc /\ pc \notin {"user", "dispatch"}
      BY <2>2 DEF InterruptKernel, schedule_active
    <3>2. pc = "switch" => stale'
      BY <2>2 DEF InterruptKernel
    <3>3. QED
      BY <3>1, <3>2
  <2>3. ASSUME InterruptThread PROVE pc' \notin Chosen
    BY <2>3 DEF InterruptThread, Inserts
  <2>4. ASSUME TestIndex \/ WriteIndex \/ Link \/ Unlink \/ Change
        PROVE  pc' \notin Chosen
    BY <2>4 DEF TestIndex, WriteIndex, Link, Unlink, Change, Inserts, Inserting
  <2>5. ASSUME \/ SyscallEntry \/ PlainCall \/ BlockingCall \/ ThreadExit
               \/ \E t \in Thread : WakingCall(t) \/ HandleEvent(t)
               \/ \E p \in Prio : TaskCreate(p)
               \/ \E t \in Thread, p \in Prio : SetPriority(t, p) \/ SetTmpPriority(t, p)
        PROVE  pc' \notin Chosen
    BY <2>5 DEF SyscallEntry, PlainCall, BlockingCall, ThreadExit, WakingCall, HandleEvent,
                TaskCreate, SetPriority, SetTmpPriority, Reprioritises, Inserts
  <2>6. SyscallExit \/ EpilogueSchedule => Schedule
    BY DEF SyscallExit, EpilogueSchedule
  <2>7. Kernel \/ InterruptThread \/ InterruptKernel
    BY DEF Next
  <2>8. QED
    BY <2>1, <2>2, <2>3, <2>4, <2>5, <2>6, <2>7 DEF Kernel
<1>6. QED
  BY <1>1, <1>2, <1>3, <1>4, <1>5

\* While the queues are whole no thread executes while one of higher priority is
\* ready, but for what an ISR has readied after the choice.
THEOREM HighestPriorityCorrect == Spec => []HighestPriorityRuns
<1> DEFINE Inv == broken = "none" => CurrentIsHighest
<1>1. Init => Inv
  <2> SUFFICES ASSUME Init PROVE \A p \in Prio : ~(p < priority[current])
    BY DEF CurrentIsHighest
  <2>1. priority[current] = 0
    BY TidFacts DEF Init, MaxPriority
  <2>2. QED
    BY <2>1 DEF Prio
<1>2. SchedInv /\ Inv /\ [Next]_vars => Inv'
  <2> SUFFICES ASSUME SchedInv, Inv, [Next]_vars PROVE Inv'
    OBVIOUS
  <2>1. CASE UNCHANGED vars
    <3>1. UNCHANGED <<pc, broken, stale, priority, current, sched_list>>
      BY <2>1 DEF vars, queues, threads
    <3>2. QED
      BY <3>1 DEF CurrentIsHighest
  <2>2. CASE Next /\ broken = "none"
    BY <2>2, NextCurrentIsHighest
  <2>3. QED
    BY <2>1, <2>2 DEF Next
<1>3. SchedInv /\ Inv => HighestPriorityRuns
  <2> SUFFICES ASSUME SchedInv, Inv, pc = "user", broken = "none", ~stale,
                      NEW p \in Prio, sched_list[p] # <<>>
               PROVE  priority[current] <= p
    BY DEF HighestPriorityRuns
  <2>1. ~(p < priority[current])
    BY DEF CurrentIsHighest
  <2>2. priority[current] \in Int /\ p \in Int
    BY SchedInvParts, TidFacts, PrioInt DEF QueueTypes, OtherTypes
  <2>3. QED
    BY <2>1, <2>2
<1>4. QED
  BY <1>1, <1>2, <1>3, SchedInvariant, PTL DEF Spec

LEMMA NextContextOfCurrent ==
    ASSUME SchedInv, ContextOfCurrent, Next, broken = "none" PROVE ContextOfCurrent'
<1> DEFINE Switching == pc \in {"switch", "dispatch"}
           Own(t) == [thread |-> t, depth |-> 0]
<1>1. CASE torn'
  BY <1>1 DEF ContextOfCurrent
<1>2. CASE ~torn /\ ~torn'
  <2>1. /\ OtherTypes /\ depth = 0
        /\ running = IF Switching THEN old_current ELSE current
        /\ \A t \in Tid : context[t] = Own(t)
    BY <1>2, SchedInvParts DEF ContextOfCurrent
  <2>2. current \in Tid /\ old_current \in Tid
    BY <2>1, TidFacts DEF OtherTypes
  <2>3. CASE UNCHANGED <<running, depth, context, current, old_current>> /\ Switching' = Switching
    BY <2>1, <2>3 DEF ContextOfCurrent
  <2>4. CASE Schedule /\ ~Switching
    BY <2>1, <2>4 DEF ContextOfCurrent, Schedule, cpu
  <2>5. CASE Dispatch
    <3>1. running = old_current
      BY <2>1, <2>5 DEF Dispatch
    <3>2. CASE current = old_current
      BY <2>1, <2>5, <3>1, <3>2 DEF Dispatch, ContextOfCurrent
    <3>3. CASE current # old_current
      <4>1. context' = [context EXCEPT ![old_current] = Own(old_current)]
        BY <2>1, <2>5, <3>1, <3>3 DEF Dispatch
      <4>2. \A t \in Tid : context'[t] = Own(t)
        BY <2>1, <2>2, <4>1 DEF OtherTypes
      <4>3. context[current].thread = current /\ context[current].depth = 0
        <5>1. context[current] = [thread |-> current, depth |-> 0]
          BY <2>1, <2>2
        <5>2. QED
          BY <5>1
      <4>4. running' = current /\ depth' = 0 /\ pc' = "user" /\ current' = current
        BY <2>5, <3>3, <4>3 DEF Dispatch
      <4>5. QED
        BY <4>2, <4>4 DEF ContextOfCurrent
    <3>4. QED
      BY <3>2, <3>3
  <2>6. CASE \E p \in Prio : TaskCreate(p)
    <3>1. /\ context' = [context EXCEPT ![Head(tcb_list)] = Own(Head(tcb_list))]
          /\ pc = "entry" /\ pc' = "tail"
          /\ UNCHANGED <<current, old_current, running, depth>>
      BY <2>6 DEF TaskCreate, Body, Inserts
    <3>2. \A t \in Tid : context'[t] = Own(t)
      BY <2>1, <3>1 DEF OtherTypes
    <3>3. QED
      BY <2>1, <3>1, <3>2 DEF ContextOfCurrent
  <2>7. /\ SyscallEntry \/ ClearScheduleActive \/ InterruptKernel =>
             UNCHANGED <<running, depth, context, current, old_current>> /\ Switching' = Switching
        /\ TestIndex \/ WriteIndex \/ Link \/ Unlink \/ Change =>
             UNCHANGED <<running, depth, context, current, old_current>> /\ Switching' = Switching
    <3>1. ASSUME SyscallEntry \/ ClearScheduleActive
          PROVE  UNCHANGED <<running, depth, context, current, old_current>> /\ Switching' = Switching
      BY <3>1 DEF SyscallEntry, ClearScheduleActive, cpu
    <3>2. ASSUME InterruptKernel
          PROVE  UNCHANGED <<running, depth, context, current, old_current>> /\ Switching' = Switching
      BY <3>2 DEF InterruptKernel, IsrReadies, cpu
    <3>3. ASSUME TestIndex \/ WriteIndex \/ Link \/ Unlink \/ Change
          PROVE  UNCHANGED <<running, depth, context, current, old_current>> /\ Switching' = Switching
      BY <3>3 DEF TestIndex, WriteIndex, Link, Unlink, Change, Inserts, Inserting, cpu
    <3>4. QED
      BY <3>1, <3>2, <3>3
  <2>8. ASSUME \/ PlainCall \/ BlockingCall \/ ThreadExit
               \/ \E t \in Thread : WakingCall(t) \/ HandleEvent(t)
               \/ \E t \in Thread, p \in Prio : SetPriority(t, p) \/ SetTmpPriority(t, p)
        PROVE  UNCHANGED <<running, depth, context, current, old_current>> /\ Switching' = Switching
    BY <2>8 DEF PlainCall, BlockingCall, WakingCall, HandleEvent, SetPriority, SetTmpPriority,
                ThreadExit, Body, Reprioritises, Inserts, cpu
  <2>9. ASSUME InterruptThread
        PROVE  UNCHANGED <<running, depth, context, current, old_current>> /\ Switching' = Switching
    <3>1. pc = "user" /\ depth' = depth /\ pc' = "head" /\ UNCHANGED <<running, context>>
      BY <1>2, <2>9 DEF InterruptThread, Inserts
    <3>2. UNCHANGED <<current, old_current>>
      BY <2>9 DEF InterruptThread, IsrReadies, IsrReadiesNone
    <3>3. QED
      BY <3>1, <3>2
  <2>10. ASSUME SyscallExit \/ EpilogueSchedule PROVE Schedule /\ ~Switching
    BY <2>10 DEF SyscallExit, EpilogueSchedule
  <2>11. Kernel \/ InterruptThread \/ InterruptKernel
    BY DEF Next
  <2>12. QED
    BY <2>3, <2>4, <2>5, <2>6, <2>7, <2>8, <2>9, <2>10, <2>11 DEF Kernel
<1>3. torn => torn'
  BY DEF Next, Kernel, SyscallEntry, PlainCall, BlockingCall, ThreadExit, WakingCall,
         HandleEvent, TaskCreate, SetPriority, SetTmpPriority, Body, TestIndex, WriteIndex,
         Link, Unlink, Change, SyscallExit, EpilogueSchedule, Schedule,
         ClearScheduleActive, Dispatch, InterruptThread, InterruptKernel, cpu
<1>4. QED
  BY <1>1, <1>2, <1>3

\* The context switch never mixes up the contexts of two threads, unless it has
\* been interrupted before it began.
THEOREM ContextsKeptCorrect == Spec => []ContextsKept
<1>1. Init => ContextOfCurrent
  BY DEF Init, ContextOfCurrent
<1>2. SchedInv /\ ContextOfCurrent /\ [Next]_vars => ContextOfCurrent'
  <2> SUFFICES ASSUME SchedInv, ContextOfCurrent, [Next]_vars PROVE ContextOfCurrent'
    OBVIOUS
  <2>1. CASE UNCHANGED vars
    <3>1. UNCHANGED <<running, pc, old_current, current, depth, context, torn>>
      BY <2>1 DEF vars, cpu
    <3>2. QED
      BY <3>1 DEF ContextOfCurrent
  <2>2. CASE Next /\ broken = "none"
    BY <2>2, NextContextOfCurrent
  <2>3. QED
    BY <2>1, <2>2 DEF Next
<1>3. ContextOfCurrent => ContextsKept
  <2>1. ASSUME ContextOfCurrent, ~torn, pc = "user" PROVE running = current
    BY <2>1 DEF ContextOfCurrent
  <2>2. ASSUME ContextOfCurrent, ~torn, NEW t \in Thread PROVE context[t].thread = t
    <3>1. context[t] = [thread |-> t, depth |-> 0]
      BY <2>2, TidFacts DEF ContextOfCurrent
    <3>2. QED
      BY <3>1
  <2>3. QED
    BY <2>1, <2>2, Zenon DEF ContextsKept, ContextOfItsThread
<1>4. QED
  BY <1>1, <1>2, <1>3, SchedInvariant, PTL DEF Spec

----------------------------------------------------------------------------
(* The ready queues implement PriorityLine.  The line is the one sequence  *)
(* that holds the queued threads in their order; that there is one is part *)
(* of the induction: every step makes the next from the last.              *)

\* In the sequence s, x stands before y.
Stands(s, x, y) == \E i, j \in DOMAIN s : i < j /\ s[i] = x /\ s[j] = y

\* u is s with t inserted at place k.
Opened(S, s, u, k, t) ==
    /\ s \in Seq(S) /\ u \in Seq(S) /\ t \in S
    /\ k \in 1 .. (Len(s) + 1)
    /\ Len(u) = Len(s) + 1
    /\ \A j \in 1 .. (Len(s) + 1) :
          u[j] = IF j < k THEN s[j] ELSE IF j = k THEN t ELSE s[j - 1]

\* u is s without what is at place k.
Closed(S, s, u, k) ==
    /\ s \in Seq(S) /\ u \in Seq(S)
    /\ k \in 1 .. Len(s)
    /\ Len(u) = Len(s) - 1
    /\ \A j \in 1 .. (Len(s) - 1) : u[j] = IF j < k THEN s[j] ELSE s[j + 1]

\* An insertion keeps the order of the others.
LEMMA OpenedStands ==
    ASSUME NEW S, NEW s, NEW u, NEW k, NEW t, Opened(S, s, u, k, t)
    PROVE  /\ \A x, y : Stands(s, x, y) => Stands(u, x, y)
           /\ \A j \in 1 .. (k - 1) : Stands(u, s[j], t)
           /\ \A j \in k .. Len(s) : Stands(u, t, s[j])
           /\ \A x, y : Stands(u, x, y) =>
                 \/ Stands(s, x, y)
                 \/ y = t /\ \E j \in 1 .. (k - 1) : x = s[j]
                 \/ x = t /\ \E j \in k .. Len(s) : y = s[j]
<1>1. /\ Len(s) \in Nat /\ k \in Int /\ 1 <= k /\ k <= Len(s) + 1
      /\ DOMAIN s = 1 .. Len(s) /\ DOMAIN u = 1 .. (Len(s) + 1)
  BY LenProperties DEF Opened
<1>2. \A j \in 1 .. (Len(s) + 1) :
         u[j] = IF j < k THEN s[j] ELSE IF j = k THEN t ELSE s[j - 1]
  BY DEF Opened
<1>3. ASSUME NEW j \in 1 .. Len(s)
      PROVE  /\ j < k => j \in DOMAIN u /\ u[j] = s[j]
             /\ ~(j < k) => j + 1 \in DOMAIN u /\ u[j + 1] = s[j]
  BY <1>1, <1>2
<1>4. k \in DOMAIN u /\ u[k] = t
  BY <1>1, <1>2
<1>5. ASSUME NEW x, NEW y, Stands(s, x, y) PROVE Stands(u, x, y)
  <2>1. PICK i \in 1 .. Len(s), j \in 1 .. Len(s) : i < j /\ s[i] = x /\ s[j] = y
    BY <1>1, <1>5 DEF Stands
  <2> DEFINE f(n) == IF n < k THEN n ELSE n + 1
  <2>2. f(i) \in DOMAIN u /\ u[f(i)] = x
    BY <1>3, <2>1
  <2>3. f(j) \in DOMAIN u /\ u[f(j)] = y
    BY <1>3, <2>1
  <2>4. f(i) < f(j)
    BY <1>1, <2>1
  <2> HIDE DEF f
  <2>5. QED
    BY <2>2, <2>3, <2>4 DEF Stands
<1>6. ASSUME NEW j \in 1 .. (k - 1) PROVE Stands(u, s[j], t)
  <2>1. j \in 1 .. Len(s) /\ j < k
    BY <1>1
  <2>2. j \in DOMAIN u /\ u[j] = s[j]
    BY <1>3, <2>1
  <2>3. QED
    BY <1>4, <2>1, <2>2 DEF Stands
<1>7. ASSUME NEW j \in k .. Len(s) PROVE Stands(u, t, s[j])
  <2>1. j \in 1 .. Len(s) /\ ~(j < k) /\ k < j + 1
    BY <1>1
  <2>2. j + 1 \in DOMAIN u /\ u[j + 1] = s[j]
    BY <1>3, <2>1
  <2>3. QED
    BY <1>4, <2>1, <2>2 DEF Stands
<1>8. ASSUME NEW x, NEW y, Stands(u, x, y)
      PROVE  \/ Stands(s, x, y)
             \/ y = t /\ \E j \in 1 .. (k - 1) : x = s[j]
             \/ x = t /\ \E j \in k .. Len(s) : y = s[j]
  <2>1. PICK i \in 1 .. (Len(s) + 1), j \in 1 .. (Len(s) + 1) :
                i < j /\ u[i] = x /\ u[j] = y
    BY <1>1, <1>8 DEF Stands
  <2> DEFINE g(n) == IF n < k THEN n ELSE n - 1
  <2>2. ASSUME NEW n \in 1 .. (Len(s) + 1), n # k
        PROVE  g(n) \in DOMAIN s /\ s[g(n)] = u[n]
    <3>1. CASE n < k
      BY <1>1, <1>2, <3>1
    <3>2. CASE ~(n < k)
      BY <1>1, <1>2, <2>2, <3>2
    <3>3. QED
      BY <3>1, <3>2
  <2>3. CASE j = k
    <3>1. i \in 1 .. (k - 1) /\ u[i] = s[i]
      BY <1>1, <1>2, <2>1, <2>3
    <3>2. QED
      BY <1>4, <2>1, <2>3, <3>1
  <2>4. CASE i = k
    <3>1. j - 1 \in k .. Len(s) /\ u[j] = s[j - 1]
      BY <1>1, <1>2, <2>1, <2>4
    <3>2. QED
      BY <1>4, <2>1, <2>4, <3>1
  <2>5. CASE i # k /\ j # k
    <3>1. g(i) < g(j)
      BY <1>1, <2>1, <2>5
    <3>2. /\ g(i) \in DOMAIN s /\ s[g(i)] = x
          /\ g(j) \in DOMAIN s /\ s[g(j)] = y
      BY <2>1, <2>2, <2>5
    <3> HIDE DEF g
    <3>3. QED
      BY <3>1, <3>2 DEF Stands
  <2>6. QED
    BY <2>3, <2>4, <2>5
<1>9. QED
  BY <1>5, <1>6, <1>7, <1>8

\* So does a removal.
LEMMA ClosedStands ==
    ASSUME NEW S, NEW s, NEW u, NEW k, Closed(S, s, u, k)
    PROVE  /\ \A x, y : Stands(u, x, y) => Stands(s, x, y)
           /\ \A x, y : Stands(s, x, y) /\ x # s[k] /\ y # s[k] => Stands(u, x, y)
<1>1. /\ Len(s) \in Nat /\ k \in Int /\ 1 <= k /\ k <= Len(s)
      /\ DOMAIN s = 1 .. Len(s) /\ DOMAIN u = 1 .. (Len(s) - 1)
  BY LenProperties DEF Closed
<1>2. \A j \in 1 .. (Len(s) - 1) : u[j] = IF j < k THEN s[j] ELSE s[j + 1]
  BY DEF Closed
<1>3. ASSUME NEW x, NEW y, Stands(u, x, y) PROVE Stands(s, x, y)
  <2>1. PICK i \in 1 .. (Len(s) - 1), j \in 1 .. (Len(s) - 1) :
                i < j /\ u[i] = x /\ u[j] = y
    BY <1>1, <1>3 DEF Stands
  <2> DEFINE f(n) == IF n < k THEN n ELSE n + 1
  <2>2. /\ f(i) \in DOMAIN s /\ s[f(i)] = x
        /\ f(j) \in DOMAIN s /\ s[f(j)] = y
    BY <1>1, <1>2, <2>1
  <2>3. f(i) < f(j)
    BY <1>1, <2>1
  <2> HIDE DEF f
  <2>4. QED
    BY <2>2, <2>3 DEF Stands
<1>4. ASSUME NEW x, NEW y, Stands(s, x, y), x # s[k], y # s[k] PROVE Stands(u, x, y)
  <2>1. PICK i \in 1 .. Len(s), j \in 1 .. Len(s) : i < j /\ s[i] = x /\ s[j] = y
    BY <1>1, <1>4 DEF Stands
  <2>2. i # k /\ j # k
    BY <1>4, <2>1
  <2> DEFINE g(n) == IF n < k THEN n ELSE n - 1
  <2>3. ASSUME NEW n \in 1 .. Len(s), n # k PROVE g(n) \in DOMAIN u /\ u[g(n)] = s[n]
    <3>1. CASE n < k
      BY <1>1, <1>2, <3>1
    <3>2. CASE ~(n < k)
      <4>1. n - 1 \in 1 .. (Len(s) - 1) /\ ~(n - 1 < k) /\ (n - 1) + 1 = n
        BY <1>1, <2>3, <3>2
      <4>2. u[n - 1] = s[n]
        BY <1>2, <4>1
      <4>3. QED
        BY <1>1, <3>2, <4>1, <4>2
    <3>3. QED
      BY <3>1, <3>2
  <2>4. g(i) < g(j)
    BY <1>1, <2>1, <2>2
  <2>5. /\ g(i) \in DOMAIN u /\ u[g(i)] = x
        /\ g(j) \in DOMAIN u /\ u[g(j)] = y
    BY <2>1, <2>2, <2>3
  <2> HIDE DEF g
  <2>6. QED
    BY <2>4, <2>5 DEF Stands
<1>5. QED
  BY <1>3, <1>4

\* What is at place k is gone from a sequence that holds it once.
LEMMA ClosedHolds ==
    ASSUME NEW S, NEW s, NEW u, NEW k, Closed(S, s, u, k), Distinct(s)
    PROVE  \A x : In(u, x) <=> In(s, x) /\ x # s[k]
<1>1. /\ Len(s) \in Nat /\ k \in Int /\ 1 <= k /\ k <= Len(s)
      /\ DOMAIN s = 1 .. Len(s) /\ DOMAIN u = 1 .. (Len(s) - 1)
  BY LenProperties DEF Closed
<1>2. \A j \in 1 .. (Len(s) - 1) : u[j] = IF j < k THEN s[j] ELSE s[j + 1]
  BY DEF Closed
<1>3. ASSUME NEW x, In(u, x) PROVE In(s, x) /\ x # s[k]
  <2>1. PICK j \in 1 .. (Len(s) - 1) : u[j] = x
    BY <1>1, <1>3 DEF In
  <2> DEFINE f == IF j < k THEN j ELSE j + 1
  <2>2. f \in DOMAIN s /\ s[f] = x /\ f # k /\ k \in DOMAIN s
    BY <1>1, <1>2, <2>1
  <2> HIDE DEF f
  <2>3. QED
    BY <2>2 DEF In, Distinct
<1>4. ASSUME NEW x, In(s, x), x # s[k] PROVE In(u, x)
  <2>1. PICK n \in 1 .. Len(s) : s[n] = x
    BY <1>1, <1>4 DEF In
  <2>2. n # k
    BY <1>4, <2>1
  <2>3. CASE n < k
    <3>1. n \in DOMAIN u /\ u[n] = x
      BY <1>1, <1>2, <2>1, <2>3
    <3>2. QED
      BY <3>1 DEF In
  <2>4. CASE ~(n < k)
    <3>1. n - 1 \in 1 .. (Len(s) - 1) /\ ~(n - 1 < k) /\ (n - 1) + 1 = n
      BY <1>1, <2>2, <2>4
    <3>2. n - 1 \in DOMAIN u /\ u[n - 1] = x
      BY <1>1, <1>2, <2>1, <3>1
    <3>3. QED
      BY <3>2 DEF In
  <2>5. QED
    BY <2>3, <2>4
<1>5. QED
  BY <1>3, <1>4

LEMMA OpenedHolds ==
    ASSUME NEW S, NEW s, NEW u, NEW k, NEW t, Opened(S, s, u, k, t)
    PROVE  \A x : In(u, x) <=> In(s, x) \/ x = t
<1>1. /\ Len(s) \in Nat /\ k \in Int /\ 1 <= k /\ k <= Len(s) + 1
      /\ DOMAIN s = 1 .. Len(s) /\ DOMAIN u = 1 .. (Len(s) + 1)
  BY LenProperties DEF Opened
<1>2. \A j \in 1 .. (Len(s) + 1) :
         u[j] = IF j < k THEN s[j] ELSE IF j = k THEN t ELSE s[j - 1]
  BY DEF Opened
<1>3. ASSUME NEW x, In(u, x), x # t PROVE In(s, x)
  <2>1. PICK j \in 1 .. (Len(s) + 1) : u[j] = x
    BY <1>1, <1>3 DEF In
  <2> DEFINE g == IF j < k THEN j ELSE j - 1
  <2>2. j # k
    BY <1>2, <1>3, <2>1
  <2>3. g \in DOMAIN s /\ s[g] = x
    BY <1>1, <1>2, <2>1, <2>2
  <2> HIDE DEF g
  <2>4. QED
    BY <2>3 DEF In
<1>4. ASSUME NEW x, In(s, x) PROVE In(u, x)
  <2>1. PICK j \in 1 .. Len(s) : s[j] = x
    BY <1>1, <1>4 DEF In
  <2> DEFINE f == IF j < k THEN j ELSE j + 1
  <2>2. f \in DOMAIN u /\ u[f] = x
    BY <1>1, <1>2, <2>1
  <2> HIDE DEF f
  <2>3. QED
    BY <2>2 DEF In
<1>5. In(u, t)
  BY <1>1, <1>2 DEF In
<1>6. QED
  BY <1>3, <1>4, <1>5

----------------------------------------------------------------------------
(* The order of the queued threads, by their priorities pr.                *)

Earlier(q, pr, x, y) ==
    pr[x] < pr[y] \/ (pr[x] = pr[y] /\ Stands(q[pr[x]], x, y))

\* s holds the queued threads in that order.
Spelled(s, q, pr) ==
    /\ s \in Seq(Thread)
    /\ \A x : In(s, x) <=> Queued(q, x)
    /\ \A x, y : Stands(s, x, y) => Earlier(q, pr, x, y)

LEMMA QueuedPlace ==
    ASSUME NEW q, NEW i, NEW pr, QueuesOK(Thread, Tid, q, i, pr), NEW x, Queued(q, x)
    PROVE  /\ x \in Thread /\ pr[x] \in Prio /\ In(q[pr[x]], x)
           /\ q[pr[x]] \in Seq(Thread) /\ Distinct(q[pr[x]])
           /\ \A p \in Prio : In(q[p], x) => p = pr[x]
<1>1. PICK p \in Prio : In(q[p], x)
  BY DEF Queued
<1>2. q[p] \in Seq(Thread)
  BY DEF QueuesOK
<1>3. x \in Thread
  BY <1>1, <1>2, EmptyHoldsNothing
<1>4. pr[x] = p
  BY <1>1, <1>3 DEF QueuesOK
<1>5. QED
  BY <1>1, <1>2, <1>3, <1>4 DEF QueuesOK

LEMMA StandsOneWay ==
    ASSUME NEW S, NEW s \in Seq(S), Distinct(s), NEW x, NEW y, Stands(s, x, y)
    PROVE  ~Stands(s, y, x)
<1> SUFFICES ASSUME Stands(s, y, x) PROVE FALSE
  OBVIOUS
<1>1. DOMAIN s \subseteq Int
  BY LenProperties
<1>2. PICK i \in DOMAIN s, j \in DOMAIN s : i < j /\ s[i] = x /\ s[j] = y
  BY DEF Stands
<1>3. PICK m \in DOMAIN s, n \in DOMAIN s : m < n /\ s[m] = y /\ s[n] = x
  BY DEF Stands
<1>4. i = n /\ j = m
  BY <1>2, <1>3 DEF Distinct
<1>5. QED
  BY <1>1, <1>2, <1>3, <1>4

LEMMA EarlierIsOrder ==
    ASSUME NEW q, NEW i, NEW pr, QueuesOK(Thread, Tid, q, i, pr),
           NEW x, NEW y, Queued(q, x), Queued(q, y)
    PROVE  /\ ~(Earlier(q, pr, x, y) /\ Earlier(q, pr, y, x))
           /\ Before(q, x, y) <=> Earlier(q, pr, x, y)
<1>1. /\ pr[x] \in Prio /\ In(q[pr[x]], x) /\ pr[y] \in Prio /\ In(q[pr[y]], y)
      /\ q[pr[x]] \in Seq(Thread) /\ Distinct(q[pr[x]])
      /\ \A p \in Prio : In(q[p], x) => p = pr[x]
      /\ \A p \in Prio : In(q[p], y) => p = pr[y]
  BY QueuedPlace
<1>2. pr[x] \in Int /\ pr[y] \in Int
  BY <1>1, PrioInt
<1>3. ~(Earlier(q, pr, x, y) /\ Earlier(q, pr, y, x))
  <2>1. CASE pr[x] = pr[y]
    <3>1. ~(Stands(q[pr[x]], x, y) /\ Stands(q[pr[x]], y, x))
      BY <1>1, StandsOneWay
    <3>2. QED
      BY <1>2, <2>1, <3>1 DEF Earlier
  <2>2. CASE pr[x] # pr[y]
    BY <1>2, <2>2 DEF Earlier
  <2>3. QED
    BY <2>1, <2>2
<1>4. ASSUME Before(q, x, y) PROVE Earlier(q, pr, x, y)
  <2>1. PICK p \in Prio, r \in Prio :
                \E m \in DOMAIN q[p], n \in DOMAIN q[r] :
                   q[p][m] = x /\ q[r][n] = y /\ (p < r \/ (p = r /\ m < n))
    BY <1>4 DEF Before
  <2>2. PICK m \in DOMAIN q[p], n \in DOMAIN q[r] :
                q[p][m] = x /\ q[r][n] = y /\ (p < r \/ (p = r /\ m < n))
    BY <2>1
  <2>3. p = pr[x] /\ r = pr[y]
    BY <1>1, <2>2 DEF In
  <2>4. QED
    BY <2>2, <2>3 DEF Earlier, Stands
<1>5. ASSUME Earlier(q, pr, x, y) PROVE Before(q, x, y)
  <2>1. CASE pr[x] < pr[y]
    BY <1>1, <2>1 DEF Before, In
  <2>2. CASE pr[x] = pr[y] /\ Stands(q[pr[x]], x, y)
    BY <1>1, <2>2 DEF Before, Stands
  <2>3. QED
    BY <1>5, <2>1, <2>2 DEF Earlier
<1>6. QED
  BY <1>3, <1>4, <1>5

\* A sequence that holds the queued threads in order holds each once.
LEMMA SpelledOnce ==
    ASSUME NEW q, NEW i, NEW pr, QueuesOK(Thread, Tid, q, i, pr),
           NEW s, Spelled(s, q, pr)
    PROVE  Distinct(s)
<1>1. DOMAIN s \subseteq Int
  BY LenProperties DEF Spelled
<1>2. ASSUME NEW a \in DOMAIN s, NEW b \in DOMAIN s, s[a] = s[b], a < b PROVE FALSE
  <2>1. Stands(s, s[a], s[a]) /\ In(s, s[a])
    BY <1>2 DEF Stands, In
  <2>2. Earlier(q, pr, s[a], s[a]) /\ Queued(q, s[a])
    BY <2>1 DEF Spelled
  <2>3. QED
    BY <2>2, EarlierIsOrder
<1>3. QED
  BY <1>1, <1>2 DEF Distinct

\* The k-th element of a sequence without repetitions has k - 1 before it.
LEMMA CountFirst ==
    ASSUME NEW S, NEW s \in Seq(S), Distinct(s), NEW k \in 0 .. Len(s)
    PROVE  Cardinality({s[j] : j \in 1 .. k}) = k
<1> DEFINE R == {s[j] : j \in 1 .. k}
           f == [j \in 1 .. k |-> s[j]]
<1>1. Len(s) \in Nat /\ DOMAIN s = 1 .. Len(s) /\ k \in Nat /\ 1 .. k \subseteq DOMAIN s
  BY LenProperties
<1>2. f \in [1 .. k -> R]
  OBVIOUS
<1>3. \A a, b \in 1 .. k : f[a] = f[b] => a = b
  BY <1>1 DEF Distinct
<1>4. \A r \in R : \E a \in 1 .. k : f[a] = r
  OBVIOUS
<1> HIDE DEF f, R
<1>5. f \in Bijection(1 .. k, R)
  BY <1>2, <1>3, <1>4 DEF Bijection, Injection, Surjection, IsInjective
<1>6. ExistsBijection(1 .. k, R)
  BY <1>5 DEF ExistsBijection
<1>7. QED
  BY <1>1, <1>6, FS_CountingElements DEF R

\* There is one sequence that holds the queued threads in order: LineOf.
LEMMA SpelledIsLine ==
    ASSUME NEW q, NEW i, NEW pr, QueuesOK(Thread, Tid, q, i, pr),
           NEW s, Spelled(s, q, pr)
    PROVE  LineOf(q) = s
<1> DEFINE ready == {t \in Thread : Queued(q, t)}
           earlier(t) == {u \in ready : Before(q, u, t)}
<1>1. /\ s \in Seq(Thread) /\ Len(s) \in Nat /\ DOMAIN s = 1 .. Len(s)
      /\ \A x : In(s, x) <=> Queued(q, x)
      /\ \A x, y : Stands(s, x, y) => Earlier(q, pr, x, y)
  BY LenProperties DEF Spelled
<1>2. Distinct(s)
  BY SpelledOnce
<1>3. \A x : In(s, x) => x \in Thread
  BY <1>1, EmptyHoldsNothing
<1>4. ready = {s[j] : j \in 1 .. Len(s)}
  BY <1>1, <1>3 DEF In
<1>5. Cardinality(ready) = Len(s)
  BY <1>1, <1>2, <1>4, CountFirst
<1>6. ASSUME NEW k \in 1 .. Len(s) PROVE Cardinality(earlier(s[k])) = k - 1
  <2>1. k - 1 \in 0 .. Len(s) /\ k \in Int
    BY <1>1
  <2>2. ASSUME NEW j \in 1 .. (k - 1) PROVE s[j] \in earlier(s[k])
    <3>1. j \in DOMAIN s /\ k \in DOMAIN s /\ j < k
      BY <1>1, <2>1
    <3>2. In(s, s[j]) /\ In(s, s[k]) /\ Stands(s, s[j], s[k])
      BY <3>1 DEF In, Stands
    <3>3. Queued(q, s[j]) /\ Queued(q, s[k]) /\ Earlier(q, pr, s[j], s[k]) /\ s[j] \in Thread
      BY <1>1, <1>3, <3>2
    <3>4. Before(q, s[j], s[k])
      BY <3>3, EarlierIsOrder
    <3>5. QED
      BY <3>3, <3>4
  <2>3. ASSUME NEW u \in earlier(s[k]) PROVE \E j \in 1 .. (k - 1) : u = s[j]
    <3>1. PICK j \in 1 .. Len(s) : u = s[j]
      BY <1>4
    <3>2. Before(q, u, s[k]) /\ Queued(q, u)
      OBVIOUS
    <3>3. Queued(q, s[k])
      BY <1>1 DEF In
    <3>4. Earlier(q, pr, u, s[k])
      BY <3>2, <3>3, EarlierIsOrder
    <3>5. ~Earlier(q, pr, s[k], u)
      BY <3>2, <3>3, <3>4, EarlierIsOrder
    <3>6. ~Stands(s, s[k], u)
      BY <1>1, <3>5
    <3>7. ~(k < j)
      BY <1>1, <3>1, <3>6 DEF Stands
    <3>8. j # k
      <4>1. SUFFICES ASSUME j = k PROVE FALSE
        OBVIOUS
      <4>2. u = s[k]
        BY <3>1, <4>1
      <4>3. QED
        BY <3>4, <3>5, <4>2
    <3>9. QED
      BY <2>1, <3>1, <3>7, <3>8
  <2>4. earlier(s[k]) = {s[j] : j \in 1 .. (k - 1)}
    <3> HIDE DEF earlier
    <3>1. QED
      BY <2>2, <2>3
  <2>5. QED
    BY <1>1, <1>2, <2>1, <2>4, CountFirst
<1> DEFINE first(k) == CHOOSE t \in ready : Cardinality(earlier(t)) = k - 1
<1>7. ASSUME NEW k \in 1 .. Len(s) PROVE first(k) = s[k]
  <2>1. s[k] \in ready
    BY <1>4
  <2>2. ASSUME NEW t \in ready, Cardinality(earlier(t)) = k - 1 PROVE t = s[k]
    <3>1. PICK j \in 1 .. Len(s) : t = s[j]
      BY <1>4
    <3>2. j - 1 = k - 1
      BY <1>6, <2>2, <3>1
    <3>3. QED
      BY <3>1, <3>2
  <2>3. Cardinality(earlier(s[k])) = k - 1
    BY <1>6
  <2> HIDE DEF ready, earlier
  <2>4. QED
    BY <2>1, <2>2, <2>3
<1>8. LineOf(q) = [k \in 1 .. Cardinality(ready) |-> first(k)]
  BY DEF LineOf
<1> HIDE DEF first, ready, earlier
<1>9. LineOf(q) = [k \in 1 .. Len(s) |-> s[k]]
  BY <1>5, <1>7, <1>8
<1>10. s = [k \in 1 .. Len(s) |-> s[k]]
  BY <1>1
<1>11. QED
  BY <1>9, <1>10

----------------------------------------------------------------------------
(* What the operations on the queues do to the line.                       *)

\* Place k of the line s is for priority p; a thread at place m of the list of
\* p is there behind its peers, or before them.
PlaceFor(s, k, q, pr, p, m) ==
    /\ \A j \in 1 .. (k - 1) : pr[s[j]] < p \/ (pr[s[j]] = p /\ m = Len(q[p]) + 1)
    /\ \A j \in k .. Len(s) : p < pr[s[j]] \/ (p = pr[s[j]] /\ m = 1)

\* A thread inserted at place m of the list of its priority.
LEMMA InsertedSpelled ==
    ASSUME NEW q, NEW i, NEW pr, QueuesOK(Thread, Tid, q, i, pr), NEW s, Spelled(s, q, pr),
           NEW t \in Thread, NEW p, p = pr[t], NEW v, NEW m, Opened(Thread, q[p], v, m, t),
           NEW u, NEW k, Opened(Thread, s, u, k, t), PlaceFor(s, k, q, pr, p, m)
    PROVE  Spelled(u, [q EXCEPT ![p] = v], pr)
<1> DEFINE n == [q EXCEPT ![p] = v]
<1>1. /\ p \in Prio /\ q \in [Prio -> Seq(Thread)]
      /\ \A r \in Prio : n[r] = IF r = p THEN v ELSE q[r]
  BY TidFacts DEF QueuesOK
<1>2. /\ s \in Seq(Thread) /\ u \in Seq(Thread) /\ Len(s) \in Nat
      /\ DOMAIN s = 1 .. Len(s) /\ k \in Int /\ 1 <= k /\ k <= Len(s) + 1
      /\ \A x : In(s, x) <=> Queued(q, x)
      /\ \A x, y : Stands(s, x, y) => Earlier(q, pr, x, y)
  BY LenProperties DEF Spelled, Opened
<1> HIDE DEF n
<1>3. \A x : In(v, x) <=> In(q[p], x) \/ x = t
  BY OpenedHolds
<1>4. ASSUME NEW x PROVE In(u, x) <=> Queued(n, x)
  <2>1. In(u, x) <=> Queued(q, x) \/ x = t
    BY <1>2, OpenedHolds
  <2>2. Queued(n, x) <=> Queued(q, x) \/ x = t
    BY <1>1, <1>3 DEF Queued
  <2>3. QED
    BY <2>1, <2>2
<1>5. ASSUME NEW j \in 1 .. Len(s)
      PROVE  pr[s[j]] \in Prio /\ In(q[pr[s[j]]], s[j])
  <2>1. Queued(q, s[j])
    BY <1>2 DEF In
  <2>2. QED
    BY <2>1, QueuedPlace
<1>6. /\ q[p] \in Seq(Thread) /\ Len(q[p]) \in Nat /\ DOMAIN q[p] = 1 .. Len(q[p])
  BY <1>1, LenProperties
<1>7. ASSUME NEW x, NEW y, Stands(u, x, y) PROVE Earlier(n, pr, x, y)
  <2>1. CASE Stands(s, x, y)
    <3>1. PICK a \in DOMAIN s : s[a] = x
      BY <2>1 DEF Stands
    <3>2. pr[x] \in Prio
      BY <1>2, <1>5, <3>1
    <3>3. Stands(q[pr[x]], x, y) => Stands(n[pr[x]], x, y)
      <4>1. Stands(q[p], x, y) => Stands(v, x, y)
        BY OpenedStands
      <4>2. QED
        BY <1>1, <3>2, <4>1
    <3>4. Earlier(q, pr, x, y)
      BY <1>2, <2>1
    <3>5. QED
      BY <3>3, <3>4 DEF Earlier
  <2>2. CASE y = t /\ \E j \in 1 .. (k - 1) : x = s[j]
    <3>1. PICK j \in 1 .. (k - 1) : x = s[j]
      BY <2>2
    <3>2. j \in 1 .. Len(s)
      BY <1>2
    <3>3. CASE pr[x] < p
      BY <2>2, <3>3 DEF Earlier
    <3>4. CASE pr[x] = p /\ m = Len(q[p]) + 1
      <4>1. In(q[p], x)
        BY <1>5, <3>1, <3>2, <3>4
      <4>2. PICK a \in 1 .. Len(q[p]) : q[p][a] = x
        BY <1>6, <4>1 DEF In
      <4>3. a \in 1 .. (m - 1)
        BY <1>6, <3>4
      <4>4. Stands(v, x, t)
        BY <4>2, <4>3, OpenedStands
      <4>5. n[pr[x]] = v
        BY <1>1, <3>4
      <4>6. QED
        BY <2>2, <3>4, <4>4, <4>5 DEF Earlier
    <3>5. QED
      BY <3>1, <3>3, <3>4 DEF PlaceFor
  <2>3. CASE x = t /\ \E j \in k .. Len(s) : y = s[j]
    <3>1. PICK j \in k .. Len(s) : y = s[j]
      BY <2>3
    <3>2. j \in 1 .. Len(s)
      BY <1>2
    <3>3. CASE p < pr[y]
      BY <2>3, <3>3 DEF Earlier
    <3>4. CASE p = pr[y] /\ m = 1
      <4>1. In(q[p], y)
        BY <1>5, <3>1, <3>2, <3>4
      <4>2. PICK a \in 1 .. Len(q[p]) : q[p][a] = y
        BY <1>6, <4>1 DEF In
      <4>3. a \in m .. Len(q[p])
        BY <1>6, <3>4
      <4>4. Stands(v, t, y)
        BY <4>2, <4>3, OpenedStands
      <4>5. n[p] = v
        BY <1>1
      <4>6. QED
        BY <2>3, <3>4, <4>4, <4>5 DEF Earlier
    <3>5. QED
      BY <3>1, <3>3, <3>4 DEF PlaceFor
  <2>4. QED
    BY <1>7, <2>1, <2>2, <2>3, OpenedStands
<1>8. QED
  BY <1>2, <1>4, <1>7 DEF Spelled, n

\* A thread taken from place m of the list of its priority.
LEMMA RemovedSpelled ==
    ASSUME NEW q, NEW i, NEW pr, QueuesOK(Thread, Tid, q, i, pr), NEW s, Spelled(s, q, pr),
           NEW p \in Prio, NEW v, NEW m, Closed(Thread, q[p], v, m),
           NEW u, NEW k, Closed(Thread, s, u, k), s[k] = q[p][m]
    PROVE  Spelled(u, [q EXCEPT ![p] = v], pr)
<1> DEFINE n == [q EXCEPT ![p] = v]
           t == s[k]
<1>1. /\ q \in [Prio -> Seq(Thread)] /\ Distinct(q[p])
      /\ \A r \in Prio : n[r] = IF r = p THEN v ELSE q[r]
  BY DEF QueuesOK
<1>2. /\ s \in Seq(Thread) /\ u \in Seq(Thread)
      /\ DOMAIN s = 1 .. Len(s)
      /\ \A x : In(s, x) <=> Queued(q, x)
      /\ \A x, y : Stands(s, x, y) => Earlier(q, pr, x, y)
  BY LenProperties DEF Spelled, Closed
<1> HIDE DEF n
<1>3. Distinct(s)
  BY SpelledOnce
<1>4. k \in DOMAIN s /\ m \in DOMAIN q[p]
  BY LenProperties DEF Closed
<1>5. /\ \A x : In(u, x) <=> In(s, x) /\ x # t
      /\ \A x, y : Stands(u, x, y) => Stands(s, x, y)
  BY <1>3, ClosedHolds, ClosedStands
<1>6. /\ \A x : In(v, x) <=> In(q[p], x) /\ x # t
      /\ \A x, y : Stands(q[p], x, y) /\ x # t /\ y # t => Stands(v, x, y)
  BY <1>1, ClosedHolds, ClosedStands
<1>7. Queued(q, t) /\ In(q[p], t)
  BY <1>2, <1>4 DEF In
<1>8. p = pr[t]
  BY <1>7, QueuedPlace
<1> HIDE DEF t
<1>9. ASSUME NEW x PROVE In(u, x) <=> Queued(n, x)
  <2>1. \A r \in Prio : In(q[r], t) => r = p
    BY <1>7, <1>8, QueuedPlace
  <2>2. Queued(n, x) <=> Queued(q, x) /\ x # t
    BY <1>1, <1>6, <2>1 DEF Queued
  <2>3. QED
    BY <1>2, <1>5, <2>2
<1>10. ASSUME NEW x, NEW y, Stands(u, x, y) PROVE Earlier(n, pr, x, y)
  <2>1. In(u, x) /\ In(u, y)
    BY <1>10 DEF Stands, In
  <2>2. x # t /\ y # t /\ Queued(q, x)
    BY <1>2, <1>5, <2>1
  <2>3. pr[x] \in Prio
    BY <2>2, QueuedPlace
  <2>4. Earlier(q, pr, x, y)
    BY <1>2, <1>5, <1>10
  <2>5. Stands(q[pr[x]], x, y) => Stands(n[pr[x]], x, y)
    BY <1>1, <1>6, <2>2, <2>3
  <2>6. QED
    BY <2>4, <2>5 DEF Earlier
<1>11. QED
  BY <1>2, <1>9, <1>10 DEF Spelled, n

\* A set of places that has all the places before each of its own.
LEMMA CountPrefix ==
    ASSUME NEW n \in Nat, NEW A \in SUBSET (1 .. n),
           \A a \in A : 1 .. a \subseteq A
    PROVE  Cardinality(A) \in 0 .. n /\ A = 1 .. Cardinality(A)
<1> DEFINE c == Cardinality(A)
<1>1. IsFiniteSet(1 .. n) /\ Cardinality(1 .. n) = n
  BY FS_Interval
<1>2. IsFiniteSet(A) /\ c <= n
  <2>1. IsFiniteSet(A) /\ Cardinality(A) <= Cardinality(1 .. n)
    BY <1>1, FS_Subset, A \in SUBSET (1 .. n), Zenon
  <2>2. QED
    BY <1>1, <2>1
<1>3. c \in Nat
  BY <1>2, FS_CardinalityType
<1>4. ASSUME NEW a \in A PROVE a \in 1 .. c
  <2>1. a \in Nat /\ 1 <= a
    OBVIOUS
  <2>2. Cardinality(1 .. a) = a
    BY <2>1, FS_Interval
  <2>3. a <= c
    BY <1>2, <2>2, FS_Subset
  <2>4. QED
    BY <1>3, <2>1, <2>3
<1> HIDE DEF c
<1>5. IsFiniteSet(1 .. c) /\ Cardinality(1 .. c) = c
  BY <1>3, FS_Interval
<1>6. A \in SUBSET (1 .. c)
  BY <1>4
<1>7. Cardinality(A) = c
  BY DEF c
<1>8. A = 1 .. c
  BY <1>5, <1>6, <1>7, FS_Subset
<1>9. QED
  BY <1>2, <1>3, <1>8 DEF c

\* The instance has its own name for Cardinality.
LEMMA LineCardinality == \A S : Line!Cardinality(S) = Cardinality(S)
BY DEF Line!Cardinality, Cardinality

LEMMA InsertAtOpens ==
    ASSUME NEW S, NEW s \in Seq(S), NEW t \in S, NEW k \in 1 .. (Len(s) + 1)
    PROVE  Opened(S, s, Line!InsertAt(s, k, t), k, t)
<1>1. Line!InsertAt(s, k, t) = Insertion(s, k, t)
  BY DEF Line!InsertAt, Insertion
<1>2. QED
  BY <1>1, InsertIs DEF Opened

\* OS_SchedAddQueueTail puts the thread behind its peers, OS_SchedAddQueueHead
\* before them.
LEMMA AddSpelled ==
    ASSUME NEW q, NEW i, NEW pr, QueuesOK(Thread, Tid, q, i, pr), NEW s, Spelled(s, q, pr),
           NEW t \in Thread, ~Queued(q, t)
    PROVE  /\ Spelled(Line!Behind(s, t, pr), AddTail(q, t, pr[t]), pr)
           /\ Spelled(Line!Ahead(s, t, pr), AddHead(q, t, pr[t]), pr)
<1> DEFINE p == pr[t]
           A == {j \in DOMAIN s : pr[s[j]] <= p}
           B == {j \in DOMAIN s : pr[s[j]] < p}
<1>1. /\ s \in Seq(Thread) /\ Len(s) \in Nat /\ DOMAIN s = 1 .. Len(s)
      /\ \A x : In(s, x) <=> Queued(q, x)
      /\ \A x, y : Stands(s, x, y) => Earlier(q, pr, x, y)
  BY LenProperties DEF Spelled
<1>2. /\ p \in Prio /\ p \in Int /\ q[p] \in Seq(Thread) /\ Len(q[p]) \in Nat
  BY TidFacts, PrioInt, LenProperties DEF QueuesOK
<1> HIDE DEF p
<1>3. \A j \in 1 .. Len(s) : pr[s[j]] \in Int
  BY <1>1, QueuedPlace, PrioInt DEF In
<1>4. ASSUME NEW a \in 1 .. Len(s), NEW b \in 1 .. a PROVE pr[s[b]] <= pr[s[a]]
  <2>1. CASE b = a
    BY <1>3, <2>1
  <2>2. CASE b < a
    <3>1. b \in 1 .. Len(s)
      BY <1>1
    <3>2. Earlier(q, pr, s[b], s[a])
      BY <1>1, <2>2, <3>1 DEF Stands
    <3>3. QED
      BY <1>3, <3>1, <3>2 DEF Earlier
  <2>3. QED
    BY <1>1, <2>1, <2>2
<1>5. Cardinality(A) \in 0 .. Len(s) /\ A = 1 .. Cardinality(A)
  <2>1. A \in SUBSET (1 .. Len(s))
    BY <1>1
  <2>2. ASSUME NEW a \in A, NEW b \in 1 .. a PROVE b \in A
    <3>1. b \in 1 .. Len(s) /\ a \in 1 .. Len(s)
      BY <1>1
    <3>2. QED
      BY <1>1, <1>2, <1>3, <1>4, <3>1
  <2> HIDE DEF A
  <2>3. QED
    BY <1>1, <2>1, <2>2, CountPrefix
<1>6. Cardinality(B) \in 0 .. Len(s) /\ B = 1 .. Cardinality(B)
  <2>1. B \in SUBSET (1 .. Len(s))
    BY <1>1
  <2>2. ASSUME NEW a \in B, NEW b \in 1 .. a PROVE b \in B
    <3>1. b \in 1 .. Len(s) /\ a \in 1 .. Len(s)
      BY <1>1
    <3>2. QED
      BY <1>1, <1>2, <1>3, <1>4, <3>1
  <2> HIDE DEF B
  <2>3. QED
    BY <1>1, <2>1, <2>2, CountPrefix
<1>7. Spelled(Line!Behind(s, t, pr), AddTail(q, t, p), pr)
  <2> DEFINE k == Cardinality(A) + 1
             u == Line!InsertAt(s, k, t)
             v == Append(q[p], t)
             m == Len(q[p]) + 1
  <2>1. k \in 1 .. (Len(s) + 1) /\ k \in Int
    BY <1>1, <1>5
  <2>2. Line!Behind(s, t, pr) = u
    BY LineCardinality DEF Line!Behind, p
  <2>3. AddTail(q, t, p) = [q EXCEPT ![p] = v]
    BY DEF AddTail
  <2>4. \A j \in 1 .. (k - 1) : pr[s[j]] < p \/ pr[s[j]] = p
    <3>1. \A j \in 1 .. (k - 1) : j \in A
      BY <1>1, <1>5
    <3>2. \A j \in 1 .. (k - 1) : j \in 1 .. Len(s) /\ pr[s[j]] <= p
      BY <1>1, <3>1
    <3>3. QED
      BY <1>2, <1>3, <3>2
  <2>5. \A j \in k .. Len(s) : p < pr[s[j]]
    <3>1. \A j \in k .. Len(s) : j \in 1 .. Len(s) /\ j \notin 1 .. Cardinality(A)
      BY <1>1, <1>5
    <3>2. \A j \in k .. Len(s) : j \in 1 .. Len(s) /\ ~(pr[s[j]] <= p)
      BY <1>1, <1>5, <3>1
    <3>3. QED
      BY <1>2, <1>3, <3>2
  <2> HIDE DEF k
  <2>6. Opened(Thread, s, u, k, t)
    BY <1>1, <2>1, InsertAtOpens
  <2>7. Opened(Thread, q[p], v, m, t)
    BY <1>2, AppendProperties DEF Opened
  <2> HIDE DEF u, v, m
  <2>8. Spelled(u, [q EXCEPT ![p] = v], pr)
    <3>1. PlaceFor(s, k, q, pr, p, m)
      BY <2>4, <2>5 DEF m, PlaceFor
    <3>2. p = pr[t]
      BY DEF p
    <3>3. QED
      BY ONLY QueuesOK(Thread, Tid, q, i, pr), Spelled(s, q, pr), t \in Thread,
              <2>6, <2>7, <3>1, <3>2, InsertedSpelled
  <2>9. QED
    BY <2>2, <2>3, <2>8
<1>8. Spelled(Line!Ahead(s, t, pr), AddHead(q, t, p), pr)
  <2> DEFINE k == Cardinality(B) + 1
             u == Line!InsertAt(s, k, t)
             v == <<t>> \o q[p]
  <2>1. k \in 1 .. (Len(s) + 1) /\ k \in Int
    BY <1>1, <1>6
  <2>2. Line!Ahead(s, t, pr) = u
    BY LineCardinality DEF Line!Ahead, p
  <2>3. AddHead(q, t, p) = [q EXCEPT ![p] = v]
    BY DEF AddHead
  <2>4. \A j \in 1 .. (k - 1) : pr[s[j]] < p
    <3>1. \A j \in 1 .. (k - 1) : j \in B
      BY <1>1, <1>6
    <3>2. QED
      BY <3>1
  <2>5. \A j \in k .. Len(s) : p < pr[s[j]] \/ p = pr[s[j]]
    <3>1. \A j \in k .. Len(s) : j \in 1 .. Len(s) /\ j \notin 1 .. Cardinality(B)
      BY <1>1, <1>6
    <3>2. \A j \in k .. Len(s) : j \in 1 .. Len(s) /\ ~(pr[s[j]] < p)
      BY <1>1, <1>6, <3>1
    <3>3. QED
      BY <1>2, <1>3, <3>2
  <2> HIDE DEF k
  <2>6. Opened(Thread, s, u, k, t)
    BY <1>1, <2>1, InsertAtOpens
  <2>7. Opened(Thread, q[p], v, 1, t)
    <3>1. <<t>> \in Seq(Thread) /\ Len(<<t>>) = 1 /\ <<t>>[1] = t
      OBVIOUS
    <3>2. /\ v \in Seq(Thread) /\ Len(v) = 1 + Len(q[p])
          /\ \A j \in 1 .. (1 + Len(q[p])) :
                v[j] = IF j <= 1 THEN <<t>>[j] ELSE q[p][j - 1]
      BY <1>2, <3>1, ConcatProperties
    <3>3. \A j \in 1 .. (Len(q[p]) + 1) :
             v[j] = IF j < 1 THEN q[p][j] ELSE IF j = 1 THEN t ELSE q[p][j - 1]
      BY <1>2, <3>1, <3>2
    <3> HIDE DEF v
    <3>4. QED
      BY <1>2, <3>2, <3>3 DEF Opened
  <2> DEFINE m == 1
  <2> HIDE DEF u, v, m
  <2>8. Spelled(u, [q EXCEPT ![p] = v], pr)
    <3>1. PlaceFor(s, k, q, pr, p, m)
      BY <2>4, <2>5 DEF m, PlaceFor
    <3>2. Opened(Thread, q[p], v, m, t)
      BY <2>7 DEF m
    <3>3. p = pr[t]
      BY DEF p
    <3>4. QED
      BY ONLY QueuesOK(Thread, Tid, q, i, pr), Spelled(s, q, pr), t \in Thread,
              <2>6, <3>1, <3>2, <3>3, InsertedSpelled
  <2>9. QED
    BY <2>2, <2>3, <2>8
<1>9. QED
  BY <1>7, <1>8 DEF p

\* OS_SchedRemoveThread takes the thread out of the line.
LEMMA RemoveSpelled ==
    ASSUME NEW q, NEW i, NEW pr, QueuesOK(Thread, Tid, q, i, pr), NEW s, Spelled(s, q, pr),
           NEW t, Queued(q, t)
    PROVE  \E k \in DOMAIN s :
              /\ s[k] = t
              /\ Spelled(Line!RemoveAt(s, k), RemoveThread(q, t, pr[t]), pr)
<1> DEFINE p == pr[t]
           v == Without(q[p], t)
<1>1. p \in Prio /\ In(q[p], t) /\ q[p] \in Seq(Thread)
  BY QueuedPlace
<1>2. s \in Seq(Thread) /\ In(s, t)
  BY DEF Spelled
<1> HIDE DEF p
<1>3. PICK w \in Seq(Thread) : w = q[p] /\ In(w, t)
  BY <1>1
<1>4. /\ v \in Seq(Thread) /\ Len(v) = Len(w) - 1
      /\ \E m \in 1 .. Len(w) :
            /\ w[m] = t
            /\ \A j \in 1 .. (Len(w) - 1) : v[j] = IF j < m THEN w[j] ELSE w[j + 1]
  <2> DEFINE u == Without(w, t)
  <2>1. In(w, t)
    BY <1>3
  <2>2. /\ u \in Seq(Thread) /\ Len(u) = Len(w) - 1
        /\ \E m \in 1 .. Len(w) :
              /\ w[m] = t
              /\ \A j \in 1 .. (Len(w) - 1) : u[j] = IF j < m THEN w[j] ELSE w[j + 1]
    BY <2>1, WithoutIs
  <2>3. v = u
    BY <1>3
  <2> HIDE DEF u, v
  <2>4. QED
    BY <2>2, <2>3
<1> HIDE DEF v
<1>5. PICK m : q[p][m] = t /\ Closed(Thread, q[p], v, m)
  <2>1. PICK m \in 1 .. Len(w) :
                /\ w[m] = t
                /\ \A j \in 1 .. (Len(w) - 1) : v[j] = IF j < m THEN w[j] ELSE w[j + 1]
    BY <1>4
  <2>2. Closed(Thread, w, v, m)
    BY <1>4, <2>1 DEF Closed
  <2>3. QED
    BY <1>3, <2>1, <2>2
<1> DEFINE k == CHOOSE j \in DOMAIN s : s[j] = t
           u == Without(s, t)
<1>6. k \in DOMAIN s /\ s[k] = t
  BY <1>2 DEF In
<1>7. Line!RemoveAt(s, k) = u
  <2>1. Without(s, t) = SubSeq(s, 1, k - 1) \o SubSeq(s, k + 1, Len(s))
    BY <1>2 DEF Without
  <2> HIDE DEF k
  <2>2. QED
    BY <2>1 DEF Line!RemoveAt
<1>8. /\ u \in Seq(Thread) /\ Len(u) = Len(s) - 1
      /\ \E a \in 1 .. Len(s) :
            /\ s[a] = t
            /\ \A j \in 1 .. (Len(s) - 1) : u[j] = IF j < a THEN s[j] ELSE s[j + 1]
  BY <1>2, WithoutIs
<1> HIDE DEF k, u
<1>9. Closed(Thread, s, u, k)
  <2>1. PICK a \in 1 .. Len(s) :
                /\ s[a] = t
                /\ \A j \in 1 .. (Len(s) - 1) : u[j] = IF j < a THEN s[j] ELSE s[j + 1]
    BY <1>8
  <2>2. a \in DOMAIN s
    BY <1>2, LenProperties
  <2>3. a = k
    BY <1>6, <2>1, <2>2, SpelledOnce DEF Distinct
  <2>4. QED
    BY <1>2, <1>8, <2>1, <2>3 DEF Closed
<1>10. Spelled(u, [q EXCEPT ![p] = v], pr)
  BY <1>1, <1>5, <1>6, <1>9, RemovedSpelled
<1>11. RemoveThread(q, t, p) = [q EXCEPT ![p] = v]
  BY DEF RemoveThread, v
<1>12. QED
  BY <1>6, <1>7, <1>10, <1>11 DEF p

\* OS_Schedule takes the first thread of the line.
LEMMA TakeSpelled ==
    ASSUME NEW q, NEW i, NEW pr, QueuesOK(Thread, Tid, q, i, pr), NEW s, Spelled(s, q, pr),
           NEW p \in Prio, q[p] # <<>>, \A r \in Prio : r < p => q[r] = <<>>
    PROVE  /\ s # <<>> /\ Head(s) = Head(q[p])
           /\ Spelled(Tail(s), [q EXCEPT ![p] = Tail(@)], pr)
<1> DEFINE h == Head(q[p])
<1>1. q[p] \in Seq(Thread) /\ Distinct(q[p])
  BY DEF QueuesOK
<1>2. /\ Len(q[p]) \in Nat /\ DOMAIN q[p] = 1 .. Len(q[p]) /\ 1 \in DOMAIN q[p]
      /\ Tail(q[p]) \in Seq(Thread) /\ Len(Tail(q[p])) = Len(q[p]) - 1
      /\ \A j \in 1 .. (Len(q[p]) - 1) : Tail(q[p])[j] = q[p][j + 1]
      /\ h = q[p][1]
  BY <1>1, LenProperties, EmptySeq, HeadTailProperties
<1>3. Queued(q, h) /\ In(q[p], h)
  BY <1>2 DEF Queued, In
<1> HIDE DEF h
<1>4. /\ s \in Seq(Thread) /\ Len(s) \in Nat /\ DOMAIN s = 1 .. Len(s)
      /\ \A x : In(s, x) <=> Queued(q, x)
      /\ \A x, y : Stands(s, x, y) => Earlier(q, pr, x, y)
  BY LenProperties DEF Spelled
<1>5. PICK k \in 1 .. Len(s) : s[k] = h
  BY <1>3, <1>4 DEF In
<1>6. 1 \in 1 .. Len(s) /\ k \in Int
  BY <1>4
<1>7. s[1] = h
  <2> SUFFICES ASSUME s[1] # h PROVE FALSE
    OBVIOUS
  <2>1. 1 < k
    BY <1>5, <1>6
  <2>2. Earlier(q, pr, s[1], h) /\ Queued(q, s[1])
    <3>1. Stands(s, s[1], h)
      BY <1>4, <1>5, <1>6, <2>1 DEF Stands
    <3>2. In(s, s[1])
      BY <1>4, <1>6 DEF In
    <3>3. QED
      BY <1>4, <3>1, <3>2
  <2>3. /\ pr[s[1]] \in Prio /\ In(q[pr[s[1]]], s[1]) /\ q[pr[s[1]]] \in Seq(Thread)
    BY <2>2, QueuedPlace
  <2>4. pr[h] = p
    BY <1>3, QueuedPlace
  <2>5. ~(pr[s[1]] < p)
    <3>1. q[pr[s[1]]] # <<>>
      BY <2>3, EmptyHoldsNothing
    <3>2. QED
      BY <2>3, <3>1
  <2>6. pr[s[1]] = p /\ Stands(q[p], s[1], h)
    BY <2>2, <2>4, <2>5 DEF Earlier
  <2>7. PICK a \in 1 .. Len(q[p]), b \in 1 .. Len(q[p]) :
                a < b /\ q[p][a] = s[1] /\ q[p][b] = h
    BY <1>2, <2>6 DEF Stands
  <2>8. b = 1
    BY <1>1, <1>2, <2>7 DEF Distinct
  <2>9. QED
    BY <2>7, <2>8
<1>8. /\ s # <<>> /\ Head(s) = s[1] /\ Tail(s) \in Seq(Thread) /\ Len(Tail(s)) = Len(s) - 1
      /\ \A j \in 1 .. (Len(s) - 1) : Tail(s)[j] = s[j + 1]
  BY <1>4, <1>6, EmptySeq, HeadTailProperties
<1>9. Closed(Thread, s, Tail(s), 1)
  BY <1>4, <1>6, <1>8 DEF Closed
<1>10. Closed(Thread, q[p], Tail(q[p]), 1)
  BY <1>1, <1>2 DEF Closed
<1>11. Spelled(Tail(s), [q EXCEPT ![p] = Tail(q[p])], pr)
  <2>1. PICK k1 : k1 = 1
    OBVIOUS
  <2>2. PICK v, u : v = Tail(q[p]) /\ u = Tail(s)
    OBVIOUS
  <2>3. /\ Closed(Thread, q[p], v, k1) /\ Closed(Thread, s, u, k1)
        /\ s[k1] = q[p][k1]
    BY <1>2, <1>7, <1>9, <1>10, <2>1, <2>2
  <2>4. Spelled(u, [q EXCEPT ![p] = v], pr)
    BY <2>3, RemovedSpelled
  <2>5. QED
    BY <2>2, <2>4
<1>12. QED
  BY <1>7, <1>8, <1>11 DEF h

\* Neither the lists nor the line depend on the priority of a thread in none.
LEMMA NewPrioritySpelled ==
    ASSUME NEW q, NEW i, NEW pr, QueuesOK(Thread, Tid, q, i, pr), NEW s, Spelled(s, q, pr),
           NEW t, ~Queued(q, t), NEW p
    PROVE  Spelled(s, q, [pr EXCEPT ![t] = p])
<1> DEFINE n == [pr EXCEPT ![t] = p]
<1>1. ASSUME NEW x, Queued(q, x) PROVE n[x] = pr[x]
  <2>1. x \in Tid /\ x # t
    BY <1>1, QueuedPlace, TidFacts
  <2>2. QED
    BY <2>1 DEF QueuesOK
<1> HIDE DEF n
<1>2. ASSUME NEW x, NEW y, Stands(s, x, y) PROVE Earlier(q, n, x, y)
  <2>1. In(s, x) /\ In(s, y)
    BY <1>2 DEF Stands, In
  <2>2. n[x] = pr[x] /\ n[y] = pr[y]
    BY <1>1, <2>1 DEF Spelled
  <2>3. Earlier(q, pr, x, y)
    BY <1>2 DEF Spelled
  <2>4. QED
    BY <2>2, <2>3 DEF Earlier
<1>3. QED
  BY <1>2 DEF Spelled, n

----------------------------------------------------------------------------
(* Every step of ErcosSched that does not break the queues is a step of    *)
(* PriorityLine or leaves all of it alone.                                 *)

\* The line holds the ready threads in order.
LineSpelled == Spelled(LineOf(sched_list), sched_list, priority)

LineStep == LineSpelled' /\ [Line!Next]_(Line!vars)

LEMMA InLineIsQueued ==
    ASSUME LineSpelled
    PROVE  \A t : Line!InLine(t) <=> Queued(sched_list, t)
BY DEF LineSpelled, Spelled, Line!InLine, In

\* A step that leaves the line l.
LEMMA NextLine ==
    ASSUME NEW l, Whole', Spelled(l, sched_list', priority')
    PROVE  LineOf(sched_list') = l /\ LineOf(sched_list)' = l /\ LineSpelled'
<1>1. QueuesOK(Thread, Tid, sched_list', sched_queue_i', priority')
  BY DEF Whole
<1>2. LineOf(sched_list') = l
  BY <1>1, SpelledIsLine
<1>3. QED
  BY <1>2 DEF LineSpelled

LEMMA SettledIsBusy ==
    ASSUME OtherTypes, Whole, LineSpelled, Settled
    PROVE  Line!Busy /\ ~Queued(sched_list, current) /\ current \notin Away
<1>1. ~Queued(sched_list, current)
  BY DEF Whole, OnePlace
<1>2. current \notin Away
  BY DEF Away
<1>3. QED
  BY <1>1, <1>2, InLineIsQueued DEF Line!Busy

LEMMA QuietStep ==
    ASSUME LineSpelled, UNCHANGED <<sched_list, current, priority>>, Settled' <=> Settled
    PROVE  LineStep
<1>1. Away' = Away
  BY DEF Away
<1>2. QED
  BY <1>1 DEF LineStep, LineSpelled, Line!vars

\* The caller blocks or exits.
LEMMA LeaveStep ==
    ASSUME OtherTypes, Whole, LineSpelled, UNCHANGED <<sched_list, current, priority>>,
           Settled, ~Settled'
    PROVE  LineStep
<1>1. current \in Tid /\ ~Queued(sched_list, current)
  BY SettledIsBusy, TidFacts DEF OtherTypes
<1>2. Away' = Away \cup {current}
  BY <1>1 DEF Away
<1>3. LineOf(sched_list)' = LineOf(sched_list) /\ LineSpelled'
  BY DEF LineSpelled
<1>4. Line!Leave
  BY <1>2, <1>3, SettledIsBusy DEF Line!Leave
<1>5. QED
  BY <1>3, <1>4 DEF LineStep, Line!Next

\* A thread becomes ready.
LEMMA ArriveStep ==
    ASSUME Whole, Whole', LineSpelled, NEW t \in Thread, ~Queued(sched_list, t),
           sched_list' = AddTail(sched_list, t, priority[t]),
           UNCHANGED <<current, priority>>, Settled' <=> Settled, t = current => ~Settled
    PROVE  LineStep
<1>1. QueuesOK(Thread, Tid, sched_list, sched_queue_i, priority)
  BY DEF Whole
<1>2. Spelled(Line!Behind(LineOf(sched_list), t, priority), sched_list', priority')
  BY <1>1, AddSpelled DEF LineSpelled
<1>3. /\ LineOf(sched_list)' = Line!Behind(LineOf(sched_list), t, priority)
      /\ LineSpelled'
  BY <1>2, NextLine
<1>4. \A x : Queued(sched_list', x) <=> Queued(sched_list, x) \/ x = t
  BY <1>1, AddTailKeepsQueues
<1>5. t \in Away /\ Away' = Away \ {t}
  BY <1>4, TidFacts DEF Away
<1>6. Line!Arrive
  BY <1>3, <1>5 DEF Line!Arrive
<1>7. QED
  BY <1>3, <1>6 DEF LineStep, Line!Next

\* The caller, or the thread that was interrupted, offers the processor.
LEMMA YieldStep ==
    ASSUME OtherTypes, Whole, Whole', LineSpelled, Settled, ~Settled',
           sched_list' = AddHead(sched_list, current, priority[current]),
           UNCHANGED <<current, priority>>
    PROVE  LineStep
<1>1. /\ QueuesOK(Thread, Tid, sched_list, sched_queue_i, priority)
      /\ current \in Thread /\ ~Queued(sched_list, current)
  BY SettledIsBusy DEF Whole, OtherTypes
<1>2. Spelled(Line!Ahead(LineOf(sched_list), current, priority), sched_list', priority')
  BY <1>1, AddSpelled DEF LineSpelled
<1>3. /\ LineOf(sched_list)' = Line!Ahead(LineOf(sched_list), current, priority)
      /\ LineSpelled'
  BY <1>2, NextLine
<1>4. \A x : Queued(sched_list', x) <=> Queued(sched_list, x) \/ x = current
  BY <1>1, AddHeadKeepsQueues
<1>5. Away' = Away
  BY <1>4 DEF Away
<1>6. Line!Yield
  BY <1>3, <1>5, SettledIsBusy DEF Line!Yield
<1>7. QED
  BY <1>3, <1>6 DEF LineStep, Line!Next

\* The priority of a thread in no list changes.
LEMMA NewPriorityStep ==
    ASSUME OtherTypes, Whole, Whole', LineSpelled, Settled, Settled',
           NEW t \in Thread, NEW p \in Prio, ~Queued(sched_list, t),
           priority' = [priority EXCEPT ![t] = p], UNCHANGED <<sched_list, current>>
    PROVE  LineStep
<1>1. Spelled(LineOf(sched_list), sched_list', priority')
  BY NewPrioritySpelled DEF LineSpelled, Whole
<1>2. LineOf(sched_list)' = LineOf(sched_list) /\ LineSpelled'
  BY <1>1, NextLine
<1>3. Away' = Away
  BY DEF Away
<1>4. ~Line!InLine(t) /\ t \in Tid
  BY InLineIsQueued, TidFacts
<1>5. Line!Reprioritise
  BY <1>2, <1>3, <1>4, SettledIsBusy DEF Line!Reprioritise
<1>6. QED
  BY <1>2, <1>5 DEF LineStep, Line!Next

\* That of a ready thread changes once it is out of its list.
LEMMA UnlinkStep ==
    ASSUME OtherTypes, Whole, Whole', LineSpelled, Unlink
    PROVE  LineStep
<1> DEFINE l == LineOf(sched_list)
           q == RemoveThread(sched_list, target, priority[target])
<1>1. /\ QueuesOK(Thread, Tid, sched_list, sched_queue_i, priority)
      /\ target \in Thread /\ Queued(sched_list, target)
  BY UnlinkRemoves DEF Whole
<1>2. /\ sched_list' = q /\ priority' = [priority EXCEPT ![target] = wanted]
      /\ current' = current /\ wanted \in Prio
      /\ pc = "unlink" /\ pc' = "tail" /\ offers' = offers
  BY DEF Unlink, Inserts, OtherTypes
<1>3. offers = TRUE /\ Settled /\ Settled'
  BY <1>2 DEF Whole, TargetOK, Settled, OtherTypes
<1>4. PICK k \in DOMAIN l : l[k] = target /\ Spelled(Line!RemoveAt(l, k), q, priority)
  BY <1>1, RemoveSpelled DEF LineSpelled
<1> DEFINE u == Line!RemoveAt(l, k)
<1>5. \A x : Queued(q, x) <=> Queued(sched_list, x) /\ x # target
  BY <1>2, UnlinkRemoves
<1>6. QueuesOK(Thread, Tid, q, sched_queue_i, priority)
  <2>1. priority[target] \in Prio /\ sched_list \in [Prio -> Seq(Thread)]
    BY <1>1, TidFacts DEF QueuesOK
  <2>2. Removed(Thread, sched_list, q, target, priority[target])
    BY <1>1, <2>1, RemoveThreadRemoves
  <2> HIDE DEF q
  <2>3. QED
    BY <1>1, <2>1, <2>2, RemoveKeepsQueues
<1> HIDE DEF q, u, l
<1>7. Spelled(u, sched_list', priority')
  BY <1>1, <1>2, <1>4, <1>5, <1>6, NewPrioritySpelled DEF u
<1>8. LineOf(sched_list)' = u /\ LineSpelled'
  BY <1>7, NextLine
<1>9. target \in Tid /\ target # current
  BY <1>1, <1>3, SettledIsBusy, TidFacts
<1>10. Away' = Away \cup {target}
  BY <1>2, <1>3, <1>5, <1>9 DEF Away
<1>11. Line!Reprioritise
  BY <1>2, <1>3, <1>4, <1>8, <1>9, <1>10, SettledIsBusy DEF Line!Reprioritise, l, u
<1>12. QED
  BY <1>8, <1>11 DEF LineStep, Line!Next

\* OS_Schedule gives the processor to the first of the line.
LEMMA ScheduleStep ==
    ASSUME OtherTypes, Whole, Whole', LineSpelled, Schedule, ~Settled, pc # "tail"
    PROVE  LineStep
<1> DEFINE l == LineOf(sched_list)
<1>1. PICK p \in Prio : /\ ScanStops(sched_list, sched_queue_i, p)
                        /\ sched_list' = [sched_list EXCEPT ![p] = Tail(@)]
                        /\ current' = Head(sched_list[p])
  BY DEF Schedule
<1>2. priority' = priority /\ sched_list[p] # <<>> /\ pc' = "switch"
  BY <1>1 DEF Schedule, ScanStops
<1>3. QueuesOK(Thread, Tid, sched_list, sched_queue_i, priority)
  BY DEF Whole
<1>4. \A r \in Prio : r < p => sched_list[r] = <<>>
  <2>1. /\ Removed(Thread, sched_list, [sched_list EXCEPT ![p] = Tail(@)],
                   Head(sched_list[p]), p)
        /\ Head(sched_list[p]) \in Thread /\ In(sched_list[p], Head(sched_list[p]))
    BY <1>2, <1>3, TakeRemoves DEF QueuesOK
  <2>2. QED
    BY <1>1, <1>3, <2>1, ScanKeepsQueues
<1>5. /\ l # <<>> /\ Head(l) = Head(sched_list[p])
      /\ Spelled(Tail(l), [sched_list EXCEPT ![p] = Tail(@)], priority)
  BY <1>2, <1>3, <1>4, TakeSpelled DEF LineSpelled
<1>6. LineOf(sched_list)' = Tail(l) /\ LineSpelled'
  BY <1>1, <1>2, <1>5, NextLine
<1>7. Settled'
  BY <1>2 DEF Settled
<1>8. Away' = Away
  BY <1>7, ScheduleTakes DEF Away
<1>9. ~Line!Busy
  <2>1. current \in Tid
    BY TidFacts DEF OtherTypes
  <2>2. Queued(sched_list, current) \/ current \in Away
    BY <2>1 DEF Away
  <2>3. QED
    BY <2>2, InLineIsQueued DEF Line!Busy
<1>10. Line!Take
  BY <1>1, <1>2, <1>5, <1>6, <1>8, <1>9 DEF Line!Take
<1>11. QED
  BY <1>6, <1>10 DEF LineStep, Line!Next

LEMMA InitLine == Init => LineSpelled /\ Line!Init
<1> SUFFICES ASSUME Init PROVE LineSpelled /\ Line!Init
  OBVIOUS
<1> DEFINE s == <<Idle>>
<1>1. /\ QueuesOK(Thread, Tid, sched_list, sched_queue_i, priority)
      /\ current \in Thread /\ Idle \in Thread
  BY InitSchedInv, SchedInvParts, TidFacts DEF OtherTypes, Whole, Init
<1>2. /\ s \in Seq(Thread) /\ Len(s) = 1 /\ DOMAIN s = 1 .. 1 /\ s[1] = Idle
  BY <1>1
<1>3. \A x : In(s, x) <=> x = Idle
  BY <1>2 DEF In
<1>4. \A x : Queued(sched_list, x) <=> x = Idle
  <2>1. /\ MinPriority \in Prio
        /\ \A r \in Prio : sched_list[r] = IF r = MinPriority THEN s ELSE <<>>
    BY PrioInt DEF Init, EmptyQueues
  <2>2. \A x : ~In(<<>>, x)
    BY DEF In
  <2> HIDE DEF s
  <2>3. QED
    BY <1>3, <2>1, <2>2 DEF Queued
<1>5. \A x, y : ~Stands(s, x, y)
  BY <1>2 DEF Stands
<1>6. Spelled(s, sched_list, priority)
  BY <1>2, <1>3, <1>4, <1>5 DEF Spelled
<1> HIDE DEF s
<1>7. LineOf(sched_list) = s
  BY <1>1, <1>6, SpelledIsLine
<1>8. LineSpelled
  BY <1>6, <1>7 DEF LineSpelled
<1>9. ~Line!InLine(current)
  <2>1. current = Main /\ Main # Idle
    BY TidFacts DEF Init
  <2>2. QED
    BY <1>4, <1>8, <2>1, InLineIsQueued
<1>10. s \in Seq(Tid) /\ current \in Tid /\ priority \in [Tid -> Prio]
  <2>1. s = <<Idle>> /\ Idle \in Tid
    BY TidFacts DEF s
  <2>2. QED
    BY <1>1, <2>1, TidFacts DEF QueuesOK
<1>11. \A i, j \in DOMAIN s : i < j => s[i] # s[j] /\ priority[s[i]] <= priority[s[j]]
  BY <1>2
<1>12. Away = {t \in Tid : ~Line!InLine(t) /\ t # current}
  BY <1>8, InLineIsQueued DEF Away, Init, Settled
<1>13. QED
  BY <1>7, <1>8, <1>9, <1>10, <1>11, <1>12 DEF Line!Init

LEMMA LinkStep ==
    ASSUME OtherTypes, Whole, Whole', LineSpelled, Link PROVE LineStep
<1>1. /\ UNCHANGED <<current, priority>> /\ Inserting
      /\ sched_list' = IF pc = "tail" THEN AddTail(sched_list, target, priority[target])
                                      ELSE AddHead(sched_list, target, priority[target])
      /\ IF pc = "tail" /\ offers THEN pc' = "head" ELSE pc' \in {"body", "epilogue"}
  BY DEF Link, Inserts, threads
<1>2. CASE pc = "tail"
  <2>1. (Settled' <=> Settled) /\ (target = current => ~Settled)
    BY <1>1, <1>2 DEF Settled, Whole, TargetOK
  <2>2. target \in Thread /\ ~Queued(sched_list, target)
    BY <1>1, AtInsertion
  <2>3. QED
    BY <1>1, <1>2, <2>1, <2>2, ArriveStep
<1>3. CASE pc = "head"
  <2>1. Settled /\ ~Settled' /\ target = current
    BY <1>1, <1>3, AtInsertion DEF Settled
  <2>2. QED
    BY <1>1, <1>3, <2>1, YieldStep
<1>4. QED
  BY <1>1, <1>2, <1>3 DEF Inserting

LEMMA IsrReadiesStep ==
    ASSUME OtherTypes, Whole, Whole', LineSpelled, NEW t \in waiting, IsrReadies(t),
           Settled' <=> Settled
    PROVE  LineStep
<1>1. t \in Thread /\ ~Queued(sched_list, t)
  BY IsrReadiesFacts
<1>2. t = current => ~Settled
  BY DEF Whole, OnePlace
<1>3. sched_list' = AddTail(sched_list, t, priority[t]) /\ UNCHANGED <<current, priority>>
  BY DEF IsrReadies
<1>4. QED
  BY <1>1, <1>2, <1>3, ArriveStep

LEMMA CallSteps ==
    ASSUME OtherTypes, Whole, Whole', LineSpelled,
           \/ SyscallEntry \/ PlainCall \/ BlockingCall \/ ThreadExit
           \/ \E t \in Thread : WakingCall(t) \/ HandleEvent(t)
           \/ \E p \in Prio : TaskCreate(p)
           \/ \E t \in Thread, p \in Prio : SetPriority(t, p) \/ SetTmpPriority(t, p)
    PROVE  LineStep
<1>1. CASE \/ SyscallEntry \/ PlainCall \/ \E t \in Thread : WakingCall(t)
           \/ \E t \in Thread, p \in Prio : SetPriority(t, p) \/ SetTmpPriority(t, p)
  <2>1. UNCHANGED <<sched_list, current, priority>>
    BY <1>1 DEF SyscallEntry, PlainCall, WakingCall, SetPriority, SetTmpPriority, Body,
                Reprioritises, queues, threads
  <2>2. Settled /\ Settled'
    BY <1>1 DEF SyscallEntry, PlainCall, WakingCall, SetPriority, SetTmpPriority, Body,
                Reprioritises, Inserts, Settled
  <2>3. QED
    BY <2>1, <2>2, QuietStep
<1>2. CASE BlockingCall \/ ThreadExit
  <2>1. UNCHANGED <<sched_list, current, priority>> /\ Settled /\ ~Settled'
    BY <1>2 DEF BlockingCall, ThreadExit, Body, queues, Settled
  <2>2. QED
    BY <2>1, LeaveStep
<1>3. ASSUME NEW t \in Thread, HandleEvent(t) PROVE LineStep
  <2>1. /\ UNCHANGED <<sched_list, current, priority, offers>>
        /\ pc \in {"body", "epilogue"} /\ pc' = "tail"
    BY <1>3 DEF HandleEvent, Inserts, queues
  <2>2. offers = FALSE
    BY <2>1 DEF Whole, TargetOK, OtherTypes
  <2>3. ~Settled /\ ~Settled'
    BY <2>1, <2>2 DEF Settled
  <2>4. QED
    BY <2>1, <2>3, QuietStep
<1>4. ASSUME NEW p \in Prio, TaskCreate(p) PROVE LineStep
  <2> DEFINE t == Head(tcb_list)
  <2>1. /\ Body /\ tcb_list # <<>> /\ priority' = [priority EXCEPT ![t] = p]
        /\ pc = "entry" /\ pc' = "tail" /\ offers' = TRUE
        /\ UNCHANGED <<sched_list, current>>
    BY <1>4 DEF TaskCreate, Body, Inserts, queues
  <2>2. t \in Thread /\ In(tcb_list, t)
    BY <2>1, FreeList
  <2> HIDE DEF t
  <2>3. ~Queued(sched_list, t)
    BY <2>2 DEF Whole, OnePlace
  <2>4. Settled /\ Settled'
    BY <2>1 DEF Settled
  <2>5. QED
    BY <2>1, <2>2, <2>3, <2>4, NewPriorityStep
<1>5. QED
  BY <1>1, <1>2, <1>3, <1>4

LEMMA NextLineStep ==
    ASSUME OtherTypes, Whole, Whole', LineSpelled, broken' = "none",
           Kernel \/ InterruptThread \/ InterruptKernel
    PROVE  LineStep
<1>1. CASE \/ SyscallEntry \/ PlainCall \/ BlockingCall \/ ThreadExit
           \/ \E t \in Thread : WakingCall(t) \/ HandleEvent(t)
           \/ \E p \in Prio : TaskCreate(p)
           \/ \E t \in Thread, p \in Prio : SetPriority(t, p) \/ SetTmpPriority(t, p)
  BY <1>1, CallSteps
<1>2. CASE TestIndex \/ WriteIndex \/ ClearScheduleActive \/ Dispatch
  <2>1. UNCHANGED <<sched_list, current, priority>>
    BY <1>2 DEF TestIndex, WriteIndex, ClearScheduleActive, Dispatch, queues, threads
  <2>2. Settled' <=> Settled
    BY <1>2 DEF TestIndex, WriteIndex, ClearScheduleActive, Dispatch, Settled
  <2>3. QED
    BY <2>1, <2>2, QuietStep
<1>3. CASE Link
  BY <1>3, LinkStep
<1>4. CASE Unlink
  BY <1>4, UnlinkStep
<1>5. CASE Change
  <2>1. /\ priority' = [priority EXCEPT ![target] = wanted] /\ wanted \in Prio
        /\ UNCHANGED <<sched_list, current>> /\ ~Queued(sched_list, target)
        /\ pc = "change" /\ pc' = "head"
    BY <1>5 DEF Change, Inserts, queues, OtherTypes
  <2>2. target \in Thread /\ Settled /\ Settled'
    BY <2>1 DEF Whole, TargetOK, Settled
  <2>3. QED
    BY <2>1, <2>2, NewPriorityStep
<1>6. CASE SyscallExit \/ EpilogueSchedule
  <2>1. Schedule /\ ~Settled /\ pc # "tail"
    BY <1>6 DEF SyscallExit, EpilogueSchedule, Settled
  <2>2. QED
    BY <2>1, ScheduleStep
<1>7. CASE InterruptThread
  <2>1. Settled /\ Settled'
    BY <1>7 DEF InterruptThread, Inserts, Settled
  <2>2. CASE IsrReadiesNone
    BY <2>1, <2>2, QuietStep DEF IsrReadiesNone, queues, threads
  <2>3. QED
    BY <1>7, <2>1, <2>2, IsrReadiesStep DEF InterruptThread
<1>8. CASE InterruptKernel
  <2>1. PICK t \in waiting : IsrReadies(t)
    BY <1>8 DEF InterruptKernel
  <2>2. Settled' <=> Settled
    BY <1>8 DEF InterruptKernel, work, Settled
  <2>3. QED
    BY <2>1, <2>2, IsrReadiesStep
<1>9. QED
  BY <1>1, <1>2, <1>3, <1>4, <1>5, <1>6, <1>7, <1>8 DEF Kernel

\* The ready queues implement the line of PriorityLine, for any number of
\* threads and priorities and whatever the interrupts do, until one comes between
\* two statements that broken names.
THEOREM PriorityLineImplemented == Spec => ImplementsPriorityLine
<1> DEFINE LineInv == broken = "none" => LineSpelled
           Step == broken' # "none" \/ Line!Next
<1>1. Init => LineInv /\ Line!Init
  BY InitLine
<1>2. SchedInv /\ SchedInv' /\ LineInv /\ [Next]_vars => LineInv' /\ [Step]_(Line!vars)
  <2> SUFFICES ASSUME SchedInv, SchedInv', LineInv, [Next]_vars
               PROVE  LineInv' /\ [Step]_(Line!vars)
    OBVIOUS
  <2>1. CASE UNCHANGED vars
    <3>1. /\ UNCHANGED <<sched_list, current, priority, broken>>
          /\ Settled' <=> Settled
      BY <2>1 DEF vars, queues, threads, work, Settled
    <3>2. UNCHANGED Line!vars
      BY <3>1 DEF Line!vars, Away
    <3>3. QED
      BY <3>1, <3>2 DEF LineSpelled
  <2>2. CASE Next /\ broken = "none" /\ broken' = "none"
    <3>1. OtherTypes /\ Whole /\ Whole' /\ LineSpelled
      BY <2>2, SchedInvParts
    <3>2. Kernel \/ InterruptThread \/ InterruptKernel
      BY <2>2 DEF Next
    <3>3. LineStep
      BY <2>2, <3>1, <3>2, NextLineStep
    <3>4. QED
      BY <3>3 DEF LineStep
  <2>3. CASE broken' # "none"
    BY <2>3
  <2>4. QED
    BY <2>1, <2>2, <2>3 DEF Next
<1>3. QED
  BY <1>1, <1>2, SchedInvariant, PTL DEF Spec, ImplementsPriorityLine
=============================================================================
