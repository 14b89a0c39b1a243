------------------------- MODULE ErcosMutex_proofs -------------------------
(***************************************************************************)
(* Proofs about the priority mutexes of ErcosMutex, for any number of      *)
(* threads, mutexes and priorities and any mix of policies: the places of  *)
(* the threads, exclusion, the links of the mutexes that a thread has,     *)
(* their owners, and where a boost comes from.                             *)
(***************************************************************************)
EXTENDS ErcosMutex, ReadyQueue_proofs, FiniteSetTheorems

----------------------------------------------------------------------------
(* Types.                                                                  *)

LEMMA TidFacts ==
    /\ User \subseteq Thread /\ Idle \in Thread /\ Thread \subseteq Tid /\ Boot \in Tid
    /\ Idle \notin User /\ Boot \notin Thread
    /\ NULL \notin Mutex /\ Mutex \subseteq Int /\ MaxResem \in Nat
BY MutexAssumption DEF Thread, Tid, Mutex, NULL

LEMMA FlagSets ==
    /\ {} \in SUBSET Flags /\ {"READY"} \in SUBSET Flags
    /\ {"SEM"} \in SUBSET Flags /\ {"TIME"} \in SUBSET Flags
BY DEF Flags

\* A list of threads and what its operations leave of it.
LEMMA ListTypes ==
    ASSUME NEW S, NEW s \in Seq(S)
    PROVE  /\ s # <<>> => Head(s) \in S /\ Tail(s) \in Seq(S) /\ In(s, Head(s))
           /\ \A t \in S : Append(s, t) \in Seq(S) /\ <<t>> \o s \in Seq(S)
BY TailHolds, AppendHolds, ConsHolds

LEMMA ScheduleTypes ==
    ASSUME NEW q \in [Prio -> Seq(Thread)], NEW st \in [Tid -> SUBSET Flags], Schedule(q, st)
    PROVE  /\ current' \in Thread /\ sched_list' \in [Prio -> Seq(Thread)]
           /\ status' \in [Tid -> SUBSET Flags]
<1>1. PICK p \in Prio : /\ q[p] # <<>> /\ current' = Head(q[p])
                        /\ sched_list' = [q EXCEPT ![p] = Tail(@)]
                        /\ status' = [st EXCEPT ![Head(q[p])] = {}]
  BY DEF Schedule
<1>2. Head(q[p]) \in Thread /\ Tail(q[p]) \in Seq(Thread)
  BY <1>1, ListTypes
<1>3. QED
  BY <1>1, <1>2

LEMMA ReturnTypes ==
    ASSUME NEW q \in [Prio -> Seq(Thread)], NEW st \in [Tid -> SUBSET Flags],
           NEW pr \in [Tid -> Prio], current \in Thread, Return(q, st, pr)
    PROVE  /\ current' \in Thread /\ sched_list' \in [Prio -> Seq(Thread)]
           /\ status' \in [Tid -> SUBSET Flags]
<1> DEFINE n == AddHead(q, current, pr[current])
           sn == [st EXCEPT ![current] = {"READY"}]
<1>1. pr[current] \in Prio
  BY TidFacts
<1>2. n \in [Prio -> Seq(Thread)] /\ sn \in [Tid -> SUBSET Flags]
  BY <1>1, AddTypes, FlagSets
<1>3. Schedule(n, sn)
  BY DEF Return
<1> HIDE DEF n, sn
<1>4. QED
  BY <1>2, <1>3, ScheduleTypes

LEMMA ReadyTypes ==
    ASSUME NEW q \in [Prio -> Seq(Thread)], NEW t \in Thread, NEW pr \in [Tid -> Prio]
    PROVE  Ready(q, t, pr) \in [Prio -> Seq(Thread)]
<1>1. pr[t] \in Prio
  BY TidFacts
<1>2. QED
  BY <1>1, AddTypes DEF Ready

\* A thread that changes from one ready list to another.
LEMMA RequeueTypes ==
    ASSUME TypeOK, NEW t \in Thread, NEW pr \in [Tid -> Prio]
    PROVE  Ready(RemoveThread(sched_list, t, priority[t]), t, pr) \in [Prio -> Seq(Thread)]
<1>1. priority[t] \in Prio /\ sched_list \in [Prio -> Seq(Thread)]
  BY TidFacts DEF TypeOK
<1>2. RemoveThread(sched_list, t, priority[t]) \in [Prio -> Seq(Thread)]
  BY <1>1, RemoveThreadRemoves DEF Removed
<1>3. QED
  BY <1>2, ReadyTypes

LEMMA SleepTypes == ASSUME TypeOK, Sleep PROVE TypeOK'
<1> DEFINE st == [status EXCEPT ![current] = {"TIME"}]
<1>1. Schedule(sched_list, st)
  BY DEF Sleep
<1>2. st \in [Tid -> SUBSET Flags] /\ sched_list \in [Prio -> Seq(Thread)]
  BY FlagSets DEF TypeOK
<1> HIDE DEF st
<1>3. QED
  BY <1>1, <1>2, ScheduleTypes DEF TypeOK, Sleep, owners, links, asked

LEMMA WakeTypes == ASSUME TypeOK, NEW t \in User, Wake(t) PROVE TypeOK'
<1> DEFINE q == Ready(sched_list, t, priority)
           st == [status EXCEPT ![t] = {"READY"}]
<1>1. /\ \/ Return(q, st, priority) /\ UNCHANGED overtaken
         \/ /\ sched_list' = q /\ status' = st /\ UNCHANGED current
            /\ overtaken' \in {t, Boot}
      /\ UNCHANGED <<priority, base_priority, mutex_id, type, list, prio, owners, links,
                     held, found, wanted>>
  BY DEF Wake
<1>2. q \in [Prio -> Seq(Thread)] /\ st \in [Tid -> SUBSET Flags]
      /\ priority \in [Tid -> Prio] /\ current \in Thread
  BY ReadyTypes, FlagSets, TidFacts DEF TypeOK
<1> HIDE DEF q, st
<1>3. /\ current' \in Thread /\ sched_list' \in [Prio -> Seq(Thread)]
      /\ status' \in [Tid -> SUBSET Flags] /\ overtaken' \in User \cup {Boot}
  BY <1>1, <1>2, ReturnTypes DEF TypeOK
<1>4. QED
  BY <1>1, <1>3 DEF TypeOK, owners, links

\* What OS_SetPriority makes of the priority.
LEMMA AdjustIs ==
    ASSUME TypeOK, NEW t \in User, NEW p \in Prio
    PROVE  /\ Adjust(t, p) \in [Tid -> Prio]
           /\ \A x \in Tid : x # t => Adjust(t, p)[x] = priority[x]
           /\ \/ Adjust(t, p)[t] = p
              \/ pmutex[t] # NULL /\ Adjust(t, p)[t] = prio[pmutex[t]]
<1> DEFINE m == pmutex[t]
           n == IF m # NULL /\ p < prio[m] THEN prio[m] ELSE p
<1>1. t \in Tid /\ n \in Prio /\ priority \in [Tid -> Prio]
  BY TidFacts DEF TypeOK
<1>2. Adjust(t, p) = [priority EXCEPT ![t] = n]
  BY DEF Adjust
<1>3. n = p \/ (pmutex[t] # NULL /\ n = prio[pmutex[t]])
  OBVIOUS
<1> HIDE DEF n
<1>4. QED
  BY <1>1, <1>2, <1>3

LEMMA SetPriorityIs ==
    ASSUME TypeOK, NEW t \in User, NEW p \in Prio, SetPriority(t, p)
    PROVE  LET pr == Adjust(t, p)
           IN  \/ t # current /\ FindsBlocked(t, p) /\ UNCHANGED status
               \/ /\ priority' = pr /\ pr \in [Tid -> Prio]
                  /\ base_priority' = [base_priority EXCEPT ![t] = p]
                  /\ UNCHANGED asked
                  /\ \/ /\ t # current /\ ~TaskIsBlocked(t)
                        /\ Return(Ready(RemoveThread(sched_list, t, priority[t]), t, pr),
                                  status, pr)
                     \/ t = current /\ Return(sched_list, status, pr)
BY AdjustIs DEF SetPriority, Requeued

LEMMA SetPriorityTypes ==
    ASSUME TypeOK, NEW t \in User, NEW p \in Prio, SetPriority(t, p) PROVE TypeOK'
<1> DEFINE pr == Adjust(t, p)
           q == Ready(RemoveThread(sched_list, t, priority[t]), t, pr)
<1>1. \/ FindsBlocked(t, p) /\ UNCHANGED status
      \/ /\ priority' = pr /\ pr \in [Tid -> Prio]
         /\ base_priority' = [base_priority EXCEPT ![t] = p]
         /\ UNCHANGED asked
         /\ Return(q, status, pr) \/ Return(sched_list, status, pr)
  BY SetPriorityIs
<1>2. UNCHANGED <<mutex_id, type, list, prio, owners, links, held>>
  BY DEF SetPriority
<1>3. pr \in [Tid -> Prio] => q \in [Prio -> Seq(Thread)]
  BY RequeueTypes, TidFacts
<1> HIDE DEF pr, q
<1>4. CASE FindsBlocked(t, p) /\ UNCHANGED status
  BY <1>2, <1>4 DEF TypeOK, FindsBlocked, owners, links
<1>5. CASE /\ priority' = pr /\ pr \in [Tid -> Prio]
           /\ base_priority' = [base_priority EXCEPT ![t] = p]
           /\ UNCHANGED asked
           /\ Return(q, status, pr) \/ Return(sched_list, status, pr)
  <2>1. /\ sched_list \in [Prio -> Seq(Thread)] /\ status \in [Tid -> SUBSET Flags]
        /\ current \in Thread
    BY DEF TypeOK
  <2>2. /\ current' \in Thread /\ sched_list' \in [Prio -> Seq(Thread)]
        /\ status' \in [Tid -> SUBSET Flags]
    BY <1>3, <1>5, <2>1, ReturnTypes
  <2>3. base_priority' \in [Tid -> Prio]
    BY <1>5 DEF TypeOK
  <2>4. QED
    BY <1>2, <1>5, <2>2, <2>3 DEF TypeOK, owners, links, asked
<1>6. QED
  BY <1>1, <1>4, <1>5

LEMMA ChangesTypes ==
    ASSUME TypeOK, NEW pr \in [Tid -> Prio], Changes(pr),
           base_priority' \in [Tid -> Prio], current' \in Thread,
           sched_list' \in [Prio -> Seq(Thread)], status' \in [Tid -> SUBSET Flags]
    PROVE  TypeOK'
BY PrioInt DEF Changes, TypeOK, owners, links, MaxPriority

LEMMA ChangesPriorityTypes == ASSUME TypeOK, ChangesPriority PROVE TypeOK'
<1> DEFINE pr == Adjust(found, wanted)
<1>1. found \in User /\ wanted \in Prio
  BY DEF TypeOK, ChangesPriority, Changes
<1>2. /\ pr \in [Tid -> Prio] /\ Changes(pr) /\ Return(sched_list, status, pr)
      /\ base_priority' = [base_priority EXCEPT ![found] = wanted]
  BY <1>1, AdjustIs DEF ChangesPriority
<1> HIDE DEF pr
<1>3. base_priority' \in [Tid -> Prio]
  BY <1>1, <1>2 DEF TypeOK
<1>4. QED
  BY <1>2, <1>3, ReturnTypes, ChangesTypes DEF TypeOK

LEMMA LendsPriorityTypes == ASSUME TypeOK, LendsPriority PROVE TypeOK'
<1> DEFINE pr == [priority EXCEPT ![found] = wanted]
<1>1. /\ pr \in [Tid -> Prio] /\ Changes(pr) /\ Schedule(sched_list, status)
      /\ base_priority' = base_priority
  BY DEF TypeOK, LendsPriority
<1> HIDE DEF pr
<1>2. QED
  BY <1>1, ScheduleTypes, ChangesTypes DEF TypeOK

LEMMA MutexInitTypes == ASSUME TypeOK, NEW y \in NewType, MutexInit(y) PROVE TypeOK'
<1>1. /\ mutex_id \in Mutex /\ mutex_id + 1 \in 0 .. MaxResem /\ y \in Policy
      /\ MinPriority \in Prio
  BY MutexAssumption, PrioInt DEF MutexInit, TypeOK, Mutex
<1>2. /\ current' \in Thread /\ sched_list' \in [Prio -> Seq(Thread)]
      /\ status' \in [Tid -> SUBSET Flags]
  BY ReturnTypes DEF MutexInit, TypeOK
<1>3. list' \in [Mutex -> Seq(User)]
  <2>1. <<>> \in Seq(User)
    BY EmptySeq
  <2>2. QED
    BY <1>1, <2>1 DEF MutexInit, TypeOK
<1>4. QED
  BY <1>1, <1>2, <1>3, TidFacts DEF TypeOK, MutexInit, InitialPrio, asked

LEMMA SetPrioCeilingTypes ==
    ASSUME TypeOK, NEW m \in Mutex, NEW c \in Ceilings, SetPrioCeiling(m, c) PROVE TypeOK'
<1>1. prio' \in [Mutex -> Prio]
  BY MutexAssumption DEF SetPrioCeiling, TypeOK
<1>2. /\ current' \in Thread /\ sched_list' \in [Prio -> Seq(Thread)]
      /\ status' \in [Tid -> SUBSET Flags]
  BY ReturnTypes DEF SetPrioCeiling, TypeOK
<1>3. QED
  BY <1>1, <1>2 DEF TypeOK, SetPrioCeiling, owners, links, asked

\* The caller of an operation on a mutex.
LEMMA CallerIsUser == ASSUME TypeOK, Call PROVE current \in User /\ current \in Tid
BY TidFacts DEF TypeOK, Call, Thread

\* The ceiling policy and an unlock change the priority of the caller only.
LEMMA PrioCeilingIs ==
    ASSUME TypeOK, NEW m \in Mutex, NEW pr \in [Tid -> Prio]
    PROVE  /\ PrioCeiling(m, pr) \in [Tid -> Prio]
           /\ \A t \in Tid : t # current => PrioCeiling(m, pr)[t] = pr[t]
BY TidFacts DEF PrioCeiling, TypeOK

\* Every set of priorities has a highest one: the prefixes of Prio up to its
\* members are well-founded under inclusion.
LEMMA HighestExists ==
    ASSUME NEW T \in SUBSET Prio, T # {}
    PROVE  \E p \in T : \A r \in T : p <= r
<1> DEFINE F == {0 .. p : p \in T}
           R == StrictSubsetOrdering(Prio)
<1>1. Prio \subseteq Nat /\ \A p \in Prio : 0 .. p \subseteq Prio
  BY MaxPrioAssumption DEF Prio
<1>2. IsFiniteSet(Prio)
  BY MaxPrioAssumption, FS_Interval DEF Prio
<1>3. IsWellFoundedOn(R, SUBSET Prio)
  BY <1>2, FS_StrictSubsetOrderingWellFounded, FS_FiniteSubsetsOfFinite
<1>4. F \subseteq SUBSET Prio /\ F # {}
  BY <1>1
<1> HIDE DEF R
<1>5. PICK x \in F : \A y \in F : ~(<<y, x>> \in R)
  BY <1>3, <1>4, WFMin
<1>6. PICK p \in T : x = 0 .. p
  OBVIOUS
<1>7. ASSUME NEW r \in T PROVE p <= r
  <2>1. ~(<<0 .. r, 0 .. p>> \in R)
    BY <1>5, <1>6
  <2>2. ~(0 .. r \subseteq 0 .. p /\ 0 .. r # 0 .. p)
    BY <1>1, <2>1 DEF R, StrictSubsetOrdering
  <2>3. p \in Nat /\ r \in Nat
    BY <1>1
  <2>4. CASE r < p
    <3>1. 0 .. r \subseteq 0 .. p /\ p \in 0 .. p /\ p \notin 0 .. r
      BY <2>3, <2>4
    <3>2. QED
      BY <2>2, <3>1
  <2>5. QED
    BY <2>3, <2>4
<1>8. QED
  BY <1>7

\* The first mutex of a chain is on it.
LEMMA ChainHolds ==
    ASSUME NEW m \in Mutex
    PROVE  m \in Chain(m) /\ Chain(m) \subseteq Mutex
<1> DEFINE path == [i \in 1 .. 1 |-> m]
<1>1. 1 \in 1 .. MaxResem
  BY MutexAssumption DEF Mutex
<1>2. path \in [1 .. 1 -> Mutex] /\ path[1] = m /\ \A i \in 1 .. (1 - 1) : FALSE
  OBVIOUS
<1> HIDE DEF path
<1>3. QED
  BY <1>1, <1>2 DEF Chain

LEMMA RestoredIs ==
    ASSUME TypeOK, NEW m \in Mutex, NEW below \in Mutex \cup {NULL}
    PROVE  /\ Restored(m, below) \in [Tid -> Prio]
           /\ \A t \in Tid : t # current => Restored(m, below)[t] = priority[t]
<1> DEFINE base == base_priority[current]
           chain == {prio[k] : k \in Chain(below)}
           To(p) == [priority EXCEPT ![current] = p]
           best == CHOOSE p \in chain : \A r \in chain : p <= r
<1>1. current \in Tid /\ priority \in [Tid -> Prio] /\ base \in Prio
  BY TidFacts DEF TypeOK
<1>2. \A p \in Prio : /\ To(p) \in [Tid -> Prio]
                      /\ \A t \in Tid : t # current => To(p)[t] = priority[t]
  BY <1>1
<1>3. type[m] \in {"NONE", "INHERIT", "CEILING"}
  BY DEF TypeOK, Policy
<1>4. CASE type[m] = "NONE"
  <2>1. Restored(m, below) = priority
    BY <1>4 DEF Restored
  <2>2. QED
    BY <1>1, <2>1
<1>5. CASE type[m] = "INHERIT"
  <2>1. Restored(m, below) = IF in_thread[m] = Boot THEN priority
                             ELSE IF below = NULL THEN To(base) ELSE To(prio[below])
    BY <1>5 DEF Restored
  <2>2. below # NULL => prio[below] \in Prio
    BY DEF TypeOK
  <2> HIDE DEF base, To
  <2>3. QED
    BY <1>1, <1>2, <2>1, <2>2
<1>6. CASE type[m] = "CEILING"
  <2>1. Restored(m, below) = IF below = NULL THEN To(base)
                             ELSE IF best < base THEN To(best) ELSE priority
    BY <1>6 DEF Restored
  <2>2. below # NULL => best \in Prio
    <3>1. SUFFICES ASSUME below # NULL PROVE best \in Prio
      OBVIOUS
    <3>2. chain \in SUBSET Prio /\ chain # {}
      BY <3>1, ChainHolds DEF TypeOK
    <3> HIDE DEF chain
    <3>3. \E p \in chain : \A r \in chain : p <= r
      BY <3>2, HighestExists
    <3>4. best \in chain
      BY <3>3
    <3>5. QED
      BY <3>2, <3>4
  <2> HIDE DEF base, To, best
  <2>3. QED
    BY <1>1, <1>2, <2>1, <2>2
<1>7. QED
  BY <1>3, <1>4, <1>5, <1>6

\* The priorities that a caller leaves who unlocks m.
UnlockPriorities(m) ==
    LET restored == Restored(m, next[m])
    IN IF type[m] = "CEILING" /\ list[m] # <<>> THEN PrioCeiling(m, restored) ELSE restored

LEMMA UnlockPrioritiesIs ==
    ASSUME TypeOK, NEW m \in Mutex
    PROVE  /\ UnlockPriorities(m) \in [Tid -> Prio]
           /\ \A t \in Tid : t # current => UnlockPriorities(m)[t] = priority[t]
<1> DEFINE restored == Restored(m, next[m])
<1>1. /\ restored \in [Tid -> Prio]
      /\ \A t \in Tid : t # current => restored[t] = priority[t]
  BY RestoredIs DEF TypeOK
<1> HIDE DEF restored
<1>2. /\ PrioCeiling(m, restored) \in [Tid -> Prio]
      /\ \A t \in Tid : t # current => PrioCeiling(m, restored)[t] = restored[t]
  BY <1>1, PrioCeilingIs
<1>3. QED
  BY <1>1, <1>2 DEF UnlockPriorities, restored

----------------------------------------------------------------------------
(* Locking and unlocking, in the terms the invariants need.                *)

\* The caller takes a mutex that is free, by a lock or a try.
Takes(m) ==
    /\ Uses(m) /\ counter[m] = 1
    /\ counter' = [counter EXCEPT ![m] = 0]
    /\ next' = [next EXCEPT ![m] = pmutex[current]]
    /\ pmutex' = [pmutex EXCEPT ![current] = m]
    /\ held' = [held EXCEPT ![current] = <<m>> \o @]

CatchPriorities(m) == IF type[m] = "CEILING" THEN PrioCeiling(m, priority) ELSE priority

LEMMA CatchIs ==
    ASSUME TypeOK, NEW m \in Mutex, Catch(m)
    PROVE  LET pr == CatchPriorities(m)
           IN  /\ Takes(m) /\ in_thread' = [in_thread EXCEPT ![m] = current]
               /\ prio' = IF type[m] = "INHERIT" THEN [prio EXCEPT ![m] = priority[current]]
                                                 ELSE prio
               /\ priority' = pr /\ pr \in [Tid -> Prio]
               /\ \A t \in Tid : t # current => pr[t] = priority[t]
               /\ Return(sched_list, status, pr)
               /\ UNCHANGED <<base_priority, mutex_id, type, list, asked>>
<1> DEFINE pr == CatchPriorities(m)
<1>1. /\ PrioCeiling(m, priority) \in [Tid -> Prio]
      /\ \A t \in Tid : t # current => PrioCeiling(m, priority)[t] = priority[t]
      /\ priority \in [Tid -> Prio]
  BY PrioCeilingIs DEF TypeOK
<1>2. pr \in [Tid -> Prio] /\ \A t \in Tid : t # current => pr[t] = priority[t]
  BY <1>1 DEF CatchPriorities
<1>3. counter[m] = 1
  BY DEF Catch, TypeOK
<1>4. current \in Tid /\ pmutex \in [Tid -> Mutex \cup {NULL}]
  BY TidFacts DEF TypeOK
<1>5. Takes(m)
  BY <1>3, <1>4 DEF Catch, Push, Takes
<1>6. QED
  BY <1>2, <1>5 DEF Catch, CatchPriorities

LEMMA TakesTypes ==
    ASSUME TypeOK, NEW m \in Mutex, Takes(m)
    PROVE  /\ counter' \in [Mutex -> {0, 1}] /\ next' \in [Mutex -> Mutex \cup {NULL}]
           /\ pmutex' \in [Tid -> Mutex \cup {NULL}] /\ held' \in [Tid -> Seq(Mutex)]
<1>1. current \in Tid /\ pmutex[current] \in Mutex \cup {NULL} /\ held[current] \in Seq(Mutex)
  BY TidFacts DEF TypeOK
<1> DEFINE s == <<m>> \o held[current]
<1>2. s \in Seq(Mutex)
  BY <1>1, ListTypes
<1>3. /\ counter' = [counter EXCEPT ![m] = 0]
      /\ next' = [next EXCEPT ![m] = pmutex[current]]
      /\ pmutex' = [pmutex EXCEPT ![current] = m]
      /\ held' = [held EXCEPT ![current] = s]
  BY DEF Takes
<1> HIDE DEF s
<1>4. /\ counter \in [Mutex -> {0, 1}] /\ next \in [Mutex -> Mutex \cup {NULL}]
      /\ pmutex \in [Tid -> Mutex \cup {NULL}] /\ held \in [Tid -> Seq(Mutex)]
  BY DEF TypeOK
<1>5. counter' \in [Mutex -> {0, 1}] /\ next' \in [Mutex -> Mutex \cup {NULL}]
  BY <1>1, <1>3, <1>4
<1>6. pmutex' \in [Tid -> Mutex \cup {NULL}]
  BY <1>3, <1>4
<1>7. held' \in [Tid -> Seq(Mutex)]
  BY <1>2, <1>3, <1>4
<1>8. QED
  BY <1>5, <1>6, <1>7

LEMMA CatchTypes == ASSUME TypeOK, NEW m \in Mutex, Catch(m) PROVE TypeOK'
<1> DEFINE pr == CatchPriorities(m)
<1>1. /\ Takes(m) /\ in_thread' = [in_thread EXCEPT ![m] = current]
      /\ prio' = IF type[m] = "INHERIT" THEN [prio EXCEPT ![m] = priority[current]] ELSE prio
      /\ priority' = pr /\ pr \in [Tid -> Prio]
      /\ Return(sched_list, status, pr)
      /\ UNCHANGED <<base_priority, mutex_id, type, list, asked>>
  BY CatchIs
<1> HIDE DEF pr
<1>2. /\ current' \in Thread /\ sched_list' \in [Prio -> Seq(Thread)]
      /\ status' \in [Tid -> SUBSET Flags]
  BY <1>1, ReturnTypes DEF TypeOK
<1>3. in_thread' \in [Mutex -> Tid] /\ prio' \in [Mutex -> Prio]
  BY <1>1, TidFacts DEF TypeOK
<1>4. QED
  BY <1>1, <1>2, <1>3, TakesTypes DEF TypeOK, asked

LEMMA TryLockIs ==
    ASSUME TypeOK, NEW m \in Mutex, TryLock(m)
    PROVE  /\ Takes(m) \/ UNCHANGED <<counter, links, held>>
           /\ type[m] \in Tried /\ Call /\ Return(sched_list, status, priority)
           /\ UNCHANGED <<priority, base_priority, mutex_id, type, list, in_thread, prio, asked>>
<1>1. current \in Tid /\ pmutex \in [Tid -> Mutex \cup {NULL}]
  BY TidFacts DEF TypeOK
<1>2. QED
  BY <1>1 DEF TryLock, Push, Takes, Uses

LEMMA TryLockTypes == ASSUME TypeOK, NEW m \in Mutex, TryLock(m) PROVE TypeOK'
<1>1. /\ Takes(m) \/ UNCHANGED <<counter, links, held>>
      /\ Return(sched_list, status, priority)
      /\ UNCHANGED <<priority, base_priority, mutex_id, type, list, in_thread, prio, asked>>
  BY TryLockIs
<1>2. /\ current' \in Thread /\ sched_list' \in [Prio -> Seq(Thread)]
      /\ status' \in [Tid -> SUBSET Flags]
  BY <1>1, ReturnTypes DEF TypeOK
<1>3. /\ counter' \in [Mutex -> {0, 1}] /\ next' \in [Mutex -> Mutex \cup {NULL}]
      /\ pmutex' \in [Tid -> Mutex \cup {NULL}] /\ held' \in [Tid -> Seq(Mutex)]
  BY <1>1, TakesTypes DEF links, TypeOK
<1>4. QED
  BY <1>1, <1>2, <1>3 DEF TypeOK, asked

\* The priorities after a thread has blocked on m, and who is moved.
BlockPriorities(m) ==
    IF Inherits(m) THEN [priority EXCEPT ![in_thread[m]] = priority[current]] ELSE priority

LEMMA BlockIs ==
    ASSUME TypeOK, NEW m \in Mutex, Block(m)
    PROVE  LET pr == BlockPriorities(m)
               owner == in_thread[m]
               st == [status EXCEPT ![current] = {"SEM"}]
               q == Ready(RemoveThread(sched_list, owner, priority[owner]), owner, pr)
           IN  /\ Uses(m) /\ counter[m] = 0 /\ list' = Enlist(m)
               /\ prio' = IF Inherits(m) THEN [prio EXCEPT ![m] = priority[current]] ELSE prio
               /\ pr \in [Tid -> Prio] /\ owner \in Tid
               /\ \/ /\ priority' = pr /\ UNCHANGED asked
                     /\ IF Inherits(m)
                        THEN ~TaskIsBlocked(owner) /\ Schedule(q, [st EXCEPT ![owner] = {"READY"}])
                        ELSE Schedule(sched_list, st)
                  \/ Inherits(m) /\ status' = st /\ FindsBlocked(owner, priority[current])
               /\ UNCHANGED <<base_priority, mutex_id, type, counter, in_thread, links, held>>
<1>1. BlockPriorities(m) \in [Tid -> Prio] /\ in_thread[m] \in Tid
  BY TidFacts DEF BlockPriorities, TypeOK
<1>2. \/ /\ priority' = BlockPriorities(m) /\ UNCHANGED <<base_priority, asked>>
         /\ \/ /\ ~Inherits(m)
               /\ Schedule(sched_list, [status EXCEPT ![current] = {"SEM"}])
            \/ /\ Inherits(m) /\ ~TaskIsBlocked(in_thread[m])
               /\ Schedule(Ready(RemoveThread(sched_list, in_thread[m], priority[in_thread[m]]),
                                 in_thread[m], BlockPriorities(m)),
                           [[status EXCEPT ![current] = {"SEM"}] EXCEPT ![in_thread[m]] = {"READY"}])
      \/ /\ Inherits(m) /\ status' = [status EXCEPT ![current] = {"SEM"}]
         /\ FindsBlocked(in_thread[m], priority[current]) /\ UNCHANGED base_priority
  BY DEF Block, BlockPriorities, Requeued, OwnerIsReady, FindsBlocked
<1>3. /\ Uses(m) /\ counter[m] = 0 /\ list' = Enlist(m)
      /\ prio' = IF Inherits(m) THEN [prio EXCEPT ![m] = priority[current]] ELSE prio
      /\ UNCHANGED <<mutex_id, type, counter, in_thread, links, held>>
  BY DEF Block, owners
<1>4. QED
  BY <1>1, <1>2, <1>3

LEMMA EnlistIs ==
    ASSUME TypeOK, NEW m \in Mutex, Call
    PROVE  \E s \in Seq(User) :
              /\ Enlist(m) = [list EXCEPT ![m] = s]
              /\ \A x : In(s, x) <=> In(list[m], x) \/ x = current
              /\ Distinct(list[m]) /\ ~In(list[m], current) => Distinct(s)
<1>1. current \in User /\ list[m] \in Seq(User)
  BY CallerIsUser DEF TypeOK
<1>2. CASE type[m] = "NONE"
  <2> DEFINE s == Append(list[m], current)
  <2>1. /\ s \in Seq(User) /\ \A x : In(s, x) <=> In(list[m], x) \/ x = current
        /\ Distinct(list[m]) /\ ~In(list[m], current) => Distinct(s)
    BY <1>1, AppendHolds
  <2>2. Enlist(m) = [list EXCEPT ![m] = s]
    BY <1>2 DEF Enlist
  <2> HIDE DEF s
  <2>3. QED
    BY <2>1, <2>2
<1>3. CASE type[m] # "NONE"
  <2> DEFINE s == <<current>> \o list[m]
  <2>1. /\ s \in Seq(User) /\ \A x : In(s, x) <=> In(list[m], x) \/ x = current
        /\ Distinct(list[m]) /\ ~In(list[m], current) => Distinct(s)
    BY <1>1, ConsHolds
  <2>2. Enlist(m) = [list EXCEPT ![m] = s]
    BY <1>3 DEF Enlist
  <2> HIDE DEF s
  <2>3. QED
    BY <2>1, <2>2
<1>4. QED
  BY <1>2, <1>3

\* Only a thread can inherit: the boot thread has the highest priority.
LEMMA InheritorIsThread ==
    ASSUME TypeOK, Owned, NEW m \in Mutex, Inherits(m)
    PROVE  in_thread[m] \in User /\ in_thread[m] # current
<1>1. priority[current] \in Prio /\ in_thread[m] \in User \cup {Boot}
  BY TidFacts DEF TypeOK, Owned
<1>2. ~(priority[current] < MaxPriority)
  BY <1>1, PrioInt DEF MaxPriority, Prio
<1>3. priority[current] < priority[in_thread[m]]
  BY DEF Inherits
<1>4. in_thread[m] # Boot
  BY <1>2, <1>3 DEF Owned
<1>5. in_thread[m] # current
  <2>1. priority[current] \in Int
    BY <1>1, PrioInt
  <2>2. ~(priority[current] < priority[current])
    BY <2>1
  <2>3. QED
    BY <1>3, <2>2
<1>6. QED
  BY <1>1, <1>4, <1>5

\* A mutex goes from the caller to t, or is free again.
LEMMA UnlockIs ==
    ASSUME TypeOK, NEW m \in Mutex, Unlock(m)
    PROVE  LET pr == UnlockPriorities(m)
               t == Head(list[m])
               hs == [held EXCEPT ![current] = Tail(held[current])]
           IN  /\ Call /\ m < mutex_id /\ held[current] # <<>> /\ Head(held[current]) = m
               /\ priority' = pr
               /\ UNCHANGED <<base_priority, mutex_id, type, prio, asked>>
               /\ \/ /\ list[m] # <<>> /\ t \in User
                     /\ list' = [list EXCEPT ![m] = Tail(list[m])]
                     /\ in_thread' = [in_thread EXCEPT ![m] = t]
                     /\ counter' = counter
                     /\ Push(t, m, next[m])
                     /\ held' = [hs EXCEPT ![t] = <<m>> \o hs[t]]
                     /\ Return(Ready(sched_list, t, pr), [status EXCEPT ![t] = {"READY"}], pr)
                  \/ /\ list[m] = <<>> /\ list' = list
                     /\ in_thread' = [in_thread EXCEPT ![m] = Boot]
                     /\ counter' = [counter EXCEPT ![m] = 1]
                     /\ next' = [next EXCEPT ![m] = NULL]
                     /\ pmutex' = [pmutex EXCEPT ![current] = next[m]]
                     /\ held' = hs
                     /\ Return(sched_list, status, pr)
<1> DEFINE hs == [held EXCEPT ![current] = Tail(held[current])]
           t == Head(list[m])
           pr == UnlockPriorities(m)
<1>1. list[m] # <<>> => t \in User
  BY ListTypes DEF TypeOK
<1>2. /\ Call /\ m < mutex_id /\ held[current] # <<>> /\ Head(held[current]) = m
      /\ priority' = pr
      /\ UNCHANGED <<base_priority, mutex_id, type, prio, asked>>
  BY DEF Unlock, UnlockPriorities
<1>3. CASE list[m] # <<>>
  <2>1. /\ list' = [list EXCEPT ![m] = Tail(list[m])]
        /\ in_thread' = [in_thread EXCEPT ![m] = t]
        /\ counter' = counter
        /\ Push(t, m, next[m])
        /\ Return(Ready(sched_list, t, pr), [status EXCEPT ![t] = {"READY"}], pr)
    BY <1>3 DEF Unlock, UnlockPriorities, NewOwner, HandedOver
  <2>2. held' = [hs EXCEPT ![t] = <<m>> \o hs[t]]
    BY <1>3 DEF Unlock
  <2>3. QED
    BY <1>1, <1>2, <1>3, <2>1, <2>2
<1>4. CASE list[m] = <<>>
  <2>1. /\ list' = list
        /\ in_thread' = [in_thread EXCEPT ![m] = Boot]
        /\ counter' = [counter EXCEPT ![m] = 1]
        /\ next' = [next EXCEPT ![m] = NULL]
        /\ pmutex' = [pmutex EXCEPT ![current] = next[m]]
        /\ held' = hs
        /\ Return(sched_list, status, pr)
    BY <1>4 DEF Unlock, UnlockPriorities, NewOwner
  <2>2. QED
    BY <1>2, <1>4, <2>1
<1>5. QED
  BY <1>3, <1>4

LEMMA BlockTypes ==
    ASSUME TypeOK, Owned, NEW m \in Mutex, Block(m) PROVE TypeOK'
<1> DEFINE pr == BlockPriorities(m)
           owner == in_thread[m]
           st == [status EXCEPT ![current] = {"SEM"}]
           so == [st EXCEPT ![owner] = {"READY"}]
           q == Ready(RemoveThread(sched_list, owner, priority[owner]), owner, pr)
<1>1. /\ Uses(m) /\ list' = Enlist(m)
      /\ prio' = IF Inherits(m) THEN [prio EXCEPT ![m] = priority[current]] ELSE prio
      /\ pr \in [Tid -> Prio] /\ owner \in Tid
      /\ \/ /\ priority' = pr /\ UNCHANGED asked
            /\ (Inherits(m) /\ Schedule(q, so)) \/ Schedule(sched_list, st)
         \/ Inherits(m) /\ status' = st /\ FindsBlocked(owner, priority[current])
      /\ UNCHANGED <<base_priority, mutex_id, type, counter, in_thread, links, held>>
  BY BlockIs
<1>2. /\ Inherits(m) => q \in [Prio -> Seq(Thread)]
      /\ sched_list \in [Prio -> Seq(Thread)]
  BY <1>1, RequeueTypes, InheritorIsThread, TidFacts DEF TypeOK
<1>3. st \in [Tid -> SUBSET Flags] /\ so \in [Tid -> SUBSET Flags]
  BY FlagSets DEF TypeOK
<1> HIDE DEF pr, q, st, so
<1>4. /\ current' \in Thread /\ sched_list' \in [Prio -> Seq(Thread)]
      /\ status' \in [Tid -> SUBSET Flags] /\ priority' \in [Tid -> Prio]
  BY <1>1, <1>2, <1>3, ScheduleTypes DEF FindsBlocked, TypeOK
<1>5. list' \in [Mutex -> Seq(User)]
  <2>1. PICK s \in Seq(User) : Enlist(m) = [list EXCEPT ![m] = s]
    BY <1>1, EnlistIs DEF Uses
  <2>2. QED
    BY <1>1, <2>1 DEF TypeOK
<1>6. prio' \in [Mutex -> Prio]
  BY <1>1, TidFacts DEF TypeOK
<1>7. found' \in User \cup {Boot} /\ wanted' \in Prio /\ overtaken' \in User \cup {Boot}
  <2>1. Inherits(m) => owner \in User
    BY InheritorIsThread
  <2>2. priority[current] \in Prio
    BY TidFacts DEF TypeOK
  <2>3. QED
    BY <1>1, <2>1, <2>2 DEF FindsBlocked, TypeOK, asked
<1>8. QED
  BY <1>1, <1>4, <1>5, <1>6, <1>7 DEF TypeOK, links

LEMMA UnlockTypes == ASSUME TypeOK, NEW m \in Mutex, Unlock(m) PROVE TypeOK'
<1> DEFINE pr == UnlockPriorities(m)
           t == Head(list[m])
           q == Ready(sched_list, t, pr)
           st == [status EXCEPT ![t] = {"READY"}]
           rest == Tail(held[current])
           hs == [held EXCEPT ![current] = rest]
           below == next[m]
<1>1. /\ Call /\ held[current] # <<>> /\ priority' = pr /\ pr \in [Tid -> Prio]
      /\ UNCHANGED <<base_priority, mutex_id, type, prio, asked>>
  BY UnlockIs, UnlockPrioritiesIs
<1>2. \/ /\ list[m] # <<>> /\ t \in User
         /\ list' = [list EXCEPT ![m] = Tail(list[m])]
         /\ in_thread' = [in_thread EXCEPT ![m] = t]
         /\ counter' = counter
         /\ Push(t, m, below)
         /\ held' = [hs EXCEPT ![t] = <<m>> \o hs[t]]
         /\ Return(q, st, pr)
      \/ /\ list[m] = <<>> /\ list' = list
         /\ in_thread' = [in_thread EXCEPT ![m] = Boot]
         /\ counter' = [counter EXCEPT ![m] = 1]
         /\ next' = [next EXCEPT ![m] = NULL]
         /\ pmutex' = [pmutex EXCEPT ![current] = below]
         /\ held' = hs
         /\ Return(sched_list, status, pr)
  BY UnlockIs
<1>3. /\ current \in Tid /\ held[current] \in Seq(Mutex) /\ list[m] \in Seq(User)
      /\ below \in Mutex \cup {NULL}
      /\ status \in [Tid -> SUBSET Flags] /\ sched_list \in [Prio -> Seq(Thread)]
      /\ current \in Thread
  BY TidFacts DEF TypeOK
<1>4. rest \in Seq(Mutex)
  BY <1>1, <1>3, ListTypes
<1>5. hs \in [Tid -> Seq(Mutex)]
  <2> HIDE DEF rest
  <2>1. QED
    BY <1>3, <1>4 DEF TypeOK
<1>6. t \in User => /\ q \in [Prio -> Seq(Thread)] /\ st \in [Tid -> SUBSET Flags]
                    /\ <<m>> \o hs[t] \in Seq(Mutex) /\ t \in Tid
  <2> HIDE DEF hs, t, pr
  <2>1. SUFFICES ASSUME t \in User
                 PROVE  /\ q \in [Prio -> Seq(Thread)] /\ st \in [Tid -> SUBSET Flags]
                        /\ <<m>> \o hs[t] \in Seq(Mutex) /\ t \in Tid
    OBVIOUS
  <2>2. t \in Thread /\ t \in Tid
    BY <2>1, TidFacts
  <2>3. hs[t] \in Seq(Mutex)
    BY <1>5, <2>2
  <2>4. QED
    BY <1>1, <1>3, <2>2, <2>3, ReadyTypes, FlagSets, ListTypes
<1> HIDE DEF pr, q, st, hs, t, below
<1>7. CASE list[m] # <<>>
  <2>1. /\ list' = [list EXCEPT ![m] = Tail(list[m])] /\ t \in User
        /\ in_thread' = [in_thread EXCEPT ![m] = t]
        /\ counter' = counter
        /\ next' = [next EXCEPT ![m] = IF t = current THEN below ELSE pmutex[t]]
        /\ pmutex' = [pmutex EXCEPT ![current] = below, ![t] = m]
        /\ held' = [hs EXCEPT ![t] = <<m>> \o hs[t]]
        /\ Return(q, st, pr)
    BY <1>2, <1>7 DEF Push
  <2>2. /\ current' \in Thread /\ sched_list' \in [Prio -> Seq(Thread)]
        /\ status' \in [Tid -> SUBSET Flags]
    BY <1>1, <1>3, <1>6, <2>1, ReturnTypes
  <2>3. Tail(list[m]) \in Seq(User)
    BY <1>3, <1>7, ListTypes
  <2>4. list' \in [Mutex -> Seq(User)]
    <3> DEFINE s == Tail(list[m])
    <3> HIDE DEF s
    <3>1. list' = [list EXCEPT ![m] = s] /\ s \in Seq(User)
      BY <2>1, <2>3 DEF s
    <3>2. QED
      BY <3>1 DEF TypeOK
  <2>5. held' \in [Tid -> Seq(Mutex)]
    <3> DEFINE s == <<m>> \o hs[t]
    <3> HIDE DEF s
    <3>1. held' = [hs EXCEPT ![t] = s] /\ s \in Seq(Mutex)
      BY <1>6, <2>1 DEF s
    <3>2. QED
      BY <1>5, <3>1
  <2>6. in_thread' \in [Mutex -> Tid]
    BY <1>6, <2>1 DEF TypeOK
  <2>7. pmutex' \in [Tid -> Mutex \cup {NULL}]
    <3>1. pmutex \in [Tid -> Mutex \cup {NULL}]
      BY DEF TypeOK
    <3>2. QED
      BY <1>3, <2>1, <3>1
  <2>8. next' \in [Mutex -> Mutex \cup {NULL}]
    <3>1. next \in [Mutex -> Mutex \cup {NULL}] /\ pmutex[t] \in Mutex \cup {NULL}
      BY <1>6, <2>1 DEF TypeOK
    <3>2. QED
      BY <1>3, <2>1, <3>1
  <2>9. QED
    BY <1>1, <2>1, <2>2, <2>4, <2>5, <2>6, <2>7, <2>8 DEF TypeOK, asked
<1>8. CASE list[m] = <<>>
  <2>1. /\ list' = list
        /\ in_thread' = [in_thread EXCEPT ![m] = Boot]
        /\ counter' = [counter EXCEPT ![m] = 1]
        /\ next' = [next EXCEPT ![m] = NULL]
        /\ pmutex' = [pmutex EXCEPT ![current] = below]
        /\ held' = hs
        /\ Return(sched_list, status, pr)
    BY <1>2, <1>8
  <2>2. /\ current' \in Thread /\ sched_list' \in [Prio -> Seq(Thread)]
        /\ status' \in [Tid -> SUBSET Flags]
    BY <1>1, <1>3, <2>1, ReturnTypes
  <2>3. /\ in_thread' \in [Mutex -> Tid] /\ counter' \in [Mutex -> {0, 1}]
        /\ next' \in [Mutex -> Mutex \cup {NULL}]
    BY <2>1, TidFacts DEF TypeOK
  <2>4. pmutex' \in [Tid -> Mutex \cup {NULL}]
    BY <1>3, <2>1 DEF TypeOK
  <2>5. QED
    BY <1>1, <1>5, <2>1, <2>2, <2>3, <2>4 DEF TypeOK, asked
<1>9. QED
  BY <1>7, <1>8

----------------------------------------------------------------------------
(* The steps, and types along them.  Owned belongs to the types: only a    *)
(* thread inherits a priority because the boot thread's own is the highest.*)

\* What every step does, by its operation.
LEMMA StepIs ==
    ASSUME Next
    PROVE  \/ Sleep
           \/ \E t \in User : Wake(t)
           \/ \E t \in User, p \in Prio : SetPriority(t, p)
           \/ ChangesPriority \/ LendsPriority
           \/ \E y \in NewType : MutexInit(y)
           \/ \E m \in Mutex : \/ \E c \in Ceilings : SetPrioCeiling(m, c)
                               \/ Catch(m) \/ Block(m) \/ TryLock(m) \/ Unlock(m)
BY MutexAssumption DEF Next

LEMMA InitTypes == Init => TypeOK
<1> SUFFICES ASSUME Init PROVE TypeOK
  OBVIOUS
<1>1. <<>> \in Seq(Thread) /\ <<>> \in Seq(User) /\ <<>> \in Seq(Mutex)
  BY EmptySeq
<1>2. sched_list \in [Prio -> Seq(Thread)] /\ current \in Thread
  BY <1>1, TidFacts DEF Init, EmptyQueues
<1>3. status \in [Tid -> SUBSET Flags]
  BY FlagSets DEF Init
<1>4. base_priority \in [Tid -> Prio]
  <2>1. \A t \in User : UserPriority[t] \in Prio
    BY MutexAssumption
  <2>2. QED
    BY <2>1, PrioInt DEF Init
<1>5. /\ mutex_id \in 0 .. MaxResem /\ type \in [Mutex -> Policy]
      /\ counter \in [Mutex -> {0, 1}] /\ prio \in [Mutex -> Prio]
      /\ in_thread \in [Mutex -> Tid]
  BY TidFacts, PrioInt DEF Init, Policy, MaxPriority
<1>6. list \in [Mutex -> Seq(User)] /\ held \in [Tid -> Seq(Mutex)]
  BY <1>1 DEF Init
<1>7. next \in [Mutex -> Mutex \cup {NULL}] /\ pmutex \in [Tid -> Mutex \cup {NULL}]
  BY DEF Init
<1>8. found \in User \cup {Boot} /\ wanted \in Prio /\ overtaken \in User \cup {Boot}
  BY PrioInt DEF Init, MaxPriority
<1>9. QED
  BY <1>2, <1>3, <1>4, <1>5, <1>6, <1>7, <1>8 DEF TypeOK, Init


\* Owned over a step that gives m to x, or to nobody, if at all.
LEMMA OwnedKept ==
    ASSUME TypeOK, Owned, NEW m \in Mutex, NEW x \in User \cup {Boot},
           in_thread' = in_thread \/ in_thread' = [in_thread EXCEPT ![m] = x],
           priority'[Boot] = priority[Boot]
    PROVE  Owned'
<1>1. in_thread \in [Mutex -> Tid]
  BY DEF TypeOK
<1>2. QED
  BY <1>1 DEF Owned

LEMMA OwnedStep ==
    ASSUME TypeOK, Owned, Next PROVE Owned'
<1>1. CASE Sleep
  BY <1>1 DEF Sleep, owners, Owned
<1>2. ASSUME NEW t \in User, Wake(t) PROVE Owned'
  BY <1>2 DEF Wake, owners, Owned
<1>3. ASSUME NEW t \in User, NEW p \in Prio, SetPriority(t, p) PROVE Owned'
  <2>1. priority' \in {priority, Adjust(t, p)} /\ in_thread' = in_thread
    BY <1>3, SetPriorityIs DEF SetPriority, owners, FindsBlocked
  <2>2. Adjust(t, p)[Boot] = priority[Boot]
    BY AdjustIs, TidFacts
  <2>3. QED
    BY <2>1, <2>2 DEF Owned
<1>4. ASSUME NEW y \in NewType, MutexInit(y) PROVE Owned'
  BY <1>4 DEF MutexInit, Owned, TypeOK
<1>5. ASSUME NEW m \in Mutex, NEW c \in Ceilings, SetPrioCeiling(m, c) PROVE Owned'
  BY <1>5 DEF SetPrioCeiling, owners, Owned
<1>6. ASSUME NEW m \in Mutex, Catch(m) PROVE Owned'
  <2>1. /\ in_thread' = [in_thread EXCEPT ![m] = current] /\ priority' = CatchPriorities(m)
        /\ \A t \in Tid : t # current => CatchPriorities(m)[t] = priority[t]
    BY <1>6, CatchIs
  <2>2. current \in User /\ current # Boot /\ Boot \in Tid
    BY <1>6, CallerIsUser, TidFacts DEF Catch, Uses
  <2>3. QED
    BY <2>1, <2>2, OwnedKept
<1>7. ASSUME NEW m \in Mutex, Block(m) PROVE Owned'
  <2>1. in_thread' = in_thread /\ priority' \in {priority, BlockPriorities(m)}
    BY <1>7, BlockIs DEF FindsBlocked
  <2>2. Inherits(m) => in_thread[m] # Boot
    BY InheritorIsThread, TidFacts
  <2>3. priority'[Boot] = priority[Boot]
    BY <2>1, <2>2, TidFacts DEF BlockPriorities, TypeOK
  <2>4. QED
    BY <2>1, <2>3 DEF Owned
<1>8. ASSUME NEW m \in Mutex, TryLock(m) PROVE Owned'
  BY <1>8 DEF TryLock, Owned
<1>9. ASSUME NEW m \in Mutex, Unlock(m) PROVE Owned'
  <2> DEFINE t == Head(list[m])
  <2>1. /\ priority' = UnlockPriorities(m) /\ Call
        /\ \A x \in Tid : x # current => UnlockPriorities(m)[x] = priority[x]
    BY <1>9, UnlockIs, UnlockPrioritiesIs
  <2>2. current # Boot /\ Boot \in Tid
    BY <2>1, CallerIsUser, TidFacts
  <2>3. \/ in_thread' = [in_thread EXCEPT ![m] = t] /\ t \in User
        \/ in_thread' = [in_thread EXCEPT ![m] = Boot]
    BY <1>9, UnlockIs
  <2>4. QED
    BY <2>1, <2>2, <2>3, OwnedKept
<1>10. ASSUME ChangesPriority \/ LendsPriority PROVE Owned'
  <2>1. found \in User /\ wanted \in Prio /\ in_thread' = in_thread
    BY <1>10 DEF ChangesPriority, LendsPriority, Changes, TypeOK, owners
  <2>2. priority' \in {Adjust(found, wanted), [priority EXCEPT ![found] = wanted]}
    BY <1>10 DEF ChangesPriority, LendsPriority, Changes
  <2>3. Adjust(found, wanted)[Boot] = priority[Boot]
    BY <2>1, AdjustIs, TidFacts
  <2>4. [priority EXCEPT ![found] = wanted][Boot] = priority[Boot]
    BY <2>1, TidFacts DEF TypeOK
  <2>5. priority'[Boot] = priority[Boot]
    BY <2>2, <2>3, <2>4
  <2>6. QED
    BY <2>1, <2>5 DEF Owned
<1>11. QED
  BY <1>1, <1>2, <1>3, <1>4, <1>5, <1>6, <1>7, <1>8, <1>9, <1>10, StepIs

LEMMA NextTypes ==
    ASSUME TypeOK, Owned, Next PROVE TypeOK'
BY StepIs, SleepTypes, WakeTypes, SetPriorityTypes, ChangesPriorityTypes, LendsPriorityTypes,
   MutexInitTypes, SetPrioCeilingTypes, CatchTypes, BlockTypes, TryLockTypes, UnlockTypes

LEMMA TypesHold == Spec => [](TypeOK /\ Owned)
<1>1. Init => TypeOK /\ Owned
  <2>1. Init => Owned
    BY TidFacts DEF Init, Owned
  <2>2. QED
    BY <2>1, InitTypes
<1>2. TypeOK /\ Owned /\ [Next]_vars => (TypeOK /\ Owned)'
  <2>1. CASE Next
    BY <2>1, NextTypes, OwnedStep
  <2>2. CASE UNCHANGED vars
    BY <2>2 DEF TypeOK, Owned, vars, sched, owners, links, asked
  <2>3. QED
    BY <2>1, <2>2
<1>3. QED
  BY <1>1, <1>2, PTL DEF Spec

\* Every variable keeps its type: the processor goes to a thread, the ready
\* lists hold threads, a priority and the priority of a mutex is one of the
\* MaxPrio there are, whatever the policies and however calls interleave.
THEOREM TypeCorrect == Spec => []TypeOK
BY TypesHold, PTL


----------------------------------------------------------------------------
(* The places of the threads.                                              *)

\* The index of the scan plays no part here: lowering it leaves it at the top.
LEMMA TopStays == \A p \in Prio : Lower(MaxPriority, p) = MaxPriority
BY MaxPrioAssumption DEF Lower, Prio, MaxPriority

QueuesFit(q, pr) == QueuesOK(Thread, Tid, q, MaxPriority, pr)

\* The ready lists q, by the priorities pr, agree with the states st of the
\* threads, of which only x runs.
Fits(q, pr, st, x) ==
    /\ QueuesFit(q, pr) /\ x \in Thread
    /\ \A t \in Thread : /\ Queued(q, t) <=> st[t] = {"READY"}
                         /\ st[t] \in {{}, {"READY"}, {"SEM"}, {"TIME"}}
                         /\ st[t] = {} <=> t = x

\* Every thread is in a ready list or waits: what OS_Schedule starts from.
LEMMA ScheduleLeaves ==
    ASSUME NEW q, NEW pr, QueuesFit(q, pr), NEW st \in [Tid -> SUBSET Flags],
           \A t \in Thread : /\ Queued(q, t) <=> st[t] = {"READY"}
                             /\ st[t] \in {{"READY"}, {"SEM"}, {"TIME"}},
           Schedule(q, st)
    PROVE  /\ Fits(sched_list', pr, status', current')
           /\ \A t \in Thread : status'[t] = {"SEM"} <=> st[t] = {"SEM"}
<1>1. PICK p \in Prio : /\ q[p] # <<>> /\ current' = Head(q[p])
                        /\ sched_list' = [q EXCEPT ![p] = Tail(@)]
                        /\ status' = [st EXCEPT ![Head(q[p])] = {}]
  BY DEF Schedule
<1> DEFINE h == Head(q[p])
           n == [q EXCEPT ![p] = Tail(@)]
<1>2. q \in [Prio -> Seq(Thread)]
  BY DEF QueuesFit, QueuesOK
<1>3. Removed(Thread, q, n, h, p) /\ h \in Thread /\ In(q[p], h)
  BY <1>1, <1>2, TakeRemoves
<1> HIDE DEF h, n
<1>4. /\ QueuesFit(n, pr)
      /\ \A x : Queued(n, x) <=> Queued(q, x) /\ x # h
  BY <1>3, RemoveKeepsQueues DEF QueuesFit
<1>5. current' = h /\ sched_list' = n /\ status' = [st EXCEPT ![h] = {}]
  BY <1>1 DEF h, n
<1>6. Queued(q, h) /\ st[h] = {"READY"}
  BY <1>3 DEF Queued
<1>7. \A t \in Thread : status'[t] = IF t = h THEN {} ELSE st[t]
  BY <1>5, TidFacts
<1>8. {"READY"} # {} /\ {"SEM"} # {} /\ {"TIME"} # {} /\ {"READY"} # {"SEM"}
  OBVIOUS
<1>9. \A t \in Thread : Queued(sched_list', t) <=> Queued(q, t) /\ t # h
  BY <1>4, <1>5
<1>10. QED
  BY <1>3, <1>4, <1>5, <1>6, <1>7, <1>8, <1>9 DEF Fits

LEMMA FitsPlaced ==
    ASSUME Fits(sched_list, priority, status, current)'
    PROVE  Placed'
<1>1. Fits(sched_list', priority', status', current')
  OBVIOUS
<1>2. QED
  BY <1>1 DEF Fits, QueuesFit, Placed

LEMMA ScheduleKeeps ==
    ASSUME NEW q, NEW pr, QueuesFit(q, pr), NEW st \in [Tid -> SUBSET Flags],
           \A t \in Thread : /\ Queued(q, t) <=> st[t] = {"READY"}
                             /\ st[t] \in {{"READY"}, {"SEM"}, {"TIME"}},
           Schedule(q, st), priority' = pr
    PROVE  Placed' /\ \A t \in Thread : status'[t] = {"SEM"} <=> st[t] = {"SEM"}
BY ScheduleLeaves, FitsPlaced

\* Every other thread is: the caller joins them before OS_Schedule.
LEMMA ReturnLeaves ==
    ASSUME NEW q, NEW pr, QueuesFit(q, pr), NEW st \in [Tid -> SUBSET Flags],
           current \in Thread,
           \A t \in Thread : t # current =>
              /\ Queued(q, t) <=> st[t] = {"READY"}
              /\ st[t] \in {{"READY"}, {"SEM"}, {"TIME"}},
           Return(q, st, pr)
    PROVE  /\ Fits(sched_list', pr, status', current')
           /\ \A t \in Thread : status'[t] = {"SEM"} <=> t # current /\ st[t] = {"SEM"}
<1> DEFINE n == AddHead(q, current, pr[current])
           sn == [st EXCEPT ![current] = {"READY"}]
<1>1. pr[current] \in Prio
  BY TidFacts DEF QueuesFit, QueuesOK
<1>2. QueuesFit(n, pr) /\ \A x : Queued(n, x) <=> Queued(q, x) \/ x = current
  BY <1>1, AddHeadKeepsQueues, TopStays DEF QueuesFit
<1>3. Schedule(n, sn) /\ sn \in [Tid -> SUBSET Flags]
  BY FlagSets DEF Return
<1>4. \A t \in Thread : sn[t] = IF t = current THEN {"READY"} ELSE st[t]
  BY TidFacts
<1> HIDE DEF n, sn
<1>5. \A t \in Thread : /\ Queued(n, t) <=> sn[t] = {"READY"}
                        /\ sn[t] \in {{"READY"}, {"SEM"}, {"TIME"}}
  BY <1>2, <1>4
<1>6. /\ Fits(sched_list', pr, status', current')
      /\ \A t \in Thread : status'[t] = {"SEM"} <=> sn[t] = {"SEM"}
  BY <1>2, <1>3, <1>5, ScheduleLeaves
<1>7. {"READY"} # {"SEM"}
  OBVIOUS
<1>8. QED
  BY <1>4, <1>6, <1>7

LEMMA ReturnKeeps ==
    ASSUME NEW q, NEW pr, QueuesFit(q, pr), NEW st \in [Tid -> SUBSET Flags],
           current \in Thread,
           \A t \in Thread : t # current =>
              /\ Queued(q, t) <=> st[t] = {"READY"}
              /\ st[t] \in {{"READY"}, {"SEM"}, {"TIME"}},
           Return(q, st, pr), priority' = pr
    PROVE  /\ Placed'
           /\ \A t \in Thread : status'[t] = {"SEM"} <=> t # current /\ st[t] = {"SEM"}
BY ReturnLeaves, FitsPlaced

\* What Placed says of the threads one by one.
LEMMA PlacedIs ==
    ASSUME TypeOK, Placed, status[current] = {}
    PROVE  /\ QueuesFit(sched_list, priority) /\ current \in Thread
           /\ status \in [Tid -> SUBSET Flags]
           /\ status[current] = {} /\ ~Queued(sched_list, current)
           /\ \A t \in Thread : t # current =>
                 /\ Queued(sched_list, t) <=> status[t] = {"READY"}
                 /\ status[t] \in {{"READY"}, {"SEM"}, {"TIME"}}
           /\ \A t \in Thread :
                 /\ TaskIsBlocked(t) => t # current /\ ~Queued(sched_list, t)
                 /\ t # current /\ ~TaskIsBlocked(t) => status[t] = {"READY"}
<1>1. current \in Thread /\ status \in [Tid -> SUBSET Flags] /\ {} # {"READY"}
  BY DEF TypeOK
<1>2. {"READY"} \cap {"SEM", "TIME"} = {} /\ {} \cap {"SEM", "TIME"} = {}
      /\ {"SEM"} \cap {"SEM", "TIME"} # {} /\ {"TIME"} \cap {"SEM", "TIME"} # {}
  OBVIOUS
<1>3. \A t \in Thread : TaskIsBlocked(t) <=> status[t] \in {{"SEM"}, {"TIME"}}
  BY <1>2 DEF Placed, TaskIsBlocked
<1>4. {"READY"} \notin {{"SEM"}, {"TIME"}} /\ {} \notin {{"SEM"}, {"TIME"}}
  OBVIOUS
<1>5. QED
  BY <1>1, <1>3, <1>4 DEF Placed, QueuesFit

\* Between calls, and at the start of one, a thread runs.
LEMMA Runs == ASSUME Placed, found = Boot PROVE status[current] = {}
BY DEF Placed

\* A thread that is in no ready list may change its priority.
LEMMA AloneMayChange ==
    ASSUME NEW q, NEW pr, QueuesFit(q, pr), NEW t \in Thread, ~Queued(q, t),
           NEW pn \in [Tid -> Prio], \A x \in Tid : x # t => pn[x] = pr[x]
    PROVE  QueuesFit(q, pn)
<1>1. \A p \in Prio : \A x \in Thread : In(q[p], x) => x # t
  BY DEF Queued
<1>2. QED
  BY <1>1, TidFacts DEF QueuesFit, QueuesOK

\* The lists of the waiters stand when no thread begins or ends to wait.
LEMMA InLineKept ==
    ASSUME InLine, TypeOK, list' = list, mutex_id' \in Int, mutex_id <= mutex_id',
           \A t \in User : status'[t] = {"SEM"} <=> status[t] = {"SEM"}
    PROVE  InLine'
<1>1. \A m \in Mutex : m \in Int
  BY TidFacts
<1>2. mutex_id \in Int
  BY DEF TypeOK
<1>3. \A m \in Mutex : m >= mutex_id' => m >= mutex_id
  BY <1>1, <1>2
<1>4. QED
  BY <1>3 DEF InLine

\* A call that only returns, and moves at most the priority of the caller.
LEMMA OnlyReturns ==
    ASSUME TypeOK, Placed, status[current] = {}, NEW pr \in [Tid -> Prio], priority' = pr,
           \A t \in Tid : t # current => pr[t] = priority[t],
           Return(sched_list, status, pr)
    PROVE  Placed' /\ \A t \in User : status'[t] = {"SEM"} <=> status[t] = {"SEM"}
<1>1. QueuesFit(sched_list, pr)
  BY PlacedIs, AloneMayChange
<1>2. Placed' /\ \A t \in Thread : status'[t] = {"SEM"} <=> t # current /\ status[t] = {"SEM"}
  BY <1>1, PlacedIs, ReturnKeeps
<1>3. status[current] # {"SEM"}
  <2>1. {} # {"SEM"}
    OBVIOUS
  <2>2. QED
    BY <2>1, PlacedIs
<1>4. QED
  BY <1>2, <1>3, TidFacts


\* The operations that neither begin nor end a wait, and leave list alone.
LEMMA SleepPlaces == ASSUME PlaceInv, Sleep PROVE Placed' /\ InLine'
<1> DEFINE st == [status EXCEPT ![current] = {"TIME"}]
<1>1. Schedule(sched_list, st) /\ priority' = priority /\ st \in [Tid -> SUBSET Flags]
      /\ list' = list /\ mutex_id' = mutex_id
  BY FlagSets DEF Sleep, PlaceInv, TypeOK
<1>2. TypeOK /\ Placed /\ InLine /\ status[current] = {}
  BY Runs DEF PlaceInv, Sleep, Call
<1>3. \A t \in Thread : st[t] = IF t = current THEN {"TIME"} ELSE status[t]
  BY <1>2, PlacedIs, TidFacts
<1> HIDE DEF st
<1>4. {"TIME"} # {"READY"} /\ {"TIME"} # {"SEM"} /\ {} # {"SEM"}
  OBVIOUS
<1>5. \A t \in Thread : /\ Queued(sched_list, t) <=> st[t] = {"READY"}
                        /\ st[t] \in {{"READY"}, {"SEM"}, {"TIME"}}
  BY <1>2, <1>3, <1>4, PlacedIs
<1>6. Placed' /\ \A t \in Thread : status'[t] = {"SEM"} <=> st[t] = {"SEM"}
  BY <1>1, <1>2, <1>5, PlacedIs, ScheduleKeeps
<1>7. \A t \in User : status'[t] = {"SEM"} <=> status[t] = {"SEM"}
  BY <1>2, <1>3, <1>4, <1>6, PlacedIs, TidFacts
<1>8. mutex_id \in Int
  BY <1>2 DEF TypeOK
<1>9. QED
  BY <1>1, <1>2, <1>6, <1>7, <1>8, InLineKept

LEMMA WakePlaces == ASSUME PlaceInv, NEW t \in User, Wake(t) PROVE Placed' /\ InLine'
<1> DEFINE st == [status EXCEPT ![t] = {"READY"}]
           q == Ready(sched_list, t, priority)
<1>1. /\ \/ found = Boot /\ Return(q, st, priority)
         \/ found # Boot /\ sched_list' = q /\ status' = st /\ current' = current
      /\ priority' = priority /\ status[t] = {"TIME"} /\ found' = found
      /\ list' = list /\ mutex_id' = mutex_id /\ st \in [Tid -> SUBSET Flags]
  BY FlagSets DEF Wake, PlaceInv, TypeOK
<1>2. /\ TypeOK /\ Placed /\ InLine /\ t \in Thread /\ t \in Tid
      /\ status \in [Tid -> SUBSET Flags] /\ current \in Thread
  BY TidFacts DEF PlaceInv, TypeOK
<1>3. \A x \in Thread : st[x] = IF x = t THEN {"READY"} ELSE status[x]
  BY <1>2, TidFacts
<1>4. priority[t] \in Prio
  BY <1>2 DEF TypeOK
<1>5. {"TIME"} # {"READY"} /\ {"TIME"} # {"SEM"} /\ {} # {"SEM"} /\ {"READY"} # {"SEM"}
      /\ {"TIME"} # {} /\ {"READY"} # {}
  OBVIOUS
<1>6. QueuesFit(sched_list, priority) /\ ~Queued(sched_list, t)
  BY <1>1, <1>2, <1>5 DEF Placed, QueuesFit
<1>7. QueuesFit(q, priority) /\ \A x : Queued(q, x) <=> Queued(sched_list, x) \/ x = t
  BY <1>2, <1>4, <1>6, AddTailKeepsQueues, TopStays DEF QueuesFit, Ready
<1> HIDE DEF st, q
<1>8. mutex_id \in Int
  BY <1>2 DEF TypeOK
<1>9. CASE found = Boot
  <2>1. status[current] = {}
    BY <1>2, <1>9, Runs
  <2>2. \A x \in Thread : x # current => /\ Queued(q, x) <=> st[x] = {"READY"}
                                         /\ st[x] \in {{"READY"}, {"SEM"}, {"TIME"}}
    BY <1>2, <1>3, <1>7, <2>1, PlacedIs
  <2>3. /\ Placed'
        /\ \A x \in Thread : status'[x] = {"SEM"} <=> x # current /\ st[x] = {"SEM"}
    BY <1>1, <1>2, <1>7, <1>9, <2>2, ReturnKeeps
  <2>4. \A x \in User : status'[x] = {"SEM"} <=> status[x] = {"SEM"}
    BY <1>1, <1>3, <1>5, <2>1, <2>3, TidFacts
  <2>5. QED
    BY <1>1, <1>2, <1>8, <2>3, <2>4, InLineKept
<1>10. CASE found # Boot
  <2>1. sched_list' = q /\ status' = st /\ current' = current
    BY <1>1, <1>10
  <2>2. \A x \in Thread :
           /\ Queued(q, x) <=> st[x] = {"READY"}
           /\ st[x] \in {{}, {"READY"}, {"SEM"}, {"TIME"}}
           /\ st[x] = {} => x = current
    BY <1>2, <1>3, <1>5, <1>7 DEF Placed
  <2>3. QueuesOK(Thread, Tid, sched_list, MaxPriority, priority)'
    BY <1>1, <1>7, <2>1 DEF QueuesFit
  <2>4. Placed'
    BY <1>1, <1>10, <2>1, <2>2, <2>3 DEF Placed
  <2>5. \A x \in User : status'[x] = {"SEM"} <=> status[x] = {"SEM"}
    BY <1>1, <1>3, <1>5, <2>1, TidFacts
  <2>6. QED
    BY <1>1, <1>2, <1>8, <2>4, <2>5, InLineKept
<1>11. QED
  BY <1>9, <1>10

LEMMA SetPriorityPlaces ==
    ASSUME PlaceInv, NEW t \in User, NEW p \in Prio, SetPriority(t, p)
    PROVE  Placed' /\ InLine'
<1> DEFINE pr == Adjust(t, p)
           n == AddTail(RemoveThread(sched_list, t, priority[t]), t, pr[t])
<1>1. TypeOK /\ Placed /\ InLine /\ status[current] = {} /\ t \in Thread /\ t \in Tid
  BY Runs, TidFacts DEF PlaceInv, SetPriority, Call
<1>2. pr \in [Tid -> Prio] /\ \A x \in Tid : x # t => pr[x] = priority[x]
  BY <1>1, AdjustIs
<1>3. \/ FindsBlocked(t, p) /\ UNCHANGED status
      \/ /\ priority' = pr
         /\ \/ t # current /\ ~TaskIsBlocked(t) /\ Return(n, status, pr)
            \/ t = current /\ Return(sched_list, status, pr)
  BY <1>1, SetPriorityIs DEF Ready
<1> HIDE DEF pr, n
<1>4. list' = list /\ mutex_id' = mutex_id /\ mutex_id \in Int
  BY <1>1 DEF SetPriority, TypeOK
<1>5. CASE priority' = pr /\ t # current /\ ~TaskIsBlocked(t) /\ Return(n, status, pr)
  <2>1. pr[t] \in Prio /\ \A x \in Thread : x # t => pr[x] = priority[x]
    BY <1>1, <1>2, TidFacts
  <2>2. QueuesFit(n, pr) /\ \A x : Queued(n, x) <=> Queued(sched_list, x) \/ x = t
    BY <1>1, <1>2, <2>1, PlacedIs, RequeueKeepsQueues, TopStays DEF QueuesFit, n
  <2>3. \A x \in Thread : x # current => /\ Queued(n, x) <=> status[x] = {"READY"}
                                         /\ status[x] \in {{"READY"}, {"SEM"}, {"TIME"}}
    BY <1>1, <1>5, <2>2, PlacedIs
  <2>4. /\ Placed'
        /\ \A x \in Thread : status'[x] = {"SEM"} <=> x # current /\ status[x] = {"SEM"}
    BY <1>1, <1>2, <1>5, <2>2, <2>3, PlacedIs, ReturnKeeps
  <2>5. status[current] # {"SEM"}
    <3>1. {} # {"SEM"}
      OBVIOUS
    <3>2. QED
      BY <1>1, <3>1, PlacedIs
  <2>6. \A x \in User : status'[x] = {"SEM"} <=> status[x] = {"SEM"}
    BY <2>4, <2>5, TidFacts
  <2>7. QED
    BY <1>1, <1>4, <2>4, <2>6, InLineKept
<1>6. CASE priority' = pr /\ t = current /\ Return(sched_list, status, pr)
  <2>1. ~Queued(sched_list, t)
    BY <1>1, <1>6, PlacedIs
  <2>2. QueuesFit(sched_list, pr)
    BY <1>1, <1>2, <2>1, PlacedIs, AloneMayChange
  <2>3. /\ Placed'
        /\ \A x \in Thread : status'[x] = {"SEM"} <=> x # current /\ status[x] = {"SEM"}
    BY <1>1, <1>2, <1>6, <2>2, PlacedIs, ReturnKeeps
  <2>4. status[current] # {"SEM"}
    <3>1. {} # {"SEM"}
      OBVIOUS
    <3>2. QED
      BY <1>1, <3>1, PlacedIs
  <2>5. \A x \in User : status'[x] = {"SEM"} <=> status[x] = {"SEM"}
    BY <2>3, <2>4, TidFacts
  <2>6. QED
    BY <1>1, <1>4, <2>3, <2>5, InLineKept
<1>7. CASE FindsBlocked(t, p) /\ UNCHANGED status
  <2>1. UNCHANGED <<sched_list, current, priority, status, list, mutex_id>> /\ found' # Boot
    BY <1>1, <1>4, <1>7, TidFacts DEF FindsBlocked
  <2>2. QED
    BY <1>1, <2>1 DEF Placed, InLine, QueuesOK, Queued
<1>8. QED
  BY <1>3, <1>5, <1>6, <1>7

LEMMA MutexInitPlaces ==
    ASSUME PlaceInv, NEW y \in NewType, MutexInit(y) PROVE Placed' /\ InLine'
<1>1. TypeOK /\ Placed /\ InLine /\ status[current] = {}
  BY Runs DEF PlaceInv, MutexInit, Call
<1>2. /\ Return(sched_list, status, priority) /\ priority' = priority
      /\ priority \in [Tid -> Prio]
      /\ mutex_id \in Int /\ mutex_id \in Mutex /\ mutex_id' = mutex_id + 1
      /\ list' = [list EXCEPT ![mutex_id] = <<>>]
  BY <1>1, MutexAssumption DEF MutexInit, TypeOK, Mutex
<1>3. list[mutex_id] = <<>>
  BY <1>1, <1>2 DEF InLine
<1>4. list' = list
  BY <1>1, <1>2, <1>3 DEF TypeOK
<1>5. /\ Placed' /\ \A t \in User : status'[t] = {"SEM"} <=> status[t] = {"SEM"}
  BY <1>1, <1>2, OnlyReturns
<1>6. QED
  BY <1>1, <1>2, <1>4, <1>5, InLineKept

LEMMA SetPrioCeilingPlaces ==
    ASSUME PlaceInv, NEW m \in Mutex, NEW c \in Ceilings, SetPrioCeiling(m, c)
    PROVE  Placed' /\ InLine'
<1>1. TypeOK /\ Placed /\ InLine /\ status[current] = {}
  BY Runs DEF PlaceInv, SetPrioCeiling, Call
<1>2. /\ Return(sched_list, status, priority) /\ priority' = priority
      /\ priority \in [Tid -> Prio]
      /\ mutex_id \in Int /\ mutex_id' = mutex_id /\ list' = list
  BY <1>1 DEF SetPrioCeiling, TypeOK
<1>3. QED
  BY <1>1, <1>2, OnlyReturns, InLineKept

LEMMA CatchPlaces == ASSUME PlaceInv, NEW m \in Mutex, Catch(m) PROVE Placed' /\ InLine'
<1>1. TypeOK /\ Placed /\ InLine /\ status[current] = {}
  BY Runs DEF PlaceInv, Catch, Uses, Call
<1>2. PICK pr \in [Tid -> Prio] :
        /\ Return(sched_list, status, pr) /\ priority' = pr
        /\ \A t \in Tid : t # current => pr[t] = priority[t]
        /\ mutex_id' = mutex_id /\ list' = list
  BY <1>1, CatchIs
<1>3. mutex_id \in Int
  BY <1>1 DEF TypeOK
<1>4. QED
  BY <1>1, <1>2, <1>3, OnlyReturns, InLineKept

LEMMA TryLockPlaces == ASSUME PlaceInv, NEW m \in Mutex, TryLock(m) PROVE Placed' /\ InLine'
<1>1. TypeOK /\ Placed /\ InLine /\ status[current] = {}
  BY Runs DEF PlaceInv, TryLock, Uses, Call
<1>2. /\ Return(sched_list, status, priority) /\ priority' = priority
      /\ priority \in [Tid -> Prio]
      /\ mutex_id \in Int /\ mutex_id' = mutex_id /\ list' = list
  BY <1>1 DEF TryLock, TypeOK
<1>3. QED
  BY <1>1, <1>2, OnlyReturns, InLineKept


\* The caller, who waits for nothing, joins the line of m.
LEMMA JoinsTheLine ==
    ASSUME TypeOK, Placed, InLine, NEW m \in Mutex, Call, m < mutex_id,
           list' = Enlist(m), mutex_id' = mutex_id,
           \A t \in User : status'[t] = {"SEM"} <=> status[t] = {"SEM"} \/ t = current
    PROVE  InLine'
<1>1. current \in User
  BY CallerIsUser
<1>2. PICK s \in Seq(User) :
         /\ Enlist(m) = [list EXCEPT ![m] = s]
         /\ \A x : In(s, x) <=> In(list[m], x) \/ x = current
         /\ Distinct(list[m]) /\ ~In(list[m], current) => Distinct(s)
  BY EnlistIs
<1>3. \A k \in Mutex : list'[k] = IF k = m THEN s ELSE list[k]
  BY <1>2 DEF TypeOK
<1>4. \A k \in Mutex : ~In(list[k], current)
  <2>1. {} # {"SEM"} /\ status[current] = {}
    BY Runs DEF Call
  <2>2. QED
    BY <1>1, <2>1 DEF InLine
<1>5. m \in Int /\ mutex_id \in Int
  BY TidFacts DEF TypeOK
<1>6. \A t \in User : status'[t] = {"SEM"} <=> \E k \in Mutex : In(list'[k], t)
  BY <1>1, <1>2, <1>3 DEF InLine
<1>7. \A k, l \in Mutex, t \in User : In(list'[k], t) /\ In(list'[l], t) => k = l
  BY <1>1, <1>2, <1>3, <1>4 DEF InLine
<1>8. \A k \in Mutex : Distinct(list'[k]) /\ (k >= mutex_id' => list'[k] = <<>>)
  BY <1>2, <1>3, <1>4, <1>5 DEF InLine
<1>9. QED
  BY <1>6, <1>7, <1>8 DEF InLine

LEMMA BlockPlaces == ASSUME PlaceInv, NEW m \in Mutex, Block(m) PROVE Placed' /\ InLine'
<1> DEFINE pr == BlockPriorities(m)
           owner == in_thread[m]
           st == [status EXCEPT ![current] = {"SEM"}]
           so == [st EXCEPT ![owner] = {"READY"}]
           n == AddTail(RemoveThread(sched_list, owner, priority[owner]), owner, pr[owner])
<1>1. TypeOK /\ Placed /\ InLine /\ status[current] = {} /\ Owned
  BY Runs DEF PlaceInv, Block, Uses, Call
<1>2. /\ Call /\ m < mutex_id /\ list' = Enlist(m) /\ mutex_id' = mutex_id
      /\ pr \in [Tid -> Prio] /\ owner \in Tid
      /\ \/ /\ priority' = pr
            /\ \/ Inherits(m) /\ ~TaskIsBlocked(owner) /\ Schedule(n, so)
               \/ ~Inherits(m) /\ Schedule(sched_list, st)
         \/ Inherits(m) /\ status' = st /\ FindsBlocked(owner, priority[current])
  BY <1>1, BlockIs DEF Uses, Ready
<1>3. Inherits(m) => owner \in User /\ owner \in Thread /\ owner # current
  BY <1>1, InheritorIsThread, TidFacts
<1>4. \A x \in Tid : (Inherits(m) /\ x = owner) \/ pr[x] = priority[x]
  BY <1>1 DEF BlockPriorities, TypeOK
<1>5. current \in User /\ current \in Thread
  BY <1>1, <1>2, CallerIsUser, TidFacts
<1>6. st \in [Tid -> SUBSET Flags] /\ so \in [Tid -> SUBSET Flags]
  BY <1>1, FlagSets DEF TypeOK
<1>7. \A x \in Thread : st[x] = IF x = current THEN {"SEM"} ELSE status[x]
  BY <1>1, PlacedIs, TidFacts
<1>8. {"READY"} # {"SEM"} /\ {} # {"SEM"} /\ {"SEM"} # {"TIME"}
  OBVIOUS
<1>9. /\ Placed'
      /\ \A t \in Thread : status'[t] = {"SEM"} <=> st[t] = {"SEM"}
  <2>1. CASE priority' = pr /\ Inherits(m) /\ ~TaskIsBlocked(owner) /\ Schedule(n, so)
    <3>1. status[owner] = {"READY"} /\ owner \in Thread /\ owner # current
      BY <1>1, <1>3, <2>1, PlacedIs
    <3>2. so = st
      BY <1>6, <1>7, <3>1 DEF so
    <3>3. pr[owner] \in Prio /\ \A x \in Thread : x # owner => pr[x] = priority[x]
      BY <1>2, <1>4, TidFacts
    <3> HIDE DEF st, so, pr, owner
    <3>4. QueuesFit(n, pr) /\ \A x : Queued(n, x) <=> Queued(sched_list, x) \/ x = owner
      BY <1>1, <1>2, <3>1, <3>3, PlacedIs, RequeueKeepsQueues, TopStays DEF QueuesFit, n
    <3> HIDE DEF n
    <3>5. \A x \in Thread : /\ Queued(n, x) <=> st[x] = {"READY"}
                            /\ st[x] \in {{"READY"}, {"SEM"}, {"TIME"}}
      BY <1>1, <1>7, <1>8, <3>1, <3>4, PlacedIs
    <3>6. Schedule(n, st)
      BY <2>1, <3>2
    <3>7. QED
      BY <1>6, <2>1, <3>4, <3>5, <3>6, ScheduleKeeps
  <2>2. \A x \in Thread : /\ Queued(sched_list, x) <=> st[x] = {"READY"}
                          /\ st[x] \in {{"READY"}, {"SEM"}, {"TIME"}}
    BY <1>1, <1>7, <1>8, PlacedIs
  <2>3. CASE priority' = pr /\ ~Inherits(m) /\ Schedule(sched_list, st)
    <3>1. QueuesFit(sched_list, pr)
      BY <1>1, <2>3, PlacedIs DEF BlockPriorities
    <3> HIDE DEF st, pr
    <3>2. QED
      BY <1>6, <2>2, <2>3, <3>1, ScheduleKeeps
  <2>4. CASE Inherits(m) /\ status' = st /\ FindsBlocked(owner, priority[current])
    <3>1. UNCHANGED <<sched_list, current, priority>> /\ status' = st /\ found' # Boot
      BY <1>3, <2>4, TidFacts DEF FindsBlocked
    <3>2. {"READY"} # {} /\ {"SEM"} # {} /\ {"TIME"} # {}
      OBVIOUS
    <3> HIDE DEF st
    <3>3. QED
      BY <1>1, <2>2, <3>1, <3>2 DEF Placed, QueuesOK, Queued
  <2>5. QED
    BY <1>2, <2>1, <2>3, <2>4
<1>10. \A t \in User : status'[t] = {"SEM"} <=> status[t] = {"SEM"} \/ t = current
  BY <1>7, <1>8, <1>9, TidFacts
<1>11. QED
  BY <1>1, <1>2, <1>9, <1>10, JoinsTheLine

\* The first in the line of m is woken and waits for nothing else.
LEMMA LeavesTheLine ==
    ASSUME TypeOK, InLine, NEW m \in Mutex, list[m] # <<>>,
           list' = [list EXCEPT ![m] = Tail(list[m])], mutex_id' = mutex_id,
           \A t \in User :
              status'[t] = {"SEM"} <=> status[t] = {"SEM"} /\ t # Head(list[m])
    PROVE  InLine'
<1> DEFINE h == Head(list[m])
           s == Tail(list[m])
<1>1. list \in [Mutex -> Seq(User)] /\ list[m] \in Seq(User) /\ Distinct(list[m])
  BY DEF TypeOK, InLine
<1>2. /\ s \in Seq(User) /\ h \in User /\ In(list[m], h)
      /\ \A x : In(s, x) => In(list[m], x)
      /\ \A x : In(list[m], x) => In(s, x) \/ x = h
      /\ Distinct(s) /\ ~In(s, h)
  BY <1>1, TailHolds
<1> HIDE DEF s, h
<1>3. list' = [list EXCEPT ![m] = s]
  BY DEF s
<1>4. \A k \in Mutex : list'[k] = IF k = m THEN s ELSE list[k]
  BY <1>1, <1>3
<1>5. \A t \in User : status'[t] = {"SEM"} <=> status[t] = {"SEM"} /\ t # h
  BY DEF h
<1>6. \A t \in User : status'[t] = {"SEM"} <=> \E k \in Mutex : In(list'[k], t)
  BY <1>2, <1>4, <1>5 DEF InLine
<1>7. \A k, l \in Mutex, t \in User : In(list'[k], t) /\ In(list'[l], t) => k = l
  BY <1>2, <1>4 DEF InLine
<1>8. \A k \in Mutex : Distinct(list'[k]) /\ (k >= mutex_id' => list'[k] = <<>>)
  BY <1>2, <1>4 DEF InLine
<1>9. QED
  BY <1>6, <1>7, <1>8 DEF InLine

LEMMA UnlockPlaces == ASSUME PlaceInv, NEW m \in Mutex, Unlock(m) PROVE Placed' /\ InLine'
<1> DEFINE pr == UnlockPriorities(m)
           t == Head(list[m])
           q == AddTail(sched_list, t, pr[t])
           st == [status EXCEPT ![t] = {"READY"}]
<1>1. TypeOK /\ Placed /\ InLine /\ status[current] = {}
  BY Runs DEF PlaceInv, Unlock, Call
<1>2. /\ Call /\ mutex_id' = mutex_id /\ priority' = pr /\ pr \in [Tid -> Prio]
      /\ \A x \in Tid : x # current => pr[x] = priority[x]
      /\ \/ /\ list[m] # <<>> /\ t \in User
            /\ list' = [list EXCEPT ![m] = Tail(list[m])]
            /\ Return(q, st, pr)
         \/ list[m] = <<>> /\ list' = list /\ Return(sched_list, status, pr)
  BY <1>1, UnlockIs, UnlockPrioritiesIs DEF Ready
<1>3. mutex_id \in Int
  BY <1>1 DEF TypeOK
<1> HIDE DEF pr
<1>4. CASE list[m] # <<>>
  <2>1. t \in User /\ t \in Thread /\ t \in Tid
    BY <1>2, <1>4, TidFacts
  <2>2. list[m] \in Seq(User)
    BY <1>1 DEF TypeOK
  <2>3. status[t] = {"SEM"}
    BY <1>1, <1>4, <2>1, <2>2, ListTypes DEF InLine
  <2>4. {"SEM"} # {} /\ {"SEM"} # {"READY"}
    OBVIOUS
  <2>5. t # current
    BY <1>1, <2>3, <2>4, PlacedIs
  <2>6. QueuesFit(sched_list, pr)
    BY <1>1, <1>2, PlacedIs, AloneMayChange
  <2>7. pr[t] \in Prio /\ st \in [Tid -> SUBSET Flags]
    BY <1>1, <1>2, <2>1, FlagSets DEF TypeOK
  <2>8. \A x \in Thread : st[x] = IF x = t THEN {"READY"} ELSE status[x]
    BY <1>1, <2>1, PlacedIs, TidFacts
  <2> HIDE DEF t
  <2>9. QueuesFit(q, pr) /\ \A x : Queued(q, x) <=> Queued(sched_list, x) \/ x = t
    BY <2>1, <2>6, <2>7, AddTailKeepsQueues, TopStays DEF QueuesFit
  <2> HIDE DEF q, st
  <2>10. \A x \in Thread : x # current => /\ Queued(q, x) <=> st[x] = {"READY"}
                                          /\ st[x] \in {{"READY"}, {"SEM"}, {"TIME"}}
    BY <1>1, <2>8, <2>9, PlacedIs
  <2>11. Return(q, st, pr) /\ priority' = pr /\ current \in Thread
    BY <1>1, <1>2, <1>4, PlacedIs
  <2>12. /\ Placed'
         /\ \A x \in Thread : status'[x] = {"SEM"} <=> x # current /\ st[x] = {"SEM"}
    BY <2>7, <2>9, <2>10, <2>11, ReturnKeeps
  <2>13. \A x \in User : status'[x] = {"SEM"} <=> status[x] = {"SEM"} /\ x # Head(list[m])
    BY <1>1, <2>4, <2>8, <2>12, PlacedIs, TidFacts DEF t
  <2>14. list' = [list EXCEPT ![m] = Tail(list[m])]
    BY <1>2, <1>4
  <2>15. InLine'
    BY <1>1, <1>2, <1>4, <2>13, <2>14, LeavesTheLine
  <2>16. QED
    BY <2>12, <2>15
<1>5. CASE list[m] = <<>>
  BY <1>1, <1>2, <1>3, <1>5, OnlyReturns, InLineKept
<1>6. QED
  BY <1>4, <1>5

\* The rest of a call that has found a thread blocked.
LEMMA ChangesIs ==
    ASSUME PlaceInv, NEW pr \in [Tid -> Prio], Changes(pr),
           \A x \in Tid : x # found => pr[x] = priority[x]
    PROVE  /\ found \in User /\ found \in Thread /\ found # current /\ current \in Thread
           /\ priority' = pr /\ list' = list /\ mutex_id' = mutex_id /\ mutex_id \in Int
           /\ overtaken' = overtaken /\ found' = Boot
           /\ status \in [Tid -> SUBSET Flags]
           /\ QueuesFit(sched_list, priority)
           /\ overtaken = Boot => QueuesFit(sched_list, pr)
<1>1. TypeOK /\ Placed /\ Asking
  BY DEF PlaceInv
<1>2. found \in User /\ found \in Thread /\ found # current
  BY <1>1, TidFacts DEF Changes, TypeOK, Asking
<1>3. QueuesFit(sched_list, priority)
  BY <1>1 DEF Placed, QueuesFit
<1>4. ASSUME overtaken = Boot PROVE QueuesFit(sched_list, pr)
  <2>1. TaskIsBlocked(found)
    BY <1>1, <1>4 DEF Asking, Changes
  <2>2. status[found] # {"READY"}
    <3>1. {"READY"} \cap {"SEM", "TIME"} = {}
      OBVIOUS
    <3>2. QED
      BY <2>1, <3>1 DEF TaskIsBlocked
  <2>3. ~Queued(sched_list, found)
    BY <1>1, <1>2, <2>2 DEF Placed
  <2>4. QED
    BY <1>2, <1>3, <2>3, AloneMayChange
<1>5. QED
  BY <1>1, <1>2, <1>3, <1>4 DEF Changes, TypeOK

\* When the thread was overtaken, the lists fit the priorities there were.
LEMMA StoppedPlaces ==
    ASSUME PlaceInv, overtaken # Boot, overtaken' = overtaken,
           Fits(sched_list', priority, status', current'), InLine',
           \A x \in Tid : x # found => priority'[x] = priority[x]
    PROVE  OnePlace'
<1>1. overtaken' = found
  BY DEF PlaceInv, Asking
<1>2. /\ \A t \in Thread, p \in Prio : In(sched_list'[p], t) => priority[t] = p
      /\ \A p \in Prio : Distinct(sched_list'[p])
      /\ \A t \in Thread : Queued(sched_list', t) <=> status'[t] = {"READY"}
  BY DEF Fits, QueuesFit, QueuesOK
<1>3. \A t \in Thread \ {overtaken'}, p \in Prio :
         In(sched_list'[p], t) => priority'[t] = p
  BY <1>1, <1>2, TidFacts
<1>4. QED
  BY <1>2, <1>3 DEF OnePlace, InLine

LEMMA ChangesPriorityPlaces ==
    ASSUME PlaceInv, ChangesPriority
    PROVE  /\ InLine' /\ overtaken' = overtaken /\ found' = Boot
           /\ overtaken = Boot => Placed'
           /\ overtaken # Boot => OnePlace'
<1> DEFINE pr == Adjust(found, wanted)
<1>1. TypeOK /\ Placed /\ InLine /\ status[current] = {} /\ found \in User /\ wanted \in Prio
  BY DEF PlaceInv, ChangesPriority, Changes, TypeOK
<1>2. /\ pr \in [Tid -> Prio] /\ Changes(pr) /\ Return(sched_list, status, pr)
      /\ \A x \in Tid : x # found => pr[x] = priority[x]
  BY <1>1, AdjustIs DEF ChangesPriority
<1> HIDE DEF pr
<1>3. /\ found \in Thread /\ found # current /\ current \in Thread
      /\ priority' = pr /\ list' = list /\ mutex_id' = mutex_id /\ mutex_id \in Int
      /\ overtaken' = overtaken /\ found' = Boot
      /\ status \in [Tid -> SUBSET Flags]
      /\ QueuesFit(sched_list, priority)
      /\ overtaken = Boot => QueuesFit(sched_list, pr)
  BY <1>2, ChangesIs
<1>4. \A t \in Thread : t # current => /\ Queued(sched_list, t) <=> status[t] = {"READY"}
                                      /\ status[t] \in {{"READY"}, {"SEM"}, {"TIME"}}
  BY <1>1, PlacedIs
<1>5. Return(sched_list, status, priority)
  <2>1. pr[current] = priority[current]
    BY <1>2, <1>3, TidFacts
  <2>2. QED
    BY <1>2, <2>1 DEF Return
<1>6. /\ Fits(sched_list', priority, status', current')
      /\ \A t \in Thread : status'[t] = {"SEM"} <=> t # current /\ status[t] = {"SEM"}
  BY <1>3, <1>4, <1>5, ReturnLeaves
<1>7. overtaken = Boot => Placed'
  BY <1>2, <1>3, <1>4, ReturnKeeps
<1>8. {} # {"SEM"}
  OBVIOUS
<1>9. InLine'
  BY <1>1, <1>3, <1>6, <1>8, InLineKept, TidFacts
<1>10. QED
  BY <1>2, <1>3, <1>6, <1>7, <1>9, StoppedPlaces

LEMMA LendsPriorityPlaces ==
    ASSUME PlaceInv, LendsPriority
    PROVE  /\ InLine' /\ overtaken' = overtaken /\ found' = Boot
           /\ overtaken = Boot => Placed'
           /\ overtaken # Boot => OnePlace'
<1> DEFINE pr == [priority EXCEPT ![found] = wanted]
<1>1. TypeOK /\ Placed /\ InLine /\ status[current] = {"SEM"}
  BY DEF PlaceInv, LendsPriority
<1>2. /\ pr \in [Tid -> Prio] /\ Changes(pr) /\ Schedule(sched_list, status)
      /\ \A x \in Tid : x # found => pr[x] = priority[x]
  BY <1>1 DEF LendsPriority, TypeOK
<1> HIDE DEF pr
<1>3. /\ priority' = pr /\ list' = list /\ mutex_id' = mutex_id /\ mutex_id \in Int
      /\ overtaken' = overtaken /\ found' = Boot
      /\ status \in [Tid -> SUBSET Flags]
      /\ QueuesFit(sched_list, priority)
      /\ overtaken = Boot => QueuesFit(sched_list, pr)
  BY <1>2, ChangesIs
<1>4. {"SEM"} # {}
  OBVIOUS
<1>5. \A t \in Thread : /\ Queued(sched_list, t) <=> status[t] = {"READY"}
                        /\ status[t] \in {{"READY"}, {"SEM"}, {"TIME"}}
  BY <1>1, <1>4 DEF Placed
<1>6. /\ Fits(sched_list', priority, status', current')
      /\ \A t \in Thread : status'[t] = {"SEM"} <=> status[t] = {"SEM"}
  BY <1>2, <1>3, <1>5, ScheduleLeaves
<1>7. overtaken = Boot => Placed'
  BY <1>2, <1>3, <1>5, ScheduleKeeps
<1>8. InLine'
  BY <1>1, <1>3, <1>6, InLineKept, TidFacts
<1>9. QED
  BY <1>2, <1>3, <1>6, <1>7, <1>8, StoppedPlaces

LEMMA AskingStep == ASSUME PlaceInv, Next, found' # Boot PROVE Asking'
<1>1. TypeOK /\ Placed /\ Asking /\ Owned /\ current \in Tid
  BY TidFacts DEF PlaceInv, TypeOK
<1>2. ASSUME NEW t \in User, Wake(t) PROVE Asking'
  <2>1. /\ found # Boot /\ current' = current /\ status[t] = {"TIME"}
        /\ status' = [status EXCEPT ![t] = {"READY"}]
        /\ overtaken' = IF t = found THEN t ELSE Boot
        /\ UNCHANGED <<found, wanted, list, in_thread, priority, prio>>
    BY <1>2 DEF Wake, owners
  <2>2. {"TIME"} # {} /\ {"TIME"} # {"SEM"}
    OBVIOUS
  <2>3. t # current /\ status \in [Tid -> SUBSET Flags] /\ current \in Tid /\ found \in Tid
        /\ t # Boot
    BY <1>1, <2>1, <2>2, TidFacts DEF Asking, TypeOK
  <2>4. status'[current] = status[current] /\ (t # found => status'[found] = status[found])
    BY <2>1, <2>3
  <2>5. overtaken' = Boot => TaskIsBlocked(found)'
    BY <1>1, <1>2, <2>1, <2>3, <2>4 DEF Asking, TaskIsBlocked, Wake
  <2>6. QED
    BY <1>1, <2>1, <2>3, <2>4, <2>5 DEF Asking
<1>3. ASSUME NEW t \in User, NEW p \in Prio, SetPriority(t, p) PROVE Asking'
  <2>1. found = Boot /\ overtaken = Boot /\ current # Idle /\ status[current] = {}
    BY <1>1, <1>3, Runs DEF SetPriority, Call
  <2>2. t # current /\ FindsBlocked(t, p) /\ UNCHANGED status
    BY <1>1, <1>3, <2>1, SetPriorityIs DEF asked
  <2>3. {} # {"SEM"}
    OBVIOUS
  <2>4. QED
    BY <2>1, <2>2, <2>3 DEF Asking, FindsBlocked, TaskIsBlocked
<1>4. ASSUME NEW m \in Mutex, Block(m) PROVE Asking'
  <2> DEFINE owner == in_thread[m]
  <2>1. /\ Uses(m) /\ Call /\ found = Boot /\ overtaken = Boot /\ current # Idle
        /\ list' = Enlist(m)
    BY <1>4 DEF Block, Uses, Call
  <2>2. /\ Inherits(m) /\ status' = [status EXCEPT ![current] = {"SEM"}]
        /\ FindsBlocked(owner, priority[current]) /\ in_thread' = in_thread
        /\ prio' = [prio EXCEPT ![m] = priority[current]]
    BY <1>1, <1>4, <2>1, BlockIs DEF asked
  <2>3. owner \in User /\ owner # current /\ owner \in Tid
    BY <1>1, <2>2, InheritorIsThread, TidFacts
  <2>4. status'[current] = {"SEM"} /\ status'[owner] = status[owner]
    BY <1>1, <2>2, <2>3 DEF TypeOK
  <2>5. In(list'[m], current)
    <3>1. PICK s \in Seq(User) : /\ Enlist(m) = [list EXCEPT ![m] = s]
                                 /\ \A x : In(s, x) <=> In(list[m], x) \/ x = current
      BY <1>1, <2>1, EnlistIs
    <3>2. QED
      BY <1>1, <2>1, <3>1 DEF TypeOK
  <2>6. prio'[m] = priority[current]
    BY <1>1, <2>2 DEF TypeOK
  <2> HIDE DEF owner
  <2>7. /\ found' = owner /\ wanted' = priority[current] /\ overtaken' = Boot
        /\ current' = current /\ priority' = priority /\ in_thread'[m] = owner
    BY <2>1, <2>2 DEF FindsBlocked, owner
  <2>8. status'[found'] \cap {"SEM", "TIME"} # {}
    BY <2>2, <2>4, <2>7 DEF FindsBlocked, TaskIsBlocked
  <2>9. \E k \in Mutex : /\ In(list'[k], current') /\ in_thread'[k] = found'
                         /\ wanted' = priority'[current'] /\ wanted' = prio'[k]
    BY <2>5, <2>6, <2>7
  <2>10. QED
    BY <2>1, <2>3, <2>4, <2>7, <2>8, <2>9 DEF Asking, TaskIsBlocked
<1>5. QED
  BY <1>2, <1>3, <1>4, StepIs DEF Sleep, MutexInit, SetPrioCeiling, Catch, TryLock, Unlock,
     ChangesPriority, LendsPriority, Changes, Uses, Call, asked

LEMMA PlacesStep == ASSUME PlaceInv, Next PROVE PlaceInv' \/ Ended'
<1>1. TypeOK' /\ Owned'
  BY NextTypes, OwnedStep DEF PlaceInv
<1>2. CASE ChangesPriority \/ LendsPriority
  <2>1. /\ InLine' /\ overtaken' = overtaken /\ found' = Boot
        /\ overtaken = Boot => Placed'
        /\ overtaken # Boot => OnePlace'
    BY <1>2, ChangesPriorityPlaces, LendsPriorityPlaces
  <2>2. overtaken = Boot => Asking'
    BY <2>1 DEF Asking
  <2>3. QED
    BY <1>1, <2>1, <2>2 DEF PlaceInv, Ended
<1>3. CASE ~(ChangesPriority \/ LendsPriority)
  <2>1. Placed' /\ InLine'
    <3>1. Sleep => Placed' /\ InLine'
      BY SleepPlaces
    <3>2. ASSUME NEW t \in User, Wake(t) PROVE Placed' /\ InLine'
      BY <3>2, WakePlaces
    <3>3. ASSUME NEW t \in User, NEW p \in Prio, SetPriority(t, p) PROVE Placed' /\ InLine'
      BY <3>3, SetPriorityPlaces
    <3>4. ASSUME NEW y \in NewType, MutexInit(y) PROVE Placed' /\ InLine'
      BY <3>4, MutexInitPlaces
    <3>5. ASSUME NEW m \in Mutex,
                 \/ \E c \in Ceilings : SetPrioCeiling(m, c)
                 \/ Catch(m) \/ Block(m) \/ TryLock(m) \/ Unlock(m)
          PROVE  Placed' /\ InLine'
      BY <3>5, SetPrioCeilingPlaces, CatchPlaces, BlockPlaces, TryLockPlaces, UnlockPlaces
    <3>6. QED
      BY <1>3, <3>1, <3>2, <3>3, <3>4, <3>5, StepIs
  <2>2. found' = Boot => overtaken' = Boot
    <3>1. ASSUME NEW t \in User, Wake(t) PROVE found' = Boot => overtaken' = Boot
      <4>1. overtaken' = (IF t = found THEN t ELSE Boot) /\ found' = found
        BY <3>1 DEF Wake
      <4>2. QED
        BY <4>1
    <3>2. ASSUME NEW t \in User, NEW p \in Prio, SetPriority(t, p)
          PROVE  overtaken' = Boot
      BY <3>2 DEF SetPriority, Call, FindsBlocked, asked
    <3>3. ASSUME NEW m \in Mutex, Block(m) PROVE overtaken' = Boot
      BY <3>3 DEF Block, Uses, Call, FindsBlocked, asked
    <3>4. QED
      BY <1>3, <3>1, <3>2, <3>3, StepIs DEF Sleep, MutexInit, SetPrioCeiling, Catch,
         TryLock, Unlock, Uses, Call, asked
  <2>3. Asking'
    BY <2>2, AskingStep DEF Asking
  <2>4. QED
    BY <1>1, <2>1, <2>3 DEF PlaceInv
<1>4. QED
  BY <1>2, <1>3

\* There is no step after that.
LEMMA EndedStays == Ended /\ [Next]_vars => UNCHANGED vars
<1> SUFFICES ASSUME Ended, Next PROVE FALSE
  OBVIOUS
<1>1. overtaken # Boot /\ found = Boot
  BY DEF Ended
<1>2. QED
  BY <1>1, StepIs DEF Sleep, Wake, SetPriority, ChangesPriority, LendsPriority, Changes,
     MutexInit, SetPrioCeiling, Catch, Block, TryLock, Unlock, Uses, Call

LEMMA PlacesInit == Init => PlaceInv
<1> SUFFICES ASSUME Init PROVE PlaceInv
  OBVIOUS
<1>1. TypeOK
  BY InitTypes
<1>2. \A x : ~In(<<>>, x)
  BY EmptySeq, EmptyHoldsNothing
<1>3. Distinct(<<>>)
  BY DEF Distinct
<1>4. \A p \in Prio : sched_list[p] = <<>>
  BY DEF Init, EmptyQueues
<1>5. \A x : ~Queued(sched_list, x)
  BY <1>2, <1>4 DEF Queued
<1>6. \A t \in Thread : status[t] = IF t = Idle THEN {} ELSE {"TIME"}
  BY TidFacts DEF Init, Thread
<1>7. {} # {"TIME"} /\ {"READY"} # {"TIME"} /\ {"SEM"} # {"TIME"} /\ {} # {"READY"}
      /\ {} # {"SEM"}
  OBVIOUS
<1>8. QueuesOK(Thread, Tid, sched_list, MaxPriority, priority)
  BY <1>1, <1>2, <1>3, <1>4, TidFacts, PrioInt DEF QueuesOK, TypeOK
<1>9. Placed
  <2>1. current = Idle
    BY DEF Init
  <2>2. QED
    BY <1>5, <1>6, <1>7, <1>8, <2>1, TidFacts DEF Placed
<1>10. InLine
  <2>1. \A m \in Mutex : list[m] = <<>>
    BY DEF Init
  <2>2. \A t \in User : status[t] # {"SEM"}
    BY <1>6, <1>7, TidFacts
  <2>3. QED
    BY <1>2, <1>3, <2>1, <2>2 DEF InLine
<1>11. Owned
  BY TidFacts DEF Init, Owned
<1>12. Asking
  BY DEF Init, Asking
<1>13. QED
  BY <1>1, <1>9, <1>10, <1>11, <1>12 DEF PlaceInv

\* Steps that change nothing.
LEMMA PlacesKept ==
    ASSUME UNCHANGED vars
    PROVE  (PlaceInv => PlaceInv') /\ (Ended => Ended')
<1>1. PlaceInv => PlaceInv'
  BY DEF PlaceInv, TypeOK, Placed, Asking, InLine, Owned, vars, sched, owners, links,
     asked, QueuesOK, Queued, TaskIsBlocked
<1>2. Ended => Ended'
  BY DEF Ended, TypeOK, Owned, OnePlace, vars, sched, owners, links, asked, Queued
<1>3. QED
  BY <1>1, <1>2

LEMMA PlacesHold == Spec => [](PlaceInv \/ Ended)
<1>1. (PlaceInv \/ Ended) /\ [Next]_vars => (PlaceInv \/ Ended)'
  BY PlacesStep, PlacesKept, EndedStays
<1>2. QED
  BY <1>1, PlacesInit, PTL DEF Spec

\* A ready thread is in the ready list of its own priority and in no other
\* one, and a thread waits for one mutex at most: the inheritance of a
\* priority and SYS_SetPriority move an owner from list to list when it is
\* ready, and leave it alone when it runs or waits (mutex.c:307-347).  The
\* exception is the thread whose timeout ends between the test and the change
\* (mutex.c:335-342, syscall.c:219-226).
THEOREM OnePlaceCorrect == Spec => []OnePlace
<1>1. PlaceInv \/ Ended => OnePlace
  BY DEF Ended, PlaceInv, Placed, InLine, QueuesOK, OnePlace
<1>2. QED
  BY <1>1, PlacesHold, PTL


----------------------------------------------------------------------------
(* Exclusion.                                                              *)

\* Whoever takes a mutex that is free puts it on its own stack only.
LEMMA TakesHeld ==
    ASSUME TypeOK, MutualExclusion, NEW m \in Mutex, Takes(m)
    PROVE  /\ current \in Thread /\ current \in User
           /\ \A t \in Thread : ~In(held[t], m)
           /\ \A t \in Thread : held'[t] = IF t = current THEN <<m>> \o held[t] ELSE held[t]
           /\ \A t \in Thread, k \in Mutex :
                 In(held'[t], k) <=> In(held[t], k) \/ (t = current /\ k = m)
           /\ \A k \in Mutex : counter'[k] = IF k = m THEN 0 ELSE counter[k]
           /\ m < mutex_id
<1>1. current \in Thread /\ current \in User
  BY CallerIsUser, TidFacts DEF Takes, Uses
<1>2. \A t \in Thread : ~In(held[t], m)
  BY DEF Takes, MutualExclusion
<1>3. held \in [Tid -> Seq(Mutex)] /\ counter \in [Mutex -> {0, 1}]
  BY DEF TypeOK
<1>4. held' = [held EXCEPT ![current] = <<m>> \o held[current]]
      /\ counter' = [counter EXCEPT ![m] = 0] /\ m < mutex_id
  BY DEF Takes, Uses
<1>5. \A t \in Thread : held'[t] = IF t = current THEN <<m>> \o held[t] ELSE held[t]
  BY <1>3, <1>4, TidFacts
<1>6. \A k \in Mutex : In(<<m>> \o held[current], k) <=> In(held[current], k) \/ k = m
  BY <1>1, <1>3, ConsHolds, TidFacts
<1>7. \A k \in Mutex : counter'[k] = IF k = m THEN 0 ELSE counter[k]
  BY <1>3, <1>4
<1>8. QED
  BY <1>1, <1>2, <1>4, <1>5, <1>6, <1>7

LEMMA TakesExcludes ==
    ASSUME TypeOK, MutualExclusion, HeldOnce, NEW m \in Mutex, Takes(m),
           list' = list, mutex_id' = mutex_id
    PROVE  MutualExclusion' /\ HeldOnce'
<1>1. /\ current \in Thread
      /\ \A t \in Thread : ~In(held[t], m)
      /\ \A t \in Thread : held'[t] = IF t = current THEN <<m>> \o held[t] ELSE held[t]
      /\ \A t \in Thread, k \in Mutex :
            In(held'[t], k) <=> In(held[t], k) \/ (t = current /\ k = m)
      /\ \A k \in Mutex : counter'[k] = IF k = m THEN 0 ELSE counter[k]
      /\ m < mutex_id
  BY TakesHeld
<1>2. held[current] \in Seq(Mutex) /\ ~In(held[current], m)
  BY <1>1, TidFacts DEF TypeOK
<1>3. Distinct(<<m>> \o held[current])
  BY <1>1, <1>2, ConsHolds DEF HeldOnce
<1>4. HeldOnce'
  BY <1>1, <1>3 DEF HeldOnce
<1>5. \A k \in Mutex, t, u \in Thread : In(held'[t], k) /\ In(held'[u], k) => t = u
  BY <1>1 DEF MutualExclusion
<1>6. \A k \in Mutex : counter'[k] = 1 => /\ k # m /\ counter[k] = 1
                                          /\ list'[k] = <<>>
                                          /\ \A t \in Thread : ~In(held'[t], k)
  BY <1>1 DEF MutualExclusion
<1>7. QED
  BY <1>4, <1>5, <1>6 DEF MutualExclusion

\* A mutex that does not exist yet belongs to nobody, and nobody waits for it.
LEMMA NewMutexIsFree ==
    ASSUME PlaceInv, HeldOnce, NEW y \in NewType, MutexInit(y)
    PROVE  /\ mutex_id \in Mutex /\ mutex_id \in Int /\ list[mutex_id] = <<>>
           /\ \A t \in Thread : ~In(held[t], mutex_id)
           /\ list' = list
<1>1. mutex_id \in Mutex /\ mutex_id \in Int
  BY MutexAssumption DEF MutexInit, PlaceInv, TypeOK, Mutex
<1>2. list[mutex_id] = <<>> /\ list' = [list EXCEPT ![mutex_id] = <<>>]
      /\ list \in [Mutex -> Seq(User)]
  BY <1>1 DEF MutexInit, PlaceInv, InLine, TypeOK
<1>3. ~(mutex_id < mutex_id)
  BY <1>1
<1>4. QED
  BY <1>1, <1>2, <1>3 DEF HeldOnce

LEMMA MutexInitExcludes ==
    ASSUME PlaceInv, MutualExclusion, HeldOnce, NEW y \in NewType, MutexInit(y)
    PROVE  MutualExclusion' /\ HeldOnce'
<1>1. /\ mutex_id \in Mutex /\ mutex_id \in Int /\ list[mutex_id] = <<>>
      /\ \A t \in Thread : ~In(held[t], mutex_id)
      /\ list' = list
  BY NewMutexIsFree
<1>2. /\ mutex_id' = mutex_id + 1 /\ held' = held
      /\ counter' = [counter EXCEPT ![mutex_id] = 1]
      /\ counter \in [Mutex -> {0, 1}]
  BY DEF MutexInit, PlaceInv, TypeOK
<1>3. \A k \in Mutex : k < mutex_id => k < mutex_id'
  BY <1>1, <1>2, TidFacts
<1>4. \A k \in Mutex : counter'[k] = 1 => k = mutex_id \/ counter[k] = 1
  BY <1>2
<1>5. HeldOnce'
  BY <1>2, <1>3 DEF HeldOnce
<1>6. MutualExclusion'
  BY <1>1, <1>2, <1>4 DEF MutualExclusion
<1>7. QED
  BY <1>5, <1>6

LEMMA BlockExcludes ==
    ASSUME TypeOK, MutualExclusion, HeldOnce, NEW m \in Mutex, Block(m)
    PROVE  MutualExclusion' /\ HeldOnce'
<1>1. /\ counter[m] = 0 /\ counter' = counter /\ held' = held /\ mutex_id' = mutex_id
      /\ list' = Enlist(m)
  BY DEF Block, owners
<1>2. \A k \in Mutex : k # m => list'[k] = list[k]
  BY <1>1 DEF Enlist, TypeOK
<1>3. HeldOnce'
  BY <1>1 DEF HeldOnce
<1>4. \A k \in Mutex : counter[k] = 1 => k # m
  BY <1>1
<1>5. QED
  BY <1>1, <1>2, <1>3, <1>4 DEF MutualExclusion

\* A mutex leaves the stack of the caller, and goes to the one of a waiter.
LEMMA UnlockHeld ==
    ASSUME PlaceInv, HeldOnce, NEW m \in Mutex, Unlock(m)
    PROVE  LET h == Head(list[m])
               rest == Tail(held[current])
           IN  /\ current \in Thread /\ current \in User
               /\ held[current] # <<>> /\ Head(held[current]) = m /\ In(held[current], m)
               /\ rest \in Seq(Mutex) /\ Distinct(rest)
               /\ \A k \in Mutex : In(rest, k) <=> In(held[current], k) /\ k # m
               /\ \/ /\ list[m] # <<>> /\ h \in User /\ h \in Thread /\ h # current
                     /\ \A t \in Thread :
                           held'[t] = IF t = current THEN rest
                                      ELSE IF t = h THEN <<m>> \o held[t] ELSE held[t]
                     /\ in_thread' = [in_thread EXCEPT ![m] = h]
                     /\ counter' = counter /\ list' = [list EXCEPT ![m] = Tail(list[m])]
                     /\ next' = [next EXCEPT ![m] = pmutex[h]]
                     /\ pmutex' = [pmutex EXCEPT ![current] = next[m], ![h] = m]
                  \/ /\ list[m] = <<>> /\ list' = list
                     /\ \A t \in Thread : held'[t] = IF t = current THEN rest ELSE held[t]
                     /\ in_thread' = [in_thread EXCEPT ![m] = Boot]
                     /\ counter' = [counter EXCEPT ![m] = 1]
                     /\ next' = [next EXCEPT ![m] = NULL]
                     /\ pmutex' = [pmutex EXCEPT ![current] = next[m]]
<1> DEFINE h == Head(list[m])
           rest == Tail(held[current])
           hs == [held EXCEPT ![current] = rest]
<1>1. TypeOK /\ Placed /\ InLine /\ status[current] = {}
  BY Runs DEF PlaceInv, Unlock, Call
<1>2. /\ Call /\ held[current] # <<>> /\ Head(held[current]) = m
      /\ \/ /\ list[m] # <<>> /\ h \in User
            /\ list' = [list EXCEPT ![m] = Tail(list[m])]
            /\ in_thread' = [in_thread EXCEPT ![m] = h]
            /\ counter' = counter
            /\ Push(h, m, next[m])
            /\ held' = [hs EXCEPT ![h] = <<m>> \o hs[h]]
         \/ /\ list[m] = <<>> /\ list' = list
            /\ in_thread' = [in_thread EXCEPT ![m] = Boot]
            /\ counter' = [counter EXCEPT ![m] = 1]
            /\ next' = [next EXCEPT ![m] = NULL]
            /\ pmutex' = [pmutex EXCEPT ![current] = next[m]]
            /\ held' = hs
  BY <1>1, UnlockIs
<1>3. current \in User /\ current \in Thread
  BY <1>1, <1>2, CallerIsUser, TidFacts
<1>4. /\ held \in [Tid -> Seq(Mutex)] /\ held[current] \in Seq(Mutex)
      /\ Distinct(held[current])
  BY <1>1, <1>3, TidFacts DEF TypeOK, HeldOnce
<1>5. /\ rest \in Seq(Mutex) /\ Distinct(rest) /\ In(held[current], m)
      /\ \A k \in Mutex : In(rest, k) <=> In(held[current], k) /\ k # m
  BY <1>2, <1>4, TailHolds
<1>6. hs \in [Tid -> Seq(Mutex)] /\ \A t \in Thread : hs[t] = IF t = current THEN rest
                                                              ELSE held[t]
  <2> HIDE DEF rest
  <2>1. QED
    BY <1>4, <1>5, TidFacts
<1>7. CASE list[m] # <<>>
  <2>1. list[m] \in Seq(User)
    BY <1>1 DEF TypeOK
  <2>2. h \in User /\ h \in Thread /\ In(list[m], h)
    BY <1>2, <1>7, <2>1, ListTypes, TidFacts
  <2>3. status[h] = {"SEM"} /\ {"SEM"} # {}
    BY <1>1, <2>2 DEF InLine
  <2>4. h # current
    BY <1>1, <2>3, PlacedIs
  <2> HIDE DEF rest, hs, h
  <2>5. held' = [hs EXCEPT ![h] = <<m>> \o hs[h]]
    BY <1>2, <1>7
  <2>6. \A t \in Thread : held'[t] = IF t = current THEN rest
                                     ELSE IF t = h THEN <<m>> \o held[t] ELSE held[t]
    BY <1>6, <2>2, <2>4, <2>5, TidFacts
  <2>7. /\ next' = [next EXCEPT ![m] = pmutex[h]]
        /\ pmutex' = [pmutex EXCEPT ![current] = next[m], ![h] = m]
    BY <1>2, <1>7, <2>4 DEF Push
  <2>8. /\ in_thread' = [in_thread EXCEPT ![m] = h]
        /\ counter' = counter /\ list' = [list EXCEPT ![m] = Tail(list[m])]
    BY <1>2, <1>7
  <2>9. QED
    BY <1>2, <1>3, <1>5, <1>7, <2>2, <2>4, <2>6, <2>7, <2>8 DEF rest, h
<1>8. CASE list[m] = <<>>
  BY <1>2, <1>3, <1>5, <1>6, <1>8
<1>9. QED
  BY <1>7, <1>8

LEMMA UnlockExcludes ==
    ASSUME PlaceInv, MutualExclusion, HeldOnce, NEW m \in Mutex, Unlock(m)
    PROVE  MutualExclusion' /\ HeldOnce'
<1> DEFINE h == Head(list[m])
           rest == Tail(held[current])
<1>1. /\ current \in Thread /\ In(held[current], m)
      /\ rest \in Seq(Mutex) /\ Distinct(rest)
      /\ \A k \in Mutex : In(rest, k) <=> In(held[current], k) /\ k # m
      /\ \/ /\ list[m] # <<>> /\ h \in Thread /\ h # current
            /\ \A t \in Thread :
                  held'[t] = IF t = current THEN rest
                             ELSE IF t = h THEN <<m>> \o held[t] ELSE held[t]
            /\ counter' = counter /\ list' = [list EXCEPT ![m] = Tail(list[m])]
         \/ /\ list[m] = <<>> /\ list' = list
            /\ \A t \in Thread : held'[t] = IF t = current THEN rest ELSE held[t]
            /\ counter' = [counter EXCEPT ![m] = 1]
  BY UnlockHeld
<1> HIDE DEF h, rest
<1>2. /\ m < mutex_id /\ mutex_id' = mutex_id /\ TypeOK
      /\ \A t \in Thread : held[t] \in Seq(Mutex)
      /\ counter \in [Mutex -> {0, 1}] /\ list \in [Mutex -> Seq(User)]
  BY TidFacts DEF Unlock, PlaceInv, TypeOK
<1>3. \A t \in Thread : t # current => ~In(held[t], m)
  BY <1>1 DEF MutualExclusion
<1>4. CASE list[m] # <<>>
  <2>1. /\ h \in Thread /\ h # current
        /\ \A t \in Thread :
              held'[t] = IF t = current THEN rest
                         ELSE IF t = h THEN <<m>> \o held[t] ELSE held[t]
        /\ counter' = counter /\ list' = [list EXCEPT ![m] = Tail(list[m])]
    BY <1>1, <1>4
  <2>2. /\ \A k \in Mutex : In(<<m>> \o held[h], k) <=> In(held[h], k) \/ k = m
        /\ Distinct(<<m>> \o held[h])
    BY <1>2, <1>3, <2>1, ConsHolds DEF HeldOnce
  <2>3. \A t \in Thread, k \in Mutex :
           In(held'[t], k) <=> IF k = m THEN t = h ELSE In(held[t], k)
    BY <1>1, <1>3, <2>1, <2>2
  <2>4. counter[m] # 1
    BY <1>4 DEF MutualExclusion
  <2>5. \A k \in Mutex : k # m => list'[k] = list[k]
    BY <1>2, <2>1
  <2>6. MutualExclusion'
    BY <2>1, <2>3, <2>4, <2>5 DEF MutualExclusion
  <2>7. HeldOnce'
    BY <1>1, <1>2, <2>1, <2>2, <2>3 DEF HeldOnce
  <2>8. QED
    BY <2>6, <2>7
<1>5. CASE list[m] = <<>>
  <2>1. /\ list' = list
        /\ \A t \in Thread : held'[t] = IF t = current THEN rest ELSE held[t]
        /\ counter' = [counter EXCEPT ![m] = 1]
    BY <1>1, <1>5
  <2>2. \A t \in Thread, k \in Mutex : In(held'[t], k) <=> In(held[t], k) /\ k # m
    BY <1>1, <1>3, <2>1
  <2>3. \A k \in Mutex : counter'[k] = 1 => k = m \/ counter[k] = 1
    BY <1>2, <2>1
  <2>4. MutualExclusion'
    BY <1>5, <2>1, <2>2, <2>3 DEF MutualExclusion
  <2>5. HeldOnce'
    BY <1>1, <1>2, <2>1, <2>2 DEF HeldOnce
  <2>6. QED
    BY <2>4, <2>5
<1>6. QED
  BY <1>4, <1>5


----------------------------------------------------------------------------
(* The links.                                                              *)

\* The mutexes of s, linked in that order: first is the first one, and nx
\* leads from each to the one below.
Linked(s, first, nx) ==
    /\ first = IF s = <<>> THEN NULL ELSE s[1]
    /\ \A i \in 1 .. Len(s) : nx[s[i]] = IF i < Len(s) THEN s[i + 1] ELSE NULL

LEMMA ChainIsLinked ==
    ASSUME TypeOK
    PROVE  ChainIsHeld <=> \A t \in Thread : Linked(held[t], pmutex[t], next)
<1> DEFINE At(s, i) == IF i <= Len(s) THEN s[i] ELSE NULL
           Along(t) == /\ pmutex[t] = At(held[t], 1)
                       /\ \A i \in DOMAIN held[t] : next[held[t][i]] = At(held[t], i + 1)
<1>1. ChainIsHeld <=> \A t \in Thread : Along(t)
  BY DEF ChainIsHeld
<1>2. ASSUME NEW t \in Thread PROVE Along(t) <=> Linked(held[t], pmutex[t], next)
  <2> DEFINE s == held[t]
  <2>1. s \in Seq(Mutex)
    BY TidFacts DEF TypeOK
  <2>2. Len(s) \in Nat /\ DOMAIN s = 1 .. Len(s) /\ (s = <<>> <=> Len(s) = 0)
    BY <2>1, LenProperties, EmptySeq
  <2> HIDE DEF s
  <2>3. At(s, 1) = IF s = <<>> THEN NULL ELSE s[1]
    BY <2>2
  <2>4. \A i \in 1 .. Len(s) : At(s, i + 1) = IF i < Len(s) THEN s[i + 1] ELSE NULL
    BY <2>2
  <2> HIDE DEF At
  <2>5. (/\ pmutex[t] = At(s, 1)
         /\ \A i \in DOMAIN s : next[s[i]] = At(s, i + 1))
        <=> Linked(s, pmutex[t], next)
    BY <2>2, <2>3, <2>4 DEF Linked
  <2>6. QED
    BY <2>5 DEF s
<1>3. QED
  BY <1>1, <1>2

\* Links that lead from no mutex of s do not matter to it.
LEMMA LinkedElsewhere ==
    ASSUME NEW s \in Seq(Mutex), NEW first, NEW nx, NEW n, Linked(s, first, nx),
           \A k \in Mutex : In(s, k) => n[k] = nx[k]
    PROVE  Linked(s, first, n)
<1>1. DOMAIN s = 1 .. Len(s) /\ \A i \in 1 .. Len(s) : s[i] \in Mutex
  BY LenProperties, ElementOfSeq
<1>2. QED
  BY <1>1 DEF Linked, In

\* A mutex put on the others, and the top one taken off.
LEMMA LinkedCons ==
    ASSUME NEW s \in Seq(Mutex), NEW first, NEW nx, Linked(s, first, nx),
           NEW m \in Mutex, nx[m] = first
    PROVE  Linked(<<m>> \o s, m, nx)
<1> DEFINE u == <<m>> \o s
<1>1. <<m>> \in Seq(Mutex) /\ Len(<<m>>) = 1 /\ <<m>>[1] = m /\ Len(s) \in Nat
  BY LenProperties
<1>2. /\ u \in Seq(Mutex) /\ Len(u) = Len(s) + 1
      /\ \A i \in 1 .. (Len(s) + 1) : u[i] = IF i = 1 THEN m ELSE s[i - 1]
  BY <1>1, ConcatProperties
<1>3. u # <<>> /\ (s = <<>> <=> Len(s) = 0)
  BY <1>1, <1>2, EmptySeq
<1> HIDE DEF u
<1>4. ASSUME NEW i \in 1 .. Len(u)
      PROVE  nx[u[i]] = IF i < Len(u) THEN u[i + 1] ELSE NULL
  <2>1. CASE i = 1
    BY <1>1, <1>2, <1>3, <2>1 DEF Linked
  <2>2. CASE i # 1
    <3>1. i - 1 \in 1 .. Len(s) /\ u[i] = s[i - 1]
      BY <1>1, <1>2, <2>2
    <3>2. i < Len(u) => u[i + 1] = s[(i - 1) + 1]
      BY <1>1, <1>2, <3>1
    <3>3. i < Len(u) <=> i - 1 < Len(s)
      BY <1>1, <1>2
    <3>4. QED
      BY <3>1, <3>2, <3>3 DEF Linked
  <2>3. QED
    BY <2>1, <2>2
<1>5. m = IF u = <<>> THEN NULL ELSE u[1]
  BY <1>1, <1>2, <1>3
<1>6. QED
  BY <1>4, <1>5 DEF Linked, u

LEMMA LinkedTail ==
    ASSUME NEW s \in Seq(Mutex), s # <<>>, NEW first, NEW nx, Linked(s, first, nx)
    PROVE  first = Head(s) /\ Linked(Tail(s), nx[Head(s)], nx)
<1> DEFINE u == Tail(s)
<1>1. /\ Len(s) \in Nat /\ Len(s) # 0 /\ Head(s) = s[1]
      /\ u \in Seq(Mutex) /\ Len(u) = Len(s) - 1
      /\ \A i \in 1 .. Len(u) : u[i] = s[i + 1]
  BY LenProperties, EmptySeq, HeadTailProperties
<1>2. u = <<>> <=> Len(u) = 0
  BY <1>1, EmptySeq
<1> HIDE DEF u
<1>3. nx[Head(s)] = IF u = <<>> THEN NULL ELSE u[1]
  BY <1>1, <1>2 DEF Linked
<1>4. ASSUME NEW i \in 1 .. Len(u)
      PROVE  nx[u[i]] = IF i < Len(u) THEN u[i + 1] ELSE NULL
  <2>1. i + 1 \in 1 .. Len(s) /\ u[i] = s[i + 1] /\ (i < Len(u) <=> i + 1 < Len(s))
    BY <1>1
  <2>2. i < Len(u) => u[i + 1] = s[(i + 1) + 1]
    BY <1>1
  <2>3. QED
    BY <2>1, <2>2 DEF Linked
<1>5. QED
  BY <1>1, <1>3, <1>4 DEF Linked, u

LEMMA TakesLinks ==
    ASSUME TypeOK, TypeOK', MutualExclusion, ChainIsHeld, NEW m \in Mutex, Takes(m)
    PROVE  ChainIsHeld'
<1>1. /\ current \in Thread
      /\ \A t \in Thread : ~In(held[t], m)
      /\ \A t \in Thread : held'[t] = IF t = current THEN <<m>> \o held[t] ELSE held[t]
  BY TakesHeld
<1>2. /\ next' = [next EXCEPT ![m] = pmutex[current]]
      /\ pmutex' = [pmutex EXCEPT ![current] = m]
      /\ next \in [Mutex -> Mutex \cup {NULL}] /\ pmutex \in [Tid -> Mutex \cup {NULL}]
      /\ \A t \in Thread : held[t] \in Seq(Mutex)
  BY TidFacts DEF Takes, TypeOK
<1>3. \A t \in Thread : pmutex'[t] = IF t = current THEN m ELSE pmutex[t]
  BY <1>2, TidFacts
<1>4. \A k \in Mutex : next'[k] = IF k = m THEN pmutex[current] ELSE next[k]
  BY <1>2
<1>5. \A t \in Thread : Linked(held[t], pmutex[t], next)
  BY ChainIsLinked
<1>6. \A t \in Thread : Linked(held[t], pmutex[t], next')
  BY <1>1, <1>2, <1>4, <1>5, LinkedElsewhere
<1>7. Linked(<<m>> \o held[current], m, next')
  BY <1>1, <1>2, <1>4, <1>6, LinkedCons
<1>8. \A t \in Thread : Linked(held'[t], pmutex'[t], next')
  BY <1>1, <1>3, <1>6, <1>7
<1>9. (TypeOK => (ChainIsHeld <=> \A t \in Thread : Linked(held[t], pmutex[t], next)))'
  BY ChainIsLinked, PTL
<1>10. QED
  BY <1>8, <1>9

LEMMA MutexInitLinks ==
    ASSUME PlaceInv, TypeOK', HeldOnce, ChainIsHeld, NEW y \in NewType, MutexInit(y)
    PROVE  ChainIsHeld'
<1>1. mutex_id \in Mutex /\ \A t \in Thread : ~In(held[t], mutex_id)
  BY NewMutexIsFree
<1>2. /\ next' = [next EXCEPT ![mutex_id] = NULL] /\ pmutex' = pmutex /\ held' = held
      /\ next \in [Mutex -> Mutex \cup {NULL}] /\ TypeOK
      /\ \A t \in Thread : held[t] \in Seq(Mutex)
  BY TidFacts DEF MutexInit, PlaceInv, TypeOK
<1>3. \A k \in Mutex : next'[k] = IF k = mutex_id THEN NULL ELSE next[k]
  BY <1>2
<1>4. \A t \in Thread : Linked(held[t], pmutex[t], next)
  BY <1>2, ChainIsLinked
<1>5. \A t \in Thread : Linked(held[t], pmutex[t], next')
  BY <1>1, <1>2, <1>3, <1>4, LinkedElsewhere
<1>6. \A t \in Thread : Linked(held'[t], pmutex'[t], next')
  BY <1>2, <1>5
<1>7. (TypeOK => (ChainIsHeld <=> \A t \in Thread : Linked(held[t], pmutex[t], next)))'
  BY ChainIsLinked, PTL
<1>8. QED
  BY <1>6, <1>7

LEMMA UnlockLinks ==
    ASSUME PlaceInv, TypeOK', MutualExclusion, HeldOnce, ChainIsHeld,
           NEW m \in Mutex, Unlock(m)
    PROVE  ChainIsHeld'
<1> DEFINE h == Head(list[m])
           rest == Tail(held[current])
<1>1. /\ current \in Thread /\ held[current] # <<>> /\ Head(held[current]) = m
      /\ In(held[current], m) /\ rest \in Seq(Mutex)
      /\ \A k \in Mutex : In(rest, k) <=> In(held[current], k) /\ k # m
      /\ \/ /\ h \in Thread /\ h # current
            /\ \A t \in Thread :
                  held'[t] = IF t = current THEN rest
                             ELSE IF t = h THEN <<m>> \o held[t] ELSE held[t]
            /\ next' = [next EXCEPT ![m] = pmutex[h]]
            /\ pmutex' = [pmutex EXCEPT ![current] = next[m], ![h] = m]
         \/ /\ \A t \in Thread : held'[t] = IF t = current THEN rest ELSE held[t]
            /\ next' = [next EXCEPT ![m] = NULL]
            /\ pmutex' = [pmutex EXCEPT ![current] = next[m]]
  BY UnlockHeld
<1> HIDE DEF h, rest
<1>2. /\ TypeOK /\ \A t \in Thread : held[t] \in Seq(Mutex)
      /\ next \in [Mutex -> Mutex \cup {NULL}] /\ pmutex \in [Tid -> Mutex \cup {NULL}]
  BY TidFacts DEF PlaceInv, TypeOK
<1>3. \A t \in Thread : Linked(held[t], pmutex[t], next)
  BY <1>2, ChainIsLinked
<1>4. \A t \in Thread : t # current => ~In(held[t], m)
  BY <1>1 DEF MutualExclusion
<1>5. Linked(rest, next[m], next)
  BY <1>1, <1>2, <1>3, LinkedTail DEF rest
<1>6. \A k \in Mutex : k # m => next'[k] = next[k]
  BY <1>1, <1>2
<1>7. Linked(rest, next[m], next')
  BY <1>1, <1>5, <1>6, LinkedElsewhere
<1>8. \A t \in Thread : t # current => Linked(held[t], pmutex[t], next')
  BY <1>2, <1>3, <1>4, <1>6, LinkedElsewhere
<1>9. ASSUME NEW t \in Thread PROVE Linked(held'[t], pmutex'[t], next')
  <2>1. CASE /\ h \in Thread /\ h # current
             /\ \A x \in Thread :
                   held'[x] = IF x = current THEN rest
                              ELSE IF x = h THEN <<m>> \o held[x] ELSE held[x]
             /\ next' = [next EXCEPT ![m] = pmutex[h]]
             /\ pmutex' = [pmutex EXCEPT ![current] = next[m], ![h] = m]
    <3>1. next'[m] = pmutex[h]
      BY <1>2, <2>1
    <3>2. Linked(<<m>> \o held[h], m, next')
      BY <1>2, <1>8, <2>1, <3>1, LinkedCons
    <3>3. pmutex'[t] = IF t = current THEN next[m] ELSE IF t = h THEN m ELSE pmutex[t]
      BY <1>1, <1>2, <2>1, TidFacts
    <3>4. QED
      BY <1>7, <1>8, <2>1, <3>2, <3>3
  <2>2. CASE /\ \A x \in Thread : held'[x] = IF x = current THEN rest ELSE held[x]
             /\ pmutex' = [pmutex EXCEPT ![current] = next[m]]
    <3>1. pmutex'[t] = IF t = current THEN next[m] ELSE pmutex[t]
      BY <1>1, <1>2, <2>2, TidFacts
    <3>2. QED
      BY <1>7, <1>8, <2>2, <3>1
  <2>3. QED
    BY <1>1, <2>1, <2>2
<1>10. (TypeOK => (ChainIsHeld <=> \A t \in Thread : Linked(held[t], pmutex[t], next)))'
  BY ChainIsLinked, PTL
<1>11. QED
  BY <1>9, <1>10


----------------------------------------------------------------------------
(* The owners, and the invariant as a whole.                               *)

LEMMA CatchOwner ==
    ASSUME TypeOK, MutualExclusion, OwnerIsHolder, NEW m \in Mutex, Catch(m)
    PROVE  OwnerIsHolder'
<1>1. Takes(m) /\ in_thread' = [in_thread EXCEPT ![m] = current] /\ type' = type
      /\ in_thread \in [Mutex -> Tid]
  BY CatchIs DEF TypeOK
<1>2. /\ \A t \in Thread : ~In(held[t], m)
      /\ \A t \in Thread, k \in Mutex :
            In(held'[t], k) <=> In(held[t], k) \/ (t = current /\ k = m)
  BY <1>1, TakesHeld
<1>3. ASSUME NEW k \in Mutex, type[k] \notin Tried, NEW t \in User
      PROVE  in_thread'[k] = t <=> In(held'[t], k)
  BY <1>1, <1>2, <1>3, TidFacts DEF OwnerIsHolder
<1>4. QED
  BY <1>1, <1>3 DEF OwnerIsHolder

\* A try tells no owner, but it is tried on mutexes of the policies Tried only.
LEMMA TryLockOwner ==
    ASSUME TypeOK, MutualExclusion, OwnerIsHolder, NEW m \in Mutex, TryLock(m)
    PROVE  OwnerIsHolder'
<1>1. /\ Takes(m) \/ held' = held
      /\ type[m] \in Tried /\ type' = type /\ in_thread' = in_thread
  BY TryLockIs
<1>2. CASE Takes(m)
  <2>1. \A t \in Thread, k \in Mutex :
           In(held'[t], k) <=> In(held[t], k) \/ (t = current /\ k = m)
    BY <1>2, TakesHeld
  <2>2. QED
    BY <1>1, <2>1, TidFacts DEF OwnerIsHolder
<1>3. CASE held' = held
  BY <1>1, <1>3 DEF OwnerIsHolder
<1>4. QED
  BY <1>1, <1>2, <1>3

LEMMA MutexInitOwner ==
    ASSUME PlaceInv, HeldOnce, OwnerIsHolder, NEW y \in NewType, MutexInit(y)
    PROVE  OwnerIsHolder'
<1>1. mutex_id \in Mutex /\ \A t \in Thread : ~In(held[t], mutex_id)
  BY NewMutexIsFree
<1>2. /\ in_thread' = [in_thread EXCEPT ![mutex_id] = Boot] /\ held' = held
      /\ type' = [type EXCEPT ![mutex_id] = y]
      /\ in_thread \in [Mutex -> Tid] /\ type \in [Mutex -> Policy]
  BY DEF MutexInit, PlaceInv, TypeOK
<1>3. \A k \in Mutex : /\ in_thread'[k] = IF k = mutex_id THEN Boot ELSE in_thread[k]
                       /\ k # mutex_id => type'[k] = type[k]
  BY <1>2
<1>4. QED
  BY <1>1, <1>2, <1>3, TidFacts DEF OwnerIsHolder

LEMMA UnlockOwner ==
    ASSUME PlaceInv, MutualExclusion, HeldOnce, OwnerIsHolder, NEW m \in Mutex, Unlock(m)
    PROVE  OwnerIsHolder'
<1> DEFINE h == Head(list[m])
           rest == Tail(held[current])
<1>1. /\ current \in Thread /\ In(held[current], m)
      /\ \A k \in Mutex : In(rest, k) <=> In(held[current], k) /\ k # m
      /\ \/ /\ h \in User /\ h \in Thread /\ h # current
            /\ \A t \in Thread :
                  held'[t] = IF t = current THEN rest
                             ELSE IF t = h THEN <<m>> \o held[t] ELSE held[t]
            /\ in_thread' = [in_thread EXCEPT ![m] = h]
         \/ /\ \A t \in Thread : held'[t] = IF t = current THEN rest ELSE held[t]
            /\ in_thread' = [in_thread EXCEPT ![m] = Boot]
  BY UnlockHeld
<1> HIDE DEF h, rest
<1>2. /\ type' = type /\ in_thread \in [Mutex -> Tid]
      /\ \A t \in Thread : held[t] \in Seq(Mutex)
  BY TidFacts DEF Unlock, PlaceInv, TypeOK
<1>3. \A t \in Thread : t # current => ~In(held[t], m)
  BY <1>1 DEF MutualExclusion
<1>4. CASE /\ h \in User /\ h \in Thread /\ h # current
           /\ \A t \in Thread :
                 held'[t] = IF t = current THEN rest
                            ELSE IF t = h THEN <<m>> \o held[t] ELSE held[t]
           /\ in_thread' = [in_thread EXCEPT ![m] = h]
  <2>1. \A k \in Mutex : In(<<m>> \o held[h], k) <=> In(held[h], k) \/ k = m
    BY <1>2, <1>4, ConsHolds
  <2>2. \A t \in Thread, k \in Mutex :
           In(held'[t], k) <=> IF k = m THEN t = h ELSE In(held[t], k)
    BY <1>1, <1>3, <1>4, <2>1
  <2>3. \A k \in Mutex : in_thread'[k] = IF k = m THEN h ELSE in_thread[k]
    BY <1>2, <1>4
  <2>4. QED
    BY <1>2, <2>2, <2>3, TidFacts DEF OwnerIsHolder
<1>5. CASE /\ \A t \in Thread : held'[t] = IF t = current THEN rest ELSE held[t]
           /\ in_thread' = [in_thread EXCEPT ![m] = Boot]
  <2>1. \A t \in Thread, k \in Mutex : In(held'[t], k) <=> In(held[t], k) /\ k # m
    BY <1>1, <1>3, <1>5
  <2>2. \A k \in Mutex : in_thread'[k] = IF k = m THEN Boot ELSE in_thread[k]
    BY <1>2, <1>5
  <2>3. QED
    BY <1>2, <2>1, <2>2, TidFacts DEF OwnerIsHolder
<1>6. QED
  BY <1>1, <1>4, <1>5

HolderInv == MutualExclusion /\ HeldOnce /\ ChainIsHeld /\ OwnerIsHolder

\* A step that leaves the mutexes and their holders as they are.
LEMMA HoldersKept ==
    ASSUME HolderInv, UNCHANGED <<mutex_id, type, list, owners, links, held>>
    PROVE  HolderInv'
BY DEF HolderInv, MutualExclusion, HeldOnce, ChainIsHeld, OwnerIsHolder, owners, links

LEMMA HoldersStep == ASSUME HeldInv, Next PROVE HolderInv'
<1>1. TypeOK'
  BY NextTypes DEF HeldInv, PlaceInv
<1>2. /\ PlaceInv /\ TypeOK /\ HolderInv
      /\ MutualExclusion /\ HeldOnce /\ ChainIsHeld /\ OwnerIsHolder
  BY DEF HeldInv, PlaceInv, HolderInv
<1>3. ASSUME Sleep PROVE HolderInv'
  BY <1>2, <1>3, HoldersKept DEF Sleep
<1>4. ASSUME NEW t \in User, Wake(t) PROVE HolderInv'
  BY <1>2, <1>4, HoldersKept DEF Wake
<1>5. ASSUME NEW t \in User, NEW p \in Prio, SetPriority(t, p) PROVE HolderInv'
  BY <1>2, <1>5, HoldersKept DEF SetPriority
<1>6. ASSUME NEW y \in NewType, MutexInit(y) PROVE HolderInv'
  BY <1>1, <1>2, <1>6, MutexInitExcludes, MutexInitLinks, MutexInitOwner DEF HolderInv
<1>7. ASSUME NEW m \in Mutex, NEW c \in Ceilings, SetPrioCeiling(m, c) PROVE HolderInv'
  BY <1>2, <1>7, HoldersKept DEF SetPrioCeiling
<1>8. ASSUME NEW m \in Mutex, Catch(m) PROVE HolderInv'
  <2>1. Takes(m) /\ list' = list /\ mutex_id' = mutex_id
    BY <1>2, <1>8, CatchIs
  <2>2. QED
    BY <1>1, <1>2, <1>8, <2>1, TakesExcludes, TakesLinks, CatchOwner DEF HolderInv
<1>9. ASSUME NEW m \in Mutex, Block(m) PROVE HolderInv'
  <2>1. MutualExclusion' /\ HeldOnce'
    BY <1>2, <1>9, BlockExcludes
  <2>2. ChainIsHeld' /\ OwnerIsHolder'
    BY <1>2, <1>9 DEF Block, ChainIsHeld, OwnerIsHolder, owners, links
  <2>3. QED
    BY <2>1, <2>2 DEF HolderInv
<1>10. ASSUME NEW m \in Mutex, TryLock(m) PROVE HolderInv'
  <2>1. /\ Takes(m) \/ UNCHANGED <<counter, links, held>>
        /\ list' = list /\ mutex_id' = mutex_id /\ type' = type /\ in_thread' = in_thread
    BY <1>2, <1>10, TryLockIs
  <2>2. CASE Takes(m)
    BY <1>1, <1>2, <1>10, <2>1, <2>2, TakesExcludes, TakesLinks, TryLockOwner DEF HolderInv
  <2>3. CASE UNCHANGED <<counter, links, held>>
    BY <1>2, <2>1, <2>3, HoldersKept DEF owners
  <2>4. QED
    BY <2>1, <2>2, <2>3
<1>11. ASSUME NEW m \in Mutex, Unlock(m) PROVE HolderInv'
  BY <1>1, <1>2, <1>11, UnlockExcludes, UnlockLinks, UnlockOwner DEF HolderInv
<1>12. ASSUME ChangesPriority \/ LendsPriority PROVE HolderInv'
  BY <1>2, <1>12, HoldersKept DEF ChangesPriority, LendsPriority, Changes
<1>13. QED
  BY <1>3, <1>4, <1>5, <1>6, <1>7, <1>8, <1>9, <1>10, <1>11, <1>12, StepIs

LEMMA HoldersInit == Init => HolderInv
<1> SUFFICES ASSUME Init PROVE HolderInv
  OBVIOUS
<1>1. /\ \A t \in Thread : held[t] = <<>> /\ pmutex[t] = NULL
      /\ \A m \in Mutex : list[m] = <<>> /\ in_thread[m] = Boot
  BY TidFacts DEF Init
<1>2. \A x : ~In(<<>>, x)
  BY EmptySeq, EmptyHoldsNothing
<1>3. Distinct(<<>>)
  BY DEF Distinct
<1>4. MutualExclusion /\ HeldOnce
  BY <1>1, <1>2, <1>3 DEF MutualExclusion, HeldOnce
<1>5. OwnerIsHolder
  BY <1>1, <1>2, TidFacts DEF OwnerIsHolder
<1>6. ChainIsHeld
  <2>1. Len(<<>>) = 0 /\ DOMAIN <<>> = {}
    OBVIOUS
  <2>2. \A t \in Thread : Linked(held[t], pmutex[t], next)
    BY <1>1, <2>1 DEF Linked
  <2>3. QED
    BY <2>2, InitTypes, ChainIsLinked
<1>7. QED
  BY <1>4, <1>5, <1>6 DEF HolderInv

\* The mutexes have their holders, also when a thread was overtaken.
HoldInv == HolderInv /\ (PlaceInv \/ Ended)

LEMMA HoldersHold == Spec => []HoldInv
<1>1. Init => HoldInv
  BY PlacesInit, HoldersInit DEF HoldInv
<1>2. HoldInv /\ [Next]_vars => HoldInv'
  <2>1. CASE PlaceInv /\ Next
    BY <2>1, PlacesStep, HoldersStep DEF HoldInv, HeldInv, HolderInv
  <2>2. CASE UNCHANGED vars
    BY <2>2, PlacesKept, HoldersKept DEF HoldInv, vars
  <2>3. QED
    BY <2>1, <2>2, EndedStays DEF HoldInv
<1>3. QED
  BY <1>1, <1>2, PTL DEF Spec

\* Two threads never have the same mutex, and one that is free has no holder
\* and no waiter: neither a try, nor a hand-over, nor a new mutex breaks it,
\* for any mix of policies (mutex.c:132-171, 255-281).
THEOREM MutexExcludes == Spec => []MutualExclusion
<1>1. HoldInv => MutualExclusion
  BY DEF HoldInv, HolderInv
<1>2. QED
  BY <1>1, HoldersHold, PTL

\* The links that start at task->pmutex are the mutexes of that thread, the
\* last one first, through locks, tries, hand-overs and unlocks
\* (mutex.c:174-175, 204-205, 267-268).
THEOREM ChainCorrect == Spec => []ChainIsHeld
<1>1. HoldInv => ChainIsHeld
  BY DEF HoldInv, HolderInv
<1>2. QED
  BY <1>1, HoldersHold, PTL

\* mutex->in_thread is the thread that has the mutex, so that it is the holder
\* to whom a waiter lends its priority, as long as OS_MutexTryLock is kept to
\* mutexes of other policies (mutex.c:172, 263).
THEOREM OwnerCorrect == Spec => []OwnerIsHolder
<1>1. HoldInv => OwnerIsHolder
  BY DEF HoldInv, HolderInv
<1>2. QED
  BY <1>1, HoldersHold, PTL


----------------------------------------------------------------------------
(* Inheritance.                                                            *)

\* A mutex keeps its policy: if all inherit after a step, all did before it.
LEMMA InheritedBefore ==
    ASSUME TypeOK, Next, AllInherit' PROVE AllInherit
<1>1. mutex_id \in Int /\ type \in [Mutex -> Policy]
  BY DEF TypeOK
<1>2. ASSUME NEW y \in NewType, MutexInit(y) PROVE AllInherit
  <2>1. mutex_id' = mutex_id + 1 /\ type' = [type EXCEPT ![mutex_id] = y]
    BY <1>2 DEF MutexInit
  <2>2. \A m \in Mutex : m < mutex_id => m < mutex_id' /\ type'[m] = type[m]
    BY <1>1, <2>1, TidFacts
  <2>3. QED
    BY <2>2 DEF AllInherit
<1>3. mutex_id' = mutex_id /\ type' = type => AllInherit
  BY DEF AllInherit
<1>4. QED
  BY <1>2, <1>3, StepIs DEF Sleep, Wake, SetPriority, ChangesPriority, LendsPriority,
     Changes, SetPrioCeiling, Catch, Block, TryLock, Unlock

\* The first mutex of a thread, and the one below it.
LEMMA TopOfChain ==
    ASSUME TypeOK, ChainIsHeld, NEW t \in Thread
    PROVE  /\ pmutex[t] # NULL => pmutex[t] \in Mutex /\ In(held[t], pmutex[t])
           /\ held[t] # <<>> =>
                 LET below == next[Head(held[t])]
                 IN below # NULL => below \in Mutex /\ In(Tail(held[t]), below)
<1> DEFINE s == held[t]
           below == next[Head(s)]
<1>1. s \in Seq(Mutex) /\ Linked(s, pmutex[t], next)
  BY ChainIsLinked, TidFacts DEF TypeOK
<1>2. ASSUME NEW u \in Seq(Mutex), NEW first, Linked(u, first, next), first # NULL
      PROVE  first \in Mutex /\ In(u, first)
  <2>1. u # <<>> /\ first = u[1]
    BY <1>2 DEF Linked
  <2>2. 1 \in DOMAIN u /\ 1 \in 1 .. Len(u)
    BY <2>1, LenProperties, EmptySeq
  <2>3. QED
    BY <2>1, <2>2, ElementOfSeq DEF In
<1>3. s # <<>> => Linked(Tail(s), below, next) /\ Tail(s) \in Seq(Mutex)
  BY <1>1, LinkedTail, ListTypes
<1> HIDE DEF s
<1>4. pmutex[t] # NULL => pmutex[t] \in Mutex /\ In(s, pmutex[t])
  BY <1>1, <1>2
<1>5. s # <<>> /\ below # NULL => below \in Mutex /\ In(Tail(s), below)
  BY <1>2, <1>3
<1>6. QED
  BY <1>4, <1>5 DEF s

LEMMA WaiterIsUser ==
    ASSUME TypeOK, NEW m \in Mutex, NEW x, In(list[m], x)
    PROVE  x \in User /\ list[m] # <<>>
<1>1. list[m] \in Seq(User)
  BY DEF TypeOK
<1>2. QED
  BY <1>1, EmptyHoldsNothing

Boosted(t) == \E m \in Mutex : In(held[t], m) /\ priority[t] = prio[m]

BoostInv ==
    AllInherit => \A t \in User \ {found} : priority[t] = base_priority[t] \/ Boosted(t)

\* Between calls that is every thread.
LEMMA BoostsOfAll ==
    ASSUME BoostInv, AllInherit, found = Boot
    PROVE  \A t \in User : priority[t] = base_priority[t] \/ Boosted(t)
BY TidFacts DEF BoostInv

\* The boosts of the threads whose priorities stay as they are.
LEMMA BoostStays ==
    ASSUME NEW t \in User, priority[t] = base_priority[t] \/ Boosted(t),
           priority'[t] = priority[t], base_priority'[t] = base_priority[t],
           \A m \in Mutex : In(held[t], m) => In(held'[t], m) /\ prio'[m] = prio[m]
    PROVE  priority'[t] = base_priority'[t] \/ Boosted(t)'
BY DEF Boosted

\* SYS_SetPriority gives t the priority p, or keeps that of its last mutex.
LEMMA AdjustBoosts ==
    ASSUME HeldInv, BoostInv, AllInherit, NEW t \in User, NEW p \in Prio,
           found \in {t, Boot}, priority' = Adjust(t, p),
           base_priority' = [base_priority EXCEPT ![t] = p], held' = held, prio' = prio
    PROVE  BoostInv'
<1>1. TypeOK /\ ChainIsHeld /\ t \in Thread /\ t \in Tid
  BY TidFacts DEF HeldInv, PlaceInv
<1>2. /\ \A x \in Tid : x # t => Adjust(t, p)[x] = priority[x]
      /\ \/ Adjust(t, p)[t] = p
         \/ pmutex[t] # NULL /\ Adjust(t, p)[t] = prio[pmutex[t]]
  BY <1>1, AdjustIs
<1>3. base_priority \in [Tid -> Prio]
  BY <1>1 DEF TypeOK
<1>4. priority'[t] = base_priority'[t] \/ Boosted(t)'
  <2>1. base_priority'[t] = p
    BY <1>1, <1>3
  <2>2. \/ priority'[t] = p
        \/ pmutex[t] # NULL /\ priority'[t] = prio[pmutex[t]]
    BY <1>2
  <2>3. pmutex[t] # NULL => pmutex[t] \in Mutex /\ In(held[t], pmutex[t])
    BY <1>1, TopOfChain
  <2>4. QED
    BY <2>1, <2>2, <2>3 DEF Boosted
<1>5. ASSUME NEW x \in User, x # t
      PROVE  priority'[x] = base_priority'[x] \/ Boosted(x)'
  <2>1. priority'[x] = priority[x] /\ base_priority'[x] = base_priority[x] /\ x # Boot
    BY <1>1, <1>2, <1>3, <1>5, TidFacts
  <2>2. QED
    BY <1>5, <2>1, BoostStays DEF BoostInv
<1>6. QED
  BY <1>4, <1>5 DEF BoostInv

LEMMA SetPriorityBoosts ==
    ASSUME HeldInv, BoostInv, AllInherit, NEW t \in User, NEW p \in Prio, SetPriority(t, p)
    PROVE  BoostInv'
<1>1. TypeOK /\ found = Boot /\ UNCHANGED <<mutex_id, type, prio, held>>
  BY DEF HeldInv, PlaceInv, SetPriority, Call
<1>2. CASE UNCHANGED <<priority, base_priority>>
  BY <1>1, <1>2, BoostsOfAll DEF BoostInv, Boosted
<1>3. CASE ~UNCHANGED <<priority, base_priority>>
  <2>1. priority' = Adjust(t, p) /\ base_priority' = [base_priority EXCEPT ![t] = p]
    BY <1>1, <1>3, SetPriorityIs DEF FindsBlocked
  <2>2. QED
    BY <1>1, <2>1, AdjustBoosts
<1>4. QED
  BY <1>2, <1>3

LEMMA ChangesPriorityBoosts ==
    ASSUME HeldInv, BoostInv, AllInherit, ChangesPriority
    PROVE  BoostInv'
<1>1. found \in User /\ wanted \in Prio
  BY DEF HeldInv, PlaceInv, TypeOK, ChangesPriority, Changes
<1>2. /\ priority' = Adjust(found, wanted) /\ held' = held /\ prio' = prio
      /\ base_priority' = [base_priority EXCEPT ![found] = wanted]
  BY DEF ChangesPriority, Changes
<1>3. QED
  BY <1>1, <1>2, AdjustBoosts

\* The thread that a waiter lends its priority to has the mutex.
LEMMA LendsPriorityBoosts ==
    ASSUME HeldInv, BoostInv, AllInherit, LendsPriority
    PROVE  BoostInv'
<1>1. TypeOK /\ Asking /\ InLine /\ OwnerIsHolder
  BY DEF HeldInv, PlaceInv
<1>2. /\ found \in User /\ found \in Tid /\ found # Boot /\ status[current] = {"SEM"}
      /\ priority' = [priority EXCEPT ![found] = wanted]
      /\ UNCHANGED <<base_priority, held, prio>>
  BY <1>1, TidFacts DEF LendsPriority, Changes, TypeOK
<1>3. PICK m \in Mutex : /\ In(list[m], current) /\ in_thread[m] = found
                         /\ wanted = priority[current] /\ wanted = prio[m]
  BY <1>1, <1>2 DEF Asking
<1>4. m < mutex_id
  <2>1. list[m] # <<>>
    BY <1>1, <1>3, WaiterIsUser
  <2>2. m \in Int /\ mutex_id \in Int
    BY <1>1, TidFacts DEF TypeOK
  <2>3. QED
    BY <1>1, <2>1, <2>2 DEF InLine
<1>5. In(held[found], m)
  BY <1>1, <1>2, <1>3, <1>4 DEF AllInherit, OwnerIsHolder
<1>6. priority'[found] = wanted /\ \A x \in Tid : x # found => priority'[x] = priority[x]
  BY <1>1, <1>2 DEF TypeOK
<1>7. ASSUME NEW t \in User, t = found PROVE Boosted(t)'
  <2>1. In(held'[t], m) /\ priority'[t] = prio'[m]
    BY <1>2, <1>3, <1>5, <1>6, <1>7
  <2>2. QED
    BY <2>1 DEF Boosted
<1>8. ASSUME NEW t \in User, t # found PROVE priority'[t] = base_priority'[t] \/ Boosted(t)'
  <2>1. priority'[t] = priority[t]
    BY <1>6, <1>8, TidFacts
  <2>2. QED
    BY <1>2, <1>8, <2>1, BoostStays DEF BoostInv
<1>9. QED
  BY <1>7, <1>8 DEF BoostInv

LEMMA CatchBoosts ==
    ASSUME HeldInv, BoostInv, AllInherit, NEW m \in Mutex, Catch(m)
    PROVE  BoostInv'
<1>1. TypeOK /\ MutualExclusion
  BY DEF HeldInv, PlaceInv
<1>2. Takes(m)
  BY <1>1, CatchIs
<1>3. /\ \A t \in Thread : ~In(held[t], m)
      /\ \A t \in Thread, k \in Mutex :
            In(held'[t], k) <=> In(held[t], k) \/ (t = current /\ k = m)
      /\ m < mutex_id
  BY <1>1, <1>2, TakesHeld
<1>4. type[m] = "INHERIT"
  BY <1>3 DEF AllInherit
<1>5. /\ priority' = priority /\ base_priority' = base_priority
      /\ prio' = [prio EXCEPT ![m] = priority[current]]
  BY <1>4 DEF Catch
<1>6. \A k \in Mutex : k # m => prio'[k] = prio[k]
  BY <1>1, <1>5 DEF TypeOK
<1>7. ASSUME NEW t \in User PROVE priority'[t] = base_priority'[t] \/ Boosted(t)'
  <2>1. \A k \in Mutex : In(held[t], k) => In(held'[t], k) /\ prio'[k] = prio[k]
    BY <1>3, <1>6, TidFacts
  <2>2. found = Boot
    BY DEF Catch, Uses, Call
  <2>3. QED
    BY <1>5, <2>1, <2>2, BoostsOfAll, BoostStays
<1>8. QED
  BY <1>7 DEF BoostInv

LEMMA BlockBoosts ==
    ASSUME HeldInv, BoostInv, AllInherit, NEW m \in Mutex, Block(m)
    PROVE  BoostInv'
<1>1. TypeOK /\ MutualExclusion /\ OwnerIsHolder /\ Owned
  BY DEF HeldInv, PlaceInv
<1>2. /\ m < mutex_id /\ found = Boot
      /\ \/ priority' = BlockPriorities(m)
         \/ Inherits(m) /\ priority' = priority /\ found' = in_thread[m]
      /\ prio' = IF Inherits(m) THEN [prio EXCEPT ![m] = priority[current]] ELSE prio
      /\ held' = held /\ base_priority' = base_priority
  BY <1>1, BlockIs DEF Uses, Call, FindsBlocked
<1>3. type[m] \notin Tried
  BY <1>2 DEF AllInherit
<1>4. priority \in [Tid -> Prio] /\ prio \in [Mutex -> Prio]
  BY <1>1 DEF TypeOK
<1>5. CASE Inherits(m)
  <2> DEFINE owner == in_thread[m]
  <2>1. owner \in User /\ owner \in Tid /\ In(held[owner], m)
    BY <1>1, <1>3, <1>5, InheritorIsThread, TidFacts DEF OwnerIsHolder
  <2>2. /\ \A t \in Tid : t # owner => priority'[t] = priority[t]
        /\ priority'[owner] = priority[current] \/ found' = owner
    BY <1>2, <1>4, <1>5, <2>1 DEF BlockPriorities
  <2>3. \A k \in Mutex : prio'[k] = IF k = m THEN priority[current] ELSE prio[k]
    BY <1>2, <1>4, <1>5
  <2> HIDE DEF owner
  <2>4. ASSUME NEW t \in User, t = owner, t # found' PROVE Boosted(t)'
    <3>1. /\ In(held'[t], m) /\ priority'[t] = priority[current]
          /\ prio'[m] = priority[current]
      BY <1>2, <2>1, <2>2, <2>3, <2>4
    <3>2. QED
      BY <3>1 DEF Boosted
  <2>5. ASSUME NEW t \in User, t # owner
        PROVE  priority'[t] = base_priority'[t] \/ Boosted(t)'
    <3>1. ~In(held[t], m)
      BY <1>1, <2>1, <2>5, TidFacts DEF MutualExclusion
    <3>2. \A k \in Mutex : In(held[t], k) => In(held'[t], k) /\ prio'[k] = prio[k]
      BY <1>2, <2>3, <3>1
    <3>3. priority'[t] = priority[t]
      BY <2>2, <2>5, TidFacts
    <3>4. QED
      BY <1>2, <3>2, <3>3, BoostsOfAll, BoostStays
  <2>6. QED
    BY <2>4, <2>5 DEF BoostInv
<1>6. CASE ~Inherits(m)
  <2>1. priority' = priority /\ prio' = prio
    BY <1>2, <1>6 DEF BlockPriorities
  <2>2. \A t \in User : priority'[t] = base_priority'[t] \/ Boosted(t)'
    BY <1>2, <2>1, BoostsOfAll, BoostStays
  <2>3. QED
    BY <2>2 DEF BoostInv
<1>7. QED
  BY <1>5, <1>6

LEMMA UnlockBoosts ==
    ASSUME HeldInv, BoostInv, AllInherit, NEW m \in Mutex, Unlock(m)
    PROVE  BoostInv'
<1> DEFINE h == Head(list[m])
           rest == Tail(held[current])
           below == next[m]
<1>1. /\ PlaceInv /\ TypeOK /\ MutualExclusion /\ HeldOnce /\ ChainIsHeld /\ OwnerIsHolder
  BY DEF HeldInv, PlaceInv
<1>2. /\ m < mutex_id /\ priority' = UnlockPriorities(m)
      /\ base_priority' = base_priority /\ prio' = prio
      /\ \A x \in Tid : x # current => UnlockPriorities(m)[x] = priority[x]
  BY <1>1, UnlockIs, UnlockPrioritiesIs
<1>3. /\ current \in Thread /\ current \in User /\ current \in Tid
      /\ held[current] # <<>> /\ Head(held[current]) = m /\ In(held[current], m)
      /\ \/ /\ h \in Thread /\ h # current
            /\ \A t \in Thread :
                  held'[t] = IF t = current THEN rest
                             ELSE IF t = h THEN <<m>> \o held[t] ELSE held[t]
         \/ \A t \in Thread : held'[t] = IF t = current THEN rest ELSE held[t]
  BY <1>1, UnlockHeld, TidFacts
<1>4. type[m] = "INHERIT" /\ type[m] \notin Tried
  BY <1>2 DEF AllInherit
<1>5. in_thread[m] = current /\ in_thread[m] # Boot
  BY <1>1, <1>3, <1>4, TidFacts DEF OwnerIsHolder
<1>6. priority'[current] = IF below = NULL THEN base_priority[current] ELSE prio[below]
  <2>1. UnlockPriorities(m) = Restored(m, below)
    BY <1>4 DEF UnlockPriorities
  <2>2. Restored(m, below) =
           [priority EXCEPT ![current] = IF below = NULL THEN base_priority[current]
                                                         ELSE prio[below]]
    BY <1>4, <1>5 DEF Restored
  <2>3. QED
    BY <1>1, <1>2, <1>3, <2>1, <2>2 DEF TypeOK
<1>7. below # NULL => below \in Mutex /\ In(rest, below)
  BY <1>1, <1>3, TopOfChain
<1> HIDE DEF below, rest
<1>8. held'[current] = rest
  BY <1>3
<1>9. ASSUME NEW t \in User, t = current
      PROVE  priority'[t] = base_priority'[t] \/ Boosted(t)'
  <2>1. held'[t] = rest /\ base_priority'[t] = base_priority[current] /\ prio' = prio
    BY <1>2, <1>8, <1>9
  <2>2. CASE below = NULL
    BY <1>6, <1>9, <2>1, <2>2
  <2>3. CASE below # NULL
    <3>1. PICK k \in Mutex : k = below
      BY <1>7, <2>3
    <3>2. In(held'[t], k) /\ priority'[t] = prio'[k]
      BY <1>6, <1>7, <1>9, <2>1, <2>3, <3>1
    <3>3. QED
      BY <3>2 DEF Boosted
  <2>4. QED
    BY <2>2, <2>3
<1>10. ASSUME NEW t \in User, t # current
       PROVE  priority'[t] = base_priority'[t] \/ Boosted(t)'
  <2>1. priority'[t] = priority[t]
    BY <1>2, <1>10, TidFacts
  <2>2. held'[t] = held[t] \/ held'[t] = <<m>> \o held[t]
    BY <1>3, <1>10, TidFacts
  <2>3. held[t] \in Seq(Mutex)
    BY <1>1, TidFacts DEF TypeOK
  <2>4. \A k \in Mutex : In(held[t], k) => In(held'[t], k)
    <3>1. \A k \in Mutex : In(held[t], k) => In(<<m>> \o held[t], k)
      BY <2>3, ConsHolds
    <3>2. QED
      BY <2>2, <3>1
  <2>5. found = Boot
    BY DEF Unlock, Call
  <2>6. QED
    BY <1>2, <2>1, <2>4, <2>5, BoostsOfAll, BoostStays
<1>11. QED
  BY <1>9, <1>10 DEF BoostInv

LEMMA BoostStep == ASSUME HeldInv, BoostInv, Next PROVE BoostInv'
<1> SUFFICES ASSUME AllInherit' PROVE BoostInv'
  BY DEF BoostInv
<1>1. AllInherit /\ TypeOK /\ PlaceInv /\ HeldOnce
  BY InheritedBefore DEF HeldInv, PlaceInv
<1>2. UNCHANGED <<priority, base_priority, prio, held, found>> => BoostInv'
  BY <1>1 DEF BoostInv, Boosted
<1>3. ASSUME Sleep PROVE BoostInv'
  BY <1>2, <1>3 DEF Sleep, asked
<1>4. ASSUME NEW t \in User, Wake(t) PROVE BoostInv'
  BY <1>2, <1>4 DEF Wake
<1>5. ASSUME NEW y \in NewType, MutexInit(y) PROVE BoostInv'
  <2>1. mutex_id \in Mutex /\ \A t \in Thread : ~In(held[t], mutex_id)
    BY <1>1, <1>5, NewMutexIsFree
  <2>2. /\ priority' = priority /\ base_priority' = base_priority /\ held' = held
        /\ prio' = [prio EXCEPT ![mutex_id] = InitialPrio]
    BY <1>5 DEF MutexInit
  <2>3. \A k \in Mutex : k # mutex_id => prio'[k] = prio[k]
    BY <1>1, <2>2 DEF TypeOK
  <2>4. ASSUME NEW t \in User PROVE priority'[t] = base_priority'[t] \/ Boosted(t)'
    <3>1. \A k \in Mutex : In(held[t], k) => In(held'[t], k) /\ prio'[k] = prio[k]
      BY <2>1, <2>2, <2>3, TidFacts
    <3>2. found = Boot
      BY <1>5 DEF MutexInit, Call
    <3>3. QED
      BY <1>1, <2>2, <3>1, <3>2, BoostsOfAll, BoostStays
  <2>5. QED
    BY <2>4 DEF BoostInv
<1>6. ASSUME NEW m \in Mutex, NEW c \in Ceilings, SetPrioCeiling(m, c) PROVE BoostInv'
  <2>1. type[m] # "CEILING"
    BY <1>1, <1>6 DEF SetPrioCeiling, AllInherit
  <2>2. QED
    BY <1>2, <1>6, <2>1 DEF SetPrioCeiling, asked
<1>7. ASSUME NEW m \in Mutex, TryLock(m) PROVE BoostInv'
  BY <1>1, <1>7 DEF TryLock, Uses, AllInherit
<1>8. QED
  BY <1>1, <1>3, <1>4, <1>5, <1>6, <1>7, StepIs, SetPriorityBoosts, ChangesPriorityBoosts,
     LendsPriorityBoosts, CatchBoosts, BlockBoosts, UnlockBoosts

\* Under the inherit policy the priority of a thread is its own or that of a
\* mutex it has: an unlock takes away what the mutex had brought, also after
\* nested locks, hand-overs and SYS_SetPriority (mutex.c:211-225, 318-340).
THEOREM BoostCorrect == Spec => []BoostComesFromMutex
<1>1. Init => BoostInv
  BY DEF Init, BoostInv
<1>2. HoldInv /\ BoostInv /\ [Next]_vars => BoostInv'
  <2>1. CASE PlaceInv /\ Next
    BY <2>1, BoostStep DEF HoldInv, HolderInv, HeldInv
  <2>2. CASE UNCHANGED vars
    BY <2>2 DEF BoostInv, Boosted, AllInherit, vars, asked
  <2>3. QED
    BY <2>1, <2>2, EndedStays DEF HoldInv
<1>3. BoostInv => BoostComesFromMutex
  BY DEF BoostInv, Boosted, BoostComesFromMutex
<1>4. QED
  BY <1>1, <1>2, <1>3, HoldersHold, PTL DEF Spec

\* A call that blocks under the inherit policy leaves an owner that is no less
\* urgent than the thread that waits, also when the owner is found blocked and
\* gets the priority after interrupts (mutex.c:316-340).
THEOREM WaiterLends == Spec => WaiterLendsPriority
<1> DEFINE Lends ==
             \A m \in Mutex : AllInherit /\ In(list'[m], current) /\ found' = Boot =>
                priority'[in_thread[m]] <= priority[current]
<1>1. PlaceInv /\ Next => Lends
  <2>1. SUFFICES ASSUME PlaceInv, Next, AllInherit, NEW m \in Mutex,
                        In(list'[m], current), found' = Boot
                 PROVE  priority'[in_thread[m]] <= priority[current]
    OBVIOUS
  <2>2. TypeOK /\ Placed /\ Asking /\ InLine /\ Owned
    BY <2>1 DEF PlaceInv
  <2>3. /\ list \in [Mutex -> Seq(User)] /\ priority \in [Tid -> Prio]
        /\ in_thread[m] \in Tid /\ in_thread[m] \in User \cup {Boot}
        /\ priority[current] \in Int /\ priority[in_thread[m]] \in Int
    BY <2>2, TidFacts, PrioInt DEF TypeOK, Owned
  <2>4. CASE LendsPriority
    <3>1. /\ list' = list /\ found # Boot /\ status[current] = {"SEM"}
          /\ priority' = [priority EXCEPT ![found] = wanted]
      BY <2>4 DEF LendsPriority, Changes
    <3>2. PICK k \in Mutex : /\ In(list[k], current) /\ in_thread[k] = found
                             /\ wanted = priority[current]
      BY <2>2, <3>1 DEF Asking
    <3>3. current \in User
      BY <2>2, <3>1 DEF Asking, TypeOK, Thread
    <3>4. k = m
      BY <2>1, <2>2, <3>1, <3>2, <3>3 DEF InLine
    <3>5. QED
      BY <2>3, <3>1, <3>2, <3>4
  <2>5. CASE found = Boot
    <3>1. \A k \in Mutex : ~In(list[k], current)
      <4>1. status[current] = {} /\ {} # {"SEM"}
        BY <2>2, <2>5, Runs
      <4>2. QED
        BY <2>2, <4>1, WaiterIsUser DEF InLine
    <3>2. PICK k \in Mutex : Block(k)
      <4>1. list'[m] # list[m]
        BY <2>1, <3>1
      <4>2. ASSUME NEW y \in NewType, MutexInit(y) PROVE FALSE
        <5>1. list'[m] = <<>>
          BY <2>3, <4>1, <4>2 DEF MutexInit
        <5>2. QED
          BY <2>1, <5>1, EmptySeq, EmptyHoldsNothing
      <4>3. ASSUME NEW k \in Mutex, Unlock(k) PROVE FALSE
        <5>1. list[k] # <<>> /\ list' = [list EXCEPT ![k] = Tail(list[k])]
          BY <2>2, <4>1, <4>3, UnlockIs
        <5>2. list'[m] = Tail(list[m]) /\ list[m] # <<>>
          BY <2>3, <4>1, <5>1
        <5>3. QED
          BY <2>1, <2>3, <3>1, <5>2, TailHolds
      <4>4. QED
        BY <2>1, <2>5, <4>1, <4>2, <4>3, StepIs DEF Sleep, Wake, SetPriority,
           ChangesPriority, LendsPriority, Changes, SetPrioCeiling, Catch, TryLock
    <3>3. /\ Call /\ k < mutex_id /\ list' = Enlist(k) /\ found' = Boot
          /\ \/ priority' = BlockPriorities(k)
             \/ Inherits(k) /\ found' = in_thread[k]
      BY <2>1, <2>2, <3>2, BlockIs DEF Uses, FindsBlocked
    <3>4. priority' = BlockPriorities(k)
      BY <2>2, <3>3, InheritorIsThread, TidFacts
    <3>5. m = k
      <4>1. PICK s \in Seq(User) : Enlist(k) = [list EXCEPT ![k] = s]
        BY <2>2, <3>3, EnlistIs
      <4>2. QED
        BY <2>1, <2>3, <3>1, <3>3, <4>1
    <3>6. type[m] = "INHERIT"
      BY <2>1, <3>3, <3>5 DEF AllInherit
    <3>7. CASE Inherits(m)
      <4>1. priority'[in_thread[m]] = priority[current]
        BY <2>3, <3>4, <3>5, <3>7 DEF BlockPriorities
      <4>2. QED
        BY <2>3, <4>1
    <3>8. CASE ~Inherits(m)
      <4>1. ~(priority[current] < priority[in_thread[m]])
        BY <3>6, <3>8 DEF Inherits
      <4>2. priority' = priority
        BY <3>4, <3>5, <3>8 DEF BlockPriorities
      <4>3. QED
        BY <2>3, <4>1, <4>2
    <3>9. QED
      BY <3>7, <3>8
  <2>6. CASE found # Boot /\ ~LendsPriority
    <3>1. \/ ChangesPriority
          \/ \E t \in User : Wake(t)
      BY <2>1, <2>6, StepIs DEF Sleep, SetPriority, MutexInit, SetPrioCeiling, Catch, Block,
         TryLock, Unlock, Uses, Call
    <3>2. ChangesPriority
      BY <2>1, <2>6, <3>1 DEF Wake
    <3>3. status[current] = {} /\ list' = list /\ {} # {"SEM"}
      BY <3>2 DEF ChangesPriority, Changes
    <3>4. ~In(list[m], current)
      <4>1. ASSUME In(list[m], current) PROVE status[current] = {"SEM"}
        <5>1. current \in User /\ m \in Mutex
          BY <2>1, <2>2, <4>1, WaiterIsUser
        <5>2. QED
          BY <2>2, <4>1, <5>1 DEF InLine
      <4>2. QED
        BY <3>3, <4>1
    <3>5. list'[m] = list[m]
      BY <3>3
    <3>6. QED
      BY <2>1, <3>4, <3>5
  <2>7. QED
    BY <2>4, <2>5, <2>6
<1>2. (PlaceInv \/ Ended) /\ [Next]_vars => [Lends]_vars
  BY <1>1, EndedStays
<1>3. Spec => [][Lends]_vars
  BY <1>2, PlacesHold, PTL DEF Spec
<1>4. QED
  BY <1>3 DEF WaiterLendsPriority
=============================================================================
