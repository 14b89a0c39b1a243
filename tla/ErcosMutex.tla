----------------------------- MODULE ErcosMutex -----------------------------
(***************************************************************************)
(* The priority mutexes of ERCOS-RT (src/src/mutex.c) over the ready       *)
(* queues: the three policies, the temporal priorities of their owners and *)
(* the stack of mutexes that each thread has, linked by task->pmutex and   *)
(* mutex->next.                                                            *)
(*                                                                         *)
(* A system call and the OS_Schedule at its end are one step, but for a    *)
(* call that changes the priority of a thread that it has found blocked:   *)
(* until then its timeout may ready that thread.  Interrupts touch no      *)
(* mutex, and elsewhere in a call one has the same effect on the lists as  *)
(* after it; what it can do between the statements of a queue operation is *)
(* in ErcosSched.  The scheduler runs the head of the highest list that is *)
(* not empty (ErcosSched, HighestPriority).                                *)
(***************************************************************************)
EXTENDS ReadyQueue, FiniteSets

CONSTANTS User,           \* the threads of the program
          Idle,           \* the idle thread
          Boot,           \* the boot thread, tid 0; as an owner, nobody
          UserPriority,   \* the priorities they are created with
          MaxResem,       \* CONFIG_ERCOS_MAX_RESEM
          NewType,        \* the policies mutexes are created with
          Ceilings,       \* the ceilings set
          Adjusted,       \* those whose priority is set later, and to what
          NewPriority,
          Tried           \* the policies of the mutexes that threads try

Policy == {"NONE", "INHERIT", "CEILING"}    \* MUTEX_PRIO_...

ASSUME MutexAssumption ==
    /\ Idle \notin User /\ Boot \notin User /\ Idle # Boot
    /\ MaxResem \in Nat
    /\ NewType \subseteq Policy /\ Tried \subseteq Policy
    /\ Ceilings \subseteq Prio /\ UserPriority \in [User -> Prio] /\ NewPriority \subseteq Prio
    /\ Adjusted \subseteq User

Thread == User \cup {Idle}
Tid == Thread \cup {Boot}
Mutex == 0 .. (MaxResem - 1)
NULL == MaxResem                \* no mutex
Flags == {"READY", "SEM", "TIME"}

VARIABLES
    sched_list, current, status, priority, base_priority,
    mutex_id,                   \* the number of mutexes there are
    type, counter, list, in_thread,
    prio,                       \* mutex->prio, inherited or ceiling
    next, pmutex,
    found, wanted,              \* the thread that a call has found blocked,
                                \* Boot for none, and the priority it gets
    held,                       \* history: the mutexes of each thread, the
                                \* last one first
    overtaken                   \* history: the thread, Boot for none, that was
                                \* readied after a call had found it blocked

sched == <<sched_list, current, status>>
links == <<next, pmutex>>
owners == <<counter, in_thread>>
asked == <<found, wanted, overtaken>>
vars == <<sched, priority, base_priority, mutex_id, type, list, prio, owners,
          links, held, asked>>

\* main has created the threads, each has called SYS_Sleep, main has ended.
Init ==
    /\ sched_list = EmptyQueues
    /\ current = Idle
    /\ status = [t \in Tid |-> IF t \in User THEN {"TIME"} ELSE {}]
    /\ base_priority = [t \in Tid |-> IF t \in User THEN UserPriority[t]
                                      ELSE IF t = Idle THEN MinPriority ELSE MaxPriority]
    /\ priority = base_priority
    /\ mutex_id = 0
    /\ type = [m \in Mutex |-> "NONE"]
    /\ counter = [m \in Mutex |-> 0]
    /\ list = [m \in Mutex |-> <<>>]
    /\ in_thread = [m \in Mutex |-> Boot]
    /\ prio = [m \in Mutex |-> 0]
    /\ next = [m \in Mutex |-> NULL]
    /\ pmutex = [t \in Tid |-> NULL]
    /\ held = [t \in Tid |-> <<>>]
    /\ found = Boot /\ wanted = MaxPriority /\ overtaken = Boot

----------------------------------------------------------------------------
(* The scheduler.                                                          *)

\* OS_Schedule, from the lists q and the threads' states st.
Schedule(q, st) ==
    \E p \in Prio :
       /\ q[p] # <<>>
       /\ \A r \in Prio : r < p => q[r] = <<>>
       /\ current' = Head(q[p])
       /\ sched_list' = [q EXCEPT ![p] = Tail(@)]
       /\ status' = [st EXCEPT ![Head(q[p])] = {}]

\* The end of a call that returns: SET_NEEDREESCHED offers the processor.
Return(q, st, pr) ==
    Schedule(AddHead(q, current, pr[current]), [st EXCEPT ![current] = {"READY"}])

\* OS_SchedTaskReady.
Ready(q, t, pr) == AddTail(q, t, pr[t])

\* OS_TaskIsBlocked.
TaskIsBlocked(t) == status[t] \cap {"SEM", "TIME"} # {}

\* Nothing is modelled after a thread was overtaken: it is in the list of one
\* priority and has another.
Call == current # Idle /\ found = Boot /\ overtaken = Boot

Sleep ==
    /\ Call
    /\ Schedule(sched_list, [status EXCEPT ![current] = {"TIME"}])
    /\ UNCHANGED <<priority, base_priority, mutex_id, type, list, prio, owners, links,
                   held, asked>>

\* An ISR wakes a sleeper.  Its epilogue offers the processor, unless it came
\* during a call.
Wake(t) ==
    LET q  == Ready(sched_list, t, priority)
        st == [status EXCEPT ![t] = {"READY"}]
    IN /\ status[t] = {"TIME"}
       /\ overtaken = Boot
       /\ \/ found = Boot /\ Return(q, st, priority) /\ UNCHANGED overtaken
          \/ /\ found # Boot
             /\ sched_list' = q /\ status' = st /\ UNCHANGED current
             /\ overtaken' = IF t = found THEN t ELSE Boot
       /\ UNCHANGED <<priority, base_priority, mutex_id, type, list, prio, owners, links,
                      held, found, wanted>>

\* A call has found that t is blocked, and will change its priority, for p,
\* where it is.
FindsBlocked(t, p) ==
    /\ TaskIsBlocked(t)
    /\ found' = t /\ wanted' = p
    /\ UNCHANGED <<sched_list, current, priority, base_priority, overtaken>>

\* OS_SetPriority compares the new priority with that of the last mutex of
\* the thread.
Adjust(t, p) ==
    LET m == pmutex[t]
        kept == m # NULL /\ p < prio[m]
    IN [priority EXCEPT ![t] = IF kept THEN prio[m] ELSE p]

\* A thread that is ready changes from the list of its priority to another.
Requeued(t, pr) == Ready(RemoveThread(sched_list, t, priority[t]), t, pr)

\* SYS_SetPriority.
SetPriority(t, p) ==
    LET pr == Adjust(t, p) IN
    /\ Call
    /\ \/ t # current /\ FindsBlocked(t, p) /\ UNCHANGED status
       \/ /\ t # current => ~TaskIsBlocked(t)
          /\ base_priority' = [base_priority EXCEPT ![t] = p]
          /\ priority' = pr
          /\ Return(IF t = current THEN sched_list ELSE Requeued(t, pr), status, pr)
          /\ UNCHANGED asked
    /\ UNCHANGED <<mutex_id, type, list, prio, owners, links, held>>

\* The rest of a call that has found a thread blocked.
Changes(pr) ==
    /\ found # Boot
    /\ priority' = pr
    /\ found' = Boot /\ wanted' = MaxPriority
    /\ UNCHANGED <<mutex_id, type, list, prio, owners, links, held, overtaken>>

\* SYS_SetPriority, which then returns.
ChangesPriority ==
    /\ status[current] = {}
    /\ Changes(Adjust(found, wanted))
    /\ base_priority' = [base_priority EXCEPT ![found] = wanted]
    /\ Return(sched_list, status, Adjust(found, wanted))

\* OS_MutexLockInherit, whose caller has blocked.
LendsPriority ==
    /\ status[current] = {"SEM"}
    /\ Changes([priority EXCEPT ![found] = wanted])
    /\ Schedule(sched_list, status)
    /\ UNCHANGED base_priority

----------------------------------------------------------------------------
(* Mutexes.                                                                *)

\* Mutant of InitialPrio: there is no such priority.
InitialPrioTooLow == MaxPrio

InitialPrio == MinPriority

\* OS_MutexInit.
MutexInit(y) ==
    LET m == mutex_id IN
    /\ Call
    /\ mutex_id < MaxResem
    /\ mutex_id' = mutex_id + 1
    /\ type' = [type EXCEPT ![m] = y]
    /\ counter' = [counter EXCEPT ![m] = 1]
    /\ in_thread' = [in_thread EXCEPT ![m] = Boot]
    /\ prio' = [prio EXCEPT ![m] = InitialPrio]
    /\ next' = [next EXCEPT ![m] = NULL]
    /\ list' = [list EXCEPT ![m] = <<>>]
    /\ Return(sched_list, status, priority)
    /\ UNCHANGED <<priority, base_priority, pmutex, held, asked>>

SetPrioCeiling(m, c) ==
    /\ Call
    /\ m < mutex_id
    /\ prio' = IF type[m] = "CEILING" THEN [prio EXCEPT ![m] = c] ELSE prio
    /\ Return(sched_list, status, priority)
    /\ UNCHANGED <<priority, base_priority, mutex_id, type, list, owners, links, held, asked>>

\* The caller uses a mutex that it does not have yet.
Uses(m) == Call /\ m < mutex_id /\ \A i \in DOMAIN held[current] : held[current][i] # m

\* Mutant of Push: the mutex is not linked to those the thread has.
PushAlone(t, m, below) ==
    /\ next' = [next EXCEPT ![m] = NULL]
    /\ pmutex' = [pmutex EXCEPT ![current] = below, ![t] = m]

\* t gets m, and the caller, if it is another thread, has only those below.
Push(t, m, below) ==
    /\ next' = [next EXCEPT ![m] = IF t = current THEN below ELSE pmutex[t]]
    /\ pmutex' = [pmutex EXCEPT ![current] = below, ![t] = m]

\* OS_MutexPrioCeiling, which boosts the caller whoever gets the mutex.
PrioCeiling(m, pr) ==
    IF prio[m] < pr[current] THEN [pr EXCEPT ![current] = prio[m]] ELSE pr

\* OS_MutexLock of a free mutex.
Catch(m) ==
    LET pr == IF type[m] = "CEILING" THEN PrioCeiling(m, priority) ELSE priority IN
    /\ Uses(m)
    /\ counter[m] # 0
    /\ counter' = [counter EXCEPT ![m] = 0]
    /\ in_thread' = [in_thread EXCEPT ![m] = current]
    /\ Push(current, m, pmutex[current])
    /\ held' = [held EXCEPT ![current] = <<m>> \o @]
    /\ prio' = IF type[m] = "INHERIT" THEN [prio EXCEPT ![m] = priority[current]] ELSE prio
    /\ priority' = pr
    /\ Return(sched_list, status, pr)
    /\ UNCHANGED <<base_priority, mutex_id, type, list, asked>>

\* Mutant of Inherits: the comparison is inverted.
InheritsIfLower(m) ==
    type[m] = "INHERIT" /\ priority[in_thread[m]] < priority[current]

\* The test of OS_MutexLockInherit.
Inherits(m) ==
    type[m] = "INHERIT" /\ priority[current] < priority[in_thread[m]]

\* Mutant of OwnerIsReady: the owner is queued even if it is blocked.
OwnerIsQueued(m) == in_thread[m] # Boot

OwnerIsReady(m) == ~TaskIsBlocked(in_thread[m])

\* Only the waiters of a mutex without a policy queue up at the tail.
Enlist(m) ==
    [list EXCEPT ![m] = IF type[m] = "NONE" THEN Append(@, current) ELSE <<current>> \o @]

\* OS_MutexLock of a mutex that another thread has.
Block(m) ==
    LET owner == in_thread[m]
        p == priority[current]
        pr == [priority EXCEPT ![owner] = p]
        st == [status EXCEPT ![current] = {"SEM"}]
    IN /\ Uses(m)
       /\ counter[m] = 0
       /\ list' = Enlist(m)
       /\ prio' = IF Inherits(m) THEN [prio EXCEPT ![m] = p] ELSE prio
       /\ \/ /\ ~Inherits(m)
             /\ Schedule(sched_list, st) /\ UNCHANGED <<priority, base_priority, asked>>
          \/ /\ Inherits(m) /\ OwnerIsReady(m)
             /\ priority' = pr
             /\ Schedule(Requeued(owner, pr), [st EXCEPT ![owner] = {"READY"}])
             /\ UNCHANGED <<base_priority, asked>>
          \/ /\ Inherits(m) /\ ~OwnerIsReady(m)
             /\ status' = st /\ FindsBlocked(owner, p)
       /\ UNCHANGED <<mutex_id, type, owners, links, held>>

\* OS_MutexTryLock sets neither the owner nor a priority.
TryLock(m) ==
    /\ Uses(m)
    /\ type[m] \in Tried
    /\ IF counter[m] = 1
       THEN /\ counter' = [counter EXCEPT ![m] = 0]
            /\ Push(current, m, pmutex[current])
            /\ held' = [held EXCEPT ![current] = <<m>> \o @]
       ELSE UNCHANGED <<counter, links, held>>
    /\ Return(sched_list, status, priority)
    /\ UNCHANGED <<priority, base_priority, mutex_id, type, list, in_thread, prio, asked>>

\* The mutexes on the stack whose first one is m.
Chain(m) ==
    {k \in Mutex : \E n \in 1 .. MaxResem : \E path \in [1 .. n -> Mutex] :
        /\ path[1] = m /\ path[n] = k
        /\ \A i \in 1 .. (n - 1) : next[path[i]] = path[i + 1]}

\* Mutant of Restored: the boost outlives the mutex.
NotRestored(m, below) == priority

\* The priority of a caller that gives m up and keeps those below.
Restored(m, below) ==
    LET base  == base_priority[current]
        chain == {prio[k] : k \in Chain(below)}
        To(p) == [priority EXCEPT ![current] = p]
        best  == CHOOSE p \in chain : \A r \in chain : p <= r
    IN CASE type[m] = "NONE" -> priority
         [] type[m] = "INHERIT" ->
              IF in_thread[m] = Boot THEN priority
              ELSE IF below = NULL THEN To(base) ELSE To(prio[below])
         [] type[m] = "CEILING" ->
              IF below = NULL THEN To(base)
              ELSE IF best < base THEN To(best) ELSE priority

\* Mutant of NewOwner: the owner stays the thread that has unlocked m.
OldOwner(m, t) == in_thread

NewOwner(m, t) == [in_thread EXCEPT ![m] = t]

\* Mutant of HandedOver: the mutex is free as well.
HandedOverFree(m) == [counter EXCEPT ![m] = 1]

\* A mutex that is handed over is not free in between.
HandedOver(m) == counter

\* OS_MutexUnlock.  Threads unlock their mutexes in the reverse order of
\* locking them, as pmutex = mutex->next takes for granted.
Unlock(m) ==
    LET below == next[m]
        t == Head(list[m])
        restored == Restored(m, below)
        pr == IF type[m] = "CEILING" /\ list[m] # <<>>
              THEN PrioCeiling(m, restored) ELSE restored
    IN /\ Call
       /\ m < mutex_id /\ held[current] # <<>> /\ Head(held[current]) = m
       /\ priority' = pr
       /\ IF list[m] # <<>>
          THEN /\ list' = [list EXCEPT ![m] = Tail(@)]
               /\ in_thread' = NewOwner(m, t)
               /\ counter' = HandedOver(m)
               /\ Push(t, m, below)
               /\ held' = [[held EXCEPT ![current] = Tail(@)] EXCEPT ![t] = <<m>> \o @]
               /\ Return(Ready(sched_list, t, pr), [status EXCEPT ![t] = {"READY"}], pr)
          ELSE /\ in_thread' = NewOwner(m, Boot)
               /\ counter' = [counter EXCEPT ![m] = 1]
               /\ next' = [next EXCEPT ![m] = NULL]
               /\ pmutex' = [pmutex EXCEPT ![current] = below]
               /\ held' = [held EXCEPT ![current] = Tail(@)]
               /\ Return(sched_list, status, pr)
               /\ UNCHANGED list
       /\ UNCHANGED <<base_priority, mutex_id, type, prio, asked>>

----------------------------------------------------------------------------

Next == \/ Sleep
        \/ \E t \in User : Wake(t)
        \/ \E t \in Adjusted, p \in NewPriority : SetPriority(t, p)
        \/ ChangesPriority
        \/ LendsPriority
        \/ \E y \in NewType : MutexInit(y)
        \/ \E m \in Mutex, c \in Ceilings : SetPrioCeiling(m, c)
        \/ \E m \in Mutex : Catch(m) \/ Block(m) \/ TryLock(m) \/ Unlock(m)

Spec == Init /\ [][Next]_vars
----------------------------------------------------------------------------
(* Properties.                                                             *)

TypeOK ==
    /\ sched_list \in [Prio -> Seq(Thread)] /\ current \in Thread
    /\ status \in [Tid -> SUBSET Flags]
    /\ priority \in [Tid -> Prio] /\ base_priority \in [Tid -> Prio]
    /\ mutex_id \in 0 .. MaxResem /\ type \in [Mutex -> Policy]
    /\ counter \in [Mutex -> {0, 1}] /\ list \in [Mutex -> Seq(User)]
    /\ in_thread \in [Mutex -> Tid] /\ prio \in [Mutex -> Prio]
    /\ next \in [Mutex -> Mutex \cup {NULL}] /\ pmutex \in [Tid -> Mutex \cup {NULL}]
    /\ held \in [Tid -> Seq(Mutex)]
    /\ found \in User \cup {Boot} /\ wanted \in Prio /\ overtaken \in User \cup {Boot}

\* A thread that runs or waits for a mutex is not in a ready list, a ready
\* one is only in the list of its own priority, and a thread waits for one
\* mutex at most: an owner whose priority changes is moved from list to list
\* only if it is ready (mutex.c:307-347), but for one whose timeout has ended
\* since a call found it blocked (mutex.c:335-342, syscall.c:219-226).
OnePlace ==
    /\ \A t \in Thread \ {overtaken}, p \in Prio :
          In(sched_list[p], t) => priority[t] = p
    /\ \A p \in Prio : Distinct(sched_list[p])
    /\ \A t \in Thread : Queued(sched_list, t) <=> status[t] = {"READY"}
    /\ \A t \in User : status[t] = {"SEM"} <=> \E m \in Mutex : In(list[m], t)
    /\ \A m, k \in Mutex, t \in User : In(list[m], t) /\ In(list[k], t) => m = k

\* Two threads never have a mutex at the same time, and it is free only when
\* no thread has it and none waits for it (mutex.c:132-171, 255-281).
MutualExclusion ==
    \A m \in Mutex :
       /\ \A t, u \in Thread : In(held[t], m) /\ In(held[u], m) => t = u
       /\ counter[m] = 1 => list[m] = <<>> /\ \A t \in Thread : ~In(held[t], m)

\* task->pmutex and mutex->next link the mutexes that the thread has, the
\* last one first: hand-overs and nested locks lose none (mutex.c:174-175,
\* 204-205, 267-268).
ChainIsHeld ==
    \A t \in Thread :
       LET s == held[t]
           At(i) == IF i <= Len(s) THEN s[i] ELSE NULL
       IN pmutex[t] = At(1) /\ \A i \in DOMAIN s : next[s[i]] = At(i + 1)

\* in_thread is the owner of a mutex that threads lock and never try; the
\* waiters hand their priority to that thread (mutex.c:172, 263).
OwnerIsHolder ==
    \A m \in Mutex : type[m] \notin Tried =>
       \A t \in User : in_thread[m] = t <=> In(held[t], m)

AllInherit == \A m \in Mutex : m < mutex_id => type[m] = "INHERIT" /\ type[m] \notin Tried

\* Under the inherit policy a thread has its base priority or that of a mutex
\* it has, unless a call is about to change it: when it has given up its last
\* mutex no boost is left, whatever it was boosted by, and in whatever state
\* (mutex.c:211-225, 318-340).
BoostComesFromMutex ==
    AllInherit =>
       \A t \in User \ {found} :
                       \/ priority[t] = base_priority[t]
                       \/ \E m \in Mutex : In(held[t], m) /\ priority[t] = prio[m]

\* The call of a thread that has to wait under the inherit policy leaves an
\* owner that is no less urgent than that thread (mutex.c:316-340), whatever
\* ISRs do before the owner gets its priority.
WaiterLendsPriority ==
    [][\A m \in Mutex :
          AllInherit /\ In(list'[m], current) /\ found' = Boot =>
             priority'[in_thread[m]] <= priority[current]]_vars

\* "The mutex queue is sorted by priority" (mutex.c:146), said of the inherit
\* policy.
QueueSorted ==
    \A m \in Mutex : type[m] = "INHERIT" =>
       \A i, j \in DOMAIN list[m] :
          i < j => priority[list[m][i]] <= priority[list[m][j]]
----------------------------------------------------------------------------
(* The inductive invariant behind the theorems of ErcosMutex_proofs.       *)

\* The ready lists agree with the states of the threads, one of which runs.
Placed ==
    /\ QueuesOK(Thread, Tid, sched_list, MaxPriority, priority)
    /\ \A t \in Thread : /\ Queued(sched_list, t) <=> status[t] = {"READY"}
                         /\ status[t] \in {{}, {"READY"}, {"SEM"}, {"TIME"}}
                         /\ status[t] = {} => t = current
    /\ found = Boot => status[current] = {}

\* A call that has found a thread blocked: its caller runs, or has blocked on
\* a mutex and not scheduled yet, and the thread is where it was found unless
\* it was overtaken.
Asking ==
    /\ found # Boot => /\ current # Idle /\ found # current
                       /\ status[current] \in {{}, {"SEM"}}
                       /\ overtaken = Boot => TaskIsBlocked(found)
    /\ overtaken # Boot => overtaken = found
    /\ found # Boot /\ status[current] = {"SEM"} =>
          \E m \in Mutex : /\ In(list[m], current) /\ in_thread[m] = found
                           /\ wanted = priority[current] /\ wanted = prio[m]

\* A thread that waits for a mutex is in line for one that exists, once.
InLine ==
    /\ \A t \in User : status[t] = {"SEM"} <=> \E m \in Mutex : In(list[m], t)
    /\ \A m, k \in Mutex, t \in User : In(list[m], t) /\ In(list[k], t) => m = k
    /\ \A m \in Mutex : Distinct(list[m]) /\ (m >= mutex_id => list[m] = <<>>)

\* An owner is a thread of the program.  The boot thread stands for nobody:
\* nobody inherits from it, for no priority is higher than its own.
Owned ==
    /\ \A m \in Mutex : in_thread[m] \in User \cup {Boot}
    /\ priority[Boot] = MaxPriority

PlaceInv == TypeOK /\ Placed /\ Asking /\ InLine /\ Owned

\* A thread was overtaken, and has another priority now: there is no step from
\* here.
Ended == overtaken # Boot /\ found = Boot /\ TypeOK /\ Owned /\ OnePlace

\* A thread has a mutex once, and only one that exists.
HeldOnce ==
    \A t \in Thread : /\ Distinct(held[t])
                      /\ \A m \in Mutex : In(held[t], m) => m < mutex_id

HeldInv == PlaceInv /\ MutualExclusion /\ HeldOnce /\ ChainIsHeld /\ OwnerIsHolder
=============================================================================
