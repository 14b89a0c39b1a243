----------------------------- MODULE ReadyQueue -----------------------------
(***************************************************************************)
(* The ready queues of the ERCOS-RT scheduler (src/src/sched.c) and the    *)
(* list operations they use (src/src/list.c), as operators on values.      *)
(*                                                                         *)
(* There is one FIFO list of TCBs for each priority; 0 is the highest      *)
(* priority.  A list of linked nodes is modelled by the sequence of the    *)
(* threads whose nodes it links, and the node's `inside' flag by           *)
(* membership: OS_ListInsert and OS_ListAppend do nothing when the node is *)
(* already inside a list, OS_ListExtract nothing when it is not.           *)
(*                                                                         *)
(* An operator says what a whole operation does.  An ISR does it whole,    *)
(* with the interrupts disabled; a system call and the epilogue do not,    *)
(* and module ErcosSched takes them apart.                                 *)
(***************************************************************************)
EXTENDS Integers, Sequences

CONSTANT MaxPrio    \* CONFIG_ERCOS_MAX_PRIO

ASSUME MaxPrioAssumption == MaxPrio \in Nat \ {0}

Prio == 0 .. (MaxPrio - 1)

MinPriority == MaxPrio - 1      \* SCHED_MIN_PRIORITY, the idle thread's
MaxPriority == 0                \* SCHED_MAX_PRIORITY, the main thread's

----------------------------------------------------------------------------
(* Lists.                                                                  *)

In(s, t) == \E i \in DOMAIN s : s[i] = t

Distinct(s) == \A i, j \in DOMAIN s : s[i] = s[j] => i = j

\* OS_ListExtract on the list s: every other node keeps its place.
Without(s, t) ==
    IF In(s, t)
    THEN LET i == CHOOSE j \in DOMAIN s : s[j] = t
         IN  SubSeq(s, 1, i - 1) \o SubSeq(s, i + 1, Len(s))
    ELSE s

----------------------------------------------------------------------------
(* sched_list.                                                             *)

EmptyQueues == [p \in Prio |-> <<>>]

Queued(q, t) == \E p \in Prio : In(q[p], t)

\* OS_SchedAddQueueTail: a thread that becomes ready goes behind its peers.
AddTail(q, t, p) ==
    IF Queued(q, t) THEN q ELSE [q EXCEPT ![p] = Append(@, t)]

\* Mutant of AddHead: a thread that loses the processor also loses its turn.
AddHeadAtTail(q, t, p) == AddTail(q, t, p)

\* OS_SchedAddQueueHead: a thread that loses the processor goes before them.
AddHead(q, t, p) ==
    IF Queued(q, t) THEN q ELSE [q EXCEPT ![p] = <<t>> \o @]

\* Mutant of RemoveThread: the node stays where it was.
RemoveNothing(q, t, p) == q

\* OS_SchedRemoveThread: the thread leaves the list of priority p.
RemoveThread(q, t, p) == [q EXCEPT ![p] = Without(@, t)]

\* Mutants of Lower: the index moves one list too far, or not at all.
LowerTooFar(i, p) == IF p < i THEN p ELSE i - 1
NotLowered(i, p) == i

\* Both insertions lower sched_queue_i to the priority of the new thread,
\* whether or not OS_ListInsert or OS_ListAppend then does something.  This is
\* the test and the write with no interrupt in between.
Lower(i, p) == IF p < i THEN p ELSE i

\* Mutant of ScanStops: the index moves before the first list is looked at.
ScanSkipsFirst(q, i, p) ==
    /\ q[p] # <<>>
    /\ \A r \in Prio :
          (IF i < p THEN i < r /\ r < p ELSE i < r \/ r < p) => q[r] = <<>>

\* The loop of OS_Schedule moves sched_queue_i up, modulo MaxPrio, past the
\* empty lists and stops at p.
ScanStops(q, i, p) ==
    /\ q[p] # <<>>
    /\ \A r \in Prio :
          (IF i <= p THEN i <= r /\ r < p ELSE i <= r \/ r < p) => q[r] = <<>>

----------------------------------------------------------------------------

\* The ready queues q of the threads in S, the scan index i and the priorities
\* pr agree: every list above the index is empty, and a queued thread is in the
\* list of its own priority, once.
QueuesOK(S, T, q, i, pr) ==
    /\ S \subseteq T
    /\ q \in [Prio -> Seq(S)]
    /\ i \in Prio
    /\ pr \in [T -> Prio]
    /\ \A p \in Prio : p < i => q[p] = <<>>
    /\ \A p \in Prio : Distinct(q[p])
    /\ \A p \in Prio : \A t \in S : In(q[p], t) => pr[t] = p
=============================================================================
