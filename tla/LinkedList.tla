----------------------------- MODULE LinkedList -----------------------------
(***************************************************************************)
(* The intrusive lists of list.c at the level of their pointers.  A thread *)
(* carries out an operation statement by statement, because the kernel     *)
(* works on its lists with the interrupts enabled; an ISR carries out a    *)
(* whole operation between two statements of the thread.                   *)
(*                                                                         *)
(* listRole says which list it is, and so what each side does with it:     *)
(*   "ready"  a ready list: threads append, insert and extract; an ISR     *)
(*            that wakes a thread appends;                                 *)
(*   "time"   the time queue: OS_DoSleep looks for the place and inserts,  *)
(*            a post extracts; OS_ClockBottomISR takes the first node;     *)
(*   "sem"    the waiters of a semaphore: a wait appends, a post takes the *)
(*            first; a timeout extracts.                                   *)
(* num++ and num-- are one statement, as on ia32 and m68k.                 *)
(***************************************************************************)
EXTENDS Integers, Sequences, FiniteSets

LOCAL INSTANCE SequencesExt

CONSTANTS
    Node,      \* the nodes
    Deadline   \* [Node -> Nat], the abs_timeout of the thread of each node

Null == "NULL"

ASSUME ListAssumption == Null \notin Node /\ Deadline \in [Node -> Nat]

VARIABLES
    listRole,
    list,    \* header and nodes: first, last, num, next, prev, inside
    call,    \* the operation that the thread is in
    queue,   \* history: the sequence that the list should stand for
    hit      \* history: an ISR came in between two statements that rely on
             \* one another

listVars == <<listRole, list, call, queue, hit>>

\* A call is statement at of operation op on node n; r is the pointer that
\* the last test read, h the node to link behind.
ListCall(op, n) == [op |-> op, n |-> n, at |-> 1, r |-> Null, h |-> Null]
NoCall == ListCall("none", Null)

\* OS_ListReset, and OS_ListNodeReset of every node.
EmptyList == [first |-> Null, last |-> Null, num |-> 0,
              next |-> [n \in Node |-> Null], prev |-> [n \in Node |-> Null],
              inside |-> [n \in Node |-> FALSE]]

---------------------------------------------------------------------------
(* The statements: the list after statement c.at of an operation.          *)

SetNext(l, n, x) == IF n # Null THEN [l EXCEPT !.next[n] = x]
                                ELSE [l EXCEPT !.first = x]
SetPrev(l, n, x) == IF n # Null THEN [l EXCEPT !.prev[n] = x]
                                ELSE [l EXCEPT !.last = x]

Linked(l, c, last) ==      \* num++ and inside = 1, in either order
    IF c.at = last THEN [l EXCEPT !.inside[c.n] = TRUE]
                   ELSE [l EXCEPT !.num = @ + 1]

OS_ListAppend(l, c) ==
    CASE c.at = 1 -> [l EXCEPT !.next[c.n] = Null]
      [] c.at = 2 -> [l EXCEPT !.prev[c.n] = l.last]
      [] c.at = 3 -> SetNext(l, c.r, c.n)
      [] c.at = 4 -> [l EXCEPT !.last = c.n]
      [] OTHER    -> Linked(l, c, 6)

\* Mutant of OS_ListInsert: an empty list keeps its last.
OS_ListInsertNoLast(l, c) ==
    CASE c.at = 1 -> [l EXCEPT !.prev[c.n] = Null]
      [] c.at = 2 -> [l EXCEPT !.next[c.n] = l.first]
      [] c.at = 3 -> IF c.r = Null THEN l ELSE SetPrev(l, c.r, c.n)
      [] c.at = 4 -> [l EXCEPT !.first = c.n]
      [] OTHER    -> Linked(l, c, 6)
OS_ListInsert(l, c) ==
    CASE c.at = 1 -> [l EXCEPT !.prev[c.n] = Null]
      [] c.at = 2 -> [l EXCEPT !.next[c.n] = l.first]
      [] c.at = 3 -> SetPrev(l, c.r, c.n)
      [] c.at = 4 -> [l EXCEPT !.first = c.n]
      [] OTHER    -> Linked(l, c, 6)

OS_ListAdd(l, c) ==
    CASE c.at = 1 -> l                        \* reads head->next
      [] c.at = 2 -> SetPrev(l, c.r, c.n)
      [] c.at = 3 -> [l EXCEPT !.next[c.n] = c.r]
      [] c.at = 4 -> [l EXCEPT !.prev[c.n] = c.h]
      [] c.at = 5 -> SetNext(l, c.h, c.n)
      [] OTHER    -> Linked(l, c, 6)

Unlink(l, c, inside) ==    \* inside = 0 is statement inside, num-- the other
    CASE c.at \in {1, 3} -> l                 \* reads n->next, n->prev
      [] c.at = 2 -> SetPrev(l, c.r, l.prev[c.n])
      [] c.at = 4 -> SetNext(l, c.r, l.next[c.n])
      [] c.at = 5 -> [l EXCEPT !.next[c.n] = Null, !.prev[c.n] = Null]
      [] c.at = inside -> [l EXCEPT !.inside[c.n] = FALSE]
      [] OTHER -> [l EXCEPT !.num = @ - 1]

OS_ListExtract(l, c) == Unlink(l, c, 6)
OS_ListGetNode(l, c) == Unlink(l, c, 7)

Statement(l, c) ==
    CASE c.op = "append"  -> OS_ListAppend(l, c)
      [] c.op = "insert"  -> OS_ListInsert(l, c)
      [] c.op = "add"     -> OS_ListAdd(l, c)
      [] c.op = "extract" -> OS_ListExtract(l, c)
      [] c.op = "getnode" -> OS_ListGetNode(l, c)

Length(c) == IF c.op \in {"add", "extract", "getnode"} THEN 7 ELSE 6

\* The pointer that a statement reads and a later one uses.
Read(l, c) ==
    CASE c.op = "append" /\ c.at = 2 -> l.last
      [] c.op = "insert" /\ c.at = 2 -> l.first
      [] c.op = "add" /\ c.at = 1 -> l.next[c.h]
      [] c.op \in {"extract", "getnode"} /\ c.at = 1 -> l.next[c.n]
      [] c.op \in {"extract", "getnode"} /\ c.at = 3 -> l.prev[c.n]
      [] OTHER -> c.r

\* The call one statement further, and the list with it.
Onward(l, c) == [c EXCEPT !.at = @ + 1, !.r = Read(l, c)]
Further(s) == <<Statement(s[1], s[2]), Onward(s[1], s[2])>>

\* A whole operation, as an ISR carries it out.
Whole(l, op, n) ==
    LET three(s) == Further(Further(Further(s)))
        six == three(three(<<l, ListCall(op, n)>>))
    IN IF Length(ListCall(op, n)) = 6 THEN six[1] ELSE Further(six)[1]

---------------------------------------------------------------------------
(* The history: what the sequence becomes, and when an ISR does harm.      *)

\* A sleeper belongs behind those that are due no later.
Sorted(n) ==
    InsertAt(queue, 1 + Cardinality({i \in DOMAIN queue :
                                         Deadline[queue[i]] <= Deadline[n]}), n)

Without(s, n) ==
    IF \E i \in DOMAIN s : s[i] = n
    THEN RemoveAt(s, CHOOSE i \in DOMAIN s : s[i] = n)
    ELSE s

\* The statement by which the node is in the list or out of it.
TakesEffect(c) ==
    CASE <<c.op, c.at>> \in {<<"append", 4>>, <<"insert", 4>>, <<"add", 5>>} ->
             CASE listRole = "time" -> Sorted(c.n)
               [] listRole # "time" /\ c.op = "append" -> Append(queue, c.n)
               [] OTHER -> <<c.n>> \o queue
      [] c.op \in {"extract", "getnode"} /\ c.at = 4 -> Without(queue, c.n)
      [] OTHER -> queue

\* The thread is at work on the end of the list, where an ISR appends.
AtTail(c) ==
    \/ c.op = "append" /\ c.at \in 3..4
    \/ c.op = "insert" /\ c.at = 3 /\ c.r = Null
    \/ c.op = "extract" /\ c.at \in 2..4 /\ list.next[c.n] = Null

\* The nodes whose links the thread reads or writes.
Near(c) ==
    IF c.n = Null THEN {} ELSE {c.n, c.r, c.h, list.prev[c.n], list.next[c.n]}

---------------------------------------------------------------------------
ListInit ==
    /\ listRole \in {"ready", "time", "sem"}
    /\ list = EmptyList
    /\ call = NoCall
    /\ queue = <<>>
    /\ hit = FALSE

Start(c) ==
    /\ call = NoCall /\ ~hit
    /\ call' = c
    /\ UNCHANGED <<listRole, list, queue, hit>>

StartAppend(n) ==
    /\ listRole \in {"ready", "sem"} /\ ~list.inside[n]
    /\ Start(ListCall("append", n))

StartInsert(n) ==
    /\ listRole = "ready" /\ ~list.inside[n]
    /\ Start(ListCall("insert", n))

StartExtract(n) ==
    /\ listRole \in {"ready", "time"} /\ list.inside[n]
    /\ Start(ListCall("extract", n))

StartGetNode ==
    /\ listRole = "sem" /\ list.first # Null
    /\ Start(ListCall("getnode", list.first))

\* OS_DoSleep: into an empty queue at once, else the loop begins.
StartSleep(n) ==
    /\ listRole = "time" /\ ~list.inside[n]
    /\ Start(IF list.num = 0 THEN ListCall("insert", n)
             ELSE [ListCall("walk", n) EXCEPT !.r = list.first])

\* The loop of OS_DoSleep looks at the node c.r.
WalkStep(c) ==
    CASE c.r = Null -> ListCall("append", c.n)
      [] c.r # Null /\ Deadline[c.r] > Deadline[c.n] ->
             IF list.prev[c.r] = Null THEN ListCall("insert", c.n)
             ELSE [ListCall("add", c.n) EXCEPT !.h = list.prev[c.r]]
      [] OTHER -> [c EXCEPT !.r = list.next[c.r]]

Walk ==
    /\ call.op = "walk"
    /\ call' = WalkStep(call)
    /\ UNCHANGED <<listRole, list, queue, hit>>

DoStatement ==
    /\ call.op \notin {"none", "walk"}
    /\ list' = Statement(list, call)
    /\ call' = IF call.at = Length(call) THEN NoCall
               ELSE Onward(list, call)
    /\ queue' = TakesEffect(call)
    /\ UNCHANGED <<listRole, hit>>

\* OS_Schedule takes the first thread with the interrupts disabled.
TakeFirst ==
    /\ listRole = "ready" /\ call = NoCall /\ ~hit /\ list.first # Null
    /\ list' = Whole(list, "getnode", list.first)
    /\ queue' = Tail(queue)
    /\ UNCHANGED <<listRole, call, hit>>

\* OS_SchedTaskReady in an ISR, of a thread other than the one at hand.
IsrAppends(n) ==
    /\ listRole = "ready" /\ ~hit /\ ~list.inside[n] /\ n # call.n
    /\ list' = Whole(list, "append", n)
    /\ queue' = Append(queue, n)
    /\ hit' = AtTail(call)
    /\ UNCHANGED <<listRole, call>>

IsrRemoves(op, n) ==
    /\ ~hit
    /\ list' = Whole(list, op, n)
    /\ queue' = Without(queue, n)
    /\ hit' = (n \in Near(call))
    /\ UNCHANGED <<listRole, call>>

\* OS_ClockBottomISR wakes the first sleeper.
IsrGetsNode ==
    /\ listRole = "time" /\ list.first # Null
    /\ IsrRemoves("getnode", list.first)

\* OS_SemExtracThreadFromList takes a waiter whose timeout is over.
IsrExtracts(n) ==
    /\ listRole = "sem" /\ list.inside[n]
    /\ IsrRemoves("extract", n)

ListNext ==
    \/ \E n \in Node : \/ StartAppend(n) \/ StartInsert(n) \/ StartExtract(n)
                       \/ StartSleep(n) \/ IsrAppends(n) \/ IsrExtracts(n)
    \/ StartGetNode \/ Walk \/ DoStatement \/ TakeFirst \/ IsrGetsNode

ListSpec == ListInit /\ [][ListNext]_listVars

---------------------------------------------------------------------------
\* From n on, the pointers p meet the nodes of s one after the other, then Null.
Spells(p, n, s) ==
    LET met == Append(s, Null)
    IN n = met[1] /\ \A i \in DOMAIN s : p[s[i]] = met[i + 1]

\* Between two operations the header, both chains of pointers, the count and
\* the flags of the nodes all spell the sequence that the operations of the
\* thread and of the ISRs should have made, in the right order - unless an ISR
\* appended while the thread was at work on the end of the list, or took out a
\* node next to the thread's.  Everywhere else inside an operation of list.c,
\* and inside the loop of OS_DoSleep, an ISR does no harm.
PointersSpellQueue ==
    call = NoCall /\ ~hit =>
        /\ Spells(list.next, list.first, queue)
        /\ Spells(list.prev, list.last, Reverse(queue))
        /\ list.num = Len(queue)
        /\ \A n \in Node : list.inside[n] <=> n \in ToSet(queue)
=============================================================================
