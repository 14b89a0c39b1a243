---------------------------- MODULE MCErcosSched ----------------------------
(***************************************************************************)
(* ErcosSched for TLC, and its refinement of PriorityLine: the line is     *)
(* what the lists say when they are read from priority 0 down.             *)
(***************************************************************************)
EXTENDS ErcosSched

\* In the queues q thread t stands before thread u: in a list of higher
\* priority, or nearer to the head of the same list.
Before(q, t, u) ==
    \E p, r \in Prio : \E i \in DOMAIN q[p], j \in DOMAIN q[r] :
       /\ q[p][i] = t /\ q[r][j] = u
       /\ p < r \/ (p = r /\ i < j)

\* The queued threads in that order: the k-th has k - 1 before it.
LineOf(q) ==
    LET ready == {t \in Thread : Queued(q, t)}
        earlier(t) == {u \in ready : Before(q, u, t)}
    IN  [k \in 1 .. Cardinality(ready) |->
            CHOOSE t \in ready : Cardinality(earlier(t)) = k - 1]

\* The threads that neither have the processor nor stand in a list.
Away == {t \in Tid : ~Queued(sched_list, t) /\ ~(t = current /\ Settled)}

Line == INSTANCE PriorityLine
          WITH line <- LineOf(sched_list),
               exec <- current,
               prio <- priority,
               away <- Away,
               Thread <- Tid,
               Priorities <- Prio

\* The array of lists and its index behave as one line sorted by priority
\* and turn, until an ISR comes between the statements of a call: the dispatched
\* thread is the first of the line, a preempted thread keeps its turn and a woken
\* one goes behind its peers.
ImplementsPriorityLine == Line!Init /\ [][broken' # "none" \/ Line!Next]_(Line!vars)
=============================================================================
