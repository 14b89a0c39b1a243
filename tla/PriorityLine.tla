---------------------------- MODULE PriorityLine ----------------------------
(***************************************************************************)
(* What the ERCOS-RT scheduler promises: the ready threads stand in one    *)
(* line, sorted by priority, and the processor is given to the thread at   *)
(* its head.  A thread that becomes ready stands behind the threads of its *)
(* own priority; the thread that loses the processor without having        *)
(* blocked stands before them, so it keeps its turn.  A thread that is     *)
(* neither in the line nor executing is away until it becomes ready.       *)
(*                                                                         *)
(* ErcosSched implements this with an array of lists and an index that     *)
(* only remembers a lower bound of the first one in use.                   *)
(***************************************************************************)
EXTENDS Integers, Sequences, FiniteSets, SequencesExt

CONSTANTS Thread, Priorities

VARIABLES line,     \* the ready threads, in the order they will run
          exec,     \* the thread that was given the processor last
          prio,     \* the priority of each thread
          away      \* the threads that are not ready

vars == <<line, exec, prio, away>>

InLine(t) == \E i \in DOMAIN line : line[i] = t

\* The line l with t behind every thread of its priority, or before them,
\* when the priorities are pr.
Behind(l, t, pr) ==
    InsertAt(l, Cardinality({i \in DOMAIN l : pr[l[i]] <= pr[t]}) + 1, t)
Ahead(l, t, pr) ==
    InsertAt(l, Cardinality({i \in DOMAIN l : pr[l[i]] < pr[t]}) + 1, t)

\* exec has the processor: it has neither offered it nor left it.
Busy == ~InLine(exec) /\ exec \notin away

Init == /\ line \in Seq(Thread)
        /\ \A i, j \in DOMAIN line :
              i < j => line[i] # line[j] /\ prio[line[i]] <= prio[line[j]]
        /\ exec \in Thread
        /\ ~InLine(exec)
        /\ prio \in [Thread -> Priorities]
        /\ away = {t \in Thread : ~InLine(t) /\ t # exec}

\* A thread becomes ready; exec itself may do so when it has left the processor
\* and that has not been taken from it yet.
Arrive == \E t \in away :
             /\ line' = Behind(line, t, prio)
             /\ away' = away \ {t}
             /\ UNCHANGED <<exec, prio>>

\* The executing thread offers the processor.
Yield == /\ Busy
         /\ line' = Ahead(line, exec, prio)
         /\ UNCHANGED <<exec, prio, away>>

\* The executing thread leaves the processor until it becomes ready again.
Leave == /\ Busy
         /\ away' = away \cup {exec}
         /\ UNCHANGED <<line, exec, prio>>

\* The executing thread changes the priority of a thread that is not in the line,
\* or takes it out of the line to do so.
Reprioritise ==
    /\ Busy
    /\ \E t \in Thread, p \in Priorities :
          /\ prio' = [prio EXCEPT ![t] = p]
          /\ \/ ~InLine(t) /\ UNCHANGED <<line, away>>
             \/ \E k \in DOMAIN line : /\ line[k] = t
                                       /\ line' = RemoveAt(line, k)
                                       /\ away' = away \cup {t}
    /\ UNCHANGED exec

\* The processor is free and goes to the head of the line.
Take == /\ ~Busy
        /\ line # <<>>
        /\ exec' = Head(line)
        /\ line' = Tail(line)
        /\ UNCHANGED <<prio, away>>

Next == Arrive \/ Yield \/ Leave \/ Reprioritise \/ Take

Spec == Init /\ [][Next]_vars
=============================================================================
