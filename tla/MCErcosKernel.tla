--------------------------- MODULE MCErcosKernel ---------------------------
(***************************************************************************)
(* ErcosKernel for TLC, and the check that it implements SchedCalls:       *)
(* waiting there is being in a semaphore list or in the time queue here,   *)
(* and a call that has found a semaphore taken has done nothing yet.       *)
(***************************************************************************)
EXTENDS ErcosKernel

Waiting == {t \in Thread : Waits(t)}

\* TS_SEM_BLOCKED and TS_TIME_BLOCKED are one bit there.
SchedFlags(flags) ==
    (flags \cap {"READY"}) \cup (IF flags \cap {"SEM", "TIME"} # {} THEN {"BLOCKED"} ELSE {})

SchedStatus == [t \in Tid |-> SchedFlags(status[t])]

SchedPlace ==
    IF pc \in {"events", "clear", "sched"}
    THEN IF need_reesched THEN "body" ELSE "epilogue"
    ELSE IF pc = "queue" THEN "entry" ELSE pc

Sched == INSTANCE SchedCalls
           WITH status <- SchedStatus, waiting <- Waiting, pc <- SchedPlace

\* Semaphores, timeouts and events reach the ready queues only by the wake-ups
\* and the blocking calls that SchedCalls allows, and none is without the
\* schedule that has to follow it (sem.c, time.c:231-268, irqev.c:95-120).
ImplementsSched == Sched!Spec
=============================================================================
