---------------------------- MODULE MCErcosParts ----------------------------
(***************************************************************************)
(* The parts that share no state with ErcosKernel or with one another, for *)
(* TLC: the first step of a behaviour chooses the part that runs, and the  *)
(* variables of the others stay as they are.  Each of them is checked by   *)
(* itself; nothing is said of two of them together.                        *)
(***************************************************************************)
EXTENDS LinkedList, TracerRing, TraceEvent, GdbFrames, GdbLine, SparcWindows,
        Mc68332Timer, M68kTraps, Ia32Fpu, Ia32Irq, SparcTraps

CONSTANTS node1, node2, node3      \* the nodes of the lists, two of them due together

VARIABLE part

DeadlineOf == [n \in {node1, node2, node3} |-> IF n = node3 THEN 2 ELSE 1]

partsVars == <<listVars, tracerVars, traceVars, frameVars,
              lineVars, windowVars, timerVars, trapVars,
              fpuVars, irqVars, trapTableVars,
              part>>

Parts == {"lists", "tracer", "event", "frames", "line", "windows",
          "timer", "m68k", "fpu", "ia32", "sparc"}

\* What another part starts with does not matter, and is one state.
Pinned ==
    /\ part # "lists" => listRole = "ready"
    /\ part # "frames" => copy = "gdb"
    /\ part # "line" => limit = BufMax
    /\ part # "windows" => fast /\ running = CHOOSE t \in Tasks : TRUE
    /\ part # "ia32" => current32 = (CHOOSE t \in Runners : TRUE) /\ tracer32
    /\ part # "sparc" => board = "erc32" /\ fpu.config /\ fpu.unit

PartsInit ==
    /\ part \in Parts
    /\ ListInit /\ TracerInit /\ TraceInit /\ FrameInit
    /\ LineInit /\ WindowInit /\ TimerInit /\ TrapStart
    /\ FpuInit /\ Ia32Start /\ TrapsAtReset
    /\ Pinned

PartsNext ==
    /\ UNCHANGED part
    /\ \/ /\ part = "lists" /\ ListNext
          /\ UNCHANGED <<tracerVars, traceVars, frameVars, lineVars, windowVars,
                         timerVars, trapVars, fpuVars, irqVars, trapTableVars>>
       \/ /\ part = "tracer" /\ TracerNext
          /\ UNCHANGED <<listVars, traceVars, frameVars, lineVars, windowVars,
                         timerVars, trapVars, fpuVars, irqVars, trapTableVars>>
       \/ /\ part = "event" /\ TraceNext
          /\ UNCHANGED <<listVars, tracerVars, frameVars, lineVars, windowVars,
                         timerVars, trapVars, fpuVars, irqVars, trapTableVars>>
       \/ /\ part = "frames" /\ FrameNext
          /\ UNCHANGED <<listVars, tracerVars, traceVars, lineVars, windowVars,
                         timerVars, trapVars, fpuVars, irqVars, trapTableVars>>
       \/ /\ part = "line" /\ LineNext
          /\ UNCHANGED <<listVars, tracerVars, traceVars, frameVars, windowVars,
                         timerVars, trapVars, fpuVars, irqVars, trapTableVars>>
       \/ /\ part = "windows" /\ WindowNext
          /\ UNCHANGED <<listVars, tracerVars, traceVars, frameVars, lineVars,
                         timerVars, trapVars, fpuVars, irqVars, trapTableVars>>
       \/ /\ part = "timer" /\ TimerNext
          /\ UNCHANGED <<listVars, tracerVars, traceVars, frameVars, lineVars,
                         windowVars, trapVars, fpuVars, irqVars, trapTableVars>>
       \/ /\ part = "m68k" /\ TrapNext
          /\ UNCHANGED <<listVars, tracerVars, traceVars, frameVars, lineVars,
                         windowVars, timerVars, fpuVars, irqVars, trapTableVars>>
       \/ /\ part = "fpu" /\ FpuNext
          /\ UNCHANGED <<listVars, tracerVars, traceVars, frameVars, lineVars,
                         windowVars, timerVars, trapVars, irqVars, trapTableVars>>
       \/ /\ part = "ia32" /\ Ia32Next
          /\ UNCHANGED <<listVars, tracerVars, traceVars, frameVars, lineVars,
                         windowVars, timerVars, trapVars, fpuVars, trapTableVars>>
       \/ /\ part = "sparc" /\ TrapTableNext
          /\ UNCHANGED <<listVars, tracerVars, traceVars, frameVars, lineVars,
                         windowVars, timerVars, trapVars, fpuVars, irqVars>>

PartsSpec == PartsInit /\ [][PartsNext]_partsVars /\ WF_lineVars(part = "line" /\ LineNext)
=============================================================================
