----------------------------- MODULE GdbFrames -----------------------------
(***************************************************************************)
(* The exception frames of the m68k debugger stubs (gdb/m68k-stub.c with   *)
(* its assembly, and the older copy under old-gdb).  Every exception saves *)
(* the frame of the CPU below the last one, in memory of a fixed size and  *)
(* with no test of what is left; a resume at the address of a saved frame  *)
(* drops it and the younger ones, any other resume leaves them all behind  *)
(* and goes through a frame made up for it, which is where the code looks  *)
(* at the memory left.                                                     *)
(***************************************************************************)
EXTENDS Integers, Sequences

LOCAL INSTANCE SequencesExt

CONSTANTS
    FrameBytes,  \* size of gdbFrameStack, 2000 in the code
    Addresses    \* where the program may stop or be resumed

ASSUME FrameAssumption == FrameBytes \in Nat /\ Addresses \subseteq Nat \ {0}

VARIABLES
    copy,        \* which of the two stubs runs: "gdb" or "old"
    frames,      \* the list that starts at lastFrame, the oldest first,
                 \* without the frame at the bottom that links to itself; a
                 \* frame is "at" its offset from the start of gdbFrameStack
    stub,        \* what the CPU does: "run" the program, "monitor", "access"
                 \* memory for the host or "return" from the exception
    saved,       \* the program counter and the trace bit in registers[]
    onBusError,  \* the handler of vector 2
    sigval       \* the signal number reported

frameVars == <<copy, frames, stub, saved, onBusError, sigval>>

\* sizeof(Frame), with the two-byte alignment of the m68k.
StructBytes == 26

\* Bytes catchException takes: the words of the CPU frame, then the link, the
\* pc, the vector and the size.
TakenBy(words) == 2 * words + 14

\* The frame at the bottom, and lastFrame.
Bottom == FrameBytes - 4 - StructBytes
LastFrame == IF frames = << >> THEN Bottom ELSE Last(frames).at

\* exceptionSize, by the format of the frames of each vector.
ExceptionSize(vector) ==
    CASE vector = 2         -> 16    \* format 12, bus error
      [] vector \in {5, 9}  -> 6     \* format 2, division and trace
      [] OTHER              -> 4     \* format 0

ComputeSignal(vector) ==
    CASE vector \in {2, 3, 13}              -> 10
      [] vector \in {4, 10, 11}             -> 4
      [] vector \in {5, 6, 7, 40} \cup 48..54 -> 8
      [] vector = 8                         -> 11
      [] vector \in {9, 33}                 -> 5
      [] vector = 31                        -> 2
      [] OTHER                              -> 7

\* set_debug_traps has run; the vectors the program meets are handled.
SetDebugTraps ==
    /\ frames = << >>
    /\ onBusError = "catchException"
    /\ stub = "run"
    /\ saved = [pc |-> 0, trace |-> FALSE]
    /\ sigval = 0

FrameInit == copy \in {"gdb", "old"} /\ SetDebugTraps

\* catchException, then handle_exception reports the signal.
Caught(vector, pc) ==
    /\ frames' = Append(frames, [pc |-> pc, vector |-> vector,
                                 at |-> LastFrame - TakenBy(ExceptionSize(vector))])
    /\ saved' = [saved EXCEPT !.pc = pc]
    /\ sigval' = ComputeSignal(vector)
    /\ stub' = "monitor"
    /\ UNCHANGED <<copy, onBusError>>

CatchException ==
    /\ copy = "gdb" /\ stub = "run"
    /\ \E pc \in Addresses, vector \in IF saved.trace THEN {9} ELSE {2, 33} :
          Caught(vector, pc)

OldCatchException ==
    /\ copy = "old" /\ stub = "run"
    /\ \E pc \in Addresses, vector \in IF saved.trace THEN {9} ELSE {2, 33} :
          Caught(vector, pc)

\* A level 7 interrupt stops the program; while the stub runs at level 7 it
\* returns at once.
DebugLevel7 ==
    /\ stub = "run"
    /\ \E pc \in Addresses : Caught(31, pc)

\* Commands m and M: bus errors of the access are to come back to the stub.
AccessMemory ==
    /\ stub = "monitor"
    /\ stub' = "access"
    /\ onBusError' = "handle_buserror"
    /\ UNCHANGED <<copy, frames, saved, sigval>>

AccessEnds ==
    /\ stub = "access"
    /\ stub' = "monitor"
    /\ onBusError' = "catchException"
    /\ UNCHANGED <<copy, frames, saved, sigval>>

\* handle_buserror jumps out of the access, no frame is made; otherwise the
\* exception is one more to be caught.
BusErrorInAccess ==
    /\ stub = "access"
    /\ IF onBusError = "handle_buserror"
       THEN /\ stub' = "monitor"
            /\ onBusError' = "catchException"
            /\ UNCHANGED <<copy, frames, saved, sigval>>
       ELSE \E pc \in Addresses : Caught(2, pc)

\* The frames a resume at pc may return through; the youngest is taken.
FramesFor(pc) ==
    {i \in DOMAIN frames :
        \/ frames[i].pc = pc
        \/ frames[i].vector = 33 /\ frames[i].pc = pc + 2}

\* The older frames when the stack has crept too far down: reset to the top.
\* Mutant of RoomChecked: never reset.
RoomUnchecked(room) == TRUE
RoomChecked(room) == room - 3 * StructBytes >= 0

MadeUp == [pc |-> 0, vector |-> 0, at |-> LastFrame - StructBytes]

\* Commands c and s, with the address or without.
Resume(pc, stepping) ==
    /\ stub = "monitor"
    /\ saved' = [pc |-> pc, trace |-> stepping]
    /\ \/ \E i \in FramesFor(pc) :
             /\ \A j \in FramesFor(pc) : j <= i
             /\ frames' = SubSeq(frames, 1, i)
       \/ /\ FramesFor(pc) = {}
          /\ frames' = IF RoomChecked(LastFrame) THEN Append(frames, MadeUp) ELSE << >>
    /\ stub' = "return"
    /\ UNCHANGED <<copy, onBusError, sigval>>

HandleException ==
    copy = "gdb" /\ \E pc \in Addresses, step \in BOOLEAN : Resume(pc, step)

OldHandleException ==
    copy = "old" /\ \E pc \in Addresses, step \in BOOLEAN : Resume(pc, step)

\* _returnFromException and return_to_any: the frame is unlinked as it is left.
\* The frame at the bottom links to itself.
ReturnFromException ==
    /\ stub = "return"
    /\ frames' = IF frames = << >> THEN << >> ELSE Front(frames)
    /\ stub' = "run"
    /\ UNCHANGED <<copy, saved, onBusError, sigval>>

FrameNext ==
    \/ CatchException \/ OldCatchException \/ DebugLevel7
    \/ AccessMemory \/ AccessEnds \/ BusErrorInAccess
    \/ HandleException \/ OldHandleException \/ ReturnFromException

FrameSpec == FrameInit /\ [][FrameNext]_frameVars

---------------------------------------------------------------------------
\* However the host resumes the program and whatever its accesses to memory
\* do, no frame is put below the start of gdbFrameStack, although
\* catchException does not look: "if it creeps too far, give up and reset it".
FrameStackHolds == LastFrame >= 0
=============================================================================
