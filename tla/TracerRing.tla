----------------------------- MODULE TracerRing -----------------------------
(***************************************************************************)
(* The trace buffer of tracer.c.  Threads and ISRs save events, the idle   *)
(* thread sends them.  A thread saves inside a system call, so the idle    *)
(* thread never sees its save half done; an ISR may save inside the save   *)
(* of a thread, and both may come between any two steps of the idle        *)
(* thread, whose memcpy copies the event, the crc and the number in turn.  *)
(*                                                                         *)
(* An event stands for itself: its content is the number that it was given *)
(* when it was saved.  The crc of an event is the pair of what it covers.  *)
(***************************************************************************)
EXTENDS Integers

CONSTANTS
    TracerSize,    \* CONFIG_ERCOS_TRACER_BUFF_SIZE
    SeqRange,      \* 2^16 scaled down: how many sequence numbers there are
    MaxLag,        \* bound: how far the reader falls behind, < SeqRange
    MaxNested      \* bound: events that ISRs save within one save

ASSUME TracerAssumption ==
    /\ {TracerSize, SeqRange, MaxLag, MaxNested} \subseteq Nat
    /\ TracerSize > 0 /\ MaxLag < SeqRange

Half == SeqRange \div 2
Slot == 0..(TracerSize - 1)
Nothing == -1      \* the content of a slot that was never written

VARIABLES
    tb,        \* the buffer: event, crc and number of each slot
    rcur, wcur, rseq, wseq,
    saving,    \* the save of a thread: [at, slot, ev], and how many ISRs
    reading,   \* the reader: [at, tmp]
    sent,      \* history: the last event sent
    lag        \* history: events saved after the last one sent

tracerVars == <<tb, rcur, wcur, rseq, wseq, saving, reading, sent, lag>>

\* Mutant of Crc: the number is not covered.
CrcOfEvent(ev, seq) == <<ev>>
Crc(ev, seq) == <<ev, seq>>
Blank(seq) == [ev |-> Nothing, crc |-> Crc(Nothing, Nothing), seq |-> seq]
NotSaving == [at |-> "no", slot |-> 0, ev |-> 0, nested |-> 0]

\* Mutants of Grater: numbers that do not wrap, any other number.
GraterNoWrap(a, b) == a < b
GraterIfOther(a, b) == a # b

\* _OS_TracerGrater: b comes after a, in numbers that wrap.
Grater(a, b) ==
    IF a < Half THEN a < b /\ b < a + Half
                ELSE a < b \/ b < (a + Half) % SeqRange

\* OS_TracerInit; the other slots are zero since the program was loaded.
TracerInit ==
    /\ tb = [i \in Slot |-> IF i = 0 THEN Blank(SeqRange - 1) ELSE Blank(0)]
    /\ rcur = 0 /\ wcur = 0
    /\ rseq = SeqRange - 1 /\ wseq = 0
    /\ saving = NotSaving
    /\ reading = [at |-> "test", tmp |-> Blank(0)]
    /\ sent = Blank(0)
    /\ lag = 0

NextSlot(i) == (i + 1) % TracerSize

\* The part with the interrupts disabled: a number and a slot.
Reserve(ev) ==
    /\ lag < MaxLag
    /\ wcur' = NextSlot(wcur)
    /\ wseq' = (wseq + 1) % SeqRange
    /\ lag' = lag + 1
    /\ UNCHANGED <<rcur, rseq, reading, sent>>

SaveReserve ==
    /\ saving.at = "no"
    /\ Reserve(wseq)
    /\ tb' = [tb EXCEPT ![wcur].seq = wseq]
    /\ saving' = [at |-> "copy", slot |-> wcur, ev |-> wseq, nested |-> 0]

SaveCopy ==
    /\ saving.at = "copy"
    /\ tb' = [tb EXCEPT ![saving.slot].ev = saving.ev]
    /\ saving' = [saving EXCEPT !.at = "crc"]
    /\ UNCHANGED <<rcur, wcur, rseq, wseq, reading, sent, lag>>

SaveCrc ==
    /\ saving.at = "crc"
    /\ tb' = [tb EXCEPT ![saving.slot].crc = Crc(saving.ev, tb[saving.slot].seq)]
    /\ saving' = NotSaving
    /\ UNCHANGED <<rcur, wcur, rseq, wseq, reading, sent, lag>>

\* A KTRACE of an ISR: a whole save.
IsrSave ==
    /\ saving.nested < MaxNested
    /\ Reserve(wseq)
    /\ tb' = [tb EXCEPT ![wcur] = [ev |-> wseq, crc |-> Crc(wseq, wseq), seq |-> wseq]]
    /\ saving' = IF saving.at = "no" THEN saving ELSE [saving EXCEPT !.nested = @ + 1]

---------------------------------------------------------------------------
\* The idle thread runs when no thread is in a system call.
Reader(at) == saving.at = "no" /\ reading.at = at

\* While the next slot holds nothing new the thread powers the CPU down, until an
\* interrupt lets it look again; on ia32 it does not (misc.c:200).
ReadTest ==
    /\ Reader("test") /\ Grater(rseq, tb[rcur].seq)
    /\ reading' = [reading EXCEPT !.at = "ev"]
    /\ UNCHANGED <<tb, rcur, wcur, rseq, wseq, saving, sent, lag>>

CopyNext == [ev |-> "crc", crc |-> "seq", seq |-> "send"]

ReadCopy ==
    /\ \E field \in {"ev", "crc", "seq"} :
          /\ Reader(field)
          /\ reading' = [at |-> CopyNext[field],
                         tmp |-> [reading.tmp EXCEPT ![field] = tb[rcur][field]]]
    /\ UNCHANGED <<tb, rcur, wcur, rseq, wseq, saving, sent, lag>>

\* How many of the events saved are newer than number seq.
NewerThan(seq) == (wseq - 1 - seq) % SeqRange

Send ==
    /\ Reader("send")
    /\ reading' = [reading EXCEPT !.at = "test"]
    /\ IF Grater(rseq, reading.tmp.seq)
       THEN /\ sent' = reading.tmp
            /\ rseq' = reading.tmp.seq
            /\ rcur' = NextSlot(rcur)
            /\ lag' = NewerThan(reading.tmp.seq)
       ELSE UNCHANGED <<sent, rseq, rcur, lag>>
    /\ UNCHANGED <<tb, wcur, wseq, saving>>

TracerNext ==
    SaveReserve \/ SaveCopy \/ SaveCrc \/ IsrSave \/ ReadTest \/ ReadCopy \/ Send

TracerSpec == TracerInit /\ [][TracerNext]_tracerVars

---------------------------------------------------------------------------
\* An event on the line whose crc is right carries the content that was saved
\* under its number: a slot that was reserved and not yet filled, or that was
\* overwritten while the idle thread copied it, never passes for an event.
\* Needs fewer events of ISRs within one save than the buffer has slots.
TraceIsTruthful ==
    sent.ev # Nothing /\ sent.crc = Crc(sent.ev, sent.seq) => sent.ev = sent.seq

\* An event is sent at most once and after all that were sent before it.
TraceInOrder ==
    [][sent' # sent => (sent'.seq - rseq) % SeqRange \in 1..lag]_tracerVars

\* The idle thread powers the processor down only when it has sent the last
\* event saved, however often the writers have lapped it - unless it is half
\* the range of the numbers behind, from where on new events look old.
ReaderCatchesUp ==
    Reader("test") /\ ~Grater(rseq, tb[rcur].seq) => lag = 0 \/ lag >= Half
=============================================================================
