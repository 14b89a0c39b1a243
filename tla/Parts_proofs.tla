---------------------------- MODULE Parts_proofs ----------------------------
(***************************************************************************)
(* Proofs about what the kernel works beside.  The tracer: the fragments   *)
(* of an event, for any number of threads, size of a packet and range of   *)
(* the fragment ids, and the checksums of the trace buffer, for any size   *)
(* of it.  The debugger: its exception frames and the packets on its line. *)
(*                                                                         *)
(* The mc68332 without its timers: the interrupt levels that its traps     *)
(* mask and give back.  The invariant says what each context on the stack  *)
(* may have left to do (ContextOK), how two neighbours fit together        *)
(* (OnOK), and that the levels that contexts came in with only grow up the *)
(* stack: the one cached level is then enough for all of them.             *)
(***************************************************************************)
EXTENDS TraceEvent, TracerRing, GdbFrames, GdbLine, M68kTraps,
        SequenceTheorems, TLAPS

LOCAL INSTANCE SequencesExt

----------------------------------------------------------------------------
(* The fragments of an event (TraceEvent).                                 *)

Calls == [size : Nat, left : Int, frag : Nat]
HostParts == [part : [frag : Nat, bytes : Nat], got : Int]

\* What the host has of a call: nothing of an event that fits a packet and
\* of one that begins, the whole packets before fragment e.frag, or, when
\* the last packet is left (e.frag = 0), all but that.
Between(e, h) == e.left = -1 /\ h = [part |-> NoPart, got |-> e.size]
InOnePacket(e, h) ==
    e.frag = Whole255 /\ e.left = e.size /\ e.size \in 0..Payload /\ h.part = NoPart
PacketsLeft(e, h) ==
    /\ e.frag \in 1..(Whole255 - 1) /\ e.left > Payload
    /\ e.size <= Payload * Whole255
    /\ h.part = [frag |-> e.frag - 1, bytes |-> (e.frag - 1) * Payload]
    /\ e.left = e.size - (e.frag - 1) * Payload
OnePacketLeft(e, h) ==
    /\ e.frag = 0 /\ e.left \in 1..Payload
    /\ h.part.frag >= 1 /\ h.part.bytes = e.size - e.left

CallOK(e, h) ==
    /\ e \in Calls /\ h \in HostParts
    /\ Between(e, h) \/ InOnePacket(e, h) \/ PacketsLeft(e, h) \/ OnePacketLeft(e, h)

FragmentInv ==
    /\ event \in [Tracers -> Calls] /\ atHost \in [Tracers -> HostParts]
    /\ \A t \in Tracers : CallOK(event[t], atHost[t])

\* The id of a packet is sent in a byte.
LEMMA FragmentId ==
    ASSUME NEW f \in 0..Whole255
    PROVE  f % (Whole255 + 1) = f
BY TraceAssumption

\* The packets before the last id are never enough for the longest event.
LEMMA IdsSuffice ==
    ASSUME NEW f \in Nat, NEW size \in Nat, size <= Payload * Whole255,
           f * Payload < size
    PROVE  f < Whole255
<1>1. ASSUME f >= Whole255
      PROVE  FALSE
  <2>1. f * Payload >= Whole255 * Payload /\ Whole255 * Payload = Payload * Whole255
    BY <1>1, TraceAssumption
  <2> QED
    BY <2>1, TraceAssumption
<1> QED
  BY <1>1, TraceAssumption

LEMMA CallReturned ==
    ASSUME NEW e, NEW h, CallOK(e, h), e.left = -1
    PROVE  h \in HostParts /\ Between(e, h)
<1>1. ~InOnePacket(e, h)
  BY TraceAssumption DEF InOnePacket
<1>2. ~PacketsLeft(e, h) /\ ~OnePacketLeft(e, h)
  BY TraceAssumption DEF PacketsLeft, OnePacketLeft
<1> QED
  BY <1>1, <1>2 DEF CallOK

LEMMA CallStarts ==
    ASSUME NEW e, NEW h, CallOK(e, h), e.left = -1, NEW size \in 0..(Payload * Whole255)
    PROVE  CallOK([size |-> size, left |-> size, frag |-> FirstFragment(size)], h)
<1> DEFINE d == [size |-> size, left |-> size, frag |-> FirstFragment(size)]
<1>1. h \in HostParts /\ h.part = NoPart
  BY CallReturned DEF Between
<1>2. size \in Nat /\ FirstFragment(size) \in Nat
  BY TraceAssumption DEF FirstFragment
<1>3. d \in Calls /\ d.size = size /\ d.left = size /\ d.frag = FirstFragment(size)
  BY <1>2 DEF Calls
<1> HIDE DEF d
<1>4. CASE size <= Payload
  <2>1. InOnePacket(d, h)
    BY <1>1, <1>2, <1>3, <1>4, TraceAssumption DEF InOnePacket, FirstFragment
  <2> QED
    BY <1>1, <1>3, <2>1 DEF CallOK, d
<1>5. CASE size > Payload
  <2>1. d.frag = 1 /\ 0 * Payload = 0
    BY <1>2, <1>3, <1>5, TraceAssumption DEF FirstFragment
  <2>2. PacketsLeft(d, h)
    BY <1>1, <1>2, <1>3, <1>5, <2>1, TraceAssumption DEF PacketsLeft, NoPart
  <2> QED
    BY <1>1, <1>3, <2>2 DEF CallOK, d
<1> QED
  BY <1>2, <1>4, <1>5, TraceAssumption

Saved(e) ==
    LET left == e.left - (IF e.left >= Payload THEN Payload ELSE e.left)
    IN [e EXCEPT !.left = IF left = 0 THEN -1 ELSE left,
                 !.frag = IF left = 0 THEN 0 ELSE NextFragment(left, e.frag)]
Got(e, h) ==
    Received(h, e.frag % (Whole255 + 1), IF e.left >= Payload THEN Payload ELSE e.left)

LEMMA OnePacketSaved ==
    ASSUME NEW e \in Calls, NEW h \in HostParts, InOnePacket(e, h)
    PROVE  CallOK(Saved(e), Got(e, h))
<1> DEFINE len == IF e.left >= Payload THEN Payload ELSE e.left
<1>1. /\ e.frag = Whole255 /\ e.left = e.size /\ e.size \in 0..Payload
      /\ h.part = NoPart /\ e.size \in Nat
  BY DEF InOnePacket, Calls
<1>2. len = e.size /\ e.left - len = 0
  BY <1>1, TraceAssumption
<1>3. e.frag % (Whole255 + 1) = Whole255
  BY <1>1, FragmentId, TraceAssumption
<1> HIDE DEF len
<1>4. Received(h, Whole255, len) = [part |-> NoPart, got |-> len]
  BY <1>1, TraceAssumption DEF Received, NoPart
<1>5. Got(e, h) = [part |-> NoPart, got |-> e.size]
  BY <1>2, <1>3, <1>4 DEF Got, len
<1>6. Saved(e) = [e EXCEPT !.left = -1, !.frag = 0]
  BY <1>2 DEF Saved, len
<1>7. Saved(e) \in Calls /\ Saved(e).left = -1 /\ Saved(e).size = e.size
  <2>1. PICK l \in Int : l = -1
    OBVIOUS
  <2>2. PICK f \in Nat : f = 0
    OBVIOUS
  <2>3. Saved(e) = [e EXCEPT !.left = l, !.frag = f]
    BY <1>6, <2>1, <2>2
  <2>4. Saved(e) \in Calls /\ Saved(e).size = e.size /\ Saved(e).left = l
    BY <2>1, <2>2, <2>3 DEF Calls
  <2> QED
    BY <2>1, <2>4
<1>8. Got(e, h) \in HostParts
  BY <1>1, <1>5 DEF HostParts, NoPart
<1> QED
  BY <1>5, <1>7, <1>8 DEF CallOK, Between

LEMMA LastPacketSaved ==
    ASSUME NEW e \in Calls, NEW h \in HostParts, OnePacketLeft(e, h)
    PROVE  CallOK(Saved(e), Got(e, h))
<1> DEFINE len == IF e.left >= Payload THEN Payload ELSE e.left
<1>1. /\ e.frag = 0 /\ e.left \in 1..Payload /\ h.part.frag >= 1
      /\ h.part.bytes = e.size - e.left /\ e.size \in Nat
      /\ h.part.frag \in Nat /\ h.part.bytes \in Nat
  BY DEF OnePacketLeft, Calls, HostParts
<1>2. len = e.left /\ e.left - len = 0
  BY <1>1, TraceAssumption
<1>3. e.frag % (Whole255 + 1) = 0
  BY <1>1, FragmentId, TraceAssumption
<1> HIDE DEF len
<1>4. Received(h, 0, len) = [part |-> NoPart, got |-> h.part.bytes + len]
  BY <1>1, TraceAssumption DEF Received, NoPart
<1>5. Got(e, h) = [part |-> NoPart, got |-> e.size]
  BY <1>1, <1>2, <1>3, <1>4 DEF Got, len
<1>6. Saved(e) = [e EXCEPT !.left = -1, !.frag = 0]
  BY <1>2 DEF Saved, len
<1>7. Saved(e) \in Calls /\ Saved(e).left = -1 /\ Saved(e).size = e.size
  <2>1. PICK l \in Int : l = -1
    OBVIOUS
  <2>2. PICK f \in Nat : f = 0
    OBVIOUS
  <2>3. Saved(e) = [e EXCEPT !.left = l, !.frag = f]
    BY <1>6, <2>1, <2>2
  <2>4. Saved(e) \in Calls /\ Saved(e).size = e.size /\ Saved(e).left = l
    BY <2>1, <2>2, <2>3 DEF Calls
  <2> QED
    BY <2>1, <2>4
<1>8. Got(e, h) \in HostParts
  BY <1>1, <1>5 DEF HostParts, NoPart
<1> QED
  BY <1>5, <1>7, <1>8 DEF CallOK, Between

LEMMA PacketSaved ==
    ASSUME NEW e \in Calls, NEW h \in HostParts, PacketsLeft(e, h)
    PROVE  CallOK(Saved(e), Got(e, h))
<1> DEFINE f == e.frag
           before == (f - 1) * Payload
           left == e.left - Payload
<1>1. /\ f \in 1..(Whole255 - 1) /\ e.left > Payload /\ e.size <= Payload * Whole255
      /\ h.part = [frag |-> f - 1, bytes |-> before]
      /\ e.left = e.size - before /\ e.size \in Nat /\ e.left \in Int
  BY DEF PacketsLeft, Calls
<1>2. f * Payload = before + Payload /\ before \in Nat
  BY <1>1, TraceAssumption
<1>3. e.frag % (Whole255 + 1) = f
  BY <1>1, FragmentId, TraceAssumption
<1> HIDE DEF before, f
<1>4. Received(h, f, Payload)
         = [h EXCEPT !.part = [frag |-> f, bytes |-> before + Payload]]
  BY <1>1, TraceAssumption DEF Received, NoPart
<1>5. Got(e, h) = [h EXCEPT !.part = [frag |-> f, bytes |-> before + Payload]]
  BY <1>1, <1>3, <1>4, TraceAssumption DEF Got
<1>6. left > 0 /\ left = e.size - f * Payload /\ left \in Int
  BY <1>1, <1>2, TraceAssumption
<1>7. Saved(e) = [e EXCEPT !.left = left, !.frag = NextFragment(left, f)]
  <2>1. e.left >= Payload /\ left # 0
    BY <1>1, <1>6, TraceAssumption
  <2> QED
    BY <2>1 DEF Saved, f
<1> HIDE DEF left
<1>8. NextFragment(left, f) \in Nat /\ f \in Nat /\ f >= 1
  BY <1>1, TraceAssumption DEF NextFragment
<1>9. /\ Saved(e) \in Calls /\ Saved(e).left = left /\ Saved(e).size = e.size
      /\ Saved(e).frag = NextFragment(left, f)
  BY <1>6, <1>7, <1>8 DEF Calls
<1>10. /\ Got(e, h) \in HostParts /\ Got(e, h).part = [frag |-> f, bytes |-> f * Payload]
  BY <1>2, <1>5, <1>8, TraceAssumption DEF HostParts
<1>11. CASE left > Payload
  <2>1. (f + 1) * Payload = f * Payload + Payload
    BY <1>8, TraceAssumption
  <2>2. (f + 1) * Payload < e.size
    <3> DEFINE gone == f * Payload
    <3>1. /\ gone \in Int /\ left = e.size - gone /\ e.size \in Nat
          /\ (f + 1) * Payload = gone + Payload
      BY <1>1, <1>6, <1>8, <2>1, TraceAssumption
    <3> HIDE DEF gone
    <3> QED
      BY <1>11, <3>1, TraceAssumption
  <2>3. f + 1 < Whole255
    BY <1>1, <1>8, <2>2, IdsSuffice
  <2>4. NextFragment(left, f) = f + 1
    BY <1>11 DEF NextFragment
  <2>5. PacketsLeft(Saved(e), Got(e, h))
    BY <1>1, <1>6, <1>8, <1>9, <1>10, <1>11, <2>3, <2>4, TraceAssumption DEF PacketsLeft
  <2> QED
    BY <1>9, <1>10, <2>5 DEF CallOK
<1>12. CASE ~(left > Payload)
  <2>1. NextFragment(left, f) = 0
    BY <1>12 DEF NextFragment
  <2>2. OnePacketLeft(Saved(e), Got(e, h))
    BY <1>1, <1>2, <1>6, <1>8, <1>9, <1>10, <1>12, <2>1, TraceAssumption
       DEF OnePacketLeft
  <2> QED
    BY <1>9, <1>10, <2>2 DEF CallOK
<1> QED
  BY <1>11, <1>12

LEMMA FragmentStep ==
    ASSUME FragmentInv, NEW t \in Tracers, PosixTraceEvent(t) \/ SaveFragment(t)
    PROVE  FragmentInv'
<1>1. /\ event \in [Tracers -> Calls] /\ atHost \in [Tracers -> HostParts]
      /\ CallOK(event[t], atHost[t]) /\ event[t] \in Calls /\ atHost[t] \in HostParts
  BY DEF FragmentInv
<1>2. \E d, g : /\ event' = [event EXCEPT ![t] = d] /\ atHost' = [atHost EXCEPT ![t] = g]
                /\ CallOK(d, g)
  <2>1. CASE PosixTraceEvent(t)
    <3>1. PICK size \in 0..(Payload * Whole255) :
             event' = [event EXCEPT ![t] =
                          [size |-> size, left |-> size, frag |-> FirstFragment(size)]]
      BY <2>1 DEF PosixTraceEvent
    <3>2. event[t].left = -1 /\ atHost' = atHost
      BY <2>1 DEF PosixTraceEvent
    <3>3. CallOK([size |-> size, left |-> size, frag |-> FirstFragment(size)], atHost[t])
      BY <1>1, <3>2, CallStarts
    <3>4. atHost' = [atHost EXCEPT ![t] = atHost[t]]
      BY <1>1, <3>2
    <3> QED
      BY <3>1, <3>3, <3>4
  <2>2. CASE SaveFragment(t)
    <3>1. /\ event[t].left # -1
          /\ event' = [event EXCEPT ![t] = Saved(event[t])]
          /\ atHost' = [atHost EXCEPT ![t] = Got(event[t], atHost[t])]
      BY <1>1, <2>2 DEF SaveFragment, Saved, Got
    <3>2. CallOK(Saved(event[t]), Got(event[t], atHost[t]))
      BY <1>1, <3>1, OnePacketSaved, PacketSaved, LastPacketSaved DEF CallOK, Between
    <3> QED
      BY <3>1, <3>2
  <2> QED
    BY <2>1, <2>2
<1>3. PICK d, g : /\ event' = [event EXCEPT ![t] = d] /\ atHost' = [atHost EXCEPT ![t] = g]
                  /\ CallOK(d, g)
  BY <1>2
<1>4. d \in Calls /\ g \in HostParts
  BY <1>3 DEF CallOK
<1>5. event' \in [Tracers -> Calls] /\ atHost' \in [Tracers -> HostParts]
  BY <1>1, <1>3, <1>4
<1>6. \A s \in Tracers : /\ event'[s] = IF s = t THEN d ELSE event[s]
                         /\ atHost'[s] = IF s = t THEN g ELSE atHost[s]
  BY <1>1, <1>3
<1> QED
  BY <1>3, <1>5, <1>6 DEF FragmentInv

\* The host gets every event whole, whatever its size up to 255 packets, and
\* whichever threads save fragments in between: the ids 1 to 254, then 0,
\* never run into that of a whole event.
THEOREM FragmentsCorrect == TraceSpec => []FragmentsReassemble
<1>1. TraceInit => FragmentInv
  <2> SUFFICES ASSUME TraceInit PROVE FragmentInv
    OBVIOUS
  <2>1. /\ NoEvent \in Calls /\ [part |-> NoPart, got |-> 0] \in HostParts
        /\ Between(NoEvent, [part |-> NoPart, got |-> 0])
    BY DEF NoEvent, NoPart, Calls, HostParts, Between
  <2> QED
    BY <2>1 DEF TraceInit, FragmentInv, CallOK
<1>2. FragmentInv /\ [TraceNext]_traceVars => FragmentInv'
  BY FragmentStep DEF TraceNext, traceVars, FragmentInv
<1>3. FragmentInv => FragmentsReassemble
  BY CallReturned DEF FragmentInv, Between, FragmentsReassemble
<1> QED
  BY <1>1, <1>2, <1>3, PTL DEF TraceSpec

----------------------------------------------------------------------------
(* The trace buffer (TracerRing).                                          *)

\* A checksum covers an event and the number that it was saved with.
TrueCrcs == {Crc(a, a) : a \in Int}
Records == [ev : Int, crc : TrueCrcs, seq : Int]

\* The slot after k others.
SlotAfter(i, k) == IF i + k < TracerSize THEN i + k ELSE i + k - TracerSize

RingTypes ==
    /\ tb \in [Slot -> Records] /\ sent \in Records
    /\ reading \in [at : {"test", "ev", "crc", "seq", "send"}, tmp : Records]
    /\ {rcur, wcur} \subseteq Slot /\ wseq \in Int

\* The ISRs within a save have taken the slots after its own, and there were
\* not enough of them to come round to it: it still holds its number.
SaveInv ==
    saving.at # "no" =>
        /\ saving.slot \in Slot /\ saving.ev \in Int
        /\ saving.nested \in 0..MaxNested
        /\ wcur = SlotAfter(saving.slot, saving.nested + 1)
        /\ tb[saving.slot].seq = saving.ev

SavingTypes == saving \in [at : {"no", "copy", "crc"}, slot : Slot, ev : Int, nested : Nat]

RingInv == RingTypes /\ SavingTypes /\ SaveInv

LEMMA RingConstants ==
    /\ TracerSize \in Nat /\ SeqRange \in Nat /\ MaxNested \in Nat
    /\ TracerSize > 0 /\ SeqRange > 0
BY TracerAssumption

LEMMA NextSlotIs ==
    ASSUME NEW i \in Slot
    PROVE  /\ NextSlot(i) = IF i + 1 = TracerSize THEN 0 ELSE i + 1
           /\ NextSlot(i) \in Slot
BY RingConstants DEF Slot, NextSlot

LEMMA SlotsAhead ==
    ASSUME NEW i \in Slot, NEW k \in Nat, k < TracerSize
    PROVE  /\ SlotAfter(i, k) \in Slot
           /\ NextSlot(SlotAfter(i, k)) = SlotAfter(i, k + 1)
           /\ k > 0 => SlotAfter(i, k) # i
<1>1. SlotAfter(i, k) \in Slot
  BY RingConstants DEF Slot, SlotAfter
<1>2. k > 0 => SlotAfter(i, k) # i
  BY RingConstants DEF Slot, SlotAfter
<1>3. NextSlot(SlotAfter(i, k)) = SlotAfter(i, k + 1)
  BY <1>1, NextSlotIs, RingConstants DEF Slot, SlotAfter
<1> QED
  BY <1>1, <1>2, <1>3

LEMMA TrueCrc == \A a \in Int : Crc(a, a) \in TrueCrcs
BY DEF TrueCrcs

LEMMA ReserveTypes ==
    ASSUME RingInv, NEW ev, Reserve(ev)
    PROVE  /\ wcur' = NextSlot(wcur) /\ wcur' \in Slot /\ wseq' \in Int
           /\ UNCHANGED <<rcur, reading, sent>>
BY NextSlotIs, RingConstants DEF RingInv, RingTypes, Reserve

LEMMA SaveReserveInv ==
    ASSUME RingInv, SaveReserve
    PROVE  RingInv'
<1>1. /\ tb' = [tb EXCEPT ![wcur].seq = wseq]
      /\ saving' = [at |-> "copy", slot |-> wcur, ev |-> wseq, nested |-> 0]
      /\ wcur' = NextSlot(wcur) /\ wcur' \in Slot /\ wseq' \in Int
      /\ UNCHANGED <<rcur, reading, sent>>
  BY ReserveTypes DEF SaveReserve
<1>2. /\ tb \in [Slot -> Records] /\ wcur \in Slot /\ wseq \in Int
  BY DEF RingInv, RingTypes
<1>3. tb' \in [Slot -> Records] /\ tb'[wcur].seq = wseq
  BY <1>1, <1>2 DEF Records
<1>4. wcur' = SlotAfter(wcur, 0 + 1)
  BY <1>1, <1>2, NextSlotIs, RingConstants DEF SlotAfter, Slot
<1>5. RingTypes' /\ SavingTypes'
  BY <1>1, <1>2, <1>3 DEF RingInv, RingTypes, SavingTypes
<1>6. SaveInv'
  BY <1>1, <1>2, <1>3, <1>4, RingConstants DEF SaveInv
<1> QED
  BY <1>5, <1>6 DEF RingInv

LEMMA SaveCopyInv ==
    ASSUME RingInv, SaveCopy
    PROVE  RingInv'
<1>1. /\ saving.at = "copy"
      /\ tb' = [tb EXCEPT ![saving.slot].ev = saving.ev]
      /\ saving' = [saving EXCEPT !.at = "crc"]
      /\ UNCHANGED <<rcur, wcur, wseq, reading, sent>>
  BY DEF SaveCopy
<1>2. /\ tb \in [Slot -> Records] /\ SavingTypes /\ SaveInv
      /\ saving.slot \in Slot /\ saving.ev \in Int
  BY DEF RingInv, RingTypes, SavingTypes
<1>3. tb' \in [Slot -> Records] /\ tb'[saving.slot].seq = tb[saving.slot].seq
  BY <1>1, <1>2 DEF Records
<1>4. /\ SavingTypes' /\ saving'.slot = saving.slot /\ saving'.ev = saving.ev
      /\ saving'.nested = saving.nested
  BY <1>1, <1>2 DEF SavingTypes
<1>5. SaveInv'
  BY <1>1, <1>2, <1>3, <1>4 DEF SaveInv
<1> QED
  BY <1>1, <1>3, <1>4, <1>5 DEF RingInv, RingTypes

LEMMA SaveCrcInv ==
    ASSUME RingInv, SaveCrc
    PROVE  RingInv'
<1> DEFINE c == Crc(saving.ev, tb[saving.slot].seq)
<1>1. /\ saving.at = "crc"
      /\ tb' = [tb EXCEPT ![saving.slot].crc = c]
      /\ saving' = NotSaving
      /\ UNCHANGED <<rcur, wcur, wseq, reading, sent>>
  BY DEF SaveCrc
<1>2. /\ tb \in [Slot -> Records] /\ saving.slot \in Slot /\ saving.ev \in Int
      /\ tb[saving.slot].seq = saving.ev
  BY <1>1 DEF RingInv, RingTypes, SaveInv
<1>3. c \in TrueCrcs
  BY <1>2, TrueCrc
<1> HIDE DEF c
<1>4. tb' \in [Slot -> Records]
  BY <1>1, <1>2, <1>3 DEF Records
<1>5. SavingTypes' /\ SaveInv'
  BY <1>1, RingConstants DEF NotSaving, SavingTypes, SaveInv, Slot
<1> QED
  BY <1>1, <1>4, <1>5 DEF RingInv, RingTypes

LEMMA IsrSaveInv ==
    ASSUME MaxNested < TracerSize, RingInv, IsrSave
    PROVE  RingInv'
<1> DEFINE r == [ev |-> wseq, crc |-> Crc(wseq, wseq), seq |-> wseq]
<1>1. /\ tb' = [tb EXCEPT ![wcur] = r]
      /\ saving.nested < MaxNested
      /\ saving' = IF saving.at = "no" THEN saving ELSE [saving EXCEPT !.nested = @ + 1]
      /\ wcur' = NextSlot(wcur) /\ wcur' \in Slot /\ wseq' \in Int
      /\ UNCHANGED <<rcur, reading, sent>>
  BY ReserveTypes DEF IsrSave
<1>2. /\ tb \in [Slot -> Records] /\ wcur \in Slot /\ wseq \in Int
      /\ SavingTypes /\ SaveInv
  BY DEF RingInv, RingTypes
<1>3. r \in Records
  BY <1>2, TrueCrc DEF Records
<1> HIDE DEF r
<1>4. tb' \in [Slot -> Records] /\ \A i \in Slot : i # wcur => tb'[i] = tb[i]
  BY <1>1, <1>2, <1>3
<1>5. RingTypes'
  BY <1>1, <1>4 DEF RingInv, RingTypes
<1>6. CASE saving.at = "no"
  BY <1>1, <1>2, <1>5, <1>6 DEF RingInv, SaveInv, SavingTypes
<1>7. CASE saving.at # "no"
  <2> DEFINE k == saving.nested + 1
             i == saving.slot
  <2>1. /\ saving' = [saving EXCEPT !.nested = k]
        /\ i \in Slot /\ k \in Nat /\ k > 0 /\ k <= MaxNested /\ k < TracerSize
        /\ wcur = SlotAfter(i, k) /\ tb[i].seq = saving.ev
    BY <1>1, <1>2, <1>7, RingConstants DEF SavingTypes, SaveInv
  <2>2. SavingTypes'
    BY <1>2, <2>1 DEF SavingTypes
  <2>3. saving'.nested = k /\ saving'.slot = i /\ saving'.ev = saving.ev
    BY <1>2, <2>1 DEF SavingTypes
  <2> HIDE DEF k, i
  <2>4. wcur # i /\ wcur' = SlotAfter(i, k + 1)
    BY <1>1, <2>1, SlotsAhead
  <2>5. tb'[i].seq = saving.ev
    BY <1>4, <2>1, <2>4
  <2>6. saving'.ev \in Int
    BY <1>2, <2>3 DEF SavingTypes
  <2>7. SaveInv'
    BY <2>1, <2>3, <2>4, <2>5, <2>6, RingConstants DEF SaveInv
  <2> QED
    BY <1>5, <2>2, <2>7 DEF RingInv
<1> QED
  BY <1>6, <1>7

LEMMA ReaderInv ==
    ASSUME RingInv, ReadTest \/ ReadCopy \/ Send \/ UNCHANGED tracerVars
    PROVE  RingInv'
<1>1. UNCHANGED <<tb, wcur, wseq, saving>>
  BY DEF ReadTest, ReadCopy, Send, tracerVars
<1> DEFINE Readings == [at : {"test", "ev", "crc", "seq", "send"}, tmp : Records]
<1>r. reading \in Readings
  BY DEF RingInv, RingTypes
<1>2. reading' \in Readings
  <2>1. CASE ReadCopy
    <3>1. PICK field \in {"ev", "crc", "seq"} :
             reading' = [at |-> CopyNext[field],
                         tmp |-> [reading.tmp EXCEPT ![field] = tb[rcur][field]]]
      BY <2>1 DEF ReadCopy
    <3>2. reading.tmp \in Records /\ tb[rcur] \in Records
      BY DEF RingInv, RingTypes
    <3>3. [reading.tmp EXCEPT ![field] = tb[rcur][field]] \in Records
      BY <3>2 DEF Records
    <3>4. CopyNext[field] \in {"crc", "seq", "send"}
      BY DEF CopyNext
    <3> QED
      BY <3>1, <3>3, <3>4
  <2>2. CASE ReadTest
    BY <1>r, <2>2 DEF ReadTest
  <2>3. CASE Send
    BY <1>r, <2>3 DEF Send
  <2>4. CASE UNCHANGED tracerVars
    BY <1>r, <2>4 DEF tracerVars
  <2> QED
    BY <2>1, <2>2, <2>3, <2>4
<1>3. sent' \in Records /\ rcur' \in Slot
  BY NextSlotIs DEF ReadTest, ReadCopy, Send, tracerVars, RingInv, RingTypes
<1> QED
  BY <1>1, <1>2, <1>3 DEF RingInv, RingTypes, SavingTypes, SaveInv

LEMMA RingHolds ==
    ASSUME MaxNested < TracerSize
    PROVE  TracerSpec => []RingInv
<1>1. TracerInit => RingInv
  <2> SUFFICES ASSUME TracerInit PROVE RingInv
    OBVIOUS
  <2>1. \A n \in Int : Blank(n) \in Records
    BY TrueCrc DEF Blank, Records, Nothing
  <2>2. /\ tb \in [Slot -> Records] /\ sent \in Records /\ reading.tmp \in Records
    BY <2>1, RingConstants DEF TracerInit
  <2>3. 0 \in Slot
    BY RingConstants DEF Slot
  <2> QED
    BY <2>2, <2>3 DEF TracerInit, RingInv, RingTypes, SavingTypes, SaveInv, NotSaving
<1>2. RingInv /\ [TracerNext]_tracerVars => RingInv'
  BY SaveReserveInv, SaveCopyInv, SaveCrcInv, IsrSaveInv, ReaderInv DEF TracerNext
<1> QED
  BY <1>1, <1>2, PTL DEF TracerSpec

\* Whatever the writers do to the slots that the idle thread copies, an event
\* with the right checksum is what was saved, for every size of the buffer,
\* range of the numbers and distance of the reader, as long as fewer events
\* of ISRs than the buffer has slots fall into one save.
THEOREM TraceTruthful ==
    ASSUME MaxNested < TracerSize
    PROVE  TracerSpec => []TraceIsTruthful
<1>1. RingInv => TraceIsTruthful
  <2> SUFFICES ASSUME RingInv, sent.crc = Crc(sent.ev, sent.seq)
               PROVE  sent.ev = sent.seq
    BY DEF TraceIsTruthful
  <2>1. PICK a \in Int : sent.crc = Crc(a, a)
    BY DEF RingInv, RingTypes, Records, TrueCrcs
  <2> QED
    BY <2>1 DEF Crc
<1> QED
  BY <1>1, RingHolds, PTL

----------------------------------------------------------------------------
(* The order in which the idle thread sends the events.                    *)

\* How many saves ago slot i was reserved, when it was.
Dist(i) == IF i < wcur THEN wcur - i ELSE wcur - i + TracerSize

\* Number n was given d saves ago.
Ago(n, d) == wseq = n + d \/ wseq = n + d - SeqRange

\* Slot i is not reserved yet since OS_TracerInit: the numbers have not come
\* round either.
NotYet(i) == /\ i >= wcur /\ wseq = wcur /\ lag <= wcur
             /\ tb[i].seq = IF i = 0 THEN SeqRange - 1 ELSE 0

NumberTypes ==
    /\ {wseq, rseq} \subseteq 0..(SeqRange - 1) /\ lag \in 0..MaxLag
    /\ \A i \in Slot : tb[i].seq \in 0..(SeqRange - 1)

\* The next slot of the reader holds the event after the last one sent or one
\* that has lapped it, unless there is none.
SlotsInv ==
    /\ \A i \in Slot : Ago(tb[i].seq, Dist(i)) \/ NotYet(i)
    /\ Ago(rseq, lag + 1)
    /\ \/ lag = 0 /\ rcur = wcur
       \/ lag >= Dist(rcur)

\* What the reader has copied the number of is newer than the last one sent;
\* the slot it comes from may have been overwritten since.
CopyInv ==
    /\ reading.at # "test" => lag >= 1
    /\ reading.at = "send" =>
          /\ reading.tmp.seq \in 0..(SeqRange - 1)
          /\ \E d \in 1..lag : /\ Ago(reading.tmp.seq, d)
                               /\ d = Dist(rcur) \/ d >= Dist(rcur) + TracerSize

OrderInv == NumberTypes /\ SlotsInv /\ CopyInv

LEMMA OrderConstants ==
    ASSUME SeqRange = 2 * Half, TracerSize <= Half + 1
    PROVE  /\ Half \in Nat /\ Half >= 1 /\ SeqRange \in Nat
           /\ TracerSize \in Nat /\ TracerSize > 0 /\ TracerSize <= SeqRange
           /\ MaxLag \in Nat /\ MaxLag < SeqRange
<1>1. /\ TracerSize \in Nat /\ TracerSize > 0 /\ SeqRange \in Nat
      /\ MaxLag \in Nat /\ MaxLag < SeqRange
  BY TracerAssumption
<1>2. Half \in Nat /\ Half >= 1
  BY <1>1 DEF Half
<1> QED
  BY <1>1, <1>2

LEMMA OneRound ==
    ASSUME NEW n \in Nat, n > 0, NEW k \in 0..(n - 1)
    PROVE  k % n = k /\ (k + n) % n = k /\ (k - n) % n = k
OBVIOUS

\* A number as far ahead as half the range looks newer, one that is further
\* behind than half of it looks old.
LEMMA GraterIs ==
    ASSUME SeqRange = 2 * Half, Half \in Nat, Half >= 1,
           NEW a \in 0..(SeqRange - 1), NEW b \in 0..(SeqRange - 1)
    PROVE  Grater(a, b) <=> \/ b - a \in 1..(Half - 1)
                            \/ b - a + SeqRange \in 1..(Half - 1)
<1>1. CASE a < Half
  BY <1>1 DEF Grater
<1>2. CASE a >= Half
  <2>1. (a + Half) % SeqRange = a - Half
    <3>1. a - Half \in 0..(SeqRange - 1) /\ a + Half = (a - Half) + SeqRange /\ SeqRange > 0
      BY <1>2
    <3> QED
      BY <3>1, OneRound
  <2> QED
    BY <1>2, <2>1 DEF Grater
<1> QED
  BY <1>1, <1>2

LEMMA DistIs ==
    ASSUME NEW i \in Slot, wcur \in Slot, TracerSize \in Nat
    PROVE  /\ Dist(i) \in 1..TracerSize
           /\ Dist(i) = TracerSize <=> i = wcur
BY DEF Dist, Slot

\* A save: the reserved slot is the newest and the others are a save older.
LEMMA ReserveOrder ==
    ASSUME SeqRange = 2 * Half, TracerSize <= Half + 1,
           OrderInv, {rcur, wcur} \subseteq Slot, NEW ev, Reserve(ev),
           \A i \in Slot : tb'[i].seq = IF i = wcur THEN wseq ELSE tb[i].seq
    PROVE  OrderInv'
<1> DEFINE R == SeqRange
           N == TracerSize
<1>1. /\ Half \in Nat /\ Half >= 1 /\ R \in Nat /\ N \in Nat /\ N > 0 /\ N <= R
      /\ MaxLag \in Nat /\ MaxLag < R /\ N <= Half + 1 /\ R = 2 * Half
  BY OrderConstants
<1>2. /\ wseq \in 0..(R - 1) /\ rseq \in 0..(R - 1) /\ lag \in 0..MaxLag
      /\ \A i \in Slot : tb[i].seq \in 0..(R - 1)
      /\ wcur \in Slot /\ rcur \in Slot
  BY DEF OrderInv, NumberTypes
<1>3. /\ lag < MaxLag /\ lag' = lag + 1 /\ rcur' = rcur /\ rseq' = rseq
      /\ reading' = reading
      /\ wcur' = IF wcur + 1 = N THEN 0 ELSE wcur + 1
      /\ wseq' = (wseq + 1) % R
  BY <1>2, NextSlotIs DEF Reserve
<1>4. wseq' = IF wseq + 1 = R THEN 0 ELSE wseq + 1
  <2>1. CASE wseq + 1 = R
    BY <1>1, <1>2, <1>3, <2>1, OneRound
  <2>2. CASE wseq + 1 # R
    BY <1>1, <1>2, <1>3, <2>2, OneRound
  <2> QED
    BY <2>1, <2>2
<1>5. NumberTypes'
  <2>1. \A i \in Slot : tb'[i].seq \in 0..(R - 1)
    BY <1>2
  <2> QED
    BY <1>1, <1>2, <1>3, <1>4, <2>1 DEF NumberTypes
<1>6. ASSUME NEW n \in 0..(R - 1), NEW d \in 1..(R - 1), Ago(n, d)
      PROVE  wseq' = n + (d + 1) \/ wseq' = n + (d + 1) - R
  BY <1>1, <1>2, <1>4, <1>6 DEF Ago
<1>7. ASSUME NEW i \in Slot
      PROVE  Dist(i)' = IF i = wcur THEN 1 ELSE Dist(i) + 1
  <2>1. wcur \in 0..(N - 1) /\ i \in 0..(N - 1)
    BY <1>2 DEF Slot
  <2>2. CASE i < wcur
    BY <1>1, <1>3, <2>1, <2>2 DEF Dist
  <2>3. CASE i = wcur
    BY <1>1, <1>3, <2>1, <2>3 DEF Dist
  <2>4. CASE i > wcur
    BY <1>1, <1>3, <2>1, <2>4 DEF Dist
  <2> QED
    BY <2>1, <2>2, <2>3, <2>4
<1>8. \A i \in Slot : Dist(i) \in 1..N /\ (Dist(i) = N <=> i = wcur)
  BY <1>1, <1>2, DistIs
<1>9. ASSUME NEW i \in Slot
      PROVE  (Ago(tb[i].seq, Dist(i)) \/ NotYet(i))'
  <2>1. CASE i = wcur
    <3>1. tb'[i].seq = wseq /\ Dist(i)' = 1
      BY <1>7, <2>1
    <3>2. wseq' = wseq + 1 \/ wseq' = wseq + 1 - R
      BY <1>1, <1>2, <1>4
    <3> QED
      BY <3>1, <3>2 DEF Ago
  <2>2. CASE i # wcur /\ Ago(tb[i].seq, Dist(i))
    <3>1. Dist(i) \in 1..(R - 1)
      BY <1>1, <1>8, <2>2
    <3> DEFINE n == tb[i].seq
               d == Dist(i)
    <3>2. /\ n \in 0..(R - 1) /\ d \in 1..(R - 1) /\ Ago(n, d)
          /\ tb'[i].seq = n /\ Dist(i)' = d + 1
      BY <1>2, <1>7, <2>2, <3>1
    <3> HIDE DEF n, d
    <3>3. wseq' = n + (d + 1) \/ wseq' = n + (d + 1) - R
      BY <1>6, <3>2
    <3> QED
      BY <3>2, <3>3 DEF Ago
  <2>3. CASE i # wcur /\ NotYet(i)
    <3>1. i \in 0..(N - 1) /\ wcur \in 0..(N - 1)
      BY <1>2 DEF Slot
    <3>2. i > wcur /\ wseq = wcur /\ lag <= wcur /\ tb'[i].seq = tb[i].seq
      BY <2>3, <3>1 DEF NotYet
    <3>3. wcur' = wcur + 1 /\ wseq' = wcur + 1
      BY <1>1, <1>3, <1>4, <3>1, <3>2
    <3>4. NotYet(i)'
      BY <1>1, <1>2, <1>3, <2>3, <3>1, <3>2, <3>3 DEF NotYet
    <3> QED
      BY <3>4
  <2> QED
    BY <2>1, <2>2, <2>3 DEF OrderInv, SlotsInv
<1>10. Ago(rseq, lag + 1)'
  <2>1. Ago(rseq, lag + 1) /\ lag + 1 \in 1..(R - 1)
    BY <1>1, <1>2, <1>3 DEF OrderInv, SlotsInv
  <2>2. wseq' = rseq + (lag + 1 + 1) \/ wseq' = rseq + (lag + 1 + 1) - R
    BY <1>2, <1>6, <2>1
  <2> QED
    BY <1>3, <2>2 DEF Ago
<1>11. Dist(rcur)' = IF rcur = wcur THEN 1 ELSE Dist(rcur) + 1
  BY <1>2, <1>3, <1>7 DEF Dist
<1>12. lag' >= Dist(rcur)'
  <2>1. Dist(rcur) \in Int
    BY <1>2, <1>8
  <2> QED
    BY <1>2, <1>3, <1>11, <2>1 DEF OrderInv, SlotsInv
<1>13. SlotsInv'
  BY <1>9, <1>10, <1>12 DEF SlotsInv
<1>14. CopyInv'
  <2>1. reading'.at # "test" => lag' >= 1
    BY <1>2, <1>3
  <2>2. ASSUME reading'.at = "send"
        PROVE  /\ reading'.tmp.seq \in 0..(R - 1)
               /\ \E d \in 1..lag' :
                     /\ wseq' = reading'.tmp.seq + d \/ wseq' = reading'.tmp.seq + d - R
                     /\ d = Dist(rcur)' \/ d >= Dist(rcur)' + N
    <3>1. PICK d \in 1..lag : /\ Ago(reading.tmp.seq, d)
                              /\ d = Dist(rcur) \/ d >= Dist(rcur) + N
      BY <1>3, <2>2 DEF OrderInv, CopyInv
    <3>2. reading.tmp.seq \in 0..(R - 1) /\ reading'.tmp.seq = reading.tmp.seq
      BY <1>3, <2>2 DEF OrderInv, CopyInv
    <3>3. d \in 1..(R - 1) /\ d + 1 \in 1..lag'
      BY <1>1, <1>2, <1>3
    <3>4. wseq' = reading'.tmp.seq + (d + 1) \/ wseq' = reading'.tmp.seq + (d + 1) - R
      BY <1>6, <3>1, <3>2, <3>3
    <3>5. Dist(rcur) \in 1..N /\ (Dist(rcur) = N <=> rcur = wcur)
      BY <1>2, <1>8
    <3>6. d + 1 = Dist(rcur)' \/ d + 1 >= Dist(rcur)' + N
      BY <1>1, <1>11, <3>1, <3>3, <3>5
    <3> QED
      BY <3>2, <3>3, <3>4, <3>6
  <2> QED
    BY <2>1, <2>2 DEF CopyInv, Ago
<1> QED
  BY <1>5, <1>13, <1>14 DEF OrderInv

\* The slot that the reader looks at when something is new.
LEMMA NextIsNewer ==
    ASSUME SeqRange = 2 * Half, TracerSize <= Half + 1,
           OrderInv, {rcur, wcur} \subseteq Slot, lag >= 1
    PROVE  Dist(rcur) \in 1..lag /\ Ago(tb[rcur].seq, Dist(rcur))
<1>1. TracerSize \in Nat /\ wcur \in Slot /\ rcur \in Slot /\ lag \in Nat
  BY OrderConstants DEF OrderInv, NumberTypes
<1>2. Dist(rcur) \in 1..lag
  BY <1>1, DistIs DEF OrderInv, SlotsInv
<1>3. ~NotYet(rcur)
  BY <1>1, <1>2 DEF NotYet, Dist, Slot
<1> QED
  BY <1>1, <1>2, <1>3 DEF OrderInv, SlotsInv

\* When nothing is new the slot holds the event before the last round.
LEMMA NothingNew ==
    ASSUME SeqRange = 2 * Half, TracerSize <= Half + 1,
           OrderInv, {rcur, wcur} \subseteq Slot, lag = 0
    PROVE  ~Grater(rseq, tb[rcur].seq)
<1> DEFINE R == SeqRange
           N == TracerSize
           n == tb[rcur].seq
<1> SUFFICES ~Grater(rseq, n)
  OBVIOUS
<1>1. /\ Half \in Nat /\ Half >= 1 /\ R = 2 * Half /\ N \in Nat /\ N > 0 /\ N <= Half + 1
      /\ wseq \in 0..(R - 1) /\ rseq \in 0..(R - 1) /\ n \in 0..(R - 1)
      /\ wcur \in 0..(N - 1) /\ rcur \in Slot
  BY OrderConstants DEF OrderInv, NumberTypes, Slot
<1>2. rcur = wcur
  <2>1. Dist(rcur) \in 1..N
    BY <1>1, DistIs
  <2>2. ~(lag >= Dist(rcur))
    BY <1>1, <2>1
  <2> QED
    BY <2>2 DEF OrderInv, SlotsInv
<1>3. wseq = rseq + 1 \/ wseq = rseq + 1 - R
  BY <1>1 DEF OrderInv, SlotsInv, Ago
<1>4. Grater(rseq, n) <=> n - rseq \in 1..(Half - 1) \/ n - rseq + R \in 1..(Half - 1)
  BY <1>1, GraterIs
<1>5. Dist(rcur) = N
  BY <1>1, <1>2, DistIs
<1>6. CASE Ago(n, Dist(rcur))
  <2>1. wseq = n + N \/ wseq = n + N - R
    BY <1>5, <1>6 DEF Ago
  <2> HIDE DEF n
  <2> QED
    BY <1>1, <1>3, <1>4, <2>1
<1>7. CASE NotYet(rcur)
  <2>1. wseq = wcur /\ n = IF wcur = 0 THEN R - 1 ELSE 0
    BY <1>2, <1>7 DEF NotYet
  <2> HIDE DEF n
  <2> QED
    BY <1>1, <1>3, <1>4, <2>1
<1> QED
  BY <1>1, <1>6, <1>7 DEF OrderInv, SlotsInv

\* The reader sends an event that is newer than the last one and not newer
\* than the last one saved, and goes on with the slot after it.
LEMMA SendOrder ==
    ASSUME SeqRange = 2 * Half, TracerSize <= Half + 1,
           OrderInv, {rcur, wcur} \subseteq Slot, Send
    PROVE  /\ OrderInv'
           /\ sent' # sent => (sent'.seq - rseq) % SeqRange \in 1..lag
<1> DEFINE R == SeqRange
           N == TracerSize
           n == reading.tmp.seq
<1>1. /\ Half \in Nat /\ Half >= 1 /\ R \in Nat /\ N \in Nat /\ N > 0 /\ N <= R
      /\ MaxLag \in Nat /\ MaxLag < R /\ N <= Half + 1 /\ R = 2 * Half
  BY OrderConstants
<1>2. /\ wseq \in 0..(R - 1) /\ rseq \in 0..(R - 1) /\ lag \in 0..MaxLag
      /\ wcur \in Slot /\ rcur \in Slot
  BY DEF OrderInv, NumberTypes
<1>3. /\ UNCHANGED <<tb, wcur, wseq, saving>> /\ reading.at = "send"
      /\ reading'.at = "test"
  <2>1. reading.at = "send" /\ reading' = [reading EXCEPT !.at = "test"]
    BY DEF Send, Reader
  <2> QED
    BY <2>1 DEF Send
<1>4. /\ n \in 0..(R - 1)
      /\ \E d \in 1..lag : Ago(n, d) /\ (d = Dist(rcur) \/ d >= Dist(rcur) + N)
  BY <1>3 DEF OrderInv, CopyInv
<1>5. PICK d \in 1..lag : Ago(n, d) /\ (d = Dist(rcur) \/ d >= Dist(rcur) + N)
  BY <1>4
<1>6. d \in 1..MaxLag /\ d \in 1..(R - 1)
  BY <1>1, <1>2
<1>7. CopyInv'
  BY <1>3 DEF CopyInv
<1>8. CASE ~Grater(rseq, n)
  <2>1. UNCHANGED <<sent, rseq, rcur, lag>>
    BY <1>8 DEF Send
  <2> QED
    BY <1>3, <1>7, <2>1 DEF OrderInv, NumberTypes, SlotsInv, Ago, NotYet, Dist
<1>9. CASE Grater(rseq, n)
  <2>1. /\ sent' = reading.tmp /\ rseq' = n /\ rcur' = NextSlot(rcur)
        /\ lag' = (wseq - 1 - n) % R
    BY <1>9 DEF Send, NewerThan
  <2>2. lag' = d - 1
    <3>0. wseq = n + d \/ wseq = n + d - R
      BY <1>5 DEF Ago
    <3>a. wseq \in Int /\ n \in Int /\ d \in Int /\ R \in Int
      BY <1>1, <1>2, <1>4, <1>6
    <3>1. wseq - 1 - n = d - 1 \/ wseq - 1 - n = d - 1 - R
      BY <3>0, <3>a
    <3>2. d - 1 \in 0..(R - 1) /\ R > 0
      BY <1>1, <1>6
    <3>3. (d - 1) % R = d - 1 /\ (d - 1 - R) % R = d - 1
      BY <1>1, <3>2, OneRound
    <3> QED
      BY <2>1, <3>1, <3>3
  <2>3. (sent'.seq - rseq) % R \in 1..lag
    <3> DEFINE k == lag + 1 - d
    <3>1. k \in 1..lag /\ k \in 0..(R - 1) /\ R > 0
      BY <1>1, <1>2, <1>5
    <3>2. wseq = rseq + (lag + 1) \/ wseq = rseq + (lag + 1) - R
      BY DEF OrderInv, SlotsInv, Ago
    <3>3. wseq = n + d \/ wseq = n + d - R
      BY <1>5 DEF Ago
    <3>4. n - rseq = k \/ n - rseq = k + R \/ n - rseq = k - R
      BY <1>1, <1>2, <1>4, <1>6, <3>2, <3>3
    <3> HIDE DEF k
    <3>5. k % R = k /\ (k + R) % R = k /\ (k - R) % R = k
      BY <1>1, <3>1, OneRound
    <3>6. (n - rseq) % R = k
      BY <3>4, <3>5
    <3> QED
      BY <2>1, <3>1, <3>6
  <2>4. lag' \in 0..MaxLag /\ rseq' \in 0..(R - 1) /\ lag' < lag
    BY <1>1, <1>2, <1>4, <1>5, <1>6, <2>1, <2>2
  <2>5. NumberTypes'
    BY <1>2, <1>3, <2>4 DEF OrderInv, NumberTypes
  <2>6. Ago(rseq, lag + 1)'
    <3>1. wseq = n + d \/ wseq = n + d - R
      BY <1>5 DEF Ago
    <3>2. lag' + 1 = d
      BY <1>6, <2>2
    <3> QED
      BY <1>3, <2>1, <3>1, <3>2 DEF Ago
  <2>7. \A i \in Slot : (Ago(tb[i].seq, Dist(i)) \/ NotYet(i))'
    <3> SUFFICES ASSUME NEW i \in Slot PROVE (Ago(tb[i].seq, Dist(i)) \/ NotYet(i))'
      OBVIOUS
    <3>1. CASE Ago(tb[i].seq, Dist(i))
      BY <1>3, <3>1 DEF Ago, Dist
    <3>2. CASE NotYet(i)
      <4>1. lag' <= wcur
        BY <1>2, <2>4, <3>2 DEF NotYet, Slot
      <4> QED
        BY <1>3, <3>2, <4>1 DEF NotYet
    <3> QED
      BY <3>1, <3>2 DEF OrderInv, SlotsInv
  <2>8. (\/ lag = 0 /\ rcur = wcur
         \/ lag >= Dist(rcur))'
    <3>1. rcur \in 0..(N - 1) /\ wcur \in 0..(N - 1)
      BY <1>2 DEF Slot
    <3>2. rcur' = IF rcur + 1 = N THEN 0 ELSE rcur + 1
      BY <1>2, <2>1, NextSlotIs
    <3>3. Dist(rcur) = IF rcur < wcur THEN wcur - rcur ELSE wcur - rcur + N
      BY DEF Dist
    <3>4. Dist(rcur)' = IF rcur' < wcur THEN wcur - rcur' ELSE wcur - rcur' + N
      BY <1>3 DEF Dist
    <3>5. CASE d = Dist(rcur)
      <4>1. CASE Dist(rcur) = 1
        <5>1. rcur' = wcur
          BY <1>1, <3>1, <3>2, <3>3, <4>1
        <5> QED
          BY <1>3, <2>2, <3>5, <4>1, <5>1
      <4>2. CASE Dist(rcur) # 1
        <5>1. Dist(rcur)' = Dist(rcur) - 1
          BY <1>1, <3>1, <3>2, <3>3, <3>4, <4>2
        <5> QED
          BY <2>2, <3>5, <5>1, <1>6
      <4> QED
        BY <4>1, <4>2
    <3>6. CASE d >= Dist(rcur) + N
      <4>1. Dist(rcur) >= 1 /\ Dist(rcur) \in Int
        BY <1>1, <3>1, <3>3
      <4>2. Dist(rcur)' <= N /\ Dist(rcur)' \in Int
        BY <1>1, <3>1, <3>2, <3>4
      <4> QED
        BY <1>1, <1>6, <2>2, <3>6, <4>1, <4>2
    <3> QED
      BY <1>5, <3>5, <3>6
  <2> QED
    BY <1>7, <2>3, <2>5, <2>6, <2>7, <2>8 DEF OrderInv, SlotsInv
<1> QED
  BY <1>8, <1>9

LEMMA InitOrder ==
    ASSUME SeqRange = 2 * Half, TracerSize <= Half + 1, TracerInit
    PROVE  OrderInv
<1>1. /\ Half \in Nat /\ Half >= 1 /\ SeqRange \in Nat /\ SeqRange = 2 * Half
      /\ TracerSize \in Nat /\ TracerSize > 0 /\ MaxLag \in Nat
  BY OrderConstants
<1>2. /\ rcur = 0 /\ wcur = 0 /\ rseq = SeqRange - 1 /\ wseq = 0 /\ lag = 0
      /\ reading.at = "test"
      /\ \A i \in Slot : tb[i].seq = IF i = 0 THEN SeqRange - 1 ELSE 0
  BY DEF TracerInit, Blank
<1>3. NumberTypes
  BY <1>1, <1>2 DEF NumberTypes
<1>4. \A i \in Slot : NotYet(i)
  BY <1>1, <1>2 DEF NotYet, Slot
<1>5. Ago(rseq, lag + 1)
  BY <1>1, <1>2 DEF Ago
<1> QED
  BY <1>2, <1>3, <1>4, <1>5 DEF OrderInv, SlotsInv, CopyInv

\* Steps that reserve no slot and send nothing.
LEMMA NumbersKept ==
    ASSUME NumberTypes, SlotsInv, UNCHANGED <<rcur, wcur, rseq, wseq, lag>>,
           \A i \in Slot : tb'[i].seq = tb[i].seq
    PROVE  NumberTypes' /\ SlotsInv'
<1>1. NumberTypes'
  BY DEF NumberTypes
<1>2. \A i \in Slot : (Ago(tb[i].seq, Dist(i)) \/ NotYet(i))'
  BY DEF SlotsInv, Ago, NotYet, Dist
<1> QED
  BY <1>1, <1>2 DEF SlotsInv, Ago, Dist

LEMMA OrderStep ==
    ASSUME SeqRange = 2 * Half, TracerSize <= Half + 1,
           RingInv, OrderInv, [TracerNext]_tracerVars
    PROVE  /\ OrderInv'
           /\ sent' # sent => (sent'.seq - rseq) % SeqRange \in 1..lag
<1>1. /\ {rcur, wcur} \subseteq Slot /\ tb \in [Slot -> Records]
      /\ reading \in [at : {"test", "ev", "crc", "seq", "send"}, tmp : Records]
      /\ NumberTypes /\ SlotsInv /\ CopyInv
  BY DEF RingInv, RingTypes, OrderInv
<1>2. CASE SaveReserve
  <2>1. tb' = [tb EXCEPT ![wcur].seq = wseq] /\ Reserve(wseq) /\ sent' = sent
    BY <1>2 DEF SaveReserve, Reserve
  <2>2. \A i \in Slot : tb'[i].seq = IF i = wcur THEN wseq ELSE tb[i].seq
    BY <1>1, <2>1 DEF Records
  <2> QED
    BY <1>1, <2>1, <2>2, ReserveOrder
<1>3. CASE IsrSave
  <2>1. /\ tb' = [tb EXCEPT ![wcur] = [ev |-> wseq, crc |-> Crc(wseq, wseq), seq |-> wseq]]
        /\ Reserve(wseq) /\ sent' = sent
    BY <1>3 DEF IsrSave, Reserve
  <2>2. \A i \in Slot : tb'[i].seq = IF i = wcur THEN wseq ELSE tb[i].seq
    BY <1>1, <2>1
  <2> QED
    BY <1>1, <2>1, <2>2, ReserveOrder
<1>4. CASE SaveCopy
  <2>1. /\ tb' = [tb EXCEPT ![saving.slot].ev = saving.ev]
        /\ UNCHANGED <<rcur, wcur, rseq, wseq, reading, sent, lag>>
    BY <1>4 DEF SaveCopy
  <2>2. \A i \in Slot : tb'[i].seq = tb[i].seq
    BY <1>1, <2>1 DEF Records
  <2>3. CopyInv'
    BY <1>1, <2>1 DEF CopyInv, Ago, Dist
  <2> QED
    BY <1>1, <2>1, <2>2, <2>3, NumbersKept DEF OrderInv
<1>5. CASE SaveCrc
  <2>1. /\ tb' = [tb EXCEPT ![saving.slot].crc = Crc(saving.ev, tb[saving.slot].seq)]
        /\ UNCHANGED <<rcur, wcur, rseq, wseq, reading, sent, lag>>
    BY <1>5 DEF SaveCrc
  <2>2. \A i \in Slot : tb'[i].seq = tb[i].seq
    BY <1>1, <2>1 DEF Records
  <2>3. CopyInv'
    BY <1>1, <2>1 DEF CopyInv, Ago, Dist
  <2> QED
    BY <1>1, <2>1, <2>2, <2>3, NumbersKept DEF OrderInv
<1>6. CASE ReadTest
  <2>1. /\ Grater(rseq, tb[rcur].seq) /\ reading' = [reading EXCEPT !.at = "ev"]
        /\ UNCHANGED <<tb, rcur, wcur, rseq, wseq, sent, lag>>
    BY <1>6 DEF ReadTest
  <2>2. lag >= 1
    BY <1>1, <2>1, NothingNew DEF NumberTypes
  <2>3. CopyInv'
    BY <1>1, <2>1, <2>2 DEF CopyInv
  <2> QED
    BY <1>1, <2>1, <2>3, NumbersKept DEF OrderInv
<1>7. CASE ReadCopy
  <2>1. PICK field \in {"ev", "crc", "seq"} :
           /\ reading.at = field
           /\ reading' = [at |-> CopyNext[field],
                          tmp |-> [reading.tmp EXCEPT ![field] = tb[rcur][field]]]
    BY <1>7 DEF ReadCopy, Reader
  <2>2. UNCHANGED <<tb, rcur, wcur, rseq, wseq, sent, lag>>
    BY <1>7 DEF ReadCopy
  <2>3. reading.at # "test"
    BY <2>1
  <2>4. lag >= 1
    BY <1>1, <2>3 DEF CopyInv
  <2>5. reading'.at = "send" => field = "seq"
    BY <2>1 DEF CopyNext
  <2>6. ASSUME reading'.at = "send"
        PROVE  /\ reading'.tmp.seq \in 0..(SeqRange - 1)
               /\ \E d \in 1..lag : /\ Ago(reading'.tmp.seq, d)
                                    /\ d = Dist(rcur) \/ d >= Dist(rcur) + TracerSize
    <3>1. reading'.tmp.seq = tb[rcur].seq
      BY <1>1, <2>1, <2>5, <2>6 DEF Records
    <3>2. Dist(rcur) \in 1..lag /\ Ago(tb[rcur].seq, Dist(rcur))
      BY <1>1, <2>4, NextIsNewer
    <3> QED
      BY <1>1, <3>1, <3>2 DEF NumberTypes
  <2>7. CopyInv'
    BY <2>2, <2>4, <2>6 DEF CopyInv, Ago, Dist
  <2> QED
    BY <1>1, <2>2, <2>7, NumbersKept DEF OrderInv
<1>8. CASE Send
  BY <1>1, <1>8, SendOrder
<1>9. CASE UNCHANGED tracerVars
  <2>1. UNCHANGED <<tb, rcur, wcur, rseq, wseq, reading, sent, lag>>
    BY <1>9 DEF tracerVars
  <2>2. CopyInv'
    BY <1>1, <2>1 DEF CopyInv, Ago, Dist
  <2> QED
    BY <1>1, <2>1, <2>2, NumbersKept DEF OrderInv
<1> QED
  BY <1>2, <1>3, <1>4, <1>5, <1>6, <1>7, <1>8, <1>9 DEF TracerNext

LEMMA OrderHolds ==
    ASSUME MaxNested < TracerSize, SeqRange = 2 * Half, TracerSize <= Half + 1
    PROVE  TracerSpec => []OrderInv
<1>1. TracerInit => OrderInv
  BY InitOrder
<1>2. RingInv /\ OrderInv /\ [TracerNext]_tracerVars => OrderInv'
  BY OrderStep
<1> QED
  BY <1>1, <1>2, RingHolds, PTL DEF TracerSpec

\* Every event that the idle thread sends was saved after all that it sent
\* before, although the numbers wrap and the writers may lap the reader: the
\* test of _OS_TracerGrater is only sure of numbers half the range apart.
THEOREM TraceOrderCorrect ==
    ASSUME MaxNested < TracerSize, SeqRange = 2 * Half, TracerSize <= Half + 1
    PROVE  TracerSpec => TraceInOrder
<1> DEFINE InOrder ==
             [sent' # sent => (sent'.seq - rseq) % SeqRange \in 1..lag]_tracerVars
<1>1. RingInv /\ OrderInv /\ [TracerNext]_tracerVars => InOrder
  BY OrderStep
<1> QED
  BY <1>1, RingHolds, OrderHolds, PTL DEF TracerSpec, TraceInOrder

\* The idle thread of a system that traces powers the processor down only
\* when it has nothing more to send, unless it is more than half the range of
\* the numbers behind.
THEOREM ReaderCatchesUpCorrect ==
    ASSUME MaxNested < TracerSize, SeqRange = 2 * Half, TracerSize <= Half + 1
    PROVE  TracerSpec => []ReaderCatchesUp
<1>1. RingInv /\ OrderInv => ReaderCatchesUp
  <2> SUFFICES ASSUME RingInv, OrderInv, lag # 0, ~(lag >= Half)
               PROVE  Grater(rseq, tb[rcur].seq)
    BY DEF ReaderCatchesUp
  <2> DEFINE R == SeqRange
             n == tb[rcur].seq
             d == Dist(rcur)
  <2>1. /\ Half \in Nat /\ Half >= 1 /\ R = 2 * Half
        /\ {rcur, wcur} \subseteq Slot /\ rcur \in Slot
        /\ wseq \in 0..(R - 1) /\ rseq \in 0..(R - 1) /\ n \in 0..(R - 1) /\ lag \in Nat
    BY OrderConstants DEF RingInv, RingTypes, OrderInv, NumberTypes
  <2>2. lag \in 1..(Half - 1)
    BY <2>1
  <2>3. d \in 1..lag /\ Ago(n, d)
    BY <2>1, <2>2, NextIsNewer
  <2>4. Ago(rseq, lag + 1)
    BY DEF OrderInv, SlotsInv
  <2>5. Grater(rseq, n) <=> n - rseq \in 1..(Half - 1) \/ n - rseq + R \in 1..(Half - 1)
    BY <2>1, GraterIs
  <2> SUFFICES Grater(rseq, n)
    OBVIOUS
  <2> HIDE DEF n, d
  <2>6. (wseq = n + d \/ wseq = n + d - R)
        /\ (wseq = rseq + (lag + 1) \/ wseq = rseq + (lag + 1) - R)
    BY <2>3, <2>4 DEF Ago
  <2>7. \/ n - rseq = lag + 1 - d
        \/ n - rseq + R = lag + 1 - d
        \/ n - rseq = lag + 1 - d + R
    BY <2>1, <2>2, <2>3, <2>6
  <2>8. lag + 1 - d \in 1..(Half - 1)
    BY <2>1, <2>2, <2>3
  <2>9. n - rseq # lag + 1 - d + R
    BY <2>1, <2>8
  <2> QED
    BY <2>5, <2>7, <2>8, <2>9
<1> QED
  BY <1>1, RingHolds, OrderHolds, PTL

----------------------------------------------------------------------------
(* The exception frames of the debugger.  No frame takes more than          *)
(* MostTaken bytes, so one more fits below a frame that lies that far up.   *)

MostTaken == 46

\* The code has 2000.
RoomForAFrame == FrameBytes >= StructBytes + 4 + MostTaken

FrameRecords == [pc : Nat, vector : Nat, at : Int]

\* Where lastFrame was before frame i.
Above(fs, i) == IF i = 1 THEN Bottom ELSE fs[i - 1].at

\* A frame was put where there was room for it, and the program runs only where
\* there is room for the next one.
FrameInv ==
    /\ frames \in Seq(FrameRecords)
    /\ stub \in {"run", "monitor", "access", "return"}
    /\ onBusError = IF stub = "access" THEN "handle_buserror" ELSE "catchException"
    /\ \A i \in 1..Len(frames) : Above(frames, i) >= MostTaken /\ frames[i].at >= 0
    /\ stub = "run" => LastFrame >= MostTaken

LEMMA LastFrameIs ==
    ASSUME frames \in Seq(FrameRecords)
    PROVE  LastFrame = Above(frames, Len(frames) + 1)
  BY DEF LastFrame, Above, Last

LEMMA LastFrameInt == FrameInv => LastFrame \in Int
<1> SUFFICES ASSUME FrameInv PROVE LastFrame \in Int
  OBVIOUS
<1>1. CASE frames = << >>
  BY <1>1, FrameAssumption DEF LastFrame, Bottom, StructBytes
<1>2. CASE frames # << >>
  <2>1. frames[Len(frames)] \in FrameRecords
    BY <1>2 DEF FrameInv
  <2> QED
    BY <1>2, <2>1 DEF LastFrame, Last, FrameRecords
<1> QED
  BY <1>1, <1>2

LEMMA BytesTaken ==
    ASSUME NEW vector \in {2, 9, 31, 33}
    PROVE  TakenBy(ExceptionSize(vector)) \in 0..MostTaken
<1>1. ExceptionSize(vector) \in {4, 6, 16}
  BY DEF ExceptionSize
<1> QED
  BY <1>1 DEF TakenBy, MostTaken

\* A frame is put where there is room.
LEMMA FramePushed ==
    ASSUME RoomForAFrame, FrameInv, LastFrame >= MostTaken,
           NEW f \in FrameRecords, f.at >= 0, f.at \in Int,
           frames' = Append(frames, f)
    PROVE  /\ frames' \in Seq(FrameRecords)
           /\ \A i \in 1..Len(frames') :
                 Above(frames', i) >= MostTaken /\ frames'[i].at >= 0
<1>1. frames' \in Seq(FrameRecords) /\ Len(frames') = Len(frames) + 1
  BY DEF FrameInv
<1>2. \A i \in 1..Len(frames) : frames'[i] = frames[i]
  BY DEF FrameInv
<1>3. frames'[Len(frames) + 1] = f
  BY DEF FrameInv
<1>4. Above(frames, Len(frames) + 1) >= MostTaken
  BY LastFrameIs DEF FrameInv
<1>5. ASSUME NEW i \in 1..Len(frames')
      PROVE  Above(frames', i) >= MostTaken /\ frames'[i].at >= 0
  <2>0. Len(frames) \in Nat
    BY DEF FrameInv
  <2>1. Above(frames', i) = Above(frames, i)
    BY <1>1, <1>2, <2>0 DEF Above
  <2>2. CASE i = Len(frames) + 1
    BY <2>1, <2>2, <1>3, <1>4
  <2>3. CASE i \in 1..Len(frames)
    BY <2>1, <2>3, <1>2 DEF FrameInv
  <2> QED
    BY <2>0, <2>2, <2>3, <1>1
<1> QED
  BY <1>1, <1>5

LEMMA StepCaught ==
    ASSUME RoomForAFrame, FrameInv, stub = "run",
           NEW vector \in {2, 9, 31, 33}, NEW pc \in Addresses, Caught(vector, pc)
    PROVE  FrameInv'
<1> DEFINE f == [pc |-> pc, vector |-> vector,
                 at |-> LastFrame - TakenBy(ExceptionSize(vector))]
<1>1. LastFrame \in Int /\ LastFrame >= MostTaken
  BY LastFrameInt DEF FrameInv
<1>2. f \in FrameRecords /\ f.at >= 0 /\ f.at \in Int
  BY <1>1, BytesTaken, FrameAssumption DEF FrameRecords, MostTaken
<1>3. frames' = Append(frames, f)
  BY DEF Caught
<1> HIDE DEF f
<1>4. /\ frames' \in Seq(FrameRecords)
      /\ \A i \in 1..Len(frames') :
            Above(frames', i) >= MostTaken /\ frames'[i].at >= 0
  BY <1>1, <1>2, <1>3, FramePushed
<1>5. stub' = "monitor" /\ onBusError' = "catchException"
  BY DEF Caught, FrameInv
<1> QED
  BY <1>4, <1>5 DEF FrameInv

\* A resume keeps the frames up to one, or puts the one made up for it.
LEMMA StepResume ==
    ASSUME RoomForAFrame, FrameInv, NEW pc \in Addresses, NEW step \in BOOLEAN,
           Resume(pc, step)
    PROVE  FrameInv'
<1>0. stub' = "return" /\ onBusError' = "catchException"
  BY DEF Resume, FrameInv
<1>1. ASSUME NEW i \in FramesFor(pc), frames' = SubSeq(frames, 1, i)
      PROVE  FrameInv'
  <2>1. i \in 1..Len(frames)
    BY DEF FramesFor, FrameInv
  <2>2. /\ frames' \in Seq(FrameRecords) /\ Len(frames') = i
        /\ \A j \in 1..i : frames'[j] = frames[j]
    BY <1>1, <2>1 DEF FrameInv
  <2>3. \A j \in 1..i : Above(frames', j) = Above(frames, j)
    BY <2>1, <2>2 DEF Above
  <2> QED
    BY <1>0, <2>1, <2>2, <2>3 DEF FrameInv
<1>2. CASE frames' = Append(frames, MadeUp) /\ RoomChecked(LastFrame)
  <2>1. LastFrame \in Int /\ LastFrame >= MostTaken + StructBytes
    BY <1>2, LastFrameInt DEF RoomChecked, MostTaken, StructBytes
  <2>2. MadeUp \in FrameRecords /\ MadeUp.at >= 0 /\ MadeUp.at \in Int
    BY <2>1 DEF MadeUp, FrameRecords, MostTaken, StructBytes
  <2> QED
    BY <1>0, <1>2, <2>1, <2>2, FramePushed DEF FrameInv, StructBytes, MostTaken
<1>3. CASE frames' = << >>
  BY <1>0, <1>3 DEF FrameInv
<1> QED
  BY <1>1, <1>2, <1>3 DEF Resume

\* The frame that is left was put where there was room, so that there is again.
LEMMA StepReturn ==
    ASSUME RoomForAFrame, FrameInv, ReturnFromException
    PROVE  FrameInv'
<1>0. stub' = "run" /\ onBusError' = "catchException" /\ stub = "return"
  BY DEF ReturnFromException, FrameInv
<1>1. CASE frames = << >>
  <2>1. frames' = << >>
    BY <1>1 DEF ReturnFromException
  <2>2. LastFrame' = Bottom /\ Bottom >= MostTaken
    BY <2>1, FrameAssumption DEF LastFrame, Bottom, RoomForAFrame, MostTaken, StructBytes
  <2> QED
    BY <1>0, <2>1, <2>2 DEF FrameInv
<1>2. CASE frames # << >>
  <2> DEFINE n == Len(frames)
  <2>1. n \in Nat \ {0}
    BY <1>2 DEF FrameInv
  <2>2. frames' = SubSeq(frames, 1, n - 1)
    BY <1>2 DEF ReturnFromException, Front
  <2>3. /\ frames' \in Seq(FrameRecords) /\ Len(frames') = n - 1
        /\ \A j \in 1..(n - 1) : frames'[j] = frames[j]
    <3> DEFINE m == n - 1
    <3>1. m \in 0..Len(frames) /\ frames' = SubSeq(frames, 1, m)
      BY <2>1, <2>2
    <3> HIDE DEF m
    <3>2. /\ frames' \in Seq(FrameRecords) /\ Len(frames') = m
          /\ \A j \in 1..m : frames'[j] = frames[j]
      BY <3>1 DEF FrameInv
    <3> QED
      BY <3>2 DEF m
  <2>4. \A j \in 1..n : Above(frames', j) = Above(frames, j)
    BY <2>1, <2>3 DEF Above
  <2>5. LastFrame' = Above(frames', n)
    BY <2>1, <2>3 DEF LastFrame, Above, Last
  <2> QED
    BY <1>0, <2>1, <2>3, <2>4, <2>5 DEF FrameInv
<1> QED
  BY <1>1, <1>2

\* The other steps leave the frames as they are.
LEMMA StepElsewhere ==
    ASSUME FrameInv, UNCHANGED frames,
           \/ stub' = "monitor" /\ onBusError' = "catchException"
           \/ stub' = "access" /\ onBusError' = "handle_buserror"
    PROVE  FrameInv'
<1>1. \A i \in 1..Len(frames) : Above(frames', i) = Above(frames, i)
  BY DEF Above
<1> QED
  BY <1>1 DEF FrameInv

LEMMA FrameInvInit == RoomForAFrame /\ FrameInit => FrameInv
  BY FrameAssumption
  DEF FrameInit, SetDebugTraps, FrameInv, LastFrame, Bottom, RoomForAFrame, MostTaken, StructBytes

LEMMA FrameInvNext == RoomForAFrame /\ FrameInv /\ [FrameNext]_frameVars => FrameInv'
<1> SUFFICES ASSUME RoomForAFrame, FrameInv, [FrameNext]_frameVars PROVE FrameInv'
  OBVIOUS
<1>1. CASE CatchException \/ OldCatchException
  BY <1>1, StepCaught DEF CatchException, OldCatchException
<1>2. CASE DebugLevel7
  BY <1>2, StepCaught DEF DebugLevel7
<1>3. CASE AccessMemory \/ AccessEnds
  BY <1>3, StepElsewhere DEF AccessMemory, AccessEnds
<1>4. CASE BusErrorInAccess
  BY <1>4, StepElsewhere DEF BusErrorInAccess, FrameInv
<1>5. CASE HandleException \/ OldHandleException
  BY <1>5, StepResume DEF HandleException, OldHandleException
<1>6. CASE ReturnFromException
  BY <1>6, StepReturn
<1>7. CASE UNCHANGED frameVars
  <2>1. \A i \in 1..Len(frames) : Above(frames', i) = Above(frames, i)
    BY <1>7 DEF frameVars, Above
  <2>2. LastFrame' = LastFrame
    BY <1>7 DEF frameVars, LastFrame
  <2> QED
    BY <1>7, <2>1, <2>2 DEF FrameInv, frameVars
<1> QED
  BY <1>1, <1>2, <1>3, <1>4, <1>5, <1>6, <1>7 DEF FrameNext

\* In a stack with room for one frame of the largest kind, however the host
\* resumes the program, the frames of exceptions stay in gdbFrameStack.
THEOREM FrameStackCorrect ==
    ASSUME RoomForAFrame
    PROVE  FrameSpec => []FrameStackHolds
<1>1. FrameInit => FrameInv
  BY FrameInvInit
<1>2. FrameInv /\ [FrameNext]_frameVars => FrameInv'
  BY FrameInvNext
<1>3. FrameInv => FrameStackHolds
  <2>1. CASE frames = << >>
    BY <2>1, FrameAssumption
    DEF FrameStackHolds, LastFrame, Bottom, RoomForAFrame, MostTaken, StructBytes
  <2>2. CASE frames # << >>
    BY <2>2 DEF FrameInv, FrameStackHolds, LastFrame, Last
  <2> QED
    BY <2>1, <2>2
<1> QED
  BY <1>1, <1>2, <1>3, PTL DEF FrameSpec

----------------------------------------------------------------------------
(* The packets on the line of the debugger (GdbLine).  At most one packet,  *)
(* one acknowledgement and one reply are on their way at a time, in the     *)
(* order of the phases below; a packet that is accepted has the right sum,  *)
(* so that it is the command that the host sent last.                       *)

LineChars == [c : {"$", "x", "#", "+", "-", "reply", "spoilt"}, v : Nat]
Getters == [at : {"start", "body", "run", "plus"}, body : Seq(LineChars), ran : Nat]
Hosts == [at : {"idle", "ack", "reply"}, sent : Nat, size : Nat, reply : Nat]

LineTypes ==
    /\ limit \in Limits /\ harm \in Nat
    /\ toStub \in Seq(LineChars) /\ toHost \in Seq(LineChars)
    /\ getter \in Getters /\ host \in Hosts
    /\ host.sent <= Commands
    /\ host.at # "idle" => host.sent >= 1 /\ host.size \in 1..limit

\* From k on q is what is left of packet n, spoilt or not.
PacketChar(ch, n, last) ==
    \/ ch.c = "$"
    \/ ch.c = "x" /\ ch.v \in {0, n, Commands + 1}
    \/ ch.c = "#" /\ ch.v \in {n, Commands + 2} /\ last
Packet(q, k, n) == \A i \in k..Len(q) : PacketChar(q[i], n, i = Len(q))

\* The host has the reply; its acknowledgement may be on its way.
Quiet ==
    /\ host.at = "idle" /\ toHost = << >>
    /\ getter.ran = host.sent /\ host.reply = host.sent
    /\ \/ getter.at = "start" /\ toStub = << >>
       \/ getter.at = "plus" /\ Len(toStub) = 1 /\ toStub[1].c = "+"

\* The packet is on its way behind the acknowledgement of the last reply,
Queued ==
    /\ host.at = "ack" /\ toHost = << >> /\ getter.ran = host.sent - 1
    /\ getter.at = "plus"
    /\ Len(toStub) >= 1 /\ toStub[1].c = "+" /\ Packet(toStub, 2, host.sent)
\* or is read or got lost,
Reading ==
    /\ host.at = "ack" /\ toHost = << >> /\ getter.ran = host.sent - 1
    /\ getter.at \in {"start", "body"} /\ Packet(toStub, 1, host.sent)
    /\ getter.at = "body" => Checksum(getter.body) \in {0, host.sent, Commands + 1}
\* or was refused.
Refused ==
    /\ host.at = "ack" /\ getter.ran = host.sent - 1 /\ getter.at = "start"
    /\ toStub = << >> /\ Len(toHost) = 1 /\ toHost[1].c = "-"

\* The packet is accepted.
Accepted ==
    /\ getter.at = "run" /\ getter.ran = host.sent - 1 /\ Checksum(getter.body) = host.sent
    /\ toStub = << >>
    /\ \/ host.at = "ack" /\ Len(toHost) = 1 /\ toHost[1].c = "+"
       \/ host.at = "reply" /\ toHost = << >>

IsReply(ch, n) == ch.c \in {"reply", "spoilt"} /\ ch.v = n

\* The reply is on its way, or was spoilt and is asked for again.
Replying ==
    /\ getter.at = "plus" /\ getter.ran = host.sent /\ Checksum(getter.body) = host.sent
    /\ \/ /\ toStub = << >> /\ host.at = "ack" /\ Len(toHost) = 2
          /\ toHost[1].c = "+" /\ IsReply(toHost[2], host.sent)
       \/ /\ toStub = << >> /\ host.at = "reply" /\ Len(toHost) = 1
          /\ IsReply(toHost[1], host.sent)
       \/ /\ toHost = << >> /\ host.at = "reply" /\ Len(toStub) = 1 /\ toStub[1].c = "-"

LineInv ==
    /\ LineTypes
    /\ Quiet \/ Queued \/ Reading \/ Refused \/ Accepted \/ Replying

LEMMA LineNumbers ==
    /\ BufMax \in Nat /\ BufMax > 2 /\ Commands \in Nat /\ Damages \in Nat
    /\ \A l \in Limits : l \in Nat /\ l >= 2
  BY LineAssumption DEF Limits

LEMMA LineConcat ==
    \A s, t \in Seq(LineChars) :
        /\ s \o t \in Seq(LineChars) /\ Len(s \o t) = Len(s) + Len(t)
        /\ \A i \in 1..(Len(s) + Len(t)) :
              (s \o t)[i] = IF i <= Len(s) THEN s[i] ELSE t[i - Len(s)]
  BY ConcatProperties, Zenon

\* The packet of a command.
LEMMA CommandIs ==
    ASSUME NEW n \in 1..Commands, NEW size \in Nat, size >= 1
    PROVE  /\ Command(n, size) \in Seq(LineChars) /\ Len(Command(n, size)) >= 1
           /\ Packet(Command(n, size), 1, n)
<1> DEFINE a == << Chr("$", 0), Chr("x", n) >>
           b == [i \in 1..(size - 1) |-> Chr("x", 0)]
           z == << Chr("#", n) >>
           m == size - 1
<1>0. n \in Nat /\ m \in Nat /\ Commands \in Nat
  BY LineNumbers
<1>1. \A c \in {"$", "x", "#"}, v \in Nat :
         Chr(c, v) \in LineChars /\ Chr(c, v).c = c /\ Chr(c, v).v = v
  BY DEF Chr, LineChars
<1>2. /\ a \in Seq(LineChars) /\ Len(a) = 2 /\ a[1].c = "$" /\ a[2].c = "x" /\ a[2].v = n
      /\ b \in Seq(LineChars) /\ Len(b) = m /\ \A i \in 1..m : b[i].c = "x" /\ b[i].v = 0
      /\ z \in Seq(LineChars) /\ Len(z) = 1 /\ z[1].c = "#" /\ z[1].v = n
  BY <1>0, <1>1
<1>3. Command(n, size) = a \o b \o z
  BY DEF Command
<1> HIDE DEF a, b, z, m
<1> DEFINE ab == a \o b
<1>4. /\ ab \in Seq(LineChars) /\ Len(ab) = 2 + m
      /\ \A i \in 1..(2 + m) : ab[i] = IF i <= 2 THEN a[i] ELSE b[i - 2]
  <2>1. /\ a \o b \in Seq(LineChars) /\ Len(a \o b) = 2 + m
        /\ \A i \in 1..(2 + m) : (a \o b)[i] = IF i <= 2 THEN a[i] ELSE b[i - 2]
    <3>0. a \in Seq(LineChars) /\ b \in Seq(LineChars)
      BY <1>2
    <3>1. /\ a \o b \in Seq(LineChars) /\ Len(a \o b) = Len(a) + Len(b)
          /\ \A i \in 1..(Len(a) + Len(b)) :
                (a \o b)[i] = IF i <= Len(a) THEN a[i] ELSE b[i - Len(a)]
      BY ONLY <3>0, LineConcat, Zenon
    <3> QED
      BY ONLY <3>1, <1>2
  <2> QED
    BY ONLY <2>1 DEF ab
<1> HIDE DEF ab
<1> DEFINE q == ab \o z
<1>5. /\ q \in Seq(LineChars) /\ Len(q) = 3 + m
      /\ \A i \in 1..(3 + m) : q[i] = IF i <= 2 + m THEN ab[i] ELSE z[i - (2 + m)]
  <2>1. /\ ab \o z \in Seq(LineChars) /\ Len(ab \o z) = 2 + m + 1
        /\ \A i \in 1..(2 + m + 1) :
              (ab \o z)[i] = IF i <= 2 + m THEN ab[i] ELSE z[i - (2 + m)]
    <3>0. ab \in Seq(LineChars) /\ z \in Seq(LineChars)
      BY <1>2, <1>4
    <3>1. /\ ab \o z \in Seq(LineChars) /\ Len(ab \o z) = Len(ab) + Len(z)
          /\ \A i \in 1..(Len(ab) + Len(z)) :
                (ab \o z)[i] = IF i <= Len(ab) THEN ab[i] ELSE z[i - Len(ab)]
      BY ONLY <3>0, LineConcat, Zenon
    <3> QED
      BY ONLY <3>1, <1>2, <1>4
  <2>2. 2 + m + 1 = 3 + m
    BY <1>0
  <2> QED
    BY ONLY <2>1, <2>2 DEF q
<1> HIDE DEF q
<1>6. ASSUME NEW i \in 1..Len(q) PROVE PacketChar(q[i], n, i = Len(q))
  <2>1. CASE i \in 1..2
    <3>1. i \in 1..(2 + m) /\ i \in 1..(3 + m) /\ i <= 2 + m /\ i <= 2
      BY <2>1, <1>0
    <3>2. q[i] = a[i]
      BY ONLY <3>1, <1>4, <1>5
    <3>3. q[i].c = "$" \/ (q[i].c = "x" /\ q[i].v = n)
      BY ONLY <3>2, <2>1, <1>2
    <3> QED
      BY ONLY <3>3 DEF PacketChar
  <2>3. CASE i \in 3..(2 + m)
    <3>1. i - 2 \in 1..m /\ q[i] = b[i - 2]
      BY <2>3, <1>0, <1>4, <1>5
    <3> QED
      BY <3>1, <1>2 DEF PacketChar
  <2>4. CASE i = 3 + m
    <3>1. q[i] = z[1] /\ i = Len(q)
      BY <2>4, <1>0, <1>5
    <3> QED
      BY <3>1, <1>2 DEF PacketChar
  <2> QED
    BY <2>1, <2>3, <2>4, <1>0, <1>5
<1>7. Command(n, size) = q
  BY <1>3 DEF q, ab
<1> QED
  BY <1>0, <1>5, <1>6, <1>7 DEF Packet

\* What is left of a packet when its first character has been read.
LEMMA PacketTail ==
    ASSUME NEW q \in Seq(LineChars), NEW k \in {1, 2}, NEW n, Len(q) >= 1, Packet(q, k, n)
    PROVE  Tail(q) \in Seq(LineChars) /\ Packet(Tail(q), 1, n)
<1> DEFINE r == Tail(q)
<1>1. /\ r \in Seq(LineChars) /\ Len(r) = Len(q) - 1 /\ Len(q) \in Nat
      /\ \A i \in 1..Len(r) : r[i] = q[i + 1]
  OBVIOUS
<1> HIDE DEF r
<1>2. ASSUME NEW i \in 1..Len(r) PROVE PacketChar(r[i], n, i = Len(r))
  <2>1. i + 1 \in k..Len(q) /\ (i = Len(r) <=> i + 1 = Len(q))
    <3>1. Len(r) = Len(q) - 1 /\ Len(q) \in Nat /\ i \in 1..Len(r)
      BY <1>1
    <3>2. CASE k = 1
      BY ONLY <3>1, <3>2
    <3>3. CASE k = 2
      BY ONLY <3>1, <3>3
    <3> QED
      BY <3>2, <3>3
  <2>3. r[i] = q[i + 1]
    BY <1>1
  <2>2. PacketChar(q[i + 1], n, i + 1 = Len(q))
    BY <2>1 DEF Packet
  <2> QED
    BY <2>1, <2>2, <2>3 DEF PacketChar
<1> QED
  BY <1>1, <1>2 DEF Packet, r

\* A character of a packet is spoilt.
LEMMA PacketSpoilt ==
    ASSUME NEW q \in Seq(LineChars), NEW k \in {1, 2}, NEW n, Packet(q, k, n),
           NEW i \in k..Len(q), NEW ch \in LineChars,
           \/ ch.c = "$"
           \/ ch.c = "x" /\ ch.v = Commands + 1
           \/ ch.c = "#" /\ ch.v = Commands + 2 /\ q[i].c = "#"
    PROVE  /\ [q EXCEPT ![i] = ch] \in Seq(LineChars) /\ Packet([q EXCEPT ![i] = ch], k, n)
           /\ Len([q EXCEPT ![i] = ch]) = Len(q)
           /\ k = 2 => [q EXCEPT ![i] = ch][1] = q[1]
<1> DEFINE r == [q EXCEPT ![i] = ch]
<1>1. /\ r \in Seq(LineChars) /\ Len(r) = Len(q) /\ Len(q) \in Nat /\ r[i] = ch
      /\ \A j \in 1..Len(q) : j # i => r[j] = q[j]
  OBVIOUS
<1> HIDE DEF r
<1>2. ASSUME NEW j \in k..Len(r) PROVE PacketChar(r[j], n, j = Len(r))
  <2>1. PacketChar(q[j], n, j = Len(q)) /\ PacketChar(q[i], n, i = Len(q))
    BY <1>1 DEF Packet
  <2>2. CASE j = i
    BY <2>1, <2>2, <1>1 DEF PacketChar
  <2>3. CASE j # i
    BY <2>1, <2>3, <1>1 DEF PacketChar
  <2> QED
    BY <2>2, <2>3
<1>3. k = 2 => r[1] = q[1]
  BY <1>1
<1> QED
  BY <1>1, <1>2, <1>3 DEF Packet, r

LEMMA EmptyPacket == \A n : Packet(<< >>, 1, n)
  BY DEF Packet

LEMMA QueueEnds ==
    ASSUME NEW q \in Seq(LineChars)
    PROVE  /\ Len(q) \in Nat /\ (q = << >> <=> Len(q) = 0)
           /\ q # << >> => /\ Head(q) = q[1] /\ Tail(q) \in Seq(LineChars)
                           /\ Len(Tail(q)) = Len(q) - 1
                           /\ \A i \in 1..(Len(q) - 1) : Tail(q)[i] = q[i + 1]
           /\ Len(q) = 1 => Tail(q) = << >>
           /\ \A i \in 1..Len(q) : q[i] \in LineChars
<1>1. q # << >> => Len(Tail(q)) = Len(q) - 1 /\ Tail(q) \in Seq(LineChars)
  OBVIOUS
<1>2. Len(q) = 1 => Tail(q) = << >>
  <2>1. \A r \in Seq(LineChars) : Len(r) = 0 => r = << >>
    OBVIOUS
  <2>2. Len(q) = 1 => Tail(q) \in Seq(LineChars) /\ Len(Tail(q)) = 0
    BY <1>1
  <2> QED
    BY <2>1, <2>2
<1> QED
  BY <1>1, <1>2

LEMMA QueueAppend ==
    ASSUME NEW q \in Seq(LineChars), NEW ch \in LineChars
    PROVE  /\ Append(q, ch) \in Seq(LineChars) /\ Append(q, ch) # << >>
           /\ Len(Append(q, ch)) = Len(q) + 1 /\ Append(q, ch)[Len(q) + 1] = ch
           /\ \A i \in 1..Len(q) : Append(q, ch)[i] = q[i]
  OBVIOUS

\* A packet behind an acknowledgement.
LEMMA PacketBehind ==
    ASSUME NEW s \in Seq(LineChars), NEW t \in Seq(LineChars), NEW n, Len(s) = 1,
           Packet(t, 1, n)
    PROVE  /\ s \o t \in Seq(LineChars) /\ Len(s \o t) >= 1 /\ (s \o t)[1] = s[1]
           /\ Packet(s \o t, 2, n)
<1> DEFINE q == s \o t
<1>1. /\ q \in Seq(LineChars) /\ Len(q) = Len(s) + Len(t) /\ Len(t) \in Nat
      /\ \A i \in 1..(Len(s) + Len(t)) : q[i] = IF i <= Len(s) THEN s[i] ELSE t[i - Len(s)]
  BY LineConcat, QueueEnds, Zenon
<1> HIDE DEF q
<1>2. Len(q) = 1 + Len(t) /\ q[1] = s[1]
  BY <1>1
<1>3. ASSUME NEW i \in 2..Len(q) PROVE PacketChar(q[i], n, i = Len(q))
  <2>1. i - 1 \in 1..Len(t) /\ q[i] = t[i - 1] /\ (i = Len(q) <=> i - 1 = Len(t))
    BY <1>1, <1>2
  <2>2. PacketChar(t[i - 1], n, i - 1 = Len(t))
    BY <2>1 DEF Packet
  <2> QED
    BY <2>1, <2>2 DEF PacketChar
<1> QED
  BY <1>1, <1>2, <1>3 DEF Packet, q

\* The characters that are put on the line.
LEMMA LineChr ==
    /\ \A v \in Nat, c \in {"$", "x", "#", "+", "-", "reply", "spoilt"} :
          Chr(c, v) \in LineChars /\ Chr(c, v).c = c /\ Chr(c, v).v = v
    /\ \A ch \in LineChars : ch.v \in Nat
  BY DEF Chr, LineChars

\* The host sends its packet: a new one, or the last one again.
LEMMA StepHostSends ==
    ASSUME LineInv, HostSends
    PROVE  LineInv'
<1>0. Commands \in Nat /\ \A l \in Limits : l \in Nat
  BY LineNumbers
<1>1. Quiet /\ LineTypes
  BY DEF LineInv, HostSends, Queued, Reading, Refused, Accepted, Replying, Quiet
<1>2. PICK size \in 1..(limit - 1) :
          /\ host' = [host EXCEPT !.at = "ack", !.sent = @ + 1, !.size = size]
          /\ toStub' = toStub \o Command(host.sent + 1, size)
  BY DEF HostSends
<1>3. /\ UNCHANGED <<limit, toHost, getter, harm>> /\ host.sent < Commands
      /\ host.at = "idle"
  BY DEF HostSends
<1> DEFINE n == host.sent + 1
           C == Command(n, size)
<1>4. n \in 1..Commands /\ size \in Nat /\ size >= 1 /\ limit \in Nat /\ size \in 1..limit
  BY <1>0, <1>1, <1>3 DEF LineTypes, Hosts
<1>5. C \in Seq(LineChars) /\ Len(C) >= 1 /\ Packet(C, 1, n)
  BY <1>4, CommandIs
<1>6. toStub \in Seq(LineChars) /\ toStub' = toStub \o C
  BY <1>1, <1>2 DEF LineTypes
<1> HIDE DEF C
<1>7. /\ host' \in Hosts /\ host'.at = "ack" /\ host'.sent = n /\ host'.size = size
  <2>1. host \in Hosts /\ n \in Nat /\ size \in Nat
    BY <1>1, <1>4 DEF LineTypes
  <2>2. host' = [host EXCEPT !.at = "ack", !.sent = n, !.size = size]
    BY <1>2
  <2> QED
    BY ONLY <2>1, <2>2 DEF Hosts
<1>8. toStub \o C \in Seq(LineChars)
  BY <1>5, <1>6, LineConcat
<1>9. LineTypes'
  BY <1>1, <1>3, <1>4, <1>6, <1>7, <1>8 DEF LineTypes
<1>10. CASE getter.at = "start" /\ toStub = << >>
  <2>1. toStub' = C
    BY <1>5, <1>6, <1>10
  <2>2. Reading'
    BY <1>1, <1>3, <1>4, <1>5, <1>7, <1>10, <2>1 DEF Quiet, Reading, LineTypes, Hosts
  <2> QED
    BY <1>9, <2>2 DEF LineInv
<1>11. CASE getter.at = "plus" /\ Len(toStub) = 1 /\ toStub[1].c = "+"
  <2>1. Len(toStub') >= 1 /\ toStub'[1].c = "+" /\ Packet(toStub', 2, n)
    BY <1>5, <1>6, <1>11, PacketBehind
  <2>2. Queued'
    <3>1. toHost' = << >> /\ getter'.ran = host'.sent - 1 /\ getter'.at = "plus"
      BY <1>1, <1>3, <1>4, <1>7, <1>11 DEF Quiet, LineTypes, Hosts
    <3> QED
      BY <1>7, <2>1, <3>1 DEF Queued
  <2> QED
    BY <1>9, <2>2 DEF LineInv
<1> QED
  BY <1>1, <1>10, <1>11 DEF Quiet

LEMMA StepHostTimesOut ==
    ASSUME LineInv, HostTimesOut
    PROVE  LineInv'
<1>0. Commands \in Nat /\ \A l \in Limits : l \in Nat
  BY LineNumbers
<1>1. /\ LineTypes /\ host.at = "ack" /\ toStub = << >> /\ toHost = << >>
      /\ toStub' = Command(host.sent, host.size)
      /\ UNCHANGED <<limit, toHost, getter, host, harm>>
  BY DEF LineInv, HostTimesOut
<1>2. Reading
  BY <1>1 DEF LineInv, Quiet, Queued, Refused, Accepted, Replying
<1> DEFINE C == Command(host.sent, host.size)
<1>3. host.sent \in 1..Commands /\ host.size \in Nat /\ host.size >= 1
  BY <1>0, <1>1 DEF LineTypes, Hosts
<1>4. C \in Seq(LineChars) /\ Packet(C, 1, host.sent)
  BY <1>3, CommandIs
<1> HIDE DEF C
<1>5. toStub' = C
  BY <1>1 DEF C
<1>6. LineTypes'
  BY <1>1, <1>4, <1>5 DEF LineTypes
<1>7. Reading'
  BY <1>1, <1>2, <1>4, <1>5 DEF Reading
<1> QED
  BY <1>6, <1>7 DEF LineInv

\* The host reads an acknowledgement or a reply.
LEMMA StepHostReads ==
    ASSUME LineInv, HostReads
    PROVE  LineInv'
<1>0. Commands \in Nat /\ \A l \in Limits : l \in Nat
  BY LineNumbers
<1>1. /\ LineTypes /\ toHost # << >> /\ toHost' = Tail(toHost)
      /\ UNCHANGED <<limit, getter, harm>>
  BY DEF LineInv, HostReads
<1>2. /\ toHost \in Seq(LineChars) /\ toStub \in Seq(LineChars) /\ host \in Hosts
      /\ host.at # "idle" => host.sent \in 1..Commands /\ host.size \in 1..limit
  BY <1>0, <1>1 DEF LineTypes, Hosts
<1>3. /\ Head(toHost) = toHost[1] /\ Tail(toHost) \in Seq(LineChars)
      /\ Len(Tail(toHost)) = Len(toHost) - 1 /\ Len(toHost) \in Nat
      /\ \A i \in 1..(Len(toHost) - 1) : Tail(toHost)[i] = toHost[i + 1]
      /\ Len(toHost) = 1 => Tail(toHost) = << >>
  BY <1>1, <1>2, QueueEnds
<1>4. CASE Refused
  <2> DEFINE C == Command(host.sent, host.size)
  <2>1. toHost' = << >> /\ UNCHANGED host /\ toStub' = toStub \o C
    BY <1>1, <1>3, <1>4 DEF Refused, HostReads
  <2>2. C \in Seq(LineChars) /\ Packet(C, 1, host.sent)
    <3>1. host.sent \in 1..Commands /\ host.size \in Nat /\ host.size >= 1
      BY <1>0, <1>1, <1>2, <1>4 DEF Refused, LineTypes
    <3> QED
      BY <3>1, CommandIs
  <2> HIDE DEF C
  <2>3. toStub' = C
    BY <1>4, <2>1, <2>2 DEF Refused
  <2>4. LineTypes'
    BY <1>1, <2>1, <2>2, <2>3 DEF LineTypes
  <2>5. Reading'
    BY <1>1, <1>4, <2>1, <2>2, <2>3 DEF Reading, Refused
  <2> QED
    BY <2>4, <2>5 DEF LineInv
<1>5. CASE Accepted
  <2>1. host.at = "ack" /\ toHost[1].c = "+" /\ Len(toHost) = 1
    BY <1>1, <1>5 DEF Accepted
  <2>2. toHost' = << >> /\ UNCHANGED toStub /\ host' = [host EXCEPT !.at = "reply"]
    BY <1>1, <1>3, <2>1 DEF HostReads
  <2>3. host' \in Hosts /\ host'.at = "reply" /\ host'.sent = host.sent /\ host'.size = host.size
    BY <1>2, <2>2 DEF Hosts
  <2>4. LineTypes'
    BY <1>1, <1>2, <2>1, <2>2, <2>3 DEF LineTypes
  <2>5. Accepted'
    BY <1>1, <1>5, <2>2, <2>3 DEF Accepted
  <2> QED
    BY <2>4, <2>5 DEF LineInv
<1>6. CASE Replying /\ host.at = "ack"
  <2>1. toStub = << >> /\ Len(toHost) = 2 /\ toHost[1].c = "+" /\ IsReply(toHost[2], host.sent)
    BY <1>1, <1>6 DEF Replying
  <2>2. UNCHANGED toStub /\ host' = [host EXCEPT !.at = "reply"]
    BY <1>3, <1>6, <2>1 DEF HostReads
  <2>3. host' \in Hosts /\ host'.at = "reply" /\ host'.sent = host.sent /\ host'.size = host.size
    BY <1>2, <2>2 DEF Hosts
  <2>4. Len(toHost') = 1 /\ toHost'[1] = toHost[2] /\ toHost' \in Seq(LineChars)
    BY <1>1, <1>3, <2>1
  <2>5. LineTypes'
    BY <1>1, <1>2, <1>6, <2>2, <2>3, <2>4 DEF LineTypes
  <2>6. Replying'
    BY <1>1, <1>6, <2>1, <2>2, <2>3, <2>4 DEF Replying
  <2> QED
    BY <2>5, <2>6 DEF LineInv
<1>7. CASE Replying /\ host.at = "reply"
  <2>1. toStub = << >> /\ Len(toHost) = 1 /\ IsReply(toHost[1], host.sent)
    BY <1>1, <1>7 DEF Replying
  <2>2. toHost' = << >>
    BY <1>1, <1>3, <2>1
  <2>3. CASE toHost[1].c = "reply"
    <3>1. /\ toStub' = Append(toStub, Chr("+", 0))
          /\ host' = [host EXCEPT !.at = "idle", !.reply = toHost[1].v]
      BY <1>3, <1>7, <2>3 DEF HostReads
    <3>2. Len(toStub') = 1 /\ toStub'[1].c = "+" /\ toStub' \in Seq(LineChars)
      BY <1>2, <2>1, <3>1, LineChr, QueueAppend
    <3>3. /\ host' \in Hosts /\ host'.at = "idle" /\ host'.sent = host.sent
          /\ host'.reply = host.sent
      BY <1>2, <2>1, <3>1 DEF Hosts, IsReply
    <3>4. LineTypes'
      BY <1>1, <2>2, <3>2, <3>3 DEF LineTypes
    <3>5. Quiet'
      BY <1>1, <1>7, <2>2, <3>2, <3>3 DEF Quiet, Replying
    <3> QED
      BY <3>4, <3>5 DEF LineInv
  <2>4. CASE toHost[1].c = "spoilt"
    <3>1. toStub' = Append(toStub, Chr("-", 0)) /\ UNCHANGED host
      BY <1>3, <1>7, <2>4 DEF HostReads
    <3>2. Len(toStub') = 1 /\ toStub'[1].c = "-" /\ toStub' \in Seq(LineChars)
      BY <1>2, <2>1, <3>1, LineChr, QueueAppend
    <3>4. LineTypes'
      BY <1>1, <2>2, <3>1, <3>2 DEF LineTypes
    <3>5. Replying'
      BY <1>1, <1>7, <2>2, <3>1, <3>2 DEF Replying
    <3> QED
      BY <3>4, <3>5 DEF LineInv
  <2> QED
    BY <2>1, <2>3, <2>4 DEF IsReply
<1> QED
  BY <1>1, <1>4, <1>5, <1>6, <1>7 DEF LineInv, Quiet, Queued, Reading, Replying

\* The line spoils a character of the packet, or the reply.
LEMMA StepSpoil ==
    ASSUME LineInv, Spoil
    PROVE  LineInv'
<1>0. Commands \in Nat
  BY LineNumbers
<1>1. /\ LineTypes /\ harm' \in Nat /\ UNCHANGED <<limit, getter, host>>
  BY DEF LineInv, Spoil, LineTypes
<1>2. toStub \in Seq(LineChars) /\ toHost \in Seq(LineChars)
  BY <1>1 DEF LineTypes
<1>3. ASSUME NEW i \in DOMAIN toStub, NEW ch \in LineChars, UNCHANGED toHost,
             toStub' = [toStub EXCEPT ![i] = ch], toStub[i].c \notin {"+", "-"},
             \/ ch.c = "$"
             \/ ch.c = "x" /\ ch.v = Commands + 1
             \/ ch.c = "#" /\ ch.v = Commands + 2 /\ toStub[i].c = "#"
      PROVE  LineInv'
  <2>0. i \in 1..Len(toStub) /\ Len(toStub) \in Nat
    BY <1>2
  <2>1. (Queued /\ i \in 2..Len(toStub)) \/ Reading
    BY <1>3, <2>0 DEF LineInv, Quiet, Queued, Refused, Accepted, Replying
  <2> DEFINE r == [toStub EXCEPT ![i] = ch]
  <2>2. CASE Queued /\ i \in 2..Len(toStub)
    <3>1. /\ r \in Seq(LineChars) /\ Packet(r, 2, host.sent)
          /\ Len(r) = Len(toStub) /\ r[1] = toStub[1]
      <4>1. PICK n, q : n = host.sent /\ q = toStub
        OBVIOUS
      <4>2. Packet(q, 2, n) /\ q \in Seq(LineChars) /\ i \in 2..Len(q)
        BY <1>2, <2>2, <4>1 DEF Queued
      <4>3. \/ ch.c = "$"
            \/ ch.c = "x" /\ ch.v = Commands + 1
            \/ ch.c = "#" /\ ch.v = Commands + 2 /\ q[i].c = "#"
        BY <1>3, <4>1
      <4>4. /\ [q EXCEPT ![i] = ch] \in Seq(LineChars) /\ Packet([q EXCEPT ![i] = ch], 2, n)
            /\ Len([q EXCEPT ![i] = ch]) = Len(q) /\ [q EXCEPT ![i] = ch][1] = q[1]
        BY ONLY <4>2, <4>3, ch \in LineChars, PacketSpoilt
      <4> QED
        BY <4>1, <4>4
    <3> HIDE DEF r
    <3>2. toStub' = r
      BY <1>3 DEF r
    <3>3. LineTypes'
      BY <1>1, <1>3, <3>1, <3>2 DEF LineTypes
    <3>4. Queued'
      BY <1>1, <1>3, <2>2, <3>1, <3>2 DEF Queued
    <3> QED
      BY <3>3, <3>4 DEF LineInv
  <2>3. CASE Reading
    <3>1. /\ r \in Seq(LineChars) /\ Packet(r, 1, host.sent)
      <4>1. PICK n, q : n = host.sent /\ q = toStub
        OBVIOUS
      <4>2. Packet(q, 1, n) /\ q \in Seq(LineChars) /\ i \in 1..Len(q)
        BY <1>2, <2>0, <2>3, <4>1 DEF Reading
      <4>3. \/ ch.c = "$"
            \/ ch.c = "x" /\ ch.v = Commands + 1
            \/ ch.c = "#" /\ ch.v = Commands + 2 /\ q[i].c = "#"
        BY <1>3, <4>1
      <4>4. [q EXCEPT ![i] = ch] \in Seq(LineChars) /\ Packet([q EXCEPT ![i] = ch], 1, n)
        BY ONLY <4>2, <4>3, ch \in LineChars, PacketSpoilt
      <4> QED
        BY <4>1, <4>4
    <3> HIDE DEF r
    <3>2. toStub' = r
      BY <1>3 DEF r
    <3>3. LineTypes'
      BY <1>1, <1>3, <3>1, <3>2 DEF LineTypes
    <3>4. Reading'
      BY <1>1, <1>3, <2>3, <3>1, <3>2 DEF Reading
    <3> QED
      BY <3>3, <3>4 DEF LineInv
  <2> QED
    BY <2>1, <2>2, <2>3
<1>4. ASSUME NEW i \in DOMAIN toStub, NEW c \in {"$", "x"}, toStub[i].c \notin {"+", "-", c},
             toStub' = [toStub EXCEPT ![i] = Chr(c, Commands + 1)], UNCHANGED toHost
      PROVE  LineInv'
  <2>1. /\ Chr(c, Commands + 1) \in LineChars /\ Chr(c, Commands + 1).c = c
        /\ Chr(c, Commands + 1).v = Commands + 1
    BY <1>0, LineChr
  <2> QED
    BY <1>4, <2>1, <1>3
<1>5. ASSUME NEW i \in DOMAIN toStub, toStub[i].c = "#",
             toStub' = [toStub EXCEPT ![i].v = Commands + 2], UNCHANGED toHost
      PROVE  LineInv'
  <2> DEFINE ch == [toStub[i] EXCEPT !.v = Commands + 2]
  <2>0. toStub[i] \in LineChars /\ Commands + 2 \in Nat
    BY <1>0, <1>2
  <2>1. ch \in LineChars /\ ch.c = "#" /\ ch.v = Commands + 2
    BY <1>5, <2>0 DEF LineChars
  <2>2. toStub' = [toStub EXCEPT ![i] = ch]
    BY <1>5
  <2> HIDE DEF ch
  <2> QED
    BY <1>5, <2>1, <2>2, <1>3
<1>6. ASSUME NEW i \in DOMAIN toHost, toHost[i].c = "reply",
             toHost' = [toHost EXCEPT ![i].c = "spoilt"], UNCHANGED toStub
      PROVE  LineInv'
  <2>0. i \in 1..Len(toHost) /\ Len(toHost) \in Nat
    BY <1>2
  <2>1. Replying /\ toStub = << >>
    BY <1>6, <2>0 DEF LineInv, Quiet, Queued, Reading, Refused, Accepted, Replying
  <2> DEFINE ch == [toHost[i] EXCEPT !.c = "spoilt"]
  <2>2. toHost[i] \in LineChars
    BY <1>2
  <2>3. ch \in LineChars /\ ch.c = "spoilt" /\ ch.v = toHost[i].v
    BY <2>2 DEF LineChars
  <2>4. toHost' = [toHost EXCEPT ![i] = ch]
    BY <1>6
  <2> HIDE DEF ch
  <2>5. /\ toHost' \in Seq(LineChars) /\ Len(toHost') = Len(toHost) /\ toHost'[i] = ch
        /\ \A j \in 1..Len(toHost) : j # i => toHost'[j] = toHost[j]
    BY <2>0, <2>3, <2>4, <1>2
  <2>6. LineTypes'
    BY <1>1, <1>6, <2>5 DEF LineTypes
  <2>7. CASE host.at = "ack"
    <3>1. Len(toHost) = 2 /\ toHost[1].c = "+" /\ IsReply(toHost[2], host.sent)
      BY <2>1, <2>7, <1>2 DEF Replying
    <3>2. i = 2
      BY <1>6, <2>0, <3>1
    <3>3. IsReply(toHost'[2], host.sent) /\ toHost'[1].c = "+"
      BY <3>1, <3>2, <2>3, <2>5 DEF IsReply
    <3>4. Replying'
      BY <1>1, <1>6, <2>1, <2>5, <2>7, <3>1, <3>3 DEF Replying
    <3> QED
      BY <2>6, <3>4 DEF LineInv
  <2>8. CASE host.at = "reply"
    <3>1. Len(toHost) = 1 /\ IsReply(toHost[1], host.sent) /\ i = 1
      BY <2>0, <2>1, <2>8 DEF Replying
    <3>3. IsReply(toHost'[1], host.sent)
      BY <3>1, <2>3, <2>5 DEF IsReply
    <3>4. Replying'
      BY <1>1, <1>6, <2>1, <2>5, <2>8, <3>1, <3>3 DEF Replying
    <3> QED
      BY <2>6, <3>4 DEF LineInv
  <2> QED
    BY <2>1, <2>7, <2>8 DEF Replying
<1> QED
  BY <1>4, <1>5, <1>6 DEF Spoil

LEMMA ChecksumFacts ==
    /\ Checksum(<< >>) = 0
    /\ \A body \in Seq(LineChars), ch \in LineChars :
          Checksum(Append(body, ch)) = IF body = << >> THEN ch.v ELSE Checksum(body)
<1>1. Checksum(<< >>) = 0
  BY DEF Checksum
<1>2. ASSUME NEW body \in Seq(LineChars), NEW ch \in LineChars
      PROVE  Checksum(Append(body, ch)) = IF body = << >> THEN ch.v ELSE Checksum(body)
  <2>1. /\ Append(body, ch) # << >>
        /\ Head(Append(body, ch)) = IF body = << >> THEN ch ELSE Head(body)
    BY HeadTailAppend, QueueAppend
  <2> QED
    BY <2>1 DEF Checksum
<1> QED
  BY <1>1, <1>2

\* The stub reads a character of a packet.
LEMMA StepReads ==
    ASSUME LineInv, NEW max, AwaitStart \/ ReadBody(max) \/ EndOfBody,
           toStub' = Tail(toStub), UNCHANGED <<limit, host, harm>>
    PROVE  LineInv'
<1>0. Commands \in Nat
  BY LineNumbers
<1>1. LineTypes /\ toStub # << >> /\ getter.at \in {"start", "body"}
  BY DEF LineInv, AwaitStart, ReadBody, EndOfBody
<1>2. Reading
  BY <1>1 DEF LineInv, Quiet, Queued, Refused, Accepted, Replying
<1>3. /\ toStub \in Seq(LineChars) /\ toHost \in Seq(LineChars) /\ getter \in Getters
      /\ host.sent \in 1..Commands /\ getter.body \in Seq(LineChars)
  BY <1>0, <1>1, <1>2 DEF LineTypes, Reading, Getters, Hosts
<1>4. /\ Head(toStub) = toStub[1] /\ toStub[1] \in LineChars /\ Len(toStub) \in Nat
      /\ Len(toStub) >= 1
      /\ Len(toStub) = 1 => Tail(toStub) = << >>
  BY <1>1, <1>3, QueueEnds
<1>5. Packet(toStub, 1, host.sent)
  BY <1>2 DEF Reading
<1>6. PacketChar(toStub[1], host.sent, 1 = Len(toStub))
  <2>1. 1 \in 1..Len(toStub)
    BY <1>4
  <2> QED
    BY <2>1, <1>5 DEF Packet, PacketChar
<1>7. toStub' \in Seq(LineChars) /\ Packet(toStub', 1, host.sent)
  BY <1>3, <1>4, <1>5, PacketTail
<1>8. CASE AwaitStart
  <2>1. /\ getter' \in Getters /\ getter'.at \in {"start", "body"} /\ getter'.body = << >>
        /\ getter'.ran = getter.ran /\ UNCHANGED toHost
    <3>1. PICK at \in {"start", "body"} :
              getter' = [getter EXCEPT !.at = at, !.body = << >>]
      BY <1>1, <1>8 DEF AwaitStart
    <3>2. << >> \in Seq(LineChars) /\ getter \in Getters
      BY <1>3
    <3>3. UNCHANGED toHost
      BY <1>8 DEF AwaitStart
    <3> QED
      BY ONLY <3>1, <3>2, <3>3 DEF Getters
  <2>2. LineTypes'
    BY <1>1, <1>7, <2>1 DEF LineTypes
  <2>3. Reading'
    BY <1>2, <1>7, <2>1, ChecksumFacts DEF Reading
  <2> QED
    BY <2>2, <2>3 DEF LineInv
<1>9. CASE ReadBody(max)
  <2> DEFINE b == Collected(getter.body, Head(toStub))
  <2>1. /\ getter.at = "body" /\ toStub[1].c # "#" /\ UNCHANGED toHost
        /\ getter' = [getter EXCEPT !.body = b,
                                    !.at = IF Len(b) = max THEN "start" ELSE @]
    BY <1>4, <1>9 DEF ReadBody
  <2>2. b \in Seq(LineChars)
    BY <1>3, <1>4, QueueAppend DEF Collected
  <2>3. Checksum(b) \in {0, host.sent, Commands + 1}
    <3>1. CASE toStub[1].c = "$"
      BY <3>1, <1>4, ChecksumFacts DEF Collected
    <3>2. CASE toStub[1].c # "$"
      <4>1. toStub[1].v \in {0, host.sent, Commands + 1}
        BY <1>6, <2>1, <3>2 DEF PacketChar
      <4>2. Checksum(getter.body) \in {0, host.sent, Commands + 1}
        BY <1>2, <2>1 DEF Reading
      <4>3. b = Append(getter.body, toStub[1])
        BY <1>4, <3>2 DEF Collected
      <4>4. Checksum(b) = IF getter.body = << >> THEN toStub[1].v ELSE Checksum(getter.body)
        BY <1>3, <1>4, <4>3, ChecksumFacts
      <4> QED
        BY ONLY <4>1, <4>2, <4>4
    <3> QED
      BY <3>1, <3>2
  <2> HIDE DEF b
  <2>4. /\ getter' \in Getters /\ getter'.at \in {"start", "body"} /\ getter'.body = b
        /\ getter'.ran = getter.ran
    BY <1>3, <2>1, <2>2 DEF Getters
  <2>5. LineTypes'
    BY <1>1, <1>7, <2>1, <2>4 DEF LineTypes
  <2>6. Reading'
    BY <1>2, <1>7, <2>1, <2>3, <2>4 DEF Reading
  <2> QED
    BY <2>5, <2>6 DEF LineInv
<1>10. CASE EndOfBody
  <2>1. getter.at = "body" /\ toStub[1].c = "#"
    BY <1>4, <1>10 DEF EndOfBody
  <2>2. toStub[1].v \in {host.sent, Commands + 2} /\ Len(toStub) = 1
    BY <1>6, <2>1 DEF PacketChar
  <2>3. toStub' = << >>
    BY <1>4, <2>2
  <2>4. Checksum(getter.body) \in {0, host.sent, Commands + 1} /\ toHost = << >>
    BY <1>2, <2>1 DEF Reading
  <2>5. /\ \A c \in {"+", "-"} : /\ Append(toHost, Chr(c, 0)) \in Seq(LineChars)
                                 /\ Len(Append(toHost, Chr(c, 0))) = 1
                                 /\ Append(toHost, Chr(c, 0))[1].c = c
    BY <1>3, <2>4, LineChr, QueueAppend
  <2>6. CASE Accepts(getter.body, Head(toStub).v)
    <3>1. toStub[1].v = Checksum(getter.body)
      BY <1>4, <2>6 DEF Accepts
    <3>2. Checksum(getter.body) = host.sent
      BY ONLY <3>1, <2>2, <2>4, <1>3, <1>0
    <3>3. getter' = [getter EXCEPT !.at = "run"] /\ toHost' = Append(toHost, Chr("+", 0))
      BY <1>10, <2>6 DEF EndOfBody, PutDebugChar
    <3>4. /\ getter' \in Getters /\ getter'.at = "run" /\ getter'.body = getter.body
          /\ getter'.ran = getter.ran
      BY <1>3, <3>3 DEF Getters
    <3>5. LineTypes'
      BY <1>1, <1>7, <2>5, <3>3, <3>4 DEF LineTypes
    <3>6. Accepted'
      BY <1>2, <2>3, <2>5, <3>2, <3>3, <3>4 DEF Accepted, Reading
    <3> QED
      BY <3>5, <3>6 DEF LineInv
  <2>7. CASE ~Accepts(getter.body, Head(toStub).v)
    <3>3. getter' = [getter EXCEPT !.at = "start"] /\ toHost' = Append(toHost, Chr("-", 0))
      BY <1>10, <2>7 DEF EndOfBody, PutDebugChar
    <3>4. /\ getter' \in Getters /\ getter'.at = "start" /\ getter'.ran = getter.ran
      BY <1>3, <3>3 DEF Getters
    <3>5. LineTypes'
      BY <1>1, <1>7, <2>5, <3>3, <3>4 DEF LineTypes
    <3>6. Refused'
      BY <1>2, <2>3, <2>5, <3>3, <3>4 DEF Refused, Reading
    <3> QED
      BY <3>5, <3>6 DEF LineInv
  <2> QED
    BY <2>6, <2>7
<1> QED
  BY <1>8, <1>9, <1>10

\* The command is carried out.
LEMMA StepCarryOut ==
    ASSUME LineInv, CarryOut
    PROVE  LineInv'
<1>1. /\ LineTypes /\ getter.at = "run" /\ UNCHANGED <<limit, toStub, host, harm>>
      /\ getter' = [getter EXCEPT !.at = "plus", !.ran = @ + 1]
      /\ toHost' = Append(toHost, Chr("reply", Checksum(getter.body)))
  BY DEF LineInv, CarryOut
<1>2. Accepted
  BY <1>1 DEF LineInv, Quiet, Queued, Reading, Refused, Replying
<1>3. toHost \in Seq(LineChars) /\ getter \in Getters /\ host.sent \in Nat
  BY <1>1 DEF LineTypes, Hosts
<1>4. /\ getter' \in Getters /\ getter'.at = "plus" /\ getter'.body = getter.body
      /\ getter'.ran = host.sent
  <2>1. getter.ran \in Nat /\ getter.ran = host.sent - 1
    BY <1>2, <1>3 DEF Getters, Accepted
  <2>2. getter.ran + 1 = host.sent
    BY <2>1, <1>3
  <2>3. getter' = [getter EXCEPT !.at = "plus", !.ran = host.sent]
    BY <1>1, <2>2
  <2> QED
    BY ONLY <2>3, <1>3 DEF Getters
<1> DEFINE ch == Chr("reply", host.sent)
<1>5. ch \in LineChars /\ IsReply(ch, host.sent)
  BY <1>3, LineChr DEF IsReply
<1> HIDE DEF ch
<1>6. toHost' = Append(toHost, ch)
  BY <1>1, <1>2 DEF Accepted, ch
<1>7. /\ toHost' \in Seq(LineChars) /\ Len(toHost') = Len(toHost) + 1
      /\ toHost'[Len(toHost) + 1] = ch
      /\ \A i \in 1..Len(toHost) : toHost'[i] = toHost[i]
  BY <1>3, <1>5, <1>6, QueueAppend
<1>8. LineTypes'
  BY <1>1, <1>4, <1>7 DEF LineTypes
<1>9. Replying'
  BY <1>1, <1>2, <1>4, <1>5, <1>7 DEF Replying, Accepted
<1> QED
  BY <1>8, <1>9 DEF LineInv

\* The host answers the reply.
LEMMA StepAnswered ==
    ASSUME LineInv, Answered
    PROVE  LineInv'
<1>1. /\ LineTypes /\ getter.at = "plus" /\ toStub # << >> /\ toStub' = Tail(toStub)
      /\ UNCHANGED <<limit, host, harm>>
  BY DEF LineInv, Answered
<1>2. /\ toStub \in Seq(LineChars) /\ toHost \in Seq(LineChars) /\ getter \in Getters
      /\ host.sent \in Nat
  BY <1>1 DEF LineTypes, Hosts
<1>3. /\ Head(toStub) = toStub[1] /\ Len(toStub) \in Nat /\ Len(toStub) >= 1
      /\ Len(toStub) = 1 => Tail(toStub) = << >>
      /\ Tail(toStub) \in Seq(LineChars)
  BY <1>1, <1>2, QueueEnds
<1>4. CASE toStub[1].c = "+"
  <2>1. UNCHANGED toHost /\ getter' = [getter EXCEPT !.at = "start", !.body = << >>]
    BY <1>3, <1>4 DEF Answered
  <2>2. getter' \in Getters /\ getter'.at = "start" /\ getter'.ran = getter.ran
    <3>1. << >> \in Seq(LineChars)
      OBVIOUS
    <3> QED
      BY ONLY <3>1, <1>2, <2>1 DEF Getters
  <2>3. LineTypes'
    BY <1>1, <1>3, <2>1, <2>2 DEF LineTypes
  <2>4. CASE Quiet
    <3>1. Quiet'
      BY <1>1, <1>3, <2>1, <2>2, <2>4 DEF Quiet
    <3> QED
      BY <2>3, <3>1 DEF LineInv
  <2>5. CASE Queued
    <3>1. Packet(toStub', 1, host.sent)
      BY <1>1, <1>2, <1>3, <2>5, PacketTail DEF Queued
    <3>2. Reading'
      BY <1>1, <2>1, <2>2, <2>5, <3>1 DEF Queued, Reading
    <3> QED
      BY <2>3, <3>2 DEF LineInv
  <2> QED
    BY <1>1, <1>4, <2>4, <2>5 DEF LineInv, Reading, Refused, Accepted, Replying
<1>5. CASE toStub[1].c # "+"
  <2>1. Replying
    BY <1>1, <1>5 DEF LineInv, Quiet, Queued, Reading, Refused, Accepted
  <2>2. /\ host.at = "reply" /\ Len(toStub) = 1 /\ toHost = << >>
        /\ Checksum(getter.body) = host.sent
    BY <1>1, <2>1 DEF Replying
  <2>3. UNCHANGED getter /\ toHost' = Append(toHost, Chr("reply", host.sent))
    BY <1>3, <1>5, <2>2 DEF Answered
  <2>4. /\ toHost' \in Seq(LineChars) /\ Len(toHost') = 1 /\ IsReply(toHost'[1], host.sent)
    BY <1>2, <2>2, <2>3, LineChr, QueueAppend DEF IsReply
  <2>5. toStub' = << >>
    BY <1>1, <1>3, <2>2
  <2>6. LineTypes'
    BY <1>1, <1>3, <2>3, <2>4 DEF LineTypes
  <2>7. Replying'
    BY <1>1, <2>1, <2>2, <2>3, <2>4, <2>5 DEF Replying
  <2> QED
    BY <2>6, <2>7 DEF LineInv
<1> QED
  BY <1>4, <1>5

LEMMA LineInvInit == LineInit => LineInv
<1> SUFFICES ASSUME LineInit PROVE LineInv
  OBVIOUS
<1>1. Damages \in Nat /\ Commands \in Nat
  BY LineNumbers
<1>2. LineTypes
  BY <1>1 DEF LineInit, LineTypes, Getters, Hosts
<1>3. Quiet
  BY DEF LineInit, Quiet
<1> QED
  BY <1>2, <1>3 DEF LineInv

LEMMA LineInvKept == LineInv /\ [LineNext]_lineVars => LineInv'
<1> SUFFICES ASSUME LineInv, [LineNext]_lineVars PROVE LineInv'
  OBVIOUS
<1>1. CASE GetPacket
  BY <1>1, StepReads DEF GetPacket
<1>2. CASE OldGetPacket
  BY <1>2, StepReads DEF OldGetPacket
<1>3. CASE PutPacket \/ OldPutPacket
  BY <1>3, StepAnswered DEF PutPacket, OldPutPacket
<1>4. CASE UNCHANGED lineVars
  BY <1>4 DEF lineVars, LineInv, LineTypes, Quiet, Queued, Reading, Refused, Accepted,
              Replying
<1> QED
  BY <1>1, <1>2, <1>3, <1>4, StepHostSends, StepHostReads, StepHostTimesOut, StepSpoil,
     StepCarryOut DEF LineNext

\* Whatever the line spoils, a command the host has the reply to was carried
\* out once, and the reply is to that command.
THEOREM CommandsCorrect == LineSpec => []EachCommandOnce
<1>1. LineInv => EachCommandOnce
  BY DEF LineInv, LineTypes, Hosts, Quiet, Queued, Reading, Refused, Accepted, Replying,
         EachCommandOnce
<1> QED
  BY <1>1, LineInvInit, LineInvKept, PTL DEF LineSpec

----------------------------------------------------------------------------
(* The steps that a context of the mc68332 has left (M68kTraps).           *)

CallOps == {"trap0", "trap1", "trap2", "trap3", "trap4", "trap5", "active", "pick", "idle"}
IntrOps == {"level", "trap1", "trap2", "keepSr", "check", "unmaskSr", "pick",
            "idle", "store", "load"}
HandlerOps == {"store", "load", "unmask", "keep", "mask", "console", "receive"}
Ops == CallOps \cup IntrOps \cup HandlerOps

\* Of a thread or the boot code: a switch comes after the schedule that ends
\* with an enable.
UserSteps(s) ==
    /\ s \in Seq(CallOps)
    /\ \A i \in 1..Len(s) : s[i] = "trap0" =>
          /\ i > 1 => s[i - 1] = "idle"
          /\ i > 2 => s[i - 2] = "trap1"

\* Of an interrupt.
IntrSteps(s) ==
    /\ s \in Seq(IntrOps)
    /\ \A i \in 1..Len(s) :
          /\ s[i] \in {"level", "unmaskSr"} => i = 1
          /\ i > 1 => /\ s[i] = "keepSr" => s[i - 1] = "trap1"
                      /\ s[i] = "check" => s[i - 1] = "keepSr"
                      /\ s[i] = "load" => s[i - 1] = "store"
          /\ s[i] = "store" => i < Len(s) /\ s[i + 1] = "load"

HandlerSteps ==
    {<<>>, <<"store", "load">>, <<"load">>, <<"unmask">>, <<"keep", "mask">>,
     <<"mask">>, <<"console">>, <<"receive">>}

\* A switch is next, or next but one.
BeforeSwitch(s) ==
    s # <<>> /\ (s[1] = "trap0" \/ (s[1] = "idle" /\ Len(s) > 1 /\ s[2] = "trap0"))
Loads(s) == \E k \in 1..Len(s) : s[k] = "load"

LEMMA TailIs ==
    ASSUME NEW S, NEW s \in Seq(S), s # <<>>
    PROVE  /\ Head(s) = s[1] /\ Head(s) \in S
           /\ Tail(s) \in Seq(S) /\ Len(Tail(s)) = Len(s) - 1
           /\ \A i \in 1..Len(Tail(s)) : Tail(s)[i] = s[i + 1]
           /\ Tail(s) # <<>> => Len(s) > 1 /\ Head(Tail(s)) = s[2]
OBVIOUS

\* What a thread or the boot code has left after one step.
LEMMA UserTail ==
    ASSUME NEW s, UserSteps(s), s # <<>>
    PROVE  /\ UserSteps(Tail(s)) /\ Head(s) \in CallOps
           /\ BeforeSwitch(Tail(s)) => BeforeSwitch(s) \/ Head(s) = "trap1"
           /\ Head(s) = "trap0" => BeforeSwitch(s)
<1> DEFINE r == Tail(s)
<1>1. /\ s \in Seq(CallOps) /\ Len(s) \in Nat /\ Len(s) >= 1
      /\ \A i \in 1..Len(s) : s[i] = "trap0" =>
            /\ i > 1 => s[i - 1] = "idle"
            /\ i > 2 => s[i - 2] = "trap1"
  BY DEF UserSteps
<1>2. /\ Head(s) = s[1] /\ Head(s) \in CallOps /\ r \in Seq(CallOps) /\ Len(r) = Len(s) - 1
      /\ \A i \in 1..Len(r) : r[i] = s[i + 1]
  BY <1>1, TailIs
<1> HIDE DEF r
<1>3. UserSteps(r)
  <2> SUFFICES ASSUME NEW i \in 1..Len(r), r[i] = "trap0"
               PROVE  /\ i > 1 => r[i - 1] = "idle"
                      /\ i > 2 => r[i - 2] = "trap1"
    BY <1>2 DEF UserSteps
  <2>1. /\ i + 1 \in 1..Len(s) /\ s[i + 1] = "trap0"
        /\ i > 1 => i - 1 \in 1..Len(r)
        /\ i > 2 => i - 2 \in 1..Len(r)
    BY <1>1, <1>2
  <2>2. (i > 1 => s[i] = "idle") /\ (i > 2 => s[i - 1] = "trap1")
    <3>1. /\ i + 1 > 1 => s[(i + 1) - 1] = "idle"
          /\ i + 1 > 2 => s[(i + 1) - 2] = "trap1"
      BY <1>1, <2>1
    <3>2. i > 2 => s[(i - 1)] = "trap1"
      BY <3>1
    <3> QED
      BY <3>1, <3>2
  <2>3. /\ i > 1 => r[i - 1] = s[i]
        /\ i > 2 => r[i - 2] = s[i - 1]
    <3>1. i > 1 => r[i - 1] = s[(i - 1) + 1]
      BY <1>2, <2>1
    <3>2. i > 2 => r[i - 2] = s[(i - 2) + 1]
      BY <1>2, <2>1
    <3> QED
      BY <3>1, <3>2
  <2> QED
    BY <2>2, <2>3
<1>4. ASSUME BeforeSwitch(r) PROVE BeforeSwitch(s) \/ Head(s) = "trap1"
  <2>1. r # <<>> /\ Len(r) \in Nat /\ Len(r) >= 1 /\ r[1] = s[2] /\ Len(s) >= 2
    BY <1>1, <1>2, <1>4 DEF BeforeSwitch
  <2>2. CASE r[1] = "trap0"
    <3>1. s[1] = "idle"
      <4>1. 2 \in 1..Len(s) /\ s[2] = "trap0" /\ 2 > 1
        BY <1>1, <2>1, <2>2
      <4>2. s[2 - 1] = "idle"
        BY <1>1, <4>1
      <4> QED
        BY <4>2
    <3> QED
      BY <1>1, <2>1, <2>2, <3>1 DEF BeforeSwitch
  <2>3. CASE r[1] = "idle" /\ Len(r) > 1 /\ r[2] = "trap0"
    <3>1. s[3] = "trap0" /\ 3 \in 1..Len(s)
      BY <1>1, <1>2, <2>3
    <3>2. s[3 - 2] = "trap1"
      BY <1>1, <3>1
    <3> QED
      BY <1>2, <3>2
  <2> QED
    BY <1>4, <2>2, <2>3 DEF BeforeSwitch
<1> QED
  BY <1>2, <1>3, <1>4 DEF r, BeforeSwitch

\* What an interrupt has left after one step.
LEMMA IntrTail ==
    ASSUME NEW s, IntrSteps(s), s # <<>>
    PROVE  /\ IntrSteps(Tail(s)) /\ Head(s) \in IntrOps
           /\ Loads(Tail(s)) => Loads(s)
           /\ Head(s) \in {"store", "load"} => Loads(s)
           /\ Tail(s) # <<>> => /\ Head(Tail(s)) \notin {"level", "unmaskSr"}
                                /\ Head(Tail(s)) = "keepSr" => Head(s) = "trap1"
                                /\ Head(Tail(s)) = "check" => Head(s) = "keepSr"
                                /\ Head(Tail(s)) = "load" => Head(s) = "store"
           /\ Head(s) = "store" => Tail(s) # <<>> /\ Head(Tail(s)) = "load"
<1> DEFINE r == Tail(s)
<1>1. /\ s \in Seq(IntrOps) /\ Len(s) \in Nat /\ Len(s) >= 1
      /\ \A i \in 1..Len(s) :
          /\ s[i] \in {"level", "unmaskSr"} => i = 1
          /\ i > 1 => /\ s[i] = "keepSr" => s[i - 1] = "trap1"
                      /\ s[i] = "check" => s[i - 1] = "keepSr"
                      /\ s[i] = "load" => s[i - 1] = "store"
          /\ s[i] = "store" => i < Len(s) /\ s[i + 1] = "load"
  BY DEF IntrSteps
<1>2. /\ Head(s) = s[1] /\ Head(s) \in IntrOps /\ r \in Seq(IntrOps) /\ Len(r) = Len(s) - 1
      /\ \A i \in 1..Len(r) : r[i] = s[i + 1]
      /\ r # <<>> => Len(s) > 1 /\ Head(r) = s[2]
  BY <1>1, TailIs
<1> HIDE DEF r
<1>3. Len(r) = 0 => r = <<>>
  BY <1>2
<1>4. IntrSteps(r)
  <2> SUFFICES ASSUME NEW i \in 1..Len(r)
               PROVE  /\ r[i] \in {"level", "unmaskSr"} => i = 1
                      /\ i > 1 => /\ r[i] = "keepSr" => r[i - 1] = "trap1"
                                  /\ r[i] = "check" => r[i - 1] = "keepSr"
                                  /\ r[i] = "load" => r[i - 1] = "store"
                      /\ r[i] = "store" => i < Len(r) /\ r[i + 1] = "load"
    BY <1>2 DEF IntrSteps
  <2> DEFINE k == i + 1
  <2>1. k \in 1..Len(s) /\ k > 1 /\ k # 1 /\ r[i] = s[k] /\ k - 1 = i /\ i \in Nat
    BY <1>1, <1>2
  <2>2. i > 1 => r[i - 1] = s[k - 1]
    <3>1. i > 1 => r[i - 1] = s[(i - 1) + 1]
      BY <1>1, <1>2
    <3> QED
      BY <2>1, <3>1
  <2>3. k < Len(s) => i < Len(r) /\ r[i + 1] = s[k + 1]
    BY <1>1, <1>2
  <2> HIDE DEF k
  <2> QED
    BY <1>1, <2>1, <2>2, <2>3
<1>5. ASSUME Loads(r) PROVE Loads(s)
  <2>1. PICK k \in 1..Len(r) : r[k] = "load"
    BY <1>5 DEF Loads
  <2>2. s[k + 1] = "load" /\ k + 1 \in 1..Len(s)
    BY <1>1, <1>2, <2>1
  <2> QED
    BY <2>2 DEF Loads
<1>6. Head(s) \in {"store", "load"} => Loads(s)
  <2>1. Head(s) = "store" => 2 \in 1..Len(s) /\ s[2] = "load"
    BY <1>1, <1>2
  <2>2. 1 \in 1..Len(s)
    BY <1>1
  <2> QED
    BY <1>2, <2>1, <2>2 DEF Loads
<1>7. ASSUME r # <<>>
      PROVE  /\ Head(r) \notin {"level", "unmaskSr"}
             /\ Head(r) = "keepSr" => Head(s) = "trap1"
             /\ Head(r) = "check" => Head(s) = "keepSr"
             /\ Head(r) = "load" => Head(s) = "store"
  <2>1. 2 \in 1..Len(s) /\ Head(r) = s[2] /\ 2 - 1 = 1
    BY <1>1, <1>2, <1>7
  <2> QED
    BY <1>1, <1>2, <2>1
<1>8. Head(s) = "store" => r # <<>> /\ Head(r) = "load"
  <2>1. Head(s) = "store" => 1 < Len(s) /\ s[2] = "load"
    BY <1>1, <1>2
  <2>2. 1 < Len(s) => r # <<>>
    BY <1>1, <1>2
  <2> QED
    BY <1>2, <2>1, <2>2
<1> QED
  BY <1>2, <1>4, <1>5, <1>6, <1>7, <1>8 DEF r

----------------------------------------------------------------------------
(* The contexts on the stack.                                              *)

Users == Threads \cup {"boot"}

TrapContexts ==
    [own : Users \cup {"trap", "intr"}, sup : BOOLEAN, entry : 0..7, level : 0..7,
     off : BOOLEAN, todo : Seq(Ops)]

\* A thread, at level 0 or 7 as its last call left it; the boot code; a trap
\* handler; an interrupt.  sup and sr are the cached levels, u the task that a
\* switch goes to.
ThreadOK(c) ==
    /\ c.own \in Threads => ~c.sup /\ c.level \in {0, 7} /\ (c.off <=> c.level = 7)
    /\ c.own = "boot" => c.sup
    /\ c.own \in Users => UserSteps(c.todo)
TrapOK(c) == c.own = "trap" => c.sup /\ c.todo \in HandlerSteps
IntrOK(c, sup, sr) ==
    c.own = "intr" =>
        /\ c.sup /\ IntrSteps(c.todo) /\ c.entry \in 1..6 /\ c.level >= c.entry
        /\ c.off => c.level = 7 /\ c.entry <= sup
        /\ c.level = 7 => c.off \/ LastOp(c) \in {"level", "unmaskSr"}
        /\ LastOp(c) = "level" => c.entry = PitLevel /\ ~c.off
        /\ LastOp(c) \in {"check", "unmaskSr"} => c.entry <= sr
ContextOK(c, sup, sr, u) ==
    /\ c \in TrapContexts /\ ThreadOK(c) /\ TrapOK(c) /\ IntrOK(c, sup, sr)
    /\ LastOp(c) = "load" => u # "boot"

\* What comes after an enable runs enabled.
Needs(c) ==
    \/ c.own \in Threads /\ BeforeSwitch(c.todo)
    \/ c.own = "intr" /\ LastOp(c) \in {"keepSr", "check", "unmaskSr"}

\* Context c on top of b.
OnOK(b, c, sup) ==
    /\ c.own \notin Users
    /\ c.own = "trap" =>
          /\ b.own # "trap"
          /\ b.own = "intr" => LastOp(b) \notin {"level", "unmaskSr", "check"}
          /\ c.todo \in {<<"keep", "mask">>, <<"mask">>} => ~Needs(b)
          /\ c.todo = <<"mask">> /\ b.own = "intr" => b.entry <= sup
    /\ Needs(b) => ~b.off \/ (c.own = "trap" /\ c.todo = <<"unmask">>)
    /\ Loads(c.todo) => b.own # "intr" /\ (b.own \in Threads => b.level = 0)
    /\ LastOp(c) = "load" \/ (c.own = "trap" /\ Loads(c.todo)) => b.own \in Users

\* The level that a context came in with, or above which it is interrupted.
Rank(c) == IF c.own = "intr" THEN c.entry ELSE IF c.own = "trap" THEN c.level ELSE 0

\* The k contexts at the bottom of the stack s.
Under(s, k, sup, sr, u) ==
    /\ \A i \in 1..k : ContextOK(s[i], sup, sr, u)
    /\ k > 0 => s[1].own \in Users
    /\ \A i \in 1..k : i > 1 => OnOK(s[i - 1], s[i], sup)
    /\ \A i, j \in 1..k : j < i => Rank(s[j]) <= Rank(s[i])

StackOK(s, sup, sr, u) ==
    /\ s \in Seq(TrapContexts) /\ s # <<>>
    /\ Under(s, Len(s), sup, sr, u)
    /\ Needs(s[Len(s)]) => ~s[Len(s)].off

CachesOK ==
    /\ iplCache \in [{"sup", "usr"} -> 0..6] /\ iplCache.usr = 0 /\ srCache \in 0..6

\* What is stored for a thread is its own, at level 0.
StoredOK ==
    /\ cur \in Users /\ prev \in Users /\ (cur = "boot" => prev = "boot")
    /\ \A t \in Threads : /\ contexts[t].own = t /\ contexts[t].level = 0
                          /\ ThreadOK(contexts[t])

LevelsInv ==
    /\ torn \in BOOLEAN
    /\ contexts \in [Users -> TrapContexts] /\ \A t \in Users : contexts[t].own # "intr"
    /\ ~torn => /\ StackOK(stacked, iplCache.sup, srCache, cur)
                /\ CachesOK /\ StoredOK

----------------------------------------------------------------------------
(* Facts about stacks.                                                     *)

\* Stacks that agree on the k contexts at the bottom.
LEMMA UnderAgree ==
    ASSUME NEW s, NEW s2, NEW k \in Nat, NEW sup, NEW sr, NEW u,
           Under(s, k, sup, sr, u), \A i \in 1..k : s2[i] = s[i]
    PROVE  Under(s2, k, sup, sr, u)
<1>1. \A i \in 1..k : i > 1 => i - 1 \in 1..k
  OBVIOUS
<1>2. k > 0 => 1 \in 1..k
  OBVIOUS
<1> QED
  BY <1>1, <1>2 DEF Under

LEMMA UnderLess ==
    ASSUME NEW s, NEW k \in Nat, NEW j \in 0..k, NEW sup, NEW sr, NEW u,
           Under(s, k, sup, sr, u)
    PROVE  Under(s, j, sup, sr, u)
<1>1. 1..j \subseteq 1..k /\ (j > 0 => k > 0)
  OBVIOUS
<1> QED
  BY <1>1 DEF Under

\* The one at the bottom is a thread or the boot code, and no other is.
LEMMA BottomOne ==
    ASSUME NEW s, NEW k \in Nat \ {0}, NEW sup, NEW sr, NEW u,
           Under(s, k, sup, sr, u)
    PROVE  /\ s[k].own \in Users <=> k = 1
           /\ ContextOK(s[k], sup, sr, u)
           /\ k > 1 => OnOK(s[k - 1], s[k], sup)
<1>1. k \in 1..k /\ k > 0 /\ 1 \in 1..k
  OBVIOUS
<1>2. k > 1 => OnOK(s[k - 1], s[k], sup) /\ s[k].own \notin Users
  BY <1>1 DEF Under, OnOK
<1> QED
  BY <1>1, <1>2 DEF Under

\* One more context that fits on the one below it.
LEMMA UnderGrown ==
    ASSUME NEW s, NEW k \in Nat, NEW sup, NEW sr, NEW u,
           Under(s, k, sup, sr, u), ContextOK(s[k + 1], sup, sr, u),
           k = 0 => s[1].own \in Users,
           k > 0 => OnOK(s[k], s[k + 1], sup) /\ Rank(s[k]) <= Rank(s[k + 1])
    PROVE  Under(s, k + 1, sup, sr, u)
<1>1. \A i \in 1..(k + 1) : i \in 1..k \/ i = k + 1
  OBVIOUS
<1>2. \A i \in 1..(k + 1) : ContextOK(s[i], sup, sr, u)
  BY <1>1 DEF Under
<1>3. s[1].own \in Users
  BY DEF Under
<1>4. \A i \in 1..(k + 1) : i > 1 => OnOK(s[i - 1], s[i], sup)
  <2> SUFFICES ASSUME NEW i \in 1..(k + 1), i > 1 PROVE OnOK(s[i - 1], s[i], sup)
    OBVIOUS
  <2>1. i = k + 1 => k > 0 /\ i - 1 = k
    OBVIOUS
  <2> QED
    BY <1>1, <2>1 DEF Under
<1>5. \A i \in 1..(k + 1) : Rank(s[i]) \in 0..7
  BY <1>2 DEF ContextOK, TrapContexts, Rank
<1>6. \A i, j \in 1..(k + 1) : j < i => Rank(s[j]) <= Rank(s[i])
  <2> SUFFICES ASSUME NEW i \in 1..(k + 1), NEW j \in 1..(k + 1), j < i
               PROVE  Rank(s[j]) <= Rank(s[i])
    OBVIOUS
  <2>1. j \in 1..k /\ k > 0 /\ k \in 1..k /\ k \in 1..(k + 1)
    OBVIOUS
  <2>2. CASE i \in 1..k
    BY <2>1, <2>2 DEF Under
  <2>3. CASE i = k + 1
    <3>1. Rank(s[j]) <= Rank(s[k])
      <4>1. CASE j = k
        BY <1>5, <2>1, <4>1
      <4>2. CASE j < k
        BY <2>1, <4>2 DEF Under
      <4> QED
        BY <2>1, <4>1, <4>2
    <3> QED
      BY <1>5, <2>1, <2>3, <3>1
  <2> QED
    BY <1>1, <2>2, <2>3
<1> QED
  BY <1>2, <1>3, <1>4, <1>6 DEF Under

\* A cache takes a level no less than all those that came in before.
LEMMA UnderRaised ==
    ASSUME NEW s, NEW k \in Nat, NEW sup \in 0..7, NEW sr \in 0..7, NEW u,
           NEW sup2 \in 0..7, NEW sr2 \in 0..7,
           Under(s, k, sup, sr, u),
           k > 0 => sup2 = sup \/ Rank(s[k]) <= sup2,
           k > 0 => sr2 = sr \/ Rank(s[k]) <= sr2
    PROVE  Under(s, k, sup2, sr2, u)
<1>1. \A i \in 1..k : Rank(s[i]) \in 0..7
  BY DEF Under, ContextOK, TrapContexts, Rank
<1>2. \A i \in 1..k : Rank(s[i]) <= Rank(s[k])
  <2> SUFFICES ASSUME NEW i \in 1..k PROVE Rank(s[i]) <= Rank(s[k])
    OBVIOUS
  <2>1. k \in 1..k /\ (i < k \/ i = k)
    OBVIOUS
  <2> QED
    BY <1>1, <2>1 DEF Under
<1>3. \A i \in 1..k : s[i].own = "intr" =>
         /\ s[i].entry <= sup => s[i].entry <= sup2
         /\ s[i].entry <= sr => s[i].entry <= sr2
  <2> SUFFICES ASSUME NEW i \in 1..k, s[i].own = "intr"
               PROVE  /\ s[i].entry <= sup => s[i].entry <= sup2
                      /\ s[i].entry <= sr => s[i].entry <= sr2
    OBVIOUS
  <2>1. Rank(s[i]) = s[i].entry /\ k > 0 /\ k \in 1..k
    BY DEF Rank
  <2>2. Rank(s[i]) \in 0..7 /\ Rank(s[k]) \in 0..7 /\ Rank(s[i]) <= Rank(s[k])
    BY <1>1, <1>2, <2>1
  <2> QED
    BY <2>1, <2>2
<1>4. \A i \in 1..k : ContextOK(s[i], sup2, sr2, u)
  BY <1>3 DEF Under, ContextOK, IntrOK
<1>5. \A i \in 1..k : i > 1 => OnOK(s[i - 1], s[i], sup2)
  <2> SUFFICES ASSUME NEW i \in 1..k, i > 1 PROVE OnOK(s[i - 1], s[i], sup2)
    OBVIOUS
  <2>1. i - 1 \in 1..k /\ OnOK(s[i - 1], s[i], sup)
    BY DEF Under
  <2> QED
    BY <1>3, <2>1 DEF OnOK
<1> QED
  BY <1>4, <1>5 DEF Under

\* Another task is the one to switch to.
LEMMA UnderRedirected ==
    ASSUME NEW s, NEW k \in Nat, NEW sup, NEW sr, NEW u, NEW t \in Threads,
           Under(s, k, sup, sr, u)
    PROVE  Under(s, k, sup, sr, t)
<1>1. t # "boot"
  BY TrapAssumption DEF TrapAssumption
<1> QED
  BY <1>1 DEF Under, ContextOK

\* The running context changes, and fits where it is.
LEMMA ChangedTop ==
    ASSUME NEW s \in Seq(TrapContexts), s # <<>>, NEW c,
           NEW sup, NEW sr, NEW u, NEW n, n = Len(s),
           Under(s, n, sup, sr, u), ContextOK(c, sup, sr, u),
           c.own = s[n].own, Rank(c) = Rank(s[n]),
           n > 1 => OnOK(s[n - 1], c, sup),
           NEW r, r = [s EXCEPT ![n] = c]
    PROVE  /\ r \in Seq(TrapContexts) /\ r # <<>> /\ Len(r) = n /\ r[n] = c
           /\ Under(r, n, sup, sr, u)
           /\ (Needs(c) => ~c.off) => StackOK(r, sup, sr, u)
<1> DEFINE k == n - 1
<1>1. n \in Nat /\ n >= 1 /\ k \in Nat /\ k + 1 = n /\ k \in 0..n /\ n \in 1..n
  OBVIOUS
<1>2. c \in TrapContexts
  BY DEF ContextOK
<1>3. /\ r \in Seq(TrapContexts) /\ Len(r) = n /\ r # <<>> /\ r[n] = c
      /\ \A i \in 1..k : r[i] = s[i]
  BY <1>1, <1>2
<1> HIDE DEF k
<1>4. Under(r, k, sup, sr, u)
  BY <1>1, <1>3, UnderLess, UnderAgree
<1>5. k = 0 => r[1].own \in Users
  BY <1>1, <1>3 DEF Under
<1>6. k > 0 => OnOK(r[k], r[n], sup) /\ Rank(r[k]) <= Rank(r[n])
  <2> HAVE k > 0
  <2>1. k \in 1..n /\ k \in 1..k /\ k < n /\ n > 1
    BY <1>1
  <2>2. Rank(s[k]) <= Rank(s[n])
    BY <1>1, <2>1 DEF Under
  <2>3. r[k] = s[k]
    BY <1>3, <2>1
  <2> QED
    BY <1>3, <2>1, <2>2, <2>3 DEF k
<1>7. Under(r, k + 1, sup, sr, u)
  BY <1>1, <1>3, <1>4, <1>5, <1>6, UnderGrown
<1>8. (Needs(c) => ~c.off) => StackOK(r, sup, sr, u)
  BY <1>1, <1>3, <1>7 DEF StackOK
<1> QED
  BY <1>1, <1>3, <1>7, <1>8

\* A trap or an interrupt starts on top of the running context.
LEMMA PushedOn ==
    ASSUME NEW s \in Seq(TrapContexts), s # <<>>, NEW c,
           NEW sup, NEW sr, NEW u, NEW n, n = Len(s),
           Under(s, n, sup, sr, u), ContextOK(c, sup, sr, u),
           OnOK(s[n], c, sup), Rank(s[n]) <= Rank(c), ~c.off
    PROVE  StackOK(Append(s, c), sup, sr, u)
<1> DEFINE r == Append(s, c)
<1>1. n \in Nat /\ n >= 1 /\ n \in 1..n
  OBVIOUS
<1>2. c \in TrapContexts
  BY DEF ContextOK
<1>3. /\ r \in Seq(TrapContexts) /\ Len(r) = n + 1 /\ r # <<>> /\ r[n + 1] = c
      /\ \A i \in 1..n : r[i] = s[i]
  BY <1>1, <1>2
<1> HIDE DEF r
<1>4. Under(r, n, sup, sr, u)
  BY <1>1, <1>3, UnderAgree
<1>5. r[n] = s[n]
  BY <1>1, <1>3
<1>6. Under(r, n + 1, sup, sr, u)
  BY <1>1, <1>3, <1>4, <1>5, UnderGrown
<1>7. StackOK(r, sup, sr, u)
  BY <1>1, <1>3, <1>6 DEF StackOK
<1> QED
  BY <1>7 DEF r

\* The running context ends, and the one below it goes on.
LEMMA PoppedOff ==
    ASSUME NEW s, NEW sup, NEW sr, NEW u,
           StackOK(s, sup, sr, u), Len(s) > 1,
           ~Needs(s[Len(s) - 1]) \/ ~s[Len(s) - 1].off
    PROVE  StackOK(Front(s), sup, sr, u)
<1> DEFINE r == Front(s)
           n == Len(s)
           k == n - 1
<1>1. /\ s \in Seq(TrapContexts) /\ n \in Nat /\ k \in Nat /\ k \in 0..n /\ k >= 1
      /\ Under(s, n, sup, sr, u)
  BY DEF StackOK
<1>2. r \in Seq(TrapContexts) /\ Len(r) = k /\ r # <<>> /\ \A i \in 1..k : r[i] = s[i]
  <2>1. r = SubSeq(s, 1, k)
    BY DEF Front
  <2> HIDE DEF r, k
  <2>2. SubSeq(s, 1, k) \in Seq(TrapContexts) /\ Len(SubSeq(s, 1, k)) = k
        /\ \A i \in 1..k : SubSeq(s, 1, k)[i] = s[i]
    BY <1>1
  <2> QED
    BY <1>1, <2>1, <2>2
<1> HIDE DEF r
<1>3. Under(r, k, sup, sr, u)
  BY <1>1, <1>2, UnderLess, UnderAgree
<1>4. r[k] = s[k]
  BY <1>1, <1>2
<1>5. StackOK(r, sup, sr, u)
  BY <1>2, <1>3, <1>4 DEF StackOK
<1> QED
  BY <1>5 DEF r

\* The context on top and the one below change: a handler takes a step that
\* changes the frame that it goes back to.
LEMMA ChangedBelow ==
    ASSUME NEW s \in Seq(TrapContexts), NEW to \in Seq(Ops), NEW b, NEW c,
           NEW sup, NEW sr, NEW u, NEW n, n = Len(s), n > 1,
           c = [s[n] EXCEPT !.todo = to],
           Under(s, n - 2, sup, sr, u),
           ContextOK(b, sup, sr, u), ContextOK(c, sup, sr, u),
           n = 2 => b.own \in Users,
           n > 2 => OnOK(s[n - 2], b, sup) /\ Rank(s[n - 2]) <= Rank(b),
           OnOK(b, c, sup), Rank(b) <= Rank(c), Needs(c) => ~c.off
    PROVE  StackOK([s EXCEPT ![Len(s)].todo = to, ![Len(s) - 1] = b], sup, sr, u)
<1> DEFINE r == [s EXCEPT ![Len(s)].todo = to, ![Len(s) - 1] = b]
           k == n - 2
<1>1. n \in Nat /\ k \in Nat /\ n \in 1..n /\ n - 1 \in 1..n /\ k + 1 = n - 1 /\ (k + 1) + 1 = n
  OBVIOUS
<1>2. b \in TrapContexts /\ c \in TrapContexts
  BY DEF ContextOK
<1>3. r = [[s EXCEPT ![n] = c] EXCEPT ![n - 1] = b]
  BY <1>1
<1>4. /\ r \in Seq(TrapContexts) /\ Len(r) = n /\ r # <<>> /\ r[n] = c /\ r[n - 1] = b
      /\ \A i \in 1..k : r[i] = s[i]
  <2>1. [s EXCEPT ![n] = c] \in Seq(TrapContexts) /\ Len([s EXCEPT ![n] = c]) = n
    BY <1>1, <1>2
  <2> HIDE DEF r
  <2> QED
    BY <1>1, <1>2, <1>3, <2>1
<1> HIDE DEF r
<1>5. Under(r, k, sup, sr, u)
  BY <1>1, <1>4, UnderAgree
<1>6. k > 0 => r[k] = s[k] /\ n > 2
  <2>1. k > 0 => k \in 1..k /\ n > 2
    BY <1>1
  <2> QED
    BY <1>4, <2>1
<1>7. k = 0 => r[1] = b /\ n = 2
  <2> HIDE DEF k
  <2>1. k = 0 => n - 1 = 1 /\ n = 2
    BY ONLY <1>1
  <2> QED
    BY <1>4, <2>1
<1>8. Under(r, k + 1, sup, sr, u)
  BY <1>1, <1>4, <1>5, <1>6, <1>7, UnderGrown
<1>9. Under(r, (k + 1) + 1, sup, sr, u)
  <2>1. r[k + 1] = b /\ r[(k + 1) + 1] = c /\ k + 1 \in Nat /\ k + 1 > 0
    BY <1>1, <1>4
  <2> HIDE DEF k
  <2> QED
    BY <1>8, <2>1, UnderGrown
<1>10. StackOK(r, sup, sr, u)
  BY <1>1, <1>4, <1>9 DEF StackOK
<1> QED
  BY <1>10 DEF r

\* What the invariant says of the running context and the one below it.
LEMMA TopTwo ==
    ASSUME NEW s, NEW sup, NEW sr, NEW u, NEW n, n = Len(s),
           StackOK(s, sup, sr, u)
    PROVE  /\ s \in Seq(TrapContexts) /\ s # <<>> /\ n \in Nat /\ n >= 1
           /\ Under(s, n, sup, sr, u) /\ ContextOK(s[n], sup, sr, u)
           /\ n = 1 <=> s[n].own \in Users
           /\ Needs(s[n]) => ~s[n].off
           /\ n > 1 =>
                 /\ OnOK(s[n - 1], s[n], sup) /\ Rank(s[n - 1]) <= Rank(s[n])
                 /\ ContextOK(s[n - 1], sup, sr, u)
                 /\ n = 2 <=> s[n - 1].own \in Users
                 /\ Under(s, n - 1, sup, sr, u) /\ Under(s, n - 2, sup, sr, u)
           /\ n > 2 => OnOK(s[n - 2], s[n - 1], sup) /\ Rank(s[n - 2]) <= Rank(s[n - 1])
<1>1. /\ s \in Seq(TrapContexts) /\ s # <<>> /\ n \in Nat /\ n >= 1
      /\ Under(s, n, sup, sr, u) /\ (Needs(s[n]) => ~s[n].off)
  BY DEF StackOK
<1> HIDE DEF StackOK
<1>2. ContextOK(s[n], sup, sr, u) /\ (n = 1 <=> s[n].own \in Users)
  BY <1>1, BottomOne
<1>3. ASSUME n > 1
      PROVE  /\ OnOK(s[n - 1], s[n], sup) /\ Rank(s[n - 1]) <= Rank(s[n])
             /\ ContextOK(s[n - 1], sup, sr, u)
             /\ n = 2 <=> s[n - 1].own \in Users
             /\ Under(s, n - 1, sup, sr, u) /\ Under(s, n - 2, sup, sr, u)
  <2> DEFINE k == n - 1
  <2>1. k \in Nat \ {0} /\ k \in 0..n /\ n - 2 \in 0..n /\ k \in 1..n /\ n \in 1..n /\ k < n
        /\ (k = 1 <=> n = 2)
    BY <1>1, <1>3
  <2>2. Under(s, k, sup, sr, u) /\ Under(s, n - 2, sup, sr, u)
    BY <1>1, <2>1, UnderLess
  <2>3. OnOK(s[k], s[n], sup) /\ Rank(s[k]) <= Rank(s[n])
    BY <1>1, <1>3, <2>1 DEF Under
  <2> HIDE DEF k
  <2>4. ContextOK(s[k], sup, sr, u) /\ (n = 2 <=> s[k].own \in Users)
    BY <2>1, <2>2, BottomOne
  <2> QED
    BY <2>2, <2>3, <2>4 DEF k
<1>4. ASSUME n > 2
      PROVE  OnOK(s[n - 2], s[n - 1], sup) /\ Rank(s[n - 2]) <= Rank(s[n - 1])
  <2> DEFINE k == n - 1
  <2>1. k \in 1..n /\ k > 1 /\ k - 1 = n - 2 /\ n - 2 \in 1..n /\ n - 2 < k
    BY <1>1, <1>4
  <2> HIDE DEF k
  <2>2. OnOK(s[k - 1], s[k], sup) /\ Rank(s[n - 2]) <= Rank(s[k])
    BY <1>1, <2>1 DEF Under
  <2> QED
    BY <2>1, <2>2 DEF k
<1> QED
  BY <1>1, <1>2, <1>3, <1>4

LEMMA RunningIs ==
    ASSUME stacked \in Seq(TrapContexts), NEW n, n = Len(stacked)
    PROVE  Running = stacked[n] /\ Below = stacked[n - 1]
BY DEF Running, Below, Last

\* A step that does not itself change the context that takes it.
Taken(c) == [c EXCEPT !.todo = Tail(@)]

\* A context that takes such a step stays in order, and fits where it was.
LEMMA StepTaken ==
    ASSUME NEW c, NEW sup, NEW sr, NEW u,
           ContextOK(c, sup, sr, u), c.todo # <<>>, c.own # "trap",
           Head(c.todo) \notin {"level", "unmaskSr", "store", "load", "keepSr"}
    PROVE  /\ ContextOK(Taken(c), sup, sr, u) /\ Tail(c.todo) \in Seq(Ops)
           /\ Taken(c).own = c.own /\ Taken(c).level = c.level /\ Taken(c).off = c.off /\ Taken(c).entry = c.entry
           /\ Rank(Taken(c)) = Rank(c)
           /\ Needs(Taken(c)) => Needs(c) \/ Head(c.todo) = "trap1"
           /\ c.own \in Users => Head(c.todo) \in CallOps
           /\ c.own = "intr" => Head(c.todo) \in IntrOps
           /\ LastOp(Taken(c)) = "check" => Head(c.todo) = "keepSr"
           /\ c.own = "intr" => LastOp(Taken(c)) \notin {"level", "unmaskSr", "check"}
           /\ \A b : OnOK(b, c, sup) => OnOK(b, Taken(c), sup)
<1> DEFINE s == c.todo
           r == Tail(s)
           c2 == Taken(c)
<1>1. /\ c \in TrapContexts /\ s \in Seq(Ops) /\ ThreadOK(c) /\ IntrOK(c, sup, sr)
      /\ c.own \in Users \cup {"intr"}
  BY DEF ContextOK, TrapContexts
<1>2. r \in Seq(Ops) /\ (LastOp(c) = Head(s)) /\ (r # <<>> => LastOp(c2) = Head(r))
      /\ (r = <<>> => LastOp(c2) = "")
  BY <1>1, TailIs DEF LastOp, TrapContexts, Taken
<1>3. /\ c2 \in TrapContexts /\ c2.todo = r /\ c2.own = c.own /\ c2.sup = c.sup
      /\ c2.level = c.level /\ c2.off = c.off /\ c2.entry = c.entry /\ Rank(c2) = Rank(c)
  BY <1>1, <1>2 DEF TrapContexts, Rank, Taken
<1>4. "trap" \notin Users /\ "intr" \notin Users /\ Threads \subseteq Users
  BY TrapAssumption DEF TrapAssumption, Users
<1> HIDE DEF r, s, c2
<1>5. CASE c.own \in Users
  <2>1. UserSteps(s) /\ s # <<>>
    BY <1>1, <1>5 DEF ThreadOK, s
  <2>2. UserSteps(r) /\ Head(s) \in CallOps /\ (BeforeSwitch(r) => BeforeSwitch(s) \/ Head(s) = "trap1")
    BY <2>1, UserTail DEF r
  <2>3. LastOp(c2) \in CallOps \cup {""}
    <3>1. r \in Seq(CallOps)
      BY <2>2 DEF UserSteps
    <3>2. r # <<>> => Head(r) \in CallOps
      BY <3>1, TailIs
    <3> QED
      BY <1>2, <3>2
  <2>4. LastOp(c2) \notin {"load", "check", "level", "unmaskSr"}
    BY <2>3 DEF CallOps
  <2>5. ContextOK(c2, sup, sr, u)
    BY <1>1, <1>3, <1>4, <1>5, <2>2, <2>4 DEF ContextOK, ThreadOK, TrapOK, IntrOK
  <2>6. Needs(c2) => Needs(c) \/ Head(s) = "trap1"
    BY <1>3, <1>4, <1>5, <2>2 DEF Needs, s
  <2>7. \A b : ~OnOK(b, c, sup)
    BY <1>5 DEF OnOK
  <2> QED
    BY <1>2, <1>3, <1>4, <1>5, <2>2, <2>4, <2>5, <2>6, <2>7 DEF s, r, c2
<1>6. CASE c.own = "intr"
  <2>1. IntrSteps(s) /\ s # <<>>
    BY <1>1, <1>6 DEF IntrOK, s
  <2>2. /\ IntrSteps(r) /\ Head(s) \in IntrOps
        /\ Loads(r) => Loads(s)
        /\ r # <<>> => /\ Head(r) \notin {"level", "unmaskSr"}
                       /\ Head(r) = "keepSr" => Head(s) = "trap1"
                       /\ Head(r) = "check" => Head(s) = "keepSr"
                       /\ Head(r) = "load" => Head(s) = "store"
    BY <2>1, IntrTail DEF r
  <2>3. /\ LastOp(c2) \notin {"level", "unmaskSr", "check", "load"}
        /\ LastOp(c2) = "keepSr" => Head(s) = "trap1"
    BY <1>2, <2>2 DEF s
  <2>4. IntrOK(c2, sup, sr)
    BY <1>1, <1>2, <1>3, <1>6, <2>2, <2>3 DEF IntrOK, s
  <2>5. ContextOK(c2, sup, sr, u)
    BY <1>3, <1>4, <1>6, <2>3, <2>4 DEF ContextOK, ThreadOK, TrapOK
  <2>6. Needs(c2) => Needs(c) \/ Head(s) = "trap1"
    BY <1>3, <1>4, <1>6, <2>3 DEF Needs
  <2>7. \A b : OnOK(b, c, sup) => OnOK(b, c2, sup)
    BY <1>3, <1>6, <2>2, <2>3 DEF OnOK, s
  <2> QED
    BY <1>2, <1>3, <1>4, <1>6, <2>2, <2>3, <2>5, <2>6, <2>7 DEF s, r, c2
<1> QED
  BY <1>1, <1>5, <1>6

\* The steps of the handlers of traps, one by one.
LEMMA HandlerFacts ==
    /\ HandlerSteps \subseteq Seq(Ops)
    /\ \A h \in HandlerSteps : Loads(h) <=> h \in {<<"store", "load">>, <<"load">>}
    /\ \A h \in HandlerSteps : h # <<>> => Head(h) \in HandlerOps /\ Tail(h) \in HandlerSteps
    /\ \A h \in HandlerSteps : h # <<>> /\ Head(h) = "load" <=> h = <<"load">>
    /\ \A h \in HandlerSteps : h # <<>> /\ Head(h) = "store" <=> h = <<"store", "load">>
    /\ \A h \in HandlerSteps : h # <<>> /\ Head(h) = "keep" <=> h = <<"keep", "mask">>
    /\ \A h \in HandlerSteps : h # <<>> /\ Head(h) = "mask" <=> h = <<"mask">>
    /\ \A h \in HandlerSteps : h # <<>> /\ Head(h) = "unmask" <=> h = <<"unmask">>
    /\ Tail(<<"keep", "mask">>) = <<"mask">> /\ Tail(<<"store", "load">>) = <<"load">>
    /\ Tail(<<"console">>) = <<>>
    /\ <<>> \notin {<<"mask">>, <<"unmask">>, <<"load">>, <<"keep", "mask">>, <<"store", "load">>}
    /\ <<"mask">> # <<"unmask">> /\ <<"mask">> # <<"load">> /\ <<"mask">> # <<"keep", "mask">>
    /\ <<"mask">> # <<"store", "load">> /\ <<"unmask">> # <<"keep", "mask">>
<1> DEFINE K == <<"keep", "mask">>
           S == <<"store", "load">>
<1>1. /\ Len(<<>>) = 0 /\ Len(<<"load">>) = 1 /\ Len(<<"unmask">>) = 1 /\ Len(<<"mask">>) = 1
      /\ Len(<<"console">>) = 1 /\ Len(<<"receive">>) = 1 /\ Len(K) = 2 /\ Len(S) = 2
  OBVIOUS
<1>2. /\ Head(<<"load">>) = "load" /\ Head(<<"unmask">>) = "unmask" /\ Head(<<"mask">>) = "mask"
      /\ Head(<<"console">>) = "console" /\ Head(<<"receive">>) = "receive"
      /\ Head(K) = "keep" /\ Head(S) = "store"
  OBVIOUS
<1>3. /\ Tail(<<"load">>) = <<>> /\ Tail(<<"unmask">>) = <<>> /\ Tail(<<"mask">>) = <<>>
      /\ Tail(<<"console">>) = <<>> /\ Tail(<<"receive">>) = <<>>
      /\ Tail(K) = <<"mask">> /\ Tail(S) = <<"load">>
  OBVIOUS
<1>4. HandlerSteps \subseteq Seq(Ops)
  BY DEF HandlerSteps, Ops, HandlerOps
<1>5. /\ ~Loads(<<>>) /\ Loads(<<"load">>) /\ Loads(S) /\ ~Loads(K) /\ ~Loads(<<"unmask">>)
      /\ ~Loads(<<"mask">>) /\ ~Loads(<<"console">>) /\ ~Loads(<<"receive">>)
  <2>1. S[2] = "load" /\ 2 \in 1..Len(S) /\ <<"load">>[1] = "load" /\ 1 \in 1..Len(<<"load">>)
    OBVIOUS
  <2>2. Loads(S) /\ Loads(<<"load">>)
    BY <2>1 DEF Loads
  <2>3. ~Loads(K)
    BY DEF Loads
  <2> QED
    BY <2>2, <2>3 DEF Loads
<1> HIDE DEF K, S
<1>6. \A h \in HandlerSteps : \/ h = <<>> \/ h = S \/ h = <<"load">> \/ h = <<"unmask">>
                              \/ h = K \/ h = <<"mask">> \/ h = <<"console">> \/ h = <<"receive">>
  BY DEF HandlerSteps, K, S
<1>7. {<<>>, S, <<"load">>, <<"mask">>} \subseteq HandlerSteps
  BY DEF HandlerSteps, S
<1>8. /\ <<>> # <<"mask">> /\ <<>> # <<"unmask">> /\ <<>> # <<"load">> /\ <<>> # K /\ <<>> # S
      /\ <<"mask">> # <<"unmask">> /\ <<"mask">> # <<"load">> /\ <<"mask">> # K
      /\ <<"mask">> # S /\ <<"unmask">> # K
      /\ <<"console">> # <<>> /\ <<"receive">> # <<>>
  BY <1>1, <1>2
<1>9. \A h \in HandlerSteps : Loads(h) <=> h = S \/ h = <<"load">>
  BY <1>5, <1>6
<1>10. \A h \in HandlerSteps : h # <<>> => Head(h) \in HandlerOps /\ Tail(h) \in HandlerSteps
  BY <1>2, <1>3, <1>6, <1>7 DEF HandlerOps
<1>11. /\ \A h \in HandlerSteps : h # <<>> /\ Head(h) = "load" <=> h = <<"load">>
       /\ \A h \in HandlerSteps : h # <<>> /\ Head(h) = "store" <=> h = S
       /\ \A h \in HandlerSteps : h # <<>> /\ Head(h) = "keep" <=> h = K
       /\ \A h \in HandlerSteps : h # <<>> /\ Head(h) = "mask" <=> h = <<"mask">>
       /\ \A h \in HandlerSteps : h # <<>> /\ Head(h) = "unmask" <=> h = <<"unmask">>
  BY <1>2, <1>6, <1>8
<1> QED
  BY <1>3, <1>4, <1>8, <1>9, <1>10, <1>11 DEF K, S

\* The calls of a thread, and what the interrupts do, are such steps.
LEMMA CallFacts ==
    \A steps \in ThreadCalls : /\ UserSteps(steps) /\ steps # <<>> /\ ~BeforeSwitch(steps)
                               /\ steps \in Seq(Ops)
<1>1. ASSUME NEW steps, steps = Syscall \o OS_Schedule_ \o <<"trap0", "trap1">>
      PROVE /\ UserSteps(steps) /\ steps # <<>> /\ ~BeforeSwitch(steps)
            /\ steps \in Seq(Ops)
  <2>1. steps \in Seq(CallOps) /\ Len(steps) = 10
    BY <1>1 DEF CallOps, Syscall, OS_Schedule_
  <2>2. steps \in Seq(Ops)
    BY <1>1 DEF Ops, CallOps, Syscall, OS_Schedule_
  <2>3. /\ steps[1] = "trap2" /\ steps[2] = "active" /\ steps[3] = "trap1" /\ steps[4] = "trap2"
        /\ steps[5] = "trap2" /\ steps[6] = "pick" /\ steps[7] = "trap1" /\ steps[8] = "idle"
        /\ steps[10] = "trap1"
    BY <1>1 DEF Syscall, OS_Schedule_
  <2>4. \A i \in 1..10 : steps[i] = "trap0" => i = 9
    <3>1. \A i \in 1..10 : i = 1 \/ i = 2 \/ i = 3 \/ i = 4 \/ i = 5 \/ i = 6 \/ i = 7 \/ i = 8
                           \/ i = 9 \/ i = 10
      OBVIOUS
    <3> QED
      BY ONLY <2>3, <3>1
  <2>5. \A i \in 1..10 : steps[i] = "trap0" => steps[i - 1] = "idle" /\ steps[i - 2] = "trap1"
    <3>1. 9 - 1 = 8 /\ 9 - 2 = 7
      OBVIOUS
    <3> QED
      BY ONLY <2>3, <2>4, <3>1
  <2>6. UserSteps(steps)
    BY <2>1, <2>5 DEF UserSteps
  <2> QED
    BY <2>1, <2>2, <2>3, <2>6 DEF BeforeSwitch
<1>2. ASSUME NEW steps, steps = Syscall \o <<"idle", "trap1">>
      PROVE /\ UserSteps(steps) /\ steps # <<>> /\ ~BeforeSwitch(steps)
            /\ steps \in Seq(Ops)
  <2>1. steps \in Seq(CallOps) /\ Len(steps) = 6 /\ steps \in Seq(Ops)
    BY <1>2 DEF CallOps, Ops, Syscall
  <2>2. /\ steps[1] = "trap2" /\ steps[2] = "active" /\ steps[3] = "trap1" /\ steps[4] = "trap2"
        /\ steps[5] = "idle" /\ steps[6] = "trap1"
    BY <1>2 DEF Syscall
  <2>3. \A i \in 1..6 : steps[i] # "trap0"
    <3>1. \A i \in 1..6 : i = 1 \/ i = 2 \/ i = 3 \/ i = 4 \/ i = 5 \/ i = 6
      OBVIOUS
    <3> QED
      BY ONLY <2>2, <3>1
  <2> QED
    BY <2>1, <2>2, <2>3 DEF UserSteps, BeforeSwitch
<1>3. ASSUME NEW steps, steps \in {<<"trap2", "trap1">>, <<"trap3">>, <<"trap4">>, <<"trap5">>}
      PROVE /\ UserSteps(steps) /\ steps # <<>> /\ ~BeforeSwitch(steps)
            /\ steps \in Seq(Ops)
  <2>1. /\ steps \in Seq(CallOps) /\ steps \in Seq(Ops)
        /\ steps[1] \in {"trap2", "trap3", "trap4", "trap5"}
        /\ Len(steps) = 1 \/ (Len(steps) = 2 /\ steps[2] = "trap1")
    <3>1. CASE steps = <<"trap2", "trap1">>
      BY <3>1 DEF CallOps, Ops
    <3>2. CASE steps \in {<<"trap3">>, <<"trap4">>, <<"trap5">>}
      BY <3>2, SMTT(30) DEF CallOps, Ops
    <3> QED
      BY <1>3, <3>1, <3>2
  <2>2. \A i \in 1..Len(steps) : steps[i] # "trap0"
    <3>1. CASE Len(steps) = 1
      <4>1. \A i \in 1..1 : i = 1
        OBVIOUS
      <4> QED
        BY <2>1, <3>1, <4>1
    <3>2. CASE Len(steps) = 2 /\ steps[2] = "trap1"
      <4>1. \A i \in 1..2 : i = 1 \/ i = 2
        OBVIOUS
      <4> QED
        BY <2>1, <3>2, <4>1
    <3> QED
      BY <2>1, <3>1, <3>2
  <2> QED
    BY <2>1, <2>2 DEF UserSteps, BeforeSwitch
<1> QED
  BY <1>1, <1>2, <1>3 DEF ThreadCalls

\* What an interrupt does, at the PIT's level or another.
LEMMA IntrFacts ==
    /\ IntrSteps(IntrHandler) /\ ~Loads(IntrHandler) /\ IntrHandler \in Seq(Ops)
    /\ IntrHandler # <<>> /\ Head(IntrHandler) = "trap2"
    /\ IntrSteps(PitHandler) /\ ~Loads(PitHandler) /\ PitHandler \in Seq(Ops)
    /\ PitHandler # <<>> /\ Head(PitHandler) = "level"
    /\ IntrSteps(FlushEvents) /\ FlushEvents \in Seq(Ops)
    /\ FlushEvents # <<>> /\ Head(FlushEvents) = "unmaskSr"
    /\ IntrSteps(<<>>) /\ ~Loads(<<>>)
<1>1. ASSUME NEW s, s = IntrHandler
      PROVE  /\ IntrSteps(s) /\ ~Loads(s) /\ s \in Seq(Ops)
             /\ s # <<>> /\ Head(s) = "trap2"
  <2>1. s \in Seq(IntrOps) /\ s \in Seq(Ops) /\ Len(s) = 4 /\ Head(s) = "trap2"
    BY <1>1 DEF IntrOps, Ops, IntrHandler, EpilogueSteps
  <2>2. s[1] = "trap2" /\ s[2] = "trap1" /\ s[3] = "keepSr" /\ s[4] = "check"
    BY <1>1 DEF IntrHandler, EpilogueSteps
  <2>3. \A i \in 1..4 : /\ i = 1 \/ i = 2 \/ (i = 3 /\ i - 1 = 2) \/ (i = 4 /\ i - 1 = 3)
                        /\ i = 2 => i - 1 = 1
    OBVIOUS
  <2>4. \A i \in 1..4 :
          /\ s[i] \notin {"level", "unmaskSr", "load", "store"}
          /\ s[i] = "keepSr" => s[i - 1] = "trap1"
          /\ s[i] = "check" => s[i - 1] = "keepSr"
    BY ONLY <2>2, <2>3
  <2>5. IntrSteps(s)
    BY <2>1, <2>4 DEF IntrSteps
  <2>6. ~Loads(s)
    BY <2>1, <2>4 DEF Loads
  <2> QED
    BY <2>1, <2>5, <2>6
<1>2. ASSUME NEW s, s = PitHandler
      PROVE  /\ IntrSteps(s) /\ ~Loads(s) /\ s \in Seq(Ops)
             /\ s # <<>> /\ Head(s) = "level"
  <2>1. s \in Seq(IntrOps) /\ s \in Seq(Ops) /\ Len(s) = 5 /\ Head(s) = "level"
    BY <1>2 DEF IntrOps, Ops, PitHandler, EpilogueSteps
  <2>2. s[1] = "level" /\ s[2] = "trap2" /\ s[3] = "trap1" /\ s[4] = "keepSr" /\ s[5] = "check"
    BY <1>2 DEF PitHandler, EpilogueSteps
  <2>3. \A i \in 1..5 : i = 1 \/ i = 2 \/ i = 3 \/ (i = 4 /\ i - 1 = 3) \/ (i = 5 /\ i - 1 = 4)
    OBVIOUS
  <2>4. \A i \in 1..5 :
          /\ s[i] \in {"level", "unmaskSr"} => i = 1
          /\ s[i] \notin {"load", "store"}
          /\ s[i] = "keepSr" => s[i - 1] = "trap1"
          /\ s[i] = "check" => s[i - 1] = "keepSr"
    BY ONLY <2>2, <2>3
  <2>5. IntrSteps(s)
    BY <2>1, <2>4 DEF IntrSteps
  <2>6. ~Loads(s)
    BY <2>1, <2>4 DEF Loads
  <2> QED
    BY <2>1, <2>5, <2>6, SMTT(30)
<1>3. ASSUME NEW s, s = FlushEvents
      PROVE  /\ IntrSteps(s) /\ s \in Seq(Ops)
             /\ s # <<>> /\ Head(s) = "unmaskSr"
  <2>1. s \in Seq(IntrOps) /\ s \in Seq(Ops) /\ Len(s) = 7 /\ Head(s) = "unmaskSr"
    BY <1>3 DEF IntrOps, Ops, FlushEvents, OS_Schedule_
  <2>2. /\ s[1] = "unmaskSr" /\ s[2] = "trap2" /\ s[3] = "pick" /\ s[4] = "trap1"
        /\ s[5] = "idle" /\ s[6] = "store" /\ s[7] = "load"
    BY <1>3 DEF FlushEvents, OS_Schedule_
  <2>3. \A i \in 1..7 : \/ i = 1 \/ i = 2 \/ i = 3 \/ i = 4 \/ i = 5
                        \/ (i = 6 /\ i + 1 = 7 /\ i < 7) \/ (i = 7 /\ i - 1 = 6)
    OBVIOUS
  <2>4. \A i \in 1..7 :
          /\ s[i] \in {"level", "unmaskSr"} => i = 1
          /\ s[i] \notin {"keepSr", "check"}
          /\ s[i] = "load" => s[i - 1] = "store"
          /\ s[i] = "store" => i < 7 /\ s[i + 1] = "load"
    BY ONLY <2>2, <2>3
  <2>5. IntrSteps(s)
    BY <2>1, <2>4 DEF IntrSteps
  <2>6. s # <<>>
    BY <2>1
  <2> QED
    BY <2>1, <2>5, <2>6
<1>4. IntrSteps(<<>>) /\ ~Loads(<<>>)
  BY DEF IntrSteps, Loads
<1> QED
  BY <1>1, <1>2, <1>3, <1>4

----------------------------------------------------------------------------
(* The steps.                                                              *)

\* Steps that switch no task.
LEMMA NoSwitch ==
    ASSUME LevelsInv, ~torn, UNCHANGED <<contexts, cur, prev, torn>>,
           StackOK(stacked', iplCache'.sup, srCache', cur), CachesOK'
    PROVE  LevelsInv'
<1>1. StoredOK'
  BY DEF LevelsInv, StoredOK
<1> QED
  BY <1>1 DEF LevelsInv

LEMMA Names == /\ "trap" \notin Users /\ "intr" \notin Users /\ "boot" \notin Threads
               /\ Threads \subseteq Users /\ "boot" \in Users
               /\ Users = Threads \cup {"boot"}
BY TrapAssumption DEF TrapAssumption, Users

LEMMA FirstContext ==
    ASSUME NEW t \in Users, NEW c, c = HwContextInit(t)
    PROVE  /\ c \in TrapContexts /\ c.own = t /\ c.sup = FALSE
           /\ c.level = 0 /\ c.off = FALSE /\ c.todo = <<>>
BY DEF HwContextInit, TrapContext, TrapContexts

\* The boot code starts alone, with its first schedule left to do.
LEMMA LevelsInit == TrapStart => LevelsInv
<1> SUFFICES ASSUME TrapStart PROVE LevelsInv
  OBVIOUS
<1> DEFINE steps == OS_Schedule_ \o <<"trap0">>
           b == TrapContext("boot", TRUE, 7, steps)
<1>1. /\ steps \in Seq(CallOps) /\ steps \in Seq(Ops) /\ Len(steps) = 5
      /\ steps[1] = "trap2" /\ steps[2] = "pick" /\ steps[3] = "trap1" /\ steps[4] = "idle"
      /\ Head(steps) = "trap2"
  BY DEF OS_Schedule_, CallOps, Ops
<1> HIDE DEF steps
<1>2. UserSteps(steps)
  <2>1. \A i \in 1..5 : i = 1 \/ i = 2 \/ i = 3 \/ i = 4 \/ (i = 5 /\ i - 1 = 4 /\ i - 2 = 3)
    OBVIOUS
  <2>2. \A i \in 1..5 : steps[i] = "trap0" => steps[i - 1] = "idle" /\ steps[i - 2] = "trap1"
    BY ONLY <1>1, <2>1
  <2> QED
    BY <1>1, <2>2 DEF UserSteps
<1> HIDE DEF b
<1>3. /\ b \in TrapContexts /\ b.own = "boot" /\ b.sup /\ b.todo = steps
      /\ LastOp(b) \in {"", "trap2"}
  <2>1. "boot" \in Users \cup {"trap", "intr"} /\ 7 \in 0..7
    BY Names
  <2>2. /\ b \in TrapContexts /\ b.own = "boot" /\ b.sup = TRUE /\ b.todo = steps
    BY <1>1, <2>1 DEF b, TrapContext, TrapContexts
  <2> QED
    BY <1>1, <2>2 DEF LastOp
<1>4. ContextOK(b, 0, 0, "boot") /\ ~Needs(b)
  BY <1>2, <1>3, Names DEF ContextOK, ThreadOK, TrapOK, IntrOK, Needs
<1>5. stacked = <<b>> /\ Len(stacked) = 1 /\ stacked[1] = b /\ stacked \in Seq(TrapContexts)
  <2>1. stacked = <<b>>
    BY DEF TrapStart, BootFrames, b, steps
  <2>2. <<b>> \in Seq(TrapContexts)
    <3>1. b \in TrapContexts
      BY <1>3
    <3>2. <<b>> = Append(<<>>, b) /\ <<>> \in Seq(TrapContexts)
      OBVIOUS
    <3> QED
      BY ONLY <3>1, <3>2
  <2>3. Len(<<b>>) = 1
    OBVIOUS
  <2>4. <<b>>[1] = b
    OBVIOUS
  <2> QED
    BY <2>1, <2>2, <2>3, <2>4
<1>6. Under(stacked, 0, 0, 0, "boot")
  BY DEF Under
<1>7. Under(stacked, 0 + 1, 0, 0, "boot")
  <2>1. ContextOK(stacked[0 + 1], 0, 0, "boot") /\ stacked[1].own \in Users
    <3>1. 0 + 1 = 1
      OBVIOUS
    <3> QED
      BY <1>3, <1>4, <1>5, <3>1, Names
  <2> QED
    BY <1>6, <2>1, UnderGrown
<1>8. StackOK(stacked, 0, 0, "boot")
  BY <1>4, <1>5, <1>7 DEF StackOK
<1>9. iplCache.sup = 0 /\ srCache = 0 /\ cur = "boot" /\ CachesOK
  BY DEF TrapStart, CachesOK
<1>10. \A t \in Users : contexts[t] = HwContextInit(t)
  BY DEF TrapStart, FreshContexts, Users
<1>11. UserSteps(<<>>)
  BY DEF UserSteps
<1>12. contexts \in [Users -> TrapContexts]
  <2>1. contexts = [t \in Users |-> HwContextInit(t)]
    BY DEF TrapStart, FreshContexts, Users
  <2> QED
    BY <2>1, FirstContext
<1>13. \A t \in Users : /\ contexts[t].own = t /\ contexts[t].level = 0 /\ ~contexts[t].off
                       /\ ~contexts[t].sup /\ contexts[t].todo = <<>>
  <2> SUFFICES ASSUME NEW t \in Users
               PROVE  /\ contexts[t].own = t /\ contexts[t].level = 0 /\ ~contexts[t].off
                      /\ ~contexts[t].sup /\ contexts[t].todo = <<>>
    OBVIOUS
  <2>1. contexts[t] = [own |-> t, sup |-> FALSE, entry |-> 0, level |-> 0, off |-> FALSE,
                       todo |-> <<>>]
    BY <1>10 DEF HwContextInit, TrapContext
  <2> QED
    BY ONLY <2>1
<1>14. StoredOK
  <2>1. ASSUME NEW t \in Threads
        PROVE  /\ contexts[t].own = t /\ contexts[t].level = 0
               /\ ThreadOK(contexts[t])
    <3>1. /\ contexts[t].own = t /\ contexts[t].level = 0 /\ ~contexts[t].off
          /\ ~contexts[t].sup /\ contexts[t].todo = <<>>
      BY <1>13, Names
    <3> QED
      BY <1>11, <3>1, Names DEF ThreadOK
  <2> QED
    BY <2>1, Names DEF TrapStart, StoredOK
<1>15. \A t \in Users : contexts[t].own # "intr"
  BY <1>13, Names
<1>16. torn = FALSE
  BY DEF TrapStart
<1> QED
  BY <1>8, <1>9, <1>12, <1>14, <1>15, <1>16 DEF LevelsInv

LEMMA StepRte == LevelsInv /\ ~torn /\ Rte => LevelsInv'
<1> SUFFICES ASSUME LevelsInv, ~torn, Rte PROVE LevelsInv'
  OBVIOUS
<1> DEFINE n == Len(stacked)
           c == stacked[n]
           b == stacked[n - 1]
<1>1. StackOK(stacked, iplCache.sup, srCache, cur) /\ CachesOK
  BY DEF LevelsInv
<1>2. n > 1 /\ stacked' = Front(stacked) /\ Running.todo = <<>>
      /\ UNCHANGED <<contexts, cur, prev, iplCache, srCache, torn>>
  BY DEF Rte, Front
<1>3. Running = c
  BY <1>1, TopTwo, RunningIs
<1>4. OnOK(b, c, iplCache.sup) /\ c.todo = <<>>
  BY <1>1, <1>2, <1>3, TopTwo
<1>5. ~Needs(b) \/ ~b.off
  BY <1>4 DEF OnOK
<1>6. StackOK(Front(stacked), iplCache.sup, srCache, cur)
  BY <1>1, <1>2, <1>5, PoppedOff
<1>7. CachesOK'
  BY <1>1, <1>2 DEF CachesOK
<1> QED
  BY <1>2, <1>6, <1>7, NoSwitch

LEMMA StepInterrupt == LevelsInv /\ ~torn /\ TakeInterrupt => LevelsInv'
<1> SUFFICES ASSUME LevelsInv, ~torn, TakeInterrupt PROVE LevelsInv'
  OBVIOUS
<1> DEFINE n == Len(stacked)
           c == stacked[n]
           sup == iplCache.sup
<1>1. StackOK(stacked, sup, srCache, cur) /\ CachesOK
  BY DEF LevelsInv
<1>2. PICK l \in Levels :
         /\ l > Running.level
         /\ stacked' = Append(stacked,
              IF l = PitLevel
              THEN [TrapContext("intr", TRUE, 7, PitHandler) EXCEPT !.entry = l]
              ELSE TrapContext("intr", TRUE, l, IntrHandler))
         /\ UNCHANGED <<contexts, cur, prev, active, iplCache, srCache, torn>>
  BY DEF TakeInterrupt
<1> DEFINE t == IF l = PitLevel
                THEN [TrapContext("intr", TRUE, 7, PitHandler) EXCEPT !.entry = l]
                ELSE TrapContext("intr", TRUE, l, IntrHandler)
<1>3. /\ stacked \in Seq(TrapContexts) /\ stacked # <<>> /\ n \in Nat
      /\ Under(stacked, n, sup, srCache, cur) /\ ContextOK(c, sup, srCache, cur)
      /\ Running = c /\ (Needs(c) => ~c.off)
  BY <1>1, TopTwo, RunningIs
<1>4. l \in 1..6 /\ c \in TrapContexts
  BY <1>3, TrapAssumption DEF TrapAssumption, ContextOK
<1>5. /\ t \in TrapContexts /\ t.own = "intr" /\ t.sup /\ t.entry = l /\ t.level \in {l, 7} /\ ~t.off
      /\ t.todo = IF l = PitLevel THEN PitHandler ELSE IntrHandler
      /\ t.level = 7 => l = PitLevel
  <2> DEFINE p == TrapContext("intr", TRUE, 7, PitHandler)
             q == TrapContext("intr", TRUE, l, IntrHandler)
  <2> HIDE DEF p, q
  <2>1. l \in 0..7 /\ 7 \in 0..7 /\ "intr" \in Users \cup {"trap", "intr"} /\ l # 7
    BY <1>4
  <2>2. /\ p \in TrapContexts /\ p.own = "intr" /\ p.sup = TRUE /\ p.level = 7 /\ p.off = FALSE
        /\ p.todo = PitHandler
    BY <2>1, IntrFacts DEF p, TrapContext, TrapContexts
  <2>3. /\ q \in TrapContexts /\ q.own = "intr" /\ q.sup = TRUE /\ q.entry = l /\ q.level = l
        /\ q.off = FALSE /\ q.todo = IntrHandler
    BY <2>1, IntrFacts DEF q, TrapContext, TrapContexts
  <2>4. t = IF l = PitLevel THEN [p EXCEPT !.entry = l] ELSE q
    BY DEF p, q
  <2> HIDE DEF t
  <2>5. CASE l = PitLevel
    BY <2>1, <2>2, <2>4, <2>5 DEF TrapContexts
  <2>6. CASE l # PitLevel
    BY <2>1, <2>3, <2>4, <2>6
  <2> QED
    BY <2>5, <2>6
<1> HIDE DEF t
<1>6. IntrSteps(t.todo) /\ ~Loads(t.todo) /\ LastOp(t) = IF l = PitLevel THEN "level" ELSE "trap2"
  BY <1>5, IntrFacts DEF LastOp
<1>7. ContextOK(t, sup, srCache, cur)
  BY <1>4, <1>5, <1>6, Names DEF ContextOK, ThreadOK, TrapOK, IntrOK
<1>8. OnOK(c, t, sup)
  BY <1>3, <1>5, <1>6, Names DEF OnOK
<1>9. Rank(c) <= Rank(t)
  <2>1. Rank(t) = l /\ l > c.level
    BY <1>2, <1>3, <1>5 DEF Rank
  <2>2. Rank(c) <= c.level
    BY <1>3, <1>4 DEF Rank, ContextOK, IntrOK, TrapContexts
  <2>3. c.level \in 0..7 /\ Rank(c) \in 0..7
    BY <1>4 DEF TrapContexts, Rank
  <2> QED
    BY <1>4, <2>1, <2>2, <2>3
<1>10. stacked' = Append(stacked, t)
  BY <1>2 DEF t
<1>11. StackOK(Append(stacked, t), sup, srCache, cur)
  BY <1>3, <1>5, <1>7, <1>8, <1>9, PushedOn
<1>12. CachesOK'
  BY <1>1, <1>2 DEF CachesOK
<1> QED
  BY <1>2, <1>10, <1>11, <1>12, NoSwitch

\* Only threads, the boot code and interrupts make calls.
LEMMA CallerIsNoTrap ==
    ASSUME NEW c, NEW sup, NEW sr, NEW u, ContextOK(c, sup, sr, u),
           c.todo # <<>>, Head(c.todo) \notin HandlerOps
    PROVE  c.own # "trap"
BY HandlerFacts DEF ContextOK, TrapOK

\* A step of the kernel with no trap in it.
LEMMA StepKernel ==
    ASSUME LevelsInv, ~torn, NEW op, Running.todo # <<>>, op = Head(Running.todo), Kernel(op)
    PROVE  LevelsInv'
<1> DEFINE n == Len(stacked)
           c == stacked[n]
           c2 == Taken(c)
           sup == iplCache.sup
           sr == srCache
<1>1. StackOK(stacked, sup, sr, cur) /\ CachesOK /\ StoredOK
  BY DEF LevelsInv
<1>2. /\ stacked \in Seq(TrapContexts) /\ stacked # <<>> /\ n \in Nat
      /\ Under(stacked, n, sup, sr, cur) /\ ContextOK(c, sup, sr, cur)
      /\ (Needs(c) => ~c.off) /\ Running = c
      /\ (n > 1 => OnOK(stacked[n - 1], c, sup))
  BY <1>1, TopTwo, RunningIs
<1>3. /\ op \in {"active", "idle", "pick"} /\ op = Head(c.todo) /\ c.todo # <<>>
      /\ stacked' = [stacked EXCEPT ![n] = c2]
      /\ cur' = cur \/ cur' \in Threads
      /\ (cur' = cur /\ prev' = prev) \/ (cur' \in Threads /\ prev' = cur)
      /\ UNCHANGED <<contexts, iplCache, srCache, torn>>
  BY <1>2 DEF Kernel, Next_, RunsOn, Taken
<1>4. c.own # "trap"
  BY <1>2, <1>3, CallerIsNoTrap DEF HandlerOps
<1> HIDE DEF c2
<1>5. /\ ContextOK(c2, sup, sr, cur) /\ c2.own = c.own /\ c2.off = c.off /\ Rank(c2) = Rank(c)
      /\ Needs(c2) => Needs(c)
      /\ n > 1 => OnOK(stacked[n - 1], c2, sup)
  <2>1. c2 = Taken(c)
    BY DEF c2
  <2>2. Head(c.todo) \notin {"level", "unmaskSr", "store", "load", "keepSr", "trap1"}
    BY <1>3
  <2> HIDE DEF c
  <2> QED
    BY <1>2, <1>3, <1>4, <2>1, <2>2, StepTaken
<1>6. Under(stacked, n, sup, sr, cur') /\ ContextOK(c2, sup, sr, cur')
  <2>1. CASE cur' = cur
    BY <1>2, <1>5, <2>1
  <2>2. CASE cur' \in Threads
    BY <1>2, <1>5, <2>2, UnderRedirected, Names DEF ContextOK
  <2> QED
    BY <1>3, <2>1, <2>2
<1>7. StackOK([stacked EXCEPT ![n] = c2], sup, sr, cur')
  BY <1>2, <1>5, <1>6, ChangedTop
<1>8. CachesOK' /\ StoredOK'
  BY <1>1, <1>3, Names DEF CachesOK, StoredOK
<1> QED
  BY <1>3, <1>7, <1>8 DEF LevelsInv

LEMMA StepTrap == LevelsInv /\ ~torn /\ TakeTrap => LevelsInv'
<1> SUFFICES ASSUME LevelsInv, ~torn, TakeTrap PROVE LevelsInv'
  OBVIOUS
<1> DEFINE n == Len(stacked)
           c == stacked[n]
           sup == iplCache.sup
           sr == srCache
<1>1. StackOK(stacked, sup, sr, cur) /\ CachesOK
  BY DEF LevelsInv
<1>2. /\ stacked \in Seq(TrapContexts) /\ stacked # <<>> /\ n \in Nat /\ n >= 1
      /\ Under(stacked, n, sup, sr, cur) /\ ContextOK(c, sup, sr, cur)
      /\ (Needs(c) => ~c.off) /\ Running = c /\ (n = 1 <=> c.own \in Users)
      /\ (n > 1 => OnOK(stacked[n - 1], c, sup))
  BY <1>1, TopTwo, RunningIs
<1>3. PICK steps \in IF Running.todo = <<>> /\ n = 1 THEN ThreadCalls ELSE {Running.todo} :
         /\ steps # <<>> /\ Head(steps) \in DOMAIN TrapHandler
         /\ stacked' = Append([stacked EXCEPT ![n].todo = Tail(steps)],
                              TrapContext("trap", TRUE, Running.level,
                                          TrapHandler[Head(steps)]))
  BY DEF TakeTrap
<1>4. UNCHANGED <<contexts, cur, prev, iplCache, srCache, torn>>
  BY DEF TakeTrap
<1> DEFINE op == Head(steps)
           c1 == [c EXCEPT !.todo = steps]
           c2 == Taken(c1)
           t == TrapContext("trap", TRUE, c.level, TrapHandler[op])
<1>5. c \in TrapContexts /\ c.todo \in Seq(Ops)
  BY <1>2 DEF ContextOK, TrapContexts
<1>6. op \in {"trap0", "trap1", "trap2", "trap3", "trap4", "trap5"} /\ steps # <<>>
  BY <1>3 DEF TrapHandler
<1>7. c1 \in TrapContexts /\ c1.todo = steps /\ c1.own = c.own /\ c1.level = c.level
      /\ c1.off = c.off /\ c1.entry = c.entry /\ Rank(c1) = Rank(c)
  <2>1. steps \in Seq(Ops)
    BY <1>2, <1>3, <1>5, CallFacts
  <2> QED
    BY <1>5, <2>1 DEF TrapContexts, Rank
<1>8. /\ ContextOK(c1, sup, sr, cur) /\ (Needs(c1) => ~c1.off)
      /\ (n > 1 => OnOK(stacked[n - 1], c1, sup))
  <2>1. CASE c.todo = <<>> /\ n = 1
    <3>1. UserSteps(steps) /\ ~BeforeSwitch(steps)
      BY <1>2, <1>3, <2>1, CallFacts
    <3>2. c.own \in Users /\ c1.sup = c.sup
      BY <1>2, <1>5, <2>1 DEF TrapContexts
    <3>3. LastOp(c1) # "load"
      BY <1>6, <1>7 DEF LastOp
    <3> HIDE DEF c1
    <3> QED
      BY <1>2, <1>7, <2>1, <3>1, <3>2, <3>3, Names DEF ContextOK, ThreadOK, TrapOK, IntrOK, Needs
  <2>2. CASE ~(c.todo = <<>> /\ n = 1)
    <3>1. steps = c.todo
      BY <1>2, <1>3, <2>2
    <3>2. c1 = c
      BY <1>5, <3>1 DEF TrapContexts
    <3> QED
      BY <1>2, <3>2
  <2> QED
    BY <2>1, <2>2
<1> HIDE DEF c1
<1>9. c1.own # "trap"
  BY <1>6, <1>7, <1>8, CallerIsNoTrap DEF HandlerOps
<1> HIDE DEF c2
<1>10. /\ ContextOK(c2, sup, sr, cur) /\ Tail(steps) \in Seq(Ops)
       /\ c2.own = c1.own /\ c2.level = c1.level /\ c2.off = c1.off /\ c2.entry = c1.entry
       /\ Rank(c2) = Rank(c1)
       /\ Needs(c2) => Needs(c1) \/ op = "trap1"
       /\ c1.own \in Users => op \in CallOps
       /\ c1.own = "intr" => op \in IntrOps
       /\ c1.own = "intr" => LastOp(c2) \notin {"level", "unmaskSr", "check"}
       /\ n > 1 => OnOK(stacked[n - 1], c2, sup)
  <2>1. c2 = Taken(c1)
    BY DEF c2
  <2>2. Head(c1.todo) \notin {"level", "unmaskSr", "store", "load", "keepSr"} /\ c1.todo # <<>>
        /\ Head(c1.todo) = op /\ Tail(c1.todo) = Tail(steps)
    BY <1>6, <1>7
  <2>3. /\ ContextOK(c2, sup, sr, cur) /\ Tail(c1.todo) \in Seq(Ops)
        /\ c2.own = c1.own /\ c2.level = c1.level /\ c2.off = c1.off /\ c2.entry = c1.entry
        /\ Rank(c2) = Rank(c1)
        /\ Needs(c2) => Needs(c1) \/ Head(c1.todo) = "trap1"
        /\ c1.own \in Users => Head(c1.todo) \in CallOps
        /\ c1.own = "intr" => Head(c1.todo) \in IntrOps
        /\ c1.own = "intr" => LastOp(c2) \notin {"level", "unmaskSr", "check"}
        /\ \A b : OnOK(b, c1, sup) => OnOK(b, c2, sup)
    BY <1>8, <1>9, <2>1, <2>2, StepTaken
  <2> HIDE DEF op
  <2> QED
    BY <1>8, <2>2, <2>3
<1>11. /\ c.level \in 0..7 /\ TrapHandler[op] \in HandlerSteps
       /\ op = "trap0" => TrapHandler[op] = <<"store", "load">>
       /\ op = "trap1" => TrapHandler[op] = <<"unmask">>
       /\ op = "trap2" => TrapHandler[op] = <<"keep", "mask">>
       /\ op \in {"trap3", "trap4"} => TrapHandler[op] = <<"console">>
       /\ op = "trap5" => TrapHandler[op] = <<"receive">>
  BY <1>5, <1>6 DEF TrapHandler, HandlerSteps, TrapContexts
<1>12. /\ t \in TrapContexts /\ t.own = "trap" /\ t.sup /\ t.level = c.level /\ ~t.off
       /\ t.todo = TrapHandler[op]
  <2>1. t.todo \in Seq(Ops)
    BY <1>11, HandlerFacts DEF TrapContext
  <2> QED
    BY <1>11, <2>1 DEF TrapContext, TrapContexts
<1> HIDE DEF t
<1>13. OnOK(c2, t, sup)
  <2>1. c2.own \notin {"trap"} /\ c2.own = c.own
    BY <1>7, <1>9, <1>10
  <2>2. t.todo # <<"mask">>
    BY <1>6, <1>11, <1>12, HandlerFacts
  <2>3. c1.own \in Threads /\ Needs(c1) => BeforeSwitch(steps)
    BY <1>7, Names DEF Needs
  <2>4. ASSUME t.todo = <<"keep", "mask">> PROVE ~Needs(c2)
    <3>1. op = "trap2"
      BY <1>6, <1>11, <1>12, <2>4, HandlerFacts
    <3>2. ~BeforeSwitch(steps)
      BY <1>5, <1>7, <3>1, TailIs DEF BeforeSwitch, TrapContexts
    <3>3. LastOp(c1) = "trap2"
      BY <1>6, <1>7, <3>1 DEF LastOp
    <3>4. ~Needs(c1)
      BY <1>7, <3>2, <3>3 DEF Needs
    <3> QED
      BY <1>10, <3>1, <3>4
  <2>5. Needs(c2) => ~c2.off \/ t.todo = <<"unmask">>
    BY <1>8, <1>10, <1>11, <1>12
  <2>6. ASSUME Loads(t.todo)
        PROVE  c2.own \in Users /\ (c2.own \in Threads => c2.level = 0)
    <3>1. op = "trap0"
      BY <1>6, <1>11, <1>12, <2>6, HandlerFacts
    <3>2. c1.own \in Users
      <4>1. c1.own \in Users \cup {"trap", "intr"}
        BY <1>7 DEF TrapContexts
      <4> QED
        BY <1>9, <1>10, <3>1, <4>1 DEF IntrOps
    <3>3. c1.own \in Threads => Needs(c1)
      <4>1. UserSteps(steps)
        BY <1>7, <1>8, <3>2 DEF ContextOK, ThreadOK
      <4> QED
        BY <1>6, <1>7, <3>1, <4>1, UserTail DEF Needs
    <3>4. c1.own \in Threads => c1.level = 0
      BY <1>8, <3>3 DEF ContextOK, ThreadOK
    <3> QED
      BY <1>10, <3>2, <3>4
  <2>7. LastOp(t) # "load"
    BY <1>6, <1>11, <1>12, HandlerFacts DEF LastOp
  <2> QED
    BY <1>10, <1>12, <2>1, <2>2, <2>4, <2>5, <2>6, <2>7, Names DEF OnOK
<1>14. ContextOK(t, sup, sr, cur)
  <2>1. LastOp(t) # "load"
    BY <1>6, <1>11, <1>12, HandlerFacts DEF LastOp
  <2> QED
    BY <1>11, <1>12, <2>1, Names DEF ContextOK, ThreadOK, TrapOK, IntrOK
<1>15. Rank(c2) <= Rank(t)
  <2>1. Rank(c) <= c.level
    BY <1>2, <1>5 DEF Rank, ContextOK, IntrOK, TrapContexts
  <2> QED
    BY <1>7, <1>10, <1>12, <2>1 DEF Rank
<1> DEFINE r == [stacked EXCEPT ![n] = c2]
<1>16. stacked' = Append(r, t)
  <2>1. [stacked EXCEPT ![n].todo = Tail(steps)] = r
    <3>1. c2 = [c EXCEPT !.todo = Tail(steps)]
      BY <1>5 DEF c1, c2, Taken, TrapContexts
    <3> QED
      BY <1>2, <3>1
  <2> QED
    BY <1>2, <1>3, <2>1 DEF t
<1> HIDE DEF r
<1>17. r \in Seq(TrapContexts) /\ r # <<>> /\ Len(r) = n /\ r[n] = c2
       /\ Under(r, n, sup, sr, cur)
  BY <1>2, <1>7, <1>10, ChangedTop DEF r
<1>18. StackOK(Append(r, t), sup, sr, cur)
  BY <1>12, <1>13, <1>14, <1>15, <1>17, PushedOn
<1>19. CachesOK'
  BY <1>1, <1>4 DEF CachesOK
<1> QED
  BY <1>4, <1>16, <1>18, <1>19, NoSwitch

LEMMA StepConsole ==
    ASSUME LevelsInv, ~torn, NEW op, Running.todo # <<>>, op = Head(Running.todo),
           TrapConsole(op)
    PROVE  LevelsInv'
<1> DEFINE n == Len(stacked)
           c == stacked[n]
           c2 == Taken(c)
           sup == iplCache.sup
           sr == srCache
<1>1. StackOK(stacked, sup, sr, cur) /\ CachesOK /\ StoredOK
  BY DEF LevelsInv
<1>2. /\ stacked \in Seq(TrapContexts) /\ stacked # <<>> /\ n \in Nat
      /\ Under(stacked, n, sup, sr, cur) /\ ContextOK(c, sup, sr, cur)
      /\ Running = c
      /\ (n > 1 => OnOK(stacked[n - 1], c, sup))
  BY <1>1, TopTwo, RunningIs
<1>3. CASE op = "receive"
  <2>1. TrapStart'
    BY <1>3 DEF TrapConsole, TrapStart, BootFrames, FreshContexts
  <2>2. TrapStart' => LevelsInv'
    BY LevelsInit, PTL
  <2> QED
    BY <2>1, <2>2
<1>4. CASE op = "console"
  <2>1. /\ stacked' = [stacked EXCEPT ![n] = c2] /\ c.todo # <<>> /\ Head(c.todo) = "console"
        /\ UNCHANGED <<contexts, cur, prev, iplCache, srCache, torn>>
    BY <1>2, <1>4 DEF TrapConsole, Next_, RunsOn, Taken
  <2>2. c.own = "trap"
    <3>1. c.own \in Users => Head(c.todo) \in CallOps
      BY <1>2, <2>1, UserTail DEF ContextOK, ThreadOK
    <3>2. c.own = "intr" => Head(c.todo) \in IntrOps
      BY <1>2, <2>1, IntrTail DEF ContextOK, IntrOK
    <3>3. c.own \in Users \cup {"trap", "intr"}
      BY <1>2 DEF ContextOK, TrapContexts
    <3> QED
      BY <2>1, <3>1, <3>2, <3>3 DEF CallOps, IntrOps
  <2>3. c.todo \in HandlerSteps /\ c.todo = <<"console">> /\ c.sup /\ c \in TrapContexts
    <3>1. c.todo \in HandlerSteps /\ c.sup /\ c \in TrapContexts
      BY <1>2, <2>2 DEF ContextOK, TrapOK
    <3>2. Head(<<"receive">>) = "receive"
      OBVIOUS
    <3> QED
      BY <2>1, <3>1, <3>2, HandlerFacts DEF HandlerSteps
  <2> HIDE DEF c2
  <2>4. /\ c2.todo = <<>> /\ c2.own = "trap" /\ c2 \in TrapContexts /\ c2.sup
        /\ c2.level = c.level
    <3>1. Tail(c.todo) = <<>> /\ <<>> \in Seq(Ops)
      BY <2>3, HandlerFacts
    <3> QED
      BY <2>2, <2>3, <3>1 DEF c2, Taken, TrapContexts
  <2>5. ContextOK(c2, sup, sr, cur) /\ ~Needs(c2) /\ Rank(c2) = Rank(c)
    BY <2>2, <2>4, Names DEF ContextOK, ThreadOK, TrapOK, IntrOK, Needs, Rank, LastOp, HandlerSteps
  <2>6. n > 1 => OnOK(stacked[n - 1], c2, sup)
    <3>1. ~Loads(<<>>) /\ LastOp(c2) = ""
      BY <2>4, IntrFacts DEF LastOp
    <3>2. c.todo # <<"unmask">>
      BY <2>1, HandlerFacts, <2>3
    <3> QED
      BY <1>2, <2>2, <2>3, <2>4, <3>1, <3>2, HandlerFacts DEF OnOK
  <2>7. StackOK([stacked EXCEPT ![n] = c2], sup, sr, cur)
    BY <1>2, <2>2, <2>4, <2>5, <2>6, ChangedTop
  <2>8. CachesOK'
    BY <1>1, <2>1 DEF CachesOK
  <2> QED
    BY <2>1, <2>7, <2>8, NoSwitch
<1> QED
  BY <1>3, <1>4 DEF TrapConsole

LEMMA StepSetLevel ==
    ASSUME LevelsInv, ~torn, NEW op, Running.todo # <<>>, op = Head(Running.todo), SetLevel(op)
    PROVE  LevelsInv'
<1> DEFINE n == Len(stacked)
           c == stacked[n]
           s == c.todo
           r == Tail(s)
           sup == iplCache.sup
           sr == srCache
<1>1. StackOK(stacked, sup, sr, cur) /\ CachesOK
  BY DEF LevelsInv
<1>2. /\ stacked \in Seq(TrapContexts) /\ stacked # <<>> /\ n \in Nat
      /\ Under(stacked, n, sup, sr, cur) /\ ContextOK(c, sup, sr, cur)
      /\ (Needs(c) => ~c.off) /\ Running = c
      /\ (n > 1 => OnOK(stacked[n - 1], c, sup))
  BY <1>1, TopTwo, RunningIs
<1>3. /\ op = Head(s) /\ s # <<>>
      /\ \/ /\ op = "level" /\ srCache' = srCache
            /\ stacked' = [stacked EXCEPT ![n] = Taken([c EXCEPT !.level = PitLevel])]
         \/ /\ op = "keepSr" /\ srCache' = c.level
            /\ stacked' = [stacked EXCEPT ![n] = Taken(c)]
         \/ /\ op = "unmaskSr" /\ srCache' = srCache
            /\ stacked' = [stacked EXCEPT ![n] = Taken([c EXCEPT !.level = srCache])]
      /\ UNCHANGED <<contexts, cur, prev, iplCache, torn>>
  BY <1>2 DEF SetLevel, Next_, RunsOn, Taken
<1>4. op \in {"level", "keepSr", "unmaskSr"}
  BY <1>3
<1>5. c.own = "intr"
  <2>1. c.own \in Users => op \in CallOps
    BY <1>2, <1>3, UserTail DEF ContextOK, ThreadOK
  <2>2. c.own # "trap"
    BY <1>2, <1>3, <1>4, CallerIsNoTrap DEF HandlerOps
  <2>3. c.own \in Users \cup {"trap", "intr"}
    BY <1>2 DEF ContextOK, TrapContexts
  <2> QED
    BY <1>4, <2>1, <2>2, <2>3 DEF CallOps
<1>6. /\ c \in TrapContexts /\ c.sup /\ IntrSteps(s) /\ c.entry \in 1..6 /\ c.level >= c.entry
      /\ c.off => c.level = 7 /\ c.entry <= sup
      /\ c.level = 7 => c.off \/ op \in {"level", "unmaskSr"}
      /\ op = "level" => c.entry = PitLevel /\ ~c.off
      /\ op \in {"check", "unmaskSr"} => c.entry <= sr
  BY <1>2, <1>3, <1>5 DEF ContextOK, IntrOK, LastOp
<1>7. op \in {"keepSr", "unmaskSr"} => ~c.off
  BY <1>2, <1>3, <1>5 DEF Needs, LastOp
<1> DEFINE lev == IF op = "level" THEN PitLevel ELSE IF op = "keepSr" THEN c.level ELSE srCache
<1>8. ~c.off
  BY <1>4, <1>6, <1>7
<1>9. /\ lev \in 1..6 /\ lev >= c.entry /\ srCache \in 0..7 /\ srCache' \in 0..6
      /\ srCache' = sr \/ c.entry <= srCache'
      /\ op = "keepSr" => srCache' = c.level /\ c.entry <= srCache'
  <2>1. c.level \in 0..7 /\ srCache \in 0..6
    BY <1>1, <1>6 DEF TrapContexts, CachesOK
  <2>2. CASE op = "level"
    BY <1>3, <1>6, <2>1, <2>2
  <2>3. CASE op = "keepSr"
    BY <1>3, <1>6, <1>8, <2>1, <2>3
  <2>4. CASE op = "unmaskSr"
    BY <1>3, <1>6, <2>1, <2>4
  <2> QED
    BY <1>4, <2>2, <2>3, <2>4
<1> DEFINE c2 == [c EXCEPT !.level = lev, !.todo = r]
<1>10. stacked' = [stacked EXCEPT ![n] = c2]
  <2>1. CASE op = "level"
    BY <1>3, <2>1 DEF Taken
  <2>2. CASE op = "unmaskSr"
    BY <1>3, <2>2 DEF Taken
  <2>3. CASE op = "keepSr"
    <3>1. Taken(c) = c2
      BY <1>6, <2>3 DEF Taken, TrapContexts
    <3> QED
      BY <1>3, <2>3, <3>1
  <2> QED
    BY <1>4, <2>1, <2>2, <2>3
<1> HIDE DEF lev
<1>11. /\ IntrSteps(r) /\ (Loads(r) => Loads(s)) /\ r \in Seq(Ops)
       /\ (r # <<>> => /\ Head(r) \notin {"level", "unmaskSr"}
                       /\ Head(r) = "keepSr" => op = "trap1"
                       /\ Head(r) = "check" => op = "keepSr"
                       /\ Head(r) = "load" => op = "store")
  <2>1. s \in Seq(Ops)
    BY <1>6 DEF TrapContexts
  <2> QED
    BY <1>3, <1>6, <2>1, IntrTail, TailIs
<1>12. /\ c2 \in TrapContexts /\ c2.own = "intr" /\ c2.sup /\ c2.entry = c.entry /\ c2.level = lev
       /\ ~c2.off /\ c2.todo = r /\ Rank(c2) = c.entry /\ Rank(c) = c.entry
  <2>1. lev \in 0..7 /\ c \in TrapContexts /\ r \in Seq(Ops)
    BY <1>6, <1>9, <1>11
  <2> HIDE DEF r, s
  <2>2. /\ c2 \in TrapContexts /\ c2.own = c.own /\ c2.sup = c.sup /\ c2.entry = c.entry
        /\ c2.level = lev /\ c2.off = c.off /\ c2.todo = r
    BY <2>1 DEF TrapContexts
  <2> QED
    BY <1>5, <1>6, <1>8, <2>2 DEF Rank
<1> HIDE DEF c2, r, s
<1>13. LastOp(c2) \notin {"level", "unmaskSr", "load"} /\ (LastOp(c2) = "check" => op = "keepSr")
  BY <1>4, <1>11, <1>12 DEF LastOp
<1>14. Under(stacked, n, sup, srCache', cur)
  <2>1. sup \in 0..7
    BY <1>1 DEF CachesOK
  <2>2. (srCache' = sr \/ Rank(c) <= srCache') /\ srCache' \in 0..7 /\ sr \in 0..7
    BY <1>9, <1>12
  <2> QED
    BY <1>2, <1>9, <2>1, <2>2, UnderRaised
<1>15. ContextOK(c2, sup, srCache', cur)
  BY <1>6, <1>9, <1>11, <1>12, <1>13, Names DEF ContextOK, ThreadOK, TrapOK, IntrOK
<1>16. n > 1 => OnOK(stacked[n - 1], c2, sup)
  BY <1>2, <1>5, <1>11, <1>12, <1>13 DEF OnOK, s
<1>17. StackOK([stacked EXCEPT ![n] = c2], sup, srCache', cur)
  BY <1>2, <1>5, <1>12, <1>14, <1>15, <1>16, ChangedTop
<1>18. CachesOK'
  BY <1>1, <1>3, <1>9 DEF CachesOK
<1> QED
  BY <1>3, <1>10, <1>17, <1>18, NoSwitch

LEMMA HandlerIs ==
    ASSUME NEW s, NEW sup, NEW sr, NEW u, NEW n, n = Len(s), NEW c, c = s[n],
           StackOK(s, sup, sr, u), c.todo # <<>>, Head(c.todo) \notin CallOps
    PROVE  /\ n > 1 /\ c.own \in {"trap", "intr"}
           /\ c.own = "trap" => c.todo \in HandlerSteps /\ Head(c.todo) \in HandlerOps
           /\ c.own = "intr" => IntrSteps(c.todo) /\ Head(c.todo) \in IntrOps
<1>1. n \in Nat /\ n >= 1 /\ ContextOK(c, sup, sr, u) /\ (n = 1 <=> c.own \in Users)
  BY TopTwo
<1>2. c.own \in Users => Head(c.todo) \in CallOps
  BY <1>1, UserTail DEF ContextOK, ThreadOK
<1>3. c.own \in Users \cup {"trap", "intr"}
  BY <1>1 DEF ContextOK, TrapContexts
<1>4. c.own = "trap" => c.todo \in HandlerSteps /\ Head(c.todo) \in HandlerOps
  BY <1>1, HandlerFacts DEF ContextOK, TrapOK
<1>5. c.own = "intr" => IntrSteps(c.todo) /\ Head(c.todo) \in IntrOps
  BY <1>1, IntrTail DEF ContextOK, IntrOK
<1> QED
  BY <1>1, <1>2, <1>3, <1>4, <1>5

\* A handler changes the level or the off flag of the context below its own.
LEMMA BelowRewritten ==
    ASSUME NEW s \in Seq(TrapContexts), NEW to \in Seq(Ops), NEW b2, NEW c2,
           NEW sup, NEW sr, NEW u, NEW n, n = Len(s), n > 1,
           Under(s, n - 1, sup, sr, u),
           b2.own = s[n - 1].own, b2.todo = s[n - 1].todo, Rank(b2) = Rank(s[n - 1]),
           c2 = [s[n] EXCEPT !.todo = to],
           ContextOK(b2, sup, sr, u), ContextOK(c2, sup, sr, u), OnOK(b2, c2, sup),
           Rank(b2) <= Rank(c2), Needs(c2) => ~c2.off
    PROVE  StackOK([s EXCEPT ![Len(s)].todo = to, ![Len(s) - 1] = b2], sup, sr, u)
<1> DEFINE k == n - 1
<1>1. n \in Nat /\ k \in Nat \ {0} /\ n - 2 \in 0..k /\ k \in 1..k /\ k \in Nat
      /\ (k = 1 <=> n = 2) /\ (n > 2 => k > 1) /\ k - 1 = n - 2
  OBVIOUS
<1>2. Under(s, n - 2, sup, sr, u)
  <2> HIDE DEF k
  <2>1. Under(s, k, sup, sr, u)
    BY DEF k
  <2> QED
    BY <1>1, <2>1, UnderLess
<1>3. /\ s[k].own \in Users <=> k = 1
      /\ k > 1 => OnOK(s[k - 1], s[k], sup)
  BY <1>1, BottomOne
<1>4. n = 2 => b2.own \in Users
  BY <1>1, <1>3
<1>5. ASSUME n > 2 PROVE OnOK(s[n - 2], b2, sup) /\ Rank(s[n - 2]) <= Rank(b2)
  <2>1. OnOK(s[n - 2], s[k], sup)
    BY <1>1, <1>3, <1>5
  <2>2. OnOK(s[n - 2], b2, sup)
    BY <2>1 DEF OnOK, LastOp
  <2>3. n - 2 \in 1..k /\ n - 2 < k
    BY <1>1, <1>5
  <2>4. Rank(s[n - 2]) <= Rank(s[k])
    BY <1>1, <2>3 DEF Under
  <2> QED
    BY <2>2, <2>4
<1> HIDE DEF k
<1> QED
  BY <1>2, <1>4, <1>5, ChangedBelow

LEMMA StepTrapEnable ==
    ASSUME LevelsInv, ~torn, NEW op, Running.todo # <<>>, op = Head(Running.todo),
           TrapEnable(op)
    PROVE  LevelsInv'
<1> DEFINE n == Len(stacked)
           c == stacked[n]
           b == stacked[n - 1]
           sup == iplCache.sup
           sr == srCache
           l == IF b.level = 7 THEN iplCache[Mode(b)] ELSE b.level
           b2 == [b EXCEPT !.level = l, !.off = FALSE]
           c2 == [c EXCEPT !.todo = <<>>]
<1>1. StackOK(stacked, sup, sr, cur) /\ CachesOK
  BY DEF LevelsInv
<1>2. stacked \in Seq(TrapContexts) /\ Running = c /\ Below = b
  BY <1>1, TopTwo, RunningIs
<1>3. /\ c.todo # <<>> /\ Head(c.todo) = "unmask"
      /\ stacked' = [stacked EXCEPT ![Len(stacked)].todo = <<>>, ![Len(stacked) - 1] = b2]
      /\ UNCHANGED <<contexts, cur, prev, iplCache, srCache, torn>>
  BY <1>2 DEF TrapEnable, With
<1>4. n > 1 /\ c.own = "trap" /\ c.todo = <<"unmask">>
  <2>1. "unmask" \notin CallOps /\ "unmask" \notin IntrOps
    BY DEF CallOps, IntrOps
  <2>2. /\ n > 1 /\ c.own \in {"trap", "intr"}
        /\ c.own = "trap" => c.todo \in HandlerSteps
        /\ c.own = "intr" => Head(c.todo) \in IntrOps
    BY <1>1, <1>3, <2>1, HandlerIs
  <2> QED
    BY <1>3, <2>1, <2>2, HandlerFacts
<1>5. /\ ContextOK(c, sup, sr, cur) /\ ContextOK(b, sup, sr, cur) /\ OnOK(b, c, sup)
      /\ Rank(b) <= Rank(c) /\ Under(stacked, n - 1, sup, sr, cur)
  BY <1>1, <1>4, TopTwo
<1> HIDE DEF c, b
<1>6. c \in TrapContexts /\ b \in TrapContexts /\ b.own # "trap" /\ b.own \in Users \cup {"intr"}
  BY <1>4, <1>5 DEF ContextOK, OnOK, TrapContexts
<1>7. b.sup => Mode(b) = "sup"
  BY DEF Mode
<1>8. ~b.sup => Mode(b) = "usr"
  BY DEF Mode
<1>9. /\ l \in 0..6
      /\ b.own \in Threads => l = 0
      /\ b.own = "intr" => l >= b.entry
  <2>1. iplCache[Mode(b)] \in 0..6 /\ b.level \in 0..7
    BY <1>1, <1>6 DEF CachesOK, Mode, TrapContexts
  <2>2. l \in 0..6
    BY <2>1
  <2>3. b.own \in Threads => l = 0
    BY <1>1, <1>5, <1>8 DEF ContextOK, ThreadOK, CachesOK
  <2>4. ASSUME b.own = "intr" PROVE l >= b.entry
    <3>1. /\ b.sup /\ b.level >= b.entry /\ (b.off => b.entry <= sup)
          /\ b.level = 7 => b.off
      BY <1>4, <1>5, <2>4 DEF ContextOK, IntrOK, OnOK
    <3>2. b.entry \in 0..7 /\ sup \in 0..6
      BY <1>1, <1>6 DEF TrapContexts, CachesOK
    <3> QED
      BY <1>7, <3>1, <3>2
  <2> QED
    BY <2>2, <2>3, <2>4
<1> HIDE DEF l
<1>10. /\ b2 \in TrapContexts /\ b2.own = b.own /\ b2.sup = b.sup /\ b2.entry = b.entry
       /\ b2.level = l /\ ~b2.off /\ b2.todo = b.todo
  <2>1. l \in 0..7
    BY <1>9
  <2> QED
    BY <1>6, <2>1 DEF TrapContexts
<1>11. /\ c2 \in TrapContexts /\ c2.own = "trap" /\ c2.sup = c.sup /\ c2.level = c.level
       /\ c2.todo = <<>> /\ <<>> \in Seq(Ops)
  <2>1. <<>> \in Seq(Ops)
    OBVIOUS
  <2> QED
    BY <1>4, <1>6, <2>1 DEF TrapContexts
<1> HIDE DEF b2, c2
<1>12. Rank(b2) = Rank(b) /\ Rank(c2) = Rank(c) /\ LastOp(b2) = LastOp(b) /\ LastOp(c2) = ""
       /\ ~Loads(<<>>)
  BY <1>4, <1>6, <1>10, <1>11, IntrFacts DEF Rank, LastOp
<1>13. ContextOK(b2, sup, sr, cur)
  <2>1. IntrOK(b2, sup, sr)
    <3> SUFFICES ASSUME b.own = "intr" PROVE IntrOK(b2, sup, sr)
      BY <1>10 DEF IntrOK
    <3>1. /\ b.sup /\ IntrSteps(b.todo) /\ b.entry \in 1..6
          /\ LastOp(b) \notin {"level", "unmaskSr", "check"}
      BY <1>4, <1>5 DEF ContextOK, IntrOK, OnOK
    <3>2. l >= b.entry /\ l # 7
      BY <1>9
    <3>3. /\ b2.sup /\ IntrSteps(b2.todo) /\ b2.entry \in 1..6 /\ b2.level >= b2.entry
          /\ LastOp(b2) \notin {"level", "unmaskSr", "check"} /\ b2.level # 7
      BY <1>10, <1>12, <3>1, <3>2
    <3> QED
      BY <1>10, <3>3 DEF IntrOK
  <2>2. ThreadOK(b2)
    BY <1>5, <1>9, <1>10 DEF ContextOK, ThreadOK
  <2> QED
    BY <1>5, <1>6, <1>10, <1>12, <2>1, <2>2 DEF ContextOK, TrapOK
<1>14. ContextOK(c2, sup, sr, cur) /\ ~Needs(c2)
  BY <1>4, <1>5, <1>11, <1>12, Names DEF ContextOK, ThreadOK, TrapOK, IntrOK, Needs, HandlerSteps
<1>15. OnOK(b2, c2, sup)
  BY <1>4, <1>5, <1>6, <1>10, <1>11, <1>12, HandlerFacts, Names DEF OnOK
<1>16. StackOK([stacked EXCEPT ![Len(stacked)].todo = <<>>, ![Len(stacked) - 1] = b2], sup, sr, cur)
  BY <1>2, <1>4, <1>5, <1>10, <1>11, <1>12, <1>13, <1>14, <1>15, BelowRewritten DEF b, c, c2
<1>17. CachesOK'
  BY <1>1, <1>3 DEF CachesOK
<1> QED
  BY <1>3, <1>16, <1>17, NoSwitch

\* A handler or an interrupt that is done.
Done(c) == [c EXCEPT !.todo = <<>>]

LEMMA DoneIs ==
    ASSUME NEW c, NEW sup, NEW sr, NEW u, ContextOK(c, sup, sr, u),
           c.own \in {"trap", "intr"}, c.todo # <<>>, Head(c.todo) \notin {"level", "unmaskSr"}
    PROVE  /\ ContextOK(Done(c), sup, sr, u) /\ ~Needs(Done(c)) /\ Rank(Done(c)) = Rank(c)
           /\ Done(c).own = c.own
           /\ \A b : /\ OnOK(b, c, sup)
                     /\ c.own = "trap" => c.todo # <<"unmask">>
                     => OnOK(b, Done(c), sup)
           /\ \A b : /\ b.own \in Threads /\ ~b.off => OnOK(b, Done(c), sup)
<1> DEFINE d == Done(c)
<1>1. c \in TrapContexts /\ ThreadOK(c) /\ TrapOK(c) /\ IntrOK(c, sup, sr) /\ <<>> \in Seq(Ops)
  BY DEF ContextOK
<1>2. /\ d \in TrapContexts /\ d.own = c.own /\ d.sup = c.sup /\ d.entry = c.entry
      /\ d.level = c.level /\ d.off = c.off /\ d.todo = <<>>
  BY <1>1 DEF Done, TrapContexts
<1>3. LastOp(d) = "" /\ LastOp(c) = Head(c.todo) /\ ~Loads(<<>>) /\ IntrSteps(<<>>)
  BY <1>2, IntrFacts DEF LastOp
<1> HIDE DEF d
<1>4. ContextOK(d, sup, sr, u)
  BY <1>1, <1>2, <1>3, Names DEF ContextOK, ThreadOK, TrapOK, IntrOK, HandlerSteps
<1>5. ~Needs(d) /\ Rank(d) = Rank(c)
  BY <1>2, <1>3, Names DEF Needs, Rank
<1>6. \A b : /\ OnOK(b, c, sup)
             /\ c.own = "trap" => c.todo # <<"unmask">>
             => OnOK(b, d, sup)
  BY <1>2, <1>3, HandlerFacts DEF OnOK
<1>7. \A b : b.own \in Threads /\ ~b.off => OnOK(b, d, sup)
  BY <1>2, <1>3, HandlerFacts, Names DEF OnOK
<1> QED
  BY <1>2, <1>4, <1>5, <1>6, <1>7 DEF d

LEMMA StepTrapDisable ==
    ASSUME LevelsInv, ~torn, NEW op, Running.todo # <<>>, op = Head(Running.todo),
           TrapDisable(op)
    PROVE  LevelsInv'
<1> DEFINE n == Len(stacked)
           c == stacked[n]
           b == stacked[n - 1]
           sup == iplCache.sup
           sr == srCache
<1>1. StackOK(stacked, sup, sr, cur) /\ CachesOK
  BY DEF LevelsInv
<1>2. stacked \in Seq(TrapContexts) /\ Running = c /\ Below = b /\ n \in Nat
  BY <1>1, TopTwo, RunningIs
<1>3. /\ c.todo # <<>> /\ op = Head(c.todo) /\ op \in {"keep", "mask"}
      /\ UNCHANGED <<contexts, cur, prev, srCache, torn>>
  BY <1>2 DEF TrapDisable
<1>4. n > 1 /\ c.own = "trap" /\ c.todo = IF op = "keep" THEN <<"keep", "mask">> ELSE <<"mask">>
  <2>1. op \notin CallOps /\ op \notin IntrOps
    BY <1>3 DEF CallOps, IntrOps
  <2>2. /\ n > 1 /\ c.own \in {"trap", "intr"}
        /\ c.own = "trap" => c.todo \in HandlerSteps
        /\ c.own = "intr" => Head(c.todo) \in IntrOps
    BY <1>1, <1>3, <2>1, HandlerIs
  <2> QED
    BY <1>3, <2>1, <2>2, HandlerFacts
<1>5. /\ ContextOK(c, sup, sr, cur) /\ ContextOK(b, sup, sr, cur) /\ OnOK(b, c, sup)
      /\ Rank(b) <= Rank(c) /\ Under(stacked, n - 1, sup, sr, cur)
  BY <1>1, <1>4, TopTwo
<1>6. c \in TrapContexts /\ b \in TrapContexts /\ b.own \in Users \cup {"intr"}
  BY <1>4, <1>5 DEF ContextOK, OnOK, TrapContexts
<1>7. /\ ~Needs(b) /\ (b.own = "intr" => LastOp(b) \notin {"level", "unmaskSr", "check"})
      /\ op = "mask" /\ b.own = "intr" => b.entry <= sup
  BY <1>3, <1>4, <1>5, HandlerFacts DEF OnOK
<1>8. sup \in 0..6 /\ sr \in 0..6
  BY <1>1 DEF CachesOK
<1>9. CASE (op = "keep" /\ b.level = 7) \/ op = "mask"
  <2> DEFINE b2 == [b EXCEPT !.level = 7, !.off = TRUE]
  <2>1. /\ stacked' = [stacked EXCEPT ![Len(stacked)].todo = <<>>, ![Len(stacked) - 1] = b2]
        /\ iplCache' = iplCache
    <3>1. b.level = 7 => b2 = [b EXCEPT !.off = TRUE]
      BY <1>6 DEF TrapContexts
    <3> QED
      BY <1>2, <1>3, <1>9, <3>1 DEF TrapDisable, With
  <2> HIDE DEF c, b
  <2>2. b.own = "intr" => b.entry <= sup
    BY <1>5, <1>7, <1>9 DEF ContextOK, IntrOK
  <2>3. /\ b2 \in TrapContexts /\ b2.own = b.own /\ b2.sup = b.sup /\ b2.entry = b.entry
        /\ b2.level = 7 /\ b2.off = TRUE /\ b2.todo = b.todo
    <3>1. 7 \in 0..7 /\ TRUE \in BOOLEAN /\ b \in TrapContexts
      BY <1>6
    <3> QED
      BY ONLY <3>1 DEF TrapContexts
  <2> HIDE DEF b2
  <2>4. Rank(b2) = Rank(b) /\ LastOp(b2) = LastOp(b) /\ ~Needs(b2)
    BY <1>6, <1>7, <2>3, Names DEF Rank, LastOp, Needs
  <2>5. ContextOK(b2, sup, sr, cur)
    <3>1. IntrOK(b2, sup, sr)
      <4> SUFFICES ASSUME b.own = "intr" PROVE IntrOK(b2, sup, sr)
        BY <2>3 DEF IntrOK
      <4>1. b.sup /\ IntrSteps(b.todo) /\ b.entry \in 1..6
        BY <1>5 DEF ContextOK, IntrOK
      <4> QED
        BY <1>7, <2>2, <2>3, <2>4, <4>1 DEF IntrOK
    <3>2. ThreadOK(b2)
      BY <1>5, <2>3 DEF ContextOK, ThreadOK
    <3> QED
      BY <1>5, <1>6, <2>3, <2>4, <3>1, <3>2, Names DEF ContextOK, TrapOK
  <2>6. /\ ContextOK(Done(c), sup, sr, cur) /\ ~Needs(Done(c)) /\ Rank(Done(c)) = Rank(c)
        /\ OnOK(b, Done(c), sup)
    <3>1. Head(c.todo) \notin {"level", "unmaskSr"} /\ c.todo # <<"unmask">>
      BY <1>3, <1>4, HandlerFacts
    <3> QED
      BY <1>3, <1>4, <1>5, <3>1, DoneIs
  <2>7. OnOK(b2, Done(c), sup)
    <3>1. Done(c).todo = <<>> /\ LastOp(Done(c)) = "" /\ ~Loads(<<>>) /\ Done(c).own = "trap"
      BY <1>4, <1>6, IntrFacts DEF Done, TrapContexts, LastOp
    <3> QED
      BY <1>6, <1>7, <2>3, <2>4, <3>1, HandlerFacts, Names DEF OnOK
  <2>8. StackOK([stacked EXCEPT ![Len(stacked)].todo = <<>>, ![Len(stacked) - 1] = b2],
                sup, sr, cur)
    <3>1. Done(c) = [stacked[n] EXCEPT !.todo = <<>>] /\ <<>> \in Seq(Ops)
      BY DEF Done, c
    <3>2. Under(stacked, n - 1, sup, sr, cur) /\ b2.own = stacked[n - 1].own
          /\ b2.todo = stacked[n - 1].todo /\ Rank(b2) = Rank(stacked[n - 1])
      BY <1>5, <2>3, <2>4 DEF b
    <3>3. Rank(b2) <= Rank(Done(c))
      BY <1>5, <2>4, <2>6
    <3> QED
      BY <1>2, <1>4, <2>5, <2>6, <2>7, <3>1, <3>2, <3>3, BelowRewritten
  <2>9. CachesOK'
    BY <1>1, <1>3, <2>1 DEF CachesOK
  <2> QED
    BY <1>3, <2>1, <2>8, <2>9, NoSwitch
<1>10. CASE op = "keep" /\ b.level # 7
  <2> DEFINE c2 == Taken(c)
             sup2 == iplCache'.sup
  <2>1. /\ stacked' = [stacked EXCEPT ![n] = c2]
        /\ iplCache' = [iplCache EXCEPT ![Mode(b)] = b.level]
    BY <1>2, <1>10 DEF TrapDisable, Next_, RunsOn, Taken
  <2> HIDE DEF c, b
  <2>2. /\ CachesOK'
        /\ b.own \in Threads => sup2 = sup
        /\ b.own \notin Threads => sup2 = b.level
    <3>1. iplCache \in [{"sup", "usr"} -> 0..6] /\ iplCache.usr = 0
      BY <1>1 DEF CachesOK
    <3>2. b.level \in 0..6
      BY <1>6, <1>10 DEF TrapContexts
    <3>3. ASSUME b.own \in Threads PROVE CachesOK' /\ sup2 = sup
      <4>1. Mode(b) = "usr" /\ b.level = 0
        BY <1>5, <1>10, <3>3 DEF Mode, ContextOK, ThreadOK
      <4> QED
        BY <1>1, <1>3, <2>1, <3>1, <3>2, <4>1 DEF CachesOK
    <3>4. ASSUME b.own \notin Threads PROVE CachesOK' /\ sup2 = b.level
      <4>1. Mode(b) = "sup"
        BY <1>5, <1>6, <3>4, Names DEF Mode, ContextOK, ThreadOK, IntrOK
      <4> QED
        BY <1>1, <1>3, <2>1, <3>1, <3>2, <4>1 DEF CachesOK
    <3> QED
      BY <3>3, <3>4
  <2>3. sup2 \in 0..6
    BY <2>2 DEF CachesOK
  <2> HIDE DEF sup2
  <2>4. b.own \notin Threads => Rank(b) <= sup2 /\ (b.own = "intr" => b.entry <= sup2)
    <3>1. b.own = "intr" => b.level >= b.entry
      BY <1>5 DEF ContextOK, IntrOK
    <3>2. b.level \in 0..7 /\ b.entry \in 0..7
      BY <1>6 DEF TrapContexts
    <3> QED
      BY <1>6, <2>2, <3>1, <3>2, Names DEF Rank
  <2>5. Under(stacked, n - 1, sup2, sr, cur)
    <3> DEFINE k == n - 1
    <3>1. k \in Nat /\ Under(stacked, k, sup, sr, cur) /\ sup \in 0..7 /\ sup2 \in 0..7
          /\ sr \in 0..7
          /\ (sup2 = sup \/ Rank(stacked[k]) <= sup2)
      BY <1>2, <1>4, <1>5, <1>8, <2>2, <2>3, <2>4 DEF b
    <3> HIDE DEF k, sup, sr
    <3>2. Under(stacked, k, sup2, sr, cur)
      BY <3>1, UnderRaised
    <3> QED
      BY <3>2 DEF k
  <2>6. ContextOK(b, sup2, sr, cur)
    <3>1. n - 1 \in 1..(n - 1)
      BY <1>2, <1>4
    <3> QED
      BY <2>5, <3>1 DEF Under, b
  <2>7. /\ c2 \in TrapContexts /\ c2.own = "trap" /\ c2.sup = c.sup /\ c2.level = c.level
        /\ c2.todo = <<"mask">> /\ c2 = [c EXCEPT !.todo = <<"mask">>] /\ <<"mask">> \in Seq(Ops)
    <3>1. Tail(c.todo) = <<"mask">> /\ <<"mask">> \in Seq(Ops)
      BY <1>4, <1>10, HandlerFacts DEF HandlerSteps
    <3> QED
      BY <1>4, <1>6, <3>1 DEF Taken, TrapContexts
  <2> HIDE DEF c2
  <2>8. LastOp(c2) = "mask" /\ ~Loads(<<"mask">>) /\ Rank(c2) = Rank(c)
    <3>1. <<"mask">> \in HandlerSteps
      BY DEF HandlerSteps
    <3> QED
      BY <1>4, <2>7, <3>1, HandlerFacts DEF LastOp, Rank
  <2>9. ContextOK(c2, sup2, sr, cur) /\ ~Needs(c2)
    BY <1>4, <1>5, <2>7, <2>8, Names
       DEF ContextOK, ThreadOK, TrapOK, IntrOK, Needs, HandlerSteps
  <2>10. OnOK(b, c2, sup2)
    BY <1>6, <1>7, <2>4, <2>7, <2>8, HandlerFacts, Names DEF OnOK
  <2>11. StackOK([stacked EXCEPT ![Len(stacked)].todo = <<"mask">>, ![Len(stacked) - 1] = b],
                 sup2, sr, cur)
    <3>1. c2 = [stacked[n] EXCEPT !.todo = <<"mask">>] /\ b = stacked[n - 1]
      BY <2>7 DEF c, b
    <3>2. Rank(b) <= Rank(c2)
      BY <1>5, <2>8
    <3> QED
      BY <1>2, <1>4, <2>5, <2>6, <2>7, <2>9, <2>10, <3>1, <3>2, BelowRewritten
  <2>12. [stacked EXCEPT ![Len(stacked)].todo = <<"mask">>, ![Len(stacked) - 1] = b]
           = [stacked EXCEPT ![n] = c2]
    <3>1. n - 1 # n /\ c2 = [stacked[n] EXCEPT !.todo = <<"mask">>] /\ b = stacked[n - 1]
      BY <1>2, <2>7 DEF c, b
    <3> QED
      BY <1>2, <3>1
  <2> QED
    BY <1>3, <2>1, <2>2, <2>11, <2>12, NoSwitch DEF sup2
<1> QED
  BY <1>3, <1>9, <1>10

\* A handler ends and leaves the context below as it was.
LEMMA HandlerEnds ==
    ASSUME LevelsInv, ~torn, NEW n, n = Len(stacked), n > 1, NEW c, c = stacked[n],
           c.own \in {"trap", "intr"}, c.todo # <<>>,
           Head(c.todo) \in {"store", "check"},
           stacked' = [stacked EXCEPT ![Len(stacked)].todo = <<>>,
                                      ![Len(stacked) - 1] = stacked[n - 1]],
           UNCHANGED <<contexts, cur, prev, iplCache, srCache, torn>>
    PROVE  LevelsInv'
<1> DEFINE b == stacked[n - 1]
           sup == iplCache.sup
           sr == srCache
<1>1. StackOK(stacked, sup, sr, cur) /\ CachesOK
  BY DEF LevelsInv
<1>2. stacked \in Seq(TrapContexts) /\ <<>> \in Seq(Ops)
  BY <1>1 DEF StackOK
<1>3. /\ ContextOK(c, sup, sr, cur) /\ ContextOK(b, sup, sr, cur) /\ OnOK(b, c, sup)
      /\ Rank(b) <= Rank(c) /\ Under(stacked, n - 1, sup, sr, cur)
  BY <1>1, TopTwo
<1>4. /\ ContextOK(Done(c), sup, sr, cur) /\ ~Needs(Done(c)) /\ Rank(Done(c)) = Rank(c)
      /\ OnOK(b, Done(c), sup)
  <2>1. Head(c.todo) \notin {"level", "unmaskSr"}
    OBVIOUS
  <2>2. c.own = "trap" => c.todo # <<"unmask">>
    BY <1>3, HandlerFacts DEF ContextOK, TrapOK
  <2> QED
    BY <1>3, <2>1, <2>2, DoneIs
<1>5. Done(c) = [stacked[n] EXCEPT !.todo = <<>>]
  BY DEF Done
<1>6. StackOK([stacked EXCEPT ![Len(stacked)].todo = <<>>, ![Len(stacked) - 1] = b], sup, sr, cur)
  BY <1>2, <1>3, <1>4, <1>5, BelowRewritten
<1>7. CachesOK'
  BY <1>1 DEF CachesOK
<1> QED
  BY <1>6, <1>7, NoSwitch

LEMMA StepIntrEpilogue ==
    ASSUME LevelsInv, ~torn, NEW op, Running.todo # <<>>, op = Head(Running.todo),
           IntrEpilogue(op)
    PROVE  LevelsInv'
<1> DEFINE n == Len(stacked)
           c == stacked[n]
           b == stacked[n - 1]
           sup == iplCache.sup
           sr == srCache
<1>1. StackOK(stacked, sup, sr, cur) /\ CachesOK
  BY DEF LevelsInv
<1>2. stacked \in Seq(TrapContexts) /\ stacked # <<>> /\ Running = c /\ Below = b /\ n \in Nat
  BY <1>1, TopTwo, RunningIs
<1>3. /\ c.todo # <<>> /\ op = Head(c.todo) /\ op = "check"
      /\ UNCHANGED <<contexts, cur, prev, iplCache, srCache, torn>>
  BY <1>2 DEF IntrEpilogue
<1>4. n > 1 /\ c.own = "intr"
  <2>1. op \notin CallOps /\ op \notin HandlerOps
    BY <1>3 DEF CallOps, HandlerOps
  <2>2. /\ n > 1 /\ c.own \in {"trap", "intr"}
        /\ c.own = "trap" => Head(c.todo) \in HandlerOps
    BY <1>1, <1>3, <2>1, HandlerIs
  <2> QED
    BY <1>3, <2>1, <2>2
<1>5. /\ ContextOK(c, sup, sr, cur) /\ ContextOK(b, sup, sr, cur) /\ OnOK(b, c, sup)
      /\ Under(stacked, n, sup, sr, cur) /\ (Needs(c) => ~c.off)
  BY <1>1, <1>4, TopTwo
<1>6. CASE Below.level # 0 \/ active
  <2>1. stacked' = [stacked EXCEPT ![Len(stacked)].todo = <<>>,
                                   ![Len(stacked) - 1] = stacked[n - 1]]
    BY <1>2, <1>3, <1>6 DEF IntrEpilogue, With
  <2> QED
    BY <1>3, <1>4, <2>1, HandlerEnds
<1>7. CASE ~(Below.level # 0 \/ active)
  <2> DEFINE c1 == [c EXCEPT !.level = 7, !.todo = <<op>> \o FlushEvents]
             c2 == [c1 EXCEPT !.todo = Tail(@)]
  <2>1. b.level = 0 /\ stacked' = [stacked EXCEPT ![n] = c2]
    BY <1>2, <1>3, <1>7 DEF IntrEpilogue, RunsOn
  <2> HIDE DEF c, b
  <2>2. /\ c \in TrapContexts /\ c.sup /\ c.entry \in 1..6 /\ c.entry <= sr
        /\ LastOp(c) = "check" /\ ~c.off
    BY <1>3, <1>4, <1>5 DEF ContextOK, IntrOK, LastOp, Needs
  <2>3. Tail(<<op>> \o FlushEvents) = FlushEvents /\ <<op>> \o FlushEvents \in Seq(Ops)
    <3>1. op \in Ops
      BY <1>3 DEF Ops, IntrOps
    <3>2. FlushEvents \in Seq(Ops)
      BY IntrFacts
    <3> QED
      BY <3>1, <3>2
  <2>4. /\ c2 \in TrapContexts /\ c2.own = "intr" /\ c2.sup /\ c2.entry = c.entry
        /\ c2.level = 7 /\ ~c2.off /\ c2.todo = FlushEvents
    <3> DEFINE l == <<op>> \o FlushEvents
    <3>1. 7 \in 0..7 /\ l \in Seq(Ops) /\ FlushEvents \in Seq(Ops) /\ Tail(l) = FlushEvents
      BY <2>3, IntrFacts
    <3> HIDE DEF l
    <3>2. /\ c1 \in TrapContexts /\ c1.own = c.own /\ c1.sup = c.sup /\ c1.entry = c.entry
          /\ c1.level = 7 /\ c1.off = c.off /\ c1.todo = l
      BY <2>2, <3>1 DEF TrapContexts, l
    <3> HIDE DEF c1
    <3>3. /\ c2 \in TrapContexts /\ c2.own = c.own /\ c2.sup = c.sup /\ c2.entry = c.entry
          /\ c2.level = 7 /\ c2.off = c.off /\ c2.todo = FlushEvents
      BY <3>1, <3>2 DEF TrapContexts
    <3> QED
      BY <1>4, <2>2, <3>3
  <2> HIDE DEF c2
  <2>5. LastOp(c2) = "unmaskSr" /\ IntrSteps(c2.todo) /\ Rank(c2) = Rank(c)
    BY <1>4, <2>4, IntrFacts DEF LastOp, Rank
  <2>6. ContextOK(c2, sup, sr, cur)
    BY <2>2, <2>4, <2>5, Names DEF ContextOK, ThreadOK, TrapOK, IntrOK
  <2>7. b.own # "intr"
    BY <1>5, <2>1 DEF ContextOK, IntrOK
  <2>8. OnOK(b, c2, sup)
    BY <1>4, <1>5, <2>1, <2>4, <2>5, <2>7, Names DEF OnOK
  <2>9. StackOK([stacked EXCEPT ![n] = c2], sup, sr, cur)
    <3>1. c2.own = stacked[n].own /\ Rank(c2) = Rank(stacked[n]) /\ OnOK(stacked[n - 1], c2, sup)
      BY <1>4, <2>4, <2>5, <2>8 DEF c, b
    <3> QED
      BY <1>2, <1>5, <2>4, <2>6, <3>1, ChangedTop
  <2>10. CachesOK'
    BY <1>1, <1>3 DEF CachesOK
  <2> QED
    BY <1>3, <2>1, <2>9, <2>10, NoSwitch
<1> QED
  BY <1>6, <1>7

LEMMA StepTrapDispatch ==
    ASSUME LevelsInv, ~torn, NEW op, Running.todo # <<>>, op = Head(Running.todo),
           TrapDispatch(op)
    PROVE  LevelsInv'
<1> DEFINE n == Len(stacked)
           c == stacked[n]
           b == stacked[n - 1]
           sup == iplCache.sup
           sr == srCache
<1>1. /\ StackOK(stacked, sup, sr, cur) /\ CachesOK /\ StoredOK
      /\ contexts \in [Users -> TrapContexts] /\ \A t \in Users : contexts[t].own # "intr"
  BY DEF LevelsInv
<1>2. stacked \in Seq(TrapContexts) /\ stacked # <<>> /\ Running = c /\ Below = b /\ n \in Nat
  BY <1>1, TopTwo, RunningIs
<1>3. /\ c.todo # <<>> /\ op = Head(c.todo) /\ op \in {"store", "load"}
      /\ UNCHANGED <<cur, prev, iplCache, srCache>>
  BY <1>2 DEF TrapDispatch
<1>4. /\ n > 1 /\ c.own \in {"trap", "intr"}
      /\ c.own = "trap" => c.todo = IF op = "load" THEN <<"load">> ELSE <<"store", "load">>
      /\ c.own = "intr" => IntrSteps(c.todo)
  <2>1. op \notin CallOps
    BY <1>3 DEF CallOps
  <2>2. /\ n > 1 /\ c.own \in {"trap", "intr"}
        /\ c.own = "trap" => c.todo \in HandlerSteps
        /\ c.own = "intr" => IntrSteps(c.todo)
    BY <1>1, <1>3, <2>1, HandlerIs
  <2> QED
    BY <1>3, <2>2, HandlerFacts
<1>5. /\ ContextOK(c, sup, sr, cur) /\ ContextOK(b, sup, sr, cur) /\ OnOK(b, c, sup)
      /\ Rank(b) <= Rank(c) /\ (n = 2 <=> b.own \in Users)
      /\ Under(stacked, n, sup, sr, cur) /\ Under(stacked, n - 2, sup, sr, cur)
  BY <1>1, <1>4, TopTwo
<1>6. LastOp(c) = op /\ Loads(c.todo)
  <2>1. c.own = "intr" => Loads(c.todo)
    BY <1>3, <1>4, IntrTail
  <2>2. c.own = "trap" => Loads(c.todo)
    BY <1>3, <1>4, <1>5, HandlerFacts DEF ContextOK, TrapOK
  <2> QED
    BY <1>3, <1>4, <2>1, <2>2 DEF LastOp
<1>7. /\ b.own # "intr" /\ (b.own \in Threads => b.level = 0)
      /\ op = "load" => b.own \in Users
  BY <1>5, <1>6 DEF OnOK
<1>8. CASE op = "store" /\ cur = prev
  <2>1. /\ stacked' = [stacked EXCEPT ![Len(stacked)].todo = <<>>,
                                      ![Len(stacked) - 1] = stacked[n - 1]]
        /\ UNCHANGED <<contexts, torn>>
    BY <1>2, <1>3, <1>8 DEF TrapDispatch, With
  <2> QED
    BY <1>3, <1>4, <1>8, <2>1, HandlerEnds
<1>9. CASE op = "store" /\ cur # prev
  <2> DEFINE c2 == Taken(c)
  <2>1. /\ contexts' = [contexts EXCEPT ![prev] = b]
        /\ torn' = (torn \/ b.own # prev)
        /\ stacked' = [stacked EXCEPT ![n] = c2]
    BY <1>2, <1>9 DEF TrapDispatch, Next_, RunsOn, Taken
  <2>2. torn' \in BOOLEAN /\ (~torn' => b.own = prev)
    BY <2>1
  <2> HIDE DEF c, b
  <2>3. /\ contexts' \in [Users -> TrapContexts]
        /\ \A t \in Users : contexts'[t].own # "intr"
        /\ \A t \in Users : contexts'[t] = IF t = prev THEN b ELSE contexts[t]
    <3>1. b \in TrapContexts /\ prev \in Users
      BY <1>1, <1>5 DEF ContextOK, StoredOK
    <3> QED
      BY <1>1, <1>7, <2>1, <3>1
  <2>4. ASSUME ~torn'
        PROVE  StackOK(stacked', iplCache'.sup, srCache', cur') /\ CachesOK' /\ StoredOK'
    <3>1. b.own = prev /\ b.own \in Users /\ cur # "boot"
      BY <1>1, <1>9, <2>2, <2>4 DEF StoredOK
    <3>2. /\ c \in TrapContexts /\ c.sup /\ Tail(c.todo) \in Seq(Ops)
          /\ c.own = "trap" => Tail(c.todo) = <<"load">>
          /\ c.own = "intr" => IntrSteps(Tail(c.todo))
          /\ Tail(c.todo) # <<>> /\ Head(Tail(c.todo)) = "load"
          /\ (Loads(Tail(c.todo)) => Loads(c.todo))
      <4>1. c \in TrapContexts /\ c.todo \in Seq(Ops) /\ c.sup
        BY <1>4, <1>5 DEF ContextOK, TrapContexts, TrapOK, IntrOK
      <4>2. Tail(c.todo) \in Seq(Ops)
        BY <1>3, <4>1, TailIs
      <4>3. CASE c.own = "trap"
        <5>1. <<"load">> # <<>> /\ Head(<<"load">>) = "load"
          OBVIOUS
        <5> QED
          BY <1>4, <1>6, <1>9, <4>1, <4>2, <4>3, <5>1, HandlerFacts
      <4>4. CASE c.own = "intr"
        BY <1>3, <1>4, <1>9, <4>1, <4>2, <4>4, IntrTail
      <4> QED
        BY <1>4, <4>3, <4>4
    <3>3. /\ c2 \in TrapContexts /\ c2.own = c.own /\ c2.sup /\ c2.level = c.level
          /\ c2.off = c.off /\ c2.entry = c.entry /\ c2.todo = Tail(c.todo)
      BY <3>2 DEF Taken, TrapContexts
    <3> HIDE DEF c2
    <3>4. LastOp(c2) = "load" /\ Rank(c2) = Rank(c) /\ ~Needs(c2)
      BY <1>4, <3>2, <3>3, Names DEF LastOp, Rank, Needs
    <3>5. ContextOK(c2, sup, sr, cur)
      <4>1. c2.own = "trap" => c2.todo \in HandlerSteps
        BY <3>2, <3>3 DEF HandlerSteps
      <4>2. IntrOK(c2, sup, sr)
        <5>1. c.own = "intr" =>
                /\ c.entry \in 1..6 /\ c.level >= c.entry
                /\ c.off => c.level = 7 /\ c.entry <= sup
                /\ c.level = 7 => c.off
          BY <1>5, <1>6, <1>9 DEF ContextOK, IntrOK
        <5> QED
          BY <3>2, <3>3, <3>4, <5>1 DEF IntrOK
      <4> QED
        BY <1>4, <3>1, <3>3, <4>1, <4>2, Names DEF ContextOK, ThreadOK, TrapOK
    <3>6. OnOK(b, c2, sup)
      <4>1. c.own = "trap" => /\ c2.todo \notin {<<"keep", "mask">>, <<"mask">>}
                              /\ c.todo # <<"unmask">>
        BY <1>4, <1>6, <1>9, <3>2, <3>3, HandlerFacts DEF HandlerSteps
      <4>2. Needs(b) => ~b.off
        BY <1>4, <1>5, <4>1 DEF OnOK
      <4> QED
        BY <1>4, <1>5, <1>7, <3>1, <3>3, <4>1, <4>2, Names DEF OnOK
    <3>7. StackOK([stacked EXCEPT ![n] = c2], sup, sr, cur)
      <4>1. c2.own = stacked[n].own /\ Rank(c2) = Rank(stacked[n]) /\ OnOK(stacked[n - 1], c2, sup)
        BY <3>3, <3>4, <3>6 DEF c, b
      <4> QED
        BY <1>2, <1>5, <3>4, <3>5, <4>1, ChangedTop
    <3>8. StoredOK'
      <4>1. ThreadOK(b) /\ (b.own \in Threads => b.level = 0)
        BY <1>5, <1>7 DEF ContextOK
      <4>2. \A t \in Threads : /\ contexts'[t].own = t /\ contexts'[t].level = 0
                               /\ ThreadOK(contexts'[t])
        BY <1>1, <2>3, <3>1, <4>1, Names DEF StoredOK
      <4> QED
        BY <1>1, <1>3, <4>2 DEF StoredOK
    <3>9. CachesOK'
      BY <1>1, <1>3 DEF CachesOK
    <3> QED
      BY <1>3, <2>1, <3>7, <3>8, <3>9
  <2> QED
    BY <2>2, <2>3, <2>4 DEF LevelsInv
<1>10. CASE op = "load"
  <2> DEFINE b2 == contexts[cur]
  <2>1. /\ stacked' = [stacked EXCEPT ![Len(stacked)].todo = <<>>, ![Len(stacked) - 1] = b2]
        /\ UNCHANGED <<contexts, torn>>
    BY <1>10 DEF TrapDispatch, With
  <2>2. cur \in Threads /\ n = 2
    <3>1. cur # "boot" /\ cur \in Users
      BY <1>1, <1>5, <1>6, <1>10 DEF ContextOK, StoredOK
    <3> QED
      BY <1>5, <1>7, <1>10, <3>1, Names
  <2> HIDE DEF c, b
  <2>3. /\ b2 \in TrapContexts /\ b2.own = cur /\ b2.level = 0 /\ ThreadOK(b2)
    BY <1>1, <2>2, Names DEF StoredOK
  <2> HIDE DEF b2
  <2>4. b2.own \in Threads /\ b2.own \in Users /\ ~b2.off /\ Rank(b2) = 0 /\ UserSteps(b2.todo)
    BY <2>2, <2>3, Names DEF ThreadOK, Rank
  <2>5. ContextOK(b2, sup, sr, cur)
    <3>1. LastOp(b2) # "load"
      BY <2>4, UserTail DEF LastOp, CallOps
    <3> QED
      BY <2>3, <2>4, <3>1, Names DEF ContextOK, TrapOK, IntrOK
  <2>6. /\ ContextOK(Done(c), sup, sr, cur) /\ ~Needs(Done(c)) /\ Rank(Done(c)) = Rank(c)
        /\ OnOK(b2, Done(c), sup)
    <3>1. Head(c.todo) \notin {"level", "unmaskSr"}
      BY <1>3
    <3> QED
      BY <1>3, <1>4, <1>5, <2>4, <3>1, DoneIs
  <2>7. Rank(Done(c)) \in 0..7
    BY <2>6 DEF ContextOK, TrapContexts, Rank
  <2>8. StackOK([stacked EXCEPT ![Len(stacked)].todo = <<>>, ![Len(stacked) - 1] = b2],
                sup, sr, cur)
    <3>1. Done(c) = [stacked[n] EXCEPT !.todo = <<>>] /\ <<>> \in Seq(Ops)
      BY DEF Done, c
    <3>2. Rank(b2) <= Rank(Done(c))
      BY <2>4, <2>7
    <3>3. /\ n = Len(stacked) /\ n > 1 /\ ~(n > 2) /\ stacked \in Seq(TrapContexts)
          /\ Under(stacked, n - 2, sup, sr, cur)
      BY <1>2, <1>5, <2>2
    <3>4. /\ ContextOK(b2, sup, sr, cur) /\ b2.own \in Users
          /\ ContextOK(Done(c), sup, sr, cur) /\ ~Needs(Done(c)) /\ OnOK(b2, Done(c), sup)
      BY <2>4, <2>5, <2>6
    <3> QED
      BY ONLY <3>1, <3>2, <3>3, <3>4, ChangedBelow
  <2>9. CachesOK'
    BY <1>1, <1>3 DEF CachesOK
  <2> QED
    BY <1>3, <2>1, <2>8, <2>9, NoSwitch
<1> QED
  BY <1>3, <1>8, <1>9, <1>10

\* Every step of the processor, the kernel and the handlers keeps the invariant.
LEMMA LevelsNext == LevelsInv /\ [TrapNext]_trapVars => LevelsInv'
<1> SUFFICES ASSUME LevelsInv, [TrapNext]_trapVars PROVE LevelsInv'
  OBVIOUS
<1>1. CASE UNCHANGED trapVars
  BY <1>1 DEF trapVars, LevelsInv, CachesOK, StoredOK
<1>2. CASE TrapNext
  <2>1. ~torn
    BY <1>2 DEF TrapNext
  <2>2. CASE TrapStep
    <3> DEFINE op == Head(Running.todo)
    <3>1. /\ Running.todo # <<>>
          /\ \/ TrapDisable(op) \/ TrapEnable(op)
             \/ TrapDispatch(op) \/ TrapConsole(op) \/ SetLevel(op)
             \/ IntrEpilogue(op) \/ Kernel(op)
      BY <2>2 DEF TrapStep
    <3> HIDE DEF op
    <3>2. op = Head(Running.todo)
      BY DEF op
    <3> QED
      BY <2>1, <3>1, <3>2, StepTrapDisable, StepTrapEnable, StepTrapDispatch, StepConsole,
         StepSetLevel, StepIntrEpilogue, StepKernel
  <2> QED
    BY <1>2, <2>1, <2>2, StepTrap, StepInterrupt, StepRte DEF TrapNext
<1> QED
  BY <1>1, <1>2

\* The invariant is enough.
LEMMA LevelsHold == LevelsInv => LevelsComeBack
<1> SUFFICES ASSUME LevelsInv PROVE LevelsComeBack
  OBVIOUS
<1>1. \A t \in DOMAIN contexts : contexts[t].own # "intr"
  BY DEF LevelsInv
<1>2. ASSUME ~torn
      PROVE  /\ \A i \in DOMAIN stacked :
                  LET c == stacked[i]
                  IN /\ c.own \in Threads /\ ~c.off => c.level = 0
                     /\ c.own \in Threads /\ c.off => c.level = 7
                     /\ c.own = "intr" => c.level >= c.entry
                     /\ c.own = "intr" /\ c.level = 7 =>
                          c.off \/ LastOp(c) \in {"level", "unmaskSr"}
             /\ \A t \in Threads \ {cur, prev} :
                  contexts[t].own = t /\ ~contexts[t].sup /\ contexts[t].level = 0
  <2>1. StackOK(stacked, iplCache.sup, srCache, cur) /\ StoredOK
    BY <1>2 DEF LevelsInv
  <2>2. \A i \in DOMAIN stacked : ContextOK(stacked[i], iplCache.sup, srCache, cur)
    BY <2>1 DEF StackOK, Under
  <2>3. \A i \in DOMAIN stacked :
           /\ ThreadOK(stacked[i]) /\ IntrOK(stacked[i], iplCache.sup, srCache)
    BY <2>2 DEF ContextOK
  <2> QED
    BY <2>1, <2>3 DEF ThreadOK, IntrOK, StoredOK
<1> QED
  BY <1>1, <1>2 DEF LevelsComeBack

\* On the mc68332, for any threads and any interrupt levels in use below 7: an
\* enable of trap.c gives every context an own level back, and a switched-out
\* thread waits at level 0 with its own context.
THEOREM LevelsCorrect == TrapSpec => []LevelsComeBack
<1>1. TrapStart => LevelsInv
  BY LevelsInit
<1>2. LevelsInv /\ [TrapNext]_trapVars => LevelsInv'
  BY LevelsNext
<1>3. LevelsInv => LevelsComeBack
  BY LevelsHold
<1> QED
  BY <1>1, <1>2, <1>3, PTL DEF TrapSpec
=============================================================================
