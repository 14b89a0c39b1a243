----------------------------- MODULE TraceEvent -----------------------------
(***************************************************************************)
(* posix_trace_event of posix/trace.c: an application event longer than a  *)
(* packet is saved in fragments, one system call each, between which other *)
(* threads save theirs.  The host that reads the trace puts the fragments  *)
(* of a thread together by the rule of the comment in posix_trace_event;   *)
(* it is external and modelled from that comment.                          *)
(***************************************************************************)
EXTENDS Integers

CONSTANTS
    Tracers,     \* threads that trace
    Payload,     \* TRACE_PAYLOAD_SIZE
    Whole255     \* 0xff scaled down: the fragment id of a whole event

ASSUME TraceAssumption ==
    Payload \in Nat /\ Payload > 0 /\ Whole255 \in Nat /\ Whole255 > 1

VARIABLES
    event,       \* the call of each thread: [size, left, frag], or NoEvent
    atHost         \* what the host has of each thread: [frag, bytes, event]

traceVars == <<event, atHost>>

NoEvent == [size |-> 0, left |-> -1, frag |-> 0]
NoPart == [frag |-> 0, bytes |-> 0]

TraceInit ==
    /\ event = [t \in Tracers |-> NoEvent]
    /\ atHost = [t \in Tracers |-> [part |-> NoPart, got |-> 0]]

\* The fragment ids of the first packet and of the one after a packet.
FirstFragment(size) == IF size <= Payload THEN Whole255 ELSE 1
\* Mutant of NextFragment: one payload left ends the event.
NextFragmentAtPayload(left, frag) == IF left >= Payload THEN frag + 1 ELSE 0
NextFragment(left, frag) == IF left > Payload THEN frag + 1 ELSE 0

\* The call, after its ASSERT.
PosixTraceEvent(t) ==
    /\ event[t].left = -1
    /\ \E size \in 0..(Payload * Whole255) :
          event' = [event EXCEPT ![t] =
                       [size |-> size, left |-> size, frag |-> FirstFragment(size)]]
    /\ UNCHANGED atHost

\* The host: fragments come in order, 0 ends them, Whole255 stands alone.
Received(h, frag, len) ==
    LET bytes == h.part.bytes + len
    IN CASE frag = Whole255 /\ h.part = NoPart -> [part |-> NoPart, got |-> len]
         [] frag = 0 /\ h.part # NoPart        -> [part |-> NoPart, got |-> bytes]
         [] frag = h.part.frag + 1             ->
                [h EXCEPT !.part = [frag |-> frag, bytes |-> bytes]]
         [] OTHER                              -> [h EXCEPT !.got = -1]

\* One turn of the loop: fill the packet, save it, get ready for the next.
SaveFragment(t) ==
    LET e == event[t]
        len == IF e.left >= Payload THEN Payload ELSE e.left
        left == e.left - len
    IN /\ e.left # -1
       /\ atHost' = [atHost EXCEPT ![t] = Received(@, e.frag % (Whole255 + 1), len)]
       /\ event' = [event EXCEPT ![t] =
                       [@ EXCEPT !.left = IF left = 0 THEN -1 ELSE left,
                                 !.frag = IF left = 0 THEN 0
                                          ELSE NextFragment(left, e.frag)]]

TraceNext == \E t \in Tracers : PosixTraceEvent(t) \/ SaveFragment(t)

TraceSpec == TraceInit /\ [][TraceNext]_traceVars

---------------------------------------------------------------------------
\* When a call has returned the host has the whole event and nothing left over,
\* whatever its size up to the 255 packets that the ASSERT allows: no fragment
\* id is taken for the end, for a whole event or for another fragment.
FragmentsReassemble ==
    \A t \in Tracers : event[t].left = -1 =>
        atHost[t] = [part |-> NoPart, got |-> event[t].size]
=============================================================================
