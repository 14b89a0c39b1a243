------------------------------ MODULE GdbLine ------------------------------
(***************************************************************************)
(* The packets of the m68k debugger stubs: getpacket and putpacket read    *)
(* and write $<body>#<checksum> one character at a time over a serial line *)
(* that may damage what it carries.  The host is external: it sends a      *)
(* command, sends it again when the stub answers '-' or when nothing       *)
(* moves, and then waits for the reply.  Acknowledgements are not damaged: *)
(* the protocol has no way to recover from that.                           *)
(***************************************************************************)
EXTENDS Naturals, Sequences

CONSTANTS
    BufMax,      \* BUFMAX, the size of remcomInBuffer
    Commands,    \* commands the host sends
    Damages      \* how often the line spoils something

ASSUME LineAssumption ==
    BufMax \in Nat /\ BufMax > 2 /\ Commands \in Nat /\ Damages \in Nat

VARIABLES
    limit,       \* characters of a body getpacket reads before it gives up
    toStub,      \* characters on their way to the stub
    toHost,      \* acknowledgements and replies on their way to the host
    getter,      \* the stub: what it waits for, and the packet so far
    host,        \* the host: what it waits for, the command, the reply
    harm         \* what the line may still spoil

lineVars == <<limit, toStub, toHost, getter, host, harm>>

Chr(c, v) == [c |-> c, v |-> v]

\* "gdb" and "old-gdb": the older stub reads one character more.
Limits == {BufMax - 1, BufMax}

LineInit ==
    /\ limit \in Limits
    /\ toStub = << >> /\ toHost = << >>
    /\ getter = [at |-> "start", body |-> << >>, ran |-> 0]
    /\ host = [at |-> "idle", sent |-> 0, size |-> 0, reply |-> 0]
    /\ harm = Damages

---------------------------------------------------------------------------
(* The host.  Command n is the character n and then size - 1 zeros, so that *)
(* the checksum of its packet is n.                                         *)

Command(n, size) ==
    << Chr("$", 0), Chr("x", n) >> \o [i \in 1..(size - 1) |-> Chr("x", 0)]
        \o << Chr("#", n) >>

HostSends ==
    /\ host.at = "idle" /\ host.sent < Commands
    /\ \E size \in 1..(limit - 1) :
          /\ host' = [host EXCEPT !.at = "ack", !.sent = @ + 1, !.size = size]
          /\ toStub' = toStub \o Command(host.sent + 1, size)
    /\ UNCHANGED <<limit, toHost, getter, harm>>

HostReads ==
    /\ toHost # << >>
    /\ toHost' = Tail(toHost)
    /\ LET got == Head(toHost) IN
       CASE host.at = "ack" /\ got.c = "+" ->
                host' = [host EXCEPT !.at = "reply"] /\ UNCHANGED toStub
         [] host.at = "ack" /\ got.c = "-" ->
                /\ toStub' = toStub \o Command(host.sent, host.size)
                /\ UNCHANGED host
         [] host.at = "reply" /\ got.c = "reply" ->
                /\ host' = [host EXCEPT !.at = "idle", !.reply = got.v]
                /\ toStub' = Append(toStub, Chr("+", 0))
         [] host.at = "reply" /\ got.c = "spoilt" ->
                toStub' = Append(toStub, Chr("-", 0)) /\ UNCHANGED host
         [] OTHER -> UNCHANGED <<host, toStub>>
    /\ UNCHANGED <<limit, getter, harm>>

\* Nothing moves: the packet got lost on the way.
HostTimesOut ==
    /\ host.at = "ack" /\ toStub = << >> /\ toHost = << >>
    /\ toStub' = Command(host.sent, host.size)
    /\ UNCHANGED <<limit, toHost, getter, host, harm>>

\* A character becomes another one: an ordinary one, the start of a packet, or
\* a wrong checksum.  Damages that cancel out in the checksum are left out.
Spoil ==
    /\ harm > 0
    /\ harm' = harm - 1
    /\ \/ \E i \in DOMAIN toStub, c \in {"$", "x"} :
             /\ toStub[i].c \notin {"+", "-", c}
             /\ toStub' = [toStub EXCEPT ![i] = Chr(c, Commands + 1)]
             /\ UNCHANGED toHost
       \/ \E i \in DOMAIN toStub :
             /\ toStub[i].c = "#"
             /\ toStub' = [toStub EXCEPT ![i].v = Commands + 2]
             /\ UNCHANGED toHost
       \/ \E i \in DOMAIN toHost :
             /\ toHost[i].c = "reply"
             /\ toHost' = [toHost EXCEPT ![i].c = "spoilt"]
             /\ UNCHANGED toStub
    /\ UNCHANGED <<limit, getter, host>>

---------------------------------------------------------------------------
(* The stub.                                                               *)

Checksum(body) == IF body = << >> THEN 0 ELSE Head(body).v

\* Mutant of Accepts: the checksum is not compared.
AcceptsAll(body, sum) == TRUE
Accepts(body, sum) ==
    sum = Checksum(body) /\ \A i \in 2..Len(body) : body[i].v = 0

\* One turn of the loop of getpacket; the start of a packet starts it again.
Collected(body, ch) == IF ch.c = "$" THEN << >> ELSE Append(body, ch)

PutDebugChar(c) == toHost' = Append(toHost, Chr(c, 0))

AwaitStart ==
    /\ getter.at = "start" /\ toStub # << >>
    /\ getter' = [getter EXCEPT !.at = IF Head(toStub).c = "$" THEN "body" ELSE @,
                                !.body = << >>]
    /\ UNCHANGED toHost

\* Without a '#' before the buffer is full the packet is dropped, unanswered.
ReadBody(max) ==
    /\ getter.at = "body" /\ toStub # << >> /\ Head(toStub).c # "#"
    /\ LET body == Collected(getter.body, Head(toStub)) IN
       getter' = [getter EXCEPT !.body = body,
                                !.at = IF Len(body) = max THEN "start" ELSE @]
    /\ UNCHANGED toHost

EndOfBody ==
    /\ getter.at = "body" /\ toStub # << >> /\ Head(toStub).c = "#"
    /\ IF Accepts(getter.body, Head(toStub).v)
       THEN getter' = [getter EXCEPT !.at = "run"] /\ PutDebugChar("+")
       ELSE getter' = [getter EXCEPT !.at = "start"] /\ PutDebugChar("-")

\* Mutant of GetPacket: the loop ends a character too early.
GetPacketShort ==
    /\ limit = BufMax - 1
    /\ AwaitStart \/ ReadBody(BufMax - 2) \/ EndOfBody
    /\ toStub' = Tail(toStub)
    /\ UNCHANGED <<limit, host, harm>>
GetPacket ==
    /\ limit = BufMax - 1
    /\ AwaitStart \/ ReadBody(BufMax - 1) \/ EndOfBody
    /\ toStub' = Tail(toStub)
    /\ UNCHANGED <<limit, host, harm>>

OldGetPacket ==
    /\ limit = BufMax
    /\ AwaitStart \/ ReadBody(BufMax) \/ EndOfBody
    /\ toStub' = Tail(toStub)
    /\ UNCHANGED <<limit, host, harm>>

\* handle_exception carries the command out and answers it.
CarryOut ==
    /\ getter.at = "run"
    /\ getter' = [getter EXCEPT !.at = "plus", !.ran = @ + 1]
    /\ toHost' = Append(toHost, Chr("reply", Checksum(getter.body)))
    /\ UNCHANGED <<limit, toStub, host, harm>>

\* putpacket sends the reply again until the next character is a '+'.
Answered ==
    /\ getter.at = "plus" /\ toStub # << >>
    /\ toStub' = Tail(toStub)
    /\ IF Head(toStub).c = "+"
       THEN getter' = [getter EXCEPT !.at = "start", !.body = << >>] /\ UNCHANGED toHost
       ELSE toHost' = Append(toHost, Chr("reply", Checksum(getter.body))) /\ UNCHANGED getter
    /\ UNCHANGED <<limit, host, harm>>

PutPacket == limit = BufMax - 1 /\ Answered
OldPutPacket == limit = BufMax /\ Answered

LineNext ==
    \/ HostSends \/ HostReads \/ HostTimesOut \/ Spoil
    \/ GetPacket \/ OldGetPacket \/ CarryOut \/ PutPacket \/ OldPutPacket

LineSpec == LineInit /\ [][LineNext]_lineVars /\ WF_lineVars(LineNext)

---------------------------------------------------------------------------
\* Whatever the line spoils, a command the host has the reply to was carried
\* out once, and the reply is to that command.
EachCommandOnce ==
    /\ getter.ran \in {host.sent - 1, host.sent}
    /\ host.at = "idle" => getter.ran = host.sent /\ host.reply = host.sent

\* Every command is answered in the end, up to the longest that fits the buffer.
CommandsAnswered == host.at # "idle" ~> host.at = "idle"
=============================================================================
