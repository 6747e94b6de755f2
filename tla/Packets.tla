------------------------------- MODULE Packets -------------------------------
(***************************************************************************)
(* The wire protocol of the Charla server (protocol.c) over the robust I/O  *)
(* functions of csapp.c: what proto_send_packet puts on a connection and    *)
(* what proto_recv_packet makes of it at the other end.                     *)
(*                                                                          *)
(* A packet is a header of HEADER units, the last of which holds            *)
(* payload_length, and a payload of that many units.  A step moves one unit: *)
(* a read or write that moves n of them is n steps, one that is interrupted *)
(* none.  The kernel keeps up to Room units.  The connection may be hung up *)
(* (what was written is still read, and then the end of the file) or be     *)
(* reset (what was not read is lost and every call fails).                  *)
(***************************************************************************)
EXTENDS Naturals, Sequences

CONSTANTS
    Senders,      \* the threads that write to the connection
    Outbox,       \* Outbox[s]: the packets s sends, one after the other
    HEADER,       \* sizeof(CHLA_PACKET_HEADER)
    Usable,       \* what malloc(sizeof(payload)) can hold
    Room,         \* bound: what the kernel keeps
    AnyLength     \* bound: what a field nobody has set may hold

ASSUME PacketsAssumption ==
    /\ Outbox \in [Senders -> Seq([type : STRING, payload_length : Nat])]
    /\ HEADER \in Nat \ {0} /\ Usable \in Nat /\ Room \in Nat
    /\ AnyLength \subseteq Nat

VARIABLES
    out,    \* out[s]: the packet s is sending and the unit it writes next
    sent,   \* the packets whose proto_send_packet has returned 0, in that order
    pipe,   \* the units written and not yet read
    conn,   \* "open", "hungup", "reset"
    recv,   \* the proto_recv_packet at the other end
    got     \* the packets it has returned 0 for

vars == <<out, sent, pipe, conn, recv, got>>

\* client_send_ack and client_send_nack, which client_send_packet passes on.
client_send_ack(datalen) == [type |-> "ACK", payload_length |-> datalen]
client_send_nack == [type |-> "NACK", payload_length |-> 0]

PacketsOf(s) == {[by |-> s, seq |-> i] : i \in DOMAIN Outbox[s]}
Packet == UNION {PacketsOf(s) : s \in Senders}
Length(p) == Outbox[p.by][p.seq].payload_length
Size(p) == HEADER + Length(p)
Unit(p, k) == [of |-> p, k |-> k]
Header(p) == [k \in 1..HEADER |-> Unit(p, k)]
Payload(p) == [k \in 1..Length(p) |-> Unit(p, HEADER + k)]

Awaiting == [stage |-> "header", hdr |-> <<>>, pay |-> <<>>, length |-> 0]

Init ==
    /\ out = [s \in Senders |-> [seq |-> 1, unit |-> 1]]
    /\ sent = <<>>
    /\ pipe = <<>>
    /\ conn = "open"
    /\ recv = Awaiting
    /\ got = <<>>

(***************************************************************************)
(* The sending end.                                                         *)
(***************************************************************************)
Current(s) == [by |-> s, seq |-> out[s].seq]
Sending(s) == out[s].seq \in DOMAIN Outbox[s]
NextPacket(s) == [out EXCEPT ![s] = [seq |-> @.seq + 1, unit |-> 1]]

\* Mutant of rio_writen: when the call that writes the last unit is interrupted
\* the packet is written again.
rio_writen_again(s) ==
    /\ Sending(s) /\ conn = "open" /\ Len(pipe) < Room
    /\ pipe' = Append(pipe, Unit(Current(s), out[s].unit))
    /\ \/ /\ out[s].unit < Size(Current(s))
          /\ out' = [out EXCEPT ![s].unit = @ + 1]
          /\ UNCHANGED sent
       \/ /\ out[s].unit = Size(Current(s))
          /\ \/ out' = NextPacket(s) /\ sent' = Append(sent, Current(s))
             \/ out' = [out EXCEPT ![s].unit = 1] /\ UNCHANGED sent
    /\ UNCHANGED <<conn, recv, got>>

\* proto_send_packet writes the header and then the payload.
rio_writen(s) ==
    /\ Sending(s) /\ conn = "open" /\ Len(pipe) < Room
    /\ pipe' = Append(pipe, Unit(Current(s), out[s].unit))
    /\ IF out[s].unit < Size(Current(s))
       THEN out' = [out EXCEPT ![s].unit = @ + 1] /\ UNCHANGED sent
       ELSE out' = NextPacket(s) /\ sent' = Append(sent, Current(s))
    /\ UNCHANGED <<conn, recv, got>>

\* The first write that fails ends the call with -1.
rio_writen_error(s) ==
    /\ Sending(s) /\ conn = "reset"
    /\ out' = NextPacket(s)
    /\ UNCHANGED <<sent, pipe, conn, recv, got>>

proto_send_packet(s) == rio_writen(s) \/ rio_writen_error(s)

(***************************************************************************)
(* The receiving end.                                                       *)
(***************************************************************************)
\* Return 0.  cut: the end of the connection was met while the packet was read.
Return(hdr, pay, cut) ==
    /\ got' = Append(got, [hdr |-> hdr, pay |-> pay, cut |-> cut])
    /\ recv' = Awaiting

\* The payload_length in what is read as a header.
LengthIn(h) ==
    IF Len(h) = HEADER /\ h[HEADER].k = HEADER THEN {Length(h[HEADER].of)} ELSE AnyLength

\* rio_readn has returned more than 0 for the header, and perhaps not all of it.
HeaderRead(h, cut) ==
    \E n \in LengthIn(h) :
        IF n = 0 THEN Return(h, <<>>, cut)
        ELSE /\ recv' = [stage |-> "payload", hdr |-> h, pay |-> <<>>, length |-> n]
             /\ UNCHANGED got

\* Mutant of ReadHeader: one read, whatever it returns.
ReadHeader_short ==
    /\ recv.stage = "header" /\ conn # "reset" /\ pipe # <<>>
    /\ pipe' = Tail(pipe)
    /\ LET h == Append(recv.hdr, Head(pipe))
       IN  \/ HeaderRead(h, FALSE)
           \/ Len(h) < HEADER /\ recv' = [recv EXCEPT !.hdr = h] /\ UNCHANGED got
    /\ UNCHANGED <<out, sent, conn>>

ReadHeader ==
    /\ recv.stage = "header" /\ conn # "reset" /\ pipe # <<>>
    /\ pipe' = Tail(pipe)
    /\ LET h == Append(recv.hdr, Head(pipe))
       IN  IF Len(h) < HEADER THEN recv' = [recv EXCEPT !.hdr = h] /\ UNCHANGED got
           ELSE HeaderRead(h, FALSE)
    /\ UNCHANGED <<out, sent, conn>>

\* Mutant of ReadPayload: the payload is read up to one unit less.
ReadPayload_less ==
    /\ recv.stage = "payload" /\ conn # "reset" /\ pipe # <<>>
    /\ pipe' = Tail(pipe)
    /\ LET p == Append(recv.pay, Head(pipe))
       IN  IF Len(p) + 1 < recv.length THEN recv' = [recv EXCEPT !.pay = p] /\ UNCHANGED got
           ELSE Return(recv.hdr, p, FALSE)
    /\ UNCHANGED <<out, sent, conn>>

\* The buffer has the size of a pointer, whatever is read into it.
ReadPayload ==
    /\ recv.stage = "payload" /\ conn # "reset" /\ pipe # <<>>
    /\ pipe' = Tail(pipe)
    /\ LET p == Append(recv.pay, Head(pipe))
       IN  IF Len(p) > Usable THEN recv' = [recv EXCEPT !.stage = "corrupt"] /\ UNCHANGED got
           ELSE IF Len(p) < recv.length THEN recv' = [recv EXCEPT !.pay = p] /\ UNCHANGED got
           ELSE Return(recv.hdr, p, FALSE)
    /\ UNCHANGED <<out, sent, conn>>

\* Mutant of EndOfFile: the end counts before what was written has been read.
EndOfFile_early ==
    /\ conn = "hungup"
    /\ \/ /\ recv.stage = "header" /\ recv.hdr = <<>>
          /\ recv' = [recv EXCEPT !.stage = "ended"] /\ UNCHANGED got
       \/ recv.stage = "header" /\ recv.hdr # <<>> /\ HeaderRead(recv.hdr, TRUE)
       \/ recv.stage = "payload" /\ Return(recv.hdr, recv.pay, TRUE)
    /\ UNCHANGED <<out, sent, pipe, conn>>

\* rio_readn returns what it has: nothing at all is an error, part of a header
\* is taken for one, and how much of the payload came is not looked at.
EndOfFile ==
    /\ conn = "hungup" /\ pipe = <<>>
    /\ \/ /\ recv.stage = "header" /\ recv.hdr = <<>>
          /\ recv' = [recv EXCEPT !.stage = "ended"] /\ UNCHANGED got
       \/ recv.stage = "header" /\ recv.hdr # <<>> /\ HeaderRead(recv.hdr, TRUE)
       \/ recv.stage = "payload" /\ Return(recv.hdr, recv.pay, TRUE)
    /\ UNCHANGED <<out, sent, pipe, conn>>

\* rio_readn returns -1: an error in the header, "Read Error" in the payload.
rio_readn_error ==
    /\ conn = "reset"
    /\ \/ recv.stage = "header" /\ recv' = [recv EXCEPT !.stage = "ended"] /\ UNCHANGED got
       \/ recv.stage = "payload" /\ Return(recv.hdr, recv.pay, TRUE)
    /\ UNCHANGED <<out, sent, pipe, conn>>

proto_recv_packet == ReadHeader \/ ReadPayload \/ EndOfFile \/ rio_readn_error

(***************************************************************************)
(* The two processes and the network.                                       *)
(***************************************************************************)
Hangup ==
    /\ conn = "open"
    /\ conn' = "hungup"
    /\ UNCHANGED <<out, sent, pipe, recv, got>>

Reset ==
    /\ conn # "reset"
    /\ conn' = "reset" /\ pipe' = <<>>
    /\ UNCHANGED <<out, sent, recv, got>>

\* The receiver calls proto_recv_packet no more.
Close ==
    /\ recv = Awaiting
    /\ recv' = [recv EXCEPT !.stage = "closed"]
    /\ UNCHANGED <<out, sent, pipe, conn, got>>

Next ==
    \/ \E s \in Senders : proto_send_packet(s)
    \/ proto_recv_packet
    \/ Hangup \/ Reset \/ Close

Spec == Init /\ [][Next]_vars

\* The threads run, and the kernel moves what is written.
Fairness == (\A s \in Senders : WF_vars(proto_send_packet(s))) /\ WF_vars(proto_recv_packet)
FairSpec == Spec /\ Fairness

(***************************************************************************)
(* Properties.                                                              *)
(***************************************************************************)
IsPacket(g, p) == g.hdr = Header(p) /\ g.pay = Payload(p)

\* The packets for which proto_recv_packet returns 0 are those for which
\* proto_send_packet did, in the same order and each with its own payload,
\* through short reads and writes and a full socket.  Only the last one may be
\* anything else: the one the end of the connection was met in, which is returned
\* with 0 too (protocol.c:20-28).
Whole ==
    \A i \in 1..Len(got) :
        IF got[i].cut THEN i = Len(got) /\ conn # "open"
        ELSE i <= Len(sent) /\ IsPacket(got[i], sent[i])

\* Nothing overflows the buffer of a pointer's size but a payload that was sent
\* bigger than it: not a length that was never received, after part of a header
\* (protocol.c:24-27).
Fits ==
    recv.stage = "corrupt" => \E p \in Packet : recv.hdr = Header(p) /\ Length(p) > Usable

\* A packet that has been sent is received, although the sender hangs up right
\* after it, unless the connection is reset or the receiver itself stops; and
\* as long as the connection stands no sender waits for ever.
Stopped == conn = "reset" \/ recv.stage \in {"corrupt", "closed"}
Received(p) == \E i \in 1..Len(got) : ~got[i].cut /\ IsPacket(got[i], p)

Delivered ==
    \A p \in Packet :
        /\ (\E i \in 1..Len(sent) : sent[i] = p) ~> Received(p) \/ Stopped
        /\ <>(Received(p) \/ Stopped \/ conn = "hungup")

\* The connection of units implements the connection of packets.  A packet that
\* was cut is not one of them.
What(g) == LET p == g.hdr[1].of IN IF IsPacket(g, p) THEN p ELSE [p EXCEPT !.seq = 0]
NotCut == {i \in 1..Len(got) : ~got[i].cut}
Pipe == INSTANCE PacketPipe WITH
    Packets <- Packet,
    received <- [i \in NotCut |-> What(got[i])]

ImplementsPipe == Pipe!Spec
=============================================================================
