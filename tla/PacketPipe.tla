----------------------------- MODULE PacketPipe -----------------------------
(***************************************************************************)
(* What a Charla connection promises (hw5/include/client.h and protocol.h): *)
(* a packet is transmitted as a whole, nothing of another sender's packets  *)
(* in it; each sender's packets go out in its order; and the other end      *)
(* receives them one by one in the order of their transmission.             *)
(***************************************************************************)
EXTENDS Naturals, Sequences

CONSTANT Packets    \* [by, seq]: the seq-th packet of a sender

VARIABLES sent, received

vars == <<sent, received>>

Init == sent = <<>> /\ received = <<>>

Transmitted == {sent[i] : i \in 1..Len(sent)}

Transmit(p) ==
    /\ p \notin Transmitted
    /\ \A q \in Packets : q.by = p.by /\ q.seq < p.seq => q \in Transmitted
    /\ sent' = Append(sent, p)
    /\ UNCHANGED received

Receive ==
    /\ Len(received) < Len(sent)
    /\ received' = Append(received, sent[Len(received) + 1])
    /\ UNCHANGED sent

Next == (\E p \in Packets : Transmit(p)) \/ Receive

Spec == Init /\ [][Next]_vars
=============================================================================
