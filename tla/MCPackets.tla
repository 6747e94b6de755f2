----------------------------- MODULE MCPackets -----------------------------
(* Small instances of Packets. *)
EXTENDS Packets

CONSTANTS service, mailbox

Mesg(n) == [type |-> "MESG", payload_length |-> n]

\* One thread: an empty packet between full ones, and one that is too big.
Replies == [s \in {service} |->
    <<client_send_ack(2), client_send_nack, client_send_nack, Mesg(1), Mesg(2), Mesg(3)>>]

\* The service thread acknowledges while the mailbox thread delivers.
RepliesAndMessages ==
    [s \in {service, mailbox} |-> IF s = service THEN <<client_send_ack(1)>> ELSE <<Mesg(1)>>]

Lengths == 0..3
=============================================================================
