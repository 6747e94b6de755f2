--------------------------- MODULE Packets_proofs ---------------------------
(***************************************************************************)
(* With one sender, which is what exclusive access to the connection means, *)
(* the connection of Packets carries whole packets, for any packets, any    *)
(* size of the socket's buffer and any length of header; Fits and the       *)
(* refinement of PacketPipe follow from the same invariant.                 *)
(***************************************************************************)
EXTENDS Packets, SequenceTheorems, TLAPS

Pkt(s, n) == [by |-> s, seq |-> n]
Place(s, n, k) == Unit(Pkt(s, n), k)

\* The units follow each other without a gap, from packet to packet.
After(s, u) ==
    IF u.k < Size(u.of) THEN Unit(u.of, u.k + 1) ELSE Place(s, u.of.seq + 1, 1)

Writes(s) == Place(s, out[s].seq, out[s].unit)
First(s) == IF pipe = <<>> THEN Writes(s) ELSE pipe[1]

\* The packet being received and the unit read next.
Number == Len(got) + 1
Reads(s) ==
    Place(s, Number,
          IF recv.stage = "header" THEN Len(recv.hdr) + 1 ELSE HEADER + Len(recv.pay) + 1)

Entries == [type : STRING, payload_length : Nat]
Units == {u \in [of : Packet, k : Nat] : 1 <= u.k /\ u.k <= Size(u.of)}
Stages == {"header", "payload", "ended", "corrupt", "closed"}

Returned == [hdr : Seq(Units), pay : Seq(Units), cut : BOOLEAN]

Typed ==
    /\ out \in [Senders -> [seq : Nat \ {0}, unit : Nat \ {0}]]
    /\ \A s \in Senders : Sending(s) => out[s].unit <= Size(Current(s))
    /\ sent \in Seq(Packet)
    /\ pipe \in Seq(Units)
    /\ conn \in {"open", "hungup", "reset"}
    /\ recv \in [stage : Stages, hdr : Seq(Units), pay : Seq(Units), length : Nat]
    /\ got \in Seq(Returned)

InOrder(s) ==
    /\ \A i \in 1..Len(sent) : sent[i] = Pkt(s, i)
    /\ Len(sent) < out[s].seq
    /\ conn # "reset" => Len(sent) = out[s].seq - 1

Chained(s) ==
    /\ conn = "reset" => pipe = <<>>
    /\ \A i \in 1..Len(pipe) : pipe[i].of.seq <= out[s].seq
    /\ \A i \in 1..Len(pipe) : i < Len(pipe) => pipe[i + 1] = After(s, pipe[i])
    /\ pipe # <<>> => After(s, pipe[Len(pipe)]) = Writes(s)

\* The end of the connection has been met.
End == conn = "reset" \/ (conn = "hungup" /\ pipe = <<>>)

\* A header is incomplete, or the receiver is where the next unit belongs.
HeaderIs(s, h, n) == \A k \in 1..Len(h) : h[k] = Place(s, n, k)
HeaderStage(s) == recv.stage = "header" => Len(recv.hdr) < HEADER /\ HeaderIs(s, recv.hdr, Number)
PayloadStage(s) ==
    recv.stage = "payload" =>
        \/ End
        \/ /\ recv.hdr = Header(Pkt(s, Number)) /\ Pkt(s, Number) \in Packet
           /\ recv.length = Length(Pkt(s, Number)) /\ Len(recv.pay) < recv.length
           /\ \A k \in 1..Len(recv.pay) : recv.pay[k] = Place(s, Number, HEADER + k)

InStep(s) == ~End /\ recv.stage \in {"header", "payload"} => Reads(s) = First(s)

\* A complete header that was read before the end says what follows.
Given(s) ==
    \A i \in 1..Len(got) :
        IF got[i].cut THEN /\ i = Len(got) /\ End /\ recv.stage \notin {"payload", "corrupt"}
                           /\ recv.stage = "header" => recv.hdr = <<>>
        ELSE i <= Len(sent) /\ IsPacket(got[i], Pkt(s, i))

Inv(s) ==
    /\ Typed /\ InOrder(s) /\ Chained(s)
    /\ HeaderStage(s) /\ PayloadStage(s) /\ InStep(s) /\ Given(s)
    /\ Fits
-----------------------------------------------------------------------------
(* The unit read next and what is left behind it. *)
LEMMA TailFacts ==
    ASSUME NEW S, NEW q \in Seq(S), q # <<>>
    PROVE  /\ Tail(q) \in Seq(S) /\ Len(q) \in Nat \ {0}
           /\ Len(Tail(q)) = Len(q) - 1
           /\ \A i \in 1..Len(q) - 1 : Tail(q)[i] = q[i + 1]
           /\ Head(q) = q[1] /\ q[1] \in S
           /\ (Tail(q) = <<>>) <=> (Len(q) = 1)
  <1>1. Len(q) \in Nat \ {0}
    BY EmptySeq
  <1>2. Tail(q) \in Seq(S) /\ Len(Tail(q)) = Len(q) - 1
        /\ \A i \in 1..Len(Tail(q)) : Tail(q)[i] = q[i + 1]
    BY HeadTailProperties
  <1>3. q[1] \in S
    BY <1>1, ElementOfSeq
  <1>4. Head(q) = q[1]
    OBVIOUS
  <1>5. (Tail(q) = <<>>) <=> (Len(q) = 1)
    BY <1>1, <1>2, EmptySeq
  <1> QED
    BY <1>1, <1>2, <1>3, <1>4, <1>5

\* What a packet is.
LEMMA PacketFacts ==
    ASSUME NEW s, Senders = {s}, NEW p \in Packet
    PROVE  /\ p.by = s /\ p.seq \in DOMAIN Outbox[s] /\ p = Pkt(s, p.seq)
           /\ p.seq \in Nat \ {0} /\ Length(p) \in Nat /\ Size(p) \in Nat \ {0}
           /\ Size(p) = HEADER + Length(p)
  <1>1. p \in PacketsOf(s)
    BY DEF Packet
  <1>2. PICK i \in DOMAIN Outbox[s] : p = [by |-> s, seq |-> i]
    BY <1>1 DEF PacketsOf
  <1>3. Outbox[s] \in Seq(Entries)
    BY PacketsAssumption DEF Entries
  <1>4. i \in 1..Len(Outbox[s]) /\ Len(Outbox[s]) \in Nat
    BY <1>3, LenProperties
  <1>5. Outbox[s][i] \in Entries
    BY <1>3, <1>4, ElementOfSeq
  <1>6. Length(p) \in Nat
    BY <1>2, <1>5 DEF Length, Entries
  <1> QED
    BY <1>2, <1>4, <1>6, PacketsAssumption DEF Pkt, Size

LEMMA PktInPacket ==
    ASSUME NEW s, Senders = {s}, NEW n \in DOMAIN Outbox[s]
    PROVE  Pkt(s, n) \in Packet
  BY DEF Pkt, Packet, PacketsOf

LEMMA UnitFacts ==
    ASSUME NEW s, Senders = {s}, NEW u \in Units
    PROVE  /\ u.of \in Packet /\ u.of.by = s /\ u.of.seq \in Nat \ {0} /\ u.of = Pkt(s, u.of.seq)
           /\ u.k \in Nat \ {0} /\ u.k <= Size(u.of) /\ Size(u.of) \in Nat \ {0}
           /\ u = Unit(u.of, u.k)
  <1>1. u.of \in Packet /\ u.k \in Nat /\ 1 <= u.k /\ u.k <= Size(u.of) /\ u = Unit(u.of, u.k)
    BY DEF Units, Unit
  <1> QED
    BY <1>1, PacketFacts

\* What Chained says of the next state.
LEMMA ChainedNext ==
    ASSUME NEW s
    PROVE  Chained(s)' <=>
               /\ conn' = "reset" => pipe' = <<>>
               /\ \A i \in 1..Len(pipe') : pipe'[i].of.seq <= out'[s].seq
               /\ \A i \in 1..Len(pipe') :
                     i < Len(pipe') => pipe'[i + 1] = After(s, pipe'[i])
               /\ pipe' # <<>> => After(s, pipe'[Len(pipe')]) = Writes(s)'
  BY DEF Chained, After, Size, Length, Writes, Place, Unit, Pkt

LEMMA InitInv ==
    ASSUME NEW s, Senders = {s}, Init
    PROVE  Inv(s)
  <1>1. Typed
    <2>1. ASSUME NEW t \in Senders, Sending(t)
          PROVE  out[t].unit <= Size(Current(t))
      <3>1. t = s /\ Current(s) \in Packet
        BY <2>1, PktInPacket DEF Sending, Current, Pkt
      <3>2. out[t].unit = 1
        BY DEF Init
      <3>3. Size(Current(s)) \in Nat \ {0}
        BY <3>1, PacketFacts
      <3> QED
        BY <3>1, <3>2, <3>3
    <2> QED
      BY <2>1 DEF Typed, Init, Awaiting, Stages
  <1>2. InOrder(s) /\ Chained(s)
    BY DEF Init, InOrder, Chained
  <1>3. HeaderStage(s) /\ PayloadStage(s) /\ Given(s) /\ Fits
    BY PacketsAssumption DEF Init, Awaiting, HeaderStage, HeaderIs, PayloadStage, Given, Fits
  <1>4. InStep(s)
    BY DEF Init, Awaiting, InStep, Reads, First, Writes, Number, Place
  <1> QED
    BY <1>1, <1>2, <1>3, <1>4 DEF Inv
-----------------------------------------------------------------------------
(* The sender. *)
LEMMA WriteStep ==
    ASSUME NEW s, Senders = {s}, Inv(s), rio_writen(s)
    PROVE  Inv(s)'
  <1> DEFINE n == out[s].seq
             k == out[s].unit
             e == Unit(Current(s), k)
  <1>1. /\ Typed /\ InOrder(s) /\ Chained(s) /\ HeaderStage(s) /\ PayloadStage(s)
        /\ InStep(s) /\ Given(s) /\ Fits
    BY DEF Inv
  <1>2. /\ n \in Nat \ {0} /\ k \in Nat \ {0} /\ s \in Senders /\ Sending(s)
        /\ out \in [Senders -> [seq : Nat \ {0}, unit : Nat \ {0}]]
    BY <1>1 DEF Typed, rio_writen
  <1>3. Current(s) = Pkt(s, n) /\ Current(s) \in Packet /\ k <= Size(Current(s))
    BY <1>1, <1>2, PktInPacket DEF Typed, Sending, Current, Pkt
  <1>4. Size(Current(s)) \in Nat \ {0}
    BY <1>3, PacketFacts
  <1>5. e \in Units /\ e = Writes(s) /\ e.of.seq = n /\ e.k = k /\ e.of = Current(s)
    BY <1>2, <1>3, <1>4 DEF Units, Unit, Writes, Place, Pkt
  <1>6. /\ conn = "open" /\ conn' = conn /\ recv' = recv /\ got' = got /\ pipe' = Append(pipe, e)
        /\ pipe \in Seq(Units) /\ sent \in Seq(Packet)
    BY <1>1 DEF rio_writen, Typed
  <1>7. /\ pipe' \in Seq(Units) /\ Len(pipe') = Len(pipe) + 1 /\ Len(pipe) \in Nat
        /\ \A i \in 1..Len(pipe) : pipe'[i] = pipe[i]
        /\ pipe'[Len(pipe) + 1] = e /\ pipe' # <<>>
    BY <1>5, <1>6, AppendProperties, LenProperties
  <1>8. \/ /\ k < Size(Current(s)) /\ sent' = sent
           /\ out' = [out EXCEPT ![s].unit = k + 1]
        \/ /\ k = Size(Current(s)) /\ sent' = Append(sent, Current(s))
           /\ out' = [out EXCEPT ![s] = [seq |-> n + 1, unit |-> 1]]
    BY <1>2, <1>3, <1>4 DEF rio_writen, NextPacket
  <1>9. /\ out' \in [Senders -> [seq : Nat \ {0}, unit : Nat \ {0}]]
        /\ \/ k < Size(Current(s)) /\ sent' = sent /\ out'[s].seq = n /\ out'[s].unit = k + 1
           \/ /\ k = Size(Current(s)) /\ sent' = Append(sent, Current(s))
              /\ out'[s].seq = n + 1 /\ out'[s].unit = 1
    BY <1>2, <1>8
  <1>10. Writes(s)' = After(s, e)
    <2>1. Writes(s)' = Place(s, out'[s].seq, out'[s].unit)
      BY DEF Writes, Place, Unit, Pkt
    <2>2. After(s, e) = IF k < Size(Current(s)) THEN Unit(Current(s), k + 1) ELSE Place(s, n + 1, 1)
      BY <1>5 DEF After
    <2>3. CASE k < Size(Current(s)) /\ out'[s].seq = n /\ out'[s].unit = k + 1
      BY <1>3, <2>1, <2>2, <2>3 DEF Place
    <2>4. CASE k = Size(Current(s)) /\ out'[s].seq = n + 1 /\ out'[s].unit = 1
      BY <1>4, <2>1, <2>2, <2>4
    <2> QED
      BY <1>9, <2>3, <2>4
  <1>11. Typed'
    <2>1. ASSUME NEW t \in Senders, Sending(t)'
          PROVE  (out[t].unit <= Size(Current(t)))'
      <3>1. t = s /\ out'[s].seq \in DOMAIN Outbox[s] /\ Current(s)' = Pkt(s, out'[s].seq)
        BY <2>1 DEF Sending, Current, Pkt
      <3>2. Current(s)' \in Packet
        BY <3>1, PktInPacket
      <3>3. Size(Current(s)') \in Nat \ {0}
        BY <3>2, PacketFacts
      <3>4. Size(Current(s))' = Size(Current(s)')
        BY DEF Size, Length
      <3>5. CASE k < Size(Current(s)) /\ out'[s].seq = n /\ out'[s].unit = k + 1
        <4>1. Current(s)' = Current(s)
          BY <1>3, <3>1, <3>5
        <4> QED
          BY <1>2, <1>4, <3>1, <3>4, <3>5, <4>1
      <3>6. CASE out'[s].unit = 1
        BY <3>1, <3>3, <3>4, <3>6
      <3> QED
        BY <1>9, <3>5, <3>6
    <2>2. sent' \in Seq(Packet)
      <3>1. Append(sent, Current(s)) \in Seq(Packet)
        BY <1>3, <1>6, AppendProperties
      <3> QED
        BY <1>6, <1>9, <3>1
    <2> QED
      BY <1>1, <1>6, <1>7, <1>9, <2>1, <2>2 DEF Typed
  <1>12. InOrder(s)'
    <2>1. Len(sent) = n - 1 /\ Len(sent) \in Nat /\ \A i \in 1..Len(sent) : sent[i] = Pkt(s, i)
      BY <1>1, <1>6, LenProperties DEF InOrder
    <2>2. CASE sent' = sent /\ out'[s].seq = n
      BY <1>2, <2>1, <2>2 DEF InOrder
    <2>3. CASE sent' = Append(sent, Current(s)) /\ out'[s].seq = n + 1
      <3>1. Len(sent') = n /\ sent'[n] = Pkt(s, n) /\ \A i \in 1..Len(sent) : sent'[i] = sent[i]
        BY <1>2, <1>3, <1>6, <2>1, <2>3, AppendProperties
      <3>2. \A i \in 1..n : sent'[i] = Pkt(s, i)
        BY <1>2, <2>1, <3>1
      <3> QED
        BY <1>2, <2>3, <3>1, <3>2 DEF InOrder
    <2> QED
      BY <1>9, <2>2, <2>3
  <1>13. Chained(s)'
    <2>1. n <= out'[s].seq
      BY <1>2, <1>9
    <2>2. \A i \in 1..Len(pipe) + 1 : pipe'[i].of.seq <= out'[s].seq
      <3> SUFFICES ASSUME NEW i \in 1..Len(pipe) + 1
                   PROVE  pipe'[i].of.seq <= out'[s].seq
        OBVIOUS
      <3>1. CASE i = Len(pipe) + 1
        BY <1>5, <1>7, <2>1, <3>1
      <3>2. CASE i \in 1..Len(pipe)
        <4>1. pipe[i] \in Units /\ pipe'[i] = pipe[i] /\ pipe[i].of.seq <= n
          BY <1>1, <1>6, <1>7, <3>2, ElementOfSeq DEF Chained
        <4>2. pipe[i].of.seq \in Nat
          BY <4>1, UnitFacts
        <4>3. out'[s].seq \in Nat
          BY <1>2, <1>9
        <4> QED
          BY <1>2, <2>1, <4>1, <4>2, <4>3
      <3> QED
        BY <1>7, <3>1, <3>2
    <2>3. \A i \in 1..Len(pipe) : pipe'[i + 1] = After(s, pipe'[i])
      <3> SUFFICES ASSUME NEW i \in 1..Len(pipe)
                   PROVE  pipe'[i + 1] = After(s, pipe'[i])
        OBVIOUS
      <3>1. pipe'[i] = pipe[i]
        BY <1>7
      <3>2. CASE i < Len(pipe)
        <4>1. i + 1 \in 1..Len(pipe)
          BY <1>7, <3>2
        <4> QED
          BY <1>1, <1>7, <3>1, <3>2, <4>1 DEF Chained
      <3>3. CASE i = Len(pipe)
        <4>1. pipe # <<>>
          BY <1>6, <3>3, EmptySeq
        <4> QED
          BY <1>1, <1>5, <1>7, <3>1, <3>3, <4>1 DEF Chained
      <3> QED
        BY <1>7, <3>2, <3>3
    <2> QED
      BY <1>6, <1>7, <1>10, <2>2, <2>3, ChainedNext
  <1>14. ~End /\ ~End'
    BY <1>6 DEF End
  <1>15. HeaderStage(s)' /\ PayloadStage(s)' /\ Fits'
    BY <1>1, <1>6, <1>14 DEF HeaderStage, PayloadStage, HeaderIs, Number, Fits
  <1>16. InStep(s)'
    <2>1. Reads(s)' = Reads(s)
      BY <1>6 DEF Reads, Number
    <2>2. First(s)' = First(s)
      <3>1. CASE pipe = <<>>
        BY <1>5, <1>7, <3>1, EmptySeq DEF First
      <3>2. CASE pipe # <<>>
        <4>1. 1 \in 1..Len(pipe)
          BY <1>6, <3>2, EmptySeq
        <4> QED
          BY <1>7, <3>2, <4>1 DEF First
      <3> QED
        BY <3>1, <3>2
    <2> QED
      BY <1>1, <1>6, <1>14, <2>1, <2>2 DEF InStep
  <1>17. Given(s)'
    <2>1. Len(sent) \in Nat /\ Len(sent') \in Nat /\ Len(sent) <= Len(sent')
      BY <1>3, <1>6, <1>9, AppendProperties, LenProperties
    <2> SUFFICES ASSUME NEW i \in 1..Len(got)
                 PROVE  ~got[i].cut /\ i <= Len(sent') /\ IsPacket(got[i], Pkt(s, i))
      BY <1>6 DEF Given, IsPacket
    <2>2. ~got[i].cut /\ i <= Len(sent) /\ IsPacket(got[i], Pkt(s, i))
      BY <1>1, <1>14 DEF Given
    <2> QED
      BY <2>1, <2>2
  <1> QED
    BY <1>11, <1>12, <1>13, <1>15, <1>16, <1>17 DEF Inv

LEMMA WriteErrorStep ==
    ASSUME NEW s, Senders = {s}, Inv(s), rio_writen_error(s)
    PROVE  Inv(s)'
  <1>1. /\ Typed /\ InOrder(s) /\ Chained(s) /\ HeaderStage(s) /\ PayloadStage(s)
        /\ InStep(s) /\ Given(s) /\ Fits
    BY DEF Inv
  <1>2. /\ out \in [Senders -> [seq : Nat \ {0}, unit : Nat \ {0}]] /\ s \in Senders
        /\ out' = [out EXCEPT ![s] = [seq |-> out[s].seq + 1, unit |-> 1]]
        /\ conn = "reset" /\ pipe = <<>>
        /\ sent' = sent /\ pipe' = pipe /\ conn' = conn /\ recv' = recv /\ got' = got
    BY <1>1 DEF Typed, Chained, rio_writen_error, NextPacket
  <1>3. /\ out' \in [Senders -> [seq : Nat \ {0}, unit : Nat \ {0}]]
        /\ out'[s].seq = out[s].seq + 1 /\ out'[s].unit = 1 /\ out[s].seq \in Nat \ {0}
    BY <1>2
  <1>4. Typed'
    <2>1. ASSUME NEW t \in Senders, Sending(t)'
          PROVE  (out[t].unit <= Size(Current(t)))'
      <3>1. t = s /\ out'[s].seq \in DOMAIN Outbox[s] /\ Current(s)' = Pkt(s, out'[s].seq)
        BY <2>1 DEF Sending, Current, Pkt
      <3>2. Current(s)' \in Packet
        BY <3>1, PktInPacket
      <3>3. Size(Current(s)') \in Nat \ {0}
        BY <3>2, PacketFacts
      <3> QED
        BY <1>3, <3>1, <3>3 DEF Size, Length
    <2> QED
      BY <1>1, <1>2, <1>3, <2>1 DEF Typed
  <1>5. InOrder(s)' /\ Chained(s)'
    <2>1. Len(sent) \in Nat
      BY <1>1, LenProperties DEF Typed
    <2> QED
      BY <1>1, <1>2, <1>3, <2>1 DEF InOrder, Chained
  <1>6. HeaderStage(s)' /\ PayloadStage(s)' /\ InStep(s)' /\ Given(s)' /\ Fits'
    BY <1>1, <1>2 DEF HeaderStage, PayloadStage, HeaderIs, Number, InStep, End, Given, IsPacket, Fits
  <1> QED
    BY <1>4, <1>5, <1>6 DEF Inv
-----------------------------------------------------------------------------
(* The network and the end of the receiver. *)
LEMMA HangupStep ==
    ASSUME NEW s, Senders = {s}, Inv(s), Hangup \/ Reset
    PROVE  Inv(s)'
  <1>1. /\ Typed /\ InOrder(s) /\ Chained(s) /\ HeaderStage(s) /\ PayloadStage(s)
        /\ InStep(s) /\ Given(s) /\ Fits
    BY DEF Inv
  <1>2. /\ out' = out /\ sent' = sent /\ recv' = recv /\ got' = got
        /\ \/ conn = "open" /\ conn' = "hungup" /\ pipe' = pipe
           \/ conn' = "reset" /\ pipe' = <<>> /\ conn # "reset"
    BY DEF Hangup, Reset
  <1>3. (End => End') /\ (~End' => pipe' = pipe)
    BY <1>2 DEF End
  <1>4. Typed'
    <2>1. pipe' \in Seq(Units)
      BY <1>1, <1>2, EmptySeq DEF Typed
    <2>2. conn' \in {"open", "hungup", "reset"}
      BY <1>2
    <2> QED
      BY <1>1, <1>2, <2>1, <2>2 DEF Typed, Sending, Current, Size, Length
  <1>5. InOrder(s)' /\ Chained(s)'
    <2>1. Writes(s)' = Writes(s)
      BY <1>2 DEF Writes, Place, Unit, Pkt
    <2>2. InOrder(s)'
      BY <1>1, <1>2 DEF InOrder
    <2>3. CASE pipe' = <<>>
      BY <1>2, <2>2, <2>3, ChainedNext
    <2>4. CASE pipe' = pipe /\ conn' = "hungup"
      BY <1>1, <1>2, <2>1, <2>2, <2>4, ChainedNext DEF Chained
    <2> QED
      BY <1>2, <2>3, <2>4
  <1>6. HeaderStage(s)' /\ PayloadStage(s)' /\ Given(s)' /\ Fits'
    BY <1>1, <1>2, <1>3 DEF HeaderStage, PayloadStage, HeaderIs, Number, Given, IsPacket, Fits
  <1>7. InStep(s)'
    BY <1>1, <1>2, <1>3 DEF InStep, Reads, First, Writes, Number
  <1> QED
    BY <1>4, <1>5, <1>6, <1>7 DEF Inv

LEMMA CloseStep ==
    ASSUME NEW s, Senders = {s}, Inv(s), Close
    PROVE  Inv(s)'
  <1>1. /\ Typed /\ InOrder(s) /\ Chained(s) /\ HeaderStage(s) /\ PayloadStage(s)
        /\ InStep(s) /\ Given(s) /\ Fits
    BY DEF Inv
  <1>2. /\ recv = Awaiting /\ recv' = [recv EXCEPT !.stage = "closed"]
        /\ out' = out /\ sent' = sent /\ pipe' = pipe /\ conn' = conn /\ got' = got
    BY DEF Close
  <1>3. recv'.stage = "closed" /\ Typed'
    BY <1>1, <1>2 DEF Typed, Sending, Current, Size, Length, Awaiting, Stages
  <1>4. InOrder(s)' /\ Chained(s)'
    BY <1>1, <1>2 DEF InOrder, Chained, Writes, After, Size, Length, Place, Unit, Pkt
  <1>5. HeaderStage(s)' /\ PayloadStage(s)' /\ InStep(s)' /\ Given(s)' /\ Fits'
    BY <1>1, <1>2, <1>3 DEF HeaderStage, PayloadStage, InStep, Given, IsPacket, End, Fits
  <1> QED
    BY <1>3, <1>4, <1>5 DEF Inv
-----------------------------------------------------------------------------
(* The receiver. *)
\* A length is a number, whatever was read as a header.
LEMMA LengthType ==
    ASSUME NEW s, Senders = {s}, NEW h \in Seq(Units)
    PROVE  LengthIn(h) \subseteq Nat
  <1>1. CASE Len(h) = HEADER /\ h[HEADER].k = HEADER
    <2>1. HEADER \in 1..Len(h)
      BY <1>1, PacketsAssumption
    <2>2. h[HEADER] \in Units
      BY <2>1, ElementOfSeq
    <2>3. Length(h[HEADER].of) \in Nat
      BY <2>2, UnitFacts, PacketFacts
    <2> QED
      BY <1>1, <2>3 DEF LengthIn
  <1>2. CASE ~(Len(h) = HEADER /\ h[HEADER].k = HEADER)
    BY <1>2, PacketsAssumption DEF LengthIn
  <1> QED
    BY <1>1, <1>2

\* A packet that is cut is the last one.
LEMMA CutReturn ==
    ASSUME NEW s, Senders = {s}, Inv(s), End, NEW h \in Seq(Units), NEW p \in Seq(Units),
           Return(h, p, TRUE), recv.stage \in {"header", "payload"},
           recv.stage = "header" => recv.hdr # <<>>, UNCHANGED <<out, sent, pipe, conn>>
    PROVE  Inv(s)'
  <1> DEFINE g == [hdr |-> h, pay |-> p, cut |-> TRUE]
  <1>1. /\ Typed /\ InOrder(s) /\ Chained(s) /\ Given(s)
    BY DEF Inv
  <1>2. /\ out' = out /\ sent' = sent /\ pipe' = pipe /\ conn' = conn
        /\ got' = Append(got, g) /\ recv' = Awaiting /\ g \in Returned /\ got \in Seq(Returned)
    BY <1>1 DEF Return, Returned, Typed
  <1>3. /\ got' \in Seq(Returned) /\ Len(got') = Len(got) + 1 /\ Len(got) \in Nat
        /\ \A i \in 1..Len(got) : got'[i] = got[i]
        /\ got'[Len(got) + 1] = g
    BY <1>2, AppendProperties, LenProperties
  <1>4. End' /\ recv'.stage = "header" /\ recv'.hdr = <<>>
    BY <1>2 DEF End, Awaiting
  <1>5. Typed'
    BY <1>1, <1>2, <1>3 DEF Typed, Sending, Current, Size, Length, Awaiting, Stages
  <1>6. InOrder(s)' /\ Chained(s)'
    <2>1. Writes(s)' = Writes(s)
      BY <1>2 DEF Writes, Place, Unit, Pkt
    <2>2. Chained(s)'
      BY <1>1, <1>2, <2>1, ChainedNext DEF Chained
    <2> QED
      BY <1>1, <1>2, <2>2 DEF InOrder
  <1>7. Given(s)'
    <2> SUFFICES ASSUME NEW i \in 1..Len(got')
                 PROVE  IF got'[i].cut THEN i = Len(got')
                        ELSE i <= Len(sent) /\ IsPacket(got'[i], Pkt(s, i))
      BY <1>2, <1>4 DEF Given, IsPacket
    <2>1. CASE i = Len(got) + 1
      BY <1>3, <2>1
    <2>2. CASE i \in 1..Len(got)
      <3>1. ~got[i].cut
        BY <1>1, <2>2 DEF Given
      <3> QED
        BY <1>1, <1>3, <2>2, <3>1 DEF Given
    <2> QED
      BY <1>3, <2>1, <2>2
  <1>8. HeaderStage(s)' /\ PayloadStage(s)' /\ InStep(s)' /\ Fits'
    BY <1>4, PacketsAssumption DEF HeaderStage, HeaderIs, PayloadStage, InStep, Fits
  <1> QED
    BY <1>5, <1>6, <1>7, <1>8 DEF Inv

LEMMA EndOfFileStep ==
    ASSUME NEW s, Senders = {s}, Inv(s), EndOfFile
    PROVE  Inv(s)'
  <1>1. /\ Typed /\ InOrder(s) /\ Chained(s) /\ HeaderStage(s) /\ Given(s) /\ Fits
    BY DEF Inv
  <1>2. /\ out' = out /\ sent' = sent /\ pipe' = pipe /\ conn' = conn /\ End /\ End'
        /\ recv \in [stage : Stages, hdr : Seq(Units), pay : Seq(Units), length : Nat]
    BY <1>1 DEF EndOfFile, End, Typed
  <1>3. <<>> \in Seq(Units)
    BY EmptySeq
  <1>4. ASSUME got' = got, recv' \in [stage : {"ended", "payload"}, hdr : Seq(Units),
                                      pay : Seq(Units), length : Nat],
               recv'.stage = "payload" => \A i \in 1..Len(got) : ~got[i].cut
        PROVE  Inv(s)'
    <2>1. Typed'
      BY <1>1, <1>2, <1>4 DEF Typed, Sending, Current, Size, Length, Stages
    <2>2. Writes(s)' = Writes(s)
      BY <1>2 DEF Writes, Place, Unit, Pkt
    <2>3. InOrder(s)' /\ Chained(s)'
      BY <1>1, <1>2, <2>2, ChainedNext DEF Chained, InOrder
    <2>4. HeaderStage(s)' /\ PayloadStage(s)' /\ InStep(s)' /\ Fits'
      BY <1>2, <1>4 DEF HeaderStage, PayloadStage, InStep, Fits
    <2>5. recv'.stage \in {"ended", "payload"}
      BY <1>4
    <2>6. Given(s)'
      <3> SUFFICES ASSUME NEW i \in 1..Len(got)
                   PROVE  IF got[i].cut THEN i = Len(got) /\ recv'.stage = "ended"
                          ELSE i <= Len(sent) /\ IsPacket(got[i], Pkt(s, i))
        BY <1>2, <1>4 DEF Given, IsPacket
      <3> QED
        BY <1>1, <1>4, <2>5 DEF Given
    <2> QED
      BY <2>1, <2>3, <2>4, <2>6 DEF Inv
  <1>5. CASE /\ recv.stage = "header" /\ recv.hdr = <<>>
             /\ recv' = [recv EXCEPT !.stage = "ended"] /\ got' = got
    <2>1. recv' \in [stage : {"ended", "payload"}, hdr : Seq(Units), pay : Seq(Units), length : Nat]
          /\ recv'.stage = "ended"
      BY <1>2, <1>5
    <2> QED
      BY <1>4, <1>5, <2>1
  <1>6. CASE recv.stage = "header" /\ recv.hdr # <<>> /\ HeaderRead(recv.hdr, TRUE)
    <2>1. PICK n \in LengthIn(recv.hdr) :
              IF n = 0 THEN Return(recv.hdr, <<>>, TRUE)
              ELSE /\ recv' = [stage |-> "payload", hdr |-> recv.hdr, pay |-> <<>>, length |-> n]
                   /\ got' = got
      BY <1>6 DEF HeaderRead
    <2>2. CASE n = 0
      BY <1>2, <1>3, <1>6, <2>1, <2>2, CutReturn
    <2>3. CASE n # 0
      <3>1. n \in Nat
        BY <1>2, LengthType
      <3>2. \A i \in 1..Len(got) : ~got[i].cut
        BY <1>1, <1>6 DEF Given
      <3>3. /\ got' = got
            /\ recv' = [stage |-> "payload", hdr |-> recv.hdr, pay |-> <<>>, length |-> n]
        BY <2>1, <2>3
      <3>4. recv' \in [stage : {"ended", "payload"}, hdr : Seq(Units), pay : Seq(Units),
                       length : Nat]
        BY <1>2, <1>3, <3>1, <3>3
      <3> QED
        BY <1>4, <3>2, <3>3, <3>4
    <2> QED
      BY <2>2, <2>3
  <1>7. CASE recv.stage = "payload" /\ Return(recv.hdr, recv.pay, TRUE)
    BY <1>2, <1>7, CutReturn
  <1> QED
    BY <1>5, <1>6, <1>7 DEF EndOfFile

LEMMA ReadErrorStep ==
    ASSUME NEW s, Senders = {s}, Inv(s), rio_readn_error
    PROVE  Inv(s)'
  <1>1. /\ Typed /\ InOrder(s) /\ Chained(s) /\ Given(s)
    BY DEF Inv
  <1>2. /\ out' = out /\ sent' = sent /\ pipe' = pipe /\ conn' = conn /\ End /\ End'
        /\ recv \in [stage : Stages, hdr : Seq(Units), pay : Seq(Units), length : Nat]
    BY <1>1 DEF rio_readn_error, End, Typed
  <1>3. CASE recv.stage = "header" /\ recv' = [recv EXCEPT !.stage = "ended"] /\ got' = got
    <2>1. recv'.stage = "ended" /\ Typed'
      BY <1>1, <1>2, <1>3 DEF Typed, Sending, Current, Size, Length, Stages
    <2>2. Writes(s)' = Writes(s)
      BY <1>2 DEF Writes, Place, Unit, Pkt
    <2>3. InOrder(s)' /\ Chained(s)'
      BY <1>1, <1>2, <2>2, ChainedNext DEF Chained, InOrder
    <2>4. HeaderStage(s)' /\ PayloadStage(s)' /\ InStep(s)' /\ Fits' /\ Given(s)'
      BY <1>1, <1>2, <1>3, <2>1 DEF HeaderStage, PayloadStage, InStep, Fits, Given, IsPacket
    <2> QED
      BY <2>1, <2>3, <2>4 DEF Inv
  <1>4. CASE recv.stage = "payload" /\ Return(recv.hdr, recv.pay, TRUE)
    BY <1>2, <1>4, CutReturn
  <1> QED
    BY <1>3, <1>4 DEF rio_readn_error

\* When a unit has been read the next one is the one after it.
LEMMA ReadUnit ==
    ASSUME NEW s, Senders = {s}, Typed, Chained(s), pipe # <<>>,
           pipe' = Tail(pipe), out' = out, conn' = conn
    PROVE  /\ Head(pipe) = pipe[1] /\ pipe[1] \in Units /\ pipe' \in Seq(Units)
           /\ First(s)' = After(s, pipe[1])
           /\ Chained(s)'
           /\ First(s)'.of.seq <= out[s].seq
  <1>1. pipe \in Seq(Units)
    BY DEF Typed
  <1>2. /\ pipe' \in Seq(Units) /\ Len(pipe) \in Nat \ {0}
        /\ Len(pipe') = Len(pipe) - 1
        /\ \A i \in 1..Len(pipe) - 1 : pipe'[i] = pipe[i + 1]
        /\ Head(pipe) = pipe[1] /\ pipe[1] \in Units
        /\ (pipe' = <<>>) <=> (Len(pipe) = 1)
    BY <1>1, TailFacts
  <1>3. Writes(s)' = Writes(s)
    BY DEF Writes, Place, Unit, Pkt
  <1>4. First(s)' = IF pipe' = <<>> THEN Writes(s) ELSE pipe'[1]
    BY <1>3 DEF First
  <1>5. First(s)' = After(s, pipe[1])
    <2>1. CASE Len(pipe) = 1
      BY <1>2, <1>4, <2>1 DEF Chained
    <2>2. CASE Len(pipe) # 1
      <3>1. pipe'[1] = pipe[2] /\ pipe' # <<>> /\ 1 \in 1..Len(pipe) /\ 1 < Len(pipe)
        BY <1>2, <2>2
      <3>2. pipe[1 + 1] = After(s, pipe[1])
        BY <3>1 DEF Chained
      <3> QED
        BY <1>4, <3>1, <3>2
    <2> QED
      BY <2>1, <2>2
  <1>6. Chained(s)'
    <2>1. \A i \in 1..Len(pipe') : pipe'[i].of.seq <= out'[s].seq
      BY <1>2 DEF Chained
    <2>2. \A i \in 1..Len(pipe') : i < Len(pipe') => pipe'[i + 1] = After(s, pipe'[i])
      <3> SUFFICES ASSUME NEW i \in 1..Len(pipe'), i < Len(pipe')
                   PROVE  pipe'[i + 1] = After(s, pipe'[i])
        OBVIOUS
      <3>1. i + 1 \in 1..Len(pipe) - 1 /\ i + 1 \in 1..Len(pipe) /\ i + 1 < Len(pipe)
        BY <1>2
      <3>2. pipe'[i + 1] = pipe[(i + 1) + 1] /\ pipe'[i] = pipe[i + 1]
        BY <1>2, <3>1
      <3> QED
        BY <3>1, <3>2 DEF Chained
    <2>3. pipe' # <<>> => After(s, pipe'[Len(pipe')]) = Writes(s)
      <3> SUFFICES ASSUME pipe' # <<>>
                   PROVE  After(s, pipe'[Len(pipe')]) = Writes(s)
        OBVIOUS
      <3>1. Len(pipe') \in 1..Len(pipe) - 1
        BY <1>2
      <3>2. pipe'[Len(pipe')] = pipe[Len(pipe)]
        BY <1>2, <3>1
      <3> QED
        BY <3>2 DEF Chained
    <2>4. conn' = "reset" => pipe' = <<>>
      BY DEF Chained
    <2> QED
      BY <1>3, <2>1, <2>2, <2>3, <2>4, ChainedNext
  <1>7. First(s)'.of.seq <= out[s].seq
    <2>1. out[s].seq \in Nat
      BY DEF Typed
    <2>2. CASE pipe' = <<>>
      BY <1>4, <2>1, <2>2 DEF Writes, Place, Unit, Pkt
    <2>3. CASE pipe' # <<>>
      <3>1. 1 \in 1..Len(pipe')
        BY <1>2, <2>3
      <3>2. pipe'[1].of.seq <= out'[s].seq
        BY <1>6, <3>1, ChainedNext
      <3> QED
        BY <1>4, <2>3, <3>2
    <2> QED
      BY <2>2, <2>3
  <1> QED
    BY <1>2, <1>5, <1>6, <1>7

\* A packet that is not cut is the next one.
LEMMA WholeReturn ==
    ASSUME NEW s, Senders = {s}, Inv(s), ~End, NEW h, NEW p,
           h = Header(Pkt(s, Number)), p = Payload(Pkt(s, Number)),
           h \in Seq(Units), p \in Seq(Units),
           Return(h, p, FALSE), UNCHANGED <<out, sent, conn>>, pipe' \in Seq(Units), Chained(s)',
           First(s)' = Place(s, Number + 1, 1), First(s)'.of.seq <= out[s].seq
    PROVE  Inv(s)'
  <1> DEFINE g == [hdr |-> h, pay |-> p, cut |-> FALSE]
  <1>1. /\ Typed /\ InOrder(s) /\ Given(s)
    BY DEF Inv
  <1>2. /\ out' = out /\ sent' = sent /\ conn' = conn
        /\ got' = Append(got, g) /\ recv' = Awaiting /\ g \in Returned /\ got \in Seq(Returned)
    BY <1>1 DEF Return, Returned, Typed
  <1>3. /\ got' \in Seq(Returned) /\ Len(got') = Len(got) + 1 /\ Len(got) \in Nat
        /\ \A i \in 1..Len(got) : got'[i] = got[i]
        /\ got'[Len(got) + 1] = g
    BY <1>2, AppendProperties, LenProperties
  <1>4. Typed'
    BY <1>1, <1>2, <1>3 DEF Typed, Sending, Current, Size, Length, Awaiting, Stages
  <1>5. InOrder(s)'
    BY <1>1, <1>2 DEF InOrder
  <1>6. Len(got) + 1 <= Len(sent)
    <2>1. out[s].seq \in Nat /\ conn # "reset"
      BY <1>1 DEF Typed, End
    <2>2. Number + 1 <= out[s].seq
      BY DEF Place, Unit, Pkt
    <2> QED
      BY <1>1, <1>3, <2>1, <2>2 DEF InOrder, Number
  <1>7. Given(s)'
    <2> SUFFICES ASSUME NEW i \in 1..Len(got')
                 PROVE  ~got'[i].cut /\ i <= Len(sent) /\ IsPacket(got'[i], Pkt(s, i))
      BY <1>2 DEF Given, IsPacket
    <2>1. CASE i = Len(got) + 1
      BY <1>3, <1>6, <2>1 DEF IsPacket, Number
    <2>2. CASE i \in 1..Len(got)
      <3>1. ~got[i].cut /\ i <= Len(sent) /\ IsPacket(got[i], Pkt(s, i))
        BY <1>1, <2>2 DEF Given
      <3> QED
        BY <1>3, <2>2, <3>1
    <2> QED
      BY <1>3, <2>1, <2>2
  <1>8. HeaderStage(s)' /\ PayloadStage(s)' /\ Fits'
    BY <1>2, PacketsAssumption DEF HeaderStage, HeaderIs, PayloadStage, Fits, Awaiting
  <1>9. InStep(s)'
    <2>1. Reads(s)' = Place(s, Len(got') + 1, 1)
      BY <1>2 DEF Reads, Number, Awaiting, Place, Unit, Pkt
    <2> QED
      BY <1>3, <2>1 DEF InStep, Number
  <1> QED
    BY <1>4, <1>5, <1>7, <1>8, <1>9 DEF Inv

\* Before the end, the unit at the head of the pipe is the one that is read next.
LEMMA NextUnit ==
    ASSUME NEW s, Senders = {s}, Inv(s), recv.stage \in {"header", "payload"},
           conn # "reset", pipe # <<>>
    PROVE  ~End /\ pipe[1] = Reads(s) /\ pipe[1] \in Units
  <1>1. ~End
    BY DEF End
  <1>2. First(s) = pipe[1]
    BY DEF First
  <1>3. pipe[1] \in Units
    <2>1. pipe \in Seq(Units)
      BY DEF Inv, Typed
    <2>2. 1 \in 1..Len(pipe)
      BY <2>1, EmptySeq
    <2> QED
      BY <2>1, <2>2, ElementOfSeq
  <1> QED
    BY <1>1, <1>2, <1>3 DEF Inv, InStep

LEMMA ReadHeaderStep ==
    ASSUME NEW s, Senders = {s}, Inv(s), ReadHeader
    PROVE  Inv(s)'
  <1> DEFINE u == pipe[1]
             h == Append(recv.hdr, Head(pipe))
             c == Pkt(s, Number)
  <1>1. Typed /\ InOrder(s) /\ Chained(s) /\ HeaderStage(s) /\ Given(s) /\ Fits
    BY DEF Inv
  <1>2. /\ recv.stage = "header" /\ conn # "reset" /\ pipe # <<>> /\ pipe' = Tail(pipe)
        /\ out' = out /\ sent' = sent /\ conn' = conn
        /\ recv.hdr \in Seq(Units) /\ got \in Seq(Returned)
    BY <1>1 DEF ReadHeader, Typed
  <1>3. ~End /\ u = Place(s, Number, Len(recv.hdr) + 1) /\ u \in Units
    BY <1>2, NextUnit DEF Reads
  <1>4. /\ Head(pipe) = u /\ pipe' \in Seq(Units) /\ First(s)' = After(s, u) /\ Chained(s)'
        /\ First(s)'.of.seq <= out[s].seq
    BY <1>1, <1>2, ReadUnit
  <1>5. /\ u.of = c /\ u.k = Len(recv.hdr) + 1 /\ c.seq = Number
    BY <1>3 DEF Place, Unit, Pkt
  <1>6. /\ c \in Packet /\ Length(c) \in Nat /\ Size(c) = HEADER + Length(c)
    BY <1>3, <1>5, UnitFacts, PacketFacts
  <1>7. /\ h \in Seq(Units) /\ Len(h) = Len(recv.hdr) + 1 /\ Len(recv.hdr) \in Nat
        /\ \A k \in 1..Len(recv.hdr) : h[k] = recv.hdr[k]
        /\ h[Len(recv.hdr) + 1] = u
    BY <1>2, <1>3, <1>4, AppendProperties, LenProperties
  <1>8. \A k \in 1..Len(h) : h[k] = Place(s, Number, k)
    <2> SUFFICES ASSUME NEW k \in 1..Len(h)
                 PROVE  h[k] = Place(s, Number, k)
      OBVIOUS
    <2>1. CASE k = Len(recv.hdr) + 1
      BY <1>3, <1>7, <2>1
    <2>2. CASE k \in 1..Len(recv.hdr)
      BY <1>1, <1>2, <1>7, <2>2 DEF HeaderStage, HeaderIs
    <2> QED
      BY <1>7, <2>1, <2>2
  <1>9. Len(recv.hdr) < HEADER /\ HEADER \in Nat \ {0} /\ Len(got) \in Nat
    BY <1>1, <1>2, PacketsAssumption, LenProperties DEF HeaderStage
  <1>10. CASE Len(h) < HEADER
    <2>1. recv' = [recv EXCEPT !.hdr = h] /\ got' = got
      BY <1>10 DEF ReadHeader
    <2>2. /\ recv'.stage = "header" /\ recv'.hdr = h
          /\ recv' \in [stage : Stages, hdr : Seq(Units), pay : Seq(Units), length : Nat]
      BY <1>1, <1>2, <1>7, <2>1 DEF Typed
    <2>3. Typed'
      BY <1>1, <1>2, <1>4, <2>1, <2>2 DEF Typed, Sending, Current, Size, Length
    <2>4. InOrder(s)'
      BY <1>1, <1>2 DEF InOrder
    <2>5. HeaderStage(s)' /\ PayloadStage(s)' /\ Fits'
      BY <1>8, <1>10, <2>1, <2>2 DEF HeaderStage, HeaderIs, PayloadStage, Fits, Number, Place, Unit, Pkt
    <2>6. Given(s)'
      <3>1. \A i \in 1..Len(got) : ~got[i].cut /\ i <= Len(sent) /\ IsPacket(got[i], Pkt(s, i))
        BY <1>1, <1>3 DEF Given
      <3> QED
        BY <1>2, <2>1, <3>1 DEF Given, IsPacket
    <2>7. InStep(s)'
      <3>1. After(s, u) = Unit(c, Len(h) + 1)
        BY <1>5, <1>6, <1>7, <1>9, <1>10 DEF After
      <3>2. Reads(s)' = Place(s, Number, Len(h) + 1)
        BY <2>1, <2>2 DEF Reads, Number, Place, Unit, Pkt
      <3> QED
        BY <1>4, <3>1, <3>2 DEF InStep, Place
    <2> QED
      BY <1>4, <2>3, <2>4, <2>5, <2>6, <2>7 DEF Inv
  <1>11. CASE ~(Len(h) < HEADER)
    <2>1. HeaderRead(h, FALSE)
      BY <1>11 DEF ReadHeader
    <2>2. Len(h) = HEADER
      BY <1>7, <1>9, <1>11
    <2>3. h = Header(c)
      <3>1. h \in [1..HEADER -> Units]
        BY <1>7, <2>2, LenProperties
      <3> QED
        BY <1>8, <2>2, <3>1 DEF Header, Place
    <2>4. LengthIn(h) = {Length(c)}
      <3>1. h[HEADER] = u /\ u.k = HEADER
        BY <1>5, <1>7, <2>2
      <3> QED
        BY <1>5, <2>2, <3>1 DEF LengthIn
    <2>5. IF Length(c) = 0 THEN Return(h, <<>>, FALSE)
          ELSE /\ recv' = [stage |-> "payload", hdr |-> h, pay |-> <<>>, length |-> Length(c)]
               /\ got' = got
      BY <2>1, <2>4 DEF HeaderRead
    <2>6. <<>> \in Seq(Units)
      BY EmptySeq
    <2>7. CASE Length(c) = 0
      <3>1. <<>> = Payload(c)
        BY <2>7 DEF Payload
      <3>2. First(s)' = Place(s, Number + 1, 1)
        BY <1>4, <1>5, <1>6, <1>7, <1>9, <2>2, <2>7 DEF After
      <3>3. Return(h, <<>>, FALSE) /\ UNCHANGED <<out, sent, conn>>
        BY <1>2, <2>5, <2>7
      <3> HIDE DEF h, c
      <3> QED
        BY <1>3, <1>4, <1>7, <2>3, <2>6, <3>1, <3>2, <3>3, WholeReturn DEF c
    <2>8. CASE Length(c) # 0
      <3>1. /\ got' = got /\ recv'.stage = "payload" /\ recv'.hdr = h /\ recv'.pay = <<>>
            /\ recv'.length = Length(c)
            /\ recv' \in [stage : Stages, hdr : Seq(Units), pay : Seq(Units), length : Nat]
        <4>1. /\ got' = got
              /\ recv' = [stage |-> "payload", hdr |-> h, pay |-> <<>>, length |-> Length(c)]
          BY <2>5, <2>8
        <4> HIDE DEF h, c
        <4> QED
          BY <1>6, <1>7, <2>6, <4>1 DEF Stages
      <3>2. Typed'
        BY <1>1, <1>2, <1>4, <3>1 DEF Typed, Sending, Current, Size, Length
      <3>3. InOrder(s)'
        BY <1>1, <1>2 DEF InOrder
      <3>4. HeaderStage(s)' /\ Fits'
        BY <3>1 DEF HeaderStage, Fits
      <3>5. PayloadStage(s)'
        <4>1. Len(recv'.pay) < recv'.length /\ \A k \in 1..Len(recv'.pay) : FALSE
          BY <1>6, <2>8, <3>1
        <4>2. c' = c /\ Header(c)' = Header(c) /\ Length(c)' = Length(c)
          BY <3>1 DEF Number, Pkt, Header, Length, Unit
        <4> QED
          BY <1>6, <2>3, <3>1, <4>1, <4>2 DEF PayloadStage
      <3>6. Given(s)'
        <4>1. \A i \in 1..Len(got) : ~got[i].cut /\ i <= Len(sent) /\ IsPacket(got[i], Pkt(s, i))
          BY <1>1, <1>3 DEF Given
        <4> QED
          BY <1>2, <3>1, <4>1 DEF Given, IsPacket
      <3>7. InStep(s)'
        <4>1. After(s, u) = Unit(c, HEADER + 1)
          BY <1>5, <1>6, <1>7, <1>9, <2>2, <2>8 DEF After
        <4>2. Reads(s)' = Place(s, Number, HEADER + 1)
          <5>1. HEADER + Len(recv'.pay) + 1 = HEADER + 1
            BY <1>9, <3>1
          <5> QED
            BY <3>1, <5>1 DEF Reads, Number, Place, Unit, Pkt
        <4> QED
          BY <1>4, <4>1, <4>2 DEF InStep, Place
      <3> QED
        BY <1>4, <3>2, <3>3, <3>4, <3>5, <3>6, <3>7 DEF Inv
    <2> QED
      BY <2>7, <2>8
  <1> QED
    BY <1>10, <1>11

LEMMA ReadPayloadStep ==
    ASSUME NEW s, Senders = {s}, Inv(s), ReadPayload
    PROVE  Inv(s)'
  <1> DEFINE u == pipe[1]
             p == Append(recv.pay, Head(pipe))
             c == Pkt(s, Number)
  <1>1. Typed /\ InOrder(s) /\ Chained(s) /\ PayloadStage(s) /\ Given(s) /\ Fits
    BY DEF Inv
  <1>2. /\ recv.stage = "payload" /\ conn # "reset" /\ pipe # <<>> /\ pipe' = Tail(pipe)
        /\ out' = out /\ sent' = sent /\ conn' = conn
        /\ recv.pay \in Seq(Units) /\ recv.hdr \in Seq(Units) /\ got \in Seq(Returned)
    BY <1>1 DEF ReadPayload, Typed
  <1>3. ~End /\ u = Place(s, Number, HEADER + Len(recv.pay) + 1) /\ u \in Units
    BY <1>2, NextUnit DEF Reads
  <1>4. /\ Head(pipe) = u /\ pipe' \in Seq(Units) /\ First(s)' = After(s, u) /\ Chained(s)'
        /\ First(s)'.of.seq <= out[s].seq
    BY <1>1, <1>2, ReadUnit
  <1>5. u.of = c /\ u.k = HEADER + Len(recv.pay) + 1 /\ c.seq = Number
    BY <1>3 DEF Place, Unit, Pkt
  <1>6. c \in Packet /\ Length(c) \in Nat /\ Size(c) = HEADER + Length(c)
    BY <1>3, <1>5, UnitFacts, PacketFacts
  <1>7. /\ p \in Seq(Units) /\ Len(p) = Len(recv.pay) + 1 /\ Len(recv.pay) \in Nat
        /\ \A k \in 1..Len(recv.pay) : p[k] = recv.pay[k]
        /\ p[Len(recv.pay) + 1] = u
    BY <1>2, <1>3, <1>4, AppendProperties, LenProperties
  <1>8. /\ recv.hdr = Header(c) /\ recv.length = Length(c) /\ Len(recv.pay) < Length(c)
        /\ \A k \in 1..Len(recv.pay) : recv.pay[k] = Place(s, Number, HEADER + k)
    BY <1>1, <1>2, <1>3 DEF PayloadStage
  <1>9. \A k \in 1..Len(p) : p[k] = Place(s, Number, HEADER + k)
    <2> SUFFICES ASSUME NEW k \in 1..Len(p)
                 PROVE  p[k] = Place(s, Number, HEADER + k)
      OBVIOUS
    <2>1. CASE k = Len(recv.pay) + 1
      <3>1. HEADER + k = HEADER + Len(recv.pay) + 1
        BY <1>7, <2>1, PacketsAssumption
      <3> QED
        BY <1>3, <1>7, <2>1, <3>1
    <2>2. CASE k \in 1..Len(recv.pay)
      BY <1>7, <1>8, <2>2
    <2> QED
      BY <1>7, <2>1, <2>2
  <1>10. HEADER \in Nat \ {0} /\ Len(got) \in Nat /\ Usable \in Nat
    BY <1>2, PacketsAssumption, LenProperties
  <1>11. \A i \in 1..Len(got) : ~got[i].cut /\ i <= Len(sent) /\ IsPacket(got[i], Pkt(s, i))
    BY <1>1, <1>3 DEF Given
  <1>12. ASSUME got' = got, recv'.stage \in {"payload", "corrupt"}
         PROVE  InOrder(s)' /\ HeaderStage(s)' /\ Given(s)'
    BY <1>1, <1>2, <1>11, <1>12 DEF InOrder, HeaderStage, Given, IsPacket
  <1>13. CASE Len(p) > Usable
    <2>1. /\ got' = got /\ recv' = [recv EXCEPT !.stage = "corrupt"]
      BY <1>13 DEF ReadPayload
    <2>2. /\ recv'.stage = "corrupt" /\ recv'.hdr = recv.hdr
          /\ recv' \in [stage : Stages, hdr : Seq(Units), pay : Seq(Units), length : Nat]
      BY <1>1, <2>1 DEF Typed, Stages
    <2>3. Typed'
      BY <1>1, <1>2, <1>4, <2>1, <2>2 DEF Typed, Sending, Current, Size, Length
    <2>4. Length(c) > Usable
      BY <1>6, <1>7, <1>8, <1>10, <1>13
    <2>5. Fits'
      BY <1>6, <1>8, <2>2, <2>4 DEF Fits
    <2>6. PayloadStage(s)' /\ InStep(s)'
      BY <2>2 DEF PayloadStage, InStep
    <2> QED
      BY <1>4, <1>12, <2>1, <2>2, <2>3, <2>5, <2>6 DEF Inv
  <1>14. CASE ~(Len(p) > Usable) /\ Len(p) < recv.length
    <2>1. /\ got' = got /\ recv' = [recv EXCEPT !.pay = p]
      BY <1>14 DEF ReadPayload
    <2>2. /\ recv'.stage = "payload" /\ recv'.hdr = recv.hdr /\ recv'.pay = p
          /\ recv'.length = recv.length
          /\ recv' \in [stage : Stages, hdr : Seq(Units), pay : Seq(Units), length : Nat]
      BY <1>1, <1>2, <1>7, <2>1 DEF Typed
    <2>3. Typed'
      BY <1>1, <1>2, <1>4, <2>1, <2>2 DEF Typed, Sending, Current, Size, Length
    <2>4. Fits'
      BY <2>2 DEF Fits
    <2>5. PayloadStage(s)'
      BY <1>6, <1>8, <1>9, <1>14, <2>1, <2>2
      DEF PayloadStage, Number, Pkt, Header, Length, Unit, Place
    <2>6. InStep(s)'
      <3>1. After(s, u) = Unit(c, HEADER + Len(p) + 1)
        BY <1>5, <1>6, <1>7, <1>8, <1>10, <1>14 DEF After
      <3>2. Reads(s)' = Place(s, Number, HEADER + Len(p) + 1)
        BY <2>1, <2>2 DEF Reads, Number, Place, Unit, Pkt
      <3> QED
        BY <1>4, <3>1, <3>2 DEF InStep, Place
    <2> QED
      BY <1>4, <1>12, <2>1, <2>2, <2>3, <2>4, <2>5, <2>6 DEF Inv
  <1>15. CASE ~(Len(p) > Usable) /\ ~(Len(p) < recv.length)
    <2>1. Return(recv.hdr, p, FALSE) /\ UNCHANGED <<out, sent, conn>>
      BY <1>2, <1>15 DEF ReadPayload
    <2>2. Len(p) = Length(c)
      BY <1>6, <1>7, <1>8, <1>15
    <2>3. p = Payload(c)
      <3>1. p \in [1..Length(c) -> Units]
        BY <1>7, <2>2, LenProperties
      <3> QED
        BY <1>9, <2>2, <3>1 DEF Payload, Place
    <2>4. First(s)' = Place(s, Number + 1, 1)
      BY <1>4, <1>5, <1>6, <1>7, <1>10, <2>2 DEF After
    <2> HIDE DEF p, c
    <2> QED
      BY <1>2, <1>3, <1>4, <1>7, <1>8, <2>1, <2>3, <2>4, WholeReturn DEF c
  <1> QED
    BY <1>13, <1>14, <1>15
-----------------------------------------------------------------------------
LEMMA NextInv ==
    ASSUME NEW s, Senders = {s}, Inv(s), [Next]_vars
    PROVE  Inv(s)'
  <1>1. CASE Next
    <2>1. CASE proto_send_packet(s)
      BY <2>1, WriteStep, WriteErrorStep DEF proto_send_packet
    <2>2. CASE proto_recv_packet
      BY <2>2, ReadHeaderStep, ReadPayloadStep, EndOfFileStep, ReadErrorStep DEF proto_recv_packet
    <2>3. CASE Hangup \/ Reset \/ Close
      BY <2>3, HangupStep, CloseStep
    <2> QED
      BY <1>1, <2>1, <2>2, <2>3 DEF Next
  <1>2. CASE UNCHANGED vars
    <2>1. out' = out /\ sent' = sent /\ pipe' = pipe /\ conn' = conn /\ recv' = recv /\ got' = got
      BY <1>2 DEF vars
    <2>2. Typed /\ InOrder(s) /\ Chained(s) /\ HeaderStage(s) /\ PayloadStage(s) /\ InStep(s)
          /\ Given(s) /\ Fits
      BY DEF Inv
    <2>3. Typed' /\ InOrder(s)'
      BY <2>1, <2>2 DEF Typed, InOrder, Sending, Current, Size, Length
    <2>4. Writes(s)' = Writes(s)
      BY <2>1 DEF Writes, Place, Unit, Pkt
    <2>5. Chained(s)'
      BY <2>1, <2>2, <2>4, ChainedNext DEF Chained
    <2>6. HeaderStage(s)' /\ PayloadStage(s)' /\ InStep(s)' /\ Given(s)' /\ Fits'
      BY <2>1, <2>2, <2>4
      DEF HeaderStage, HeaderIs, PayloadStage, InStep, Given, Fits, End, Number, Reads, First,
          Place, Unit, Pkt, Header, Length, IsPacket
    <2> QED
      BY <2>3, <2>5, <2>6 DEF Inv
  <1> QED
    BY <1>1, <1>2

\* The invariant holds for one sender.
THEOREM InvHolds == ASSUME NEW s, Senders = {s} PROVE Spec => []Inv(s)
  <1>1. Init => Inv(s)
    BY InitInv
  <1>2. Inv(s) /\ [Next]_vars => Inv(s)'
    BY NextInv
  <1> QED
    BY <1>1, <1>2, PTL DEF Spec

\* With one sender, packets arrive whole and in order (protocol.c:7-32).
THEOREM PacketsWhole == ASSUME NEW s, Senders = {s} PROVE Spec => []Whole
  <1>1. Inv(s) => Whole
    <2> SUFFICES ASSUME Inv(s), NEW i \in 1..Len(got)
                 PROVE  IF got[i].cut THEN i = Len(got) /\ conn # "open"
                        ELSE i <= Len(sent) /\ IsPacket(got[i], sent[i])
      BY DEF Whole
    <2>1. CASE got[i].cut
      BY <2>1 DEF Inv, Given, End
    <2>2. CASE ~got[i].cut
      <3>1. i <= Len(sent) /\ IsPacket(got[i], Pkt(s, i))
        BY <2>2 DEF Inv, Given
      <3>2. Len(sent) \in Nat /\ Len(got) \in Nat
        BY LenProperties DEF Inv, Typed
      <3>3. sent[i] = Pkt(s, i)
        BY <3>1, <3>2 DEF Inv, InOrder
      <3> QED
        BY <2>2, <3>1, <3>3
    <2> QED
      BY <2>1, <2>2
  <1> QED
    BY <1>1, InvHolds, PTL

\* With one sender, only a payload that is too big overflows (protocol.c:24-27).
THEOREM BufferFits == ASSUME NEW s, Senders = {s} PROVE Spec => []Fits
  <1>1. Inv(s) => Fits
    BY DEF Inv
  <1> QED
    BY <1>1, InvHolds, PTL

\* The packets received are the first ones sent.
Received1 == [i \in NotCut |-> What(got[i])]

LEMMA ReceivedFacts ==
    ASSUME NEW s, Senders = {s}, Inv(s)
    PROVE  \E m \in Nat : /\ NotCut = 1..m /\ m <= Len(got) /\ m <= Len(sent)
                          /\ Received1 = [i \in 1..m |-> Pkt(s, i)]
                          /\ m < Len(got) => m + 1 = Len(got) /\ got[Len(got)].cut
  <1> DEFINE last == Len(got)
             m == IF last # 0 /\ got[last].cut THEN last - 1 ELSE last
  <1>1. last \in Nat /\ Len(sent) \in Nat /\ got \in Seq(Returned)
    BY LenProperties DEF Inv, Typed
  <1>2. \A i \in 1..last : IF got[i].cut THEN i = last
                           ELSE i <= Len(sent) /\ IsPacket(got[i], Pkt(s, i))
    BY DEF Inv, Given
  <1>3. m \in Nat /\ m <= last
    BY <1>1
  <1>4. NotCut = 1..m
    BY <1>1, <1>2 DEF NotCut
  <1>5. \A i \in 1..m : i <= Len(sent) /\ What(got[i]) = Pkt(s, i)
    <2> SUFFICES ASSUME NEW i \in 1..m
                 PROVE  i <= Len(sent) /\ What(got[i]) = Pkt(s, i)
      OBVIOUS
    <2>1. i \in 1..last /\ ~got[i].cut
      BY <1>3, <1>4 DEF NotCut
    <2>2. i <= Len(sent) /\ IsPacket(got[i], Pkt(s, i))
      BY <1>2, <2>1
    <2>3. got[i].hdr[1] = Unit(Pkt(s, i), 1)
      BY <2>2, PacketsAssumption DEF IsPacket, Header
    <2> QED
      BY <2>2, <2>3 DEF What, Unit
  <1>6. m <= Len(sent)
    BY <1>1, <1>3, <1>5
  <1>7. Received1 = [i \in 1..m |-> Pkt(s, i)]
    BY <1>4, <1>5 DEF Received1
  <1>8. m < last => m + 1 = last /\ got[last].cut
    BY <1>1
  <1> HIDE DEF m
  <1> QED
    BY <1>3, <1>4, <1>6, <1>7, <1>8

\* Receiving is a step of the promise, or none.
LEMMA ReceiveMaps ==
    ASSUME NEW s, Senders = {s}, Inv(s), Inv(s)', sent' = sent,
           got' = got \/ \E g \in Returned : got' = Append(got, g)
    PROVE  [Pipe!Next]_(Pipe!vars)
  <1>1. PICK m \in Nat : /\ NotCut = 1..m /\ m <= Len(got) /\ m <= Len(sent)
                         /\ Received1 = [i \in 1..m |-> Pkt(s, i)]
                         /\ m < Len(got) => m + 1 = Len(got) /\ got[Len(got)].cut
    BY ReceivedFacts
  <1>2. got \in Seq(Returned) /\ got' \in Seq(Returned) /\ Len(got) \in Nat /\ Len(sent) \in Nat
    BY LenProperties DEF Inv, Typed
  <1>3. CASE got' = got
    BY <1>3 DEF Pipe!vars, NotCut, What, IsPacket, Header, Payload, Length, Unit
  <1>4. ASSUME NEW g \in Returned, got' = Append(got, g)
        PROVE  [Pipe!Next]_(Pipe!vars)
    <2>1. /\ Len(got') = Len(got) + 1 /\ got'[Len(got) + 1] = g
          /\ \A i \in 1..Len(got) : got'[i] = got[i]
      BY <1>2, <1>4, AppendProperties
    <2>2. \A i \in 1..Len(got') : IF got'[i].cut THEN i = Len(got')
                                  ELSE i <= Len(sent') /\ IsPacket(got'[i], Pkt(s, i))
      BY DEF Inv, Given, IsPacket, Header, Payload, Length, Unit, Pkt
    <2>3. \A i \in 1..Len(got) : ~got[i].cut
      BY <1>2, <2>1, <2>2
    <2>4. m = Len(got)
      BY <1>1, <1>2, <2>3
    <2>5. CASE g.cut
      <3>1. NotCut' = NotCut
        BY <1>2, <2>1, <2>3, <2>5 DEF NotCut
      <3>2. \A i \in NotCut : got'[i] = got[i]
        BY <2>1 DEF NotCut
      <3>3. Received1' = Received1
        BY <3>1, <3>2 DEF Received1, What, IsPacket, Header, Payload, Length, Unit
      <3> QED
        BY <3>3 DEF Pipe!vars, Received1
    <2>6. CASE ~g.cut
      <3>1. NotCut' = 1..m + 1
        BY <1>2, <2>1, <2>3, <2>4, <2>6 DEF NotCut
      <3>2. m + 1 <= Len(sent) /\ IsPacket(g, Pkt(s, m + 1))
        BY <1>2, <2>1, <2>2, <2>4, <2>6
      <3>3. g.hdr[1] = Unit(Pkt(s, m + 1), 1)
        BY <3>2, PacketsAssumption DEF IsPacket, Header
      <3>4. What(g) = Pkt(s, m + 1)
        BY <3>2, <3>3 DEF What, Unit
      <3>5. \A i \in 1..m + 1 : What(got'[i]) = Pkt(s, i)
        <4> SUFFICES ASSUME NEW i \in 1..m + 1
                     PROVE  What(got'[i]) = Pkt(s, i)
          OBVIOUS
        <4>1. CASE i = m + 1
          BY <2>1, <2>4, <3>4, <4>1
        <4>2. CASE i \in 1..m
          <5>1. got'[i] = got[i] /\ Received1[i] = What(got[i])
            BY <1>1, <2>1, <2>4, <4>2 DEF Received1
          <5> QED
            BY <1>1, <4>2, <5>1
        <4> QED
          BY <4>1, <4>2
      <3>6. Received1' = [i \in 1..m + 1 |-> Pkt(s, i)]
        <4>1. Received1' = [i \in NotCut' |-> What(got'[i])]
          BY DEF Received1, What, IsPacket, Header, Payload, Length, Unit
        <4> QED
          BY <3>1, <3>5, <4>1
      <3>7. sent[m + 1] = Pkt(s, m + 1)
        BY <1>2, <2>4, <3>2 DEF Inv, InOrder
      <3>8. \A i \in 1..m + 1 : Pkt(s, i) \in [by : {s}, seq : Nat]
        BY DEF Pkt
      <3>9. [i \in 1..m |-> Pkt(s, i)] \in Seq([by : {s}, seq : Nat])
            /\ Len([i \in 1..m |-> Pkt(s, i)]) = m
        BY <3>8
      <3>10. Append([i \in 1..m |-> Pkt(s, i)], Pkt(s, m + 1)) = [i \in 1..m + 1 |-> Pkt(s, i)]
        BY <3>8, <3>9
      <3>11. Len(Received1) < Len(sent) /\ Received1' = Append(Received1, sent[Len(Received1) + 1])
        BY <1>1, <1>2, <2>4, <3>2, <3>6, <3>7, <3>9, <3>10
      <3>12. Pipe!Receive
        BY <3>11 DEF Pipe!Receive, Received1
      <3> QED
        BY <3>12 DEF Pipe!Next
    <2> QED
      BY <2>5, <2>6
  <1> QED
    BY <1>3, <1>4

LEMMA WriteMaps ==
    ASSUME NEW s, Senders = {s}, Inv(s), rio_writen(s)
    PROVE  [Pipe!Next]_(Pipe!vars)
  <1>1. Received1' = Received1
    <2>1. got' = got
      BY DEF rio_writen
    <2> QED
      BY <2>1 DEF Received1, NotCut, What, IsPacket, Header, Payload, Length, Unit
  <1>2. CASE sent' = sent
    BY <1>1, <1>2 DEF Pipe!vars, Received1
  <1>3. CASE sent' = Append(sent, Current(s))
    <2> DEFINE c == Current(s)
    <2>1. /\ out[s].seq \in Nat \ {0} /\ sent \in Seq(Packet) /\ Len(sent) \in Nat
          /\ Len(sent) = out[s].seq - 1 /\ \A i \in 1..Len(sent) : sent[i] = Pkt(s, i)
      BY LenProperties DEF Inv, Typed, InOrder, rio_writen
    <2>2. c = Pkt(s, Len(sent) + 1) /\ c \in Packet
      BY <2>1, PktInPacket DEF Current, Pkt, Sending, rio_writen
    <2>3. \A i \in 1..Len(sent) : sent[i] # c
      <3> SUFFICES ASSUME NEW i \in 1..Len(sent)
                   PROVE  sent[i].seq # c.seq
        OBVIOUS
      <3>1. sent[i].seq = i /\ c.seq = Len(sent) + 1
        <4>1. sent[i] = Pkt(s, i)
          BY <2>1
        <4>2. Pkt(s, i).seq = i /\ Pkt(s, Len(sent) + 1).seq = Len(sent) + 1
          BY DEF Pkt
        <4> HIDE DEF c
        <4> QED
          BY <2>2, <4>1, <4>2
      <3>2. i # Len(sent) + 1
        BY <2>1
      <3> QED
        BY <3>1, <3>2
    <2>4. ASSUME NEW q \in Packet, q.by = c.by, q.seq < c.seq
          PROVE  \E i \in 1..Len(sent) : sent[i] = q
      <3>1. q = Pkt(s, q.seq) /\ q.seq \in Nat \ {0}
        BY PacketFacts
      <3>2. q.seq \in 1..Len(sent)
        BY <2>1, <2>2, <2>4, <3>1 DEF Pkt
      <3> QED
        BY <2>1, <3>1, <3>2
    <2> HIDE DEF c
    <2>5. Pipe!Transmit(c)
      BY <1>1, <1>3, <2>3, <2>4 DEF Pipe!Transmit, Pipe!Transmitted, Received1, c
    <2> QED
      BY <2>2, <2>5 DEF Pipe!Next
  <1> QED
    BY <1>2, <1>3 DEF rio_writen

\* With one sender, units implement packets: each step of proto_send_packet and
\* proto_recv_packet transmits or receives one packet, or nothing yet.
THEOREM PipeImplemented == ASSUME NEW s, Senders = {s} PROVE Spec => ImplementsPipe
  <1>1. Init => Pipe!Init
    <2> SUFFICES ASSUME Init
                 PROVE  Pipe!Init
      OBVIOUS
    <2>1. NotCut = {}
      BY DEF Init, NotCut
    <2> QED
      BY <2>1 DEF Init, Pipe!Init
  <1>2. Inv(s) /\ Inv(s)' /\ [Next]_vars => [Pipe!Next]_(Pipe!vars)
    <2> SUFFICES ASSUME Inv(s), Inv(s)', [Next]_vars
                 PROVE  [Pipe!Next]_(Pipe!vars)
      OBVIOUS
    <2>1. CASE rio_writen(s)
      BY <2>1, WriteMaps
    <2>2. ASSUME sent' = sent, got' = got \/ \E h, p, cut : Return(h, p, cut)
          PROVE  [Pipe!Next]_(Pipe!vars)
      <3>1. CASE got' = got
        BY <2>2, <3>1, ReceiveMaps
      <3>2. CASE got' # got
        <4>1. PICK h, p, cut : got' = Append(got, [hdr |-> h, pay |-> p, cut |-> cut])
          BY <2>2, <3>2 DEF Return
        <4>2. got \in Seq(Returned) /\ got' \in Seq(Returned) /\ Len(got) \in Nat
          BY LenProperties DEF Inv, Typed
        <4>3. got'[Len(got) + 1] = [hdr |-> h, pay |-> p, cut |-> cut]
              /\ Len(got) + 1 \in 1..Len(got')
          BY <4>1, <4>2
        <4>4. [hdr |-> h, pay |-> p, cut |-> cut] \in Returned
          BY <4>2, <4>3, ElementOfSeq
        <4> QED
          BY <2>2, <4>1, <4>4, ReceiveMaps
      <3> QED
        BY <3>1, <3>2
    <2>3. CASE rio_writen_error(s) \/ Hangup \/ Reset \/ Close \/ UNCHANGED vars
      BY <2>2, <2>3 DEF rio_writen_error, Hangup, Reset, Close, vars
    <2>4. CASE proto_recv_packet
      <3>1. sent' = sent
        BY <2>4 DEF proto_recv_packet, ReadHeader, ReadPayload, EndOfFile, rio_readn_error
      <3>2. ASSUME NEW h, NEW cut, HeaderRead(h, cut)
            PROVE  got' = got \/ \E g, p, b : Return(g, p, b)
        BY <3>2 DEF HeaderRead
      <3>3. got' = got \/ \E h, p, cut : Return(h, p, cut)
        <4>1. CASE ReadHeader
          BY <3>2, <4>1 DEF ReadHeader
        <4>2. CASE ReadPayload
          BY <4>2 DEF ReadPayload
        <4>3. CASE EndOfFile
          BY <3>2, <4>3 DEF EndOfFile
        <4>4. CASE rio_readn_error
          BY <4>4 DEF rio_readn_error
        <4> QED
          BY <2>4, <4>1, <4>2, <4>3, <4>4 DEF proto_recv_packet
      <3> QED
        BY <2>2, <3>1, <3>3
    <2> QED
      BY <2>1, <2>3, <2>4 DEF Next, proto_send_packet
  <1> QED
    BY <1>1, <1>2, InvHolds, PTL DEF Spec, ImplementsPipe, Pipe!Spec
=============================================================================
