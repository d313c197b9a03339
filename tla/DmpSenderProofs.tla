--------------------------- MODULE DmpSenderProofs ---------------------------
(***************************************************************************)
(* Proofs about a wrapper handle (SdtWrapper) and the DMP context that     *)
(* uses one (DmpSender): what the handle does is what SdtMailbox promises. *)
(***************************************************************************)
EXTENDS DmpSender, FiniteSetTheorems, SequenceTheorems, IndexLemmas

-----------------------------------------------------------------------------
(***************************************************************************)
(* The fields of PDUs.  B is what may be sent as data.                     *)
(***************************************************************************)
Fields  == {"mid", "hdr", "data"}
AckData == [body |-> "ACK", len |-> 7]
Mids    == {m.mid : m \in Members} \cup {ALL_MEMBERS}
Hdrs    == (Protos \cup {"SDT"}) \X Nat

Sendable(B) == \A d \in B : d # Same /\ d.len \in Nat

Msgs(B) == [mid : Mids, hdr : Hdrs, data : B]
Pdus(B) == [mid : Mids \cup {Same}, hdr : Hdrs \cup {Same}, data : B \cup {Same}]

\* A wrapper is made of PDUs the first of which leaves out nothing.
Wire(B, ps) == ps \in Seq(Pdus(B)) /\ (ps # <<>> => ps[1] \in Msgs(B))

\* p says msg to one who has read v.
Says(p, msg, v) == \A f \in Fields : p[f] = msg[f] \/ (p[f] = Same /\ msg[f] = v[f])

LEMMA SameIsNoField ==
  ASSUME NEW B, Sendable(B)
  PROVE  /\ Same \notin Mids /\ Same \notin Hdrs /\ Same \notin B
         /\ \A msg \in Msgs(B), f \in Fields : msg[f] # Same
         /\ Msgs(B) \subseteq Pdus(B)
<1>1. Same \notin Mids /\ Same \notin Hdrs
  BY WrapperAssumption DEF Mids, Hdrs
<1>2. Same \notin B
  BY DEF Sendable
<1>3. ASSUME NEW msg \in Msgs(B), NEW f \in Fields PROVE msg[f] # Same
  BY <1>1, <1>2 DEF Msgs, Fields
<1> QED
  BY <1>1, <1>2, <1>3 DEF Msgs, Pdus

LEMMA CarriedIs ==
  ASSUME NEW ps, NEW i \in Nat, NEW f, NEW j \in 1 .. i,
         ps[j][f] # Same, \A k \in j + 1 .. i : ps[k][f] = Same
  PROVE  Carried(ps, i, f) = ps[j][f]
<1> DEFINE P(n) == ps[n][f] # Same /\ \A k \in n + 1 .. i : ps[k][f] = Same
           c == CHOOSE n \in 1 .. i : P(n)
<1>1. c \in 1 .. i /\ P(c)
  <2>1. \E n \in 1 .. i : P(n)
    OBVIOUS
  <2> QED
    BY <2>1
<1> HIDE DEF c
<1>2. c = j
  <2>1. ~ (c < j)
    <3>1. c < j => j \in c + 1 .. i
      BY <1>1
    <3> QED
      BY <1>1, <3>1
  <2>2. ~ (j < c)
    <3>1. j < c => c \in j + 1 .. i
      BY <1>1
    <3> QED
      BY <1>1, <3>1
  <2> QED
    BY <1>1, <2>1, <2>2
<1> QED
  BY <1>2 DEF Carried, c

LEMMA CarriedHas ==
  ASSUME NEW ps, NEW i \in Nat, 1 <= i, NEW f, ps[1][f] # Same
  PROVE  \E j \in 1 .. i : ps[j][f] # Same /\ \A k \in j + 1 .. i : ps[k][f] = Same
<1> DEFINE S == {j \in 1 .. i : ps[j][f] # Same}
<1>1. S \in SUBSET (0 .. i) /\ 1 \in S
  OBVIOUS
<1>2. PICK j \in S : \A k \in S : k <= j
  BY <1>1, SomeGreatest
<1>3. \A k \in j + 1 .. i : k \notin S
  BY <1>2
<1> QED
  BY <1>2, <1>3

\* What comes behind does not change what was read, and one that leaves a field
\* out says it again.
ReadOn(ps, qs, n, f) ==
  /\ \A i \in 1 .. n : Carried(qs, i, f) = Carried(ps, i, f)
  /\ Carried(qs, n + 1, f) =
       IF qs[n + 1][f] = Same THEN Carried(ps, n, f) ELSE qs[n + 1][f]

LEMMA CarriedNext ==
  ASSUME NEW ps, NEW qs, NEW n \in Nat, 1 <= n, NEW f, ps[1][f] # Same,
         \A k \in 1 .. n : qs[k] = ps[k]
  PROVE  ReadOn(ps, qs, n, f)
<1>1. ASSUME NEW i \in 1 .. n
      PROVE  Carried(qs, i, f) = Carried(ps, i, f)
  <2>0. i \in Nat /\ 1 <= i
    OBVIOUS
  <2>1. PICK j \in 1 .. i : ps[j][f] # Same /\ \A k \in j + 1 .. i : ps[k][f] = Same
    BY <2>0, CarriedHas
  <2>2. Carried(ps, i, f) = ps[j][f]
    BY <2>0, <2>1, CarriedIs
  <2>3. qs[j] = ps[j] /\ \A k \in j + 1 .. i : qs[k] = ps[k]
    BY <2>1
  <2>4. Carried(qs, i, f) = qs[j][f]
    BY <2>0, <2>1, <2>3, CarriedIs
  <2> QED
    BY <2>2, <2>3, <2>4
<1>2. CASE qs[n + 1][f] = Same
  <2>1. PICK j \in 1 .. n : ps[j][f] # Same /\ \A k \in j + 1 .. n : ps[k][f] = Same
    BY CarriedHas
  <2>2. Carried(ps, n, f) = ps[j][f]
    BY <2>1, CarriedIs
  <2>3. qs[j] = ps[j] /\ \A k \in j + 1 .. n + 1 : qs[k][f] = Same
    <3> SUFFICES ASSUME NEW k \in j + 1 .. n + 1 PROVE qs[k][f] = Same
      BY <2>1
    <3>1. CASE k = n + 1
      BY <1>2, <3>1
    <3>2. CASE k # n + 1
      <4>1. k \in 1 .. n /\ k \in j + 1 .. n
        BY <3>2
      <4> QED
        BY <2>1, <4>1
    <3> QED
      BY <3>1, <3>2
  <2>4. Carried(qs, n + 1, f) = qs[j][f]
    <3>1. n + 1 \in Nat /\ j \in 1 .. n + 1
      OBVIOUS
    <3> QED
      BY <2>1, <2>3, <3>1, CarriedIs
  <2> QED
    BY <1>1, <1>2, <2>2, <2>3, <2>4 DEF ReadOn
<1>3. CASE qs[n + 1][f] # Same
  <2>1. n + 1 \in 1 .. n + 1 /\ n + 1 \in Nat /\ \A k \in (n + 1) + 1 .. n + 1 : qs[k][f] = Same
    OBVIOUS
  <2>2. Carried(qs, n + 1, f) = qs[n + 1][f]
    BY <1>3, <2>1, CarriedIs
  <2> QED
    BY <1>1, <1>3, <2>2 DEF ReadOn
<1> QED
  BY <1>2, <1>3

LEMMA UnpackOne ==
  ASSUME NEW B, Sendable(B), NEW ps, Wire(B, ps), ps # <<>>
  PROVE  Unpack(ps)[1] = ps[1]
<1>1. ps[1] \in Msgs(B) /\ Len(ps) \in Nat /\ 1 \in 1 .. Len(ps)
  BY DEF Wire
<1>2. ASSUME NEW f \in Fields PROVE Carried(ps, 1, f) = ps[1][f]
  <2>1. ps[1][f] # Same
    BY <1>1, SameIsNoField
  <2>2. 1 \in 1 .. 1 /\ \A k \in 1 + 1 .. 1 : ps[k][f] = Same
    OBVIOUS
  <2> QED
    BY <2>1, <2>2, CarriedIs
<1>3. /\ Carried(ps, 1, "mid") = ps[1].mid /\ Carried(ps, 1, "hdr") = ps[1].hdr
      /\ Carried(ps, 1, "data") = ps[1].data
  BY <1>2 DEF Fields
<1>4. Unpack(ps)[1] = [mid |-> ps[1].mid, hdr |-> ps[1].hdr, data |-> ps[1].data]
  BY <1>1, <1>3 DEF Unpack
<1> QED
  BY <1>1, <1>4 DEF Msgs

\* All fields of a wrapper.
LEMMA ReadWire ==
  ASSUME NEW B, Sendable(B), NEW ps, Wire(B, ps), ps # <<>>, NEW qs,
         \A k \in 1 .. Len(ps) : qs[k] = ps[k], NEW f \in Fields
  PROVE  ReadOn(ps, qs, Len(ps), f)
<1>1. Len(ps) \in Nat /\ 1 <= Len(ps) /\ ps[1] \in Msgs(B)
  BY DEF Wire
<1>2. ps[1][f] # Same
  BY <1>1, SameIsNoField
<1> QED
  BY <1>1, <1>2, CarriedNext

LEMMA UnpackTyped ==
  ASSUME NEW B, Sendable(B), NEW ps, Wire(B, ps)
  PROVE  Unpack(ps) \in Seq(Msgs(B)) /\ Len(Unpack(ps)) = Len(ps)
<1>1. Len(ps) \in Nat
  BY DEF Wire
<1>2. ASSUME NEW i \in 1 .. Len(ps)
      PROVE  Unpack(ps)[i] \in Msgs(B)
  <2>1. /\ ps[1] \in Msgs(B) /\ i \in Nat /\ 1 <= i
        /\ \A j \in 1 .. i : ps[j] \in Pdus(B)
    BY <1>1 DEF Wire
  <2>2. ASSUME NEW f \in Fields
        PROVE  \E j \in 1 .. i : Carried(ps, i, f) = ps[j][f] /\ ps[j][f] # Same
    <3>1. ps[1][f] # Same
      BY <2>1, SameIsNoField
    <3>2. PICK j \in 1 .. i : ps[j][f] # Same /\ \A k \in j + 1 .. i : ps[k][f] = Same
      BY <2>1, <3>1, CarriedHas
    <3>3. Carried(ps, i, f) = ps[j][f]
      BY <2>1, <3>2, CarriedIs
    <3> QED
      BY <3>2, <3>3
  <2>3. /\ Carried(ps, i, "mid") \in Mids /\ Carried(ps, i, "hdr") \in Hdrs
        /\ Carried(ps, i, "data") \in B
    <3>1. \E j \in 1 .. i : Carried(ps, i, "mid") = ps[j].mid /\ ps[j].mid # Same
      BY <2>2 DEF Fields
    <3>2. \E j \in 1 .. i : Carried(ps, i, "hdr") = ps[j].hdr /\ ps[j].hdr # Same
      BY <2>2 DEF Fields
    <3>3. \E j \in 1 .. i : Carried(ps, i, "data") = ps[j].data /\ ps[j].data # Same
      BY <2>2 DEF Fields
    <3> QED
      BY <2>1, <3>1, <3>2, <3>3 DEF Pdus
  <2> QED
    BY <1>1, <2>3 DEF Unpack, Msgs
<1>3. Unpack(ps) = [i \in 1 .. Len(ps) |-> Unpack(ps)[i]]
  BY DEF Unpack
<1> QED
  BY <1>1, <1>2, <1>3

\* A PDU more is a message more.
LEMMA UnpackAppend ==
  ASSUME NEW B, Sendable(B), NEW ps, Wire(B, ps), NEW p \in Pdus(B),
         NEW msg \in Msgs(B),
         IF ps = <<>> THEN p = msg ELSE Says(p, msg, Unpack(ps)[Len(ps)])
  PROVE  /\ Wire(B, Append(ps, p))
         /\ Unpack(Append(ps, p)) = Append(Unpack(ps), msg)
<1> DEFINE qs == Append(ps, p)
           n == Len(ps)
<1>1. /\ n \in Nat /\ ps \in Seq(Pdus(B)) /\ qs \in Seq(Pdus(B)) /\ Len(qs) = n + 1
      /\ \A k \in 1 .. n : qs[k] = ps[k]
      /\ qs[n + 1] = p
  BY AppendProperties DEF Wire
<1>2. Wire(B, qs) /\ qs # <<>>
  BY <1>1 DEF Wire
<1>3. /\ Unpack(ps) \in Seq(Msgs(B)) /\ Len(Unpack(ps)) = n
      /\ Unpack(qs) \in Seq(Msgs(B)) /\ Len(Unpack(qs)) = n + 1
  BY <1>1, <1>2, UnpackTyped
<1>4. ASSUME NEW i \in 1 .. n PROVE Unpack(qs)[i] = Unpack(ps)[i]
  <2>1. ps # <<>>
    BY <1>1
  <2>2. \A f \in Fields : Carried(qs, i, f) = Carried(ps, i, f)
    BY <1>1, <2>1, ReadWire DEF ReadOn
  <2>3. i \in 1 .. Len(qs) /\ i \in 1 .. Len(ps)
    BY <1>1
  <2> QED
    BY <2>2, <2>3 DEF Unpack, Fields
<1>5. Unpack(qs)[n + 1] = msg
  <2>1. CASE ps = <<>>
    <3>1. n = 0 /\ qs[1] = msg
      BY <1>1, <2>1
    <3> QED
      BY <1>2, <3>1, UnpackOne
  <2>2. CASE ps # <<>>
    <3>1. n \in 1 .. Len(ps) /\ n + 1 \in 1 .. Len(qs)
      BY <1>1, <2>2
    <3>2. \A f \in Fields : Unpack(ps)[n][f] = Carried(ps, n, f)
      BY <3>1 DEF Unpack, Fields
    <3>3. ASSUME NEW f \in Fields PROVE Carried(qs, n + 1, f) = msg[f]
      <4>1. Carried(qs, n + 1, f) = IF p[f] = Same THEN Carried(ps, n, f) ELSE p[f]
        <5>1. ReadOn(ps, qs, n, f)
          BY <1>1, <2>2, ReadWire
        <5> QED
          BY <1>1, <5>1 DEF ReadOn
      <4>2. msg[f] # Same
        BY SameIsNoField
      <4>3. p[f] = msg[f] \/ (p[f] = Same /\ msg[f] = Unpack(ps)[n][f])
        BY <2>2 DEF Says
      <4> QED
        BY <3>2, <4>1, <4>2, <4>3
    <3>4. Unpack(qs)[n + 1] = [mid |-> msg.mid, hdr |-> msg.hdr, data |-> msg.data]
      BY <3>1, <3>3 DEF Unpack, Fields
    <3> QED
      BY <3>4 DEF Msgs
  <2> QED
    BY <2>1, <2>2
<1>6. Unpack(qs) = Append(Unpack(ps), msg)
  <2>1. /\ Append(Unpack(ps), msg) \in Seq(Msgs(B)) /\ Len(Append(Unpack(ps), msg)) = n + 1
        /\ \A k \in 1 .. n : Append(Unpack(ps), msg)[k] = Unpack(ps)[k]
        /\ Append(Unpack(ps), msg)[n + 1] = msg
    BY <1>3, AppendProperties
  <2>2. \A k \in 1 .. n + 1 : Unpack(qs)[k] = Append(Unpack(ps), msg)[k]
    <3> SUFFICES ASSUME NEW k \in 1 .. n + 1
                 PROVE  Unpack(qs)[k] = Append(Unpack(ps), msg)[k]
      OBVIOUS
    <3>1. k = n + 1 \/ k \in 1 .. n
      BY <1>1
    <3> HIDE DEF qs, n
    <3> QED
      BY <1>4, <1>5, <2>1, <3>1
  <2> HIDE DEF qs, n
  <2> QED
    BY <1>3, <2>1, <2>2, SeqEqual
<1> QED
  BY <1>2, <1>6

\* The data of a packet, ACKs included.
WithAcks(B) == B \cup {AckData}

LEMMA AcksAreMsgs ==
  ASSUME NEW B, Sendable(B)
  PROVE  /\ Sendable(WithAcks(B)) /\ \A ps : Wire(B, ps) => Wire(WithAcks(B), ps)
         /\ \A m \in Members : AckPDU(m) \in Msgs(WithAcks(B))
<1>1. Sendable(WithAcks(B))
  <2>1. AckData # Same /\ AckData.len \in Nat
    BY WrapperAssumption DEF AckData
  <2> QED
    BY <2>1 DEF Sendable, WithAcks
<1>2. ASSUME NEW ps, Wire(B, ps) PROVE Wire(WithAcks(B), ps)
  <2>1. Msgs(B) \subseteq Msgs(WithAcks(B)) /\ Pdus(B) \subseteq Pdus(WithAcks(B))
    BY DEF Msgs, Pdus, WithAcks
  <2>2. ps \in Seq(Pdus(WithAcks(B)))
    BY <1>2, <2>1 DEF Wire
  <2> QED
    BY <1>2, <2>1, <2>2 DEF Wire
<1>3. ASSUME NEW m \in Members PROVE AckPDU(m) \in Msgs(WithAcks(B))
  <2>1. m.mid \in Mids /\ <<"SDT", m.back>> \in Hdrs
    BY WrapperAssumption DEF Mids, Hdrs
  <2> QED
    BY <2>1 DEF AckPDU, Msgs, WithAcks, AckData
<1> QED
  BY <1>1, <1>2, <1>3

\* What goes out are the messages of the PDUs, and ACKs.
LEMMA SentIs ==
  ASSUME NEW B, Sendable(B), NEW ps, Wire(B, ps), NEW c, NEW f, NEW n \in Int,
         NEW acks \in AckRuns(c, n), "noack" \in f => n = 0,
         Transmit(c, ps, f, acks)
  PROVE  Mail!Sent(c, Unpack(ps), f)
<1>0. PICK C : Sendable(C) /\ Wire(C, ps) /\ \A m \in Members : AckPDU(m) \in Msgs(C)
  BY AcksAreMsgs
<1> DEFINE qs == ps \o acks
<1>1. PICK q \in [1 .. n -> On(c)] : acks = [i \in 1 .. n |-> AckPDU(q[i])]
  BY DEF AckRuns
<1>2. PICK k \in Nat : 1 .. n = 1 .. k /\ (n = 0 => k = 0)
  <2>1. CASE n >= 0
    BY <2>1
  <2>2. CASE n < 0
    <3>1. 1 .. n = 1 .. 0
      BY <2>2
    <3> QED
      BY <2>2, <3>1
  <2> QED
    BY <2>1, <2>2
<1>3. /\ acks \in Seq(Msgs(C)) /\ Len(acks) = k
      /\ \A i \in 1 .. k : acks[i] \in AckMsgs(c)
  <2>1. acks = [i \in 1 .. k |-> AckPDU(q[i])] /\ \A i \in 1 .. k : q[i] \in On(c)
    BY <1>1, <1>2
  <2>2. \A m \in On(c) : AckPDU(m) \in Msgs(C) /\ AckPDU(m) \in AckMsgs(c)
    BY <1>0 DEF On, AckMsgs
  <2> QED
    BY <2>1, <2>2
<1>4. ps \in Seq(Pdus(C)) /\ Len(ps) \in Nat /\ acks \in Seq(Pdus(C))
  <2>1. Msgs(C) \subseteq Pdus(C)
    BY <1>0, SameIsNoField
  <2> QED
    BY <1>0, <1>3, <2>1 DEF Wire
<1>5. /\ qs \in Seq(Pdus(C)) /\ Len(qs) = Len(ps) + k
      /\ \A i \in 1 .. Len(ps) : qs[i] = ps[i]
      /\ \A i \in 1 .. k : qs[Len(ps) + i] = acks[i]
  <2>1. /\ qs \in Seq(Pdus(C)) /\ Len(qs) = Len(ps) + Len(acks)
        /\ \A i \in 1 .. Len(ps) + Len(acks) :
             qs[i] = IF i <= Len(ps) THEN ps[i] ELSE acks[i - Len(ps)]
    BY <1>4, ConcatProperties
  <2> HIDE DEF qs
  <2>2. \A i \in 1 .. Len(ps) : qs[i] = ps[i]
    BY <1>3, <1>4, <2>1
  <2>3. ASSUME NEW i \in 1 .. k PROVE qs[Len(ps) + i] = acks[i]
    <3>1. /\ Len(ps) + i \in 1 .. Len(ps) + Len(acks) /\ ~ (Len(ps) + i <= Len(ps))
          /\ (Len(ps) + i) - Len(ps) = i
      BY <1>3, <1>4
    <3> QED
      BY <2>1, <3>1
  <2> QED
    BY <1>3, <2>1, <2>2, <2>3
<1>6. ASSUME NEW i \in 1 .. Len(ps) PROVE Unpack(qs)[i] = Unpack(ps)[i]
  <2>1. ps # <<>>
    BY <1>4
  <2>2. ASSUME NEW f1 \in Fields PROVE Carried(qs, i, f1) = Carried(ps, i, f1)
    <3>1. \A k1 \in 1 .. Len(ps) : qs[k1] = ps[k1]
      BY <1>5
    <3> HIDE DEF qs
    <3>2. ReadOn(ps, qs, Len(ps), f1)
      BY <1>0, <2>1, <3>1, ReadWire
    <3> QED
      BY <3>2 DEF ReadOn
  <2>3. i \in 1 .. Len(qs)
    BY <1>4, <1>5
  <2> QED
    BY <2>2, <2>3 DEF Unpack, Fields
<1>7. ASSUME NEW i \in Len(ps) + 1 .. Len(qs) PROVE Unpack(qs)[i] \in AckMsgs(c)
  <2>1. PICK a \in 1 .. k : i = Len(ps) + a
    <3>1. i - Len(ps) \in 1 .. k /\ i = Len(ps) + (i - Len(ps))
      BY <1>4, <1>5
    <3> QED
      BY <3>1
  <2>2. qs[i] = acks[a] /\ qs[i] \in AckMsgs(c) /\ qs[i] \in Msgs(C)
    BY <1>3, <1>5, <2>1
  <2>3. i \in Nat /\ i \in 1 .. i /\ i \in 1 .. Len(qs)
    BY <1>4
  <2>4. ASSUME NEW f1 \in Fields PROVE Carried(qs, i, f1) = qs[i][f1]
    <3>1. qs[i][f1] # Same
      BY <1>0, <2>2, SameIsNoField
    <3>2. \A j \in i + 1 .. i : qs[j][f1] = Same
      BY <2>3
    <3> HIDE DEF qs
    <3> QED
      BY <2>3, <3>1, <3>2, CarriedIs
  <2>5. Unpack(qs)[i] = [mid |-> qs[i].mid, hdr |-> qs[i].hdr, data |-> qs[i].data]
    BY <2>3, <2>4 DEF Unpack, Fields
  <2> QED
    BY <2>2, <2>5 DEF Msgs
<1>8. /\ Unpack(ps) \in Seq(Msgs(C)) /\ Len(Unpack(ps)) = Len(ps)
      /\ Unpack(qs) \in Seq(Msgs(C)) /\ Len(Unpack(qs)) = Len(qs)
  <2>1. Unpack(ps) \in Seq(Msgs(C)) /\ Len(Unpack(ps)) = Len(ps)
    BY <1>0, UnpackTyped
  <2>2. AckMsgs(c) \subseteq Msgs(C)
    BY <1>0 DEF AckMsgs, On
  <2>3. \A i \in 1 .. Len(qs) : Unpack(qs)[i] \in Msgs(C)
    <3> SUFFICES ASSUME NEW i \in 1 .. Len(qs) PROVE Unpack(qs)[i] \in Msgs(C)
      OBVIOUS
    <3>1. i \in 1 .. Len(ps) \/ i \in Len(ps) + 1 .. Len(qs)
      BY <1>4, <1>5
    <3> HIDE DEF qs
    <3> QED
      BY <1>6, <1>7, <2>1, <2>2, <3>1
  <2>4. Unpack(qs) = [i \in 1 .. Len(qs) |-> Unpack(qs)[i]] /\ Len(qs) \in Nat
    BY <1>4, <1>5 DEF Unpack
  <2> HIDE DEF qs
  <2> QED
    BY <2>1, <2>3, <2>4
<1>9. packet' = [chan |-> c, msgs |-> Unpack(qs), reliable |-> "on" \in f]
      /\ packets' = packets + 1
  BY DEF Transmit
<1> HIDE DEF qs
<1>10. packet'.chan = c /\ packet'.msgs = Unpack(qs) /\ packet'.reliable = ("on" \in f)
  BY <1>9
<1>11. \A i \in 1 .. Len(Unpack(ps)) : packet'.msgs[i] = Unpack(ps)[i]
  BY <1>6, <1>8, <1>10
<1>12. \A i \in Len(ps) + 1 .. Len(qs) : "noack" \notin f
  BY <1>2, <1>4, <1>5
<1>13. Len(ps) <= Len(qs)
  BY <1>4, <1>5
<1>14. ASSUME NEW i \in Len(Unpack(ps)) + 1 .. Len(packet'.msgs)
       PROVE  packet'.msgs[i] \in AckMsgs(c) /\ "noack" \notin f
  <2>1. i \in Len(ps) + 1 .. Len(qs)
    BY <1>8, <1>10
  <2> QED
    BY <1>7, <1>10, <1>12, <2>1
<1> QED
  BY <1>8, <1>9, <1>10, <1>11, <1>13, <1>14 DEF Mail!Sent

-----------------------------------------------------------------------------
(***************************************************************************)
(* The invariant of a handle: prev is what the last PDU says, and no       *)
(* message waits without a wrapper and its channel.                        *)
(***************************************************************************)
Begun == open # Same =>
  /\ held /\ chan \in Chans
  /\ open.msg \in [mid : Mids, hdr : Hdrs, data : {Same}] /\ open.p = Packed(open.msg)
  /\ ~ WRAP_REL_ERR(open.f \cup pflags)

Holding(B) ==
  IF pdus = <<>> THEN prev = None /\ pflags = {}
  ELSE /\ held /\ chan \in Chans
       /\ prev \in Msgs(B) /\ prev = Unpack(pdus)[Len(pdus)] /\ call.msg = prev

HandleInv(B) ==
  /\ Wire(B, pdus) /\ left \in Int
  /\ call = [msg |-> call.msg, kind |-> call.kind, ok |-> call.ok]
  /\ Holding(B) /\ Begun

MailStep == Mail!Next \/ UNCHANGED Mail!mvars

LEMMA BytesTyped ==
  ASSUME NEW B, Sendable(B), NEW p \in Pdus(B)
  PROVE  Bytes(p) \in Int
<1>1. p.data = Same \/ p.data.len \in Nat
  BY DEF Pdus, Sendable
<1> QED
  BY <1>1 DEF Bytes, OFS_VECTOR, LEN_CB_VECTOR, LEN_CB_HEADER

LEMMA MessageTyped ==
  ASSUME NEW B, NEW m \in Members, NEW proto \in Protos, NEW f, NEW d
  PROVE  /\ Address(m, proto, f).mid \in Mids /\ Address(m, proto, f).hdr \in Hdrs
         /\ d \in B => Message(Address(m, proto, f), d) \in Msgs(B)
         /\ Message(Address(m, proto, f), Same) \in [mid : Mids, hdr : Hdrs, data : {Same}]
<1>1. m.mid \in Mids /\ ALL_MEMBERS \in Mids /\ m.back \in Nat
  BY WrapperAssumption DEF Mids
<1>2. Address(m, proto, f).mid \in Mids /\ Address(m, proto, f).hdr \in Hdrs
  BY <1>1 DEF Address, Hdrs
<1> HIDE DEF Address
<1> QED
  BY <1>2 DEF Message, Msgs

\* The PDU of a message says it after those that are there.
LEMMA PackedFacts ==
  ASSUME NEW B, Sendable(B), HandleInv(B), NEW msg \in Msgs(B)
  PROVE  /\ Packed(msg) \in Pdus(B)
         /\ IF pdus = <<>> THEN Packed(msg) = msg ELSE Says(Packed(msg), msg, prev)
<1>1. msg.mid \in Mids /\ msg.hdr \in Hdrs /\ msg.data \in B
      /\ msg = [mid |-> msg.mid, hdr |-> msg.hdr, data |-> msg.data]
  BY DEF Msgs
<1>2. msg.mid # Same /\ msg.hdr # Same
  BY <1>1, SameIsNoField
<1>3. CASE pdus = <<>>
  <2>1. prev.mid = Same /\ prev.hdr = Same
    BY <1>3 DEF HandleInv, Holding, None
  <2> QED
    BY <1>1, <1>2, <1>3, <2>1 DEF Packed, Pdus
<1>4. CASE pdus # <<>>
  BY <1>1, <1>4 DEF Packed, Pdus, Says, Fields
<1> QED
  BY <1>3, <1>4

\* One more message.
LEMMA PostStep ==
  ASSUME NEW B, Sendable(B), HandleInv(B), NEW c \in Chans, NEW p \in Pdus(B),
         NEW msg \in Msgs(B), NEW f,
         IF pdus = <<>> THEN p = msg ELSE Says(p, msg, prev),
         held, chan \in {NoChan, c}, ~ WRAP_REL_ERR(f \cup pflags),
         Append1(c, p, msg, f), Offered(msg, f), UNCHANGED <<packet, packets>>
  PROVE  HandleInv(B)' /\ MailStep
<1>1. /\ pdus' = Append(pdus, p) /\ prev' = msg /\ left' = left - Bytes(p)
      /\ pflags' = pflags \cup (f \cap WHOLE_WRAP_FLAGS)
      /\ chan' = c /\ open' = Same /\ held' = held
  BY DEF Append1
<1>2. /\ call' = [msg |-> msg, kind |-> f \cap WHOLE_WRAP_FLAGS, ok |-> TRUE]
      /\ call'.ok /\ call'.msg = msg /\ call'.kind = f \cap WHOLE_WRAP_FLAGS
  BY DEF Offered
<1>3. Wire(B, pdus) /\ pdus \in Seq(Pdus(B)) /\ Len(pdus) \in Nat
  BY DEF HandleInv, Wire
<1>4. Wire(B, pdus') /\ Unpack(pdus') = Append(Unpack(pdus), msg)
  <2>1. IF pdus = <<>> THEN p = msg ELSE Says(p, msg, Unpack(pdus)[Len(pdus)])
    BY DEF HandleInv, Holding
  <2> QED
    BY <1>1, <1>3, <2>1, UnpackAppend
<1>5. pdus' # <<>> /\ Len(pdus') = Len(pdus) + 1
  BY <1>1, <1>3
<1>6. msg = Unpack(pdus')[Len(pdus')]
  <2>1. Unpack(pdus) \in Seq(Msgs(B)) /\ Len(Unpack(pdus)) = Len(pdus)
    BY <1>3, UnpackTyped
  <2>2. Append(Unpack(pdus), msg)[Len(pdus) + 1] = msg
    BY <2>1, AppendProperties
  <2> QED
    BY <1>4, <1>5, <2>2
<1>7. left' \in Int
  BY <1>1, BytesTyped DEF HandleInv
<1>8. HandleInv(B)'
  <2>1. Holding(B)'
    BY <1>1, <1>2, <1>5, <1>6 DEF Holding
  <2>2. Begun'
    BY <1>1 DEF Begun
  <2> QED
    BY <1>2, <1>4, <1>7, <2>1, <2>2 DEF HandleInv
<1>9. Mail!Next
  <2>1. Unpack(pdus) # <<>> => chan' = chan
    <3>1. Unpack(pdus) # <<>> => pdus # <<>>
      BY <1>3, UnpackTyped
    <3> QED
      BY <1>1, <3>1, WrapperAssumption DEF HandleInv, Holding
  <2>2. ~ Mail!Mixed(pflags')
    BY <1>1 DEF Mail!Mixed, WRAP_REL_ERR
  <2>3. Mail!Accepted(Unpack(pdus), pflags)
    BY <1>1, <1>2, <1>4, <2>2 DEF Mail!Accepted
  <2> QED
    BY <2>1, <2>3 DEF Mail!Next, Mail!Post
<1> QED
  BY <1>8, <1>9 DEF MailStep

\* _flushWrapper puts the messages in hand on the network.
LEMMA FlushSends ==
  ASSUME NEW B, Sendable(B), HandleInv(B), _flushWrapper
  PROVE  Mail!Sent(chan, Unpack(pdus), pflags)
<1>1. PICK n : /\ n = IF "noack" \in pflags THEN 0 ELSE Room4Acks(chan)
               /\ \E acks \in AckRuns(chan, n) : Transmit(chan, pdus, pflags, acks)
  BY DEF _flushWrapper
<1>2. Room4Acks(chan) \in Int
  <2>1. IsFiniteSet(On(chan))
    <3>1. On(chan) \in SUBSET Members
      BY DEF On
    <3> QED
      BY <3>1, FS_Subset, WrapperAssumption
  <2>2. Cardinality(On(chan)) \in Int
    BY <2>1, FS_CardinalityType
  <2>3. left \div LEN_ACKEXTRA \in Int
    BY DEF HandleInv, LEN_ACKEXTRA, OFS_CB_PDU1DATA, OFS_VECTOR, LEN_CB_VECTOR, LEN_CB_HEADER
  <2> QED
    BY <2>2, <2>3 DEF Room4Acks
<1>3. n \in Int /\ ("noack" \in pflags => n = 0) /\ Wire(B, pdus)
  BY <1>1, <1>2 DEF HandleInv
<1> QED
  BY <1>1, <1>3, SentIs

\* A message in a new wrapper.
LEMMA FreshStep ==
  ASSUME NEW B, Sendable(B), HandleInv(B), NEW c \in Chans, NEW msg \in Msgs(B), NEW f,
         NEW size \in Int, ~ WRAP_REL_ERR(f),
         IF held THEN _flushWrapper ELSE UNCHANGED <<packet, packets>>,
         NewWith(c, msg, f, size), Offered(msg, f)
  PROVE  HandleInv(B)' /\ MailStep
<1>1. /\ pdus' = <<msg>> /\ prev' = msg /\ left' = size - Bytes(msg)
      /\ pflags' = f \cap WHOLE_WRAP_FLAGS
      /\ chan' = c /\ open' = Same /\ held' = TRUE
  BY DEF NewWith
<1>2. /\ call' = [msg |-> msg, kind |-> f \cap WHOLE_WRAP_FLAGS, ok |-> TRUE]
      /\ call'.ok /\ call'.msg = msg /\ call'.kind = f \cap WHOLE_WRAP_FLAGS
  BY DEF Offered
<1>3. msg \in Pdus(B) /\ Wire(B, <<>>)
  BY SameIsNoField DEF Wire
<1>4. /\ Wire(B, pdus') /\ Unpack(pdus') = <<msg>> /\ Unpack(pdus')[Len(pdus')] = msg
      /\ pdus' # <<>>
  <2>1. Unpack(<<>>) = <<>>
    BY DEF Unpack
  <2>2. IF <<>> = <<>> THEN msg = msg ELSE Says(msg, msg, Unpack(<<>>)[Len(<<>>)])
    OBVIOUS
  <2>3. /\ Wire(B, Append(<<>>, msg))
        /\ Unpack(Append(<<>>, msg)) = Append(Unpack(<<>>), msg)
    BY <1>3, <2>2, UnpackAppend
  <2>4. Append(<<>>, msg) = <<msg>> /\ <<msg>> # <<>> /\ Len(<<msg>>) = 1 /\ <<msg>>[1] = msg
    OBVIOUS
  <2>5. Wire(B, pdus') /\ Unpack(pdus') = <<msg>>
    BY <1>1, <2>1, <2>3, <2>4
  <2> QED
    BY <1>1, <2>4, <2>5
<1>5. HandleInv(B)'
  <2>1. Holding(B)'
    BY <1>1, <1>2, <1>4 DEF Holding
  <2>2. Begun'
    BY <1>1 DEF Begun
  <2>3. left' \in Int
    BY <1>1, <1>3, BytesTyped
  <2> QED
    BY <1>2, <1>4, <2>1, <2>2, <2>3 DEF HandleInv
<1>6. Mail!Accepted(<<>>, {})
  <2>1. ~ Mail!Mixed(pflags') /\ pflags' = {} \cup call'.kind
    BY <1>1, <1>2 DEF Mail!Mixed, WRAP_REL_ERR
  <2>2. Unpack(pdus') = Append(<<>>, call'.msg)
    BY <1>2, <1>4
  <2> QED
    BY <1>2, <2>1, <2>2 DEF Mail!Accepted
<1>7. Mail!Next
  <2>1. CASE held
    BY <1>6, <2>1, FlushSends DEF Mail!Next, Mail!PostAfresh
  <2>2. CASE ~ held
    <3>1. pdus = <<>> /\ pflags = {} /\ Unpack(pdus) = <<>>
      BY <2>2 DEF HandleInv, Holding, Unpack
    <3> QED
      BY <1>6, <2>2, <3>1 DEF Mail!Next, Mail!Post
  <2> QED
    BY <2>1, <2>2
<1> QED
  BY <1>5, <1>7 DEF MailStep

LEMMA RefuseStep ==
  ASSUME NEW B, HandleInv(B), Refused, UNCHANGED <<wvars, packet, packets>>
  PROVE  HandleInv(B)' /\ MailStep
<1>1. /\ call' = [msg |-> call.msg, kind |-> call.kind, ok |-> FALSE]
      /\ ~ call'.ok /\ call'.msg = call.msg
  BY DEF Refused, HandleInv
<1>2. UNCHANGED <<held, chan, pdus, left, prev, pflags, open>>
  BY DEF wvars
<1>3. HandleInv(B)'
  BY <1>1, <1>2 DEF HandleInv, Holding, Begun, Packed
<1>4. Mail!Next
  BY <1>1, <1>2 DEF Mail!Next, Mail!Refuse
<1> QED
  BY <1>3, <1>4 DEF MailStep
-----------------------------------------------------------------------------
(***************************************************************************)
(* The calls.                                                              *)
(***************************************************************************)
LEMMA AddStep ==
  ASSUME NEW B, Sendable(B), HandleInv(B), NEW m \in Members, NEW proto \in Protos,
         NEW f \in Flags, NEW d \in B, addProtoMsg(m, proto, f, d)
  PROVE  HandleInv(B)' /\ MailStep
<1> DEFINE msg == Message(Address(m, proto, f), d)
           fits == held /\ Matches(m, f) /\ Bytes(Packed(msg)) <= left
<1>1. msg \in Msgs(B) /\ m.ch \in Chans /\ ~ WRAP_REL_ERR(f) /\ Room \in Int
  BY MessageTyped, WrapperAssumption DEF Chans
<1>2. \/ Refused /\ UNCHANGED <<wvars, packet, packets>>
      \/ /\ fits /\ Append1(m.ch, Packed(msg), msg, f)
         /\ Offered(msg, f) /\ UNCHANGED <<packet, packets>>
      \/ /\ IF held THEN _flushWrapper ELSE UNCHANGED <<packet, packets>>
         /\ NewWith(m.ch, msg, f, Room) /\ Offered(msg, f)
  BY DEF addProtoMsg
<1> HIDE DEF msg
<1>3. CASE Refused /\ UNCHANGED <<wvars, packet, packets>>
  BY <1>3, RefuseStep
<1>4. CASE /\ fits /\ Append1(m.ch, Packed(msg), msg, f)
           /\ Offered(msg, f) /\ UNCHANGED <<packet, packets>>
  <2>1. held /\ chan \in {NoChan, m.ch} /\ ~ WRAP_REL_ERR(f \cup pflags)
    BY <1>4 DEF Matches
  <2>2. /\ Packed(msg) \in Pdus(B)
        /\ IF pdus = <<>> THEN Packed(msg) = msg ELSE Says(Packed(msg), msg, prev)
    BY <1>1, PackedFacts
  <2> QED
    BY <1>1, <1>4, <2>1, <2>2, PostStep
<1>5. CASE /\ IF held THEN _flushWrapper ELSE UNCHANGED <<packet, packets>>
           /\ NewWith(m.ch, msg, f, Room) /\ Offered(msg, f)
  BY <1>1, <1>5, FreshStep
<1> QED
  BY <1>2, <1>3, <1>4, <1>5

\* What is written after endp is no message yet.
LEMMA StartStep ==
  ASSUME NEW B, Sendable(B), HandleInv(B), NEW m \in Members, NEW proto \in Protos,
         NEW f \in Flags, NEW size \in Nat, startProtoMsg(m, proto, f, size)
  PROVE  HandleInv(B)' /\ MailStep
<1> DEFINE msg == Message(Address(m, proto, f), Same)
           need == size + 2 * OFS_CB_PDU1DATA
           fits == held /\ Matches(m, f) /\ FitsOpen(msg, size)
           Opened(p, room, told) == [p |-> p, msg |-> msg, f |-> f, room |-> room, told |-> told]
           rest == left - Bytes(Packed(msg))
<1>1. /\ msg \in [mid : Mids, hdr : Hdrs, data : {Same}] /\ m.ch \in Chans
      /\ ~ WRAP_REL_ERR(f) /\ need \in Int
  BY MessageTyped, WrapperAssumption DEF Chans, OFS_CB_PDU1DATA, OFS_VECTOR,
     LEN_CB_VECTOR, LEN_CB_HEADER
<1>2. \/ /\ fits /\ chan' = m.ch
         /\ open' = Opened(Packed(msg), rest, rest - size)
         /\ UNCHANGED <<held, pdus, left, prev, pflags, call, packet, packets>>
      \/ Refused /\ UNCHANGED <<wvars, packet, packets>>
      \/ /\ IF held THEN _flushWrapper ELSE UNCHANGED <<packet, packets>>
         /\ pdus' = <<>> /\ pflags' = {} /\ prev' = None /\ UNCHANGED call
         /\ IF need <= Room
            THEN /\ held' = TRUE /\ chan' = m.ch /\ left' = need
                 /\ open' = Opened(msg, need - Bytes(msg), need - Bytes(msg))
            ELSE held' = FALSE /\ chan' = NoChan /\ left' = 0 /\ open' = Same
  BY DEF startProtoMsg
<1> HIDE DEF msg, need, rest
<1>3. CASE /\ fits /\ chan' = m.ch
           /\ open' = Opened(Packed(msg), rest, rest - size)
           /\ UNCHANGED <<held, pdus, left, prev, pflags, call, packet, packets>>
  <2>1. held /\ chan \in {NoChan, m.ch} /\ ~ WRAP_REL_ERR(f \cup pflags)
    BY <1>3 DEF Matches
  <2>2. pdus # <<>> => chan' = chan
    BY <1>3, <2>1, WrapperAssumption DEF HandleInv, Holding
  <2>3. HandleInv(B)'
    <3>1. Begun'
      <4>1. open'.msg = msg /\ open'.p = Packed(msg) /\ open'.f = f
        BY <1>3
      <4>2. Packed(msg)' = Packed(msg)
        BY <1>3 DEF Packed, msg, Message
      <4> QED
        BY <1>1, <1>3, <2>1, <4>1, <4>2 DEF Begun, Packed
    <3>2. Holding(B)'
      BY <1>1, <1>3, <2>2 DEF HandleInv, Holding
    <3> QED
      BY <1>3, <3>1, <3>2 DEF HandleInv
  <2>4. MailStep
    <3>1. CASE pdus = <<>>
      <4>1. Unpack(pdus) = <<>> /\ Unpack(pdus') = Unpack(pdus)
        BY <1>3, <3>1 DEF Unpack
      <4> QED
        BY <1>3, <4>1 DEF MailStep, Mail!Next, Mail!Prepare
    <3>2. CASE pdus # <<>>
      <4>1. Unpack(pdus') = Unpack(pdus)
        BY <1>3
      <4> QED
        BY <1>3, <2>2, <3>2, <4>1 DEF MailStep, Mail!mvars
    <3> QED
      BY <3>1, <3>2
  <2> QED
    BY <2>3, <2>4
<1>4. CASE Refused /\ UNCHANGED <<wvars, packet, packets>>
  BY <1>4, RefuseStep
<1>5. CASE /\ IF held THEN _flushWrapper ELSE UNCHANGED <<packet, packets>>
           /\ pdus' = <<>> /\ pflags' = {} /\ prev' = None /\ UNCHANGED call
           /\ IF need <= Room
              THEN /\ held' = TRUE /\ chan' = m.ch /\ left' = need
                   /\ open' = Opened(msg, need - Bytes(msg), need - Bytes(msg))
              ELSE held' = FALSE /\ chan' = NoChan /\ left' = 0 /\ open' = Same
  <2>1. Wire(B, pdus') /\ left' \in Int /\ Holding(B)' /\ Unpack(pdus') = <<>>
    BY <1>1, <1>5 DEF Wire, Holding, Unpack
  <2>2. Begun'
    <3>1. CASE open' = Same
      BY <3>1 DEF Begun
    <3>2. CASE open' # Same
      <4>1. held' /\ chan' = m.ch /\ open'.msg = msg /\ open'.p = msg /\ open'.f = f
        BY <1>5, <3>2
      <4>2. msg.mid # Same /\ msg.hdr # Same
            /\ msg = [mid |-> msg.mid, hdr |-> msg.hdr, data |-> msg.data]
        BY <1>1, SameIsNoField
      <4>3. Packed(open.msg)' = msg
        BY <1>5, <4>1, <4>2 DEF Packed, None
      <4>4. ~ WRAP_REL_ERR(f \cup pflags')
        BY <1>1, <1>5 DEF WRAP_REL_ERR
      <4> QED
        BY <1>1, <4>1, <4>3, <4>4 DEF Begun, Packed
    <3> QED
      BY <3>1, <3>2
  <2>3. HandleInv(B)'
    BY <1>5, <2>1, <2>2 DEF HandleInv
  <2>4. CASE held
    BY <1>5, <2>1, <2>3, <2>4, FlushSends DEF MailStep, Mail!Next, Mail!Transmit
  <2>5. CASE ~ held
    <3>1. pdus = <<>> /\ pflags = {} /\ Unpack(pdus) = <<>>
      BY <2>5 DEF HandleInv, Holding, Unpack
    <3> QED
      BY <1>5, <2>1, <2>3, <2>5, <3>1 DEF MailStep, Mail!Next, Mail!Prepare
  <2> QED
    BY <2>4, <2>5
<1> QED
  BY <1>2, <1>3, <1>4, <1>5

LEMMA EndStep ==
  ASSUME NEW B, Sendable(B), HandleInv(B), NEW d \in B, endProtoMsg(d)
  PROVE  HandleInv(B)' /\ MailStep
<1> DEFINE msg == [open.msg EXCEPT !.data = d]
           p   == [open.p EXCEPT !.data = d]
<1>1. /\ held /\ chan \in Chans /\ open.msg \in [mid : Mids, hdr : Hdrs, data : {Same}]
      /\ open.p = Packed(open.msg) /\ ~ WRAP_REL_ERR(open.f \cup pflags)
  BY DEF HandleInv, Begun, endProtoMsg
<1>2. /\ msg = [mid |-> open.msg.mid, hdr |-> open.msg.hdr, data |-> d]
      /\ msg \in Msgs(B)
  BY <1>1 DEF Msgs
<1>3. p = Packed(msg)
  BY <1>1, <1>2 DEF Packed
<1>4. [mid  |-> IF open.p.mid = Same THEN prev.mid ELSE open.p.mid,
       hdr  |-> IF open.p.hdr = Same THEN prev.hdr ELSE open.p.hdr,
       data |-> d] = msg
  BY <1>1, <1>2, SameIsNoField DEF Packed
<1>5. /\ Append1(chan, p, msg, open.f) /\ Offered(msg, open.f)
      /\ UNCHANGED <<packet, packets>>
  BY <1>4 DEF endProtoMsg
<1> HIDE DEF msg, p
<1>6. /\ p \in Pdus(B)
      /\ IF pdus = <<>> THEN p = msg ELSE Says(p, msg, prev)
  BY <1>2, <1>3, PackedFacts
<1> QED
  BY <1>1, <1>2, <1>5, <1>6, PostStep

LEMMA AbandonStep ==
  ASSUME NEW B, HandleInv(B), abandon
  PROVE  HandleInv(B)' /\ MailStep
<1>1. /\ UNCHANGED <<held, chan, pdus, left, prev, pflags, call, packet, packets>>
      /\ open' = Same
  BY DEF abandon
<1>2. HandleInv(B)'
  BY <1>1 DEF HandleInv, Holding, Begun
<1> QED
  BY <1>1, <1>2 DEF MailStep, Mail!mvars

\* The message repeated has the protocol, the association and the data of the
\* one before it, which is the last one accepted.
LEMMA RepeatStep ==
  ASSUME NEW B, Sendable(B), HandleInv(B), NEW m \in Members, NEW f \in Flags,
         ~ RptFull, ~ RptNoFlush, rptProtoMsg(m, f)
  PROVE  HandleInv(B)' /\ MailStep
<1> DEFINE a    == Address(m, prev.hdr[1], f)
           want == [Address(m, call.msg.hdr[1], f) EXCEPT !.mid = a.mid]
           msg  == Message(a, prev.data)
           p    == [Packed(Message(a, Same)) EXCEPT !.data = Same]
<1>1. CASE Refused /\ UNCHANGED <<wvars, packet, packets>>
  BY <1>1, RefuseStep
<1>2. CASE /\ held /\ pdus # <<>> /\ ~ WRAP_REL_ERR(f \cup pflags) /\ chan = m.ch
           /\ Append1(chan, p, Message(a, prev.data), f)
           /\ Offered(Message(want, call.msg.data), f)
           /\ UNCHANGED <<packet, packets>>
  <2>1. chan \in Chans /\ prev \in Msgs(B) /\ call.msg = prev
    BY <1>2 DEF HandleInv, Holding
  <2>2. m.mid \in Mids /\ ALL_MEMBERS \in Mids /\ m.back \in Nat
    BY WrapperAssumption DEF Mids
  <2>3. /\ a.mid \in Mids /\ a.hdr \in Hdrs /\ a = [mid |-> a.mid, hdr |-> a.hdr]
        /\ want = a
    BY <2>1, <2>2 DEF Address, Hdrs, Msgs
  <2> HIDE DEF a, want
  <2>4. /\ msg = [mid |-> a.mid, hdr |-> a.hdr, data |-> prev.data] /\ msg \in Msgs(B)
        /\ Message(want, call.msg.data) = msg
    BY <2>1, <2>3 DEF Message, Msgs
  <2>5. /\ p = [mid  |-> IF a.mid = prev.mid THEN Same ELSE a.mid,
                hdr  |-> IF a.hdr = prev.hdr THEN Same ELSE a.hdr, data |-> Same]
        /\ p \in Pdus(B)
    BY <2>3 DEF Packed, Message, Pdus
  <2>6. Says(p, msg, prev)
    BY <2>4, <2>5 DEF Says, Fields
  <2>7. IF pdus = <<>> THEN p = msg ELSE Says(p, msg, prev)
    BY <1>2, <2>6
  <2>8. Append1(chan, p, msg, f) /\ Offered(msg, f) /\ UNCHANGED <<packet, packets>>
    BY <1>2, <2>4
  <2> HIDE DEF msg, p
  <2> QED
    BY <1>2, <2>1, <2>4, <2>5, <2>7, <2>8, PostStep
<1> QED
  BY <1>1, <1>2 DEF rptProtoMsg

LEMMA FlushStep ==
  ASSUME NEW B, Sendable(B), HandleInv(B), flushWrapper
  PROVE  HandleInv(B)' /\ MailStep
<1>1. /\ _flushWrapper /\ pdus' = <<>> /\ left' = 0 /\ prev' = None /\ pflags' = {}
      /\ open' = Same /\ call' = call
  BY DEF flushWrapper
<1>2. HandleInv(B)' /\ Unpack(pdus') = <<>>
  BY <1>1 DEF HandleInv, Wire, Holding, Begun, Unpack
<1>3. Mail!Transmit
  BY <1>1, <1>2, FlushSends DEF Mail!Transmit
<1> QED
  BY <1>2, <1>3 DEF MailStep, Mail!Next

\* Packets that SDT makes for itself.
LEMMA BeatStep ==
  ASSUME NEW B, Sendable(B), HandleInv(B), NEW c \in Chans, NEW n \in Int,
         NEW acks \in AckRuns(c, n), Transmit(c, <<>>, {}, acks), UNCHANGED <<wvars, call>>
  PROVE  HandleInv(B)' /\ MailStep
<1>1. UNCHANGED <<held, chan, pdus, left, prev, pflags, open, call>>
  BY DEF wvars
<1>2. HandleInv(B)'
  BY <1>1 DEF HandleInv, Holding, Begun, Packed
<1>3. Wire(B, <<>>) /\ Unpack(<<>>) = <<>> /\ "noack" \notin {}
  BY DEF Wire, Unpack
<1>4. Mail!Sent(c, <<>>, {})
  BY <1>3, SentIs
<1>5. Mail!Beat
  BY <1>1, <1>4 DEF Mail!Beat
<1> QED
  BY <1>2, <1>5 DEF MailStep, Mail!Next

LEMMA AckStep ==
  ASSUME NEW B, Sendable(B), HandleInv(B), NEW m \in Members, justACK(m)
  PROVE  HandleInv(B)' /\ MailStep
<1> DEFINE q    == [i \in 1 .. 1 |-> m]
           acks == [i \in 1 .. 1 |-> AckPDU(q[i])]
<1>1. m.ch \in Chans /\ m \in On(m.ch)
  BY DEF Chans, On
<1>2. q \in [1 .. 1 -> On(m.ch)] /\ \A i, j \in 1 .. 1 : q[i] = q[j] => i = j
  BY <1>1
<1>3. acks \in AckRuns(m.ch, 1)
  <2> HIDE DEF q
  <2> QED
    BY <1>2 DEF AckRuns
<1>4. acks = <<AckPDU(m)>>
  <2> DEFINE x == AckPDU(m)
  <2>1. acks = [i \in 1 .. 1 |-> x]
    OBVIOUS
  <2> HIDE DEF x, acks
  <2>2. [i \in 1 .. 1 |-> x] = <<x>>
    OBVIOUS
  <2> QED
    BY <2>1, <2>2 DEF x
<1>5. <<AckPDU(m)>> \o <<>> = <<>> \o <<AckPDU(m)>>
  OBVIOUS
<1>6. Transmit(m.ch, <<>>, {}, acks) /\ UNCHANGED <<wvars, call>>
  BY <1>4, <1>5 DEF justACK, Transmit
<1> HIDE DEF acks
<1> QED
  BY <1>1, <1>3, <1>6, BeatStep

LEMMA EmptyStep ==
  ASSUME NEW B, Sendable(B), HandleInv(B), NEW c \in Chans, emptyWrapper(c)
  PROVE  HandleInv(B)' /\ MailStep
<1>1. <<>> \in AckRuns(c, 0)
  <2> DEFINE q == [i \in 1 .. 0 |-> NoChan]
  <2>1. q \in [1 .. 0 -> On(c)] /\ \A i, j \in 1 .. 0 : q[i] = q[j] => i = j
    OBVIOUS
  <2>2. [i \in 1 .. 0 |-> AckPDU(q[i])] \in AckRuns(c, 0)
    <3> HIDE DEF q
    <3> QED
      BY <2>1 DEF AckRuns
  <2>3. [i \in 1 .. 0 |-> AckPDU(q[i])] = <<>>
    OBVIOUS
  <2> QED
    BY <2>2, <2>3
<1> QED
  BY <1>1, BeatStep DEF emptyWrapper

LEMMA HandleBegins ==
  ASSUME NEW B, Init
  PROVE  HandleInv(B) /\ Mail!Init
<1>1. HandleInv(B)
  BY DEF Init, HandleInv, Wire, Holding, Begun
<1> QED
  BY <1>1 DEF Init, Mail!Init, Unpack

\* A stuttering step.
LEMMA HandleRests ==
  ASSUME NEW B, HandleInv(B), UNCHANGED vars
  PROVE  HandleInv(B)' /\ MailStep
<1>1. UNCHANGED <<held, chan, pdus, left, prev, pflags, open, call, packet, packets>>
  BY DEF vars
<1>2. HandleInv(B)'
  BY <1>1 DEF HandleInv, Holding, Begun, Packed
<1> QED
  BY <1>1, <1>2 DEF MailStep, Mail!mvars

LEMMA HandleStep ==
  ASSUME NEW B, Sendable(B), Bodies \subseteq B, HandleInv(B), ~ RptFull, ~ RptNoFlush, Next
  PROVE  HandleInv(B)' /\ MailStep
<1>1. ASSUME NEW m \in Members, NEW f \in Flags, NEW p \in Protos, NEW d \in Bodies,
             addProtoMsg(m, p, f, d) \/ startProtoMsg(m, p, f, d.len)
      PROVE  HandleInv(B)' /\ MailStep
  <2>1. d.len \in Nat /\ d \in B
    BY WrapperAssumption
  <2>2. CASE addProtoMsg(m, p, f, d)
    BY <2>1, <2>2, AddStep
  <2>3. CASE startProtoMsg(m, p, f, d.len)
    BY <2>1, <2>3, StartStep
  <2> QED
    BY <1>1, <2>2, <2>3
<1>2. ASSUME NEW m \in Members, NEW f \in Flags, rptProtoMsg(m, f)
      PROVE  HandleInv(B)' /\ MailStep
  BY <1>2, RepeatStep
<1>3. ASSUME NEW d \in Bodies, endProtoMsg(d)
      PROVE  HandleInv(B)' /\ MailStep
  BY <1>3, EndStep
<1>4. CASE abandon
  BY <1>4, AbandonStep
<1>5. CASE flushWrapper
  BY <1>5, FlushStep
<1>6. ASSUME NEW m \in Members, justACK(m)
      PROVE  HandleInv(B)' /\ MailStep
  BY <1>6, AckStep
<1>7. ASSUME NEW c \in Chans, emptyWrapper(c)
      PROVE  HandleInv(B)' /\ MailStep
  BY <1>7, EmptyStep
<1> QED
  BY <1>1, <1>2, <1>3, <1>4, <1>5, <1>6, <1>7 DEF Next

(***************************************************************************)
(* SDT's own use of a wrapper keeps what SdtMailbox promises, when         *)
(* rptProtoMsg is not called with a full wrapper (addProtoMsg,             *)
(* startProtoMsg, endProtoMsg, rptProtoMsg, _flushWrapper, flushWrapper,   *)
(* justACK, emptyWrapper): for all members, bodies and sizes.              *)
(***************************************************************************)
THEOREM MailIsKept == ~ RptFull /\ ~ RptNoFlush => (Spec => SameMail)
<1> SUFFICES ASSUME ~ RptFull, ~ RptNoFlush PROVE Spec => SameMail
  OBVIOUS
<1>0. Sendable(Bodies)
  BY WrapperAssumption DEF Sendable
<1>1. Init => HandleInv(Bodies) /\ Mail!Init
  BY HandleBegins
<1>2. HandleInv(Bodies) /\ [Next]_vars => HandleInv(Bodies)' /\ MailStep
  BY <1>0, HandleStep, HandleRests
<1>3. MailStep => [Mail!Next]_Mail!mvars
  BY DEF MailStep
<1> QED
  BY <1>1, <1>2, <1>3, PTL DEF Spec, SameMail, Mail!Spec
-----------------------------------------------------------------------------
(***************************************************************************)
(* DMP: addresses relative to the one before.                              *)
(***************************************************************************)
LEMMA ModFacts ==
  /\ \A n \in Int : Mod(n) \in Addresses
  /\ \A a, l \in Addresses : Mod(Mod(a - l) + l) = a /\ Mod(0 + a) = a
  /\ 0 \in Addresses
<1>1. Modulus \in Nat /\ Modulus > 0
  BY DmpAssumption
<1>2. ASSUME NEW n \in Int PROVE Mod(n) \in Addresses
  BY <1>1 DEF Mod, Addresses
<1>3. ASSUME NEW a \in Addresses, NEW l \in Addresses
      PROVE  Mod(Mod(a - l) + l) = a /\ Mod(0 + a) = a
  <2>1. Mod(a - l) = IF a >= l THEN a - l ELSE a - l + Modulus
    BY <1>1 DEF Mod, Addresses
  <2>2. Mod(a) = a /\ Mod(a + Modulus) = a
    BY <1>1 DEF Mod, Addresses
  <2>3. 0 + a = a /\ Mod(a - l) + l = IF a >= l THEN a ELSE a + Modulus
    BY <1>1, <2>1 DEF Addresses
  <2> QED
    BY <2>2, <2>3
<1> QED
  BY <1>1, <1>2, <1>3 DEF Addresses

LEMMA LastIsAddress ==
  ASSUME NEW ads \in Adspec
  PROVE  LastOf(ads) \in Addresses
<1>1. ads.addr \in Int /\ ads.inc \in Int /\ ads.count - 1 \in Int
  BY DmpAssumption DEF Adspec, Addresses
<1>2. ads.inc * (ads.count - 1) \in Int
  BY <1>1
<1>3. ads.addr + ads.inc * (ads.count - 1) \in Int
  BY <1>1, <1>2
<1> HIDE DEF Mod
<1> QED
  BY <1>3, ModFacts DEF LastOf

\* What the receiver of p makes of it after address `from'.
Resolved(p, from) ==
  [p.ads EXCEPT !.addr = Mod((IF p.rel THEN from ELSE 0) + @)]

LEMMA EncodedFacts ==
  ASSUME NEW ads \in Adspec, NEW last \in Addresses, NEW size \in Nat
  PROVE  /\ Encoded(ads, last, size) \in DmpPDU
         /\ Encoded(ads, last, size).meant = ads
         /\ Resolved(Encoded(ads, last, size), last) = ads
<1> DEFINE diff == Mod(ads.addr - last)
           rel  == diff < ads.addr
           a    == [ads EXCEPT !.addr = IF rel THEN diff ELSE @]
           n    == IF ads.count = 1 THEN Width(a.addr) ELSE 3 * Widest(a)
           p    == Encoded(ads, last, size)
<1>1. /\ ads.addr \in Addresses /\ ads.inc \in Addresses /\ ads.count \in Addresses \ {0}
      /\ ads = [addr |-> ads.addr, inc |-> ads.inc, count |-> ads.count]
  BY DEF Adspec
<1>2. diff \in Addresses
  <2>1. ads.addr - last \in Int
    BY <1>1 DEF Addresses
  <2> QED
    BY <2>1, ModFacts
<1>3. /\ a = [addr |-> IF rel THEN diff ELSE ads.addr, inc |-> ads.inc, count |-> ads.count]
      /\ a \in Adspec
  BY <1>1, <1>2 DEF Adspec
<1>4. n \in Nat
  <2>1. \A v : Width(v) \in {1, 2, 4}
    BY DEF Width
  <2>2. Widest(a) \in Nat
    <3> DEFINE w == {Width(a.addr), Width(a.inc), Width(a.count)}
    <3>1. \E x \in w : \A y \in w : x >= y
      BY <2>1
    <3>2. Widest(a) \in w
      <4> HIDE DEF w, a
      <4>1. (CHOOSE x \in w : \A y \in w : x >= y) \in w
        BY <3>1
      <4> QED
        BY <4>1 DEF Widest, w
    <3> QED
      BY <2>1, <3>2
  <2> HIDE DEF a
  <2>3. Width(a.addr) \in Nat
    BY <2>1
  <2> QED
    BY <2>2, <2>3
<1>5. p = [rel |-> rel, ads |-> a, bytes |-> n, meant |-> ads, size |-> size]
  BY DEF Encoded
<1>6. p \in DmpPDU
  <2>1. rel \in BOOLEAN
    OBVIOUS
  <2> HIDE DEF rel, a, n, p
  <2> QED
    BY <1>3, <1>4, <1>5, <2>1 DEF DmpPDU
<1>7. p.rel = rel /\ p.ads = a /\ p.meant = ads
  <2> HIDE DEF rel, a, n, p
  <2> QED
    BY <1>5
<1>8. Resolved(p, last) = ads
  <2> DEFINE x == Mod((IF rel THEN last ELSE 0) + (IF rel THEN diff ELSE ads.addr))
  <2>1. x = ads.addr
    <3>1. Mod(diff + last) = ads.addr /\ Mod(0 + ads.addr) = ads.addr
      BY <1>1, ModFacts
    <3>2. last + diff = diff + last
      BY <1>2 DEF Addresses
    <3> HIDE DEF diff
    <3> QED
      BY <3>1, <3>2
  <2>2. Resolved(p, last) = [a EXCEPT !.addr = Mod((IF rel THEN last ELSE 0) + @)]
    BY <1>7 DEF Resolved
  <2>3. [a EXCEPT !.addr = Mod((IF rel THEN last ELSE 0) + @)]
          = [addr |-> x, inc |-> ads.inc, count |-> ads.count]
    <3> HIDE DEF diff, rel, a
    <3> QED
      BY <1>3
  <2> HIDE DEF x, a, p
  <2> QED
    BY <1>1, <2>1, <2>2, <2>3
<1> QED
  BY <1>6, <1>7, <1>8

\* A block each of whose PDUs is right after those before it.
Before(b, i) == IF i = 1 THEN 0 ELSE LastOf(b[i - 1].meant)
Chained(b)   == \A i \in 1 .. Len(b) : Resolved(b[i], Before(b, i)) = b[i].meant
GoodBlocks   == {b \in Seq(DmpPDU) : Chained(b)}

LEMMA ReachedIs ==
  ASSUME NEW b \in GoodBlocks
  PROVE  Reached(b) = [k \in 1 .. Len(b) |-> b[k].meant]
<1> DEFINE N == Len(b)
           Read(g) == [i \in 0 .. N |->
                        IF i = 0 THEN 0
                        ELSE LastOf([b[i].ads EXCEPT
                                       !.addr = Mod((IF b[i].rel THEN g[i - 1] ELSE 0) + @)])]
           last == CHOOSE g : g = Read(g)
           f == [i \in 0 .. N |-> IF i = 0 THEN 0 ELSE LastOf(b[i].meant)]
<1>1. N \in Nat /\ \A i \in 1 .. N : Resolved(b[i], Before(b, i)) = b[i].meant
  BY DEF GoodBlocks, Chained
<1>2. \A i \in 1 .. N : Before(b, i) = f[i - 1]
  <2> SUFFICES ASSUME NEW i \in 1 .. N PROVE Before(b, i) = f[i - 1]
    OBVIOUS
  <2>1. i - 1 \in 0 .. N /\ (i - 1 = 0 <=> i = 1)
    BY <1>1
  <2> QED
    BY <2>1 DEF Before
<1>3. \A g : Read(g) = [i \in 0 .. N |-> IF i = 0 THEN 0 ELSE LastOf(Resolved(b[i], g[i - 1]))]
  BY DEF Resolved
<1>4. f = Read(f)
  <2> SUFFICES \A i \in 0 .. N : f[i] = IF i = 0 THEN 0 ELSE LastOf(Resolved(b[i], f[i - 1]))
    BY <1>3
  <2> TAKE i \in 0 .. N
  <2>1. CASE i = 0
    BY <2>1
  <2>2. CASE i # 0
    <3>1. i \in 1 .. N /\ f[i] = LastOf(b[i].meant)
      BY <2>2
    <3> HIDE DEF f
    <3> QED
      BY <1>1, <1>2, <2>2, <3>1
  <2> QED
    BY <2>1, <2>2
<1>5. last = Read(last)
  <2>1. \E g : g = Read(g)
    BY <1>4
  <2> HIDE DEF Read
  <2> QED
    BY <2>1
<1> HIDE DEF last
<1>6. \A i \in 0 .. N : last[i] = IF i = 0 THEN 0 ELSE LastOf(Resolved(b[i], last[i - 1]))
  <2>1. last = [i \in 0 .. N |-> IF i = 0 THEN 0 ELSE LastOf(Resolved(b[i], last[i - 1]))]
    <3> HIDE DEF Read
    <3> QED
      BY <1>3, <1>5
  <2> QED
    BY <2>1
<1>7. \A i \in 0 .. N : f[i] = IF i = 0 THEN 0 ELSE LastOf(Resolved(b[i], f[i - 1]))
  <2> HIDE DEF f
  <2>1. f = [i \in 0 .. N |-> IF i = 0 THEN 0 ELSE LastOf(Resolved(b[i], f[i - 1]))]
    <3> HIDE DEF Read
    <3> QED
      BY <1>3, <1>4
  <2> QED
    BY <2>1
<1>8. \A i \in 0 .. N : last[i] = f[i]
  <2> DEFINE S == {i \in 0 .. N : last[i] # f[i]}
  <2> HIDE DEF f, Read
  <2> SUFFICES ASSUME S # {} PROVE FALSE
    OBVIOUS
  <2>0. S \in SUBSET Nat
    BY <1>1
  <2>1. PICK i \in S : \A j \in S : i <= j
    BY <2>0, SomeLeast
  <2>2. i # 0
    BY <1>6, <1>7
  <2>3. i - 1 \in 0 .. N /\ i - 1 \notin S
    BY <1>1, <2>1, <2>2
  <2>4. last[i - 1] = f[i - 1]
    BY <2>3
  <2> QED
    BY <1>6, <1>7, <2>4
<1>9. Reached(b) = [i \in 1 .. N |-> Resolved(b[i], last[i - 1])]
  <2>1. Reached(b) = [i \in 1 .. N |->
          [b[i].ads EXCEPT !.addr = Mod((IF b[i].rel THEN last[i - 1] ELSE 0) + @)]]
    BY DEF Reached, last
  <2> QED
    BY <2>1 DEF Resolved
<1>10. \A i \in 1 .. N : Resolved(b[i], last[i - 1]) = b[i].meant
  <2> SUFFICES ASSUME NEW i \in 1 .. N PROVE Resolved(b[i], last[i - 1]) = b[i].meant
    OBVIOUS
  <2>1. i - 1 \in 0 .. N
    BY <1>1
  <2> HIDE DEF f
  <2> QED
    BY <1>1, <1>2, <1>8, <2>1
<1> QED
  BY <1>9, <1>10
-----------------------------------------------------------------------------
(***************************************************************************)
(* The invariant of a DMP context: its block says what it was asked for,   *)
(* lastaddr is where the block has got to, and so it is with the blocks of *)
(* the wrapper and of the last packet.                                     *)
(***************************************************************************)
GoodData == [body : GoodBlocks, len : Nat]

BlockInv ==
  /\ block \in GoodBlocks /\ used \in Nat /\ lastaddr \in Addresses
  /\ IF BlockOpen THEN lastaddr = Before(block, Len(block) + 1) ELSE block = <<>>

Wanted(a) == a.m \in Members /\ a.f \in Flags /\ a.ads \in Adspec /\ a.size \in Nat

AskedInv == asked # Same =>
  \/ asked.st = "wait" /\ Wanted(asked)
     /\ asked = [st |-> "wait", m |-> asked.m, f |-> asked.f, ads |-> asked.ads,
                 size |-> asked.size]
  \/ asked.st = "ready" /\ Wanted(asked) /\ BlockOpen
  \/ /\ asked.st = "written" /\ BlockOpen
     /\ asked.p \in DmpPDU /\ Resolved(asked.p, lastaddr) = asked.p.meant
  \/ asked.st = "flush" /\ ~ BlockOpen

PacketInv == \A i \in 1 .. Len(packet.msgs) :
               packet.msgs[i].hdr[1] = "DMP" => packet.msgs[i].data \in GoodData

DmpInv == HandleInv(GoodData) /\ BlockInv /\ AskedInv /\ PacketInv

LEMMA GoodIsSendable == Sendable(GoodData)
<1>1. GoodData \subseteq [body : Seq(DmpPDU), len : Nat]
  BY DEF GoodData, GoodBlocks
<1>2. Same \notin GoodData
  BY <1>1, DmpAssumption
<1> QED
  BY <1>2 DEF Sendable, GoodData

LEMMA EmptyIsGood == <<>> \in GoodBlocks /\ Before(<<>>, Len(<<>>) + 1) = 0
<1>1. Len(<<>>) = 0 /\ <<>> \in Seq(DmpPDU)
  OBVIOUS
<1> QED
  BY <1>1 DEF GoodBlocks, Chained, Before

\* One more PDU.
LEMMA ChainAppend ==
  ASSUME NEW b \in GoodBlocks, NEW p \in DmpPDU,
         Resolved(p, Before(b, Len(b) + 1)) = p.meant
  PROVE  /\ Append(b, p) \in GoodBlocks
         /\ Before(Append(b, p), Len(Append(b, p)) + 1) = LastOf(p.meant)
<1> DEFINE c == Append(b, p)
           n == Len(b)
<1>1. /\ b \in Seq(DmpPDU) /\ n \in Nat /\ c \in Seq(DmpPDU) /\ Len(c) = n + 1
      /\ \A i \in 1 .. n : c[i] = b[i]
      /\ c[n + 1] = p
  BY AppendProperties DEF GoodBlocks
<1> HIDE DEF c
<1>2. ASSUME NEW i \in 1 .. n + 1 PROVE Before(c, i) = Before(b, i)
  <2>1. CASE i = 1
    BY <2>1 DEF Before
  <2>2. CASE i # 1
    <3>1. i - 1 \in 1 .. n
      BY <1>1, <2>2
    <3> QED
      BY <1>1, <2>2, <3>1 DEF Before
  <2> QED
    BY <2>1, <2>2
<1>3. ASSUME NEW i \in 1 .. n + 1 PROVE Resolved(c[i], Before(c, i)) = c[i].meant
  <2>1. CASE i = n + 1
    BY <1>1, <1>2, <2>1
  <2>2. CASE i # n + 1
    <3>1. i \in 1 .. n
      BY <1>1, <2>2
    <3>2. Resolved(b[i], Before(b, i)) = b[i].meant
      BY <3>1 DEF GoodBlocks, Chained
    <3> QED
      BY <1>1, <1>2, <3>1, <3>2
  <2> QED
    BY <2>1, <2>2
<1>4. c \in GoodBlocks
  BY <1>1, <1>3 DEF GoodBlocks, Chained
<1>5. Before(c, Len(c) + 1) = LastOf(p.meant)
  <2>1. Len(c) + 1 # 1 /\ (Len(c) + 1) - 1 = n + 1
    BY <1>1
  <2> QED
    BY <1>1, <2>1 DEF Before
<1> QED
  BY <1>4, <1>5 DEF c

\* The wrapper's part of a call: it is one of the handle's own steps.
LEMMA CallsHandle ==
  ASSUME DmpInv, DmpCalls
  PROVE  HandleInv(GoodData)' /\ MailStep
<1>1. Sendable(GoodData) /\ HandleInv(GoodData)
  BY GoodIsSendable DEF DmpInv
<1>2. CASE UNCHANGED vars
  BY <1>1, <1>2, HandleRests
<1>3. CASE dmp_closeblock
  <2>1. [body |-> block, len |-> used] \in GoodData
    BY DEF DmpInv, BlockInv, GoodData
  <2> QED
    BY <1>1, <1>3, <2>1, EndStep DEF dmp_closeblock
<1>4. CASE dmp_newblock
  <2>1. Wanted(asked)
    BY <1>4 DEF dmp_newblock, Waiting, DmpInv, AskedInv
  <2>2. /\ asked.m \in Members /\ "DMP" \in Protos /\ asked.f \in Flags
        /\ Checked(asked.ads, asked.size) \in Nat
    BY <2>1, DmpAssumption DEF Wanted, Checked
  <2>3. startProtoMsg(asked.m, "DMP", asked.f, Checked(asked.ads, asked.size))
    BY <1>4 DEF dmp_newblock
  <2> QED
    BY <1>1, <2>2, <2>3, StartStep
<1>5. CASE abandon
  BY <1>1, <1>5, AbandonStep
<1>6. CASE flushWrapper
  BY <1>1, <1>6, FlushStep
<1>7. \/ UNCHANGED vars \/ dmp_closeblock \/ dmp_newblock \/ abandon \/ flushWrapper
  <2>1. \A m, f, a, s : openpdu(m, f, a, s) => UNCHANGED vars
    BY DEF openpdu
  <2>2. /\ closefull => dmp_closeblock
        /\ dmp_openpdu => UNCHANGED vars
        /\ dmp_closepdu => UNCHANGED vars
        /\ dmp_abortblock => abandon
        /\ flushblock => dmp_closeblock
        /\ dmp_flushpdus => flushWrapper
    BY DEF closefull, dmp_openpdu, dmp_closepdu, dmp_abortblock, flushblock, dmp_flushpdus
  <2> QED
    BY <2>1, <2>2 DEF DmpCalls
<1> QED
  BY <1>2, <1>3, <1>4, <1>5, <1>6, <1>7

\* DMP's own part.
LEMMA CallsBlock ==
  ASSUME DmpInv, DmpCalls
  PROVE  BlockInv' /\ AskedInv'
<1> USE DEF BlockOpen
<1>1. ASSUME NEW m \in Members, NEW f \in DmpFlags, NEW a \in Adspecs, NEW s \in Sizes,
             openpdu(m, f, a, s)
      PROVE  BlockInv' /\ AskedInv'
  <2>1. /\ asked' = [st |-> "wait", m |-> m, f |-> f, ads |-> a, size |-> s]
        /\ UNCHANGED <<open, block, used, lastaddr>>
    BY <1>1 DEF openpdu, vars
  <2>2. m \in Members /\ f \in Flags /\ a \in Adspec /\ s \in Nat
    BY DmpAssumption
  <2>3. BlockInv'
    BY <2>1 DEF DmpInv, BlockInv
  <2> QED
    BY <2>1, <2>2, <2>3 DEF AskedInv, Wanted
<1>2. CASE closefull
  <2>1. /\ open' = Same /\ block' = <<>> /\ used' = 0 /\ UNCHANGED <<lastaddr, asked>>
        /\ asked # Same /\ asked.st = "wait"
    BY <1>2 DEF closefull, dmp_closeblock, endProtoMsg, Append1, Waiting
  <2>2. BlockInv'
    BY <2>1, EmptyIsGood DEF DmpInv, BlockInv
  <2> QED
    BY <2>1, <2>2 DEF DmpInv, AskedInv, Wanted
<1>3. CASE dmp_newblock
  <2>1. /\ asked # Same /\ asked.st = "wait" /\ ~ BlockOpen /\ lastaddr' = 0
        /\ asked' = IF open' = Same THEN Same ELSE [asked EXCEPT !.st = "ready"]
        /\ UNCHANGED <<block, used>>
    BY <1>3 DEF dmp_newblock, Waiting
  <2>2. /\ Wanted(asked)
        /\ asked = [st |-> "wait", m |-> asked.m, f |-> asked.f, ads |-> asked.ads,
                    size |-> asked.size]
        /\ block = <<>>
    BY <2>1 DEF DmpInv, AskedInv, BlockInv
  <2>3. BlockInv'
    BY <2>1, <2>2, EmptyIsGood, ModFacts DEF DmpInv, BlockInv
  <2>4. AskedInv'
    <3>1. CASE open' = Same
      BY <2>1, <3>1 DEF AskedInv
    <3>2. CASE open' # Same
      <4>1. asked' = [st |-> "ready", m |-> asked.m, f |-> asked.f, ads |-> asked.ads,
                      size |-> asked.size]
        BY <2>1, <2>2, <3>2
      <4> QED
        BY <2>2, <3>2, <4>1 DEF AskedInv, Wanted
    <3> QED
      BY <3>1, <3>2
  <2> QED
    BY <2>3, <2>4
<1>4. CASE dmp_openpdu
  <2>1. /\ asked # Same /\ Wanted(asked) /\ BlockOpen
        /\ asked' = [st |-> "written", p |-> Encoded(asked.ads, lastaddr, asked.size)]
        /\ UNCHANGED <<open, block, used, lastaddr>>
    BY <1>4 DEF dmp_openpdu, vars, Ready, Waiting, DmpInv, AskedInv
  <2>2. BlockInv'
    BY <2>1 DEF DmpInv, BlockInv
  <2>3. /\ Encoded(asked.ads, lastaddr, asked.size) \in DmpPDU
        /\ Resolved(Encoded(asked.ads, lastaddr, asked.size), lastaddr)
             = Encoded(asked.ads, lastaddr, asked.size).meant
    BY <2>1, EncodedFacts DEF DmpInv, BlockInv, Wanted
  <2>4. asked'.st = "written" /\ asked'.p = Encoded(asked.ads, lastaddr, asked.size)
    BY <2>1
  <2>5. AskedInv'
    <3> DEFINE e == Encoded(asked.ads, lastaddr, asked.size)
    <3>1. asked'.p \in DmpPDU /\ Resolved(asked'.p, lastaddr') = asked'.p.meant
      <4>1. lastaddr' = lastaddr /\ asked'.p = e /\ e \in DmpPDU /\ Resolved(e, lastaddr) = e.meant
        BY <2>1, <2>3, <2>4
      <4> HIDE DEF e
      <4> QED
        BY <4>1
    <3> QED
      BY <2>1, <2>4, <3>1 DEF AskedInv
  <2> QED
    BY <2>2, <2>5
<1>5. CASE dmp_closepdu
  <2>1. /\ asked # Same /\ asked.st = "written" /\ open' = open
        /\ block' = Append(block, asked.p) /\ used' = used + Length(asked.p)
        /\ lastaddr' = LastOf(asked.p.meant) /\ asked' = Same
    BY <1>5 DEF dmp_closepdu, Written, vars
  <2>2. BlockOpen /\ asked.p \in DmpPDU /\ Resolved(asked.p, lastaddr) = asked.p.meant
    BY <2>1 DEF DmpInv, AskedInv
  <2>3. block \in GoodBlocks /\ used \in Nat /\ lastaddr = Before(block, Len(block) + 1)
    BY <2>2 DEF DmpInv, BlockInv
  <2>4. block' \in GoodBlocks /\ Before(block', Len(block') + 1) = lastaddr'
    BY <2>1, <2>2, <2>3, ChainAppend
  <2>5. used' \in Nat
    BY <2>1, <2>2, <2>3 DEF Length, DmpPDU, DMP_OFS_DATA, OFS_VECTOR
  <2>6. lastaddr' \in Addresses
    BY <2>1, <2>2, LastIsAddress DEF DmpPDU
  <2> QED
    BY <2>1, <2>2, <2>4, <2>5, <2>6 DEF BlockInv, AskedInv
<1>6. CASE dmp_abortblock
  <2>1. open' = Same /\ block' = <<>> /\ used' = 0 /\ asked' = Same /\ lastaddr' = lastaddr
    BY <1>6 DEF dmp_abortblock, abandon
  <2> QED
    BY <2>1, EmptyIsGood DEF DmpInv, BlockInv, AskedInv
<1>7. CASE flushblock
  <2>1. /\ open' = Same /\ block' = <<>> /\ used' = 0 /\ lastaddr' = lastaddr
        /\ asked' = [st |-> "flush"] /\ asked'.st = "flush"
    BY <1>7 DEF flushblock, dmp_closeblock, endProtoMsg, Append1
  <2> QED
    BY <2>1, EmptyIsGood DEF DmpInv, BlockInv, AskedInv
<1>8. CASE dmp_flushpdus
  <2>1. /\ open' = Same /\ asked' = Same /\ UNCHANGED <<block, used, lastaddr>>
        /\ asked = [st |-> "flush"] \/ ~ BlockOpen
    BY <1>8 DEF dmp_flushpdus, flushWrapper
  <2>2. ~ BlockOpen
    <3>1. CASE asked = [st |-> "flush"]
      <4>1. asked # Same /\ asked.st = "flush"
        BY <3>1, DmpAssumption
      <4> QED
        BY <4>1 DEF DmpInv, AskedInv
    <3> QED
      BY <2>1, <3>1
  <2> QED
    BY <2>1, <2>2 DEF DmpInv, BlockInv, AskedInv
<1> QED
  BY <1>1, <1>2, <1>3, <1>4, <1>5, <1>6, <1>7, <1>8 DEF DmpCalls

\* What goes out are blocks of the wrapper, and ACKs.
LEMMA SentIsGood ==
  ASSUME NEW c, NEW msgs \in Seq(Msgs(GoodData)), NEW k, Mail!Sent(c, msgs, k)
  PROVE  PacketInv'
<1> SUFFICES ASSUME NEW i \in 1 .. Len(packet'.msgs), packet'.msgs[i].hdr[1] = "DMP"
             PROVE  packet'.msgs[i].data \in GoodData
  BY DEF PacketInv
<1>1. i \in 1 .. Len(msgs) \/ i \in Len(msgs) + 1 .. Len(packet'.msgs)
  OBVIOUS
<1>2. CASE i \in 1 .. Len(msgs)
  <2>1. packet'.msgs[i] = msgs[i]
    BY <1>2 DEF Mail!Sent
  <2>2. msgs[i] \in Msgs(GoodData)
    BY <1>2
  <2>3. msgs[i].data \in GoodData
    BY <2>2 DEF Msgs
  <2> QED
    BY <2>1, <2>3
<1>3. CASE i \in Len(msgs) + 1 .. Len(packet'.msgs)
  <2>1. packet'.msgs[i] \in AckMsgs(c)
    BY <1>3 DEF Mail!Sent
  <2>2. packet'.msgs[i].hdr[1] = "SDT"
    BY <2>1 DEF AckMsgs, AckPDU
  <2> QED
    BY <2>2
<1> QED
  BY <1>1, <1>2, <1>3

LEMMA CallsPacket ==
  ASSUME DmpInv, MailStep
  PROVE  PacketInv'
<1>1. Unpack(pdus) \in Seq(Msgs(GoodData)) /\ <<>> \in Seq(Msgs(GoodData))
  BY GoodIsSendable, UnpackTyped DEF DmpInv, HandleInv
<1>2. \/ UNCHANGED packet
      \/ Mail!Sent(chan, Unpack(pdus), pflags)
      \/ \E c \in Chans : Mail!Sent(c, <<>>, {})
  BY DEF MailStep, Mail!Next, Mail!Post, Mail!PostAfresh, Mail!Refuse, Mail!Transmit,
     Mail!Beat, Mail!Prepare, Mail!mvars
<1>3. CASE UNCHANGED packet
  BY <1>3 DEF DmpInv, PacketInv
<1> QED
  BY <1>1, <1>2, <1>3, SentIsGood

\* A DMP context keeps its invariant and the mailbox's promise.
LEMMA DmpStep ==
  ASSUME DmpInv, user = "dmp", [DmpNext]_<<vars, dvars>>
  PROVE  DmpInv' /\ MailStep
<1>1. CASE DmpCalls
  BY <1>1, CallsHandle, CallsBlock, CallsPacket DEF DmpInv
<1>2. CASE UNCHANGED <<vars, dvars>>
  <2>1. HandleInv(GoodData)' /\ MailStep
    BY <1>2, HandleRests DEF DmpInv
  <2>2. UNCHANGED <<open, block, used, lastaddr, asked>>
    BY <1>2 DEF vars, dvars
  <2> QED
    BY <2>1, <2>2, CallsPacket DEF DmpInv, BlockInv, AskedInv, Wanted, BlockOpen
<1> QED
  BY <1>1, <1>2 DEF DmpNext

LEMMA DmpBegins ==
  ASSUME DmpInit
  PROVE  DmpInv /\ Mail!Init /\ user \in {"sdt", "dmp"}
<1>1. HandleInv(GoodData) /\ Mail!Init
  BY HandleBegins DEF DmpInit
<1>2. BlockInv /\ AskedInv
  <2>1. open = Same /\ block = <<>> /\ used = 0 /\ lastaddr = 0 /\ asked = Same
    BY DEF DmpInit, Init
  <2> QED
    BY <2>1, EmptyIsGood, ModFacts DEF BlockInv, AskedInv, BlockOpen
<1>3. PacketInv
  BY DEF DmpInit, Init, PacketInv
<1>4. user \in {"sdt", "dmp"}
  BY DmpAssumption DEF DmpInit
<1> QED
  BY <1>1, <1>2, <1>3, <1>4 DEF DmpInv

LEMMA UserStays ==
  ASSUME [DmpNext]_<<vars, dvars>>
  PROVE  user' = user
<1>1. DmpCalls => user' = user
  BY DEF DmpCalls, openpdu, closefull, dmp_newblock, dmp_openpdu, dmp_closepdu,
     dmp_abortblock, flushblock, dmp_flushpdus
<1> QED
  BY <1>1 DEF DmpNext, dvars

(***************************************************************************)
(* The blocks a DMP context sends name the addresses their PDUs were       *)
(* opened for, for all address ranges, moduli and sizes (dmp_openpdu,      *)
(* dmp_closepdu, dmp_newblock, dmp_closeblock, dmp_abortblock and, on the  *)
(* other side, rx_devvec and rx_ctlvec).                                   *)
(***************************************************************************)
THEOREM AddressesAreMeant == DmpSpec => []AddressesMeant
<1> DEFINE I == user = "dmp" => DmpInv
<1>1. DmpInit => I
  BY DmpBegins
<1>2. I /\ [DmpNext]_<<vars, dvars>> => I'
  BY DmpStep, UserStays
<1>3. I => AddressesMeant
  <2> SUFFICES ASSUME DmpInv, NEW i \in 1 .. Len(packet.msgs), packet.msgs[i].hdr[1] = "DMP"
               PROVE  LET b == packet.msgs[i].data.body
                      IN  Reached(b) = [k \in 1 .. Len(b) |-> b[k].meant]
    BY DEF AddressesMeant
  <2>1. packet.msgs[i].data.body \in GoodBlocks
    BY DEF DmpInv, PacketInv, GoodData
  <2> QED
    BY <2>1, ReachedIs
<1> QED
  BY <1>1, <1>2, <1>3, PTL DEF DmpSpec

(***************************************************************************)
(* Whoever uses the handle, SDT or a DMP context, what it does is what     *)
(* SdtMailbox promises, when rptProtoMsg is not called with a full wrapper *)
(* (the functions of MailIsKept, and dmp_newblock, dmp_closeblock,         *)
(* dmp_abortblock and dmp_flushpdus, which call them in parts).            *)
(***************************************************************************)
THEOREM DmpMailIsKept == ~ RptFull /\ ~ RptNoFlush => (DmpSpec => SameMail)
<1> SUFFICES ASSUME ~ RptFull, ~ RptNoFlush PROVE DmpSpec => SameMail
  OBVIOUS
<1> DEFINE I == \/ user = "dmp" /\ DmpInv
                \/ user = "sdt" /\ HandleInv(Bodies)
<1>1. DmpInit => I /\ Mail!Init
  BY DmpBegins, HandleBegins DEF DmpInit
<1>2. I /\ [DmpNext]_<<vars, dvars>> => I' /\ MailStep
  <2> SUFFICES ASSUME I, [DmpNext]_<<vars, dvars>> PROVE I' /\ MailStep
    OBVIOUS
  <2>1. CASE user = "dmp"
    BY <2>1, DmpStep, UserStays
  <2>2. CASE user = "sdt"
    <3>1. Sendable(Bodies) /\ HandleInv(Bodies)
      BY <2>2, WrapperAssumption DEF Sendable
    <3>2. Next \/ UNCHANGED vars
      BY <2>2 DEF DmpNext
    <3> QED
      BY <2>2, <3>1, <3>2, HandleStep, HandleRests, UserStays
  <2> QED
    BY <2>1, <2>2
<1>3. MailStep => [Mail!Next]_Mail!mvars
  BY DEF MailStep
<1> QED
  BY <1>1, <1>2, <1>3, PTL DEF DmpSpec, SameMail, Mail!Spec
=============================================================================
