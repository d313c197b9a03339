-------------------------- MODULE SdtReceiverProofs --------------------------
(***************************************************************************)
(* Proofs about SdtReceiver for any number of wrappers and retries.        *)
(* Everything rests on one fact about the sender's numbering (SentOK): a   *)
(* wrapper follows all the reliable ones sent before it.  So two wrappers  *)
(* whose numbers match have only unreliable ones between them.             *)
(***************************************************************************)
EXTENDS SdtReceiver, SequenceTheorems, TLAPS

RseqAt(i) == IF i = 0 THEN 0 ELSE sent[i].R

SentOK ==
  /\ sent \in Seq(WrapT)
  /\ \A j \in 1 .. Len(sent) : \A i \in 0 .. j - 1 : Before(sent[j]) >= RseqAt(i)

\* The queue holds wrappers that were sent, in order, none of them next.
Genuine(e) == /\ e \in QueueT /\ e.T \in 1 .. Len(sent)
              /\ e.R = sent[e.T].R /\ e.rel = sent[e.T].rel

Sorted(q) == \A i, j \in 1 .. Len(q) : i < j => q[i].T < q[j].T

QueueOK(q, t, r) ==
  /\ q \in Seq(QueueT)
  /\ \A j \in 1 .. Len(q) : Genuine(q[j]) /\ q[j].T > t /\ Before(q[j]) > r
  /\ Sorted(q)

ChannelOK ==
  /\ Rchan \in Channel
  /\ Rchan.Tseq \in 0 .. Len(sent) /\ Rchan.Rseq = RseqAt(Rchan.Tseq)
  /\ QueueOK(Rchan.aheadQ, Rchan.Tseq, Rchan.Rseq)

TakenOK ==
  /\ taken \in Seq(Nat) /\ base \in 0 .. Len(sent)
  /\ Promise!Gapless(sent, base, taken)
  /\ Rchan.Tseq = Promise!Position(base, taken, Len(taken))

StateOK ==
  /\ state \in {"JOINPEND", "MEMBER", "GONE"}
  /\ state = "JOINPEND" =>
       taken = <<>> /\ Rchan.aheadQ = <<>> /\ Rchan.NAKstate = "NULL"
  /\ GapIsPursued

IInv == /\ SentOK /\ ChannelOK /\ TakenOK /\ StateOK
        /\ freed \in Nat

-----------------------------------------------------------------------------
(***************************************************************************)
(* The numbering.                                                          *)
(***************************************************************************)
LEMMA SentFacts ==
  ASSUME SentOK, NEW i \in 1 .. Len(sent)
  PROVE  /\ sent[i] \in WrapT /\ sent[i].R \in Nat /\ sent[i].rel \in BOOLEAN
         /\ Before(sent[i]) \in Int /\ Before(sent[i]) <= sent[i].R
         /\ (sent[i].rel => Before(sent[i]) = sent[i].R - 1)
         /\ (~ sent[i].rel => Before(sent[i]) = sent[i].R)
         /\ RseqAt(i) = sent[i].R /\ Before(sent[i]) >= 0
<1>1. sent[i] \in WrapT BY DEF SentOK
<1>2. Before(sent[i]) >= RseqAt(0) BY DEF SentOK
<1> QED BY <1>1, <1>2 DEF WrapT, Before, Bit, RseqAt

\* Two wrappers whose numbers match have only unreliable ones between them.
LEMMA Between ==
  ASSUME SentOK, NEW t \in 0 .. Len(sent), NEW u \in t + 1 .. Len(sent),
         Before(sent[u]) <= RseqAt(t), NEW k \in t + 1 .. u - 1
  PROVE  ~ sent[k].rel
<1>1. k \in 1 .. Len(sent) /\ u \in 1 .. Len(sent) /\ k \in 0 .. u - 1
      /\ t \in 0 .. k - 1
  OBVIOUS
<1>2. Before(sent[u]) >= RseqAt(k) BY <1>1 DEF SentOK
<1>3. Before(sent[k]) >= RseqAt(t) BY <1>1 DEF SentOK
<1>4. RseqAt(k) = sent[k].R /\ sent[k].R \in Nat BY <1>1, SentFacts
<1>5. RseqAt(t) \in Nat
  <2>1. CASE t = 0 BY <2>1 DEF RseqAt
  <2>2. CASE t # 0 BY <2>2, SentFacts
  <2> QED BY <2>1, <2>2
<1>6. Before(sent[k]) \in Int /\ Before(sent[u]) \in Int BY <1>1, SentFacts
<1>7. Before(sent[k]) >= sent[k].R BY <1>2, <1>3, <1>4, <1>5, <1>6
<1> QED BY <1>1, <1>4, <1>6, <1>7, SentFacts

\* A later wrapper has no smaller number.
LEMMA Later ==
  ASSUME SentOK, NEW i \in 1 .. Len(sent), NEW j \in 1 .. Len(sent), i < j
  PROVE  Before(sent[j]) >= sent[i].R
  BY SentFacts DEF SentOK, RseqAt

-----------------------------------------------------------------------------
(***************************************************************************)
(* Queues: what a queue is after some of it is taken or one is put in.     *)
(***************************************************************************)
LEMMA DropFacts ==
  ASSUME NEW S, NEW q \in Seq(S), NEW k \in 0 .. Len(q)
  PROVE  LET r == SubSeq(q, k + 1, Len(q))
         IN  /\ r \in Seq(S) /\ Len(r) = Len(q) - k
             /\ \A j \in 1 .. Len(r) : r[j] = q[k + j]
  BY SubSeqProperties

LEMMA RunFacts ==
  ASSUME NEW S, NEW q \in Seq(S), NEW k \in 0 .. Len(q), NEW w \in S
  PROVE  LET run == <<w>> \o SubSeq(q, 1, k)
         IN  /\ run \in Seq(S) /\ Len(run) = k + 1 /\ run[1] = w
             /\ \A m \in 2 .. k + 1 : run[m] = q[m - 1]
<1> DEFINE h == SubSeq(q, 1, k)
<1>1. h \in Seq(S) /\ Len(h) = k /\ \A j \in 1 .. k : h[j] = q[j]
  BY SubSeqProperties
<1>2. <<w>> \in Seq(S) /\ Len(<<w>>) = 1 /\ <<w>>[1] = w OBVIOUS
<1> HIDE DEF h
<1>3. Len(<<w>> \o h) = k + 1 /\ <<w>> \o h \in Seq(S)
      /\ \A m \in 1 .. k + 1 : (<<w>> \o h)[m] = IF m = 1 THEN w ELSE h[m - 1]
  BY <1>1, <1>2, ConcatProperties
<1> QED BY <1>1, <1>3 DEF h

LEMMA InsertFacts ==
  ASSUME NEW S, NEW q \in Seq(S), NEW p \in 0 .. Len(q), NEW w \in S
  PROVE  LET r == Insert(q, p, w)
         IN  /\ r \in Seq(S) /\ Len(r) = Len(q) + 1
             /\ \A j \in 1 .. Len(r) : r[j] = IF j <= p THEN q[j]
                                              ELSE IF j = p + 1 THEN w
                                              ELSE q[j - 1]
<1> DEFINE a == SubSeq(q, 1, p)
           b == SubSeq(q, p + 1, Len(q))
           aw == a \o <<w>>
<1>1. a \in Seq(S) /\ Len(a) = p /\ \A j \in 1 .. p : a[j] = q[j]
  BY SubSeqProperties
<1>2. b \in Seq(S) /\ Len(b) = Len(q) - p /\ \A j \in 1 .. Len(b) : b[j] = q[p + j]
  BY DropFacts
<1>3. <<w>> \in Seq(S) /\ Len(<<w>>) = 1 /\ <<w>>[1] = w OBVIOUS
<1> HIDE DEF a, b
<1>4. aw \in Seq(S) /\ Len(aw) = p + 1
      /\ \A j \in 1 .. p + 1 : aw[j] = IF j <= p THEN a[j] ELSE w
  BY <1>1, <1>3, ConcatProperties
<1> HIDE DEF aw
<1>5. aw \o b \in Seq(S) /\ Len(aw \o b) = Len(q) + 1
      /\ \A j \in 1 .. Len(q) + 1 :
            (aw \o b)[j] = IF j <= p + 1 THEN aw[j] ELSE b[j - (p + 1)]
  BY <1>2, <1>4, ConcatProperties
<1>6. Insert(q, p, w) = aw \o b BY DEF Insert, aw, a, b
<1>7. ASSUME NEW j \in 1 .. Len(q) + 1
      PROVE  (aw \o b)[j] = IF j <= p THEN q[j] ELSE IF j = p + 1 THEN w ELSE q[j - 1]
  <2>1. CASE j <= p BY <2>1, <1>1, <1>4, <1>5
  <2>2. CASE j = p + 1 BY <2>2, <1>4, <1>5
  <2>3. CASE j > p + 1
    <3>1. j - (p + 1) \in 1 .. Len(b) BY <2>3, <1>2
    <3>2. b[j - (p + 1)] = q[p + (j - (p + 1))] BY <3>1, <1>2
    <3>3. p + (j - (p + 1)) = j - 1 OBVIOUS
    <3> QED BY <2>3, <3>2, <3>3, <1>5
  <2>4. Len(q) \in Nat /\ p \in Nat /\ j \in Nat OBVIOUS
  <2>5. j <= p \/ j = p + 1 \/ j > p + 1 BY <2>4
  <2> QED BY <2>1, <2>2, <2>3, <2>5
<1>8. Len(aw \o b) = Len(q) + 1 /\ aw \o b \in Seq(S) BY <1>5
<1> HIDE DEF Insert
<1> QED BY <1>6, <1>7, <1>8

-----------------------------------------------------------------------------
(***************************************************************************)
(* The sender.                                                             *)
(***************************************************************************)
LEMMA RseqFacts ==
  ASSUME SentOK, NEW i \in 0 .. Len(sent)
  PROVE  RseqAt(i) \in Nat
<1>1. CASE i = 0 BY <1>1 DEF RseqAt
<1>2. CASE i # 0 BY <1>2, SentFacts
<1> QED BY <1>1, <1>2

LEMMA LastFacts ==
  ASSUME SentOK
  PROVE  LastRseq = RseqAt(Len(sent)) /\ LastRseq \in Nat
         /\ \A i \in 0 .. Len(sent) : RseqAt(i) <= LastRseq
<1> DEFINE n == Len(sent)
<1>1. n \in Nat /\ (sent = <<>> <=> n = 0) BY DEF SentOK
<1>2. LastRseq = RseqAt(n) BY <1>1 DEF LastRseq, RseqAt
<1>3. ASSUME NEW i \in 0 .. n PROVE RseqAt(i) <= RseqAt(n)
  <2>1. RseqAt(i) \in Nat /\ RseqAt(n) \in Nat BY <1>1, RseqFacts
  <2>2. CASE i = n BY <2>1, <2>2
  <2>3. CASE i < n
    <3>1. n \in 1 .. n /\ i \in 0 .. n - 1 BY <1>1, <2>3
    <3>2. Before(sent[n]) >= RseqAt(i) BY <3>1 DEF SentOK
    <3>3. Before(sent[n]) <= RseqAt(n) /\ Before(sent[n]) \in Int
      BY <3>1, SentFacts
    <3> QED BY <3>2, <3>3, <2>1
  <2> QED BY <1>1, <2>2, <2>3
<1> QED BY <1>1, <1>2, <1>3, RseqFacts

LEMMA SendKeeps ==
  ASSUME IInv, NEW reliable \in BOOLEAN, SendWrapper(reliable)
  PROVE  IInv'
<1> DEFINE n == Len(sent)
           x == [R |-> LastRseq + Bit(reliable), rel |-> reliable]
<1> USE DEF IInv
<1>1. sent \in Seq(WrapT) /\ n \in Nat BY DEF SentOK
<1>2. LastRseq = RseqAt(n) /\ LastRseq \in Nat
      /\ \A i \in 0 .. n : RseqAt(i) <= LastRseq
  BY LastFacts
<1>3. x \in WrapT BY <1>2 DEF WrapT, Bit
<1>4. Before(x) = LastRseq BY <1>2 DEF Before, Bit
<1>5. sent' = Append(sent, x) BY DEF SendWrapper
<1> HIDE DEF x
<1>6. sent' \in Seq(WrapT) /\ Len(sent') = n + 1
      /\ (\A i \in 1 .. n : sent'[i] = sent[i]) /\ sent'[n + 1] = x
  BY <1>1, <1>3, <1>5, AppendProperties
<1>7. \A i \in 0 .. n : RseqAt(i)' = RseqAt(i) BY <1>6 DEF RseqAt
<1>8. SentOK'
  <2>1. ASSUME NEW j \in 1 .. n + 1, NEW i \in 0 .. j - 1
        PROVE  Before(sent'[j]) >= RseqAt(i)'
    <3>1. i \in 0 .. n BY <1>1
    <3>2. CASE j = n + 1 BY <3>1, <3>2, <1>2, <1>4, <1>6, <1>7, RseqFacts
    <3>3. CASE j <= n BY <3>1, <3>3, <1>1, <1>6, <1>7 DEF SentOK
    <3> QED BY <1>1, <3>2, <3>3
  <2> QED BY <2>1, <1>6 DEF SentOK
<1>9. UNCHANGED <<freed, Rchan, state, base, taken>>
  BY DEF SendWrapper
<1>10. ChannelOK'
  <2>1. Rchan.Tseq \in 0 .. n + 1 /\ Rchan.Rseq = RseqAt(Rchan.Tseq)'
    BY <1>1, <1>6, <1>9 DEF ChannelOK, RseqAt
  <2>2. ASSUME NEW e, Genuine(e) PROVE Genuine(e)'
    BY <2>2, <1>1, <1>6 DEF Genuine
  <2>3. QueueOK(Rchan.aheadQ, Rchan.Tseq, Rchan.Rseq)'
    BY <2>2, <1>9 DEF ChannelOK, QueueOK
  <2> QED BY <2>1, <2>3, <1>6, <1>9 DEF ChannelOK
<1>11. TakenOK'
  <2>1. base \in 0 .. n + 1 BY <1>1 DEF TakenOK
  <2>2. Promise!Gapless(sent', base, taken)
    <3> SUFFICES ASSUME NEW j \in 1 .. Len(taken)
        PROVE  /\ taken[j] \in Promise!Position(base, taken, j - 1) + 1 .. n + 1
               /\ \A k \in Promise!Position(base, taken, j - 1) + 1 .. taken[j] - 1 :
                    ~ sent'[k].rel
      BY <1>6 DEF Promise!Gapless
    <3> DEFINE from == Promise!Position(base, taken, j - 1)
    <3>1. taken[j] \in from + 1 .. n
          /\ \A k \in from + 1 .. taken[j] - 1 : ~ sent[k].rel
      BY DEF TakenOK, Promise!Gapless
    <3>2. from \in Nat
      BY <1>1 DEF TakenOK, Promise!Position
    <3> HIDE DEF from
    <3>3. taken[j] \in from + 1 .. n + 1 BY <1>1, <3>1, <3>2
    <3>4. \A k \in from + 1 .. taken[j] - 1 : k \in 1 .. n BY <1>1, <3>1, <3>2
    <3> QED BY <3>1, <3>3, <3>4, <1>6 DEF from
  <2> QED BY <2>1, <2>2, <1>6, <1>9 DEF TakenOK
<1>12. StateOK' BY <1>9 DEF StateOK, GapIsPursued
<1>13. freed' \in Nat BY <1>9
<1> QED BY <1>8, <1>10, <1>11, <1>12, <1>13

-----------------------------------------------------------------------------
(***************************************************************************)
(* Steps that leave the sequence and the queue alone.                      *)
(***************************************************************************)
LEMMA NakkingFacts ==
  ASSUME NEW ch \in Channel
  PROVE  LET new == NAKwrappers(ch)
         IN  /\ new \in Channel /\ new.NAKstate # "NULL"
             /\ new.Tseq = ch.Tseq /\ new.Rseq = ch.Rseq /\ new.aheadQ = ch.aheadQ
<1>1. \E s \in {"HOLDOFF", "NAKWAIT"} : NAKwrappers(ch) = [ch EXCEPT !.NAKstate = s]
  BY DEF NAKwrappers, sendNAK
<1> QED BY <1>1 DEF Channel, NAKstates

LEMMA SequenceKept ==
  ASSUME IInv, UNCHANGED <<sent, base, taken>>, freed' \in Nat,
         Rchan' \in Channel, Rchan'.Tseq = Rchan.Tseq, Rchan'.Rseq = Rchan.Rseq,
         Rchan'.aheadQ = Rchan.aheadQ,
         StateOK'
  PROVE  IInv'
<1> USE DEF IInv
<1>1. SentOK' BY DEF SentOK, RseqAt
<1>2. ChannelOK'
  <2>1. QueueOK(Rchan.aheadQ, Rchan.Tseq, Rchan.Rseq)'
    BY DEF ChannelOK, QueueOK, Genuine
  <2> QED BY <2>1 DEF ChannelOK, RseqAt
<1>3. TakenOK' BY DEF TakenOK
<1> QED BY <1>1, <1>2, <1>3

LEMMA NAKholdoffKeeps == IInv /\ NAKholdoffAction => IInv'
<1> SUFFICES ASSUME IInv, NAKholdoffAction PROVE IInv' OBVIOUS
<1> USE DEF IInv, NAKholdoffAction
<1>1. Rchan \in Channel BY DEF ChannelOK
<1>2. Rchan' \in Channel /\ Rchan'.Tseq = Rchan.Tseq /\ Rchan'.Rseq = Rchan.Rseq
      /\ Rchan'.aheadQ = Rchan.aheadQ /\ Rchan'.NAKstate = "NAKWAIT"
  BY <1>1 DEF sendNAK, Channel, NAKstates
<1>3. StateOK' BY <1>2 DEF StateOK, GapIsPursued
<1> QED BY <1>2, <1>3, SequenceKept

LEMMA KillKeeps == IInv /\ killRchan /\ state # "GONE" => IInv'
<1> SUFFICES ASSUME IInv, killRchan PROVE IInv' OBVIOUS
<1> USE DEF IInv, killRchan
<1>1. StateOK' BY DEF StateOK, GapIsPursued
<1> QED BY <1>1, SequenceKept DEF ChannelOK

LEMMA NAKfailKeeps == IInv /\ NAKfailAction => IInv'
<1> SUFFICES ASSUME IInv, NAKfailAction PROVE IInv' OBVIOUS
<1>1. CASE killRchan
  BY <1>1, KillKeeps DEF NAKfailAction
<1>2. CASE ~ killRchan
  <2> DEFINE ch == [Rchan EXCEPT !.NAKtries = @ - 1]
  <2>1. Rchan \in Channel BY DEF IInv, ChannelOK
  <2>2. /\ state = "MEMBER" /\ Rchan.NAKstate = "NAKWAIT" /\ Rchan.NAKtries > 0
        /\ Rchan' = NAKwrappers(ch)
        /\ UNCHANGED <<sent, freed, state, base, taken>>
    BY <1>2 DEF NAKfailAction
  <2>3. Rchan.NAKtries - 1 \in 0 .. NakRetries
    BY <2>1, <2>2, ReceiverAssumption DEF Channel
  <2>4. ch \in Channel /\ ch.Tseq = Rchan.Tseq /\ ch.Rseq = Rchan.Rseq
        /\ ch.aheadQ = Rchan.aheadQ
    BY <2>1, <2>3 DEF Channel
  <2> HIDE DEF ch
  <2>5. /\ Rchan' \in Channel /\ Rchan'.NAKstate # "NULL"
        /\ Rchan'.Tseq = Rchan.Tseq /\ Rchan'.Rseq = Rchan.Rseq
        /\ Rchan'.aheadQ = Rchan.aheadQ
    BY <2>1, <2>2, <2>4, NakkingFacts
  <2>6. StateOK' BY <2>2, <2>5 DEF IInv, StateOK, GapIsPursued
  <2>7. freed' \in Nat BY <2>2 DEF IInv
  <2> QED BY <2>2, <2>5, <2>6, <2>7, SequenceKept
<1> QED BY <1>1, <1>2

LEMMA OutboundNAKKeeps ==
  ASSUME IInv, NEW first \in Nat, NEW last \in Nat, rx_outboundNAK(first, last)
  PROVE  IInv'
<1> USE DEF IInv, rx_outboundNAK
<1>1. Rchan \in Channel BY DEF ChannelOK
<1>2. sendNAK(Rchan) \in Channel /\ sendNAK(Rchan).Tseq = Rchan.Tseq
      /\ sendNAK(Rchan).Rseq = Rchan.Rseq /\ sendNAK(Rchan).aheadQ = Rchan.aheadQ
      /\ sendNAK(Rchan).NAKstate = "NAKWAIT"
  BY <1>1 DEF sendNAK, Channel, NAKstates
<1>3. Rchan' \in Channel /\ Rchan'.Tseq = Rchan.Tseq /\ Rchan'.Rseq = Rchan.Rseq
      /\ Rchan'.aheadQ = Rchan.aheadQ /\ Rchan'.NAKstate # "NULL"
  BY <1>1, <1>2
<1>4. StateOK' BY <1>3 DEF StateOK, GapIsPursued
<1> QED BY <1>3, <1>4, SequenceKept

-----------------------------------------------------------------------------
(***************************************************************************)
(* Taking wrappers.                                                        *)
(***************************************************************************)
LEMMA ArrivedFacts ==
  ASSUME SentOK, NEW i \in 1 .. Len(sent)
  PROVE  LET w == Arrived(i)
         IN  /\ Genuine(w) /\ w.T = i /\ w.R = sent[i].R /\ w.buf
             /\ w.R = RseqAt(i) /\ Before(w) = Before(sent[i])
<1>1. sent[i].R \in Nat /\ sent[i].rel \in BOOLEAN /\ RseqAt(i) = sent[i].R
  BY SentFacts
<1> QED BY <1>1 DEF Arrived, Genuine, QueueT, Before

LEMMA GenuineFacts ==
  ASSUME SentOK, NEW e, Genuine(e)
  PROVE  /\ e.T \in 1 .. Len(sent) /\ e.T \in Nat /\ e.R = RseqAt(e.T)
         /\ e.R = sent[e.T].R /\ e.R \in Nat
         /\ Before(e) = Before(sent[e.T]) /\ Before(e) \in Int /\ Before(e) <= e.R
<1>1. e.T \in 1 .. Len(sent) /\ e.R = sent[e.T].R /\ e.rel = sent[e.T].rel
  BY DEF Genuine
<1>2. Before(e) = Before(sent[e.T]) BY <1>1 DEF Before
<1> QED BY <1>1, <1>2, SentFacts

\* What is next in sequence is older than everything that is queued.
LEMMA NextIsOldest ==
  ASSUME SentOK, NEW q, NEW t, NEW r \in Nat, QueueOK(q, t, r),
         NEW w, Genuine(w), Before(w) = r
  PROVE  \A j \in 1 .. Len(q) : q[j].T > w.T
<1> SUFFICES ASSUME NEW j \in 1 .. Len(q), ~ q[j].T > w.T PROVE FALSE OBVIOUS
<1>1. Genuine(q[j]) /\ Before(q[j]) > r BY DEF QueueOK
<1>2. /\ w.T \in 1 .. Len(sent) /\ w.R \in Nat /\ w.R = sent[w.T].R
      /\ Before(w) = Before(sent[w.T])
  BY GenuineFacts
<1>3. /\ q[j].T \in 1 .. Len(sent) /\ q[j].R \in Nat /\ q[j].R = sent[q[j].T].R
      /\ Before(q[j]) = Before(sent[q[j].T]) /\ Before(q[j]) \in Int
      /\ Before(q[j]) <= q[j].R
  BY <1>1, GenuineFacts
<1>4. q[j].T < w.T BY <1>1, <1>2, <1>3
<1>5. Before(sent[w.T]) >= sent[q[j].T].R BY <1>2, <1>3, <1>4, Later
<1> QED BY <1>1, <1>2, <1>3, <1>5

\* A gapless run may be put after a gapless run.
LEMMA GaplessConcat ==
  ASSUME NEW from, NEW t \in Seq(Nat), NEW u \in Seq(Nat),
         Promise!Gapless(sent, from, t),
         Promise!Gapless(sent, Promise!Position(from, t, Len(t)), u)
  PROVE  /\ Promise!Gapless(sent, from, t \o u)
         /\ Len(u) > 0 => Promise!Position(from, t \o u, Len(t \o u)) = u[Len(u)]
<1> DEFINE v == t \o u
           mid == Promise!Position(from, t, Len(t))
<1>1. Len(v) = Len(t) + Len(u) /\ Len(t) \in Nat /\ Len(u) \in Nat
      /\ \A j \in 1 .. Len(v) : v[j] = IF j <= Len(t) THEN t[j] ELSE u[j - Len(t)]
  BY ConcatProperties
<1> HIDE DEF v
<1>2. \A j \in 1 .. Len(t) :
        Promise!Position(from, v, j - 1) = Promise!Position(from, t, j - 1)
  BY <1>1 DEF Promise!Position
<1>3. ASSUME NEW j \in Len(t) + 1 .. Len(v)
      PROVE  Promise!Position(from, v, j - 1) = Promise!Position(mid, u, j - Len(t) - 1)
  <2>1. CASE j = Len(t) + 1
    <3>1. CASE Len(t) = 0 BY <1>1, <2>1, <3>1 DEF Promise!Position
    <3>2. CASE Len(t) > 0
      <4>1. v[Len(t)] = t[Len(t)] BY <1>1, <3>2
      <4> QED BY <1>1, <2>1, <3>2, <4>1 DEF Promise!Position
    <3> QED BY <1>1, <3>1, <3>2
  <2>2. CASE j > Len(t) + 1
    <3>0. j - 1 \in 1 .. Len(v) /\ ~ j - 1 <= Len(t) BY <1>1, <2>2
    <3>1. v[j - 1] = u[j - 1 - Len(t)] BY <1>1, <3>0
    <3>2. j - 1 - Len(t) = j - Len(t) - 1 /\ j - 1 # 0 /\ j - Len(t) - 1 # 0
      BY <1>1, <2>2
    <3> QED BY <3>1, <3>2 DEF Promise!Position
  <2> QED BY <1>1, <2>1, <2>2
<1>4. Promise!Gapless(sent, from, v)
  <2>1. ASSUME NEW j \in 1 .. Len(v)
        PROVE  /\ v[j] \in Promise!Position(from, v, j - 1) + 1 .. Len(sent)
               /\ \A k \in Promise!Position(from, v, j - 1) + 1 .. v[j] - 1 :
                     ~ sent[k].rel
    <3>1. CASE j <= Len(t)
      <4>1. j \in 1 .. Len(t) /\ v[j] = t[j] BY <1>1, <3>1
      <4> QED BY <4>1, <1>2 DEF Promise!Gapless
    <3>2. CASE j > Len(t)
      <4>1. j - Len(t) \in 1 .. Len(u) /\ v[j] = u[j - Len(t)]
            /\ j \in Len(t) + 1 .. Len(v)
        BY <1>1, <3>2
      <4> QED BY <4>1, <1>3 DEF Promise!Gapless
    <3> QED BY <1>1, <3>1, <3>2
  <2> HIDE DEF v
  <2> QED BY <2>1 DEF Promise!Gapless
<1>5. Len(u) > 0 => Promise!Position(from, v, Len(v)) = u[Len(u)]
  BY <1>1 DEF Promise!Position
<1> QED BY <1>4, <1>5 DEF v

\* Each wrapper of the run follows the one before it, the first follows t.
Follows(t, run) ==
  \A m \in 1 .. Len(run) :
    LET from == IF m = 1 THEN t ELSE run[m - 1].T
    IN  /\ Genuine(run[m]) /\ run[m].T > t
        /\ from \in 0 .. Len(sent) /\ run[m].T \in from + 1 .. Len(sent)
        /\ Before(run[m]) <= RseqAt(from)

\* What drains from the queue after w follows w, one after the other.
LEMMA RunFollows ==
  ASSUME SentOK, NEW t \in 0 .. Len(sent), NEW r, r = RseqAt(t),
         NEW q \in Seq(QueueT), QueueOK(q, t, r),
         NEW w \in QueueT, Genuine(w), w.T > t, Before(w) = r,
         NEW k \in 0 .. Len(q), Drains(q, w, k),
         NEW run \in Seq(QueueT), Len(run) = k + 1, run[1] = w,
         \A m \in 2 .. k + 1 : run[m] = q[m - 1]
  PROVE  Follows(t, run)
<1> SUFFICES ASSUME NEW m \in 1 .. k + 1
    PROVE  LET from == IF m = 1 THEN t ELSE run[m - 1].T
           IN  /\ Genuine(run[m]) /\ run[m].T > t
               /\ from \in 0 .. Len(sent) /\ run[m].T \in from + 1 .. Len(sent)
               /\ Before(run[m]) <= RseqAt(from)
  BY DEF Follows
<1>1. Len(q) \in Nat /\ Len(sent) \in Nat /\ k \in Nat /\ m \in Nat BY DEF SentOK
<1>2. r \in Nat BY RseqFacts
<1>3. \A j \in 1 .. Len(q) : q[j].T > w.T /\ Genuine(q[j]) /\ q[j].T > t
  BY <1>2, NextIsOldest DEF QueueOK
<1>4. w.T \in 1 .. Len(sent) /\ w.R = RseqAt(w.T) BY GenuineFacts
<1>5. CASE m = 1 BY <1>1, <1>2, <1>4, <1>5
<1>6. CASE m = 2
  <2>1. 1 \in 1 .. k /\ 1 \in 1 .. Len(q) /\ run[2] = q[1] BY <1>1, <1>6
  <2>2. Before(q[1]) <= w.R BY <2>1 DEF Drains, Preceding
  <2>3. Genuine(q[1]) /\ q[1].T \in 1 .. Len(sent) /\ q[1].T > w.T /\ q[1].T > t
    BY <2>1, <1>3, GenuineFacts
  <2>4. q[1].T \in w.T + 1 .. Len(sent) BY <2>3, <1>1, <1>4
  <2> QED BY <1>4, <1>6, <2>1, <2>2, <2>3, <2>4
<1>7. CASE m > 2
  <2>1. m - 1 \in 1 .. k /\ m - 1 \in 1 .. Len(q) /\ m - 2 \in 1 .. Len(q)
        /\ m - 1 \in 2 .. k + 1 /\ m \in 2 .. k + 1
        /\ m - 2 < m - 1 /\ m - 1 # 1 /\ m - 1 - 1 = m - 2 /\ m # 1
    BY <1>1, <1>7
  <2>2. run[m] = q[m - 1] /\ run[m - 1] = q[m - 2] BY <2>1
  <2>3. Before(q[m - 1]) <= q[m - 2].R BY <2>1 DEF Drains, Preceding
  <2>4. q[m - 2].T < q[m - 1].T BY <2>1 DEF QueueOK, Sorted
  <2>5. /\ Genuine(q[m - 1]) /\ q[m - 1].T > t /\ q[m - 1].T \in 1 .. Len(sent)
        /\ q[m - 2].T \in 1 .. Len(sent) /\ q[m - 2].R = RseqAt(q[m - 2].T)
    BY <2>1, <1>3, GenuineFacts
  <2>6. q[m - 1].T \in q[m - 2].T + 1 .. Len(sent)
    <3> DEFINE a == q[m - 2].T
               b == q[m - 1].T
    <3>1. a \in 1 .. Len(sent) /\ b \in 1 .. Len(sent) /\ a < b BY <2>4, <2>5
    <3> HIDE DEF a, b
    <3>2. b \in a + 1 .. Len(sent) BY <3>1, <1>1
    <3> QED BY <3>2 DEF a, b
  <2> QED BY <2>1, <2>2, <2>3, <2>5, <2>6, <1>1, SMTT(30)
<1>8. m = 1 \/ m = 2 \/ m > 2 BY <1>1
<1> QED BY <1>5, <1>6, <1>7, <1>8

\* What does not drain is still ahead.
LEMMA RestAhead ==
  ASSUME SentOK, NEW t \in 0 .. Len(sent), NEW r, r = RseqAt(t),
         NEW q \in Seq(QueueT), QueueOK(q, t, r),
         NEW w \in QueueT, Genuine(w), w.T > t, Before(w) = r,
         NEW k \in 0 .. Len(q), Drains(q, w, k),
         k < Len(q) => ~ Drains(q, w, k + 1),
         NEW last, last = (IF k = 0 THEN w ELSE q[k]),
         NEW rest \in Seq(QueueT), Len(rest) = Len(q) - k,
         \A j \in 1 .. Len(rest) : rest[j] = q[k + j]
  PROVE  QueueOK(rest, last.T, last.R)
<1>1. Len(q) \in Nat /\ Len(rest) \in Nat /\ Len(sent) \in Nat /\ k \in Nat
  BY DEF SentOK
<1>2. r \in Nat BY RseqFacts
<1>3. \A j \in 1 .. Len(q) : q[j].T > w.T /\ Genuine(q[j])
  BY <1>2, NextIsOldest DEF QueueOK
<1>4. ASSUME NEW j \in 1 .. Len(rest)
      PROVE  Genuine(rest[j]) /\ rest[j].T > last.T /\ Before(rest[j]) > last.R
  <2> DEFINE e == q[k + 1]
             f == q[k + j]
  <2>1. k + 1 \in 1 .. Len(q) /\ k + j \in 1 .. Len(q) /\ k < Len(q) /\ rest[j] = f
    BY <1>1, SMTT(30)
  <2>2. Genuine(e) /\ Genuine(f) BY <2>1, <1>3
  <2>3. /\ e.T \in 1 .. Len(sent) /\ e.R = sent[e.T].R /\ e.R \in Nat
        /\ Before(e) \in Int /\ Before(e) <= e.R
    BY <2>2, GenuineFacts
  <2>4. f.T \in 1 .. Len(sent) /\ Before(f) = Before(sent[f.T]) /\ Before(f) \in Int
    BY <2>2, GenuineFacts
  <2>5. Genuine(last) /\ e.T > last.T /\ Preceding(q, w, k + 1) = last.R
    <3>1. CASE k = 0 BY <3>1, <1>3, <2>1 DEF Preceding
    <3>2. CASE k > 0
      <4>1. k \in 1 .. Len(q) /\ k < k + 1 /\ k + 1 - 1 = k /\ k + 1 # 1 /\ k # 0
        BY <1>1, <3>2
      <4>2. q[k].T < e.T /\ q[k].T \in Nat
        BY <4>1, <2>1, <1>3, GenuineFacts DEF QueueOK, Sorted
      <4> QED BY <4>1, <4>2, <2>3, <1>3 DEF Preceding
    <3> QED BY <1>1, <3>1, <3>2
  <2>6. last.T \in 1 .. Len(sent) /\ last.R \in Nat BY <2>5, GenuineFacts
  <2>7. Before(e) > last.R
    <3>1. PICK jj \in 1 .. k + 1 : ~ Before(q[jj]) <= Preceding(q, w, jj)
      BY <2>1 DEF Drains
    <3>2. jj = k + 1 BY <3>1, <1>1 DEF Drains
    <3> QED BY <3>1, <3>2, <2>3, <2>5, <2>6
  <2> HIDE DEF e, f
  <2>8. CASE j = 1 BY <2>8, <2>1, <2>2, <2>5, <2>7 DEF e, f
  <2>9. CASE j > 1
    <3>1. k + 1 < k + j BY <1>1, <2>9
    <3>2. e.T < f.T BY <3>1, <2>1 DEF QueueOK, Sorted, e, f
    <3>3. Before(sent[f.T]) >= sent[e.T].R BY <3>2, <2>3, <2>4, Later
    <3>4. Before(f) > last.R BY <3>3, <2>3, <2>4, <2>6, <2>7, SMTT(30)
    <3>5. f.T > last.T
      <4>1. e.T \in Int /\ f.T \in Int /\ last.T \in Int BY <2>3, <2>4, <2>6
      <4> QED BY <4>1, <3>2, <2>5
    <3> QED BY <3>4, <3>5, <2>1, <2>2
  <2> QED BY <1>1, <2>8, <2>9
<1>5. ASSUME NEW a \in 1 .. Len(rest), NEW b \in 1 .. Len(rest), a < b
      PROVE  rest[a].T < rest[b].T
  <2>1. k + a \in 1 .. Len(q) /\ k + b \in 1 .. Len(q) /\ k + a < k + b BY <1>1, <1>5
  <2>2. q[k + a].T < q[k + b].T BY <2>1 DEF QueueOK, Sorted
  <2> QED BY <2>2
<1> QED BY <1>4, <1>5 DEF QueueOK, Sorted

\* The run, as a sequence of Tseqs, leaves nothing out.
LEMMA RunGapless ==
  ASSUME SentOK, NEW t \in 0 .. Len(sent), NEW run \in Seq(QueueT),
         Follows(t, run)
  PROVE  /\ TseqOf(run) \in Seq(Nat) /\ Len(TseqOf(run)) = Len(run)
         /\ \A m \in 1 .. Len(run) : TseqOf(run)[m] = run[m].T
         /\ Promise!Gapless(sent, t, TseqOf(run))
<1> DEFINE u == TseqOf(run)
<1>1. u \in Seq(Nat) /\ Len(u) = Len(run) /\ \A m \in 1 .. Len(run) : u[m] = run[m].T
  <2>1. \A m \in 1 .. Len(run) : run[m].T \in Nat
    <3>1. \A m \in 1 .. Len(run) : run[m] \in QueueT BY ElementOfSeq
    <3> QED BY <3>1 DEF QueueT
  <2>2. u = [m \in 1 .. Len(run) |-> run[m].T] BY DEF TseqOf
  <2>3. Len(run) \in Nat OBVIOUS
  <2> HIDE DEF u
  <2>4. u \in [1 .. Len(run) -> Nat] BY <2>1, <2>2
  <2>5. u \in Seq(Nat) BY <2>3, <2>4, IsASeq
  <2>6. Len(u) = Len(run) BY <2>3, <2>5, <2>4, LenProperties
  <2> QED BY <2>2, <2>5, <2>6
<1> HIDE DEF u
<1>2. ASSUME NEW m \in 1 .. Len(run)
      PROVE  /\ u[m] \in Promise!Position(t, u, m - 1) + 1 .. Len(sent)
             /\ \A x \in Promise!Position(t, u, m - 1) + 1 .. u[m] - 1 : ~ sent[x].rel
  <2> DEFINE from == IF m = 1 THEN t ELSE run[m - 1].T
  <2>1. from = Promise!Position(t, u, m - 1) BY <1>1 DEF Promise!Position
  <2>2. /\ Genuine(run[m]) /\ from \in 0 .. Len(sent)
        /\ run[m].T \in from + 1 .. Len(sent) /\ Before(run[m]) <= RseqAt(from)
    BY DEF Follows
  <2> HIDE DEF from
  <2>3. Before(sent[run[m].T]) <= RseqAt(from) BY <2>2, GenuineFacts
  <2>4. \A x \in from + 1 .. run[m].T - 1 : ~ sent[x].rel
    BY <2>2, <2>3, Between
  <2> QED BY <1>1, <2>1, <2>2, <2>4
<1>3. Promise!Gapless(sent, t, u) BY <1>1, <1>2 DEF Promise!Gapless
<1> QED BY <1>1, <1>3 DEF u

LEMMA InOrderKeeps ==
  ASSUME IInv, state = "MEMBER",
         NEW i \in 1 .. Len(sent), i > Rchan.Tseq, Before(Arrived(i)) = Rchan.Rseq,
         InOrder(Arrived(i)), UNCHANGED <<sent, freed, state, base>>
  PROVE  IInv' /\ Len(taken) < Len(taken') /\ SubSeq(taken', 1, Len(taken)) = taken
<1> DEFINE w == Arrived(i)
           q == Rchan.aheadQ
           t == Rchan.Tseq
           r == Rchan.Rseq
<1>1. /\ SentOK /\ Len(sent) \in Nat /\ t \in 0 .. Len(sent) /\ r = RseqAt(t)
      /\ Rchan \in Channel /\ QueueOK(q, t, r) /\ q \in Seq(QueueT) /\ Len(q) \in Nat
  BY DEF IInv, SentOK, ChannelOK, QueueOK
<1>2. Genuine(w) /\ w.T > t /\ w \in QueueT /\ Before(w) = r
  BY <1>1, ArrivedFacts DEF Genuine
<1>3. PICK k \in 0 .. Len(q) :
      LET run == <<w>> \o SubSeq(q, 1, k)
      IN  /\ Drains(q, w, k) /\ (k < Len(q) => ~ Drains(q, w, k + 1))
          /\ Rchan' = CaughtUp(
               [Rchan EXCEPT !.Tseq = run[k + 1].T, !.Rseq = run[k + 1].R,
                             !.aheadQ = SubSeq(q, k + 1, Len(q)),
                             !.NAKtries = NakRetries])
          /\ taken' = taken \o TseqOf(run)
  BY DEF InOrder
<1> DEFINE run == <<w>> \o SubSeq(q, 1, k)
           rest == SubSeq(q, k + 1, Len(q))
           u == TseqOf(run)
           last == run[k + 1]
           ch == [Rchan EXCEPT !.Tseq = last.T, !.Rseq = last.R,
                               !.aheadQ = rest, !.NAKtries = NakRetries]
<1>4. Drains(q, w, k) /\ (k < Len(q) => ~ Drains(q, w, k + 1))
      /\ Rchan' = CaughtUp(ch) /\ taken' = taken \o u
  BY <1>3
<1> HIDE DEF w
<1>5. /\ run \in Seq(QueueT) /\ Len(run) = k + 1 /\ run[1] = w
      /\ \A m \in 2 .. k + 1 : run[m] = q[m - 1]
  BY <1>1, <1>2, RunFacts
<1>6. /\ rest \in Seq(QueueT) /\ Len(rest) = Len(q) - k
      /\ \A j \in 1 .. Len(rest) : rest[j] = q[k + j]
  BY <1>1, DropFacts
<1> HIDE DEF run, rest, q, t, r
<1>7. Follows(t, run) BY <1>1, <1>2, <1>4, <1>5, RunFollows
<1>8. k \in Nat /\ k + 1 \in 1 .. k + 1 BY <1>1
<1>9. Genuine(last) /\ last.T > t /\ last = (IF k = 0 THEN w ELSE q[k])
  BY <1>5, <1>7, <1>8 DEF Follows
<1>10. /\ last.T \in 1 .. Len(sent) /\ last.T \in Nat
       /\ last.R = sent[last.T].R /\ last.R \in Nat
  BY <1>1, <1>9, GenuineFacts
<1> HIDE DEF last
<1>11. QueueOK(rest, last.T, last.R)
  BY <1>1, <1>2, <1>4, <1>6, <1>9, RestAhead, ZenonT(60)
<1>12. /\ u \in Seq(Nat) /\ Len(u) = k + 1 /\ u[Len(u)] = last.T
       /\ Promise!Gapless(sent, t, u)
  <2>2. /\ u \in Seq(Nat) /\ Len(u) = Len(run) /\ Promise!Gapless(sent, t, u)
        /\ \A m \in 1 .. Len(run) : u[m] = run[m].T
    BY <1>1, <1>5, <1>7, RunGapless
  <2> QED BY <2>2, <1>5, <1>8 DEF last
<1> HIDE DEF u
<1>13. /\ ch \in Channel /\ ch.Tseq = last.T /\ ch.Rseq = last.R /\ ch.aheadQ = rest
       /\ ch.NAKstate = Rchan.NAKstate
  <2>1. NakRetries \in 0 .. NakRetries BY ReceiverAssumption
  <2> QED BY <1>1, <1>6, <1>10, <2>1 DEF Channel
<1> HIDE DEF ch
<1>14. /\ Rchan' \in Channel /\ Rchan'.Tseq = last.T /\ Rchan'.Rseq = last.R
       /\ Rchan'.aheadQ = rest
       /\ Rchan'.NAKstate = IF rest = <<>> THEN "NULL" ELSE Rchan.NAKstate
  BY <1>4, <1>13 DEF CaughtUp, Channel, NAKstates
<1>15. SentOK' BY <1>1 DEF SentOK, RseqAt
<1>16. ChannelOK'
  <2>1. QueueOK(Rchan.aheadQ, Rchan.Tseq, Rchan.Rseq)'
    BY <1>11, <1>14 DEF QueueOK, Genuine
  <2>2. (Rchan.Tseq \in 0 .. Len(sent) /\ Rchan.Rseq = RseqAt(Rchan.Tseq))'
    BY <1>1, <1>10, <1>14 DEF RseqAt
  <2> QED BY <2>1, <2>2, <1>14 DEF ChannelOK
<1>17. TakenOK' /\ Len(taken) < Len(taken') /\ SubSeq(taken', 1, Len(taken)) = taken
  <2>1. /\ taken \in Seq(Nat) /\ base \in 0 .. Len(sent)
        /\ Promise!Gapless(sent, base, taken)
        /\ t = Promise!Position(base, taken, Len(taken))
    BY DEF IInv, TakenOK, t
  <2>2. /\ Promise!Gapless(sent, base, taken \o u)
        /\ Promise!Position(base, taken \o u, Len(taken \o u)) = u[Len(u)]
    <3>1. Promise!Gapless(sent, Promise!Position(base, taken, Len(taken)), u)
      BY <2>1, <1>12
    <3>2. Len(u) > 0 BY <1>8, <1>12
    <3> QED BY <2>1, <3>1, <3>2, <1>12, GaplessConcat
  <2>3. taken \o u \in Seq(Nat) /\ Len(taken \o u) = Len(taken) + (k + 1)
    <3>1. taken \in Seq(Nat) /\ u \in Seq(Nat) /\ Len(u) = k + 1 BY <2>1, <1>12
    <3>2. taken \o u \in Seq(Nat) /\ Len(taken \o u) = Len(taken) + Len(u)
      BY <3>1, ConcatProperties
    <3> QED BY <3>1, <3>2
  <2>4. SubSeq(taken \o u, 1, Len(taken)) = taken
    BY <2>1, <1>12, SubSeqOfConcat1, SubSeqFull
  <2>5. UNCHANGED <<sent, base>> OBVIOUS
  <2>6. Len(taken) < Len(taken \o u) BY <2>1, <2>3, <1>8
  <2> QED BY <2>1, <2>2, <2>3, <2>4, <2>5, <2>6, <1>4, <1>12, <1>14 DEF TakenOK
<1>18. StateOK'
  <2>1. Rchan.aheadQ # <<>> <=> Rchan.NAKstate # "NULL"
    BY DEF IInv, StateOK, GapIsPursued
  <2>2. rest # <<>> => Rchan.aheadQ # <<>> BY <1>1, <1>6, <1>8 DEF q
  <2> QED BY <2>1, <2>2, <1>14 DEF StateOK, GapIsPursued
<1>19. freed' \in Nat BY DEF IInv
<1> QED BY <1>15, <1>16, <1>17, <1>18, <1>19 DEF IInv

-----------------------------------------------------------------------------
(***************************************************************************)
(* Queueing wrappers.                                                      *)
(***************************************************************************)
LEMMA ReleasedFacts ==
  ASSUME NEW q \in Seq(QueueT), NEW j \in 1 .. Len(q)
  PROVE  LET x == [q EXCEPT ![j].buf = FALSE]
         IN  /\ x \in Seq(QueueT) /\ Len(x) = Len(q)
             /\ \A m \in 1 .. Len(q) :
                  x[m].T = q[m].T /\ x[m].R = q[m].R /\ x[m].rel = q[m].rel
<1> DEFINE e == [q[j] EXCEPT !.buf = FALSE]
           x == [q EXCEPT ![j] = e]
<1>1. q[j] \in QueueT BY ElementOfSeq
<1>2. e \in QueueT /\ e.T = q[j].T /\ e.R = q[j].R /\ e.rel = q[j].rel
  BY <1>1 DEF QueueT
<1>3. [q EXCEPT ![j].buf = FALSE] = x OBVIOUS
<1> HIDE DEF e
<1>4. x \in Seq(QueueT) /\ Len(x) = Len(q)
      /\ \A m \in 1 .. Len(q) : x[m] = IF m = j THEN e ELSE q[m]
  BY <1>2, ExceptSeq
<1> HIDE DEF x
<1> QED BY <1>2, <1>3, <1>4

\* A wrapper put at its place keeps the queue sorted and ahead of sequence.
LEMMA InsertKeeps ==
  ASSUME SentOK, NEW t \in Nat, NEW r, NEW q \in Seq(QueueT), QueueOK(q, t, r),
         NEW w \in QueueT, Genuine(w), w.T > t, Before(w) > r,
         NEW p \in 0 .. Len(q), Fits(q, p, w)
  PROVE  QueueOK(Insert(q, p, w), t, r) /\ Insert(q, p, w) # <<>>
<1> DEFINE x == Insert(q, p, w)
           n == Len(q)
<1>1. n \in Nat /\ p \in Nat OBVIOUS
<1>2. x \in Seq(QueueT) /\ Len(x) = n + 1
      /\ \A j \in 1 .. Len(x) : x[j] = IF j <= p THEN q[j]
                                       ELSE IF j = p + 1 THEN w ELSE q[j - 1]
  <2>1. Insert(q, p, w) \in Seq(QueueT) /\ Len(Insert(q, p, w)) = Len(q) + 1
    BY InsertFacts
  <2>2. \A j \in 1 .. Len(Insert(q, p, w)) :
          Insert(q, p, w)[j] = IF j <= p THEN q[j]
                               ELSE IF j = p + 1 THEN w ELSE q[j - 1]
    BY InsertFacts
  <2> QED BY <2>1, <2>2
<1> HIDE DEF x
<1>3. \A j \in 1 .. n : Genuine(q[j]) /\ q[j].T > t /\ Before(q[j]) > r
  BY DEF QueueOK
<1>4. \A j \in 1 .. n + 1 :
        \/ j <= p /\ j \in 1 .. n /\ x[j] = q[j]
        \/ j = p + 1 /\ x[j] = w
        \/ j > p + 1 /\ j - 1 \in 1 .. n /\ j - 1 > p /\ x[j] = q[j - 1]
  <2> SUFFICES ASSUME NEW j \in 1 .. n + 1
      PROVE  \/ j <= p /\ j \in 1 .. n /\ x[j] = q[j]
             \/ j = p + 1 /\ x[j] = w
             \/ j > p + 1 /\ j - 1 \in 1 .. n /\ j - 1 > p /\ x[j] = q[j - 1]
    OBVIOUS
  <2>1. x[j] = IF j <= p THEN q[j] ELSE IF j = p + 1 THEN w ELSE q[j - 1]
    BY <1>2
  <2> QED BY <2>1, <1>1
<1>5. \A j \in 1 .. Len(x) : Genuine(x[j]) /\ x[j].T > t /\ Before(x[j]) > r
  BY <1>2, <1>3, <1>4
<1>6. ASSUME NEW a \in 1 .. Len(x), NEW b \in 1 .. Len(x), a < b
      PROVE  x[a].T < x[b].T
  <2>1. a \in 1 .. n + 1 /\ b \in 1 .. n + 1 /\ a \in Nat /\ b \in Nat BY <1>1, <1>2
  <2>2. \A j \in 1 .. p : q[j].T < w.T BY DEF Fits
  <2>3. \A j \in p + 1 .. n : w.T < q[j].T BY DEF Fits
  <2>4. \A c, d \in 1 .. n : c < d => q[c].T < q[d].T BY DEF QueueOK, Sorted
  <2>5. CASE a <= p /\ b <= p
    BY <2>1, <2>4, <2>5, <1>1, <1>4, <1>6
  <2>6. CASE a <= p /\ b = p + 1
    BY <2>1, <2>2, <2>6, <1>1, <1>4
  <2>7. CASE a <= p /\ b > p + 1
    <3>1. a \in 1 .. n /\ x[a] = q[a] BY <2>1, <2>7, <1>1, <1>4
    <3>2. b - 1 \in 1 .. n /\ x[b] = q[b - 1] /\ a < b - 1 BY <2>1, <2>7, <1>1, <1>4
    <3> QED BY <3>1, <3>2, <2>4
  <2>8. CASE a = p + 1
    <3>1. x[a] = w BY <2>1, <2>8, <1>1, <1>4
    <3>2. b - 1 \in p + 1 .. n /\ x[b] = q[b - 1] BY <2>1, <2>8, <1>1, <1>4, <1>6
    <3> QED BY <3>1, <3>2, <2>3
  <2>9. CASE a > p + 1
    <3>1. a - 1 \in 1 .. n /\ x[a] = q[a - 1] BY <2>1, <2>9, <1>1, <1>4
    <3>2. b - 1 \in 1 .. n /\ x[b] = q[b - 1] /\ a - 1 < b - 1
      BY <2>1, <2>9, <1>1, <1>4, <1>6
    <3> QED BY <3>1, <3>2, <2>4
  <2> QED BY <2>1, <2>5, <2>6, <2>7, <2>8, <2>9, <1>1, <1>6
<1>7. x # <<>> BY <1>1, <1>2
<1> QED BY <1>2, <1>5, <1>6, <1>7 DEF QueueOK, Sorted, x

LEMMA AheadKeeps ==
  ASSUME IInv, state = "MEMBER",
         NEW i \in 1 .. Len(sent), i > Rchan.Tseq, Before(Arrived(i)) # Rchan.Rseq,
         Ahead(Arrived(i)), UNCHANGED <<sent, freed, state, base>>
  PROVE  IInv'
<1> DEFINE w == Arrived(i)
           q == Rchan.aheadQ
           t == Rchan.Tseq
           r == Rchan.Rseq
<1>1. /\ SentOK /\ t \in 0 .. Len(sent) /\ t \in Nat /\ r = RseqAt(t) /\ r \in Nat
      /\ Rchan \in Channel /\ QueueOK(q, t, r) /\ q \in Seq(QueueT)
      /\ (q # <<>> <=> Rchan.NAKstate # "NULL")
  BY RseqFacts DEF IInv, ChannelOK, QueueOK, StateOK, GapIsPursued
<1>2. /\ Genuine(w) /\ w.T > t /\ w \in QueueT
      /\ Before(w) = Before(sent[i]) /\ Before(w) \in Nat
  BY <1>1, ArrivedFacts, SentFacts DEF Genuine
<1>3. Before(w) > r
  <2>1. t \in 0 .. i - 1 BY <1>1
  <2>2. Before(sent[i]) >= RseqAt(t) BY <2>1, <1>1 DEF SentOK
  <2> QED BY <2>2, <1>1, <1>2
<1> HIDE DEF w
\* It is enough that the new queue is in order and the NAK timer runs.
<1>4. SUFFICES /\ Rchan' \in Channel /\ Rchan'.Tseq = t /\ Rchan'.Rseq = r
               /\ QueueOK(Rchan'.aheadQ, t, r)
               /\ Rchan'.aheadQ # <<>> /\ Rchan'.NAKstate # "NULL"
  <2>1. SentOK' BY <1>1 DEF SentOK, RseqAt
  <2>2. ChannelOK'
    <3>1. QueueOK(Rchan.aheadQ, Rchan.Tseq, Rchan.Rseq)'
      BY <1>4 DEF QueueOK, Genuine
    <3>2. (Rchan.Tseq \in 0 .. Len(sent) /\ Rchan.Rseq = RseqAt(Rchan.Tseq))'
      BY <1>1, <1>4 DEF RseqAt
    <3> QED BY <3>1, <3>2, <1>4 DEF ChannelOK
  <2>3. taken' = taken BY DEF Ahead
  <2>4. TakenOK' BY <2>3, <1>4 DEF IInv, TakenOK
  <2>5. StateOK' BY <1>4 DEF StateOK, GapIsPursued
  <2>6. freed' \in Nat BY DEF IInv
  <2> QED BY <2>1, <2>2, <2>4, <2>5, <2>6, <1>4 DEF IInv
<1>5. CASE \E j \in 1 .. Len(q) :
             q[j].T = w.T /\ Rchan' = [Rchan EXCEPT !.aheadQ[j].buf = FALSE]
  <2> PICK j \in 1 .. Len(q) :
        Rchan' = [Rchan EXCEPT !.aheadQ[j].buf = FALSE]
    BY <1>5
  <2> DEFINE x == [q EXCEPT ![j].buf = FALSE]
  <2>1. /\ x \in Seq(QueueT) /\ Len(x) = Len(q)
        /\ \A m \in 1 .. Len(q) :
             x[m].T = q[m].T /\ x[m].R = q[m].R /\ x[m].rel = q[m].rel
    BY <1>1, ReleasedFacts
  <2>2. Rchan' = [Rchan EXCEPT !.aheadQ = x] BY <1>1 DEF Channel
  <2> HIDE DEF x
  <2>3. Rchan' \in Channel /\ Rchan'.Tseq = t /\ Rchan'.Rseq = r
        /\ Rchan'.aheadQ = x /\ Rchan'.NAKstate = Rchan.NAKstate
    BY <1>1, <2>1, <2>2 DEF Channel
  <2>4. \A m \in 1 .. Len(x) : x[m] \in QueueT BY <2>1, ElementOfSeq
  <2>5. QueueOK(x, t, r)
    BY <1>1, <2>1, <2>4, SMTT(30) DEF QueueOK, Genuine, Sorted, Before
  <2>6. x # <<>> /\ q # <<>> BY <1>1, <2>1
  <2> QED BY <1>1, <2>3, <2>5, <2>6
<1>6. CASE \E p \in 0 .. Len(q) :
             /\ Fits(q, p, w)
             /\ Rchan' = AheadNak([Rchan EXCEPT !.aheadQ = Insert(q, p, w),
                                       !.lastnak = LastNak(q, p, w)])
  <2>1. PICK p \in 0 .. Len(q) :
          /\ Fits(q, p, w)
          /\ Rchan' = AheadNak([Rchan EXCEPT !.aheadQ = Insert(q, p, w),
                                    !.lastnak = LastNak(q, p, w)])
    BY <1>6
  <2> DEFINE x == Insert(q, p, w)
             ch == [Rchan EXCEPT !.aheadQ = x, !.lastnak = LastNak(q, p, w)]
  <2>2. QueueOK(x, t, r) /\ x # <<>> BY <1>1, <1>2, <1>3, <2>1, InsertKeeps
  <2>3. x \in Seq(QueueT) BY <2>2 DEF QueueOK
  <2>4. LastNak(q, p, w) \in Nat BY <1>1, <1>2 DEF LastNak, Channel
  <2> HIDE DEF x
  <2>5. ch \in Channel /\ ch.Tseq = t /\ ch.Rseq = r /\ ch.aheadQ = x
        /\ ch.NAKstate = Rchan.NAKstate
    BY <1>1, <2>3, <2>4 DEF Channel
  <2>6. Rchan' = AheadNak(ch) BY <2>1 DEF x
  <2> HIDE DEF ch
  <2>7. CASE ch.NAKstate = "NULL"
    BY <2>2, <2>5, <2>6, <2>7, <1>1, NakkingFacts DEF AheadNak
  <2>8. CASE ch.NAKstate # "NULL"
    BY <2>2, <2>5, <2>6, <2>8, <1>1 DEF AheadNak
  <2> QED BY <2>7, <2>8
<1> QED BY <1>5, <1>6 DEF Ahead, w

-----------------------------------------------------------------------------
(***************************************************************************)
(* The invariant is inductive.                                             *)
(***************************************************************************)
LEMMA FollowKeeps ==
  ASSUME IInv, state = "JOINPEND", NEW i \in 1 .. Len(sent), i > Rchan.Tseq,
         Rchan' = [Rchan EXCEPT !.Tseq = i, !.Rseq = Arrived(i).R], base' = i,
         UNCHANGED <<sent, freed, state, taken>>
  PROVE  IInv'
<1>1. /\ SentOK /\ Rchan \in Channel /\ taken = <<>> /\ Rchan.aheadQ = <<>>
      /\ Rchan.NAKstate = "NULL" /\ i \in Nat
  BY DEF IInv, ChannelOK, StateOK
<1>2. Arrived(i).R = sent[i].R /\ sent[i].R \in Nat
  BY <1>1, SentFacts DEF Arrived
<1>3. Rchan' \in Channel /\ Rchan'.Tseq = i /\ Rchan'.Rseq = sent[i].R
      /\ Rchan'.aheadQ = <<>> /\ Rchan'.NAKstate = "NULL"
  BY <1>1, <1>2 DEF Channel
<1>4. SentOK' BY <1>1 DEF SentOK, RseqAt
<1>5. ChannelOK'
  <2>1. QueueOK(Rchan.aheadQ, Rchan.Tseq, Rchan.Rseq)'
    <3> DEFINE q == Rchan'.aheadQ
    <3>0. q = <<>> BY <1>3
    <3> HIDE DEF q
    <3>1. q \in Seq(QueueT) /\ Len(q) = 0 BY <3>0
    <3>2. \A j \in 1 .. Len(q) : FALSE BY <3>1
    <3> QED BY <3>1, <3>2 DEF QueueOK, Sorted, q
  <2> QED BY <2>1, <1>3 DEF ChannelOK, RseqAt
<1>6. TakenOK' BY <1>1, <1>3 DEF TakenOK, Promise!Gapless, Promise!Position
<1>7. StateOK' BY <1>1, <1>3 DEF StateOK, GapIsPursued
<1> QED BY <1>4, <1>5, <1>6, <1>7 DEF IInv

LEMMA WrapperKeeps ==
  ASSUME IInv, NEW i \in 1 .. Len(sent), NEW oldest, rx_wrapper(i, oldest)
  PROVE  IInv'
<1>1. state # "GONE" BY DEF rx_wrapper
<1>2. CASE killRchan BY <1>1, <1>2, KillKeeps
<1>3. CASE ~ killRchan
  <2>1. /\ ~ Repeat(i) /\ UNCHANGED <<sent, freed, state>>
        /\ \/ /\ state = "JOINPEND" /\ base' = i
              /\ Rchan' = [Rchan EXCEPT !.Tseq = i, !.Rseq = Arrived(i).R]
              /\ UNCHANGED taken
           \/ /\ state = "MEMBER" /\ Before(Arrived(i)) = Rchan.Rseq
              /\ InOrder(Arrived(i)) /\ UNCHANGED base
           \/ /\ state = "MEMBER" /\ Before(Arrived(i)) # Rchan.Rseq
              /\ Ahead(Arrived(i)) /\ UNCHANGED base
    BY <1>3 DEF rx_wrapper
  <2>2. i > Rchan.Tseq
    <3>1. Rchan.Tseq \in Nat BY DEF IInv, ChannelOK, Channel
    <3> QED BY <2>1, <3>1 DEF Repeat
  <2> QED BY <2>1, <2>2, FollowKeeps, InOrderKeeps, AheadKeeps
<1> QED BY <1>2, <1>3

LEMMA InitHolds == Init => IInv
<1> SUFFICES ASSUME Init PROVE IInv OBVIOUS
<1> USE DEF Init
<1>1. Len(sent) = 0 /\ Len(taken) = 0 OBVIOUS
<1>2. SentOK BY <1>1 DEF SentOK
<1>3. ChannelOK
  <2>1. 0 \in 0 .. NakRetries BY ReceiverAssumption
  <2> QED BY <2>1, <1>1 DEF ChannelOK, Channel, NAKstates, RseqAt, QueueOK, Sorted
<1>4. TakenOK BY <1>1 DEF TakenOK, Promise!Gapless, Promise!Position
<1>5. StateOK BY DEF StateOK, GapIsPursued
<1> QED BY <1>2, <1>3, <1>4, <1>5 DEF IInv

LEMMA NextKeeps == IInv /\ [Next]_vars => IInv'
<1> SUFFICES ASSUME IInv, [Next]_vars PROVE IInv' OBVIOUS
<1>1. CASE \E reliable \in BOOLEAN : SendWrapper(reliable) BY <1>1, SendKeeps
<1>2. CASE Discard
  <2>1. freed' \in Nat BY <1>2 DEF Discard, IInv
  <2>2. StateOK' BY <1>2 DEF Discard, IInv, StateOK, GapIsPursued
  <2> QED BY <1>2, <2>1, <2>2, SequenceKept DEF Discard, IInv, ChannelOK
<1>3. CASE Joined
  <2>1. StateOK' BY <1>3 DEF Joined, IInv, StateOK, GapIsPursued
  <2> QED BY <1>3, <2>1, SequenceKept DEF Joined, IInv, ChannelOK
<1>4. CASE \E i \in 1 .. Len(sent) : \E oldest \in 1 .. freed + 1 : rx_wrapper(i, oldest)
  BY <1>4, WrapperKeeps
<1>5. CASE NAKholdoffAction BY <1>5, NAKholdoffKeeps
<1>6. CASE NAKfailAction BY <1>6, NAKfailKeeps
<1>7. CASE \E first \in 1 .. LastRseq : \E last \in first .. LastRseq :
             rx_outboundNAK(first, last)
  <2>1. LastRseq \in Nat BY LastFacts DEF IInv
  <2> QED BY <1>7, <2>1, OutboundNAKKeeps
<1>8. CASE UNCHANGED vars
  <2>1. StateOK' BY <1>8 DEF vars, IInv, StateOK, GapIsPursued
  <2> QED BY <1>8, <2>1, SequenceKept DEF vars, IInv, ChannelOK
<1> QED BY <1>1, <1>2, <1>3, <1>4, <1>5, <1>6, <1>7, <1>8 DEF Next, sdtRxRchan

LEMMA Inductive == Spec => []IInv
  BY InitHolds, NextKeeps, PTL DEF Spec

-----------------------------------------------------------------------------
(***************************************************************************)
(* Every variable has its type; the retry counter keeps to its limit       *)
(* (NAKtries in NAKfailAction and rx_wrapper).                             *)
(***************************************************************************)
THEOREM Typed == Spec => []TypeOK
<1>1. IInv => TypeOK
  BY DEF IInv, SentOK, ChannelOK, TakenOK, StateOK, TypeOK
<1> QED BY <1>1, Inductive, PTL

(***************************************************************************)
(* A member processes wrappers in order, none twice, and leaves out none   *)
(* that is reliable, whatever the network does (rx_wrapper).               *)
(***************************************************************************)
THEOREM InOrderAlways == Spec => []TakenInOrder
<1>1. IInv => TakenInOrder BY DEF IInv, TakenOK, TakenInOrder
<1> QED BY <1>1, Inductive, PTL

(***************************************************************************)
(* The assertion in rx_wrapper's loop over aheadQ never fails: a queued    *)
(* wrapper is never behind the sequence, nor behind the one before it.     *)
(***************************************************************************)
THEOREM AssertionHolds == Spec => []NeverBehind
<1>1. IInv => NeverBehind
  <2> SUFFICES ASSUME IInv, NEW j \in 1 .. Len(Rchan.aheadQ)
      PROVE  LET e == Rchan.aheadQ[j]
             IN  IF j = 1 THEN Before(e) > Rchan.Rseq
                 ELSE Before(e) >= Rchan.aheadQ[j - 1].R
                      /\ e.T > Rchan.aheadQ[j - 1].T
    BY DEF NeverBehind
  <2> DEFINE q == Rchan.aheadQ
  <2>1. SentOK /\ QueueOK(q, Rchan.Tseq, Rchan.Rseq) BY DEF IInv, ChannelOK
  <2>2. CASE j = 1 BY <2>1, <2>2 DEF QueueOK
  <2>3. CASE j # 1
    <3> DEFINE e == q[j]
               f == q[j - 1]
    <3>1. Len(q) \in Nat /\ j - 1 \in 1 .. Len(q) /\ j - 1 < j
      BY <2>1, <2>3 DEF QueueOK
    <3>2. f.T < e.T /\ Genuine(e) /\ Genuine(f)
      BY <2>1, <3>1 DEF QueueOK, Sorted
    <3> HIDE DEF e, f
    <3>3. e.T \in 1 .. Len(sent) /\ f.T \in 1 .. Len(sent) /\ e.T \in Nat /\ f.T \in Nat
          /\ f.R = sent[f.T].R /\ Before(e) = Before(sent[e.T])
      BY <2>1, <3>2, GenuineFacts
    <3>4. Before(sent[e.T]) >= sent[f.T].R BY <2>1, <3>2, <3>3, Later
    <3>5. Before(e) >= f.R /\ e.T > f.T BY <3>2, <3>3, <3>4
    <3> QED BY <2>3, <3>5 DEF e, f
  <2> QED BY <2>2, <2>3
<1> QED BY <1>1, Inductive, PTL

(***************************************************************************)
(* While a member has wrappers queued the NAK timer runs, and only then.   *)
(***************************************************************************)
THEOREM GapsPursued == Spec => []GapIsPursued
<1>1. IInv => GapIsPursued BY DEF IInv, StateOK
<1> QED BY <1>1, Inductive, PTL

-----------------------------------------------------------------------------
(***************************************************************************)
(* The receiver implements the promise of the channel.                     *)
(***************************************************************************)
LEMMA TakeSimulates ==
  ASSUME IInv, IInv', NEW i \in 1 .. Len(sent), NEW oldest, rx_wrapper(i, oldest)
  PROVE  [Promise!Next]_(Promise!rvars)
<1>1. CASE killRchan
  BY <1>1 DEF rx_wrapper, killRchan, Promise!Next, Promise!Leave
<1>2. CASE ~ killRchan /\ state = "JOINPEND"
  <2>1. base' = i /\ UNCHANGED <<sent, state, taken>> /\ ~ Repeat(i)
    BY <1>2 DEF rx_wrapper
  <2>2. base = Rchan.Tseq /\ base \in Nat
    BY <1>2 DEF IInv, StateOK, TakenOK, ChannelOK, Channel, Promise!Position
  <2>3. i \in base + 1 .. Len(sent) BY <2>1, <2>2 DEF Repeat
  <2> QED BY <1>2, <2>1, <2>3 DEF Promise!Next, Promise!Follow
<1>3. CASE ~ killRchan /\ state = "MEMBER" /\ Before(Arrived(i)) = Rchan.Rseq
  <2>1. /\ ~ Repeat(i) /\ InOrder(Arrived(i))
        /\ UNCHANGED <<sent, freed, state, base>>
    BY <1>3 DEF rx_wrapper
  <2>2. i > Rchan.Tseq
    <3>1. Rchan.Tseq \in Nat BY DEF IInv, ChannelOK, Channel
    <3> QED BY <2>1, <3>1 DEF Repeat
  <2>3. Len(taken) < Len(taken') /\ SubSeq(taken', 1, Len(taken)) = taken
    BY <1>3, <2>1, <2>2, InOrderKeeps
  <2>4. Len(taken) \in Nat /\ Len(taken') \in Nat BY DEF IInv, TakenOK
  <2>5. Promise!Extends(taken, taken') BY <2>3, <2>4 DEF Promise!Extends
  <2>6. Promise!Gapless(sent, base, taken')
    BY <2>1 DEF IInv, TakenOK
  <2> QED BY <1>3, <2>1, <2>3, <2>5, <2>6 DEF Promise!Next, Promise!Take
<1>4. CASE ~ killRchan /\ state = "MEMBER" /\ Before(Arrived(i)) # Rchan.Rseq
  BY <1>4 DEF rx_wrapper, Ahead, Promise!rvars
<1> QED BY <1>1, <1>2, <1>3, <1>4 DEF IInv, StateOK, rx_wrapper

LEMMA StepSimulates ==
  IInv /\ IInv' /\ [Next]_vars => [Promise!Next]_(Promise!rvars)
<1> SUFFICES ASSUME IInv, IInv', [Next]_vars
             PROVE  [Promise!Next]_(Promise!rvars)
  OBVIOUS
<1> USE DEF Promise!rvars
<1>1. ASSUME NEW reliable \in BOOLEAN, SendWrapper(reliable) PROVE Promise!Next
  <2> DEFINE x == [R |-> LastRseq + Bit(reliable), rel |-> reliable]
  <2>1. sent \in Seq(WrapT) /\ Len(sent) \in Nat BY DEF IInv, SentOK
  <2>2. x \in WrapT
    <3>1. LastRseq \in Nat BY LastFacts DEF IInv
    <3> QED BY <3>1 DEF WrapT, Bit
  <2>3. sent' = Append(sent, x) /\ UNCHANGED <<base, taken, state>>
    BY <1>1 DEF SendWrapper
  <2> HIDE DEF x
  <2>4. Len(sent') = Len(sent) + 1 /\ SubSeq(sent', 1, Len(sent)) = sent
    BY <2>1, <2>2, <2>3, AppendProperties
  <2> QED BY <2>1, <2>3, <2>4 DEF Promise!Next, Promise!Send, Promise!Extends
<1>2. CASE Discard BY <1>2 DEF Discard
<1>3. CASE Joined BY <1>3 DEF Joined, Promise!Next, Promise!Begin
<1>4. ASSUME NEW i \in 1 .. Len(sent), NEW oldest, rx_wrapper(i, oldest)
      PROVE  [Promise!Next]_(Promise!rvars)
  BY <1>4, TakeSimulates
<1>5. CASE NAKholdoffAction BY <1>5 DEF NAKholdoffAction
<1>6. CASE NAKfailAction
  BY <1>6 DEF NAKfailAction, killRchan, Promise!Next, Promise!Leave
<1>7. ASSUME NEW first, NEW last, rx_outboundNAK(first, last)
      PROVE  UNCHANGED Promise!rvars
  BY <1>7 DEF rx_outboundNAK
<1>8. CASE UNCHANGED vars BY <1>8 DEF vars
<1> QED BY <1>1, <1>2, <1>3, <1>4, <1>5, <1>6, <1>7, <1>8 DEF Next, sdtRxRchan

(***************************************************************************)
(* Refinement: every behaviour of the receiver is one the channel promises *)
(* its members (SdtReliable).                                              *)
(***************************************************************************)
THEOREM Implements == Spec => KeepsPromise
<1>1. Init => Promise!Init BY DEF Init, Promise!Init
<1> QED BY <1>1, Inductive, StepSimulates, PTL DEF Spec, KeepsPromise, Promise!Spec
=============================================================================
