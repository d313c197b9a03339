--------------------------- MODULE SdtOwnerProofs ----------------------------
(***************************************************************************)
(* Proofs about SdtOwner for any number of members and wrappers.  The      *)
(* types hold whatever the network does.  That the acks of each wrapper    *)
(* are exact, and that none is freed too early, holds when nothing         *)
(* reliable is sent while a member joins (~ Late) and the reports of a     *)
(* member arrive in order (~ Reorder), as in the run "owner"; without      *)
(* either it is false of the code.                                         *)
(***************************************************************************)
EXTENDS SdtOwner, FiniteSetTheorems, SequenceTheorems,
        IndexLemmas

\* What the other end says is never ahead of what was sent.
PeersBehind ==
  \A m \in Members : /\ peer[m].acked <= peer[m].have /\ peer[m].have <= Rseq
                     /\ peer[m].nak.Rseq <= Rseq

TypeInv == TypeOK /\ ackcount = Cardinality(Counted) /\ PeersBehind

\* A member is where its last report says, and that is no more than it has;
\* while it joins it lacks nothing.
Placed(m) ==
  /\ memb[m].mstate # "NULL" =>
       peer[m].nak.Rseq <= peer[m].have /\ memb[m].Rseq <= peer[m].have
  /\ m \in Joining => memb[m].Rseq = Rseq
  /\ m \in Counted => oldest <= memb[m].Rseq + 1

LedgerInv == TypeInv /\ LedgerExact /\ \A m \in Members : Placed(m)

-----------------------------------------------------------------------------
(***************************************************************************)
(* The helpers.                                                            *)
(***************************************************************************)
LEMMA CountedFinite ==
  /\ IsFiniteSet(Counted) /\ Cardinality(Counted) \in Nat
  /\ \A r : IsFiniteSet(Behind(r)) /\ Cardinality(Behind(r)) \in Nat
<1>1. Counted \in SUBSET Members /\ \A r : Behind(r) \in SUBSET Members
  BY DEF Counted, Behind
<1>2. \A S \in SUBSET Members : IsFiniteSet(S)
  BY FS_Subset, OwnerAssumption
<1> QED
  BY <1>1, <1>2, FS_CardinalityType

\* What updateRmembSeq makes of the list: the wrappers passed wait for one
\* less, and the list is cut behind one of them that waits for nobody.
Passed(u, m, r) ==
  /\ u.acks \in Seq(Int) /\ Len(u.acks) = Rseq
  /\ u.oldest \in oldest .. Rseq + 1
  /\ \A s \in u.oldest .. Rseq :
       u.acks[s] = IF s <= r /\ memb[m].Rseq < s THEN acks[s] - 1 ELSE acks[s]
  /\ \/ u.oldest = oldest
     \/ \E s \in oldest .. r : /\ u.oldest = s + 1 /\ memb[m].Rseq < s
                               /\ acks[s] - 1 = 0

LEMMA UpdateFacts ==
  ASSUME TypeOK, NEW m \in Members, NEW r \in Nat, r <= Rseq,
         NEW u, u = updateRmembSeq(Back, m, r)
  PROVE  Passed(u, m, r)
<1> DEFINE passes == {s \in oldest .. r : memb[m].Rseq < s}
           left   == [s \in 1 .. Len(acks) |->
                        IF s \in passes THEN acks[s] - 1 ELSE acks[s]]
           done   == {s \in passes : left[s] = 0}
           first  == IF done = {} THEN oldest
                     ELSE 1 + CHOOSE s \in done : \A t \in done : t <= s
           cut    == [s \in 1 .. Len(acks) |-> IF s < first THEN 0 ELSE left[s]]
<1>1. u = [acks |-> cut, oldest |-> first]
  BY ZenonT(60) DEF updateRmembSeq, Back
<1>2. /\ Len(acks) \in Nat /\ oldest \in Nat /\ 1 <= oldest /\ oldest <= Len(acks) + 1
      /\ r <= Len(acks) /\ \A s \in 1 .. Len(acks) : acks[s] \in Int
      /\ memb[m].Rseq \in Nat
  BY DEF TypeOK, Rseq, MembT
<1>3. passes \subseteq 1 .. Len(acks)
  BY <1>2
<1>4. \A s \in 1 .. Len(acks) : left[s] \in Int
  BY <1>2
<1>5. ASSUME done # {}
      PROVE  \E s \in passes : first = s + 1 /\ left[s] = 0
  <2>1. done \in SUBSET (0 .. r)
    BY <1>2
  <2>2. \E s \in done : \A t \in done : t <= s
    BY <2>1, <1>5, SomeGreatest
  <2> DEFINE g == CHOOSE s \in done : \A t \in done : t <= s
  <2>3. g \in done
    BY <2>2
  <2>4. first = 1 + g
    BY <1>5
  <2> HIDE DEF g, first
  <2>5. g \in Nat /\ g \in passes /\ left[g] = 0
    BY <2>3, <1>2
  <2> HIDE DEF passes, left
  <2>6. first = g + 1
    BY <2>4, <2>5
  <2> QED
    BY <2>5, <2>6
<1>6. first = oldest \/ \E s \in passes : first = s + 1 /\ left[s] = 0
  BY <1>5
<1> HIDE DEF first
<1>7. first \in oldest .. Len(acks) + 1
  <2>1. CASE first = oldest
    BY <1>2, <2>1
  <2>2. CASE \E s \in passes : first = s + 1 /\ left[s] = 0
    <3>1. PICK s \in passes : first = s + 1
      BY <2>2
    <3>2. s \in Int /\ oldest <= s /\ s <= r
      BY <1>2, <3>1
    <3> QED
      BY <1>2, <3>1, <3>2
  <2> QED
    BY <1>6, <2>1, <2>2
<1>8. cut \in Seq(Int) /\ Len(cut) = Len(acks)
  <2>1. cut \in [1 .. Len(acks) -> Int]
    BY <1>4
  <2> QED
    BY <2>1, <1>2
<1>9. \A s \in first .. Len(acks) :
        cut[s] = IF s <= r /\ memb[m].Rseq < s THEN acks[s] - 1 ELSE acks[s]
  BY <1>2, <1>7
<1>10. first = oldest \/ \E s \in oldest .. r :
         first = s + 1 /\ memb[m].Rseq < s /\ acks[s] - 1 = 0
  BY <1>3, <1>6
<1> HIDE DEF cut
<1> QED
  BY <1>1, <1>7, <1>8, <1>9, <1>10 DEF Rseq, Passed

\* A wrapper more on a list.
LEMMA KeepFacts ==
  ASSUME NEW a \in Seq(Int), NEW o, NEW n \in Int,
         NEW u, u = Keep([acks |-> a, oldest |-> o], n)
  PROVE  /\ u.acks \in Seq(Int) /\ Len(u.acks) = Len(a) + 1 /\ u.oldest = o
         /\ \A s \in 1 .. Len(a) : u.acks[s] = a[s]
         /\ u.acks[Len(a) + 1] = n
<1>1. u = [acks |-> Append(a, n), oldest |-> o]
  BY DEF Keep
<1>2. /\ Append(a, n) \in Seq(Int) /\ Len(Append(a, n)) = Len(a) + 1
      /\ \A s \in 1 .. Len(a) : Append(a, n)[s] = a[s]
      /\ Append(a, n)[Len(a) + 1] = n
  BY AppendProperties
<1>3. u.acks = Append(a, n) /\ u.oldest = o
  BY <1>1
<1> QED
  BY <1>2, <1>3

\* Those of C behind wrapper s, once member m is at r.
At(m, r, o) == IF o = m THEN r ELSE memb[o].Rseq
Left(C, m, r, s) == {o \in C : At(m, r, o) < s}

Settled(u, C, m, r) ==
  /\ \A s \in u.oldest .. Rseq : u.acks[s] = Cardinality(Left(C, m, r, s))
  /\ \A o \in C : u.oldest <= At(m, r, o) + 1

\* With member m at r, or gone and r the last wrapper, the wrappers wait for
\* the members behind them again, and none went that a member has to report.
LEMMA UpdateIsExact ==
  ASSUME TypeOK, LedgerExact, NEW m \in Counted, NEW r \in Nat,
         memb[m].Rseq <= r, r <= Rseq,
         \A o \in Counted : oldest <= memb[o].Rseq + 1,
         NEW u, u = updateRmembSeq(Back, m, r),
         NEW C,
         \/ C = Counted \ {m} /\ r = Rseq
         \/ C = Counted
  PROVE  Settled(u, C, m, r)
<1>1. /\ Rseq \in Nat /\ oldest \in Nat /\ 1 <= oldest
      /\ \A o \in Members : memb[o].Rseq \in Nat
      /\ m \in Members /\ Counted \subseteq Members /\ C \subseteq Counted
  BY DEF TypeOK, Rseq, MembT, Counted
<1>2. /\ u.oldest \in oldest .. Rseq + 1
      /\ \A s \in u.oldest .. Rseq :
           u.acks[s] = IF s <= r /\ memb[m].Rseq < s THEN acks[s] - 1 ELSE acks[s]
      /\ \/ u.oldest = oldest
         \/ \E s \in oldest .. r : /\ u.oldest = s + 1 /\ memb[m].Rseq < s
                                   /\ acks[s] - 1 = 0
  <2>1. m \in Members
    BY <1>1
  <2>2. Passed(u, m, r)
    BY <2>1, UpdateFacts
  <2> QED
    BY <2>2 DEF Passed
<1>3. \A s \in oldest .. Rseq : acks[s] = Cardinality(Behind(s))
  BY DEF LedgerExact
<1>4. ASSUME NEW s \in oldest .. Rseq
      PROVE  Left(C, m, r, s) =
               IF s <= r /\ memb[m].Rseq < s THEN Behind(s) \ {m} ELSE Behind(s)
  <2>1. s \in Nat /\ Left(C, m, r, s) = {o \in C : At(m, r, o) < s}
    BY <1>1 DEF Left
  <2>2. CASE C = Counted
    BY <1>1, <2>1, <2>2 DEF Behind, At
  <2>3. CASE C = Counted \ {m} /\ r = Rseq
    BY <1>1, <2>1, <2>3 DEF Behind, At
  <2> QED
    BY <2>2, <2>3
<1>5. ASSUME NEW s \in oldest .. Rseq, s <= r, memb[m].Rseq < s
      PROVE  Cardinality(Left(C, m, r, s)) = acks[s] - 1
  <2>1. m \in Behind(s) /\ IsFiniteSet(Behind(s))
    BY <1>5, CountedFinite DEF Behind
  <2>2. Cardinality(Behind(s) \ {m}) = Cardinality(Behind(s)) - 1
    BY <2>1, FS_RemoveElement
  <2> QED
    BY <1>3, <1>4, <1>5, <2>2
<1>6. ASSUME NEW s \in u.oldest .. Rseq
      PROVE  u.acks[s] = Cardinality(Left(C, m, r, s))
  <2>1. s \in oldest .. Rseq
    BY <1>1, <1>2
  <2>2. CASE s <= r /\ memb[m].Rseq < s
    BY <1>2, <1>5, <2>1, <2>2
  <2>3. CASE ~ (s <= r /\ memb[m].Rseq < s)
    BY <1>2, <1>3, <1>4, <2>1, <2>3
  <2> QED
    BY <2>2, <2>3
<1>7. ASSUME NEW o \in C
      PROVE  u.oldest <= At(m, r, o) + 1
  <2>1. CASE u.oldest = oldest
    BY <1>1, <2>1 DEF At
  <2>2. CASE u.oldest # oldest
    <3>1. PICK s \in oldest .. r : /\ u.oldest = s + 1 /\ memb[m].Rseq < s
                                   /\ acks[s] - 1 = 0
      BY <1>2, <2>2
    <3>2. s \in oldest .. Rseq /\ s <= r /\ s \in Nat
      BY <1>1, <3>1
    <3>3. Cardinality(Left(C, m, r, s)) = 0
      BY <1>5, <3>1, <3>2
    <3>4. IsFiniteSet(Left(C, m, r, s))
      <4>1. Left(C, m, r, s) \in SUBSET Counted
        BY <1>1, <3>2 DEF Left
      <4> QED
        BY <4>1, CountedFinite, FS_Subset
    <3>5. Left(C, m, r, s) = {}
      BY <3>3, <3>4, FS_EmptySet
    <3>6. ~ (At(m, r, o) < s)
      BY <3>2, <3>5 DEF Left
    <3>7. o \in Members
      BY <1>1
    <3> QED
      BY <1>1, <3>1, <3>2, <3>6, <3>7 DEF At
  <2> QED
    BY <2>1, <2>2
<1> QED
  BY <1>6, <1>7 DEF Settled

-----------------------------------------------------------------------------
(***************************************************************************)
(* The types.                                                              *)
(***************************************************************************)
BackTyped(a, o) == a \in Seq(Int) /\ o \in 1 .. Len(a) + 1

LEMMA KeepTyped ==
  ASSUME NEW a \in Seq(Int), NEW o \in 1 .. Len(a) + 1, NEW n \in Int,
         Becomes(Keep([acks |-> a, oldest |-> o], n))
  PROVE  BackTyped(acks', oldest') /\ Len(acks') = Len(a) + 1
<1>1. Len(a) \in Nat
  OBVIOUS
<1> QED
  BY <1>1, KeepFacts DEF Becomes, BackTyped

LEMMA UpdateTyped ==
  ASSUME TypeOK, NEW m \in Members, NEW r \in Nat, r <= Rseq,
         NEW u, u = updateRmembSeq(Back, m, r)
  PROVE  /\ BackTyped(u.acks, u.oldest) /\ Len(u.acks) = Rseq
         /\ u = [acks |-> u.acks, oldest |-> u.oldest]
<1>1. /\ u.acks \in Seq(Int) /\ Len(u.acks) = Rseq
      /\ u.oldest \in oldest .. Rseq + 1
  BY UpdateFacts DEF Passed
<1>2. oldest \in Nat /\ 1 <= oldest /\ Rseq \in Nat
  BY DEF TypeOK, Rseq
<1>3. u = [acks |-> u.acks, oldest |-> u.oldest]
  BY DEF updateRmembSeq
<1> QED
  BY <1>1, <1>2, <1>3 DEF BackTyped

LEMMA TypesBegin == Init => TypeInv
<1> SUFFICES ASSUME Init PROVE TypeInv
  OBVIOUS
<1>1. Counted = {}
  BY DEF Init, Counted, Gone
<1>2. acks \in Seq(Int) /\ Len(acks) = 0
  BY DEF Init
<1>3. TypeOK
  BY <1>2 DEF Init, TypeOK, Rseq, MembT, PeerT, BlankT, NakT, NoNak, Gone, Away, MState
<1>4. PeersBehind
  BY <1>2 DEF Init, PeersBehind, Rseq, Away, NoNak
<1> QED
  BY <1>1, <1>3, <1>4, FS_EmptySet DEF TypeInv, Init

\* A step that leaves acks and ackcount to the list's lemmas.
LEMMA TypesFrom ==
  ASSUME TypeInv, BackTyped(acks', oldest'), Rseq <= Len(acks'),
         memb' \in [Members -> MembT], peer' \in [Members -> PeerT],
         blank' \in BlankT, ackcount' = Cardinality(Counted'),
         \A m \in Members : /\ peer'[m].acked <= peer'[m].have
                            /\ peer'[m].have <= Rseq
                            /\ peer'[m].nak.Rseq <= Rseq
  PROVE  TypeInv'
<1>1. Rseq \in Nat /\ Len(acks') \in Nat
  BY DEF TypeInv, TypeOK, Rseq, BackTyped
<1>2. \A m \in Members : peer'[m].have \in Nat /\ peer'[m].nak.Rseq \in Nat
  BY DEF PeerT, NakT
<1>3. PeersBehind'
  BY <1>1, <1>2 DEF PeersBehind, Rseq
<1>4. Counted' \in SUBSET Members
  BY DEF Counted
<1>5. IsFiniteSet(Members)
  BY OwnerAssumption
<1>6. IsFiniteSet(Counted')
  BY <1>4, <1>5, FS_Subset
<1>7. Cardinality(Counted') \in Nat
  BY <1>6, FS_CardinalityType
<1> QED
  BY <1>3, <1>7 DEF TypeInv, TypeOK, BackTyped, Rseq

LEMMA TypeFacts ==
  ASSUME TypeInv
  PROVE  /\ Rseq \in Nat /\ oldest \in 1 .. Rseq + 1 /\ acks \in Seq(Int)
         /\ BackTyped(acks, oldest) /\ Rseq = Len(acks) /\ TypeOK
         /\ memb \in [Members -> MembT] /\ peer \in [Members -> PeerT]
         /\ blank \in BlankT /\ ackcount \in Nat
         /\ Back = [acks |-> acks, oldest |-> oldest]
         /\ \A m \in Members :
              /\ peer[m].acked <= peer[m].have /\ peer[m].have <= Rseq
              /\ peer[m].nak.Rseq <= Rseq
              /\ peer[m].acked \in Nat /\ peer[m].have \in Nat
              /\ peer[m].nak \in NakT /\ peer[m].nak.Rseq \in Nat
              /\ memb[m].Rseq \in Nat
  BY DEF TypeInv, TypeOK, Rseq, BackTyped, PeersBehind, PeerT, NakT, MembT, Back

\* A wrapper more on the list there is.
LEMMA KeptBack ==
  ASSUME TypeInv, NEW n \in Int, Becomes(Keep(Back, n))
  PROVE  /\ BackTyped(acks', oldest') /\ Len(acks') = Rseq + 1
         /\ oldest' = oldest /\ acks'[Rseq + 1] = n
         /\ \A s \in 1 .. Rseq : acks'[s] = acks[s]
<1>1. /\ acks \in Seq(Int) /\ oldest \in 1 .. Len(acks) + 1 /\ Rseq = Len(acks)
      /\ Back = [acks |-> acks, oldest |-> oldest]
  BY TypeFacts
<1>2. PICK u : u = Keep([acks |-> acks, oldest |-> oldest], n)
  OBVIOUS
<1>3. /\ u.acks \in Seq(Int) /\ Len(u.acks) = Len(acks) + 1 /\ u.oldest = oldest
      /\ \A s \in 1 .. Len(acks) : u.acks[s] = acks[s]
      /\ u.acks[Len(acks) + 1] = n
  BY <1>1, <1>2, KeepFacts
<1>4. acks' = u.acks /\ oldest' = u.oldest
  BY <1>1, <1>2 DEF Becomes
<1>5. Len(acks) \in Nat
  BY <1>1
<1> QED
  BY <1>1, <1>3, <1>4, <1>5 DEF BackTyped

\* A member that is told where the channel is.
LEMMA PeerAt ==
  ASSUME NEW p \in [Members -> PeerT], NEW m \in Members, NEW t \in BOOLEAN,
         NEW r \in Nat, NEW q,
         q = [p EXCEPT ![m].taking = t, ![m].have = r, ![m].acked = r]
  PROVE  q \in [Members -> PeerT]
<1>1. q[m] = [p[m] EXCEPT !.taking = t, !.have = r, !.acked = r]
  BY DEF PeerT
<1>2. p[m] \in PeerT
  OBVIOUS
<1>3. q[m] \in PeerT
  BY <1>1, <1>2 DEF PeerT
<1>4. \A o \in Members \ {m} : q[o] = p[o]
  OBVIOUS
<1>5. q = [o \in Members |-> q[o]]
  OBVIOUS
<1> QED
  BY <1>3, <1>4, <1>5

LEMMA KillTyped ==
  ASSUME TypeInv, NEW m \in Members, killMember(m)
  PROVE  TypeInv'
<1>1. memb' \in [Members -> MembT] /\ peer' \in [Members -> PeerT] /\ blank' \in BlankT
  BY TypeFacts
  DEF killMember, MembT, MState, Gone, Away, PeerT, NakT, NoNak, BlankT
<1>2. \A o \in Members : /\ peer'[o].acked <= peer'[o].have
                         /\ peer'[o].have <= Rseq /\ peer'[o].nak.Rseq <= Rseq
  BY TypeFacts DEF killMember, Away
<1>3. Counted' = Counted \ {m}
  BY TypeFacts DEF killMember, Counted, Gone
<1>4. Cardinality(Counted') = IF m \in Counted THEN ackcount - 1 ELSE ackcount
  BY <1>3, CountedFinite, FS_RemoveElement DEF TypeInv
<1>5. CASE memb[m].mstate = "JOINRQ"
  <2>1. m \notin Counted
    BY <1>5 DEF Counted
  <2>2. UNCHANGED <<acks, oldest, ackcount>>
    BY <1>5 DEF killMember
  <2> QED
    BY <1>1, <1>2, <1>4, <2>1, <2>2, TypeFacts, TypesFrom
<1>6. CASE memb[m].mstate = "JOINPEND"
  <2>1. m \notin Counted
    BY <1>6 DEF Counted
  <2>2. Becomes(Keep(Back, ackcount)) /\ ackcount' = ackcount
    BY <1>6 DEF killMember
  <2>3. BackTyped(acks', oldest') /\ Len(acks') = Rseq + 1
    BY <2>2, TypeFacts, KeepTyped
  <2> QED
    BY <1>1, <1>2, <1>4, <2>1, <2>2, <2>3, TypeFacts, TypesFrom
<1>7. CASE memb[m].mstate = "MEMBER"
  <2>1. m \in Counted
    BY <1>7 DEF Counted
  <2> DEFINE u == updateRmembSeq(Back, m, Rseq)
  <2>2. Becomes(Keep(u, ackcount - 1)) /\ ackcount' = ackcount - 1
    BY <1>7 DEF killMember
  <2>3. /\ BackTyped(u.acks, u.oldest) /\ Len(u.acks) = Rseq
        /\ u = [acks |-> u.acks, oldest |-> u.oldest]
    BY TypeFacts, UpdateTyped
  <2> HIDE DEF u
  <2>4. ackcount - 1 \in Int
    BY TypeFacts
  <2>5. BackTyped(acks', oldest') /\ Len(acks') = Rseq + 1
    <3>1. u.acks \in Seq(Int) /\ u.oldest \in 1 .. Len(u.acks) + 1
      BY <2>3 DEF BackTyped
    <3>2. Becomes(Keep([acks |-> u.acks, oldest |-> u.oldest], ackcount - 1))
      BY <2>2, <2>3
    <3> QED
      BY <2>3, <2>4, <3>1, <3>2, KeepTyped
  <2> QED
    BY <1>1, <1>2, <1>4, <2>1, <2>2, <2>5, TypeFacts, TypesFrom
<1> QED
  BY <1>5, <1>6, <1>7 DEF killMember

LEMMA AckTyped ==
  ASSUME TypeInv, NEW m \in Members, NEW r \in peer[m].acked .. peer[m].have,
         rx_ack(m, r)
  PROVE  TypeInv'
<1>1. r \in Nat /\ r <= Rseq /\ r <= peer[m].have
  BY TypeFacts
<1>2. /\ memb' \in [Members -> MembT] /\ peer' \in [Members -> PeerT]
      /\ blank' \in BlankT
  <2>1. peer' \in [Members -> PeerT]
    BY <1>1, TypeFacts DEF rx_ack, PeerT
  <2>2. /\ [memb EXCEPT ![m].Rseq = r] \in [Members -> MembT]
        /\ [memb EXCEPT ![m] = [mstate |-> "MEMBER", Rseq |-> r]] \in [Members -> MembT]
    BY <1>1, TypeFacts DEF MembT, MState
  <2>3. memb' \in [Members -> MembT]
    BY <2>2, TypeFacts DEF rx_ack
  <2> QED
    BY <2>1, <2>3, TypeFacts DEF rx_ack
<1>3. \A o \in Members : /\ peer'[o].acked <= peer'[o].have
                         /\ peer'[o].have <= Rseq /\ peer'[o].nak.Rseq <= Rseq
  BY <1>1, TypeFacts DEF rx_ack
<1>4. CASE memb[m].mstate = "JOINRQ"
  BY <1>2, <1>3, <1>4, TypeFacts, TypesFrom DEF rx_ack, TypeInv, Counted
<1>5. CASE memb[m].mstate = "MEMBER"
  <2>1. Counted' = Counted /\ ackcount' = ackcount
    <3>1. memb' = [memb EXCEPT ![m].Rseq = r] /\ ackcount' = ackcount
      BY <1>5 DEF rx_ack
    <3>2. \A o \in Members : memb'[o].mstate = memb[o].mstate
      BY <3>1, TypeFacts DEF MembT
    <3> QED
      BY <3>1, <3>2 DEF Counted
  <2>2. BackTyped(acks', oldest') /\ Len(acks') = Rseq
    <3>1. PICK u : u = updateRmembSeq(Back, m, r)
      OBVIOUS
    <3>2. acks' = u.acks /\ oldest' = u.oldest
      BY <1>5, <3>1 DEF rx_ack, Becomes
    <3>3. TypeOK /\ r \in Nat /\ r <= Rseq
      BY <1>1, TypeFacts
    <3>4. BackTyped(u.acks, u.oldest) /\ Len(u.acks) = Rseq
      BY <3>1, <3>3, UpdateTyped
    <3> QED
      BY <3>2, <3>4
  <2> QED
    BY <1>2, <1>3, <2>1, <2>2, TypeFacts, TypesFrom DEF TypeInv
<1>6. CASE memb[m].mstate = "JOINPEND"
  <2>1. ackcount' = ackcount + 1
    BY <1>6 DEF rx_ack
  <2>2. Counted' = Counted \cup {m} /\ m \notin Counted
    BY <1>6, TypeFacts DEF rx_ack, Counted
  <2>3. ackcount' = Cardinality(Counted')
    BY <2>1, <2>2, CountedFinite, FS_AddElement DEF TypeInv
  <2>4. Becomes(Back) \/ Becomes(Keep(Back, ackcount + 1))
    BY <1>6 DEF rx_ack
  <2>5. BackTyped(acks', oldest') /\ Rseq <= Len(acks')
    <3>1. CASE Becomes(Back)
      BY <3>1, TypeFacts DEF Becomes, Back
    <3>2. CASE Becomes(Keep(Back, ackcount + 1))
      <4>1. ackcount + 1 \in Int
        BY TypeFacts
      <4>2. Rseq \in Nat
        BY TypeFacts
      <4> QED
        BY <3>2, <4>1, <4>2, KeptBack
    <3> QED
      BY <2>4, <3>1, <3>2
  <2> QED
    BY <1>2, <1>3, <2>3, <2>5, TypesFrom
<1> QED
  BY <1>4, <1>5, <1>6 DEF rx_ack

LEMMA NakTyped ==
  ASSUME TypeInv, NEW m \in Members, rx_ownerNAK(m)
  PROVE  TypeInv'
<1>1. memb' \in [Members -> MembT] /\ Counted' = Counted
  BY TypeFacts DEF rx_ownerNAK, MembT, Counted
<1>2. blank' \in BlankT
  <2>1. peer[m].nak.first \in Nat /\ peer[m].nak.last \in Nat
    BY TypeFacts DEF NakT
  <2> QED
    BY <2>1, TypeFacts DEF rx_ownerNAK, resendWrappers, BlankT
<1>3. BackTyped(acks', oldest') /\ Len(acks') = Rseq
  BY TypeFacts, UpdateTyped DEF rx_ownerNAK, Becomes
<1> QED
  BY <1>1, <1>2, <1>3, TypeFacts, TypesFrom DEF rx_ownerNAK, TypeInv

\* What a step of the other end alone makes of it.
LEMMA PeerSteps ==
  ASSUME TypeInv, NEW m \in Members, firstACK(m) \/ Take(m) \/ sendNAK(m)
  PROVE  /\ peer' \in [Members -> PeerT]
         /\ \A o \in Members \ {m} : peer'[o] = peer[o]
         /\ peer'[m].acked <= peer'[m].have
         /\ peer[m].have <= peer'[m].have /\ peer'[m].have <= Rseq
         /\ peer'[m].nak.Rseq <= peer'[m].have \/ peer'[m].nak = peer[m].nak
         /\ peer'[m].nak.Rseq <= Rseq
<1>1. CASE firstACK(m)
  <2>1. PICK r \in peer[m].have .. Rseq :
          peer' = [peer EXCEPT ![m].taking = TRUE, ![m].have = r, ![m].acked = r]
    BY <1>1 DEF firstACK
  <2>2. r \in Nat /\ peer[m].have <= r /\ r <= Rseq
    BY TypeFacts
  <2>3. peer' \in [Members -> PeerT]
    BY <2>1, <2>2, TypeFacts, PeerAt
  <2>4. \A o \in Members \ {m} : peer'[o] = peer[o]
    BY <2>1, TypeFacts
  <2>5. peer'[m].acked = r /\ peer'[m].have = r /\ peer'[m].nak = peer[m].nak
    BY <2>1, TypeFacts DEF PeerT
  <2> QED
    BY <2>2, <2>3, <2>4, <2>5, TypeFacts
<1>2. CASE Take(m)
  <2>1. peer[m].have < Rseq /\ peer' = [peer EXCEPT ![m].have = @ + 1]
    BY <1>2 DEF Take
  <2>2. peer' \in [Members -> PeerT]
    <3>1. PICK r \in Nat : r = peer[m].have + 1
      BY TypeFacts
    <3>2. peer' = [peer EXCEPT ![m].have = r]
      BY <2>1, <3>1
    <3> QED
      BY <3>2, TypeFacts DEF PeerT
  <2>3. \A o \in Members \ {m} : peer'[o] = peer[o]
    BY <2>1, TypeFacts
  <2>4. /\ peer'[m].acked = peer[m].acked /\ peer'[m].have = peer[m].have + 1
        /\ peer'[m].nak = peer[m].nak
    BY <2>1, TypeFacts DEF PeerT
  <2> QED
    BY <2>1, <2>2, <2>3, <2>4, TypeFacts
<1>3. CASE sendNAK(m)
  <2>1. PICK last \in peer[m].have + 1 .. Rseq :
          peer' = [peer EXCEPT ![m].nak =
                     [Rseq |-> peer[m].have, first |-> peer[m].have + 1, last |-> last]]
    BY <1>3 DEF sendNAK
  <2>2. [Rseq |-> peer[m].have, first |-> peer[m].have + 1, last |-> last] \in NakT
    BY TypeFacts DEF NakT
  <2>3. peer' \in [Members -> PeerT]
    BY <2>1, <2>2, TypeFacts DEF PeerT
  <2>4. \A o \in Members \ {m} : peer'[o] = peer[o]
    BY <2>1, TypeFacts
  <2>5. /\ peer'[m].acked = peer[m].acked /\ peer'[m].have = peer[m].have
        /\ peer'[m].nak.Rseq = peer[m].have
    BY <2>1, TypeFacts DEF PeerT
  <2> QED
    BY <2>3, <2>4, <2>5, TypeFacts
<1> QED
  BY <1>1, <1>2, <1>3

LEMMA TypeInductive == TypeInv /\ [Next]_vars => TypeInv'
<1> SUFFICES ASSUME TypeInv, [Next]_vars PROVE TypeInv'
  OBVIOUS
<1>1. CASE UNCHANGED vars
  BY <1>1, TypeFacts, TypesFrom DEF vars, TypeInv, Counted
<1>2. CASE _flushWrapper
  <2>1. BackTyped(acks', oldest') /\ Len(acks') = Rseq + 1
    BY <1>2, TypeFacts, KeepTyped DEF _flushWrapper
  <2> QED
    BY <1>2, <2>1, TypeFacts, TypesFrom DEF _flushWrapper, TypeInv, Counted
<1>3. CASE blanktimeAction
  BY <1>3, TypeFacts, TypesFrom DEF blanktimeAction, TypeInv, Counted, BlankT
<1>4. ASSUME NEW m \in Members, addMember(m) PROVE TypeInv'
  <2>1. memb' \in [Members -> MembT] /\ peer' \in [Members -> PeerT]
    <3>1. memb' \in [Members -> MembT]
      BY <1>4, TypeFacts DEF addMember, MembT, MState
    <3>2. peer' \in [Members -> PeerT]
      <4>1. peer' = [peer EXCEPT ![m].taking = FALSE, ![m].have = Rseq, ![m].acked = Rseq]
        BY <1>4 DEF addMember
      <4>2. peer \in [Members -> PeerT] /\ Rseq \in Nat
        BY TypeFacts
      <4> QED
        BY <4>1, <4>2, PeerAt
    <3> QED
      BY <3>1, <3>2
  <2>2. Counted' = Counted
    BY <1>4, TypeFacts DEF addMember, Counted
  <2>3. \A o \in Members : /\ peer'[o].acked <= peer'[o].have
                           /\ peer'[o].have <= Rseq /\ peer'[o].nak.Rseq <= Rseq
    BY <1>4, TypeFacts DEF addMember, PeerT
  <2> QED
    BY <1>4, <2>1, <2>2, <2>3, TypeFacts, TypesFrom DEF addMember, TypeInv
<1>5. ASSUME NEW m \in Members, rx_joinAccept(m) PROVE TypeInv'
  <2>1. memb' \in [Members -> MembT] /\ Counted' = Counted
    BY <1>5, TypeFacts DEF rx_joinAccept, MembT, MState, Counted
  <2> QED
    BY <1>5, <2>1, TypeFacts, TypesFrom DEF rx_joinAccept, TypeInv
<1>6. ASSUME NEW m \in Members, firstACK(m) \/ Take(m) \/ sendNAK(m) PROVE TypeInv'
  <2>2. /\ peer' \in [Members -> PeerT]
        /\ \A o \in Members : /\ peer'[o].acked <= peer'[o].have
                              /\ peer'[o].have <= Rseq /\ peer'[o].nak.Rseq <= Rseq
    BY <1>6, PeerSteps, TypeFacts
  <2>3. UNCHANGED <<acks, oldest, ackcount, memb, blank>>
    BY <1>6 DEF firstACK, Take, sendNAK
  <2> QED
    BY <2>2, <2>3, TypeFacts, TypesFrom DEF TypeInv, Counted
<1> QED
  BY <1>1, <1>2, <1>3, <1>4, <1>5, <1>6, KillTyped, AckTyped, NakTyped DEF Next

\* Every variable has its type, whatever the network does: the count of members
\* never goes below zero (killMember and rx_ack count each once), and the list
\* never begins behind its end (updateRmembSeq).
THEOREM TypesKept == Spec => []TypeOK
<1>1. TypeInv => TypeOK
  BY DEF TypeInv
<1> QED
  BY TypesBegin, TypeInductive, <1>1, PTL DEF Spec

-----------------------------------------------------------------------------
(***************************************************************************)
(* The ledger.                                                             *)
(***************************************************************************)
LEMMA LedgerFacts ==
  ASSUME LedgerInv
  PROVE  /\ TypeInv /\ TypeOK /\ LedgerExact
         /\ Counted \subseteq Members /\ Joining \subseteq Members
         /\ \A o \in Counted : /\ oldest <= memb[o].Rseq + 1
                               /\ memb[o].Rseq <= Rseq
                               /\ memb[o].Rseq <= peer[o].have
         /\ \A r \in oldest .. Rseq : acks[r] = Cardinality(Behind(r))
         /\ ackcount = Cardinality(Counted)
<1>1. \A o \in Members : Placed(o)
  BY DEF LedgerInv
<1>2. \A o \in Counted : o \in Members /\ memb[o].mstate # "NULL"
  BY DEF Counted
<1>3. TypeInv
  BY DEF LedgerInv
<1>4. \A o \in Counted : memb[o].Rseq <= Rseq
  BY <1>1, <1>2, <1>3, TypeFacts DEF Placed
<1> QED
  BY <1>1, <1>2, <1>3, <1>4 DEF LedgerInv, LedgerExact, Placed, TypeInv, Counted, Joining

\* A step after which the list is a, or a and a wrapper for all that count.
LEMMA LedgerFrom ==
  ASSUME TypeInv', NEW a \in Seq(Int),
         \A s \in oldest' .. Len(a) : a[s] = Cardinality(Behind(s)'),
         \/ acks' = a
         \/ /\ Len(acks') = Len(a) + 1 /\ acks'[Len(a) + 1] = ackcount'
            /\ \A s \in 1 .. Len(a) : acks'[s] = a[s]
            /\ \A o \in Counted' : memb'[o].Rseq <= Len(a)
  PROVE  LedgerExact'
<1>1. ackcount' = Cardinality(Counted') /\ oldest' \in Nat /\ 1 <= oldest'
  BY DEF TypeInv, TypeOK, Rseq
<1>2. \A o \in Counted' : memb'[o].Rseq \in Nat
  BY DEF TypeInv, TypeOK, MembT, Counted
<1>3. CASE acks' = a
  BY <1>1, <1>3 DEF LedgerExact, Rseq
<1>4. CASE acks' # a
  <2>1. Len(a) \in Nat
    OBVIOUS
  <2>2. Behind(Len(a) + 1)' = Counted'
    BY <1>2, <1>4, <2>1 DEF Behind
  <2>3. ASSUME NEW s \in oldest' .. Rseq' PROVE acks'[s] = Cardinality(Behind(s)')
    <3>1. CASE s = Len(a) + 1
      BY <1>1, <1>4, <2>2, <3>1
    <3>2. CASE s # Len(a) + 1
      <4>1. s \in oldest' .. Len(a) /\ s \in 1 .. Len(a)
        BY <1>1, <1>4, <2>1, <3>2 DEF Rseq
      <4> QED
        BY <1>4, <4>1
    <3> QED
      BY <3>1, <3>2
  <2> QED
    BY <1>1, <2>3 DEF LedgerExact
<1> QED
  BY <1>3, <1>4

LEMMA SameLedger ==
  ASSUME LedgerInv, TypeInv', UNCHANGED <<acks, oldest>>, Counted' = Counted,
         \A o \in Counted : memb'[o].Rseq = memb[o].Rseq
  PROVE  LedgerExact'
<1>1. \A s \in oldest .. Rseq : Behind(s)' = Behind(s)
  BY DEF Behind
<1> QED
  BY <1>1, LedgerFacts DEF LedgerExact, TypeInv, Rseq

LEMMA KillLedger ==
  ASSUME LedgerInv, TypeInv', ~ Late, NEW m \in Members, killMember(m)
  PROVE  LedgerInv'
<1>1. /\ memb' = [memb EXCEPT ![m] = Gone] /\ memb[m].mstate # "NULL"
      /\ \A o \in Members \ {m} : memb'[o] = memb[o] /\ peer'[o] = peer[o]
      /\ memb'[m] = Gone
  BY LedgerFacts, TypeFacts DEF killMember
<1>2. Counted' = Counted \ {m} /\ Joining' = Joining \ {m}
  BY <1>1 DEF Counted, Joining, Gone
<1>3. Placed(m)'
  BY <1>1 DEF Placed, Gone, Joining, Counted
<1>4. \A o \in Members : Placed(o)
  BY DEF LedgerInv
<1>5. CASE memb[m].mstate = "JOINRQ"
  <2>1. m \notin Counted /\ UNCHANGED <<acks, oldest>>
    BY <1>5 DEF killMember, Counted
  <2>2. LedgerExact'
    BY <1>1, <1>2, <2>1, SameLedger, LedgerFacts
  <2>3. \A o \in Members \ {m} : Placed(o)'
    BY <1>1, <1>2, <1>4, <2>1 DEF Placed, Rseq
  <2> QED
    BY <1>3, <2>2, <2>3 DEF LedgerInv
<1>6. CASE memb[m].mstate = "JOINPEND"
  <2>1. /\ m \notin Counted /\ Counted' = Counted /\ Joining' = {}
        /\ Becomes(Keep(Back, ackcount)) /\ ackcount' = ackcount
    BY <1>2, <1>6 DEF killMember, Counted, MaySend
  <2>2. /\ Len(acks') = Rseq + 1 /\ oldest' = oldest /\ acks'[Rseq + 1] = ackcount
        /\ \A s \in 1 .. Rseq : acks'[s] = acks[s]
    <3>1. TypeInv /\ ackcount \in Int
      BY LedgerFacts, TypeFacts
    <3> QED
      BY <2>1, <3>1, KeptBack
  <2>3. \A s \in oldest' .. Rseq : acks[s] = Cardinality(Behind(s)')
    <3>1. \A s \in oldest .. Rseq : Behind(s)' = Behind(s)
      BY <1>1, <2>1, LedgerFacts DEF Behind
    <3> QED
      BY <2>2, <3>1, LedgerFacts
  <2>4. \A o \in Counted' : memb'[o].Rseq <= Rseq
    BY <1>1, <2>1, LedgerFacts
  <2>5. LedgerExact'
    BY <2>1, <2>2, <2>3, <2>4, LedgerFacts, TypeFacts, LedgerFrom
  <2>6. \A o \in Members \ {m} : Placed(o)'
    BY <1>1, <1>4, <2>1, <2>2 DEF Placed
  <2> QED
    BY <1>3, <2>5, <2>6 DEF LedgerInv
<1>7. CASE memb[m].mstate = "MEMBER"
  <2> DEFINE u == updateRmembSeq(Back, m, Rseq)
  <2>1. /\ m \in Counted /\ Joining' = {} /\ Becomes(Keep(u, ackcount'))
    BY <1>2, <1>7 DEF killMember, Counted, MaySend
  <2>2. /\ u.acks \in Seq(Int) /\ Len(u.acks) = Rseq
        /\ u = [acks |-> u.acks, oldest |-> u.oldest]
    BY LedgerFacts, TypeFacts, UpdateTyped DEF BackTyped
  <2>3. PICK C : C = Counted \ {m}
    OBVIOUS
  <2>4. /\ \A s \in u.oldest .. Rseq : u.acks[s] = Cardinality(Left(C, m, Rseq, s))
        /\ \A o \in C : u.oldest <= At(m, Rseq, o) + 1
    <3>1. memb[m].Rseq <= Rseq /\ \A o \in Counted : oldest <= memb[o].Rseq + 1
      BY <2>1, LedgerFacts
    <3>2. TypeOK /\ LedgerExact /\ m \in Counted /\ Rseq \in Nat /\ Rseq <= Rseq
      BY <2>1, LedgerFacts, TypeFacts
    <3> HIDE DEF u
    <3>3. u = updateRmembSeq(Back, m, Rseq)
      BY DEF u
    <3>4. Settled(u, C, m, Rseq)
      BY <2>3, <3>1, <3>2, <3>3, UpdateIsExact
    <3> QED
      BY <3>4 DEF Settled
  <2>5. u.oldest \in Nat
    BY LedgerFacts, TypeFacts, UpdateTyped DEF BackTyped
  <2> HIDE DEF u
  <2>6. /\ Len(acks') = Rseq + 1 /\ oldest' = u.oldest /\ acks'[Rseq + 1] = ackcount'
        /\ \A s \in 1 .. Rseq : acks'[s] = u.acks[s]
    <3>1. ackcount' \in Int
      BY TypeFacts DEF TypeInv, TypeOK
    <3>2. Becomes(Keep([acks |-> u.acks, oldest |-> u.oldest], ackcount'))
      BY <2>1, <2>2
    <3> QED
      BY <2>2, <3>1, <3>2, KeepFacts DEF Becomes
  <2>7. ASSUME NEW s \in u.oldest .. Rseq PROVE Behind(s)' = Left(C, m, Rseq, s)
    BY <1>1, <1>2, <2>3, LedgerFacts DEF Behind, Left, At
  <2>8. \A o \in Counted' : memb'[o].Rseq <= Rseq /\ o \in Counted /\ o # m
    BY <1>1, <1>2, LedgerFacts
  <2>9. LedgerExact'
    BY <2>2, <2>4, <2>6, <2>7, <2>8, LedgerFrom
  <2>10. \A o \in Members \ {m} : Placed(o)'
    BY <1>1, <1>2, <1>4, <2>1, <2>3, <2>4, <2>6, <2>8 DEF Placed, At
  <2> QED
    BY <1>3, <2>9, <2>10 DEF LedgerInv
<1> QED
  BY <1>5, <1>6, <1>7 DEF killMember

\* A report takes a member that counts from its place to r.
LEMMA PassLedger ==
  ASSUME LedgerInv, TypeInv', NEW m \in Counted, NEW r \in Nat,
         memb[m].Rseq <= r, r <= Rseq,
         Becomes(updateRmembSeq(Back, m, r)), memb' = [memb EXCEPT ![m].Rseq = r]
  PROVE  /\ LedgerExact' /\ Len(acks') = Rseq
         /\ Counted' = Counted /\ Joining' = Joining
         /\ \A o \in Counted : oldest' <= memb'[o].Rseq + 1
<1>1. /\ m \in Members /\ \A o \in Members : memb'[o].mstate = memb[o].mstate
      /\ \A o \in Members : memb'[o].Rseq = At(m, r, o)
  BY LedgerFacts, TypeFacts DEF MembT, At
<1>2. Counted' = Counted /\ Joining' = Joining
  BY <1>1 DEF Counted, Joining
<1> DEFINE u == updateRmembSeq(Back, m, r)
<1>3. /\ u.acks \in Seq(Int) /\ Len(u.acks) = Rseq /\ u.oldest \in Nat
  BY <1>1, LedgerFacts, TypeFacts, UpdateTyped DEF BackTyped
<1>4. acks' = u.acks /\ oldest' = u.oldest
  BY DEF Becomes
<1>5. u = updateRmembSeq(Back, m, r)
  OBVIOUS
<1> HIDE DEF u
<1>6. PICK C : C = Counted
  OBVIOUS
<1>7. /\ \A s \in u.oldest .. Rseq : u.acks[s] = Cardinality(Left(C, m, r, s))
      /\ \A o \in C : u.oldest <= At(m, r, o) + 1
  <2>1. TypeOK /\ LedgerExact /\ \A o \in Counted : oldest <= memb[o].Rseq + 1
    BY LedgerFacts
  <2>2. Settled(u, C, m, r)
    BY <1>5, <1>6, <2>1, UpdateIsExact
  <2> QED
    BY <2>2 DEF Settled
<1>8. \A s \in u.oldest .. Rseq : Behind(s)' = Left(C, m, r, s)
  BY <1>1, <1>2, <1>6, LedgerFacts DEF Behind, Left
<1>9. LedgerExact'
  BY <1>3, <1>4, <1>7, <1>8, LedgerFrom
<1>10. \A o \in Counted : oldest' <= memb'[o].Rseq + 1
  BY <1>1, <1>4, <1>6, <1>7, LedgerFacts
<1> QED
  BY <1>2, <1>3, <1>4, <1>9, <1>10

LEMMA AckLedger ==
  ASSUME LedgerInv, TypeInv', ~ Late, ~ Reorder, NEW m \in Members,
         NEW r \in peer[m].acked .. peer[m].have, rx_ack(m, r)
  PROVE  LedgerInv'
<1>1. /\ r \in Nat /\ r <= peer[m].have /\ r <= Rseq /\ memb[m].Rseq <= r
      /\ peer' = [peer EXCEPT ![m].acked = r] /\ m \in Members
  BY LedgerFacts, TypeFacts DEF rx_ack, Reports
<1>2. \A o \in Members : /\ peer'[o].have = peer[o].have
                         /\ peer'[o].nak = peer[o].nak
  BY <1>1, LedgerFacts, TypeFacts DEF PeerT
<1>3. \A o \in Members : Placed(o)
  BY DEF LedgerInv
<1>4. CASE memb[m].mstate = "JOINRQ"
  <2>1. UNCHANGED <<acks, oldest, ackcount, memb>>
    BY <1>4 DEF rx_ack
  <2>2. LedgerExact'
    BY <2>1, SameLedger DEF Counted
  <2>3. \A o \in Members : Placed(o)'
    BY <1>2, <1>3, <2>1 DEF Placed, Joining, Counted, Rseq
  <2> QED
    BY <2>2, <2>3 DEF LedgerInv
<1>5. CASE memb[m].mstate = "MEMBER"
  <2>1. /\ m \in Counted /\ Becomes(updateRmembSeq(Back, m, r))
        /\ memb' = [memb EXCEPT ![m].Rseq = r]
    BY <1>5 DEF rx_ack, Counted
  <2>2. /\ LedgerExact' /\ Len(acks') = Rseq
        /\ Counted' = Counted /\ Joining' = Joining
        /\ \A o \in Counted : oldest' <= memb'[o].Rseq + 1
    BY <1>1, <2>1, PassLedger
  <2>3. ASSUME NEW o \in Members PROVE Placed(o)'
    <3>1. o \in Joining => memb'[o] = memb[o]
      BY <2>1, LedgerFacts, TypeFacts DEF Joining, Counted
    <3>2. memb'[o].mstate = memb[o].mstate /\
          memb'[o].Rseq = IF o = m THEN r ELSE memb[o].Rseq
      BY <2>1, LedgerFacts, TypeFacts DEF MembT
    <3> QED
      BY <1>1, <1>2, <1>3, <2>2, <3>1, <3>2 DEF Placed, Rseq
  <2> QED
    BY <2>2, <2>3 DEF LedgerInv
<1>6. CASE memb[m].mstate = "JOINPEND"
  <2>1. /\ memb' = [memb EXCEPT ![m] = [mstate |-> "MEMBER", Rseq |-> r]]
        /\ ackcount' = ackcount + 1
        /\ Becomes(Back) \/ (Joining \subseteq {m} /\ Becomes(Keep(Back, ackcount + 1)))
    BY <1>6 DEF rx_ack, MaySend
  <2>2. r = Rseq /\ m \notin Counted
    BY <1>1, <1>3, <1>6, LedgerFacts, TypeFacts DEF Placed, Joining, Counted
  <2>3. /\ \A o \in Members \ {m} : memb'[o] = memb[o]
        /\ memb'[m].mstate = "MEMBER" /\ memb'[m].Rseq = Rseq
        /\ Counted' = Counted \cup {m} /\ Joining' = Joining \ {m}
    BY <2>1, <2>2, LedgerFacts, TypeFacts DEF Counted, Joining
  <2>4. \A s \in oldest .. Rseq : Behind(s)' = Behind(s)
    BY <2>2, <2>3, LedgerFacts, TypeFacts DEF Behind
  <2>5. \A o \in Counted' : memb'[o].Rseq <= Rseq /\ oldest <= memb'[o].Rseq + 1
    BY <2>2, <2>3, LedgerFacts, TypeFacts
  <2>6. /\ oldest' = oldest
        /\ \/ acks' = acks
           \/ /\ Joining' = {}
              /\ Len(acks') = Rseq + 1 /\ acks'[Rseq + 1] = ackcount'
              /\ \A s \in 1 .. Rseq : acks'[s] = acks[s]
    <3>1. CASE Becomes(Back)
      BY <3>1, LedgerFacts, TypeFacts DEF Becomes
    <3>2. CASE Joining \subseteq {m} /\ Becomes(Keep(Back, ackcount + 1))
      <4>1. PICK n \in Int : n = ackcount + 1
        BY LedgerFacts, TypeFacts
      <4>2. /\ Len(acks') = Rseq + 1 /\ acks'[Rseq + 1] = n
            /\ oldest' = oldest /\ \A s \in 1 .. Rseq : acks'[s] = acks[s]
        <5>1. /\ acks \in Seq(Int) /\ Rseq = Len(acks)
              /\ Back = [acks |-> acks, oldest |-> oldest]
          BY LedgerFacts, TypeFacts
        <5>2. PICK u : u = Keep([acks |-> acks, oldest |-> oldest], n)
          OBVIOUS
        <5>3. acks' = u.acks /\ oldest' = u.oldest
          BY <3>2, <4>1, <5>1, <5>2 DEF Becomes
        <5> QED
          BY <5>1, <5>2, <5>3, KeepFacts
      <4>3. Joining' = {}
        BY <2>3, <3>2
      <4> QED
        BY <2>1, <4>1, <4>2, <4>3
    <3> QED
      BY <2>1, <3>1, <3>2
  <2>7. ASSUME NEW s \in oldest' .. Rseq PROVE acks[s] = Cardinality(Behind(s)')
    <3>1. s \in oldest .. Rseq
      BY <2>6
    <3>2. Behind(s)' = Behind(s) /\ acks[s] = Cardinality(Behind(s))
      BY <2>4, <3>1 DEF LedgerInv, LedgerExact
    <3> QED
      BY <3>2
  <2>8. LedgerExact'
    BY <2>5, <2>6, <2>7, LedgerFacts, TypeFacts, LedgerFrom
  <2>9. ASSUME NEW o \in Members PROVE Placed(o)'
    <3>1. CASE o = m
      <4>1. peer'[m].nak.Rseq <= peer'[m].have /\ memb'[m].Rseq <= peer'[m].have
        BY <1>1, <1>2, <1>3, <1>6, <2>2, <2>3 DEF Placed
      <4> QED
        BY <2>3, <2>5, <2>6, <3>1, <4>1 DEF Placed
    <3>2. CASE o # m
      <4>1. o \in Joining' => Rseq' = Rseq
        BY <2>6 DEF Rseq
      <4>2. memb'[o] = memb[o] /\ (o \in Joining' => o \in Joining)
        BY <2>3, <3>2
      <4> QED
        BY <1>2, <1>3, <2>5, <2>6, <4>1, <4>2 DEF Placed
    <3> QED
      BY <3>1, <3>2
  <2> QED
    BY <2>8, <2>9 DEF LedgerInv
<1> QED
  BY <1>4, <1>5, <1>6 DEF rx_ack

LEMMA NakLedger ==
  ASSUME LedgerInv, TypeInv', ~ Reorder, NEW m \in Members, rx_ownerNAK(m)
  PROVE  LedgerInv'
<1> DEFINE r == peer[m].nak.Rseq
<1>1. /\ Becomes(updateRmembSeq(Back, m, r)) /\ memb' = [memb EXCEPT ![m].Rseq = r]
      /\ memb[m].mstate # "NULL" /\ peer' = peer /\ memb[m].Rseq <= r
  BY DEF rx_ownerNAK, Reports
<1>2. \A o \in Members : Placed(o)
  BY DEF LedgerInv
<1>3. r \in Nat /\ r <= Rseq /\ r <= peer[m].have
  BY <1>1, <1>2, LedgerFacts, TypeFacts DEF Placed
<1>4. \A o \in Members : /\ memb'[o].mstate = memb[o].mstate
                         /\ memb'[o].Rseq = IF o = m THEN r ELSE memb[o].Rseq
  BY <1>1, LedgerFacts, TypeFacts DEF MembT
<1> HIDE DEF r
<1>5. CASE m \in Counted
  <2>1. /\ LedgerExact' /\ Len(acks') = Rseq
        /\ Counted' = Counted /\ Joining' = Joining
        /\ \A o \in Counted : oldest' <= memb'[o].Rseq + 1
    BY <1>1, <1>3, <1>5, PassLedger
  <2>2. m \notin Joining
    BY <1>5 DEF Joining, Counted
  <2>3. \A o \in Members : Placed(o)'
    BY <1>1, <1>2, <1>3, <1>4, <2>1, <2>2 DEF Placed, Rseq
  <2> QED
    BY <2>1, <2>3 DEF LedgerInv
<1>6. CASE m \notin Counted
  <2>1. m \in Joining
    BY <1>1, <1>6, LedgerFacts, TypeFacts DEF Counted, Joining, MembT, MState
  <2>2. r = Rseq /\ memb[m].Rseq = Rseq
    BY <1>1, <1>2, <1>3, <2>1, LedgerFacts, TypeFacts DEF Placed
  <2>3. Counted' = Counted /\ Joining' = Joining
    BY <1>4 DEF Counted, Joining
  <2>4. PICK u : u = updateRmembSeq(Back, m, r)
    OBVIOUS
  <2>5. /\ u.acks \in Seq(Int) /\ Len(u.acks) = Rseq
        /\ u.oldest \in oldest .. Rseq + 1
        /\ \A s \in u.oldest .. Rseq :
              u.acks[s] = IF s <= r /\ memb[m].Rseq < s
                          THEN acks[s] - 1 ELSE acks[s]
        /\ \/ u.oldest = oldest
           \/ \E s \in oldest .. r : /\ u.oldest = s + 1 /\ memb[m].Rseq < s
                                     /\ acks[s] - 1 = 0
    <3>1. TypeOK
      BY LedgerFacts
    <3>2. Passed(u, m, r)
      BY <1>3, <2>4, <3>1, UpdateFacts
    <3> QED
      BY <3>2 DEF Passed
  <2>6. /\ acks' = u.acks /\ oldest' = u.oldest /\ u.oldest = oldest
        /\ \A s \in oldest .. Rseq : u.acks[s] = acks[s]
    <3>1. acks' = u.acks /\ oldest' = u.oldest
      BY <1>1, <2>4 DEF Becomes
    <3>2. Rseq \in Nat /\ oldest \in 1 .. Rseq + 1
      BY LedgerFacts, TypeFacts
    <3> QED
      BY <2>2, <2>5, <3>1, <3>2
  <2>7. \A s \in oldest .. Rseq : Behind(s)' = Behind(s)
    BY <1>4, <1>6, <2>3, LedgerFacts DEF Behind
  <2>8. LedgerExact'
    BY <2>5, <2>6, <2>7, LedgerFacts, LedgerFrom
  <2>9. \A o \in Members : Placed(o)'
    BY <1>1, <1>2, <1>3, <1>4, <1>6, <2>2, <2>3, <2>5, <2>6 DEF Placed, Rseq
  <2> QED
    BY <2>8, <2>9 DEF LedgerInv
<1> QED
  BY <1>5, <1>6

LEMMA LedgerBegins == Init => LedgerInv
<1> SUFFICES ASSUME Init PROVE LedgerInv
  OBVIOUS
<1>1. TypeInv
  BY TypesBegin
<1>2. \A m \in Members : memb[m].mstate = "NULL" /\ memb[m].Rseq = 0
  BY DEF Init, Gone
<1>3. Joining = {} /\ Counted = {}
  BY <1>2 DEF Joining, Counted
<1>4. LedgerExact
  <2>1. oldest = 1 /\ Rseq = 0
    BY DEF Init, Rseq
  <2>2. \A s \in oldest .. Rseq : FALSE
    BY <2>1
  <2> QED
    BY <1>1, <2>2 DEF LedgerExact, TypeInv
<1> QED
  BY <1>1, <1>2, <1>3, <1>4 DEF LedgerInv, Placed

LEMMA LedgerInductive ==
  ASSUME ~ Late, ~ Reorder, LedgerInv, [Next]_vars
  PROVE  LedgerInv'
<1>1. TypeInv'
  BY LedgerFacts, TypeInductive
<1>2. \A o \in Members : Placed(o)
  BY DEF LedgerInv
<1>3. CASE UNCHANGED vars
  BY <1>1, <1>2, <1>3 DEF vars, LedgerInv, LedgerExact, Placed, Counted, Joining, Behind, Rseq
<1>4. CASE blanktimeAction
  BY <1>1, <1>2, <1>4
  DEF blanktimeAction, LedgerInv, LedgerExact, Placed, Counted, Joining, Behind, Rseq
<1>5. CASE _flushWrapper
  <2>1. /\ Joining = {} /\ Becomes(Keep(Back, ackcount))
        /\ UNCHANGED <<ackcount, memb, peer>>
    BY <1>5 DEF _flushWrapper, MaySend
  <2>2. /\ Len(acks') = Rseq + 1 /\ oldest' = oldest /\ acks'[Rseq + 1] = ackcount'
        /\ \A s \in 1 .. Rseq : acks'[s] = acks[s]
    <3>1. TypeInv /\ ackcount \in Int
      BY LedgerFacts, TypeFacts
    <3> QED
      BY <2>1, <3>1, KeptBack
  <2>3. Counted' = Counted /\ Joining' = {} /\ \A s : Behind(s)' = Behind(s)
    BY <2>1 DEF Counted, Joining, Behind
  <2>4. \A s \in oldest' .. Rseq : acks[s] = Cardinality(Behind(s)')
    BY <2>2, <2>3, LedgerFacts
  <2>5. \A o \in Counted' : memb'[o].Rseq <= Rseq
    BY <2>1, <2>3, LedgerFacts
  <2>6. LedgerExact'
    BY <1>1, <2>2, <2>4, <2>5, LedgerFacts, TypeFacts, LedgerFrom
  <2>7. \A o \in Members : Placed(o)'
    BY <1>2, <2>1, <2>2, <2>3 DEF Placed
  <2> QED
    BY <1>1, <2>6, <2>7 DEF LedgerInv
<1>6. ASSUME NEW m \in Members, addMember(m) PROVE LedgerInv'
  <2>1. /\ UNCHANGED <<acks, oldest, ackcount>> /\ memb[m].mstate = "NULL"
        /\ memb' = [memb EXCEPT ![m] = [mstate |-> "JOINRQ", Rseq |-> Rseq]]
        /\ \A o \in Members \ {m} : memb'[o] = memb[o] /\ peer'[o] = peer[o]
        /\ peer'[m].have = Rseq /\ peer'[m].nak = peer[m].nak
    BY <1>6, LedgerFacts, TypeFacts DEF addMember, PeerT
  <2>2. memb'[m].mstate = "JOINRQ" /\ memb'[m].Rseq = Rseq
    BY <2>1, LedgerFacts, TypeFacts
  <2>3. Counted' = Counted /\ Joining' = Joining \cup {m} /\ m \notin Counted
    BY <2>1, <2>2 DEF Counted, Joining
  <2>4. LedgerExact'
    BY <1>1, <2>1, <2>3, LedgerFacts, SameLedger
  <2>5. ASSUME NEW o \in Members PROVE Placed(o)'
    <3>1. CASE o = m
      BY <2>1, <2>2, <2>3, <3>1, LedgerFacts, TypeFacts DEF Placed, Rseq
    <3>2. CASE o # m
      BY <1>2, <2>1, <2>3, <3>2 DEF Placed, Rseq
    <3> QED
      BY <3>1, <3>2
  <2> QED
    BY <1>1, <2>4, <2>5 DEF LedgerInv
<1>7. ASSUME NEW m \in Members, rx_joinAccept(m) PROVE LedgerInv'
  <2>1. /\ UNCHANGED <<acks, oldest, ackcount, peer>> /\ memb[m].mstate = "JOINRQ"
        /\ memb'[m].mstate = "JOINPEND"
        /\ \A o \in Members : memb'[o].Rseq = memb[o].Rseq
        /\ \A o \in Members \ {m} : memb'[o].mstate = memb[o].mstate
    BY <1>7, LedgerFacts, TypeFacts DEF rx_joinAccept, MembT
  <2>2. Counted' = Counted /\ Joining' = Joining
    BY <2>1 DEF Counted, Joining
  <2>3. LedgerExact'
    BY <1>1, <2>1, <2>2, LedgerFacts, SameLedger
  <2>4. \A o \in Members : Placed(o)'
    BY <1>2, <2>1, <2>2 DEF Placed, Rseq
  <2> QED
    BY <1>1, <2>3, <2>4 DEF LedgerInv
<1>8. ASSUME NEW m \in Members, firstACK(m) \/ Take(m) \/ sendNAK(m) PROVE LedgerInv'
  <2>1. UNCHANGED <<acks, oldest, ackcount, memb, blank>>
    BY <1>8 DEF firstACK, Take, sendNAK
  <2>2. Counted' = Counted /\ Joining' = Joining /\ Rseq' = Rseq
    BY <2>1 DEF Counted, Joining, Rseq
  <2>3. LedgerExact'
    BY <1>1, <2>1, <2>2, LedgerFacts, SameLedger
  <2>4. ASSUME NEW o \in Members PROVE Placed(o)'
    <3>1. CASE o = m
      <4>1. /\ peer[m].have <= peer'[m].have
            /\ peer'[m].nak.Rseq <= peer'[m].have \/ peer'[m].nak = peer[m].nak
            /\ peer'[m].have \in Nat
        BY <1>8, LedgerFacts, PeerSteps DEF PeerT
      <4>2. peer[m].have \in Nat /\ peer[m].nak.Rseq \in Nat /\ memb[m].Rseq \in Nat
        BY LedgerFacts, TypeFacts
      <4> QED
        BY <1>2, <2>1, <2>2, <3>1, <4>1, <4>2 DEF Placed
    <3>2. CASE o # m
      <4>1. peer'[o] = peer[o]
        BY <1>8, <3>2, LedgerFacts, PeerSteps
      <4> QED
        BY <1>2, <2>1, <2>2, <4>1 DEF Placed
    <3> QED
      BY <3>1, <3>2
  <2> QED
    BY <1>1, <2>3, <2>4 DEF LedgerInv
<1> QED
  BY <1>1, <1>3, <1>4, <1>5, <1>6, <1>7, <1>8, KillLedger, AckLedger, NakLedger DEF Next

LEMMA LedgerAlways == ~ Late /\ ~ Reorder => (Spec => []LedgerInv)
<1>1. ASSUME ~ Late, ~ Reorder PROVE LedgerInv /\ [Next]_vars => LedgerInv'
  BY <1>1, LedgerInductive
<1>2. CASE ~ Late /\ ~ Reorder
  <2>1. LedgerInv /\ [Next]_vars => LedgerInv'
    BY <1>1, <1>2
  <2> QED
    BY LedgerBegins, <2>1, PTL DEF Spec
<1> QED
  BY <1>2

\* Each kept wrapper waits for exactly the members that have not acknowledged
\* it, however they join, leave, acknowledge and NAK (updateRmembSeq,
\* killMember, rx_ack), when none is sent while a member joins and the reports
\* of a member arrive in order.
THEOREM LedgerStaysExact == ~ Late /\ ~ Reorder => (Spec => []LedgerExact)
<1>1. LedgerInv => LedgerExact
  BY DEF LedgerInv
<1> QED
  BY LedgerAlways, <1>1, PTL

\* Under the same conditions no wrapper goes that a member still lacks: what it
\* may yet NAK is on the list (updateRmembSeq frees, rx_ownerNAK sends again).
THEOREM WrappersAreKept == ~ Late /\ ~ Reorder => (Spec => []KeptUntilVerified)
<1>1. ASSUME LedgerInv PROVE KeptUntilVerified
  <2>1. ASSUME NEW m \in Counted PROVE oldest <= peer[m].have + 1
    <3>1. m \in Members /\ oldest <= memb[m].Rseq + 1 /\ memb[m].Rseq <= peer[m].have
      BY <1>1, LedgerFacts
    <3>2. oldest \in Nat /\ memb[m].Rseq \in Nat /\ peer[m].have \in Nat
      BY <1>1, <3>1, LedgerFacts, TypeFacts
    <3> QED
      BY <3>1, <3>2
  <2> QED
    BY <2>1 DEF KeptUntilVerified
<1>2. LedgerInv => KeptUntilVerified
  BY <1>1
<1> QED
  BY LedgerAlways, <1>2, PTL
===============================================================================
