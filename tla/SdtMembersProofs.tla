--------------------------- MODULE SdtMembersProofs ---------------------------
(***************************************************************************)
(* The list of members of a channel (module SdtMembers), for any number of *)
(* members that come and go in any order, and any size of the first table: *)
(* a member is given up only for silence, the table is a directory of the  *)
(* members, and the loops over it end.                                     *)
(***************************************************************************)
EXTENDS SdtMembers, FiniteSetTheorems, IndexLemmas

-----------------------------------------------------------------------------
(***************************************************************************)
(* What is left of maktries counts the MAKs since the last ACK, whatever   *)
(* the table of members does.                                              *)
(***************************************************************************)
\* A member_s whose MID is in S: the argument does not care what S is.
MembOver(S) == [mid : S, counts : BOOLEAN, loc : BOOLEAN, maktries : 0 .. MakTries]

IInv ==
  /\ \E S : memb \in [Members -> MembOver(S)]
  /\ asked \in [Members -> 0 .. MakTries]
  /\ TriesAreSilence

LEMMA Begins == Init => IInv
<1> SUFFICES ASSUME Init PROVE IInv
  OBVIOUS
<1>1. memb \in [Members -> MembOver({0})]
  BY MembersAssumption DEF Init, Gone, MembOver
<1>2. asked \in [Members -> 0 .. MakTries] /\ TriesAreSilence
  BY MembersAssumption DEF Init, Gone, TriesAreSilence
<1> QED
  BY <1>1, <1>2 DEF IInv

\* One member becomes r and its history n; the others are as they were.
LEMMA OneMember ==
  ASSUME IInv, NEW m \in Members, NEW T, NEW r \in MembOver(T), NEW n \in 0 .. MakTries,
         r.counts => r.maktries + n = MakTries,
         memb' = [memb EXCEPT ![m] = r], asked' = [asked EXCEPT ![m] = n]
  PROVE  IInv'
<1>0. PICK S : memb \in [Members -> MembOver(S)]
  BY DEF IInv
<1>1. /\ memb'[m] = r /\ asked'[m] = n
      /\ \A o \in Members \ {m} : memb'[o] = memb[o] /\ asked'[o] = asked[o]
  BY <1>0 DEF IInv
<1>2. memb' \in [Members -> MembOver(S \cup T)]
  <2>1. \A o \in Members : memb'[o] \in MembOver(S \cup T)
    BY <1>0, <1>1 DEF MembOver
  <2> QED
    BY <1>0, <2>1
<1>3. asked' \in [Members -> 0 .. MakTries]
  BY DEF IInv
<1>4. TriesAreSilence'
  BY <1>1 DEF IInv, TriesAreSilence
<1> QED
  BY <1>2, <1>3, <1>4 DEF IInv

LEMMA Inductive == IInv /\ [Next]_vars => IInv'
<1> SUFFICES ASSUME IInv, [Next]_vars PROVE IInv'
  OBVIOUS
<1>a. MakTries \in Nat \ {0}
  BY MembersAssumption
<1>b. 0 \in 0 .. MakTries /\ MakTries \in 0 .. MakTries /\ MakTries + 0 = MakTries
  BY <1>a
<1>0. PICK S : memb \in [Members -> MembOver(S)]
  BY DEF IInv
<1>1. /\ asked \in [Members -> 0 .. MakTries]
      /\ \A m \in Members : memb[m].counts => memb[m].maktries + asked[m] = MakTries
  BY DEF IInv, TriesAreSilence
<1>2. ASSUME UNCHANGED <<memb, asked>> PROVE IInv'
  BY <1>2 DEF IInv, TriesAreSilence
<1>3. CASE UNCHANGED vars
  BY <1>2, <1>3 DEF vars
<1>4. ASSUME NEW room, _flushWrapper(room) PROVE IInv'
  BY <1>2, <1>4 DEF _flushWrapper
<1>5. ASSUME NEW m \in Members, addMember(m) PROVE IInv'
  <2> DEFINE r == [Gone EXCEPT !.mid = FreeMid(chan)]
  <2>0. Gone \in MembOver({0}) /\ Gone.counts = FALSE
    BY <1>a DEF Gone, MembOver
  <2>1. r \in MembOver({FreeMid(chan)}) /\ r.counts = FALSE
    BY <2>0 DEF MembOver
  <2>2. memb' = [memb EXCEPT ![m] = r] /\ asked' = [asked EXCEPT ![m] = asked[m]]
    BY <1>1, <1>5 DEF addMember
  <2> HIDE DEF r
  <2> QED
    BY <1>1, <2>1, <2>2, OneMember
<1>6. ASSUME NEW m \in Members, initLocMember(m) PROVE IInv'
  <2> DEFINE r == [memb[m] EXCEPT !.loc = TRUE]
  <2>1. r \in MembOver(S) /\ r.counts = memb[m].counts /\ r.maktries = memb[m].maktries
    BY <1>0 DEF MembOver
  <2>2. memb' = [memb EXCEPT ![m] = r] /\ asked' = [asked EXCEPT ![m] = asked[m]]
    BY <1>0, <1>1, <1>6 DEF initLocMember
  <2> HIDE DEF r
  <2> QED
    BY <1>1, <2>1, <2>2, OneMember
<1>7. ASSUME NEW m \in Members, rx_ack(m) PROVE IInv'
  <2> DEFINE r == [memb[m] EXCEPT !.counts = TRUE, !.maktries = MakTries]
  <2>0. memb[m] \in MembOver(S)
    BY <1>0
  <2>1. r \in MembOver(S) /\ r.maktries = MakTries
    BY <1>b, <2>0 DEF MembOver
  <2>2. memb' = [memb EXCEPT ![m] = r] /\ asked' = [asked EXCEPT ![m] = 0]
    BY <1>0, <1>7 DEF rx_ack
  <2> HIDE DEF r
  <2> QED
    BY <1>b, <2>1, <2>2, OneMember
<1>8. ASSUME NEW m \in Members, killMember(m) PROVE IInv'
  <2>1. Gone \in MembOver({0}) /\ Gone.counts = FALSE
    BY <1>a DEF Gone, MembOver
  <2>2. memb' = [memb EXCEPT ![m] = Gone] /\ asked' = [asked EXCEPT ![m] = 0]
    BY <1>8 DEF killMember
  <2> QED
    BY <1>b, <2>1, <2>2, OneMember
<1>9. ASSUME NEW m \in Members, makTimeoutAction(m) PROVE IInv'
  <2>1. CASE killMember(m)
    BY <1>8, <2>1
  <2>2. CASE memb[m].maktries > 0 /\ memb' = setMAKs(m) /\ asked' = Ask(m)
    <3> DEFINE r == [memb[m] EXCEPT !.maktries = @ - 1]
    <3>1. memb[m].counts /\ memb[m].maktries \in 1 .. MakTries
      BY <1>0, <1>9, <2>2 DEF makTimeoutAction, MembOver
    <3>2. asked[m] + 1 \in 0 .. MakTries
          /\ (memb[m].maktries - 1) + (asked[m] + 1) = MakTries
      BY <1>1, <3>1
    <3>3. r \in MembOver(S) /\ r.maktries = memb[m].maktries - 1
      <4>1. memb[m] \in MembOver(S) /\ memb[m].maktries - 1 \in 0 .. MakTries
        BY <1>a, <1>0, <3>1
      <4> QED
        BY <4>1 DEF MembOver
    <3>4. memb' = [memb EXCEPT ![m] = r]
      BY <2>2 DEF setMAKs
    <3>5. asked' = [asked EXCEPT ![m] = asked[m] + 1]
      <4>1. asked[m] < MakTries
        BY <1>a, <1>1, <3>2
      <4> QED
        BY <1>1, <2>2, <4>1 DEF Ask
    <3> HIDE DEF r
    <3> QED
      BY <3>2, <3>3, <3>4, <3>5, OneMember
  <2> QED
    BY <1>9, <2>1, <2>2 DEF makTimeoutAction
<1> QED
  BY <1>3, <1>4, <1>5, <1>6, <1>7, <1>8, <1>9 DEF Next, keepaliveAction

\* A member that the next timeout kills has not answered MakTries MAKs
\* (makTimeoutAction, setMAKs, rx_ack), for any number of members and tries.
THEOREM OnlySilence == Spec => []TriesAreSilence
<1>1. IInv => TriesAreSilence
  BY DEF IInv
<1> QED
  BY Begins, Inductive, <1>1, PTL DEF Spec

-----------------------------------------------------------------------------
(***************************************************************************)
(* The table of members.                                                   *)
(***************************************************************************)
N == Cardinality(Members)

LEMMA CountOfMembers == IsFiniteSet(Members) /\ N \in Nat /\ Slots = 1 .. N
BY MembersAssumption, FS_CardinalityType DEF N, Slots

-----------------------------------------------------------------------------
(***************************************************************************)
(* The least and the greatest of a set of indexes.                         *)
(***************************************************************************)
LEMMA LeastOf ==
  ASSUME NEW S \in SUBSET Nat, S # {}
  PROVE  Least(S) \in S /\ \A j \in S : Least(S) <= j
BY SomeLeast DEF Least

LEMMA GreatestOf ==
  ASSUME NEW b \in Nat, NEW S \in SUBSET (0 .. b), S # {}
  PROVE  Greatest(S) \in S /\ \A j \in S : j <= Greatest(S)
BY SomeGreatest DEF Greatest

-----------------------------------------------------------------------------
(***************************************************************************)
(* The invariant, of a table c and the MIDs of the members.                *)
(***************************************************************************)
Joined(mid) == {m \in Members : mid[m] # 0}

Table(c, mid) ==
  /\ c \in ChanT
  /\ mid \in [Members -> Slots \cup {0}]
  /\ \A i \in 1 .. c.himid :
       c.many[i] # None => c.many[i] \in Members /\ mid[c.many[i]] = i
  /\ \A m \in Members : mid[m] # 0 => mid[m] <= c.himid /\ c.many[mid[m]] = m
  /\ c.membercount = Cardinality(Joined(mid))
  /\ c.himid > 0 => c.many[c.himid] # None
  /\ c.himid - Cardinality(Holes(c)) = c.membercount
  /\ c.himid <= 1 \/ c.himid <= c.membspace

LEMMA HolesAndJoined ==
  ASSUME NEW c, NEW mid, Table(c, mid)
  PROVE  /\ N \in Nat /\ c.himid \in 0 .. N /\ c.membercount \in 0 .. N
         /\ c.many \in [1 .. N -> Members \cup {None, Junk}] /\ c.membspace \in Nat
         /\ Holes(c) \in SUBSET (1 .. c.himid)
         /\ IsFiniteSet(Holes(c)) /\ Cardinality(Holes(c)) \in Nat
         /\ Cardinality(Holes(c)) = 0 <=> Holes(c) = {}
         /\ IsFiniteSet(Joined(mid)) /\ Cardinality(Joined(mid)) \in Nat
         /\ Cardinality(Joined(mid)) <= N
         /\ (\E m \in Members : mid[m] = 0) => Cardinality(Joined(mid)) < N
<1>1. /\ N \in Nat /\ c.himid \in 0 .. N /\ c.membercount \in 0 .. N
      /\ c.many \in [1 .. N -> Members \cup {None, Junk}] /\ c.membspace \in Nat
  BY CountOfMembers DEF Table, ChanT
<1>2. Holes(c) \in SUBSET (1 .. c.himid)
  BY DEF Holes
<1>3. IsFiniteSet(1 .. c.himid)
  <2>1. 1 \in Int /\ c.himid \in Int
    BY <1>1
  <2> QED
    BY <2>1, FS_Interval
<1>4. IsFiniteSet(Holes(c)) /\ Cardinality(Holes(c)) \in Nat
  BY <1>2, <1>3, FS_Subset, FS_CardinalityType
<1>5. Joined(mid) \in SUBSET Members
  BY DEF Joined
<1>6. /\ IsFiniteSet(Joined(mid)) /\ Cardinality(Joined(mid)) \in Nat
      /\ Cardinality(Joined(mid)) <= N
      /\ N = Cardinality(Joined(mid)) => Members = Joined(mid)
  BY <1>5, CountOfMembers, FS_Subset, FS_CardinalityType DEF N
<1>7. (\E m \in Members : mid[m] = 0) => Cardinality(Joined(mid)) < N
  BY <1>6, CountOfMembers DEF Joined
<1> QED
  BY <1>1, <1>2, <1>4, <1>6, <1>7, FS_EmptySet

-----------------------------------------------------------------------------
(***************************************************************************)
(* linkRmemb: a member that is not in the table gets the lowest hole, or   *)
(* the next MID, and there is one.                                         *)
(***************************************************************************)
LEMMA FreeMidIsFree ==
  ASSUME NEW c, NEW mid, Table(c, mid), \E m \in Members : mid[m] = 0
  PROVE  /\ FreeMid(c) \in 1 .. N
         /\ \/ FreeMid(c) \in Holes(c)
            \/ FreeMid(c) = c.himid + 1 /\ c.himid = c.membercount
<1>1. c.himid - Cardinality(Holes(c)) = c.membercount
      /\ c.membercount = Cardinality(Joined(mid))
  BY DEF Table
<1>2. CASE c.membercount < c.himid
  <2>1. Holes(c) # {}
    BY <1>1, <1>2, HolesAndJoined
  <2>2. Holes(c) \in SUBSET Nat
    BY HolesAndJoined
  <2>3. Least(Holes(c)) \in Holes(c)
    BY <2>1, <2>2, LeastOf
  <2> QED
    BY <1>2, <2>3, HolesAndJoined, CountOfMembers DEF FreeMid
<1>3. CASE ~ (c.membercount < c.himid)
  <2>1. c.himid = c.membercount /\ c.himid < N
    BY <1>1, <1>3, HolesAndJoined, CountOfMembers
  <2> QED
    BY <1>3, <2>1, HolesAndJoined, CountOfMembers DEF FreeMid
<1> QED
  BY <1>2, <1>3

LEMMA LinkKeepsTable ==
  ASSUME NEW c, NEW mid, Table(c, mid), NEW m \in Members, mid[m] = 0,
         NEW n, n = FreeMid(c), NEW c1, c1 = linkRmemb(c, m),
         NEW mid1, mid1 = [mid EXCEPT ![m] = n]
  PROVE  Table(c1, mid1)
<1>1. n \in 1 .. N /\ (n \in Holes(c) \/ (n = c.himid + 1 /\ c.himid = c.membercount))
  BY FreeMidIsFree
<1>2. /\ c.himid \in 0 .. N /\ c.membercount \in 0 .. N /\ c.membspace \in Nat
      /\ c.many \in [1 .. N -> Members \cup {None, Junk}] /\ N \in Nat
  BY HolesAndJoined, CountOfMembers
<1>3. /\ c1.many = [c.many EXCEPT ![n] = m] /\ c1.membercount = c.membercount + 1
      /\ c1.himid = (IF n > c.himid THEN n ELSE c.himid)
      /\ c1.membspace = growMembSpace(c, n)
      /\ DOMAIN c1 = DOMAIN c
  BY DEF linkRmemb, Table, ChanT
<1>4. mid \in [Members -> 0 .. N] /\ mid1 \in [Members -> 0 .. N]
      /\ mid1[m] = n /\ \A x \in Members \ {m} : mid1[x] = mid[x]
  BY <1>1, CountOfMembers DEF Table
<1>5. Joined(mid1) = Joined(mid) \cup {m} /\ m \notin Joined(mid)
  BY <1>1, <1>4 DEF Joined
<1>6. c1.membercount = Cardinality(Joined(mid1))
  <2>1. IsFiniteSet(Joined(mid))
    BY HolesAndJoined
  <2>2. Cardinality(Joined(mid) \cup {m}) = Cardinality(Joined(mid)) + 1
    BY <1>5, <2>1, FS_AddElement
  <2> QED
    BY <1>3, <1>5, <2>2 DEF Table
<1>7. c1.membercount <= N
  <2>1. Cardinality(Joined(mid)) < N
    BY HolesAndJoined
  <2> QED
    BY <1>2, <1>3, <2>1 DEF Table
<1>8. c1.membspace \in Nat /\ (c1.himid <= 1 \/ c1.himid <= c1.membspace)
  <2>1. FirstSpace \in Nat /\ FirstSpace >= 2
    BY MembersAssumption
  <2>2. n <= c.himid + 1 /\ (c.himid <= 1 \/ c.himid <= c.membspace)
    BY <1>1, <1>2 DEF Table, Holes
  <2>3. /\ c1.membspace = IF n = 1 \/ n <= c.membspace THEN c.membspace
                          ELSE IF c.membspace = 0 THEN FirstSpace
                          ELSE 2 * c.membspace
        /\ c1.himid = IF n > c.himid THEN n ELSE c.himid
    BY <1>3 DEF growMembSpace
  <2>4. n \in Nat /\ c.himid \in Nat /\ c.membspace \in Nat
    BY <1>1, <1>2
  <2> QED
    BY <2>1, <2>2, <2>3, <2>4
<1>9. c1 \in ChanT
  <2>1. c1.himid \in 0 .. N /\ c1.membercount \in 0 .. N
        /\ c1.many \in [1 .. N -> Members \cup {None, Junk}]
    BY <1>1, <1>2, <1>3, <1>7
  <2>2. c1 = [many |-> c1.many, himid |-> c1.himid, membercount |-> c1.membercount,
              membspace |-> c1.membspace]
    BY DEF linkRmemb, Table, ChanT
  <2> QED
    BY <1>8, <2>1, <2>2, CountOfMembers DEF ChanT
<1>10. c1.many[n] = m /\ m # None /\ \A i \in (1 .. N) \ {n} : c1.many[i] = c.many[i]
  BY <1>1, <1>2, <1>3, PointersAssumption
<1>11. c1.himid \in 1 .. N /\ n <= c1.himid /\ c.himid <= c1.himid
       /\ \A i \in 1 .. c1.himid : i = n \/ i <= c.himid
  BY <1>1, <1>2, <1>3 DEF Holes
<1>12. Holes(c1) = Holes(c) \ {n}
  BY <1>2, <1>10, <1>11 DEF Holes
<1>13. c1.himid - Cardinality(Holes(c1)) = c1.membercount
  <2>0. IsFiniteSet(Holes(c)) /\ Cardinality(Holes(c)) \in Nat
        /\ Holes(c) \in SUBSET (1 .. c.himid)
    BY HolesAndJoined
  <2>1. c.himid - Cardinality(Holes(c)) = c.membercount
    BY DEF Table
  <2>2. CASE n \in Holes(c)
    <3>1. Cardinality(Holes(c) \ {n}) = Cardinality(Holes(c)) - 1
      BY <2>0, <2>2, FS_RemoveElement
    <3>2. c1.himid = c.himid
      BY <1>1, <1>2, <1>3, <2>0, <2>2
    <3> QED
      BY <1>2, <1>3, <1>12, <2>0, <2>1, <3>1, <3>2
  <2>3. CASE n = c.himid + 1 /\ n \notin Holes(c)
    <3>1. Holes(c1) = Holes(c)
      BY <1>12, <2>3
    <3>2. c1.himid = c.himid + 1
      BY <1>1, <1>2, <1>3, <2>3
    <3>3. Cardinality(Holes(c1)) = Cardinality(Holes(c)) /\ c1.membercount = c.membercount + 1
      BY <1>3, <3>1
    <3> QED
      BY <1>2, <2>0, <2>1, <3>2, <3>3
  <2> QED
    BY <1>1, <2>2, <2>3
<1>14. \A i \in 1 .. c1.himid :
         c1.many[i] # None => c1.many[i] \in Members /\ mid1[c1.many[i]] = i
  <2> SUFFICES ASSUME NEW i \in 1 .. c1.himid, c1.many[i] # None
               PROVE  c1.many[i] \in Members /\ mid1[c1.many[i]] = i
    OBVIOUS
  <2>1. CASE i = n
    BY <1>4, <1>10, <2>1
  <2>2. CASE i # n
    <3>1. i \in 1 .. c.himid /\ c1.many[i] = c.many[i]
      BY <1>2, <1>10, <1>11, <2>2
    <3>2. c.many[i] \in Members /\ mid[c.many[i]] = i /\ i # 0
      BY <3>1 DEF Table
    <3> QED
      BY <1>4, <3>1, <3>2
  <2> QED
    BY <2>1, <2>2
<1>15. \A x \in Members : mid1[x] # 0 => mid1[x] <= c1.himid /\ c1.many[mid1[x]] = x
  <2> SUFFICES ASSUME NEW x \in Members, mid1[x] # 0
               PROVE  mid1[x] <= c1.himid /\ c1.many[mid1[x]] = x
    OBVIOUS
  <2>1. CASE x = m
    BY <1>4, <1>10, <1>11, <2>1
  <2>2. CASE x # m
    <3>1. mid1[x] = mid[x] /\ mid[x] \in 1 .. N /\ mid[x] <= c.himid /\ c.many[mid[x]] = x
      BY <1>2, <1>4, <2>2 DEF Table
    <3>2. mid[x] # n
      <4>1. CASE n \in Holes(c)
        <5>1. c.many[n] = None
          BY <4>1 DEF Holes
        <5> QED
          BY <3>1, <5>1, PointersAssumption
      <4>2. CASE n = c.himid + 1
        BY <1>2, <3>1, <4>2
      <4> QED
        BY <1>1, <4>1, <4>2
    <3> QED
      BY <1>2, <1>10, <1>11, <3>1, <3>2
  <2> QED
    BY <2>1, <2>2
<1>16. c1.himid > 0 => c1.many[c1.himid] # None
  <2>1. CASE c1.himid = n
    BY <1>10, <2>1
  <2>2. CASE c1.himid # n
    BY <1>2, <1>3, <1>10, <1>11, <2>2 DEF Table
  <2> QED
    BY <2>1, <2>2
<1>17. mid1 \in [Members -> Slots \cup {0}]
  BY <1>4, CountOfMembers
<1> QED
  BY <1>6, <1>8, <1>9, <1>13, <1>14, <1>15, <1>16, <1>17 DEF Table

-----------------------------------------------------------------------------
(***************************************************************************)
(* unlinkRmemb: the last member takes the table with it; the one with the  *)
(* highest MID uncovers the next below it.                                 *)
(***************************************************************************)
LEMMA UnlinkLast ==
  ASSUME NEW c, NEW mid, Table(c, mid), NEW m \in Members, mid[m] # 0,
         NEW c1, c1 = unlinkRmemb(c, mid[m]), c.membercount = 1,
         NEW mid1, mid1 = [mid EXCEPT ![m] = 0]
  PROVE  Table(c1, mid1)
<1>1. Joined(mid) = {m}
  <2>1. \E x : Joined(mid) = {x}
    <3>1. IsFiniteSet(Joined(mid)) /\ Cardinality(Joined(mid)) = 1
      BY HolesAndJoined DEF Table
    <3> QED
      BY <3>1, FS_Singleton
  <2>2. m \in Joined(mid)
    BY DEF Joined
  <2> QED
    BY <2>1, <2>2
<1>2. mid1 \in [Members -> Slots \cup {0}] /\ \A x \in Members : mid1[x] = 0
  BY <1>1 DEF Table, Joined
<1>3. c1 = Empty
  BY DEF unlinkRmemb
<1>4. Empty \in ChanT /\ Holes(Empty) = {} /\ Joined(mid1) = {}
  BY <1>2 DEF Empty, ChanT, Holes, Joined
<1>5. Empty.himid = 0 /\ Empty.membercount = 0
  BY DEF Empty
<1>6. Cardinality(Joined(mid1)) = 0 /\ Cardinality(Holes(Empty)) = 0
  BY <1>4, FS_EmptySet
<1> QED
  BY <1>2, <1>3, <1>4, <1>5, <1>6 DEF Table

LEMMA UnlinkKeepsTable ==
  ASSUME NEW c, NEW mid, Table(c, mid), NEW m \in Members, mid[m] # 0,
         NEW n, n = mid[m], NEW c1, c1 = unlinkRmemb(c, n),
         NEW mid1, mid1 = [mid EXCEPT ![m] = 0]
  PROVE  Table(c1, mid1)
<1> SUFFICES ASSUME c.membercount # 1 PROVE Table(c1, mid1)
  BY UnlinkLast
<1> DEFINE below == (1 .. n - 1) \ Holes(c)
<1>1. n \in 1 .. c.himid /\ c.many[n] = m /\ n \in 1 .. N /\ n \notin Holes(c)
  BY HolesAndJoined, CountOfMembers, PointersAssumption DEF Table, Holes
<1>2. /\ c.himid \in 0 .. N /\ c.membercount \in 0 .. N /\ c.membspace \in Nat
      /\ c.many \in [1 .. N -> Members \cup {None, Junk}] /\ N \in Nat
      /\ c.himid - Cardinality(Holes(c)) = c.membercount
      /\ c.membercount = Cardinality(Joined(mid))
      /\ IsFiniteSet(Holes(c)) /\ Cardinality(Holes(c)) \in Nat
      /\ IsFiniteSet(Joined(mid)) /\ Cardinality(Joined(mid)) \in Nat
  BY HolesAndJoined, CountOfMembers DEF Table
<1>3. /\ c1.many = [c.many EXCEPT ![n] = IF n < c.himid THEN None ELSE Junk]
      /\ c1.membercount = c.membercount - 1 /\ c1.membspace = c.membspace
      /\ c1.himid = (IF n < c.himid THEN c.himid ELSE Greatest(below))
      /\ c1 = [many |-> c1.many, himid |-> c1.himid, membercount |-> c1.membercount,
               membspace |-> c1.membspace]
  BY DEF unlinkRmemb, Table, ChanT
<1>4. mid \in [Members -> 0 .. N] /\ mid1 \in [Members -> 0 .. N]
      /\ mid1[m] = 0 /\ \A x \in Members \ {m} : mid1[x] = mid[x]
  BY <1>2, CountOfMembers DEF Table
<1>5. Joined(mid1) = Joined(mid) \ {m} /\ m \in Joined(mid)
  BY <1>4 DEF Joined
<1>6. c1.membercount = Cardinality(Joined(mid1)) /\ c1.membercount \in 1 .. N
  <2>1. Cardinality(Joined(mid1)) = Cardinality(Joined(mid)) - 1
    BY <1>2, <1>5, FS_RemoveElement
  <2>2. Cardinality(Joined(mid)) # 0
    BY <1>2, <1>5, FS_EmptySet
  <2> QED
    BY <1>2, <1>3, <2>1, <2>2
<1>7. \A x \in Members \ {m} : mid[x] # 0 =>
        mid[x] \in 1 .. c.himid /\ mid[x] # n /\ c.many[mid[x]] = x /\ mid[x] \notin Holes(c)
  BY <1>1, <1>2, <1>4, PointersAssumption DEF Table, Holes
<1>8. ~ (n < c.himid) => /\ n = c.himid
                         /\ Greatest(below) \in below
                         /\ \A j \in below : j <= Greatest(below)
  <2> SUFFICES ASSUME ~ (n < c.himid)
               PROVE  /\ n = c.himid
                      /\ Greatest(below) \in below
                      /\ \A j \in below : j <= Greatest(below)
    OBVIOUS
  <2>1. n = c.himid
    BY <1>1, <1>2
  <2>2. PICK x \in Joined(mid1) : TRUE
    BY <1>6, FS_EmptySet
  <2>3. x \in Members \ {m} /\ mid[x] # 0
    BY <1>4, <1>5, <2>2 DEF Joined
  <2>4. mid[x] \in below
    BY <1>1, <1>2, <1>7, <2>1, <2>3
  <2>5. below \in SUBSET (0 .. n - 1) /\ n - 1 \in Nat
    BY <1>1
  <2> HIDE DEF below
  <2> QED
    BY <2>1, <2>4, <2>5, GreatestOf
<1>9. /\ c1.himid \in 1 .. N /\ c1.himid <= c.himid
      /\ c1.many \in [1 .. N -> Members \cup {None, Junk}]
      /\ \A i \in (1 .. N) \ {n} : c1.many[i] = c.many[i]
      /\ c1.many[n] = (IF n < c.himid THEN None ELSE Junk)
      /\ ~ (n < c.himid) => c1.himid < n
  BY <1>1, <1>2, <1>3, <1>8
<1>10. c1 \in ChanT
  BY <1>2, <1>3, <1>6, <1>9, CountOfMembers DEF ChanT
<1>11. c1.himid - Cardinality(Holes(c1)) = c1.membercount
  <2>1. CASE n < c.himid
    <3>1. Holes(c1) = Holes(c) \cup {n}
      BY <1>1, <1>2, <1>3, <1>9, <2>1 DEF Holes
    <3>2. Cardinality(Holes(c) \cup {n}) = Cardinality(Holes(c)) + 1
      <4>1. IsFiniteSet(Holes(c)) /\ n \notin Holes(c)
        BY <1>1, <1>2
      <4> QED
        BY <4>1, FS_AddElement
    <3>3. /\ c1.himid = c.himid /\ c1.membercount = c.membercount - 1
          /\ c.himid - Cardinality(Holes(c)) = c.membercount
          /\ c.himid \in Int /\ Cardinality(Holes(c)) \in Int /\ c.membercount \in Int
      BY <1>2, <1>3, <2>1
    <3>4. Cardinality(Holes(c1)) = Cardinality(Holes(c)) + 1
      BY <3>1, <3>2
    <3> QED
      BY <3>3, <3>4
  <2>2. CASE ~ (n < c.himid)
    <3> DEFINE h   == c1.himid
               top == (h + 1) .. (n - 1)
    <3>1. h \in Nat /\ n \in Nat /\ h \in 1 .. n - 1 /\ n = c.himid /\ h = Greatest(below)
      BY <1>1, <1>2, <1>3, <1>8, <1>9, <2>2
    <3>2. top \subseteq Holes(c)
      BY <1>8, <2>2, <3>1
    <3>3. Holes(c) = Holes(c1) \cup top /\ Holes(c1) \cap top = {}
      <4>1. \A i \in 1 .. h : c1.many[i] = c.many[i]
        BY <1>2, <1>9, <3>1
      <4>2. Holes(c1) = {i \in 1 .. h : c.many[i] = None}
        BY <4>1 DEF Holes
      <4>3. \A i \in Holes(c) : i \in 1 .. h \/ i \in top
        BY <1>1, <1>2, <3>1 DEF Holes
      <4> HIDE DEF h
      <4>4. (1 .. h) \subseteq (1 .. c.himid) /\ (1 .. h) \cap top = {}
        <5>1. \A i \in 1 .. h : i \in 1 .. c.himid /\ i \notin top
          BY <3>1
        <5> QED
          BY <5>1
      <4> HIDE DEF top
      <4> QED
        BY <3>2, <4>2, <4>3, <4>4 DEF Holes
    <3>4. IsFiniteSet(top) /\ Cardinality(top) = n - 1 - h
      <4> HIDE DEF h
      <4>1. h + 1 \in Int /\ n - 1 \in Int
        BY <3>1
      <4>2. IsFiniteSet(top) /\ Cardinality(top) = IF h + 1 > n - 1 THEN 0 ELSE (n - 1) - (h + 1) + 1
        BY <4>1, FS_Interval
      <4> QED
        BY <3>1, <4>2
    <3>5. IsFiniteSet(Holes(c1)) /\ Cardinality(Holes(c1)) \in Nat
      BY <1>2, <3>3, FS_Subset, FS_CardinalityType
    <3>6. Cardinality(Holes(c)) = Cardinality(Holes(c1)) + Cardinality(top)
      <4>1. Cardinality(Holes(c1) \cup top)
              = Cardinality(Holes(c1)) + Cardinality(top) - Cardinality(Holes(c1) \cap top)
        <5> HIDE DEF top
        <5> QED
          BY <3>4, <3>5, FS_Union
      <4>2. Cardinality(Holes(c1) \cap top) = 0
        BY <3>3, FS_EmptySet
      <4>3. Cardinality(top) \in Int
        BY <3>1, <3>4
      <4> HIDE DEF top
      <4> QED
        BY <3>3, <3>5, <4>1, <4>2, <4>3
    <3> HIDE DEF h, top
    <3>7. c1.himid = h
      BY DEF h
    <3>8. Cardinality(Holes(c)) = Cardinality(Holes(c1)) + (n - 1 - h)
      BY <3>4, <3>6
    <3>9. c1.membercount = c.membercount - 1 /\ c.himid = n /\ n \in Nat /\ h \in Nat
      BY <1>3, <3>1
    <3>10. /\ c.himid - Cardinality(Holes(c)) = c.membercount
           /\ Cardinality(Holes(c)) \in Int /\ Cardinality(Holes(c1)) \in Int
      BY <1>2, <3>5
    <3>11. c.membercount = n - Cardinality(Holes(c)) /\ c.membercount \in Int
      BY <3>9, <3>10
    <3>12. n - Cardinality(Holes(c)) - 1 = h - Cardinality(Holes(c1))
      BY <3>8, <3>9, <3>10
    <3> QED
      BY <3>7, <3>9, <3>11, <3>12
  <2> QED
    BY <2>1, <2>2
<1>12. \A i \in 1 .. c1.himid :
         c1.many[i] # None => c1.many[i] \in Members /\ mid1[c1.many[i]] = i
  <2> SUFFICES ASSUME NEW i \in 1 .. c1.himid, c1.many[i] # None
               PROVE  c1.many[i] \in Members /\ mid1[c1.many[i]] = i
    OBVIOUS
  <2>1. i # n
    BY <1>1, <1>9
  <2>2. i \in 1 .. c.himid /\ c1.many[i] = c.many[i]
    BY <1>2, <1>9, <2>1
  <2>3. c.many[i] \in Members /\ mid[c.many[i]] = i
    BY <2>2 DEF Table
  <2> QED
    BY <1>4, <2>1, <2>2, <2>3
<1>13. \A x \in Members : mid1[x] # 0 => mid1[x] <= c1.himid /\ c1.many[mid1[x]] = x
  <2> SUFFICES ASSUME NEW x \in Members, mid1[x] # 0
               PROVE  mid1[x] <= c1.himid /\ c1.many[mid1[x]] = x
    OBVIOUS
  <2>1. x # m /\ mid1[x] = mid[x] /\ mid[x] \in (1 .. c.himid) \ {n}
        /\ c.many[mid[x]] = x /\ mid[x] \notin Holes(c)
    BY <1>4, <1>7
  <2>2. CASE n < c.himid
    BY <1>2, <1>3, <1>9, <2>1, <2>2
  <2>3. CASE ~ (n < c.himid)
    <3>1. mid[x] \in below
      BY <1>1, <1>2, <1>8, <2>1, <2>3
    <3> QED
      BY <1>2, <1>3, <1>8, <1>9, <2>1, <2>3, <3>1
  <2> QED
    BY <2>2, <2>3
<1>14. c1.himid > 0 => c1.many[c1.himid] # None
  <2>1. CASE n < c.himid
    <3>1. c1.himid = c.himid /\ c1.many[c1.himid] = c.many[c.himid] /\ c.himid > 0
      BY <1>1, <1>2, <1>3, <1>9, <2>1
    <3> QED
      BY <3>1 DEF Table
  <2>2. CASE ~ (n < c.himid)
    <3>1. c1.himid \in below /\ c1.himid \in 1 .. c.himid /\ c1.many[c1.himid] = c.many[c1.himid]
      BY <1>1, <1>2, <1>3, <1>8, <1>9, <2>2
    <3> QED
      BY <3>1 DEF Holes
  <2> QED
    BY <2>1, <2>2
<1>15. mid1 \in [Members -> Slots \cup {0}]
  BY <1>4, CountOfMembers
<1>16. c1.himid <= 1 \/ c1.himid <= c1.membspace
  BY <1>2, <1>3, <1>9 DEF Table
<1> QED
  BY <1>6, <1>10, <1>11, <1>12, <1>13, <1>14, <1>15, <1>16 DEF Table

-----------------------------------------------------------------------------
(***************************************************************************)
(* The invariant of the specification: that of SdtMembersProofs, and the   *)
(* table with the MIDs the members have.                                   *)
(***************************************************************************)
Mids == [m \in Members |-> memb[m].mid]

DirInv == IInv /\ Table(chan, Mids)

LEMMA DirBegins == Init => DirInv
<1> SUFFICES ASSUME Init PROVE DirInv
  OBVIOUS
<1>1. Mids \in [Members -> Slots \cup {0}] /\ \A m \in Members : Mids[m] = 0
  BY DEF Init, Mids, Gone
<1>2. chan \in ChanT /\ Holes(chan) = {} /\ Joined(Mids) = {}
      /\ chan.himid = 0 /\ chan.membercount = 0
  BY <1>1 DEF Init, Empty, ChanT, Holes, Joined
<1>3. Cardinality(Joined(Mids)) = 0 /\ Cardinality(Holes(chan)) = 0
  BY <1>2, FS_EmptySet
<1>4. Table(chan, Mids)
  BY <1>1, <1>2, <1>3 DEF Table
<1> QED
  BY <1>4, Begins DEF DirInv

\* A member's MID changes as r says; the others are as they were.
LEMMA MidOfOne ==
  ASSUME IInv, NEW m \in Members, NEW r, memb' = [memb EXCEPT ![m] = r]
  PROVE  Mids' = [Mids EXCEPT ![m] = r.mid]
<1>1. PICK S : memb \in [Members -> MembOver(S)]
  BY DEF IInv
<1>2. memb'[m] = r /\ \A o \in Members \ {m} : memb'[o] = memb[o]
  BY <1>1
<1>3. [Mids EXCEPT ![m] = r.mid]
        = [o \in Members |-> IF o = m THEN r.mid ELSE memb[o].mid]
  BY DEF Mids
<1>4. \A o \in Members : memb'[o].mid = IF o = m THEN r.mid ELSE memb[o].mid
  BY <1>2
<1>5. Mids' = [o \in Members |-> memb'[o].mid]
  BY DEF Mids
<1> QED
  BY <1>3, <1>4, <1>5

LEMMA TableKept == DirInv /\ [Next]_vars => Table(chan, Mids)'
<1> SUFFICES ASSUME DirInv, [Next]_vars PROVE Table(chan, Mids)'
  OBVIOUS
<1>0. IInv /\ Table(chan, Mids)
  BY DEF DirInv
<1>1. PICK S : memb \in [Members -> MembOver(S)]
  BY <1>0 DEF IInv
<1>2. ASSUME chan' = chan, Mids' = Mids PROVE Table(chan, Mids)'
  BY <1>0, <1>2 DEF Table, ChanT, Slots, Joined, Holes
<1>3. CASE UNCHANGED <<chan, memb>>
  BY <1>2, <1>3 DEF Mids
<1>4. ASSUME NEW m \in Members, addMember(m) PROVE Table(chan, Mids)'
  <2>1. Mids[m] = 0
    <3> SUFFICES ASSUME Mids[m] # 0 PROVE FALSE
      OBVIOUS
    <3>1. Mids[m] \in 1 .. chan.himid /\ chan.many[Mids[m]] = m
      BY <1>0, HolesAndJoined, CountOfMembers DEF Table
    <3> QED
      BY <1>4, <3>1, PointersAssumption DEF addMember, findRmembComp
  <2>2. chan' = linkRmemb(chan, m)
    BY <1>4 DEF addMember
  <2>3. Mids' = [Mids EXCEPT ![m] = FreeMid(chan)]
    <3>1. [Gone EXCEPT !.mid = FreeMid(chan)].mid = FreeMid(chan)
      BY DEF Gone
    <3> QED
      BY <1>0, <1>4, <3>1, MidOfOne DEF addMember
  <2> QED
    BY <1>0, <2>1, <2>2, <2>3, LinkKeepsTable
<1>5. ASSUME NEW m \in Members, killMember(m) PROVE Table(chan, Mids)'
  <2>1. Mids[m] = memb[m].mid /\ Mids[m] # 0
    BY <1>5 DEF killMember, Mids
  <2>2. chan' = unlinkRmemb(chan, Mids[m])
    BY <1>5, <2>1 DEF killMember
  <2>3. Mids' = [Mids EXCEPT ![m] = 0]
    <3>1. Gone.mid = 0
      BY DEF Gone
    <3> QED
      BY <1>0, <1>5, <3>1, MidOfOne DEF killMember
  <2> QED
    BY <1>0, <2>1, <2>2, <2>3, UnlinkKeepsTable
<1>6. ASSUME NEW m \in Members, NEW r, memb' = [memb EXCEPT ![m] = r], r.mid = memb[m].mid,
             chan' = chan
      PROVE  Table(chan, Mids)'
  <2>1. Mids' = [Mids EXCEPT ![m] = Mids[m]]
    BY <1>0, <1>6, MidOfOne DEF Mids
  <2>2. Mids' = Mids
    BY <2>1 DEF Mids
  <2> QED
    BY <1>2, <1>6, <2>2
<1>7. ASSUME NEW m \in Members, initLocMember(m) PROVE Table(chan, Mids)'
  <2>1. [memb[m] EXCEPT !.loc = TRUE].mid = memb[m].mid
    BY <1>1 DEF MembOver
  <2>2. memb' = [memb EXCEPT ![m] = [memb[m] EXCEPT !.loc = TRUE]] /\ chan' = chan
    BY <1>7 DEF initLocMember
  <2> QED
    BY <1>6, <2>1, <2>2
<1>8. ASSUME NEW m \in Members, rx_ack(m) PROVE Table(chan, Mids)'
  <2> DEFINE r == [memb[m] EXCEPT !.counts = TRUE, !.maktries = MakTries]
  <2>1. r.mid = memb[m].mid
    BY <1>1 DEF MembOver
  <2>2. memb' = [memb EXCEPT ![m] = r] /\ chan' = chan
    BY <1>8 DEF rx_ack
  <2> QED
    BY <1>6, <2>1, <2>2
<1>9. ASSUME NEW m \in Members, makTimeoutAction(m) PROVE Table(chan, Mids)'
  <2>1. CASE memb' = setMAKs(m) /\ chan' = chan
    <3> DEFINE r == [memb[m] EXCEPT !.maktries = @ - 1]
    <3>1. r.mid = memb[m].mid
      BY <1>1 DEF MembOver
    <3>2. memb' = [memb EXCEPT ![m] = r]
      BY <2>1 DEF setMAKs
    <3> QED
      BY <1>6, <2>1, <3>1, <3>2
  <2> QED
    BY <1>5, <1>9, <2>1 DEF makTimeoutAction
<1> QED
  BY <1>3, <1>4, <1>5, <1>7, <1>8, <1>9 DEF Next, vars, keepaliveAction, _flushWrapper

LEMMA DirInductive == DirInv /\ [Next]_vars => DirInv'
BY TableKept, Inductive DEF DirInv

-----------------------------------------------------------------------------
\* Below himid the table holds the members and nothing else, each at its MID
\* (linkRmemb, unlinkRmemb): no entry that findRmembMID follows is stale.
THEOREM DirectoryAlways == Spec => []Directory
<1>1. DirInv => Directory
  <2> SUFFICES ASSUME Table(chan, Mids) PROVE Directory
    BY DEF DirInv
  <2>1. \A m \in Members : Mids[m] = memb[m].mid
    BY DEF Mids
  <2>2. \A m \in Linked : memb[m].mid <= chan.himid /\ chan.many[memb[m].mid] = m
    BY <2>1 DEF Table, Linked
  <2>3. ASSUME NEW i \in 1 .. chan.himid, chan.many[i] # None
        PROVE  chan.many[i] \in Linked /\ memb[chan.many[i]].mid = i
    <3>1. chan.many[i] \in Members /\ memb[chan.many[i]].mid = i /\ i # 0
      BY <2>1, <2>3 DEF Table
    <3> QED
      BY <3>1 DEF Linked
  <2> QED
    BY <2>2, <2>3 DEF Directory
<1> QED
  BY DirBegins, DirInductive, <1>1, PTL DEF Spec

\* What the loops over the table rely on holds (the assertion of linkRmemb, the
\* search of setMAKs, the shrinking in unlinkRmemb, the growth of the table):
\* membercount counts the members, and the last entry below himid is one.
THEOREM LoopsAlwaysEnd == Spec => []LoopsEnd
<1>1. DirInv => LoopsEnd
  <2> SUFFICES ASSUME Table(chan, Mids) PROVE LoopsEnd
    BY DEF DirInv
  <2>1. Joined(Mids) = Linked
    BY DEF Joined, Mids, Linked
  <2> QED
    BY <2>1 DEF Table, LoopsEnd
<1> QED
  BY DirBegins, DirInductive, <1>1, PTL DEF Spec

-----------------------------------------------------------------------------
(***************************************************************************)
(* Types.  The MID that is ACKed last is one of the table's.               *)
(***************************************************************************)
LEMMA SendTyped ==
  ASSUME DirInv, lastackmid \in Slots \cup {0}, NEW room, Send(room)
  PROVE  lastackmid' \in Slots \cup {0} /\ acked' \in SUBSET Members
<1> DEFINE h == chan.himid
<1>1. h \in 0 .. N /\ N \in Nat /\ Slots = 1 .. N
  BY HolesAndJoined, CountOfMembers DEF DirInv
<1>2. Visited(room) \in 0 .. h
  <2> DEFINE full == {n \in 0 .. h : Cardinality(Served(n)) = room}
  <2>1. full # {} => Least(full) \in full
    <3>1. full \in SUBSET Nat
      BY <1>1
    <3> HIDE DEF full
    <3> QED
      BY <3>1, LeastOf
  <2>2. Visited(room) = IF full = {} THEN h ELSE Least(full)
    BY DEF Visited
  <2>3. h \in 0 .. h
    BY <1>1
  <2> QED
    BY <2>1, <2>2, <2>3
<1>3. \A n \in 1 .. h : Visit(n) \in 1 .. N
  <2> SUFFICES ASSUME NEW n \in 1 .. h PROVE Visit(n) \in 1 .. N
    OBVIOUS
  <2>1. Start \in Nat
    BY <1>1 DEF Start
  <2>2. h \in Nat \ {0} /\ Start + n - 1 \in Nat
    BY <1>1, <2>1
  <2>3. (Start + n - 1) % h \in 0 .. h - 1
    BY <2>2
  <2> QED
    BY <1>1, <2>3 DEF Visit
<1>4. acked' \in SUBSET Members
  BY DEF Send, Served
<1> QED
  BY <1>1, <1>2, <1>3, <1>4 DEF Send

TypeInv ==
  /\ DirInv
  /\ lastackmid \in Slots \cup {0} /\ acked \in SUBSET Members

LEMMA TypeInductive == TypeInv /\ [Next]_vars => TypeInv'
<1> SUFFICES ASSUME TypeInv, [Next]_vars PROVE TypeInv'
  OBVIOUS
<1>1. CASE UNCHANGED <<lastackmid, acked>>
  BY <1>1, DirInductive DEF TypeInv, Slots
<1>2. ASSUME NEW room, Send(room) PROVE TypeInv'
  BY <1>2, SendTyped, DirInductive DEF TypeInv, Slots
<1>3. ASSUME NEW m \in Members, killMember(m) PROVE TypeInv'
  BY <1>1, <1>2, <1>3 DEF killMember
<1>4. ASSUME NEW m \in Members, makTimeoutAction(m) PROVE TypeInv'
  BY <1>2, <1>3, <1>4 DEF makTimeoutAction
<1> QED
  BY <1>1, <1>2, <1>3, <1>4
  DEF Next, vars, keepaliveAction, _flushWrapper, addMember, initLocMember, rx_ack

\* The variables have their types: with any number of members, the MIDs and
\* the place of the last ACK stay within the table's.
THEOREM TypesKept == Spec => []TypeOK
<1>1. Init => TypeInv
  BY DirBegins DEF Init, TypeInv
<1>2. TypeInv => TypeOK
  <2> SUFFICES ASSUME TypeInv PROVE TypeOK
    OBVIOUS
  <2>0. PICK S : memb \in [Members -> MembOver(S)]
    BY DEF TypeInv, DirInv, IInv
  <2>1. \A m \in Members : Mids[m] = memb[m].mid /\ Mids[m] \in Slots \cup {0}
    BY DEF TypeInv, DirInv, Table, Mids
  <2>2. memb \in [Members -> MembT]
    <3>1. \A m \in Members : memb[m] \in MembT
      BY <2>0, <2>1 DEF MembOver, MembT
    <3> QED
      BY <2>0, <3>1
  <2> QED
    BY <2>2 DEF TypeInv, DirInv, IInv, Table, TypeOK
<1> QED
  BY <1>1, <1>2, TypeInductive, PTL DEF Spec
=============================================================================
