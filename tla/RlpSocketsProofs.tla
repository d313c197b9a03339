--------------------------- MODULE RlpSocketsProofs ---------------------------
(***************************************************************************)
(* Proofs about RlpSockets, for any number of protocols, groups,           *)
(* descriptors and subscriptions: each subscriber is served and nothing is *)
(* kept of those that are gone.  The groups of a socket are followed apart *)
(* from the bookkeeping of who subscribed them.                            *)
(***************************************************************************)
EXTENDS RlpSockets, IndexLemmas, SequenceTheorems, FiniteSetTheorems

Ports   == Fds \cup {MCAST}
SkGroup == [sk : Fds, mad : [1 .. MaxGroups -> Groups \cup {None}],
            nm : [1 .. MaxGroups -> Nat]]
Handler == [protocol : Protocols \cup {None}, func : Callbacks \cup {None},
            nsubs : Nat]
Socket  == [sk : Fds, groups : Seq(SkGroup), handlers : [Slots -> Handler]]
Sub     == [rs : Ports, group : Groups \cup {ANY}, protocol : Protocols,
            func : Callbacks, n : 1 .. MaxSubs]

\* The groups gs of a socket with descriptor sk, where the open descriptors
\* are op: each has the groups its entries say, and no group is there twice.
Mads(sgp) == {sgp.mad[i] : i \in Used(sgp)}

GroupsOK(sk, gs, op) ==
  /\ sk \in DOMAIN op
  /\ \A j \in DOMAIN gs : /\ gs[j].sk \in DOMAIN op /\ Used(gs[j]) # {}
                          /\ op[gs[j].sk] = Mads(gs[j])
  /\ \A j, k \in DOMAIN gs : j # k => gs[j].sk # gs[k].sk
  /\ \A j, k \in DOMAIN gs : \A i \in Used(gs[j]), l \in Used(gs[k]) :
       gs[j].mad[i] = gs[k].mad[l] => j = k /\ i = l
  /\ (\A j \in DOMAIN gs : gs[j].sk # sk) => op[sk] = {}

Sks(sk, gs) == {sk} \cup {gs[j].sk : j \in DOMAIN gs}

\* Group g is in gs, subscribed n times.
At(gs, g, n) ==
  \E j \in DOMAIN gs : \E i \in Used(gs[j]) : gs[j].mad[i] = g /\ gs[j].nm[i] = n

\* The groups change from gs to ht as g is subscribed, or given back.
Grown(gs, ht, g) ==
  /\ \A h, n : At(ht, h, n) =>
       IF h # g THEN At(gs, h, n)
       ELSE \/ n = 1 /\ findgroup(gs, g) = {}
            \/ \E m \in Nat : At(gs, g, m) /\ n = m + 1
  /\ \A h : h = g \/ findgroup(gs, h) # {} => findgroup(ht, h) # {}

Shrunk(gs, ht, g) ==
  /\ \A h, n : At(ht, h, n) =>
       IF h # g THEN At(gs, h, n) ELSE n \in Nat \ {0} /\ At(gs, g, n + 1)
  /\ \A h : h # g /\ findgroup(gs, h) # {} => findgroup(ht, h) # {}
  /\ \A n : At(gs, g, n) /\ n # 1 => findgroup(ht, g) # {}

\* What the subscriptions B have of port a.
OfGroup(B, a, g)    == {s \in {t \in B : t.rs = a} : s.group = g}
OfProtocol(B, a, q) == {s \in {t \in B : t.rs = a} : s.protocol = q}

Tallied(a, gs, B) ==
  /\ \A g, n : At(gs, g, n) => n = Cardinality(OfGroup(B, a, g)) /\ n # 0
  /\ \A s \in B : s.rs = a /\ s.group # ANY => findgroup(gs, s.group) # {}

Handled(a, hs, B) ==
  /\ \A p \in Slots : /\ hs[p].nsubs = Cardinality(OfProtocol(B, a, hs[p].protocol))
                      /\ hs[p].protocol = None <=> hs[p].nsubs = 0
  /\ \A p, q \in Slots : hs[p].protocol = hs[q].protocol /\ hs[p].protocol # None => p = q
  /\ \A s \in B : s.rs = a =>
       \E p \in Slots : hs[p].protocol = s.protocol /\ hs[p].func = s.func

SocketIs(a, rs, op, pl, B) ==
  /\ GroupsOK(rs.sk, rs.groups, op) /\ Tallied(a, rs.groups, B)
  /\ Handled(a, rs.handlers, B) /\ rs.sk \in pl

SocketOK(a) == SocketIs(a, rlpsocks[a], open, polled, subs)

RlpTypes ==
  /\ subs \subseteq Sub /\ IsFiniteSet(subs)
  /\ rlpsocks \in [DOMAIN rlpsocks -> Socket] /\ DOMAIN rlpsocks \subseteq Ports
  /\ open \in [DOMAIN open -> SUBSET Groups]
  /\ failed = FALSE

Owners ==
  /\ DOMAIN rlpsocks = {s.rs : s \in subs}
  /\ DOMAIN open = UNION {Sks(rlpsocks[a].sk, rlpsocks[a].groups) : a \in DOMAIN rlpsocks}
  /\ \A a, b \in DOMAIN rlpsocks :
       a # b => Sks(rlpsocks[a].sk, rlpsocks[a].groups)
                  \cap Sks(rlpsocks[b].sk, rlpsocks[b].groups) = {}

RlpInv == RlpTypes /\ Owners /\ \A a \in DOMAIN rlpsocks : SocketOK(a)

-----------------------------------------------------------------------------
LEMMA MinIs ==
  ASSUME NEW S \in SUBSET Nat, S # {}
  PROVE  Min(S) \in S
<1>1. \E i \in S : \A j \in S : i <= j BY SomeLeast
<1> QED BY <1>1 DEF Min

LEMMA MaxIs ==
  ASSUME NEW b \in Nat, NEW S \in SUBSET (0 .. b), S # {}
  PROVE  Max(S) \in S
<1>1. \E i \in S : \A j \in S : i >= j
  <2>1. PICK i \in S : \A j \in S : j <= i BY SomeGreatest
  <2>2. \A j \in S : i >= j BY <2>1
  <2> QED BY <2>2
<1> QED BY <1>1 DEF Max

LEMMA Sizes ==
  /\ MaxFd \in Nat /\ MaxGroups \in Nat \ {0} /\ MCAST \notin Fds /\ EPHEM \notin Ports
  /\ Cardinality(Protocols) \in Nat \ {0} /\ 1 \in Slots /\ Slots \subseteq Nat
  /\ None \notin Groups /\ None \notin Protocols /\ IsFiniteSet(Protocols)
  BY RlpAssumption DEF MCAST, Fds, EPHEM, Ports, Slots

\* An entry of a struct skgroups_s.
LEMMA EntryIs ==
  ASSUME NEW sgp \in SkGroup, NEW g, \E i \in 1 .. MaxGroups : sgp.mad[i] = g
  PROVE  Entry(sgp, g) \in 1 .. MaxGroups /\ sgp.mad[Entry(sgp, g)] = g
<1> DEFINE S == {i \in 1 .. MaxGroups : sgp.mad[i] = g}
<1>1. S \in SUBSET Nat /\ S # {} OBVIOUS
<1>2. Min(S) \in S BY <1>1, MinIs
<1> QED BY <1>2 DEF Entry

LEMMA FoundIs ==
  ASSUME NEW gs \in Seq(SkGroup), NEW g, findgroup(gs, g) # {}
  PROVE  LET j == Min(findgroup(gs, g))
         IN  /\ j \in DOMAIN gs /\ gs[j] \in SkGroup
             /\ Entry(gs[j], g) \in Used(gs[j]) /\ gs[j].mad[Entry(gs[j], g)] = g
<1> DEFINE j == Min(findgroup(gs, g))
<1>1. findgroup(gs, g) \in SUBSET Nat BY DEF findgroup
<1>2. j \in findgroup(gs, g) BY <1>1, MinIs
<1> HIDE DEF j
<1>3. /\ j \in DOMAIN gs /\ gs[j] \in SkGroup
      /\ \E i \in Used(gs[j]) : gs[j].mad[i] = g
  <2>1. j \in DOMAIN gs /\ \E i \in Used(gs[j]) : gs[j].mad[i] = g
    BY <1>2 DEF findgroup
  <2> QED BY <2>1
<1>4. Entry(gs[j], g) \in 1 .. MaxGroups /\ gs[j].mad[Entry(gs[j], g)] = g
  BY <1>3, EntryIs DEF Used
<1> QED BY <1>3, <1>4 DEF j, Used

LEMMA BlankIs ==
  ASSUME NEW gs \in Seq(SkGroup), findblankgp(gs) # {}
  PROVE  LET j == Min(findblankgp(gs))
         IN  /\ j \in DOMAIN gs /\ gs[j] \in SkGroup
             /\ Entry(gs[j], None) \in 1 .. MaxGroups
             /\ gs[j].mad[Entry(gs[j], None)] = None
<1> DEFINE j == Min(findblankgp(gs))
<1>1. findblankgp(gs) \in SUBSET Nat BY DEF findblankgp
<1>2. j \in findblankgp(gs) BY <1>1, MinIs
<1>3. j \in DOMAIN gs /\ gs[j] \in SkGroup /\ Used(gs[j]) # 1 .. MaxGroups
  BY <1>2 DEF findblankgp
<1> HIDE DEF j
<1>4. Entry(gs[j], None) \in 1 .. MaxGroups /\ gs[j].mad[Entry(gs[j], None)] = None
  BY <1>3, EntryIs DEF Used
<1> QED BY <1>3, <1>4 DEF j

LEMMA AtIs ==
  ASSUME NEW gs \in Seq(SkGroup), NEW g, NEW n, At(gs, g, n)
  PROVE  g \in Groups /\ n \in Nat /\ findgroup(gs, g) # {}
<1>1. PICK j \in DOMAIN gs : \E i \in Used(gs[j]) : gs[j].mad[i] = g /\ gs[j].nm[i] = n
  BY DEF At
<1>2. PICK i \in Used(gs[j]) : gs[j].mad[i] = g /\ gs[j].nm[i] = n BY <1>1
<1>3. gs[j] \in SkGroup BY <1>1
<1>4. i \in 1 .. MaxGroups /\ g # None BY <1>2 DEF Used
<1> QED BY <1>1, <1>2, <1>3, <1>4 DEF SkGroup, findgroup

LEMMA FoundAt ==
  ASSUME NEW gs \in Seq(SkGroup), NEW g, findgroup(gs, g) # {}
  PROVE  \E n \in Nat : At(gs, g, n)
<1>1. PICK j \in DOMAIN gs : \E i \in Used(gs[j]) : gs[j].mad[i] = g BY DEF findgroup
<1>2. PICK i \in Used(gs[j]) : gs[j].mad[i] = g BY <1>1
<1>3. gs[j] \in SkGroup /\ i \in 1 .. MaxGroups BY <1>1, <1>2 DEF Used
<1>4. gs[j].nm[i] \in Nat BY <1>3 DEF SkGroup
<1>5. At(gs, g, gs[j].nm[i]) BY <1>1, <1>2 DEF At
<1> QED BY <1>4, <1>5

-----------------------------------------------------------------------------
(***************************************************************************)
(* One struct skgroups_s changes, the others stay.                         *)
(***************************************************************************)
Fits(gs, j, new) ==
  /\ new.sk = gs[j].sk /\ Used(new) # {}
  /\ \A i, l \in Used(new) : new.mad[i] = new.mad[l] => i = l
  /\ \A i \in Used(new) : \A k \in DOMAIN gs \ {j} : \A l \in Used(gs[k]) :
       new.mad[i] # gs[k].mad[l]

Updated(sk, gs, op, j, new, ht, op2) ==
  /\ ht \in Seq(SkGroup) /\ DOMAIN ht = DOMAIN gs
  /\ \A k \in DOMAIN gs : ht[k] = IF k = j THEN new ELSE gs[k]
  /\ op2 \in [DOMAIN op -> SUBSET Groups] /\ DOMAIN op2 = DOMAIN op
  /\ \A fd \in DOMAIN op : fd \notin Sks(sk, gs) => op2[fd] = op[fd]
  /\ GroupsOK(sk, ht, op2) /\ Sks(sk, ht) = Sks(sk, gs)

LEMMA UpdateAt ==
  ASSUME NEW gs \in Seq(SkGroup), NEW op, op \in [DOMAIN op -> SUBSET Groups],
         NEW sk, GroupsOK(sk, gs, op), NEW j \in DOMAIN gs, NEW new \in SkGroup,
         Fits(gs, j, new),
         NEW ht, ht = [gs EXCEPT ![j] = new],
         NEW op2, op2 = [op EXCEPT ![gs[j].sk] = Mads(new)]
  PROVE  Updated(sk, gs, op, j, new, ht, op2)
<1>1. /\ ht \in Seq(SkGroup) /\ DOMAIN ht = DOMAIN gs
      /\ \A k \in DOMAIN gs : ht[k] = IF k = j THEN new ELSE gs[k]
  OBVIOUS
<1>2. gs[j].sk \in DOMAIN op /\ sk \in DOMAIN op BY DEF GroupsOK
<1>3. Mads(new) \in SUBSET Groups
  <2>1. ASSUME NEW i \in Used(new) PROVE new.mad[i] \in Groups
    BY DEF Used, SkGroup
  <2> QED BY <2>1 DEF Mads
<1>4. /\ op2 \in [DOMAIN op -> SUBSET Groups] /\ DOMAIN op2 = DOMAIN op
      /\ op2[gs[j].sk] = Mads(new)
      /\ \A fd \in DOMAIN op : fd # gs[j].sk => op2[fd] = op[fd]
  BY <1>2, <1>3
<1>5. \A fd \in DOMAIN op : fd \notin Sks(sk, gs) => op2[fd] = op[fd]
  BY <1>4 DEF Sks
<1>6. \A k \in DOMAIN gs : ht[k].sk = gs[k].sk BY <1>1 DEF Fits
<1>7. Sks(sk, ht) = Sks(sk, gs) BY <1>1, <1>6 DEF Sks
<1>8. ASSUME NEW k \in DOMAIN ht
      PROVE  ht[k].sk \in DOMAIN op2 /\ Used(ht[k]) # {} /\ op2[ht[k].sk] = Mads(ht[k])
  <2>1. CASE k = j BY <1>1, <1>2, <1>4, <2>1 DEF Fits
  <2>2. CASE k # j
    <3>1. ht[k] = gs[k] /\ gs[k].sk # gs[j].sk BY <1>1, <2>2 DEF GroupsOK
    <3>2. gs[k].sk \in DOMAIN op /\ Used(gs[k]) # {} /\ op[gs[k].sk] = Mads(gs[k])
      BY <1>1 DEF GroupsOK
    <3> QED BY <1>4, <3>1, <3>2
  <2> QED BY <2>1, <2>2
<1>9. \A k, m \in DOMAIN ht : k # m => ht[k].sk # ht[m].sk BY <1>1, <1>6 DEF GroupsOK
<1>10. ASSUME NEW k \in DOMAIN ht, NEW m \in DOMAIN ht,
              NEW i \in Used(ht[k]), NEW l \in Used(ht[m]), ht[k].mad[i] = ht[m].mad[l]
       PROVE  k = m /\ i = l
  <2>1. CASE k = j /\ m = j BY <1>1, <1>10, <2>1 DEF Fits
  <2>2. CASE k = j /\ m # j BY <1>1, <1>10, <2>2 DEF Fits
  <2>3. CASE k # j /\ m = j BY <1>1, <1>10, <2>3 DEF Fits
  <2>4. CASE k # j /\ m # j BY <1>1, <1>10, <2>4 DEF GroupsOK
  <2> QED BY <2>1, <2>2, <2>3, <2>4
<1>11. (\A k \in DOMAIN ht : ht[k].sk # sk) => op2[sk] = {}
  <2> SUFFICES ASSUME \A k \in DOMAIN ht : ht[k].sk # sk PROVE op2[sk] = {} OBVIOUS
  <2>1. \A k \in DOMAIN gs : gs[k].sk # sk BY <1>1, <1>6
  <2>2. op[sk] = {} BY <2>1 DEF GroupsOK
  <2> QED BY <1>2, <1>4, <2>1, <2>2
<1>12. GroupsOK(sk, ht, op2)
  BY <1>2, <1>4, <1>8, <1>9, <1>10, <1>11 DEF GroupsOK
<1> QED BY <1>1, <1>4, <1>5, <1>7, <1>12 DEF Updated

\* The result r of addgroup keeps the groups in order, g one more time, and its
\* descriptors are those there were with one that is new.
Added(sk, gs, op, g, r) ==
  /\ r.groups \in Seq(SkGroup) /\ r.open \in [DOMAIN r.open -> SUBSET Groups]
  /\ GroupsOK(sk, r.groups, r.open) /\ Grown(gs, r.groups, g)
  /\ DOMAIN op \subseteq DOMAIN r.open
  /\ Sks(sk, r.groups) = Sks(sk, gs) \cup (DOMAIN r.open \ DOMAIN op)
  /\ \A fd \in DOMAIN op : fd \notin Sks(sk, gs) => r.open[fd] = op[fd]

\* A group that is in use is counted once more.
LEMMA AddFound ==
  ASSUME NEW gs \in Seq(SkGroup), NEW op, op \in [DOMAIN op -> SUBSET Groups],
         NEW sk, GroupsOK(sk, gs, op), NEW g \in Groups, NEW fail,
         findgroup(gs, g) # {}
  PROVE  LET r == addgroup(sk, gs, op, g, fail) IN r.ok /\ Added(sk, gs, op, g, r)
<1> DEFINE r   == addgroup(sk, gs, op, g, fail)
           j   == Min(findgroup(gs, g))
           i   == Entry(gs[j], g)
           new == [gs[j] EXCEPT !.nm[i] = @ + 1]
           ht  == [gs EXCEPT ![j] = new]
           op2 == [op EXCEPT ![gs[j].sk] = Mads(new)]
<1>1. r.ok /\ r.open = op /\ r.groups = ht BY DEF addgroup
<1>2. j \in DOMAIN gs /\ gs[j] \in SkGroup /\ i \in Used(gs[j]) /\ gs[j].mad[i] = g
  BY FoundIs
<1> HIDE DEF r, j, i
<1>3. i \in 1 .. MaxGroups BY <1>2 DEF Used
<1>4. /\ new \in SkGroup /\ new.sk = gs[j].sk /\ new.mad = gs[j].mad
      /\ new.nm[i] = gs[j].nm[i] + 1 /\ \A l \in 1 .. MaxGroups : l # i => new.nm[l] = gs[j].nm[l]
  <2>1. gs[j].nm \in [1 .. MaxGroups -> Nat] BY <1>2 DEF SkGroup
  <2>2. gs[j].nm[i] \in Nat BY <1>3, <2>1
  <2>3. gs[j].nm[i] + 1 \in Nat BY <2>2
  <2> DEFINE nm == [gs[j].nm EXCEPT ![i] = gs[j].nm[i] + 1]
  <2>4. /\ nm \in [1 .. MaxGroups -> Nat] /\ nm[i] = gs[j].nm[i] + 1
        /\ \A l \in 1 .. MaxGroups : l # i => nm[l] = gs[j].nm[l]
    BY <1>3, <2>1, <2>3
  <2>5. new = [gs[j] EXCEPT !.nm = nm] OBVIOUS
  <2> HIDE DEF nm, new
  <2>6. /\ new \in SkGroup /\ new.sk = gs[j].sk /\ new.mad = gs[j].mad /\ new.nm = nm
    BY <1>2, <2>4, <2>5 DEF SkGroup
  <2> QED BY <2>4, <2>6
<1> HIDE DEF new
<1>5. Used(new) = Used(gs[j]) /\ Mads(new) = Mads(gs[j]) BY <1>4 DEF Used, Mads
<1>6. Mads(new) = op[gs[j].sk] /\ gs[j].sk \in DOMAIN op /\ Used(new) # {}
  BY <1>2, <1>5 DEF GroupsOK
<1>7. op2 = op BY <1>6
<1>0. ht = [gs EXCEPT ![j] = new] /\ op2 = [op EXCEPT ![gs[j].sk] = Mads(new)] OBVIOUS
<1> HIDE DEF ht, op2
<1>8. /\ \A k, l \in Used(new) : new.mad[k] = new.mad[l] => k = l
      /\ \A k \in Used(new) : \A m \in DOMAIN gs \ {j} : \A l \in Used(gs[m]) :
            new.mad[k] # gs[m].mad[l]
  BY <1>2, <1>4, <1>5 DEF GroupsOK
<1>9. /\ ht \in Seq(SkGroup) /\ DOMAIN ht = DOMAIN gs
      /\ \A k \in DOMAIN gs : ht[k] = IF k = j THEN new ELSE gs[k]
      /\ GroupsOK(sk, ht, op2) /\ Sks(sk, ht) = Sks(sk, gs)
  <2>1. Fits(gs, j, new) BY <1>4, <1>6, <1>8 DEF Fits
  <2>2. Updated(sk, gs, op, j, new, ht, op2) BY <1>0, <1>2, <1>4, <2>1, UpdateAt
  <2> QED BY <2>2 DEF Updated
<1>10. ASSUME NEW h, NEW n, At(ht, h, n)
       PROVE  IF h # g THEN At(gs, h, n) ELSE \E m \in Nat : At(gs, g, m) /\ n = m + 1
  <2>1. PICK k \in DOMAIN ht : \E l \in Used(ht[k]) : ht[k].mad[l] = h /\ ht[k].nm[l] = n
    BY <1>10 DEF At
  <2>2. PICK l \in Used(ht[k]) : ht[k].mad[l] = h /\ ht[k].nm[l] = n BY <2>1
  <2>3. k \in DOMAIN gs /\ l \in Used(gs[k]) /\ gs[k].mad[l] = h
    BY <1>4, <1>5, <1>9, <2>1, <2>2
  <2>4. h = g <=> k = j /\ l = i BY <1>2, <2>3 DEF GroupsOK
  <2>5. l \in 1 .. MaxGroups BY <2>3 DEF Used
  <2>6. CASE h # g
    <3>1. gs[k].nm[l] = n BY <1>4, <1>9, <2>2, <2>3, <2>4, <2>5, <2>6
    <3> QED BY <2>3, <2>6, <3>1 DEF At
  <2>7. CASE h = g
    <3>1. n = gs[j].nm[i] + 1 BY <1>4, <1>9, <2>2, <2>3, <2>4, <2>7
    <3>2. gs[j].nm[i] \in Nat BY <1>2, <1>3 DEF SkGroup
    <3>3. At(gs, g, gs[j].nm[i]) BY <1>2 DEF At
    <3> QED BY <2>7, <3>1, <3>2, <3>3
  <2> QED BY <2>6, <2>7
<1>11. ASSUME NEW h, findgroup(gs, h) # {} PROVE findgroup(ht, h) # {}
  <2>1. PICK k \in DOMAIN gs : \E l \in Used(gs[k]) : gs[k].mad[l] = h
    BY <1>11 DEF findgroup
  <2>2. \E l \in Used(ht[k]) : ht[k].mad[l] = h BY <1>4, <1>5, <1>9, <2>1
  <2> QED BY <1>9, <2>1, <2>2 DEF findgroup
<1>12. Grown(gs, ht, g) BY <1>10, <1>11 DEF Grown
<1>13. Added(sk, gs, op, g, r) BY <1>1, <1>7, <1>9, <1>12 DEF Added
<1> QED BY <1>1, <1>13 DEF r

\* It takes a free entry.
LEMMA AddBlank ==
  ASSUME NEW gs \in Seq(SkGroup), NEW op, op \in [DOMAIN op -> SUBSET Groups],
         NEW sk, GroupsOK(sk, gs, op), NEW g \in Groups, NEW fail,
         findgroup(gs, g) = {}, findblankgp(gs) # {}
  PROVE  LET r == addgroup(sk, gs, op, g, fail)
         IN  IF r.ok THEN Added(sk, gs, op, g, r) ELSE r.open = op
<1> DEFINE r   == addgroup(sk, gs, op, g, fail)
           j   == Min(findblankgp(gs))
           i   == Entry(gs[j], None)
           new == [gs[j] EXCEPT !.mad[i] = g, !.nm[i] = 1]
           ht  == [gs EXCEPT ![j] = new]
           op2 == [op EXCEPT ![gs[j].sk] = Mads(new)]
<1>1. /\ r.ok \in BOOLEAN
      /\ ~ r.ok => r.open = op
      /\ r.ok => r.open = [op EXCEPT ![gs[j].sk] = @ \cup {g}] /\ r.groups = ht
  BY DEF addgroup
<1>2. j \in DOMAIN gs /\ gs[j] \in SkGroup /\ i \in 1 .. MaxGroups /\ gs[j].mad[i] = None
  BY BlankIs
<1> HIDE DEF r, j, i
<1>3. g # None BY Sizes
<1>4. /\ new \in SkGroup /\ new.sk = gs[j].sk /\ new.nm[i] = 1 /\ new.mad[i] = g
      /\ \A l \in 1 .. MaxGroups : l # i => new.nm[l] = gs[j].nm[l] /\ new.mad[l] = gs[j].mad[l]
  BY <1>2 DEF SkGroup
<1> HIDE DEF new
<1>5. Used(new) = Used(gs[j]) \cup {i} /\ i \notin Used(gs[j])
  BY <1>2, <1>3, <1>4 DEF Used
<1>6. \A l \in Used(gs[j]) : l \in 1 .. MaxGroups /\ l # i /\ new.mad[l] = gs[j].mad[l]
  BY <1>2, <1>4 DEF Used
<1>7. Mads(new) = Mads(gs[j]) \cup {g} BY <1>4, <1>5, <1>6 DEF Mads
<1>8. op[gs[j].sk] = Mads(gs[j]) /\ gs[j].sk \in DOMAIN op BY <1>2 DEF GroupsOK
<1>9. op2 = [op EXCEPT ![gs[j].sk] = @ \cup {g}] BY <1>7, <1>8
<1>0. ht = [gs EXCEPT ![j] = new] /\ op2 = [op EXCEPT ![gs[j].sk] = Mads(new)] OBVIOUS
<1> HIDE DEF ht, op2
<1>10. \A k \in DOMAIN gs : \A l \in Used(gs[k]) : gs[k].mad[l] # g BY DEF findgroup
<1>11. \A k, l \in Used(new) : new.mad[k] = new.mad[l] => k = l
  <2> SUFFICES ASSUME NEW k \in Used(new), NEW l \in Used(new), new.mad[k] = new.mad[l]
               PROVE  k = l
    OBVIOUS
  <2>1. CASE k \in Used(gs[j]) /\ l \in Used(gs[j]) BY <1>2, <1>6, <2>1 DEF GroupsOK
  <2>2. CASE ~ (k \in Used(gs[j]) /\ l \in Used(gs[j]))
    BY <1>2, <1>4, <1>5, <1>6, <1>10, <2>2
  <2> QED BY <2>1, <2>2
<1>12. \A k \in Used(new) : \A m \in DOMAIN gs \ {j} : \A l \in Used(gs[m]) :
            new.mad[k] # gs[m].mad[l]
  BY <1>2, <1>4, <1>5, <1>6, <1>10 DEF GroupsOK
<1>13. Used(new) # {} BY <1>5
<1>14. /\ ht \in Seq(SkGroup) /\ DOMAIN ht = DOMAIN gs
       /\ \A k \in DOMAIN gs : ht[k] = IF k = j THEN new ELSE gs[k]
       /\ op2 \in [DOMAIN op -> SUBSET Groups] /\ DOMAIN op2 = DOMAIN op
       /\ \A fd \in DOMAIN op : fd \notin Sks(sk, gs) => op2[fd] = op[fd]
       /\ GroupsOK(sk, ht, op2) /\ Sks(sk, ht) = Sks(sk, gs)
  <2>1. Fits(gs, j, new) BY <1>4, <1>11, <1>12, <1>13 DEF Fits
  <2>2. Updated(sk, gs, op, j, new, ht, op2) BY <1>0, <1>2, <1>4, <2>1, UpdateAt
  <2> QED BY <2>2 DEF Updated
<1>15. ASSUME NEW h, NEW n, At(ht, h, n)
       PROVE  IF h # g THEN At(gs, h, n) ELSE n = 1
  <2>1. PICK k \in DOMAIN ht : \E l \in Used(ht[k]) : ht[k].mad[l] = h /\ ht[k].nm[l] = n
    BY <1>15 DEF At
  <2>2. PICK l \in Used(ht[k]) : ht[k].mad[l] = h /\ ht[k].nm[l] = n BY <2>1
  <2>3. CASE k = j /\ l = i BY <1>4, <1>14, <2>1, <2>2, <2>3
  <2>4. CASE ~ (k = j /\ l = i)
    <3>1. k \in DOMAIN gs /\ l \in Used(gs[k]) BY <1>5, <1>14, <2>1, <2>2, <2>4
    <3>2. gs[k].mad[l] = h /\ gs[k].nm[l] = n
      BY <1>4, <1>6, <1>14, <2>1, <2>2, <2>4, <3>1
    <3> QED BY <1>10, <3>1, <3>2 DEF At
  <2> QED BY <2>3, <2>4
<1>16. ASSUME NEW h, h = g \/ findgroup(gs, h) # {} PROVE findgroup(ht, h) # {}
  <2>1. CASE h = g
    <3>1. j \in DOMAIN ht /\ i \in Used(ht[j]) /\ ht[j].mad[i] = h
      BY <1>2, <1>4, <1>5, <1>14, <2>1
    <3> QED BY <3>1 DEF findgroup
  <2>2. CASE h # g
    <3>1. PICK k \in DOMAIN gs : \E l \in Used(gs[k]) : gs[k].mad[l] = h
      BY <1>16, <2>2 DEF findgroup
    <3>2. \E l \in Used(ht[k]) : ht[k].mad[l] = h BY <1>5, <1>6, <1>14, <3>1
    <3> QED BY <1>14, <3>1, <3>2 DEF findgroup
  <2> QED BY <2>1, <2>2
<1>17. Grown(gs, ht, g) BY <1>15, <1>16 DEF Grown
<1>18. ASSUME r.ok PROVE Added(sk, gs, op, g, r)
  <2>1. r.open = op2 /\ r.groups = ht BY <1>1, <1>9, <1>18
  <2> QED BY <1>14, <1>17, <2>1 DEF Added
<1> QED BY <1>1, <1>18 DEF r

\* What is put before the others.
LEMMA PrependIs ==
  ASSUME NEW gs \in Seq(SkGroup), NEW e \in SkGroup, NEW ht, ht = <<e>> \o gs
  PROVE  /\ ht \in Seq(SkGroup) /\ 1 \in DOMAIN ht /\ ht[1] = e
         /\ \A k \in DOMAIN gs : k + 1 \in DOMAIN ht /\ ht[k + 1] = gs[k]
         /\ \A k \in DOMAIN ht : k = 1 \/ k - 1 \in DOMAIN gs
<1>1. <<e>> \in Seq(SkGroup) /\ Len(<<e>>) = 1 /\ <<e>>[1] = e OBVIOUS
<1>2. DOMAIN gs = 1 .. Len(gs) /\ Len(gs) \in Nat OBVIOUS
<1> DEFINE n == Len(gs)
<1>3. /\ ht \in Seq(SkGroup) /\ Len(ht) = 1 + n
      /\ \A i \in 1 .. 1 + n : ht[i] = IF i <= 1 THEN <<e>>[i] ELSE gs[i - 1]
  BY <1>1, ConcatProperties
<1>4. DOMAIN ht = 1 .. 1 + n BY <1>3
<1> HIDE DEF n
<1>5. n \in Nat /\ DOMAIN gs = 1 .. n BY <1>2 DEF n
<1> QED BY <1>1, <1>3, <1>4, <1>5

\* It opens a socket, or takes the main one if that has no groups.
LEMMA AddNew ==
  ASSUME NEW gs \in Seq(SkGroup), NEW op, op \in [DOMAIN op -> SUBSET Groups],
         NEW sk, GroupsOK(sk, gs, op), NEW g \in Groups, NEW fail,
         DOMAIN op \subseteq Fds, gs # <<>> => Fds \ DOMAIN op # {},
         findgroup(gs, g) = {}, findblankgp(gs) = {}
  PROVE  LET r == addgroup(sk, gs, op, g, fail)
         IN  IF r.ok THEN Added(sk, gs, op, g, r)
             ELSE gs # <<>> \/ "addMembership" \notin fail => r.open = op
<1> DEFINE r   == addgroup(sk, gs, op, g, fail)
           fd  == newDummy(sk, gs, op)
           op1 == IF gs # <<>> THEN entered(op, fd, {}) ELSE op
           op2 == [op1 EXCEPT ![fd] = @ \cup {g}]
           e   == [sk |-> fd, mad |-> [Blank EXCEPT ![1] = g],
                   nm |-> [i \in 1 .. MaxGroups |-> IF i = 1 THEN 1 ELSE 0]]
           ht  == <<e>> \o gs
<1>1. sk \in DOMAIN op /\ sk \in Fds BY DEF GroupsOK
<1>2. fd \in Fds /\ (gs = <<>> => fd = sk)
      /\ (gs # <<>> => fd \notin DOMAIN op)
  <2>1. CASE gs = <<>> BY <1>1, <2>1 DEF newDummy
  <2>2. CASE gs # <<>>
    <3>1. Fds \ DOMAIN op \in SUBSET Nat BY DEF Fds
    <3>2. fd \in Fds \ DOMAIN op BY <2>2, <3>1, MinIs DEF newDummy, Free
    <3> QED BY <2>2, <3>2
  <2> QED BY <2>1, <2>2
<1> HIDE DEF fd
<1>11. /\ DOMAIN op1 = DOMAIN op \cup {fd}
       /\ \A f \in DOMAIN op : op1[f] = op[f]
       /\ gs # <<>> => op1[fd] = {}
  BY <1>1, <1>2 DEF entered
<1>3. \/ r.ok = TRUE /\ r.open = op2 /\ r.groups = ht
      \/ r.ok = FALSE /\ r.open = op
      \/ r.ok = FALSE /\ r.open = close(op1, fd) /\ "addMembership" \in fail
  <2>1. CASE gs # <<>> /\ "newSkt" \in fail
    <3>1. r = [ok |-> FALSE, groups |-> gs, open |-> op] BY <2>1 DEF addgroup
    <3> HIDE DEF r, op2, ht
    <3> QED BY <3>1
  <2>2. CASE ~ (gs # <<>> /\ "newSkt" \in fail)
    <3>1. r = IF "addMembership" \in fail \/ fd \notin DOMAIN op1
              THEN [[ok |-> FALSE, groups |-> gs, open |-> op] EXCEPT !.open = close(op1, fd)]
              ELSE [ok |-> TRUE, open |-> op2, groups |-> ht]
      BY <2>2 DEF addgroup, fd
    <3>2. fd \in DOMAIN op1 BY <1>11
    <3> HIDE DEF r, op1, op2, ht
    <3> QED BY <3>1, <3>2
  <2> QED BY <2>1, <2>2
<1> HIDE DEF r
<1>4. ASSUME gs # <<>> PROVE close(op1, fd) = op
  <2>1. DOMAIN op1 \ {fd} = DOMAIN op BY <1>2, <1>4, <1>11
  <2>2. op = [f \in DOMAIN op |-> op[f]] OBVIOUS
  <2> HIDE DEF op1
  <2> QED BY <1>11, <2>1, <2>2 DEF close
<1>5. ~ r.ok /\ (gs # <<>> \/ "addMembership" \notin fail) => r.open = op
  BY <1>3, <1>4
<1>6. /\ e \in SkGroup /\ e.sk = fd /\ Used(e) = {1} /\ e.mad[1] = g /\ e.nm[1] = 1
  <2>1. MaxGroups \in Nat \ {0} /\ g # None BY Sizes
  <2>2. 1 \in 1 .. MaxGroups BY <2>1
  <2> QED BY <1>2, <2>1, <2>2 DEF SkGroup, Blank, Used
<1>0. ht = <<e>> \o gs OBVIOUS
<1> HIDE DEF e, ht
<1>7. /\ ht \in Seq(SkGroup) /\ 1 \in DOMAIN ht /\ ht[1] = e
      /\ \A k \in DOMAIN gs : k + 1 \in DOMAIN ht /\ ht[k + 1] = gs[k]
      /\ \A k \in DOMAIN ht : k = 1 \/ k - 1 \in DOMAIN gs
  BY <1>0, <1>6, PrependIs
<1>8. DOMAIN gs \subseteq Nat /\ DOMAIN ht \subseteq Nat BY <1>7
<1>9. \A k \in DOMAIN ht : k = 1 \/ (k - 1 \in DOMAIN gs /\ ht[k] = gs[k - 1])
  BY <1>7, <1>8
<1>10. op1[fd] = {}
  <2>1. CASE gs = <<>>
    <3>1. DOMAIN gs = {} BY <2>1
    <3> QED BY <1>2, <2>1, <3>1 DEF GroupsOK
  <2>2. CASE gs # <<>> BY <1>11, <2>2
  <2> QED BY <2>1, <2>2
<1> HIDE DEF op1
<1>12. /\ DOMAIN op2 = DOMAIN op \cup {fd} /\ op2[fd] = {g}
       /\ \A f \in DOMAIN op : f # fd => op2[f] = op[f]
  BY <1>2, <1>10, <1>11
<1>13. op2 \in [DOMAIN op2 -> SUBSET Groups]
  <2>1. \A f \in DOMAIN op2 : op2[f] \in SUBSET Groups BY <1>12
  <2> QED BY <2>1
<1> HIDE DEF op2
<1>14. \A k \in DOMAIN gs : gs[k].sk # fd
  <2>1. CASE gs = <<>> BY <2>1
  <2>2. CASE gs # <<>> BY <1>2, <2>2 DEF GroupsOK
  <2> QED BY <2>1, <2>2
<1>15. Sks(sk, ht) = Sks(sk, gs) \cup {fd}
  <2>1. ASSUME NEW k \in DOMAIN ht PROVE ht[k].sk \in Sks(sk, gs) \cup {fd}
    BY <1>6, <1>7, <1>9 DEF Sks
  <2>2. fd = ht[1].sk BY <1>6, <1>7
  <2>3. ASSUME NEW k \in DOMAIN gs PROVE gs[k].sk \in Sks(sk, ht)
    BY <1>7 DEF Sks
  <2>4. sk \in Sks(sk, ht) /\ sk \in Sks(sk, gs) /\ fd \in Sks(sk, ht)
    BY <1>7, <2>2 DEF Sks
  <2>5. Sks(sk, ht) \subseteq Sks(sk, gs) \cup {fd} BY <2>1, <2>4 DEF Sks
  <2>6. Sks(sk, gs) \subseteq Sks(sk, ht) BY <2>3, <2>4 DEF Sks
  <2> QED BY <2>4, <2>5, <2>6
<1>16. Sks(sk, ht) = Sks(sk, gs) \cup (DOMAIN op2 \ DOMAIN op)
  <2>1. CASE gs = <<>> BY <1>1, <1>2, <1>12, <1>15, <2>1 DEF Sks
  <2>2. CASE gs # <<>> BY <1>2, <1>12, <1>15, <2>2
  <2> QED BY <2>1, <2>2
<1>17. \A f \in DOMAIN op : f \notin Sks(sk, gs) => op2[f] = op[f]
  <2>1. fd \in DOMAIN op => fd = sk BY <1>2
  <2> QED BY <1>12, <2>1 DEF Sks
<1>18. ASSUME NEW k \in DOMAIN ht
       PROVE  ht[k].sk \in DOMAIN op2 /\ Used(ht[k]) # {} /\ op2[ht[k].sk] = Mads(ht[k])
  <2>1. CASE k = 1
    <3>1. Mads(e) = {g} BY <1>6 DEF Mads
    <3> QED BY <1>6, <1>7, <1>12, <2>1, <3>1
  <2>2. CASE k # 1
    <3>1. k - 1 \in DOMAIN gs /\ ht[k] = gs[k - 1] BY <1>9, <2>2
    <3> QED BY <1>12, <1>14, <3>1 DEF GroupsOK
  <2> QED BY <2>1, <2>2
<1>19. ASSUME NEW k \in DOMAIN ht, NEW m \in DOMAIN ht, k # m PROVE ht[k].sk # ht[m].sk
  <2>1. CASE k = 1 BY <1>6, <1>7, <1>9, <1>14, <1>19, <2>1
  <2>2. CASE m = 1 BY <1>6, <1>7, <1>9, <1>14, <1>19, <2>2
  <2>3. CASE k # 1 /\ m # 1 
    <3>1. /\ k - 1 \in DOMAIN gs /\ ht[k] = gs[k - 1]
          /\ m - 1 \in DOMAIN gs /\ ht[m] = gs[m - 1] /\ k - 1 # m - 1
      BY <1>8, <1>9, <1>19, <2>3
    <3> QED BY <3>1 DEF GroupsOK
  <2> QED BY <2>1, <2>2, <2>3
<1>20. \A k \in DOMAIN gs : \A l \in Used(gs[k]) : gs[k].mad[l] # g BY DEF findgroup
<1>21. ASSUME NEW k \in DOMAIN ht, NEW m \in DOMAIN ht,
              NEW i \in Used(ht[k]), NEW l \in Used(ht[m]), ht[k].mad[i] = ht[m].mad[l]
       PROVE  k = m /\ i = l
  <2>1. CASE k = 1 BY <1>6, <1>7, <1>9, <1>20, <1>21, <2>1
  <2>2. CASE m = 1 BY <1>6, <1>7, <1>9, <1>20, <1>21, <2>2
  <2>3. CASE k # 1 /\ m # 1
    <3>1. /\ k - 1 \in DOMAIN gs /\ ht[k] = gs[k - 1]
          /\ m - 1 \in DOMAIN gs /\ ht[m] = gs[m - 1]
      BY <1>9, <2>3
    <3>2. k - 1 = m - 1 /\ i = l BY <1>21, <3>1 DEF GroupsOK
    <3> QED BY <1>8, <3>2
  <2> QED BY <2>1, <2>2, <2>3
<1>22. (\A k \in DOMAIN ht : ht[k].sk # sk) => op2[sk] = {}
  <2> SUFFICES ASSUME \A k \in DOMAIN ht : ht[k].sk # sk PROVE op2[sk] = {} OBVIOUS
  <2>1. fd # sk BY <1>6, <1>7
  <2>2. \A k \in DOMAIN gs : gs[k].sk # sk BY <1>7
  <2>3. op[sk] = {} BY <2>2 DEF GroupsOK
  <2> QED BY <1>1, <1>12, <2>1, <2>3
<1>23. GroupsOK(sk, ht, op2)
  BY <1>1, <1>12, <1>18, <1>19, <1>21, <1>22 DEF GroupsOK
<1>24. ASSUME NEW h, NEW n, At(ht, h, n)
       PROVE  IF h # g THEN At(gs, h, n) ELSE n = 1
  <2>1. PICK k \in DOMAIN ht : \E l \in Used(ht[k]) : ht[k].mad[l] = h /\ ht[k].nm[l] = n
    BY <1>24 DEF At
  <2>2. CASE k = 1 BY <1>6, <1>7, <2>1, <2>2
  <2>3. CASE k # 1
    <3>1. k - 1 \in DOMAIN gs /\ ht[k] = gs[k - 1] BY <1>9, <2>3
    <3>2. At(gs, h, n) BY <2>1, <3>1 DEF At
    <3>3. h # g BY <1>20, <2>1, <3>1
    <3> QED BY <3>2, <3>3
  <2> QED BY <2>2, <2>3
<1>25. ASSUME NEW h, h = g \/ findgroup(gs, h) # {} PROVE findgroup(ht, h) # {}
  <2>1. CASE h = g BY <1>6, <1>7, <2>1 DEF findgroup
  <2>2. CASE h # g
    <3>1. PICK k \in DOMAIN gs : \E l \in Used(gs[k]) : gs[k].mad[l] = h
      BY <1>25, <2>2 DEF findgroup
    <3>2. k + 1 \in DOMAIN ht /\ ht[k + 1] = gs[k] BY <1>7
    <3> QED BY <3>1, <3>2 DEF findgroup
  <2> QED BY <2>1, <2>2
<1>26. Grown(gs, ht, g) BY <1>24, <1>25 DEF Grown
<1>27. ASSUME r.ok PROVE Added(sk, gs, op, g, r)
  BY <1>3, <1>7, <1>12, <1>13, <1>16, <1>17, <1>23, <1>26, <1>27 DEF Added
<1> QED BY <1>3, <1>5, <1>27 DEF r

LEMMA AddGroup ==
  ASSUME NEW gs \in Seq(SkGroup), NEW op, op \in [DOMAIN op -> SUBSET Groups],
         NEW sk, GroupsOK(sk, gs, op), NEW g \in Groups, NEW fail,
         DOMAIN op \subseteq Fds, gs # <<>> => Fds \ DOMAIN op # {}
  PROVE  LET r == addgroup(sk, gs, op, g, fail)
         IN  /\ r.ok => Added(sk, gs, op, g, r)
             /\ ~ r.ok /\ (gs = <<>> => "addMembership" \notin fail) => r.open = op
<1> DEFINE r == addgroup(sk, gs, op, g, fail)
<1>1. CASE findgroup(gs, g) # {}
  <2>1. r.ok /\ Added(sk, gs, op, g, r) BY <1>1, AddFound
  <2> QED BY <2>1
<1>2. CASE findgroup(gs, g) = {} /\ findblankgp(gs) # {}
  <2>1. IF r.ok THEN Added(sk, gs, op, g, r) ELSE r.open = op BY <1>2, AddBlank
  <2> QED BY <2>1
<1>3. CASE findgroup(gs, g) = {} /\ findblankgp(gs) = {}
  <2>1. IF r.ok THEN Added(sk, gs, op, g, r)
        ELSE gs # <<>> \/ "addMembership" \notin fail => r.open = op
    BY <1>3, AddNew
  <2> QED BY <2>1
<1> QED BY <1>1, <1>2, <1>3

-----------------------------------------------------------------------------
(***************************************************************************)
(* A group is given back.                                                  *)
(***************************************************************************)
\* The place in gs of what is at k when that at j has been taken out.
Was(k, j) == IF k < j THEN k ELSE k + 1

LEMMA RemoveIs ==
  ASSUME NEW gs \in Seq(SkGroup), NEW j \in DOMAIN gs,
         NEW ht, ht = RemoveAt(gs, j)
  PROVE  /\ ht \in Seq(SkGroup)
         /\ \A k \in DOMAIN ht : Was(k, j) \in DOMAIN gs \ {j} /\ ht[k] = gs[Was(k, j)]
         /\ \A k, m \in DOMAIN ht : Was(k, j) = Was(m, j) => k = m
         /\ \A m \in DOMAIN gs \ {j} : \E k \in DOMAIN ht : Was(k, j) = m
<1> DEFINE n == Len(gs)
           s == SubSeq(gs, 1, j - 1)
           t == SubSeq(gs, j + 1, n)
<1>1. n \in Nat /\ DOMAIN gs = 1 .. n /\ \A i \in 1 .. n : gs[i] \in SkGroup OBVIOUS
<1> HIDE DEF n
<1>2. j \in 1 .. n /\ j - 1 \in Int /\ j + 1 \in Int BY <1>1
<1>3. s \in Seq(SkGroup) /\ Len(s) = j - 1 /\ \A i \in 1 .. j - 1 : s[i] = gs[i]
  <2>1. \A i \in 1 .. j - 1 : gs[i] \in SkGroup BY <1>1, <1>2
  <2>2. /\ s \in Seq(SkGroup) /\ Len(s) = IF 1 <= j - 1 THEN (j - 1) - 1 + 1 ELSE 0
        /\ \A i \in 1 .. (j - 1) - 1 + 1 : s[i] = gs[1 + i - 1]
    BY <1>2, <2>1, SubSeqProperties
  <2> HIDE DEF s
  <2> QED BY <1>1, <1>2, <2>2
<1>4. t \in Seq(SkGroup) /\ Len(t) = n - j /\ \A i \in 1 .. n - j : t[i] = gs[j + i]
  <2>1. \A i \in j + 1 .. n : gs[i] \in SkGroup BY <1>1, <1>2
  <2>2. /\ t \in Seq(SkGroup) /\ Len(t) = IF j + 1 <= n THEN n - (j + 1) + 1 ELSE 0
        /\ \A i \in 1 .. n - (j + 1) + 1 : t[i] = gs[(j + 1) + i - 1]
    BY <1>1, <1>2, <2>1, SubSeqProperties
  <2> HIDE DEF t
  <2>3. Len(t) = n - j BY <1>1, <1>2, <2>2
  <2>4. \A i \in 1 .. n - j : i \in 1 .. n - (j + 1) + 1 /\ (j + 1) + i - 1 = j + i
    BY <1>1, <1>2
  <2>5. ASSUME NEW i \in 1 .. n - j PROVE t[i] = gs[j + i]
    <3>1. t[i] = gs[(j + 1) + i - 1] BY <2>2, <2>4
    <3> QED BY <2>4, <3>1
  <2> QED BY <2>2, <2>3, <2>5
<1>5. ht = s \o t BY DEF RemoveAt, n
<1> HIDE DEF s, t
<1>6. /\ ht \in Seq(SkGroup) /\ Len(ht) = Len(s) + Len(t)
      /\ \A i \in 1 .. Len(s) + Len(t) : ht[i] = IF i <= Len(s) THEN s[i] ELSE t[i - Len(s)]
  <2>1. s \in Seq(SkGroup) /\ t \in Seq(SkGroup) BY <1>3, <1>4
  <2>2. /\ s \o t \in Seq(SkGroup) /\ Len(s \o t) = Len(s) + Len(t)
        /\ \A i \in 1 .. Len(s) + Len(t) :
             (s \o t)[i] = IF i <= Len(s) THEN s[i] ELSE t[i - Len(s)]
    BY <2>1, ConcatProperties
  <2> QED BY <1>5, <2>2
<1>7. DOMAIN ht = 1 .. n - 1
  <2>1. DOMAIN ht = 1 .. Len(ht) BY <1>6
  <2> QED BY <1>1, <1>2, <1>3, <1>4, <1>6, <2>1
<1>8. ASSUME NEW k \in DOMAIN ht
      PROVE  Was(k, j) \in DOMAIN gs \ {j} /\ ht[k] = gs[Was(k, j)]
  <2>1. k \in 1 .. n - 1 /\ k \in 1 .. Len(s) + Len(t) BY <1>1, <1>2, <1>3, <1>4, <1>7
  <2>2. CASE k < j
    <3>1. k <= Len(s) /\ k \in 1 .. j - 1 BY <1>2, <1>3, <2>1, <2>2
    <3>2. ht[k] = gs[k] BY <1>3, <1>6, <2>1, <3>1
    <3> QED BY <1>1, <2>1, <2>2, <3>2 DEF Was
  <2>3. CASE ~ (k < j)
    <3>1. ~ (k <= Len(s)) /\ k - Len(s) \in 1 .. n - j /\ j + (k - Len(s)) = k + 1
      BY <1>1, <1>2, <1>3, <2>1, <2>3
    <3>2. ht[k] = t[k - Len(s)] BY <1>6, <2>1, <3>1
    <3>3. ht[k] = gs[k + 1] BY <1>4, <3>1, <3>2
    <3>4. k + 1 \in 1 .. n /\ k + 1 # j BY <1>1, <1>2, <2>1, <2>3
    <3> QED BY <1>1, <2>3, <3>3, <3>4 DEF Was
  <2> QED BY <2>2, <2>3
<1>9. \A k, m \in DOMAIN ht : Was(k, j) = Was(m, j) => k = m
  BY <1>1, <1>2, <1>7 DEF Was
<1>10. ASSUME NEW m \in DOMAIN gs \ {j} PROVE \E k \in DOMAIN ht : Was(k, j) = m
  <2>1. CASE m < j
    <3>1. m \in DOMAIN ht /\ Was(m, j) = m BY <1>1, <1>2, <1>7, <2>1 DEF Was
    <3> QED BY <3>1
  <2>2. CASE ~ (m < j)
    <3>1. m - 1 \in DOMAIN ht /\ Was(m - 1, j) = m BY <1>1, <1>2, <1>7, <2>2 DEF Was
    <3> QED BY <3>1
  <2> QED BY <2>1, <2>2
<1> QED BY <1>6, <1>8, <1>9, <1>10

Dropped(sk, gs, op, g, r) ==
  /\ r.groups \in Seq(SkGroup) /\ r.open \in [DOMAIN r.open -> SUBSET Groups]
  /\ GroupsOK(sk, r.groups, r.open) /\ Shrunk(gs, r.groups, g)
  /\ DOMAIN r.open \subseteq DOMAIN op
  /\ Sks(sk, gs) = Sks(sk, r.groups) \cup (DOMAIN op \ DOMAIN r.open)
  /\ Sks(sk, r.groups) \subseteq DOMAIN r.open
  /\ \A fd \in DOMAIN op : fd \notin Sks(sk, gs) => r.open[fd] = op[fd]

LEMMA DropGroup ==
  ASSUME NEW gs \in Seq(SkGroup), NEW op, op \in [DOMAIN op -> SUBSET Groups],
         NEW sk, GroupsOK(sk, gs, op), NEW g \in Groups,
         findgroup(gs, g) # {}, \A n : At(gs, g, n) => n # 0
  PROVE  Dropped(sk, gs, op, g, dropgroup(sk, gs, op, g))
<1> DEFINE r    == dropgroup(sk, gs, op, g)
           j    == Min(findgroup(gs, g))
           i    == Entry(gs[j], g)
           fd   == gs[j].sk
           last == gs[j].nm[i] = 1
           left == [gs[j] EXCEPT !.nm[i] = @ - 1, !.mad[i] = IF last THEN None ELSE @]
           op2  == IF last /\ fd \in DOMAIN op THEN [op EXCEPT ![fd] = @ \ {g}] ELSE op
           ht   == IF Used(left) = {} THEN RemoveAt(gs, j) ELSE [gs EXCEPT ![j] = left]
           op3  == IF Used(left) = {} /\ fd # sk THEN close(op2, fd) ELSE op2
<1>1. r.groups = ht /\ r.open = op3 BY DEF dropgroup
<1>2. j \in DOMAIN gs /\ gs[j] \in SkGroup /\ i \in Used(gs[j]) /\ gs[j].mad[i] = g
  BY FoundIs
<1> HIDE DEF r, j, i
<1>3. i \in 1 .. MaxGroups /\ g # None BY <1>2, Sizes DEF Used
<1>4. gs[j].nm[i] \in Nat \ {0}
  <2>1. gs[j].nm[i] \in Nat BY <1>2, <1>3 DEF SkGroup
  <2>2. At(gs, g, gs[j].nm[i]) BY <1>2 DEF At
  <2> QED BY <2>1, <2>2
<1>5. /\ left \in SkGroup /\ left.sk = gs[j].sk /\ left.nm[i] = gs[j].nm[i] - 1
      /\ left.mad[i] = IF last THEN None ELSE g
      /\ \A l \in 1 .. MaxGroups :
           l # i => left.nm[l] = gs[j].nm[l] /\ left.mad[l] = gs[j].mad[l]
  <2> DEFINE nm  == [gs[j].nm EXCEPT ![i] = gs[j].nm[i] - 1]
             mad == [gs[j].mad EXCEPT ![i] = IF last THEN None ELSE gs[j].mad[i]]
  <2>1. gs[j].nm \in [1 .. MaxGroups -> Nat]
        /\ gs[j].mad \in [1 .. MaxGroups -> Groups \cup {None}]
    BY <1>2 DEF SkGroup
  <2>2. gs[j].nm[i] - 1 \in Nat BY <1>4
  <2>3. /\ nm \in [1 .. MaxGroups -> Nat] /\ nm[i] = gs[j].nm[i] - 1
        /\ \A l \in 1 .. MaxGroups : l # i => nm[l] = gs[j].nm[l]
    BY <1>3, <2>1, <2>2
  <2> HIDE DEF last
  <2>4. /\ mad \in [1 .. MaxGroups -> Groups \cup {None}]
        /\ mad[i] = IF last THEN None ELSE g
        /\ \A l \in 1 .. MaxGroups : l # i => mad[l] = gs[j].mad[l]
    BY <1>2, <1>3, <2>1
  <2>5. left = [gs[j] EXCEPT !.nm = nm, !.mad = mad] OBVIOUS
  <2> HIDE DEF nm, mad, left
  <2>6. left \in SkGroup /\ left.sk = gs[j].sk /\ left.nm = nm /\ left.mad = mad
    BY <1>2, <2>3, <2>4, <2>5 DEF SkGroup
  <2> QED BY <2>3, <2>4, <2>6
<1> HIDE DEF left
<1>6. fd \in DOMAIN op /\ op[fd] = Mads(gs[j]) BY <1>2 DEF GroupsOK
<1>7. Used(left) = IF last THEN Used(gs[j]) \ {i} ELSE Used(gs[j])
  BY <1>2, <1>3, <1>5 DEF Used
<1>8. \A l \in Used(left) : l \in Used(gs[j]) /\ left.mad[l] = gs[j].mad[l]
  <2>1. ASSUME NEW l \in Used(left) PROVE l \in Used(gs[j]) /\ left.mad[l] = gs[j].mad[l]
    <3>1. l \in 1 .. MaxGroups /\ l \in Used(gs[j]) BY <1>7 DEF Used
    <3>2. CASE l = i BY <1>2, <1>5, <1>7, <3>1, <3>2
    <3>3. CASE l # i BY <1>5, <3>1, <3>3
    <3> QED BY <3>1, <3>2, <3>3
  <2> QED BY <2>1
<1>9. Mads(left) = IF last THEN Mads(gs[j]) \ {g} ELSE Mads(gs[j])
  <2>1. \A l \in Used(gs[j]) : gs[j].mad[l] = g => l = i BY <1>2 DEF GroupsOK
  <2>2. CASE last BY <1>2, <1>7, <1>8, <2>1, <2>2 DEF Mads
  <2>3. CASE ~ last BY <1>7, <1>8, <2>3 DEF Mads
  <2> QED BY <2>2, <2>3
<1>10. op2 = [op EXCEPT ![fd] = Mads(left)] BY <1>6, <1>9
<1>11. /\ DOMAIN op2 = DOMAIN op /\ op2[fd] = Mads(left) /\ op2 \in [DOMAIN op -> SUBSET Groups]
       /\ \A f \in DOMAIN op : f # fd => op2[f] = op[f]
  <2>1. Mads(left) \in SUBSET Groups
    <3>1. op[fd] \in SUBSET Groups BY <1>6
    <3> QED BY <1>6, <1>9, <3>1
  <2> HIDE DEF op2
  <2> QED BY <1>6, <1>10, <2>1
<1> HIDE DEF op2
\* Who keeps which entry, in either case.
<1> DEFINE Kept == \A h, n : At(ht, h, n) =>
                     \/ h # g /\ At(gs, h, n)
                     \/ h = g /\ ~ last /\ n = gs[j].nm[i] - 1
           Here == \A h : findgroup(gs, h) # {} /\ (h # g \/ ~ last) => findgroup(ht, h) # {}
<1>12. ASSUME Kept, Here PROVE Shrunk(gs, ht, g)
  <2> HIDE DEF ht
  <2>1. ASSUME NEW h, NEW n, At(ht, h, n)
        PROVE  IF h # g THEN At(gs, h, n) ELSE n \in Nat \ {0} /\ At(gs, g, n + 1)
    <3>1. CASE h # g BY <1>12, <2>1, <3>1
    <3>2. CASE h = g
      <4>1. ~ last /\ n = gs[j].nm[i] - 1 BY <1>12, <2>1, <3>2
      <4>2. n \in Nat \ {0} /\ n + 1 = gs[j].nm[i] BY <1>4, <4>1
      <4>3. At(gs, g, n + 1) BY <1>2, <4>2 DEF At
      <4> QED BY <3>2, <4>2, <4>3
    <3> QED BY <3>1, <3>2
  <2>2. ASSUME NEW n, At(gs, g, n), n # 1 PROVE findgroup(ht, g) # {}
    <3>1. PICK k \in DOMAIN gs : \E l \in Used(gs[k]) : gs[k].mad[l] = g /\ gs[k].nm[l] = n
      BY <2>2 DEF At
    <3>2. gs[j].nm[i] = n BY <1>2, <3>1 DEF GroupsOK
    <3>3. ~ last BY <2>2, <3>2
    <3> QED BY <1>12, <3>3
  <2>3. \A h : h # g /\ findgroup(gs, h) # {} => findgroup(ht, h) # {} BY <1>12
  <2> HIDE DEF Kept, Here, last
  <2> QED BY <2>1, <2>2, <2>3 DEF Shrunk
<1>13. CASE Used(left) # {}
  <2>1. ht = [gs EXCEPT ![j] = left] /\ op3 = op2 BY <1>13
  <2> HIDE DEF ht, op3
  <2>2. Fits(gs, j, left)
    <3>1. \A k, l \in Used(left) : left.mad[k] = left.mad[l] => k = l
      BY <1>2, <1>8 DEF GroupsOK
    <3>2. \A k \in Used(left) : \A m \in DOMAIN gs \ {j} : \A l \in Used(gs[m]) :
            left.mad[k] # gs[m].mad[l]
      BY <1>2, <1>8 DEF GroupsOK
    <3> QED BY <1>5, <1>13, <3>1, <3>2 DEF Fits
  <2>3. Updated(sk, gs, op, j, left, ht, op3)
    BY <1>2, <1>5, <1>10, <2>1, <2>2, UpdateAt
  <2>4. /\ ht \in Seq(SkGroup) /\ DOMAIN ht = DOMAIN gs
        /\ \A k \in DOMAIN gs : ht[k] = IF k = j THEN left ELSE gs[k]
        /\ op3 \in [DOMAIN op -> SUBSET Groups] /\ DOMAIN op3 = DOMAIN op
        /\ \A f \in DOMAIN op : f \notin Sks(sk, gs) => op3[f] = op[f]
        /\ GroupsOK(sk, ht, op3) /\ Sks(sk, ht) = Sks(sk, gs)
    BY <2>3 DEF Updated
  <2>5. Kept
    <3> SUFFICES ASSUME NEW h, NEW n, At(ht, h, n)
                 PROVE  \/ h # g /\ At(gs, h, n)
                        \/ h = g /\ ~ last /\ n = gs[j].nm[i] - 1
      OBVIOUS
    <3>1. PICK k \in DOMAIN ht : \E l \in Used(ht[k]) : ht[k].mad[l] = h /\ ht[k].nm[l] = n
      BY DEF At
    <3>2. PICK l \in Used(ht[k]) : ht[k].mad[l] = h /\ ht[k].nm[l] = n BY <3>1
    <3>3. k \in DOMAIN gs /\ l \in Used(gs[k]) /\ gs[k].mad[l] = h
      BY <1>8, <2>4, <3>1, <3>2
    <3>4. h = g <=> k = j /\ l = i BY <1>2, <3>3 DEF GroupsOK
    <3>5. l \in 1 .. MaxGroups BY <3>3 DEF Used
    <3>6. CASE h # g
      <4>1. gs[k].nm[l] = n BY <1>5, <2>4, <3>2, <3>3, <3>4, <3>5, <3>6
      <4> QED BY <3>3, <3>6, <4>1 DEF At
    <3>7. CASE h = g
      <4>1. i \in Used(left) BY <2>4, <3>2, <3>3, <3>4, <3>7
      <4>2. ~ last BY <1>7, <4>1
      <4>3. n = gs[j].nm[i] - 1 BY <1>5, <2>4, <3>2, <3>3, <3>4, <3>7
      <4> QED BY <3>7, <4>2, <4>3
    <3> QED BY <3>6, <3>7
  <2>6. Here
    <3> SUFFICES ASSUME NEW h, findgroup(gs, h) # {}, h # g \/ ~ last
                 PROVE  findgroup(ht, h) # {}
      OBVIOUS
    <3>1. PICK k \in DOMAIN gs : \E l \in Used(gs[k]) : gs[k].mad[l] = h BY DEF findgroup
    <3>2. PICK l \in Used(gs[k]) : gs[k].mad[l] = h BY <3>1
    <3>3. CASE k # j BY <2>4, <3>1, <3>3 DEF findgroup
    <3>4. CASE k = j
      <4>1. l \in Used(left) BY <1>2, <1>7, <3>2, <3>4
      <4>2. ht[k] = left /\ left.mad[l] = h BY <1>8, <2>4, <3>2, <3>4, <4>1
      <4> QED BY <2>4, <4>1, <4>2 DEF findgroup
    <3> QED BY <3>3, <3>4
  <2>7. Shrunk(gs, ht, g) BY <1>12, <2>5, <2>6
  <2>8. Sks(sk, ht) \subseteq DOMAIN op3 BY <2>4 DEF Sks, GroupsOK
  <2> QED BY <1>1, <2>4, <2>7, <2>8 DEF Dropped, r
<1>14. CASE Used(left) = {}
  <2>1. last /\ Used(gs[j]) = {i} BY <1>2, <1>7, <1>14
  <2>2. ht = RemoveAt(gs, j) /\ op3 = IF fd # sk THEN close(op2, fd) ELSE op2 BY <1>14
  <2>3. /\ ht \in Seq(SkGroup)
        /\ \A k \in DOMAIN ht : Was(k, j) \in DOMAIN gs \ {j} /\ ht[k] = gs[Was(k, j)]
        /\ \A k, m \in DOMAIN ht : Was(k, j) = Was(m, j) => k = m
        /\ \A m \in DOMAIN gs \ {j} : \E k \in DOMAIN ht : Was(k, j) = m
    <3> HIDE DEF ht
    <3> QED BY <1>2, <2>2, RemoveIs
  <2> HIDE DEF ht, op3
  <2>4. Mads(left) = {} BY <1>14 DEF Mads
  <2>5. /\ DOMAIN op3 = IF fd # sk THEN DOMAIN op \ {fd} ELSE DOMAIN op
        /\ \A f \in DOMAIN op : f # fd => op3[f] = op[f]
        /\ fd = sk => op3[fd] = {}
    BY <1>11, <2>2, <2>4 DEF close
  <2>6. op3 \in [DOMAIN op3 -> SUBSET Groups]
    <3>1. \A f \in DOMAIN op3 : op3[f] \in SUBSET Groups BY <2>5
    <3>2. op3 = [f \in DOMAIN op3 |-> op3[f]] BY <1>11, <2>2 DEF close
    <3> QED BY <3>1, <3>2
  <2>7. \A m \in DOMAIN gs \ {j} : gs[m].sk # fd BY <1>2 DEF GroupsOK
  <2>8. Sks(sk, gs) = Sks(sk, ht) \cup {fd}
    <3>1. ASSUME NEW k \in DOMAIN ht PROVE ht[k].sk \in Sks(sk, gs) BY <2>3 DEF Sks
    <3>2. ASSUME NEW m \in DOMAIN gs \ {j} PROVE gs[m].sk \in Sks(sk, ht)
      <4>1. PICK k \in DOMAIN ht : Was(k, j) = m BY <2>3
      <4> QED BY <2>3, <4>1 DEF Sks
    <3>3. Sks(sk, ht) \subseteq Sks(sk, gs) BY <3>1 DEF Sks
    <3>4. Sks(sk, gs) \subseteq Sks(sk, ht) \cup {fd} BY <3>2 DEF Sks
    <3>5. fd \in Sks(sk, gs) BY <1>2 DEF Sks
    <3> QED BY <3>3, <3>4, <3>5
  <2>9. fd # sk => fd \notin Sks(sk, ht) BY <2>3, <2>7 DEF Sks
  <2>10. Sks(sk, gs) \subseteq DOMAIN op BY DEF Sks, GroupsOK
  <2>11. sk \in DOMAIN op /\ sk \in Sks(sk, ht) BY DEF GroupsOK, Sks
  <2>12. /\ Sks(sk, gs) = Sks(sk, ht) \cup (DOMAIN op \ DOMAIN op3)
         /\ Sks(sk, ht) \subseteq DOMAIN op3
    BY <1>6, <2>5, <2>8, <2>9, <2>10, <2>11
  <2>13. \A f \in DOMAIN op : f \notin Sks(sk, gs) => op3[f] = op[f]
    BY <2>5, <2>8
  <2>14. ASSUME NEW k \in DOMAIN ht
         PROVE  ht[k].sk \in DOMAIN op3 /\ Used(ht[k]) # {} /\ op3[ht[k].sk] = Mads(ht[k])
    <3>1. Was(k, j) \in DOMAIN gs \ {j} /\ ht[k] = gs[Was(k, j)] BY <2>3
    <3>2. ht[k].sk \in DOMAIN op /\ ht[k].sk # fd /\ Used(ht[k]) # {} /\ op[ht[k].sk] = Mads(ht[k])
      BY <2>7, <3>1 DEF GroupsOK
    <3> QED BY <2>5, <3>2
  <2>15. ASSUME NEW k \in DOMAIN ht, NEW m \in DOMAIN ht, k # m PROVE ht[k].sk # ht[m].sk
    <3>1. Was(k, j) # Was(m, j) BY <2>3, <2>15
    <3> QED BY <2>3, <3>1 DEF GroupsOK
  <2>16. ASSUME NEW k \in DOMAIN ht, NEW m \in DOMAIN ht,
                NEW a \in Used(ht[k]), NEW b \in Used(ht[m]), ht[k].mad[a] = ht[m].mad[b]
         PROVE  k = m /\ a = b
    <3>1. /\ Was(k, j) \in DOMAIN gs /\ ht[k] = gs[Was(k, j)]
          /\ Was(m, j) \in DOMAIN gs /\ ht[m] = gs[Was(m, j)]
      BY <2>3
    <3>2. Was(k, j) = Was(m, j) /\ a = b BY <2>16, <3>1 DEF GroupsOK
    <3> QED BY <2>3, <3>2
  <2>17. (\A k \in DOMAIN ht : ht[k].sk # sk) => op3[sk] = {}
    <3> SUFFICES ASSUME \A k \in DOMAIN ht : ht[k].sk # sk PROVE op3[sk] = {} OBVIOUS
    <3>1. CASE fd = sk BY <2>5, <3>1
    <3>2. CASE fd # sk
      <4>1. ASSUME NEW m \in DOMAIN gs PROVE gs[m].sk # sk
        <5>1. CASE m = j BY <3>2, <5>1
        <5>2. CASE m # j
          <6>1. PICK k \in DOMAIN ht : Was(k, j) = m BY <2>3, <5>2
          <6> QED BY <2>3, <6>1
        <5> QED BY <5>1, <5>2
      <4> QED BY <2>5, <2>11, <3>2, <4>1 DEF GroupsOK
    <3> QED BY <3>1, <3>2
  <2>18. GroupsOK(sk, ht, op3)
    BY <2>11, <2>12, <2>14, <2>15, <2>16, <2>17 DEF GroupsOK
  <2>19. \A k \in DOMAIN ht : \A l \in Used(ht[k]) : ht[k].mad[l] # g
    BY <1>2, <2>3 DEF GroupsOK
  <2>20. Kept
    <3> SUFFICES ASSUME NEW h, NEW n, At(ht, h, n) PROVE h # g /\ At(gs, h, n)
      OBVIOUS
    <3>1. PICK k \in DOMAIN ht : \E l \in Used(ht[k]) : ht[k].mad[l] = h /\ ht[k].nm[l] = n
      BY DEF At
    <3>2. Was(k, j) \in DOMAIN gs /\ ht[k] = gs[Was(k, j)] BY <2>3
    <3>3. At(gs, h, n) BY <3>1, <3>2 DEF At
    <3> QED BY <2>19, <3>1, <3>3
  <2>21. Here
    <3> SUFFICES ASSUME NEW h, findgroup(gs, h) # {}, h # g PROVE findgroup(ht, h) # {}
      BY <2>1
    <3>1. PICK m \in DOMAIN gs : \E l \in Used(gs[m]) : gs[m].mad[l] = h BY DEF findgroup
    <3>2. m # j BY <1>2, <2>1, <3>1
    <3>3. PICK k \in DOMAIN ht : Was(k, j) = m BY <2>3, <3>2
    <3>4. ht[k] = gs[m] BY <2>3, <3>3
    <3> QED BY <3>1, <3>4 DEF findgroup
  <2>22. Shrunk(gs, ht, g) BY <1>12, <2>20, <2>21
  <2>23. DOMAIN op3 \subseteq DOMAIN op BY <2>5
  <2> QED BY <1>1, <2>3, <2>6, <2>12, <2>13, <2>18, <2>22, <2>23 DEF Dropped, r
<1> QED BY <1>13, <1>14 DEF r

-----------------------------------------------------------------------------
(***************************************************************************)
(* The counts as one subscription x more, or one less, is held.            *)
(***************************************************************************)
LEMMA CountIs ==
  ASSUME NEW B, IsFiniteSet(B), NEW T, T \subseteq B
  PROVE  IsFiniteSet(T) /\ Cardinality(T) \in Nat /\ (Cardinality(T) = 0 <=> T = {})
<1>1. IsFiniteSet(T) BY FS_Subset
<1>2. Cardinality(T) \in Nat BY <1>1, FS_CardinalityType
<1> QED BY <1>1, <1>2, FS_EmptySet

CountsWith(B, C, a, x) ==
  /\ \A g : Cardinality(OfGroup(C, a, g)) = Cardinality(OfGroup(B, a, g))
              + IF x.rs = a /\ x.group = g THEN 1 ELSE 0
  /\ \A q : Cardinality(OfProtocol(C, a, q)) = Cardinality(OfProtocol(B, a, q))
              + IF x.rs = a /\ x.protocol = q THEN 1 ELSE 0
  /\ \A g : /\ Cardinality(OfGroup(B, a, g)) \in Nat
            /\ Cardinality(OfGroup(B, a, g)) = 0 <=> OfGroup(B, a, g) = {}
  /\ \A q : /\ Cardinality(OfProtocol(B, a, q)) \in Nat
            /\ Cardinality(OfProtocol(B, a, q)) = 0 <=> OfProtocol(B, a, q) = {}

LEMMA OneMore ==
  ASSUME NEW B, IsFiniteSet(B), NEW a, NEW x, x \notin B, NEW C, C = B \cup {x}
  PROVE  CountsWith(B, C, a, x)
<1>1. ASSUME NEW g
      PROVE  /\ Cardinality(OfGroup(C, a, g)) = Cardinality(OfGroup(B, a, g))
                  + IF x.rs = a /\ x.group = g THEN 1 ELSE 0
             /\ Cardinality(OfGroup(B, a, g)) \in Nat
             /\ Cardinality(OfGroup(B, a, g)) = 0 <=> OfGroup(B, a, g) = {}
  <2> DEFINE T == OfGroup(B, a, g)
  <2>1. T \subseteq B /\ x \notin T BY DEF OfGroup
  <2>2. OfGroup(C, a, g) = IF x.rs = a /\ x.group = g THEN T \cup {x} ELSE T
    BY DEF OfGroup
  <2> HIDE DEF T
  <2>3. IsFiniteSet(T) /\ Cardinality(T) \in Nat /\ (Cardinality(T) = 0 <=> T = {})
    BY <2>1, CountIs
  <2>4. Cardinality(T \cup {x}) = Cardinality(T) + 1 BY <2>1, <2>3, FS_AddElement
  <2>5. Cardinality(OfGroup(C, a, g)) =
          Cardinality(T) + IF x.rs = a /\ x.group = g THEN 1 ELSE 0
    BY <2>2, <2>3, <2>4
  <2> QED BY <2>3, <2>5 DEF T
<1>2. ASSUME NEW q
      PROVE  /\ Cardinality(OfProtocol(C, a, q)) = Cardinality(OfProtocol(B, a, q))
                  + IF x.rs = a /\ x.protocol = q THEN 1 ELSE 0
             /\ Cardinality(OfProtocol(B, a, q)) \in Nat
             /\ Cardinality(OfProtocol(B, a, q)) = 0 <=> OfProtocol(B, a, q) = {}
  <2> DEFINE T == OfProtocol(B, a, q)
  <2>1. T \subseteq B /\ x \notin T BY DEF OfProtocol
  <2>2. OfProtocol(C, a, q) = IF x.rs = a /\ x.protocol = q THEN T \cup {x} ELSE T
    BY DEF OfProtocol
  <2> HIDE DEF T
  <2>3. IsFiniteSet(T) /\ Cardinality(T) \in Nat /\ (Cardinality(T) = 0 <=> T = {})
    BY <2>1, CountIs
  <2>4. Cardinality(T \cup {x}) = Cardinality(T) + 1 BY <2>1, <2>3, FS_AddElement
  <2>5. Cardinality(OfProtocol(C, a, q)) =
          Cardinality(T) + IF x.rs = a /\ x.protocol = q THEN 1 ELSE 0
    BY <2>2, <2>3, <2>4
  <2> QED BY <2>3, <2>5 DEF T
<1> QED BY <1>1, <1>2 DEF CountsWith

\* The groups of socket a, where x subscribes g or gives it back ...
LEMMA TallyGrows ==
  ASSUME NEW gs \in Seq(SkGroup), NEW ht \in Seq(SkGroup), NEW a, NEW g \in Groups,
         NEW B, IsFiniteSet(B), NEW x, x \notin B, x.rs = a, x.group = g,
         Tallied(a, gs, B), Grown(gs, ht, g)
  PROVE  Tallied(a, ht, B \cup {x})
<1> DEFINE C == B \cup {x}
<1>1. CountsWith(B, C, a, x) BY OneMore
<1>2. g # ANY BY Sizes DEF ANY
<1>3. ASSUME NEW h, NEW n, At(ht, h, n)
      PROVE  n = Cardinality(OfGroup(C, a, h)) /\ n # 0
  <2>1. CASE h # g
    <3>1. At(gs, h, n) BY <1>3, <2>1 DEF Grown
    <3>2. n = Cardinality(OfGroup(B, a, h)) /\ n # 0 BY <3>1 DEF Tallied
    <3>3. Cardinality(OfGroup(C, a, h)) = Cardinality(OfGroup(B, a, h)) + 0
          /\ Cardinality(OfGroup(B, a, h)) \in Nat
      BY <1>1, <2>1 DEF CountsWith
    <3> QED BY <3>2, <3>3
  <2>2. CASE h = g /\ n = 1 /\ findgroup(gs, g) = {}
    <3>1. OfGroup(B, a, g) = {} BY <1>2, <2>2 DEF Tallied, OfGroup
    <3>2. Cardinality(OfGroup(B, a, g)) = 0 BY <1>1, <3>1 DEF CountsWith
    <3>3. Cardinality(OfGroup(C, a, g)) = Cardinality(OfGroup(B, a, g)) + 1
      BY <1>1 DEF CountsWith
    <3> QED BY <2>2, <3>2, <3>3
  <2>3. CASE h = g /\ \E m \in Nat : At(gs, g, m) /\ n = m + 1
    <3>1. PICK m \in Nat : At(gs, g, m) /\ n = m + 1 BY <2>3
    <3>2. m = Cardinality(OfGroup(B, a, g)) BY <3>1 DEF Tallied
    <3>3. Cardinality(OfGroup(C, a, g)) = Cardinality(OfGroup(B, a, g)) + 1
      BY <1>1 DEF CountsWith
    <3> QED BY <2>3, <3>1, <3>2, <3>3
  <2> QED BY <1>3, <2>1, <2>2, <2>3 DEF Grown
<1>4. ASSUME NEW s \in C, s.rs = a, s.group # ANY PROVE findgroup(ht, s.group) # {}
  <2>1. s.group = g \/ findgroup(gs, s.group) # {} BY <1>4 DEF Tallied
  <2> QED BY <2>1 DEF Grown
<1> QED BY <1>3, <1>4 DEF Tallied

LEMMA TallyShrinks ==
  ASSUME NEW gs \in Seq(SkGroup), NEW ht \in Seq(SkGroup), NEW a, NEW g \in Groups,
         NEW B, IsFiniteSet(B), NEW x \in B, x.rs = a, x.group = g,
         Tallied(a, gs, B), Shrunk(gs, ht, g)
  PROVE  Tallied(a, ht, B \ {x})
<1> DEFINE C == B \ {x}
<1>1. CountsWith(C, B, a, x)
  <2>1. IsFiniteSet(C) /\ B = C \cup {x} /\ x \notin C BY FS_Subset
  <2> HIDE DEF C
  <2> QED BY <2>1, OneMore
<1>2. Cardinality(OfGroup(B, a, g)) = Cardinality(OfGroup(C, a, g)) + 1
      /\ Cardinality(OfGroup(C, a, g)) \in Nat
  BY <1>1 DEF CountsWith
<1>3. ASSUME NEW h, NEW n, At(ht, h, n)
      PROVE  n = Cardinality(OfGroup(C, a, h)) /\ n # 0
  <2>1. CASE h # g
    <3>1. At(gs, h, n) BY <1>3, <2>1 DEF Shrunk
    <3>2. n = Cardinality(OfGroup(B, a, h)) /\ n # 0 BY <3>1 DEF Tallied
    <3>3. Cardinality(OfGroup(B, a, h)) = Cardinality(OfGroup(C, a, h)) + 0
          /\ Cardinality(OfGroup(C, a, h)) \in Nat
      BY <1>1, <2>1 DEF CountsWith
    <3> QED BY <3>2, <3>3
  <2>2. CASE h = g
    <3>1. n \in Nat \ {0} /\ At(gs, g, n + 1) BY <1>3, <2>2 DEF Shrunk
    <3>2. n + 1 = Cardinality(OfGroup(B, a, g)) BY <3>1 DEF Tallied
    <3> QED BY <1>2, <2>2, <3>1, <3>2
  <2> QED BY <2>1, <2>2
<1>4. ASSUME NEW s \in C, s.rs = a, s.group # ANY PROVE findgroup(ht, s.group) # {}
  <2>1. findgroup(gs, s.group) # {} BY <1>4 DEF Tallied
  <2>2. CASE s.group # g BY <2>1, <2>2 DEF Shrunk
  <2>3. CASE s.group = g
    <3>1. PICK n \in Nat : At(gs, g, n) BY <2>1, <2>3, FoundAt
    <3>2. n = Cardinality(OfGroup(B, a, g)) BY <3>1 DEF Tallied
    <3>3. s \in OfGroup(C, a, g) BY <1>4, <2>3 DEF OfGroup
    <3>4. Cardinality(OfGroup(C, a, g)) # 0 BY <1>1, <3>3 DEF CountsWith
    <3>5. n # 1 BY <1>2, <3>2, <3>4
    <3> QED BY <2>3, <3>1, <3>5 DEF Shrunk
  <2> QED BY <2>2, <2>3
<1> QED BY <1>3, <1>4 DEF Tallied

\* ... and where x is of another socket or names no group.
LEMMA TallyStays ==
  ASSUME NEW gs \in Seq(SkGroup), NEW a, NEW B, IsFiniteSet(B), NEW x, x \notin B,
         x.rs # a \/ x.group = ANY
  PROVE  Tallied(a, gs, B \cup {x}) <=> Tallied(a, gs, B)
<1> DEFINE C == B \cup {x}
<1>1. CountsWith(B, C, a, x) BY OneMore
<1>2. ASSUME NEW g, NEW n, At(gs, g, n)
      PROVE  Cardinality(OfGroup(C, a, g)) = Cardinality(OfGroup(B, a, g))
  <2>1. g # ANY BY <1>2, AtIs, Sizes DEF ANY
  <2>2. Cardinality(OfGroup(C, a, g)) = Cardinality(OfGroup(B, a, g)) + 0
        /\ Cardinality(OfGroup(B, a, g)) \in Nat
    BY <1>1, <2>1 DEF CountsWith
  <2> QED BY <2>2
<1>3. \A s \in C : s.rs = a /\ s.group # ANY => s \in B OBVIOUS
<1> QED BY <1>2, <1>3 DEF Tallied

\* The handlers of socket a: those of another's are not concerned.
LEMMA HandledStays ==
  ASSUME NEW hs, NEW a, NEW B, IsFiniteSet(B), NEW x, x \notin B, x.rs # a
  PROVE  Handled(a, hs, B \cup {x}) <=> Handled(a, hs, B)
<1> DEFINE C == B \cup {x}
<1>1. \A q : OfProtocol(C, a, q) = OfProtocol(B, a, q) BY DEF OfProtocol
<1>2. \A s : s \in C /\ s.rs = a <=> s \in B /\ s.rs = a OBVIOUS
<1> QED BY <1>1, <1>2 DEF Handled

LEMMA NoneHandled ==
  ASSUME NEW a, NEW B, \A s \in B : s.rs # a
  PROVE  Handled(a, [p \in Slots |-> Unused], B)
<1> DEFINE hs == [p \in Slots |-> Unused]
<1>1. \A p \in Slots : hs[p].protocol = None /\ hs[p].nsubs = 0 BY DEF Unused
<1>2. OfProtocol(B, a, None) = {} BY DEF OfProtocol
<1>3. Cardinality(OfProtocol(B, a, None)) = 0 BY <1>2, FS_EmptySet
<1> HIDE DEF hs
<1>4. Handled(a, hs, B) BY <1>1, <1>3 DEF Handled
<1> QED BY <1>4 DEF hs

\* Slot p may take a subscription of prot with callback cb.
Takes(hs, p, prot, cb) ==
  \/ hs[p].protocol = prot /\ hs[p].func = cb
  \/ hs[p].protocol = None /\ \A q \in Slots : hs[q].protocol # prot

OneTaken(hs, p, prot, cb, ht) == ht = [hs EXCEPT ![p] = Counted(hs[p], prot, cb)]

LEMMA HandleMore ==
  ASSUME Multi, NEW hs \in [Slots -> Handler], NEW a, NEW B, IsFiniteSet(B), NEW x, x \notin B,
         x.rs = a, x.protocol \in Protocols, x.func \in Callbacks, Handled(a, hs, B),
         NEW p \in Slots, Takes(hs, p, x.protocol, x.func),
         NEW ht, OneTaken(hs, p, x.protocol, x.func, ht),
         NEW C, C = B \cup {x}
  PROVE  ht \in [Slots -> Handler] /\ Handled(a, ht, C)
<1> DEFINE h == Counted(hs[p], x.protocol, x.func)
<1>1. CountsWith(B, C, a, x) BY OneMore
<1>2. x.protocol # None BY Sizes
<1>3. \A q \in Slots : /\ hs[q].nsubs = Cardinality(OfProtocol(B, a, hs[q].protocol))
                       /\ hs[q].protocol = None <=> hs[q].nsubs = 0
  BY DEF Handled
<1>4. hs[p] \in Handler /\ hs[p].nsubs \in Nat BY DEF Handler
<1>5. /\ h \in Handler /\ h.protocol = x.protocol /\ h.func = x.func
      /\ h.nsubs = Cardinality(OfProtocol(B, a, x.protocol)) + 1
  <2>1. CASE hs[p].protocol = x.protocol
    <3>1. h = [hs[p] EXCEPT !.nsubs = hs[p].nsubs + 1] BY <1>2, <2>1 DEF Counted
    <3>2. hs[p].nsubs + 1 \in Nat BY <1>4
    <3>3. hs[p].func = x.func BY <1>2, <2>1 DEF Takes
    <3>4. h \in Handler /\ h.protocol = hs[p].protocol /\ h.func = hs[p].func
          /\ h.nsubs = hs[p].nsubs + 1
      BY <1>4, <3>1, <3>2 DEF Handler
    <3> QED BY <1>3, <2>1, <3>3, <3>4
  <2>2. CASE hs[p].protocol # x.protocol
    <3>1. hs[p].protocol = None /\ \A q \in Slots : hs[q].protocol # x.protocol
      BY <2>2 DEF Takes
    <3>2. h = [protocol |-> x.protocol, func |-> x.func, nsubs |-> 1]
      BY <3>1 DEF Counted
    <3>3. OfProtocol(B, a, x.protocol) = {} BY <3>1 DEF Handled, OfProtocol
    <3>4. Cardinality(OfProtocol(B, a, x.protocol)) = 0 BY <3>3, FS_EmptySet
    <3> QED BY <3>2, <3>4 DEF Handler
  <2> QED BY <2>1, <2>2
<1> HIDE DEF h
<1>6. /\ ht \in [Slots -> Handler] /\ ht[p] = h
      /\ \A q \in Slots : q # p => ht[q] = hs[q]
  BY <1>5 DEF h, OneTaken
<1>7. \A q \in Slots : q # p => hs[q].protocol # x.protocol
  BY <1>2 DEF Handled, Takes
<1>8. ASSUME NEW q \in Slots
      PROVE  /\ ht[q].nsubs = Cardinality(OfProtocol(C, a, ht[q].protocol))
             /\ ht[q].protocol = None <=> ht[q].nsubs = 0
  <2>1. CASE q = p
    <3>1. /\ Cardinality(OfProtocol(C, a, x.protocol))
               = Cardinality(OfProtocol(B, a, x.protocol)) + 1
          /\ Cardinality(OfProtocol(B, a, x.protocol)) \in Nat
      BY <1>1 DEF CountsWith
    <3> QED BY <1>2, <1>5, <1>6, <2>1, <3>1
  <2>2. CASE q # p
    <3>1. ht[q] = hs[q] /\ ht[q].protocol # x.protocol BY <1>6, <1>7, <2>2
    <3>2. /\ Cardinality(OfProtocol(C, a, ht[q].protocol))
               = Cardinality(OfProtocol(B, a, ht[q].protocol)) + 0
          /\ Cardinality(OfProtocol(B, a, ht[q].protocol)) \in Nat
      BY <1>1, <3>1 DEF CountsWith
    <3>3. Cardinality(OfProtocol(C, a, ht[q].protocol))
            = Cardinality(OfProtocol(B, a, ht[q].protocol))
      BY <3>2
    <3> QED BY <1>3, <3>1, <3>3
  <2> QED BY <2>1, <2>2
<1>9. ASSUME NEW q \in Slots, NEW l \in Slots, ht[q].protocol = ht[l].protocol,
             ht[q].protocol # None
      PROVE  q = l
  <2>1. CASE q = p BY <1>5, <1>6, <1>7, <1>9, <2>1
  <2>2. CASE l = p BY <1>5, <1>6, <1>7, <1>9, <2>2
  <2>3. CASE q # p /\ l # p BY <1>6, <1>9, <2>3 DEF Handled
  <2> QED BY <2>1, <2>2, <2>3
<1>10. ASSUME NEW s \in C, s.rs = a
       PROVE  \E q \in Slots : ht[q].protocol = s.protocol /\ ht[q].func = s.func
  <2>1. CASE s = x BY <1>5, <1>6, <2>1
  <2>2. CASE s # x
    <3>1. PICK q \in Slots : hs[q].protocol = s.protocol /\ hs[q].func = s.func
      BY <1>10, <2>2 DEF Handled
    <3>2. CASE q # p BY <1>6, <3>1, <3>2
    <3>3. CASE q = p
      <4>1. s \in OfProtocol(B, a, s.protocol) BY <1>10, <2>2 DEF OfProtocol
      <4>2. Cardinality(OfProtocol(B, a, s.protocol)) # 0 BY <1>1, <4>1 DEF CountsWith
      <4>3. hs[p].protocol # None BY <1>3, <3>1, <3>3, <4>2
      <4>4. hs[p].protocol = x.protocol /\ hs[p].func = x.func BY <4>3 DEF Takes
      <4> QED BY <1>5, <1>6, <3>1, <3>3, <4>4
    <3> QED BY <3>2, <3>3
  <2> QED BY <2>1, <2>2
<1>11. Handled(a, ht, C) BY <1>8, <1>9, <1>10 DEF Handled
<1> QED BY <1>6, <1>11

\* A handler is left with one subscription less, or is unused again.
SlotOf(hs, x) == Min({q \in Slots : hs[q].protocol = x.protocol})
LeftOf(hs, x) == hs[SlotOf(hs, x)].nsubs - 1
LessOf(hs, x) ==
  [hs EXCEPT ![SlotOf(hs, x)] = IF LeftOf(hs, x) = 0 /\ Multi THEN Unused
                                ELSE [@ EXCEPT !.nsubs = LeftOf(hs, x)]]

LEMMA HandleLess ==
  ASSUME Multi, NEW hs \in [Slots -> Handler], NEW a, NEW B, IsFiniteSet(B), NEW x \in B,
         x.rs = a, x.protocol \in Protocols, Handled(a, hs, B)
  PROVE  /\ LessOf(hs, x) \in [Slots -> Handler] /\ Handled(a, LessOf(hs, x), B \ {x})
         /\ LastOne(LessOf(hs, x)) => LeftOf(hs, x) = 0
<1> DEFINE C    == B \ {x}
           S    == {q \in Slots : hs[q].protocol = x.protocol}
           p    == Min(S)
           left == hs[p].nsubs - 1
           h    == IF left = 0 THEN Unused ELSE [hs[p] EXCEPT !.nsubs = left]
           ht   == LessOf(hs, x)
<1>0. /\ ht = [hs EXCEPT ![p] = h] /\ ht = LessOf(hs, x) /\ left = LeftOf(hs, x)
  BY DEF LessOf, LeftOf, SlotOf
<1>1. CountsWith(C, B, a, x)
  <2>1. IsFiniteSet(C) /\ B = C \cup {x} /\ x \notin C BY FS_Subset
  <2> HIDE DEF C
  <2> QED BY <2>1, OneMore
<1>2. x.protocol # None BY Sizes
<1>3. \A q \in Slots : /\ hs[q].nsubs = Cardinality(OfProtocol(B, a, hs[q].protocol))
                       /\ hs[q].protocol = None <=> hs[q].nsubs = 0
  BY DEF Handled
<1>4. p \in Slots /\ hs[p].protocol = x.protocol
  <2>1. S \in SUBSET Nat BY Sizes
  <2>2. S # {} BY DEF Handled
  <2>3. p \in S BY <2>1, <2>2, MinIs
  <2> QED BY <2>3
<1> HIDE DEF p, ht
<1>5. /\ hs[p] \in Handler /\ hs[p].nsubs \in Nat
      /\ hs[p].nsubs = Cardinality(OfProtocol(C, a, x.protocol)) + 1
      /\ Cardinality(OfProtocol(C, a, x.protocol)) \in Nat
  <2>1. hs[p] \in Handler /\ hs[p].nsubs \in Nat BY <1>4 DEF Handler
  <2>2. /\ Cardinality(OfProtocol(B, a, x.protocol))
             = Cardinality(OfProtocol(C, a, x.protocol)) + 1
        /\ Cardinality(OfProtocol(C, a, x.protocol)) \in Nat
    BY <1>1 DEF CountsWith
  <2> QED BY <1>3, <1>4, <2>1, <2>2
<1>6. left \in Nat /\ left = Cardinality(OfProtocol(C, a, x.protocol)) BY <1>5
<1> HIDE DEF left
<1>7. /\ h \in Handler /\ h.nsubs = left
      /\ IF left = 0 THEN h.protocol = None
         ELSE h.protocol = x.protocol /\ h.func = hs[p].func
  <2>1. CASE left = 0 BY <2>1 DEF Unused, Handler
  <2>2. CASE left # 0
    <3>1. h = [hs[p] EXCEPT !.nsubs = left] BY <2>2
    <3> QED BY <1>4, <1>5, <1>6, <2>2, <3>1 DEF Handler
  <2> QED BY <2>1, <2>2
<1> HIDE DEF h
<1>8. /\ ht \in [Slots -> Handler] /\ ht[p] = h
      /\ \A q \in Slots : q # p => ht[q] = hs[q]
  BY <1>0, <1>4, <1>7
<1>9. \A q \in Slots : q # p => hs[q].protocol # x.protocol BY <1>2, <1>4 DEF Handled
<1>10. OfProtocol(C, a, None) \subseteq OfProtocol(B, a, None) BY DEF OfProtocol
<1>11. ASSUME NEW q \in Slots
       PROVE  /\ ht[q].nsubs = Cardinality(OfProtocol(C, a, ht[q].protocol))
              /\ ht[q].protocol = None <=> ht[q].nsubs = 0
  <2>1. CASE q = p /\ left # 0 BY <1>2, <1>6, <1>7, <1>8, <2>1
  <2>2. CASE q = p /\ left = 0
    <3>1. ht[q].protocol = None /\ ht[q].nsubs = 0 BY <1>7, <1>8, <2>2
    <3>2. \A s \in C : s.rs = a => s.protocol # None
      <4>1. ASSUME NEW s \in C, s.rs = a, s.protocol = None PROVE FALSE
        <5>1. PICK k \in Slots : hs[k].protocol = None BY <4>1 DEF Handled
        <5>2. Cardinality(OfProtocol(B, a, None)) = 0 BY <1>3, <5>1
        <5>3. s \in OfProtocol(C, a, None) BY <4>1 DEF OfProtocol
        <5>4. /\ Cardinality(OfProtocol(B, a, None)) = Cardinality(OfProtocol(C, a, None)) + 0
              /\ Cardinality(OfProtocol(C, a, None)) \in Nat
          BY <1>1, <1>2 DEF CountsWith
        <5>5. Cardinality(OfProtocol(C, a, None)) = 0 BY <5>2, <5>4
        <5> QED BY <1>1, <5>3, <5>5 DEF CountsWith
      <4> QED BY <4>1
    <3>3. OfProtocol(C, a, None) = {} BY <3>2 DEF OfProtocol
    <3>4. Cardinality(OfProtocol(C, a, None)) = 0 BY <3>3, FS_EmptySet
    <3> QED BY <3>1, <3>4
  <2>3. CASE q # p
    <3>1. ht[q] = hs[q] /\ ht[q].protocol # x.protocol BY <1>8, <1>9, <2>3
    <3>2. /\ Cardinality(OfProtocol(B, a, ht[q].protocol))
               = Cardinality(OfProtocol(C, a, ht[q].protocol)) + 0
          /\ Cardinality(OfProtocol(C, a, ht[q].protocol)) \in Nat
      BY <1>1, <3>1 DEF CountsWith
    <3>3. Cardinality(OfProtocol(B, a, ht[q].protocol))
            = Cardinality(OfProtocol(C, a, ht[q].protocol))
      BY <3>2
    <3> QED BY <1>3, <3>1, <3>3
  <2> QED BY <2>1, <2>2, <2>3
<1>12. ASSUME NEW q \in Slots, NEW l \in Slots, ht[q].protocol = ht[l].protocol,
              ht[q].protocol # None
       PROVE  q = l
  <2>1. CASE q = p BY <1>7, <1>8, <1>9, <1>12, <2>1
  <2>2. CASE l = p BY <1>7, <1>8, <1>9, <1>12, <2>2
  <2>3. CASE q # p /\ l # p BY <1>8, <1>12, <2>3 DEF Handled
  <2> QED BY <2>1, <2>2, <2>3
<1>13. ASSUME NEW s \in C, s.rs = a
       PROVE  \E q \in Slots : ht[q].protocol = s.protocol /\ ht[q].func = s.func
  <2>1. PICK q \in Slots : hs[q].protocol = s.protocol /\ hs[q].func = s.func
    BY <1>13 DEF Handled
  <2>2. CASE q # p BY <1>8, <2>1, <2>2
  <2>3. CASE q = p
    <3>1. s \in OfProtocol(C, a, x.protocol) BY <1>4, <1>13, <2>1, <2>3 DEF OfProtocol
    <3>2. left # 0 BY <1>1, <1>6, <3>1 DEF CountsWith
    <3> QED BY <1>4, <1>7, <1>8, <2>1, <2>3, <3>2
  <2> QED BY <2>2, <2>3
<1>14. Handled(a, ht, C) BY <1>11, <1>12, <1>13 DEF Handled
<1>15. LastOne(ht) => left = 0 BY <1>4, <1>7, <1>8 DEF LastOne
<1> QED BY <1>0, <1>8, <1>14, <1>15

\* The socket is left without subscriptions when its handlers are all unused.
LEMMA LastIs ==
  ASSUME NEW a, NEW hs, NEW C, IsFiniteSet(C), Handled(a, hs, C)
  PROVE  LastOne(hs) <=> \A s \in C : s.rs # a
<1>1. ASSUME LastOne(hs), NEW s \in C, s.rs = a PROVE FALSE
  <2>1. PICK p \in Slots : hs[p].protocol = s.protocol BY <1>1 DEF Handled
  <2>2. OfProtocol(C, a, s.protocol) \subseteq C /\ s \in OfProtocol(C, a, s.protocol)
    BY <1>1 DEF OfProtocol
  <2>3. Cardinality(OfProtocol(C, a, s.protocol)) # 0 BY <2>2, CountIs
  <2>4. hs[p].nsubs # 0 BY <2>1, <2>3 DEF Handled
  <2> QED BY <1>1, <2>4 DEF LastOne
<1>2. ASSUME \A s \in C : s.rs # a, NEW p \in Slots PROVE hs[p].nsubs = 0
  <2>1. OfProtocol(C, a, hs[p].protocol) = {} BY <1>2 DEF OfProtocol
  <2>2. Cardinality(OfProtocol(C, a, hs[p].protocol)) = 0 BY <2>1, FS_EmptySet
  <2> QED BY <2>2 DEF Handled
<1> QED BY <1>1, <1>2 DEF LastOne

-----------------------------------------------------------------------------
(***************************************************************************)
(* A step concerns the socket of one port; the others have descriptors of  *)
(* their own.                                                              *)
(***************************************************************************)
LEMMA Elsewhere ==
  ASSUME NEW sk, NEW gs, NEW op, GroupsOK(sk, gs, op), NEW op2,
         \A fd \in Sks(sk, gs) : fd \in DOMAIN op2 /\ op2[fd] = op[fd]
  PROVE  GroupsOK(sk, gs, op2)
<1>1. sk \in Sks(sk, gs) /\ \A j \in DOMAIN gs : gs[j].sk \in Sks(sk, gs) BY DEF Sks
<1>2. sk \in DOMAIN op2 /\ op2[sk] = op[sk] BY <1>1
<1>3. \A j \in DOMAIN gs : gs[j].sk \in DOMAIN op2 /\ op2[gs[j].sk] = op[gs[j].sk]
  BY <1>1
<1> QED BY <1>2, <1>3 DEF GroupsOK

MySks(socks, a) ==
  IF a \in DOMAIN socks THEN Sks(socks[a].sk, socks[a].groups) ELSE {}

LEMMA OneSocket ==
  ASSUME RlpInv, NEW a, NEW x, x.rs = a,
         \/ x \notin subs /\ subs' = subs \cup {x}
         \/ x \in subs /\ subs' = subs \ {x},
         subs' \subseteq Sub, DOMAIN rlpsocks' = {s.rs : s \in subs'},
         rlpsocks' \in [DOMAIN rlpsocks' -> Socket],
         \A b \in DOMAIN rlpsocks \cup DOMAIN rlpsocks' :
           b # a => b \in DOMAIN rlpsocks /\ b \in DOMAIN rlpsocks' /\ rlpsocks'[b] = rlpsocks[b],
         a \in DOMAIN rlpsocks' => SocketIs(a, rlpsocks'[a], open', polled', subs'),
         open' \in [DOMAIN open' -> SUBSET Groups], failed' = FALSE,
         MySks(rlpsocks', a) \subseteq DOMAIN open',
         MySks(rlpsocks', a) \cap (DOMAIN open \ MySks(rlpsocks, a)) = {},
         DOMAIN open \ MySks(rlpsocks, a) = DOMAIN open' \ MySks(rlpsocks', a),
         \A fd \in DOMAIN open \ MySks(rlpsocks, a) :
           open'[fd] = open[fd] /\ (fd \in polled => fd \in polled')
  PROVE  RlpInv'
<1> DEFINE Mine == MySks(rlpsocks, a)
           Now  == MySks(rlpsocks', a)
           S(b) == Sks(rlpsocks[b].sk, rlpsocks[b].groups)
           T(b) == Sks(rlpsocks'[b].sk, rlpsocks'[b].groups)
<1>1. IsFiniteSet(subs) /\ IsFiniteSet(subs') BY FS_AddElement, FS_Subset DEF RlpInv, RlpTypes
<1>2. \A b \in DOMAIN rlpsocks' : b # a => b \in DOMAIN rlpsocks /\ rlpsocks'[b] = rlpsocks[b]
  OBVIOUS
<1>3. \A b \in DOMAIN rlpsocks : b # a => b \in DOMAIN rlpsocks' /\ rlpsocks'[b] = rlpsocks[b]
  OBVIOUS
<1>4. RlpTypes'
  <2>1. DOMAIN rlpsocks' \subseteq Ports BY DEF Sub
  <2> QED BY <1>1, <2>1 DEF RlpTypes
<1>5. ASSUME NEW b \in DOMAIN rlpsocks, b # a
      PROVE  S(b) \subseteq DOMAIN open \ Mine /\ S(b) \subseteq DOMAIN open' \ Now
  <2>1. S(b) \subseteq DOMAIN open BY DEF RlpInv, Owners
  <2>2. a \in DOMAIN rlpsocks => S(a) \cap S(b) = {} BY <1>5 DEF RlpInv, Owners
  <2>3. Mine = IF a \in DOMAIN rlpsocks THEN S(a) ELSE {} BY DEF MySks
  <2>4. S(b) \subseteq DOMAIN open \ Mine BY <2>1, <2>2, <2>3
  <2> QED BY <2>4
<1>6. ASSUME NEW b \in DOMAIN rlpsocks' PROVE SocketOK(b)'
  <2>1. CASE b = a BY <2>1 DEF SocketOK
  <2>2. CASE b # a
    <3>1. b \in DOMAIN rlpsocks /\ rlpsocks'[b] = rlpsocks[b] BY <1>2, <2>2
    <3> DEFINE rs == rlpsocks[b]
    <3>2. /\ GroupsOK(rs.sk, rs.groups, open) /\ Tallied(b, rs.groups, subs)
          /\ Handled(b, rs.handlers, subs) /\ rs.sk \in polled
      BY <3>1 DEF RlpInv, SocketOK, SocketIs
    <3>3. rs \in Socket BY <3>1 DEF RlpInv, RlpTypes
    <3>4. rs.groups \in Seq(SkGroup) BY <3>3 DEF Socket
    <3>5. S(b) \subseteq DOMAIN open \ Mine /\ S(b) \subseteq DOMAIN open' \ Now
      BY <1>5, <2>2, <3>1
    <3>6. \A fd \in Sks(rs.sk, rs.groups) : fd \in DOMAIN open' /\ open'[fd] = open[fd]
      BY <3>5
    <3>7. rs.sk \in S(b) BY DEF Sks
    <3>8. rs.sk \in polled' BY <3>2, <3>5, <3>7
    <3> HIDE DEF rs
    <3>9. GroupsOK(rs.sk, rs.groups, open') BY <3>2, <3>6, Elsewhere
    <3>10. Tallied(b, rs.groups, subs') /\ Handled(b, rs.handlers, subs')
      <4>1. CASE x \notin subs /\ subs' = subs \cup {x}
        <5>1. Tallied(b, rs.groups, subs \cup {x}) BY <1>1, <2>2, <3>2, <3>4, <4>1, TallyStays
        <5>2. Handled(b, rs.handlers, subs \cup {x}) BY <1>1, <2>2, <3>2, <4>1, HandledStays
        <5> QED BY <4>1, <5>1, <5>2
      <4>2. CASE x \in subs /\ subs' = subs \ {x}
        <5>1. x \notin subs' /\ subs' \cup {x} = subs BY <4>2
        <5>2. Tallied(b, rs.groups, subs' \cup {x}) <=> Tallied(b, rs.groups, subs')
          BY <1>1, <2>2, <3>4, <5>1, TallyStays
        <5>3. Handled(b, rs.handlers, subs' \cup {x}) <=> Handled(b, rs.handlers, subs')
          BY <1>1, <2>2, <5>1, HandledStays
        <5> QED BY <3>2, <5>1, <5>2, <5>3
      <4> QED BY <4>1, <4>2
    <3>11. SocketIs(b, rs, open', polled', subs') BY <3>8, <3>9, <3>10 DEF SocketIs
    <3> QED BY <3>1, <3>11 DEF SocketOK, rs
  <2> QED BY <2>1, <2>2
<1>7. ASSUME NEW b \in DOMAIN rlpsocks', NEW c \in DOMAIN rlpsocks', b # c
      PROVE  T(b) \cap T(c) = {}
  <2>0. a \in DOMAIN rlpsocks' => T(a) = Now BY DEF MySks
  <2>1. CASE b = a
    <3>1. T(c) = S(c) /\ c \in DOMAIN rlpsocks /\ c # a BY <1>2, <1>7, <2>1
    <3>2. S(c) \subseteq DOMAIN open' \ Now BY <1>5, <3>1
    <3> QED BY <2>0, <2>1, <3>1, <3>2
  <2>2. CASE c = a
    <3>1. T(b) = S(b) /\ b \in DOMAIN rlpsocks /\ b # a BY <1>2, <1>7, <2>2
    <3>2. S(b) \subseteq DOMAIN open' \ Now BY <1>5, <3>1
    <3> QED BY <2>0, <2>2, <3>1, <3>2
  <2>3. CASE b # a /\ c # a
    <3>1. T(b) = S(b) /\ T(c) = S(c) /\ b \in DOMAIN rlpsocks /\ c \in DOMAIN rlpsocks
      BY <1>2, <2>3
    <3> QED BY <1>7, <3>1 DEF RlpInv, Owners
  <2> QED BY <2>1, <2>2, <2>3
<1>8. DOMAIN open' = UNION {T(b) : b \in DOMAIN rlpsocks'}
  <2>1. ASSUME NEW fd \in DOMAIN open' PROVE \E b \in DOMAIN rlpsocks' : fd \in T(b)
    <3>1. CASE fd \in Now
      <4>1. a \in DOMAIN rlpsocks' /\ fd \in T(a) BY <3>1 DEF MySks
      <4> QED BY <4>1
    <3>2. CASE fd \notin Now
      <4>1. fd \in DOMAIN open /\ fd \notin Mine BY <3>2
      <4>2. PICK b \in DOMAIN rlpsocks : fd \in S(b) BY <4>1 DEF RlpInv, Owners
      <4>3. b # a BY <4>1, <4>2 DEF MySks
      <4> QED BY <1>3, <4>2, <4>3
    <3> QED BY <3>1, <3>2
  <2>2. ASSUME NEW b \in DOMAIN rlpsocks' PROVE T(b) \subseteq DOMAIN open'
    <3>1. CASE b = a BY <3>1 DEF MySks
    <3>2. CASE b # a
      <4>1. T(b) = S(b) /\ b \in DOMAIN rlpsocks BY <1>2, <3>2
      <4> QED BY <1>5, <3>2, <4>1
    <3> QED BY <3>1, <3>2
  <2> DEFINE U == {T(b) : b \in DOMAIN rlpsocks'}
  <2>3. \A V \in U : V \subseteq DOMAIN open' BY <2>2
  <2>4. \A fd \in DOMAIN open' : \E V \in U : fd \in V BY <2>1
  <2> HIDE DEF U
  <2>5. DOMAIN open' = UNION U BY <2>3, <2>4
  <2> QED BY <2>5 DEF U
<1>9. Owners' BY <1>7, <1>8 DEF Owners
<1> QED BY <1>4, <1>6, <1>9 DEF RlpInv

-----------------------------------------------------------------------------
(***************************************************************************)
(* rlpSubscribe.                                                           *)
(***************************************************************************)
LEMMA HoldIs ==
  ASSUME RlpTypes, NEW a \in Ports, NEW g \in Groups \cup {ANY}, NEW prot \in Protocols,
         NEW cb \in Callbacks, Hold(a, g, prot, cb)
  PROVE  \E x \in Sub : /\ x \notin subs /\ subs' = subs \cup {x} /\ x.rs = a
                        /\ x.group = g /\ x.protocol = prot /\ x.func = cb
<1> DEFINE new(n) == [rs |-> a, group |-> g, protocol |-> prot, func |-> cb, n |-> n]
<1>1. PICK n \in 1 .. MaxSubs : new(n) \notin subs /\ subs' = subs \cup {new(n)}
  BY DEF Hold
<1>2. new(n) \in Sub BY DEF Sub
<1> QED BY <1>1, <1>2

LEMMA FreeIs ==
  ASSUME NEW used, Fds \ used # {}
  PROVE  Free(Fds, used) \in Fds \ used
<1>1. Fds \ used \in SUBSET Nat BY Sizes DEF Fds
<1> QED BY <1>1, MinIs DEF Free

LEMMA OpenFds ==
  ASSUME RlpInv
  PROVE  DOMAIN open \subseteq Fds
<1>1. ASSUME NEW b \in DOMAIN rlpsocks
      PROVE  Sks(rlpsocks[b].sk, rlpsocks[b].groups) \subseteq Fds
  <2>1. rlpsocks[b] \in Socket BY DEF RlpInv, RlpTypes
  <2>2. rlpsocks[b].sk \in Fds /\ rlpsocks[b].groups \in Seq(SkGroup) BY <2>1 DEF Socket
  <2>3. \A j \in DOMAIN rlpsocks[b].groups : rlpsocks[b].groups[j] \in SkGroup BY <2>2
  <2> QED BY <2>2, <2>3 DEF Sks, SkGroup
<1> QED BY <1>1 DEF RlpInv, Owners

LEMMA NoGroups ==
  ASSUME NEW sk, NEW op, NEW op1, op1 = entered(op, sk, {}),
         op \in [DOMAIN op -> SUBSET Groups]
  PROVE  /\ op1 \in [DOMAIN op1 -> SUBSET Groups] /\ DOMAIN op1 = DOMAIN op \cup {sk}
         /\ \A fd \in DOMAIN op : fd # sk => op1[fd] = op[fd]
         /\ GroupsOK(sk, <<>>, op1) /\ Sks(sk, <<>>) = {sk}
<1>1. /\ DOMAIN op1 = DOMAIN op \cup {sk} /\ op1[sk] = {}
      /\ \A fd \in DOMAIN op : fd # sk => op1[fd] = op[fd]
  BY DEF entered
<1>2. op1 \in [DOMAIN op1 -> SUBSET Groups]
  <2>1. \A fd \in DOMAIN op1 : op1[fd] \in SUBSET Groups BY <1>1
  <2>2. op1 = [fd \in DOMAIN op1 |-> op1[fd]] BY <1>1 DEF entered
  <2> QED BY <2>1, <2>2
<1>3. GroupsOK(sk, <<>>, op1) BY <1>1 DEF GroupsOK
<1>4. Sks(sk, <<>>) = {sk} BY DEF Sks
<1> QED BY <1>1, <1>2, <1>3, <1>4

LEMMA NewTally ==
  ASSUME NEW a, NEW B, \A s \in B : s.rs # a
  PROVE  Tallied(a, <<>>, B)
  BY DEF Tallied, At

NoneTaken == [p \in Slots |-> Unused]

LEMMA HandleFirst ==
  ASSUME Multi, NEW a, NEW B, IsFiniteSet(B), \A s \in B : s.rs # a,
         NEW x, x \notin B, x.rs = a, x.protocol \in Protocols, x.func \in Callbacks,
         NEW p \in Slots, NEW C, C = B \cup {x}, NEW ht,
         OneTaken(NoneTaken, p, x.protocol, x.func, ht)
  PROVE  ht \in [Slots -> Handler] /\ Handled(a, ht, C)
<1>1. Handled(a, NoneTaken, B) BY NoneHandled DEF NoneTaken
<1>2. NoneTaken \in [Slots -> Handler] /\ \A q \in Slots : NoneTaken[q].protocol = None
  BY DEF NoneTaken, Unused, Handler
<1>3. Takes(NoneTaken, p, x.protocol, x.func) BY <1>2, Sizes DEF Takes
<1> QED BY <1>1, <1>2, <1>3, HandleMore

LEMMA StepNew ==
  ASSUME Multi, RlpInv, NEW port \in {EPHEM} \cup Ports, NEW g \in Groups \cup {ANY},
         NEW prot \in Protocols, NEW cb \in Callbacks, NEW fail,
         Fds \ DOMAIN open # {}, Fds \ DOMAIN rlpsocks # {},
         NewSocket(port, g, prot, cb, fail)
  PROVE  RlpInv'
<1> DEFINE a   == IF port = EPHEM THEN Free(Fds, DOMAIN rlpsocks) ELSE port
           fd  == Free(Fds, DOMAIN open)
           op1 == entered(open, fd, {})
           r   == IF g = ANY THEN [ok |-> TRUE, groups |-> <<>>, open |-> op1]
                  ELSE addgroup(fd, <<>>, op1, g, fail)
           hs  == [p \in Slots |-> IF p = 1 THEN Counted(Unused, prot, cb) ELSE Unused]
           rs  == [sk |-> fd, groups |-> r.groups, handlers |-> hs]
           Done == /\ r.ok /\ rlpsocks' = entered(rlpsocks, a, rs) /\ open' = r.open
                   /\ polled' = polled \cup {fd} /\ Hold(a, g, prot, cb)
<1>1. UNCHANGED <<rlpsocks, open, polled, subs>> \/ Done
  BY DEF NewSocket
<1>2. failed' = failed /\ (port = EPHEM \/ findrlsk(port) = {}) BY DEF NewSocket
<1>3. CASE UNCHANGED <<rlpsocks, open, polled, subs>>
  BY <1>2, <1>3 DEF RlpInv, RlpTypes, Owners, SocketOK
<1>4. CASE Done
  <2>1. a \in Ports /\ a \notin DOMAIN rlpsocks
    <3>1. Free(Fds, DOMAIN rlpsocks) \in Fds \ DOMAIN rlpsocks BY FreeIs
    <3> QED BY <1>2, <3>1 DEF Ports, findrlsk
  <2>2. fd \in Fds \ DOMAIN open BY FreeIs
  <2>3. RlpTypes /\ Owners BY DEF RlpInv
  <2>4. open \in [DOMAIN open -> SUBSET Groups] /\ subs \subseteq Sub /\ IsFiniteSet(subs)
        /\ rlpsocks \in [DOMAIN rlpsocks -> Socket]
    BY <2>3 DEF RlpTypes
  <2>5. \A s \in subs : s.rs # a BY <2>1, <2>3 DEF Owners
  <2> HIDE DEF a, fd
  <2>6. /\ op1 \in [DOMAIN op1 -> SUBSET Groups] /\ DOMAIN op1 = DOMAIN open \cup {fd}
        /\ \A f \in DOMAIN open : f # fd => op1[f] = open[f]
        /\ GroupsOK(fd, <<>>, op1) /\ Sks(fd, <<>>) = {fd}
    BY <2>4, NoGroups
  <2>7. PICK x \in Sub : /\ x \notin subs /\ subs' = subs \cup {x} /\ x.rs = a
                         /\ x.group = g /\ x.protocol = prot /\ x.func = cb
    BY <1>4, <2>1, <2>3, HoldIs
  <2>8. DOMAIN open \subseteq Fds BY OpenFds
  <2> HIDE DEF op1
  <2>9. <<>> \in Seq(SkGroup) /\ Tallied(a, <<>>, subs) BY <2>5, NewTally
  <2>10. /\ r.groups \in Seq(SkGroup) /\ r.open \in [DOMAIN r.open -> SUBSET Groups]
         /\ GroupsOK(fd, r.groups, r.open) /\ DOMAIN op1 \subseteq DOMAIN r.open
         /\ Sks(fd, r.groups) = {fd} \cup (DOMAIN r.open \ DOMAIN op1)
         /\ \A f \in DOMAIN op1 : f # fd => r.open[f] = op1[f]
         /\ Tallied(a, r.groups, subs')
    <3>1. CASE g = ANY
      <4>1. r.groups = <<>> /\ r.open = op1 BY <3>1
      <4>2. Tallied(a, <<>>, subs') BY <2>4, <2>7, <2>9, <3>1, TallyStays
      <4> HIDE DEF r
      <4> QED BY <2>6, <2>9, <4>1, <4>2
    <3>2. CASE g # ANY
      <4>1. r = addgroup(fd, <<>>, op1, g, fail) /\ g \in Groups BY <3>2
      <4>2. r.ok BY <1>4
      <4> HIDE DEF r
      <4>3. DOMAIN op1 \subseteq Fds BY <2>2, <2>6, <2>8
      <4>4. Added(fd, <<>>, op1, g, r) BY <2>6, <2>9, <4>1, <4>2, <4>3, AddGroup
      <4>5. Tallied(a, r.groups, subs')
        <5>1. Grown(<<>>, r.groups, g) /\ r.groups \in Seq(SkGroup) BY <4>4 DEF Added
        <5> QED BY <2>4, <2>7, <2>9, <4>1, <5>1, TallyGrows
      <4> QED BY <2>6, <4>4, <4>5 DEF Added
    <3> QED BY <3>1, <3>2
  <2>11. r.open = open' /\ polled' = polled \cup {fd} /\ rlpsocks' = entered(rlpsocks, a, rs)
    BY <1>4
  <2> HIDE DEF r
  <2>12. hs \in [Slots -> Handler] /\ Handled(a, hs, subs')
    <3>1. 1 \in Slots /\ OneTaken(NoneTaken, 1, x.protocol, x.func, hs)
      BY <2>7, Sizes DEF OneTaken, NoneTaken
    <3>2. x.rs = a /\ x.protocol \in Protocols /\ x.func \in Callbacks /\ x \notin subs
      BY <2>7
    <3> HIDE DEF hs
    <3> QED BY <2>4, <2>5, <2>7, <3>1, <3>2, HandleFirst
  <2> HIDE DEF hs
  <2>13. rs \in Socket BY <2>2, <2>10, <2>12 DEF Socket
  <2>14. SocketIs(a, rs, open', polled', subs')
    BY <2>10, <2>11, <2>12 DEF SocketIs
  <2>15. rs.sk = fd /\ rs.groups = r.groups OBVIOUS
  <2> HIDE DEF rs
  <2>16. /\ DOMAIN rlpsocks' = DOMAIN rlpsocks \cup {a} /\ rlpsocks'[a] = rs
         /\ \A b \in DOMAIN rlpsocks : b # a => rlpsocks'[b] = rlpsocks[b]
    BY <2>11 DEF entered
  <2>17. rlpsocks' \in [DOMAIN rlpsocks' -> Socket]
    <3>1. \A b \in DOMAIN rlpsocks' : rlpsocks'[b] \in Socket BY <2>4, <2>13, <2>16
    <3>2. rlpsocks' = [b \in DOMAIN rlpsocks' |-> rlpsocks'[b]] BY <2>11, <2>16 DEF entered
    <3> QED BY <3>1, <3>2
  <2>18. DOMAIN rlpsocks' = {s.rs : s \in subs'} BY <2>3, <2>7, <2>16 DEF Owners
  <2>19. MySks(rlpsocks, a) = {} /\ MySks(rlpsocks', a) = Sks(fd, r.groups)
    BY <2>1, <2>15, <2>16 DEF MySks
  <2>20. /\ MySks(rlpsocks', a) \subseteq DOMAIN open'
         /\ MySks(rlpsocks', a) \cap (DOMAIN open \ MySks(rlpsocks, a)) = {}
         /\ DOMAIN open \ MySks(rlpsocks, a) = DOMAIN open' \ MySks(rlpsocks', a)
    <3>1. /\ MySks(rlpsocks', a) = {fd} \cup (DOMAIN open' \ (DOMAIN open \cup {fd}))
          /\ DOMAIN open \cup {fd} \subseteq DOMAIN open' /\ fd \notin DOMAIN open
      BY <2>2, <2>6, <2>10, <2>11, <2>19
    <3> HIDE DEF a
    <3> QED BY <2>19, <3>1
  <2>21. \A f \in DOMAIN open \ MySks(rlpsocks, a) :
           open'[f] = open[f] /\ (f \in polled => f \in polled')
    BY <2>2, <2>6, <2>10, <2>11
  <2>22. open' \in [DOMAIN open' -> SUBSET Groups] /\ subs' \subseteq Sub /\ failed' = FALSE
    BY <1>2, <2>3, <2>4, <2>7, <2>10, <2>11 DEF RlpTypes
  <2> QED
    BY <2>7, <2>14, <2>16, <2>17, <2>18, <2>20, <2>21, <2>22, OneSocket
<1> QED BY <1>1, <1>3, <1>4


LEMMA StepPolled ==
  ASSUME RlpInv, UNCHANGED <<rlpsocks, open, subs, failed>>, polled' = polled \cap DOMAIN open
  PROVE  RlpInv'
<1>1. ASSUME NEW a \in DOMAIN rlpsocks' PROVE SocketOK(a)'
  <2>1. SocketIs(a, rlpsocks[a], open, polled, subs) BY <1>1 DEF RlpInv, SocketOK
  <2>2. rlpsocks[a].sk \in DOMAIN open BY <2>1 DEF SocketIs, GroupsOK
  <2>3. SocketIs(a, rlpsocks[a], open, polled', subs) BY <2>1, <2>2 DEF SocketIs
  <2> QED BY <2>3 DEF SocketOK
<1>2. RlpTypes' /\ Owners' BY DEF RlpInv, RlpTypes, Owners
<1> QED BY <1>1, <1>2 DEF RlpInv

\* The slot HandlerFor finds.
LEMMA HandlerIs ==
  ASSUME NEW hs, NEW prot, NEW cb, HandlerFor(hs, prot, cb) # {}
  PROVE  LET p == Min(HandlerFor(hs, prot, cb)) IN p \in Slots /\ Takes(hs, p, prot, cb)
<1> DEFINE ps     == HandlerFor(hs, prot, cb)
           p      == Min(ps)
           same   == {q \in Slots : hs[q].protocol = prot}
           unused == {q \in Slots : hs[q].protocol = None}
<1>1. CASE same # {}
  <2>1. ps = {q \in same : hs[q].func = cb} BY <1>1 DEF HandlerFor
  <2>2. ps \in SUBSET Nat BY <2>1, Sizes
  <2>3. p \in ps BY <2>2, MinIs
  <2> QED BY <2>1, <2>3 DEF Takes
<1>2. CASE same = {}
  <2>1. unused # {} /\ ps = {Max(unused)} BY <1>2 DEF HandlerFor
  <2>2. unused \in SUBSET (0 .. Cardinality(Protocols)) BY Sizes DEF Slots
  <2>3. Max(unused) \in unused BY <2>1, <2>2, Sizes, MaxIs
  <2>4. ps \in SUBSET Nat /\ ps # {} BY <2>1, <2>3, Sizes
  <2>5. p \in ps BY <2>4, MinIs
  <2> QED BY <1>2, <2>1, <2>3, <2>5 DEF Takes
<1> QED BY <1>1, <1>2

LEMMA StepShared ==
  ASSUME Multi, SpareMain, RlpInv, NEW port \in Ports \cup {EPHEM}, NEW g \in Groups \cup {ANY},
         NEW prot \in Protocols, NEW cb \in Callbacks, NEW fail,
         Fds \ DOMAIN open # {}, SharedSocket(port, g, prot, cb, fail)
  PROVE  RlpInv'
<1>1. PICK a \in findrlsk(port) :
        LET rs == rlpsocks[a]
            ps == HandlerFor(rs.handlers, prot, cb)
            p  == Min(ps)
            r  == IF g = ANY THEN [ok |-> TRUE, groups |-> rs.groups, open |-> open]
                  ELSE addgroup(rs.sk, rs.groups, open, g, fail)
        IN  /\ SpareMain /\ rs.groups = <<>> => "addMembership" \notin fail
            /\ open' = IF ps = {} THEN open ELSE r.open
            /\ polled' = polled \cap DOMAIN open'
            /\ IF ps = {} \/ ~r.ok THEN UNCHANGED <<rlpsocks, subs>>
               ELSE /\ rlpsocks' = [rlpsocks EXCEPT ![a].groups = r.groups,
                                      ![a].handlers[p] = Counted(@, prot, cb)]
                    /\ Hold(a, g, prot, cb)
  BY DEF SharedSocket
<1>2. failed' = failed BY DEF SharedSocket
<1>3. a \in DOMAIN rlpsocks /\ a \in Ports BY DEF findrlsk, RlpInv, RlpTypes
<1> DEFINE rs == rlpsocks[a]
           ps == HandlerFor(rs.handlers, prot, cb)
           p  == Min(ps)
           r  == IF g = ANY THEN [ok |-> TRUE, groups |-> rs.groups, open |-> open]
                 ELSE addgroup(rs.sk, rs.groups, open, g, fail)
           hs == [rs.handlers EXCEPT ![p] = Counted(rs.handlers[p], prot, cb)]
           Done == /\ rlpsocks' = [rlpsocks EXCEPT ![a].groups = r.groups,
                                     ![a].handlers[p] = Counted(@, prot, cb)]
                   /\ Hold(a, g, prot, cb)
<1>4. /\ rs.groups = <<>> => "addMembership" \notin fail
      /\ open' = IF ps = {} THEN open ELSE r.open
      /\ polled' = polled \cap DOMAIN open'
      /\ IF ps = {} \/ ~r.ok THEN UNCHANGED <<rlpsocks, subs>> ELSE Done
  BY <1>1
<1>5. /\ rs \in Socket /\ RlpTypes /\ Owners /\ open \in [DOMAIN open -> SUBSET Groups]
      /\ subs \subseteq Sub /\ IsFiniteSet(subs) /\ SocketIs(a, rs, open, polled, subs)
      /\ rlpsocks \in [DOMAIN rlpsocks -> Socket]
  BY <1>3 DEF RlpInv, RlpTypes, SocketOK
<1>6. /\ GroupsOK(rs.sk, rs.groups, open) /\ Tallied(a, rs.groups, subs)
      /\ Handled(a, rs.handlers, subs) /\ rs.sk \in polled
  BY <1>5 DEF SocketIs
<1>7. rs.sk \in Fds /\ rs.groups \in Seq(SkGroup) /\ rs.handlers \in [Slots -> Handler]
  BY <1>5 DEF Socket
<1>8. DOMAIN open \subseteq Fds BY OpenFds
<1> HIDE DEF rs
<1>9. g # ANY => /\ r.ok => Added(rs.sk, rs.groups, open, g, r)
                 /\ ~ r.ok => r.open = open
  <2> SUFFICES ASSUME g # ANY
               PROVE  (r.ok => Added(rs.sk, rs.groups, open, g, r)) /\ (~ r.ok => r.open = open)
    OBVIOUS
  <2>1. r = addgroup(rs.sk, rs.groups, open, g, fail) /\ g \in Groups OBVIOUS
  <2> HIDE DEF r
  <2> QED BY <1>4, <1>5, <1>6, <1>7, <1>8, <2>1, AddGroup
<1>10. CASE ps = {} \/ ~ r.ok
  <2>1. open' = open
    <3>1. CASE ps = {} BY <1>4, <3>1
    <3>2. CASE ps # {} /\ ~ r.ok
      <4>1. g # ANY BY <3>2
      <4>2. r.open = open BY <1>9, <3>2, <4>1
      <4> QED BY <1>4, <3>2, <4>2
    <3> QED BY <1>10, <3>1, <3>2
  <2>2. UNCHANGED <<rlpsocks, subs>> BY <1>4, <1>10
  <2>3. polled' = polled \cap DOMAIN open BY <1>4, <2>1
  <2> QED BY <1>2, <2>1, <2>2, <2>3, StepPolled
<1>11. CASE ps # {} /\ r.ok
  <2>1. open' = r.open /\ polled' = polled \cap DOMAIN open' /\ Done BY <1>4, <1>11
  <2>2. PICK x \in Sub : /\ x \notin subs /\ subs' = subs \cup {x} /\ x.rs = a
                         /\ x.group = g /\ x.protocol = prot /\ x.func = cb
    BY <1>3, <1>5, <2>1, HoldIs
  <2>3. p \in Slots /\ Takes(rs.handlers, p, prot, cb)
    BY <1>11, HandlerIs
  <2>4. /\ r.groups \in Seq(SkGroup) /\ r.open \in [DOMAIN r.open -> SUBSET Groups]
        /\ GroupsOK(rs.sk, r.groups, r.open) /\ DOMAIN open \subseteq DOMAIN r.open
        /\ Sks(rs.sk, r.groups) = Sks(rs.sk, rs.groups) \cup (DOMAIN r.open \ DOMAIN open)
        /\ \A f \in DOMAIN open : f \notin Sks(rs.sk, rs.groups) => r.open[f] = open[f]
        /\ Tallied(a, r.groups, subs')
    <3>1. CASE g = ANY
      <4>1. r.groups = rs.groups /\ r.open = open BY <3>1
      <4>2. Tallied(a, rs.groups, subs') BY <1>5, <1>6, <1>7, <2>2, <3>1, TallyStays
      <4> HIDE DEF r
      <4> QED BY <1>5, <1>6, <1>7, <4>1, <4>2
    <3>2. CASE g # ANY
      <4>1. Added(rs.sk, rs.groups, open, g, r) /\ g \in Groups BY <1>9, <1>11, <3>2
      <4> HIDE DEF r
      <4>2. Tallied(a, r.groups, subs')
        <5>1. Grown(rs.groups, r.groups, g) /\ r.groups \in Seq(SkGroup) BY <4>1 DEF Added
        <5> QED BY <1>5, <1>6, <1>7, <2>2, <4>1, <5>1, TallyGrows
      <4> QED BY <4>1, <4>2 DEF Added
    <3> QED BY <3>1, <3>2
  <2> HIDE DEF r, p
  <2>5. hs \in [Slots -> Handler] /\ Handled(a, hs, subs')
    <3>1. Takes(rs.handlers, p, x.protocol, x.func)
      BY <2>2, <2>3
    <3>2. OneTaken(rs.handlers, p, x.protocol, x.func, hs) BY <2>2 DEF OneTaken
    <3>3. x.rs = a /\ x.protocol \in Protocols /\ x.func \in Callbacks /\ x \notin subs
      BY <2>2
    <3>4. IsFiniteSet(subs) /\ rs.handlers \in [Slots -> Handler]
          /\ Handled(a, rs.handlers, subs)
      BY <1>5, <1>6, <1>7
    <3>5. subs' = subs \cup {x} BY <2>2
    <3> HIDE DEF hs
    <3> QED BY <2>3, <3>1, <3>2, <3>3, <3>4, <3>5, HandleMore
  <2> DEFINE rt == [rs EXCEPT !.groups = r.groups, !.handlers = hs]
  <2>6. rlpsocks' = [rlpsocks EXCEPT ![a] = rt] BY <1>3, <1>5, <2>1 DEF rs
  <2> HIDE DEF hs
  <2>7. rt \in Socket /\ rt.sk = rs.sk /\ rt.groups = r.groups /\ rt.handlers = hs
    BY <1>5, <2>4, <2>5 DEF Socket
  <2> HIDE DEF rt
  <2>8. rt.sk \in polled'
    <3>1. rs.sk \in DOMAIN open BY <1>6 DEF GroupsOK
    <3> QED BY <1>6, <2>1, <2>4, <2>7, <3>1
  <2>9. SocketIs(a, rt, open', polled', subs')
    BY <2>1, <2>4, <2>5, <2>7, <2>8 DEF SocketIs
  <2>10. /\ DOMAIN rlpsocks' = DOMAIN rlpsocks /\ rlpsocks'[a] = rt
         /\ rlpsocks' \in [DOMAIN rlpsocks' -> Socket]
         /\ \A b \in DOMAIN rlpsocks : b # a => rlpsocks'[b] = rlpsocks[b]
    BY <1>3, <1>5, <2>6, <2>7
  <2>11. DOMAIN rlpsocks' = {s.rs : s \in subs'} BY <1>3, <1>5, <2>2, <2>10 DEF Owners
  <2>12. /\ MySks(rlpsocks, a) = Sks(rs.sk, rs.groups)
         /\ MySks(rlpsocks', a) = Sks(rs.sk, r.groups)
    BY <1>3, <2>7, <2>10 DEF MySks, rs
  <2>13. MySks(rlpsocks, a) \subseteq DOMAIN open BY <1>6, <2>12 DEF GroupsOK, Sks
  <2>14. /\ MySks(rlpsocks', a) = MySks(rlpsocks, a) \cup (DOMAIN open' \ DOMAIN open)
         /\ DOMAIN open \subseteq DOMAIN open'
    BY <2>1, <2>4, <2>12
  <2>15. /\ MySks(rlpsocks', a) \subseteq DOMAIN open'
         /\ MySks(rlpsocks', a) \cap (DOMAIN open \ MySks(rlpsocks, a)) = {}
         /\ DOMAIN open \ MySks(rlpsocks, a) = DOMAIN open' \ MySks(rlpsocks', a)
    BY <2>13, <2>14
  <2>16. \A f \in DOMAIN open \ MySks(rlpsocks, a) :
           open'[f] = open[f] /\ (f \in polled => f \in polled')
    BY <2>1, <2>4, <2>12
  <2>17. open' \in [DOMAIN open' -> SUBSET Groups] /\ subs' \subseteq Sub /\ failed' = FALSE
    BY <1>2, <1>5, <2>1, <2>2, <2>4 DEF RlpTypes
  <2> QED
    BY <2>2, <2>9, <2>10, <2>11, <2>15, <2>16, <2>17, OneSocket
<1> QED BY <1>10, <1>11

-----------------------------------------------------------------------------
(***************************************************************************)
(* rlpUnsubscribe.                                                         *)
(***************************************************************************)
\* The groups r of socket a when group g has been given back, or none.
GivenBack(sk, gs, op, r) ==
  /\ r.groups \in Seq(SkGroup) /\ r.open \in [DOMAIN r.open -> SUBSET Groups]
  /\ GroupsOK(sk, r.groups, r.open) /\ DOMAIN r.open \subseteq DOMAIN op
  /\ Sks(sk, gs) = Sks(sk, r.groups) \cup (DOMAIN op \ DOMAIN r.open)
  /\ Sks(sk, r.groups) \subseteq DOMAIN r.open
  /\ \A fd \in DOMAIN op : fd \notin Sks(sk, gs) => r.open[fd] = op[fd]

LEMMA GiveBack ==
  ASSUME NEW gs \in Seq(SkGroup), NEW op, op \in [DOMAIN op -> SUBSET Groups],
         NEW sk, GroupsOK(sk, gs, op), NEW a, NEW B, IsFiniteSet(B),
         NEW x \in B, x.rs = a, x.group \in Groups \cup {ANY}, Tallied(a, gs, B)
  PROVE  LET r == IF x.group = ANY THEN [groups |-> gs, open |-> op]
                  ELSE dropgroup(sk, gs, op, x.group)
         IN  GivenBack(sk, gs, op, r) /\ Tallied(a, r.groups, B \ {x})
<1> DEFINE r == IF x.group = ANY THEN [groups |-> gs, open |-> op]
                ELSE dropgroup(sk, gs, op, x.group)
<1>1. CASE x.group = ANY
  <2>1. r.groups = gs /\ r.open = op BY <1>1
  <2>2. Sks(sk, gs) \subseteq DOMAIN op BY DEF Sks, GroupsOK
  <2> DEFINE C == B \ {x}
  <2>3. IsFiniteSet(C) /\ x \notin C /\ C \cup {x} = B BY FS_Subset
  <2> HIDE DEF r, C
  <2>4. Tallied(a, gs, C \cup {x}) <=> Tallied(a, gs, C) BY <1>1, <2>3, TallyStays
  <2>5. Tallied(a, r.groups, C) BY <2>1, <2>3, <2>4
  <2>6. GivenBack(sk, gs, op, r) BY <2>1, <2>2 DEF GivenBack
  <2> QED BY <2>5, <2>6 DEF r, C
<1>2. CASE x.group # ANY
  <2>1. r = dropgroup(sk, gs, op, x.group) /\ x.group \in Groups BY <1>2
  <2>2. findgroup(gs, x.group) # {} /\ \A n : At(gs, x.group, n) => n # 0
    BY <1>2 DEF Tallied
  <2> HIDE DEF r
  <2>3. Dropped(sk, gs, op, x.group, r) BY <2>1, <2>2, DropGroup
  <2>4. GivenBack(sk, gs, op, r) BY <2>3 DEF Dropped, GivenBack
  <2>5. r.groups \in Seq(SkGroup) /\ Shrunk(gs, r.groups, x.group) BY <2>3 DEF Dropped
  <2>6. Tallied(a, r.groups, B \ {x}) BY <2>1, <2>5, TallyShrinks
  <2> QED BY <2>4, <2>6 DEF r
<1> QED BY <1>1, <1>2 DEF r

LEMMA NoneLeft ==
  ASSUME NEW gs \in Seq(SkGroup), NEW sk, NEW op, GroupsOK(sk, gs, op), NEW a, NEW B,
         Tallied(a, gs, B), \A s \in B : s.rs # a
  PROVE  gs = <<>>
<1> SUFFICES ASSUME gs # <<>> PROVE FALSE OBVIOUS
<1>1. 1 \in DOMAIN gs OBVIOUS
<1>2. PICK i \in Used(gs[1]) : i \in Used(gs[1]) BY <1>1 DEF GroupsOK
<1>3. At(gs, gs[1].mad[i], gs[1].nm[i]) BY <1>1, <1>2 DEF At
<1>4. OfGroup(B, a, gs[1].mad[i]) = {} BY DEF OfGroup
<1>5. Cardinality(OfGroup(B, a, gs[1].mad[i])) = 0 BY <1>4, FS_EmptySet
<1> QED BY <1>3, <1>5 DEF Tallied

LEMMA StepUnsubscribe ==
  ASSUME Multi, RlpInv, NEW x \in subs, rlpUnsubscribe(x)
  PROVE  RlpInv'
<1> DEFINE a  == x.rs
           rs == rlpsocks[a]
           p  == Min({q \in Slots : rs.handlers[q].protocol = x.protocol})
           r  == IF x.group = ANY THEN [groups |-> rs.groups, open |-> open]
                 ELSE dropgroup(rs.sk, rs.groups, open, x.group)
           left == rs.handlers[p].nsubs - 1
           hs == [rs.handlers EXCEPT ![p] = IF left = 0 /\ Multi THEN Unused
                                            ELSE [@ EXCEPT !.nsubs = left]]
           Ends == /\ failed' = (failed \/ r.groups # <<>>)
                   /\ rlpsocks' = [b \in DOMAIN rlpsocks \ {a} |-> rlpsocks[b]]
                   /\ polled' = polled \ {rs.sk}
                   /\ open' = close(r.open, rs.sk)
           More == /\ rlpsocks' = [rlpsocks EXCEPT ![a].groups = r.groups,
                                                   ![a].handlers = hs]
                   /\ open' = r.open /\ polled' = polled /\ failed' = failed
<1>1. /\ a \in DOMAIN rlpsocks /\ subs' = subs \ {x}
      /\ IF left = 0 /\ LastOne(hs) THEN Ends ELSE More
  BY DEF rlpUnsubscribe
<1>2. /\ rs \in Socket /\ RlpTypes /\ Owners /\ open \in [DOMAIN open -> SUBSET Groups]
      /\ subs \subseteq Sub /\ IsFiniteSet(subs) /\ SocketIs(a, rs, open, polled, subs)
      /\ rlpsocks \in [DOMAIN rlpsocks -> Socket] /\ failed = FALSE
  BY <1>1 DEF RlpInv, RlpTypes, SocketOK
<1>3. /\ GroupsOK(rs.sk, rs.groups, open) /\ Tallied(a, rs.groups, subs)
      /\ Handled(a, rs.handlers, subs) /\ rs.sk \in polled
  BY <1>2 DEF SocketIs
<1>4. rs.sk \in Fds /\ rs.groups \in Seq(SkGroup) /\ rs.handlers \in [Slots -> Handler]
  BY <1>2 DEF Socket
<1>5. x \in Sub /\ x.protocol \in Protocols /\ x.group \in Groups \cup {ANY}
  BY <1>2 DEF Sub
<1>6. hs = LessOf(rs.handlers, x) /\ left = LeftOf(rs.handlers, x)
  BY DEF LessOf, LeftOf, SlotOf
<1> HIDE DEF rs
<1>7. /\ hs \in [Slots -> Handler] /\ Handled(a, hs, subs') /\ (LastOne(hs) => left = 0)
  <2>1. /\ LessOf(rs.handlers, x) \in [Slots -> Handler]
        /\ Handled(a, LessOf(rs.handlers, x), subs \ {x})
        /\ LastOne(LessOf(rs.handlers, x)) => LeftOf(rs.handlers, x) = 0
    BY <1>2, <1>3, <1>4, <1>5, HandleLess
  <2> HIDE DEF hs, left
  <2> QED BY <1>1, <1>6, <2>1
<1>8. GivenBack(rs.sk, rs.groups, open, r) /\ Tallied(a, r.groups, subs')
  <2>1. GivenBack(rs.sk, rs.groups, open, r) /\ Tallied(a, r.groups, subs \ {x})
    BY <1>2, <1>3, <1>4, <1>5, GiveBack
  <2> QED BY <1>1, <2>1
<1> HIDE DEF r, hs, left, p
<1>9. IsFiniteSet(subs') /\ subs' \subseteq Sub BY <1>1, <1>2, FS_Subset
<1>10. LastOne(hs) <=> \A s \in subs' : s.rs # a BY <1>7, <1>9, LastIs
<1>11. MySks(rlpsocks, a) = Sks(rs.sk, rs.groups) BY <1>1 DEF MySks, rs
<1>12. /\ r.groups \in Seq(SkGroup) /\ r.open \in [DOMAIN r.open -> SUBSET Groups]
       /\ GroupsOK(rs.sk, r.groups, r.open) /\ DOMAIN r.open \subseteq DOMAIN open
       /\ MySks(rlpsocks, a) = Sks(rs.sk, r.groups) \cup (DOMAIN open \ DOMAIN r.open)
       /\ Sks(rs.sk, r.groups) \subseteq DOMAIN r.open
       /\ \A fd \in DOMAIN open : fd \notin MySks(rlpsocks, a) => r.open[fd] = open[fd]
  BY <1>8, <1>11 DEF GivenBack
<1>13. CASE LastOne(hs)
  <2>1. Ends /\ \A s \in subs' : s.rs # a BY <1>1, <1>7, <1>10, <1>13
  <2>2. r.groups = <<>> BY <1>8, <1>12, <2>1, NoneLeft
  <2>3. failed' = FALSE BY <1>2, <2>1, <2>2
  <2>4. Sks(rs.sk, r.groups) = {rs.sk} BY <2>2 DEF Sks
  <2>5. /\ DOMAIN rlpsocks' = DOMAIN rlpsocks \ {a}
        /\ rlpsocks' \in [DOMAIN rlpsocks' -> Socket]
        /\ \A b \in DOMAIN rlpsocks : b # a => rlpsocks'[b] = rlpsocks[b]
    BY <1>2, <2>1
  <2>6. DOMAIN rlpsocks' = {s.rs : s \in subs'} BY <1>1, <1>2, <2>1, <2>5 DEF Owners
  <2>7. /\ DOMAIN open' = DOMAIN r.open \ {rs.sk}
        /\ \A fd \in DOMAIN open' : open'[fd] = r.open[fd]
        /\ open' \in [DOMAIN open' -> SUBSET Groups]
    BY <1>12, <2>1 DEF close
  <2>8. MySks(rlpsocks', a) = {} BY <2>5 DEF MySks
  <2>9. DOMAIN open \ MySks(rlpsocks, a) = DOMAIN open' BY <1>12, <2>4, <2>7
  <2>10. /\ MySks(rlpsocks', a) \subseteq DOMAIN open'
         /\ MySks(rlpsocks', a) \cap (DOMAIN open \ MySks(rlpsocks, a)) = {}
         /\ DOMAIN open \ MySks(rlpsocks, a) = DOMAIN open' \ MySks(rlpsocks', a)
    BY <2>8, <2>9
  <2>11. \A fd \in DOMAIN open \ MySks(rlpsocks, a) :
           open'[fd] = open[fd] /\ (fd \in polled => fd \in polled')
    <3>1. rs.sk \in MySks(rlpsocks, a) BY <1>12, <2>4
    <3> QED BY <1>12, <2>1, <2>7, <2>9, <3>1
  <2> HIDE DEF a
  <2>12. x.rs = a BY DEF a
  <2> QED
    BY <1>1, <1>9, <2>3, <2>5, <2>6, <2>7, <2>10, <2>11, <2>12, OneSocket
<1>14. CASE ~ LastOne(hs)
  <2>1. More BY <1>1, <1>14
  <2>2. PICK s \in subs' : s.rs = a BY <1>10, <1>14
  <2> DEFINE rt == [rs EXCEPT !.groups = r.groups, !.handlers = hs]
  <2>3. rlpsocks' = [rlpsocks EXCEPT ![a] = rt] BY <1>1, <1>2, <2>1 DEF rs
  <2>4. rt \in Socket /\ rt.sk = rs.sk /\ rt.groups = r.groups /\ rt.handlers = hs
    BY <1>2, <1>7, <1>12 DEF Socket
  <2> HIDE DEF rt
  <2>5. SocketIs(a, rt, open', polled', subs')
    BY <1>3, <1>7, <1>8, <1>12, <2>1, <2>4 DEF SocketIs
  <2>6. /\ DOMAIN rlpsocks' = DOMAIN rlpsocks /\ rlpsocks'[a] = rt
        /\ rlpsocks' \in [DOMAIN rlpsocks' -> Socket]
        /\ \A b \in DOMAIN rlpsocks : b # a => rlpsocks'[b] = rlpsocks[b]
    BY <1>1, <1>2, <2>3, <2>4
  <2>7. DOMAIN rlpsocks' = {t.rs : t \in subs'}
    <3>1. DOMAIN rlpsocks = {t.rs : t \in subs} BY <1>2 DEF Owners
    <3>2. {t.rs : t \in subs} = {t.rs : t \in subs'} BY <1>1, <2>2
    <3> QED BY <2>6, <3>1, <3>2
  <2>8. MySks(rlpsocks', a) = Sks(rs.sk, r.groups) BY <1>1, <2>4, <2>6 DEF MySks
  <2>9. /\ MySks(rlpsocks', a) \subseteq DOMAIN open'
        /\ MySks(rlpsocks', a) \cap (DOMAIN open \ MySks(rlpsocks, a)) = {}
        /\ DOMAIN open \ MySks(rlpsocks, a) = DOMAIN open' \ MySks(rlpsocks', a)
    <3>1. /\ DOMAIN open' \subseteq DOMAIN open /\ MySks(rlpsocks', a) \subseteq DOMAIN open'
          /\ MySks(rlpsocks, a) = MySks(rlpsocks', a) \cup (DOMAIN open \ DOMAIN open')
      BY <1>12, <2>1, <2>8
    <3> QED BY <3>1
  <2>10. \A fd \in DOMAIN open \ MySks(rlpsocks, a) :
           open'[fd] = open[fd] /\ (fd \in polled => fd \in polled')
    BY <1>12, <2>1
  <2>11. open' \in [DOMAIN open' -> SUBSET Groups] /\ failed' = FALSE
    BY <1>2, <1>12, <2>1
  <2> HIDE DEF a
  <2>12. x.rs = a BY DEF a
  <2> QED
    BY <1>1, <1>9, <2>5, <2>6, <2>7, <2>9, <2>10, <2>11, <2>12, OneSocket
<1> QED BY <1>13, <1>14

-----------------------------------------------------------------------------
(***************************************************************************)
(* The invariant, where a socket takes several protocols and no membership *)
(* fails on a main socket in use.                                          *)
(***************************************************************************)
THEOREM SocketsAreOwned ==
  Multi /\ SpareMain => (RlpSpec => []RlpInv)
<1> SUFFICES ASSUME Multi /\ SpareMain PROVE RlpSpec => []RlpInv OBVIOUS
<1>1. RlpInit => RlpInv
  <2> SUFFICES ASSUME RlpInit PROVE RlpInv OBVIOUS
  <2>1. DOMAIN rlpsocks = {} /\ DOMAIN open = {} /\ subs = {} /\ failed = FALSE
    BY DEF RlpInit
  <2>2. RlpTypes BY <2>1, FS_EmptySet DEF RlpInit, RlpTypes
  <2> QED BY <2>1, <2>2 DEF RlpInv, Owners
<1>2. RlpInv /\ [RlpNext]_rlpvars => RlpInv'
  <2> SUFFICES ASSUME RlpInv, [RlpNext]_rlpvars PROVE RlpInv' OBVIOUS
  <2>1. ASSUME NEW port \in {EPHEM, MCAST} \cup DOMAIN rlpsocks, NEW g \in Groups \cup {ANY},
               NEW prot \in Protocols, NEW cb \in Callbacks, rlpSubscribe(port, g, prot, cb)
        PROVE  RlpInv'
    <3>1. port \in {EPHEM} \cup Ports BY DEF Ports, RlpInv, RlpTypes
    <3>2. Fds \ DOMAIN open # {} /\ Fds \ DOMAIN rlpsocks # {} BY <2>1 DEF rlpSubscribe
    <3>3. PICK fail : \/ NewSocket(port, g, prot, cb, fail)
                      \/ SharedSocket(port, g, prot, cb, fail)
      BY <2>1 DEF rlpSubscribe
    <3>4. CASE NewSocket(port, g, prot, cb, fail) BY <3>1, <3>2, <3>4, StepNew
    <3>5. CASE SharedSocket(port, g, prot, cb, fail) BY <3>1, <3>2, <3>5, StepShared
    <3> QED BY <3>3, <3>4, <3>5
  <2>2. ASSUME NEW s \in subs, rlpUnsubscribe(s) PROVE RlpInv'
    BY <2>2, StepUnsubscribe
  <2>3. CASE UNCHANGED rlpvars
    BY <2>3 DEF rlpvars, RlpInv, RlpTypes, Owners, SocketOK
  <2> QED BY <2>1, <2>2, <2>3 DEF RlpNext
<1> QED BY <1>1, <1>2, PTL DEF RlpSpec

\* Whoever subscribed is served until it unsubscribes, whatever others do on its port.
THEOREM EveryoneServed ==
  Multi /\ SpareMain => (RlpSpec => []Served)
<1>1. RlpInv => Served
  <2> SUFFICES ASSUME RlpInv, NEW s \in subs
               PROVE  /\ s.rs \in DOMAIN rlpsocks
                      /\ LET rs == rlpsocks[s.rs]
                         IN  /\ rs.sk \in DOMAIN open \cap polled
                             /\ \E p \in Slots : /\ rs.handlers[p].protocol = s.protocol
                                                 /\ rs.handlers[p].func = s.func
                             /\ s.group # ANY =>
                                  \E fd \in Descriptors(rs) \cap DOMAIN open : s.group \in open[fd]
    BY DEF Served
  <2>1. s.rs \in DOMAIN rlpsocks BY DEF RlpInv, Owners
  <2> DEFINE rs == rlpsocks[s.rs]
  <2>2. /\ GroupsOK(rs.sk, rs.groups, open) /\ Tallied(s.rs, rs.groups, subs)
        /\ Handled(s.rs, rs.handlers, subs) /\ rs.sk \in polled
    BY <2>1 DEF RlpInv, SocketOK, SocketIs
  <2> HIDE DEF rs
  <2>3. rs.sk \in DOMAIN open \cap polled BY <2>2 DEF GroupsOK
  <2>4. \E p \in Slots : rs.handlers[p].protocol = s.protocol /\ rs.handlers[p].func = s.func
    BY <2>2 DEF Handled
  <2>5. ASSUME s.group # ANY
        PROVE  \E fd \in Descriptors(rs) \cap DOMAIN open : s.group \in open[fd]
    <3>1. PICK j \in DOMAIN rs.groups : \E i \in Used(rs.groups[j]) : rs.groups[j].mad[i] = s.group
      BY <2>2, <2>5 DEF Tallied, findgroup
    <3>2. s.group \in open[rs.groups[j].sk] /\ rs.groups[j].sk \in DOMAIN open
      BY <2>2, <3>1 DEF GroupsOK, Mads
    <3> QED BY <3>1, <3>2 DEF Descriptors
  <2> QED BY <2>1, <2>3, <2>4, <2>5 DEF rs
<1> QED BY <1>1, SocketsAreOwned, PTL

\* Nothing is kept that nobody subscribed: no socket, handler, group or descriptor.
THEOREM NothingIsKept ==
  Multi /\ SpareMain => (RlpSpec => []NothingKept)
<1>1. RlpInv => NothingKept
  <2> SUFFICES ASSUME RlpInv PROVE NothingKept OBVIOUS
  <2>1. ~ failed /\ DOMAIN rlpsocks = {s.rs : s \in subs} BY DEF RlpInv, RlpTypes, Owners
  <2>2. \A a, q : OfProtocol(subs, a, q) = {s \in Held(a) : s.protocol = q}
    BY DEF OfProtocol, Held
  <2>3. \A a, g : OfGroup(subs, a, g) = {s \in Held(a) : s.group = g}
    BY DEF OfGroup, Held
  <2>4. ASSUME NEW a \in DOMAIN rlpsocks
        PROVE  /\ GroupsOK(rlpsocks[a].sk, rlpsocks[a].groups, open)
               /\ Tallied(a, rlpsocks[a].groups, subs) /\ Handled(a, rlpsocks[a].handlers, subs)
    BY DEF RlpInv, SocketOK, SocketIs
  <2>5. ASSUME NEW a \in DOMAIN rlpsocks, NEW p \in Slots
        PROVE  LET h == rlpsocks[a].handlers[p]
               IN  h.nsubs = Cardinality({s \in Held(a) : s.protocol = h.protocol})
    <3> DEFINE h == rlpsocks[a].handlers[p]
    <3>1. h.nsubs = Cardinality(OfProtocol(subs, a, h.protocol)) BY <2>4 DEF Handled
    <3> HIDE DEF h
    <3>2. OfProtocol(subs, a, h.protocol) = {s \in Held(a) : s.protocol = h.protocol}
      BY <2>2
    <3> QED BY <3>1, <3>2 DEF h
  <2>6. ASSUME NEW a \in DOMAIN rlpsocks, NEW j \in DOMAIN rlpsocks[a].groups
        PROVE  LET sgp == rlpsocks[a].groups[j]
               IN  /\ sgp.sk \in DOMAIN open
                   /\ open[sgp.sk] = {sgp.mad[i] : i \in Used(sgp)} /\ Used(sgp) # {}
                   /\ \A i \in Used(sgp) :
                        sgp.nm[i] = Cardinality({s \in Held(a) : s.group = sgp.mad[i]})
    <3> DEFINE gs == rlpsocks[a].groups
    <3>1. GroupsOK(rlpsocks[a].sk, gs, open) /\ Tallied(a, gs, subs) BY <2>4
    <3> HIDE DEF gs
    <3>2. j \in DOMAIN gs BY DEF gs
    <3>3. gs[j].sk \in DOMAIN open /\ Used(gs[j]) # {} /\ open[gs[j].sk] = Mads(gs[j])
      BY <3>1, <3>2 DEF GroupsOK
    <3>4. ASSUME NEW i \in Used(gs[j])
          PROVE  gs[j].nm[i] = Cardinality({s \in Held(a) : s.group = gs[j].mad[i]})
      <4>1. At(gs, gs[j].mad[i], gs[j].nm[i]) BY <3>2 DEF At
      <4>2. gs[j].nm[i] = Cardinality(OfGroup(subs, a, gs[j].mad[i])) BY <3>1, <4>1 DEF Tallied
      <4> QED BY <2>3, <4>2
    <3> QED BY <3>3, <3>4 DEF gs, Mads
  <2>7. \A a \in DOMAIN rlpsocks :
          Descriptors(rlpsocks[a]) = Sks(rlpsocks[a].sk, rlpsocks[a].groups)
    BY DEF Descriptors, Sks
  <2>8. DOMAIN open = UNION {Descriptors(rlpsocks[a]) : a \in DOMAIN rlpsocks}
    BY <2>7 DEF RlpInv, Owners
  <2>9. \A a, b \in DOMAIN rlpsocks :
          a # b => Descriptors(rlpsocks[a]) \cap Descriptors(rlpsocks[b]) = {}
    BY <2>7 DEF RlpInv, Owners
  <2> QED BY <2>1, <2>5, <2>6, <2>8, <2>9 DEF NothingKept
<1> QED BY <1>1, SocketsAreOwned, PTL

=============================================================================
