-------------------------- MODULE SdtSessionProofs --------------------------
(***************************************************************************)
(* Proofs about SdtSession, for all values of its constants.  A handler is *)
(* a function of contexts, so the proof has two layers: every function     *)
(* that a handler is built from takes a sound context to a sound one, and  *)
(* committing a sound context preserves the invariant.                     *)
(***************************************************************************)
EXTENDS SdtSession, SequenceTheorems, TLAPS

\* What the invariant says of one member.
Sound(m) ==
  /\ m \in Member
  /\ HalvesInStep(m)
  /\ Timed(m)
  /\ m # Gone => m.lchan \in Chans

CtxT == [m : Member, tx : Seq(WrapperT), l1 : SUBSET Message,
         told : SUBSET Events]

SoundCtx(x) == x \in CtxT /\ Sound(x.m)

IInv == TypeOK /\ \A c \in Comp : Sound(memb[c])

-----------------------------------------------------------------------------
LEMMA GoneSound == Gone \in Member /\ Sound(Gone)
  BY SessionAssumption
     DEF Gone, Member, Sound, HalvesInStep, Timed, MState, Timers, Flags, Joined

LEMMA CtxSound ==
  ASSUME IInv, NEW c \in Comp
  PROVE  SoundCtx(Ctx(c)) /\ Ctx(c).m = memb[c] /\ Ctx(c).tx = <<>>
  BY DEF IInv, TypeOK, SoundCtx, CtxT, Ctx

LEMMA TellSound ==
  ASSUME NEW x, SoundCtx(x), NEW e \in Events
  PROVE  SoundCtx(Tell(x, e)) /\ Tell(x, e).m = x.m
  BY DEF SoundCtx, CtxT, Tell

LEMMA SendL1Sound ==
  ASSUME NEW x, SoundCtx(x), NEW msg \in Message
  PROVE  SoundCtx(SendL1(x, msg)) /\ SendL1(x, msg).m = x.m
  BY DEF SoundCtx, CtxT, SendL1

LEMMA AppendWrapper ==
  ASSUME NEW s \in Seq(WrapperT), NEW w \in WrapperT
  PROVE  Append(s, w) \in Seq(WrapperT)
  OBVIOUS

LEMMA SendWrapSound ==
  ASSUME NEW x, SoundCtx(x), NEW r \in BOOLEAN, NEW b \in SUBSET Bodies,
         NEW a \in BOOLEAN, NEW k \in BOOLEAN
  PROVE  SoundCtx(SendWrap(x, r, b, a, k)) /\ SendWrap(x, r, b, a, k).m = x.m
<1>1. x.m \in Member /\ x.tx \in Seq(WrapperT) BY DEF SoundCtx, CtxT
<1>2. Wrapper(x.m, r, b, a, k) \in WrapperT
  BY <1>1 DEF Wrapper, WrapperT, Member
<1>3. Append(x.tx, Wrapper(x.m, r, b, a, k)) \in Seq(WrapperT)
  BY <1>1, <1>2
<1> QED BY <1>3 DEF SoundCtx, CtxT, SendWrap

LEMMA SDTwrapSound ==
  ASSUME NEW x, SoundCtx(x), NEW b \in Bodies
  PROVE  SoundCtx(SDTwrap(x, b)) /\ SDTwrap(x, b).m = x.m
<1> {b} \in SUBSET Bodies /\ AutoAck(x.m) \in BOOLEAN BY DEF AutoAck
<1> QED BY SendWrapSound DEF SDTwrap

LEMMA justACKSound ==
  ASSUME NEW x, SoundCtx(x)
  PROVE  SoundCtx(justACK(x)) /\ justACK(x).m = x.m
  BY SendWrapSound DEF justACK

-----------------------------------------------------------------------------
(***************************************************************************)
(* A killed member leaves a sound context, whatever the event.             *)
(***************************************************************************)
LEMMA KillSound ==
  ASSUME NEW x, SoundCtx(x), NEW e
  PROVE  SoundCtx(killMember(x, e)) /\ killMember(x, e).m = Gone
<1> DEFINE m  == x.m
           x1 == IF Farewell(m) = {} THEN x
                 ELSE SendWrap(x, TRUE, Farewell(m), AutoAck(m), FALSE)
           x2 == IF m.loc \in Pending THEN SendL1(x1, JoinRefuse(m.rchan, m.rmid))
                 ELSE IF m.loc = "MEMBER"
                      THEN SendL1(x1, Leaving(m.rchan, m.rmid))
                      ELSE x1
           x3 == IF "SDT" \in m.connect THEN Tell(x2, "LOCLEAVE") ELSE x2
           x4 == IF e \in Events THEN Tell(x3, e) ELSE x3
<1>1. m \in Member BY DEF SoundCtx, CtxT
<1>2. SoundCtx(x1)
  <2> Farewell(m) \in SUBSET Bodies BY DEF Farewell, Bodies
  <2> AutoAck(m) \in BOOLEAN BY DEF AutoAck
  <2> QED BY SendWrapSound
<1>3. SoundCtx(x2)
  <2> JoinRefuse(m.rchan, m.rmid) \in Message /\ Leaving(m.rchan, m.rmid) \in Message
    BY <1>1, SessionAssumption DEF Member, JoinRefuse, Leaving, Message
  <2> HIDE DEF x1
  <2> QED BY <1>2, SendL1Sound
<1>4. SoundCtx(x3)
  <2> HIDE DEF x2
  <2> QED BY <1>3, TellSound DEF Events
<1>5. SoundCtx(x4)
  <2> HIDE DEF x3
  <2> QED BY <1>4, TellSound
<1>6. killMember(x, e) = [x4 EXCEPT !.m = Gone]
  BY DEF killMember
<1> HIDE DEF x4
<1> QED BY <1>5, <1>6, GoneSound DEF SoundCtx, CtxT

-----------------------------------------------------------------------------
(***************************************************************************)
(* The wrapped messages.  Only connect flags other than CX_SDT change,     *)
(* except by ACK, which joins the peer.                                    *)
(***************************************************************************)
LEMMA ConnectFlagsSound ==
  ASSUME NEW x, SoundCtx(x), NEW S \in SUBSET Flags,
         "SDT" \in S <=> "SDT" \in x.m.connect, x.m # Gone
  PROVE  SoundCtx([x EXCEPT !.m.connect = S])
<1> DEFINE n == [x.m EXCEPT !.connect = S]
<1>1. x.m \in Member /\ Sound(x.m) BY DEF SoundCtx, CtxT
<1>2. x.m.timer # "off" BY <1>1 DEF Sound, Timed
<1>3. n \in Member /\ n.timer # "off" BY <1>1, <1>2 DEF Member
<1>4. n # Gone BY <1>3 DEF Gone
<1>5. Sound(n)
  BY <1>1, <1>2, <1>3, <1>4 DEF Sound, Member, HalvesInStep, Timed
<1>6. [x EXCEPT !.m.connect = S] = [x EXCEPT !.m = n] BY DEF SoundCtx, CtxT
<1> HIDE DEF n
<1> QED BY <1>3, <1>5, <1>6 DEF SoundCtx, CtxT

LEMMA ConnectSound ==
  ASSUME NEW x, SoundCtx(x), x.m # Gone, NEW c
  PROVE  SoundCtx(rx_connect(c, x))
<1> DEFINE x1 == SDTwrap(x, "CONACCEPT")
<1>1. SoundCtx(x1) /\ x1.m = x.m BY SDTwrapSound DEF Bodies
<1>2. SoundCtx(SDTwrap(x, "CONREFUSE")) BY SDTwrapSound DEF Bodies
<1>3. SoundCtx([x1 EXCEPT !.m.connect = @ \cup {"CLIENTREM"}])
  <2> HIDE DEF x1
  <2> DEFINE S == x1.m.connect \cup {"CLIENTREM"}
  <2>1. S \in SUBSET Flags /\ ("SDT" \in S <=> "SDT" \in x1.m.connect)
    BY <1>1 DEF SoundCtx, CtxT, Member, Flags
  <2>2. x1.m # Gone BY <1>1
  <2>3. SoundCtx([x1 EXCEPT !.m.connect = S])
    <3> HIDE DEF S
    <3> QED BY <1>1, <2>1, <2>2, ConnectFlagsSound
  <2> QED BY <2>3
<1> QED BY <1>2, <1>3 DEF rx_connect

LEMMA ClientFlagsSound ==
  ASSUME NEW x, SoundCtx(x), x.m # Gone
  PROVE  /\ SoundCtx(rx_conaccept(x)) /\ SoundCtx(rx_conrefuse(x))
         /\ SoundCtx(rx_disconnect(x)) /\ SoundCtx(rx_disconnecting(x))
<1>1. x.m.connect \in SUBSET Flags BY DEF SoundCtx, CtxT, Member
<1>2. SoundCtx([x EXCEPT !.m.connect = @ \cup {"CLIENTLOC"}])
  <2> DEFINE S == x.m.connect \cup {"CLIENTLOC"}
  <2>1. S \in SUBSET Flags /\ ("SDT" \in S <=> "SDT" \in x.m.connect)
    BY <1>1 DEF Flags
  <2>2. SoundCtx([x EXCEPT !.m.connect = S])
    <3> HIDE DEF S
    <3> QED BY <2>1, ConnectFlagsSound
  <2> QED BY <2>2
<1>3. SoundCtx([x EXCEPT !.m.connect = @ \ {"CLIENTLOC"}])
  <2> DEFINE S == x.m.connect \ {"CLIENTLOC"}
  <2>1. S \in SUBSET Flags /\ ("SDT" \in S <=> "SDT" \in x.m.connect)
    BY <1>1 DEF Flags
  <2>2. SoundCtx([x EXCEPT !.m.connect = S])
    <3> HIDE DEF S
    <3> QED BY <2>1, ConnectFlagsSound
  <2> QED BY <2>2
<1>4. SoundCtx([x EXCEPT !.m.connect = @ \ {"CLIENTREM"}])
  <2> DEFINE S == x.m.connect \ {"CLIENTREM"}
  <2>1. S \in SUBSET Flags /\ ("SDT" \in S <=> "SDT" \in x.m.connect)
    BY <1>1 DEF Flags
  <2>2. SoundCtx([x EXCEPT !.m.connect = S])
    <3> HIDE DEF S
    <3> QED BY <2>1, ConnectFlagsSound
  <2> QED BY <2>2
<1>5. \A e : SoundCtx(killMember(x, e)) BY KillSound
<1> QED BY <1>2, <1>3, <1>4, <1>5
        DEF rx_conaccept, rx_conrefuse, rx_disconnect, rx_disconnecting

\* A half that completes: the other one is joined or as before.
LEMMA MemberSound ==
  ASSUME NEW x, SoundCtx(x), x.m # Gone, NEW n \in Member,
         HalvesInStep(n), Timed(n), n.lchan = x.m.lchan, n.timer # "off"
  PROVE  SoundCtx([x EXCEPT !.m = n])
<1>1. n # Gone BY DEF Gone
<1>2. x.m.lchan \in Chans BY DEF SoundCtx, Sound
<1>3. Sound(n) BY <1>1, <1>2 DEF Sound
<1> QED BY <1>3 DEF SoundCtx, CtxT

LEMMA firstACKSound ==
  ASSUME NEW x, x \in CtxT, NEW n \in Member, n = [x.m EXCEPT !.loc = "MEMBER"],
         HalvesInStep(n), Timed(n), n.lchan \in Chans
  PROVE  SoundCtx(firstACK(x)) /\ firstACK(x).m = n
<1>1. Wrapper(x.m, FALSE, {}, TRUE, FALSE) \in WrapperT
  BY DEF Wrapper, WrapperT, CtxT, Member
<1>2. Append(x.tx, Wrapper(x.m, FALSE, {}, TRUE, FALSE)) \in Seq(WrapperT)
  <2>1. x.tx \in Seq(WrapperT) BY DEF CtxT
  <2> QED BY <1>1, <2>1, AppendWrapper
<1>3. justACK(x) \in CtxT /\ justACK(x).m = x.m
  BY <1>2 DEF justACK, SendWrap, CtxT
<1>4. firstACK(x) = [justACK(x) EXCEPT !.m = n]
  BY <1>3 DEF firstACK, CtxT
<1>5. firstACK(x) \in CtxT /\ firstACK(x).m = n BY <1>3, <1>4 DEF CtxT
<1> QED BY <1>5 DEF SoundCtx, Sound

LEMMA AckSound ==
  ASSUME NEW x, SoundCtx(x), NEW c, x.m.loc \in Joined
  PROVE  SoundCtx(rx_ack(c, x))
<1> USE SessionAssumption
<1> DEFINE a  == [x.m EXCEPT !.maktries = MakRetries + 1, !.timer = "mak"]
           b  == [a EXCEPT !.rem = "MEMBER"]
           d  == [b EXCEPT !.connect = @ \cup {"SDT"}]
           xd == [x EXCEPT !.m = d]
           xe == Tell(xd, "JOINSUCCESS")
<1>1. x.m \in Member /\ Sound(x.m) BY DEF SoundCtx, CtxT
<1>2. x.m # Gone BY DEF Gone, Joined
<1>0. MakRetries + 1 \in 0 .. MakRetries + 1 OBVIOUS
<1>3. CASE x.m.rem = "MEMBER"
  <2>1. a \in Member BY <1>0, <1>1 DEF Member, Timers
  <2>2. HalvesInStep(a) /\ Timed(a) /\ a.lchan = x.m.lchan /\ a.timer # "off"
    BY <1>1, <1>3 DEF Member, Sound, HalvesInStep, Timed
  <2>3. rx_ack(c, x) = [x EXCEPT !.m = a]
    BY <1>3 DEF rx_ack, SoundCtx, CtxT
  <2> HIDE DEF a
  <2> QED BY <1>2, <2>1, <2>2, <2>3, MemberSound
<1>4. CASE x.m.rem = "JOINPEND"
  <2>1. x.m.loc = "MEMBER" BY <1>1, <1>4 DEF Sound, HalvesInStep, Joined
  <2>2. d \in Member
    BY <1>0, <1>1 DEF Member, Timers, MState, Flags
  <2>3. HalvesInStep(d) /\ Timed(d) /\ d.lchan = x.m.lchan /\ d.timer # "off"
    BY <1>1, <2>1 DEF Member, Sound, HalvesInStep, Timed
  <2>4. SoundCtx(xd) /\ xd.m = d
    <3>1. xd.m = d BY DEF SoundCtx, CtxT
    <3> HIDE DEF d
    <3> QED BY <1>2, <2>2, <2>3, <3>1, MemberSound
  <2>5. SoundCtx(xe) BY <2>4, TellSound DEF Events
  <2>6. SoundCtx(SDTwrap(xe, "CONNECT"))
    <3> HIDE DEF xe
    <3> QED BY <2>5, SDTwrapSound DEF Bodies
  <2>7. rx_ack(c, x) \in {xe, SDTwrap(xe, "CONNECT")}
    <3> DEFINE x1 == [[x EXCEPT !.m.maktries = MakRetries + 1, !.m.timer = "mak"]
                        EXCEPT !.m.rem = "MEMBER"]
    <3>1. rx_ack(c, x) = setFullMember(c, x1) BY <1>4, <2>1 DEF rx_ack
    <3>2. [x1 EXCEPT !.m.connect = @ \cup {"SDT"}] = xd
      BY <1>1 DEF SoundCtx, CtxT, Member
    <3> QED BY <3>1, <3>2 DEF setFullMember
  <2> QED BY <2>5, <2>6, <2>7
<1>5. CASE x.m.rem \notin {"MEMBER", "JOINPEND"}
  <2> rx_ack(c, x) = x BY <1>5 DEF rx_ack
  <2> QED OBVIOUS
<1> QED BY <1>3, <1>4, <1>5

LEMMA OnSound ==
  ASSUME NEW x, SoundCtx(x), NEW p \in BOOLEAN, NEW y,
         x.m.loc \in Joined => SoundCtx(y)
  PROVE  SoundCtx(On(x, p, y))
  BY DEF On

LEMMA Level2Sound ==
  ASSUME NEW x, SoundCtx(x), NEW c, NEW w \in WrapperT
  PROVE  SoundCtx(sdtLevel2Rx(c, x, w))
<1> DEFINE full == x.m.loc = "MEMBER"
           x1 == On(x,  full /\ "CONNECT" \in w.body, rx_connect(c, x))
           x2 == On(x1, full /\ "CONACCEPT" \in w.body, rx_conaccept(x1))
           x3 == On(x2, full /\ "CONREFUSE" \in w.body, rx_conrefuse(x2))
           x4 == On(x3, full /\ "DISCONNECT" \in w.body, rx_disconnect(x3))
           x5 == On(x4, full /\ "DISCONNECTING" \in w.body, rx_disconnecting(x4))
           x6 == On(x5, "LEAVE" \in w.body, rx_leave(x5))
           x7 == On(x6, w.ack, rx_ack(c, x6))
<1>0. \A y : y.m.loc \in Joined => y.m # Gone BY DEF Gone, Joined
<1>1. SoundCtx(x1) BY <1>0, OnSound, ConnectSound
<1>2. SoundCtx(x2)
  <2> HIDE DEF x1
  <2> QED BY <1>0, <1>1, OnSound, ClientFlagsSound
<1>3. SoundCtx(x3)
  <2> HIDE DEF x2
  <2> QED BY <1>0, <1>2, OnSound, ClientFlagsSound
<1>4. SoundCtx(x4)
  <2> HIDE DEF x3
  <2> QED BY <1>0, <1>3, OnSound, ClientFlagsSound
<1>5. SoundCtx(x5)
  <2> HIDE DEF x4
  <2> QED BY <1>0, <1>4, OnSound, ClientFlagsSound
<1>6. SoundCtx(x6)
  <2> HIDE DEF x5
  <2>1. SoundCtx(rx_leave(x5)) BY <1>5, KillSound DEF rx_leave
  <2> HIDE DEF rx_leave
  <2> HIDE DEF x5
  <2>2. CASE "LEAVE" \in w.body /\ x5.m.loc \in Joined
    BY <2>1, <2>2 DEF On
  <2>3. CASE ~ ("LEAVE" \in w.body /\ x5.m.loc \in Joined)
    BY <1>5, <2>3 DEF On
  <2> QED BY <2>2, <2>3
<1>7. SoundCtx(x7)
  <2> w.ack \in BOOLEAN BY DEF WrapperT
  <2> HIDE DEF x6
  <2> QED BY <1>6, OnSound, AckSound
<1>8. sdtLevel2Rx(c, x, w) = x7 BY DEF sdtLevel2Rx
<1> QED BY <1>7, <1>8
-----------------------------------------------------------------------------
(***************************************************************************)
(* Committing a sound context.                                             *)
(***************************************************************************)
LEMMA CarrySound ==
  ASSUME NEW s \in Seq(WrapperT), NEW t \in Seq(WrapperT)
  PROVE  Carry(s, t) \in Seq(WrapperT)
<1> DEFINE all == s \o t
           n   == IF Len(all) < MaxWrap THEN Len(all) ELSE MaxWrap
<1>1. all \in Seq(WrapperT) OBVIOUS
<1>2. n \in Nat /\ n <= Len(all) BY <1>1, SessionAssumption
<1>3. SubSeq(all, 1, n) \in Seq(WrapperT)
  <2> HIDE DEF all, n
  <2>1. \A i \in 1 .. n : all[i] \in WrapperT BY <1>1, <1>2
  <2> QED BY <1>1, <1>2, <2>1, SubSeqProperties
<1> QED BY <1>3 DEF Carry

\* What a handler leaves to its action, and keeps typed.
Rest ==
  /\ stale' \subseteq Chans
  /\ nextChan' \in 2 .. MaxChan + 1
  /\ client' \in [Comp -> BOOLEAN] /\ up' \in [Comp -> BOOLEAN]

LEMMA RestUnchanged ==
  ASSUME IInv, UNCHANGED <<stale, nextChan, client, up>>
  PROVE  Rest
  BY DEF IInv, TypeOK, Rest

LEMMA CommitSound ==
  ASSUME IInv, NEW c \in Comp, NEW x, SoundCtx(x), Commit(c, x), Rest,
         memb[c] = Gone => x.tx = <<>>
  PROVE  IInv'
<1> DEFINE ch == memb[c].lchan
<1>1. x.m \in Member /\ Sound(x.m) /\ x.tx \in Seq(WrapperT)
      /\ x.l1 \subseteq Message /\ x.told \subseteq Events
  BY DEF SoundCtx, CtxT
<1>2. memb' \in [Comp -> Member] /\ \A k \in Comp : Sound(memb'[k])
  BY <1>1 DEF Commit, IInv, TypeOK
<1>3. log' \in [Chans -> Seq(WrapperT)]
  <2>1. CASE x.tx = <<>> BY <2>1 DEF Commit, IInv, TypeOK
  <2>2. CASE x.tx # <<>>
    <3>1. ch \in Chans BY <2>2 DEF IInv, Sound
    <3>2. log[ch] \in Seq(WrapperT) BY <3>1 DEF IInv, TypeOK
    <3>3. Carry(log[ch], x.tx) \in Seq(WrapperT) BY <1>1, <3>2, CarrySound
    <3>4. log' = [log EXCEPT ![ch] = Carry(log[ch], x.tx)]
      BY <2>2 DEF Commit
    <3>5. log \in [Chans -> Seq(WrapperT)] BY DEF IInv, TypeOK
    <3> QED BY <3>3, <3>4, <3>5
  <2> QED BY <2>1, <2>2
<1>4. net' \subseteq Message BY <1>1 DEF Commit, IInv, TypeOK
<1>5. open' \subseteq Chans BY DEF Commit, openAfter, IInv, TypeOK
<1>6. told' \in [Comp -> SUBSET Events] BY <1>1 DEF Commit, IInv, TypeOK
<1>7. TypeOK' BY <1>2, <1>3, <1>4, <1>5, <1>6 DEF TypeOK, Rest
<1> QED BY <1>2, <1>7 DEF IInv, Sound

-----------------------------------------------------------------------------
(***************************************************************************)
(* The actions: received wrappers.                                         *)
(***************************************************************************)
LEMMA MemberTyped ==
  ASSUME IInv, NEW c \in Comp
  PROVE  /\ memb[c] \in Member /\ Sound(memb[c])
         /\ memb[c] # Gone => memb[c].lchan \in Chans
  BY DEF IInv, TypeOK, Sound

\* The contexts of rx_wrapper: sequence numbers, messages, reply to a MAK.
Moved(c, i) == [Ctx(c) EXCEPT !.m.pos = i]

Read(c, i) ==
  LET w == log[memb[c].rchan][i]
  IN  IF w.mid = memb[c].rmid THEN sdtLevel2Rx(c, Moved(c, i), w)
      ELSE Moved(c, i)

Replied(c, i) ==
  LET m == memb[c]
      w == log[m.rchan][i]
  IN  IF w.mak /\ w.mid = m.rmid /\ m.loc = "MEMBER" /\ Read(c, i).m # Gone
      THEN justACK(Read(c, i)) ELSE Read(c, i)

LEMMA WrapperSound ==
  ASSUME IInv, NEW c \in Comp, NEW i, rx_wrapper(c, i)
  PROVE  /\ memb[c] # Gone /\ log[memb[c].rchan] # <<>>
         /\ log[memb[c].rchan][i] \in WrapperT
         /\ SoundCtx(Moved(c, i)) /\ SoundCtx(Read(c, i))
         /\ SoundCtx(Replied(c, i)) /\ Commit(c, Replied(c, i))
<1> DEFINE m  == memb[c]
           w  == log[m.rchan][i]
           n  == [m EXCEPT !.pos = i]
           x0 == [Ctx(c) EXCEPT !.m.pos = i]
           x1 == IF w.mid = m.rmid THEN sdtLevel2Rx(c, x0, w) ELSE x0
           x2 == IF w.mak /\ w.mid = m.rmid /\ m.loc = "MEMBER" /\ x1.m # Gone
                 THEN justACK(x1) ELSE x1
<1>1. /\ m # Gone /\ m.rchan # 0 /\ m.rchan \in 0 .. MaxChan /\ m.pos \in Nat
      /\ i \in m.pos + 1 .. Len(log[m.rchan])
  BY MemberTyped DEF rx_wrapper, Live, Member
<1>2. log[m.rchan] \in Seq(WrapperT)
  BY <1>1, SessionAssumption DEF IInv, TypeOK, Chans
<1>3. i \in Nat /\ w \in WrapperT BY <1>1, <1>2
<1>4. SoundCtx(x0)
  <2>1. m \in Member /\ Sound(m) BY MemberTyped
  <2>2. n \in Member BY <1>3, <2>1 DEF Member
  <2>3. HalvesInStep(n) /\ Timed(n) /\ n.lchan = m.lchan
    <3>1. m.timer # "off" BY <1>1, <2>1 DEF Sound, Timed
    <3> QED BY <1>3, <2>1, <3>1 DEF Sound, HalvesInStep, Timed, Member
  <2>4. m.lchan \in Chans BY <1>1, MemberTyped
  <2>5. x0 = [Ctx(c) EXCEPT !.m = n] BY DEF Ctx
  <2>6. Sound(n) BY <2>2, <2>3, <2>4 DEF Sound
  <2> HIDE DEF n
  <2> QED BY <2>2, <2>5, <2>6, CtxSound DEF SoundCtx, CtxT
<1>5. SoundCtx(x1)
  <2> HIDE DEF x0, w
  <2> QED BY <1>3, <1>4, Level2Sound
<1>6. SoundCtx(x2)
  <2> HIDE DEF x1
  <2> QED BY <1>5, justACKSound
<1>7. Commit(c, x2) BY DEF rx_wrapper, mustack
<1>8. x0 = Moved(c, i) /\ x1 = Read(c, i) /\ x2 = Replied(c, i)
  BY DEF Moved, Read, Replied
<1>9. log[m.rchan] # <<>> BY <1>1, <1>2
<1> HIDE DEF x0, x1, x2
<1> QED BY <1>1, <1>3, <1>4, <1>5, <1>6, <1>7, <1>8, <1>9

LEMMA WrapperStep ==
  ASSUME IInv, NEW c \in Comp, NEW i, rx_wrapper(c, i)
  PROVE  IInv'
<1>1. Rest BY RestUnchanged DEF rx_wrapper
<1> QED BY <1>1, WrapperSound, CommitSound

\* A step that does nothing but kill the member.
LEMMA KillStep ==
  ASSUME IInv, NEW c \in Comp, NEW e, Live(c),
         Commit(c, killMember(Ctx(c), e)), UNCHANGED <<stale, nextChan, client, up>>
  PROVE  IInv'
<1>1. SoundCtx(killMember(Ctx(c), e)) BY CtxSound, KillSound
<1>2. memb[c] # Gone BY DEF Live
<1> QED BY <1>1, <1>2, RestUnchanged, CommitSound
-----------------------------------------------------------------------------
(***************************************************************************)
(* The actions: level 1 messages.                                          *)
(***************************************************************************)
\* A half joined while the other waits: firstACK is due, or the reply only.
Accepting(c) == [Ctx(c) EXCEPT !.m.rem = "JOINPEND", !.m.timer = "recip"]

HalfJoined(c) ==
  IF memb[c].rchan # 0 /\ memb[c].loc = "JOINPEND" THEN firstACK(Accepting(c))
  ELSE Accepting(c)

LEMMA JoinAcceptSound ==
  ASSUME IInv, NEW c \in Comp, NEW msg \in net, rx_joinAccept(c, msg)
  PROVE  /\ memb[c] # Gone /\ memb[c] \in Member /\ Accepting(c) \in CtxT
         /\ SoundCtx(HalfJoined(c)) /\ Commit(c, HalfJoined(c))
<1> DEFINE m == memb[c]
           n == [m EXCEPT !.rem = "JOINPEND", !.timer = "recip"]
           f == [n EXCEPT !.loc = "MEMBER"]
           x == [Ctx(c) EXCEPT !.m.rem = "JOINPEND", !.m.timer = "recip"]
           y == IF m.rchan # 0 /\ m.loc = "JOINPEND" THEN firstACK(x) ELSE x
<1>1. /\ m \in Member /\ Sound(m) /\ m # Gone /\ m.lchan \in Chans
      /\ m.rem = "JOINRQ" /\ SoundCtx(Ctx(c)) /\ Ctx(c).m = m
  BY MemberTyped, CtxSound DEF rx_joinAccept, Finds, Live
<1>2. n \in Member /\ n.timer = "recip" /\ n.lchan = m.lchan
  BY <1>1 DEF Member, MState, Timers
<1>3. x = [Ctx(c) EXCEPT !.m = n] /\ x.m = n /\ x \in CtxT
  BY <1>1, <1>2 DEF SoundCtx, CtxT, Ctx
<1>4. ASSUME m.rchan # 0 /\ m.loc = "JOINPEND" PROVE SoundCtx(y)
  <2>1. f \in Member /\ f.timer = "recip" /\ f.lchan \in Chans
    BY <1>1, <1>2 DEF Member, MState
  <2>2. HalvesInStep(f) /\ Timed(f)
    BY <1>1, <1>4 DEF Sound, HalvesInStep, Timed, Member, Joined
  <2>3. f = [x.m EXCEPT !.loc = "MEMBER"] BY <1>3
  <2>4. SoundCtx(firstACK(x))
    <3> HIDE DEF f, x
    <3> QED BY <1>3, <2>1, <2>2, <2>3, firstACKSound
  <2> QED BY <1>4, <2>4
<1>5. ASSUME ~ (m.rchan # 0 /\ m.loc = "JOINPEND") PROVE SoundCtx(y)
  <2>1. HalvesInStep(n) /\ Timed(n)
    BY <1>1, <1>5 DEF Sound, HalvesInStep, Timed, Member, Joined
  <2>2. Sound(n) BY <1>1, <1>2, <2>1 DEF Sound
  <2> HIDE DEF n
  <2>3. SoundCtx(x) BY <1>3, <2>2 DEF SoundCtx
  <2> QED BY <1>5, <2>3
<1>6. SoundCtx(y) BY <1>4, <1>5
<1>7. Commit(c, y) BY DEF rx_joinAccept
<1>8. x = Accepting(c) /\ y = HalfJoined(c) BY DEF Accepting, HalfJoined
<1> HIDE DEF x, y
<1> QED BY <1>1, <1>3, <1>6, <1>7, <1>8

LEMMA JoinAcceptStep ==
  ASSUME IInv, NEW c \in Comp, NEW msg \in net, rx_joinAccept(c, msg)
  PROVE  IInv'
<1>1. Rest BY RestUnchanged DEF rx_joinAccept
<1> QED BY <1>1, JoinAcceptSound, CommitSound
\* A step that changes neither members nor channels, and answers msgs.
LEMMA AnswerStep ==
  ASSUME IInv, NEW msgs \in SUBSET Message, Answer(msgs),
         UNCHANGED <<memb, log, nextChan, client, told, up>>,
         open' \subseteq Chans, stale' \subseteq Chans
  PROVE  IInv'
<1>1. TypeOK' BY DEF IInv, TypeOK, Answer
<1> QED BY <1>1 DEF IInv, Sound

Linked(c, msg) ==
  [Ctx(c) EXCEPT !.m.rchan = msg.chan, !.m.rmid = msg.mid, !.m.pos = msg.pos,
                 !.m.loc = "JOINPEND",
                 !.l1 = {JoinAccept(msg.chan, msg.mid, memb[c].lchan)}]

Reciprocated(c, msg) ==
  IF memb[c].rem = "JOINPEND" THEN firstACK(Linked(c, msg)) ELSE Linked(c, msg)

LEMMA JoinRecipSound ==
  ASSUME IInv, NEW c \in Comp, NEW msg \in net, joinRecip(c, msg)
  PROVE  /\ memb[c] # Gone /\ memb[c] \in Member /\ Linked(c, msg) \in CtxT
         /\ SoundCtx(Reciprocated(c, msg)) /\ Commit(c, Reciprocated(c, msg))
<1> DEFINE m == memb[c]
           n == [m EXCEPT !.rchan = msg.chan, !.rmid = msg.mid,
                          !.pos = msg.pos, !.loc = "JOINPEND"]
           f == [n EXCEPT !.loc = "MEMBER"]
           x == [Ctx(c) EXCEPT !.m.rchan = msg.chan, !.m.rmid = msg.mid,
                               !.m.pos = msg.pos, !.m.loc = "JOINPEND",
                               !.l1 = {JoinAccept(msg.chan, msg.mid, m.lchan)}]
           y == IF m.rem = "JOINPEND" THEN firstACK(x) ELSE x
<1>1. /\ m \in Member /\ Sound(m) /\ m # Gone /\ m.lchan \in Chans
      /\ m.rem \in Pending /\ m.rchan = 0
      /\ SoundCtx(Ctx(c)) /\ Ctx(c).m = m
  BY MemberTyped, CtxSound DEF joinRecip
<1>2. msg.chan \in Chans /\ msg.mid \in Nat /\ msg.pos \in Nat
  BY DEF joinRecip, ReceivesJoin, IInv, TypeOK, Message
<1>3. n \in Member /\ n.timer = m.timer /\ n.lchan = m.lchan /\ n.rem = m.rem
      /\ n.rchan # 0 /\ n.timer # "off"
  <2>1. m.timer # "off" BY <1>1 DEF Sound, Timed
  <2>2. msg.chan \in 0 .. MaxChan /\ msg.chan # 0
    BY <1>2, SessionAssumption DEF Chans
  <2>3. n \in Member BY <1>1, <1>2, <2>2 DEF Member, MState
  <2> QED BY <1>1, <2>1, <2>2, <2>3 DEF Member
<1>4. x \in CtxT /\ x.m = n
  <2>1. {JoinAccept(msg.chan, msg.mid, m.lchan)} \subseteq Message
    BY <1>1, <1>2, SessionAssumption DEF JoinAccept, Message, Chans
  <2>2. x = [[Ctx(c) EXCEPT !.m = n]
                EXCEPT !.l1 = {JoinAccept(msg.chan, msg.mid, m.lchan)}]
    BY <1>1 DEF SoundCtx, CtxT, Ctx
  <2> HIDE DEF n
  <2> QED BY <1>1, <1>3, <2>1, <2>2 DEF SoundCtx, CtxT
<1>5. ASSUME m.rem = "JOINPEND" PROVE SoundCtx(y)
  <2>1. f \in Member /\ f.timer # "off" /\ f.lchan \in Chans
    BY <1>1, <1>3 DEF Member, MState
  <2>2. HalvesInStep(f) /\ Timed(f)
    BY <1>1, <1>3, <1>5, <2>1
       DEF Sound, HalvesInStep, Timed, Member, Joined
  <2>3. f = [x.m EXCEPT !.loc = "MEMBER"] BY <1>4
  <2>4. SoundCtx(firstACK(x))
    <3> HIDE DEF f, x
    <3> QED BY <1>4, <2>1, <2>2, <2>3, firstACKSound
  <2> QED BY <1>5, <2>4
<1>6. ASSUME m.rem = "JOINRQ" PROVE SoundCtx(y)
  <2>1. HalvesInStep(n) /\ Timed(n)
    BY <1>1, <1>3, <1>6 DEF Sound, HalvesInStep, Timed, Member, Joined
  <2>2. Sound(n) BY <1>1, <1>3, <2>1 DEF Sound
  <2> HIDE DEF n, x
  <2>3. SoundCtx(x) BY <1>4, <2>2 DEF SoundCtx
  <2> QED BY <1>6, <2>3
<1>7. SoundCtx(y) BY <1>1, <1>5, <1>6 DEF Pending
<1>8. Commit(c, y) BY DEF joinRecip
<1>9. x = Linked(c, msg) /\ y = Reciprocated(c, msg) BY DEF Linked, Reciprocated
<1> HIDE DEF x, y
<1> QED BY <1>1, <1>4, <1>7, <1>8, <1>9

LEMMA JoinRecipStep ==
  ASSUME IInv, NEW c \in Comp, NEW msg \in net, joinRecip(c, msg)
  PROVE  IInv'
<1>1. Rest BY RestUnchanged DEF joinRecip
<1> QED BY <1>1, JoinRecipSound, CommitSound

\* A freshly made member that has sent its Join.
LEMMA NewMemberStep ==
  ASSUME IInv, NEW c \in Comp, NEW new \in Member, Sound(new),
         memb' = [memb EXCEPT ![c] = new],
         NEW msgs \in SUBSET Message, Answer(msgs), told' = [told EXCEPT ![c] = {}],
         open' \subseteq Chans, Rest, log' = log
  PROVE  IInv'
<1>1. memb' \in [Comp -> Member] /\ \A k \in Comp : Sound(memb'[k])
  BY DEF IInv, TypeOK
<1>2. told' \in [Comp -> SUBSET Events] BY DEF IInv, TypeOK
<1>3. TypeOK' BY <1>1, <1>2 DEF IInv, TypeOK, Answer, Rest
<1> QED BY <1>1, <1>3 DEF IInv, Sound

LEMMA sendJoinSound ==
  ASSUME IInv, NEW m \in Member, m.lchan \in Chans
  PROVE  sendJoin(m) \in Message
<1>1. log[m.lchan] \in Seq(WrapperT) BY DEF IInv, TypeOK
<1>2. Len(log[m.lchan]) \in Nat BY <1>1
<1> QED BY <1>2, SessionAssumption DEF sendJoin, Join, Message, Member

LEMMA JoinColdStep ==
  ASSUME IInv, NEW c \in Comp, NEW msg \in net, joinCold(c, msg)
  PROVE  IInv'
<1> DEFINE new == [rem |-> "JOINRQ", loc |-> "JOINPEND", timer |-> "join",
              t_ms |-> 0, maktries |-> 0, lchan |-> nextChan, mid |-> 1,
              rchan |-> msg.chan, rmid |-> msg.mid, pos |-> msg.pos,
              connect |-> {}]
           msgs == {JoinAccept(msg.chan, msg.mid, nextChan), sendJoin(new)}
<1>1. /\ msg.chan \in Chans /\ msg.mid \in Nat /\ msg.pos \in Nat
      /\ nextChan \in Chans /\ MaxChan \in Nat
  BY SessionAssumption DEF joinCold, ReceivesJoin, IInv, TypeOK, Message
<1>2. new \in Member
  BY <1>1, SessionAssumption DEF Member, MState, Timers, Chans
<1>3. Sound(new)
  BY <1>1, <1>2 DEF Sound, HalvesInStep, Timed, Joined, Chans
<1>4. msgs \in SUBSET Message
  <2>1. JoinAccept(msg.chan, msg.mid, nextChan) \in Message
    BY <1>1 DEF JoinAccept, Message, Chans
  <2>2. new.lchan \in Chans BY <1>1
  <2> HIDE DEF new
  <2> QED BY <1>2, <2>1, <2>2, sendJoinSound
<1>5. /\ memb' = [memb EXCEPT ![c] = new] /\ Answer(msgs)
      /\ told' = [told EXCEPT ![c] = {}] /\ log' = log
      /\ open' \subseteq Chans /\ Rest
  BY <1>1 DEF joinCold, IInv, TypeOK, Rest, Chans
<1> HIDE DEF new, msgs
<1> QED BY <1>2, <1>3, <1>4, <1>5, NewMemberStep

LEMMA JoinStep ==
  ASSUME IInv, NEW c \in Comp, NEW msg \in net, rx_join(c, msg)
  PROVE  IInv'
<1>1. msg \in Message BY DEF IInv, TypeOK
<1>2. ASSUME ReceivesJoin(c, msg)
      PROVE  msg.chan \in Chans /\ msg.mid \in Nat
             /\ JoinRefuse(msg.chan, msg.mid) \in Message
             /\ Leaving(msg.chan, msg.mid) \in Message
  <2>1. msg.chan \in Chans /\ msg.mid \in Nat
    BY <1>1, <1>2 DEF ReceivesJoin, Message
  <2> QED BY <2>1, SessionAssumption DEF JoinRefuse, Leaving, Message, Chans
<1>3. ASSUME NEW recip \in Nat, ReceivesJoin(c, msg)
      PROVE  JoinAccept(msg.chan, msg.mid, recip) \in Message
  BY <1>2, <1>3, SessionAssumption DEF JoinAccept, Message, Chans
<1>4. CASE joinRepeated(c, msg)
  <2>1. memb[c].lchan \in Nat BY <1>4, MemberTyped, SessionAssumption DEF Member
  <2> QED BY <1>2, <1>3, <1>4, <2>1, AnswerStep
          DEF joinRepeated, IInv, TypeOK
<1>5. CASE joinRecip(c, msg) BY <1>5, JoinRecipStep
<1>6. CASE joinRefused(c, msg)
  BY <1>2, <1>6, AnswerStep DEF joinRefused, IInv, TypeOK
<1>7. CASE joinAbortNull(c, msg)
  <2>1. TypeOK' BY <1>7 DEF joinAbortNull, IInv, TypeOK
  <2> QED BY <1>7, <2>1 DEF joinAbortNull, IInv, Sound
<1>8. CASE joinCold(c, msg) BY <1>8, JoinColdStep
<1>9. CASE joinColdFails(c, msg)
  <2>1. nextChan \in Nat /\ nextChan \in Chans /\ nextChan' = nextChan + 1
        /\ nextChan' \in 2 .. MaxChan + 1
    BY <1>9, SessionAssumption DEF joinColdFails, IInv, TypeOK, Chans
  <2>2. net' \subseteq Message
    BY <1>2, <1>3, <1>9, <2>1 DEF joinColdFails, Answer, IInv, TypeOK
  <2>3. TypeOK' BY <1>9, <2>1, <2>2 DEF joinColdFails, IInv, TypeOK
  <2> QED BY <1>9, <2>3 DEF joinColdFails, IInv, Sound
<1> QED BY <1>4, <1>5, <1>6, <1>7, <1>8, <1>9 DEF rx_join
-----------------------------------------------------------------------------
(***************************************************************************)
(* The actions: the application, the timers, the processes.                *)
(***************************************************************************)
LEMMA AddMemberStep ==
  ASSUME IInv, NEW mid \in Mids, addMember(mid)
  PROVE  IInv'
<1> DEFINE new == [Gone EXCEPT !.rem = "JOINRQ", !.timer = "join",
                               !.lchan = LdrChan, !.mid = mid,
                               !.connect = {"LOCINIT"}]
<1>1. LdrChan \in Chans /\ mid \in Nat /\ Ldr \in Comp
  BY SessionAssumption DEF LdrChan, Chans, Comp
<1>2. new \in Member
  <2>1. LdrChan \in 0 .. MaxChan
    BY SessionAssumption DEF LdrChan
  <2>2. {"LOCINIT"} \in SUBSET Flags BY DEF Flags
  <2> QED BY <1>1, <2>1, <2>2, GoneSound DEF Member, MState, Timers
<1>3. Sound(new)
  BY <1>1, <1>2 DEF Sound, HalvesInStep, Timed, Joined, Gone
<1>4. {sendJoin(new)} \in SUBSET Message
  <2> new.lchan \in Chans BY <1>1 DEF Gone
  <2> HIDE DEF new
  <2> QED BY <1>2, sendJoinSound
<1>5. /\ memb' = [memb EXCEPT ![Ldr] = new] /\ Answer({sendJoin(new)})
      /\ told' = [told EXCEPT ![Ldr] = {}] /\ log' = log
      /\ open' \subseteq Chans /\ Rest
  BY RestUnchanged DEF addMember, IInv, TypeOK
<1> HIDE DEF new
<1> QED BY <1>1, <1>2, <1>3, <1>4, <1>5, NewMemberStep

LEMMA AddClientStep ==
  ASSUME IInv, NEW c \in Comp, sdt_addClient(c)
  PROVE  IInv'
<1> DEFINE x == Ctx(c)
           y == IF c = Flw \/ AutoCon THEN connectAll(x) ELSE x
<1>1. SoundCtx(x) /\ x.m = memb[c] /\ x.tx = <<>> BY CtxSound
<1>2. SoundCtx(y)
  <2> HIDE DEF x
  <2>1. SoundCtx(SDTwrap(x, "CONNECT")) BY <1>1, SDTwrapSound DEF Bodies
  <2> QED BY <1>1, <2>1 DEF connectAll
<1>3. memb[c] = Gone => y.tx = <<>> BY <1>1 DEF connectAll, Gone
<1>4. Commit(c, y) BY DEF sdt_addClient
<1>5. Rest BY DEF sdt_addClient, Rest, IInv, TypeOK
<1> HIDE DEF y
<1> QED BY <1>2, <1>3, <1>4, <1>5, CommitSound

LEMMA DisconnectAllSound ==
  ASSUME NEW x, SoundCtx(x)
  PROVE  SoundCtx(disconnectAll(x))
<1> DEFINE S  == x.m.connect \ {"CLIENTLOC", "CLIENTREM"}
           x1 == [x EXCEPT !.m.connect = S]
           bodies == {b \in {"DISCONNECT", "DISCONNECTING"} :
                        \/ b = "DISCONNECT"    /\ "CLIENTLOC" \in x.m.connect
                        \/ b = "DISCONNECTING" /\ "CLIENTREM" \in x.m.connect
                                              /\ "CLIENTLOC" \notin x.m.connect}
<1>1. CASE bodies = {} BY <1>1 DEF disconnectAll
<1>2. CASE bodies # {}
  <2>1. x.m # Gone BY <1>2 DEF Gone
  <2>2. S \in SUBSET Flags /\ ("SDT" \in S <=> "SDT" \in x.m.connect)
    BY DEF SoundCtx, CtxT, Member
  <2>3. SoundCtx(x1)
    <3> HIDE DEF S
    <3> QED BY <2>1, <2>2, ConnectFlagsSound
  <2>4. bodies \in SUBSET Bodies BY DEF Bodies
  <2>5. AutoAck(x.m) \in BOOLEAN BY DEF AutoAck
  <2>6. disconnectAll(x) = SendWrap(x1, TRUE, bodies, AutoAck(x.m), FALSE)
    BY <1>2 DEF disconnectAll
  <2> HIDE DEF x1, bodies
  <2> QED BY <2>3, <2>4, <2>5, <2>6, SendWrapSound
<1> QED BY <1>1, <1>2

LEMMA DropClientStep ==
  ASSUME IInv, NEW c \in Comp, sdt_dropClient(c)
  PROVE  IInv'
<1> DEFINE x == Ctx(c)
<1>1. SoundCtx(x) /\ x.m = memb[c] /\ x.tx = <<>> BY CtxSound
<1>2. SoundCtx(disconnectAll(x)) BY <1>1, DisconnectAllSound
<1>3. memb[c] = Gone => disconnectAll(x).tx = <<>>
  BY <1>1 DEF disconnectAll, Gone
<1>4. Commit(c, disconnectAll(x)) BY DEF sdt_dropClient
<1>5. Rest BY DEF sdt_dropClient, Rest, IInv, TypeOK
<1> QED BY <1>2, <1>3, <1>4, <1>5, CommitSound

LEMMA AppStep ==
  ASSUME IInv, NEW c \in Comp, App(c)
  PROVE  IInv'
<1>1. CASE drop_member(c) BY <1>1, KillStep DEF drop_member
<1>2. CASE sdt_addClient(c) BY <1>2, AddClientStep
<1>3. CASE sdt_dropClient(c) BY <1>3, DropClientStep
<1>4. CASE StaleMemberRead(c)
  BY <1>4 DEF StaleMemberRead, IInv, TypeOK, Sound
<1> QED BY <1>1, <1>2, <1>3, <1>4 DEF App

\* Counting a retry changes neither the state of a member nor its timer.
LEMMA RetrySound ==
  ASSUME NEW x, SoundCtx(x), x.m # Gone, NEW n \in Member,
         n.rem = x.m.rem, n.loc = x.m.loc, n.timer = x.m.timer,
         n.rchan = x.m.rchan, n.lchan = x.m.lchan, n.connect = x.m.connect
  PROVE  SoundCtx([x EXCEPT !.m = n])
<1>1. HalvesInStep(n) /\ Timed(n) /\ n.timer # "off"
  BY DEF SoundCtx, Sound, HalvesInStep, Timed
<1> QED BY <1>1, MemberSound

Resent(c) == SendL1([Ctx(c) EXCEPT !.m.t_ms = @ + 1], sendJoin(memb[c]))

LEMMA ResentSound ==
  ASSUME IInv, NEW c \in Comp, Live(c), ~ giveUp(memb[c])
  PROVE  SoundCtx(Resent(c)) /\ memb[c] \in Member /\ memb[c] # Gone
<1> DEFINE m == memb[c]
           n == [m EXCEPT !.t_ms = @ + 1]
           x == [Ctx(c) EXCEPT !.m = n]
<1>1. /\ m # Gone /\ m \in Member /\ Sound(m) /\ m.lchan \in Chans
      /\ SoundCtx(Ctx(c)) /\ Ctx(c).m = m
  BY MemberTyped, CtxSound DEF Live
<1>2. n.t_ms \in 0 .. AdHocRetries + 1
  BY <1>1, SessionAssumption DEF giveUp, Member
<1>3. n \in Member BY <1>1, <1>2 DEF Member
<1>4. SoundCtx(x)
  <2>1. n.rem = m.rem /\ n.loc = m.loc /\ n.timer = m.timer
        /\ n.rchan = m.rchan /\ n.lchan = m.lchan /\ n.connect = m.connect
    BY <1>1 DEF Member
  <2> HIDE DEF n
  <2> QED BY <1>1, <1>3, <2>1, RetrySound
<1>5. [Ctx(c) EXCEPT !.m.t_ms = @ + 1] = x
  BY <1>1 DEF SoundCtx, CtxT, Ctx
<1> HIDE DEF x
<1> QED BY <1>1, <1>4, <1>5, sendJoinSound, SendL1Sound DEF Resent

LEMMA JoinTimeoutStep ==
  ASSUME IInv, NEW c \in Comp, joinTimeoutAction(c)
  PROVE  IInv'
<1>1. Live(c) /\ Rest BY RestUnchanged DEF joinTimeoutAction
<1>2. CASE Commit(c, killMember(Ctx(c), "JOINFAIL"))
  BY <1>1, <1>2, KillStep DEF joinTimeoutAction
<1>3. CASE ~ giveUp(memb[c]) /\ Commit(c, Resent(c))
  BY <1>1, <1>3, ResentSound, CommitSound
<1> QED BY <1>2, <1>3 DEF joinTimeoutAction, Resent

Asked(c) ==
  SendWrap([Ctx(c) EXCEPT !.m.maktries = @ - 1], FALSE, {}, AutoAck(memb[c]), TRUE)

LEMMA AskedSound ==
  ASSUME IInv, NEW c \in Comp, Live(c), memb[c].maktries # 0
  PROVE  SoundCtx(Asked(c)) /\ memb[c] \in Member /\ memb[c] # Gone
<1> DEFINE m == memb[c]
           n == [m EXCEPT !.maktries = @ - 1]
           x == [Ctx(c) EXCEPT !.m = n]
           w == SendWrap([Ctx(c) EXCEPT !.m.maktries = @ - 1],
                         FALSE, {}, AutoAck(m), TRUE)
<1>1. /\ m # Gone /\ m \in Member /\ Sound(m) /\ m.lchan \in Chans
      /\ SoundCtx(Ctx(c)) /\ Ctx(c).m = m
  BY MemberTyped, CtxSound DEF Live
<1>2. n.maktries \in 0 .. MakRetries + 1
  BY <1>1, SessionAssumption DEF Member
<1>3. n \in Member BY <1>1, <1>2 DEF Member
<1>4. SoundCtx(x)
  <2>1. n.rem = m.rem /\ n.loc = m.loc /\ n.timer = m.timer
        /\ n.rchan = m.rchan /\ n.lchan = m.lchan /\ n.connect = m.connect
    BY <1>1 DEF Member
  <2> HIDE DEF n
  <2> QED BY <1>1, <1>3, <2>1, RetrySound
<1>5. [Ctx(c) EXCEPT !.m.maktries = @ - 1] = x
  BY <1>1 DEF SoundCtx, CtxT, Ctx
<1>6. SoundCtx(w)
  <2>1. AutoAck(m) \in BOOLEAN BY DEF AutoAck
  <2>2. {} \in SUBSET Bodies OBVIOUS
  <2> HIDE DEF x
  <2> QED BY <1>4, <1>5, <2>1, <2>2, SendWrapSound
<1> QED BY <1>1, <1>6 DEF Asked

LEMMA MakTimeoutStep ==
  ASSUME IInv, NEW c \in Comp, makTimeoutAction(c)
  PROVE  IInv'
<1>1. Live(c) /\ Rest BY RestUnchanged DEF makTimeoutAction
<1>2. CASE memb[c].maktries = 0
  BY <1>1, <1>2, KillStep DEF makTimeoutAction
<1>3. CASE memb[c].maktries # 0
  <2>1. Commit(c, Asked(c)) BY <1>3 DEF makTimeoutAction, Asked
  <2> QED BY <1>1, <1>3, <2>1, AskedSound, CommitSound
<1> QED BY <1>2, <1>3

LEMMA TimeoutStep ==
  ASSUME IInv, NEW c \in Comp, Timeout(c)
  PROVE  IInv'
<1>1. CASE joinTimeoutAction(c) BY <1>1, JoinTimeoutStep
<1>2. CASE recipTimeoutAction(c) BY <1>2, KillStep DEF recipTimeoutAction
<1>3. CASE makTimeoutAction(c) BY <1>3, MakTimeoutStep
<1>4. CASE keepaliveAction(c)
  <2> DEFINE w == SendWrap(Ctx(c), FALSE, {}, TRUE, FALSE)
  <2>1. {} \in SUBSET Bodies OBVIOUS
  <2>2. SoundCtx(w) BY <2>1, CtxSound, SendWrapSound
  <2>3. Commit(c, w) /\ memb[c] # Gone BY <1>4 DEF keepaliveAction, Live
  <2> HIDE DEF w
  <2> QED BY <1>4, <2>2, <2>3, RestUnchanged, CommitSound DEF keepaliveAction
<1> QED BY <1>1, <1>2, <1>3, <1>4 DEF Timeout

LEMMA ReceiveStep ==
  ASSUME IInv, NEW c \in Comp, Receive(c)
  PROVE  IInv'
<1>1. ASSUME NEW msg \in net, rx_join(c, msg) PROVE IInv' BY <1>1, JoinStep
<1>2. ASSUME NEW msg \in net, rx_joinAccept(c, msg) PROVE IInv'
  BY <1>2, JoinAcceptStep
<1>3. ASSUME NEW msg \in net, rx_joinRefuse(c, msg) PROVE IInv'
  BY <1>3, KillStep DEF rx_joinRefuse, Finds
<1>4. ASSUME NEW msg \in net, rx_leaving(c, msg) PROVE IInv'
  BY <1>4, KillStep DEF rx_leaving, Finds
<1>5. ASSUME NEW i, rx_wrapper(c, i) PROVE IInv' BY <1>5, WrapperStep
<1>6. CASE LoseSequence(c) BY <1>6, KillStep DEF LoseSequence
<1> QED BY <1>1, <1>2, <1>3, <1>4, <1>5, <1>6 DEF Receive

LEMMA RestartStep ==
  ASSUME IInv, FlwRestarts
  PROVE  IInv'
<1>1. memb' \in [Comp -> Member] /\ \A k \in Comp : Sound(memb'[k])
  BY GoneSound DEF FlwRestarts, IInv, TypeOK
<1>2. TypeOK' BY <1>1 DEF FlwRestarts, IInv, TypeOK
<1> QED BY <1>1, <1>2 DEF IInv, Sound

-----------------------------------------------------------------------------
LEMMA InitIInv == Init => IInv
<1> SUFFICES ASSUME Init PROVE IInv OBVIOUS
<1>1. memb \in [Comp -> Member] /\ \A c \in Comp : Sound(memb[c])
  BY GoneSound DEF Init
<1>2. TypeOK BY <1>1, SessionAssumption DEF Init, TypeOK, Chans
<1> QED BY <1>1, <1>2 DEF IInv

LEMMA NextIInv == IInv /\ [Next]_vars => IInv'
<1> SUFFICES ASSUME IInv, [Next]_vars PROVE IInv' OBVIOUS
<1>1. ASSUME NEW mid \in Mids, addMember(mid) PROVE IInv'
  BY <1>1, AddMemberStep
<1>2. ASSUME NEW c \in Comp, Receive(c) PROVE IInv' BY <1>2, ReceiveStep
<1>3. ASSUME NEW c \in Comp, Timeout(c) PROVE IInv' BY <1>3, TimeoutStep
<1>4. ASSUME NEW c \in Comp, App(c) PROVE IInv' BY <1>4, AppStep
<1>5. CASE LdrStops BY <1>5 DEF LdrStops, IInv, TypeOK, Sound
<1>6. CASE FlwRestarts BY <1>6, RestartStep
<1>7. CASE UNCHANGED vars BY <1>7 DEF vars, IInv, TypeOK, Sound
<1> QED BY <1>1, <1>2, <1>3, <1>4, <1>5, <1>6, <1>7 DEF Next

(***************************************************************************)
(* Every variable keeps its type, whatever the number of MIDs, channels,   *)
(* retries and wrappers (the state of sdt.c's member_s and its counters).  *)
(***************************************************************************)
THEOREM Typed == Spec => []TypeOK
<1>1. IInv => TypeOK BY DEF IInv
<1> QED BY InitIInv, NextIInv, <1>1, PTL DEF Spec

(***************************************************************************)
(* The halves of a member advance in step, and CX_SDT means joined both    *)
(* ways, at both ends and in every execution (rx_join, rx_joinAccept,      *)
(* rx_ack, setFullMember, killMember of sdt.c).                            *)
(***************************************************************************)
THEOREM Ordered == Spec => []HandshakeOrder
<1>1. IInv => HandshakeOrder BY DEF IInv, Sound, HandshakeOrder
<1> QED BY InitIInv, NextIInv, <1>1, PTL DEF Spec

(***************************************************************************)
(* No member is ever without the timer that ends it when the peer goes     *)
(* silent (the users of rem.stateTimer in sdt.c).                          *)
(***************************************************************************)
THEOREM AlwaysTimed == Spec => []NeverUntimed
<1>1. IInv => NeverUntimed BY DEF IInv, Sound, NeverUntimed
<1> QED BY InitIInv, NextIInv, <1>1, PTL DEF Spec

-----------------------------------------------------------------------------
(***************************************************************************)
(* Proofs about both ends of a session of SdtSession and the messages      *)
(* between them: that two ends that hold the session to be up are on each  *)
(* other's channels, and that the follower has the channel of its member   *)
(* open and no other.  A handler is followed from the context it starts    *)
(* with to the one it commits.                                             *)
(***************************************************************************)
\* A member that has not heard from its peer since its cold Join.
Quiet(m) ==
  /\ m.rem \in {"NULL", "JOINRQ"} /\ m.loc # "MEMBER"
  /\ "CLIENTLOC" \notin m.connect /\ "CLIENTREM" \notin m.connect

Same(m, n) ==
  n.lchan = m.lchan /\ n.mid = m.mid /\ n.rchan = m.rchan /\ n.rmid = m.rmid

\* From x to y the member keeps its channels or is killed.
Keeps(x, y) ==
  /\ y.m = Gone \/ (x.m # Gone /\ Same(x.m, y.m))
  /\ \A n \in y.l1 \ x.l1 : n.type \in {"JOINREFUSE", "LEAVING"}

Follows(x, y) ==
  /\ Keeps(x, y)
  /\ Quiet(x.m) => y.tx = x.tx /\ Quiet(y.m)

\* The reciprocal channels the leader has accepted, ever.
Accepts  == {n \in net : n.type = "JOINACCEPT" /\ n.recip = LdrChan}
Accepted == {n.chan : n \in Accepts}
Others   == Accepted \ {memb[Ldr].rchan}

\* Who owns the channels that members and Joins name.
LdrWired ==
  /\ memb[Ldr] # Gone => memb[Ldr].lchan = LdrChan
  /\ memb[Ldr].rchan # 0 => memb[Ldr].rchan \in Accepted /\ memb[Ldr].rmid = 1

FlwWired ==
  memb[Flw] # Gone =>
    /\ memb[Flw].rchan = LdrChan /\ memb[Flw].mid = 1
    /\ memb[Flw].lchan = nextChan - 1 /\ memb[Flw].lchan \in 2 .. MaxChan

JoinWired(n) ==
  n.type = "JOIN" => IF n.recip = LdrChan
                     THEN n.chan \in 2 .. nextChan - 1 /\ n.mid = 1
                     ELSE n.chan = LdrChan

Wired ==
  /\ LdrWired /\ FlwWired
  /\ LdrChan \notin open
  /\ \A n \in net : JoinWired(n)
  /\ Accepted \subseteq 2 .. nextChan - 1
  /\ ~ SendFail => RecipChannelOwned

\* A channel carries wrappers only once the leader has accepted it.
Heard ==
  /\ ~ Quiet(memb[Flw]) => memb[Flw].lchan \in Accepted
  /\ \A ch \in Chans : Len(log[ch]) <= MaxWrap
  /\ \A ch \in Chans : ch # LdrChan /\ log[ch] # <<>> => ch \in Accepted
  /\ memb[Ldr].rem = "MEMBER" => log[memb[Ldr].rchan] # <<>>

\* An addMember accepts one channel at most.  With two of them, the one the
\* leader is joined to now, if it has ever carried an ACK, is the latest.
Attempts ==
  /\ adds \in Nat
  /\ adds = 0 => memb[Ldr] = Gone /\ Accepted = {}
  /\ adds = 1 => \A a, b \in Accepted : a = b
  /\ adds = 1 /\ memb[Ldr] # Gone => Others = {}
  /\ adds = 2 /\ memb[Ldr] # Gone => \A a, b \in Others : a = b
  /\ adds <= 2 /\ memb[Ldr].rchan # 0 /\ log[memb[Ldr].rchan] # <<>> =>
       \A f \in Accepted : f <= memb[Ldr].rchan

PeersInv == IInv /\ Wired /\ Heard /\ Attempts

-----------------------------------------------------------------------------
(***************************************************************************)
(* Contexts: every function a handler is built from keeps the member's     *)
(* channels, and a quiet member sends nothing.                             *)
(***************************************************************************)
LEMMA KeepsSelf ==
  ASSUME NEW x
  PROVE  Follows(x, x)
  BY DEF Follows, Keeps, Same

LEMMA KeepsTrans ==
  ASSUME NEW x, NEW y, NEW z, Keeps(x, y), Keeps(y, z)
  PROVE  Keeps(x, z)
<1>1. z.m = Gone \/ (x.m # Gone /\ Same(x.m, z.m))
  BY DEF Keeps, Same
<1>2. ASSUME NEW n \in z.l1 \ x.l1 PROVE n.type \in {"JOINREFUSE", "LEAVING"}
  BY <1>2 DEF Keeps
<1> QED BY <1>1, <1>2 DEF Keeps

LEMMA FollowsTrans ==
  ASSUME NEW x, NEW y, NEW z, Follows(x, y), Follows(y, z)
  PROVE  Follows(x, z)
<1>1. Keeps(x, z) BY KeepsTrans DEF Follows
<1> QED BY <1>1 DEF Follows

LEMMA TellKeeps ==
  ASSUME NEW x, SoundCtx(x), NEW e
  PROVE  Follows(x, Tell(x, e)) /\ Tell(x, e).m = x.m
<1>1. Tell(x, e).m = x.m /\ Tell(x, e).l1 = x.l1 /\ Tell(x, e).tx = x.tx
  BY DEF SoundCtx, CtxT, Tell
<1> HIDE DEF Tell
<1> QED BY <1>1 DEF Follows, Keeps, Same

\* Wrappers do not touch the member.
LEMMA SendKeeps ==
  ASSUME NEW x, SoundCtx(x), NEW r, NEW b, NEW a, NEW k
  PROVE  /\ Keeps(x, SendWrap(x, r, b, a, k))
         /\ SendWrap(x, r, b, a, k).m = x.m
<1> DEFINE y == SendWrap(x, r, b, a, k)
<1>1. y.m = x.m /\ y.l1 = x.l1 BY DEF SoundCtx, CtxT, SendWrap
<1> HIDE DEF y
<1>2. Keeps(x, y) BY <1>1 DEF Keeps, Same
<1> QED BY <1>1, <1>2 DEF y

LEMMA SDTwrapKeeps ==
  ASSUME NEW x, SoundCtx(x), NEW b
  PROVE  Keeps(x, SDTwrap(x, b)) /\ SDTwrap(x, b).m = x.m
<1> DEFINE y == SendWrap(x, TRUE, {b}, AutoAck(x.m), FALSE)
<1>1. Keeps(x, y) BY SendKeeps
<1>2. y.m = x.m BY DEF SoundCtx, CtxT, SendWrap
<1> HIDE DEF Keeps
<1> QED BY <1>1, <1>2 DEF SDTwrap

LEMMA FarewellKeeps ==
  ASSUME NEW x, SoundCtx(x), NEW n, n.type \in {"JOINREFUSE", "LEAVING"}
  PROVE  Follows(x, SendL1(x, n)) /\ SendL1(x, n).m = x.m
<1> DEFINE y == SendL1(x, n)
<1>1. y.m = x.m /\ y.l1 = x.l1 \cup {n} /\ y.tx = x.tx
  BY DEF SoundCtx, CtxT, SendL1
<1> HIDE DEF y
<1>2. Follows(x, y) BY <1>1 DEF Follows, Keeps, Same
<1> QED BY <1>1, <1>2 DEF y

\* Nothing is owed to a peer that was never heard of.
LEMMA KillFollows ==
  ASSUME NEW x, SoundCtx(x), NEW e
  PROVE  Follows(x, killMember(x, e))
<1> DEFINE m  == x.m
           x1 == IF Farewell(m) = {} THEN x
                 ELSE SendWrap(x, TRUE, Farewell(m), AutoAck(m), FALSE)
           x2 == IF m.loc \in Pending THEN SendL1(x1, JoinRefuse(m.rchan, m.rmid))
                 ELSE IF m.loc = "MEMBER"
                      THEN SendL1(x1, Leaving(m.rchan, m.rmid))
                      ELSE x1
           x3 == IF "SDT" \in m.connect THEN Tell(x2, "LOCLEAVE") ELSE x2
           x4 == IF e \in Events THEN Tell(x3, e) ELSE x3
<1>1. m \in Member BY DEF SoundCtx, CtxT
<1>2. SoundCtx(x1) /\ Follows(x, x1)
  <2>1. Farewell(m) \in SUBSET Bodies /\ AutoAck(m) \in BOOLEAN
    BY DEF Farewell, Bodies, AutoAck
  <2>2. SoundCtx(x1) BY <2>1, SendWrapSound
  <2>3. Quiet(m) => Farewell(m) = {}
    BY DEF Quiet, Farewell, Joined
  <2>4. Keeps(x, SendWrap(x, TRUE, Farewell(m), AutoAck(m), FALSE))
    BY SendKeeps
  <2>5. CASE Farewell(m) = {} BY <2>2, <2>5, KeepsSelf
  <2>6. CASE Farewell(m) # {}
    <3>1. ~ Quiet(x.m) BY <2>3, <2>6
    <3>2. x1 = SendWrap(x, TRUE, Farewell(m), AutoAck(m), FALSE) BY <2>6
    <3> QED BY <2>2, <2>4, <3>1, <3>2 DEF Follows
  <2> QED BY <2>5, <2>6
<1>3. SoundCtx(x2) /\ Follows(x, x2)
  <2>1. JoinRefuse(m.rchan, m.rmid) \in Message
        /\ Leaving(m.rchan, m.rmid) \in Message
    BY <1>1, SessionAssumption DEF Member, JoinRefuse, Leaving, Message
  <2>2. JoinRefuse(m.rchan, m.rmid).type = "JOINREFUSE"
        /\ Leaving(m.rchan, m.rmid).type = "LEAVING"
    BY DEF JoinRefuse, Leaving
  <2> HIDE DEF x1
  <2>3. Follows(x1, SendL1(x1, JoinRefuse(m.rchan, m.rmid)))
        /\ Follows(x1, SendL1(x1, Leaving(m.rchan, m.rmid)))
    BY <1>2, <2>2, FarewellKeeps
  <2> QED BY <1>2, <2>1, <2>3, SendL1Sound, FollowsTrans
<1>4. SoundCtx(x3) /\ Follows(x, x3)
  <2> HIDE DEF x2
  <2> QED BY <1>3, TellSound, TellKeeps, FollowsTrans DEF Events
<1>5. SoundCtx(x4) /\ Follows(x, x4)
  <2> HIDE DEF x3
  <2> QED BY <1>4, TellSound, TellKeeps, FollowsTrans
<1>6. killMember(x, e) = [x4 EXCEPT !.m = Gone]
  BY DEF killMember
<1> HIDE DEF x4
<1>7. /\ killMember(x, e).m = Gone /\ killMember(x, e).l1 = x4.l1
      /\ killMember(x, e).tx = x4.tx
  BY <1>5, <1>6 DEF SoundCtx, CtxT
<1>8. Quiet(Gone) BY DEF Quiet, Gone
<1> HIDE DEF killMember
<1> QED BY <1>5, <1>7, <1>8 DEF Follows, Keeps

-----------------------------------------------------------------------------
(***************************************************************************)
(* The wrapped messages.                                                   *)
(***************************************************************************)
LEMMA FlagsKeep ==
  ASSUME NEW x, SoundCtx(x), x.m # Gone, NEW S
  PROVE  Keeps(x, [x EXCEPT !.m.connect = S])
<1>1. x.m \in Member /\ x \in CtxT BY DEF SoundCtx, CtxT
<1> DEFINE y == [x EXCEPT !.m.connect = S]
<1>2. y.m = [x.m EXCEPT !.connect = S] /\ y.l1 = x.l1
  BY <1>1 DEF CtxT
<1>3. Same(x.m, [x.m EXCEPT !.connect = S])
  BY <1>1 DEF Same, Member
<1> HIDE DEF y
<1>4. Keeps(x, y) BY <1>2, <1>3 DEF Keeps
<1> QED BY <1>4 DEF y

LEMMA ConnectKeeps ==
  ASSUME NEW x, SoundCtx(x), x.m # Gone, NEW c
  PROVE  Keeps(x, rx_connect(c, x))
<1> DEFINE x1 == SDTwrap(x, "CONACCEPT")
<1>1. SoundCtx(x1) BY SDTwrapSound DEF Bodies
<1>2. Keeps(x, x1) /\ x1.m = x.m /\ Keeps(x, SDTwrap(x, "CONREFUSE"))
  BY SDTwrapKeeps
<1>3. Keeps(x, [x1 EXCEPT !.m.connect = @ \cup {"CLIENTREM"}])
  <2> HIDE DEF x1
  <2> DEFINE S == x1.m.connect \cup {"CLIENTREM"}
  <2>1. Keeps(x1, [x1 EXCEPT !.m.connect = S]) BY <1>1, <1>2, FlagsKeep
  <2> QED BY <1>2, <2>1, KeepsTrans
<1>4. Keeps(x, x) BY KeepsSelf DEF Follows
<1> QED BY <1>2, <1>3, <1>4 DEF rx_connect

LEMMA ClientFlagsKeep ==
  ASSUME NEW x, SoundCtx(x), x.m # Gone
  PROVE  /\ Keeps(x, rx_conaccept(x)) /\ Keeps(x, rx_conrefuse(x))
         /\ Keeps(x, rx_disconnect(x)) /\ Keeps(x, rx_disconnecting(x))
<1>1. Keeps(x, [x EXCEPT !.m.connect = @ \cup {"CLIENTLOC"}]) BY FlagsKeep
<1>2. Keeps(x, [x EXCEPT !.m.connect = @ \ {"CLIENTLOC"}]) BY FlagsKeep
<1>3. Keeps(x, [x EXCEPT !.m.connect = @ \ {"CLIENTREM"}]) BY FlagsKeep
<1>4. \A e : Keeps(x, killMember(x, e)) BY KillFollows DEF Follows
<1>5. Keeps(x, x) BY KeepsSelf DEF Follows
<1> QED BY <1>1, <1>2, <1>3, <1>4, <1>5
        DEF rx_conaccept, rx_conrefuse, rx_disconnect, rx_disconnecting

\* An ACK is of no use to a member that has not been accepted.
LEMMA AckFollows ==
  ASSUME NEW x, SoundCtx(x), NEW c
  PROVE  Follows(x, rx_ack(c, x))
<1> DEFINE a  == [x EXCEPT !.m.maktries = MakRetries + 1, !.m.timer = "mak"]
           b  == [a EXCEPT !.m.rem = "MEMBER"]
           d  == [b EXCEPT !.m.connect = @ \cup {"SDT"}]
           e  == Tell(d, "JOINSUCCESS")
           f  == SDTwrap(e, "CONNECT")
<1>1. x.m \in Member /\ x \in CtxT BY DEF SoundCtx, CtxT
<1>2. CASE x.m.rem \in {"MEMBER", "JOINPEND"}
  <2>1. x.m # Gone /\ ~ Quiet(x.m) BY <1>2 DEF Gone, Quiet
  <2>2. Same(x.m, a.m) /\ a.l1 = x.l1
    BY <1>1 DEF Same, Member, CtxT
  <2>3. Same(x.m, b.m) /\ b.l1 = x.l1 BY <1>1 DEF Same, Member, CtxT
  <2>4. Same(x.m, d.m) /\ d.l1 = x.l1 BY <1>1 DEF Same, Member, CtxT
  <2>5. e.m = d.m /\ e.l1 = x.l1 BY <1>1 DEF Tell, CtxT
  <2>6. f.m = d.m /\ f.l1 = x.l1
    BY <1>1 DEF SDTwrap, SendWrap, Tell, CtxT
  <2>7. rx_ack(c, x) \in {a, b, e, f}
    BY <1>2 DEF rx_ack, setFullMember
  <2> HIDE DEF a, b, d, e, f, rx_ack
  <2>8. Keeps(x, a) /\ Keeps(x, b) /\ Keeps(x, e) /\ Keeps(x, f)
    BY <2>1, <2>2, <2>3, <2>4, <2>5, <2>6 DEF Keeps
  <2> QED BY <2>1, <2>7, <2>8 DEF Follows
<1>3. CASE x.m.rem \notin {"MEMBER", "JOINPEND"}
  <2> rx_ack(c, x) = x BY <1>3 DEF rx_ack
  <2> QED BY KeepsSelf
<1> QED BY <1>2, <1>3

LEMMA OnKeeps ==
  ASSUME NEW x, SoundCtx(x), NEW p, NEW y,
         x.m.loc \in Joined => SoundCtx(y) /\ Keeps(x, y)
  PROVE  SoundCtx(On(x, p, y)) /\ Keeps(x, On(x, p, y))
<1>1. Keeps(x, x) BY KeepsSelf DEF Follows
<1> QED BY <1>1 DEF On

\* Until it is a member, a wrapper can kill it or complete its join.
LEMMA Level2Follows ==
  ASSUME NEW x, SoundCtx(x), NEW c, NEW w \in WrapperT
  PROVE  Follows(x, sdtLevel2Rx(c, x, w))
<1> DEFINE full == x.m.loc = "MEMBER"
           x1 == On(x,  full /\ "CONNECT" \in w.body, rx_connect(c, x))
           x2 == On(x1, full /\ "CONACCEPT" \in w.body, rx_conaccept(x1))
           x3 == On(x2, full /\ "CONREFUSE" \in w.body, rx_conrefuse(x2))
           x4 == On(x3, full /\ "DISCONNECT" \in w.body, rx_disconnect(x3))
           x5 == On(x4, full /\ "DISCONNECTING" \in w.body, rx_disconnecting(x4))
           x6 == On(x5, "LEAVE" \in w.body, rx_leave(x5))
           x7 == On(x6, w.ack, rx_ack(c, x6))
<1>0. \A y : y.m.loc \in Joined => y.m # Gone BY DEF Gone, Joined
<1>1. SoundCtx(x1) /\ Keeps(x, x1)
  BY <1>0, OnKeeps, ConnectSound, ConnectKeeps
<1>2. SoundCtx(x2) /\ Keeps(x, x2)
  <2> HIDE DEF x1
  <2> QED BY <1>0, <1>1, OnKeeps, ClientFlagsSound, ClientFlagsKeep, KeepsTrans
<1>3. SoundCtx(x3) /\ Keeps(x, x3)
  <2> HIDE DEF x2
  <2> QED BY <1>0, <1>2, OnKeeps, ClientFlagsSound, ClientFlagsKeep, KeepsTrans
<1>4. SoundCtx(x4) /\ Keeps(x, x4)
  <2> HIDE DEF x3
  <2> QED BY <1>0, <1>3, OnKeeps, ClientFlagsSound, ClientFlagsKeep, KeepsTrans
<1>5. SoundCtx(x5) /\ Keeps(x, x5)
  <2> HIDE DEF x4
  <2> QED BY <1>0, <1>4, OnKeeps, ClientFlagsSound, ClientFlagsKeep, KeepsTrans
<1>6. Follows(x, x5)
  <2>1. CASE full BY <1>5, <2>1 DEF Follows, Quiet
  <2>2. CASE ~ full
    <3>1. x1 = x BY <2>2 DEF On
    <3>2. x2 = x BY <2>2, <3>1 DEF On
    <3>3. x3 = x BY <2>2, <3>2 DEF On
    <3>4. x4 = x BY <2>2, <3>3 DEF On
    <3>5. x5 = x BY <2>2, <3>4 DEF On
    <3> HIDE DEF x5
    <3> QED BY <3>5, KeepsSelf
  <2> QED BY <2>1, <2>2
<1>7. SoundCtx(x6) /\ Follows(x, x6)
  <2> HIDE DEF x5
  <2>1. SoundCtx(rx_leave(x5)) /\ Follows(x5, rx_leave(x5))
    BY <1>5, KillSound, KillFollows DEF rx_leave
  <2> HIDE DEF rx_leave
  <2>2. x6 = rx_leave(x5) \/ x6 = x5 BY DEF On
  <2> HIDE DEF x6
  <2> QED BY <1>5, <1>6, <2>1, <2>2, FollowsTrans
<1>8. Follows(x, x7)
  <2> HIDE DEF x6
  <2>1. Follows(x6, rx_ack(c, x6)) BY <1>7, AckFollows
  <2>2. x7 = rx_ack(c, x6) \/ x7 = x6 BY DEF On
  <2> HIDE DEF x7
  <2> QED BY <1>7, <2>1, <2>2, FollowsTrans
<1> QED BY <1>8 DEF sdtLevel2Rx

\* firstACK is sent to a peer that has accepted us.
LEMMA JustACKKeeps ==
  ASSUME NEW x, SoundCtx(x)
  PROVE  Keeps(x, justACK(x)) /\ justACK(x).m = x.m
<1> DEFINE y == SendWrap(x, FALSE, {}, TRUE, FALSE)
<1>1. Keeps(x, y) BY SendKeeps
<1>2. y.m = x.m BY DEF SoundCtx, CtxT, SendWrap
<1> QED BY <1>1, <1>2 DEF justACK

-----------------------------------------------------------------------------
(***************************************************************************)
(* Committing a context that follows the one the handler started with.     *)
(***************************************************************************)
LEMMA CarryLength ==
  ASSUME NEW s \in Seq(WrapperT), NEW t \in Seq(WrapperT)
  PROVE  /\ Len(Carry(s, t)) <= MaxWrap
         /\ s # <<>> /\ Len(s) <= MaxWrap => Carry(s, t) # <<>>
         /\ s = <<>> /\ t = <<>> => Carry(s, t) = <<>>
<1> DEFINE all == s \o t
           n   == IF Len(all) < MaxWrap THEN Len(all) ELSE MaxWrap
<1>1. all \in Seq(WrapperT) /\ Len(all) = Len(s) + Len(t) OBVIOUS
<1>2. n \in Nat /\ n <= Len(all) /\ n <= MaxWrap
  BY <1>1, SessionAssumption
<1>3. SubSeq(all, 1, n) \in Seq(WrapperT) /\ Len(SubSeq(all, 1, n)) = n
  <2> HIDE DEF all, n
  <2>1. \A i \in 1 .. n : all[i] \in WrapperT BY <1>1, <1>2
  <2>2. SubSeq(all, 1, n) \in Seq(WrapperT) BY <1>1, <1>2, <2>1, SubSeqProperties
  <2>3. Len(SubSeq(all, 1, n)) = n BY <1>1, <1>2, SubSeqProperties
  <2> QED BY <2>2, <2>3
<1>4. Carry(s, t) \in Seq(WrapperT) /\ Len(Carry(s, t)) = n
  BY <1>3 DEF Carry
<1>5. ASSUME s # <<>>, Len(s) <= MaxWrap PROVE Carry(s, t) # <<>>
  <2>1. Len(s) > 0 BY <1>5
  <2>2. n > 0 BY <1>1, <1>5, <2>1, SessionAssumption
  <2> HIDE DEF n
  <2> QED BY <1>4, <2>2
<1>6. ASSUME s = <<>>, t = <<>> PROVE Carry(s, t) = <<>>
  <2>1. n = 0 BY <1>1, <1>6, SessionAssumption
  <2> HIDE DEF n
  <2> QED BY <1>4, <2>1
<1> HIDE DEF n
<1> QED BY <1>2, <1>4, <1>5, <1>6

LEMMA LogGrows ==
  ASSUME IInv, Heard, NEW c \in Comp, NEW x, SoundCtx(x), Commit(c, x),
         x.tx # <<>> => memb[c] # Gone, NEW ch \in Chans
  PROVE  /\ Len(log'[ch]) <= MaxWrap
         /\ log[ch] # <<>> => log'[ch] # <<>>
         /\ log'[ch] = log[ch] \/ (x.tx # <<>> /\ ch = memb[c].lchan)
<1>1. log \in [Chans -> Seq(WrapperT)] /\ Len(log[ch]) <= MaxWrap
  BY DEF IInv, TypeOK, Heard
<1>2. CASE x.tx = <<>> BY <1>1, <1>2 DEF Commit
<1>3. CASE x.tx # <<>>
  <2>1. log' = [log EXCEPT ![memb[c].lchan] = Carry(log[memb[c].lchan], x.tx)]
    BY <1>3 DEF Commit
  <2>2. CASE ch = memb[c].lchan
    <3>1. log'[ch] = Carry(log[ch], x.tx) BY <1>1, <2>1, <2>2
    <3>2. log[ch] \in Seq(WrapperT) /\ x.tx \in Seq(WrapperT)
      BY <1>1 DEF SoundCtx, CtxT
    <3> QED BY <1>1, <1>3, <2>2, <3>1, <3>2, CarryLength
  <2>3. CASE ch # memb[c].lchan BY <1>1, <2>1, <2>3
  <2> QED BY <2>2, <2>3
<1> QED BY <1>2, <1>3

\* Messages that accept nothing new.
LEMMA AcceptedSame ==
  ASSUME NEW L, net' = net \cup L,
         \A n \in L : n.type = "JOINACCEPT" /\ n.recip = LdrChan
                        => n.chan \in Accepted
  PROVE  Accepted' = Accepted
<1>1. Accepted \subseteq Accepted' BY DEF Accepted, Accepts
<1>2. ASSUME NEW a \in Accepted' PROVE a \in Accepted
  <2>1. PICK n \in net' : n.type = "JOINACCEPT" /\ n.recip = LdrChan /\ a = n.chan
    BY <1>2 DEF Accepted, Accepts
  <2>2. CASE n \in L BY <2>1, <2>2
  <2>3. CASE n \in net BY <2>1, <2>3 DEF Accepted, Accepts
  <2> QED BY <2>2, <2>3
<1> QED BY <1>1, <1>2

LEMMA Numbers ==
  ASSUME PeersInv
  PROVE  /\ Ldr \in Comp /\ Flw \in Comp /\ Ldr # Flw /\ LdrChan = 1
         /\ memb[Ldr] \in Member /\ memb[Flw] \in Member
         /\ nextChan \in Nat /\ nextChan >= 2 /\ nextChan <= MaxChan + 1
         /\ MaxChan \in Nat
         /\ \A a \in Accepted : a \in Nat /\ a >= 2 /\ a < nextChan /\ a \in Chans
         /\ Gone.rchan = 0 /\ Quiet(Gone) /\ Gone.rem = "NULL"
         /\ adds \in Nat
<1> USE SessionAssumption
<1>1. Ldr \in Comp /\ Flw \in Comp /\ Ldr # Flw /\ LdrChan = 1
  BY DEF Comp, LdrChan
<1>2. memb[Ldr] \in Member /\ memb[Flw] \in Member
  BY <1>1 DEF PeersInv, IInv, TypeOK
<1>3. MaxChan \in Nat OBVIOUS
<1>4. nextChan \in 2 .. MaxChan + 1 BY DEF PeersInv, IInv, TypeOK
<1>5. Accepted \subseteq 2 .. nextChan - 1 BY DEF PeersInv, Wired
<1>6. \A a \in Accepted : a \in Nat /\ a >= 2 /\ a < nextChan /\ a \in Chans
  BY <1>3, <1>4, <1>5 DEF Chans
<1>7. Gone.rchan = 0 /\ Quiet(Gone) /\ Gone.rem = "NULL" BY DEF Gone, Quiet
<1> QED BY <1>1, <1>2, <1>3, <1>4, <1>6, <1>7 DEF PeersInv, Attempts

\* The effects of a handler that accepts no channel.
Effects(c, x) ==
  /\ x.m = Gone \/ (memb[c] # Gone /\ Same(memb[c], x.m))
  /\ \A n \in x.l1 : n.type \in {"JOINREFUSE", "LEAVING"}
                     \/ (memb[c] # Gone /\ n = sendJoin(memb[c]))
  /\ x.tx # <<>> => memb[c] # Gone
  /\ c = Flw /\ (x.tx # <<>> \/ ~ Quiet(x.m)) => memb[c].lchan \in Accepted
  /\ c = Ldr /\ x.m.rem = "MEMBER" => log[memb[c].rchan] # <<>>

LEMMA CommitWired ==
  ASSUME PeersInv, NEW c \in Comp, NEW x, SoundCtx(x), Commit(c, x),
         Effects(c, x), UNCHANGED nextChan
  PROVE  Wired' /\ Accepted' = Accepted
<1>1. /\ memb' = [memb EXCEPT ![c] = x.m] /\ net' = net \cup x.l1
      /\ open' \subseteq open /\ memb \in [Comp -> Member]
  BY DEF Commit, openAfter, PeersInv, IInv, TypeOK
<1>2. \A k \in Comp : memb'[k] = IF k = c THEN x.m ELSE memb[k]
  BY <1>1
<1>3. \A k \in Comp : \/ memb'[k] = Gone
                      \/ memb[k] # Gone /\ Same(memb[k], memb'[k])
  BY <1>2 DEF Effects, Same
<1>4. c = Ldr \/ c = Flw BY DEF Comp
<1>5. ASSUME NEW n \in x.l1 PROVE JoinWired(n) /\ n.type # "JOINACCEPT"
  <2>1. CASE n.type \in {"JOINREFUSE", "LEAVING"} BY <2>1 DEF JoinWired
  <2>2. CASE memb[c] # Gone /\ n = sendJoin(memb[c])
    <3>1. /\ n.type = "JOIN" /\ n.chan = memb[c].lchan /\ n.mid = memb[c].mid
          /\ n.recip = memb[c].rchan
      BY <2>2 DEF sendJoin, Join
    <3>2. CASE c = Ldr
      <4>1. memb[Ldr].lchan = LdrChan
        BY <2>2, <3>2 DEF PeersInv, Wired, LdrWired
      <4>2. memb[Ldr].rchan # LdrChan
        BY Numbers DEF PeersInv, Wired, LdrWired
      <4> QED BY <3>1, <3>2, <4>1, <4>2 DEF JoinWired
    <3>3. CASE c = Flw
      <4>1. /\ memb[Flw].rchan = LdrChan /\ memb[Flw].mid = 1
            /\ memb[Flw].lchan = nextChan - 1 /\ memb[Flw].lchan \in 2 .. MaxChan
        BY <2>2, <3>3 DEF PeersInv, Wired, FlwWired
      <4> QED BY <3>1, <3>3, <4>1, Numbers DEF JoinWired
    <3> QED BY <1>4, <3>2, <3>3
  <2> QED BY <2>1, <2>2 DEF Effects
<1>6. Accepted' = Accepted BY <1>1, <1>5, AcceptedSame
<1>7. LdrWired'
  <2>1. memb'[Ldr] = Gone \/ (memb[Ldr] # Gone /\ Same(memb[Ldr], memb'[Ldr]))
    BY <1>3, Numbers
  <2>2. LdrWired BY DEF PeersInv, Wired
  <2> QED BY <1>6, <2>1, <2>2, Numbers DEF LdrWired, Same
<1>8. FlwWired'
  <2>1. memb'[Flw] = Gone \/ (memb[Flw] # Gone /\ Same(memb[Flw], memb'[Flw]))
    BY <1>3, Numbers
  <2>2. FlwWired BY DEF PeersInv, Wired
  <2> QED BY <2>1, <2>2 DEF FlwWired, Same
<1>9. \A n \in net' : JoinWired(n)'
  BY <1>1, <1>5 DEF PeersInv, Wired, JoinWired
<1>10. ASSUME RecipChannelOwned PROVE RecipChannelOwned'
  <2>1. CASE c = Ldr
    <3>1. memb'[Flw] = memb[Flw] BY <1>2, <2>1, Numbers
    <3>2. open' = open BY <2>1, Numbers DEF Commit, openAfter
    <3> QED BY <1>10, <3>1, <3>2 DEF RecipChannelOwned
  <2>2. CASE c = Flw
    <3>1. memb'[Flw] = x.m BY <1>2, <2>2, Numbers
    <3>2. open' = IF x.m = Gone THEN open \ {memb[Flw].lchan} ELSE open
      BY <2>2 DEF Commit, openAfter
    <3>3. CASE x.m = Gone BY <1>10, <3>1, <3>2, <3>3 DEF RecipChannelOwned
    <3>4. CASE x.m # Gone
      <4>1. memb[Flw] # Gone /\ x.m.lchan = memb[Flw].lchan
        BY <2>2, <3>4 DEF Effects, Same
      <4> QED BY <1>10, <3>1, <3>2, <3>4, <4>1 DEF RecipChannelOwned
    <3> QED BY <3>3, <3>4
  <2> QED BY <1>4, <2>1, <2>2
<1> QED BY <1>1, <1>6, <1>7, <1>8, <1>9, <1>10 DEF PeersInv, Wired

LEMMA CommitHeard ==
  ASSUME PeersInv, NEW c \in Comp, NEW x, SoundCtx(x), Commit(c, x),
         Effects(c, x), UNCHANGED nextChan, IInv'
  PROVE  Heard'
<1>0. Accepted' = Accepted BY CommitWired
<1>1. /\ memb' = [memb EXCEPT ![c] = x.m] /\ memb \in [Comp -> Member]
  BY DEF Commit, PeersInv, IInv, TypeOK
<1>2. \A k \in Comp : memb'[k] = IF k = c THEN x.m ELSE memb[k]
  BY <1>1
<1>3. \A ch \in Chans :
        /\ Len(log'[ch]) <= MaxWrap
        /\ log[ch] # <<>> => log'[ch] # <<>>
        /\ log'[ch] = log[ch] \/ (x.tx # <<>> /\ ch = memb[c].lchan)
  BY LogGrows DEF PeersInv, Effects
<1>4. c = Ldr \/ c = Flw BY DEF Comp
<1>5. ~ Quiet(memb'[Flw]) => memb'[Flw].lchan \in Accepted
  <2>1. CASE c = Flw
    <3>1. memb'[Flw] = x.m BY <1>2, <2>1, Numbers
    <3>2. CASE x.m = Gone BY <3>1, <3>2, Numbers
    <3>3. CASE x.m # Gone BY <2>1, <3>1, <3>3 DEF Effects, Same
    <3> QED BY <3>2, <3>3
  <2>2. CASE c = Ldr
    <3>1. memb'[Flw] = memb[Flw] BY <1>2, <2>2, Numbers
    <3> QED BY <3>1 DEF PeersInv, Heard
  <2> QED BY <1>4, <2>1, <2>2
<1>6. ASSUME NEW ch \in Chans, ch # LdrChan, log'[ch] # <<>>
      PROVE  ch \in Accepted
  <2>1. CASE log'[ch] = log[ch] BY <1>6, <2>1 DEF PeersInv, Heard
  <2>2. CASE log'[ch] # log[ch]
    <3>1. x.tx # <<>> /\ ch = memb[c].lchan BY <1>3, <2>2
    <3>2. c = Flw BY <1>4, <1>6, <3>1 DEF Effects, PeersInv, Wired, LdrWired
    <3> QED BY <3>1, <3>2 DEF Effects
  <2> QED BY <2>1, <2>2
<1>7. ASSUME memb'[Ldr].rem = "MEMBER" PROVE log'[memb'[Ldr].rchan] # <<>>
  <2>1. memb'[Ldr] # Gone BY <1>7, Numbers
  <2>2. memb'[Ldr].rchan = memb[Ldr].rchan
    BY <1>2, <2>1, Numbers DEF Effects, Same
  <2>3. log[memb[Ldr].rchan] # <<>>
    <3>1. CASE c = Ldr BY <1>2, <1>7, <3>1, Numbers DEF Effects
    <3>2. CASE c = Flw
      <4>1. memb'[Ldr] = memb[Ldr] BY <1>2, <3>2, Numbers
      <4> QED BY <1>7, <4>1 DEF PeersInv, Heard
    <3> QED BY <1>4, <3>1, <3>2
  <2>4. memb[Ldr].rchan \in Chans
    <3>1. Sound(memb'[Ldr]) BY Numbers DEF IInv
    <3>2. memb'[Ldr].rchan # 0
      BY <1>7, <3>1 DEF Sound, HalvesInStep
    <3> QED BY <2>2, <3>2, Numbers DEF PeersInv, Wired, LdrWired
  <2> QED BY <1>3, <2>2, <2>3, <2>4
<1> QED BY <1>0, <1>3, <1>5, <1>6, <1>7 DEF Heard

LEMMA CommitAttempts ==
  ASSUME PeersInv, NEW c \in Comp, NEW x, SoundCtx(x), Commit(c, x),
         Effects(c, x), UNCHANGED <<nextChan, adds>>
  PROVE  Attempts'
<1>0. Accepted' = Accepted BY CommitWired
<1>1. /\ memb' = [memb EXCEPT ![c] = x.m] /\ memb \in [Comp -> Member]
  BY DEF Commit, PeersInv, IInv, TypeOK
<1>2. memb'[Ldr] = IF Ldr = c THEN x.m ELSE memb[Ldr]
  BY <1>1, Numbers
<1>3. memb'[Ldr] = Gone \/ (memb[Ldr] # Gone /\ Same(memb[Ldr], memb'[Ldr]))
  BY <1>2 DEF Effects, Same
<1>4. memb'[Ldr] # Gone => Others' = Others
  BY <1>0, <1>3 DEF Others, Same
<1>5. ASSUME adds <= 2, memb'[Ldr].rchan # 0, log'[memb'[Ldr].rchan] # <<>>,
             NEW f \in Accepted
      PROVE  f <= memb'[Ldr].rchan
  <2>1. memb'[Ldr] # Gone BY <1>5, Numbers
  <2> DEFINE a == memb[Ldr].rchan
  <2>2. memb'[Ldr].rchan = a BY <1>3, <2>1 DEF Same
  <2>3. a \in Accepted BY <1>5, <2>2 DEF PeersInv, Wired, LdrWired
  <2>4. log'[a] = log[a] \/ (x.tx # <<>> /\ a = memb[c].lchan)
    BY <2>3, LogGrows, Numbers DEF PeersInv, Effects
  <2>5. CASE log'[a] = log[a] BY <1>5, <2>2, <2>5 DEF PeersInv, Attempts
  <2>6. CASE x.tx # <<>> /\ a = memb[c].lchan
    <3>1. memb[c] # Gone BY <2>6 DEF Effects
    <3>2. c # Ldr
      BY <2>3, <2>6, <3>1, Numbers DEF PeersInv, Wired, LdrWired
    <3>3. c = Flw BY <3>2 DEF Comp
    <3>4. a = nextChan - 1
      BY <2>6, <3>1, <3>3 DEF PeersInv, Wired, FlwWired
    <3>5. f \in Nat /\ f < nextChan BY Numbers
    <3>6. f <= a BY <3>4, <3>5, Numbers
    <3> QED BY <2>2, <3>6
  <2> QED BY <2>4, <2>5, <2>6
<1>6. Attempts BY DEF PeersInv
<1>7. adds' = adds OBVIOUS
<1>8. memb'[Ldr] # Gone => memb[Ldr] # Gone BY <1>3
<1> QED BY <1>0, <1>4, <1>5, <1>6, <1>7, <1>8 DEF Attempts

LEMMA CommitPeers ==
  ASSUME PeersInv, NEW c \in Comp, NEW x, SoundCtx(x), Commit(c, x),
         Effects(c, x), UNCHANGED <<nextChan, adds>>, IInv'
  PROVE  PeersInv'
  BY CommitWired, CommitHeard, CommitAttempts DEF PeersInv

-----------------------------------------------------------------------------
(***************************************************************************)
(* The actions whose handler follows the context it starts with.           *)
(***************************************************************************)
LEMMA HandlerStep ==
  ASSUME PeersInv, IInv', NEW c \in Comp, NEW x, SoundCtx(x), Commit(c, x),
         Follows(Ctx(c), x), UNCHANGED <<nextChan, adds>>,
         x.m.rem = "MEMBER" =>
           memb[c].rem = "MEMBER" \/ log[memb[c].rchan] # <<>>
  PROVE  PeersInv'
<1>1. Ctx(c).m = memb[c] /\ Ctx(c).tx = <<>> /\ Ctx(c).l1 = {}
  BY DEF Ctx
<1>2. x.m = Gone \/ (memb[c] # Gone /\ Same(memb[c], x.m))
  BY <1>1 DEF Follows, Keeps
<1>3. \A n \in x.l1 : n.type \in {"JOINREFUSE", "LEAVING"}
  BY <1>1 DEF Follows, Keeps
<1>4. Quiet(memb[c]) => x.tx = <<>> /\ Quiet(x.m)
  BY <1>1 DEF Follows
<1>5. x.tx # <<>> => memb[c] # Gone BY <1>4, Numbers
<1>6. c = Flw /\ (x.tx # <<>> \/ ~ Quiet(x.m)) => memb[c].lchan \in Accepted
  BY <1>4 DEF PeersInv, Heard
<1>7. c = Ldr /\ x.m.rem = "MEMBER" => log[memb[c].rchan] # <<>>
  BY DEF PeersInv, Heard
<1>8. Effects(c, x) BY <1>2, <1>3, <1>5, <1>6, <1>7 DEF Effects
<1> QED BY <1>8, CommitPeers

LEMMA KillPeers ==
  ASSUME PeersInv, IInv', NEW c \in Comp, NEW e,
         Commit(c, killMember(Ctx(c), e)), UNCHANGED <<nextChan, adds>>
  PROVE  PeersInv'
<1>1. SoundCtx(Ctx(c)) BY CtxSound DEF PeersInv
<1>2. SoundCtx(killMember(Ctx(c), e)) /\ killMember(Ctx(c), e).m = Gone
      /\ Follows(Ctx(c), killMember(Ctx(c), e))
  BY <1>1, KillSound, KillFollows
<1>3. killMember(Ctx(c), e).m.rem # "MEMBER" BY <1>2, Numbers
<1> QED BY <1>2, <1>3, HandlerStep

LEMMA WrapperFollows ==
  ASSUME IInv, NEW c \in Comp, NEW i, rx_wrapper(c, i)
  PROVE  Follows(Ctx(c), Replied(c, i))
<1> DEFINE w == log[memb[c].rchan][i]
<1>1. /\ SoundCtx(Moved(c, i)) /\ SoundCtx(Read(c, i)) /\ w \in WrapperT
      /\ memb[c] # Gone /\ memb[c] \in Member
  BY WrapperSound, MemberTyped
<1>2. Follows(Ctx(c), Moved(c, i))
  <2>1. /\ Moved(c, i).m = [memb[c] EXCEPT !.pos = i]
        /\ Moved(c, i).tx = Ctx(c).tx /\ Moved(c, i).l1 = Ctx(c).l1
        /\ Ctx(c).m = memb[c]
    BY DEF Moved, Ctx
  <2>2. Same(memb[c], Moved(c, i).m) /\ (Quiet(memb[c]) => Quiet(Moved(c, i).m))
    BY <1>1, <2>1 DEF Same, Quiet, Member
  <2> QED BY <1>1, <2>1, <2>2 DEF Follows, Keeps
<1>3. Follows(Ctx(c), Read(c, i))
  <2>1. Follows(Moved(c, i), sdtLevel2Rx(c, Moved(c, i), w))
    BY <1>1, Level2Follows
  <2>2. Read(c, i) = sdtLevel2Rx(c, Moved(c, i), w) \/ Read(c, i) = Moved(c, i)
    BY DEF Read
  <2> QED BY <1>2, <2>1, <2>2, FollowsTrans
<1>4. CASE Replied(c, i) = Read(c, i) BY <1>3, <1>4
<1>5. CASE memb[c].loc = "MEMBER" /\ Replied(c, i) = justACK(Read(c, i))
  <2>1. Keeps(Read(c, i), justACK(Read(c, i))) BY <1>1, JustACKKeeps
  <2>2. Keeps(Ctx(c), justACK(Read(c, i)))
    BY <1>3, <2>1, KeepsTrans DEF Follows
  <2>3. ~ Quiet(Ctx(c).m) BY <1>5 DEF Quiet, Ctx
  <2> QED BY <1>5, <2>2, <2>3 DEF Follows
<1>6. Replied(c, i) = Read(c, i)
      \/ (memb[c].loc = "MEMBER" /\ Replied(c, i) = justACK(Read(c, i)))
  BY DEF Replied
<1> QED BY <1>4, <1>5, <1>6

LEMMA WrapperPeers ==
  ASSUME PeersInv, IInv', NEW c \in Comp, NEW i, rx_wrapper(c, i)
  PROVE  PeersInv'
<1>1. IInv BY DEF PeersInv
<1>2. /\ SoundCtx(Replied(c, i)) /\ Commit(c, Replied(c, i))
      /\ log[memb[c].rchan] # <<>>
  BY <1>1, WrapperSound
<1>3. Follows(Ctx(c), Replied(c, i)) BY <1>1, WrapperFollows
<1>4. UNCHANGED <<nextChan, adds>> BY DEF rx_wrapper
<1> QED BY <1>2, <1>3, <1>4, HandlerStep

LEMMA ClientPeers ==
  ASSUME PeersInv, IInv', NEW c \in Comp, sdt_addClient(c) \/ sdt_dropClient(c)
  PROVE  PeersInv'
<1> DEFINE x == Ctx(c)
           y == IF c = Flw \/ AutoCon THEN connectAll(x) ELSE x
           z == disconnectAll(x)
           S == x.m.connect \ {"CLIENTLOC", "CLIENTREM"}
           v == [x EXCEPT !.m.connect = S]
<1>1. SoundCtx(x) /\ x.m = memb[c] /\ Sound(memb[c])
  BY CtxSound, MemberTyped DEF PeersInv
<1>2. SoundCtx(SDTwrap(x, "CONNECT")) /\ SoundCtx(z)
  BY <1>1, SDTwrapSound, DisconnectAllSound DEF Bodies
<1>3. Keeps(x, SDTwrap(x, "CONNECT")) /\ SDTwrap(x, "CONNECT").m = x.m
  BY <1>1, SDTwrapKeeps
<1>4. SoundCtx(y) /\ Follows(x, y) /\ y.m = x.m
  <2>1. CASE y = x BY <1>1, <2>1, KeepsSelf
  <2>2. CASE "SDT" \in x.m.connect /\ y = SDTwrap(x, "CONNECT")
    <3>1. ~ Quiet(x.m) BY <1>1, <2>2 DEF Sound, HalvesInStep, Quiet
    <3> QED BY <1>2, <1>3, <2>2, <3>1 DEF Follows
  <2>3. y = x \/ ("SDT" \in x.m.connect /\ y = SDTwrap(x, "CONNECT"))
    BY DEF connectAll
  <2> QED BY <2>1, <2>2, <2>3
<1>5. Follows(x, z) /\ z.m.rem = x.m.rem
  <2>1. CASE z = x BY <2>1, KeepsSelf
  <2>2. ASSUME NEW b, NEW a, z = SendWrap(v, TRUE, b, a, FALSE), ~ Quiet(x.m),
               x.m # Gone
        PROVE  Follows(x, z) /\ z.m.rem = x.m.rem
    <3>1. v.m.rem = x.m.rem /\ v.tx = x.tx
      BY <1>1 DEF SoundCtx, CtxT, Member
    <3>2. Keeps(x, v) BY <1>1, <2>2, FlagsKeep
    <3>3. z.m = v.m /\ z.l1 = v.l1
      BY <1>1, <2>2 DEF SendWrap, SoundCtx, CtxT
    <3> HIDE DEF v
    <3>4. Keeps(v, z) BY <3>2, <3>3, <2>2 DEF Keeps, Same
    <3> QED BY <2>2, <3>1, <3>2, <3>3, <3>4, KeepsTrans DEF Follows
  <2>3. ASSUME z # x PROVE Follows(x, z) /\ z.m.rem = x.m.rem
    <3> DEFINE bodies == {b \in {"DISCONNECT", "DISCONNECTING"} :
                 \/ b = "DISCONNECT"    /\ "CLIENTLOC" \in x.m.connect
                 \/ b = "DISCONNECTING" /\ "CLIENTREM" \in x.m.connect
                                       /\ "CLIENTLOC" \notin x.m.connect}
    <3>1. bodies # {} BY <2>3 DEF disconnectAll
    <3>2. ~ Quiet(x.m) /\ x.m # Gone BY <3>1 DEF Quiet, Gone
    <3>3. z = SendWrap(v, TRUE, bodies, AutoAck(x.m), FALSE)
      BY <3>1 DEF disconnectAll
    <3> HIDE DEF bodies, z, v, x
    <3> QED BY <2>2, <3>2, <3>3
  <2> HIDE DEF z
  <2> QED BY <2>1, <2>3
<1> HIDE DEF x, y, z
<1>6. CASE sdt_addClient(c)
  <2>1. Commit(c, y) /\ UNCHANGED <<nextChan, adds>>
    BY <1>6 DEF sdt_addClient, x, y
  <2> QED BY <1>1, <1>4, <2>1, HandlerStep DEF x
<1>7. CASE sdt_dropClient(c)
  <2>1. Commit(c, z) /\ UNCHANGED <<nextChan, adds>>
    BY <1>7 DEF sdt_dropClient, x, z
  <2> QED BY <1>1, <1>2, <1>5, <2>1, HandlerStep DEF x
<1> QED BY <1>6, <1>7

LEMMA TimeoutPeers ==
  ASSUME PeersInv, IInv', NEW c \in Comp, Timeout(c)
  PROVE  PeersInv'
<1>0. IInv /\ SoundCtx(Ctx(c)) /\ Ctx(c).m = memb[c] /\ Sound(memb[c])
  BY CtxSound, MemberTyped DEF PeersInv
<1>1. CASE joinTimeoutAction(c)
  <2>1. UNCHANGED <<nextChan, adds>> /\ Live(c) BY <1>1 DEF joinTimeoutAction
  <2>2. CASE Commit(c, killMember(Ctx(c), "JOINFAIL")) BY <2>1, <2>2, KillPeers
  <2>3. CASE ~ giveUp(memb[c]) /\ Commit(c, Resent(c))
    <3>1. SoundCtx(Resent(c)) /\ memb[c] \in Member /\ memb[c] # Gone
      BY <1>0, <2>1, <2>3, ResentSound
    <3>2. /\ Resent(c).m = [memb[c] EXCEPT !.t_ms = @ + 1]
          /\ Resent(c).tx = <<>> /\ Resent(c).l1 = {sendJoin(memb[c])}
      BY DEF Resent, SendL1, Ctx
    <3>3. Same(memb[c], Resent(c).m) /\ Resent(c).m.rem = memb[c].rem
          /\ (Quiet(memb[c]) => Quiet(Resent(c).m))
      BY <3>1, <3>2 DEF Same, Quiet, Member
    <3>4. c = Flw /\ ~ Quiet(Resent(c).m) => memb[c].lchan \in Accepted
      BY <3>3 DEF PeersInv, Heard
    <3>5. c = Ldr /\ Resent(c).m.rem = "MEMBER" => log[memb[c].rchan] # <<>>
      BY <3>3 DEF PeersInv, Heard
    <3>6. Effects(c, Resent(c)) BY <3>1, <3>2, <3>3, <3>4, <3>5 DEF Effects
    <3> QED BY <2>1, <2>3, <3>1, <3>6, CommitPeers
  <2> QED BY <1>1, <2>2, <2>3 DEF joinTimeoutAction, Resent
<1>2. CASE recipTimeoutAction(c) BY <1>2, KillPeers DEF recipTimeoutAction
<1>3. CASE makTimeoutAction(c)
  <2>1. UNCHANGED <<nextChan, adds>> /\ Live(c) /\ memb[c].timer = "mak"
    BY <1>3 DEF makTimeoutAction
  <2>2. CASE Commit(c, killMember(Ctx(c), "MAKTIMEOUT")) BY <2>1, <2>2, KillPeers
  <2>3. CASE memb[c].maktries # 0 /\ Commit(c, Asked(c))
    <3>1. SoundCtx(Asked(c)) /\ memb[c] \in Member /\ memb[c] # Gone
      BY <1>0, <2>1, <2>3, AskedSound
    <3>2. /\ Asked(c).m = [memb[c] EXCEPT !.maktries = @ - 1]
          /\ Asked(c).l1 = Ctx(c).l1
      BY DEF Asked, SendWrap, Ctx
    <3>3. Same(memb[c], Asked(c).m) /\ Asked(c).m.rem = memb[c].rem
      BY <3>1, <3>2 DEF Same, Member
    <3>4. ~ Quiet(memb[c]) BY <1>0, <2>1 DEF Sound, Timed, Quiet
    <3>5. Follows(Ctx(c), Asked(c))
      BY <1>0, <3>1, <3>2, <3>3, <3>4 DEF Follows, Keeps
    <3> QED BY <2>1, <2>3, <3>1, <3>3, <3>5, HandlerStep
  <2>4. \/ Commit(c, killMember(Ctx(c), "MAKTIMEOUT"))
        \/ memb[c].maktries # 0 /\ Commit(c, Asked(c))
    BY <1>3 DEF makTimeoutAction, Asked
  <2> QED BY <2>2, <2>3, <2>4
<1>4. CASE keepaliveAction(c)
  <2> DEFINE y == SendWrap(Ctx(c), FALSE, {}, TRUE, FALSE)
  <2>1. Commit(c, y) /\ memb[c].loc = "MEMBER" /\ UNCHANGED <<nextChan, adds>>
    BY <1>4 DEF keepaliveAction
  <2>2. SoundCtx(y)
    <3>1. {} \in SUBSET Bodies OBVIOUS
    <3> QED BY <1>0, <3>1, SendWrapSound
  <2>3. Keeps(Ctx(c), y) BY <1>0, SendKeeps
  <2>4. y.m = memb[c] BY <1>0 DEF SoundCtx, CtxT, SendWrap
  <2>5. ~ Quiet(Ctx(c).m) BY <1>0, <2>1 DEF Quiet
  <2> HIDE DEF y
  <2>6. Follows(Ctx(c), y) BY <2>3, <2>5 DEF Follows
  <2> QED BY <2>1, <2>2, <2>4, <2>6, HandlerStep
<1> QED BY <1>1, <1>2, <1>3, <1>4 DEF Timeout

\* The follower hears from the leader that its channel is accepted.
LEMMA JoinAcceptPeers ==
  ASSUME PeersInv, IInv', NEW c \in Comp, NEW msg \in net, rx_joinAccept(c, msg)
  PROVE  PeersInv'
<1> DEFINE x == Accepting(c)
           y == HalfJoined(c)
<1>1. /\ memb[c] # Gone /\ memb[c] \in Member /\ x \in CtxT
      /\ SoundCtx(y) /\ Commit(c, y)
  BY JoinAcceptSound DEF PeersInv
<1>2. /\ x.m = [memb[c] EXCEPT !.rem = "JOINPEND", !.timer = "recip"]
      /\ x.l1 = {}
  BY DEF Accepting, Ctx
<1>3. Same(memb[c], x.m) /\ x.m.rem = "JOINPEND" BY <1>1, <1>2 DEF Same, Member
<1>4. /\ firstACK(x).m = [x.m EXCEPT !.loc = "MEMBER"]
      /\ firstACK(x).l1 = {}
  BY <1>1, <1>2 DEF firstACK, justACK, SendWrap, CtxT
<1>5. Same(memb[c], firstACK(x).m) /\ firstACK(x).m.rem = "JOINPEND"
  <2>1. x.m \in Member BY <1>1 DEF CtxT
  <2> HIDE DEF x
  <2> QED BY <1>3, <1>4, <2>1 DEF Same, Member
<1>6. Same(memb[c], y.m) /\ y.m.rem = "JOINPEND" /\ y.l1 = {}
  BY <1>2, <1>3, <1>4, <1>5 DEF HalfJoined
<1>7. ASSUME c = Flw PROVE memb[c].lchan \in Accepted
  <2>1. /\ msg.type = "JOINACCEPT" /\ msg.chan = memb[c].lchan
        /\ memb[c].rchan \in {0, msg.recip}
    BY DEF rx_joinAccept, Finds
  <2>2. memb[c].rchan = LdrChan
    BY <1>1, <1>7 DEF PeersInv, Wired, FlwWired
  <2>3. msg.recip = LdrChan BY <2>1, <2>2 DEF LdrChan
  <2> QED BY <2>1, <2>3 DEF Accepted, Accepts
<1>8. Effects(c, y) BY <1>1, <1>6, <1>7 DEF Effects
<1>9. UNCHANGED <<nextChan, adds>> BY DEF rx_joinAccept
<1> HIDE DEF y
<1> QED BY <1>1, <1>8, <1>9, CommitPeers

-----------------------------------------------------------------------------
(***************************************************************************)
(* The actions that take a Join.                                           *)
(***************************************************************************)
\* The leader takes a channel: it had none since this addMember.
LEMMA JoinRecipPeers ==
  ASSUME PeersInv, IInv', NEW msg \in net, joinRecip(Ldr, msg)
  PROVE  PeersInv'
<1> DEFINE x == Linked(Ldr, msg)
           y == Reciprocated(Ldr, msg)
           m == memb[Ldr]
           a == msg.chan
<1>0. Ldr \in Comp /\ memb \in [Comp -> Member] BY DEF Comp, PeersInv, IInv, TypeOK
<1>1. /\ m # Gone /\ m \in Member /\ x \in CtxT /\ SoundCtx(y) /\ Commit(Ldr, y)
  BY <1>0, JoinRecipSound DEF PeersInv
<1>2. /\ m.rem \in Pending /\ m.rchan = 0 /\ m.lchan = LdrChan
      /\ UNCHANGED <<nextChan, adds>>
  BY <1>1 DEF joinRecip, PeersInv, Wired, LdrWired
<1>3. /\ a \in 2 .. nextChan - 1 /\ msg.mid = 1
  <2>1. msg.type = "JOIN" /\ msg.recip = LdrChan
    BY SessionAssumption DEF joinRecip, ReceivesJoin
  <2> QED BY <2>1 DEF PeersInv, Wired, JoinWired
<1>4. a \in Nat /\ a >= 2 /\ a < nextChan /\ a # LdrChan /\ a \in Chans
  BY <1>3, Numbers DEF Chans
<1>5. /\ x.m = [m EXCEPT !.rchan = a, !.rmid = msg.mid, !.pos = msg.pos,
                         !.loc = "JOINPEND"]
      /\ x.l1 = {JoinAccept(a, msg.mid, LdrChan)}
  BY <1>2 DEF Linked, Ctx
<1>6. /\ x.m.lchan = LdrChan /\ x.m.rchan = a /\ x.m.rmid = 1 /\ x.m.rem = m.rem
  BY <1>1, <1>2, <1>3, <1>5 DEF Member
<1>7. /\ firstACK(x).m = [x.m EXCEPT !.loc = "MEMBER"]
      /\ firstACK(x).l1 = x.l1
  BY <1>1 DEF firstACK, justACK, SendWrap, CtxT
<1>8. /\ y.m.lchan = LdrChan /\ y.m.rchan = a /\ y.m.rmid = 1 /\ y.m.rem = m.rem
      /\ y.l1 = {JoinAccept(a, msg.mid, LdrChan)}
  <2>1. x.m \in Member BY <1>1 DEF CtxT
  <2>2. y = x \/ y = firstACK(x) BY DEF Reciprocated
  <2> HIDE DEF x, y
  <2>3. CASE y = x BY <1>5, <1>6, <2>3
  <2>4. CASE y = firstACK(x) BY <1>5, <1>6, <1>7, <2>1, <2>4 DEF Member
  <2> QED BY <2>2, <2>3, <2>4
<1> HIDE DEF x, y
<1>9. /\ memb'[Ldr] = y.m /\ memb'[Flw] = memb[Flw] /\ open' \subseteq open
      /\ net' = net \cup {JoinAccept(a, msg.mid, LdrChan)}
  BY <1>0, <1>1, <1>8, Numbers DEF Commit, openAfter
<1>10. Accepted' = Accepted \cup {a}
  <2>1. JoinAccept(a, msg.mid, LdrChan).type = "JOINACCEPT"
        /\ JoinAccept(a, msg.mid, LdrChan).recip = LdrChan
        /\ JoinAccept(a, msg.mid, LdrChan).chan = a
    BY DEF JoinAccept
  <2>2. Accepted \subseteq Accepted' /\ a \in Accepted'
    BY <1>9, <2>1 DEF Accepted, Accepts
  <2>3. ASSUME NEW b \in Accepted' PROVE b \in Accepted \cup {a}
    BY <1>9, <2>1, <2>3 DEF Accepted, Accepts
  <2> QED BY <2>2, <2>3
<1>11. Wired'
  <2>1. LdrWired' BY <1>8, <1>9, <1>10 DEF LdrWired
  <2>2. FlwWired' BY <1>2, <1>9 DEF FlwWired, PeersInv, Wired
  <2>3. ASSUME NEW n \in net' PROVE JoinWired(n)'
    BY <1>2, <1>9 DEF JoinWired, PeersInv, Wired, JoinAccept
  <2>4. Accepted' \subseteq 2 .. nextChan' - 1
    BY <1>2, <1>3, <1>10 DEF PeersInv, Wired
  <2>5. open' = open BY <1>0, <1>1, Numbers DEF Commit, openAfter
  <2>6. RecipChannelOwned => RecipChannelOwned'
    BY <1>9, <2>5 DEF RecipChannelOwned
  <2> QED BY <1>9, <2>1, <2>2, <2>3, <2>4, <2>6 DEF PeersInv, Wired
<1>12. \A ch \in Chans : /\ Len(log'[ch]) <= MaxWrap
                         /\ ch # LdrChan => log'[ch] = log[ch]
  BY <1>0, <1>1, <1>2, LogGrows DEF PeersInv
<1>13. Heard'
  <2>1. memb'[Ldr].rem # "MEMBER" BY <1>2, <1>8, <1>9 DEF Pending
  <2>2. ~ Quiet(memb'[Flw]) => memb'[Flw].lchan \in Accepted'
    BY <1>9, <1>10 DEF PeersInv, Heard
  <2>3. \A ch \in Chans : ch # LdrChan /\ log'[ch] # <<>> => ch \in Accepted'
    BY <1>10, <1>12 DEF PeersInv, Heard
  <2> QED BY <1>12, <2>1, <2>2, <2>3 DEF Heard
<1>14. Attempts'
  <2>1. 0 \notin Accepted BY Numbers
  <2>2. Others = Accepted BY <1>2, <2>1 DEF Others
  <2>3. Others' \subseteq Accepted
    BY <1>8, <1>9, <1>10 DEF Others
  <2>4. adds # 0 BY <1>1 DEF PeersInv, Attempts
  <2>5. adds = 1 => Accepted = {}
    BY <1>1, <2>2 DEF PeersInv, Attempts
  <2>6. adds = 2 => \A f, g \in Accepted : f = g
    BY <1>1, <2>2 DEF PeersInv, Attempts
  <2>7. ASSUME adds <= 2, log'[a] # <<>>, NEW f \in Accepted' PROVE f <= a
    <3>1. log[a] # <<>> BY <1>4, <1>12, <2>7
    <3>2. a \in Accepted BY <1>4, <3>1 DEF PeersInv, Heard
    <3>3. adds = 2 BY <2>4, <2>5, <2>7, <3>2, Numbers
    <3>4. f = a BY <1>10, <2>6, <3>2, <3>3
    <3> QED BY <1>4, <3>4
  <2>8. adds' = adds /\ adds \in Nat BY <1>2, Numbers
  <2>9. adds = 1 => Accepted' = {a} /\ Others' = {}
    BY <1>10, <2>3, <2>5
  <2>10. adds = 2 => \A f, g \in Others' : f = g BY <2>3, <2>6
  <2>11. memb'[Ldr].rchan = a BY <1>8, <1>9
  <2> HIDE DEF a
  <2> QED BY <2>4, <2>7, <2>8, <2>9, <2>10, <2>11 DEF Attempts
<1> QED BY <1>11, <1>13, <1>14 DEF PeersInv

\* Neither members nor channels change, and no other channel is accepted.
LEMMA AnswerPeers ==
  ASSUME PeersInv, IInv', UNCHANGED <<memb, log, open, nextChan, adds>>,
         NEW L, net' = net \cup L,
         \A n \in L : n.type # "JOIN"
                      /\ (n.type = "JOINACCEPT" /\ n.recip = LdrChan
                            => n.chan \in Accepted)
  PROVE  PeersInv'
<1>1. Accepted' = Accepted BY AcceptedSame
<1>2. \A n \in net' : JoinWired(n)' BY DEF PeersInv, Wired, JoinWired
<1>3. Wired'
  BY <1>1, <1>2 DEF PeersInv, Wired, LdrWired, FlwWired, RecipChannelOwned
<1>4. Heard' BY <1>1 DEF PeersInv, Heard, Quiet
<1>5. Others' = Others BY <1>1 DEF Others
<1>6. Attempts' BY <1>1, <1>5 DEF PeersInv, Attempts
<1> QED BY <1>3, <1>4, <1>6 DEF PeersInv

\* Steps that touch nothing of a session.
LEMMA IdlePeers ==
  ASSUME PeersInv, IInv', UNCHANGED <<memb, log, net, open, nextChan, adds>>
  PROVE  PeersInv'
<1> DEFINE L == {}
<1>1. net' = net \cup L OBVIOUS
<1>2. \A n \in L : n.type # "JOIN" /\ (n.type = "JOINACCEPT" /\ n.recip = LdrChan
                                         => n.chan \in Accepted)
  OBVIOUS
<1> HIDE DEF L
<1> QED BY <1>1, <1>2, AnswerPeers

\* A cold Join: the follower opens the next channel, for a member or not.
LEMMA ColdPeers ==
  ASSUME PeersInv, IInv', UNCHANGED <<log, adds>>, memb[Flw] = Gone,
         nextChan \in Chans, nextChan' = nextChan + 1,
         open' \subseteq open \cup {nextChan}, memb'[Ldr] = memb[Ldr],
         memb'[Flw] # Gone =>
           /\ Quiet(memb'[Flw]) /\ memb'[Flw].rchan = LdrChan
           /\ memb'[Flw].mid = 1 /\ memb'[Flw].lchan = nextChan,
         ~ SendFail => memb'[Flw] # Gone /\ open' = open \cup {nextChan},
         NEW L, net' = net \cup L,
         \A n \in L :
           /\ n.type = "JOIN" => n.recip = LdrChan /\ n.chan = nextChan /\ n.mid = 1
           /\ n.type = "JOINACCEPT" => n.recip # LdrChan
  PROVE  PeersInv'
<1>1. Accepted' = Accepted BY AcceptedSame
<1>2. nextChan >= 2 /\ nextChan \in Nat /\ LdrChan = 1 /\ nextChan <= MaxChan
      /\ MaxChan \in Nat
  BY Numbers DEF Chans
<1>3. ASSUME NEW n \in net' PROVE JoinWired(n)'
  <2>1. CASE n \in net
    <3>1. JoinWired(n) BY <2>1 DEF PeersInv, Wired
    <3> QED BY <1>2, <3>1 DEF JoinWired
  <2>2. CASE n \in L BY <1>2, <2>2 DEF JoinWired
  <2> QED BY <2>1, <2>2
<1>4. FlwWired'
  <2> SUFFICES ASSUME memb'[Flw] # Gone
               PROVE  /\ memb'[Flw].rchan = LdrChan /\ memb'[Flw].mid = 1
                      /\ memb'[Flw].lchan = nextChan' - 1
                      /\ memb'[Flw].lchan \in 2 .. MaxChan
    BY DEF FlwWired
  <2> QED BY <1>2
<1>5. LdrWired' BY <1>1 DEF PeersInv, Wired, LdrWired
<1>6. Accepted' \subseteq 2 .. nextChan' - 1
  BY <1>1, <1>2 DEF PeersInv, Wired
<1>7. LdrChan \notin open' BY <1>2 DEF PeersInv, Wired
<1>8. ~ SendFail => RecipChannelOwned'
  BY DEF PeersInv, Wired, RecipChannelOwned
<1>9. Wired' BY <1>3, <1>4, <1>5, <1>6, <1>7, <1>8 DEF Wired
<1>10. Quiet(memb'[Flw]) BY Numbers
<1>11. Heard' BY <1>1, <1>10 DEF PeersInv, Heard
<1>12. Others' = Others BY <1>1 DEF Others
<1>13. Attempts' BY <1>1, <1>12 DEF PeersInv, Attempts
<1> QED BY <1>9, <1>11, <1>13 DEF PeersInv

LEMMA JoinPeers ==
  ASSUME PeersInv, IInv', NEW c \in Comp, NEW msg \in net, rx_join(c, msg)
  PROVE  PeersInv'
<1>0. /\ memb \in [Comp -> Member] /\ (c = Ldr \/ c = Flw) /\ Ldr # Flw
      /\ LdrChan = 1 /\ JoinWired(msg)
  BY Numbers DEF PeersInv, IInv, TypeOK, Comp, Wired
<1>1. \A ch, mid, r : /\ JoinRefuse(ch, mid).type = "JOINREFUSE"
                      /\ Leaving(ch, mid).type = "LEAVING"
                      /\ JoinAccept(ch, mid, r).type = "JOINACCEPT"
                      /\ JoinAccept(ch, mid, r).chan = ch
                      /\ JoinAccept(ch, mid, r).recip = r
  BY DEF JoinRefuse, Leaving, JoinAccept
<1>2. CASE joinRepeated(c, msg)
  <2> DEFINE L == {IF memb[c].rmid = msg.mid
                   THEN JoinAccept(msg.chan, msg.mid, memb[c].lchan)
                   ELSE JoinRefuse(msg.chan, msg.mid)}
  <2>1. /\ net' = net \cup L /\ UNCHANGED <<memb, log, open, nextChan, adds>>
        /\ memb[c] # Gone /\ memb[c].rchan = msg.chan /\ msg.type = "JOIN"
    BY <1>2 DEF joinRepeated, Answer, KnownRchan, ReceivesJoin
  <2>2. memb[c].lchan = LdrChan => msg.chan \in Accepted
    <3>1. CASE c = Ldr
      <4>1. memb[Ldr].rchan # 0
        <5>1. msg.chan \in Chans
          BY <2>1 DEF PeersInv, IInv, TypeOK, Message
        <5> QED BY <2>1, <3>1, <5>1 DEF Chans
      <4> QED BY <2>1, <3>1, <4>1 DEF PeersInv, Wired, LdrWired
    <3>2. CASE c = Flw
      <4>1. memb[Flw].lchan \in 2 .. MaxChan
        BY <2>1, <3>2 DEF PeersInv, Wired, FlwWired
      <4> QED BY <1>0, <3>2, <4>1
    <3> QED BY <1>0, <3>1, <3>2
  <2>3. \A n \in L : n.type # "JOIN"
                     /\ (n.type = "JOINACCEPT" /\ n.recip = LdrChan
                           => n.chan \in Accepted)
    BY <1>1, <2>2
  <2> HIDE DEF L
  <2> QED BY <2>1, <2>3, AnswerPeers
<1>3. CASE joinRecip(c, msg)
  <2>1. c # Flw
    <3> SUFFICES ASSUME c = Flw PROVE FALSE OBVIOUS
    <3>1. /\ msg.recip \in open /\ msg.type = "JOIN" /\ memb[Flw] # Gone
          /\ memb[Flw].rchan = 0
      BY <1>0, <1>3 DEF joinRecip, ReceivesJoin
    <3>2. memb[Flw].rchan = LdrChan BY <3>1 DEF PeersInv, Wired, FlwWired
    <3> QED BY <1>0, <3>1, <3>2
  <2> QED BY <1>0, <1>3, <2>1, JoinRecipPeers
<1>4. CASE joinRefused(c, msg)
  <2> DEFINE L == {JoinRefuse(msg.chan, msg.mid)}
  <2>1. UNCHANGED <<memb, log, open, nextChan, adds>> /\ net' = net \cup L
    BY <1>4 DEF joinRefused, Answer
  <2>2. \A n \in L : n.type = "JOINREFUSE" BY <1>1
  <2>3. \A n \in L : n.type # "JOIN"
                     /\ (n.type = "JOINACCEPT" /\ n.recip = LdrChan
                           => n.chan \in Accepted)
    BY <2>2
  <2> HIDE DEF L
  <2> QED BY <2>1, <2>3, AnswerPeers
<1>5. CASE joinAbortNull(c, msg)
  <2>1. UNCHANGED <<memb, log, net, open, nextChan, adds>>
    BY <1>5 DEF joinAbortNull
  <2> QED BY <2>1, IdlePeers
<1>6. ASSUME ReceivesJoin(c, msg), msg.recip = 0
      PROVE  c = Flw /\ msg.chan = LdrChan
  <2>1. c = Flw BY <1>0, <1>6 DEF ReceivesJoin
  <2>2. msg.type = "JOIN" BY <1>6 DEF ReceivesJoin
  <2> QED BY <1>0, <1>6, <2>1, <2>2 DEF JoinWired
<1>7. nextChan # LdrChan BY Numbers
<1>8. CASE joinCold(c, msg)
  <2> DEFINE new == [rem |-> "JOINRQ", loc |-> "JOINPEND", timer |-> "join",
              t_ms |-> 0, maktries |-> 0, lchan |-> nextChan, mid |-> 1,
              rchan |-> msg.chan, rmid |-> msg.mid, pos |-> msg.pos,
              connect |-> {}]
             L == {JoinAccept(msg.chan, msg.mid, nextChan), sendJoin(new)}
  <2>1. c = Flw /\ msg.chan = LdrChan BY <1>6, <1>8 DEF joinCold
  <2>2. /\ memb' = [memb EXCEPT ![Flw] = new] /\ net' = net \cup L
        /\ open' = open \cup {nextChan} /\ nextChan' = nextChan + 1
        /\ nextChan \in Chans /\ memb[Flw] = Gone /\ UNCHANGED <<log, adds>>
    BY <1>8, <2>1 DEF joinCold, Answer
  <2>3. memb'[Flw] = new /\ memb'[Ldr] = memb[Ldr]
    BY <1>0, <2>2, Numbers
  <2>4. /\ Quiet(new) /\ new.rchan = LdrChan /\ new.mid = 1
        /\ new.lchan = nextChan /\ new # Gone
    BY <2>1 DEF Quiet, Gone
  <2>5. /\ sendJoin(new).type = "JOIN" /\ sendJoin(new).chan = nextChan
        /\ sendJoin(new).recip = LdrChan /\ sendJoin(new).mid = 1
    BY <2>4 DEF sendJoin, Join
  <2>6. \A n \in L :
           /\ n.type = "JOIN" => n.recip = LdrChan /\ n.chan = nextChan /\ n.mid = 1
           /\ n.type = "JOINACCEPT" => n.recip # LdrChan
    <3> HIDE DEF new
    <3> QED BY <1>1, <1>7, <2>5
  <2> HIDE DEF new, L
  <2> QED BY <2>2, <2>3, <2>4, <2>6, ColdPeers
<1>9. CASE joinColdFails(c, msg)
  <2> DEFINE L == {n \in net' : n.type # "JOIN" /\
                     (n.type = "JOINACCEPT" => n.recip # LdrChan)}
  <2>1. c = Flw /\ msg.chan = LdrChan BY <1>6, <1>9 DEF joinColdFails
  <2>2. /\ open' = open \cup {nextChan} /\ nextChan' = nextChan + 1
        /\ nextChan \in Chans /\ memb[Flw] = Gone /\ UNCHANGED <<memb, log, adds>>
        /\ SendFail
    BY <1>9, <2>1 DEF joinColdFails
  <2>3. net' = net \cup L
    <3>1. \/ net' = net \cup {JoinRefuse(msg.chan, msg.mid)}
          \/ net' = net \cup {JoinAccept(msg.chan, msg.mid, nextChan),
                              Leaving(msg.chan, msg.mid),
                              JoinRefuse(msg.chan, msg.mid)}
      BY <1>9 DEF joinColdFails, Answer
    <3> QED BY <1>1, <1>7, <3>1
  <2>4. \A n \in L :
           /\ n.type = "JOIN" => n.recip = LdrChan /\ n.chan = nextChan /\ n.mid = 1
           /\ n.type = "JOINACCEPT" => n.recip # LdrChan
    OBVIOUS
  <2> HIDE DEF L
  <2> QED BY <2>2, <2>3, <2>4, ColdPeers
<1> QED BY <1>2, <1>3, <1>4, <1>5, <1>8, <1>9 DEF rx_join

LEMMA AddMemberPeers ==
  ASSUME PeersInv, IInv', NEW mid \in Mids, addMember(mid)
  PROVE  PeersInv'
<1> DEFINE new == [Gone EXCEPT !.rem = "JOINRQ", !.timer = "join",
                               !.lchan = LdrChan, !.mid = mid,
                               !.connect = {"LOCINIT"}]
           L == {sendJoin(new)}
<1>1. /\ memb' = [memb EXCEPT ![Ldr] = new] /\ net' = net \cup L
      /\ memb[Ldr] = Gone /\ adds' = adds + 1 /\ UNCHANGED <<log, open, nextChan>>
  BY DEF addMember, Answer
<1>2. memb'[Ldr] = new /\ memb'[Flw] = memb[Flw]
  BY <1>1, Numbers DEF PeersInv, IInv, TypeOK
<1>3. new.rchan = 0 /\ new.lchan = LdrChan /\ new.rem = "JOINRQ" BY DEF Gone
<1>4. /\ sendJoin(new).type = "JOIN" /\ sendJoin(new).chan = LdrChan
      /\ sendJoin(new).recip = 0
  BY <1>3 DEF sendJoin, Join
<1>5. \A n \in L : n.type = "JOIN" /\ n.chan = LdrChan /\ n.recip = 0
  <2> HIDE DEF new
  <2> QED BY <1>4
<1> HIDE DEF new, L
<1>6. Accepted' = Accepted
  <2>1. \A n \in L : n.type = "JOINACCEPT" /\ n.recip = LdrChan
                       => n.chan \in Accepted
    BY <1>5
  <2> QED BY <1>1, <2>1, AcceptedSame
<1>7. \A n \in net' : JoinWired(n)'
  BY <1>1, <1>5, Numbers DEF PeersInv, Wired, JoinWired
<1>8. LdrWired' /\ FlwWired'
  BY <1>1, <1>2, <1>3 DEF PeersInv, Wired, LdrWired, FlwWired
<1>9. Wired'
  BY <1>1, <1>2, <1>6, <1>7, <1>8 DEF PeersInv, Wired, RecipChannelOwned
<1>10. Heard' BY <1>1, <1>2, <1>3, <1>6 DEF PeersInv, Heard
<1>11. Others' = Accepted
  BY <1>2, <1>3, <1>6, Numbers DEF Others
<1>12. Attempts'
  <2>1. adds = 0 => Accepted = {} BY DEF PeersInv, Attempts
  <2>2. adds = 1 => \A f, g \in Accepted : f = g BY DEF PeersInv, Attempts
  <2>3. adds \in Nat /\ adds' \in Nat /\ adds' # 0 BY <1>1, Numbers
  <2>4. adds' = 1 => adds = 0 BY <1>1, <2>3
  <2>5. adds' = 2 => adds = 1 BY <1>1, <2>3
  <2> QED BY <1>2, <1>3, <1>6, <1>11, <2>1, <2>2, <2>3, <2>4, <2>5 DEF Attempts
<1> QED BY <1>9, <1>10, <1>12 DEF PeersInv

LEMMA RestartPeers ==
  ASSUME PeersInv, IInv', FlwRestarts
  PROVE  PeersInv'
<1>1. /\ memb' = [memb EXCEPT ![Flw] = Gone] /\ open' = {}
      /\ UNCHANGED <<log, net, nextChan, adds>>
  BY DEF FlwRestarts
<1>2. memb'[Flw] = Gone /\ memb'[Ldr] = memb[Ldr]
  BY <1>1, Numbers DEF PeersInv, IInv, TypeOK
<1>3. Accepts' = Accepts /\ Accepted' = Accepted BY <1>1 DEF Accepts, Accepted
<1>4. Others' = Others BY <1>2, <1>3 DEF Others
<1>5. Wired'
  BY <1>1, <1>2, <1>3
     DEF PeersInv, Wired, LdrWired, FlwWired, JoinWired, RecipChannelOwned
<1>6. Heard' BY <1>1, <1>2, <1>3, Numbers DEF PeersInv, Heard
<1>7. Attempts' BY <1>1, <1>2, <1>3, <1>4 DEF PeersInv, Attempts
<1> QED BY <1>5, <1>6, <1>7 DEF PeersInv

-----------------------------------------------------------------------------
LEMMA InitPeers == Init => PeersInv
<1> SUFFICES ASSUME Init PROVE PeersInv OBVIOUS
<1>1. IInv BY InitIInv
<1>2. /\ memb[Ldr] = Gone /\ memb[Flw] = Gone /\ net = {} /\ open = {}
      /\ nextChan = 2 /\ adds = 0 /\ \A ch \in Chans : log[ch] = <<>>
  BY DEF Init, Comp
<1>3. Accepted = {} /\ Others = {}
  BY <1>2 DEF Accepted, Accepts, Others
<1>4. Wired
  BY <1>2, <1>3 DEF Wired, LdrWired, FlwWired, Gone, RecipChannelOwned
<1>5. Heard
  BY <1>2, <1>3, SessionAssumption DEF Heard, Gone, Quiet
<1>6. Attempts
  BY <1>2, <1>3 DEF Attempts, Gone
<1> QED BY <1>1, <1>4, <1>5, <1>6 DEF PeersInv

LEMMA NextPeers == PeersInv /\ [Next]_vars => PeersInv'
<1> SUFFICES ASSUME PeersInv, [Next]_vars PROVE PeersInv' OBVIOUS
<1>0. IInv' BY NextIInv DEF PeersInv
<1>1. ASSUME NEW mid \in Mids, addMember(mid) PROVE PeersInv'
  BY <1>0, <1>1, AddMemberPeers
<1>2. ASSUME NEW c \in Comp, Receive(c) PROVE PeersInv'
  <2>1. ASSUME NEW msg \in net, rx_join(c, msg) PROVE PeersInv'
    BY <1>0, <2>1, JoinPeers
  <2>2. ASSUME NEW msg \in net, rx_joinAccept(c, msg) PROVE PeersInv'
    BY <1>0, <2>2, JoinAcceptPeers
  <2>3. ASSUME NEW msg \in net, rx_joinRefuse(c, msg) PROVE PeersInv'
    BY <1>0, <2>3, KillPeers DEF rx_joinRefuse
  <2>4. ASSUME NEW msg \in net, rx_leaving(c, msg) PROVE PeersInv'
    BY <1>0, <2>4, KillPeers DEF rx_leaving
  <2>5. ASSUME NEW i, rx_wrapper(c, i) PROVE PeersInv'
    BY <1>0, <2>5, WrapperPeers
  <2>6. CASE LoseSequence(c) BY <1>0, <2>6, KillPeers DEF LoseSequence
  <2> QED BY <1>2, <2>1, <2>2, <2>3, <2>4, <2>5, <2>6 DEF Receive
<1>3. ASSUME NEW c \in Comp, Timeout(c) PROVE PeersInv'
  BY <1>0, <1>3, TimeoutPeers
<1>4. ASSUME NEW c \in Comp, App(c) PROVE PeersInv'
  <2>1. CASE drop_member(c) BY <1>0, <2>1, KillPeers DEF drop_member
  <2>2. CASE sdt_addClient(c) \/ sdt_dropClient(c) BY <1>0, <2>2, ClientPeers
  <2>3. CASE StaleMemberRead(c) BY <1>0, <2>3, IdlePeers DEF StaleMemberRead
  <2> QED BY <1>4, <2>1, <2>2, <2>3 DEF App
<1>5. CASE LdrStops BY <1>0, <1>5, IdlePeers DEF LdrStops
<1>6. CASE FlwRestarts BY <1>0, <1>6, RestartPeers
<1>7. CASE UNCHANGED vars BY <1>0, <1>7, IdlePeers DEF vars
<1> QED BY <1>1, <1>2, <1>3, <1>4, <1>5, <1>6, <1>7 DEF Next

LEMMA PeersAgreed == PeersInv => PeersAgree
<1> SUFFICES ASSUME PeersInv, adds <= 2,
                    \A c \in Comp : "SDT" \in memb[c].connect
             PROVE  /\ \A c \in Comp : memb[c].rchan = memb[Peer(c)].lchan
                    /\ memb[Ldr].rmid = memb[Flw].mid
  BY DEF PeersAgree
<1> DEFINE a == memb[Ldr].rchan
           f == memb[Flw].lchan
<1>1. \A c \in Comp : /\ memb[c].rem = "MEMBER" /\ memb[c].rchan # 0
                      /\ memb[c] # Gone
  <2>1. \A c \in Comp : Sound(memb[c]) BY DEF PeersInv, IInv
  <2> QED BY <2>1 DEF Sound, HalvesInStep, Gone
<1>2. /\ a # 0 /\ a \in Accepted /\ memb[Ldr].lchan = LdrChan
      /\ memb[Ldr].rmid = 1 /\ log[a] # <<>>
  BY <1>1, Numbers DEF PeersInv, Wired, LdrWired, Heard
<1>3. /\ memb[Flw].rchan = LdrChan /\ memb[Flw].mid = 1 /\ f = nextChan - 1
  BY <1>1, Numbers DEF PeersInv, Wired, FlwWired
<1>4. f \in Accepted
  BY <1>1, Numbers DEF PeersInv, Heard, Quiet
<1>5. f <= a BY <1>2, <1>4 DEF PeersInv, Attempts
<1>6. a = f BY <1>2, <1>3, <1>4, <1>5, Numbers
<1>7. ASSUME NEW c \in Comp PROVE memb[c].rchan = memb[Peer(c)].lchan
  BY <1>2, <1>3, <1>6 DEF Peer, Comp
<1> QED BY <1>2, <1>3, <1>7

(***************************************************************************)
(* Two ends that both hold the session to be up are on each other's        *)
(* channels, whatever was lost, late or repeated, whatever restarted, and  *)
(* for any number of wrappers, channels, MIDs and calls, as long as        *)
(* addMember has been called at most twice (rx_join, rx_joinAccept and     *)
(* rx_ack of sdt.c).  The leader's ACK proves that the follower's channel  *)
(* was accepted by one of the two calls, and each accepts one at most.     *)
(***************************************************************************)
THEOREM PeersAlwaysAgree == Spec => []PeersAgree
  BY InitPeers, NextPeers, PeersAgreed, PTL DEF Spec

(***************************************************************************)
(* The follower has the reciprocal channel of its member open and no       *)
(* other, through joins, leaves, timeouts, refusals and restarts in any    *)
(* number (createRecip, killMember and closeChannel of sdt.c).  Sends must *)
(* succeed: one that fails in rx_join leaves a channel open.               *)
(***************************************************************************)
THEOREM ChannelsAreOwned == ~ SendFail => (Spec => []RecipChannelOwned)
<1> SUFFICES ASSUME ~ SendFail PROVE Spec => []RecipChannelOwned OBVIOUS
<1>1. PeersInv => RecipChannelOwned BY DEF PeersInv, Wired
<1> QED BY InitPeers, NextPeers, <1>1, PTL DEF Spec

-----------------------------------------------------------------------------
(***************************************************************************)
(* Proof that the client protocol is connected at both ends of a session   *)
(* or at none (ClientAgree of SdtSession).  What one end holds is related  *)
(* to what the other has sent and not yet been heard: an end that cannot   *)
(* be told the truth any more has a Leave on its way to it.                *)
(***************************************************************************)
\* The flags of a member of component c, and the wrappers it sends.
Flagged(c, m) ==
  /\ "CLIENTLOC" \in m.connect => m.loc = "MEMBER"
  /\ "CLIENTREM" \in m.connect => m.rem = "MEMBER"
  /\ m.loc = "MEMBER" => m.rem \in Joined
  /\ c = Ldr /\ ~ AutoCon => "CLIENTREM" \notin m.connect

Replies == {{}, {"CONNECT"}, {"CONACCEPT"}, {"CONREFUSE"}}
Partings == SUBSET {"DISCONNECT", "DISCONNECTING", "LEAVE"}

Shaped(c, w) ==
  /\ w.body \in IF "LEAVE" \in w.body THEN Partings ELSE Replies
  /\ w.body # {} => w.rel
  /\ "CONREFUSE" \in w.body => c = Ldr /\ ~ AutoCon

\* The context y that a handler of c has come to, whose member was m: all it
\* has sent is from m, and if m was told of as joined a Leave comes last.
Parts(m, y) ==
  IF y.m = Gone
  THEN m.rem \in Joined \/ y.tx # <<>> =>
         y.tx # <<>> /\ "LEAVE" \in y.tx[Len(y.tx)].body
  ELSE /\ y.m.mid = m.mid
       /\ m.rem \in Joined \/ y.tx # <<>> => y.m.rem \in Joined

Worded(c, m, y) ==
  /\ Flagged(c, y.m) /\ Parts(m, y)
  /\ \A k \in DOMAIN y.tx : y.tx[k].mid = m.mid /\ Shaped(c, y.tx[k])

\* And what it has sent is borne out by the member it has become.
Meant(m, y) ==
  y.m # Gone =>
    /\ m.rem = "MEMBER" => y.m.rem = "MEMBER"
    /\ "CLIENTREM" \in m.connect => "CLIENTREM" \in y.m.connect
    /\ \A k \in DOMAIN y.tx :
         /\ "CONNECT" \in y.tx[k].body => y.m.rem = "MEMBER"
         /\ "CONACCEPT" \in y.tx[k].body => "CLIENTREM" \in y.m.connect

\* And it has the flags that the wrapper w it has read accounts for.
Accounted(m, w, y) ==
  y.m # Gone =>
    /\ y.m.loc = m.loc /\ y.m.pos = m.pos
    /\ y.m.rem = "MEMBER" => m.rem = "MEMBER" \/ w.ack
    /\ "CLIENTREM" \in y.m.connect =>
         \/ "CLIENTREM" \in m.connect
         \/ /\ "CONNECT" \in w.body /\ m.rem = "MEMBER"
            /\ \E k \in DOMAIN y.tx : "CONACCEPT" \in y.tx[k].body
    /\ "CLIENTLOC" \in y.m.connect =>
         "CLIENTLOC" \in m.connect \/ "CONACCEPT" \in w.body
    /\ "CLIENTLOC" \in m.connect =>
         "CLIENTLOC" \in y.m.connect \/ "CONREFUSE" \in w.body

Told(m, w, y) == Meant(m, y) /\ Accounted(m, w, y)

-----------------------------------------------------------------------------
LEMMA GoneFlagged == ASSUME NEW c PROVE Flagged(c, Gone)
  BY DEF Flagged, Gone

\* Sending a wrapper.
LEMMA SendTx ==
  ASSUME NEW x, SoundCtx(x), NEW r, NEW b, NEW a, NEW k,
         Wrapper(x.m, r, b, a, k) \in WrapperT
  PROVE  LET y == SendWrap(x, r, b, a, k)
         IN  /\ y.m = x.m /\ Len(y.tx) = Len(x.tx) + 1
             /\ DOMAIN y.tx = 1 .. Len(x.tx) + 1 /\ DOMAIN x.tx = 1 .. Len(x.tx)
             /\ \A i \in 1 .. Len(x.tx) : y.tx[i] = x.tx[i]
             /\ y.tx[Len(x.tx) + 1] = Wrapper(x.m, r, b, a, k)
             /\ Len(x.tx) \in Nat /\ y.tx # <<>>
<1> DEFINE y == SendWrap(x, r, b, a, k)
           w == Wrapper(x.m, r, b, a, k)
<1>1. x \in CtxT /\ x.tx \in Seq(WrapperT) BY DEF SoundCtx, CtxT
<1>2. y.m = x.m /\ y.tx = Append(x.tx, w) BY <1>1 DEF SendWrap, CtxT
<1> HIDE DEF y, w
<1>3. /\ Len(Append(x.tx, w)) = Len(x.tx) + 1
      /\ DOMAIN Append(x.tx, w) = 1 .. Len(x.tx) + 1
      /\ DOMAIN x.tx = 1 .. Len(x.tx) /\ Len(x.tx) \in Nat
      /\ \A i \in 1 .. Len(x.tx) : Append(x.tx, w)[i] = x.tx[i]
      /\ Append(x.tx, w)[Len(x.tx) + 1] = w
      /\ Append(x.tx, w) # <<>>
  BY <1>1 DEF w
<1>4. /\ y.m = x.m /\ Len(y.tx) = Len(x.tx) + 1
      /\ DOMAIN y.tx = 1 .. Len(x.tx) + 1 /\ DOMAIN x.tx = 1 .. Len(x.tx)
      /\ \A i \in 1 .. Len(x.tx) : y.tx[i] = x.tx[i]
      /\ y.tx[Len(x.tx) + 1] = w /\ Len(x.tx) \in Nat /\ y.tx # <<>>
  BY <1>2, <1>3
<1> QED BY <1>4 DEF y, w

\* A member that is joined says something that is not a Leave.
LEMMA SendWorded ==
  ASSUME NEW c, NEW m, NEW x, SoundCtx(x), Worded(c, m, x), x.m # Gone,
         x.m.rem \in Joined, NEW b \in Replies, NEW r \in BOOLEAN, b # {} => r,
         "CONREFUSE" \in b => c = Ldr /\ ~ AutoCon, NEW a \in BOOLEAN,
         NEW k \in BOOLEAN
  PROVE  /\ Worded(c, m, SendWrap(x, r, b, a, k))
         /\ SendWrap(x, r, b, a, k).m = x.m
         /\ \E i \in DOMAIN SendWrap(x, r, b, a, k).tx :
               SendWrap(x, r, b, a, k).tx[i].body = b
<1> DEFINE y == SendWrap(x, r, b, a, k)
           w == Wrapper(x.m, r, b, a, k)
           n == Len(x.tx)
<1>1. w \in WrapperT
  <2>1. x.m.mid \in Nat BY DEF SoundCtx, CtxT, Member
  <2> QED BY <2>1 DEF Wrapper, WrapperT, Replies, Bodies
<1>2. /\ y.m = x.m /\ DOMAIN y.tx = 1 .. n + 1 /\ DOMAIN x.tx = 1 .. n
      /\ \A i \in 1 .. n : y.tx[i] = x.tx[i]
      /\ y.tx[n + 1] = w /\ n \in Nat /\ y.tx # <<>>
  BY <1>1, SendTx
<1>3. w.mid = m.mid /\ w.body = b /\ Shaped(c, w)
  <2>1. w.mid = x.m.mid /\ w.body = b /\ w.rel = r BY DEF Wrapper
  <2>2. x.m.mid = m.mid BY DEF Worded, Parts
  <2>3. "LEAVE" \notin b BY DEF Replies
  <2> HIDE DEF w
  <2> QED BY <2>1, <2>2, <2>3 DEF Shaped
<1> HIDE DEF y, w, n
<1>4. Parts(m, y) BY <1>2 DEF Worded, Parts
<1>5. ASSUME NEW i \in DOMAIN y.tx
      PROVE  y.tx[i].mid = m.mid /\ Shaped(c, y.tx[i])
  <2>1. CASE i = n + 1 BY <1>2, <1>3, <2>1
  <2>2. CASE i # n + 1
    <3>1. i \in 1 .. n BY <1>2, <2>2
    <3> QED BY <1>2, <3>1 DEF Worded
  <2> QED BY <2>1, <2>2
<1>6. Worded(c, m, y) BY <1>2, <1>4, <1>5 DEF Worded
<1>7. n + 1 \in DOMAIN y.tx BY <1>2
<1>8. \E i \in DOMAIN y.tx : y.tx[i].body = b BY <1>2, <1>3, <1>7
<1> QED BY <1>2, <1>6, <1>8 DEF y

LEMMA SendTold ==
  ASSUME NEW m, NEW w, NEW x, SoundCtx(x), Told(m, w, x), x.m # Gone,
         NEW b \in Replies, NEW r \in BOOLEAN, NEW a \in BOOLEAN, NEW k \in BOOLEAN,
         "CONNECT" \in b => x.m.rem = "MEMBER",
         "CONACCEPT" \in b => "CLIENTREM" \in x.m.connect
  PROVE  Told(m, w, SendWrap(x, r, b, a, k))
<1> DEFINE y == SendWrap(x, r, b, a, k)
           v == Wrapper(x.m, r, b, a, k)
           n == Len(x.tx)
<1>1. v \in WrapperT
  <2>1. x.m.mid \in Nat BY DEF SoundCtx, CtxT, Member
  <2> QED BY <2>1 DEF Wrapper, WrapperT, Replies, Bodies
<1>2. /\ y.m = x.m /\ DOMAIN y.tx = 1 .. n + 1 /\ DOMAIN x.tx = 1 .. n
      /\ \A i \in 1 .. n : y.tx[i] = x.tx[i]
      /\ y.tx[n + 1] = v /\ n \in Nat
  BY <1>1, SendTx
<1>3. v.body = b BY DEF Wrapper
<1> HIDE DEF y, v, n
<1>4. ASSUME NEW i \in DOMAIN y.tx
      PROVE  /\ "CONNECT" \in y.tx[i].body => y.m.rem = "MEMBER"
             /\ "CONACCEPT" \in y.tx[i].body => "CLIENTREM" \in y.m.connect
  <2>1. CASE i = n + 1 BY <1>2, <1>3, <2>1
  <2>2. CASE i # n + 1
    <3>1. i \in 1 .. n BY <1>2, <2>2
    <3> QED BY <1>2, <3>1 DEF Told, Meant
  <2> QED BY <2>1, <2>2
<1>5. Meant(m, y) BY <1>2, <1>4 DEF Told, Meant
<1>6. (\E i \in DOMAIN x.tx : "CONACCEPT" \in x.tx[i].body)
        => \E i \in DOMAIN y.tx : "CONACCEPT" \in y.tx[i].body
  BY <1>2
<1>7. Accounted(m, w, y) BY <1>2, <1>6 DEF Told, Accounted
<1> QED BY <1>5, <1>7 DEF Told, y

-----------------------------------------------------------------------------
(***************************************************************************)
(* A member that is killed says so, if it can be known of.                 *)
(***************************************************************************)
\* Neither events nor level 1 messages are wrappers.
LEMMA QuietSends ==
  ASSUME NEW x, SoundCtx(x), NEW e, NEW n
  PROVE  /\ Tell(x, e).tx = x.tx /\ SendL1(x, n).tx = x.tx
         /\ Tell(x, e).m = x.m /\ SendL1(x, n).m = x.m
  BY DEF SoundCtx, CtxT, Tell, SendL1

LEMMA KillTx ==
  ASSUME NEW x, SoundCtx(x), NEW e
  PROVE  /\ killMember(x, e).m = Gone
         /\ killMember(x, e).tx =
              IF Farewell(x.m) = {} THEN x.tx
              ELSE SendWrap(x, TRUE, Farewell(x.m), AutoAck(x.m), FALSE).tx
<1> DEFINE m  == x.m
           x1 == IF Farewell(m) = {} THEN x
                 ELSE SendWrap(x, TRUE, Farewell(m), AutoAck(m), FALSE)
           x2 == IF m.loc \in Pending THEN SendL1(x1, JoinRefuse(m.rchan, m.rmid))
                 ELSE IF m.loc = "MEMBER" THEN SendL1(x1, Leaving(m.rchan, m.rmid))
                 ELSE x1
           x3 == IF "SDT" \in m.connect THEN Tell(x2, "LOCLEAVE") ELSE x2
           x4 == IF e \in Events THEN Tell(x3, e) ELSE x3
<1>1. m \in Member BY DEF SoundCtx, CtxT
<1>2. SoundCtx(x1)
  <2>1. Farewell(m) \in SUBSET Bodies /\ AutoAck(m) \in BOOLEAN
    BY DEF Farewell, Bodies, AutoAck
  <2> QED BY <2>1, SendWrapSound
<1>3. SoundCtx(x2) /\ x2.tx = x1.tx
  <2>1. JoinRefuse(m.rchan, m.rmid) \in Message /\ Leaving(m.rchan, m.rmid) \in Message
    BY <1>1, SessionAssumption DEF Member, JoinRefuse, Leaving, Message
  <2> HIDE DEF x1
  <2> QED BY <1>2, <2>1, SendL1Sound, QuietSends
<1>4. SoundCtx(x3) /\ x3.tx = x1.tx
  <2> HIDE DEF x2
  <2> QED BY <1>3, TellSound, QuietSends DEF Events
<1>5. SoundCtx(x4) /\ x4.tx = x1.tx
  <2> HIDE DEF x3
  <2> QED BY <1>4, TellSound, QuietSends
<1>6. killMember(x, e) = [x4 EXCEPT !.m = Gone] BY DEF killMember
<1> HIDE DEF x4
<1>7. killMember(x, e).m = Gone /\ killMember(x, e).tx = x4.tx
  BY <1>5, <1>6 DEF SoundCtx, CtxT
<1> QED BY <1>5, <1>7

LEMMA KillWorded ==
  ASSUME NEW c, NEW m, NEW x, SoundCtx(x), Worded(c, m, x), NEW e
  PROVE  Worded(c, m, killMember(x, e)) /\ killMember(x, e).m = Gone
<1> DEFINE y == killMember(x, e)
           b == Farewell(x.m)
           a == AutoAck(x.m)
           r == TRUE
           k == FALSE
           z == SendWrap(x, r, b, a, k)
           w == Wrapper(x.m, r, b, a, k)
           n == Len(x.tx)
<1>1. y.m = Gone /\ y.tx = IF b = {} THEN x.tx ELSE z.tx BY KillTx
<1>2. Flagged(c, y.m) BY <1>1, GoneFlagged
<1>3. b # {} => "LEAVE" \in b
  BY DEF Worded, Flagged, Farewell, Joined
<1>4. ASSUME b = {} PROVE Worded(c, m, y)
  <2>1. x.m.rem \notin Joined BY <1>4 DEF Farewell
  <2>2. Parts(m, y)
    <3>1. x.m = Gone => Parts(m, y) BY <1>1, <1>4 DEF Worded, Parts
    <3>2. x.m # Gone => m.rem \notin Joined /\ x.tx = <<>>
      BY <2>1 DEF Worded, Parts
    <3> QED BY <1>1, <1>4, <3>1, <3>2 DEF Parts
  <2>3. y.tx = x.tx BY <1>1, <1>4
  <2> HIDE DEF y
  <2> QED BY <1>2, <2>2, <2>3 DEF Worded
<1>5. ASSUME b # {} PROVE Worded(c, m, y)
  <2>1. w \in WrapperT
    <3>1. x.m.mid \in Nat BY DEF SoundCtx, CtxT, Member
    <3>2. b \in SUBSET Bodies /\ a \in BOOLEAN BY DEF Farewell, Bodies, AutoAck
    <3> QED BY <3>1, <3>2 DEF Wrapper, WrapperT
  <2>2. /\ DOMAIN z.tx = 1 .. n + 1 /\ DOMAIN x.tx = 1 .. n /\ Len(z.tx) = n + 1
        /\ \A i \in 1 .. n : z.tx[i] = x.tx[i]
        /\ z.tx[n + 1] = w /\ n \in Nat /\ z.tx # <<>>
    <3> HIDE DEF b, a, r, k
    <3> QED BY <2>1, SendTx
  <2>3. w.mid = m.mid /\ w.body = b /\ Shaped(c, w)
    <3>1. w.mid = x.m.mid /\ w.body = b /\ w.rel = TRUE BY DEF Wrapper
    <3>2. x.m # Gone BY <1>5 DEF Farewell, Gone, Joined
    <3>3. x.m.mid = m.mid BY <3>2 DEF Worded, Parts
    <3>4. b \in Partings /\ "CONREFUSE" \notin b BY DEF Partings, Farewell
    <3> HIDE DEF w, b
    <3> QED BY <1>3, <1>5, <3>1, <3>3, <3>4 DEF Shaped
  <2> HIDE DEF y, w, z, n, b
  <2>4. Parts(m, y) BY <1>1, <1>3, <1>5, <2>2, <2>3 DEF Parts
  <2>5. ASSUME NEW i \in DOMAIN y.tx
        PROVE  y.tx[i].mid = m.mid /\ Shaped(c, y.tx[i])
    <3>1. CASE i = n + 1 BY <1>1, <1>5, <2>2, <2>3, <3>1
    <3>2. CASE i # n + 1
      <4>1. i \in 1 .. n BY <1>1, <1>5, <2>2, <3>2
      <4>2. y.tx[i] = x.tx[i] BY <1>1, <1>5, <2>2, <4>1
      <4> QED BY <2>2, <4>1, <4>2 DEF Worded
    <3> QED BY <3>1, <3>2
  <2> QED BY <1>2, <2>4, <2>5 DEF Worded
<1> HIDE DEF y
<1> QED BY <1>1, <1>4, <1>5 DEF y
-----------------------------------------------------------------------------
(***************************************************************************)
(* The wrapped messages.                                                   *)
(***************************************************************************)
\* The flags of a context.
LEMMA SetFlags ==
  ASSUME NEW x, SoundCtx(x), NEW S, NEW y, y = [x EXCEPT !.m.connect = S]
  PROVE  /\ y.tx = x.tx /\ y.m.rem = x.m.rem /\ y.m.loc = x.m.loc
         /\ y.m.mid = x.m.mid /\ y.m.pos = x.m.pos /\ y.m.connect = S
         /\ (y.m = Gone => x.m.rem = "NULL" /\ x.m.timer = "off")
  BY DEF SoundCtx, CtxT, Member, Gone

LEMMA FlagsWorded ==
  ASSUME NEW c, NEW m, NEW x, SoundCtx(x), Worded(c, m, x), x.m # Gone, NEW S,
         "CLIENTLOC" \in S => x.m.loc = "MEMBER",
         "CLIENTREM" \in S => x.m.rem = "MEMBER",
         c = Ldr /\ ~ AutoCon => "CLIENTREM" \notin S,
         NEW y, y = [x EXCEPT !.m.connect = S]
  PROVE  Worded(c, m, y) /\ y.m # Gone
<1>1. /\ y.tx = x.tx /\ y.m.rem = x.m.rem /\ y.m.loc = x.m.loc
      /\ y.m.mid = x.m.mid /\ y.m.pos = x.m.pos /\ y.m.connect = S
      /\ (y.m = Gone => x.m.rem = "NULL" /\ x.m.timer = "off")
  BY SetFlags
<1>2. x.m.timer # "off" BY DEF SoundCtx, Sound, Timed
<1>3. y.m # Gone BY <1>1, <1>2
<1>4. Flagged(c, y.m) BY <1>1 DEF Worded, Flagged
<1>5. Parts(m, y) BY <1>1, <1>3 DEF Worded, Parts
<1>6. Worded(c, m, y) BY <1>1, <1>4, <1>5 DEF Worded
<1> QED BY <1>3, <1>6

LEMMA SDTwrapWorded ==
  ASSUME NEW c, NEW m, NEW x, SoundCtx(x), Worded(c, m, x), x.m # Gone,
         x.m.rem \in Joined, NEW b \in {"CONNECT", "CONACCEPT", "CONREFUSE"},
         b = "CONREFUSE" => c = Ldr /\ ~ AutoCon
  PROVE  /\ Worded(c, m, SDTwrap(x, b)) /\ SDTwrap(x, b).m = x.m
         /\ \E i \in DOMAIN SDTwrap(x, b).tx : SDTwrap(x, b).tx[i].body = {b}
<1> DEFINE B == {b}
           r == TRUE
           k == FALSE
           a == AutoAck(x.m)
           y == SendWrap(x, r, B, a, k)
<1>1. B \in Replies /\ r \in BOOLEAN /\ k \in BOOLEAN /\ a \in BOOLEAN /\ (B # {} => r)
  BY DEF Replies, AutoAck
<1>2. "CONREFUSE" \in B => c = Ldr /\ ~ AutoCon OBVIOUS
<1>3. y = SDTwrap(x, b) BY DEF SDTwrap
<1>4. B = {b} OBVIOUS
<1> HIDE DEF B, r, k, a
<1>5. /\ Worded(c, m, y) /\ y.m = x.m /\ \E i \in DOMAIN y.tx : y.tx[i].body = B
  BY <1>1, <1>2, SendWorded
<1> HIDE DEF y
<1> QED BY <1>3, <1>4, <1>5

LEMMA SDTwrapTold ==
  ASSUME NEW m, NEW w, NEW x, SoundCtx(x), Told(m, w, x), x.m # Gone,
         NEW b \in {"CONNECT", "CONACCEPT", "CONREFUSE"},
         b = "CONNECT" => x.m.rem = "MEMBER",
         b = "CONACCEPT" => "CLIENTREM" \in x.m.connect
  PROVE  Told(m, w, SDTwrap(x, b))
<1> DEFINE B == {b}
           r == TRUE
           k == FALSE
           a == AutoAck(x.m)
<1>1. B \in Replies /\ r \in BOOLEAN /\ k \in BOOLEAN /\ a \in BOOLEAN
  BY DEF Replies, AutoAck
<1>2. ("CONNECT" \in B => x.m.rem = "MEMBER")
      /\ ("CONACCEPT" \in B => "CLIENTREM" \in x.m.connect)
  OBVIOUS
<1>3. SendWrap(x, r, B, a, k) = SDTwrap(x, b) BY DEF SDTwrap
<1> HIDE DEF B, r, k, a
<1>4. Told(m, w, SendWrap(x, r, B, a, k)) BY <1>1, <1>2, SendTold
<1> QED BY <1>3, <1>4

LEMMA ConnectWorded ==
  ASSUME NEW c \in Comp, NEW m, NEW x, SoundCtx(x), Worded(c, m, x), x.m # Gone
  PROVE  Worded(c, m, rx_connect(c, x))
<1> DEFINE x1 == SDTwrap(x, "CONACCEPT")
           S  == x1.m.connect \cup {"CLIENTREM"}
<1>1. CASE x.m.rem # "MEMBER" BY <1>1 DEF rx_connect
<1>2. CASE x.m.rem = "MEMBER"
  <2>1. x.m.rem \in Joined /\ "SDT" \in x.m.connect
    BY <1>2 DEF SoundCtx, Sound, HalvesInStep, Joined
  <2>2. CASE ~ (c = Flw \/ AutoCon)
    <3>1. c = Ldr /\ ~ AutoCon BY <2>2 DEF Comp
    <3>2. rx_connect(c, x) = SDTwrap(x, "CONREFUSE")
      BY <1>2, <2>2 DEF rx_connect
    <3> QED BY <2>1, <3>1, <3>2, SDTwrapWorded
  <2>3. CASE c = Flw \/ AutoCon
    <3>1. ~ (c = Ldr /\ ~ AutoCon) BY <2>3, SessionAssumption
    <3>2. Worded(c, m, x1) /\ x1.m = x.m BY <2>1, SDTwrapWorded
    <3>3. SoundCtx(x1) BY SDTwrapSound DEF Bodies
    <3>4. rx_connect(c, x) = [x1 EXCEPT !.m.connect = S]
      BY <1>2, <2>1, <2>3 DEF rx_connect
    <3>5. "CLIENTLOC" \in S => x1.m.loc = "MEMBER"
      BY <3>2 DEF Worded, Flagged
    <3>6. "CLIENTREM" \in S => x1.m.rem = "MEMBER" BY <1>2, <3>2
    <3>7. x1.m # Gone BY <3>2
    <3>8. c = Ldr /\ ~ AutoCon => "CLIENTREM" \notin S BY <3>1
    <3> HIDE DEF x1, S
    <3> QED BY <3>2, <3>3, <3>4, <3>5, <3>6, <3>7, <3>8, FlagsWorded
  <2> QED BY <2>2, <2>3
<1> QED BY <1>1, <1>2

LEMMA ConnectTold ==
  ASSUME NEW c \in Comp, NEW m, NEW w, NEW x, SoundCtx(x), Told(m, w, x), x.m # Gone,
         x.m.rem = m.rem, "CONNECT" \in w.body
  PROVE  Told(m, w, rx_connect(c, x))
<1> DEFINE b == {"CONACCEPT"}
           r == TRUE
           a == AutoAck(x.m)
           k == FALSE
           x1 == SendWrap(x, r, b, a, k)
           v == Wrapper(x.m, r, b, a, k)
           n == Len(x.tx)
           S == x1.m.connect \cup {"CLIENTREM"}
           y == [x1 EXCEPT !.m.connect = S]
<1>1. CASE rx_connect(c, x) = x BY <1>1
<1>2. CASE rx_connect(c, x) = SDTwrap(x, "CONREFUSE") BY <1>2, SDTwrapTold
<1>3. CASE rx_connect(c, x) = y /\ x.m.rem = "MEMBER"
  <2>1. v \in WrapperT /\ v.body = b
    <3>1. x.m.mid \in Nat BY DEF SoundCtx, CtxT, Member
    <3> QED BY <3>1 DEF Wrapper, WrapperT, Bodies, AutoAck
  <2>2. /\ x1.m = x.m /\ DOMAIN x1.tx = 1 .. n + 1 /\ DOMAIN x.tx = 1 .. n
        /\ \A i \in 1 .. n : x1.tx[i] = x.tx[i]
        /\ x1.tx[n + 1] = v /\ n \in Nat
    <3> HIDE DEF b, r, a, k
    <3> QED BY <2>1, SendTx
  <2>3. SoundCtx(x1)
    <3>1. b \in SUBSET Bodies /\ r \in BOOLEAN /\ a \in BOOLEAN /\ k \in BOOLEAN
      BY DEF Bodies, AutoAck
    <3> HIDE DEF b, r, a, k
    <3> QED BY <3>1, SendWrapSound
  <2> HIDE DEF x1
  <2>4. /\ y.tx = x1.tx /\ y.m.rem = x.m.rem /\ y.m.loc = x.m.loc
        /\ y.m.connect = S /\ y.m.pos = x.m.pos
    <3>1. y = [x1 EXCEPT !.m.connect = S] OBVIOUS
    <3> HIDE DEF S, y
    <3>2. /\ y.tx = x1.tx /\ y.m.rem = x1.m.rem /\ y.m.loc = x1.m.loc
          /\ y.m.connect = S /\ y.m.pos = x1.m.pos
      BY <2>3, <3>1 DEF SoundCtx, CtxT, Member
    <3> QED BY <2>2, <3>2
  <2>5. S = x.m.connect \cup {"CLIENTREM"} BY <2>2
  <2>6. "CONACCEPT" \in y.tx[n + 1].body /\ n + 1 \in DOMAIN y.tx
        /\ "CONNECT" \notin y.tx[n + 1].body
    <3>1. y.tx[n + 1].body = {"CONACCEPT"} BY <2>1, <2>2, <2>4
    <3> HIDE DEF y, S, v, b, n
    <3>2. n + 1 \in DOMAIN y.tx BY <2>2, <2>4
    <3> QED BY <3>1, <3>2
  <2> HIDE DEF y, S, n, v, b
  <2>7. ASSUME NEW i \in DOMAIN y.tx
        PROVE  "CONNECT" \in y.tx[i].body => y.m.rem = "MEMBER"
    BY <1>3, <2>4
  <2>8. Meant(m, y) BY <1>3, <2>4, <2>5, <2>7 DEF Told, Meant
  <2>9. Accounted(m, w, y)
    BY <1>3, <2>4, <2>5, <2>6 DEF Told, Accounted
  <2>10. Told(m, w, y) BY <2>8, <2>9 DEF Told
  <2> QED BY <1>3, <2>10
<1>4. \/ rx_connect(c, x) = x \/ rx_connect(c, x) = SDTwrap(x, "CONREFUSE")
      \/ rx_connect(c, x) = y /\ x.m.rem = "MEMBER"
  BY DEF rx_connect, SDTwrap
<1> QED BY <1>1, <1>2, <1>3, <1>4

\* The flag is set on a member that is joined.
LEMMA ConacceptKept ==
  ASSUME NEW c, NEW m, NEW x, SoundCtx(x), Worded(c, m, x), x.m.loc = "MEMBER"
  PROVE  /\ Worded(c, m, rx_conaccept(x))
         /\ "CLIENTLOC" \in rx_conaccept(x).m.connect
         /\ \A w : Told(m, w, x) /\ "CONACCEPT" \in w.body => Told(m, w, rx_conaccept(x))
<1> DEFINE S == x.m.connect \cup {"CLIENTLOC"}
           y == [x EXCEPT !.m.connect = S]
<1>1. y = rx_conaccept(x) BY DEF rx_conaccept
<1>2. x.m # Gone BY DEF Gone
<1>3. Worded(c, m, y)
  <2>1. "CLIENTREM" \in S => "CLIENTREM" \in x.m.connect OBVIOUS
  <2>2. y = [x EXCEPT !.m.connect = S] OBVIOUS
  <2> HIDE DEF S, y
  <2>3. /\ "CLIENTLOC" \in S => x.m.loc = "MEMBER"
        /\ "CLIENTREM" \in S => x.m.rem = "MEMBER"
        /\ c = Ldr /\ ~ AutoCon => "CLIENTREM" \notin S
    BY <2>1 DEF Worded, Flagged
  <2> QED BY <1>2, <2>2, <2>3, FlagsWorded
<1>4. /\ y.tx = x.tx /\ y.m.rem = x.m.rem /\ y.m.loc = x.m.loc
      /\ y.m.connect = S /\ y.m.pos = x.m.pos
  <2> HIDE DEF S
  <2> QED BY DEF SoundCtx, CtxT, Member
<1> HIDE DEF y
<1>5. ASSUME NEW w, Told(m, w, x), "CONACCEPT" \in w.body PROVE Told(m, w, y)
  <2>1. Meant(m, y) BY <1>2, <1>4, <1>5 DEF Told, Meant
  <2>2. Accounted(m, w, y) BY <1>2, <1>4, <1>5 DEF Told, Accounted
  <2> QED BY <2>1, <2>2 DEF Told
<1> QED BY <1>1, <1>3, <1>4, <1>5

LEMMA ToldGone ==
  ASSUME NEW m, NEW w, NEW y, y.m = Gone PROVE Told(m, w, y)
  BY DEF Told, Meant, Accounted

LEMMA ConrefuseKept ==
  ASSUME NEW c, NEW m, NEW x, SoundCtx(x), Worded(c, m, x), x.m # Gone
  PROVE  /\ Worded(c, m, rx_conrefuse(x))
         /\ \A w : Told(m, w, x) /\ "CONREFUSE" \in w.body => Told(m, w, rx_conrefuse(x))
<1> DEFINE S == x.m.connect \ {"CLIENTLOC"}
           y == [x EXCEPT !.m.connect = S]
           z == killMember(x, "CONNECTFAIL")
<1>1. rx_conrefuse(x) \in {x, y, z} BY DEF rx_conrefuse
<1>2. Worded(c, m, y)
  <2>1. "CLIENTREM" \in S => "CLIENTREM" \in x.m.connect OBVIOUS
  <2>2. "CLIENTLOC" \notin S /\ y = [x EXCEPT !.m.connect = S] OBVIOUS
  <2> HIDE DEF S, y
  <2>3. /\ "CLIENTREM" \in S => x.m.rem = "MEMBER"
        /\ c = Ldr /\ ~ AutoCon => "CLIENTREM" \notin S
    BY <2>1 DEF Worded, Flagged
  <2> QED BY <2>2, <2>3, FlagsWorded
<1>3. /\ y.tx = x.tx /\ y.m.rem = x.m.rem /\ y.m.loc = x.m.loc
      /\ y.m.connect = S /\ y.m.pos = x.m.pos
  <2>1. y = [x EXCEPT !.m.connect = S] OBVIOUS
  <2> HIDE DEF S, y
  <2> QED BY <2>1, SetFlags
<1>4. Worded(c, m, z) /\ z.m = Gone BY KillWorded
<1> HIDE DEF y, z
<1>5. ASSUME NEW w, Told(m, w, x), "CONREFUSE" \in w.body
      PROVE  Told(m, w, y) /\ Told(m, w, z)
  <2>1. Meant(m, y) BY <1>3, <1>5 DEF Told, Meant
  <2>2. Accounted(m, w, y) BY <1>3, <1>5 DEF Told, Accounted
  <2> QED BY <1>4, <2>1, <2>2, ToldGone DEF Told
<1> QED BY <1>1, <1>2, <1>4, <1>5

LEMMA DisconnectWorded ==
  ASSUME NEW c, NEW m, NEW x, SoundCtx(x), Worded(c, m, x), x.m # Gone
  PROVE  Worded(c, m, rx_disconnect(x)) /\ Worded(c, m, rx_disconnecting(x))
<1> DEFINE S == x.m.connect \ {"CLIENTREM"}
           T == x.m.connect \ {"CLIENTLOC"}
<1>1. Worded(c, m, [x EXCEPT !.m.connect = S])
  <2>1. "CLIENTREM" \notin S OBVIOUS
  <2>2. "CLIENTLOC" \in S => x.m.loc = "MEMBER" BY DEF Worded, Flagged
  <2> HIDE DEF S
  <2> QED BY <2>1, <2>2, FlagsWorded
<1>2. Worded(c, m, [x EXCEPT !.m.connect = T])
  <2>1. "CLIENTREM" \in T => "CLIENTREM" \in x.m.connect OBVIOUS
  <2>2. "CLIENTLOC" \notin T OBVIOUS
  <2> HIDE DEF T
  <2>3. /\ "CLIENTREM" \in T => x.m.rem = "MEMBER"
        /\ c = Ldr /\ ~ AutoCon => "CLIENTREM" \notin T
    BY <2>1 DEF Worded, Flagged
  <2> QED BY <2>2, <2>3, FlagsWorded
<1>3. Worded(c, m, killMember(x, "REMDISCONNECTING")) BY KillWorded
<1> QED BY <1>1, <1>2, <1>3 DEF rx_disconnect, rx_disconnecting

LEMMA AckKept ==
  ASSUME NEW c \in Comp, NEW m, NEW x, SoundCtx(x), Worded(c, m, x), x.m.loc \in Joined
  PROVE  /\ Worded(c, m, rx_ack(c, x))
         /\ rx_ack(c, x).m # Gone /\ rx_ack(c, x).m.loc = x.m.loc
         /\ "CLIENTLOC" \in rx_ack(c, x).m.connect <=> "CLIENTLOC" \in x.m.connect
         /\ \A w : Told(m, w, x) /\ w.ack => Told(m, w, rx_ack(c, x))
<1> DEFINE a  == [x EXCEPT !.m.maktries = MakRetries + 1, !.m.timer = "mak"]
           b  == [a EXCEPT !.m.rem = "MEMBER"]
           d  == [b EXCEPT !.m.connect = @ \cup {"SDT"}]
           e  == Tell(d, "JOINSUCCESS")
           f  == SDTwrap(e, "CONNECT")
<1>1. x.m \in Member /\ x \in CtxT /\ x.m # Gone BY DEF SoundCtx, CtxT, Gone, Joined
<1>2. CASE x.m.rem = "MEMBER"
  <2>1. rx_ack(c, x) = a BY <1>2 DEF rx_ack
  <2>2. /\ a.tx = x.tx /\ a.m.rem = x.m.rem /\ a.m.loc = x.m.loc /\ a.m.mid = x.m.mid
        /\ a.m.pos = x.m.pos /\ a.m.connect = x.m.connect /\ a.m.timer = "mak"
    BY <1>1 DEF Member, CtxT
  <2> HIDE DEF a
  <2>3. a.m # Gone BY <2>2 DEF Gone
  <2>4. Worded(c, m, a) BY <1>1, <2>2, <2>3 DEF Worded, Flagged, Parts
  <2>5. ASSUME NEW w, Told(m, w, x), w.ack PROVE Told(m, w, a)
    BY <1>1, <2>2, <2>3, <2>5 DEF Told, Meant, Accounted
  <2> QED BY <2>1, <2>2, <2>3, <2>4, <2>5
<1>3. CASE x.m.rem = "JOINPEND"
  <2>1. x.m.loc = "MEMBER"
    BY <1>3 DEF SoundCtx, Sound, HalvesInStep, Joined
  <2>2. rx_ack(c, x) \in {e, f} BY <1>3, <2>1 DEF rx_ack, setFullMember
  <2>3. SoundCtx(rx_ack(c, x)) BY AckSound
  <2>4. /\ e.tx = x.tx /\ e.m.rem = "MEMBER" /\ e.m.loc = x.m.loc /\ e.m.mid = x.m.mid
        /\ e.m.pos = x.m.pos /\ e.m.connect = x.m.connect \cup {"SDT"} /\ e.m.timer = "mak"
    BY <1>1 DEF Member, CtxT, Tell
  <2>5. SoundCtx(e)
    <3> DEFINE n == [[x.m EXCEPT !.maktries = MakRetries + 1, !.timer = "mak"]
                        EXCEPT !.rem = "MEMBER", !.connect = @ \cup {"SDT"}]
    <3>0. MakRetries + 1 \in 0 .. MakRetries + 1 BY SessionAssumption
    <3>1. n \in Member
      BY <1>1, <3>0 DEF Member, Timers, MState, Flags
    <3>2. HalvesInStep(n) /\ Timed(n) /\ n.lchan = x.m.lchan /\ n.timer # "off"
      BY <1>1, <2>1 DEF Member, SoundCtx, Sound, HalvesInStep, Timed
    <3>3. d = [x EXCEPT !.m = n] BY <1>1 DEF Member, CtxT
    <3> HIDE DEF n
    <3>4. SoundCtx([x EXCEPT !.m = n]) BY <1>1, <3>1, <3>2, MemberSound
    <3> HIDE DEF d
    <3> QED BY <3>3, <3>4, TellSound DEF Events
  <2> HIDE DEF e
  <2>6. e.m # Gone BY <2>4 DEF Gone
  <2>7. Worded(c, m, e)
    <3>1. Flagged(c, e.m) BY <2>1, <2>4 DEF Worded, Flagged, Joined
    <3>2. Parts(m, e) BY <1>1, <2>4, <2>6 DEF Worded, Parts, Joined
    <3> QED BY <2>4, <3>1, <3>2 DEF Worded
  <2>8. ASSUME NEW w, Told(m, w, x), w.ack PROVE Told(m, w, e)
    BY <1>1, <2>4, <2>6, <2>8 DEF Told, Meant, Accounted
  <2>9. e.m.rem \in Joined BY <2>4 DEF Joined
  <2>10. Worded(c, m, f) /\ f.m = e.m
    BY <2>5, <2>6, <2>7, <2>9, SDTwrapWorded
  <2>11. ASSUME NEW w, Told(m, w, x), w.ack PROVE Told(m, w, f)
    BY <2>4, <2>5, <2>6, <2>8, <2>11, SDTwrapTold
  <2> HIDE DEF f
  <2> QED BY <2>2, <2>4, <2>6, <2>7, <2>8, <2>10, <2>11
<1>4. CASE x.m.rem \notin {"MEMBER", "JOINPEND"}
  <2>1. rx_ack(c, x) = x BY <1>4 DEF rx_ack
  <2> QED BY <1>1, <2>1
<1> QED BY <1>2, <1>3, <1>4

LEMMA DisconnectLoc ==
  ASSUME NEW x, SoundCtx(x)
  PROVE  /\ rx_disconnect(x).m.loc = x.m.loc
         /\ rx_disconnecting(x).m = Gone \/ rx_disconnecting(x).m.loc = x.m.loc
<1>1. rx_disconnect(x).m.loc = x.m.loc
  BY DEF rx_disconnect, SoundCtx, CtxT, Member
<1>2. [x EXCEPT !.m.connect = @ \ {"CLIENTLOC"}].m.loc = x.m.loc
  BY DEF SoundCtx, CtxT, Member
<1>3. killMember(x, "REMDISCONNECTING").m = Gone BY KillSound
<1> HIDE DEF killMember
<1> QED BY <1>1, <1>2, <1>3 DEF rx_disconnecting

\* The peer parts: whatever else the wrapper says, the member is killed.
LEMMA LeaveWorded ==
  ASSUME NEW c \in Comp, NEW m, NEW w \in WrapperT, w.body \in Partings,
         "LEAVE" \in w.body, NEW x, SoundCtx(x), Worded(c, m, x), x.m.loc \in Joined
  PROVE  Worded(c, m, sdtLevel2Rx(c, x, w)) /\ sdtLevel2Rx(c, x, w).m = Gone
<1> DEFINE full == x.m.loc = "MEMBER"
           x1 == On(x,  full /\ "CONNECT" \in w.body, rx_connect(c, x))
           x2 == On(x1, full /\ "CONACCEPT" \in w.body, rx_conaccept(x1))
           x3 == On(x2, full /\ "CONREFUSE" \in w.body, rx_conrefuse(x2))
           x4 == On(x3, full /\ "DISCONNECT" \in w.body, rx_disconnect(x3))
           x5 == On(x4, full /\ "DISCONNECTING" \in w.body, rx_disconnecting(x4))
           x6 == On(x5, "LEAVE" \in w.body, rx_leave(x5))
           x7 == On(x6, w.ack, rx_ack(c, x6))
<1>0. Gone.loc \notin Joined /\ \A z : z.m.loc \in Joined => z.m # Gone
  BY DEF Gone, Joined
<1>1. "CONNECT" \notin w.body /\ "CONACCEPT" \notin w.body /\ "CONREFUSE" \notin w.body
  BY DEF Partings
<1>2. x3 = x
  <2>1. x1 = x BY <1>1 DEF On
  <2>2. x2 = x1 BY <1>1 DEF On
  <2>3. x3 = x2 BY <1>1 DEF On
  <2> QED BY <2>1, <2>2, <2>3
<1> HIDE DEF x3
<1>3. Worded(c, m, x4) /\ SoundCtx(x4) /\ x4.m.loc = x.m.loc
  <2>1. Worded(c, m, rx_disconnect(x)) /\ SoundCtx(rx_disconnect(x))
        /\ rx_disconnect(x).m.loc = x.m.loc
    BY <1>0, DisconnectWorded, ClientFlagsSound, DisconnectLoc
  <2> HIDE DEF rx_disconnect
  <2> QED BY <1>2, <2>1 DEF On
<1> HIDE DEF x4
<1>4. Worded(c, m, x5) /\ SoundCtx(x5) /\ (x5.m = Gone \/ x5.m.loc = x.m.loc)
  <2>1. Worded(c, m, rx_disconnecting(x4)) /\ SoundCtx(rx_disconnecting(x4))
        /\ (rx_disconnecting(x4).m = Gone \/ rx_disconnecting(x4).m.loc = x4.m.loc)
    BY <1>0, <1>3, DisconnectWorded, ClientFlagsSound, DisconnectLoc
  <2> HIDE DEF rx_disconnecting
  <2> QED BY <1>3, <2>1 DEF On
<1> HIDE DEF x5
<1>5. Worded(c, m, x6) /\ x6.m = Gone
  <2>1. Worded(c, m, rx_leave(x5)) /\ rx_leave(x5).m = Gone
    BY <1>4, KillWorded DEF rx_leave
  <2> HIDE DEF rx_leave
  <2>2. CASE x5.m = Gone BY <1>0, <1>4, <2>2 DEF On
  <2>3. CASE x5.m.loc = x.m.loc BY <2>1, <2>3 DEF On
  <2> QED BY <1>4, <2>2, <2>3
<1> HIDE DEF x6
<1>6. x7 = x6 BY <1>0, <1>5 DEF On
<1>7. sdtLevel2Rx(c, x, w) = x7 BY <1>2 DEF sdtLevel2Rx, x3, x4, x5, x6
<1> QED BY <1>5, <1>6, <1>7

\* A member reads anything else.
LEMMA ReplyTold ==
  ASSUME NEW c \in Comp, NEW m, NEW w \in WrapperT, w.body \in Replies,
         NEW x, SoundCtx(x), Worded(c, m, x), Told(m, w, x),
         x.m.rem = m.rem, x.m.loc = "MEMBER", m.loc = "MEMBER"
  PROVE  LET y == sdtLevel2Rx(c, x, w)
         IN  /\ Worded(c, m, y) /\ Told(m, w, y)
             /\ "CONACCEPT" \in w.body => y.m = Gone \/ "CLIENTLOC" \in y.m.connect
<1> DEFINE full == x.m.loc = "MEMBER"
           x1 == On(x,  full /\ "CONNECT" \in w.body, rx_connect(c, x))
           x2 == On(x1, full /\ "CONACCEPT" \in w.body, rx_conaccept(x1))
           x3 == On(x2, full /\ "CONREFUSE" \in w.body, rx_conrefuse(x2))
           x4 == On(x3, full /\ "DISCONNECT" \in w.body, rx_disconnect(x3))
           x5 == On(x4, full /\ "DISCONNECTING" \in w.body, rx_disconnecting(x4))
           x6 == On(x5, "LEAVE" \in w.body, rx_leave(x5))
           x7 == On(x6, w.ack, rx_ack(c, x6))
<1>0. Gone.loc \notin Joined /\ \A z : z.m.loc \in Joined => z.m # Gone
  BY DEF Gone, Joined
<1>1. /\ "DISCONNECT" \notin w.body /\ "DISCONNECTING" \notin w.body
      /\ "LEAVE" \notin w.body
      /\ "CONACCEPT" \in w.body => "CONREFUSE" \notin w.body
  BY DEF Replies
<1>2. Worded(c, m, x1) /\ SoundCtx(x1) /\ Told(m, w, x1)
  <2>1. Worded(c, m, rx_connect(c, x)) /\ SoundCtx(rx_connect(c, x))
    BY <1>0, ConnectWorded, ConnectSound DEF Joined
  <2>2. "CONNECT" \in w.body => Told(m, w, rx_connect(c, x))
    BY <1>0, ConnectTold DEF Joined
  <2> HIDE DEF rx_connect
  <2> QED BY <2>1, <2>2 DEF On
<1> HIDE DEF x1
<1>3. /\ Worded(c, m, x2) /\ SoundCtx(x2) /\ Told(m, w, x2)
      /\ "CONACCEPT" \in w.body => x2.m.loc \notin Joined \/ "CLIENTLOC" \in x2.m.connect
  <2>1. CASE x1.m.loc \in Joined
    <3>1. x1.m.loc = "MEMBER" BY <1>0, <1>2, <2>1 DEF Told, Accounted
    <3>2. /\ Worded(c, m, rx_conaccept(x1)) /\ SoundCtx(rx_conaccept(x1))
          /\ "CLIENTLOC" \in rx_conaccept(x1).m.connect
          /\ ("CONACCEPT" \in w.body => Told(m, w, rx_conaccept(x1)))
      BY <1>0, <1>2, <2>1, <3>1, ConacceptKept, ClientFlagsSound
    <3> HIDE DEF rx_conaccept
    <3> QED BY <1>2, <2>1, <3>2 DEF On
  <2>2. CASE x1.m.loc \notin Joined BY <1>2, <2>2 DEF On
  <2> QED BY <2>1, <2>2
<1> HIDE DEF x2
<1>4. /\ Worded(c, m, x3) /\ SoundCtx(x3) /\ Told(m, w, x3)
      /\ "CONACCEPT" \in w.body => x3.m.loc \notin Joined \/ "CLIENTLOC" \in x3.m.connect
  <2>1. CASE x2.m.loc \in Joined /\ "CONREFUSE" \in w.body
    <3>2. /\ Worded(c, m, rx_conrefuse(x2)) /\ SoundCtx(rx_conrefuse(x2))
          /\ Told(m, w, rx_conrefuse(x2))
      BY <1>0, <1>3, <2>1, ConrefuseKept, ClientFlagsSound
    <3> HIDE DEF rx_conrefuse
    <3> QED BY <1>1, <1>3, <2>1, <3>2 DEF On
  <2>2. CASE ~ (x2.m.loc \in Joined /\ "CONREFUSE" \in w.body)
    BY <1>3, <2>2 DEF On
  <2> QED BY <2>1, <2>2
<1> HIDE DEF x3
<1>5. x6 = x3
  <2>1. x4 = x3 BY <1>1 DEF On
  <2>2. x5 = x4 BY <1>1 DEF On
  <2>3. x6 = x5 BY <1>1 DEF On
  <2> QED BY <2>1, <2>2, <2>3
<1> HIDE DEF x6
<1>6. /\ Worded(c, m, x7) /\ Told(m, w, x7)
      /\ "CONACCEPT" \in w.body => x7.m.loc \notin Joined \/ "CLIENTLOC" \in x7.m.connect
  <2>1. CASE x3.m.loc \in Joined /\ w.ack
    <3>2. /\ Worded(c, m, rx_ack(c, x3)) /\ Told(m, w, rx_ack(c, x3))
          /\ rx_ack(c, x3).m.loc = x3.m.loc
          /\ "CLIENTLOC" \in rx_ack(c, x3).m.connect <=> "CLIENTLOC" \in x3.m.connect
      BY <1>4, <2>1, AckKept
    <3> HIDE DEF rx_ack
    <3> QED BY <1>4, <1>5, <2>1, <3>2 DEF On
  <2>2. CASE ~ (x3.m.loc \in Joined /\ w.ack)
    BY <1>4, <1>5, <2>2 DEF On
  <2> QED BY <2>1, <2>2
<1> HIDE DEF x7
<1>7. sdtLevel2Rx(c, x, w) = x7 BY DEF sdtLevel2Rx, x1, x2, x3, x6, x7
<1>8. x7.m.loc \notin Joined => x7.m = Gone
  BY <1>6 DEF Told, Accounted, Joined
<1> QED BY <1>6, <1>7, <1>8

\* While Join Pending there is nothing in it for us but a Leave.
LEMMA PendingSkips ==
  ASSUME NEW c, NEW w, "LEAVE" \notin w.body, NEW x, SoundCtx(x), x.m.loc = "JOINPEND"
  PROVE  sdtLevel2Rx(c, x, w) = x
<1>1. x.m.rem \notin {"MEMBER", "JOINPEND"}
  BY DEF SoundCtx, Sound, HalvesInStep, Joined
<1>2. rx_ack(c, x) = x BY <1>1 DEF rx_ack
<1> HIDE DEF rx_ack
<1> QED BY <1>2 DEF sdtLevel2Rx, On

(***************************************************************************)
(* The invariant.  A channel is Full when nothing more gets through on it, *)
(* Parted when the follower's member that owned it has ended.  A wrapper   *)
(* that has been sent is backed by its sender's member, unless that has    *)
(* said Leave since.  A member is Doomed when it cannot take all its       *)
(* peer's wrappers and stay.                                               *)
(***************************************************************************)
Full(s) == Len(s) >= MaxWrap

LeftFrom(s, i, mid) ==
  \E j \in DOMAIN s : j >= i /\ "LEAVE" \in s[j].body /\ s[j].mid = mid

Parted(ch) == ch # LdrChan /\ (memb[Flw] = Gone \/ memb[Flw].lchan # ch)

Backed(m, w) ==
  /\ m # Gone /\ w.mid = m.mid /\ m.rem \in Joined
  /\ "CONNECT" \in w.body => m.rem = "MEMBER"
  /\ "CONACCEPT" \in w.body => "CLIENTREM" \in m.connect

Owned ==
  \A ch \in Chans : \A i \in DOMAIN log[ch] :
     \/ Full(log[ch]) \/ LeftFrom(log[ch], i, log[ch][i].mid) \/ Parted(ch)
     \/ Backed(memb[Owner(ch)], log[ch][i])

\* Member m, whose peer's channel is s.
Lost(m, s) ==
  /\ m.loc = "MEMBER"
  /\ Full(s) \/ LeftFrom(s, m.pos + 1, m.rmid)

Doomed(c) == Lost(memb[c], log[memb[c].rchan])

\* The follower is joined by the leader it knows.
Met ==
  memb[Flw].rem = "MEMBER" =>
    \/ Doomed(Flw)
    \/ memb[Ldr] # Gone /\ memb[Ldr].mid = memb[Flw].rmid /\ memb[Ldr].rem \in Joined

AllFlagged == \A c \in Comp : Flagged(c, memb[c])

Shape == \A ch \in Chans : \A i \in DOMAIN log[ch] : Shaped(Owner(ch), log[ch][i])

PosIn ==
  /\ \A n \in net : n.type = "JOIN" => n.pos <= Len(log[n.chan])
  /\ \A c \in Comp :
       memb[c].rchan # 0 => memb[c].pos <= Len(log[memb[c].rchan])

PartedFrom(c) == c = Ldr /\ Parted(memb[Ldr].rchan)

\* A Connect Accept that member m sent on s is taken by p, or will be.
Taken(m, s, p) ==
  /\ p.loc = "MEMBER" /\ p.rchan = m.lchan /\ p.rmid = m.mid
  /\ \/ "CLIENTLOC" \in p.connect
     \/ \E i \in DOMAIN s :
          i > p.pos /\ "CONACCEPT" \in s[i].body /\ s[i].mid = p.rmid

AcceptReaches(c) ==
  "CLIENTREM" \in memb[c].connect =>
    \/ Doomed(c) \/ Full(log[memb[c].lchan]) \/ PartedFrom(c) \/ Doomed(Peer(c))
    \/ Taken(memb[c], log[memb[c].lchan], memb[Peer(c)])

\* Member m took p's Connect Accept.
Faces(m, p) ==
  p # Gone /\ p.lchan = m.rchan /\ p.mid = m.rmid /\ "CLIENTREM" \in p.connect

AcceptMeant(c) ==
  "CLIENTLOC" \in memb[c].connect =>
    Doomed(c) \/ PartedFrom(c) \/ Faces(memb[c], memb[Peer(c)])

ClientInv ==
  /\ adds <= 2
  /\ Owned /\ Met /\ AllFlagged /\ Shape /\ PosIn
  /\ \A c \in Comp : AcceptReaches(c) /\ AcceptMeant(c)

-----------------------------------------------------------------------------
LEMMA CarryKeeps ==
  ASSUME NEW s \in Seq(WrapperT), NEW t \in Seq(WrapperT), Len(s) <= MaxWrap
  PROVE  LET z == Carry(s, t)
         IN  /\ Len(z) >= Len(s) /\ Len(z) <= Len(s) + Len(t)
             /\ \A i \in 1 .. Len(s) : z[i] = s[i]
             /\ \A i \in 1 .. Len(z) : i > Len(s) => z[i] = t[i - Len(s)]
             /\ Len(z) >= MaxWrap \/ Len(z) = Len(s) + Len(t)
             /\ z \in Seq(WrapperT)
<1> DEFINE all == s \o t
           n   == IF Len(all) < MaxWrap THEN Len(all) ELSE MaxWrap
           z   == SubSeq(all, 1, n)
<1>1. /\ all \in Seq(WrapperT) /\ Len(all) = Len(s) + Len(t)
      /\ \A i \in 1 .. Len(s) : all[i] = s[i]
      /\ \A i \in 1 .. Len(all) : i > Len(s) => all[i] = t[i - Len(s)]
      /\ Len(s) \in Nat /\ Len(t) \in Nat
  OBVIOUS
<1>2. n \in Nat /\ n <= Len(all) /\ n >= Len(s) /\ (n >= MaxWrap \/ n = Len(all))
  BY <1>1, SessionAssumption
<1> HIDE DEF all, n
<1>3. /\ z \in Seq(WrapperT) /\ Len(z) = n /\ \A i \in 1 .. n : z[i] = all[i]
  <2>1. \A i \in 1 .. n : all[i] \in WrapperT BY <1>1, <1>2
  <2> QED BY <1>1, <1>2, <2>1, SubSeqProperties
<1>4. z = Carry(s, t) BY DEF Carry, all, n
<1> HIDE DEF z
<1> QED BY <1>1, <1>2, <1>3, <1>4

\* Log u is s and then all of t, or is full.
Extends(s, t, u) ==
  /\ Len(s) \in Nat /\ Len(u) \in Nat
  /\ DOMAIN s = 1 .. Len(s) /\ DOMAIN u = 1 .. Len(u)
  /\ Len(s) <= Len(u)
  /\ \A i \in 1 .. Len(s) : u[i] = s[i]
  /\ \A i \in 1 .. Len(u) :
       i > Len(s) => i - Len(s) \in DOMAIN t /\ u[i] = t[i - Len(s)]
  /\ Full(u) \/ Len(u) = Len(s) + Len(t)

LEMMA CarryExtends ==
  ASSUME NEW s \in Seq(WrapperT), NEW t \in Seq(WrapperT), Len(s) <= MaxWrap
  PROVE  Extends(s, t, Carry(s, t))
<1> DEFINE z == Carry(s, t)
<1>1. /\ Len(z) >= Len(s) /\ Len(z) <= Len(s) + Len(t)
      /\ \A i \in 1 .. Len(s) : z[i] = s[i]
      /\ \A i \in 1 .. Len(z) : i > Len(s) => z[i] = t[i - Len(s)]
      /\ Len(z) >= MaxWrap \/ Len(z) = Len(s) + Len(t)
      /\ z \in Seq(WrapperT)
  BY CarryKeeps
<1>2. /\ Len(t) \in Nat /\ DOMAIN t = 1 .. Len(t) /\ Len(s) \in Nat
      /\ DOMAIN s = 1 .. Len(s)
  OBVIOUS
<1> HIDE DEF z
<1>3. Len(z) \in Nat /\ DOMAIN z = 1 .. Len(z) BY <1>1
<1>4. \A i \in 1 .. Len(z) : i > Len(s) => i - Len(s) \in DOMAIN t
  <2>1. \A a, b, l \in Nat : \A k \in 1 .. a :
          k > b /\ a <= b + l => k - b \in 1 .. l
    OBVIOUS
  <2> QED BY <1>1, <1>2, <1>3, <2>1
<1>5. Extends(s, t, z) BY <1>1, <1>2, <1>3, <1>4 DEF Extends, Full
<1> QED BY <1>5 DEF z

\* A log that grows stays full, and keeps what has been said.
LEMMA ExtendsKeeps ==
  ASSUME NEW s, NEW t, NEW u, Extends(s, t, u)
  PROVE  /\ Full(s) => Full(u)
         /\ \A i, mid : LeftFrom(s, i, mid) => LeftFrom(u, i, mid)
         /\ \A m : Lost(m, s) => Lost(m, u)
         /\ \A m, p : Taken(m, s, p) => Taken(m, u, p)
<1>1. Full(s) => Full(u)
  <2>1. Len(s) \in Nat /\ Len(u) \in Nat /\ Len(s) <= Len(u) BY DEF Extends
  <2> QED BY <2>1, SessionAssumption DEF Full
<1>2. \A j \in DOMAIN s : j \in DOMAIN u /\ u[j] = s[j]
  <2>1. /\ Len(s) \in Nat /\ Len(u) \in Nat /\ Len(s) <= Len(u)
        /\ DOMAIN s = 1 .. Len(s) /\ DOMAIN u = 1 .. Len(u)
    BY DEF Extends
  <2>2. \A i \in 1 .. Len(s) : u[i] = s[i] BY DEF Extends
  <2> QED BY <2>1, <2>2
<1>3. \A i, mid : LeftFrom(s, i, mid) => LeftFrom(u, i, mid)
  BY <1>2 DEF LeftFrom
<1>4. \A m : Lost(m, s) => Lost(m, u) BY <1>1, <1>3 DEF Lost
<1>5. \A m, p : Taken(m, s, p) => Taken(m, u, p) BY <1>2 DEF Taken
<1> QED BY <1>1, <1>3, <1>4, <1>5

\* A member that is killed while its peer may know it says Leave.
LEMMA KilledLeaves ==
  ASSUME NEW s, NEW u, NEW m, NEW x, x.tx \in Seq(WrapperT), Extends(s, x.tx, u),
         NEW c, Worded(c, m, x), x.m = Gone, m.rem \in Joined \/ x.tx # <<>>,
         NEW i \in Nat, i <= Len(s) + Len(x.tx)
  PROVE  Full(u) \/ LeftFrom(u, i, m.mid)
<1> DEFINE n == Len(x.tx)
           j == Len(s) + n
<1>1. x.tx # <<>> /\ "LEAVE" \in x.tx[n].body BY DEF Worded, Parts
<1>2. n \in Nat /\ n >= 1 /\ n \in DOMAIN x.tx BY <1>1
<1>3. x.tx[n].mid = m.mid BY <1>2 DEF Worded
<1>4. ASSUME ~ Full(u) PROVE LeftFrom(u, i, m.mid)
  <2>1. Len(u) = j BY <1>4 DEF Extends
  <2>2. j \in DOMAIN u /\ j > Len(s) /\ j - Len(s) = n /\ j >= i
    <3>1. Len(s) \in Nat /\ Len(u) \in Nat /\ DOMAIN u = 1 .. Len(u)
      BY DEF Extends
    <3> HIDE DEF n
    <3> QED BY <1>2, <2>1, <3>1 DEF n
  <2>3. u[j] = x.tx[n] BY <2>1, <2>2 DEF Extends
  <2> HIDE DEF j, n
  <2> QED BY <1>1, <1>3, <2>2, <2>3 DEF LeftFrom
<1> QED BY <1>4

\* And whoever is joined to its channel will be rid of it.
LEMMA KilledDooms ==
  ASSUME NEW s, NEW u, NEW m, NEW x, x.tx \in Seq(WrapperT), Extends(s, x.tx, u),
         NEW c, Worded(c, m, x), x.m = Gone, m.rem \in Joined,
         NEW p, p.loc = "MEMBER", p.rmid = m.mid, p.pos \in Nat, p.pos <= Len(s)
  PROVE  Lost(p, u)
<1>1. x.tx # <<>> BY DEF Worded, Parts
<1>2. Len(s) \in Nat BY DEF Extends
<1>4. Len(x.tx) \in Nat /\ Len(x.tx) >= 1 BY <1>1
<1>3. p.pos + 1 \in Nat /\ p.pos + 1 <= Len(s) + Len(x.tx) BY <1>2, <1>4
<1> QED BY <1>3, KilledLeaves DEF Lost

\* Who owns the channels of a member.
LEMMA Wires ==
  ASSUME PeersInv, NEW c \in Comp
  PROVE  /\ Peer(c) \in Comp /\ Peer(c) # c /\ Peer(Peer(c)) = c
         /\ \A k \in Comp : k = c \/ k = Peer(c)
         /\ memb[c] # Gone =>
              /\ memb[c].lchan \in Chans /\ Owner(memb[c].lchan) = c
              /\ \A ch \in Chans : Owner(ch) = c /\ ch # memb[c].lchan => Parted(ch)
         /\ memb[c].rchan # 0 =>
              /\ memb[c].rchan \in Chans /\ Owner(memb[c].rchan) = Peer(c)
              /\ memb[c].rchan # memb[c].lchan
         /\ c = Ldr /\ memb[c].rchan # 0 => memb[c].rchan # LdrChan
         /\ c = Flw /\ memb[c].rchan # 0 => memb[c].rchan = LdrChan
         /\ c = Ldr /\ memb[c] # Gone => memb[c].lchan = LdrChan
<1>1. Peer(c) \in Comp /\ Peer(c) # c /\ Peer(Peer(c)) = c
      /\ \A k \in Comp : k = c \/ k = Peer(c)
  BY SessionAssumption DEF Peer, Comp
<1>2. memb[c] # Gone => memb[c].lchan \in Chans BY MemberTyped DEF PeersInv
<1>3. memb[c].rchan # 0 => memb[c] # Gone BY Numbers
<1>4. CASE c = Ldr
  <2>1. memb[c] # Gone => memb[c].lchan = LdrChan
    BY <1>4 DEF PeersInv, Wired, LdrWired
  <2>2. memb[c].rchan # 0 => memb[c].rchan \in Chans /\ memb[c].rchan # LdrChan
    BY <1>4, Numbers DEF PeersInv, Wired, LdrWired
  <2>3. \A ch : Owner(ch) = Ldr <=> ch = LdrChan
    BY SessionAssumption DEF Owner
  <2>4. \A ch : ch # LdrChan => Owner(ch) = Flw BY DEF Owner
  <2>5. Peer(c) = Flw /\ c # Flw BY <1>4, SessionAssumption DEF Peer
  <2> QED BY <1>1, <1>2, <1>3, <1>4, <2>1, <2>2, <2>3, <2>4, <2>5
<1>5. CASE c = Flw
  <2>1. memb[c] # Gone => memb[c].lchan # LdrChan /\ memb[c].rchan = LdrChan
    BY <1>5, Numbers DEF PeersInv, Wired, FlwWired
  <2>2. \A ch : Owner(ch) = Flw <=> ch # LdrChan
    BY SessionAssumption DEF Owner
  <2>3. LdrChan \in Chans /\ Owner(LdrChan) = Ldr /\ Peer(c) = Ldr /\ c # Ldr
    BY <1>5, SessionAssumption, Numbers DEF Owner, Peer, LdrChan, Chans
  <2>4. \A ch \in Chans : Owner(ch) = c /\ ch # memb[c].lchan => Parted(ch)
    BY <1>5, <2>2 DEF Parted
  <2> QED BY <1>1, <1>2, <1>3, <1>5, <2>1, <2>2, <2>3, <2>4
<1> QED BY <1>4, <1>5 DEF Comp

\* A handler of c commits x, which says what it means.
Says(c, x) ==
  /\ SoundCtx(x) /\ Commit(c, x) /\ memb[c] # Gone
  /\ Worded(c, memb[c], x) /\ Meant(memb[c], x)
  /\ x.m # Gone => x.m.lchan = memb[c].lchan
  /\ \A n \in x.l1 : n.type = "JOIN" => n = sendJoin(memb[c])
  /\ UNCHANGED adds

\* The effect on the logs, and on what only depends on the peer.
LEMMA SaysGrows ==
  ASSUME PeersInv, NEW c \in Comp, NEW x, Says(c, x)
  PROVE  /\ memb'[c] = x.m /\ memb'[Peer(c)] = memb[Peer(c)]
         /\ \A ch \in Chans : /\ log[ch] \in Seq(WrapperT)
                              /\ \E t : Extends(log[ch], t, log'[ch])
                              /\ ch # memb[c].lchan => log'[ch] = log[ch]
         /\ Extends(log[memb[c].lchan], x.tx, log'[memb[c].lchan])
         /\ \A ch : Parted(ch) => Parted(ch)'
         /\ x.tx \in Seq(WrapperT) /\ x.m \in Member
<1>1. /\ memb \in [Comp -> Member] /\ log \in [Chans -> Seq(WrapperT)]
      /\ memb' = [memb EXCEPT ![c] = x.m] /\ memb[c].lchan \in Chans
      /\ x.tx \in Seq(WrapperT) /\ x.m \in Member
  BY MemberTyped DEF PeersInv, IInv, TypeOK, Says, Commit, SoundCtx, CtxT
<1>2. memb'[c] = x.m /\ memb'[Peer(c)] = memb[Peer(c)] BY <1>1, Wires
<1>3. ASSUME NEW ch \in Chans
      PROVE  /\ log[ch] \in Seq(WrapperT) /\ \E t : Extends(log[ch], t, log'[ch])
             /\ ch # memb[c].lchan => log'[ch] = log[ch]
             /\ ch = memb[c].lchan => Extends(log[ch], x.tx, log'[ch])
  <2>1. log[ch] \in Seq(WrapperT) /\ Len(log[ch]) <= MaxWrap
    BY <1>1 DEF PeersInv, Heard
  <2>2. ASSUME log'[ch] = log[ch] PROVE Extends(log[ch], <<>>, log'[ch])
    <3>1. Len(log[ch]) \in Nat /\ DOMAIN log[ch] = 1 .. Len(log[ch]) /\ Len(<<>>) = 0
      BY <2>1
    <3> QED BY <2>2, <3>1 DEF Extends
  <2>3. CASE x.tx = <<>>
    <3>1. log'[ch] = log[ch] BY <2>3 DEF Says, Commit
    <3> QED BY <2>1, <2>2, <2>3, <3>1
  <2>4. CASE x.tx # <<>> /\ ch # memb[c].lchan
    <3>1. log'[ch] = log[ch] BY <1>1, <2>4 DEF Says, Commit
    <3> QED BY <2>1, <2>2, <2>4, <3>1
  <2>5. CASE x.tx # <<>> /\ ch = memb[c].lchan
    <3>1. log'[ch] = Carry(log[ch], x.tx) BY <1>1, <2>5 DEF Says, Commit
    <3> QED BY <1>1, <2>1, <2>5, <3>1, CarryExtends
  <2> QED BY <2>3, <2>4, <2>5
<1>4. ASSUME NEW ch, Parted(ch) PROVE Parted(ch)'
  <2>1. memb'[Flw] = memb[Flw] \/ memb'[Flw] = Gone
        \/ (memb[Flw] # Gone /\ memb'[Flw].lchan = memb[Flw].lchan)
    BY <1>2, Wires, Numbers DEF Says
  <2> QED BY <1>4, <2>1 DEF Parted
<1> QED BY <1>1, <1>2, <1>3, <1>4

\* What a log holds after the commit, of the old and of the new.
LEMMA CommitOwned ==
  ASSUME PeersInv, ClientInv, NEW c \in Comp, NEW x, Says(c, x)
  PROVE  Owned'
<1> DEFINE m == memb[c]
           L == memb[c].lchan
<1>1. /\ memb'[c] = x.m /\ memb'[Peer(c)] = memb[Peer(c)]
      /\ Extends(log[L], x.tx, log'[L])
      /\ \A ch \in Chans : ch # L => log'[ch] = log[ch]
      /\ \A ch : Parted(ch) => Parted(ch)'
      /\ x.tx \in Seq(WrapperT)
  BY SaysGrows
<1>2. /\ L \in Chans /\ Owner(L) = c /\ m # Gone
      /\ \A ch \in Chans : Owner(ch) = c /\ ch # L => Parted(ch)
      /\ \A ch : Owner(ch) = c \/ Owner(ch) = Peer(c)
  BY Wires DEF Says, Owner, Comp
<1>3. Worded(c, m, x) /\ Meant(m, x) BY DEF Says
<1> SUFFICES ASSUME NEW ch \in Chans, NEW i \in DOMAIN log'[ch]
             PROVE  \/ Full(log'[ch]) \/ LeftFrom(log'[ch], i, log'[ch][i].mid)
                    \/ Parted(ch)' \/ Backed(memb'[Owner(ch)], log'[ch][i])
  BY DEF Owned
<1>4. CASE ch # L
  <2>1. log'[ch] = log[ch] BY <1>1, <1>4
  <2>2. CASE Owner(ch) = c BY <1>1, <1>2, <1>4, <2>2
  <2>3. CASE Owner(ch) = Peer(c)
    <3>1. \/ Full(log[ch]) \/ LeftFrom(log[ch], i, log[ch][i].mid)
          \/ Parted(ch) \/ Backed(memb[Owner(ch)], log[ch][i])
      BY <2>1 DEF ClientInv, Owned
    <3> QED BY <1>1, <2>1, <2>3, <3>1
  <2> QED BY <1>2, <2>2, <2>3
<1>5. CASE ch = L
  <2> DEFINE s == log[L]
             u == log'[L]
             n == Len(s)
  <2>1. /\ DOMAIN s = 1 .. n /\ DOMAIN u = 1 .. Len(u) /\ n \in Nat /\ Len(u) \in Nat
        /\ \A k \in 1 .. n : u[k] = s[k]
        /\ \A k \in 1 .. Len(u) : k > n => k - n \in DOMAIN x.tx /\ u[k] = x.tx[k - n]
        /\ Full(u) \/ Len(u) = n + Len(x.tx)
    BY <1>1 DEF Extends
  <2>2. CASE i \in DOMAIN s
    <3>1. u[i] = s[i] BY <2>1, <2>2
    <3>2. \/ Full(s) \/ LeftFrom(s, i, s[i].mid) \/ Parted(L) \/ Backed(m, s[i])
      BY <1>2, <2>2 DEF ClientInv, Owned
    <3>3. (Full(s) => Full(u)) /\ (LeftFrom(s, i, s[i].mid) => LeftFrom(u, i, s[i].mid))
      BY <1>1, ExtendsKeeps
    <3>4. CASE Backed(m, s[i])
      <4>1. CASE x.m = Gone
        <5>1. s[i].mid = m.mid /\ m.rem \in Joined BY <3>4 DEF Backed
        <5>2. Len(x.tx) \in Nat BY <1>1
        <5>3. i \in Nat /\ i <= n + Len(x.tx)
          <6>1. i \in 1 .. n /\ n \in Nat BY <2>1, <2>2
          <6> HIDE DEF n
          <6> QED BY <5>2, <6>1
        <5> HIDE DEF s, u, m, L
        <5>4. Full(u) \/ LeftFrom(u, i, m.mid)
          BY <1>1, <1>3, <4>1, <5>1, <5>3, KilledLeaves DEF s, u
        <5> QED BY <1>5, <3>1, <5>1, <5>4 DEF u
      <4>2. CASE x.m # Gone
        <5>1. x.m.mid = m.mid /\ x.m.rem \in Joined
          BY <1>3, <3>4, <4>2 DEF Worded, Parts, Backed
        <5>2. Backed(x.m, s[i])
          BY <1>3, <3>4, <4>2, <5>1 DEF Meant, Backed
        <5> QED BY <1>1, <1>2, <1>5, <3>1, <5>2
      <4> QED BY <4>1, <4>2
    <3> QED BY <1>1, <1>5, <3>1, <3>2, <3>3, <3>4
  <2>3. CASE i \notin DOMAIN s
    <3> DEFINE k == i - n
    <3>1. i > n /\ i \in 1 .. Len(u) BY <1>5, <2>1, <2>3
    <3>2. k \in DOMAIN x.tx /\ u[i] = x.tx[k] BY <2>1, <3>1
    <3>3. x.tx[k].mid = m.mid /\ x.tx # <<>> BY <1>1, <1>3, <3>2 DEF Worded
    <3>4. CASE x.m = Gone
      <4>1. Len(x.tx) \in Nat /\ DOMAIN x.tx = 1 .. Len(x.tx) BY <1>1
      <4>2. i \in Nat /\ i <= n + Len(x.tx)
        <5>1. i \in 1 .. Len(u) /\ n \in Nat /\ Len(u) \in Nat BY <2>1, <3>1
        <5>2. i - n \in 1 .. Len(x.tx) BY <3>2, <4>1
        <5> HIDE DEF n, u
        <5> QED BY <4>1, <5>1, <5>2
      <4> HIDE DEF s, u, m, L, k
      <4>3. Full(u) \/ LeftFrom(u, i, m.mid)
        BY <1>1, <1>3, <3>3, <3>4, <4>2, KilledLeaves DEF s, u
      <4> QED BY <1>5, <3>2, <3>3, <4>3 DEF u
    <3>5. CASE x.m # Gone
      <4>1. x.m.mid = m.mid /\ x.m.rem \in Joined
        BY <1>3, <3>3, <3>5 DEF Worded, Parts
      <4>2. Backed(x.m, x.tx[k])
        BY <1>3, <3>2, <3>3, <3>5, <4>1 DEF Meant, Backed
      <4> QED BY <1>1, <1>2, <1>5, <3>2, <4>2
    <3> QED BY <3>4, <3>5
  <2> QED BY <2>2, <2>3
<1> QED BY <1>4, <1>5

\* What is left to show of the member's own side, if it is not killed.
Kept(c, x) ==
  /\ Doomed(c) => Doomed(c)'
  /\ "CLIENTREM" \in memb[Peer(c)].connect
       /\ Taken(memb[Peer(c)], log[memb[Peer(c)].lchan], memb[c])
     => Doomed(c)' \/ Taken(memb[Peer(c)], log[memb[Peer(c)].lchan], x.m)
  /\ AcceptReaches(c)' /\ AcceptMeant(c)'
  /\ c = Flw => Met'
  /\ x.m.rchan # 0 => x.m.pos <= Len(log'[x.m.rchan])

LEMMA GoneFacts ==
  /\ Gone.rem = "NULL" /\ Gone.loc = "NULL" /\ Gone.rchan = 0 /\ Gone.connect = {}
  BY DEF Gone

LEMMA LogLength ==
  ASSUME PeersInv, NEW c \in Comp, NEW x, Says(c, x), NEW ch \in Chans
  PROVE  /\ Len(log[ch]) \in Nat /\ Len(log'[ch]) \in Nat
         /\ Len(log[ch]) <= Len(log'[ch])
         /\ \A m : Lost(m, log[ch]) => Lost(m, log'[ch])
         /\ Full(log[ch]) => Full(log'[ch])
         /\ \A m, p : Taken(m, log[ch], p) => Taken(m, log'[ch], p)
<1>1. PICK t : Extends(log[ch], t, log'[ch]) BY SaysGrows
<1>2. /\ Len(log[ch]) \in Nat /\ Len(log'[ch]) \in Nat
      /\ Len(log[ch]) <= Len(log'[ch])
  BY <1>1 DEF Extends
<1> QED BY <1>1, <1>2, ExtendsKeeps

LEMMA CommitFormed ==
  ASSUME PeersInv, ClientInv, NEW c \in Comp, NEW x, Says(c, x),
         x.m # Gone => Kept(c, x)
  PROVE  AllFlagged' /\ Shape' /\ PosIn'
<1> DEFINE m == memb[c]
           L == memb[c].lchan
<1>1. /\ memb'[c] = x.m /\ memb'[Peer(c)] = memb[Peer(c)]
      /\ Extends(log[L], x.tx, log'[L])
      /\ \A ch \in Chans : ch # L => log'[ch] = log[ch]
  BY SaysGrows
<1>2. /\ L \in Chans /\ Owner(L) = c /\ \A k \in Comp : k = c \/ k = Peer(c)
      /\ Peer(c) \in Comp
  BY Wires DEF Says
<1>3. Worded(c, m, x) BY DEF Says
<1>4. AllFlagged'
  <2>1. Flagged(c, x.m) BY <1>3 DEF Worded
  <2>2. Flagged(Peer(c), memb[Peer(c)]) BY <1>2 DEF ClientInv, AllFlagged
  <2>3. \A k \in Comp : Flagged(k, memb'[k]) BY <1>1, <1>2, <2>1, <2>2
  <2> QED BY <2>3 DEF AllFlagged
<1>5. ASSUME NEW ch \in Chans, NEW i \in DOMAIN log'[ch]
      PROVE  Shaped(Owner(ch), log'[ch][i])
  <2>1. CASE i \in DOMAIN log[ch] /\ log'[ch][i] = log[ch][i]
    BY <2>1 DEF ClientInv, Shape
  <2>2. CASE ch # L BY <1>1, <1>5, <2>1, <2>2
  <2>3. CASE ch = L /\ i \in DOMAIN log[L]
    <3>1. log'[L][i] = log[L][i] BY <1>1, <2>3 DEF Extends
    <3> QED BY <2>1, <2>3, <3>1
  <2>4. CASE ch = L /\ i \notin DOMAIN log[L]
    <3> DEFINE s == log[L]
               u == log'[L]
               n == Len(s)
    <3>1. /\ DOMAIN s = 1 .. n /\ DOMAIN u = 1 .. Len(u) /\ n \in Nat /\ Len(u) \in Nat
          /\ \A k \in 1 .. Len(u) : k > n => k - n \in DOMAIN x.tx /\ u[k] = x.tx[k - n]
      BY <1>1 DEF Extends
    <3>2. i \in DOMAIN u /\ i \notin DOMAIN s BY <1>5, <2>4
    <3>3. i > n /\ i \in 1 .. Len(u) BY <3>1, <3>2
    <3>4. i - n \in DOMAIN x.tx /\ u[i] = x.tx[i - n] BY <3>1, <3>3
    <3>5. Shaped(c, x.tx[i - n]) BY <1>3, <3>4 DEF Worded
    <3> QED BY <1>2, <2>4, <3>4, <3>5
  <2> QED BY <2>2, <2>3, <2>4
<1>6. Shape' BY <1>5 DEF Shape
<1>7. ASSUME NEW n \in net', n.type = "JOIN" PROVE n.pos <= Len(log'[n.chan])
  <2>1. net' = net \cup x.l1 BY DEF Says, Commit
  <2>2. CASE n \in net
    <3>1. n.chan \in Chans /\ n.pos \in Nat
      BY <1>7, <2>2 DEF PeersInv, IInv, TypeOK, Message
    <3>2. n.pos <= Len(log[n.chan]) BY <1>7, <2>2 DEF ClientInv, PosIn
    <3>3. Len(log[n.chan]) \in Nat /\ Len(log'[n.chan]) \in Nat
          /\ Len(log[n.chan]) <= Len(log'[n.chan])
      BY <3>1, LogLength
    <3> QED BY <3>1, <3>2, <3>3
  <2>3. CASE n \in x.l1
    <3>1. n = sendJoin(m) BY <1>7, <2>3 DEF Says
    <3>2. n.chan = L /\ n.pos = Len(log[L]) BY <3>1 DEF sendJoin, Join
    <3>3. Len(log[L]) <= Len(log'[L]) BY <1>2, LogLength
    <3> HIDE DEF L
    <3> QED BY <3>2, <3>3
  <2> QED BY <2>1, <2>2, <2>3
<1>8. ASSUME NEW k \in Comp, memb'[k].rchan # 0
      PROVE  memb'[k].pos <= Len(log'[memb'[k].rchan])
  <2>1. CASE k = c
    <3>1. x.m # Gone BY <1>1, <1>8, <2>1, GoneFacts
    <3> QED BY <1>1, <1>8, <2>1, <3>1 DEF Kept
  <2>2. CASE k = Peer(c)
    <3> DEFINE r == memb[k].rchan
    <3>1. memb'[k] = memb[k] BY <1>1, <2>2
    <3>2. r \in Chans BY <1>8, <3>1, Wires
    <3>3. memb[k].pos \in Nat BY MemberTyped DEF PeersInv, Member
    <3>4. memb[k].pos <= Len(log[r]) BY <1>8, <3>1 DEF ClientInv, PosIn
    <3>5. Len(log[r]) \in Nat /\ Len(log'[r]) \in Nat /\ Len(log[r]) <= Len(log'[r])
      BY <3>2, LogLength
    <3>6. memb'[k].pos <= Len(log'[r]) BY <3>1, <3>3, <3>4, <3>5
    <3> QED BY <3>1, <3>6
  <2> QED BY <1>2, <2>1, <2>2
<1>9. PosIn' BY <1>7, <1>8 DEF PosIn
<1> QED BY <1>4, <1>6, <1>9

\* The peer stays doomed.  A leader's member that has been killed dooms the
\* follower that knows it.
LEMMA CommitDoomed ==
  ASSUME PeersInv, ClientInv, NEW c \in Comp, NEW x, Says(c, x)
  PROVE  /\ Doomed(Peer(c)) => Doomed(Peer(c))'
         /\ x.m = Gone /\ memb[c].rem \in Joined /\ memb[Peer(c)].loc = "MEMBER"
              /\ memb[Peer(c)].rchan = memb[c].lchan /\ memb[Peer(c)].rmid = memb[c].mid
            => Doomed(Peer(c))'
<1> DEFINE p == memb[Peer(c)]
<1>1. memb'[Peer(c)] = p /\ Peer(c) \in Comp BY SaysGrows, Wires
<1>2. p.loc = "MEMBER" => p.rchan \in Chans
  <2>1. Sound(p) BY <1>1, MemberTyped DEF PeersInv
  <2>2. p.loc = "MEMBER" => p.rchan # 0 BY <2>1 DEF Sound, HalvesInStep
  <2> QED BY <1>1, <2>2, Wires
<1>3. ASSUME Doomed(Peer(c)) PROVE Doomed(Peer(c))'
  <2>1. p.loc = "MEMBER" /\ Lost(p, log[p.rchan]) BY <1>3 DEF Doomed, Lost
  <2>2. Lost(p, log'[p.rchan]) BY <1>2, <2>1, LogLength
  <2> QED BY <1>1, <2>2 DEF Doomed
<1>4. ASSUME x.m = Gone, memb[c].rem \in Joined, p.loc = "MEMBER",
             p.rchan = memb[c].lchan, p.rmid = memb[c].mid
      PROVE  Doomed(Peer(c))'
  <2>1. p.pos \in Nat BY <1>1, MemberTyped DEF PeersInv, Member
  <2>2. p.rchan # 0 BY <1>2, <1>4, SessionAssumption DEF Chans
  <2>3. p.pos <= Len(log[p.rchan]) BY <1>1, <2>2 DEF ClientInv, PosIn
  <2>4. /\ Extends(log[p.rchan], x.tx, log'[p.rchan]) /\ x.tx \in Seq(WrapperT)
        /\ Worded(c, memb[c], x)
    BY <1>4, SaysGrows DEF Says
  <2>5. Lost(p, log'[p.rchan])
    <3> HIDE DEF p
    <3> QED BY <1>4, <2>1, <2>3, <2>4, KilledDooms
  <2> QED BY <1>1, <2>5 DEF Doomed
<1> QED BY <1>3, <1>4

LEMMA CommitMet ==
  ASSUME PeersInv, ClientInv, NEW c \in Comp, NEW x, Says(c, x),
         x.m # Gone => Kept(c, x)
  PROVE  Met'
<1>1. memb'[c] = x.m /\ memb'[Peer(c)] = memb[Peer(c)] BY SaysGrows
<1>2. Peer(Ldr) = Flw /\ Ldr \in Comp /\ Flw \in Comp BY Numbers DEF Peer
<1>3. CASE c = Flw
  <2>1. x.m = Gone => Met' BY <1>1, <1>3, GoneFacts DEF Met
  <2> QED BY <1>3, <2>1 DEF Kept
<1>4. CASE c = Ldr
  <2> SUFFICES ASSUME memb'[Flw].rem = "MEMBER"
               PROVE  \/ Doomed(Flw)'
                      \/ memb'[Ldr] # Gone /\ memb'[Ldr].mid = memb'[Flw].rmid
                         /\ memb'[Ldr].rem \in Joined
    BY DEF Met
  <2>1. memb'[Flw] = memb[Flw] /\ memb'[Ldr] = x.m BY <1>1, <1>2, <1>4
  <2>2. CASE Doomed(Flw) BY <1>2, <1>4, <2>2, CommitDoomed
  <2>3. CASE ~ Doomed(Flw)
    <3>1. /\ memb[Ldr] # Gone /\ memb[Ldr].mid = memb[Flw].rmid
          /\ memb[Ldr].rem \in Joined
      BY <2>1, <2>3 DEF ClientInv, Met
    <3>2. CASE x.m # Gone
      <4>1. x.m.mid = memb[Ldr].mid /\ x.m.rem \in Joined
        BY <1>4, <3>1, <3>2 DEF Says, Worded, Parts
      <4> QED BY <2>1, <3>1, <3>2, <4>1
    <3>3. CASE x.m = Gone
      <4>1. memb[Flw].loc = "MEMBER" /\ memb[Flw].rchan # 0
        <5>1. Sound(memb[Flw]) BY <1>2, MemberTyped DEF PeersInv
        <5> QED BY <2>1, <5>1 DEF Sound, HalvesInStep
      <4>2. memb[Flw].rchan = memb[Ldr].lchan BY <1>2, <3>1, <4>1, Wires
      <4> QED BY <1>2, <1>4, <3>1, <3>3, <4>1, <4>2, CommitDoomed
    <3> QED BY <3>2, <3>3
  <2> QED BY <2>2, <2>3
<1> QED BY <1>3, <1>4 DEF Comp

\* What the peer of the one that commits relies on.
LEMMA CommitPeerAccept ==
  ASSUME PeersInv, ClientInv, NEW c \in Comp, NEW x, Says(c, x),
         x.m # Gone => Kept(c, x)
  PROVE  AcceptReaches(Peer(c))' /\ AcceptMeant(Peer(c))'
<1> DEFINE p == Peer(c)
           q == memb[Peer(c)]
<1>1. /\ memb'[c] = x.m /\ memb'[p] = q /\ p \in Comp /\ Peer(p) = c
      /\ \A ch : Parted(ch) => Parted(ch)'
  BY SaysGrows, Wires
<1>2. (p = Ldr /\ c = Flw) \/ (p = Flw /\ c = Ldr) BY Numbers DEF Peer, Comp
<1>3. Flagged(p, q) /\ Sound(q) /\ (q # Gone => q.lchan \in Chans)
  BY <1>1, MemberTyped DEF ClientInv, AllFlagged, PeersInv
<1>4. Doomed(p) => Doomed(p)' BY CommitDoomed
<1>5. PartedFrom(p) => PartedFrom(p)'
  BY <1>1, <1>2 DEF PartedFrom
<1>6. ASSUME x.m = Gone, p = Ldr, q.loc = "MEMBER" PROVE PartedFrom(p)'
  <2>1. q.rchan # 0 BY <1>3, <1>6 DEF Sound, HalvesInStep
  <2>2. q.rchan # LdrChan BY <1>1, <1>6, <2>1, Wires
  <2>3. memb'[Flw] = Gone /\ memb'[Ldr] = q BY <1>1, <1>2, <1>6, Numbers
  <2> QED BY <1>6, <2>2, <2>3 DEF PartedFrom, Parted
<1>7. Says(c, x) => \A ch \in Chans : /\ Full(log[ch]) => Full(log'[ch])
                                      /\ \A m, n : Taken(m, log[ch], n) => Taken(m, log'[ch], n)
  BY LogLength
<1>8. AcceptReaches(p)'
  <2> SUFFICES ASSUME "CLIENTREM" \in q.connect PROVE AcceptReaches(p)'
    BY <1>1 DEF AcceptReaches
  <2>1. q.rem = "MEMBER" /\ q.loc = "MEMBER" /\ q.lchan \in Chans
    BY <1>3, GoneFacts DEF Flagged, Sound, HalvesInStep
  <2>2. \/ Doomed(p) \/ Full(log[q.lchan]) \/ PartedFrom(p) \/ Doomed(c)
        \/ Taken(q, log[q.lchan], memb[c])
    BY <1>1 DEF ClientInv, AcceptReaches
  <2>3. \/ Doomed(p)' \/ Full(log'[q.lchan]) \/ PartedFrom(p)' \/ Doomed(c)'
        \/ Taken(q, log'[q.lchan], x.m)
    <3>1. CASE x.m # Gone
      <4>1. Doomed(c) => Doomed(c)' BY <3>1 DEF Kept
      <4>2. Taken(q, log[q.lchan], memb[c])
              => Doomed(c)' \/ Taken(q, log[q.lchan], x.m)
        BY <3>1 DEF Kept
      <4> QED BY <1>4, <1>5, <1>7, <2>1, <2>2, <4>1, <4>2
    <3>2. CASE x.m = Gone /\ p = Ldr BY <1>6, <2>1, <3>2
    <3>3. CASE x.m = Gone /\ p = Flw
      <4>1. Met' BY CommitMet
      <4>2. memb'[Flw].rem = "MEMBER" /\ memb'[Ldr] = Gone
        BY <1>1, <1>2, <2>1, <3>3, Numbers
      <4> QED BY <3>3, <4>1, <4>2 DEF Met
    <3> QED BY <1>2, <3>1, <3>2, <3>3
  <2> QED BY <1>1, <2>3 DEF AcceptReaches
<1>9. AcceptMeant(p)'
  <2> SUFFICES ASSUME "CLIENTLOC" \in q.connect PROVE AcceptMeant(p)'
    BY <1>1 DEF AcceptMeant
  <2>1. q.loc = "MEMBER" BY <1>3 DEF Flagged
  <2>2. Doomed(p) \/ PartedFrom(p) \/ Faces(q, memb[c])
    BY <1>1 DEF ClientInv, AcceptMeant
  <2>3. ASSUME Faces(q, memb[c])
        PROVE  Doomed(p)' \/ PartedFrom(p)' \/ Faces(q, x.m)
    <3>1. /\ memb[c] # Gone /\ memb[c].lchan = q.rchan /\ memb[c].mid = q.rmid
          /\ "CLIENTREM" \in memb[c].connect
      BY <2>3 DEF Faces
    <3>2. CASE x.m # Gone
      <4>1. x.m.lchan = memb[c].lchan /\ x.m.mid = memb[c].mid
            /\ "CLIENTREM" \in x.m.connect
        BY <3>1, <3>2 DEF Says, Worded, Parts, Meant
      <4> QED BY <3>1, <3>2, <4>1 DEF Faces
    <3>3. CASE x.m = Gone /\ p = Ldr BY <1>6, <2>1, <3>3
    <3>4. CASE x.m = Gone /\ p = Flw
      <4>1. memb[c].rem \in Joined
        BY <3>1 DEF ClientInv, AllFlagged, Flagged, Joined
      <4>2. Doomed(Peer(c))' BY <2>1, <3>1, <3>4, <4>1, CommitDoomed
      <4> QED BY <4>2
    <3> QED BY <1>2, <3>2, <3>3, <3>4
  <2> QED BY <1>1, <1>4, <1>5, <2>2, <2>3 DEF AcceptMeant
<1> QED BY <1>8, <1>9

LEMMA CommitClient ==
  ASSUME PeersInv, ClientInv, NEW c \in Comp, NEW x, Says(c, x),
         x.m # Gone => Kept(c, x)
  PROVE  ClientInv'
<1>1. Owned' /\ Met' /\ AllFlagged' /\ Shape' /\ PosIn'
  BY CommitOwned, CommitMet, CommitFormed
<1>2. AcceptReaches(Peer(c))' /\ AcceptMeant(Peer(c))' BY CommitPeerAccept
<1>3. AcceptReaches(c)' /\ AcceptMeant(c)'
  <2>1. CASE x.m # Gone BY <2>1 DEF Kept
  <2>2. CASE x.m = Gone
    <3>1. memb'[c].connect = {} BY <2>2, SaysGrows, GoneFacts
    <3> QED BY <3>1 DEF AcceptReaches, AcceptMeant
  <2> QED BY <2>1, <2>2
<1>4. \A k \in Comp : k = c \/ k = Peer(c) BY Wires
<1>5. \A k \in Comp : AcceptReaches(k)' /\ AcceptMeant(k)'
  BY <1>2, <1>3, <1>4
<1>6. adds' = adds BY DEF Says
<1> QED BY <1>1, <1>5, <1>6 DEF ClientInv

-----------------------------------------------------------------------------
(***************************************************************************)
(* What a handler starts with, and what it keeps when it leaves the        *)
(* channels of the member alone.                                           *)
(***************************************************************************)
LEMMA StartWorded ==
  ASSUME PeersInv, ClientInv, NEW c \in Comp
  PROVE  /\ Worded(c, memb[c], Ctx(c)) /\ Meant(memb[c], Ctx(c))
         /\ SoundCtx(Ctx(c)) /\ Ctx(c).m = memb[c] /\ Ctx(c).tx = <<>> /\ Ctx(c).l1 = {}
         /\ memb[c] \in Member /\ Sound(memb[c]) /\ Flagged(c, memb[c])
<1>1. /\ SoundCtx(Ctx(c)) /\ Ctx(c).m = memb[c] /\ Ctx(c).tx = <<>> /\ Ctx(c).l1 = {}
      /\ memb[c] \in Member /\ Sound(memb[c])
  BY CtxSound, MemberTyped DEF PeersInv, Ctx
<1>2. Flagged(c, memb[c]) BY DEF ClientInv, AllFlagged
<1>3. Parts(memb[c], Ctx(c))
  <2>1. memb[c] = Gone => memb[c].rem \notin Joined BY GoneFacts DEF Joined
  <2> QED BY <1>1, <2>1 DEF Parts
<1>4. DOMAIN Ctx(c).tx = {} BY <1>1
<1> QED BY <1>1, <1>2, <1>3, <1>4 DEF Worded, Meant

LEMMA KillClient ==
  ASSUME PeersInv, ClientInv, NEW c \in Comp, NEW e, memb[c] # Gone,
         Commit(c, killMember(Ctx(c), e)), UNCHANGED adds
  PROVE  ClientInv'
<1> DEFINE x == killMember(Ctx(c), e)
<1>1. /\ Worded(c, memb[c], Ctx(c)) /\ SoundCtx(Ctx(c)) /\ Ctx(c).l1 = {}
  BY StartWorded
<1>2. Worded(c, memb[c], x) /\ x.m = Gone /\ SoundCtx(x)
  BY <1>1, KillWorded, KillSound
<1>3. \A n \in x.l1 : n.type \in {"JOINREFUSE", "LEAVING"}
  BY <1>1, KillFollows DEF Follows, Keeps
<1> HIDE DEF x
<1>4. Says(c, x) BY <1>2, <1>3 DEF Says, Meant, x
<1> QED BY <1>2, <1>4, CommitClient

LEMMA ReachesStays ==
  ASSUME PeersInv, ClientInv, NEW c \in Comp, NEW x, Says(c, x), x.m # Gone,
         x.m.rchan = memb[c].rchan, Doomed(c) => Doomed(c)',
         "CLIENTREM" \in memb[c].connect
  PROVE  AcceptReaches(c)'
<1> DEFINE L == memb[c].lchan
           p == memb[Peer(c)]
<1>1. /\ memb'[c] = x.m /\ memb'[Peer(c)] = p
      /\ \A ch : Parted(ch) => Parted(ch)'
  BY SaysGrows
<1>2. L \in Chans /\ x.m.lchan = L /\ x.m.mid = memb[c].mid
  BY Wires DEF Says, Worded, Parts
<1>3. /\ Full(log[L]) => Full(log'[L])
      /\ Taken(memb[c], log[L], p) => Taken(memb[c], log'[L], p)
  BY <1>2, LogLength
<1>4. Taken(memb[c], log'[L], p) => Taken(x.m, log'[L], p) BY <1>2 DEF Taken
<1>5. PartedFrom(c) => PartedFrom(c)'
  <2>1. ASSUME PartedFrom(c) PROVE PartedFrom(c)'
    <3>1. c = Ldr /\ Parted(memb[c].rchan) BY <2>1 DEF PartedFrom
    <3>2. Parted(memb[c].rchan)' <=> Parted(x.m.rchan)'
      BY <1>1 DEF Parted
    <3> QED BY <1>1, <3>1 DEF PartedFrom
  <2> QED BY <2>1
<1>6. Doomed(Peer(c)) => Doomed(Peer(c))' BY CommitDoomed
<1>7. \/ Doomed(c) \/ Full(log[L]) \/ PartedFrom(c) \/ Doomed(Peer(c))
      \/ Taken(memb[c], log[L], p)
  BY DEF ClientInv, AcceptReaches
<1>8. \/ Doomed(c)' \/ Full(log'[L]) \/ PartedFrom(c)' \/ Doomed(Peer(c))'
      \/ Taken(x.m, log'[L], p)
  BY <1>3, <1>4, <1>5, <1>6, <1>7
<1> QED BY <1>1, <1>2, <1>8 DEF AcceptReaches

LEMMA MeantStays ==
  ASSUME PeersInv, ClientInv, NEW c \in Comp, NEW x, Says(c, x), x.m # Gone,
         x.m.rchan = memb[c].rchan, x.m.rmid = memb[c].rmid, Doomed(c) => Doomed(c)',
         "CLIENTLOC" \in memb[c].connect
  PROVE  AcceptMeant(c)'
<1>1. /\ memb'[c] = x.m /\ memb'[Peer(c)] = memb[Peer(c)]
      /\ \A ch : Parted(ch) => Parted(ch)'
  BY SaysGrows
<1>2. Doomed(c) \/ PartedFrom(c) \/ Faces(memb[c], memb[Peer(c)])
  BY DEF ClientInv, AcceptMeant
<1>3. Faces(memb[c], memb[Peer(c)]) => Faces(x.m, memb[Peer(c)]) BY DEF Faces
<1>4. PartedFrom(c) => PartedFrom(c)' BY <1>1 DEF PartedFrom
<1> QED BY <1>1, <1>2, <1>3, <1>4 DEF AcceptMeant

LEMMA MetStays ==
  ASSUME PeersInv, ClientInv, NEW x, Says(Flw, x), x.m # Gone,
         x.m.rmid = memb[Flw].rmid, Doomed(Flw) => Doomed(Flw)',
         x.m.rem = "MEMBER" => memb[Flw].rem = "MEMBER"
  PROVE  Met'
<1>1. memb'[Flw] = x.m /\ memb'[Ldr] = memb[Ldr] BY SaysGrows, Numbers DEF Peer
<1>2. Met BY DEF ClientInv
<1> QED BY <1>1, <1>2 DEF Met

\* A handler that leaves the member where it is.
LEMMA Still ==
  ASSUME PeersInv, ClientInv, NEW c \in Comp, NEW x, Says(c, x), x.m # Gone,
         LET m == memb[c]
         IN  /\ x.m.rchan = m.rchan /\ x.m.rmid = m.rmid /\ x.m.pos = m.pos
             /\ x.m.loc = m.loc /\ x.m.rem = m.rem
             /\ "CLIENTLOC" \in x.m.connect <=> "CLIENTLOC" \in m.connect
             /\ "CLIENTREM" \in x.m.connect <=> "CLIENTREM" \in m.connect
  PROVE  ClientInv'
<1> DEFINE m == memb[c]
           r == memb[c].rchan
<1>1. memb'[c] = x.m BY SaysGrows
<1>2. r # 0 => r \in Chans BY Wires
<1>3. m \in Member /\ Sound(m) BY StartWorded
<1>4. Doomed(c) => Doomed(c)'
  <2> SUFFICES ASSUME Doomed(c) PROVE Doomed(c)' OBVIOUS
  <2>1. Lost(m, log[r]) /\ m.loc = "MEMBER" BY DEF Doomed, Lost
  <2>2. r \in Chans BY <1>2, <1>3, <2>1 DEF Sound, HalvesInStep
  <2>3. Lost(m, log'[r]) BY <2>1, <2>2, LogLength
  <2>4. Lost(x.m, log'[r]) BY <2>3 DEF Lost
  <2> QED BY <1>1, <2>4 DEF Doomed
<1>5. AcceptReaches(c)'
  <2>1. CASE "CLIENTREM" \in m.connect BY <1>4, <2>1, ReachesStays
  <2>2. CASE "CLIENTREM" \notin m.connect BY <1>1, <2>2 DEF AcceptReaches
  <2> QED BY <2>1, <2>2
<1>6. AcceptMeant(c)'
  <2>1. CASE "CLIENTLOC" \in m.connect BY <1>4, <2>1, MeantStays
  <2>2. CASE "CLIENTLOC" \notin m.connect BY <1>1, <2>2 DEF AcceptMeant
  <2> QED BY <2>1, <2>2
<1>7. c = Flw => Met' BY <1>4, MetStays
<1>8. x.m.rchan # 0 => x.m.pos <= Len(log'[x.m.rchan])
  <2> SUFFICES ASSUME r # 0 PROVE m.pos <= Len(log'[r]) OBVIOUS
  <2>1. m.pos <= Len(log[r]) BY DEF ClientInv, PosIn
  <2>2. Len(log[r]) \in Nat /\ Len(log'[r]) \in Nat /\ Len(log[r]) <= Len(log'[r])
    BY <1>2, LogLength
  <2>3. m.pos \in Nat BY <1>3 DEF Member
  <2> HIDE DEF m, r
  <2> QED BY <2>1, <2>2, <2>3
<1>9. \A q, s : Taken(q, s, m) => Taken(q, s, x.m) BY DEF Taken
<1>10. Kept(c, x) BY <1>4, <1>5, <1>6, <1>7, <1>8, <1>9 DEF Kept
<1> QED BY <1>10, CommitClient

\* A member that is not joined yet, before and perhaps after the handler.
LEMMA Fresh ==
  ASSUME PeersInv, ClientInv, NEW c \in Comp, NEW x, Says(c, x), x.m # Gone,
         memb[c].loc # "MEMBER", x.m.rem # "MEMBER", "CLIENTLOC" \notin x.m.connect,
         x.m.rchan # 0 => x.m.pos <= Len(log[x.m.rchan]) /\ x.m.rchan \in Chans
  PROVE  ClientInv'
<1>1. memb'[c] = x.m /\ x.m \in Member /\ SoundCtx(x) BY SaysGrows DEF Says
<1>2. ~ Doomed(c) BY DEF Doomed, Lost
<1>3. \A q, s : ~ Taken(q, s, memb[c]) BY DEF Taken
<1>4. "CLIENTREM" \notin x.m.connect BY DEF Says, Worded, Flagged
<1>5. AcceptReaches(c)' BY <1>1, <1>4 DEF AcceptReaches
<1>6. c = Flw => Met' BY <1>1 DEF Met
<1>7. ASSUME x.m.rchan # 0 PROVE x.m.pos <= Len(log'[x.m.rchan])
  <2> DEFINE r == x.m.rchan
  <2>1. Len(log[r]) \in Nat /\ Len(log'[r]) \in Nat /\ Len(log[r]) <= Len(log'[r])
    BY <1>7, LogLength
  <2>2. x.m.pos \in Nat BY <1>1 DEF Member
  <2>3. x.m.pos <= Len(log[r]) BY <1>7
  <2> HIDE DEF r
  <2> QED BY <2>1, <2>2, <2>3 DEF r
<1>8. AcceptMeant(c)' BY <1>1 DEF AcceptMeant
<1>9. Kept(c, x) BY <1>2, <1>3, <1>5, <1>6, <1>7, <1>8 DEF Kept
<1> QED BY <1>9, CommitClient

-----------------------------------------------------------------------------
(***************************************************************************)
(* The join handlers: the member has no client protocol yet.               *)
(***************************************************************************)
LEMMA FirstACKTx ==
  ASSUME NEW x \in CtxT, x.tx = <<>>
  PROVE  /\ firstACK(x).m = [x.m EXCEPT !.loc = "MEMBER"]
         /\ firstACK(x).l1 = x.l1
         /\ DOMAIN firstACK(x).tx = {1} /\ firstACK(x).tx # <<>>
         /\ firstACK(x).tx[1] = Wrapper(x.m, FALSE, {}, TRUE, FALSE)
<1>1. /\ firstACK(x).m = [x.m EXCEPT !.loc = "MEMBER"] /\ firstACK(x).l1 = x.l1
      /\ firstACK(x).tx = Append(x.tx, Wrapper(x.m, FALSE, {}, TRUE, FALSE))
  BY DEF firstACK, justACK, SendWrap, CtxT
<1>2. firstACK(x).tx = <<Wrapper(x.m, FALSE, {}, TRUE, FALSE)>> BY <1>1
<1> QED BY <1>1, <1>2

LEMMA JoiningSays ==
  ASSUME NEW c, NEW m \in Member, NEW x, x.m # Gone,
         "CLIENTLOC" \notin m.connect, "CLIENTREM" \notin m.connect,
         m.rem # "MEMBER", x.m.mid = m.mid, x.m.connect = m.connect,
         m.rem \in Joined => x.m.rem \in Joined,
         x.m.loc = "MEMBER" \/ x.tx # <<>> => x.m.rem \in Joined,
         \/ x.tx = <<>>
         \/ DOMAIN x.tx = {1} /\ x.tx[1].body = {} /\ x.tx[1].mid = m.mid
  PROVE  Worded(c, m, x) /\ Meant(m, x)
<1>1. Flagged(c, x.m) BY DEF Flagged
<1>2. Parts(m, x) BY DEF Parts
<1>3. ASSUME NEW k \in DOMAIN x.tx PROVE x.tx[k].body = {} /\ x.tx[k].mid = m.mid
  <2>1. x.tx = <<>> => DOMAIN x.tx = {} OBVIOUS
  <2> QED BY <1>3, <2>1
<1>4. \A k \in DOMAIN x.tx : Shaped(c, x.tx[k]) BY <1>3 DEF Shaped, Replies
<1>5. Worded(c, m, x) BY <1>1, <1>2, <1>3, <1>4 DEF Worded
<1>6. Meant(m, x) BY <1>3 DEF Meant
<1> QED BY <1>5, <1>6

LEMMA JoinAcceptClient ==
  ASSUME PeersInv, ClientInv, NEW c \in Comp, NEW msg \in net, rx_joinAccept(c, msg)
  PROVE  ClientInv'
<1> DEFINE m == memb[c]
           x == Accepting(c)
           y == HalfJoined(c)
<1>1. /\ m # Gone /\ m \in Member /\ x \in CtxT /\ SoundCtx(y) /\ Commit(c, y)
  BY JoinAcceptSound DEF PeersInv
<1>2. m.rem = "JOINRQ" /\ UNCHANGED adds BY DEF rx_joinAccept
<1>3. /\ m.loc # "MEMBER" /\ "CLIENTLOC" \notin m.connect /\ "CLIENTREM" \notin m.connect
  BY <1>2, StartWorded DEF Flagged, Joined
<1>4. /\ x.m = [m EXCEPT !.rem = "JOINPEND", !.timer = "recip"]
      /\ x.l1 = {} /\ x.tx = <<>>
  BY DEF Accepting, Ctx
<1>5. /\ x.m.rem = "JOINPEND" /\ x.m.mid = m.mid /\ x.m.connect = m.connect
      /\ x.m.rchan = m.rchan /\ x.m.pos = m.pos /\ x.m.lchan = m.lchan
      /\ x.m.loc = m.loc /\ x.m \in Member
  BY <1>1, <1>4 DEF Member, CtxT
<1>6. /\ y.m.rem = "JOINPEND" /\ y.m.mid = m.mid /\ y.m.connect = m.connect
      /\ y.m.rchan = m.rchan /\ y.m.pos = m.pos /\ y.m.lchan = m.lchan
      /\ y.l1 = {}
      /\ \/ y.tx = <<>>
         \/ DOMAIN y.tx = {1} /\ y.tx[1].body = {} /\ y.tx[1].mid = m.mid
  <2>1. y = x \/ y = firstACK(x) BY DEF HalfJoined
  <2> HIDE DEF x, y
  <2>2. CASE y = x BY <1>4, <1>5, <2>2
  <2>3. CASE y = firstACK(x)
    <3>1. /\ y.m = [x.m EXCEPT !.loc = "MEMBER"] /\ y.l1 = x.l1
          /\ DOMAIN y.tx = {1} /\ y.tx[1] = Wrapper(x.m, FALSE, {}, TRUE, FALSE)
      BY <1>1, <1>4, <2>3, FirstACKTx
    <3>2. y.tx[1].body = {} /\ y.tx[1].mid = x.m.mid BY <3>1 DEF Wrapper
    <3>3. /\ y.m.rem = x.m.rem /\ y.m.mid = x.m.mid /\ y.m.connect = x.m.connect
          /\ y.m.rchan = x.m.rchan /\ y.m.pos = x.m.pos /\ y.m.lchan = x.m.lchan
      BY <1>5, <3>1 DEF Member
    <3> QED BY <1>4, <1>5, <3>1, <3>2, <3>3
  <2> QED BY <2>1, <2>2, <2>3
<1> HIDE DEF x, y
<1>7. y.m # Gone /\ y.m.rem \in Joined BY <1>6, GoneFacts DEF Joined
<1>8. Worded(c, m, y) /\ Meant(m, y)
  <2>1. m.rem # "MEMBER" BY <1>2
  <2> HIDE DEF m
  <2> QED BY <1>1, <1>3, <1>6, <1>7, <2>1, JoiningSays
<1>9. Says(c, y) BY <1>1, <1>2, <1>6, <1>8 DEF Says
<1>10. y.m.rchan # 0 => y.m.pos <= Len(log[y.m.rchan]) /\ y.m.rchan \in Chans
  BY <1>6, Wires DEF ClientInv, PosIn
<1> QED BY <1>3, <1>6, <1>7, <1>9, <1>10, Fresh

LEMMA JoinRecipClient ==
  ASSUME PeersInv, ClientInv, NEW c \in Comp, NEW msg \in net, joinRecip(c, msg)
  PROVE  ClientInv'
<1> DEFINE m == memb[c]
           x == Linked(c, msg)
           y == Reciprocated(c, msg)
<1>1. /\ m # Gone /\ m \in Member /\ x \in CtxT /\ SoundCtx(y) /\ Commit(c, y)
  BY JoinRecipSound DEF PeersInv
<1>2. /\ m.rem \in Pending /\ m.rchan = 0 /\ UNCHANGED adds /\ msg.type = "JOIN"
  BY DEF joinRecip, ReceivesJoin
<1>3. /\ m.loc = "NULL" /\ "CLIENTLOC" \notin m.connect /\ "CLIENTREM" \notin m.connect
  BY <1>2, StartWorded DEF Flagged, Pending, Sound, HalvesInStep
<1>4. msg.pos <= Len(log[msg.chan]) /\ msg.chan \in Chans
  BY <1>2 DEF ClientInv, PosIn, PeersInv, IInv, TypeOK, Message
<1>5. /\ x.m = [m EXCEPT !.rchan = msg.chan, !.rmid = msg.mid, !.pos = msg.pos,
                         !.loc = "JOINPEND"]
      /\ x.l1 = {JoinAccept(msg.chan, msg.mid, m.lchan)} /\ x.tx = <<>>
  BY DEF Linked, Ctx
<1>6. /\ x.m.rem = m.rem /\ x.m.mid = m.mid /\ x.m.connect = m.connect
      /\ x.m.rchan = msg.chan /\ x.m.pos = msg.pos /\ x.m.lchan = m.lchan
      /\ x.m.loc = "JOINPEND" /\ x.m \in Member
  BY <1>1, <1>5 DEF Member, CtxT
<1>7. /\ y.m.rem = m.rem /\ y.m.mid = m.mid /\ y.m.connect = m.connect
      /\ y.m.rchan = msg.chan /\ y.m.pos = msg.pos /\ y.m.lchan = m.lchan
      /\ y.l1 = x.l1
      /\ y.m.loc = "MEMBER" \/ y.tx # <<>> => y.m.rem \in Joined
      /\ \/ y.tx = <<>>
         \/ DOMAIN y.tx = {1} /\ y.tx[1].body = {} /\ y.tx[1].mid = m.mid
  <2>1. y = x \/ (y = firstACK(x) /\ m.rem = "JOINPEND") BY DEF Reciprocated
  <2> HIDE DEF x, y
  <2>2. CASE y = x BY <1>5, <1>6, <2>2
  <2>3. CASE y = firstACK(x) /\ m.rem = "JOINPEND"
    <3>1. /\ y.m = [x.m EXCEPT !.loc = "MEMBER"] /\ y.l1 = x.l1
          /\ DOMAIN y.tx = {1} /\ y.tx[1] = Wrapper(x.m, FALSE, {}, TRUE, FALSE)
      BY <1>1, <1>5, <2>3, FirstACKTx
    <3>2. y.tx[1].body = {} /\ y.tx[1].mid = x.m.mid BY <3>1 DEF Wrapper
    <3>3. /\ y.m.rem = x.m.rem /\ y.m.mid = x.m.mid /\ y.m.connect = x.m.connect
          /\ y.m.rchan = x.m.rchan /\ y.m.pos = x.m.pos /\ y.m.lchan = x.m.lchan
      BY <1>6, <3>1 DEF Member
    <3> QED BY <1>6, <2>3, <3>1, <3>2, <3>3 DEF Joined
  <2> QED BY <2>1, <2>2, <2>3
<1>8. \A n \in y.l1 : n.type = "JOINACCEPT" BY <1>5, <1>7 DEF JoinAccept
<1> HIDE DEF x, y
<1>9. y.m # Gone /\ m.rem # "MEMBER" BY <1>2, <1>7, GoneFacts DEF Pending
<1>10. Worded(c, m, y) /\ Meant(m, y)
  <2> HIDE DEF m
  <2> QED BY <1>1, <1>3, <1>7, <1>9, JoiningSays
<1>11. Says(c, y) BY <1>1, <1>2, <1>7, <1>8, <1>10 DEF Says
<1> QED BY <1>3, <1>4, <1>7, <1>9, <1>11, Fresh

-----------------------------------------------------------------------------
(***************************************************************************)
(* The timers, and the calls of the application.                           *)
(***************************************************************************)
\* Neither flags nor states have changed, and nothing has been sent.
LEMMA SilentTold ==
  ASSUME NEW c, NEW m, Flagged(c, m), NEW x, x.m # Gone, x.tx = <<>>,
         x.m.rem = m.rem, x.m.loc = m.loc, x.m.mid = m.mid, x.m.connect = m.connect,
         NEW n, n.rem = m.rem, n.loc = m.loc, n.mid = m.mid, n.connect = m.connect,
         n.pos = x.m.pos, NEW w
  PROVE  Worded(c, m, x) /\ Told(n, w, x) /\ Meant(m, x)
<1>1. DOMAIN x.tx = {} OBVIOUS
<1>2. Flagged(c, x.m) BY DEF Flagged
<1>3. Parts(m, x) BY DEF Parts
<1>4. Worded(c, m, x) BY <1>1, <1>2, <1>3 DEF Worded
<1>5. Meant(n, x) /\ Accounted(n, w, x) /\ Meant(m, x) BY <1>1 DEF Meant, Accounted
<1> QED BY <1>4, <1>5 DEF Told

\* An empty wrapper to the peer.
LEMMA EmptySays ==
  ASSUME NEW c, NEW m, NEW x, SoundCtx(x), x.m # Gone, Worded(c, m, x), NEW n, NEW w,
         Told(n, w, x), x.m.rem \in Joined,
         NEW r \in BOOLEAN, NEW a \in BOOLEAN, NEW k \in BOOLEAN
  PROVE  /\ Worded(c, m, SendWrap(x, r, {}, a, k))
         /\ Told(n, w, SendWrap(x, r, {}, a, k))
         /\ SendWrap(x, r, {}, a, k).m = x.m
<1> DEFINE b == {}
<1>1. /\ b \in Replies /\ (b # {} => r) /\ "CONREFUSE" \notin b
      /\ "CONNECT" \notin b /\ "CONACCEPT" \notin b
  BY DEF Replies
<1> HIDE DEF b
<1>2. Worded(c, m, SendWrap(x, r, b, a, k)) /\ SendWrap(x, r, b, a, k).m = x.m
  BY <1>1, SendWorded
<1>3. Told(n, w, SendWrap(x, r, b, a, k)) BY <1>1, SendTold
<1> QED BY <1>2, <1>3 DEF b

LEMMA IdleClient ==
  ASSUME ClientInv, UNCHANGED <<memb, log, net, adds>>
  PROVE  ClientInv'
<1>1. /\ Owned' /\ Met' /\ AllFlagged' /\ Shape' /\ PosIn'
  BY DEF ClientInv, Owned, Met, AllFlagged, Shape, PosIn, Parted, Doomed
<1>2. ASSUME NEW c \in Comp PROVE AcceptReaches(c)' /\ AcceptMeant(c)'
  BY DEF ClientInv, AcceptReaches, AcceptMeant, PartedFrom, Parted, Doomed
<1> QED BY <1>1, <1>2 DEF ClientInv

LEMMA TimeoutClient ==
  ASSUME PeersInv, ClientInv, NEW c \in Comp, Timeout(c)
  PROVE  ClientInv'
<1> DEFINE m == memb[c]
<1>0. /\ IInv /\ SoundCtx(Ctx(c)) /\ Ctx(c).m = m /\ Ctx(c).tx = <<>> /\ Ctx(c).l1 = {}
      /\ m \in Member /\ Sound(m) /\ Flagged(c, m) /\ Worded(c, m, Ctx(c))
  BY StartWorded DEF PeersInv
<1>1. CASE joinTimeoutAction(c)
  <2>1. UNCHANGED adds /\ Live(c) BY <1>1 DEF joinTimeoutAction
  <2>2. CASE Commit(c, killMember(Ctx(c), "JOINFAIL"))
    BY <2>1, <2>2, KillClient DEF Live
  <2>3. CASE ~ giveUp(m) /\ Commit(c, Resent(c))
    <3> DEFINE x == Resent(c)
    <3>1. SoundCtx(x) /\ m # Gone BY <1>0, <2>1, <2>3, ResentSound
    <3>2. /\ x.m = [m EXCEPT !.t_ms = @ + 1] /\ x.tx = <<>> /\ x.l1 = {sendJoin(m)}
      BY DEF Resent, SendL1, Ctx
    <3>3. /\ x.m.rem = m.rem /\ x.m.loc = m.loc /\ x.m.mid = m.mid /\ x.m.pos = m.pos
          /\ x.m.connect = m.connect /\ x.m.lchan = m.lchan /\ x.m.timer = m.timer
          /\ x.m.rchan = m.rchan /\ x.m.rmid = m.rmid
      BY <1>0, <3>2 DEF Member
    <3> HIDE DEF x
    <3>4. x.m # Gone BY <1>0, <3>1, <3>3 DEF Sound, Timed, Gone
    <3>5. Worded(c, m, x) /\ Meant(m, x)
      <4> HIDE DEF m
      <4> QED BY <1>0, <3>2, <3>3, <3>4, SilentTold
    <3>6. Says(c, x) BY <2>1, <2>3, <3>1, <3>2, <3>3, <3>5 DEF Says, x
    <3> QED BY <3>3, <3>4, <3>6, Still
  <2> QED BY <1>1, <2>2, <2>3 DEF joinTimeoutAction, Resent
<1>2. CASE recipTimeoutAction(c)
  BY <1>2, KillClient DEF recipTimeoutAction, Live
<1>3. CASE makTimeoutAction(c)
  <2>1. UNCHANGED adds /\ Live(c) /\ m.timer = "mak"
    BY <1>3 DEF makTimeoutAction
  <2>2. CASE Commit(c, killMember(Ctx(c), "MAKTIMEOUT"))
    BY <2>1, <2>2, KillClient DEF Live
  <2>3. CASE m.maktries # 0 /\ Commit(c, Asked(c))
    <3> DEFINE n == [m EXCEPT !.maktries = @ - 1]
               x == [Ctx(c) EXCEPT !.m = n]
               y == SendWrap(x, FALSE, {}, AutoAck(m), TRUE)
    <3>1. /\ n.rem = m.rem /\ n.loc = m.loc /\ n.mid = m.mid /\ n.pos = m.pos
          /\ n.connect = m.connect /\ n.lchan = m.lchan /\ n.timer = m.timer
          /\ n.rchan = m.rchan /\ n.rmid = m.rmid /\ n \in Member
      <4>1. n.maktries = m.maktries - 1 /\ m.maktries \in 0 .. MakRetries + 1
        BY <1>0 DEF Member
      <4>2. n.maktries \in 0 .. MakRetries + 1
        BY <2>3, <4>1, SessionAssumption
      <4> QED BY <1>0, <4>2 DEF Member
    <3>2. x = [Ctx(c) EXCEPT !.m.maktries = @ - 1] BY <1>0 DEF SoundCtx, CtxT
    <3>3. y = Asked(c) BY <3>2 DEF Asked
    <3> HIDE DEF n
    <3>4. SoundCtx(x) /\ x.m = n /\ x.tx = <<>> /\ x.l1 = {}
      <4>1. m # Gone BY <2>1, GoneFacts DEF Live
      <4>2. SoundCtx(x) BY <1>0, <3>1, <4>1, RetrySound
      <4> QED BY <1>0, <4>2 DEF SoundCtx, CtxT
    <3> HIDE DEF x
    <3>5. x.m # Gone BY <2>1, <3>1, <3>4 DEF Gone
    <3>6. Worded(c, m, x) /\ Told(m, {}, x)
      <4> HIDE DEF m
      <4> QED BY <1>0, <3>1, <3>4, <3>5, SilentTold
    <3>7. m.rem \in Joined /\ AutoAck(m) \in BOOLEAN /\ TRUE \in BOOLEAN
      BY <1>0, <2>1 DEF Sound, Timed, Joined, AutoAck
    <3>8. Worded(c, m, y) /\ Told(m, {}, y) /\ y.m = x.m
      <4> DEFINE t == TRUE
                 a == AutoAck(m)
                 r == FALSE
                 z == SendWrap(x, r, {}, a, t)
      <4>1. t \in BOOLEAN /\ r \in BOOLEAN /\ a \in BOOLEAN /\ x.m.rem \in Joined BY <3>1, <3>4, <3>7
      <4> HIDE DEF t, r, a, m
      <4>2. Worded(c, m, z) /\ Told(m, {}, z) /\ z.m = x.m
        BY <3>4, <3>5, <3>6, <4>1, EmptySays
      <4> QED BY <4>2 DEF t, r, a
    <3>9. SoundCtx(y) BY <1>0, <2>1, <2>3, <3>3, AskedSound
    <3>10. y.l1 = {} BY <3>4 DEF SendWrap, SoundCtx, CtxT
    <3> HIDE DEF y
    <3>11. Says(c, y)
      BY <2>1, <2>3, <3>1, <3>3, <3>4, <3>8, <3>9, <3>10 DEF Says, Told, Live
    <3> QED BY <3>1, <3>4, <3>5, <3>8, <3>11, Still
  <2>4. \/ Commit(c, killMember(Ctx(c), "MAKTIMEOUT"))
        \/ m.maktries # 0 /\ Commit(c, Asked(c))
    BY <1>3 DEF makTimeoutAction, Asked
  <2> QED BY <2>2, <2>3, <2>4
<1>4. CASE keepaliveAction(c)
  <2> DEFINE a == TRUE
             k == FALSE
             x == Ctx(c)
             y == SendWrap(x, FALSE, {}, TRUE, FALSE)
  <2>1. /\ Commit(c, y) /\ m.loc = "MEMBER" /\ UNCHANGED adds /\ m # Gone
    BY <1>4 DEF keepaliveAction, Live
  <2>2. a \in BOOLEAN /\ k \in BOOLEAN OBVIOUS
  <2>3. SoundCtx(y)
    <3>1. {} \in SUBSET Bodies OBVIOUS
    <3>2. SoundCtx(SendWrap(x, k, {}, a, k))
      <4> HIDE DEF a, k
      <4> QED BY <1>0, <2>2, <3>1, SendWrapSound
    <3> QED BY <3>2
  <2>4. y.l1 = {} BY <1>0 DEF SendWrap, SoundCtx, CtxT
  <2>5. m.rem \in Joined BY <1>0, <2>1 DEF Flagged
  <2>6. Worded(c, m, x) /\ Told(m, {}, x)
    <3> HIDE DEF m, x
    <3> QED BY <1>0, <2>1, SilentTold DEF x
  <2> HIDE DEF a, k, x
  <2>7. Worded(c, m, y) /\ Told(m, {}, y) /\ y.m = m
    <3> DEFINE z == SendWrap(x, k, {}, a, k)
    <3>1. SoundCtx(x) /\ x.m = m BY <1>0 DEF x
    <3> HIDE DEF m
    <3>2. Worded(c, m, z) /\ Told(m, {}, z) /\ z.m = m
      BY <2>1, <2>2, <2>5, <2>6, <3>1, EmptySays
    <3> QED BY <3>2 DEF a, k
  <2> HIDE DEF y
  <2>8. Says(c, y) BY <2>1, <2>3, <2>4, <2>7 DEF Says, Told
  <2> QED BY <2>1, <2>7, <2>8, Still
<1> QED BY <1>1, <1>2, <1>3, <1>4 DEF Timeout

\* A client that registers has every session connected.
LEMMA AddClientClient ==
  ASSUME PeersInv, ClientInv, NEW c \in Comp, sdt_addClient(c)
  PROVE  ClientInv'
<1> DEFINE m == memb[c]
           x == Ctx(c)
           y == SDTwrap(x, "CONNECT")
<1>0. /\ SoundCtx(x) /\ x.m = m /\ x.tx = <<>> /\ x.l1 = {}
      /\ m \in Member /\ Sound(m) /\ Flagged(c, m) /\ Worded(c, m, x) /\ Meant(m, x)
  BY StartWorded
<1>1. UNCHANGED adds /\ (Commit(c, x) \/ (Commit(c, y) /\ "SDT" \in m.connect))
  BY <1>0 DEF sdt_addClient, connectAll
<1>2. CASE Commit(c, x) /\ m = Gone
  <2>1. memb \in [Comp -> Member] BY DEF PeersInv, IInv, TypeOK
  <2>2. memb' = memb /\ log' = log /\ net' = net
    BY <1>0, <1>2, <2>1 DEF Commit
  <2> QED BY <1>1, <2>2, IdleClient
<1>3. CASE Commit(c, x) /\ m # Gone
  <2>1. Says(c, x)
    <3> HIDE DEF x
    <3> QED BY <1>0, <1>1, <1>3 DEF Says
  <2> HIDE DEF x
  <2> QED BY <1>0, <1>3, <2>1, Still
<1>4. CASE Commit(c, y) /\ "SDT" \in m.connect
  <2>1. m.rem = "MEMBER" /\ m # Gone
    BY <1>0, <1>4, GoneFacts DEF Sound, HalvesInStep
  <2>2. Told(m, {}, x)
    <3> HIDE DEF m, x
    <3> QED BY <1>0, <2>1, SilentTold
  <2>3. SoundCtx(y) BY <1>0, SDTwrapSound DEF Bodies
  <2>4. y.l1 = {} BY <1>0 DEF SDTwrap, SendWrap, SoundCtx, CtxT
  <2>5. m.rem \in Joined BY <2>1 DEF Joined
  <2> HIDE DEF x
  <2>6. Worded(c, m, y) /\ y.m = m BY <1>0, <2>1, <2>5, SDTwrapWorded
  <2>7. Told(m, {}, y) BY <1>0, <2>1, <2>2, SDTwrapTold
  <2> HIDE DEF y
  <2>8. Says(c, y) BY <1>1, <1>4, <2>1, <2>3, <2>4, <2>6, <2>7 DEF Says, Told
  <2> QED BY <2>1, <2>6, <2>8, Still
<1> QED BY <1>1, <1>2, <1>3, <1>4

-----------------------------------------------------------------------------
(***************************************************************************)
(* A wrapper arrives.                                                      *)
(***************************************************************************)
LEMMA Arrives ==
  ASSUME PeersInv, ClientInv, NEW c \in Comp, NEW i, rx_wrapper(c, i)
  PROVE  LET m == memb[c]
             s == log[m.rchan]
         IN  /\ m # Gone /\ m.rchan \in Chans /\ m.rchan # 0 /\ Owner(m.rchan) = Peer(c)
             /\ m.loc \in Joined /\ m.pos \in Nat /\ i \in Nat /\ i > m.pos
             /\ i \in DOMAIN s /\ i <= Len(s) /\ DOMAIN s = 1 .. Len(s) /\ Len(s) \in Nat
             /\ s[i] \in WrapperT /\ UNCHANGED adds
             /\ \A j \in DOMAIN s : Shaped(Peer(c), s[j])
             /\ m.loc = "MEMBER" =>
                  \A j \in DOMAIN s : j > m.pos /\ s[j].body # {} => j >= i
<1> DEFINE m == memb[c]
           s == log[m.rchan]
<1>1. /\ m # Gone /\ m.rchan # 0 /\ m.loc \in Joined /\ i \in m.pos + 1 .. Len(s)
      /\ UNCHANGED adds /\ (m.loc = "MEMBER" => InSequence(s, m.pos, i))
  BY DEF rx_wrapper, Live
<1>2. m.pos \in Nat BY StartWorded DEF Member
<1>3. m.rchan \in Chans /\ Owner(m.rchan) = Peer(c) BY <1>1, Wires
<1>4. s \in Seq(WrapperT) BY <1>3 DEF PeersInv, IInv, TypeOK
<1>5. DOMAIN s = 1 .. Len(s) /\ Len(s) \in Nat BY <1>4
<1>6. /\ i \in Nat /\ i > m.pos /\ i \in DOMAIN s /\ i <= Len(s)
  <2> HIDE DEF m, s
  <2> QED BY <1>1, <1>2, <1>5
<1>7. s[i] \in WrapperT BY <1>4, <1>6
<1>8. \A j \in DOMAIN s : Shaped(Peer(c), s[j])
  BY <1>3 DEF ClientInv, Shape
<1>9. ASSUME m.loc = "MEMBER", NEW j \in DOMAIN s, j > m.pos, s[j].body # {}
      PROVE  j >= i
  <2>1. s[j].rel BY <1>8, <1>9 DEF Shaped
  <2>2. \A k \in m.pos + 1 .. i - 1 : ~ s[k].rel BY <1>1, <1>9 DEF InSequence
  <2>3. j \in Nat BY <1>5, <1>9
  <2>4. j < i => j \in m.pos + 1 .. i - 1
    <3> HIDE DEF m, s
    <3> QED BY <1>2, <1>6, <1>9, <2>3
  <2> HIDE DEF m, s
  <2> QED BY <1>6, <2>1, <2>2, <2>3, <2>4
<1> QED BY <1>1, <1>2, <1>3, <1>5, <1>6, <1>7, <1>8, <1>9

\* A member that has taken a wrapper is as doomed as it was.
LEMMA StillDoomed ==
  ASSUME PeersInv, ClientInv, NEW c \in Comp, NEW i, rx_wrapper(c, i),
         NEW x, Says(c, x), x.m.rchan = memb[c].rchan, x.m.rmid = memb[c].rmid,
         x.m.loc = memb[c].loc, x.m.pos = i,
         LET w == log[memb[c].rchan][i] IN w.mid = memb[c].rmid => "LEAVE" \notin w.body
  PROVE  Doomed(c) => Doomed(c)'
<1> DEFINE m == memb[c]
           r == memb[c].rchan
           s == log[r]
<1>1. /\ r \in Chans /\ i \in Nat /\ m.pos \in Nat /\ DOMAIN s = 1 .. Len(s)
      /\ m.loc = "MEMBER" => \A j \in DOMAIN s : j > m.pos /\ s[j].body # {} => j >= i
  BY Arrives
<1> SUFFICES ASSUME Doomed(c) PROVE Doomed(c)' OBVIOUS
<1>2. m.loc = "MEMBER" /\ (Full(s) \/ LeftFrom(s, m.pos + 1, m.rmid))
  BY DEF Doomed, Lost
<1>3. ASSUME LeftFrom(s, m.pos + 1, m.rmid) PROVE LeftFrom(s, i + 1, m.rmid)
  <2>1. PICK j \in DOMAIN s :
          j >= m.pos + 1 /\ "LEAVE" \in s[j].body /\ s[j].mid = m.rmid
    BY <1>3 DEF LeftFrom
  <2>2. j \in Nat BY <1>1, <2>1
  <2>3. j > m.pos
    <3> HIDE DEF m, s
    <3> QED BY <1>1, <2>1, <2>2
  <2>4. j >= i /\ j # i BY <1>1, <1>2, <2>1, <2>3
  <2>5. j >= i + 1 BY <1>1, <2>2, <2>4
  <2> QED BY <2>1, <2>5 DEF LeftFrom
<1>4. Lost(x.m, s) BY <1>2, <1>3 DEF Lost
<1>5. Lost(x.m, log'[r]) BY <1>1, <1>4, LogLength
<1> QED BY <1>5, SaysGrows DEF Doomed

\* Who has sent it.
LEMMA SentBy ==
  ASSUME PeersInv, ClientInv, NEW c \in Comp, NEW i, rx_wrapper(c, i),
         log[memb[c].rchan][i].mid = memb[c].rmid, memb[c].loc = "MEMBER"
  PROVE  \/ Doomed(c) \/ PartedFrom(c)
         \/ /\ Backed(memb[Peer(c)], log[memb[c].rchan][i])
            /\ memb[Peer(c)].lchan = memb[c].rchan
<1> DEFINE m == memb[c]
           r == memb[c].rchan
           s == log[r]
           p == memb[Peer(c)]
<1>1. /\ r \in Chans /\ r # 0 /\ Owner(r) = Peer(c) /\ i \in DOMAIN s /\ m.pos \in Nat
      /\ i \in Nat /\ i > m.pos /\ DOMAIN s = 1 .. Len(s)
  BY Arrives
<1>2. \/ Full(s) \/ LeftFrom(s, i, m.rmid) \/ Parted(r) \/ Backed(p, s[i])
  BY <1>1 DEF ClientInv, Owned
<1>3. ASSUME LeftFrom(s, i, m.rmid) PROVE LeftFrom(s, m.pos + 1, m.rmid)
  <2>1. PICK j \in DOMAIN s : j >= i /\ "LEAVE" \in s[j].body /\ s[j].mid = m.rmid
    BY <1>3 DEF LeftFrom
  <2>2. j \in Nat BY <1>1, <2>1
  <2>3. j >= m.pos + 1
    <3> HIDE DEF m, s
    <3> QED BY <1>1, <2>1, <2>2
  <2> QED BY <2>1, <2>3 DEF LeftFrom
<1>4. Full(s) \/ LeftFrom(s, i, m.rmid) => Doomed(c)
  BY <1>3 DEF Doomed, Lost
<1>5. Parted(r) => PartedFrom(c)
  <2>1. c = Flw => r = LdrChan BY <1>1, Wires
  <2> QED BY <2>1 DEF Parted, PartedFrom, Comp
<1>6. Backed(p, s[i]) => p.lchan = r \/ Parted(r)
  <2>1. Backed(p, s[i]) => p # Gone BY DEF Backed
  <2>2. Peer(c) \in Comp BY Wires
  <2> QED BY <1>1, <2>1, <2>2, Wires
<1> QED BY <1>2, <1>4, <1>5, <1>6

\* A Connect Accept that is on its way stays so, or has arrived.
LEMMA StillTaken ==
  ASSUME PeersInv, ClientInv, NEW c \in Comp, NEW i, rx_wrapper(c, i), NEW y,
         y.rchan = memb[c].rchan, y.rmid = memb[c].rmid, y.loc = memb[c].loc, y.pos = i,
         LET w == log[memb[c].rchan][i]
         IN  w.mid = memb[c].rmid /\ "CONACCEPT" \in w.body => "CLIENTLOC" \in y.connect,
         "CLIENTLOC" \in memb[c].connect => "CLIENTLOC" \in y.connect,
         Taken(memb[Peer(c)], log[memb[Peer(c)].lchan], memb[c])
  PROVE  Taken(memb[Peer(c)], log[memb[Peer(c)].lchan], y)
<1> DEFINE m == memb[c]
           p == memb[Peer(c)]
           s == log[p.lchan]
<1>1. m.loc = "MEMBER" /\ m.rchan = p.lchan /\ m.rmid = p.mid BY DEF Taken
<1>2. /\ i \in Nat /\ DOMAIN s = 1 .. Len(s)
      /\ \A j \in DOMAIN s : j > m.pos /\ s[j].body # {} => j >= i
  BY <1>1, Arrives
<1>3. CASE "CLIENTLOC" \in m.connect BY <1>1, <1>3 DEF Taken
<1>4. CASE "CLIENTLOC" \notin m.connect
  <2>1. PICK j \in DOMAIN s : j > m.pos /\ "CONACCEPT" \in s[j].body /\ s[j].mid = m.rmid
    BY <1>4 DEF Taken
  <2>2. j \in Nat /\ j >= i BY <1>2, <2>1
  <2>3. CASE j = i BY <1>1, <2>1, <2>3 DEF Taken
  <2>4. CASE j # i
    <3>1. j > i BY <1>2, <2>2, <2>4
    <3> QED BY <1>1, <2>1, <3>1 DEF Taken
  <2> QED BY <2>3, <2>4
<1> QED BY <1>3, <1>4

LEMMA MovedFacts ==
  ASSUME PeersInv, ClientInv, NEW c \in Comp, NEW i, rx_wrapper(c, i)
  PROVE  LET x == Moved(c, i)
             m == memb[c]
         IN  /\ x.m.rem = m.rem /\ x.m.loc = m.loc /\ x.m.mid = m.mid /\ x.m.pos = i
             /\ x.m.connect = m.connect /\ x.m.lchan = m.lchan /\ x.m.rchan = m.rchan
             /\ x.m.rmid = m.rmid /\ x.m # Gone
             /\ x.tx = <<>> /\ x.l1 = {} /\ SoundCtx(x)
<1> DEFINE x == Moved(c, i)
           m == memb[c]
<1>1. m \in Member /\ m # Gone /\ m.rchan # 0 BY StartWorded, Arrives
<1>2. x.m = [m EXCEPT !.pos = i] /\ x.tx = <<>> /\ x.l1 = {} BY DEF Moved, Ctx
<1>3. SoundCtx(x) BY WrapperSound DEF PeersInv
<1>4. /\ x.m.rem = m.rem /\ x.m.loc = m.loc /\ x.m.mid = m.mid /\ x.m.pos = i
      /\ x.m.connect = m.connect /\ x.m.lchan = m.lchan /\ x.m.rchan = m.rchan
      /\ x.m.rmid = m.rmid
  BY <1>1, <1>2 DEF Member
<1>5. x.m # Gone BY <1>1, <1>4, GoneFacts
<1> QED BY <1>2, <1>3, <1>4, <1>5

\* One that is not for this member, or that it cannot read yet.
LEMMA SkipClient ==
  ASSUME PeersInv, ClientInv, NEW c \in Comp, NEW i, rx_wrapper(c, i),
         Replied(c, i) = Moved(c, i),
         memb[c].loc = "MEMBER" => log[memb[c].rchan][i].mid # memb[c].rmid
  PROVE  ClientInv'
<1> DEFINE x == Moved(c, i)
           m == memb[c]
           r == memb[c].rchan
<1>1. /\ x.m.rem = m.rem /\ x.m.loc = m.loc /\ x.m.mid = m.mid /\ x.m.pos = i
      /\ x.m.connect = m.connect /\ x.m.lchan = m.lchan /\ x.m.rchan = r
      /\ x.m.rmid = m.rmid /\ x.m # Gone
      /\ x.tx = <<>> /\ x.l1 = {} /\ SoundCtx(x)
  BY MovedFacts
<1>2. Commit(c, x) BY WrapperSound DEF PeersInv
<1>3. /\ m # Gone /\ UNCHANGED adds /\ r \in Chans /\ i <= Len(log[r]) /\ i \in Nat
      /\ m.loc \in Joined
  BY Arrives
<1> HIDE DEF x
<1>4. Worded(c, m, x) /\ Meant(m, x)
  <2>1. Flagged(c, m) BY StartWorded
  <2>2. Flagged(c, x.m) BY <1>1, <2>1 DEF Flagged
  <2>3. Parts(m, x) BY <1>1 DEF Parts
  <2>4. DOMAIN x.tx = {} BY <1>1
  <2> QED BY <1>1, <2>2, <2>3, <2>4 DEF Worded, Meant
<1>5. Says(c, x) BY <1>1, <1>2, <1>3, <1>4 DEF Says
<1>6. memb'[c] = x.m BY <1>5, SaysGrows
<1>7. Doomed(c) => Doomed(c)'
  <2>1. CASE m.loc = "MEMBER" BY <1>1, <1>5, <2>1, StillDoomed
  <2>2. CASE m.loc # "MEMBER" BY <2>2 DEF Doomed, Lost
  <2> QED BY <2>1, <2>2
<1>8. AcceptReaches(c)'
  <2>1. CASE "CLIENTREM" \in m.connect BY <1>1, <1>5, <1>7, <2>1, ReachesStays
  <2>2. CASE "CLIENTREM" \notin m.connect BY <1>1, <1>6, <2>2 DEF AcceptReaches
  <2> QED BY <2>1, <2>2
<1>9. AcceptMeant(c)'
  <2>1. CASE "CLIENTLOC" \in m.connect BY <1>1, <1>5, <1>7, <2>1, MeantStays
  <2>2. CASE "CLIENTLOC" \notin m.connect BY <1>1, <1>6, <2>2 DEF AcceptMeant
  <2> QED BY <2>1, <2>2
<1>10. c = Flw => Met' BY <1>1, <1>5, <1>7, MetStays
<1>11. x.m.pos <= Len(log'[x.m.rchan])
  <2>1. Len(log[r]) \in Nat /\ Len(log'[r]) \in Nat /\ Len(log[r]) <= Len(log'[r])
    BY <1>3, <1>5, LogLength
  <2>2. i <= Len(log'[r])
    <3> HIDE DEF r
    <3> QED BY <1>3, <2>1
  <2> QED BY <1>1, <2>2
<1>12. Taken(memb[Peer(c)], log[memb[Peer(c)].lchan], m)
         => Taken(memb[Peer(c)], log[memb[Peer(c)].lchan], x.m)
  <2> SUFFICES ASSUME Taken(memb[Peer(c)], log[memb[Peer(c)].lchan], m)
               PROVE  Taken(memb[Peer(c)], log[memb[Peer(c)].lchan], x.m)
    OBVIOUS
  <2>1. m.loc = "MEMBER" BY DEF Taken
  <2> QED BY <1>1, <2>1, StillTaken
<1>13. Kept(c, x) BY <1>7, <1>8, <1>9, <1>10, <1>11, <1>12 DEF Kept
<1> QED BY <1>5, <1>13, CommitClient

\* A member reads what its peer says to it, and stays or is killed.
LEMMA ReplySaid ==
  ASSUME PeersInv, ClientInv, NEW c \in Comp, NEW i, rx_wrapper(c, i),
         memb[c].loc = "MEMBER", log[memb[c].rchan][i].mid = memb[c].rmid,
         "LEAVE" \notin log[memb[c].rchan][i].body
  PROVE  LET m == memb[c]
             w == log[memb[c].rchan][i]
             y == Replied(c, i)
         IN  /\ Says(c, y)
             /\ Accounted(Moved(c, i).m, w, y)
             /\ y.m # Gone => /\ y.m.rchan = m.rchan /\ y.m.rmid = m.rmid
                              /\ "CONACCEPT" \in w.body => "CLIENTLOC" \in y.m.connect
<1> DEFINE m == memb[c]
           w == log[memb[c].rchan][i]
           x == Moved(c, i)
           n == Moved(c, i).m
           z == Read(c, i)
           y == Replied(c, i)
<1>1. /\ n.rem = m.rem /\ n.loc = m.loc /\ n.mid = m.mid /\ n.connect = m.connect
      /\ n # Gone /\ x.tx = <<>> /\ SoundCtx(x)
  BY MovedFacts
<1>2. /\ m # Gone /\ UNCHANGED adds /\ w \in WrapperT /\ Shaped(Peer(c), w)
  BY Arrives
<1>3. w.body \in Replies BY <1>2 DEF Shaped
<1>4. /\ SoundCtx(z) /\ SoundCtx(y) /\ Commit(c, y) /\ Follows(Ctx(c), y)
      /\ Ctx(c).m = m /\ Ctx(c).l1 = {}
  BY WrapperSound, WrapperFollows, StartWorded DEF PeersInv
<1>5. Flagged(c, n)
  <2>1. Flagged(c, m) BY StartWorded
  <2> QED BY <1>1, <2>1 DEF Flagged
<1>6. z = sdtLevel2Rx(c, x, w) BY DEF Read
<1>7. y = z \/ (z.m # Gone /\ y = justACK(z)) BY DEF Replied
<1> HIDE DEF x, n, z, y, w
<1>8. Worded(c, n, x) /\ Told(n, w, x)
  <2>1. x.m = n BY DEF x, n
  <2> QED BY <1>1, <1>5, <2>1, SilentTold
<1>9. /\ Worded(c, n, z) /\ Told(n, w, z)
      /\ "CONACCEPT" \in w.body => z.m = Gone \/ "CLIENTLOC" \in z.m.connect
  <2>1. x.m = n /\ n.loc = "MEMBER" BY <1>1 DEF x, n
  <2> QED BY <1>1, <1>2, <1>3, <1>6, <1>8, <2>1, ReplyTold
<1>10. /\ Worded(c, n, y) /\ Told(n, w, y) /\ y.m = z.m
  <2>1. CASE y = z BY <1>9, <2>1
  <2>2. CASE z.m # Gone /\ y = justACK(z)
    <3> DEFINE r == FALSE
               a == TRUE
               k == FALSE
    <3>1. r \in BOOLEAN /\ a \in BOOLEAN /\ k \in BOOLEAN OBVIOUS
    <3>2. z.m.rem \in Joined
      <4>1. z.m.loc = "MEMBER" BY <1>1, <1>9, <2>2 DEF Told, Accounted
      <4> QED BY <1>9, <4>1 DEF Worded, Flagged
    <3>3. y = SendWrap(z, r, {}, a, k) BY <2>2 DEF justACK
    <3> HIDE DEF r, a, k
    <3>4. /\ Worded(c, n, SendWrap(z, r, {}, a, k))
          /\ Told(n, w, SendWrap(z, r, {}, a, k))
          /\ SendWrap(z, r, {}, a, k).m = z.m
      BY <1>4, <1>9, <2>2, <3>1, <3>2, EmptySays
    <3> QED BY <3>3, <3>4
  <2> QED BY <1>7, <2>1, <2>2
<1>11. Worded(c, m, y) /\ Meant(m, y)
  <2>1. Parts(m, y) BY <1>1, <1>10 DEF Worded, Parts
  <2>2. Worded(c, m, y) BY <1>1, <1>10, <2>1 DEF Worded
  <2>3. Meant(m, y) BY <1>1, <1>10 DEF Told, Meant
  <2> QED BY <2>2, <2>3
<1>12. y.m # Gone => Same(m, y.m)
  BY <1>4 DEF Follows, Keeps
<1>13. \A e \in y.l1 : e.type # "JOIN"
  BY <1>4 DEF Follows, Keeps
<1>14. Says(c, y)
  BY <1>2, <1>4, <1>11, <1>12, <1>13 DEF Says, Same
<1>15. Accounted(n, w, y) BY <1>10 DEF Told
<1>16. y.m # Gone => /\ y.m.rchan = m.rchan /\ y.m.rmid = m.rmid
                     /\ "CONACCEPT" \in w.body => "CLIENTLOC" \in y.m.connect
  BY <1>9, <1>10, <1>12 DEF Same
<1> QED BY <1>14, <1>15, <1>16 DEF n, w, y

\* It accepts a Connect: the Accept is on its way to a peer that will take it.
LEMMA AcceptSent ==
  ASSUME PeersInv, ClientInv, NEW c \in Comp, NEW y, Says(c, y), y.m # Gone,
         memb[c].rem = "MEMBER", memb[Peer(c)].rem = "MEMBER",
         NEW k \in DOMAIN y.tx, "CONACCEPT" \in y.tx[k].body
  PROVE  \/ Full(log'[y.m.lchan]) \/ Doomed(Peer(c))'
         \/ Taken(y.m, log'[y.m.lchan], memb'[Peer(c)])
<1> DEFINE m == memb[c]
           p == memb[Peer(c)]
           L == memb[c].lchan
           s == log[L]
           u == log'[L]
<1>1. /\ memb'[Peer(c)] = p /\ Extends(s, y.tx, u) /\ y.tx \in Seq(WrapperT)
  BY SaysGrows
<1>2. /\ Peer(c) \in Comp /\ L \in Chans /\ y.m.lchan = L /\ y.m.mid = m.mid
      /\ y.tx[k].mid = m.mid
  BY Wires DEF Says, Worded, Parts
<1>3. Sound(m) /\ Sound(p) /\ p \in Member BY <1>2, MemberTyped DEF PeersInv
<1>4. /\ "SDT" \in m.connect /\ "SDT" \in p.connect /\ p.loc = "MEMBER" /\ p.rchan # 0
  BY <1>3 DEF Sound, HalvesInStep
<1>5. /\ \A k2 \in Comp : memb[k2].rchan = memb[Peer(k2)].lchan
      /\ memb[Ldr].rmid = memb[Flw].mid
  <2>1. \A k2 \in Comp : "SDT" \in memb[k2].connect BY <1>4, Wires
  <2>2. adds <= 2 BY DEF ClientInv
  <2> QED BY <2>1, <2>2, PeersAgreed DEF PeersAgree
<1>6. p.rchan = L BY <1>2, <1>5, Wires
<1>7. p.rmid = m.mid \/ Doomed(Peer(c))
  <2>1. CASE c = Flw
    <3>1. Peer(c) = Ldr BY <2>1, Numbers DEF Peer
    <3> QED BY <1>5, <2>1, <3>1
  <2>2. CASE c = Ldr
    <3>1. Peer(c) = Flw BY <2>2 DEF Peer
    <3>2. Met BY DEF ClientInv
    <3> QED BY <2>2, <3>1, <3>2 DEF Met
  <2> QED BY <2>1, <2>2 DEF Comp
<1>8. Doomed(Peer(c)) => Doomed(Peer(c))' BY CommitDoomed
<1>9. ASSUME ~ Full(u), p.rmid = m.mid PROVE Taken(y.m, u, p)
  <2>1. /\ Len(u) = Len(s) + Len(y.tx) /\ Len(s) \in Nat /\ Len(u) \in Nat
        /\ DOMAIN u = 1 .. Len(u)
        /\ \A j \in 1 .. Len(u) : j > Len(s) => u[j] = y.tx[j - Len(s)]
    BY <1>1, <1>9 DEF Extends
  <2>2. k \in Nat /\ k >= 1 /\ k <= Len(y.tx) /\ Len(y.tx) \in Nat BY <1>1
  <2>3. p.pos <= Len(s) /\ p.pos \in Nat
    <3>1. p.pos <= Len(log[p.rchan]) BY <1>2, <1>4 DEF ClientInv, PosIn
    <3> QED BY <1>3, <1>6, <3>1 DEF Member
  <2> DEFINE j == Len(s) + k
  <2>4. j \in 1 .. Len(u) /\ j > Len(s) /\ j - Len(s) = k /\ j > p.pos
    <3> HIDE DEF s, u, p
    <3> QED BY <2>1, <2>2, <2>3
  <2>5. u[j] = y.tx[k] BY <2>1, <2>4
  <2> HIDE DEF j
  <2>6. "CONACCEPT" \in u[j].body /\ u[j].mid = p.rmid /\ j \in DOMAIN u
    BY <1>2, <1>9, <2>1, <2>4, <2>5
  <2> QED BY <1>2, <1>4, <1>6, <1>9, <2>4, <2>6 DEF Taken
<1>10. Full(u) \/ Doomed(Peer(c))' \/ Taken(y.m, u, p)
  BY <1>7, <1>8, <1>9
<1> QED BY <1>1, <1>2, <1>10

LEMMA ReplyReaches ==
  ASSUME PeersInv, ClientInv, NEW c \in Comp, NEW i, rx_wrapper(c, i),
         memb[c].loc = "MEMBER", log[memb[c].rchan][i].mid = memb[c].rmid,
         NEW y, Says(c, y), y.m # Gone, y.m.rchan = memb[c].rchan,
         Accounted(Moved(c, i).m, log[memb[c].rchan][i], y),
         Doomed(c) => Doomed(c)'
  PROVE  AcceptReaches(c)'
<1> DEFINE m == memb[c]
           w == log[memb[c].rchan][i]
           p == memb[Peer(c)]
<1>1. /\ memb'[c] = y.m /\ memb'[Peer(c)] = p
      /\ \A ch : Parted(ch) => Parted(ch)'
  BY SaysGrows
<1>2. CASE "CLIENTREM" \in m.connect BY <1>2, ReachesStays
<1>3. CASE "CLIENTREM" \notin y.m.connect BY <1>1, <1>3 DEF AcceptReaches
<1>4. CASE "CLIENTREM" \notin m.connect /\ "CLIENTREM" \in y.m.connect
  <2>1. /\ "CONNECT" \in w.body /\ m.rem = "MEMBER"
        /\ \E k \in DOMAIN y.tx : "CONACCEPT" \in y.tx[k].body
    BY <1>4, MovedFacts DEF Accounted
  <2>2. Doomed(c) \/ PartedFrom(c) \/ (Backed(p, w) /\ p.lchan = m.rchan)
    BY SentBy
  <2>3. PartedFrom(c) => PartedFrom(c)'
    <3>1. c = Ldr => memb'[Ldr].rchan = memb[Ldr].rchan BY <1>1
    <3> QED BY <1>1, <3>1 DEF PartedFrom
  <2>4. Backed(p, w) => p.rem = "MEMBER" BY <2>1 DEF Backed
  <2>5. p.rem = "MEMBER" => \/ Full(log'[y.m.lchan]) \/ Doomed(Peer(c))'
                            \/ Taken(y.m, log'[y.m.lchan], memb'[Peer(c)])
    BY <2>1, AcceptSent
  <2> QED BY <1>1, <2>2, <2>3, <2>4, <2>5 DEF AcceptReaches
<1> QED BY <1>2, <1>3, <1>4

LEMMA ReplyMeant ==
  ASSUME PeersInv, ClientInv, NEW c \in Comp, NEW i, rx_wrapper(c, i),
         memb[c].loc = "MEMBER", log[memb[c].rchan][i].mid = memb[c].rmid,
         NEW y, Says(c, y), y.m # Gone,
         y.m.rchan = memb[c].rchan, y.m.rmid = memb[c].rmid,
         Accounted(Moved(c, i).m, log[memb[c].rchan][i], y),
         Doomed(c) => Doomed(c)'
  PROVE  AcceptMeant(c)' /\ (c = Flw => Met')
<1> DEFINE m == memb[c]
           w == log[memb[c].rchan][i]
           p == memb[Peer(c)]
<1>1. /\ memb'[c] = y.m /\ memb'[Peer(c)] = p
      /\ \A ch : Parted(ch) => Parted(ch)'
  BY SaysGrows
<1>2. Doomed(c) \/ PartedFrom(c) \/ (Backed(p, w) /\ p.lchan = m.rchan)
  BY SentBy
<1>3. PartedFrom(c) => PartedFrom(c)'
  <2>1. c = Ldr => memb'[Ldr].rchan = memb[Ldr].rchan BY <1>1
  <2> QED BY <1>1, <2>1 DEF PartedFrom
<1>4. AcceptMeant(c)'
  <2>1. CASE "CLIENTLOC" \in m.connect BY <2>1, MeantStays
  <2>2. CASE "CLIENTLOC" \notin y.m.connect BY <1>1, <2>2 DEF AcceptMeant
  <2>3. CASE "CLIENTLOC" \notin m.connect /\ "CLIENTLOC" \in y.m.connect
    <3>1. "CONACCEPT" \in w.body BY <2>3, MovedFacts DEF Accounted
    <3>2. Backed(p, w) /\ p.lchan = m.rchan => Faces(y.m, p)
      BY <3>1 DEF Backed, Faces
    <3> QED BY <1>1, <1>2, <1>3, <3>2 DEF AcceptMeant
  <2> QED BY <2>1, <2>2, <2>3
<1>5. ASSUME c = Flw PROVE Met'
  <2>1. CASE y.m.rem = "MEMBER" => m.rem = "MEMBER"
    BY <1>5, <2>1, MetStays
  <2>2. CASE y.m.rem = "MEMBER" /\ m.rem # "MEMBER"
    <3>1. Peer(c) = Ldr /\ ~ PartedFrom(c) BY <1>5, Numbers DEF Peer, PartedFrom
    <3>2. Backed(p, w) => /\ p # Gone /\ p.mid = y.m.rmid /\ p.rem \in Joined
      BY DEF Backed
    <3> QED BY <1>1, <1>2, <1>5, <3>1, <3>2 DEF Met
  <2> QED BY <2>1, <2>2
<1> QED BY <1>4, <1>5

LEMMA ReplyClient ==
  ASSUME PeersInv, ClientInv, NEW c \in Comp, NEW i, rx_wrapper(c, i),
         memb[c].loc = "MEMBER", log[memb[c].rchan][i].mid = memb[c].rmid,
         "LEAVE" \notin log[memb[c].rchan][i].body
  PROVE  ClientInv'
<1> DEFINE m == memb[c]
           r == memb[c].rchan
           w == log[memb[c].rchan][i]
           n == Moved(c, i).m
           y == Replied(c, i)
           p == memb[Peer(c)]
<1>1. /\ Says(c, y) /\ Accounted(n, w, y)
      /\ y.m # Gone => /\ y.m.rchan = r /\ y.m.rmid = m.rmid
                       /\ "CONACCEPT" \in w.body => "CLIENTLOC" \in y.m.connect
  BY ReplySaid
<1>2. /\ n.loc = "MEMBER" /\ n.pos = i /\ n.connect = m.connect
  BY MovedFacts
<1>3. /\ r \in Chans /\ i <= Len(log[r]) /\ i \in Nat /\ Shaped(Peer(c), w)
  BY Arrives
<1> HIDE DEF y
<1>4. ASSUME y.m # Gone PROVE Kept(c, y)
  <2>1. y.m.loc = m.loc /\ y.m.pos = i
    BY <1>1, <1>2, <1>4 DEF Accounted
  <2>2. Doomed(c) => Doomed(c)' BY <1>1, <1>4, <2>1, StillDoomed
  <2>3. AcceptReaches(c)' BY <1>1, <1>4, <2>2, ReplyReaches
  <2>4. AcceptMeant(c)' /\ (c = Flw => Met') BY <1>1, <1>4, <2>2, ReplyMeant
  <2>5. ASSUME "CLIENTREM" \in p.connect, "CLIENTLOC" \in m.connect
        PROVE  "CLIENTLOC" \in y.m.connect
    <3>1. "CONREFUSE" \notin w.body
      <4>1. Flagged(Peer(c), p) BY Wires, StartWorded
      <4> QED BY <1>3, <2>5, <4>1 DEF Shaped, Flagged
    <3> QED BY <1>1, <1>2, <1>4, <2>5, <3>1 DEF Accounted
  <2>6. ASSUME "CLIENTREM" \in p.connect, Taken(p, log[p.lchan], m)
        PROVE  Taken(p, log[p.lchan], y.m)
    BY <1>1, <1>4, <2>1, <2>5, <2>6, StillTaken
  <2>7. y.m.rchan # 0 => y.m.pos <= Len(log'[y.m.rchan])
    <3>1. Len(log[r]) \in Nat /\ Len(log'[r]) \in Nat /\ Len(log[r]) <= Len(log'[r])
      BY <1>1, <1>3, LogLength
    <3>2. i <= Len(log'[r])
      <4> HIDE DEF r
      <4> QED BY <1>3, <3>1
    <3> QED BY <1>1, <1>4, <2>1, <3>2
  <2> QED BY <2>2, <2>3, <2>4, <2>6, <2>7 DEF Kept
<1> QED BY <1>1, <1>4, CommitClient

LEMMA WrapperClient ==
  ASSUME PeersInv, ClientInv, NEW c \in Comp, NEW i, rx_wrapper(c, i)
  PROVE  ClientInv'
<1> DEFINE m == memb[c]
           w == log[memb[c].rchan][i]
           x == Moved(c, i)
           z == Read(c, i)
           y == Replied(c, i)
<1>1. /\ x.m.rem = m.rem /\ x.m.loc = m.loc /\ x.m.mid = m.mid
      /\ x.m.connect = m.connect /\ x.m # Gone
      /\ x.tx = <<>> /\ x.l1 = {} /\ SoundCtx(x)
  BY MovedFacts
<1>2. /\ m # Gone /\ UNCHANGED adds /\ m.loc \in Joined /\ w \in WrapperT
      /\ Shaped(Peer(c), w)
  BY Arrives
<1>3. /\ SoundCtx(y) /\ Commit(c, y) /\ Follows(Ctx(c), y) /\ Ctx(c).l1 = {}
  BY WrapperSound, WrapperFollows, StartWorded DEF PeersInv
<1>4. CASE w.mid # m.rmid
  <2>1. y = x BY <1>4 DEF Replied, Read
  <2> QED BY <1>4, <2>1, SkipClient
<1>5. CASE w.mid = m.rmid /\ "LEAVE" \in w.body
  <2>1. z = sdtLevel2Rx(c, x, w) BY <1>5 DEF Read
  <2> HIDE DEF x
  <2>2. Worded(c, m, x)
    <3>1. Flagged(c, m) BY StartWorded
    <3> HIDE DEF m
    <3> QED BY <1>1, <3>1, SilentTold
  <2>3. Worded(c, m, z) /\ z.m = Gone
    <3>1. w.body \in Partings BY <1>2, <1>5 DEF Shaped
    <3> HIDE DEF m, w, z
    <3>2. x.m.loc \in Joined BY <1>1, <1>2
    <3> QED BY <1>1, <1>2, <1>5, <2>1, <2>2, <3>1, <3>2, LeaveWorded
  <2>4. y = z BY <2>3 DEF Replied
  <2>5. \A e \in y.l1 : e.type # "JOIN" BY <1>3 DEF Follows, Keeps
  <2> HIDE DEF y, z
  <2>6. Says(c, y) BY <1>2, <1>3, <2>3, <2>4, <2>5 DEF Says, Meant
  <2> QED BY <2>3, <2>4, <2>6, CommitClient
<1>6. CASE w.mid = m.rmid /\ "LEAVE" \notin w.body /\ m.loc = "MEMBER"
  BY <1>6, ReplyClient
<1>7. CASE w.mid = m.rmid /\ "LEAVE" \notin w.body /\ m.loc # "MEMBER"
  <2>1. x.m.loc = "JOINPEND" BY <1>1, <1>2, <1>7 DEF Joined
  <2>2. sdtLevel2Rx(c, x, w) = x
    <3> HIDE DEF x, w
    <3> QED BY <1>1, <1>7, <2>1, PendingSkips
  <2>3. z = x BY <2>2 DEF Read
  <2>4. y = x BY <1>7, <2>3 DEF Replied
  <2> QED BY <1>7, <2>4, SkipClient
<1> QED BY <1>4, <1>5, <1>6, <1>7

-----------------------------------------------------------------------------
(***************************************************************************)
(* The steps that are not a handler of a member.                           *)
(***************************************************************************)
LEMMA AnswerClient ==
  ASSUME ClientInv, UNCHANGED <<memb, log, adds>>, NEW L, net' = net \cup L,
         \A n \in L : n.type = "JOIN" => n.pos <= Len(log[n.chan])
  PROVE  ClientInv'
<1>1. PosIn'
  <2>1. \A n \in net' : n.type = "JOIN" => n.pos <= Len(log[n.chan])
    BY DEF ClientInv, PosIn
  <2> QED BY <2>1 DEF ClientInv, PosIn
<1>2. /\ Owned' /\ Met' /\ AllFlagged' /\ Shape'
  BY DEF ClientInv, Owned, Met, AllFlagged, Shape, Parted, Doomed
<1>3. ASSUME NEW c \in Comp PROVE AcceptReaches(c)' /\ AcceptMeant(c)'
  BY DEF ClientInv, AcceptReaches, AcceptMeant, PartedFrom, Parted, Doomed
<1> QED BY <1>1, <1>2, <1>3 DEF ClientInv

\* The follower starts anew, with a member or without: the channels it has
\* sent on belong to nobody.
LEMMA FollowerAnew ==
  ASSUME PeersInv, ClientInv, UNCHANGED <<log, adds>>, PosIn',
         memb'[Ldr] = memb[Ldr], memb'[Flw].rem # "MEMBER",
         memb'[Flw].loc # "MEMBER", memb'[Flw].connect = {},
         \A ch \in Accepted : Parted(ch)'
  PROVE  ClientInv'
<1>1. /\ Ldr \in Comp /\ Flw \in Comp /\ Ldr # Flw /\ Peer(Ldr) = Flw /\ Peer(Flw) = Ldr
      /\ \A k \in Comp : k = Ldr \/ k = Flw
  BY Numbers DEF Peer, Comp
<1>2. ASSUME NEW ch \in Chans, NEW i \in DOMAIN log[ch]
      PROVE  \/ Full(log[ch]) \/ LeftFrom(log[ch], i, log[ch][i].mid) \/ Parted(ch)'
             \/ Backed(memb'[Owner(ch)], log[ch][i])
  <2>1. CASE ch = LdrChan
    <3>1. Owner(ch) = Ldr /\ ~ Parted(ch) BY <2>1 DEF Owner, Parted
    <3> QED BY <3>1 DEF ClientInv, Owned
  <2>2. CASE ch # LdrChan
    <3>1. log[ch] # <<>> OBVIOUS
    <3> QED BY <2>2, <3>1 DEF PeersInv, Heard
  <2> QED BY <2>1, <2>2
<1>3. Owned' BY <1>2 DEF Owned
<1>4. Met' BY DEF Met
<1>5. AllFlagged'
  <2>1. Flagged(Flw, memb'[Flw]) BY <1>1 DEF Flagged
  <2>2. Flagged(Ldr, memb'[Ldr]) BY <1>1 DEF ClientInv, AllFlagged
  <2> QED BY <1>1, <2>1, <2>2 DEF AllFlagged
<1>6. Shape' BY DEF ClientInv, Shape
<1>7. memb[Ldr].rchan # 0 => PartedFrom(Ldr)'
  <2>1. memb[Ldr].rchan # 0 => memb[Ldr].rchan \in Accepted
    BY DEF PeersInv, Wired, LdrWired
  <2> QED BY <2>1 DEF PartedFrom
<1>8. memb[Ldr].loc = "MEMBER" \/ memb[Ldr].rem = "MEMBER" => memb[Ldr].rchan # 0
  BY <1>1, StartWorded DEF Sound, HalvesInStep
<1>9. Flagged(Ldr, memb[Ldr]) BY <1>1, StartWorded
<1>10. AcceptReaches(Ldr)' /\ AcceptMeant(Ldr)'
  BY <1>7, <1>8, <1>9 DEF Flagged, AcceptReaches, AcceptMeant
<1>11. AcceptReaches(Flw)' /\ AcceptMeant(Flw)'
  BY DEF AcceptReaches, AcceptMeant
<1> QED BY <1>1, <1>3, <1>4, <1>5, <1>6, <1>10, <1>11 DEF ClientInv

LEMMA ColdClient ==
  ASSUME PeersInv, ClientInv, NEW msg \in net, joinCold(Flw, msg)
  PROVE  ClientInv'
<1> DEFINE new == [rem |-> "JOINRQ", loc |-> "JOINPEND", timer |-> "join",
              t_ms |-> 0, maktries |-> 0, lchan |-> nextChan, mid |-> 1,
              rchan |-> msg.chan, rmid |-> msg.mid, pos |-> msg.pos,
              connect |-> {}]
           L == {JoinAccept(msg.chan, msg.mid, nextChan), sendJoin(new)}
<1>1. /\ memb' = [memb EXCEPT ![Flw] = new] /\ net' = net \cup L
      /\ nextChan \in Chans /\ memb[Flw] = Gone /\ UNCHANGED <<log, adds>>
      /\ msg.type = "JOIN"
  BY DEF joinCold, Answer, ReceivesJoin
<1>2. memb'[Flw] = new /\ memb'[Ldr] = memb[Ldr]
  BY <1>1, Numbers DEF PeersInv, IInv, TypeOK
<1>3. /\ new.rem = "JOINRQ" /\ new.loc = "JOINPEND" /\ new.connect = {}
      /\ new.lchan = nextChan /\ new.rchan = msg.chan /\ new.pos = msg.pos
  OBVIOUS
<1>4. msg.chan \in Chans /\ msg.pos <= Len(log[msg.chan])
  BY <1>1 DEF ClientInv, PosIn, PeersInv, IInv, TypeOK, Message
<1>5. \A n \in L : n.type = "JOIN" => n.pos <= Len(log[n.chan])
  <2>1. /\ sendJoin(new).chan = nextChan /\ sendJoin(new).pos = Len(log[nextChan])
        /\ JoinAccept(msg.chan, msg.mid, nextChan).type = "JOINACCEPT"
    BY DEF sendJoin, Join, JoinAccept
  <2>2. Len(log[nextChan]) \in Nat BY <1>1 DEF PeersInv, IInv, TypeOK
  <2> HIDE DEF new
  <2> QED BY <2>1, <2>2
<1> HIDE DEF new, L
<1>6. PosIn'
  <2>1. \A n \in net' : n.type = "JOIN" => n.pos <= Len(log[n.chan])
    BY <1>1, <1>5 DEF ClientInv, PosIn
  <2>2. \A c \in Comp : memb'[c].rchan # 0 => memb'[c].pos <= Len(log[memb'[c].rchan])
    BY <1>2, <1>3, <1>4 DEF ClientInv, PosIn, Comp
  <2> QED BY <1>1, <2>1, <2>2 DEF PosIn
<1>7. ASSUME NEW ch \in Accepted PROVE Parted(ch)'
  <2>1. ch # LdrChan /\ ch # nextChan BY Numbers
  <2> QED BY <1>2, <1>3, <2>1 DEF Parted
<1> QED BY <1>1, <1>2, <1>3, <1>6, <1>7, FollowerAnew

LEMMA RestartClient ==
  ASSUME PeersInv, ClientInv, FlwRestarts
  PROVE  ClientInv'
<1>1. /\ memb' = [memb EXCEPT ![Flw] = Gone] /\ UNCHANGED <<log, net, adds>>
  BY DEF FlwRestarts
<1>2. memb'[Flw] = Gone /\ memb'[Ldr] = memb[Ldr]
  BY <1>1, Numbers DEF PeersInv, IInv, TypeOK
<1>3. PosIn'
  <2>1. \A c \in Comp : memb'[c].rchan # 0 => memb'[c].pos <= Len(log[memb'[c].rchan])
    BY <1>2, GoneFacts DEF ClientInv, PosIn, Comp
  <2> QED BY <1>1, <2>1 DEF ClientInv, PosIn
<1>4. ASSUME NEW ch \in Accepted PROVE Parted(ch)'
  <2>1. ch # LdrChan BY Numbers
  <2> QED BY <1>2, <2>1 DEF Parted
<1> QED BY <1>1, <1>2, <1>3, <1>4, GoneFacts, FollowerAnew

LEMMA JoinClient ==
  ASSUME PeersInv, ClientInv, NEW c \in Comp, NEW msg \in net, rx_join(c, msg)
  PROVE  ClientInv'
<1>1. \A ch, mid, r : /\ JoinRefuse(ch, mid).type = "JOINREFUSE"
                      /\ Leaving(ch, mid).type = "LEAVING"
                      /\ JoinAccept(ch, mid, r).type = "JOINACCEPT"
  BY DEF JoinRefuse, Leaving, JoinAccept
<1>2. CASE joinRepeated(c, msg)
  <2> DEFINE L == {IF memb[c].rmid = msg.mid
                   THEN JoinAccept(msg.chan, msg.mid, memb[c].lchan)
                   ELSE JoinRefuse(msg.chan, msg.mid)}
  <2>1. net' = net \cup L /\ UNCHANGED <<memb, log, adds>>
    BY <1>2 DEF joinRepeated, Answer
  <2>2. \A n \in L : n.type = "JOIN" => n.pos <= Len(log[n.chan]) BY <1>1
  <2> HIDE DEF L
  <2> QED BY <2>1, <2>2, AnswerClient
<1>3. CASE joinRecip(c, msg) BY <1>3, JoinRecipClient
<1>4. CASE joinRefused(c, msg)
  <2> DEFINE L == {JoinRefuse(msg.chan, msg.mid)}
  <2>1. UNCHANGED <<memb, log, adds>> /\ net' = net \cup L
    BY <1>4 DEF joinRefused, Answer
  <2>2. \A n \in L : n.type = "JOIN" => n.pos <= Len(log[n.chan]) BY <1>1
  <2> HIDE DEF L
  <2> QED BY <2>1, <2>2, AnswerClient
<1>5. CASE joinAbortNull(c, msg)
  BY <1>5, IdleClient DEF joinAbortNull
<1>6. ASSUME ReceivesJoin(c, msg), msg.recip = 0 PROVE c = Flw
  <2>1. JoinWired(msg) /\ LdrChan # 0 BY Numbers DEF PeersInv, Wired
  <2>2. 0 \notin open BY DEF PeersInv, IInv, TypeOK, Chans
  <2> QED BY <1>6, <2>1, <2>2 DEF ReceivesJoin
<1>7. CASE joinCold(c, msg)
  <2>1. c = Flw BY <1>6, <1>7 DEF joinCold
  <2> QED BY <1>7, <2>1, ColdClient
<1>8. CASE joinColdFails(c, msg)
  <2> DEFINE L == {n \in net' : n.type # "JOIN"}
  <2>1. UNCHANGED <<memb, log, adds>> BY <1>8 DEF joinColdFails
  <2>2. net' = net \cup L
    <3>1. \/ net' = net \cup {JoinRefuse(msg.chan, msg.mid)}
          \/ net' = net \cup {JoinAccept(msg.chan, msg.mid, nextChan),
                              Leaving(msg.chan, msg.mid),
                              JoinRefuse(msg.chan, msg.mid)}
      BY <1>8 DEF joinColdFails, Answer
    <3> QED BY <1>1, <3>1
  <2>3. \A n \in L : n.type = "JOIN" => n.pos <= Len(log[n.chan]) OBVIOUS
  <2> HIDE DEF L
  <2> QED BY <2>1, <2>2, <2>3, AnswerClient
<1> QED BY <1>2, <1>3, <1>4, <1>5, <1>7, <1>8 DEF rx_join

LEMMA AddMemberClient ==
  ASSUME PeersInv, ClientInv, NEW mid \in Mids, addMember(mid), adds' <= 2
  PROVE  ClientInv'
<1> DEFINE new == [Gone EXCEPT !.rem = "JOINRQ", !.timer = "join",
                               !.lchan = LdrChan, !.mid = mid,
                               !.connect = {"LOCINIT"}]
           L == {sendJoin(new)}
<1>1. /\ memb' = [memb EXCEPT ![Ldr] = new] /\ net' = net \cup L
      /\ memb[Ldr] = Gone /\ log' = log
  BY DEF addMember, Answer
<1>2. memb'[Ldr] = new /\ memb'[Flw] = memb[Flw]
  BY <1>1, Numbers DEF PeersInv, IInv, TypeOK
<1>3. new.rchan = 0 /\ new.lchan = LdrChan /\ new.loc = "NULL" /\ new.connect = {"LOCINIT"}
  BY DEF Gone
<1>4. \A n \in L : n.pos <= Len(log[n.chan])
  <2>1. sendJoin(new).chan = LdrChan /\ sendJoin(new).pos = Len(log[LdrChan])
    BY <1>3 DEF sendJoin, Join
  <2>2. Len(log[LdrChan]) \in Nat
    <3>1. LdrChan \in Chans BY SessionAssumption DEF LdrChan, Chans
    <3> QED BY <3>1 DEF PeersInv, IInv, TypeOK
  <2> HIDE DEF new
  <2> QED BY <2>1, <2>2
<1> HIDE DEF new, L
<1>5. /\ Ldr \in Comp /\ Flw \in Comp /\ Ldr # Flw /\ Peer(Ldr) = Flw /\ Peer(Flw) = Ldr
      /\ \A k \in Comp : k = Ldr \/ k = Flw
  BY Numbers DEF Peer, Comp
<1>6. \A ch : Parted(ch)' <=> Parted(ch) BY <1>2 DEF Parted
<1>7. Doomed(Flw)' <=> Doomed(Flw) BY <1>1, <1>2 DEF Doomed
<1>8. ~ Doomed(Ldr) /\ \A m, s : ~ Taken(m, s, Gone) /\ ~ Faces(m, Gone) /\ ~ Backed(Gone, m)
  BY <1>1, GoneFacts DEF Doomed, Lost, Taken, Faces, Backed
<1>9. Owned'
  <2> SUFFICES ASSUME NEW ch \in Chans, NEW i \in DOMAIN log[ch]
               PROVE  \/ Full(log[ch]) \/ LeftFrom(log[ch], i, log[ch][i].mid)
                      \/ Parted(ch)' \/ Backed(memb'[Owner(ch)], log[ch][i])
    BY <1>1 DEF Owned
  <2>1. \/ Full(log[ch]) \/ LeftFrom(log[ch], i, log[ch][i].mid)
        \/ Parted(ch) \/ Backed(memb[Owner(ch)], log[ch][i])
    BY DEF ClientInv, Owned
  <2>2. Owner(ch) = Ldr \/ Owner(ch) = Flw BY DEF Owner
  <2> QED BY <1>1, <1>2, <1>6, <1>8, <2>1, <2>2
<1>10. Met' BY <1>1, <1>2, <1>7 DEF ClientInv, Met
<1>11. AllFlagged'
  <2>1. Flagged(Ldr, memb'[Ldr]) BY <1>2, <1>3 DEF Flagged
  <2>2. Flagged(Flw, memb'[Flw]) BY <1>2, <1>5 DEF ClientInv, AllFlagged
  <2> QED BY <1>5, <2>1, <2>2 DEF AllFlagged
<1>12. Shape' BY <1>1 DEF ClientInv, Shape
<1>13. PosIn'
  <2>1. \A n \in net' : n.type = "JOIN" => n.pos <= Len(log[n.chan])
    BY <1>1, <1>4 DEF ClientInv, PosIn
  <2>2. \A c \in Comp : memb'[c].rchan # 0 => memb'[c].pos <= Len(log[memb'[c].rchan])
    BY <1>2, <1>3, <1>5 DEF ClientInv, PosIn
  <2> QED BY <1>1, <2>1, <2>2 DEF PosIn
<1>14. AcceptReaches(Ldr)' /\ AcceptMeant(Ldr)'
  BY <1>2, <1>3 DEF AcceptReaches, AcceptMeant
<1>15. AcceptReaches(Flw)' /\ AcceptMeant(Flw)'
  <2>1. ~ PartedFrom(Flw) BY <1>5 DEF PartedFrom
  <2>2. "CLIENTREM" \in memb[Flw].connect => Doomed(Flw) \/ Full(log[memb[Flw].lchan])
    BY <1>1, <1>5, <1>8, <2>1 DEF ClientInv, AcceptReaches
  <2>3. "CLIENTLOC" \in memb[Flw].connect => Doomed(Flw)
    BY <1>1, <1>5, <1>8, <2>1 DEF ClientInv, AcceptMeant
  <2> QED BY <1>1, <1>2, <1>7, <2>2, <2>3 DEF AcceptReaches, AcceptMeant
<1> QED BY <1>5, <1>9, <1>10, <1>11, <1>12, <1>13, <1>14, <1>15 DEF ClientInv

-----------------------------------------------------------------------------
LEMMA InitClient == Init => ClientInv
<1> SUFFICES ASSUME Init PROVE ClientInv OBVIOUS
<1>1. /\ \A c \in Comp : memb[c] = Gone
      /\ \A ch \in Chans : log[ch] = <<>>
      /\ net = {} /\ adds = 0 /\ Ldr \in Comp /\ Flw \in Comp
  BY DEF Init, Comp
<1>2. \A ch \in Chans : DOMAIN log[ch] = {} BY <1>1
<1>3. Owned /\ Shape BY <1>2 DEF Owned, Shape
<1>4. Met BY <1>1, GoneFacts DEF Met
<1>5. AllFlagged BY <1>1, GoneFlagged DEF AllFlagged
<1>6. PosIn BY <1>1, GoneFacts DEF PosIn
<1>7. \A c \in Comp : AcceptReaches(c) /\ AcceptMeant(c)
  BY <1>1, GoneFacts DEF AcceptReaches, AcceptMeant
<1> QED BY <1>1, <1>3, <1>4, <1>5, <1>6, <1>7 DEF ClientInv

\* Calls of addMember are counted.
LEMMA AddsCount ==
  ASSUME PeersInv, [Next]_vars, adds' <= 2
  PROVE  adds <= 2
<1>1. adds \in Nat BY Numbers
<1>2. adds' = adds \/ adds' = adds + 1
  <2>1. ASSUME NEW mid \in Mids, addMember(mid) PROVE adds' = adds + 1
    BY <2>1 DEF addMember
  <2>2. ASSUME NEW c \in Comp, Receive(c) PROVE adds' = adds
    BY <2>2 DEF Receive, rx_join, joinRepeated, joinRecip, joinRefused,
                joinAbortNull, joinCold, joinColdFails, rx_joinAccept,
                rx_joinRefuse, rx_leaving, rx_wrapper, LoseSequence
  <2>3. ASSUME NEW c \in Comp, Timeout(c) PROVE adds' = adds
    BY <2>3 DEF Timeout, joinTimeoutAction, recipTimeoutAction,
                makTimeoutAction, keepaliveAction
  <2>4. ASSUME NEW c \in Comp, App(c) PROVE adds' = adds
    BY <2>4 DEF App, drop_member, sdt_addClient, sdt_dropClient, StaleMemberRead
  <2> QED BY <2>1, <2>2, <2>3, <2>4 DEF Next, LdrStops, FlwRestarts, vars
<1> QED BY <1>1, <1>2

LEMMA NextClient ==
  ASSUME "dropClient" \notin AppCalls
  PROVE  PeersInv /\ (adds <= 2 => ClientInv) /\ [Next]_vars
           => (adds <= 2 => ClientInv)'
<1> SUFFICES ASSUME PeersInv, adds <= 2 => ClientInv, [Next]_vars, adds' <= 2
             PROVE  ClientInv'
  OBVIOUS
<1>0. ClientInv BY AddsCount
<1>1. ASSUME NEW mid \in Mids, addMember(mid) PROVE ClientInv'
  BY <1>0, <1>1, AddMemberClient
<1>2. ASSUME NEW c \in Comp, Receive(c) PROVE ClientInv'
  <2>1. ASSUME NEW msg \in net, rx_join(c, msg) PROVE ClientInv'
    BY <1>0, <2>1, JoinClient
  <2>2. ASSUME NEW msg \in net, rx_joinAccept(c, msg) PROVE ClientInv'
    BY <1>0, <2>2, JoinAcceptClient
  <2>3. ASSUME NEW msg \in net, rx_joinRefuse(c, msg) PROVE ClientInv'
    BY <1>0, <2>3, KillClient DEF rx_joinRefuse, Finds, Live
  <2>4. ASSUME NEW msg \in net, rx_leaving(c, msg) PROVE ClientInv'
    BY <1>0, <2>4, KillClient DEF rx_leaving, Finds, Live
  <2>5. ASSUME NEW i, rx_wrapper(c, i) PROVE ClientInv'
    BY <1>0, <2>5, WrapperClient
  <2>6. CASE LoseSequence(c) BY <1>0, <2>6, KillClient DEF LoseSequence, Live
  <2> QED BY <1>2, <2>1, <2>2, <2>3, <2>4, <2>5, <2>6 DEF Receive
<1>3. ASSUME NEW c \in Comp, Timeout(c) PROVE ClientInv'
  BY <1>0, <1>3, TimeoutClient
<1>4. ASSUME NEW c \in Comp, App(c) PROVE ClientInv'
  <2>1. CASE drop_member(c) BY <1>0, <2>1, KillClient DEF drop_member, Live
  <2>2. CASE sdt_addClient(c) BY <1>0, <2>2, AddClientClient
  <2>3. CASE sdt_dropClient(c) BY <2>3 DEF sdt_dropClient, Call
  <2>4. CASE StaleMemberRead(c) BY <1>0, <2>4, IdleClient DEF StaleMemberRead
  <2> QED BY <1>4, <2>1, <2>2, <2>3, <2>4 DEF App
<1>5. CASE LdrStops BY <1>0, <1>5, IdleClient DEF LdrStops
<1>6. CASE FlwRestarts BY <1>0, <1>6, RestartClient
<1>7. CASE UNCHANGED vars BY <1>0, <1>7, IdleClient DEF vars
<1> QED BY <1>1, <1>2, <1>3, <1>4, <1>5, <1>6, <1>7 DEF Next

\* With nothing left to read the invariant says what both ends hold.
LEMMA ClientsAgreed == PeersInv /\ ClientInv => ClientAgree
<1> SUFFICES ASSUME PeersInv, ClientInv, Drained, NEW c \in Comp
             PROVE  "CLIENTLOC" \in memb[c].connect
                      <=> "CLIENTREM" \in memb[Peer(c)].connect
  BY DEF ClientAgree
<1>1. ASSUME NEW k \in Comp
      PROVE  /\ memb[k].rchan = memb[Peer(k)].lchan /\ memb[k] # Gone
             /\ memb[k].rchan \in Chans
  <2>1. \A b \in Comp : "SDT" \in memb[b].connect BY DEF Drained
  <2>2. memb[k].rchan = memb[Peer(k)].lchan
    BY <2>1, PeersAgreed DEF PeersAgree, ClientInv
  <2>3. memb[k] # Gone /\ memb[k].rchan # 0
    BY <2>1, StartWorded, GoneFacts DEF Sound, HalvesInStep
  <2> QED BY <2>2, <2>3, Wires
<1>2. ASSUME NEW k \in Comp
      PROVE  LET s == log[memb[k].rchan]
             IN  /\ ~ Full(s) /\ \A j \in DOMAIN s : ~ (j > memb[k].pos)
                 /\ \A j \in DOMAIN s : ~ (j >= memb[k].pos + 1)
  <2> DEFINE s == log[memb[k].rchan]
  <2>1. Len(s) < MaxWrap /\ memb[k].pos = Len(s) BY DEF Drained
  <2>2. DOMAIN s = 1 .. Len(s) /\ Len(s) \in Nat
    BY <1>1 DEF PeersInv, IInv, TypeOK
  <2> HIDE DEF s
  <2>3. ~ Full(s) BY <2>1, <2>2, SessionAssumption DEF Full
  <2>4. \A j \in 1 .. Len(s) : ~ (j > Len(s)) /\ ~ (j >= Len(s) + 1) BY <2>2
  <2> QED BY <2>1, <2>2, <2>3, <2>4 DEF s
<1>3. ASSUME NEW k \in Comp PROVE ~ Doomed(k)
  BY <1>2 DEF Doomed, Lost, LeftFrom
<1>4. ASSUME NEW k \in Comp PROVE ~ PartedFrom(k)
  <2>1. CASE k = Ldr
    <3>1. Flw \in Comp /\ Peer(Ldr) = Flw BY Numbers DEF Peer
    <3> QED BY <1>1, <2>1, <3>1 DEF PartedFrom, Parted
  <2>2. CASE k # Ldr BY <2>2 DEF PartedFrom
  <2> QED BY <2>1, <2>2
<1>5. Peer(c) \in Comp /\ Peer(Peer(c)) = c BY Wires
<1>6. ASSUME "CLIENTLOC" \in memb[c].connect
      PROVE  "CLIENTREM" \in memb[Peer(c)].connect
  BY <1>3, <1>4, <1>6 DEF ClientInv, AcceptMeant, Faces
<1>7. ASSUME "CLIENTREM" \in memb[Peer(c)].connect
      PROVE  "CLIENTLOC" \in memb[c].connect
  <2>1. memb[c].rchan = memb[Peer(c)].lchan BY <1>1
  <2>2. Taken(memb[Peer(c)], log[memb[Peer(c)].lchan], memb[c])
    BY <1>2, <1>3, <1>4, <1>5, <1>7, <2>1 DEF ClientInv, AcceptReaches
  <2> QED BY <1>2, <2>1, <2>2 DEF Taken
<1> QED BY <1>6, <1>7

(***************************************************************************)
(* Once both ends of a session have read all that the other has sent, one  *)
(* has its client protocol connected exactly when the other has accepted   *)
(* it (rx_connect, rx_conaccept, rx_conrefuse and killMember of sdt.c),    *)
(* for any number of wrappers, channels, MIDs and calls of sdt_addClient   *)
(* and drop_member, whatever level 1 message is lost, late or repeated,    *)
(* whatever stopped or restarted, as long as addMember has been called at  *)
(* most twice: after that the ends need not be each other's.  No client    *)
(* handler is removed: a follower that is told Disconnecting keeps its own *)
(* half of the connection (rx_disconnecting).                              *)
(***************************************************************************)
THEOREM ClientsAlwaysAgree ==
  "dropClient" \notin AppCalls => (Spec => [](adds <= 2 => ClientAgree))
<1> SUFFICES ASSUME "dropClient" \notin AppCalls
             PROVE  Spec => [](adds <= 2 => ClientAgree)
  OBVIOUS
<1> DEFINE Inv == PeersInv /\ (adds <= 2 => ClientInv)
<1>1. Init => Inv BY InitPeers, InitClient
<1>2. Inv /\ [Next]_vars => Inv' BY NextPeers, NextClient
<1>3. Inv => (adds <= 2 => ClientAgree) BY ClientsAgreed
<1> HIDE DEF Inv
<1> QED BY <1>1, <1>2, <1>3, PTL DEF Spec
=============================================================================
