----------------------------- MODULE SdtSession -----------------------------
(***************************************************************************)
(* The life of an SDT session between two components (csrc/sdt.c): the     *)
(* leader Ldr owns a multicast channel and calls addMember, the follower   *)
(* Flw answers a cold Join with a unicast reciprocal channel.  The record  *)
(* memb[c] is the member_s that component c keeps for its peer: `rem' is   *)
(* the peer's membership of c's own channel, `loc' is c's membership of    *)
(* the peer's channel.                                                     *)
(*                                                                         *)
(* Level 1 messages (Join, Join Accept, Join Refuse, Leaving) are bare UDP *)
(* datagrams: `net' holds every one ever sent, a delivery does not consume *)
(* it, so loss, duplication, delay and reordering are all there.           *)
(*                                                                         *)
(* Wrapped messages travel in the numbered wrappers of a channel: log[ch]  *)
(* is what the owner of ch has sent, the index of a wrapper is its total   *)
(* sequence number Tseq, and memb[c].pos is Rchan.Tseq.  A member takes a  *)
(* wrapper only if every reliable wrapper before it has been taken (what   *)
(* module SdtReceiver shows of rx_wrapper and its NAKs); when a reliable   *)
(* wrapper cannot be recovered the channel pair is torn down.              *)
(*                                                                         *)
(* MaxWrap bounds the wrappers that get through on one channel: a later    *)
(* one is lost for good, as in a network that has become partitioned.      *)
(***************************************************************************)
EXTENDS Naturals, Sequences, FiniteSets

CONSTANTS
  Ldr, Flw,       \* the two components
  Mids,           \* MIDs a slot of the leader's channel may have
  MaxChan,        \* reciprocal channels are numbered 2 .. MaxChan
  MaxAdds,        \* bound on the calls of addMember
  AppCalls,       \* which other calls the applications make
  MaxApp,         \* bound on those calls
  MaxWrap,        \* bound on the wrappers that get through on one channel
  AdHocRetries,   \* AD_HOC_RETRIES of acnstd.h
  MakRetries,     \* MAK_MAX_RETRIES of acnstd.h
  AutoCon,        \* CHF_NOAUTOCON is clear on the leader's channel
  SendFail,       \* may a send of a level 1 message report an error?
  MayCrash        \* may the leader's process stop, the follower's restart?

ASSUME SessionAssumption ==
  /\ Ldr # Flw
  /\ Mids \subseteq Nat \ {0}
  /\ MaxChan \in Nat \ {0} /\ MaxWrap \in Nat
  /\ AppCalls \subseteq {"addClient", "dropClient", "dropMember"}
  /\ AdHocRetries \in Nat /\ MakRetries \in Nat
  /\ AutoCon \in BOOLEAN /\ SendFail \in BOOLEAN /\ MayCrash \in BOOLEAN

VARIABLES
  memb,      \* memb[c]: the member_s of component c, or Gone
  log,       \* log[ch]: wrappers sent on channel ch, in Tseq order
  net,       \* level 1 messages ever sent
  open,      \* reciprocal channels of Flw that are open
  stale,     \* those of them whose only member has been freed
  nextChan,  \* sdt.lastChanNo of Flw
  client,    \* client[c]: is a client protocol handler registered?
  told,      \* told[c]: membevent callbacks made for c's latest member
  up,        \* up[c]: has c's process not died?
  adds, apps \* calls made, for the bounds

vars == <<memb, log, net, open, stale, nextChan, client, told, up, adds, apps>>

Comp    == {Ldr, Flw}
LdrChan == 1
Chans   == 1 .. MaxChan
Owner(ch) == IF ch = LdrChan THEN Ldr ELSE Flw

MState  == {"NULL", "JOINRQ", "JOINPEND", "MEMBER"}
Pending == {"JOINRQ", "JOINPEND"}
Joined  == {"JOINPEND", "MEMBER"}      \* mstate >= MS_JOINPEND
Flags   == {"LOCINIT", "SDT", "CLIENTLOC", "CLIENTREM"}
Timers  == {"off", "join", "recip", "mak"}
Bodies  == {"CONNECT", "CONACCEPT", "CONREFUSE", "DISCONNECT",
            "DISCONNECTING", "LEAVE"}
Events  == {"JOINSUCCESS", "JOINFAIL", "LOCLEAVE", "LOCCLOSE"}

(***************************************************************************)
(* member_s: timer is the action of rem.stateTimer, t_ms the number of     *)
(* doublings of rem.t_ms, rchan is 0 while Rchan.owner is NULL.            *)
(***************************************************************************)
Member == [rem : MState, loc : MState, timer : Timers,
           t_ms : 0 .. AdHocRetries + 1, maktries : 0 .. MakRetries + 1,
           lchan : 0 .. MaxChan, mid : Nat, rchan : 0 .. MaxChan, rmid : Nat,
           pos : Nat, connect : SUBSET Flags]

Gone == [rem |-> "NULL", loc |-> "NULL", timer |-> "off", t_ms |-> 0,
         maktries |-> 0, lchan |-> 0, mid |-> 0, rchan |-> 0, rmid |-> 0,
         pos |-> 0, connect |-> {}]

WrapperT == [rel : BOOLEAN, mid : Nat, body : SUBSET Bodies,
             ack : BOOLEAN, mak : BOOLEAN]

Wrapper(m, reliable, body, ack, mak) ==
  [rel |-> reliable, mid |-> m.mid, body |-> body, ack |-> ack, mak |-> mak]

\* A Join goes to the inward socket of channel recip, to the ad hoc one if 0.
Join(ch, mid, recip, pos) ==
  [type |-> "JOIN", chan |-> ch, mid |-> mid, recip |-> recip, pos |-> pos]
JoinAccept(ch, mid, recip) ==
  [type |-> "JOINACCEPT", chan |-> ch, mid |-> mid, recip |-> recip]
JoinRefuse(ch, mid) == [type |-> "JOINREFUSE", chan |-> ch, mid |-> mid]
Leaving(ch, mid)    == [type |-> "LEAVING", chan |-> ch, mid |-> mid]

Message ==
       [type : {"JOIN"}, chan : Chans, mid : Nat, recip : Nat, pos : Nat]
  \cup [type : {"JOINACCEPT"}, chan : Nat, mid : Nat, recip : Nat]
  \cup [type : {"JOINREFUSE", "LEAVING"}, chan : Nat, mid : Nat]

(***************************************************************************)
(* A handler is a function of a context: the member, the wrappers and the  *)
(* level 1 messages it has sent so far, the events it has reported.        *)
(***************************************************************************)
Ctx(c) == [m |-> memb[c], tx |-> <<>>, l1 |-> {}, told |-> told[c]]

Tell(x, e)      == [x EXCEPT !.told = @ \cup {e}]
SendL1(x, msg)  == [x EXCEPT !.l1 = @ \cup {msg}]
SendWrap(x, reliable, body, ack, mak) ==
  [x EXCEPT !.tx = Append(@, Wrapper(x.m, reliable, body, ack, mak))]

\* A wrapper sent without WRAP_NOAUTOACK carries an ACK if we are a member.
AutoAck(m) == m.loc = "MEMBER"
SDTwrap(x, msg) == SendWrap(x, TRUE, {msg}, AutoAck(x.m), FALSE)
justACK(x)      == SendWrap(x, FALSE, {}, TRUE, FALSE)

Carry(s, tx) ==
  LET all == s \o tx
  IN  SubSeq(all, 1, IF Len(all) < MaxWrap THEN Len(all) ELSE MaxWrap)

\* Mutant: the channel of a killed follower member is left open.
openAfter_leak(c, x, ch) == open

openAfter(c, x, ch) == IF x.m = Gone /\ c = Flw THEN open \ {ch} ELSE open

(***************************************************************************)
(* The context x becomes the state of component c.  A follower whose       *)
(* member has been killed has closed its reciprocal channel.               *)
(***************************************************************************)
Commit(c, x) ==
  LET ch == memb[c].lchan
  IN  /\ memb' = [memb EXCEPT ![c] = x.m]
      /\ log'  = IF x.tx = <<>> THEN log
                 ELSE [log EXCEPT ![ch] = Carry(@, x.tx)]
      /\ net'  = net \cup x.l1
      /\ told' = [told EXCEPT ![c] = x.told]
      /\ open' = openAfter(c, x, ch)

(***************************************************************************)
(* killMember: disconnect, disconnecting and leave go out in one reliable  *)
(* wrapper, then the peer's channel is refused or left.                    *)
(***************************************************************************)
Farewell(m) ==
  {b \in {"DISCONNECT", "DISCONNECTING", "LEAVE"} :
     \/ b = "DISCONNECT"    /\ "CLIENTLOC" \in m.connect
     \/ b = "DISCONNECTING" /\ "CLIENTREM" \in m.connect
     \/ b = "LEAVE"         /\ m.rem \in Joined}

killMember(x, event) ==
  LET m  == x.m
      x1 == IF Farewell(m) = {} THEN x
            ELSE SendWrap(x, TRUE, Farewell(m), AutoAck(m), FALSE)
      x2 == IF m.loc \in Pending THEN SendL1(x1, JoinRefuse(m.rchan, m.rmid))
            ELSE IF m.loc = "MEMBER" THEN SendL1(x1, Leaving(m.rchan, m.rmid))
            ELSE x1
      x3 == IF "SDT" \in m.connect THEN Tell(x2, "LOCLEAVE") ELSE x2
      x4 == IF event \in Events THEN Tell(x3, event) ELSE x3
  IN  [x4 EXCEPT !.m = Gone]

\* Mutant: the ACK is sent but the membership is not recorded.
firstACK_only(x) == justACK(x)

firstACK(x) == [justACK(x) EXCEPT !.m.loc = "MEMBER"]

\* Both halves are joined: report it and connect the client protocol.
setFullMember(c, x) ==
  LET x1 == Tell([x EXCEPT !.m.connect = @ \cup {"SDT"}], "JOINSUCCESS")
  IN  IF "LOCINIT" \in x.m.connect /\ AutoCon /\ client[c]
      THEN SDTwrap(x1, "CONNECT")
      ELSE x1

-----------------------------------------------------------------------------
(***************************************************************************)
(* Receipt of the wrapped messages.                                        *)
(***************************************************************************)
rx_leave(x) == killMember(x, "REMLEAVE")

\* Mutant: the MAK timer is armed by later ACKs only, not by the first.
rx_ack_unarmed(c, x) ==
  CASE x.m.rem = "MEMBER" ->
         [x EXCEPT !.m.maktries = MakRetries + 1, !.m.timer = "mak"]
    [] x.m.rem = "JOINPEND" ->
         LET x1 == [x EXCEPT !.m.timer = "off", !.m.rem = "MEMBER"]
         IN  IF x.m.loc = "MEMBER" THEN setFullMember(c, x1) ELSE x1
    [] OTHER -> x

rx_ack(c, x) ==
  LET armed == [x EXCEPT !.m.maktries = MakRetries + 1, !.m.timer = "mak"]
  IN  CASE x.m.rem = "MEMBER" -> armed
        [] x.m.rem = "JOINPEND" ->
             LET x1 == [armed EXCEPT !.m.rem = "MEMBER"]
             IN  IF x.m.loc = "MEMBER" THEN setFullMember(c, x1) ELSE x1
        [] OTHER -> x

\* Mutant: accepts before it knows that it has a session.
rx_connect_early(c, x) ==
  LET x1 == SDTwrap(x, "CONACCEPT")
  IN  IF "SDT" \notin x.m.connect THEN x1
      ELSE [x1 EXCEPT !.m.connect = @ \cup {"CLIENTREM"}]

rx_connect(c, x) ==
  LET autocon == c = Flw \/ AutoCon
  IN  IF x.m.rem # "MEMBER" THEN x
      ELSE IF ~autocon \/ "SDT" \notin x.m.connect
           THEN SDTwrap(x, "CONREFUSE")
           ELSE LET x1 == SDTwrap(x, "CONACCEPT")
                IN  [x1 EXCEPT !.m.connect = @ \cup {"CLIENTREM"}]

rx_conaccept(x) == [x EXCEPT !.m.connect = @ \cup {"CLIENTLOC"}]

rx_conrefuse(x) ==
  IF "CLIENTREM" \in x.m.connect
  THEN [x EXCEPT !.m.connect = @ \ {"CLIENTLOC"}]
  ELSE IF "LOCINIT" \in x.m.connect THEN killMember(x, "CONNECTFAIL") ELSE x

rx_disconnect(x) == [x EXCEPT !.m.connect = @ \ {"CLIENTREM"}]

rx_disconnecting(x) ==
  IF "CLIENTLOC" \notin x.m.connect THEN x
  ELSE IF "CLIENTREM" \in x.m.connect
       THEN [x EXCEPT !.m.connect = @ \ {"CLIENTLOC"}]
       ELSE IF "LOCINIT" \in x.m.connect
            THEN killMember(x, "REMDISCONNECTING") ELSE x

(***************************************************************************)
(* sdtLevel2Rx over the PDUs of one wrapper, in the order they were packed *)
(* (a reply, or disconnect / disconnecting / leave, then the ACK).  While  *)
(* Join Pending only LEAVE and ACK are looked at; once the member has been *)
(* killed nothing more is.                                                 *)
(***************************************************************************)
On(x, cond, y) == IF cond /\ x.m.loc \in Joined THEN y ELSE x

sdtLevel2Rx(c, x, w) ==
  LET full == x.m.loc = "MEMBER"
      x1 == On(x,  full /\ "CONNECT" \in w.body, rx_connect(c, x))
      x2 == On(x1, full /\ "CONACCEPT" \in w.body, rx_conaccept(x1))
      x3 == On(x2, full /\ "CONREFUSE" \in w.body, rx_conrefuse(x2))
      x4 == On(x3, full /\ "DISCONNECT" \in w.body, rx_disconnect(x3))
      x5 == On(x4, full /\ "DISCONNECTING" \in w.body, rx_disconnecting(x4))
      x6 == On(x5, "LEAVE" \in w.body, rx_leave(x5))
  IN  On(x6, w.ack, rx_ack(c, x6))

-----------------------------------------------------------------------------
Live(c) == up[c] /\ memb[c] # Gone

(***************************************************************************)
(* rx_wrapper on wrapper i of the channel we are joined to.  Join Pending: *)
(* any newer wrapper moves us to its sequence numbers.  Member: only       *)
(* unreliable wrappers may have been skipped.  A priority MAK is answered. *)
(***************************************************************************)
InSequence(s, pos, i) == \A j \in pos + 1 .. i - 1 : ~ s[j].rel

\* The wrapper asks this member for an ACK.
mustack(m, w) == w.mak /\ w.mid = m.rmid /\ m.loc = "MEMBER"

rx_wrapper(c, i) ==
  LET m == memb[c]
      s == log[m.rchan]
      w == s[i]
      forUs == w.mid = m.rmid
      x0 == [Ctx(c) EXCEPT !.m.pos = i]
      x1 == IF forUs THEN sdtLevel2Rx(c, x0, w) ELSE x0
      x2 == IF mustack(m, w) /\ x1.m # Gone THEN justACK(x1) ELSE x1
  IN  /\ Live(c) /\ m.rchan # 0 /\ m.loc \in Joined
      /\ i \in m.pos + 1 .. Len(s)
      /\ m.loc = "MEMBER" => InSequence(s, m.pos, i)
      /\ Commit(c, x2)
      /\ UNCHANGED <<stale, nextChan, client, up, adds, apps>>

\* NAKfailAction, NAKcheck: a reliable wrapper is known to be missing (a
\* later one was seen) and could not be recovered.
LoseSequence(c) ==
  LET m == memb[c]
  IN  /\ Live(c) /\ m.rchan # 0 /\ m.loc = "MEMBER"
      /\ \E i \in m.pos + 1 .. Len(log[m.rchan]) :
            ~ InSequence(log[m.rchan], m.pos, i)
      /\ Commit(c, killMember(Ctx(c), "NAKTIMEOUT"))
      /\ UNCHANGED <<stale, nextChan, client, up, adds, apps>>

-----------------------------------------------------------------------------
(***************************************************************************)
(* Level 1 messages.  The member a message names is found by the channel   *)
(* it is received on and by its MID.                                       *)
(***************************************************************************)
Finds(c, msg) ==
  Live(c) /\ memb[c].lchan = msg.chan /\ memb[c].mid = msg.mid

sendJoin(m) == Join(m.lchan, m.mid, m.rchan, Len(log[m.lchan]))

\* Mutant: stops the join timer and does not start the reciprocal one.
rx_joinAccept_untimed(c, msg) ==
  LET m == memb[c]
      x == [Ctx(c) EXCEPT !.m.rem = "JOINPEND", !.m.timer = "off"]
  IN  /\ msg.type = "JOINACCEPT" /\ Finds(c, msg)
      /\ m.rchan \in {0, msg.recip}
      /\ m.rem = "JOINRQ"
      /\ Commit(c, IF m.rchan # 0 /\ m.loc = "JOINPEND" THEN firstACK(x) ELSE x)
      /\ UNCHANGED <<stale, nextChan, client, up, adds, apps>>

rx_joinAccept(c, msg) ==
  LET m == memb[c]
      x == [Ctx(c) EXCEPT !.m.rem = "JOINPEND", !.m.timer = "recip"]
  IN  /\ msg.type = "JOINACCEPT" /\ Finds(c, msg)
      /\ m.rchan \in {0, msg.recip}
      /\ m.rem = "JOINRQ"
      /\ Commit(c, IF m.rchan # 0 /\ m.loc = "JOINPEND" THEN firstACK(x) ELSE x)
      /\ UNCHANGED <<stale, nextChan, client, up, adds, apps>>

rx_joinRefuse(c, msg) ==
  /\ msg.type = "JOINREFUSE" /\ Finds(c, msg)
  /\ Commit(c, killMember(Ctx(c), "JOINFAIL"))
  /\ UNCHANGED <<stale, nextChan, client, up, adds, apps>>

rx_leaving(c, msg) ==
  /\ msg.type = "LEAVING" /\ Finds(c, msg)
  /\ Commit(c, killMember(Ctx(c), "REMLEAVE"))
  /\ UNCHANGED <<stale, nextChan, client, up, adds, apps>>

-----------------------------------------------------------------------------
(***************************************************************************)
(* rx_join.  A Join for a channel we already have is answered again.  A    *)
(* reciprocal one completes a member of ours that is waiting for it, a     *)
(* cold one makes a member and a reciprocal channel.                       *)
(***************************************************************************)
ReceivesJoin(c, msg) ==
  /\ up[c] /\ msg.type = "JOIN"
  /\ \/ msg.recip = 0 /\ c = Flw
     \/ msg.recip = LdrChan /\ c = Ldr
     \/ msg.recip \in open /\ c = Flw

KnownRchan(c, msg) == memb[c] # Gone /\ memb[c].rchan = msg.chan

Answer(msgs) == net' = net \cup msgs

joinRepeated(c, msg) ==
  /\ ReceivesJoin(c, msg) /\ KnownRchan(c, msg)
  /\ Answer({IF memb[c].rmid = msg.mid
             THEN JoinAccept(msg.chan, msg.mid, memb[c].lchan)
             ELSE JoinRefuse(msg.chan, msg.mid)})
  /\ UNCHANGED <<memb, log, open, stale, nextChan, client, told, up, adds, apps>>

\* Mutant: a second reciprocal Join replaces the channel.
joinRecip_again(c, msg) ==
  LET m == memb[c]
      x == [Ctx(c) EXCEPT !.m.rchan = msg.chan, !.m.rmid = msg.mid,
                          !.m.pos = msg.pos, !.m.loc = "JOINPEND",
                          !.l1 = {JoinAccept(msg.chan, msg.mid, m.lchan)}]
  IN  /\ ReceivesJoin(c, msg) /\ ~ KnownRchan(c, msg) /\ msg.recip # 0
      /\ m # Gone /\ m.rem \in Pending
      /\ Commit(c, IF m.rem = "JOINPEND" THEN firstACK(x) ELSE x)
      /\ UNCHANGED <<stale, nextChan, client, up, adds, apps>>

joinRecip(c, msg) ==
  LET m == memb[c]
      x == [Ctx(c) EXCEPT !.m.rchan = msg.chan, !.m.rmid = msg.mid,
                          !.m.pos = msg.pos, !.m.loc = "JOINPEND",
                          !.l1 = {JoinAccept(msg.chan, msg.mid, m.lchan)}]
  IN  /\ ReceivesJoin(c, msg) /\ ~ KnownRchan(c, msg) /\ msg.recip # 0
      /\ m # Gone /\ m.rem \in Pending /\ m.rchan = 0
      /\ Commit(c, IF m.rem = "JOINPEND" THEN firstACK(x) ELSE x)
      /\ UNCHANGED <<stale, nextChan, client, up, adds, apps>>

\* The answers that fail: the reason is sent back in a Join Refuse.
joinRefused(c, msg) ==
  /\ ReceivesJoin(c, msg) /\ ~ KnownRchan(c, msg)
  /\ \/ msg.recip # 0 /\ memb[c] = Gone
     \/ msg.recip # 0 /\ SendFail /\ memb[c].rem \in Pending /\ memb[c].rchan = 0
     \/ msg.recip = 0 /\ memb[c] = Gone
  /\ Answer({JoinRefuse(msg.chan, msg.mid)})
  /\ UNCHANGED <<memb, log, open, stale, nextChan, client, told, up, adds, apps>>

(***************************************************************************)
(* A reciprocal Join for a member that has its remote channel already, or  *)
(* is joined: joinAbort is reached with memb set and Rchan NULL, and       *)
(* unlinkRchan(Rcomp, NULL) dereferences it.                               *)
(***************************************************************************)
joinAbortNull(c, msg) ==
  /\ ReceivesJoin(c, msg) /\ ~ KnownRchan(c, msg) /\ msg.recip # 0
  /\ memb[c] # Gone /\ (memb[c].rem \notin Pending \/ memb[c].rchan # 0)
  /\ up' = [up EXCEPT ![c] = FALSE]
  /\ UNCHANGED <<memb, log, net, open, stale, nextChan, client, told, adds, apps>>

joinCold(c, msg) ==
  LET new == [rem |-> "JOINRQ", loc |-> "JOINPEND", timer |-> "join",
              t_ms |-> 0, maktries |-> 0, lchan |-> nextChan, mid |-> 1,
              rchan |-> msg.chan, rmid |-> msg.mid, pos |-> msg.pos,
              connect |-> {}]
  IN  /\ ReceivesJoin(c, msg) /\ msg.recip = 0 /\ memb[c] = Gone
      /\ nextChan \in Chans
      /\ memb' = [memb EXCEPT ![c] = new]
      /\ Answer({JoinAccept(msg.chan, msg.mid, nextChan), sendJoin(new)})
      /\ open' = open \cup {nextChan} /\ nextChan' = nextChan + 1
      /\ told' = [told EXCEPT ![c] = {}]
      /\ UNCHANGED <<log, stale, client, up, adds, apps>>

(***************************************************************************)
(* A send fails after the reciprocal channel has been opened: the member   *)
(* is freed, the channel is not closed.  When it was the Join Accept that  *)
(* failed the freed member stays linked to the channel.                    *)
(***************************************************************************)
joinColdFails(c, msg) ==
  /\ SendFail
  /\ ReceivesJoin(c, msg) /\ msg.recip = 0 /\ memb[c] = Gone
  /\ nextChan \in Chans
  /\ \/ /\ Answer({JoinRefuse(msg.chan, msg.mid)})
        /\ stale' = stale \cup {nextChan}
     \/ /\ Answer({JoinAccept(msg.chan, msg.mid, nextChan),
                   Leaving(msg.chan, msg.mid), JoinRefuse(msg.chan, msg.mid)})
        /\ UNCHANGED stale
  /\ open' = open \cup {nextChan} /\ nextChan' = nextChan + 1
  /\ UNCHANGED <<memb, log, client, told, up, adds, apps>>

rx_join(c, msg) ==
  \/ joinRepeated(c, msg) \/ joinRecip(c, msg) \/ joinRefused(c, msg)
  \/ joinAbortNull(c, msg) \/ joinCold(c, msg) \/ joinColdFails(c, msg)

-----------------------------------------------------------------------------
(***************************************************************************)
(* Calls of the application.                                               *)
(***************************************************************************)
addMember(mid) ==
  LET new == [Gone EXCEPT !.rem = "JOINRQ", !.timer = "join",
                          !.lchan = LdrChan, !.mid = mid,
                          !.connect = {"LOCINIT"}]
  IN  /\ up[Ldr] /\ memb[Ldr] = Gone /\ adds < MaxAdds
      /\ memb' = [memb EXCEPT ![Ldr] = new]
      /\ Answer({sendJoin(new)})
      /\ told' = [told EXCEPT ![Ldr] = {}]
      /\ adds' = adds + 1
      /\ UNCHANGED <<log, open, stale, nextChan, client, up, apps>>

Call(c, f) == up[c] /\ f \in AppCalls /\ apps < MaxApp /\ apps' = apps + 1

drop_member(c) ==
  /\ Call(c, "dropMember") /\ Live(c)
  /\ Commit(c, killMember(Ctx(c), "LOCCLOSE"))
  /\ UNCHANGED <<stale, nextChan, client, up, adds>>

connectAll(x) ==
  IF "SDT" \in x.m.connect /\ "CLIENTLOC" \notin x.m.connect
  THEN SDTwrap(x, "CONNECT") ELSE x

\* In a wrapper that has a Disconnect, rptProtoMsg repeats that instead of adding a
\* Disconnecting; of a repeated Disconnect the receiver ignores the second.
disconnectAll(x) ==
  LET bodies == {b \in {"DISCONNECT", "DISCONNECTING"} :
                   \/ b = "DISCONNECT"    /\ "CLIENTLOC" \in x.m.connect
                   \/ b = "DISCONNECTING" /\ "CLIENTREM" \in x.m.connect
                                         /\ "CLIENTLOC" \notin x.m.connect}
      x1 == [x EXCEPT !.m.connect = @ \ {"CLIENTLOC", "CLIENTREM"}]
  IN  IF bodies = {} THEN x
      ELSE SendWrap(x1, TRUE, bodies, AutoAck(x.m), FALSE)

sdt_addClient(c) ==
  /\ Call(c, "addClient") /\ ~ client[c]
  /\ client' = [client EXCEPT ![c] = TRUE]
  /\ Commit(c, IF c = Flw \/ AutoCon THEN connectAll(Ctx(c)) ELSE Ctx(c))
  /\ UNCHANGED <<stale, nextChan, up, adds>>

sdt_dropClient(c) ==
  /\ Call(c, "dropClient") /\ client[c]
  /\ client' = [client EXCEPT ![c] = FALSE]
  /\ Commit(c, disconnectAll(Ctx(c)))
  /\ UNCHANGED <<stale, nextChan, up, adds>>

\* connectAll and disconnectAll read the freed member of a stale channel.
StaleMemberRead(c) ==
  /\ c = Flw /\ stale # {}
  /\ \E f \in {"addClient", "dropClient"} : Call(c, f)
  /\ up' = [up EXCEPT ![c] = FALSE]
  /\ UNCHANGED <<memb, log, net, open, stale, nextChan, client, told, adds>>

-----------------------------------------------------------------------------
(***************************************************************************)
(* Timers.                                                                 *)
(***************************************************************************)
\* Mutant: one more doubling than AD_HOC_MAX_TIMEOUT_ms allows.
giveUp_late(m) == m.t_ms > AdHocRetries + 1

giveUp(m) == m.t_ms > AdHocRetries

joinTimeoutAction(c) ==
  LET m == memb[c]
      resent == SendL1([Ctx(c) EXCEPT !.m.t_ms = @ + 1], sendJoin(m))
  IN  /\ Live(c) /\ m.timer = "join"
      /\ \/ ~ giveUp(m) /\ Commit(c, resent)
         \/ (giveUp(m) \/ SendFail) /\ Commit(c, killMember(Ctx(c), "JOINFAIL"))
      /\ UNCHANGED <<stale, nextChan, client, up, adds, apps>>

recipTimeoutAction(c) ==
  /\ Live(c) /\ memb[c].timer = "recip"
  /\ Commit(c, killMember(Ctx(c), "JOINFAIL"))
  /\ UNCHANGED <<stale, nextChan, client, up, adds, apps>>

\* Mutant: asks for ever.
makTimeoutAction_noCount(c) ==
  LET m == memb[c]
  IN  /\ Live(c) /\ m.timer = "mak"
      /\ Commit(c, SendWrap(Ctx(c), FALSE, {}, AutoAck(m), TRUE))
      /\ UNCHANGED <<stale, nextChan, client, up, adds, apps>>

\* An empty wrapper asks the member for an ACK, up to maktries times.
makTimeoutAction(c) ==
  LET m == memb[c]
      asked == [Ctx(c) EXCEPT !.m.maktries = @ - 1]
  IN  /\ Live(c) /\ m.timer = "mak"
      /\ Commit(c, IF m.maktries = 0 THEN killMember(Ctx(c), "MAKTIMEOUT")
                   ELSE SendWrap(asked, FALSE, {}, AutoAck(m), TRUE))
      /\ UNCHANGED <<stale, nextChan, client, up, adds, apps>>

\* The keepalive timer runs from the first wrapper sent to the member.
keepaliveAction(c) ==
  /\ Live(c) /\ memb[c].loc = "MEMBER"
  /\ Len(log[memb[c].lchan]) < MaxWrap
  /\ Commit(c, SendWrap(Ctx(c), FALSE, {}, TRUE, FALSE))
  /\ UNCHANGED <<stale, nextChan, client, up, adds, apps>>

-----------------------------------------------------------------------------
(***************************************************************************)
(* The leader's process may stop for good; the follower's may start again, *)
(* with no sessions and a channel number it has not used before.           *)
(***************************************************************************)
LdrStops ==
  /\ MayCrash /\ up[Ldr]
  /\ up' = [up EXCEPT ![Ldr] = FALSE]
  /\ UNCHANGED <<memb, log, net, open, stale, nextChan, client, told, adds, apps>>

FlwRestarts ==
  /\ MayCrash /\ memb[Flw] # Gone
  /\ memb' = [memb EXCEPT ![Flw] = Gone]
  /\ open' = {} /\ stale' = {}
  /\ told' = [told EXCEPT ![Flw] = {}]
  /\ up' = [up EXCEPT ![Flw] = TRUE]
  /\ UNCHANGED <<log, net, nextChan, client, adds, apps>>

-----------------------------------------------------------------------------
Init ==
  /\ memb = [c \in Comp |-> Gone]
  /\ log = [ch \in Chans |-> <<>>]
  /\ net = {} /\ open = {} /\ stale = {} /\ nextChan = 2
  /\ client \in [Comp -> BOOLEAN]
  /\ told = [c \in Comp |-> {}]
  /\ up = [c \in Comp |-> TRUE]
  /\ adds = 0 /\ apps = 0

Receive(c) ==
  \/ \E msg \in net : \/ rx_join(c, msg) \/ rx_joinAccept(c, msg)
                      \/ rx_joinRefuse(c, msg) \/ rx_leaving(c, msg)
  \/ \E i \in 1 .. MaxWrap : rx_wrapper(c, i)
  \/ LoseSequence(c)

Timeout(c) ==
  \/ joinTimeoutAction(c) \/ recipTimeoutAction(c)
  \/ makTimeoutAction(c) \/ keepaliveAction(c)

App(c) ==
  \/ drop_member(c) \/ sdt_addClient(c) \/ sdt_dropClient(c)
  \/ StaleMemberRead(c)

Next ==
  \/ \E mid \in Mids : addMember(mid)
  \/ \E c \in Comp : Receive(c) \/ Timeout(c) \/ App(c)
  \/ LdrStops \/ FlwRestarts

Spec == Init /\ [][Next]_vars

(***************************************************************************)
(* evl_wait runs every timer that is due; nothing forces a datagram to     *)
(* arrive, so receiving is not fair.                                       *)
(***************************************************************************)
FairSpec ==
  /\ Spec
  /\ \A c \in Comp : /\ WF_vars(joinTimeoutAction(c))
                     /\ WF_vars(recipTimeoutAction(c))
                     /\ WF_vars(makTimeoutAction(c))

-----------------------------------------------------------------------------
Peer(c) == IF c = Ldr THEN Flw ELSE Ldr

\* Every variable has its type, the counters of a member keep to their limits.
TypeOK ==
  /\ memb \in [Comp -> Member]
  /\ log \in [Chans -> Seq(WrapperT)]
  /\ net \subseteq Message
  /\ open \subseteq Chans /\ stale \subseteq Chans
  /\ nextChan \in 2 .. MaxChan + 1
  /\ client \in [Comp -> BOOLEAN] /\ up \in [Comp -> BOOLEAN]
  /\ told \in [Comp -> SUBSET Events]

(***************************************************************************)
(* The two halves of a member (mstate_e rem and loc) advance in step: a    *)
(* side never waits in Join Pending on both, it never believes in the      *)
(* peer's membership before its own, and CX_SDT is set on exactly the      *)
(* sessions joined both ways (sdt.c rx_join, rx_joinAccept, rx_ack,        *)
(* setFullMember).                                                         *)
(***************************************************************************)
HalvesInStep(m) ==
  /\ m.rem \in Joined /\ m.loc \in Joined => m.loc = "MEMBER"
  /\ m.rem = "MEMBER" => m.loc = "MEMBER"
  /\ m.loc # "NULL" <=> m.rchan # 0
  /\ "SDT" \in m.connect <=> m.rem = "MEMBER"

HandshakeOrder == \A c \in Comp : HalvesInStep(memb[c])

(***************************************************************************)
(* A member in whatever state has the timer that ends it if the peer goes  *)
(* silent, so none can be left behind (rem.stateTimer in addMember,        *)
(* rx_join, rx_joinAccept, rx_ack).                                        *)
(***************************************************************************)
Timed(m) ==
  /\ m.timer = "join"  <=> m.rem = "JOINRQ"
  /\ m.timer = "recip" <=> m.rem = "JOINPEND"
  /\ m.timer = "mak"   <=> m.rem = "MEMBER"
  /\ m # Gone => m.timer # "off"

NeverUntimed == \A c \in Comp : Timed(memb[c])

(***************************************************************************)
(* When both ends hold the session to be up they mean the same one: each   *)
(* is joined to the channel that the other owns, whatever Joins, Join      *)
(* Accepts and ACKs of an earlier attempt come late or twice (rx_join,     *)
(* rx_joinAccept, rx_ack).  One earlier attempt: messages of two are       *)
(* enough to put the ends on different channels.  That the leader's MID is *)
(* the one the follower knows is not said: a Join of the first attempt and *)
(* an Accept of the second can make a session between them.                *)
(***************************************************************************)
PeersAgree ==
  adds <= 2 /\ (\A c \in Comp : "SDT" \in memb[c].connect) =>
    /\ \A c \in Comp : memb[c].rchan = memb[Peer(c)].lchan
    /\ memb[Ldr].rmid = memb[Flw].mid

\* The follower has a reciprocal channel open for its member and no other:
\* every way a member ends closes the channel (killMember, closeChannel).
RecipChannelOwned ==
  open = IF memb[Flw] = Gone THEN {} ELSE {memb[Flw].lchan}

(***************************************************************************)
(* Once both ends have taken every wrapper of the other, an end that has   *)
(* its client protocol connected (CX_CLIENTLOC, it received a Connect      *)
(* Accept) faces one that has accepted it (CX_CLIENTREM), and conversely.  *)
(* The applications only add client handlers here.                         *)
(***************************************************************************)
Drained ==
  \A c \in Comp : LET m == memb[c]
                 IN  /\ up[c] /\ "SDT" \in m.connect
                     /\ Len(log[m.rchan]) < MaxWrap /\ m.pos = Len(log[m.rchan])

ClientAgree ==
  Drained => \A c \in Comp : "CLIENTLOC" \in memb[c].connect
                               <=> "CLIENTREM" \in memb[Peer(c)].connect

(***************************************************************************)
(* Liveness.  A join is decided.  A member whose peer has no such session  *)
(* (it has left, refused, restarted, or joined another time) is dropped.   *)
(***************************************************************************)
JoinDecided == \A c \in Comp : Live(c) /\ memb[c].rem \in Pending
                 ~> ~ Live(c) \/ memb[c].rem = "MEMBER"

Partnered(c) ==
  Live(Peer(c)) /\ memb[c].rchan \in {0, memb[Peer(c)].lchan}

OrphanDropped == \A c \in Comp : Live(c) /\ ~ Partnered(c)
                   ~> ~ Live(c) \/ Partnered(c)

-----------------------------------------------------------------------------
(***************************************************************************)
(* What comments and documentation say, and the code does not do.          *)
(***************************************************************************)

\* sdt.c:1860 "On failure we need to be careful to de-allocate only what we
\* have just allocated": a Join that is refused takes nothing else down.
RefusalIsHarmless == up = [c \in Comp |-> TRUE]

\* sdt.h:653 "On success a EV_JOINSUCCESS message is passed ... On failure
\* EV_JOINFAIL will be sent": one of the two, not both for one addMember.
OneVerdict == ~ {"JOINSUCCESS", "JOINFAIL"} \subseteq told[Ldr]

\* sdt.c:2492 "Note ACK may arrive before Join Accept": the ACK completes the
\* join of a member that has sent its own.
Acked(c) ==
  /\ memb'[c].pos > memb[c].pos /\ memb'[c].rchan = memb[c].rchan
  /\ LET w == log[memb[c].rchan][memb'[c].pos] IN w.ack /\ w.mid = memb[c].rmid

EarlyAckCounts ==
  [][\A c \in Comp : memb[c].loc \in Joined /\ Acked(c)
                       => memb'[c].rem = "MEMBER"]_vars
=============================================================================
