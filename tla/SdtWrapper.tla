----------------------------- MODULE SdtWrapper -----------------------------
(***************************************************************************)
(* One wrapper handle of csrc/sdt.c (a struct txwrap_s * that a caller     *)
(* keeps between calls) and the packets it is made into.  A PDU leaves out *)
(* the member id, the protocol and association, or the data, when they are *)
(* those of the PDU before it; what the receivers make of the packet is    *)
(* Unpack.  Lengths are in bytes.  Sequence numbers, MAKs and the choice   *)
(* of the members to acknowledge are those of SdtOwner and SdtMembers.     *)
(*                                                                         *)
(* rptProtoMsg with a full wrapper starts one that has no channel, and     *)
(* with WRAP_NOAUTOFLUSH it may spoil prevmid: RptFull and RptNoFlush say  *)
(* whether its callers run into either.                                    *)
(***************************************************************************)
EXTENDS Naturals, Integers, Sequences, FiniteSets

CONSTANTS
  Members,      \* [ch : our channel, mid : in it, back : number of the member's channel]
  Protos,       \* protocol ids
  Bodies,       \* message data, [body : ., len : bytes]
  Flags,        \* the wflags callers use: subsets of AllFlags
  Room,         \* MAX_MTU - SDTW_AOFS_CB
  MaxPackets,   \* bound on the packets sent
  MaxHeld,      \* bound on the PDUs of a wrapper
  RptFull, RptNoFlush,
  NoChan, Same  \* NULL, and a field that is left out

OFS_VECTOR        == 2                  \* length and flags of a PDU
LEN_CB_VECTOR     == 2
LEN_CB_HEADER     == 6
OFS_CB_PDU1DATA   == OFS_VECTOR + LEN_CB_VECTOR + LEN_CB_HEADER
LEN_ACKEXTRA      == OFS_CB_PDU1DATA + 3 + 4

AllFlags == {"on", "off", "reply", "all", "noack", "noflush"}
WHOLE_WRAP_FLAGS == {"on", "off", "noack"}
Chans == {m.ch : m \in Members}
ALL_MEMBERS == 65535

WRAP_REL_ERR(f) == {"on", "off"} \subseteq f

ASSUME WrapperAssumption ==
  /\ \A m \in Members : m = [ch |-> m.ch, mid |-> m.mid, back |-> m.back]
                        /\ m.mid \in 1 .. ALL_MEMBERS - 1 /\ m.back \in Nat \ {0}
  /\ \A d \in Bodies : d = [body |-> d.body, len |-> d.len] /\ d.len \in Nat
  /\ \A f \in Flags : f \subseteq AllFlags /\ ~ WRAP_REL_ERR(f)
                      /\ ~ {"reply", "all"} \subseteq f
  /\ IsFiniteSet(Members)
  /\ Room \in Nat /\ MaxPackets \in Nat /\ MaxHeld \in Nat
  /\ RptFull \in BOOLEAN /\ RptNoFlush \in BOOLEAN
  /\ NoChan \notin Chans
  /\ \A m \in Members : Same # m.mid
  /\ Same # ALL_MEMBERS /\ Same \notin (Protos \cup {"SDT"}) \X Nat
  /\ Same \notin Bodies /\ Same # [body |-> "ACK", len |-> 7]

VARIABLES
  held,      \* the handle is not NULL
  chan,      \* st.open.Lchan
  pdus,      \* the PDUs complete in it
  left,      \* bytes after endp
  prev,      \* prevmid, <<prevproto, prevassoc>> and prevdata
  pflags,    \* prevflags
  open,      \* what startProtoMsg has begun
  call,      \* the last message offered, what it asks, and was it accepted
  packet, packets   \* the last packet on the network, and their number

wvars == <<held, chan, pdus, left, prev, pflags, open>>
vars  == <<held, chan, pdus, left, prev, pflags, open, call, packet, packets>>

-----------------------------------------------------------------------------
\* The receivers: a field that is left out has the value it had last.
Carried(ps, i, field) ==
  ps[CHOOSE j \in 1 .. i : /\ ps[j][field] # Same
                           /\ \A k \in j + 1 .. i : ps[k][field] = Same][field]

Unpack(ps) ==
  [i \in 1 .. Len(ps) |-> [mid  |-> Carried(ps, i, "mid"), hdr |-> Carried(ps, i, "hdr"),
                           data |-> Carried(ps, i, "data")]]

\* An ACK PDU of _flushWrapper has all its fields, one of justACK too.
AckPDU(m) == [mid |-> m.mid, hdr |-> <<"SDT", m.back>>, data |-> [body |-> "ACK", len |-> 7]]
On(c) == {m \in Members : m.ch = c}
AckMsgs(c) == {AckPDU(m) : m \in On(c)}
AckRuns(c, n) == {[i \in 1 .. n |-> AckPDU(q[i])] :
                    q \in {q \in [1 .. n -> On(c)] :
                             \A i, j \in 1 .. n : q[i] = q[j] => i = j}}

None == [mid |-> Same, hdr |-> Same, data |-> Same]

\* Whom a message is for, and its association.
Address(m, proto, f) ==
  IF "all" \in f THEN [mid |-> ALL_MEMBERS, hdr |-> <<proto, 0>>]
  ELSE [mid |-> m.mid, hdr |-> <<proto, IF "reply" \in f THEN m.back ELSE 0>>]

Message(a, data) == [mid |-> a.mid, hdr |-> a.hdr, data |-> data]

\* The header left out when the protocol is the same, whatever the association.
Packed_anyAssoc(msg) ==
  [mid  |-> IF msg.mid = prev.mid THEN Same ELSE msg.mid,
   hdr  |-> IF prev # None /\ msg.hdr[1] = prev.hdr[1] THEN Same ELSE msg.hdr,
   data |-> msg.data]

\* The PDU a message needs after the PDU before it, and its bytes.
Packed(msg) == [mid  |-> IF msg.mid = prev.mid THEN Same ELSE msg.mid,
                hdr  |-> IF msg.hdr = prev.hdr THEN Same ELSE msg.hdr,
                data |-> msg.data]

Bytes(p) == OFS_VECTOR + (IF p.mid = Same THEN 0 ELSE LEN_CB_VECTOR)
            + (IF p.hdr = Same THEN 0 ELSE LEN_CB_HEADER)
            + (IF p.data = Same THEN 0 ELSE p.data.len)

-----------------------------------------------------------------------------
\* _flushWrapper: as many ACKs as there is room and there are members for.
Room4Acks(c) == IF left \div LEN_ACKEXTRA < Cardinality(On(c))
                THEN left \div LEN_ACKEXTRA ELSE Cardinality(On(c))

Transmit(c, ps, f, acks) ==
  /\ packets < MaxPackets /\ packets' = packets + 1
  /\ packet' = [chan |-> c, msgs |-> Unpack(ps \o acks), reliable |-> "on" \in f]

_flushWrapper ==
  /\ chan # NoChan
  /\ \E acks \in AckRuns(chan, IF "noack" \in pflags THEN 0 ELSE Room4Acks(chan)) :
       Transmit(chan, pdus, pflags, acks)

Offered(msg, f) == call' = [msg |-> msg, kind |-> f \cap WHOLE_WRAP_FLAGS, ok |-> TRUE]
Refused == call' = [call EXCEPT !.ok = FALSE]

\* May the message go with those in the wrapper?
Matches(m, f) == ~ WRAP_REL_ERR(f \cup pflags) /\ chan \in {NoChan, m.ch}

\* Begin a wrapper with a whole message.
NewWith(c, msg, f, size) ==
  /\ held' = TRUE /\ chan' = c /\ open' = Same
  /\ pdus' = <<msg>> /\ prev' = msg /\ pflags' = f \cap WHOLE_WRAP_FLAGS
  /\ left' = size - Bytes(msg)

Append1(c, p, msg, f) ==
  /\ pdus' = Append(pdus, p) /\ prev' = msg /\ left' = left - Bytes(p)
  /\ pflags' = pflags \cup (f \cap WHOLE_WRAP_FLAGS)
  /\ chan' = c /\ open' = Same /\ held' = held

addProtoMsg(m, proto, f, d) ==
  LET msg  == Message(Address(m, proto, f), d)
      fits == held /\ Matches(m, f) /\ Bytes(Packed(msg)) <= left
  IN  /\ open = Same /\ Len(pdus) < MaxHeld
      /\ \/ /\ d.len > Room - OFS_CB_PDU1DATA
            /\ Refused /\ UNCHANGED <<wvars, packet, packets>>
         \/ /\ d.len <= Room - OFS_CB_PDU1DATA /\ fits
            /\ Append1(m.ch, Packed(msg), msg, f)
            /\ Offered(msg, f) /\ UNCHANGED <<packet, packets>>
         \/ /\ d.len <= Room - OFS_CB_PDU1DATA /\ ~ fits /\ held /\ "noflush" \in f
            /\ Refused /\ UNCHANGED <<wvars, packet, packets>>
         \/ /\ d.len <= Room - OFS_CB_PDU1DATA /\ ~ fits /\ ~ (held /\ "noflush" \in f)
            /\ IF held THEN _flushWrapper ELSE UNCHANGED <<packet, packets>>
            /\ NewWith(m.ch, msg, f, Room) /\ Offered(msg, f)

\* startProtoMsg puts the fields of the PDU after endp, endProtoMsg takes them
\* for good once the data is there.  A wrapper begun for a message of `size'
\* bytes has OFS_CB_PDU1DATA bytes more than it needs.  The caller is told of
\* all the room there is in a new wrapper, and of what `size' leaves in one that
\* has messages.
FitsOpen(msg, size) == Bytes([Packed(msg) EXCEPT !.data = Same]) + size <= left

startProtoMsg(m, proto, f, size) ==
  LET a    == Address(m, proto, f)
      msg  == Message(a, Same)
      need == size + 2 * OFS_CB_PDU1DATA
      fits == held /\ Matches(m, f) /\ FitsOpen(msg, size)
      Begun(p, room, told) == [p |-> p, msg |-> msg, f |-> f, room |-> room, told |-> told]
      rest == left - Bytes(Packed(msg))
  IN  /\ open = Same /\ Len(pdus) < MaxHeld
      /\ \/ /\ fits /\ chan' = m.ch
            /\ open' = Begun(Packed(msg), rest, rest - size)
            /\ UNCHANGED <<held, pdus, left, prev, pflags, call, packet, packets>>
         \/ /\ ~ fits /\ held /\ "noflush" \in f
            /\ Refused /\ UNCHANGED <<wvars, packet, packets>>
         \/ /\ ~ fits /\ ~ (held /\ "noflush" \in f)
            /\ IF held THEN _flushWrapper ELSE UNCHANGED <<packet, packets>>
            /\ pdus' = <<>> /\ pflags' = {} /\ prev' = None /\ UNCHANGED call
            /\ IF need <= Room
               THEN /\ held' = TRUE /\ chan' = m.ch /\ left' = need
                    /\ open' = Begun(msg, need - Bytes(msg), need - Bytes(msg))
               ELSE held' = FALSE /\ chan' = NoChan /\ left' = 0 /\ open' = Same

endProtoMsg(d) ==
  /\ open # Same /\ d.len <= open.room
  /\ Append1(chan, [open.p EXCEPT !.data = d],
             [mid  |-> IF open.p.mid = Same THEN prev.mid ELSE open.p.mid,
              hdr  |-> IF open.p.hdr = Same THEN prev.hdr ELSE open.p.hdr,
              data |-> d], open.f)
  /\ Offered([open.msg EXCEPT !.data = d], open.f)
  /\ UNCHANGED <<packet, packets>>

\* The caller gives up what it had begun (dmp_abortblock).
abandon ==
  /\ open # Same /\ open' = Same
  /\ UNCHANGED <<held, chan, pdus, left, prev, pflags, call, packet, packets>>

\* The message repeated is the last one accepted; the protocol stays.
rptProtoMsg(m, f) ==
  LET a    == Address(m, prev.hdr[1], f)
      want == [Address(m, call.msg.hdr[1], f) EXCEPT !.mid = a.mid]
      msg  == Message(want, call.msg.data)
      p    == [Packed(Message(a, Same)) EXCEPT !.data = Same]
      ok   == held /\ pdus # <<>> /\ ~ WRAP_REL_ERR(f \cup pflags) /\ chan = m.ch
  IN  /\ open = Same /\ Len(pdus) < MaxHeld
      /\ \/ ~ ok /\ Refused /\ UNCHANGED <<wvars, packet, packets>>
         \/ /\ ok /\ Bytes(p) <= left
            /\ Append1(chan, p, Message(a, prev.data), f) /\ Offered(msg, f)
            /\ UNCHANGED <<packet, packets>>
         \/ /\ ok /\ Bytes(p) > left /\ "noflush" \in f /\ RptNoFlush
            /\ prev' = [prev EXCEPT !.mid =
                          IF left >= OFS_VECTOR + LEN_CB_VECTOR THEN a.mid ELSE @]
            /\ Refused
            /\ UNCHANGED <<held, chan, pdus, left, pflags, open, packet, packets>>
         \/ /\ ok /\ Bytes(p) > left /\ "noflush" \notin f /\ RptFull
            /\ _flushWrapper
            /\ NewWith(NoChan, Message(a, prev.data), f, Room) /\ Offered(msg, f)

flushWrapper ==
  /\ held /\ _flushWrapper
  /\ held' = FALSE /\ chan' = NoChan /\ pdus' = <<>> /\ left' = 0 /\ prev' = None
  /\ pflags' = {} /\ open' = Same /\ UNCHANGED call

\* Wrappers that SDT makes for itself: of one ACK, or with room for none.
justACK(m) == Transmit(m.ch, <<AckPDU(m)>>, {}, <<>>) /\ UNCHANGED <<wvars, call>>

emptyWrapper(c) == Transmit(c, <<>>, {}, <<>>) /\ UNCHANGED <<wvars, call>>

-----------------------------------------------------------------------------
Init ==
  /\ held = FALSE /\ chan = NoChan /\ pdus = <<>> /\ left = 0 /\ prev = None
  /\ pflags = {} /\ open = Same
  /\ call = [msg |-> None, kind |-> {}, ok |-> TRUE]
  /\ packet = [chan |-> NoChan, msgs |-> <<>>, reliable |-> FALSE] /\ packets = 0

Next ==
  \/ \E m \in Members, f \in Flags :
       \/ \E p \in Protos, d \in Bodies : addProtoMsg(m, p, f, d) \/ startProtoMsg(m, p, f, d.len)
       \/ rptProtoMsg(m, f)
  \/ \E d \in Bodies : endProtoMsg(d)
  \/ abandon \/ flushWrapper
  \/ \E m \in Members : justACK(m)
  \/ \E c \in Chans : emptyWrapper(c)

Spec == Init /\ [][Next]_vars

-----------------------------------------------------------------------------
(***************************************************************************)
(* Every message that was accepted reaches those it was offered for, whole *)
(* and in its place, whatever was left out of the PDUs; a refused one      *)
(* changes nothing; reliable and unreliable are not mixed                  *)
(* (addProtoMsg, rptProtoMsg, startProtoMsg, pendingRxWrap).               *)
(***************************************************************************)
Mail == INSTANCE SdtMailbox WITH chan <- chan, pending <- Unpack(pdus), kind <- pflags,
          call <- call, packet <- packet, packets <- packets,
          Chans <- Chans, AckMsgs <- AckMsgs

SameMail == Mail!Spec

(***************************************************************************)
(* A wrapper that holds messages knows the channel it will be sent on,     *)
(* which _flushWrapper takes for granted (rptProtoMsg, _flushWrapper).     *)
(***************************************************************************)
ChannelKnown == pdus # <<>> => chan # NoChan
=============================================================================
