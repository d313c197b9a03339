------------------------------ MODULE RlpSockets ------------------------------
(***************************************************************************)
(* The sockets of the root layer (csrc/rlp_bsd.c): rlpSubscribe gives each *)
(* port one socket that all its subscribers share, with a handler for each *)
(* client protocol and, beside its own, dummy sockets where the stack      *)
(* allows no more groups to one.  System calls fail.                       *)
(*                                                                         *)
(* `open' and `polled' are the kernel's: the file descriptors that are     *)
(* open with the groups each has joined, and those registered with epoll.  *)
(* File descriptors and memory are used again.  `subs' is the clients' own *)
(* account of what they subscribed and did not give back; equal            *)
(* subscriptions differ in their number n.                                 *)
(***************************************************************************)
EXTENDS Integers, Sequences, SequencesExt, FiniteSetsExt, TLC

CONSTANTS
  Multi,      \* CF_RLP_MAX_CLIENT_PROTOCOLS > 1
  Protocols,  \* the client protocols, one handler of a socket for each
  Callbacks,  \* what clients pass as callback and ref
  Groups,     \* multicast addresses
  MaxGroups,  \* IP_MAX_MEMBERSHIPS
  Failing,    \* the calls that may fail: "newSkt", "evl_register", "addMembership"
  SpareMain,  \* no membership fails on the main socket of a port in use
  MaxFd,      \* bound: descriptors in use
  MaxSubs     \* bound: subscriptions held

None == 0  \* no group, no protocol, no data

ASSUME RlpAssumption ==
  /\ Multi \in BOOLEAN /\ SpareMain \in BOOLEAN /\ IsFiniteSet(Protocols)
  /\ Cardinality(Protocols) \in IF Multi THEN Nat \ {0} ELSE {1}
  /\ None \notin Protocols \cup Groups
  /\ MaxGroups \in Nat \ {0} /\ MaxFd \in Nat /\ MaxSubs \in Nat

VARIABLES
  rlpsocks,  \* the list of struct rlpsocket_s, by port
  open,      \* open[fd]: the groups descriptor fd has joined
  polled,    \* descriptors registered with epoll
  subs,      \* the subscriptions held
  failed     \* assert(rs->groups == NULL) failed

rlpvars == <<rlpsocks, open, polled, subs, failed>>

Fds   == 1 .. MaxFd
EPHEM == 0       \* netx_PORT_EPHEM
MCAST == MaxFd + 1  \* SDT_MULTICAST_PORT; the stack picks others that are free
ANY   == None

Slots   == 1 .. Cardinality(Protocols)
Unused  == [protocol |-> None, func |-> None, nsubs |-> 0]
Blank   == [i \in 1 .. MaxGroups |-> None]

Free(S, used) == Min(S \ used)
entered(fn, x, v) == [y \in DOMAIN fn \cup {x} |-> IF y = x THEN v ELSE fn[y]]
close(op, fd) == [f \in DOMAIN op \ {fd} |-> op[f]]

RlpInit ==
  /\ rlpsocks = <<>> /\ open = <<>> /\ polled = {}
  /\ subs = {} /\ failed = FALSE

-----------------------------------------------------------------------------
(***************************************************************************)
(* Groups.  A struct skgroups_s is a socket with the groups it joined and  *)
(* how often each is subscribed; ngp is the number of entries in use.      *)
(***************************************************************************)
Used(sgp) == {i \in 1 .. MaxGroups : sgp.mad[i] # None}

findgroup(gs, g)  == {j \in DOMAIN gs : \E i \in Used(gs[j]) : gs[j].mad[i] = g}
findblankgp(gs)   == {j \in DOMAIN gs : Used(gs[j]) # 1 .. MaxGroups}
Entry(sgp, g)     == Min({i \in 1 .. MaxGroups : sgp.mad[i] = g})

\* A new struct skgroups_s: the first has the main socket, others a dummy.
newDummy(sk, gs, op) == IF gs = <<>> THEN sk ELSE Free(Fds, DOMAIN op)

\* What addgroup leaves of the groups gs of the socket with descriptor sk.
addgroup(sk, gs, op, g, fail) ==
  LET dummy == gs # <<>>
      fd    == newDummy(sk, gs, op)
      op2   == IF dummy THEN entered(op, fd, {}) ELSE op
      refused(f, o) == "addMembership" \in fail \/ f \notin DOMAIN o
      same  == [ok |-> FALSE, groups |-> gs, open |-> op]
  IN  CASE findgroup(gs, g) # {} ->
             LET j == Min(findgroup(gs, g))
             IN  [ok |-> TRUE, open |-> op,
                  groups |-> [gs EXCEPT ![j].nm[Entry(gs[j], g)] = @ + 1]]
        [] findgroup(gs, g) = {} /\ findblankgp(gs) # {} ->
             LET j == Min(findblankgp(gs))
                 i == Entry(gs[j], None)
             IN  IF refused(gs[j].sk, op) THEN same
                 ELSE [ok |-> TRUE, open |-> [op EXCEPT ![gs[j].sk] = @ \cup {g}],
                       groups |-> [gs EXCEPT ![j].mad[i] = g, ![j].nm[i] = 1]]
        [] OTHER ->
             IF dummy /\ "newSkt" \in fail THEN same
             ELSE IF refused(fd, op2) THEN [same EXCEPT !.open = close(op2, fd)]
             ELSE [ok |-> TRUE, open |-> [op2 EXCEPT ![fd] = @ \cup {g}],
                   groups |-> <<[sk |-> fd, mad |-> [Blank EXCEPT ![1] = g],
                                 nm |-> [i \in 1 .. MaxGroups |-> IF i = 1 THEN 1 ELSE 0]]>>
                              \o gs]

\* Mutant: the struct of the last group is unlinked, its dummy socket not closed.
dropgroup_open(sk, gs, op, g) ==
  LET j    == Min(findgroup(gs, g))
      i    == Entry(gs[j], g)
      left == [gs[j] EXCEPT !.nm[i] = @ - 1, !.mad[i] = IF gs[j].nm[i] = 1 THEN None ELSE @]
  IN  [open |-> op,
       groups |-> IF Used(left) = {} THEN RemoveAt(gs, j) ELSE [gs EXCEPT ![j] = left]]

dropgroup(sk, gs, op, g) ==
  LET j    == Min(findgroup(gs, g))
      i    == Entry(gs[j], g)
      fd   == gs[j].sk
      last == gs[j].nm[i] = 1
      left == [gs[j] EXCEPT !.nm[i] = @ - 1, !.mad[i] = IF last THEN None ELSE @]
      op2  == IF last /\ fd \in DOMAIN op THEN [op EXCEPT ![fd] = @ \ {g}] ELSE op
  IN  IF Used(left) = {}
      THEN [groups |-> RemoveAt(gs, j), open |-> IF fd = sk THEN op2 ELSE close(op2, fd)]
      ELSE [groups |-> [gs EXCEPT ![j] = left], open |-> op2]

-----------------------------------------------------------------------------
(***************************************************************************)
(* rlpSubscribe.                                                           *)
(***************************************************************************)
findrlsk(port) == {port} \cap DOMAIN rlpsocks

\* The slots a subscription may use: that of its protocol, else the last unused.
\* Built for one protocol there is one, which must have the same callback.
HandlerFor(hs, prot, cb) ==
  LET same   == {p \in Slots : hs[p].protocol = prot}
      unused == {p \in Slots : hs[p].protocol = None}
  IN  IF same # {} THEN {p \in same : hs[p].func = cb}
      ELSE IF unused = {} THEN {} ELSE {Max(unused)}

Counted(h, prot, cb) ==
  IF Multi /\ h.protocol # None THEN [h EXCEPT !.nsubs = @ + 1]
  ELSE [protocol |-> prot, func |-> cb, nsubs |-> 1]

Hold(a, g, prot, cb) ==
  LET new(n) == [rs |-> a, group |-> g, protocol |-> prot, func |-> cb, n |-> n]
  IN  \E n \in 1 .. MaxSubs :
        /\ new(n) \notin subs /\ (n = 1 \/ new(n - 1) \in subs)
        /\ subs' = subs \cup {new(n)}

NewSocket(port, g, prot, cb, fail) ==
  LET a    == IF port = EPHEM THEN Free(Fds, DOMAIN rlpsocks) ELSE port
      fd   == Free(Fds, DOMAIN open)
      add  == addgroup(fd, <<>>, entered(open, fd, {}), g, fail)
      none == [ok |-> TRUE, groups |-> <<>>, open |-> entered(open, fd, {})]
      r    == IF g = ANY THEN none ELSE add
      ok   == "newSkt" \notin fail /\ "evl_register" \notin fail /\ r.ok
  IN  /\ port = EPHEM \/ findrlsk(port) = {}
      /\ IF ~ok THEN UNCHANGED <<rlpsocks, open, polled, subs>>
         ELSE /\ rlpsocks' = entered(rlpsocks, a,
                        [sk |-> fd, groups |-> r.groups,
                          handlers |-> [p \in Slots |->
                             IF p = 1 THEN Counted(Unused, prot, cb) ELSE Unused]])
              /\ open' = r.open /\ polled' = polled \cup {fd}
              /\ Hold(a, g, prot, cb)
      /\ UNCHANGED failed

SharedSocket(port, g, prot, cb, fail) ==
  /\ port # EPHEM
  /\ \E a \in findrlsk(port) :
       LET rs == rlpsocks[a]
           ps == HandlerFor(rs.handlers, prot, cb)
           p  == Min(ps)
           r  == IF g = ANY THEN [ok |-> TRUE, groups |-> rs.groups, open |-> open]
                 ELSE addgroup(rs.sk, rs.groups, open, g, fail)
       IN  /\ SpareMain /\ rs.groups = <<>> => "addMembership" \notin fail
           /\ open' = IF ps = {} THEN open ELSE r.open
           /\ polled' = polled \cap DOMAIN open'
           /\ IF ps = {} \/ ~r.ok THEN UNCHANGED <<rlpsocks, subs>>
              ELSE /\ rlpsocks' = [rlpsocks EXCEPT ![a].groups = r.groups,
                                     ![a].handlers[p] = Counted(@, prot, cb)]
                   /\ Hold(a, g, prot, cb)
  /\ UNCHANGED failed

rlpSubscribe(port, g, prot, cb) ==
  /\ Cardinality(subs) < MaxSubs
  /\ Fds \ DOMAIN open # {} /\ Fds \ DOMAIN rlpsocks # {}
  /\ port = EPHEM => g = ANY   \* EINVAL otherwise
  /\ \E fail \in {{}} \cup {{f} : f \in Failing} :
       NewSocket(port, g, prot, cb, fail) \/ SharedSocket(port, g, prot, cb, fail)

-----------------------------------------------------------------------------
\* Mutant: the socket is freed with its first handler.
LastOne_first(hs) == \E p \in Slots : hs[p].nsubs = 0

LastOne(hs) == \A p \in Slots : hs[p].nsubs = 0

\* A client gives back what it subscribed.
rlpUnsubscribe(s) ==
  /\ [s EXCEPT !.n = @ + 1] \notin subs /\ s.rs \in DOMAIN rlpsocks
  /\ LET rs   == rlpsocks[s.rs]
         p    == Min({q \in Slots : rs.handlers[q].protocol = s.protocol})
         r    == IF s.group = ANY THEN [groups |-> rs.groups, open |-> open]
                 ELSE dropgroup(rs.sk, rs.groups, open, s.group)
         left == rs.handlers[p].nsubs - 1
         hs   == [rs.handlers EXCEPT ![p] = IF left = 0 /\ Multi THEN Unused
                                            ELSE [@ EXCEPT !.nsubs = left]]
     IN  IF left = 0 /\ LastOne(hs)
         THEN /\ failed' = (failed \/ r.groups # <<>>)
              /\ rlpsocks' = [a \in DOMAIN rlpsocks \ {s.rs} |-> rlpsocks[a]]
              /\ polled' = polled \ {rs.sk}
              /\ open' = close(r.open, rs.sk)
         ELSE /\ rlpsocks' = [rlpsocks EXCEPT ![s.rs].groups = r.groups,
                                              ![s.rs].handlers = hs]
              /\ open' = r.open
              /\ UNCHANGED <<polled, failed>>
  /\ subs' = subs \ {s}

-----------------------------------------------------------------------------
(***************************************************************************)
(* Reception.  A PDU has a vector, a header (the source's CID) and data of *)
(* its own or, without the flag, those of the PDU before.  The first has   *)
(* all; a bad one ends the packet.                                         *)
(***************************************************************************)
Pdu(v, header, data, bad) == [vector |-> v, header |-> header, data |-> data, bad |-> bad]
First   == {Pdu(v, TRUE, TRUE, FALSE) : v \in Protocols}
Pdus    == {Pdu(v, h, d, FALSE) : v \in Protocols \cup {None}, h, d \in BOOLEAN}
           \cup {Pdu(None, FALSE, FALSE, TRUE)}
Packets == {<<f>> \o s : f \in First, s \in SeqOf(Pdus, 2)}

\* Mutant: the source is forgotten with each vector that is sent.
Inherit_newVector(last, pdu, i) ==
  [vector |-> IF pdu.vector = None THEN last.vector ELSE pdu.vector,
   srcCID |-> IF pdu.header THEN i ELSE IF pdu.vector = None THEN last.srcCID ELSE 0,
   data   |-> IF pdu.data THEN i ELSE last.data]

\* The vector, and source and data by the number of their PDU, after the i-th PDU.
Inherit(last, pdu, i) ==
  [vector |-> IF pdu.vector = None THEN last.vector ELSE pdu.vector,
   srcCID |-> IF pdu.header THEN i ELSE last.srcCID,
   data   |-> IF pdu.data THEN i ELSE last.data]

\* The calls rlp_packetRx makes: which handler is shown what.  Built for one protocol
\* the first ends the loop.
rlp_packetRx(hs, pdus) ==
  LET step(acc, i) ==
        LET now == Inherit(acc.last, pdus[i], i)
            ps  == {p \in Slots : hs[p].protocol = now.vector}
        IN  IF acc.over \/ pdus[i].bad THEN [acc EXCEPT !.over = TRUE]
            ELSE IF ps = {} THEN [acc EXCEPT !.last = now]
            ELSE [last |-> now, over |-> ~Multi,
                  calls |-> Append(acc.calls, [handler |-> hs[Min(ps)], srcCID |-> now.srcCID,
                                               data |-> now.data])]
  IN  FoldLeftDomain(step, [last |-> [vector |-> None, srcCID |-> 0, data |-> 0], over |-> FALSE,
                      calls |-> <<>>], pdus).calls

RlpNext ==
  \/ \E port \in {EPHEM, MCAST} \cup DOMAIN rlpsocks,
        g \in Groups \cup {ANY}, prot \in Protocols, cb \in Callbacks :
       rlpSubscribe(port, g, prot, cb)
  \/ \E s \in subs : rlpUnsubscribe(s)

Symmetry == Permutations(Groups) \cup Permutations(Protocols) \cup Permutations(Callbacks)

RlpSpec == RlpInit /\ [][RlpNext]_rlpvars

-----------------------------------------------------------------------------
Held(a) == {s \in subs : s.rs = a}
Descriptors(rs) == {rs.sk} \cup {rs.groups[j].sk : j \in DOMAIN rs.groups}

\* Whoever subscribed is served until it unsubscribes, whatever others subscribe, give
\* back or fail to get on the same port: its socket is open and polled, its callback in
\* place, and a descriptor of the socket has joined its group.
Served ==
  \A s \in subs :
    /\ s.rs \in DOMAIN rlpsocks
    /\ LET rs == rlpsocks[s.rs]
       IN  /\ rs.sk \in DOMAIN open \cap polled
           /\ \E p \in Slots : rs.handlers[p].protocol = s.protocol /\ rs.handlers[p].func = s.func
           /\ s.group # ANY => \E fd \in Descriptors(rs) \cap DOMAIN open : s.group \in open[fd]

\* And nothing is kept that nobody subscribed: a socket is there while a handler counts
\* a subscription of it, a group is joined while its count is that of its subscribers,
\* and a descriptor is open while a socket or its groups use it, no two of them the same.
NothingKept ==
  /\ ~failed
  /\ DOMAIN rlpsocks = {s.rs : s \in subs}
  /\ \A a \in DOMAIN rlpsocks : \A p \in Slots :
       LET h == rlpsocks[a].handlers[p]
       IN  h.nsubs = Cardinality({s \in Held(a) : s.protocol = h.protocol})
  /\ \A a \in DOMAIN rlpsocks : \A j \in DOMAIN rlpsocks[a].groups :
       LET sgp == rlpsocks[a].groups[j]
       IN  /\ sgp.sk \in DOMAIN open
           /\ open[sgp.sk] = {sgp.mad[i] : i \in Used(sgp)} /\ Used(sgp) # {}
           /\ \A i \in Used(sgp) :
                sgp.nm[i] = Cardinality({s \in Held(a) : s.group = sgp.mad[i]})
  /\ DOMAIN open = UNION {Descriptors(rlpsocks[a]) : a \in DOMAIN rlpsocks}
  /\ \A a, b \in DOMAIN rlpsocks :
       a # b => Descriptors(rlpsocks[a]) \cap Descriptors(rlpsocks[b]) = {}

\* A packet of several PDUs is received as each PDU says (rlp_bsd.c: "we still correctly
\* receive them"): those before a bad one whose protocol has a handler are passed to it,
\* in order, with the source and data they leave out taken from the last PDU that had
\* them, whatever the PDUs between were for.
Meant(hs, pdus) ==
  LET bad    == {i \in DOMAIN pdus : pdus[i].bad}
      good   == IF bad = {} THEN DOMAIN pdus ELSE 1 .. Min(bad) - 1
      vec(i) == pdus[Max({j \in 1 .. i : pdus[j].vector # None})].vector
      to(i)  == {p \in Slots : hs[p].protocol = vec(i)}
      read   == SelectSeq([i \in good |-> i], LAMBDA i : to(i) # {})
  IN  [k \in DOMAIN read |->
         [handler |-> hs[Min(to(read[k]))],
          srcCID  |-> Max({j \in 1 .. read[k] : pdus[j].header}),
          data    |-> Max({j \in 1 .. read[k] : pdus[j].data})]]

\* Two subscriptions of one socket make every set of handlers there is.
PackedReceived ==
  Cardinality(subs) = 2 /\ Cardinality(DOMAIN rlpsocks) = 1 =>
    \A a \in DOMAIN rlpsocks, pdus \in Packets :
      rlp_packetRx(rlpsocks[a].handlers, pdus) = Meant(rlpsocks[a].handlers, pdus)
===============================================================================
