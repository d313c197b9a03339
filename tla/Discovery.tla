------------------------------ MODULE Discovery ------------------------------
(***************************************************************************)
(* Discovery (csrc/discovery.c) and the components it finds (component.h). *)
(*                                                                         *)
(* A local component is advertised by the SLP service agent and refreshed  *)
(* at half its lifetime.  Remote components are structures in Rcomponents, *)
(* a set of UUIDs (UuidSet): discover() adds those it finds, the rx_join   *)
(* of SDT those that join us unasked, and both SDT's members and the       *)
(* application point to them.  SDT forgets a component with its last       *)
(* channel (releaseRcomponent).                                            *)
(*                                                                         *)
(* SLP answers in callbacks while it is called, so discover() is a         *)
(* sequence of steps that nothing else comes between.                      *)
(***************************************************************************)
EXTENDS UuidSet, SlpAgent, SequencesExt

CONSTANTS
  Cids,      \* CIDs of remote components
  Lists,     \* attribute lists that are answered
  Events,    \* of "refused", "attsFail", "unlinkFirst", "staleList": what may also happen
  OneEach,   \* a component is added to no second channel before it left the first
  Copies,    \* bound: structures that exist for one CID
  MaxUrls    \* bound: URLs found by one discover()

ASSUME DiscoveryAssumption ==
  /\ Cids \subseteq Uuids /\ Events \subseteq {"refused", "attsFail", "unlinkFirst", "staleList"}
  /\ OneEach \in BOOLEAN /\ Copies \in Nat /\ MaxUrls \in Nat

VARIABLES
  Rcomponents,    \* the set of struct Rcomponent_s
  heap,           \* usecount of those that are allocated and that something points to
  members,        \* SDT's members: the component each points to, and whether it has its channel
  newcomps,       \* the components discover() is to ask for attributes
  asking,         \* where discover() is: "no", "urls", "atts"
  remlist,        \* the controller's: the components that were known when it last discovered
  answer          \* the attribute list just received and the flags it gave the component

remotevars == <<Rcomponents, heap, members, newcomps, asking, remlist, answer>>

None == [list |-> <<>>, flags |-> {}]

DiscoveryInit ==
  /\ AgentInit
  /\ Rcomponents = EmptySet /\ heap = <<>> /\ members = {}
  /\ newcomps = <<>> /\ asking = "no" /\ remlist = {} /\ answer = None

-----------------------------------------------------------------------------
(***************************************************************************)
(* Attribute lists: sequences of attributes, each a tag and its values as  *)
(* the lengths of their text, escapes replaced, with what csl-esta.dmp and *)
(* acn-services say.                                                       *)
(***************************************************************************)
NeedAtts == {"acn-fctn", "acn-services", "acn-uacn", "cid", "csl-esta.dmp", "device-description"}
NF_LST   == {"acn-services", "csl-esta.dmp", "device-description"}

\* A value as it is written takes 3 characters for each escape and 1 for others.
Val(says, plain, escapes, legal) ==
  [says |-> says, plain |-> plain, escapes |-> escapes, legal |-> legal]
Att(tag, vals) == [tag |-> tag, vals |-> vals]

\* Mutant: the search ends before the last entry of the table.
matchatt_short(tag) == tag \in NeedAtts \ {"device-description"}

matchatt(tag) == tag \in NeedAtts

SumOf(f, S) == MapThenFoldSet(LAMBDA a, b : a + b, 0, LAMBDA x : f[x], LAMBDA T : CHOOSE x \in T : TRUE, S)
\* The space for values whose escapes take so many bytes each.
Total(vals, escape) ==
  SumOf([j \in DOMAIN vals |-> vals[j].plain + escape * vals[j].escapes + 1], DOMAIN vals)

\* Both passes of parseatts: whether it fails, the space the first finds to be
\* needed and the space the second uses.
parseatts(list) ==
  LET first(acc, a) ==
        IF acc.bad \/ ~matchatt(a.tag) THEN acc
        ELSE IF a.tag \in acc.seen THEN [acc EXCEPT !.bad = TRUE]
        ELSE [acc EXCEPT !.seen = @ \cup {a.tag},
                !.room = @ + Total(a.vals, 3)]
      one == FoldLeft(first, [bad |-> FALSE, seen |-> {}, room |-> 0], list)
      second(acc, a) ==
        IF acc.bad \/ ~matchatt(a.tag) THEN acc
        ELSE [bad |-> \/ Len(a.vals) > 1 /\ a.tag \notin NF_LST
                      \/ \E j \in DOMAIN a.vals : ~a.vals[j].legal,
              used |-> acc.used + Total(a.vals, 1),
              attp |-> [t \in DOMAIN acc.attp \cup {a.tag} |->
                          IF t = a.tag THEN a.vals ELSE acc.attp[t]]]
      two == FoldLeft(second, [bad |-> FALSE, used |-> 0, attp |-> <<>>], list)
  IN  IF one.bad \/ one.seen # NeedAtts \/ two.bad
      THEN [ok |-> FALSE, room |-> one.room, used |-> two.used, attp |-> <<>>]
      ELSE [ok |-> TRUE, room |-> one.room, used |-> two.used, attp |-> two.attp]

\* What discAtt_cb makes of an answer: the flags of the component, where they change.
\* parsedmpcsl gives the flags of a csl, or {} when it cannot be used.
Flags(list) ==
  LET e    == parseatts(list)
      dmp  == \E v \in ToSet(e.attp["acn-services"]) : v.says = {"esta.dmp"}
      csls == SelectSeq(e.attp["csl-esta.dmp"], LAMBDA v : v.says # {})
  IN  IF ~e.ok THEN {"slp_found", "slp_err"}
      ELSE IF dmp /\ csls # <<>> THEN {"slp_found"} \cup csls[1].says
      ELSE {}

-----------------------------------------------------------------------------
(***************************************************************************)
(* discover().                                                             *)
(***************************************************************************)
Unalloc(cid) == {n \in 1 .. Copies : <<cid, n>> \notin DOMAIN heap}
New(cid)     == <<cid, CHOOSE n \in Unalloc(cid) : \A m \in Unalloc(cid) : n <= m>>

\* Structures that nothing points to any longer are leaked, and left out.
Heap(h) ==
  LET used == DOMAIN Rcomponents'.node \cup {m.Rcomp : m \in members'} \cup ToSet(newcomps')
  IN  heap' = [p \in DOMAIN h \cap used |-> h[p]]

Alloc(p, usecount) == Heap([q \in DOMAIN heap \cup {p} |-> IF q = p THEN usecount ELSE heap[q]])
Without(p) == [q \in DOMAIN heap \ {p} |-> heap[q]]

\* The controller's command (dodiscover) calls discover(), and then lists what is known.
discover ==
  /\ asking = "no" /\ asking' = "urls" /\ remlist' = {}
  /\ UNCHANGED <<Rcomponents, heap, members, newcomps, answer>>

\* URLs of other services, of no CID and of ourselves change nothing.
discUrl_cb(cid) ==
  /\ asking = "urls" /\ Len(newcomps) < MaxUrls
  /\ UNCHANGED <<Rcomponents, members, asking, remlist, answer>>
  /\ LET p == finduuid(Rcomponents, cid)
     IN  IF p # NULL THEN newcomps' = Append(newcomps, p) /\ UNCHANGED heap
         ELSE /\ Unalloc(cid) # {} /\ newcomps' = Append(newcomps, New(cid))
              /\ Alloc(New(cid), 0)

LastUrl ==
  /\ asking = "urls" /\ asking' = "atts"
  /\ UNCHANGED <<Rcomponents, heap, members, newcomps, remlist, answer>>

discAtt_cb(p, list) ==
  /\ Rcomponents' = adduuid(Rcomponents, p)
  /\ Heap(heap)
  /\ answer' = [list |-> list, flags |-> Flags(list)]

FindAttrs ==
  /\ asking = "atts" /\ newcomps # <<>> /\ newcomps' = Tail(newcomps)
  /\ UNCHANGED <<members, asking, remlist>>
  /\ LET p == Head(newcomps)
     IN  \/ \E list \in Lists : discAtt_cb(p, list)
         \/ \* an error instead of an answer
            UNCHANGED Rcomponents /\ Heap(heap) /\ answer' = None
         \/ /\ "attsFail" \in Events /\ UNCHANGED Rcomponents
            /\ Heap(Without(p)) /\ answer' = None

dodiscover ==
  /\ asking = "atts" /\ newcomps = <<>> /\ asking' = "no" /\ answer' = None
  /\ remlist' = ToSet(ForEach(Rcomponents))
  /\ UNCHANGED <<Rcomponents, heap, members, newcomps>>

-----------------------------------------------------------------------------
(***************************************************************************)
(* What SDT does with components.                                          *)
(***************************************************************************)
MayUnlink(p) == "unlinkFirst" \in Events \/ ~LeavesWild(Rcomponents, p)

\* usecount is unsigned: 0 is counted down to a number that is not 0.
Released(p) == IF heap[p] = 1 THEN Without(p) ELSE [heap EXCEPT ![p] = @ - 1]

releaseRcomponent(p) ==
  /\ MayUnlink(p)
  /\ Rcomponents' = unlinkuuid(Rcomponents, p)
  /\ Heap(Released(p))

\* The list that hangs off a component, of the channels it owns.
Rchannels(p, ms) == {m \in ms : m.Rcomp = p /\ m.chan}
linkRchan(m)     == [m EXCEPT !.chan = TRUE]

\* The controller adds a component of its list to one of its channels.  The list is not
\* told of a component that SDT releases.
dmpconnect(p) ==
  /\ asking = "no" /\ p \in remlist
  /\ "staleList" \in Events \/ p \in DOMAIN Rcomponents.node
  /\ Cardinality({m \in members : m.Rcomp = p}) < IF OneEach THEN 1 ELSE 2
  /\ [Rcomp |-> p, chan |-> FALSE] \notin members
  /\ members' = members \cup {[Rcomp |-> p, chan |-> FALSE]}
  /\ UNCHANGED <<Rcomponents, heap, newcomps, asking, remlist, answer>>

\* Its reciprocal Join gives the member its channel.
rx_recipJoin(m) ==
  /\ asking = "no" /\ ~m.chan /\ finduuid(Rcomponents, Uuid(m.Rcomp)) = m.Rcomp
  /\ members' = (members \ {m}) \cup {linkRchan(m)}
  /\ UNCHANGED <<Rcomponents, heap, newcomps, asking, remlist, answer>>

\* Mutant: a component that joins us is always taken to be new.
Joiner_new(cid) == New(cid)

\* The component that joins us: the one we know, or a new one.
Joiner(cid) ==
  IF finduuid(Rcomponents, cid) # NULL THEN finduuid(Rcomponents, cid) ELSE New(cid)

\* A component joins us unasked.
rx_coldJoin(cid) ==
  /\ asking = "no"
  /\ OneEach => \A m \in members : Uuid(m.Rcomp) # cid
  /\ UNCHANGED <<newcomps, asking, remlist, answer>>
  /\ finduuid(Rcomponents, cid) = NULL => Unalloc(cid) # {}
  /\ LET p == Joiner(cid)
     IN  /\ members' = members \cup {linkRchan([Rcomp |-> p, chan |-> FALSE])}
         /\ Rcomponents' = adduuid(Rcomponents, p)
         /\ IF p \in DOMAIN heap THEN UNCHANGED heap ELSE Alloc(p, 1)

\* A Join is refused: joinAbort forgets a component that has no channel.
rx_joinRefused(cid) ==
  /\ asking = "no" /\ "refused" \in Events
  /\ UNCHANGED <<members, newcomps, asking, remlist, answer>>
  /\ LET p == finduuid(Rcomponents, cid)
     IN  p # NULL /\ Rchannels(p, members) = {} /\ releaseRcomponent(p)

\* The channels that are left.
unlinkRchan(m) == Rchannels(m.Rcomp, members \ {m})

killMember(m) ==
  /\ asking = "no" /\ m \in members /\ members' = members \ {m}
  /\ UNCHANGED <<newcomps, asking, remlist, answer>>
  /\ IF unlinkRchan(m) = {} THEN releaseRcomponent(m.Rcomp)
     ELSE UNCHANGED <<Rcomponents, heap>>

RemoteNext ==
  \/ discover \/ LastUrl \/ FindAttrs \/ dodiscover
  \/ \E cid \in Cids : discUrl_cb(cid) \/ rx_coldJoin(cid) \/ rx_joinRefused(cid)
  \/ \E p \in remlist : dmpconnect(p)
  \/ \E m \in members : rx_recipJoin(m) \/ killMember(m)

DiscoveryNext == \/ LocalNext /\ asking = "no" /\ UNCHANGED remotevars
                 \/ RemoteNext /\ UNCHANGED localvars

DiscoverySpec == DiscoveryInit /\ [][DiscoveryNext]_<<localvars, remotevars>>

-----------------------------------------------------------------------------
\* The set of remote components is what was added and not released, whatever is found
\* twice, found again, joined and left in between: each is found by its CID, iterated
\* over once and in order, and its structure is there.
Known ==
  LET known == DOMAIN Rcomponents.node
      each  == ForEach(Rcomponents)
  IN  /\ known \subseteq DOMAIN heap
      /\ \A p \in known : \A b \in 0 .. 1 : Rcomponents.node[p].nxt[b] \in known
      /\ \A p \in known : finduuid(Rcomponents, Uuid(p)) = p
      /\ ToSet(each) = known
      /\ \A i \in 1 .. Len(each) - 1 : Uuid(each[i]) < Uuid(each[i + 1])

\* A member of a channel points to a component that is allocated and known: while SDT
\* deals with it, neither discover() nor the end of another session takes it away.
MemberKnown == \A m \in members : m.Rcomp \in DOMAIN heap \cap DOMAIN Rcomponents.node

\* An attribute list is accepted when each attribute that EPI-19 demands is there once,
\* with values of the kind it has, and what is copied from it fits the buffer.
AttsRead ==
  LET atts == answer.list
      e    == parseatts(atts)
  IN  atts # <<>> =>
        /\ e.ok <=> /\ \A t \in NeedAtts : \E i \in DOMAIN atts :
                         /\ atts[i].tag = t /\ \A j \in DOMAIN atts : atts[j].tag = t => j = i
                         /\ Len(atts[i].vals) > 1 => t \in NF_LST
                         /\ \A v \in ToSet(atts[i].vals) : v.legal
        /\ e.ok => e.used <= e.room

\* uuid.h, unlinkuuid: "Removes uuid from the set", and nothing that is left in the set
\* points to what was removed.
Unlinked ==
  \A p \in DOMAIN Rcomponents.node : \A b \in 0 .. 1 :
    Rcomponents.node[p].nxt[b] \in DOMAIN Rcomponents.node
===============================================================================
