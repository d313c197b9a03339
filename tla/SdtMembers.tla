------------------------------ MODULE SdtMembers ------------------------------
(***************************************************************************)
(* The members of a local channel (csrc/sdt.c): the table that gives each  *)
(* its MID, the ACKs the owner adds to its wrappers in turn (autoack), and *)
(* the MAK cycle by which it finds that a member no longer answers.        *)
(*                                                                         *)
(* How a membership begins is SdtSession's concern: here a member joins,   *)
(* counts from its first ACK, and may be killed at any time.  A timer is   *)
(* due at any time while it runs.  The state timer of a member that counts *)
(* always runs (rx_ack and setMAKs arm it), so it is not a variable; nor   *)
(* is the range of the priority MAK, set and used in one call.  The range  *)
(* of a background MAK and the keepalive interval are left out.            *)
(***************************************************************************)
EXTENDS Naturals, Integers, FiniteSets

CONSTANTS
  Members,     \* the components that may be members
  FirstSpace,  \* FIRSTMSPACE, entries of the first table
  MakTries,    \* MAK_MAX_RETRIES + 1
  AckRoom      \* ACKs that find room in a wrapper with nothing else

ASSUME MembersAssumption ==
  /\ IsFiniteSet(Members)
  /\ FirstSpace \in Nat \ {0, 1} /\ MakTries \in Nat \ {0} /\ AckRoom \in Nat \ {0}

VARIABLES
  chan,   \* the table of struct Lchannel_s
  lastackmid,  \* the MID that was ACKed last
  memb,   \* memb[m]: mid, counts (rem.mstate), loc (loc.mstate), maktries
  asked,  \* asked[m]: history, the priority MAKs since m last answered
  acked   \* the members the last wrapper holds an ACK for

vars == <<chan, lastackmid, memb, asked, acked>>

None  == "NULL"
Junk  == "junk"   \* not initialised, or a member that is freed

ASSUME PointersAssumption == None \notin Members /\ Junk \notin Members

Slots == 1 .. Cardinality(Members)
Gone  == [mid |-> 0, counts |-> FALSE, loc |-> FALSE, maktries |-> 0]

ChanT == [many : [Slots -> Members \cup {None, Junk}], himid : Slots \cup {0},
          membercount : Slots \cup {0}, membspace : Nat]
MembT == [mid : Slots \cup {0}, counts : BOOLEAN, loc : BOOLEAN,
          maktries : 0 .. MakTries]

Linked == {m \in Members : memb[m].mid # 0}
Empty  == [many |-> [i \in Slots |-> IF i = 1 THEN None ELSE Junk],
           himid |-> 0, membercount |-> 0, membspace |-> 0]

Least(S)    == CHOOSE i \in S : \A j \in S : i <= j
Greatest(S) == CHOOSE i \in S : \A j \in S : j <= i
Holes(c)    == {i \in 1 .. c.himid : c.many[i] = None}

-----------------------------------------------------------------------------
(***************************************************************************)
(* The table.  With one member and no table it is the pointer members.one, *)
(* here many[1].                                                           *)
(***************************************************************************)
\* Mutant: the next slot is taken without a look at the space.
growMembSpace_never(c, slot) == c.membspace

growMembSpace(c, slot) ==
  IF slot = 1 \/ slot <= c.membspace THEN c.membspace
  ELSE IF c.membspace = 0 THEN FirstSpace ELSE 2 * c.membspace

\* The lowest hole, or else the next MID.
FreeMid(c) == IF c.membercount < c.himid THEN Least(Holes(c)) ELSE c.himid + 1

linkRmemb(c, m) ==
  LET mid == FreeMid(c)
  IN  [c EXCEPT !.many[mid] = m, !.membercount = @ + 1,
                !.himid = IF mid > @ THEN mid ELSE @,
                !.membspace = growMembSpace(c, mid)]

\* Mutant: the highest MID only shrinks by one.
unlinkRmemb_byOne(c, mid) ==
  IF c.membercount = 1 THEN Empty
  ELSE [c EXCEPT !.membercount = @ - 1,
                 !.many[mid] = IF mid < c.himid THEN None ELSE Junk,
                 !.himid = IF mid < @ THEN @ ELSE @ - 1]

\* Mutant: the pointer to the member stays where it was.
unlinkRmemb_stays(c, mid) ==
  IF c.membercount = 1 THEN Empty
  ELSE [c EXCEPT !.membercount = @ - 1,
                 !.many[mid] = Junk,
                 !.himid = IF mid < @ THEN @
                           ELSE Greatest((1 .. mid - 1) \ Holes(c))]

unlinkRmemb(c, mid) ==
  IF c.membercount = 1 THEN Empty
  ELSE [c EXCEPT !.membercount = @ - 1,
                 !.many[mid] = IF mid < c.himid THEN None ELSE Junk,
                 !.himid = IF mid < @ THEN @
                           ELSE Greatest((1 .. mid - 1) \ Holes(c))]

findRmembMID(c, mid) == IF mid > c.himid THEN None ELSE c.many[mid]
findRmembComp(c, Rcomp) == IF \E i \in 1 .. c.himid : c.many[i] = Rcomp THEN Rcomp ELSE None

-----------------------------------------------------------------------------
(***************************************************************************)
(* Sending a wrapper: from lastackmid on, an ACK for each member whose     *)
(* channel we follow, until the room is used or every MID was visited.     *)
(***************************************************************************)
Start == IF lastackmid >= chan.himid THEN 0 ELSE lastackmid

\* Mutant: each wrapper begins at the first member again.
Visit_first(i) == i

\* The MID visited i-th.
Visit(i) == 1 + ((Start + i - 1) % chan.himid)

Served(n) ==
  {m \in Members : memb[m].loc /\ \E i \in 1 .. n : findRmembMID(chan, Visit(i)) = m}

Visited(room) ==
  LET full == {n \in 0 .. chan.himid : Cardinality(Served(n)) = room}
  IN  IF full = {} THEN chan.himid ELSE Least(full)

Send(room) ==
  \E n \in {Visited(room)} :
    /\ lastackmid' = IF n = 0 THEN lastackmid ELSE Visit(n)
    /\ acked' = Served(n)

-----------------------------------------------------------------------------
\* addMember or createRecip.
addMember(m) ==
  /\ findRmembComp(chan, m) = None
  /\ chan' = linkRmemb(chan, m)
  /\ memb' = [memb EXCEPT ![m] = [Gone EXCEPT !.mid = FreeMid(chan)]]
  /\ UNCHANGED <<lastackmid, asked, acked>>

\* We become a member of its channel.
initLocMember(m) ==
  /\ memb[m].mid # 0 /\ ~ memb[m].loc
  /\ memb' = [memb EXCEPT ![m].loc = TRUE]
  /\ UNCHANGED <<chan, lastackmid, asked, acked>>

\* Mutant: an ACK does not start the count of MAKs anew.
rx_ack_noReset(m) ==
  /\ memb[m].mid # 0
  /\ memb' = [memb EXCEPT ![m].counts = TRUE,
                          ![m].maktries = IF memb[m].counts THEN @ ELSE MakTries]
  /\ asked' = [asked EXCEPT ![m] = 0]
  /\ UNCHANGED <<chan, lastackmid, acked>>

rx_ack(m) ==
  /\ memb[m].mid # 0
  /\ memb' = [memb EXCEPT ![m].counts = TRUE, ![m].maktries = MakTries]
  /\ asked' = [asked EXCEPT ![m] = 0]
  /\ UNCHANGED <<chan, lastackmid, acked>>

\* The Leave is a wrapper too, sent while the member is still in the table; a
\* member that has not accepted our Join gets none.
killMember(m) ==
  /\ memb[m].mid # 0
  /\ memb' = [memb EXCEPT ![m] = Gone]
  /\ asked' = [asked EXCEPT ![m] = 0]
  /\ chan' = unlinkRmemb(chan, memb[m].mid)
  /\ \/ Send(AckRoom)
     \/ ~ memb[m].counts /\ UNCHANGED <<lastackmid, acked>>

\* The wrapper of makTimeoutAction has a priority MAK: setMAKs counts it for
\* the member whose timer is not running.
setMAKs(m) == [memb EXCEPT ![m].maktries = @ - 1]

\* The history: it counts no further than the tries.
Ask(m) == [asked EXCEPT ![m] = IF @ < MakTries THEN @ + 1 ELSE @]

\* Mutant: the tries are not looked at.
makTimeoutAction_noLimit(m) ==
  /\ memb[m].counts
  /\ memb' = setMAKs(m) /\ asked' = Ask(m)
  /\ Send(AckRoom) /\ UNCHANGED chan

makTimeoutAction(m) ==
  /\ memb[m].counts
  /\ \/ memb[m].maktries = 0 /\ killMember(m)
     \/ /\ memb[m].maktries > 0 /\ memb' = setMAKs(m)
        /\ asked' = Ask(m)
        /\ Send(AckRoom) /\ UNCHANGED chan

\* A wrapper of the application, with room for so many ACKs.
_flushWrapper(room) ==
  /\ chan.membercount > 0
  /\ Send(room) /\ UNCHANGED <<chan, memb, asked>>

keepaliveAction == _flushWrapper(AckRoom)

-----------------------------------------------------------------------------
Init ==
  /\ chan = Empty /\ lastackmid = 0 /\ memb = [m \in Members |-> Gone]
  /\ asked = [m \in Members |-> 0] /\ acked = {}

Next ==
  \/ keepaliveAction \/ \E room \in 0 .. AckRoom - 1 : _flushWrapper(room)
  \/ \E m \in Members :
       \/ addMember(m) \/ initLocMember(m) \/ rx_ack(m)
       \/ makTimeoutAction(m) \/ killMember(m)

Spec == Init /\ [][Next]_vars

\* The keepalive timer fires, or else the wrapper that arms it anew has room for
\* ACKs too.
FairSpec == Spec /\ WF_vars(keepaliveAction)

-----------------------------------------------------------------------------
\* Every variable has its type; the tries never pass below zero (unsigned in
\* makTimeoutAction, compared with zero only).
TypeOK ==
  /\ chan \in ChanT /\ lastackmid \in Slots \cup {0} /\ memb \in [Members -> MembT]
  /\ asked \in [Members -> 0 .. MakTries] /\ acked \in SUBSET Members

(***************************************************************************)
(* The table is a directory of the members: below himid there is no stale  *)
(* pointer (findRmembMID follows every one that is not NULL), every entry  *)
(* is the member that has this MID, and every member has its entry.        *)
(***************************************************************************)
Directory ==
  /\ \A i \in 1 .. chan.himid :
       chan.many[i] # None => chan.many[i] \in Linked /\ memb[chan.many[i]].mid = i
  /\ \A m \in Linked : memb[m].mid <= chan.himid /\ chan.many[memb[m].mid] = m

(***************************************************************************)
(* The loops over the table end and stay inside it: linkRmemb finds a hole *)
(* below himid when membercount says so (its assertion), setMAKs finds a   *)
(* member when there is one, unlinkRmemb stops shrinking at a member, and  *)
(* no index reaches the end of the space.                                  *)
(***************************************************************************)
LoopsEnd ==
  /\ chan.membercount = Cardinality(Linked)
  /\ chan.himid > 0 => chan.many[chan.himid] # None
  /\ chan.himid - Cardinality(Holes(chan)) = chan.membercount
  /\ chan.himid <= 1 \/ chan.himid <= chan.membspace

(***************************************************************************)
(* What is left of maktries says how often a member was asked since its    *)
(* last answer, whatever other wrappers were sent, so that one whose tries *)
(* are used up, and which the next timeout kills, has been silent to       *)
(* MakTries MAKs (makTimeoutAction, setMAKs, rx_ack).                      *)
(***************************************************************************)
TriesAreSilence ==
  \A m \in Members : memb[m].counts => memb[m].maktries + asked[m] = MakTries

\* However few ACKs a wrapper has room for and whoever joins and leaves, each member
\* whose channel we follow is sent an ACK again and again, until it is gone.
EveryoneAcked == \A m \in Members : memb[m].loc ~> (m \in acked \/ ~ memb[m].loc)
=============================================================================
