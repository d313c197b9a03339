------------------------------- MODULE SdtOwner -------------------------------
(***************************************************************************)
(* The owner of a channel (csrc/sdt.c): the reliable wrappers it keeps     *)
(* until every member has acknowledged them, the count of acknowledgements *)
(* each still waits for, and what it does with ACKs and NAKs.  Unreliable  *)
(* wrappers are never kept and are left out, so a wrapper is its Rseq.     *)
(*                                                                         *)
(* The other ends are the environment: a member follows the channel from   *)
(* the Rseq of its Join and takes every wrapper from its first ACK on.     *)
(* ACKs travel in the wrappers of the reciprocal channel and cannot        *)
(* overtake each other; NAKs are level 1 messages, which can.  Of the NAKs *)
(* of a member the network keeps the last, to deliver it at any time, any  *)
(* number of times or never.                                               *)
(***************************************************************************)
EXTENDS Naturals, Integers, Sequences, FiniteSets

CONSTANTS
  Members,   \* the member ids of the channel
  MaxSent,   \* bound on the wrappers sent
  Late,      \* are reliable wrappers sent while a member is joining?
  Reorder    \* may a report of a member arrive after a later one?

ASSUME OwnerAssumption ==
  /\ IsFiniteSet(Members) /\ MaxSent \in Nat
  /\ Late \in BOOLEAN /\ Reorder \in BOOLEAN

VARIABLES
  acks,      \* acks[r]: acknowledgements wrapper r still waits for
  oldest,    \* Rseq of obackwrap: wrappers oldest .. Len(acks) are kept
  ackcount,  \* Lchan->ackcount
  memb,      \* memb[m]: the rem part of the member_s
  blank,     \* nakfirst, naklast and whether blankTimer runs
  peer       \* peer[m]: the other end of member m

vars == <<acks, oldest, ackcount, memb, blank, peer>>

MState == {"NULL", "JOINRQ", "JOINPEND", "MEMBER"}
MembT  == [mstate : MState, Rseq : Nat]
BlankT == [first : Nat, last : Nat, on : BOOLEAN]
NakT   == [Rseq : Nat, first : Nat, last : Nat]
NoNak  == [Rseq |-> 0, first |-> 0, last |-> 0]

\* have: Rseq up to which it has every wrapper; acked: its last ACK we took.
PeerT  == [taking : BOOLEAN, have : Nat, acked : Nat, nak : NakT]

Gone    == [mstate |-> "NULL", Rseq |-> 0]
Away    == [taking |-> FALSE, have |-> 0, acked |-> 0, nak |-> NoNak]
Rseq    == Len(acks)
Joining == {m \in Members : memb[m].mstate \in {"JOINRQ", "JOINPEND"}}
Counted == {m \in Members : memb[m].mstate = "MEMBER"}

-----------------------------------------------------------------------------
(***************************************************************************)
(* The back wrappers: a record of acks and oldest, so that a handler may   *)
(* change them more than once.                                             *)
(***************************************************************************)
Back == [acks |-> acks, oldest |-> oldest]

\* _flushWrapper puts a reliable wrapper on the list, for n members to ack.
Keep(b, n) == [b EXCEPT !.acks = Append(@, n)]

MaySend(but) == Rseq < MaxSent /\ (Late \/ Joining \subseteq but)

\* Mutant: every report counts for every wrapper it covers, again and again.
updateRmembSeq_twice(b, m, r) ==
  LET passes == b.oldest .. r
      left   == [s \in 1 .. Len(b.acks) |->
                   IF s \in passes THEN b.acks[s] - 1 ELSE b.acks[s]]
      done   == {s \in passes : left[s] = 0}
      first  == IF done = {} THEN b.oldest
                ELSE 1 + CHOOSE s \in done : \A t \in done : t <= s
  IN  [acks   |-> [s \in 1 .. Len(b.acks) |-> IF s < first THEN 0 ELSE left[s]],
       oldest |-> first]

\* Mutant: a wrapper is freed one acknowledgement too late.
updateRmembSeq_late(b, m, r) ==
  LET passes == {s \in b.oldest .. r : memb[m].Rseq < s}
      left   == [s \in 1 .. Len(b.acks) |->
                   IF s \in passes THEN b.acks[s] - 1 ELSE b.acks[s]]
      done   == {s \in passes : left[s] < 0}
      first  == IF done = {} THEN b.oldest
                ELSE 1 + CHOOSE s \in done : \A t \in done : t <= s
  IN  [acks   |-> [s \in 1 .. Len(b.acks) |-> IF s < first THEN 0 ELSE left[s]],
       oldest |-> first]

\* The wrappers that m now passes wait for one member less; the last of them
\* that waits for nobody goes, with all that are older.
updateRmembSeq(b, m, r) ==
  LET passes == {s \in b.oldest .. r : memb[m].Rseq < s}
      left   == [s \in 1 .. Len(b.acks) |->
                   IF s \in passes THEN b.acks[s] - 1 ELSE b.acks[s]]
      done   == {s \in passes : left[s] = 0}
      first  == IF done = {} THEN b.oldest
                ELSE 1 + CHOOSE s \in done : \A t \in done : t <= s
  IN  [acks   |-> [s \in 1 .. Len(b.acks) |-> IF s < first THEN 0 ELSE left[s]],
       oldest |-> first]

Becomes(b) == acks' = b.acks /\ oldest' = b.oldest

_flushWrapper ==
  /\ MaySend({}) /\ Becomes(Keep(Back, ackcount))
  /\ UNCHANGED <<ackcount, memb, blank, peer>>

-----------------------------------------------------------------------------
\* A Join is sent; the other end follows from its Rseq.
addMember(m) ==
  /\ memb[m].mstate = "NULL"
  /\ memb' = [memb EXCEPT ![m] = [mstate |-> "JOINRQ", Rseq |-> Rseq]]
  /\ peer' = [peer EXCEPT ![m].taking = FALSE, ![m].have = Rseq, ![m].acked = Rseq]
  /\ UNCHANGED <<acks, oldest, ackcount, blank>>

rx_joinAccept(m) ==
  /\ memb[m].mstate = "JOINRQ"
  /\ memb' = [memb EXCEPT ![m].mstate = "JOINPEND"]
  /\ UNCHANGED <<acks, oldest, ackcount, blank, peer>>

\* killMember cancels the blank timer when the last member goes.
Emptied(m) == \A o \in Members \ {m} : memb[o].mstate = "NULL"

\* Mutant: what the member had not acknowledged is left waiting for it.
killMember_owing(m) ==
  /\ memb[m].mstate # "NULL"
  /\ \/ memb[m].mstate = "JOINRQ" /\ UNCHANGED <<acks, oldest, ackcount>>
     \/ /\ memb[m].mstate = "JOINPEND" /\ MaySend({m})
        /\ Becomes(Keep(Back, ackcount)) /\ UNCHANGED ackcount
     \/ /\ memb[m].mstate = "MEMBER" /\ MaySend({m})
        /\ ackcount' = ackcount - 1
        /\ Becomes(Keep(Back, ackcount - 1))
  /\ memb' = [memb EXCEPT ![m] = Gone]
  /\ peer' = [peer EXCEPT ![m] = [Away EXCEPT !.nak = peer[m].nak]]
  /\ blank' = [blank EXCEPT !.on = @ /\ ~ Emptied(m)]

\* Mutant: a member that was never counted is counted out.
killMember_uncounted(m) ==
  /\ memb[m].mstate # "NULL"
  /\ \/ memb[m].mstate = "JOINRQ" /\ UNCHANGED <<acks, oldest, ackcount>>
     \/ /\ memb[m].mstate \in {"JOINPEND", "MEMBER"} /\ MaySend({m})
        /\ ackcount' = ackcount - 1
        /\ Becomes(Keep(updateRmembSeq(Back, m, Rseq), ackcount - 1))
  /\ memb' = [memb EXCEPT ![m] = Gone]
  /\ peer' = [peer EXCEPT ![m] = [Away EXCEPT !.nak = peer[m].nak]]
  /\ blank' = [blank EXCEPT !.on = @ /\ ~ Emptied(m)]

\* The Leave is a reliable wrapper; a member that counts is first taken to
\* have acknowledged everything.
killMember(m) ==
  /\ memb[m].mstate # "NULL"
  /\ \/ memb[m].mstate = "JOINRQ" /\ UNCHANGED <<acks, oldest, ackcount>>
     \/ /\ memb[m].mstate = "JOINPEND" /\ MaySend({m})
        /\ Becomes(Keep(Back, ackcount)) /\ UNCHANGED ackcount
     \/ /\ memb[m].mstate = "MEMBER" /\ MaySend({m})
        /\ ackcount' = ackcount - 1
        /\ Becomes(Keep(updateRmembSeq(Back, m, Rseq), ackcount - 1))
  /\ memb' = [memb EXCEPT ![m] = Gone]
  /\ peer' = [peer EXCEPT ![m] = [Away EXCEPT !.nak = peer[m].nak]]
  /\ blank' = [blank EXCEPT !.on = @ /\ ~ Emptied(m)]

-----------------------------------------------------------------------------
Reports(m, r) == Reorder \/ memb[m].Rseq <= r

\* ACK r of member m; the first one makes it count, and may be followed at
\* once by the wrapper with its Connect (setFullMember).
rx_ack(m, r) ==
  /\ peer[m].taking /\ Reports(m, r)
  /\ peer' = [peer EXCEPT ![m].acked = r]
  /\ \/ /\ memb[m].mstate = "MEMBER"
        /\ Becomes(updateRmembSeq(Back, m, r))
        /\ memb' = [memb EXCEPT ![m].Rseq = r] /\ UNCHANGED ackcount
     \/ /\ memb[m].mstate = "JOINPEND"
        /\ memb' = [memb EXCEPT ![m] = [mstate |-> "MEMBER", Rseq |-> r]]
        /\ ackcount' = ackcount + 1
        /\ \/ Becomes(Back)
           \/ MaySend({m}) /\ Becomes(Keep(Back, ackcount + 1))
     \/ /\ memb[m].mstate = "JOINRQ"
        /\ UNCHANGED <<acks, oldest, ackcount, memb>>
  /\ UNCHANGED blank

Blanked(n) == n.first >= blank.first /\ n.last < blank.last

Available(n) == oldest <= Rseq /\ n.first >= oldest /\ n.last <= Rseq

resendWrappers(n) ==
  [first |-> IF n.first < blank.first THEN n.first ELSE blank.first,
   last  |-> IF n.last >= blank.last THEN n.last + 1 ELSE blank.last,
   on    |-> TRUE]

rx_ownerNAK(m) ==
  LET n == peer[m].nak
  IN  /\ memb[m].mstate # "NULL" /\ n # NoNak /\ Reports(m, n.Rseq)
      /\ ~ Blanked(n)
      /\ blank' = IF Available(n) THEN resendWrappers(n) ELSE blank
      /\ Becomes(updateRmembSeq(Back, m, n.Rseq))
      /\ memb' = [memb EXCEPT ![m].Rseq = n.Rseq]
      /\ UNCHANGED <<ackcount, peer>>

blanktimeAction ==
  /\ blank.on
  /\ blank' = [first |-> 0, last |-> 0, on |-> FALSE]
  /\ UNCHANGED <<acks, oldest, ackcount, memb, peer>>

-----------------------------------------------------------------------------
\* The other end of member m.  Up to its first ACK it only follows.
firstACK(m) ==
  /\ memb[m].mstate # "NULL" /\ ~ peer[m].taking
  /\ \E r \in peer[m].have .. Rseq :
       peer' = [peer EXCEPT ![m].taking = TRUE, ![m].have = r, ![m].acked = r]
  /\ UNCHANGED <<acks, oldest, ackcount, memb, blank>>

Take(m) ==
  /\ peer[m].taking /\ peer[m].have < Rseq
  /\ peer' = [peer EXCEPT ![m].have = @ + 1]
  /\ UNCHANGED <<acks, oldest, ackcount, memb, blank>>

sendNAK(m) ==
  /\ peer[m].taking
  /\ \E last \in peer[m].have + 1 .. Rseq :
       peer' = [peer EXCEPT ![m].nak =
                  [Rseq |-> peer[m].have,
                   first |-> peer[m].have + 1, last |-> last]]
  /\ UNCHANGED <<acks, oldest, ackcount, memb, blank>>

-----------------------------------------------------------------------------
Init ==
  /\ acks = <<>> /\ oldest = 1 /\ ackcount = 0
  /\ memb = [m \in Members |-> Gone] /\ peer = [m \in Members |-> Away]
  /\ blank = [first |-> 0, last |-> 0, on |-> FALSE]

Next ==
  \/ _flushWrapper \/ blanktimeAction
  \/ \E m \in Members :
       \/ addMember(m) \/ rx_joinAccept(m) \/ killMember(m) \/ rx_ownerNAK(m)
       \/ \E r \in peer[m].acked .. peer[m].have : rx_ack(m, r)
       \/ firstACK(m) \/ Take(m) \/ sendNAK(m)

Spec == Init /\ [][Next]_vars

\* A member takes what is sent again until it has it, and acknowledges it: it
\* does so in every wrapper of its own, and when it is asked to (MAK).
FairSpec ==
  /\ Spec
  /\ \A m \in Members :
       /\ WF_vars(Take(m))
       /\ WF_vars(peer[m].have > memb[m].Rseq /\ rx_ack(m, peer[m].have))

-----------------------------------------------------------------------------
\* Every variable has its type; the count of members never goes below zero.
TypeOK ==
  /\ acks \in Seq(Int) /\ oldest \in 1 .. Rseq + 1 /\ ackcount \in Nat
  /\ memb \in [Members -> MembT] /\ peer \in [Members -> PeerT]
  /\ blank \in BlankT

(***************************************************************************)
(* A wrapper is kept until every member has it (sdt.h:488 "Sent reliable   *)
(* wrappers must be kept until verified"): whatever a member still lacks,  *)
(* the owner can send again.                                               *)
(***************************************************************************)
KeptUntilVerified == \A m \in Counted : oldest <= peer[m].have + 1

(***************************************************************************)
(* Each kept wrapper waits for exactly the members that have not           *)
(* acknowledged it: joins, leaves, ACKs and NAKs keep the count of acks    *)
(* and the positions of the members together (updateRmembSeq, killMember,  *)
(* rx_ack).                                                                *)
(***************************************************************************)
Behind(r) == {m \in Counted : memb[m].Rseq < r}

LedgerExact ==
  /\ ackcount = Cardinality(Counted)
  /\ \A r \in oldest .. Rseq : acks[r] = Cardinality(Behind(r))

\* A wrapper that some member had to acknowledge does not stay for ever.
BackDrains ==
  \A r \in 1 .. MaxSent : (r \in oldest .. Rseq /\ acks[r] > 0) ~> (r < oldest)
=============================================================================
