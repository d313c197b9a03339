----------------------------- MODULE SdtReceiver -----------------------------
(***************************************************************************)
(* The receiving end of a channel (csrc/sdt.c): sequencing of wrappers,    *)
(* the queue of wrappers that are ahead of sequence, and the NAKs that ask *)
(* for the missing ones.  `sent' is what the owner of the channel has put  *)
(* on it: Tseq of a wrapper is its index, Rseq counts the reliable ones.   *)
(* The network delivers any wrapper ever sent, any number of times and in  *)
(* any order, the resent ones included.                                    *)
(*                                                                         *)
(* A packet holds one wrapper here, so the receive buffer of a queued      *)
(* wrapper has no other user: buf is FALSE once it has been released.      *)
(* Sequence numbers do not wrap.                                           *)
(***************************************************************************)
EXTENDS Naturals, Integers, Sequences

CONSTANTS
  MaxSent,      \* bound on the wrappers sent
  NakRetries,   \* NAK_MAX_RETRIES of acnstd.h
  Holdoff,      \* are params.nakholdoff and params.nakmaxtime non-zero?
  MayFree,      \* may the owner discard wrappers we have not had?
  Others        \* are there other members, whose NAKs we hear?

ASSUME ReceiverAssumption ==
  /\ MaxSent \in Nat /\ NakRetries \in Nat
  /\ Holdoff \in BOOLEAN /\ MayFree \in BOOLEAN /\ Others \in BOOLEAN

VARIABLES
  sent,     \* wrappers on the channel, [R : Rseq, rel : reliable]
  freed,    \* Rseq of the last wrapper the owner has discarded
  Rchan,    \* the Rchannel_s
  state,    \* loc.mstate of its member, "GONE" once killed
  base,     \* Tseq at which the membership began
  taken     \* Tseq of each wrapper processed, in order

vars == <<sent, freed, Rchan, state, base, taken>>

NAKstates == {"NULL", "HOLDOFF", "NAKWAIT"}
WrapT  == [R : Nat, rel : BOOLEAN]
QueueT == [T : Nat, R : Nat, rel : BOOLEAN, buf : BOOLEAN]

Channel == [Tseq : Nat, Rseq : Nat, aheadQ : Seq(QueueT), lastnak : Nat,
            NAKstate : NAKstates, NAKtries : 0 .. NakRetries]

Bit(b) == IF b THEN 1 ELSE 0
Before(w) == w.R - Bit(w.rel)       \* the reliable wrapper that w follows

Arrived(i) == [T |-> i, R |-> sent[i].R, rel |-> sent[i].rel, buf |-> TRUE]

-----------------------------------------------------------------------------
\* The owner of the channel.
LastRseq == IF sent = <<>> THEN 0 ELSE sent[Len(sent)].R

SendWrapper(reliable) ==
  /\ Len(sent) < MaxSent
  /\ sent' = Append(sent, [R |-> LastRseq + Bit(reliable), rel |-> reliable])
  /\ UNCHANGED <<freed, Rchan, state, base, taken>>

Discard ==
  /\ MayFree /\ freed < LastRseq
  /\ freed' = freed + 1
  /\ UNCHANGED <<sent, Rchan, state, base, taken>>

-----------------------------------------------------------------------------
(***************************************************************************)
(* NAKs.  aheadQ is written oldest first (the C list has its head at the   *)
(* newest).  sendNAK asks for the wrappers from Rseq + 1 to lastnak, and   *)
(* waits; who hears it and what comes of it is up to the environment.      *)
(***************************************************************************)
sendNAK(ch) == [ch EXCEPT !.NAKstate = "NAKWAIT"]

NAKwrappers(ch) ==
  IF Holdoff THEN [ch EXCEPT !.NAKstate = "HOLDOFF"] ELSE sendNAK(ch)

NAKholdoffAction ==
  /\ state = "MEMBER" /\ Rchan.NAKstate = "HOLDOFF"
  /\ Rchan' = sendNAK(Rchan)
  /\ UNCHANGED <<sent, freed, state, base, taken>>

killRchan == state' = "GONE" /\ UNCHANGED <<sent, freed, Rchan, base, taken>>

\* Mutant: asks again for ever.
NAKfailAction_noCount ==
  /\ state = "MEMBER" /\ Rchan.NAKstate = "NAKWAIT"
  /\ Rchan' = NAKwrappers(Rchan)
  /\ UNCHANGED <<sent, freed, state, base, taken>>

\* Mutant: the last try is not recognised.
NAKfailAction_noLimit ==
  /\ state = "MEMBER" /\ Rchan.NAKstate = "NAKWAIT"
  /\ Rchan' = NAKwrappers([Rchan EXCEPT !.NAKtries = @ - 1])
  /\ UNCHANGED <<sent, freed, state, base, taken>>

NAKfailAction ==
  /\ state = "MEMBER" /\ Rchan.NAKstate = "NAKWAIT"
  /\ \/ /\ Rchan.NAKtries > 0
        /\ Rchan' = NAKwrappers([Rchan EXCEPT !.NAKtries = @ - 1])
        /\ UNCHANGED <<sent, freed, state, base, taken>>
     \/ Rchan.NAKtries = 0 /\ killRchan

\* Another member's NAK for the wrappers first to last, sent to the group.
rx_outboundNAK(first, last) ==
  /\ state = "MEMBER" /\ Others /\ Rchan.NAKstate # "NULL"
  /\ Rchan' = IF Rchan.lastnak > last \/ Rchan.Rseq <= first
              THEN Rchan ELSE sendNAK(Rchan)
  /\ UNCHANGED <<sent, freed, state, base, taken>>

-----------------------------------------------------------------------------
(***************************************************************************)
(* Sequencing.  The first k wrappers of the queue drain after w: each is   *)
(* preceded by all the reliable wrappers before it.                        *)
(***************************************************************************)
Preceding(q, w, j) == IF j = 1 THEN w.R ELSE q[j - 1].R

\* Mutant: a wrapper is in sequence if no more than one number is missing.
Drains_loose(q, w, k) == \A j \in 1 .. k : Before(q[j]) <= Preceding(q, w, j) + 1

Drains(q, w, k) == \A j \in 1 .. k : Before(q[j]) <= Preceding(q, w, j)

TseqOf(q) == [j \in 1 .. Len(q) |-> q[j].T]

\* Mutant: NAK processing goes on after the last gap has been filled.
CaughtUp_stays(ch) == ch

CaughtUp(ch) == IF ch.aheadQ = <<>> THEN [ch EXCEPT !.NAKstate = "NULL"] ELSE ch

\* rx_wrapper, in sequence: w, and what it makes available, is processed.
InOrder(w) ==
  LET q == Rchan.aheadQ
  IN  \E k \in 0 .. Len(q) :
        LET run == <<w>> \o SubSeq(q, 1, k)
        IN  /\ Drains(q, w, k) /\ (k < Len(q) => ~ Drains(q, w, k + 1))
            /\ Rchan' = CaughtUp(
                 [Rchan EXCEPT !.Tseq = run[k + 1].T, !.Rseq = run[k + 1].R,
                               !.aheadQ = SubSeq(q, k + 1, Len(q)),
                               !.NAKtries = NakRetries])
            /\ taken' = taken \o TseqOf(run)

\* Mutant: put at the newest end without looking.
Fits_newest(q, p, w) == p = Len(q)

\* w belongs after the first p elements of the queue, which is sorted.
Fits(q, p, w) == /\ \A j \in 1 .. p : q[j].T < w.T
                 /\ \A j \in p + 1 .. Len(q) : w.T < q[j].T

Insert(q, p, w) == SubSeq(q, 1, p) \o <<w>> \o SubSeq(q, p + 1, Len(q))

LastNak(q, p, w) ==
  IF q = <<>> \/ (p > 0 /\ Before(w) # q[p].R) THEN Before(w)
  ELSE IF p = 0 /\ w.rel /\ Rchan.lastnak = w.R THEN Before(w)
  ELSE Rchan.lastnak

AheadNak(ch) == IF ch.NAKstate = "NULL" THEN NAKwrappers(ch) ELSE ch

\* rx_wrapper, ahead of sequence: queued; a second copy of a queued wrapper
\* is dropped, and it is the buffer of the first that is released.
Ahead(w) ==
  LET q == Rchan.aheadQ
  IN  /\ \/ \E j \in 1 .. Len(q) :
              /\ q[j].T = w.T
              /\ Rchan' = [Rchan EXCEPT !.aheadQ[j].buf = FALSE]
         \/ \E p \in 0 .. Len(q) :
              /\ Fits(q, p, w)
              /\ Rchan' = AheadNak([Rchan EXCEPT !.aheadQ = Insert(q, p, w),
                                                 !.lastnak = LastNak(q, p, w)])
      /\ UNCHANGED taken

NAKcheck(oldest) == Rchan.NAKstate # "NULL" /\ oldest - Rchan.Rseq > 1

\* Mutant: the wrapper taken last is not recognised when it comes again.
Repeat_same(i) == i < Rchan.Tseq

Repeat(i) == i <= Rchan.Tseq

rx_wrapper(i, oldest) ==
  LET w == Arrived(i)
  IN  /\ state # "GONE"
      /\ \/ NAKcheck(oldest) /\ killRchan
         \/ /\ ~ NAKcheck(oldest) /\ ~ Repeat(i)
            /\ \/ /\ state = "JOINPEND"
                  /\ Rchan' = [Rchan EXCEPT !.Tseq = i, !.Rseq = w.R]
                  /\ base' = i
                  /\ UNCHANGED taken
               \/ /\ state = "MEMBER" /\ Before(w) = Rchan.Rseq
                  /\ InOrder(w) /\ UNCHANGED base
               \/ /\ state = "MEMBER" /\ Before(w) # Rchan.Rseq
                  /\ Ahead(w) /\ UNCHANGED base
            /\ UNCHANGED <<sent, freed, state>>

\* firstACK: we count as a member from here on.
Joined ==
  /\ state = "JOINPEND" /\ state' = "MEMBER"
  /\ UNCHANGED <<sent, freed, Rchan, base, taken>>

-----------------------------------------------------------------------------
Init ==
  /\ sent = <<>> /\ freed = 0 /\ state = "JOINPEND" /\ base = 0
  /\ Rchan = [Tseq |-> 0, Rseq |-> 0, aheadQ |-> <<>>, lastnak |-> 0,
              NAKstate |-> "NULL", NAKtries |-> 0]
  /\ taken = <<>>

\* What the channel's own address brings: a wrapper, or the NAK of another member.
sdtRxRchan ==
  \/ \E i \in 1 .. Len(sent) : \E oldest \in 1 .. freed + 1 : rx_wrapper(i, oldest)
  \/ \E first \in 1 .. LastRseq : \E last \in first .. LastRseq :
        rx_outboundNAK(first, last)

Next ==
  \/ \E reliable \in BOOLEAN : SendWrapper(reliable)
  \/ Discard \/ Joined \/ sdtRxRchan
  \/ NAKholdoffAction \/ NAKfailAction

Spec == Init /\ [][Next]_vars

\* The timers run; no wrapper need ever arrive.
FairSpec == Spec /\ WF_vars(NAKholdoffAction) /\ WF_vars(NAKfailAction)

-----------------------------------------------------------------------------
\* Every variable has its type; a retry counter keeps to its limit.
TypeOK ==
  /\ sent \in Seq(WrapT) /\ freed \in Nat
  /\ Rchan \in Channel
  /\ state \in {"JOINPEND", "MEMBER", "GONE"}
  /\ base \in Nat /\ taken \in Seq(Nat)

Promise == INSTANCE SdtReliable

(***************************************************************************)
(* The wrappers processed since the membership began are in order, none    *)
(* twice, and no reliable one has been left out, whatever was lost,        *)
(* repeated, overtaken or recovered (rx_wrapper).                          *)
(***************************************************************************)
TakenInOrder == Promise!Gapless(sent, base, taken)

(***************************************************************************)
(* The assertion in rx_wrapper's loop over aheadQ: a queued wrapper is     *)
(* never behind the sequence, so one that is not ahead is next.            *)
(***************************************************************************)
NeverBehind ==
  \A j \in 1 .. Len(Rchan.aheadQ) :
    LET e == Rchan.aheadQ[j]
    IN  IF j = 1 THEN Before(e) > Rchan.Rseq
        ELSE Before(e) >= Rchan.aheadQ[j - 1].R /\ e.T > Rchan.aheadQ[j - 1].T

\* While a wrapper waits for an earlier one the NAK timer runs, and only then:
\* no gap is forgotten, and no NAK is sent for nothing (NAKstate, NAKtimer).
GapIsPursued == state = "MEMBER" => (Rchan.aheadQ # <<>> <=> Rchan.NAKstate # "NULL")

\* A gap is filled or the channel is given up: it cannot stay open.
GapResolved ==
  Rchan.aheadQ # <<>> /\ state = "MEMBER" ~> Rchan.aheadQ = <<>> \/ state = "GONE"

\* The receiver does what the channel promises its members.
KeepsPromise == Promise!Spec

-----------------------------------------------------------------------------
(***************************************************************************)
(* What comments say, and the code does not do.                            *)
(***************************************************************************)

\* sdt.h:529 "stored before initial processing (if they arrive out of order)":
\* a stored wrapper keeps its buffer.
QueuedHasBuffer == \A j \in 1 .. Len(Rchan.aheadQ) : Rchan.aheadQ[j].buf
=============================================================================
