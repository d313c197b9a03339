----------------------------- MODULE SdtReliable -----------------------------
(***************************************************************************)
(* What a channel promises to each of its members (csrc/sdt.c): from the   *)
(* wrapper at which its membership began a member takes wrappers in the    *)
(* order they were sent, none twice, and skips unreliable ones only.  When *)
(* a reliable wrapper cannot be had the membership ends; it never goes on  *)
(* without it.                                                             *)
(***************************************************************************)
EXTENDS Naturals, Sequences

VARIABLES
  sent,    \* the wrappers sent on the channel, in Tseq order
  base,    \* Tseq of the channel when the membership began
  taken,   \* Tseq of each wrapper the member has taken
  state    \* "JOINPEND", "MEMBER" or "GONE"

rvars == <<sent, base, taken, state>>

Position(from, t, j) == IF j = 0 THEN from ELSE t[j]

\* t is taken from s after position `from' with no reliable wrapper left out.
Gapless(s, from, t) ==
  \A j \in 1 .. Len(t) :
    /\ t[j] \in Position(from, t, j - 1) + 1 .. Len(s)
    /\ \A k \in Position(from, t, j - 1) + 1 .. t[j] - 1 : ~ s[k].rel

Init == sent = <<>> /\ base = 0 /\ taken = <<>> /\ state = "JOINPEND"

Extends(t, u) == Len(t) <= Len(u) /\ SubSeq(u, 1, Len(t)) = t

Send ==
  /\ Len(sent') = Len(sent) + 1 /\ Extends(sent, sent')
  /\ UNCHANGED <<base, taken, state>>

\* Before the membership the position in the stream just moves forward.
Follow ==
  /\ state = "JOINPEND" /\ base' \in base + 1 .. Len(sent)
  /\ UNCHANGED <<sent, taken, state>>

Begin == state = "JOINPEND" /\ state' = "MEMBER" /\ UNCHANGED <<sent, base, taken>>

Take ==
  /\ state = "MEMBER" /\ Len(taken) < Len(taken')
  /\ Extends(taken, taken') /\ Gapless(sent, base, taken')
  /\ UNCHANGED <<sent, base, state>>

Leave == state # "GONE" /\ state' = "GONE" /\ UNCHANGED <<sent, base, taken>>

Next == Send \/ Follow \/ Begin \/ Take \/ Leave

Spec == Init /\ [][Next]_rvars
=============================================================================
