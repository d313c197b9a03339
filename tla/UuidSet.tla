------------------------------- MODULE UuidSet -------------------------------
(***************************************************************************)
(* Sets of UUIDs as csrc/uuid.c keeps them by default (CF_UUIDS_RADIX): a  *)
(* Patricia tree whose nodes are internal and external at once.  A link to *)
(* a node that does not test a later bit is an external one, and the one   *)
(* external link too many ends at a node that tests no bit (UUTERM).       *)
(*                                                                         *)
(* The set holds pointers to the UUIDs of structures its user allocated.   *)
(* A node is named by the pointer it holds, which never moves.             *)
(***************************************************************************)
EXTENDS Integers, Sequences

CONSTANT Bits   \* the number of bits of a UUID (128)

Uuids   == 0 .. 2 ^ Bits - 1
NULL    == <<>>
UUTERM  == Bits
EmptySet == [first |-> NULL, node |-> <<>>]

Uuid(ptr) == ptr[1]   \* *ptr, of the ptr[2]-th structure allocated for it

isuuterm(tstloc) == tstloc >= UUTERM

\* Bit 0 is the most significant.  No byte is outside the UUID: UUTERM tests as 1.
testbit(uuid, tstloc) == IF isuuterm(tstloc) THEN 1 ELSE (uuid \div 2 ^ (Bits - 1 - tstloc)) % 2

\* The first bit that differs.
matchuuid(u1, u2) == CHOOSE b \in 0 .. Bits - 1 :
  /\ testbit(u1, b) # testbit(u2, b)
  /\ \A c \in 0 .. b - 1 : testbit(u1, c) = testbit(u2, c)

RECURSIVE Descend(_, _, _)
Descend(node, uuid, p) ==
  LET q == node[p].nxt[testbit(uuid, node[p].loc)]
  IN  IF node[q].loc > node[p].loc THEN Descend(node, uuid, q) ELSE q

_finduuid(set, uuid) == IF set.first = NULL THEN NULL ELSE Descend(set.node, uuid, set.first)

finduuid(set, uuid) ==
  LET p == _finduuid(set, uuid)
  IN  IF p = NULL \/ Uuid(p) # uuid THEN NULL ELSE p

-----------------------------------------------------------------------------
\* A link of the tree: <<NULL, 0>> for set->first, else <<node, bit>>.
Root == <<NULL, 0>>
Link(set, l, q) == IF l = Root THEN [set EXCEPT !.first = q]
                   ELSE [set EXCEPT !.node[l[1]].nxt[l[2]] = q]

\* Where a node that tests bit loc is inserted: the link there and what it points to.
RECURSIVE Place(_, _, _, _, _)
Place(node, uuid, loc, l, p) ==
  IF node[p].loc >= loc THEN <<l, p>>
  ELSE LET b == testbit(uuid, node[p].loc)
           q == node[p].nxt[b]
       IN  IF node[q].loc <= node[p].loc THEN <<<<p, b>>, q>>
           ELSE Place(node, uuid, loc, <<p, b>>, q)

\* adduuid returns -1 and leaves the set alone when the UUID is in it.
adduuid(set, ptr) ==
  LET u   == Uuid(ptr)
      tp  == _finduuid(set, u)
      loc == IF tp = NULL THEN UUTERM ELSE matchuuid(u, Uuid(tp))
      add(s) == [s EXCEPT !.node = [p \in DOMAIN s.node \cup {ptr} |->
                   IF p = ptr THEN [loc |-> loc, nxt |-> [b \in 0 .. 1 |-> ptr]] ELSE s.node[p]]]
  IN  IF tp = NULL THEN Link(add(set), Root, ptr)
      ELSE IF Uuid(tp) = u THEN set
      ELSE LET at == Place(set.node, u, loc, Root, set.first)
               s  == Link(add(set), at[1], ptr)
           IN  [s EXCEPT !.node[ptr].nxt[1 - testbit(u, loc)] = at[2]]

-----------------------------------------------------------------------------
\* The walk of unlinkuuid: the external parent of uup, its parent, the link to uup as
\* an internal node, and the bit and node the walk ended at.
RECURSIVE Walk(_, _, _, _, _, _)
Walk(node, uuid, uup, pext, gpext, pint) ==
  LET bit  == testbit(uuid, node[pext].loc)
      tp   == node[pext].nxt[bit]
      pint2 == IF tp = uup THEN <<pext, bit>> ELSE pint
      end(l) == [pext |-> pext, gpext |-> gpext, pint |-> l, bit |-> bit, tp |-> tp]
  IN  IF node[tp].loc <= node[pext].loc THEN end(pint)
      ELSE IF isuuterm(node[tp].loc) THEN end(pint2)
      ELSE Walk(node, uuid, uup, tp, pext, pint2)

WalkOf(set, uup) == Walk(set.node, Uuid(uup), uup, set.first, NULL, Root)

Drop(set, p) == [set EXCEPT !.node = [q \in DOMAIN set.node \ {p} |-> set.node[q]]]

\* Mutant: the other child of the external parent is forgotten.
Relink_not(set, w, uuid) == set

\* The other child of pext takes its place.
Relink(set, w, uuid) ==
  Link(set, <<w.gpext, testbit(uuid, set.node[w.gpext].loc)>>, set.node[w.pext].nxt[1 - w.bit])

\* pext takes the place of tp.
Replace(set, w, nxt) ==
  [set EXCEPT !.node[w.pext] = [loc |-> set.node[w.tp].loc, nxt |-> nxt]]

unlinkuuid(set, uup) ==
  IF _finduuid(set, Uuid(uup)) # uup THEN set
  ELSE LET u     == Uuid(uup)
           w     == WalkOf(set, uup)
           moved == Link(set, w.pint, w.pext)
           s     == IF w.gpext # NULL THEN Relink(moved, w, u)
                    ELSE [moved EXCEPT !.first = moved.node[w.pext].nxt[1 - w.bit]]
           self  == [b \in 0 .. 1 |-> w.pext]
       IN  Drop(IF w.gpext # NULL /\ isuuterm(moved.node[w.tp].loc) THEN Replace(s, w, self)
                ELSE IF w.gpext # NULL THEN Replace(s, w, s.node[w.tp].nxt)
                ELSE IF ~isuuterm(moved.node[w.pext].loc) THEN Replace(s, w, moved.node[w.tp].nxt)
                ELSE [moved EXCEPT !.first = NULL], uup)

\* The node that tests no bit is removed, and its parent is the root: its links to
\* itself are copied to the parent, which is to take its place, and it is freed.
LeavesWild(set, uup) ==
  /\ _finduuid(set, Uuid(uup)) = uup
  /\ WalkOf(set, uup).gpext = NULL
  /\ isuuterm(set.node[uup].loc) /\ ~isuuterm(set.node[set.first].loc)

-----------------------------------------------------------------------------
\* FOR_EACH_UUID, which returns up the tree without recursion by its stack.
RECURSIVE Down(_, _, _), Visit(_, _, _, _, _)
Down(node, tp, stk) ==
  LET n == node[tp].nxt[0]
  IN  IF node[n].loc > node[tp].loc /\ ~isuuterm(node[n].loc)
      THEN Down(node, n, Append(stk, tp))
      ELSE Visit(node, tp, n, FALSE, stk)
Visit(node, tp, n, rtd, stk) ==
  IF rtd /\ stk = <<>> THEN <<n>>
  ELSE LET up  == IF rtd THEN stk[Len(stk)] ELSE tp
           st  == IF rtd THEN SubSeq(stk, 1, Len(stk) - 1) ELSE stk
           n1  == node[up].nxt[1]
           one == isuuterm(node[node[up].nxt[0]].loc)
       IN  IF isuuterm(node[n1].loc)
           THEN IF one THEN <<n>> ELSE <<n>> \o Visit(node, up, n1, TRUE, st)
           ELSE IF node[n1].loc > node[up].loc THEN <<n>> \o Down(node, n1, st)
           ELSE <<n>> \o Visit(node, up, n1, TRUE, st)

ForEach(set) == IF set.first = NULL THEN <<>> ELSE Down(set.node, set.first, <<>>)
===============================================================================
