------------------------------- MODULE DmpMap -------------------------------
(***************************************************************************)
(* The DMP address map of a device: built region by region as the DDL      *)
(* parser meets the properties (mapprop of csrc/ddlparse.c), searched for  *)
(* each address of a received message (csrc/dmpmap.c), and perhaps turned  *)
(* into a direct index.                                                    *)
(*                                                                         *)
(* The map is an allocated block longer than its `count' regions, so a     *)
(* region written past the end is lost, not out of bounds.  A region with  *)
(* ntests > 1 points to a table of properties, kept in `tables'.           *)
(***************************************************************************)
EXTENDS Naturals, Integers, Sequences, FiniteSets, SequencesExt

CONSTANTS
  Top,         \* addresses are 0 .. Top
  MaxRegions,  \* bound on the regions allocated
  Layouts,     \* which of the Mishaps a document may have
  NULL

\* Layouts of properties that mapprop or propmatch do not get right: see Mishap.
Mishaps == {"interleavesItself", "sameAddresses", "startsPacked", "gapPacked", "endsPacked",
            "endsOnRegion", "sharedTable"}

ASSUME MapAssumption ==
  /\ Top \in Nat /\ MaxRegions \in Nat
  /\ Layouts \subseteq Mishaps

VARIABLES
  amap,     \* [type, count, map] of the addrmap_u
  tables,   \* what each allocated table of a region holds
  mapped    \* the dmpprop_s mapped so far: [prop, addr, dims, packed]

-----------------------------------------------------------------------------
\* The addresses of an array: one for each combination of indexes.
RECURSIVE Offsets(_)
Offsets(dims) ==
  IF dims = <<>> THEN {0}
  ELSE {o + k * Head(dims).inc : o \in Offsets(Tail(dims)), k \in 0 .. Head(dims).cnt - 1}
Addresses(p) == {p.addr + o : o \in Offsets(p.dims)}

\* arraytotal: the elements of the array.
RECURSIVE Elems(_)
Elems(dims) == IF dims = <<>> THEN 1 ELSE Head(dims).cnt * Elems(Tail(dims))

\* dim[]: the largest increment first.
dim(p) == SortSeq(p.dims, LAMBDA a, b : a.inc > b.inc)

ndims(p) == Len(p.dims)
Extent(d) == d.inc * (d.cnt - 1)
RECURSIVE SumExtent(_)
SumExtent(ds) == IF ds = <<>> THEN 0 ELSE Extent(Head(ds)) + SumExtent(Tail(ds))

span(p) == SumExtent(p.dims) + 1
overlap(p) ==
  LET ds == dim(p)
  IN  \E i \in 1 .. Len(ds) - 1 : ds[i].inc < SumExtent(SubSeq(ds, i + 1, Len(ds))) + 1

\* dimmatch: does offset a0 fall on the dimensions from the i-th on?
RECURSIVE dimmatch(_, _, _, _, _)
dimmatch(ds, i, a0, maxad, t) ==
  IF a0 = 0 THEN TRUE
  ELSE IF i < Len(ds)
  THEN LET rest == maxad - t[i]
           b    == IF rest >= a0 THEN 0 ELSE a0 - (a0 % ds[i].inc) - rest
       IN  \E x \in {x \in b .. t[i] : (x - b) % ds[i].inc = 0} :
             dimmatch(ds, i + 1, a0 - x, rest, t)
  ELSE a0 % ds[i].inc = 0 /\ a0 \div ds[i].inc < ds[i].cnt

\* The dimensions one after the other, when each is within the one before.
RECURSIVE nested(_, _, _)
nested(ds, i, a0) ==
  /\ i <= Len(ds) /\ a0 < ds[i].inc * ds[i].cnt
  /\ (a0 % ds[i].inc = 0 \/ nested(ds, i + 1, a0 % ds[i].inc))

propmatch(p, addr) ==
  LET a0 == addr - p.addr
      ds == dim(p)
      t  == [i \in DOMAIN ds |->
               LET x == Extent(ds[i])
               IN  IF a0 < x THEN a0 - (a0 % ds[i].inc) ELSE x]
  IN  /\ a0 >= 0 /\ a0 < span(p)
      /\ \/ a0 = 0 \/ p.packed
         \/ ~ overlap(p) /\ nested(ds, 1, a0)
         \/ overlap(p) /\ dimmatch(ds, 1, a0, FoldLeft(LAMBDA a, b : a + b, 0, t), t)

-----------------------------------------------------------------------------
\* Regions are numbered from 0, as in the code.
Region == amap.map
Used == 0 .. amap.count - 1
NoRegion == [lo |-> 0, hi |-> 0, ntests |-> 0, p |-> NULL]

\* The properties of a region, in the order they are tested.
PropsOf(af) == IF af.ntests > 1 THEN SubSeq(tables[af.p], 1, af.ntests) ELSE <<af.p>>

\* addr_to_map: bisection.
RECURSIVE bisect(_, _, _)
bisect(alo, n, addr) ==
  IF n = 0 THEN NULL
  ELSE LET af == Region[alo + n \div 2]
       IN  IF addr < af.lo THEN bisect(alo, n \div 2, addr)
           ELSE IF addr <= af.hi THEN af
           ELSE bisect(alo + n \div 2 + 1, (n - 1) \div 2, addr)

FirstMatch(ps, addr) ==
  LET m == {i \in DOMAIN ps : propmatch(ps[i], addr)}
  IN  IF m = {} THEN NULL ELSE ps[CHOOSE i \in m : \A j \in m : i <= j]

addr_to_prop(addr) ==
  IF amap.type = "indx"
  THEN IF addr \in DOMAIN amap.map THEN amap.map[addr] ELSE NULL
  ELSE LET af == bisect(0, amap.count, addr)
       IN  IF af = NULL THEN NULL
           ELSE IF af.ntests = 0 THEN af.p
           ELSE FirstMatch(PropsOf(af), addr)

\* findaddr: the region that holds addr, or the first above it.
findaddr(addr) ==
  LET above == {i \in Used : addr <= Region[i].hi}
  IN  IF above = {} THEN amap.count ELSE CHOOSE i \in above : \A j \in above : i <= j

-----------------------------------------------------------------------------
\* mapprop, once it knows where the property goes.  memmove of all from i on:
Moved(i, by) == [k \in 0 .. MaxRegions - 1 |->
                   IF k >= i + by /\ k < amap.count + by THEN Region[k - by] ELSE Region[k]]

\* No region is in the way: one more.
Apart(i, p, base, ulim) ==
  amap' = [amap EXCEPT
    !.count = @ + 1,
    !.map = [Moved(i, 1) EXCEPT ![i] = [lo |-> base, hi |-> ulim,
                                        ntests |-> IF p.packed THEN 0 ELSE 1, p |-> p]]]

\* A packed property splits the region it falls into; both parts keep what the
\* region pointed to.
Split(i, p, base, ulim) ==
  amap' = [amap EXCEPT
    !.count = @ + 2,
    !.map = [Moved(i, 2) EXCEPT ![i].hi = base - 1,
                                ![i + 1] = [lo |-> base, hi |-> ulim, ntests |-> 0, p |-> p],
                                ![i + 2].lo = ulim + 1]]

\* The regions a sparse property needs between packed ones: a first look.
RECURSIVE NewRegions(_, _, _, _)
NewRegions(j, lasthi, n, ulim) ==
  IF j + 1 < amap.count /\ Region[j + 1].lo < ulim
  THEN LET oaf == Region[j + 1]
       IN  IF oaf.ntests = 0
           THEN NewRegions(j + 1, oaf.hi + 1,
                           IF lasthi # 0 /\ lasthi < oaf.lo THEN n + 1 ELSE n, ulim)
           ELSE NewRegions(j + 1, 0, n, ulim)
  ELSE IF lasthi # 0 THEN n + 1 ELSE n

\* ... and the pass that joins it to the sparse regions and fills the gaps.
\* s: the map, the tables, af, oaf (which is j) and base.
RECURSIVE Merge(_, _, _)
Merge(s, p, ulim) ==
  IF s.base >= ulim THEN s
  ELSE LET o == s.map[s.oaf]
  IN IF o.ntests > 0
     THEN LET lo   == IF s.base < o.lo THEN s.base ELSE o.lo
              hi0  == IF ulim > o.hi THEN ulim ELSE o.hi
              old  == s.map[s.af].p
              id   == Len(s.tables) + 1
              tab  == IF o.ntests = 1 THEN <<old, p>>
                      ELSE IF o.ntests < Len(s.tables[old])
                      THEN [s.tables[old] EXCEPT ![o.ntests + 1] = p]
                      ELSE Append(s.tables[old], p)
              nxt  == s.oaf + 1
              hi   == IF nxt < s.count /\ s.map[nxt].lo < hi0 THEN s.map[nxt].lo - 1 ELSE hi0
              af   == [lo |-> lo, hi |-> hi, ntests |-> o.ntests + 1,
                       p |-> IF o.ntests = 1 THEN id ELSE old]
          IN Merge([s EXCEPT !.map[s.af] = af,
                             !.tables = IF o.ntests = 1 THEN Append(@, tab)
                                        ELSE [@ EXCEPT ![old] = tab],
                             !.af = @ + 1, !.oaf = nxt, !.base = hi + 1], p, ulim)
     ELSE LET m1   == [s.map EXCEPT ![s.af] = o]
              b    == o.hi + 1
              nxt  == s.oaf + 1
              gap  == nxt = s.count \/ (s.map[nxt].ntests = 0 /\ s.map[nxt].lo > b)
              hi   == IF nxt = s.count THEN ulim ELSE s.map[nxt].lo - 1
          IN Merge([s EXCEPT !.map = IF gap THEN [m1 EXCEPT ![s.af + 1] =
                                                   [lo |-> b, hi |-> hi, ntests |-> 1, p |-> p]]
                                     ELSE m1,
                             !.af = @ + 1, !.oaf = nxt,
                             !.base = IF gap THEN hi + 1 ELSE b], p, ulim)

Join(i, p, base, ulim) ==
  LET nnew == NewRegions(i, 0, 0, ulim)
      s == Merge([map |-> Moved(i, nnew), tables |-> tables, count |-> amap.count + nnew,
                  af |-> i, oaf |-> i + nnew, base |-> base], p, ulim)
  IN  amap' = [amap EXCEPT !.count = @ + nnew, !.map = s.map] /\ tables' = s.tables

-----------------------------------------------------------------------------
(***************************************************************************)
(* Bounds on the documents.  The regions a property reaches, and which of  *)
(* the layouts that go wrong it has: a sparse property that is joined to   *)
(* them begins below a packed one (3374 says it is sparse), spans two   *)
(* packed ones and the space between, ends above a packed one but not in   *)
(* the simple way that leaves one new region behind all that it joined,    *)
(* ends where a region begins, which the comparisons with ulim miss, or    *)
(* takes a place in a table that the two parts of a split region share and *)
(* the other has filled.                                                   *)
(***************************************************************************)
LastAddress(p) == p.addr + span(p) - 1
Under(p) == {k \in Used : p.addr <= Region[k].hi /\ Region[k].lo <= LastAddress(p)}
PackedAt(k) == Region[k].ntests = 0

Mishap(l, p) ==
  LET joined == IF p.packed THEN {} ELSE Under(p)
      above  == {k \in joined : \E j \in joined : j < k}   \* all but the first
      top    == Max(joined)
  IN  CASE l = "interleavesItself" -> overlap(p)
        [] l = "sameAddresses" ->
             Cardinality(Offsets(p.dims)) < Elems(p.dims)
        [] l = "startsPacked" -> \E k \in joined \ above : PackedAt(k)
        [] l = "gapPacked" ->
             \E k \in joined : /\ k + 1 \in joined /\ PackedAt(k) /\ PackedAt(k + 1)
                              /\ Region[k].hi + 1 < Region[k + 1].lo
        [] l = "endsPacked" ->
             /\ joined # {} /\ PackedAt(top)
             /\ \/ \E k \in above : ~ PackedAt(k)
                \/ top + 1 \in Used /\ ~ PackedAt(top + 1)
        [] l = "endsOnRegion" -> \E k \in above : Region[k].lo = LastAddress(p)
        [] l = "sharedTable" ->
             \E k \in joined, j \in Used :
               /\ Region[k].ntests > 1 /\ Region[j].ntests > Region[k].ntests
               /\ Region[j].p = Region[k].p

\* The document has the property at addresses of its own.
Allowed(p) ==
  /\ \A q \in mapped : Addresses(q) \cap Addresses(p) = {}
  /\ \A l \in Mishaps \ Layouts : ~ Mishap(l, p)

-----------------------------------------------------------------------------

\* total: the element count of the array, or what the parser takes for it.
mapprop(np, total) ==
  LET p    == [np EXCEPT !.packed = span(np) = total]
      base == p.addr
      ulim == base + span(p) - 1
      i    == findaddr(base)
  IN  IF span(p) < total THEN UNCHANGED <<amap, tables, mapped>>
      ELSE /\ Allowed(p)
           /\ mapped' = mapped \cup {p}
           /\ IF i = amap.count \/ ulim < Region[i].lo
              THEN Apart(i, p, base, ulim) /\ UNCHANGED tables
              ELSE IF p.packed THEN Split(i, p, base, ulim) /\ UNCHANGED tables
              ELSE Join(i, p, base, ulim)

\* freesrchmap frees the table of each region.
TableOwned ==
  \A i, j \in Used : Region[i].ntests > 1 /\ Region[j].ntests > 1
                     /\ Region[i].p = Region[j].p => i = j

\* indexprop writes the property at each of its addresses.
xformtoindx ==
  LET all == UNION {Range(PropsOf(Region[k])) : k \in Used}
  IN  /\ amap.type = "srch" /\ amap.count > 0 /\ TableOwned
      /\ amap' = [type |-> "indx", count |-> 0,
                  map |-> [a \in Region[0].lo .. Region[amap.count - 1].hi |->
                             IF \E q \in all : a \in Addresses(q)
                             THEN CHOOSE q \in all : a \in Addresses(q) ELSE NULL]]
      /\ tables' = <<>> /\ UNCHANGED mapped

MapInit ==
  /\ amap = [type |-> "srch", count |-> 0, map |-> [k \in 0 .. MaxRegions - 1 |-> NoRegion]]
  /\ tables = <<>> /\ mapped = {}
=============================================================================
