----------------------------- MODULE MCDdlParse -----------------------------
(***************************************************************************)
(* DdlParse on documents of a bounded weight, to which each property adds  *)
(* one and more for each thing that few properties have.  The document is  *)
(* about addresses, about references or about values: the three do not     *)
(* meet in the parser except in the tree of devices and arrays.            *)
(***************************************************************************)
EXTENDS DmpDevice

CONSTANTS
  MaxWeight,
  MaxBeside   \* properties in a document of SideBySide

\* As arrays: {1, 6}, {2, 8}, {5, 11}, with room for others between their elements, and
\* {9, 12}, which a parameter may move.  The second property is longer, that at 5 cannot be
\* written; the one at 7 is nobody's child, and as an array it lacks its inc.
Attributes(l) ==
  [loc |-> l, byParam |-> l = 9, abs |-> l = 7,
   inc |-> CASE l = 1 -> 5 [] l = 7 -> 0 [] l = 9 -> 3 [] OTHER -> 6,
   size |-> IF l = 2 THEN 2 ELSE 1,
   access |-> IF l = 5 THEN {"read"} ELSE {"read", "write", "event"}]
MCProprefs == {Attributes(l) : l \in {1, 2, 5, 7, 9}}
MCRules == {[loc |-> 1, inc |-> 1, abs |-> FALSE], [loc |-> 1, inc |-> 6, abs |-> FALSE],
            [loc |-> 2, inc |-> 0, abs |-> TRUE]}
\* In steps of an inner dimension, past its end; of an inner or outer one or the double
\* of an inner one; and of none, across properties.
MCRanges == {[ofs |-> 0, inc |-> 5, count |-> 3], [ofs |-> 0, inc |-> 6, count |-> 2],
             [ofs |-> 0, inc |-> 1, count |-> 4]}
\* All ids want the same slot of four, and one of two slots of eight.
MChash == [k \in (1 .. MaxProps) \X Ids |-> 4 * k[1] + 1]
MCPaths == {<<"a">>, <<"..", "a">>}

Subjects(p) ==
  {t \in {"addresses", "references", "values"} :
     CASE t = "addresses"  -> p.vtype = "net" \/ p.rule # NoRule \/ p.setp # <<>>
       [] t = "references" -> p.vtype = "alias" \/ p.id # NULL
       [] t = "values"     -> p.vtype = "imm"}
About == UNION {Subjects(props[i]) : i \in DOMAIN props}

One(b) == IF b THEN 1 ELSE 0
Weight(p) ==
  One(p.parent # 0) + (p.array - 1) + One(p.rule # NoRule /\ p.array = 1) + One(p.rule.abs)
  + One(p.vtype = "null") + One(p.ownId) + One(p.setp # <<>>)
  + One(p.at # <<>> /\ (Head(p.at).byParam \/ Head(p.at).loc > 4))
TotalWeight ==
  LET w[i \in 0 .. Len(props)] == IF i = 0 THEN 0 ELSE w[i - 1] + Weight(props[i])
  IN  w[Len(props)]

\* Properties side by side, which meet in the address map only; those that are no arrays
\* lie among or above the arrays.
SideBySide ==
  Len(props) <= MaxBeside + 1 /\ \A i \in DOMAIN props \ {Root} :
    /\ props[i].parent = Root /\ props[i].vtype = "net"
    /\ props[i].id = NULL /\ props[i].rule = NoRule
    /\ props[i].array < 3
    /\ props[i].array = 1 /\ props[i].at # <<>> => Head(props[i].at).loc > 2

Small ==
  /\ SideBySide \/ TotalWeight <= MaxWeight
  /\ Cardinality(About) <= 1
=============================================================================
