-------------------------------- MODULE Keys --------------------------------
(***************************************************************************)
(* The hash table of csrc/keys.c, with open addressing and double hashing, *)
(* that doubles when it is half full.  An entry is a record whose field    *)
(* `key' is the name it is found by; the hash of a name is any number.     *)
(***************************************************************************)
EXTENDS Integers, FiniteSets, SequencesExt

CONSTANTS
  hash,       \* of each key, salt included
  INITPOWER,  \* the first table has 2^INITPOWER slots
  Free        \* an empty slot

NoTable == [power |-> 0, used |-> 0, v |-> <<>>]
size(power) == 2 ^ power

\* PROBE_STEP: from the bits of the hash that the index does not use; odd, and so
\* prime to the size.
SECOND_HASH(h, power) == IF power < 2 THEN 0 ELSE (2 * (h \div size(power))) % size(power - 2)
PROBE_STEP(h, power) == (SECOND_HASH(h, power) + 1) % 256

\* The n-th slot that is tried, and the first of them that holds the key or nothing.
Slot(h, power, n) == (h - n * PROBE_STEP(h, power)) % size(power)
Place(v, power, key) ==
  LET slot(n) == Slot(hash[key], power, n)
      fits    == {n \in 0 .. size(power) - 1 : v[slot(n)] = Free \/ v[slot(n)].key = key}
  IN  slot(CHOOSE n \in fits : \A m \in fits : n <= m)

Put(v, power, entry) == [v EXCEPT ![Place(v, power, entry.key)] = entry]
Empty(power) == [i \in 0 .. size(power) - 1 |-> Free]

\* The table doubled: what was in it is entered again, in the order of its slots.
growtable(t) ==
  IF t.v = <<>> THEN [power |-> INITPOWER, used |-> 0, v |-> Empty(INITPOWER)]
  ELSE [t EXCEPT !.power = @ + 1,
                 !.v = FoldLeft(LAMBDA v, i : IF t.v[i - 1] = Free THEN v
                                              ELSE Put(v, t.power + 1, t.v[i - 1]),
                                Empty(t.power + 1), [i \in 1 .. size(t.power) |-> i])]

\* findornewkey without `create'.
findkey(t, key) ==
  IF t.v = <<>> THEN Free ELSE t.v[Place(t.v, t.power, key)]

addkey(t, entry) ==
  LET t1 == IF t.v = <<>> THEN growtable(t) ELSE t
      t2 == [t1 EXCEPT !.used = @ + 1, !.v = Put(@, t1.power, entry)]
  IN  IF findkey(t, entry.key) # Free THEN t
      ELSE IF t2.used >= size(t2.power - 1) THEN growtable(t2) ELSE t2

Entries(t) == {t.v[i] : i \in DOMAIN t.v} \ {Free}
=============================================================================
