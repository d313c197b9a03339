---------------------------- MODULE ServiceProofs ----------------------------
(***************************************************************************)
(* Proofs about two services that run on timers: the event loop's timers   *)
(* (EvlTimers), whose sorted queue and the pass over it implement a set of *)
(* deadlines (TimerSet) for any number of timers and a clock of any width, *)
(* and the registration with the service agent (SlpAgent).                 *)
(***************************************************************************)
EXTENDS EvlTimers, SlpAgent, SequenceTheorems, FiniteSetTheorems, IndexLemmas

-----------------------------------------------------------------------------
(***************************************************************************)
(* A clock that counts modulo Width.                                       *)
(***************************************************************************)
Half == Width \div 2

LEMMA WidthFacts ==
  /\ Width \in Nat /\ Half \in Nat /\ 2 * Half <= Width /\ Width <= 2 * Half + 1
  /\ MaxLate \in Nat /\ 1 <= MaxLate /\ MaxLate < Half
  /\ \A d \in Delays : d \in Nat /\ MaxLate + d < Half
  /\ None \notin Timers
<1>1. Width \in Nat /\ MaxLate \in Nat /\ 1 <= MaxLate /\ None \notin Timers
      /\ Delays \subseteq Nat
  BY TimersAssumption
<1>2. \A d \in Delays \cup {0} : MaxLate + d < Half
  BY TimersAssumption DEF Half
<1>3. Half \in Nat /\ 2 * Half <= Width /\ Width <= 2 * Half + 1
  BY <1>1 DEF Half
<1>4. MaxLate < Half
  BY <1>1, <1>2, <1>3
<1> QED
  BY <1>1, <1>2, <1>3, <1>4

\* Differences and sums of times.
LEMMA Minus ==
  ASSUME NEW a \in Time, NEW b \in Time
  PROVE  (a - b) % Width = IF a >= b THEN a - b ELSE a - b + Width
<1>1. a \in Int /\ b \in Int /\ 0 <= a /\ a < Width /\ 0 <= b /\ b < Width
  BY WidthFacts DEF Time
<1> QED
  BY <1>1, WidthFacts

LEMMA Plus ==
  ASSUME NEW n \in Time, NEW d \in Nat, d < Width
  PROVE  (n + d) % Width = IF n + d < Width THEN n + d ELSE n + d - Width
<1>1. n \in Int /\ 0 <= n /\ n < Width
  BY WidthFacts DEF Time
<1> QED
  BY <1>1, WidthFacts

\* How far e is after n, or before it.
Signed(e, n) == IF (e - n) % Width < Half THEN (e - n) % Width ELSE ((e - n) % Width) - Width

Near(e, n) == e \in Time /\ n \in Time
              /\ Signed(e, n) >= - MaxLate /\ Signed(e, n) + MaxLate < Half

LEMMA SignedIs ==
  ASSUME NEW e \in Time, NEW n \in Time
  PROVE  /\ Signed(e, n) \in Int
         /\ \/ Signed(e, n) = e - n
            \/ Signed(e, n) = e - n + Width
            \/ Signed(e, n) = e - n - Width
         /\ - Width <= 2 * Signed(e, n) + 1 /\ Signed(e, n) < Half
<1>1. e \in Int /\ n \in Int /\ 0 <= e /\ e < Width /\ 0 <= n /\ n < Width
  BY WidthFacts DEF Time
<1> QED
  BY <1>1, Minus, WidthFacts DEF Signed

\* Of two times near n the signed difference says which is later.
LEMMA OrderIs ==
  ASSUME NEW n, NEW a, NEW b, Near(a, n), Near(b, n)
  PROVE  inTimeOrder(a, b) <=> Signed(a, n) < Signed(b, n)
<1>1. a \in Time /\ b \in Time /\ n \in Time
  BY DEF Near
<1>2. /\ a \in Int /\ 0 <= a /\ a < Width /\ b \in Int /\ 0 <= b /\ b < Width
      /\ n \in Int /\ 0 <= n /\ n < Width
  BY <1>1, WidthFacts DEF Time
<1>3. PICK x \in Int : /\ x = Signed(a, n) /\ - MaxLate <= x /\ x + MaxLate < Half
                       /\ (x = a - n \/ x = a - n + Width \/ x = a - n - Width)
  BY <1>1, SignedIs DEF Near
<1>4. PICK y \in Int : /\ y = Signed(b, n) /\ - MaxLate <= y /\ y + MaxLate < Half
                       /\ (y = b - n \/ y = b - n + Width \/ y = b - n - Width)
  BY <1>1, SignedIs DEF Near
<1>5. (b - a) % Width = IF b >= a THEN b - a ELSE b - a + Width
  BY <1>1, Minus
<1>6. PICK z \in Int : z = (b - a) % Width /\ z = IF b >= a THEN b - a ELSE b - a + Width
  BY <1>2, <1>5, WidthFacts
<1>7. inTimeOrder(a, b) <=> z \in 1 .. Half - 1
  BY <1>6 DEF inTimeOrder, timediff, Half
<1>8. z \in 1 .. Half - 1 <=> x < y
  BY <1>2, <1>3, <1>4, <1>6, WidthFacts
<1> QED
  BY <1>3, <1>4, <1>7, <1>8

\* A timer set now.
LEMMA SetIsNear ==
  ASSUME NEW n \in Time, NEW d \in Delays
  PROVE  Near((n + d) % Width, n)
<1>1. d \in Nat /\ MaxLate + d < Half /\ d < Width
  BY WidthFacts
<1>2. n \in Int /\ 0 <= n /\ n < Width
  BY WidthFacts DEF Time
<1>3. PICK e : e = (n + d) % Width /\ e = IF n + d < Width THEN n + d ELSE n + d - Width
  BY <1>1, Plus
<1>4. e \in Time
  BY <1>1, <1>2, <1>3, WidthFacts DEF Time
<1>5. (e - n) % Width = d
  <2>1. (e - n) % Width = IF e >= n THEN e - n ELSE e - n + Width
    BY <1>4, Minus
  <2> QED
    BY <1>1, <1>2, <1>3, <2>1, WidthFacts
<1>6. Signed(e, n) = d
  <2>1. d < Half
    BY <1>1, WidthFacts
  <2> QED
    BY <1>5, <2>1 DEF Signed
<1> QED
  BY <1>1, <1>3, <1>4, <1>6, WidthFacts DEF Near

\* The clock runs on.
LEMMA TickIs ==
  ASSUME NEW n \in Time, NEW e, Near(e, n), (n - e) % Width # MaxLate
  PROVE  /\ (n + 1) % Width \in Time /\ Near(e, (n + 1) % Width)
         /\ Signed(e, (n + 1) % Width) = Signed(e, n) - 1
<1>1. /\ e \in Time /\ e \in Int /\ 0 <= e /\ e < Width /\ n \in Int /\ 0 <= n /\ n < Width
  BY WidthFacts DEF Time, Near
<1>2. PICK m : m = (n + 1) % Width /\ m = IF n + 1 < Width THEN n + 1 ELSE n + 1 - Width
  <2>1. 1 \in Nat /\ 1 < Width
    BY WidthFacts
  <2> QED
    BY <2>1, Plus
<1>3. m \in Time
  BY <1>1, <1>2, WidthFacts DEF Time
<1>4. PICK x \in Int : x = (e - n) % Width /\ x = IF e >= n THEN e - n ELSE e - n + Width
  <2>1. (e - n) % Width = IF e >= n THEN e - n ELSE e - n + Width
    BY <1>1, Minus
  <2>2. (IF e >= n THEN e - n ELSE e - n + Width) \in Int
    BY <1>1, WidthFacts
  <2> QED
    BY <2>1, <2>2
<1>5. PICK y \in Int : y = (e - m) % Width /\ y = IF e >= m THEN e - m ELSE e - m + Width
  <2>1. (e - m) % Width = IF e >= m THEN e - m ELSE e - m + Width
    BY <1>1, <1>2, <1>3, Minus
  <2>2. (IF e >= m THEN e - m ELSE e - m + Width) \in Int
    BY <1>1, <1>2, <1>3, WidthFacts
  <2> QED
    BY <2>1, <2>2
<1>6. PICK z \in Int : z = (n - e) % Width /\ z = IF n >= e THEN n - e ELSE n - e + Width
  <2>1. (n - e) % Width = IF n >= e THEN n - e ELSE n - e + Width
    BY <1>1, Minus
  <2>2. (IF n >= e THEN n - e ELSE n - e + Width) \in Int
    BY <1>1, WidthFacts
  <2> QED
    BY <2>1, <2>2
<1>7. Signed(e, n) = (IF x < Half THEN x ELSE x - Width)
      /\ Signed(e, m) = (IF y < Half THEN y ELSE y - Width)
  BY <1>4, <1>5 DEF Signed
<1>8. /\ (IF x < Half THEN x ELSE x - Width) >= - MaxLate
      /\ (IF x < Half THEN x ELSE x - Width) + MaxLate < Half
  BY <1>7 DEF Near
<1>9. (IF y < Half THEN y ELSE y - Width) = (IF x < Half THEN x ELSE x - Width) - 1
      /\ (IF y < Half THEN y ELSE y - Width) >= - MaxLate
  BY <1>1, <1>2, <1>4, <1>5, <1>6, <1>8, WidthFacts
<1>10. (IF y < Half THEN y ELSE y - Width) + MaxLate < Half
  BY <1>8, <1>9, WidthFacts
<1> QED
  BY <1>1, <1>2, <1>3, <1>7, <1>9, <1>10 DEF Near

\* A pass does not take so long that what had expired when it began is not
\* recognised.
LEMMA ExpiredIs ==
  ASSUME NEW n \in Time, NEW s \in Time, (n - s) % Width <= MaxLate,
         NEW e, Near(e, n), ~ inTimeOrder(s, e)
  PROVE  Signed(e, n) <= 0
<1>1. /\ e \in Time /\ e \in Int /\ 0 <= e /\ e < Width /\ n \in Int /\ 0 <= n /\ n < Width
      /\ s \in Int /\ 0 <= s /\ s < Width
  BY WidthFacts DEF Time, Near
<1>2. PICK x \in Int : x = (e - n) % Width /\ x = IF e >= n THEN e - n ELSE e - n + Width
  <2>1. (e - n) % Width = IF e >= n THEN e - n ELSE e - n + Width
    BY <1>1, Minus
  <2>2. (IF e >= n THEN e - n ELSE e - n + Width) \in Int
    BY <1>1, WidthFacts
  <2> QED
    BY <2>1, <2>2
<1>3. PICK y \in Int : y = (n - s) % Width /\ y = IF n >= s THEN n - s ELSE n - s + Width
  <2>1. (n - s) % Width = IF n >= s THEN n - s ELSE n - s + Width
    BY <1>1, Minus
  <2>2. (IF n >= s THEN n - s ELSE n - s + Width) \in Int
    BY <1>1, WidthFacts
  <2> QED
    BY <2>1, <2>2
<1>4. PICK z \in Int : z = (e - s) % Width /\ z = IF e >= s THEN e - s ELSE e - s + Width
  <2>1. (e - s) % Width = IF e >= s THEN e - s ELSE e - s + Width
    BY <1>1, Minus
  <2>2. (IF e >= s THEN e - s ELSE e - s + Width) \in Int
    BY <1>1, WidthFacts
  <2> QED
    BY <2>1, <2>2
<1>5. Signed(e, n) = IF x < Half THEN x ELSE x - Width
  BY <1>2 DEF Signed
<1>6. /\ (IF x < Half THEN x ELSE x - Width) >= - MaxLate
      /\ (IF x < Half THEN x ELSE x - Width) + MaxLate < Half
  BY <1>5 DEF Near
<1>7. z \notin 1 .. Half - 1
  BY <1>4 DEF inTimeOrder, timediff, Half
<1>8. (IF x < Half THEN x ELSE x - Width) <= 0
  BY <1>1, <1>2, <1>3, <1>4, <1>6, <1>7, WidthFacts
<1> QED
  BY <1>5, <1>8
-----------------------------------------------------------------------------
(***************************************************************************)
(* The queue as a sequence.                                                *)
(***************************************************************************)
Linked(q) == q \in Seq(Timers) /\ \A i, j \in 1 .. Len(q) : q[i] = q[j] => i = j

\* r is q without its k-th, and with t before its k-th.
IsWithout(r, q, k) ==
  /\ r \in Seq(Timers) /\ Len(r) = Len(q) - 1
  /\ \A i \in 1 .. Len(r) : r[i] = IF i < k THEN q[i] ELSE q[i + 1]

IsWith(r, q, k, t) ==
  /\ r \in Seq(Timers) /\ Len(r) = Len(q) + 1
  /\ \A i \in 1 .. Len(r) : r[i] = IF i < k THEN q[i] ELSE IF i = k THEN t ELSE q[i - 1]

LEMMA RangeIs ==
  ASSUME NEW q \in Seq(Timers)
  PROVE  /\ Range(q) = {q[i] : i \in 1 .. Len(q)} /\ DOMAIN q = 1 .. Len(q)
         /\ Range(q) \subseteq Timers /\ Len(q) \in Nat
BY DEF Range

LEMMA RemoveAtIs ==
  ASSUME NEW q \in Seq(Timers), NEW k \in 1 .. Len(q)
  PROVE  IsWithout(RemoveAt(q, k), q, k)
<1> DEFINE a == SubSeq(q, 1, k - 1)
           b == SubSeq(q, k + 1, Len(q))
<1>0. Len(q) \in Nat /\ k \in Int /\ 1 <= k /\ k <= Len(q)
  OBVIOUS
<1>1. a \in Seq(Timers) /\ Len(a) = k - 1 /\ \A i \in 1 .. k - 1 : a[i] = q[i]
  <2>1. 1 \in 1 .. Len(q) + 1 /\ k - 1 \in 1 - 1 .. Len(q)
    BY <1>0
  <2> QED
    BY <1>0, <2>1, SubSeqProperties
<1>2. /\ b \in Seq(Timers) /\ Len(b) = Len(q) - k
      /\ \A i \in 1 .. Len(q) - k : b[i] = q[k + i]
  <2>1. k + 1 \in 1 .. Len(q) + 1 /\ Len(q) \in (k + 1) - 1 .. Len(q)
    BY <1>0
  <2>2. /\ b \in Seq(Timers) /\ Len(b) = (Len(q) - (k + 1)) + 1
        /\ \A i \in 1 .. (Len(q) - (k + 1)) + 1 : b[i] = q[(k + 1) + i - 1]
    BY <1>0, <2>1, SubSeqProperties
  <2> HIDE DEF b
  <2>3. Len(b) = Len(q) - k
    BY <1>0, <2>2
  <2>4. ASSUME NEW i \in 1 .. Len(q) - k PROVE b[i] = q[k + i]
    <3>1. i \in 1 .. (Len(q) - (k + 1)) + 1 /\ (k + 1) + i - 1 = k + i
      BY <1>0
    <3> QED
      BY <2>2, <3>1
  <2> QED
    BY <2>2, <2>3, <2>4
<1> HIDE DEF a, b
<1>3. /\ a \o b \in Seq(Timers) /\ Len(a \o b) = Len(a) + Len(b)
      /\ \A i \in 1 .. Len(a) + Len(b) : (a \o b)[i] = IF i <= Len(a) THEN a[i] ELSE b[i - Len(a)]
  BY <1>1, <1>2, ConcatProperties
<1>4. ASSUME NEW i \in 1 .. Len(q) - 1
      PROVE  (a \o b)[i] = IF i < k THEN q[i] ELSE q[i + 1]
  <2>1. (a \o b)[i] = IF i <= k - 1 THEN a[i] ELSE b[i - (k - 1)]
    <3>1. i \in 1 .. Len(a) + Len(b)
      BY <1>0, <1>1, <1>2
    <3>2. (a \o b)[i] = IF i <= Len(a) THEN a[i] ELSE b[i - Len(a)]
      BY <1>3, <3>1
    <3> QED
      BY <1>1, <3>2
  <2>2. CASE i < k
    BY <1>0, <1>1, <2>1, <2>2
  <2>3. CASE ~ (i < k)
    <3>1. i - (k - 1) \in 1 .. Len(q) - k /\ k + (i - (k - 1)) = i + 1
      BY <1>0, <2>3
    <3> QED
      BY <1>0, <1>2, <2>1, <2>3, <3>1
  <2> QED
    BY <2>2, <2>3
<1>5. Len(a \o b) = Len(q) - 1
  BY <1>0, <1>1, <1>2, <1>3
<1> QED
  BY <1>3, <1>4, <1>5 DEF RemoveAt, IsWithout, a, b

LEMMA InsertAtIs ==
  ASSUME NEW q \in Seq(Timers), NEW k \in 1 .. Len(q) + 1, NEW t \in Timers
  PROVE  IsWith(InsertAt(q, k, t), q, k, t)
<1> DEFINE a == SubSeq(q, 1, k - 1)
           c == <<t>>
           b == SubSeq(q, k, Len(q))
<1>0. Len(q) \in Nat /\ k \in Int /\ 1 <= k /\ k <= Len(q) + 1
  OBVIOUS
<1>1. a \in Seq(Timers) /\ Len(a) = k - 1 /\ \A i \in 1 .. k - 1 : a[i] = q[i]
  <2>1. 1 \in 1 .. Len(q) + 1 /\ k - 1 \in 1 - 1 .. Len(q)
    BY <1>0
  <2> QED
    BY <1>0, <2>1, SubSeqProperties
<1>2. /\ b \in Seq(Timers) /\ Len(b) = Len(q) - k + 1
      /\ \A i \in 1 .. Len(q) - k + 1 : b[i] = q[k + i - 1]
  <2>1. k \in 1 .. Len(q) + 1 /\ Len(q) \in k - 1 .. Len(q)
    BY <1>0
  <2> QED
    BY <1>0, <2>1, SubSeqProperties
<1>3. c \in Seq(Timers) /\ Len(c) = 1 /\ c[1] = t
  OBVIOUS
<1> HIDE DEF a, b, c
<1> DEFINE d == a \o c
<1>4. /\ d \in Seq(Timers) /\ Len(d) = k
      /\ \A i \in 1 .. k : d[i] = IF i < k THEN q[i] ELSE t
  <2>1. /\ a \o c \in Seq(Timers) /\ Len(a \o c) = Len(a) + Len(c)
        /\ \A i \in 1 .. Len(a) + Len(c) : (a \o c)[i] = IF i <= Len(a) THEN a[i] ELSE c[i - Len(a)]
    BY <1>1, <1>3, ConcatProperties
  <2> HIDE DEF d
  <2>2. Len(a) + Len(c) = k
    BY <1>0, <1>1, <1>3
  <2>3. ASSUME NEW i \in 1 .. k PROVE (a \o c)[i] = IF i < k THEN q[i] ELSE t
    <3>1. (a \o c)[i] = IF i <= k - 1 THEN a[i] ELSE c[i - (k - 1)]
      BY <1>1, <2>1, <2>2
    <3>2. CASE i < k
      BY <1>0, <1>1, <3>1, <3>2
    <3>3. CASE i = k
      BY <1>0, <1>3, <3>1, <3>3
    <3>4. i < k \/ i = k
      BY <1>0
    <3> QED
      BY <3>2, <3>3, <3>4
  <2> QED
    BY <2>1, <2>2, <2>3 DEF d
<1> HIDE DEF d
<1>5. /\ d \o b \in Seq(Timers) /\ Len(d \o b) = Len(d) + Len(b)
      /\ \A i \in 1 .. Len(d) + Len(b) : (d \o b)[i] = IF i <= Len(d) THEN d[i] ELSE b[i - Len(d)]
  BY <1>2, <1>4, ConcatProperties
<1>6. Len(d \o b) = Len(q) + 1
  BY <1>0, <1>2, <1>4, <1>5
<1>7. ASSUME NEW i \in 1 .. Len(q) + 1
      PROVE  (d \o b)[i] = IF i < k THEN q[i] ELSE IF i = k THEN t ELSE q[i - 1]
  <2>1. (d \o b)[i] = IF i <= k THEN d[i] ELSE b[i - k]
    BY <1>4, <1>5, <1>6
  <2>2. CASE i <= k
    <3>1. i \in 1 .. k
      BY <1>0, <2>2
    <3> QED
      BY <1>0, <1>4, <2>1, <2>2, <3>1
  <2>3. CASE ~ (i <= k)
    <3>1. i - k \in 1 .. Len(q) - k + 1 /\ k + (i - k) - 1 = i - 1
      BY <1>0, <2>3
    <3> QED
      BY <1>0, <1>2, <2>1, <2>3, <3>1
  <2> QED
    BY <2>2, <2>3
<1> QED
  BY <1>5, <1>6, <1>7 DEF InsertAt, IsWith, a, b, c, d

\* q in the order of the times f.
Sorted(q, r) == \A i, j \in 1 .. Len(q) : i < j => r[q[i]] <= r[q[j]]

LEMMA WithoutKeeps ==
  ASSUME NEW q, NEW r, NEW k \in 1 .. Len(q), NEW f, Linked(q), Sorted(q, f), IsWithout(r, q, k)
  PROVE  Linked(r) /\ Range(r) = Range(q) \ {q[k]} /\ Sorted(r, f)
<1> DEFINE At(i) == IF i < k THEN i ELSE i + 1
<1>1. /\ Len(q) \in Nat /\ Len(r) = Len(q) - 1
      /\ q \in Seq(Timers) /\ r \in Seq(Timers)
  BY DEF Linked, IsWithout
<1>2. \A i \in 1 .. Len(r) : At(i) \in 1 .. Len(q) /\ At(i) # k /\ r[i] = q[At(i)]
  BY <1>1 DEF IsWithout
<1>3. \A i, j \in 1 .. Len(r) : (i < j <=> At(i) < At(j)) /\ (At(i) = At(j) => i = j)
  BY <1>1
<1>4. \A n \in 1 .. Len(q) : n # k => \E i \in 1 .. Len(r) : At(i) = n
  <2> SUFFICES ASSUME NEW n \in 1 .. Len(q), n # k PROVE \E i \in 1 .. Len(r) : At(i) = n
    OBVIOUS
  <2>1. CASE n < k
    <3>1. n \in 1 .. Len(r) /\ At(n) = n
      BY <1>1, <2>1
    <3> HIDE DEF At
    <3> QED
      BY <3>1
  <2>2. CASE n > k
    <3>1. n - 1 \in 1 .. Len(r) /\ At(n - 1) = n
      BY <1>1, <2>2
    <3> HIDE DEF At
    <3> QED
      BY <3>1
  <2> QED
    BY <2>1, <2>2
<1> HIDE DEF At
<1>5. Linked(r)
  BY <1>1, <1>2, <1>3 DEF Linked
<1>6. Sorted(r, f)
  BY <1>2, <1>3 DEF Sorted
<1>7. \A x : x \in Range(r) <=> x \in Range(q) /\ x # q[k]
  <2> TAKE x
  <2>1. /\ x \in Range(r) <=> \E i \in 1 .. Len(r) : x = r[i]
        /\ x \in Range(q) <=> \E n \in 1 .. Len(q) : x = q[n]
    <3>1. Range(r) = {r[i] : i \in 1 .. Len(r)}
      BY <1>1, RangeIs
    <3>2. Range(q) = {q[n] : n \in 1 .. Len(q)}
      BY <1>1, RangeIs
    <3> QED
      BY <3>1, <3>2
  <2>2. x \in Range(r) => x \in Range(q) /\ x # q[k]
    BY <1>2, <2>1 DEF Linked
  <2>3. x \in Range(q) /\ x # q[k] => x \in Range(r)
    BY <1>2, <1>4, <2>1
  <2> QED
    BY <2>2, <2>3
<1> QED
  BY <1>5, <1>6, <1>7

LEMMA WithKeeps ==
  ASSUME NEW q, NEW r, NEW k \in 1 .. Len(q) + 1, NEW t \in Timers, NEW f,
         Linked(q), Sorted(q, f), t \notin Range(q), IsWith(r, q, k, t),
         \A i \in 1 .. Len(q) : IF i < k THEN f[q[i]] <= f[t] ELSE f[t] <= f[q[i]]
  PROVE  Linked(r) /\ Range(r) = Range(q) \cup {t} /\ Sorted(r, f)
<1> DEFINE At(i) == IF i < k THEN i ELSE i - 1
<1>1. /\ Len(q) \in Nat /\ Len(r) = Len(q) + 1 /\ k \in 1 .. Len(r)
      /\ q \in Seq(Timers) /\ r \in Seq(Timers) /\ r[k] = t
  BY DEF Linked, IsWith
<1>2. \A i \in 1 .. Len(r) : i # k => At(i) \in 1 .. Len(q) /\ r[i] = q[At(i)]
                                       /\ (i < k <=> At(i) < k)
  BY <1>1 DEF IsWith
<1>3. \A i, j \in 1 .. Len(r) : i # k /\ j # k =>
        (i < j => At(i) < At(j)) /\ (At(i) = At(j) => i = j)
  BY <1>1
<1>4. \A n \in 1 .. Len(q) : \E i \in 1 .. Len(r) : i # k /\ At(i) = n
  <2> SUFFICES ASSUME NEW n \in 1 .. Len(q)
               PROVE  \E i \in 1 .. Len(r) : i # k /\ At(i) = n
    OBVIOUS
  <2>1. CASE n < k
    <3>1. n \in 1 .. Len(r) /\ n # k /\ At(n) = n
      BY <1>1, <2>1
    <3> HIDE DEF At
    <3> QED
      BY <3>1
  <2>2. CASE ~ (n < k)
    <3>1. n + 1 \in 1 .. Len(r) /\ n + 1 # k /\ At(n + 1) = n
      BY <1>1, <2>2
    <3> HIDE DEF At
    <3> QED
      BY <3>1
  <2> QED
    BY <2>1, <2>2
<1> HIDE DEF At
<1>5. \A n \in 1 .. Len(q) : q[n] # t
  BY <1>1, RangeIs
<1>6. Linked(r)
  <2> SUFFICES ASSUME NEW i \in 1 .. Len(r), NEW j \in 1 .. Len(r), r[i] = r[j] PROVE i = j
    BY <1>1 DEF Linked
  <2>1. CASE i = k \/ j = k
    BY <1>1, <1>2, <1>5, <2>1
  <2>2. CASE i # k /\ j # k
    BY <1>2, <1>3, <2>2 DEF Linked
  <2> QED
    BY <2>1, <2>2
<1>7. Sorted(r, f)
  <2> SUFFICES ASSUME NEW i \in 1 .. Len(r), NEW j \in 1 .. Len(r), i < j
               PROVE  f[r[i]] <= f[r[j]]
    BY DEF Sorted
  <2>1. CASE i = k
    <3>1. j # k /\ ~ (j < k)
      BY <1>1, <2>1
    <3> QED
      BY <1>1, <1>2, <2>1, <3>1
  <2>2. CASE j = k
    <3>1. i # k /\ i < k
      BY <1>1, <2>2
    <3> QED
      BY <1>1, <1>2, <2>2, <3>1
  <2>3. CASE i # k /\ j # k
    BY <1>2, <1>3, <2>3 DEF Sorted
  <2> QED
    BY <2>1, <2>2, <2>3
<1>8. \A x : x \in Range(r) <=> x \in Range(q) \/ x = t
  <2> TAKE x
  <2>1. /\ x \in Range(r) <=> \E i \in 1 .. Len(r) : x = r[i]
        /\ x \in Range(q) <=> \E n \in 1 .. Len(q) : x = q[n]
    <3>1. Range(r) = {r[i] : i \in 1 .. Len(r)}
      BY <1>1, RangeIs
    <3>2. Range(q) = {q[n] : n \in 1 .. Len(q)}
      BY <1>1, RangeIs
    <3> QED
      BY <3>1, <3>2
  <2>2. x \in Range(r) => x \in Range(q) \/ x = t
    BY <1>1, <1>2, <2>1
  <2>3. x \in Range(q) \/ x = t => x \in Range(r)
    BY <1>1, <1>2, <1>4, <2>1
  <2> QED
    BY <2>2, <2>3
<1> QED
  BY <1>6, <1>7, <1>8
-----------------------------------------------------------------------------
(***************************************************************************)
(* The invariant: the timers of the queue are in the order of their times, *)
(* which are near now, and a pass has not gone on for long.                *)
(***************************************************************************)
Offsets == [t \in Timers |-> Signed(exptime[t], now)]

QueueInv ==
  /\ now \in Time /\ exptime \in [Timers -> Time]
  /\ Linked(timerqueue) /\ Sorted(timerqueue, Offsets)
  /\ \A t \in Range(timerqueue) : Near(exptime[t], now)

PassInv ==
  /\ pc \in {"pass", "action"} => asof \in Time /\ (now - asof) % Width <= MaxLate
  /\ pc # "action" => running = None

LoopInv == QueueInv /\ PassInv

\* The timers that wait, and their times.
LEMMA HeadIs ==
  ASSUME NEW q, Linked(q), q # <<>>
  PROVE  /\ q[1] \in Range(q) /\ q[1] \in Timers /\ Tail(q) = RemoveAt(q, 1)
         /\ 1 \in 1 .. Len(q) /\ IsWithout(Tail(q), q, 1)
<1>1. q \in Seq(Timers) /\ Len(q) \in Nat /\ 1 \in 1 .. Len(q)
  BY DEF Linked
<1>2. q[1] \in Range(q) /\ q[1] \in Timers
  BY <1>1, RangeIs
<1>3. /\ Tail(q) \in Seq(Timers) /\ Len(Tail(q)) = Len(q) - 1
      /\ \A i \in 1 .. Len(Tail(q)) : Tail(q)[i] = q[i + 1]
  BY <1>1, HeadTailProperties
<1>4. IsWithout(Tail(q), q, 1)
  BY <1>1, <1>3 DEF IsWithout
<1>5. Tail(q) = RemoveAt(q, 1)
  <2>1. IsWithout(RemoveAt(q, 1), q, 1)
    BY <1>1, RemoveAtIs
  <2> QED
    BY <1>4, <2>1, SeqEqual DEF IsWithout
<1> QED
  BY <1>1, <1>2, <1>4, <1>5

LEMMA UnlinkIs ==
  ASSUME NEW q, NEW f, NEW t \in Timers, Linked(q), Sorted(q, f)
  PROVE  /\ Linked(Unlink(q, t)) /\ Sorted(Unlink(q, t), f)
         /\ Range(Unlink(q, t)) = Range(q) \ {t}
<1>1. CASE t \notin Range(q)
  BY <1>1 DEF Unlink
<1>2. CASE t \in Range(q)
  <2>1. /\ DOMAIN q = 1 .. Len(q) /\ \E i \in 1 .. Len(q) : q[i] = t
        /\ q \in Seq(Timers)
    <3>1. q \in Seq(Timers)
      BY DEF Linked
    <3> QED
      BY <1>2, <3>1, RangeIs
  <2>2. PICK k : k = CHOOSE i \in DOMAIN q : q[i] = t
    OBVIOUS
  <2>3. k \in 1 .. Len(q) /\ q[k] = t
    BY <2>1, <2>2
  <2>4. Unlink(q, t) = RemoveAt(q, k)
    BY <1>2, <2>2 DEF Unlink
  <2>5. IsWithout(RemoveAt(q, k), q, k)
    BY <2>1, <2>3, RemoveAtIs
  <2> QED
    BY <2>3, <2>4, <2>5, WithoutKeeps
<1> QED
  BY <1>1, <1>2

\* The walk from the tail ends where the timer belongs.
LEMMA AfterIs ==
  ASSUME NEW q, NEW exp, NEW n, NEW e, Linked(q), Near(e, n),
         \A i \in 1 .. Len(q) : Near(exp[q[i]], n),
         \A i, j \in 1 .. Len(q) : i < j => Signed(exp[q[i]], n) <= Signed(exp[q[j]], n)
  PROVE  /\ After(q, exp, e) \in 0 .. Len(q)
         /\ \A i \in 1 .. Len(q) :
              IF i <= After(q, exp, e) THEN Signed(exp[q[i]], n) <= Signed(e, n)
              ELSE Signed(e, n) <= Signed(exp[q[i]], n)
<1> DEFINE S == {i \in DOMAIN q : ~inTimeOrder(e, exp[q[i]])}
<1>1. /\ Len(q) \in Nat /\ DOMAIN q = 1 .. Len(q)
      /\ q # <<>> => 1 \in 1 .. Len(q)
      /\ q = <<>> => Len(q) = 0
  BY DEF Linked
<1>2. /\ Signed(e, n) \in Int
      /\ \A i \in 1 .. Len(q) :
           /\ Signed(exp[q[i]], n) \in Int
           /\ inTimeOrder(exp[q[i]], e) <=> Signed(exp[q[i]], n) < Signed(e, n)
           /\ inTimeOrder(e, exp[q[i]]) <=> Signed(e, n) < Signed(exp[q[i]], n)
  BY OrderIs, SignedIs DEF Near
<1>3. CASE q = <<>> \/ ~inTimeOrder(exp[q[1]], e)
  <2>1. After(q, exp, e) = 0
    BY <1>3 DEF After
  <2>2. \A i \in 1 .. Len(q) : Signed(e, n) <= Signed(exp[q[i]], n)
    <3> SUFFICES ASSUME NEW i \in 1 .. Len(q) PROVE Signed(e, n) <= Signed(exp[q[i]], n)
      OBVIOUS
    <3>1. q # <<>> /\ 1 \in 1 .. Len(q) /\ (i = 1 \/ 1 < i)
      BY <1>1
    <3>2. Signed(e, n) <= Signed(exp[q[1]], n)
      BY <1>2, <1>3, <3>1
    <3>3. Signed(exp[q[1]], n) <= Signed(exp[q[i]], n)
      BY <1>2, <3>1
    <3> QED
      BY <1>2, <3>1, <3>2, <3>3
  <2> QED
    BY <1>1, <2>1, <2>2
<1>4. CASE ~ (q = <<>> \/ ~inTimeOrder(exp[q[1]], e))
  <2>1. 1 \in S /\ S \in SUBSET (0 .. Len(q))
    BY <1>1, <1>2, <1>4
  <2>2. PICK k : k = After(q, exp, e) /\ k = CHOOSE x \in S : \A y \in S : x >= y
    BY <1>4 DEF After, Max
  <2>3. \E x \in S : \A y \in S : x >= y
    <3>1. PICK x \in S : \A y \in S : y <= x
      BY <1>1, <2>1, SomeGreatest
    <3>2. \A y \in S : x >= y
      BY <1>1, <3>1
    <3> QED
      BY <3>2
  <2>4. k \in S /\ \A y \in S : k >= y
    <3> HIDE DEF S
    <3> QED
      BY <2>2, <2>3
  <2>5. k \in 1 .. Len(q) /\ Signed(exp[q[k]], n) <= Signed(e, n)
    BY <1>1, <1>2, <2>4
  <2>6. ASSUME NEW i \in 1 .. Len(q)
        PROVE  IF i <= k THEN Signed(exp[q[i]], n) <= Signed(e, n)
               ELSE Signed(e, n) <= Signed(exp[q[i]], n)
    <3>1. CASE i <= k
      <4>1. Signed(exp[q[i]], n) <= Signed(exp[q[k]], n)
        BY <1>2, <2>5, <3>1
      <4> QED
        BY <1>2, <2>5, <3>1, <4>1
    <3>2. CASE ~ (i <= k)
      <4>1. i \notin S
        BY <2>4, <2>5, <3>2
      <4> QED
        BY <1>1, <1>2, <3>2, <4>1
    <3> QED
      BY <3>1, <3>2
  <2> QED
    BY <1>1, <2>2, <2>5, <2>6
<1> QED
  BY <1>3, <1>4
-----------------------------------------------------------------------------
(***************************************************************************)
(* The steps, and what they are to TimerSet.                               *)
(***************************************************************************)
pvars == <<now, deadline, running>>

PromiseStep == Promise!Next \/ UNCHANGED pvars

\* The queue is in order at another time, or with other times, if those of its
\* timers have all moved alike.
LEMMA QueueMoves ==
  ASSUME QueueInv, UNCHANGED timerqueue, now' \in Time, exptime' \in [Timers -> Time], NEW k \in Int,
         \A t \in Range(timerqueue) :
           /\ Near(exptime'[t], now')
           /\ Signed(exptime'[t], now') = Signed(exptime[t], now) - k
  PROVE  QueueInv'
<1>1. timerqueue \in Seq(Timers) /\ Linked(timerqueue)
  BY DEF QueueInv, Linked
<1>2. /\ \A i \in 1 .. Len(timerqueue) : timerqueue[i] \in Range(timerqueue)
      /\ Range(timerqueue) \subseteq Timers
  BY <1>1, RangeIs
<1>3. \A t \in Range(timerqueue) : /\ Offsets[t] = Signed(exptime[t], now)
                                   /\ Offsets'[t] = Offsets[t] - k
                                   /\ Offsets[t] \in Int
  BY <1>2, SignedIs DEF Offsets, QueueInv, Near
<1>4. Sorted(timerqueue, Offsets')
  <2> SUFFICES ASSUME NEW i \in 1 .. Len(timerqueue), NEW j \in 1 .. Len(timerqueue), i < j
               PROVE  Offsets'[timerqueue[i]] <= Offsets'[timerqueue[j]]
    BY DEF Sorted
  <2>1. Offsets[timerqueue[i]] <= Offsets[timerqueue[j]]
    BY DEF QueueInv, Sorted
  <2> HIDE DEF Offsets
  <2> QED
    BY <1>2, <1>3, <2>1
<1> QED
  BY <1>1, <1>4 DEF QueueInv

LEMMA DeadlineIs ==
  ASSUME QueueInv
  PROVE  /\ Promise!Armed = Range(timerqueue)
         /\ \A t \in Range(timerqueue) : t \in Timers /\ deadline[t] = exptime[t]
         /\ \A t \in Timers \ Range(timerqueue) : deadline[t] = ACN_NO_TIME
<1>1. Range(timerqueue) \subseteq Timers
  BY RangeIs DEF QueueInv, Linked
<1>2. \A t \in Timers : exptime[t] # ACN_NO_TIME
  BY WidthFacts DEF QueueInv, Time, ACN_NO_TIME
<1> QED
  BY <1>1, <1>2 DEF Promise!Armed, Promise!ACN_NO_TIME, ACN_NO_TIME, deadline

LEMMA SetStep ==
  ASSUME LoopInv, NEW t \in Timers, _set_timer(t)
  PROVE  LoopInv' /\ PromiseStep
<1> DEFINE q == Unlink(timerqueue, t)
<1>0. PICK d \in Delays :
        LET e == (now + d) % Width
        IN  /\ timerqueue' = InsertAt(q, After(q, exptime, e) + 1, t)
            /\ exptime' = [exptime EXCEPT ![t] = e]
  BY DEF _set_timer
<1> DEFINE e == (now + d) % Width
           k == After(q, exptime, e)
           new == [u \in Timers |-> Signed(exptime'[u], now)]
<1>1. /\ timerqueue' = InsertAt(q, k + 1, t) /\ exptime' = [exptime EXCEPT ![t] = e]
      /\ UNCHANGED <<now, pc, asof, running, wake, runstate>>
  BY <1>0 DEF _set_timer
<1>2. Near(e, now) /\ e \in Time /\ now \in Time
  <2>1. Near(e, now)
    BY SetIsNear DEF LoopInv, QueueInv
  <2> QED
    BY <2>1 DEF Near
<1>3. /\ Linked(q) /\ Sorted(q, Offsets) /\ Range(q) = Range(timerqueue) \ {t}
  BY UnlinkIs DEF LoopInv, QueueInv
<1> HIDE DEF q, e
<1>4. /\ q \in Seq(Timers) /\ Len(q) \in Nat /\ Range(q) \subseteq Timers
      /\ \A i \in 1 .. Len(q) : q[i] \in Range(q) /\ q[i] \in Timers /\ q[i] # t
  <2>1. q \in Seq(Timers)
    BY <1>3 DEF Linked
  <2> QED
    BY <1>3, <2>1, RangeIs
<1>5. /\ \A i \in 1 .. Len(q) : Near(exptime[q[i]], now)
      /\ \A i, j \in 1 .. Len(q) : i < j => Signed(exptime[q[i]], now) <= Signed(exptime[q[j]], now)
  BY <1>3, <1>4 DEF LoopInv, QueueInv, Sorted, Offsets
<1>6. /\ k \in 0 .. Len(q)
      /\ \A i \in 1 .. Len(q) : IF i <= k THEN Signed(exptime[q[i]], now) <= Signed(e, now)
                                ELSE Signed(e, now) <= Signed(exptime[q[i]], now)
  BY <1>2, <1>3, <1>5, AfterIs
<1> HIDE DEF k
<1>7. exptime' \in [Timers -> Time] /\ exptime'[t] = e
      /\ \A u \in Timers : u # t => exptime'[u] = exptime[u]
  BY <1>1, <1>2 DEF LoopInv, QueueInv
<1>8. new[t] = Signed(e, now) /\ \A u \in Timers : u # t => new[u] = Signed(exptime[u], now)
  BY <1>7
<1>9. Sorted(q, new)
  BY <1>4, <1>5, <1>8 DEF Sorted
<1> HIDE DEF new
<1>10. k + 1 \in 1 .. Len(q) + 1 /\ IsWith(timerqueue', q, k + 1, t)
  <2>1. k + 1 \in 1 .. Len(q) + 1
    BY <1>4, <1>6
  <2> QED
    BY <1>1, <1>4, <2>1, InsertAtIs
<1>11. \A i \in 1 .. Len(q) : IF i < k + 1 THEN new[q[i]] <= new[t] ELSE new[t] <= new[q[i]]
  <2> SUFFICES ASSUME NEW i \in 1 .. Len(q)
               PROVE  IF i < k + 1 THEN new[q[i]] <= new[t] ELSE new[t] <= new[q[i]]
    OBVIOUS
  <2>1. i < k + 1 <=> i <= k
    BY <1>4, <1>6
  <2> QED
    BY <1>4, <1>6, <1>8, <2>1
<1>12. Linked(timerqueue') /\ Range(timerqueue') = Range(q) \cup {t} /\ Sorted(timerqueue', new)
  BY <1>3, <1>9, <1>10, <1>11, WithKeeps
<1>13. Range(timerqueue') = Range(timerqueue) \cup {t}
  BY <1>3, <1>12
<1>14. QueueInv'
  <2>1. \A u \in Range(timerqueue') : Near(exptime'[u], now)
    BY <1>2, <1>3, <1>4, <1>7, <1>12 DEF LoopInv, QueueInv
  <2>2. Offsets' = new
    BY <1>1 DEF Offsets, new
  <2> QED
    BY <1>1, <1>2, <1>7, <1>12, <2>1, <2>2 DEF QueueInv
<1>15. LoopInv'
  BY <1>1, <1>14 DEF LoopInv, PassInv
<1>16. Promise!Set(t)
  <2>1. deadline' = [deadline EXCEPT ![t] = (now + d) % Width]
    BY <1>1, <1>7, <1>13 DEF deadline, e
  <2> QED
    BY <1>1, <2>1 DEF Promise!Set
<1> QED
  BY <1>15, <1>16 DEF PromiseStep, Promise!Next

LEMMA CancelStep ==
  ASSUME LoopInv, NEW t \in Timers, cancel_timer(t)
  PROVE  LoopInv' /\ PromiseStep
<1>1. /\ timerqueue' = Unlink(timerqueue, t) /\ exptime' = [exptime EXCEPT ![t] = 0]
      /\ UNCHANGED <<now, pc, asof, running, wake, runstate>>
  BY DEF cancel_timer
<1>2. /\ Linked(timerqueue') /\ Sorted(timerqueue', Offsets)
      /\ Range(timerqueue') = Range(timerqueue) \ {t}
  BY <1>1, UnlinkIs DEF LoopInv, QueueInv
<1>3. /\ exptime' \in [Timers -> Time]
      /\ \A u \in Timers : u # t => exptime'[u] = exptime[u]
  BY <1>1, WidthFacts DEF LoopInv, QueueInv, Time
<1>4. \A i \in 1 .. Len(timerqueue') : timerqueue'[i] \in Timers /\ timerqueue'[i] # t
  <2>1. timerqueue' \in Seq(Timers)
    BY <1>2 DEF Linked
  <2> QED
    BY <1>2, <2>1, RangeIs
<1>5. Sorted(timerqueue', Offsets')
  BY <1>1, <1>2, <1>3, <1>4 DEF Sorted, Offsets
<1>6. LoopInv'
  <2>1. \A u \in Range(timerqueue') : u \in Timers /\ u # t /\ Near(exptime[u], now)
    BY <1>2, RangeIs DEF LoopInv, QueueInv, Linked
  <2> QED
    BY <1>1, <1>2, <1>3, <1>5, <2>1 DEF LoopInv, QueueInv, PassInv
<1>7. Promise!Cancel(t)
  <2>1. deadline' = [deadline EXCEPT ![t] = ACN_NO_TIME]
    BY <1>1, <1>2, <1>3 DEF deadline
  <2> QED
    BY <1>1, <2>1 DEF Promise!Cancel, Promise!ACN_NO_TIME, ACN_NO_TIME
<1> QED
  BY <1>6, <1>7 DEF PromiseStep, Promise!Next

\* The head has expired, and is no later than any other.
LEMMA ExpireStep ==
  ASSUME LoopInv, Expire
  PROVE  LoopInv' /\ PromiseStep
<1> DEFINE t == timerqueue[1]
<1>1. /\ timerqueue # <<>> /\ ~ inTimeOrder(asof, exptime[t])
      /\ running' = t /\ timerqueue' = Tail(timerqueue) /\ exptime' = [exptime EXCEPT ![t] = 0]
      /\ pc = "pass" /\ pc' = "action" /\ UNCHANGED <<now, asof, wake, runstate>>
  BY DEF Expire, Expired
<1>2. /\ t \in Range(timerqueue) /\ t \in Timers /\ 1 \in 1 .. Len(timerqueue)
      /\ IsWithout(timerqueue', timerqueue, 1)
  BY <1>1, HeadIs DEF LoopInv, QueueInv
<1>3. /\ Linked(timerqueue') /\ Sorted(timerqueue', Offsets)
      /\ Range(timerqueue') = Range(timerqueue) \ {t}
  BY <1>2, WithoutKeeps DEF LoopInv, QueueInv
<1> HIDE DEF t
<1>4. /\ exptime' \in [Timers -> Time]
      /\ \A u \in Timers : u # t => exptime'[u] = exptime[u]
  <2>1. exptime \in [Timers -> Time] /\ exptime' = [exptime EXCEPT ![t] = 0]
    BY <1>1 DEF LoopInv, QueueInv
  <2>2. 0 \in Time
    BY WidthFacts DEF Time
  <2> QED
    BY <2>1, <2>2
<1>5. \A i \in 1 .. Len(timerqueue') : timerqueue'[i] \in Timers /\ timerqueue'[i] # t
  <2>1. timerqueue' \in Seq(Timers)
    BY <1>3 DEF Linked
  <2> QED
    BY <1>3, <2>1, RangeIs
<1>6. Sorted(timerqueue', Offsets')
  BY <1>1, <1>3, <1>4, <1>5 DEF Sorted, Offsets
<1>7. LoopInv'
  <2>1. \A u \in Range(timerqueue') : u \in Timers /\ u # t /\ Near(exptime[u], now)
    BY <1>3, RangeIs DEF LoopInv, QueueInv, Linked
  <2> QED
    BY <1>1, <1>3, <1>4, <1>6, <2>1 DEF LoopInv, QueueInv, PassInv
<1>8. Signed(exptime[t], now) <= 0 /\ Near(exptime[t], now) /\ running = None
  <2>1. /\ now \in Time /\ asof \in Time /\ (now - asof) % Width <= MaxLate /\ running = None
        /\ Near(exptime[t], now)
    BY <1>1, <1>2 DEF LoopInv, QueueInv, PassInv
  <2> QED
    BY <1>1, <2>1, ExpiredIs
<1>9. \A u \in Range(timerqueue) : ~ inTimeOrder(exptime[u], exptime[t])
  <2> SUFFICES ASSUME NEW u \in Range(timerqueue) PROVE ~ inTimeOrder(exptime[u], exptime[t])
    OBVIOUS
  <2>1. PICK i \in 1 .. Len(timerqueue) : u = timerqueue[i]
    BY RangeIs DEF LoopInv, QueueInv, Linked
  <2>2. u \in Timers /\ Near(exptime[u], now)
    BY RangeIs DEF LoopInv, QueueInv, Linked
  <2>3. Signed(exptime[t], now) <= Signed(exptime[u], now)
    <3>1. CASE i = 1
      <4>1. u = t /\ Signed(exptime[t], now) \in Int
        BY <1>8, <2>1, <3>1, SignedIs DEF t, Near
      <4> QED
        BY <4>1
    <3>2. CASE i # 1
      <4>1. 1 < i
        BY <2>1, <3>2
      <4>2. Offsets[t] <= Offsets[u]
        BY <1>2, <2>1, <4>1 DEF LoopInv, QueueInv, Sorted, t
      <4> QED
        BY <1>2, <2>2, <4>2 DEF Offsets
    <3> QED
      BY <3>1, <3>2
  <2>4. Signed(exptime[t], now) \in Int /\ Signed(exptime[u], now) \in Int
    BY <1>8, <2>2, SignedIs DEF Near
  <2>5. inTimeOrder(exptime[u], exptime[t])
          <=> Signed(exptime[u], now) < Signed(exptime[t], now)
    BY <1>8, <2>2, OrderIs
  <2> QED
    BY <2>3, <2>4, <2>5
<1>10. ~ inTimeOrder(now, exptime[t])
  <2>1. now \in Time /\ now \in Int
    BY WidthFacts DEF LoopInv, QueueInv, Time
  <2>2. (now - now) % Width = 0
    BY <2>1, Minus
  <2>3. Signed(now, now) = 0 /\ Near(now, now)
    BY <2>1, <2>2, WidthFacts DEF Signed, Near
  <2>4. inTimeOrder(now, exptime[t]) <=> 0 < Signed(exptime[t], now)
    BY <1>8, <2>3, OrderIs
  <2>5. Signed(exptime[t], now) \in Int
    BY <1>8, SignedIs DEF Near
  <2> QED
    BY <1>8, <2>4, <2>5
<1>11. Promise!Due(t)
  <2>1. /\ Promise!Armed = Range(timerqueue)
        /\ \A u \in Range(timerqueue) : deadline[u] = exptime[u]
    BY DeadlineIs DEF LoopInv
  <2>2. \A a, b : Promise!inTimeOrder(a, b) <=> inTimeOrder(a, b)
    BY DEF Promise!inTimeOrder, inTimeOrder, timediff
  <2> QED
    BY <1>2, <1>9, <1>10, <2>1, <2>2 DEF Promise!Due
<1>12. deadline' = [deadline EXCEPT ![t] = ACN_NO_TIME]
  BY <1>1, <1>3, <1>4 DEF deadline
<1>13. Promise!GoOff(t)
  BY <1>1, <1>8, <1>11, <1>12 DEF Promise!GoOff, Promise!ACN_NO_TIME, ACN_NO_TIME,
     Promise!None, None
<1> QED
  BY <1>2, <1>7, <1>13 DEF PromiseStep, Promise!Next

LEMMA TickStep ==
  ASSUME LoopInv, Tick
  PROVE  LoopInv' /\ PromiseStep
<1>1. /\ \A t \in Range(timerqueue) : (now - exptime[t]) % Width # MaxLate
      /\ pc \in {"pass", "action"} => (now - asof) % Width < MaxLate
      /\ now' = (now + 1) % Width
      /\ UNCHANGED <<timerqueue, exptime, pc, asof, running, runstate>>
  BY DEF Tick
<1>2. now \in Time /\ now \in Int /\ 0 <= now /\ now < Width
  BY WidthFacts DEF LoopInv, QueueInv, Time
<1>3. now' = IF now + 1 < Width THEN now + 1 ELSE now + 1 - Width
  <2>1. 1 \in Nat /\ 1 < Width
    BY WidthFacts
  <2> QED
    BY <1>1, <1>2, <2>1, Plus
<1>4. now' \in Time
  BY <1>2, <1>3, WidthFacts DEF Time
<1>5. \A t \in Range(timerqueue) : /\ Near(exptime'[t], now')
                                   /\ Signed(exptime'[t], now') = Signed(exptime[t], now) - 1
  BY <1>1, <1>2, TickIs DEF LoopInv, QueueInv
<1>6. QueueInv'
  <2>1. exptime' \in [Timers -> Time] /\ UNCHANGED timerqueue /\ 1 \in Int /\ QueueInv
    BY <1>1 DEF LoopInv, QueueInv
  <2> QED
    BY <1>4, <1>5, <2>1, QueueMoves
<1>7. PassInv'
  <2>1. ASSUME pc \in {"pass", "action"} PROVE (now' - asof) % Width <= MaxLate
    <3>1. asof \in Time /\ (now - asof) % Width < MaxLate
      BY <1>1, <2>1 DEF LoopInv, PassInv
    <3>2. asof \in Int /\ 0 <= asof /\ asof < Width
      BY <3>1, WidthFacts DEF Time
    <3>3. (now - asof) % Width = IF now >= asof THEN now - asof ELSE now - asof + Width
      BY <1>2, <3>1, Minus
    <3>4. (now' - asof) % Width = IF now' >= asof THEN now' - asof ELSE now' - asof + Width
      BY <1>4, <3>1, Minus
    <3>5. (IF now >= asof THEN now - asof ELSE now - asof + Width) < MaxLate
      BY <3>1, <3>3
    <3>6. (IF now' >= asof THEN now' - asof ELSE now' - asof + Width) <= MaxLate
      BY <1>2, <1>3, <3>2, <3>5, WidthFacts
    <3> QED
      BY <3>4, <3>6
  <2> QED
    BY <1>1, <2>1 DEF LoopInv, PassInv
<1>8. Promise!Passes
  BY <1>1 DEF Promise!Passes, deadline
<1> QED
  BY <1>6, <1>7, <1>8 DEF LoopInv, PromiseStep, Promise!Next

\* The other steps of the loop.
LEMMA RestStep ==
  ASSUME LoopInv,
         \/ stopPoll \/ processtimers \/ Returned \/ Sleep \/ TimeIsUp \/ EventsDone
         \/ EventsCome \/ UNCHANGED timervars
  PROVE  LoopInv' /\ PromiseStep
<1>1. /\ UNCHANGED <<timerqueue, exptime, now>>
      /\ \/ UNCHANGED running
         \/ Returned
  BY DEF stopPoll, processtimers, Returned, Sleep, TimeIsUp, EventsDone, EventsCome, timervars
<1>2. QueueInv'
  BY <1>1 DEF LoopInv, QueueInv, Offsets, Sorted
<1>3. PassInv'
  <2>1. CASE processtimers
    <3>1. now \in Time /\ (now - now) % Width = 0
      BY Minus, WidthFacts DEF LoopInv, QueueInv, Time
    <3> QED
      BY <2>1, <3>1, WidthFacts DEF processtimers, LoopInv, PassInv
  <2>2. CASE \/ stopPoll \/ Returned \/ Sleep \/ TimeIsUp \/ EventsDone
             \/ EventsCome \/ UNCHANGED timervars
    BY <2>2 DEF LoopInv, PassInv, stopPoll, Returned, Sleep, TimeIsUp, EventsDone,
       EventsCome, timervars
  <2> QED
    BY <2>1, <2>2
<1>4. PromiseStep
  <2>1. deadline' = deadline
    BY <1>1 DEF deadline
  <2>2. CASE UNCHANGED running
    BY <1>1, <2>1, <2>2 DEF PromiseStep, pvars
  <2>3. CASE Returned
    <3>1. running' = None
      BY <2>3 DEF Returned
    <3> QED
      BY <1>1, <2>1, <3>1 DEF PromiseStep, pvars, Promise!Next, Promise!Return, Promise!None, None
  <2> QED
    BY <1>1, <2>2, <2>3
<1> QED
  BY <1>2, <1>3, <1>4 DEF LoopInv

LEMMA LoopBegins ==
  ASSUME TimersInit
  PROVE  LoopInv /\ Promise!Init
<1>1. 0 \in Time
  BY WidthFacts DEF Time
<1>2. timerqueue = <<>> /\ Range(<<>>) = {} /\ Linked(<<>>)
  BY DEF TimersInit, Range, Linked
<1>3. LoopInv
  BY <1>1, <1>2 DEF TimersInit, LoopInv, QueueInv, PassInv, Sorted
<1> QED
  BY <1>1, <1>2, <1>3 DEF TimersInit, Promise!Init, deadline, Promise!Time, Time,
     Promise!None, None, Promise!ACN_NO_TIME, ACN_NO_TIME

(***************************************************************************)
(* The queue and the pass over it are a way to keep a set of deadlines     *)
(* (_set_timer, cancel_timer, processtimers, evl_wait): whatever actions   *)
(* and callbacks set and cancel, no timer is lost, called early, called    *)
(* after it was cancelled, or called before one that is due earlier, on a  *)
(* clock of any width that wraps.                                          *)
(***************************************************************************)
THEOREM DeadlinesAreKept == TimersSpec => KeepsDeadlines
<1>1. TimersInit => LoopInv /\ Promise!Init
  BY LoopBegins
<1>2. LoopInv /\ [TimersNext]_timervars => LoopInv' /\ PromiseStep
  BY SetStep, CancelStep, ExpireStep, TickStep, RestStep DEF TimersNext, Loop
<1>3. PromiseStep => [Promise!Next]_pvars
  BY DEF PromiseStep
<1> QED
  BY <1>1, <1>2, <1>3, PTL DEF TimersSpec, KeepsDeadlines, Promise!Spec, pvars

-----------------------------------------------------------------------------
(***************************************************************************)
(* The registration of local components.  The count of registrations is    *)
(* that of a set, so it has to be finite.                                  *)
(***************************************************************************)
AgentInv == AgentOpen /\ IsFiniteSet(agent)

LEMMA Registered ==
  ASSUME AgentInv, NEW c, NEW timers, slp_register(c, timers), UNCHANGED adhoc
  PROVE  AgentInv'
<1>1. Cardinality(agent) \in Nat /\ registrations = Cardinality(agent) /\ advert = agent
  BY FS_CardinalityType DEF AgentInv, AgentOpen
<1>2. CASE UNCHANGED <<registrations, agent, advert>> /\ slphSA' \in {slphSA, registrations > 0}
  BY <1>2 DEF AgentInv, AgentOpen
<1>3. CASE /\ c \in adhoc /\ agent' = agent \cup {c} /\ advert' = advert \cup {c}
           /\ slp_reg_report(IF c \in advert THEN "REREGISTER" ELSE "REGISTER")
           /\ slphSA' = (registrations' > 0)
  <2>1. registrations' = registrations + (IF c \in agent THEN 0 ELSE 1)
    BY <1>1, <1>3 DEF slp_reg_report
  <2>2. IsFiniteSet(agent) BY DEF AgentInv
  <2>3. CASE c \in agent
    <3>1. agent' = agent BY <1>3, <2>3
    <3>2. registrations' = registrations BY <2>1, <2>3, <1>1
    <3> QED BY <1>1, <1>3, <2>2, <3>1, <3>2 DEF AgentInv, AgentOpen
  <2>4. CASE c \notin agent
    <3>1. IsFiniteSet(agent') /\ Cardinality(agent') = Cardinality(agent) + 1
      BY <1>3, <2>2, <2>4, FS_AddElement
    <3>2. registrations' = registrations + 1 BY <2>1, <2>4
    <3> QED BY <1>1, <1>3, <3>1, <3>2 DEF AgentInv, AgentOpen
  <2> QED BY <2>3, <2>4
<1> QED BY <1>2, <1>3 DEF slp_register

LEMMA Deregistered ==
  ASSUME AgentInv, NEW c, slp_deregister(c), adhoc' = adhoc \ {c}
  PROVE  AgentInv'
<1>1. Cardinality(agent) \in Nat /\ registrations = Cardinality(agent) /\ advert = agent
  BY FS_CardinalityType DEF AgentInv, AgentOpen
<1>2. CASE c \in agent
  <2>1. Cardinality(agent) # 0
    <3>1. IsFiniteSet(agent) BY DEF AgentInv
    <3>2. agent # {} BY <1>2
    <3> QED BY <3>1, <3>2, FS_EmptySet
  <2>2. slphSA
    <3>1. slphSA = (registrations > 0) BY DEF AgentInv, AgentOpen
    <3>2. registrations > 0 BY <1>1, <2>1
    <3> QED BY <3>1, <3>2, Zenon
  <2>3. /\ agent' = agent \ {c} /\ advert' = advert \ {c}
        /\ registrations' = registrations - 1 /\ slphSA' = (registrations' > 0)
    BY <1>2, <2>2, <1>1 DEF slp_deregister, slp_reg_report
  <2>4. IsFiniteSet(agent') /\ Cardinality(agent') = Cardinality(agent) - 1
    BY <1>2, <2>3, FS_RemoveElement DEF AgentInv
  <2> QED BY <1>1, <2>3, <2>4 DEF AgentInv, AgentOpen
<1>3. CASE c \notin agent
  <2>1. UNCHANGED <<agent, advert, registrations>> /\ slphSA' = (registrations' > 0 /\ slphSA)
    BY <1>3 DEF slp_deregister
  <2>2. slphSA = (registrations > 0) BY DEF AgentInv, AgentOpen
  <2>3. slphSA' = (registrations' > 0)
    <3>1. (registrations' > 0) = (registrations > 0) BY <2>1
    <3>2. slphSA \in BOOLEAN BY <2>2
    <3>3. (registrations' > 0 /\ slphSA) = slphSA
      <4>1. CASE slphSA = TRUE BY <4>1, <2>2, <3>1
      <4>2. CASE slphSA = FALSE BY <4>2
      <4> QED BY <3>2, <4>1, <4>2
    <3> QED BY <2>1, <2>2, <3>1, <3>3, Zenon
  <2> QED BY <1>1, <1>3, <2>1, <2>3 DEF AgentInv, AgentOpen
<1> QED BY <1>2, <1>3

\* The agent's handle is open exactly while a component is registered, and those that
\* are registered are those that run.
THEOREM HandleIsOpen == AgentSpec => []AgentOpen
<1>1. AgentInit => AgentInv
  <2> SUFFICES ASSUME AgentInit PROVE AgentInv OBVIOUS
  <2>1. IsFiniteSet(agent) /\ Cardinality(agent) = 0 BY FS_EmptySet DEF AgentInit
  <2>2. registrations = 0 /\ slphSA = FALSE /\ agent = advert /\ agent \subseteq adhoc BY DEF AgentInit
  <2>3. slphSA = (registrations > 0)
    <3>1. (registrations > 0) = FALSE BY <2>2
    <3> QED BY <2>2, <3>1, Zenon
  <2> QED BY <2>1, <2>2, <2>3 DEF AgentInv, AgentOpen
<1>2. AgentInv /\ [LocalNext]_localvars => AgentInv'
  <2> SUFFICES ASSUME AgentInv, [LocalNext]_localvars PROVE AgentInv' OBVIOUS
  <2>1. ASSUME NEW c, Start(c) PROVE AgentInv' BY <2>1 DEF Start, AgentInv, AgentOpen
  <2>2. ASSUME NEW c, Advertise(c) PROVE AgentInv' BY <2>2, Registered DEF Advertise
  <2>3. ASSUME NEW c, slp_refresh(c) PROVE AgentInv' BY <2>3, Registered DEF slp_refresh
  <2>4. ASSUME NEW c, Stop(c) PROVE AgentInv' BY <2>4, Deregistered DEF Stop
  <2>5. CASE UNCHANGED localvars BY <2>5 DEF localvars, AgentInv, AgentOpen
  <2> QED BY <2>1, <2>2, <2>3, <2>4, <2>5 DEF LocalNext
<1>3. AgentInv => AgentOpen BY DEF AgentInv
<1> QED BY <1>1, <1>2, <1>3, PTL DEF AgentSpec
==============================================================================
