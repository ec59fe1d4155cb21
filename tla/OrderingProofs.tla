--------------------------- MODULE OrderingProofs ---------------------------
(***************************************************************************)
(* What Ordering's sequences are, for every finite set that is strictly    *)
(* ordered.  The proof counts: an element's place is the number of         *)
(* elements before it, so no induction is needed.                          *)
(***************************************************************************)
EXTENDS Ordering, FiniteSetsExt, FiniteSetTheorems, FunctionTheorems, TLAPS

StrictlyOrders(Less, S) ==
    /\ \A x \in S : <<x, x>> \notin Less
    /\ \A x, y, z \in S : <<x, y>> \in Less /\ <<y, z>> \in Less => <<x, z>> \in Less
    /\ \A x, y \in S : x # y => <<x, y>> \in Less \/ <<y, x>> \in Less

Below(x, S, Less) == {y \in S : <<y, x>> \in Less}

Place(x, S, Less) == Cardinality(Below(x, S, Less))

LEMMA PlaceType ==
    ASSUME NEW S, NEW Less, IsFiniteSet(S), StrictlyOrders(Less, S), NEW x \in S
    PROVE  Place(x, S, Less) \in 0 .. (Cardinality(S) - 1)
<1> DEFINE B == Below(x, S, Less)
<1>1. B \in SUBSET S /\ x \notin B
  BY DEF Below, StrictlyOrders
<1>2. IsFiniteSet(B) /\ Cardinality(B) <= Cardinality(S) /\ Cardinality(B) # Cardinality(S)
  BY <1>1, FS_Subset
<1>3. Cardinality(B) \in Nat /\ Cardinality(S) \in Nat
  BY <1>2, FS_CardinalityType
<1>4. QED
  BY <1>2, <1>3 DEF Place

\* The order is the order of the places.
LEMMA PlaceGrows ==
    ASSUME NEW S, NEW Less, IsFiniteSet(S), StrictlyOrders(Less, S),
           NEW x \in S, NEW y \in S, <<x, y>> \in Less
    PROVE  Place(x, S, Less) < Place(y, S, Less)
<1> DEFINE A == Below(x, S, Less)
           B == Below(y, S, Less)
<1>1. A \in SUBSET B /\ x \in B /\ x \notin A /\ B \in SUBSET S
  BY DEF Below, StrictlyOrders
<1>2. IsFiniteSet(B)
  BY <1>1, FS_Subset
<1>3. IsFiniteSet(A) /\ Cardinality(A) <= Cardinality(B) /\ Cardinality(A) # Cardinality(B)
  BY <1>1, <1>2, FS_Subset
<1>4. Cardinality(A) \in Nat /\ Cardinality(B) \in Nat
  BY <1>2, <1>3, FS_CardinalityType
<1>5. QED
  BY <1>3, <1>4 DEF Place

LEMMA PlacesSize ==
    ASSUME NEW n \in Nat
    PROVE  IsFiniteSet(0 .. (n - 1)) /\ Cardinality(0 .. (n - 1)) = n
<1>1. /\ IsFiniteSet(0 .. (n - 1))
      /\ Cardinality(0 .. (n - 1)) = IF 0 > n - 1 THEN 0 ELSE (n - 1) - 0 + 1
  BY FS_Interval, n - 1 \in Int, 0 \in Int
<1>2. QED
  BY <1>1

\* Every place is taken.
LEMMA PlacesFill ==
    ASSUME NEW S, NEW Less, IsFiniteSet(S), StrictlyOrders(Less, S),
           NEW i \in 1 .. Cardinality(S)
    PROVE  \E x \in S : Place(x, S, Less) = i - 1
<1> DEFINE n == Cardinality(S)
           f == [x \in S |-> Place(x, S, Less)]
           T == 0 .. (n - 1)
<1>1. n \in Nat
  BY FS_CardinalityType
<1>2. IsFiniteSet(T) /\ Cardinality(T) = n
  BY <1>1, PlacesSize
<1>3. f \in [S -> T]
  BY PlaceType
<1>4. \A x, y \in S : f[x] = f[y] => x = y
  <2> SUFFICES ASSUME NEW x \in S, NEW y \in S, x # y PROVE f[x] # f[y]
    OBVIOUS
  <2>1. f[x] \in Int /\ f[y] \in Int
    BY <1>1, <1>3
  <2>2. CASE <<x, y>> \in Less
    BY <2>1, <2>2, PlaceGrows
  <2>3. CASE <<y, x>> \in Less
    BY <2>1, <2>3, PlaceGrows
  <2>4. QED
    BY <2>2, <2>3 DEF StrictlyOrders
<1>5. f \in Injection(S, T)
  BY <1>3, <1>4, Fun_IsInj
<1>6. f \in Surjection(S, T)
  BY <1>2, <1>5, FS_Injection
<1>7. i - 1 \in T
  BY <1>1
<1>8. \E x \in S : f[x] = i - 1
  <2> HIDE DEF f, T
  <2>1. QED
    BY <1>6, <1>7, Fun_SurjectionProperties
<1>9. QED
  BY <1>8

\* The sequence holds every element once, each before the ones it precedes.
LEMMA Ordered ==
    ASSUME NEW S, NEW Less, IsFiniteSet(S), StrictlyOrders(Less, S)
    PROVE  /\ Cardinality(S) \in Nat
           /\ InOrder(S, Less) \in [1 .. Cardinality(S) -> S]
           /\ \A i, j \in 1 .. Cardinality(S) :
                 i < j => <<InOrder(S, Less)[i], InOrder(S, Less)[j]>> \in Less
           /\ \A x \in S : \E i \in 1 .. Cardinality(S) : InOrder(S, Less)[i] = x
<1> DEFINE n == Cardinality(S)
           f == InOrder(S, Less)
<1>1. n \in Nat
  BY FS_CardinalityType
<1>2. ASSUME NEW i \in 1 .. n
      PROVE  f[i] \in S /\ Place(f[i], S, Less) = i - 1
  <2>1. f[i] = CHOOSE x \in S : Place(x, S, Less) = i - 1
    BY DEF InOrder, Place, Below
  <2>2. \E x \in S : Place(x, S, Less) = i - 1
    BY PlacesFill
  <2>3. QED
    BY <2>1, <2>2
<1>3. f \in [1 .. n -> S]
  BY <1>2 DEF InOrder
<1>4. ASSUME NEW i \in 1 .. n, NEW j \in 1 .. n, i < j PROVE <<f[i], f[j]>> \in Less
  <2>1. f[i] \in S /\ f[j] \in S /\ Place(f[i], S, Less) < Place(f[j], S, Less)
    BY <1>1, <1>2, <1>4
  <2>2. CASE f[i] = f[j]
    BY <1>1, <1>2, <1>4, <2>2
  <2>3. CASE <<f[j], f[i]>> \in Less
    <3>1. Place(f[j], S, Less) < Place(f[i], S, Less)
      BY <2>1, <2>3, PlaceGrows
    <3>2. QED
      BY <1>1, <1>2, <1>4, <3>1
  <2>4. QED
    BY <2>1, <2>2, <2>3 DEF StrictlyOrders
<1>5. ASSUME NEW x \in S PROVE \E i \in 1 .. n : f[i] = x
  <2> DEFINE i == Place(x, S, Less) + 1
  <2>1. i \in 1 .. n /\ Place(x, S, Less) = i - 1
    BY <1>1, PlaceType
  <2> HIDE DEF i
  <2>2. f[i] \in S /\ Place(f[i], S, Less) = Place(x, S, Less)
    BY <1>2, <2>1
  <2>3. CASE <<x, f[i]>> \in Less
    <3>1. Place(x, S, Less) < Place(f[i], S, Less)
      BY <2>2, <2>3, PlaceGrows
    <3>2. QED
      BY <1>1, <2>1, <2>2, <3>1
  <2>4. CASE <<f[i], x>> \in Less
    <3>1. Place(f[i], S, Less) < Place(x, S, Less)
      BY <2>2, <2>4, PlaceGrows
    <3>2. QED
      BY <1>1, <2>1, <2>2, <3>1
  <2>5. QED
    BY <2>1, <2>2, <2>3, <2>4 DEF StrictlyOrders
<1>6. QED
  BY <1>1, <1>3, <1>4, <1>5

\* The first n elements: in order, nothing left out before the last of them,
\* and all there are when there are fewer than n.
LEMMA Firsts ==
    ASSUME NEW S, NEW Less, IsFiniteSet(S), StrictlyOrders(Less, S), NEW n \in Nat
    PROVE  LET f == FirstOf(S, Less, n)
           IN  /\ f \in Seq(S)
               /\ Len(f) <= n
               /\ \A i, j \in 1 .. Len(f) : i < j => <<f[i], f[j]>> \in Less
               /\ \A x \in S, i \in 1 .. Len(f) :
                     <<x, f[i]>> \in Less => \E j \in 1 .. Len(f) : f[j] = x
               /\ Len(f) < n => \A x \in S : \E i \in 1 .. Len(f) : f[i] = x
<1> DEFINE c == Cardinality(S)
           m == IF c < n THEN c ELSE n
           g == InOrder(S, Less)
           f == FirstOf(S, Less, n)
<1>1. /\ c \in Nat /\ m \in Nat /\ m <= n /\ m <= c /\ (m < n => m = c)
      /\ g \in [1 .. c -> S]
      /\ \A i, j \in 1 .. c : i < j => <<g[i], g[j]>> \in Less
      /\ \A x \in S : \E i \in 1 .. c : g[i] = x
  BY Ordered
<1>2. f = SubSeq(g, 1, m)
  BY DEF FirstOf
<1> HIDE DEF c, m, g, f
<1>3. g \in Seq(S) /\ Len(g) = c
  BY <1>1
<1>4. f \in Seq(S) /\ Len(f) = m /\ \A i \in 1 .. m : f[i] = g[i]
  BY <1>1, <1>2, <1>3
<1>5. ASSUME NEW i \in 1 .. m, NEW x \in S, <<x, f[i]>> \in Less
      PROVE  \E j \in 1 .. m : f[j] = x
  <2>1. PICK j \in 1 .. c : g[j] = x
    BY <1>1
  <2>2. CASE j <= m
    BY <1>1, <1>4, <2>1, <2>2
  <2>3. CASE j > m
    <3>1. i \in 1 .. c /\ i < j /\ f[i] = g[i] /\ g[i] \in S
      BY <1>1, <1>4, <2>3
    <3>2. <<g[i], x>> \in Less /\ <<x, g[i]>> \in Less
      BY <1>1, <1>5, <2>1, <3>1
    <3>3. QED
      BY <3>1, <3>2 DEF StrictlyOrders
  <2>4. QED
    BY <1>1, <2>2, <2>3
<1>6. \A i, j \in 1 .. m : i < j => <<f[i], f[j]>> \in Less
  BY <1>1, <1>4
<1>7. m < n => \A x \in S : \E i \in 1 .. m : f[i] = x
  BY <1>1, <1>4
<1>8. QED
  BY <1>1, <1>4, <1>5, <1>6, <1>7 DEF f

-----------------------------------------------------------------------------
\* The largest of a set of numbers: the last of them in order.

Lower(ids) == {p \in ids \X ids : p[1] < p[2]}

LEMMA LargestOf ==
    ASSUME NEW ids \in SUBSET Nat, IsFiniteSet(ids), ids # {}
    PROVE  Max(ids) \in ids /\ \A n \in ids : n <= Max(ids)
<1> DEFINE c == Cardinality(ids)
           f == InOrder(ids, Lower(ids))
<1>1. StrictlyOrders(Lower(ids), ids)
  BY DEF StrictlyOrders, Lower
<1>2. /\ c \in Nat /\ f \in [1 .. c -> ids]
      /\ \A i, j \in 1 .. c : i < j => <<f[i], f[j]>> \in Lower(ids)
      /\ \A n \in ids : \E i \in 1 .. c : f[i] = n
  BY <1>1, Ordered
<1>3. c # 0
  BY FS_EmptySet
<1> HIDE DEF c, f
<1>4. c \in 1 .. c
  BY <1>3, <1>2
<1>5. f[c] \in ids /\ \A n \in ids : f[c] >= n
  <2> SUFFICES ASSUME NEW n \in ids PROVE f[c] \in ids /\ f[c] >= n
    BY <1>2, <1>4
  <2>1. PICK i \in 1 .. c : f[i] = n
    BY <1>2
  <2>2. f[c] \in ids /\ f[c] \in Nat /\ n \in Nat
    BY <1>2, <1>4
  <2>3. CASE i = c
    BY <2>2, <2>1, <2>3
  <2>4. CASE i < c
    <3>1. <<f[i], f[c]>> \in Lower(ids)
      BY <1>2, <1>4, <2>4
    <3>2. f[i] < f[c]
      BY <3>1 DEF Lower
    <3>3. QED
      BY <2>2, <2>1, <3>2
  <2>5. QED
    BY <1>2, <2>3, <2>4
<1>6. QED
  BY <1>5 DEF Max

=============================================================================
