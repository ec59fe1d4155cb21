-------------------------- MODULE EventPagingProofs --------------------------
(***************************************************************************)
(* Proofs about EventPaging for every value of its constants: any chain,   *)
(* page size, number of contracts, ids and deletions, with ids from a      *)
(* sequence or from the table.                                             *)
(***************************************************************************)
EXTENDS EventPaging, OrderingProofs

\* The rows: one for an id and for a place in the chain, ids in chain order
\* within a contract, none above the largest drawn.
TableOK ==
    /\ events \subseteq Row
    /\ IsFiniteSet(events)
    /\ drawn \in 0 .. MaxId
    /\ \A r \in events : r.id <= drawn
    /\ \A r, s \in events : r.id = s.id \/ r.pos = s.pos => r = s
    /\ \A r, s \in events :
          ContractOf(r) = ContractOf(s) /\ r.pos < s.pos => r.id < s.id

Held == ToSet(trav.out)
Wanted == Hits(trav.contract)
Running == trav.st \in {"check", "query"}

\* The order the traversal asks for.
Sooner(r, s) == IF trav.asc THEN r.pos < s.pos ELSE r.pos > s.pos

\* The traversal is at row k: it holds k, what it holds else comes sooner, and
\* it has passed over nothing but, newest first, what came after it began.
AtRow(k) ==
    /\ k \in Held
    /\ k.id = trav.cursor
    /\ \A r \in Held : r = k \/ Sooner(r, k)
    /\ \A r \in Wanted : ~Sooner(k, r) => r \in Held \/ (~trav.asc /\ r \notin trav.snap)
    /\ ~trav.asc => \A r \in Wanted : Sooner(k, r) => r \in trav.snap

TravOK ==
    /\ trav.gen <= gen[trav.contract]
    /\ trav.st = "idle" => trav.out = <<>>
    /\ Undisturbed =>
          /\ Held \subseteq Wanted
          /\ trav.snap \subseteq Wanted
          /\ \A i, j \in DOMAIN trav.out : i < j => Sooner(trav.out[i], trav.out[j])
          /\ ~trav.asc => Held \subseteq trav.snap
          /\ Running /\ trav.cursor = 0 => trav.out = <<>>
          /\ Running /\ trav.cursor # 0 => \E k \in Wanted : AtRow(k)
          /\ trav.st = "done" => trav.snap \subseteq Held

\* From a sequence, an id is never drawn twice.
IdsOK ==
    Sequence => /\ \A r \in Held : r.id <= drawn
                /\ \A r \in Held, s \in events : r.id = s.id => r = s

IInv == TypeOK /\ TableOK /\ TravOK /\ IdsOK

-----------------------------------------------------------------------------
\* The table.

LEMMA Rows ==
    /\ Len(Emitted) \in Nat /\ DOMAIN Emitted = 1 .. Len(Emitted)
    /\ IsFiniteSet(DOMAIN Emitted)
    /\ \A r \in Row : /\ r.id \in Nat /\ 0 < r.id
                       /\ r.pos \in Nat /\ r.pos \in DOMAIN Emitted
<1>1. Len(Emitted) \in Nat /\ DOMAIN Emitted = 1 .. Len(Emitted)
  BY PagingAssumption
<1>2. IsFiniteSet(1 .. Len(Emitted))
  BY <1>1, FS_Interval
<1>3. ASSUME NEW r \in Row
      PROVE  /\ r.id \in Nat /\ 0 < r.id
             /\ r.pos \in Nat /\ r.pos \in DOMAIN Emitted
  <2>1. r.id \in 1 .. MaxId /\ r.pos \in 1 .. Len(Emitted)
    BY <1>1 DEF Row
  <2>2. QED
    BY <1>1, <2>1, PagingAssumption
<1>4. QED
  BY <1>1, <1>2, <1>3

\* No row has an id above the last one.
LEMMA LastIdBounds ==
    ASSUME TableOK
    PROVE  /\ LastId \in 0 .. drawn
           /\ \A r \in events : r.id <= LastId
<1> DEFINE ids == {r.id : r \in events}
<1>1. ids \in SUBSET Nat
  BY DEF TableOK, Row
<1>2. IsFiniteSet(ids)
  <2> DEFINE f == [r \in events |-> r.id]
  <2>1. f \in Surjection(events, ids)
    BY Fun_IsSurj
  <2>2. QED
    BY <2>1, FS_Surjection DEF TableOK
<1>3. CASE events = {}
  BY <1>3 DEF LastId, TableOK
<1>4. CASE events # {}
  <2>1. ids # {}
    BY <1>4
  <2>2. Max(ids) \in ids /\ \A n \in ids : n <= Max(ids)
    BY <1>1, <1>2, <2>1, LargestOf
  <2>3. /\ \A r \in events : r.id \in Nat /\ r.id <= drawn /\ r.id <= Max(ids)
        /\ \E r \in events : r.id = Max(ids)
        /\ drawn \in Nat
    <3>1. \A r \in events : r.id \in ids /\ r.id \in Nat
      BY <1>1
    <3>2. \E r \in events : r.id = Max(ids)
      BY <2>2
    <3>3. drawn \in Nat /\ \A r \in events : r.id <= drawn
      BY PagingAssumption DEF TableOK
    <3> HIDE DEF ids
    <3>4. QED
      BY <2>2, <3>1, <3>2, <3>3
  <2>4. LastId = IF Sequence THEN drawn ELSE Max(ids)
    BY <1>4 DEF LastId
  <2> HIDE DEF ids
  <2>5. QED
    BY <2>3, <2>4 DEF TableOK
<1>5. QED
  BY <1>3, <1>4

\* The number a batch gives to each of its events.
Number(p, ps) == Cardinality({q \in ps : q <= p})

LEMMA Numbers ==
    ASSUME NEW ps \in SUBSET Nat, IsFiniteSet(ps)
    PROVE  /\ Cardinality(ps) \in Nat
           /\ \A p \in ps : Number(p, ps) \in 1 .. Cardinality(ps)
           /\ \A p, q \in ps : p < q => Number(p, ps) < Number(q, ps)
<1>1. ASSUME NEW p \in ps
      PROVE  /\ IsFiniteSet({q \in ps : q <= p})
             /\ Number(p, ps) \in 1 .. Cardinality(ps)
  <2> DEFINE A == {q \in ps : q <= p}
  <2>1. A \in SUBSET ps /\ p \in A
    OBVIOUS
  <2>2. IsFiniteSet(A) /\ Cardinality(A) <= Cardinality(ps)
    BY <2>1, FS_Subset
  <2>3. Cardinality(A) \in Nat /\ Cardinality(ps) \in Nat /\ Cardinality(A) # 0
    BY <2>1, <2>2, FS_CardinalityType, FS_EmptySet
  <2>4. QED
    BY <2>2, <2>3 DEF Number
<1>2. ASSUME NEW p \in ps, NEW q \in ps, p < q PROVE Number(p, ps) < Number(q, ps)
  <2>1. p \in Nat /\ q \in Nat
    OBVIOUS
  <2> DEFINE A == {x \in ps : x <= p}
             B == {x \in ps : x <= q}
  <2>2. A \in SUBSET B /\ q \in B /\ q \notin A
    <3>1. \A x \in ps : x \in Nat /\ (x <= p => x <= q)
      BY <1>2, <2>1
    <3>2. q <= q /\ ~(q <= p)
      BY <1>2, <2>1
    <3>3. QED
      BY <3>1, <3>2
  <2>3. Cardinality(A) <= Cardinality(B) /\ Cardinality(A) # Cardinality(B)
    <3>1. IsFiniteSet(B)
      BY <1>1
    <3>2. QED
      BY <2>2, <3>1, FS_Subset
  <2>4. Cardinality(A) \in Nat /\ Cardinality(B) \in Nat
    BY <1>1 DEF Number
  <2>5. QED
    BY <2>3, <2>4 DEF Number
<1>3. QED
  BY <1>1, <1>2, FS_CardinalityType

\* A commit keeps the table as it should be, and its rows come last of their
\* contract.
LEMMA CommitTable ==
    ASSUME TypeOK, TableOK, NEW c \in Contracts, NEW ps \in SUBSET DOMAIN Emitted,
           Commit(c, ps)
    PROVE  /\ TableOK'
           /\ drawn <= drawn'
           /\ events \subseteq events'
           /\ \A r \in events' \ events :
                 /\ ContractOf(r) = c
                 /\ LastId < r.id
                 /\ \A s \in events : ContractOf(s) = c => s.pos < r.pos
<1> DEFINE row(p) == [id |-> LastId + Number(p, ps), pos |-> p]
           new == {row(p) : p \in ps}
<1>1. ps \in SUBSET Nat /\ IsFiniteSet(ps)
  <2>1. IsFiniteSet(ps)
    BY Rows, FS_Subset
  <2>2. QED
    BY <2>1, Rows
<1>2. /\ Cardinality(ps) \in Nat
      /\ \A p \in ps : Number(p, ps) \in 1 .. Cardinality(ps)
      /\ \A p, q \in ps : p < q => Number(p, ps) < Number(q, ps)
  BY <1>1, Numbers
<1>3. LastId \in Nat /\ LastId <= drawn /\ drawn \in Nat /\ \A r \in events : r.id <= LastId
  BY LastIdBounds, PagingAssumption DEF TableOK
<1>4. /\ ps # {} /\ LastId + Cardinality(ps) <= MaxId /\ MaxId \in Nat
      /\ events' = events \union new
      /\ drawn' = Max({drawn, LastId + Cardinality(ps)})
  BY PagingAssumption DEF Commit, Number
<1>5. \A p \in ps : ContractOf(row(p)) = c
  BY DEF Commit, ContractOf
<1>6. \A p \in ps, s \in events : ContractOf(s) = c => s.pos < p
  <2>1. \A r \in events, p \in ps : ContractOf(r) = c => r.pos < p
    BY DEF Commit
  <2>2. QED
    BY <2>1
<1>7. drawn' \in 0 .. MaxId /\ drawn <= drawn' /\ LastId + Cardinality(ps) <= drawn'
  <2> DEFINE two == {drawn, LastId + Cardinality(ps)}
  <2>1. two \in SUBSET Nat /\ IsFiniteSet(two) /\ two # {}
    <3>1. IsFiniteSet({drawn} \union {LastId + Cardinality(ps)})
      BY FS_Singleton, FS_Union
    <3>2. {drawn} \union {LastId + Cardinality(ps)} = two
      OBVIOUS
    <3>3. QED
      BY <1>2, <1>3, <3>1, <3>2
  <2>2. Max(two) \in two /\ \A n \in two : n <= Max(two)
    BY <2>1, LargestOf
  <2>3. QED
    BY <1>2, <1>3, <1>4, <2>2 DEF TableOK
<1>8. ASSUME NEW p \in ps
      PROVE  row(p) \in Row /\ LastId < row(p).id /\ row(p).id <= drawn'
  <2>1. Number(p, ps) \in Nat /\ 1 <= Number(p, ps) /\ Number(p, ps) <= Cardinality(ps)
    BY <1>2
  <2>2. row(p).id = LastId + Number(p, ps) /\ row(p).pos = p /\ p \in DOMAIN Emitted
    OBVIOUS
  <2>3. drawn' \in Nat
    BY <1>4, <1>7
  <2>4. LastId + Number(p, ps) \in 1 .. MaxId
    BY <1>2, <1>3, <1>4, <2>1
  <2>5. QED
    BY <1>2, <1>3, <1>7, <2>1, <2>2, <2>3, <2>4 DEF Row
<1>9. IsFiniteSet(events')
  <2> DEFINE f == [p \in ps |-> row(p)]
  <2>1. f \in Surjection(ps, new)
    BY Fun_IsSurj
  <2>2. IsFiniteSet(new)
    BY <1>1, <2>1, FS_Surjection
  <2>3. QED
    BY <1>4, <2>2, FS_Union DEF TableOK
<1>10. events' \subseteq Row /\ \A r \in events' : r.id <= drawn'
  <2>1. ASSUME NEW r \in events PROVE r \in Row /\ r.id <= drawn'
    <3>1. r \in Row /\ r.id \in Nat /\ r.id <= drawn
      BY Rows DEF TableOK
    <3>2. drawn' \in Nat
      BY <1>4, <1>7
    <3>3. QED
      BY <1>3, <1>7, <3>1, <3>2
  <2>2. QED
    BY <1>4, <1>8, <2>1
<1>11. \A p \in ps, s \in events : row(p).id # s.id /\ row(p).pos # s.pos
  <2> SUFFICES ASSUME NEW p \in ps, NEW s \in events
               PROVE  row(p).id # s.id /\ row(p).pos # s.pos
    OBVIOUS
  <2>1. LastId < row(p).id
    BY <1>8
  <2>2. s.id <= LastId /\ LastId < row(p).id /\ s.id \in Nat /\ s.pos \in Nat
    BY <2>1, <1>3, Rows DEF TableOK
  <2>3. CASE s.pos = p
    BY <1>5, <1>6, <2>2, <2>3 DEF ContractOf
  <2>4. row(p).id \in Nat
    BY <1>8, Rows
  <2>5. row(p).id # s.id
    BY <1>3, <2>2, <2>4
  <2>6. QED
    BY <2>3, <2>5
<1>12. \A p, q \in ps : p < q => row(p).id < row(q).id
  BY <1>2, <1>3
<1>13. \A r, s \in events' : r.id = s.id \/ r.pos = s.pos => r = s
  <2>1. \A p, q \in ps : row(p).id = row(q).id \/ row(p).pos = row(q).pos => p = q
    BY <1>1, <1>2, <1>3
  <2>2. QED
    BY <1>4, <1>11, <2>1 DEF TableOK
<1>14. \A r, s \in events' :
          ContractOf(r) = ContractOf(s) /\ r.pos < s.pos => r.id < s.id
  <2> SUFFICES ASSUME NEW r \in events', NEW s \in events',
                      ContractOf(r) = ContractOf(s), r.pos < s.pos
               PROVE  r.id < s.id
    BY DEF ContractOf
  <2>1. CASE r \in events /\ s \in events
    BY <2>1 DEF TableOK, ContractOf
  <2>2. CASE r \in new /\ s \in new
    BY <1>12, <2>2
  <2>3. CASE r \in events /\ s \in new
    <3>1. r.id <= LastId /\ LastId < s.id /\ r.id \in Nat /\ s.id \in Nat
      BY <1>3, <1>8, <2>3, Rows DEF TableOK
    <3>2. QED
      BY <1>3, <3>1
  <2>4. CASE r \in new /\ s \in events
    <3>1. PICK p \in ps : r = row(p)
      BY <2>4
    <3>2. s.pos < p /\ p < s.pos
      BY <1>5, <1>6, <2>4, <3>1
    <3>3. QED
      BY <1>1, <2>4, <3>2, Rows DEF TableOK
  <2>5. QED
    BY <1>4, <2>1, <2>2, <2>3, <2>4
<1>15. TableOK'
  BY <1>7, <1>9, <1>10, <1>13, <1>14 DEF TableOK, ContractOf
<1>16. QED
  BY <1>4, <1>5, <1>6, <1>7, <1>8, <1>15

LEMMA DeleteTable ==
    ASSUME TableOK, NEW c \in Contracts, Delete(c)
    PROVE  TableOK'
<1>1. events' \in SUBSET events /\ drawn' = drawn
  BY DEF Delete
<1>2. IsFiniteSet(events')
  BY <1>1, FS_Subset DEF TableOK
<1>3. QED
  BY <1>1, <1>2 DEF TableOK, ContractOf


-----------------------------------------------------------------------------
\* The selection of a page.

\* A query's rows are in the order asked for: with a cursor, they are the
\* matches after its row.
LEMMA OrderByIs ==
    ASSUME TableOK
    PROVE  /\ IsFiniteSet(Selectable)
           /\ StrictlyOrders(OrderBy, Selectable)
           /\ \A r, s \in Selectable : <<r, s>> \in OrderBy <=> Sooner(r, s)
<1>1. Selectable \in SUBSET events
  BY DEF Selectable, Hits
<1>2. IsFiniteSet(Selectable)
  BY <1>1, FS_Subset DEF TableOK
<1>3. \A r, s \in Selectable : <<r, s>> \in OrderBy <=> Sooner(r, s)
  BY DEF OrderBy, Sooner
<1>4. \A r \in Selectable : r.pos \in Nat
  BY <1>1, Rows DEF TableOK
<1>5. \A r, s \in Selectable : r.pos = s.pos => r = s
  BY <1>1 DEF TableOK
<1>6. StrictlyOrders(OrderBy, Selectable)
  <2>1. \A r \in Selectable : ~Sooner(r, r)
    BY <1>4 DEF Sooner
  <2>2. \A r, s, t \in Selectable : Sooner(r, s) /\ Sooner(s, t) => Sooner(r, t)
    BY <1>4 DEF Sooner
  <2>3. \A r, s \in Selectable : r # s => Sooner(r, s) \/ Sooner(s, r)
    BY <1>4, <1>5 DEF Sooner
  <2>4. QED
    BY <1>3, <2>1, <2>2, <2>3 DEF StrictlyOrders
<1>7. QED
  BY <1>2, <1>3, <1>6

\* The rows a query finds.
LEMMA Found ==
    ASSUME TableOK
    PROVE  /\ Selected \in Seq(Selectable)
           /\ Len(Selected) \in 0 .. Limit + 1
           /\ \A i, j \in 1 .. Len(Selected) : i < j => Sooner(Selected[i], Selected[j])
           /\ \A r \in Selectable, i \in 1 .. Len(Selected) :
                 Sooner(r, Selected[i]) => \E j \in 1 .. Len(Selected) : Selected[j] = r
           /\ Len(Selected) <= Limit =>
                 \A r \in Selectable : \E i \in 1 .. Len(Selected) : Selected[i] = r
<1>1. Limit \in Nat /\ Limit + 1 \in Nat
  BY PagingAssumption
<1>2. LET f == FirstOf(Selectable, OrderBy, Limit + 1)
      IN  /\ f \in Seq(Selectable)
          /\ Len(f) <= Limit + 1
          /\ \A i, j \in 1 .. Len(f) : i < j => <<f[i], f[j]>> \in OrderBy
          /\ \A x \in Selectable, i \in 1 .. Len(f) :
                <<x, f[i]>> \in OrderBy => \E j \in 1 .. Len(f) : f[j] = x
          /\ Len(f) < Limit + 1 => \A x \in Selectable : \E i \in 1 .. Len(f) : f[i] = x
  BY <1>1, OrderByIs, Firsts
<1> DEFINE f == Selected
<1>3. /\ f \in Seq(Selectable)
      /\ Len(f) <= Limit + 1
      /\ \A i, j \in 1 .. Len(f) : i < j => <<f[i], f[j]>> \in OrderBy
      /\ \A x \in Selectable, i \in 1 .. Len(f) :
            <<x, f[i]>> \in OrderBy => \E j \in 1 .. Len(f) : f[j] = x
      /\ Len(f) < Limit + 1 => \A x \in Selectable : \E i \in 1 .. Len(f) : f[i] = x
  BY <1>2 DEF Selected
<1> HIDE DEF f
<1>4. Len(f) \in Nat /\ \A i \in 1 .. Len(f) : f[i] \in Selectable
  BY <1>3
<1>5. \A i, j \in 1 .. Len(f) : i < j => Sooner(f[i], f[j])
  BY <1>3, <1>4, OrderByIs
<1>6. \A r \in Selectable, i \in 1 .. Len(f) :
         Sooner(r, f[i]) => \E j \in 1 .. Len(f) : f[j] = r
  BY <1>3, <1>4, OrderByIs
<1>7. QED
  BY <1>1, <1>3, <1>4, <1>5, <1>6 DEF f

\* The page of a query: its first rows, and the last of them is the cursor
\* when there is a row more.
Page == SubSeq(Selected, 1, IF Len(Selected) > Limit THEN Limit ELSE Len(Selected))

LEMMA PageIs ==
    ASSUME TableOK
    PROVE  /\ Page \in Seq(Selectable)
           /\ \A i, j \in 1 .. Len(Page) : i < j => Sooner(Page[i], Page[j])
           /\ Len(Selected) <= Limit => \A r \in Selectable : \E i \in 1 .. Len(Page) : Page[i] = r
           /\ Len(Selected) > Limit =>
                 /\ Len(Page) = Limit
                 /\ Limit \in 1 .. Len(Page)
                 /\ Selected[Limit] = Page[Limit]
                 /\ \A r \in Selectable : Sooner(r, Page[Limit]) =>
                       \E i \in 1 .. Len(Page) : Page[i] = r
<1> DEFINE f == Selected
           m == IF Len(f) > Limit THEN Limit ELSE Len(f)
<1>1. /\ f \in Seq(Selectable)
      /\ Len(f) \in 0 .. Limit + 1
      /\ \A i, j \in 1 .. Len(f) : i < j => Sooner(f[i], f[j])
      /\ \A r \in Selectable, i \in 1 .. Len(f) :
            Sooner(r, f[i]) => \E j \in 1 .. Len(f) : f[j] = r
      /\ Len(f) <= Limit => \A r \in Selectable : \E i \in 1 .. Len(f) : f[i] = r
  BY Found
<1>2. Limit \in Nat /\ Limit > 0
  BY PagingAssumption
<1>3. Page = SubSeq(f, 1, m)
  BY DEF Page
<1> HIDE DEF f
<1>4. m \in Nat /\ m <= Len(f) /\ Len(f) \in Nat /\ m <= Limit
  BY <1>1, <1>2
<1>5. Page \in Seq(Selectable) /\ Len(Page) = m /\ \A i \in 1 .. m : Page[i] = f[i]
  BY <1>1, <1>3, <1>4
<1>6. \A i, j \in 1 .. Len(Page) : i < j => Sooner(Page[i], Page[j])
  BY <1>1, <1>4, <1>5
<1>7. ASSUME Len(f) <= Limit
      PROVE  \A r \in Selectable : \E i \in 1 .. Len(Page) : Page[i] = r
  <2>1. m = Len(f)
    BY <1>2, <1>4, <1>7
  <2>2. \A r \in Selectable : \E i \in 1 .. Len(f) : f[i] = r
    BY <1>1, <1>7
  <2> HIDE DEF m
  <2>3. QED
    BY <1>5, <2>1, <2>2
<1>8. ASSUME Len(f) > Limit
      PROVE  /\ Len(Page) = Limit
             /\ Limit \in 1 .. Len(Page)
             /\ f[Limit] = Page[Limit]
             /\ \A r \in Selectable : Sooner(r, Page[Limit]) =>
                   \E i \in 1 .. Len(Page) : Page[i] = r
  <2>1. m = Limit /\ Limit \in 1 .. m /\ f[Limit] = Page[Limit]
    BY <1>2, <1>4, <1>5, <1>8
  <2> SUFFICES ASSUME NEW r \in Selectable, Sooner(r, f[Limit])
               PROVE  \E i \in 1 .. m : f[i] = r
    BY <1>5, <2>1
  <2>2. Limit \in 1 .. Len(f)
    BY <1>2, <1>4, <1>8
  <2>3. PICK j \in 1 .. Len(f) : f[j] = r
    BY <1>1, <2>2
  <2>4. CASE j <= Limit
    BY <2>1, <2>3, <2>4, <1>4
  <2>5. CASE j > Limit
    <3>1. Sooner(f[Limit], r)
      BY <1>1, <2>2, <2>3, <2>5
    <3>2. f[Limit] \in Selectable
      BY <1>1, <2>2
    <3>3. f[Limit].pos \in Nat /\ r.pos \in Nat
      BY <3>2, Rows DEF TableOK, Selectable, Hits
    <3>4. QED
      BY <3>1, <3>3 DEF Sooner
  <2>6. QED
    BY <1>2, <2>4, <2>5
<1>9. QED
  BY <1>5, <1>6, <1>7, <1>8 DEF f


-----------------------------------------------------------------------------
\* The initial states.

LEMMA Starts == Init => IInv
<1> SUFFICES ASSUME Init PROVE IInv
  OBVIOUS
<1>1. PICK c \in Contracts :
         trav = [st |-> "idle", contract |-> c, asc |-> TRUE, cursor |-> 0,
                 out |-> <<>>, gen |-> 0, snap |-> {}]
  BY DEF Init
<1>2. /\ trav.st = "idle" /\ trav.contract = c /\ trav.asc = TRUE /\ trav.cursor = 0
      /\ trav.out = <<>> /\ trav.gen = 0 /\ trav.snap = {}
  BY <1>1
<1>3. events = {} /\ drawn = 0 /\ tracked = {} /\ gen = [d \in Contracts |-> 0]
  BY DEF Init
<1>4. MaxId \in Nat
  BY PagingAssumption
<1>5. Held = {} /\ Wanted = {}
  BY <1>2, <1>3 DEF Held, Wanted, ToSet, Hits
<1>6. TypeOK
  <2>1. trav \in Traversal
    BY <1>1, <1>4 DEF Traversal
  <2>2. QED
    BY <1>2, <1>3, <1>4, <2>1 DEF TypeOK
<1>7. TableOK
  BY <1>3, <1>4, FS_EmptySet DEF TableOK
<1>8. TravOK
  <2>1. trav.gen <= gen[trav.contract]
    BY <1>2, <1>3
  <2>2. DOMAIN trav.out = {}
    BY <1>2
  <2>3. QED
    BY <1>2, <1>5, <2>1, <2>2 DEF TravOK, Running
<1>9. IdsOK
  BY <1>5 DEF IdsOK
<1>10. QED
  BY <1>6, <1>7, <1>8, <1>9 DEF IInv

-----------------------------------------------------------------------------
\* Writes under a traversal.

\* What a traversal knows of the rows survives every write that leaves its
\* contract's rows in place and adds rows only at their end.
LEMMA Stays ==
    ASSUME TypeOK, TableOK, TravOK, TableOK',
           trav' = trav, gen' = gen,
           events \subseteq events',
           \A r \in events' \ events : \A s \in events :
               ContractOf(s) = ContractOf(r) => s.pos < r.pos
    PROVE  TravOK'
<1>1. Held' = Held /\ Running' = Running /\ Undisturbed' = Undisturbed
  BY DEF Held, Running, Undisturbed
<1>2. Wanted \subseteq Wanted'
  BY DEF Wanted, Hits, ContractOf
<1>3. \A r, s : Sooner(r, s)' = Sooner(r, s)
  BY DEF Sooner
<1>4. ASSUME Undisturbed, Running, trav.cursor # 0
      PROVE  \E k \in Wanted' : AtRow(k)'
  <2>1. PICK k \in Wanted : AtRow(k)
    BY <1>4 DEF TravOK
  <2>2. k \in Held /\ k.id = trav.cursor /\ \A r \in Held : r = k \/ Sooner(r, k)
    BY <2>1 DEF AtRow
  <2>3. k \in events /\ ContractOf(k) = trav.contract /\ trav.snap \subseteq Wanted
    BY <1>4 DEF Wanted, Hits, TravOK
  <2>4. ASSUME NEW r \in Wanted', r \notin Wanted
        PROVE  /\ trav.asc => Sooner(k, r)
               /\ ~trav.asc => ~Sooner(k, r) /\ r \notin trav.snap
    <3>1. r \in events' \ events /\ ContractOf(r) = trav.contract
      BY <2>4 DEF Wanted, Hits, ContractOf
    <3>2. k.pos < r.pos
      BY <2>3, <3>1
    <3>3. k.pos \in Nat /\ r.pos \in Nat
      BY <2>3, <3>1, Rows DEF TableOK
    <3>4. QED
      BY <2>3, <2>4, <3>2, <3>3 DEF Sooner
  <2>5. /\ \A r \in Wanted : ~Sooner(k, r) => r \in Held \/ (~trav.asc /\ r \notin trav.snap)
        /\ ~trav.asc => \A r \in Wanted : Sooner(k, r) => r \in trav.snap
    BY <2>1 DEF AtRow
  <2>6. AtRow(k)'
    BY <1>1, <1>3, <2>2, <2>4, <2>5 DEF AtRow
  <2>7. QED
    BY <1>2, <2>6
<1>5. QED
  BY <1>1, <1>2, <1>3, <1>4 DEF TravOK

LEMMA CommitKeeps ==
    ASSUME IInv, NEW c \in Contracts, NEW ps \in SUBSET DOMAIN Emitted, Commit(c, ps)
    PROVE  IInv'
<1>1. TypeOK /\ TableOK /\ TravOK /\ IdsOK
  BY DEF IInv
<1>2. /\ TableOK'
      /\ drawn <= drawn'
      /\ events \subseteq events'
      /\ \A r \in events' \ events :
            /\ ContractOf(r) = c
            /\ LastId < r.id
            /\ \A s \in events : ContractOf(s) = c => s.pos < r.pos
  BY <1>1, CommitTable
<1>3. trav' = trav /\ gen' = gen /\ tracked' = tracked
  BY DEF Commit
<1>4. TypeOK'
  BY <1>1, <1>2, <1>3 DEF TypeOK, TableOK
<1>5. TravOK'
  BY <1>1, <1>2, <1>3, Stays
<1>6. IdsOK'
  <2> SUFFICES ASSUME Sequence
               PROVE  /\ \A r \in Held : r.id <= drawn'
                      /\ \A r \in Held, s \in events' : r.id = s.id => r = s
    BY <1>3 DEF IdsOK, Held
  <2>1. Held \subseteq Row
    BY <1>1 DEF Held, ToSet, TypeOK, Traversal
  <2>2. \A r \in Held : r.id \in Nat /\ r.id <= drawn
    BY <1>1, <2>1, Rows DEF IdsOK
  <2>3. drawn \in Nat /\ drawn' \in Nat
    BY <1>1, <1>2, PagingAssumption DEF TableOK
  <2>4. ASSUME NEW r \in Held, NEW s \in events', r.id = s.id PROVE r = s
    <3>1. CASE s \in events
      BY <1>1, <2>4, <3>1 DEF IdsOK
    <3>2. CASE s \notin events
      <4>1. drawn < s.id
        BY <1>2, <3>2 DEF LastId
      <4>2. QED
        BY <2>2, <2>3, <2>4, <4>1
    <3>3. QED
      BY <3>1, <3>2
  <2>5. QED
    BY <1>2, <2>2, <2>3, <2>4
<1>7. QED
  BY <1>2, <1>4, <1>5, <1>6 DEF IInv

LEMMA RegisterKeeps ==
    ASSUME IInv, NEW c \in Contracts, Register(c)
    PROVE  IInv'
<1>1. TypeOK /\ TableOK /\ TravOK /\ IdsOK
  BY DEF IInv
<1>2. events' = events /\ drawn' = drawn /\ gen' = gen /\ trav' = trav
  BY DEF Register
<1>3. TypeOK'
  BY <1>1, <1>2 DEF TypeOK, Register
<1>4. TableOK'
  BY <1>1, <1>2 DEF TableOK, ContractOf
<1>5. TravOK'
  BY <1>1, <1>2, <1>4, Stays
<1>6. IdsOK'
  BY <1>1, <1>2 DEF IdsOK, Held
<1>7. QED
  BY <1>3, <1>4, <1>5, <1>6 DEF IInv

\* A deletion of the traversal's contract counts; one of another contract
\* leaves the contract's rows alone.
LEMMA DeleteKeeps ==
    ASSUME IInv, NEW c \in Contracts, Delete(c)
    PROVE  IInv'
<1>1. TypeOK /\ TableOK /\ TravOK /\ IdsOK
  BY DEF IInv
<1>2. /\ events' = {r \in events : ContractOf(r) # c} /\ drawn' = drawn
      /\ gen' = [gen EXCEPT ![c] = @ + 1] /\ trav' = trav
      /\ tracked' = tracked \ {c}
  BY DEF Delete
<1>3. gen \in [Contracts -> Nat] /\ trav.contract \in Contracts /\ trav.gen \in Nat
  BY <1>1 DEF TypeOK, Traversal
<1>4. TypeOK'
  <2>1. gen' \in [Contracts -> Nat]
    <3>1. gen[c] + 1 \in Nat
      BY <1>3
    <3>2. QED
      BY <1>2, <1>3, <3>1
  <2>2. QED
    BY <1>1, <1>2, <2>1 DEF TypeOK
<1>5. TableOK'
  BY <1>1, DeleteTable
<1>6. IdsOK'
  BY <1>1, <1>2 DEF IdsOK, Held
<1>7. TravOK'
  <2>1. Held' = Held /\ Running' = Running
    BY <1>2 DEF Held, Running
  <2>2. CASE c = trav.contract
    <3>1. gen'[trav.contract] = gen[trav.contract] + 1
      BY <1>2, <1>3, <2>2
    <3>2. trav.gen <= gen[trav.contract] /\ gen[trav.contract] \in Nat
      BY <1>1, <1>3 DEF TravOK
    <3>3. ~Undisturbed'
      BY <1>2, <1>3, <3>1, <3>2 DEF Undisturbed
    <3>4. trav'.gen <= gen'[trav'.contract]
      BY <1>2, <1>3, <3>1, <3>2
    <3>5. trav'.st = "idle" => trav'.out = <<>>
      BY <1>1, <1>2 DEF TravOK
    <3>6. QED
      BY <3>3, <3>4, <3>5 DEF TravOK
  <2>3. CASE c # trav.contract
    <3>1. gen'[trav.contract] = gen[trav.contract]
      BY <1>2, <1>3, <2>3
    <3>2. Wanted' = Wanted
      BY <1>2, <2>3 DEF Wanted, Hits, ContractOf
    <3>3. Undisturbed' = Undisturbed
      BY <1>2, <3>1 DEF Undisturbed
    <3>4. \A k : AtRow(k)' = AtRow(k)
      BY <1>2, <2>1, <3>2 DEF AtRow, Sooner
    <3>5. QED
      BY <1>1, <1>2, <2>1, <3>1, <3>2, <3>3, <3>4 DEF TravOK, Sooner
  <2>4. QED
    BY <2>2, <2>3
<1>8. QED
  BY <1>4, <1>5, <1>6, <1>7 DEF IInv


-----------------------------------------------------------------------------
\* The traversal's own steps.

LEMMA StartKeeps ==
    ASSUME IInv, NEW c \in Contracts, NEW asc \in Directions, Start(c, asc)
    PROVE  IInv'
<1>1. TypeOK /\ TableOK /\ TravOK /\ IdsOK
  BY DEF IInv
<1>2. /\ trav' = [st |-> "check", contract |-> c, asc |-> asc, cursor |-> 0,
                  out |-> <<>>, gen |-> gen[c], snap |-> {}]
      /\ tracked' = tracked /\ events' = events /\ drawn' = drawn /\ gen' = gen
  BY DEF Start
<1>3. /\ trav'.st = "check" /\ trav'.contract = c /\ trav'.cursor = 0
      /\ trav'.out = <<>> /\ trav'.gen = gen[c] /\ trav'.snap = {}
  BY <1>2
<1>4. gen[c] \in Nat /\ MaxId \in Nat /\ asc \in BOOLEAN
  BY <1>1, PagingAssumption DEF TypeOK
<1>5. Held' = {} /\ DOMAIN trav'.out = {}
  BY <1>3 DEF Held, ToSet
<1>6. TypeOK'
  <2>1. trav' \in Traversal
    BY <1>2, <1>4 DEF Traversal
  <2>2. QED
    BY <1>1, <1>2, <1>3, <2>1 DEF TypeOK
<1>7. TableOK'
  BY <1>1, <1>2 DEF TableOK, ContractOf
<1>8. TravOK'
  BY <1>2, <1>3, <1>4, <1>5 DEF TravOK, Running
<1>9. IdsOK'
  BY <1>5 DEF IdsOK
<1>10. QED
  BY <1>6, <1>7, <1>8, <1>9 DEF IInv

\* A step that only moves the stage, and not to the end.
LEMMA StageKeeps ==
    ASSUME IInv, NEW st \in {"query", "failed"}, trav' = [trav EXCEPT !.st = st],
           trav.st \in {"check", "query"},
           UNCHANGED <<tracked, events, drawn, gen>>
    PROVE  IInv'
<1>1. TypeOK /\ TableOK /\ TravOK /\ IdsOK
  BY DEF IInv
<1>2. /\ trav \in Traversal /\ trav' \in Traversal
      /\ trav'.st = st /\ trav'.contract = trav.contract /\ trav'.asc = trav.asc
      /\ trav'.cursor = trav.cursor /\ trav'.out = trav.out
      /\ trav'.gen = trav.gen /\ trav'.snap = trav.snap
  BY <1>1 DEF TypeOK, Traversal
<1>3. TypeOK'
  BY <1>1, <1>2 DEF TypeOK
<1>4. TableOK'
  BY <1>1 DEF TableOK, ContractOf
<1>5. IdsOK'
  BY <1>1, <1>2 DEF IdsOK, Held
<1>6. TravOK'
  <2>1. Held' = Held /\ Wanted' = Wanted /\ Undisturbed' = Undisturbed /\ Running
    BY <1>2 DEF Held, Wanted, Hits, ContractOf, Undisturbed, Running
  <2>2. \A k : AtRow(k)' = AtRow(k)
    BY <1>2, <2>1 DEF AtRow, Sooner
  <2>3. QED
    BY <1>1, <1>2, <2>1, <2>2 DEF TravOK, Sooner
<1>7. QED
  BY <1>3, <1>4, <1>5, <1>6 DEF IInv

\* Of an undisturbed traversal, the rows to select are those after its row.
LEMMA SelectableIs ==
    ASSUME TypeOK, TableOK, trav.cursor # 0, NEW k \in Wanted, k.id = trav.cursor
    PROVE  Selectable = {r \in Wanted : Sooner(k, r)}
<1>1. /\ \A r \in Wanted : /\ r \in events /\ ContractOf(r) = trav.contract
                           /\ r.id \in Nat /\ r.pos \in Nat
  BY Rows DEF Wanted, Hits, TableOK
<1>2. \A r \in Wanted : /\ r.pos < k.pos => r.id < k.id
                        /\ k.pos < r.pos => k.id < r.id
                        /\ r.pos = k.pos => r = k
  BY <1>1 DEF TableOK
<1>3. ASSUME NEW r \in Wanted PROVE AfterCursor(r) <=> Sooner(k, r)
  <2>1. r.id \in Nat /\ r.pos \in Nat /\ k.id \in Nat /\ k.pos \in Nat
    BY <1>1
  <2>2. /\ r.pos < k.pos => r.id < k.id
        /\ k.pos < r.pos => k.id < r.id
        /\ r.pos = k.pos => r.id = k.id
    BY <1>2
  <2>3. k.id < r.id <=> k.pos < r.pos
    BY <2>1, <2>2
  <2>4. r.id < k.id <=> r.pos < k.pos
    BY <2>1, <2>2
  <2>5. QED
    BY <2>1, <2>3, <2>4 DEF AfterCursor, Sooner
<1>4. QED
  BY <1>3 DEF Selectable, Wanted


\* What a query does to the traversal.
More == Len(Selected) > Limit

LEMMA QueryDoes ==
    ASSUME TypeOK, TableOK, Query
    PROVE  /\ trav' \in Traversal
           /\ trav'.st = (IF More THEN "check" ELSE "done")
           /\ trav'.contract = trav.contract
           /\ trav'.asc = trav.asc
           /\ trav'.gen = trav.gen
           /\ trav'.out = trav.out \o Page
           /\ trav'.snap = (IF trav.cursor = 0 THEN Wanted ELSE trav.snap)
           /\ More => trav'.cursor = Page[Limit].id /\ Page[Limit] \in ToSet(Page)
           /\ ~More => trav'.cursor = trav.cursor
           /\ Held' = Held \union ToSet(Page)
           /\ ToSet(Page) \subseteq Selectable
<1> DEFINE st == IF More THEN "check" ELSE "done"
           out == trav.out \o Page
           cursor == IF More THEN NextCursor(Selected) ELSE trav.cursor
           snap == IF trav.cursor = 0 THEN Hits(trav.contract) ELSE trav.snap
<1>1. trav' = [trav EXCEPT !.st = st, !.out = out, !.cursor = cursor, !.snap = snap]
  BY DEF Query, More, Page
<1>2. trav \in Traversal /\ events \subseteq Row
  BY DEF TypeOK
<1>3. Selectable \subseteq events /\ Hits(trav.contract) \subseteq Row
  BY <1>2 DEF Selectable, Hits
<1>4. /\ Page \in Seq(Selectable)
      /\ More => /\ Limit \in 1 .. Len(Page)
                 /\ Selected[Limit] = Page[Limit]
  BY PageIs DEF More
<1>5. Page \in Seq(Row) /\ trav.out \in Seq(Row)
  <2>1. Selectable \subseteq Row
    BY <1>2, <1>3
  <2>2. trav.out \in Seq(Row)
    BY <1>2 DEF Traversal
  <2>3. QED
    BY <1>4, <2>1, <2>2
<1>6. out \in Seq(Row) /\ ToSet(out) = ToSet(trav.out) \union ToSet(Page)
  <2>1. /\ out \in Seq(Row) /\ Len(out) = Len(trav.out) + Len(Page)
        /\ DOMAIN out = 1 .. Len(out) /\ DOMAIN Page = 1 .. Len(Page)
        /\ DOMAIN trav.out = 1 .. Len(trav.out)
        /\ Len(trav.out) \in Nat /\ Len(Page) \in Nat
    BY <1>5
  <2>2. \A i \in DOMAIN trav.out : i \in DOMAIN out /\ out[i] = trav.out[i]
    BY <1>5, <2>1
  <2>3. \A i \in DOMAIN Page :
           Len(trav.out) + i \in DOMAIN out /\ out[Len(trav.out) + i] = Page[i]
    BY <1>5, <2>1
  <2>4. \A i \in DOMAIN out : i \in DOMAIN trav.out \/ i - Len(trav.out) \in DOMAIN Page
    BY <2>1
  <2>5. ASSUME NEW i \in DOMAIN out, i \notin DOMAIN trav.out
        PROVE  \E j \in DOMAIN Page : out[i] = Page[j]
    <3>1. i - Len(trav.out) \in DOMAIN Page
      BY <2>4, <2>5
    <3>2. Len(trav.out) + (i - Len(trav.out)) = i
      BY <2>1
    <3>3. QED
      BY <2>3, <3>1, <3>2
  <2> HIDE DEF out
  <2>6. QED
    BY <2>1, <2>2, <2>3, <2>5 DEF ToSet
<1>7. ToSet(Page) \subseteq Selectable
  BY <1>4 DEF ToSet
<1>8. More => NextCursor(Selected) = Page[Limit].id /\ Page[Limit] \in ToSet(Page)
  BY <1>4 DEF NextCursor, ToSet
<1>9. cursor \in 0 .. MaxId
  <2>1. CASE More
    <3>1. Page[Limit] \in Row /\ cursor = Page[Limit].id
      BY <1>2, <1>3, <1>7, <1>8, <2>1
    <3>2. cursor \in 1 .. MaxId
      BY <3>1 DEF Row
    <3>3. QED
      BY <3>2, PagingAssumption
  <2>2. CASE ~More
    BY <1>2, <2>2 DEF Traversal
  <2>3. QED
    BY <2>1, <2>2
<1>10. snap \in SUBSET Row /\ st \in {"check", "done"}
  BY <1>2, <1>3 DEF Traversal
<1> HIDE DEF st, out, cursor, snap
<1>11. trav' \in Traversal
  BY <1>1, <1>2, <1>6, <1>9, <1>10 DEF Traversal
<1>12. /\ trav'.st = st /\ trav'.out = out /\ trav'.cursor = cursor /\ trav'.snap = snap
       /\ trav'.contract = trav.contract /\ trav'.asc = trav.asc /\ trav'.gen = trav.gen
  BY <1>1, <1>2 DEF Traversal
<1>13. QED
  BY <1>6, <1>7, <1>8, <1>11, <1>12 DEF st, out, cursor, snap, Wanted, Held

LEMMA QueryKeeps == ASSUME IInv, Query PROVE IInv'
<1>1. TypeOK /\ TableOK /\ TravOK /\ IdsOK
  BY DEF IInv
<1>2. UNCHANGED <<tracked, events, drawn, gen>> /\ trav.st = "query"
  BY DEF Query
<1>3. /\ trav' \in Traversal
      /\ trav'.st = (IF More THEN "check" ELSE "done")
      /\ trav'.contract = trav.contract
      /\ trav'.asc = trav.asc
      /\ trav'.gen = trav.gen
      /\ trav'.out = trav.out \o Page
      /\ trav'.snap = (IF trav.cursor = 0 THEN Wanted ELSE trav.snap)
      /\ More => trav'.cursor = Page[Limit].id /\ Page[Limit] \in ToSet(Page)
      /\ ~More => trav'.cursor = trav.cursor
      /\ Held' = Held \union ToSet(Page)
      /\ ToSet(Page) \subseteq Selectable
  BY <1>1, QueryDoes
<1>4. TypeOK'
  <2>1. trav'.cursor \in {0} \union {r.id : r \in Held'}
    BY <1>1, <1>3 DEF TypeOK, Held
  <2>2. QED
    BY <1>1, <1>2, <1>3, <2>1 DEF TypeOK, Held
<1>5. TableOK'
  BY <1>1, <1>2 DEF TableOK, ContractOf
<1>6. ToSet(Page) \subseteq events
  BY <1>3 DEF Selectable, Hits
<1>7. IdsOK'
  <2>1. \A r \in ToSet(Page), s \in events : r.id = s.id => r = s
    BY <1>1, <1>6 DEF TableOK
  <2>2. \A r \in ToSet(Page) : r.id <= drawn
    BY <1>1, <1>6 DEF TableOK
  <2>3. QED
    BY <1>1, <1>2, <1>3, <2>1, <2>2 DEF IdsOK
<1>8. TravOK'
  <2>1. Wanted' = Wanted /\ Undisturbed' = Undisturbed /\ trav'.gen <= gen'[trav'.contract]
    BY <1>1, <1>2, <1>3 DEF Wanted, Hits, ContractOf, Undisturbed, TravOK
  <2>2. \A r, s : Sooner(r, s)' = Sooner(r, s)
    BY <1>3 DEF Sooner
  <2>3. trav'.st # "idle" /\ (Running' => More) /\ (trav'.st = "done" => ~More)
    BY <1>3 DEF Running
  <2> SUFFICES ASSUME Undisturbed
               PROVE  /\ Held' \subseteq Wanted
                      /\ trav'.snap \subseteq Wanted
                      /\ \A i, j \in DOMAIN trav'.out : i < j => Sooner(trav'.out[i], trav'.out[j])
                      /\ ~trav.asc => Held' \subseteq trav'.snap
                      /\ More => trav'.cursor # 0
                      /\ More => \E k \in Wanted : AtRow(k)'
                      /\ ~More => trav'.snap \subseteq Held'
    BY <1>3, <2>1, <2>2, <2>3 DEF TravOK, Running
  <2>4. /\ Held \subseteq Wanted
        /\ trav.snap \subseteq Wanted
        /\ \A i, j \in DOMAIN trav.out : i < j => Sooner(trav.out[i], trav.out[j])
        /\ ~trav.asc => Held \subseteq trav.snap
        /\ trav.cursor = 0 => trav.out = <<>>
        /\ trav.cursor # 0 => \E k \in Wanted : AtRow(k)
    BY <1>1, <1>2 DEF TravOK, Running
  <2>5. Selectable \subseteq Wanted
    BY DEF Selectable, Wanted
  <2>6. \A r \in Wanted : r.pos \in Nat /\ r.id \in Nat /\ 0 < r.id /\ r \in events
    BY <1>1, Rows DEF Wanted, Hits, TableOK
  <2>7. /\ \A i, j \in DOMAIN Page : i < j => Sooner(Page[i], Page[j])
        /\ ~More => \A r \in Selectable : r \in ToSet(Page)
        /\ More => \A r \in Selectable : Sooner(r, Page[Limit]) => r \in ToSet(Page)
        /\ More => \A r \in ToSet(Page) : r = Page[Limit] \/ Sooner(r, Page[Limit])
        /\ Page \in Seq(Selectable)
    <3>1. /\ Page \in Seq(Selectable)
          /\ \A i, j \in 1 .. Len(Page) : i < j => Sooner(Page[i], Page[j])
          /\ ~More => \A r \in Selectable : \E i \in 1 .. Len(Page) : Page[i] = r
          /\ More => /\ Len(Page) = Limit
                     /\ Limit \in 1 .. Len(Page)
                     /\ \A r \in Selectable : Sooner(r, Page[Limit]) =>
                           \E i \in 1 .. Len(Page) : Page[i] = r
      BY <1>1, PageIs, Found, PagingAssumption DEF More
    <3>2. DOMAIN Page = 1 .. Len(Page) /\ Len(Page) \in Nat /\ Limit \in Nat
      BY <3>1, PagingAssumption
    <3>3. ASSUME More, NEW i \in 1 .. Len(Page)
          PROVE  Page[i] = Page[Limit] \/ Sooner(Page[i], Page[Limit])
      <4>1. i = Limit \/ i < Limit
        BY <3>1, <3>2, <3>3
      <4>2. QED
        BY <3>1, <3>3, <4>1
    <3>4. QED
      BY <3>1, <3>2, <3>3 DEF ToSet
  \* Where the page begins: everything held comes sooner than everything found.
  <2>8. \A r \in Held, s \in Selectable : Sooner(r, s)
    <3>1. CASE trav.cursor = 0
      BY <2>4, <3>1 DEF Held, ToSet
    <3>2. CASE trav.cursor # 0
      <4>1. PICK k \in Wanted : AtRow(k)
        BY <2>4, <3>2
      <4>2. Selectable = {r \in Wanted : Sooner(k, r)}
        BY <1>1, <3>2, <4>1, SelectableIs DEF AtRow
      <4>3. \A r \in Held : r = k \/ Sooner(r, k)
        BY <4>1 DEF AtRow
      <4>4. \A r, s \in Wanted : Sooner(r, k) /\ Sooner(k, s) => Sooner(r, s)
        BY <2>6 DEF Sooner
      <4>5. QED
        BY <2>4, <4>2, <4>3, <4>4
    <3>3. QED
      BY <3>1, <3>2
  <2>9. /\ trav'.snap \subseteq Wanted
        /\ ~trav.asc => Held' \subseteq trav'.snap
    <3>1. CASE trav.cursor = 0
      BY <1>3, <2>4, <2>5, <3>1 DEF Held, ToSet
    <3>2. CASE trav.cursor # 0
      <4>1. PICK k \in Wanted : AtRow(k)
        BY <2>4, <3>2
      <4>2. Selectable = {r \in Wanted : Sooner(k, r)}
        BY <1>1, <3>2, <4>1, SelectableIs DEF AtRow
      <4>3. ~trav.asc => \A r \in Wanted : Sooner(k, r) => r \in trav.snap
        BY <4>1 DEF AtRow
      <4>4. QED
        BY <1>3, <2>4, <3>2, <4>2, <4>3
    <3>3. QED
      BY <3>1, <3>2
  \* What is wanted and not found was passed already, or came too late.
  <2>10. \A r \in Wanted : r \notin Selectable =>
            r \in Held \/ (~trav.asc /\ r \notin trav'.snap)
    <3>1. CASE trav.cursor = 0
      BY <3>1 DEF Selectable, AfterCursor, Wanted
    <3>2. CASE trav.cursor # 0
      <4>1. PICK k \in Wanted : AtRow(k)
        BY <2>4, <3>2
      <4>2. Selectable = {r \in Wanted : Sooner(k, r)}
        BY <1>1, <3>2, <4>1, SelectableIs DEF AtRow
      <4>3. \A r \in Wanted : ~Sooner(k, r) => r \in Held \/ (~trav.asc /\ r \notin trav.snap)
        BY <4>1 DEF AtRow
      <4>4. QED
        BY <1>3, <3>2, <4>2, <4>3
    <3>3. QED
      BY <3>1, <3>2
  <2>11. ~trav.asc => \A r \in Selectable : r \in trav'.snap
    <3>1. CASE trav.cursor = 0
      BY <1>3, <2>5, <3>1
    <3>2. CASE trav.cursor # 0
      <4>1. PICK k \in Wanted : AtRow(k)
        BY <2>4, <3>2
      <4>2. Selectable = {r \in Wanted : Sooner(k, r)}
        BY <1>1, <3>2, <4>1, SelectableIs DEF AtRow
      <4>3. ~trav.asc => \A r \in Wanted : Sooner(k, r) => r \in trav.snap
        BY <4>1 DEF AtRow
      <4>4. QED
        BY <1>3, <3>2, <4>2, <4>3
    <3>3. QED
      BY <3>1, <3>2
  <2>12. \A i, j \in DOMAIN trav'.out : i < j => Sooner(trav'.out[i], trav'.out[j])
    <3> DEFINE a == trav.out
               b == Page
               ab == trav'.out
    <3>1. a \in Seq(Row) /\ b \in Seq(Row) /\ ab = a \o b
      <4>1. Selectable \subseteq Row /\ a \in Seq(Row)
        BY <1>1, <2>5, <2>6 DEF TypeOK, Traversal
      <4>2. QED
        BY <1>3, <2>7, <4>1
    <3>2. /\ \A i, j \in DOMAIN a : i < j => Sooner(a[i], a[j])
          /\ \A i, j \in DOMAIN b : i < j => Sooner(b[i], b[j])
          /\ \A i \in DOMAIN a, j \in DOMAIN b : Sooner(a[i], b[j])
      BY <1>3, <2>4, <2>7, <2>8 DEF Held, ToSet
    <3> HIDE DEF a, b, ab
    <3> SUFFICES ASSUME NEW i \in DOMAIN ab, NEW j \in DOMAIN ab, i < j
                 PROVE  Sooner(ab[i], ab[j])
      BY DEF ab
    <3>3. /\ DOMAIN a = 1 .. Len(a) /\ DOMAIN b = 1 .. Len(b)
          /\ DOMAIN ab = 1 .. (Len(a) + Len(b))
          /\ Len(a) \in Nat /\ Len(b) \in Nat
      BY <3>1
    <3>4. \A n \in DOMAIN ab : /\ n <= Len(a) => n \in DOMAIN a /\ ab[n] = a[n]
                               /\ n > Len(a) => /\ n - Len(a) \in DOMAIN b
                                                /\ ab[n] = b[n - Len(a)]
      BY <3>1, <3>3
    <3>5. CASE j <= Len(a)
      BY <3>2, <3>3, <3>4, <3>5
    <3>6. CASE i > Len(a)
      <4>1. i - Len(a) \in DOMAIN b /\ j - Len(a) \in DOMAIN b /\ i - Len(a) < j - Len(a)
        BY <3>3, <3>4, <3>6
      <4>2. ab[i] = b[i - Len(a)] /\ ab[j] = b[j - Len(a)]
        BY <3>3, <3>4, <3>6
      <4>3. QED
        BY <3>2, <4>1, <4>2
    <3>7. CASE i <= Len(a) /\ j > Len(a)
      BY <3>2, <3>4, <3>7
    <3>8. QED
      BY <3>3, <3>5, <3>6, <3>7
  <2>13. ASSUME More PROVE trav'.cursor # 0 /\ \E k \in Wanted : AtRow(k)'
    <3>1. PICK k \in Selectable : k = Page[Limit]
      BY <1>3, <2>13
    <3>2. k \in ToSet(Page) /\ k \in Selectable /\ k \in Wanted /\ trav'.cursor = k.id
      BY <1>3, <2>5, <2>13, <3>1
    <3>3. k.id \in Nat /\ 0 < k.id /\ k.pos \in Nat
      BY <2>6, <3>2
    <3>4. \A r \in Held' : r = k \/ Sooner(r, k)
      BY <1>3, <2>7, <2>8, <2>13, <3>1, <3>2
    <3>5. \A r \in Wanted : ~Sooner(k, r) => r = k \/ Sooner(r, k)
      <4>1. \A r \in Wanted : r.pos = k.pos => r = k
        BY <1>1, <2>6, <3>2 DEF TableOK
      <4>2. QED
        BY <2>6, <3>3, <4>1 DEF Sooner
    <3>6. \A r \in Wanted : ~Sooner(k, r) => r \in Held' \/ (~trav.asc /\ r \notin trav'.snap)
      <4> SUFFICES ASSUME NEW r \in Wanted, ~Sooner(k, r)
                   PROVE  r \in Held' \/ (~trav.asc /\ r \notin trav'.snap)
        OBVIOUS
      <4>1. CASE r \notin Selectable
        BY <1>3, <2>10, <4>1
      <4>2. CASE r \in Selectable
        BY <1>3, <2>7, <2>13, <3>2, <3>1, <3>5, <4>2
      <4>3. QED
        BY <4>1, <4>2
    <3>7. ~trav.asc => \A r \in Wanted : Sooner(k, r) => r \in trav'.snap
      <4> SUFFICES ASSUME ~trav.asc, NEW r \in Wanted, Sooner(k, r)
                   PROVE  r \in trav'.snap
        OBVIOUS
      <4>1. CASE r \in Selectable
        BY <2>11, <4>1
      <4>2. CASE r \notin Selectable
        <5>1. r \notin Held
          <6>1. r \in Held => Sooner(r, k)
            BY <2>8, <3>2
          <6>2. QED
            BY <2>6, <3>3, <6>1 DEF Sooner
        <5>2. trav.cursor # 0
          BY <4>2 DEF Selectable, AfterCursor, Wanted
        <5>3. PICK l \in Wanted : AtRow(l)
          BY <2>4, <5>2
        <5>4. Sooner(l, k) /\ l \in Held
          BY <2>8, <3>2, <5>3 DEF AtRow
        <5>5. Sooner(l, r)
          BY <2>6, <3>3, <5>4 DEF Sooner
        <5>6. QED
          BY <1>1, <4>2, <5>2, <5>3, <5>5, SelectableIs DEF AtRow
      <4>3. QED
        BY <4>1, <4>2
    <3>8. AtRow(k)'
      BY <1>3, <2>1, <2>2, <3>2, <3>4, <3>6, <3>7 DEF AtRow
    <3>9. QED
      BY <3>2, <3>3, <3>8
  <2>14. ASSUME ~More PROVE trav'.snap \subseteq Held'
    <3>1. ASSUME NEW r \in trav'.snap PROVE r \in Held'
      <4>1. CASE r \in Selectable
        BY <1>3, <2>7, <2>14, <4>1
      <4>2. CASE r \notin Selectable
        BY <1>3, <2>9, <2>10, <3>1, <4>2
      <4>3. QED
        BY <4>1, <4>2
    <3>2. QED
      BY <3>1
  <2>15. Held' \subseteq Wanted
    BY <1>3, <2>4, <2>5
  <2>16. QED
    BY <2>9, <2>12, <2>13, <2>14, <2>15
<1>9. QED
  BY <1>4, <1>5, <1>7, <1>8 DEF IInv


-----------------------------------------------------------------------------
\* The theorems.

LEMMA NextKeeps == ASSUME IInv, [Next]_vars PROVE IInv'
<1>1. CASE UNCHANGED vars
  <2>1. TypeOK' /\ TableOK'
    BY <1>1 DEF IInv, vars, TypeOK, TableOK, ContractOf
  <2>2. Held' = Held /\ Wanted' = Wanted /\ Undisturbed' = Undisturbed /\ Running' = Running
    BY <1>1 DEF vars, Held, Wanted, Hits, ContractOf, Undisturbed, Running
  <2>3. \A k : AtRow(k)' = AtRow(k)
    BY <1>1, <2>2 DEF vars, AtRow, Sooner
  <2>4. TravOK'
    BY <1>1, <2>2, <2>3 DEF IInv, vars, TravOK, Sooner
  <2>5. IdsOK'
    BY <1>1, <2>2 DEF IInv, vars, IdsOK
  <2>6. QED
    BY <2>1, <2>4, <2>5 DEF IInv
<1>2. ASSUME NEW c \in Contracts, NEW ps \in SUBSET DOMAIN Emitted, Commit(c, ps)
      PROVE  IInv'
  BY <1>2, CommitKeeps
<1>3. ASSUME NEW c \in Contracts, Register(c) PROVE IInv'
  BY <1>3, RegisterKeeps
<1>4. ASSUME NEW c \in Contracts, Delete(c) PROVE IInv'
  BY <1>4, DeleteKeeps
<1>5. ASSUME NEW c \in Contracts, NEW asc \in Directions, Start(c, asc) PROVE IInv'
  BY <1>5, StartKeeps
<1>6. CASE CheckTracked
  <2>1. /\ trav' = [trav EXCEPT !.st = "query"] /\ trav.st \in {"check", "query"}
        /\ UNCHANGED <<tracked, events, drawn, gen>>
    BY <1>6 DEF CheckTracked
  <2>2. QED
    BY <2>1, StageKeeps
<1>7. CASE CheckNotFound
  <2>1. /\ trav' = [trav EXCEPT !.st = "failed"] /\ trav.st \in {"check", "query"}
        /\ UNCHANGED <<tracked, events, drawn, gen>>
    BY <1>7 DEF CheckNotFound
  <2>2. QED
    BY <2>1, StageKeeps
<1>8. CASE Query
  BY <1>8, QueryKeeps
<1>9. CASE RequestFails
  <2>1. /\ trav' = [trav EXCEPT !.st = "failed"] /\ trav.st \in {"check", "query"}
        /\ UNCHANGED <<tracked, events, drawn, gen>>
    BY <1>9 DEF RequestFails
  <2>2. QED
    BY <2>1, StageKeeps
<1>10. QED
  BY <1>1, <1>2, <1>3, <1>4, <1>5, <1>6, <1>7, <1>8, <1>9 DEF Next

THEOREM Inductive == Spec => []IInv
<1>1. Init => IInv
  BY Starts
<1>2. IInv /\ [Next]_vars => IInv'
  BY NextKeeps
<1>3. QED
  BY <1>1, <1>2, PTL DEF Spec

\* The tables and the traversal have their types, and a cursor is the id of an
\* event that was yielded.
THEOREM TypeCorrect == Spec => []TypeOK
<1>1. IInv => TypeOK
  BY DEF IInv
<1>2. QED
  BY <1>1, Inductive, PTL

\* A traversal that no deletion disturbs yields events strictly in the order
\* asked for, across pages and whatever the indexer writes meanwhile.
THEOREM InTheOrderAsked == Spec => []PageOrder
<1>1. IInv => PageOrder
  BY DEF IInv, TravOK, PageOrder, Sooner
<1>2. QED
  BY <1>1, Inductive, PTL

\* One that reaches its end has yielded every match there was at its first
\* page and, newest first, nothing else.
THEOREM NothingMissed == Spec => []TraversalComplete
<1>1. IInv => TraversalComplete
  BY DEF IInv, TravOK, TraversalComplete, Held
<1>2. QED
  BY <1>1, Inductive, PTL

\* Oldest first, the last page reaches the end of the table as it is at that
\* statement.
THEOREM ReachesTableEnd == Spec => EndsAtTableEnd
<1> DEFINE A == trav.st = "query" /\ trav'.st = "done" /\ Undisturbed /\ trav.asc =>
                   Hits(trav.contract) \subseteq ToSet(trav'.out)
<1>1. IInv /\ [Next]_vars => [A]_vars
  <2> SUFFICES ASSUME IInv, Next, trav.st = "query", trav'.st = "done", Undisturbed, trav.asc
               PROVE  Hits(trav.contract) \subseteq ToSet(trav'.out)
    BY DEF vars
  <2>1. TypeOK /\ TableOK /\ TravOK
    BY DEF IInv
  <2>2. Query
    <3>1. RequestFails => trav'.st = "failed"
      BY <2>1 DEF RequestFails, TypeOK, Traversal
    <3>2. QED
      BY <3>1 DEF Next, Commit, Register, Delete, Start, CheckTracked, CheckNotFound
  <2>3. /\ trav'.st = (IF More THEN "check" ELSE "done")
        /\ Held' = Held \union ToSet(Page)
    BY <2>1, <2>2, QueryDoes
  <2>4. ~More
    BY <2>3
  <2>5. \A r \in Selectable : r \in ToSet(Page)
    <3>1. /\ Page \in Seq(Selectable)
          /\ \A r \in Selectable : \E i \in 1 .. Len(Page) : Page[i] = r
      BY <2>1, <2>4, PageIs, Found, PagingAssumption DEF More
    <3>2. DOMAIN Page = 1 .. Len(Page)
      BY <3>1
    <3>3. QED
      BY <3>1, <3>2 DEF ToSet
  <2>6. \A r \in Wanted : r \in Selectable \/ r \in Held
    <3>1. CASE trav.cursor = 0
      BY <3>1 DEF Selectable, AfterCursor, Wanted
    <3>2. CASE trav.cursor # 0
      <4>1. PICK k \in Wanted : AtRow(k)
        BY <2>1, <3>2 DEF TravOK, Running
      <4>2. Selectable = {r \in Wanted : Sooner(k, r)}
        BY <2>1, <3>2, <4>1, SelectableIs DEF AtRow
      <4>3. QED
        BY <4>1, <4>2 DEF AtRow
    <3>3. QED
      BY <3>1, <3>2
  <2>7. QED
    BY <2>3, <2>5, <2>6 DEF Wanted, Held
<1>2. QED
  BY <1>1, Inductive, PTL DEF Spec, EndsAtTableEnd

\* With ids from a sequence, an id that was handed out fetches its event or
\* nothing, also after the contract was deleted and registered again.
THEOREM IdsStayTrue == Sequence => (Spec => []HeldIdsTrue)
<1> SUFFICES ASSUME Sequence PROVE Spec => []HeldIdsTrue
  OBVIOUS
<1>1. IInv => HeldIdsTrue
  <2> SUFFICES ASSUME IInv, NEW i \in DOMAIN trav.out, NEW r \in events, r.id = trav.out[i].id
               PROVE  r = trav.out[i]
    BY DEF HeldIdsTrue, EventById
  <2>1. trav.out[i] \in Held
    BY DEF Held, ToSet
  <2>2. QED
    BY <2>1 DEF IInv, IdsOK
<1>2. QED
  BY <1>1, Inductive, PTL

-----------------------------------------------------------------------------
\* The traversal as a listing.

\* The places of rows, one after another.
LEMMA PlacesAre ==
    ASSUME NEW a \in Seq(Row)
    PROVE  /\ Places(a) \in Seq(DOMAIN Emitted)
           /\ Len(Places(a)) = Len(a)
           /\ DOMAIN Places(a) = DOMAIN a
           /\ \A i \in DOMAIN a : Places(a)[i] = a[i].pos
           /\ List!ToSet(Places(a)) = {r.pos : r \in ToSet(a)}
<1>1. Len(a) \in Nat /\ DOMAIN a = 1 .. Len(a) /\ \A i \in DOMAIN a : a[i] \in Row
  OBVIOUS
<1>2. DOMAIN Places(a) = DOMAIN a /\ \A i \in DOMAIN a : Places(a)[i] = a[i].pos
  BY DEF Places
<1>3. \A i \in DOMAIN a : a[i].pos \in DOMAIN Emitted
  BY <1>1, Rows
<1>4. Places(a) \in Seq(DOMAIN Emitted) /\ Len(Places(a)) = Len(a)
  <2>1. Places(a) = [i \in 1 .. Len(a) |-> a[i].pos]
    BY <1>1 DEF Places
  <2>2. QED
    BY <1>1, <1>3, <2>1
<1>5. List!ToSet(Places(a)) = {r.pos : r \in ToSet(a)}
  BY <1>2 DEF List!ToSet, ToSet
<1>6. QED
  BY <1>2, <1>4, <1>5

LEMMA Joined ==
    ASSUME NEW S, NEW a \in Seq(S), NEW b \in Seq(S)
    PROVE  /\ a \o b \in Seq(S) /\ Len(a \o b) = Len(a) + Len(b)
           /\ Len(a) \in Nat /\ Len(b) \in Nat
           /\ DOMAIN a = 1 .. Len(a) /\ DOMAIN b = 1 .. Len(b)
           /\ DOMAIN (a \o b) = 1 .. (Len(a) + Len(b))
           /\ \A i \in 1 .. (Len(a) + Len(b)) :
                 /\ i <= Len(a) => i \in DOMAIN a /\ (a \o b)[i] = a[i]
                 /\ i > Len(a) => i - Len(a) \in DOMAIN b /\ (a \o b)[i] = b[i - Len(a)]
  OBVIOUS

LEMMA PlacesJoin ==
    ASSUME NEW a \in Seq(Row), NEW b \in Seq(Row)
    PROVE  Places(a \o b) = Places(a) \o Places(b)
<1> DEFINE pa == Places(a)
           pb == Places(b)
           x == Places(a \o b)
<1>1. /\ a \o b \in Seq(Row)
      /\ \A i \in 1 .. (Len(a) + Len(b)) :
            /\ i <= Len(a) => i \in DOMAIN a /\ (a \o b)[i] = a[i]
            /\ i > Len(a) => i - Len(a) \in DOMAIN b /\ (a \o b)[i] = b[i - Len(a)]
      /\ Len(a) \in Nat /\ Len(b) \in Nat
      /\ DOMAIN (a \o b) = 1 .. (Len(a) + Len(b)) /\ Len(a \o b) = Len(a) + Len(b)
  BY Joined
<1>2. /\ pa \in Seq(DOMAIN Emitted) /\ Len(pa) = Len(a)
      /\ pb \in Seq(DOMAIN Emitted) /\ Len(pb) = Len(b)
      /\ x \in Seq(DOMAIN Emitted) /\ Len(x) = Len(a) + Len(b)
      /\ \A i \in DOMAIN a : pa[i] = a[i].pos
      /\ \A i \in DOMAIN b : pb[i] = b[i].pos
      /\ \A i \in DOMAIN (a \o b) : x[i] = (a \o b)[i].pos
  BY <1>1, PlacesAre
<1> HIDE DEF pa, pb, x
<1>3. /\ pa \o pb \in Seq(DOMAIN Emitted) /\ Len(pa \o pb) = Len(a) + Len(b)
      /\ \A i \in 1 .. (Len(a) + Len(b)) :
            /\ i <= Len(a) => (pa \o pb)[i] = pa[i]
            /\ i > Len(a) => (pa \o pb)[i] = pb[i - Len(a)]
  BY <1>2, Joined
<1>4. \A i \in 1 .. (Len(a) + Len(b)) : i <= Len(a) \/ i > Len(a)
  BY <1>1
<1>5. ASSUME NEW i \in 1 .. (Len(a) + Len(b)) PROVE x[i] = (pa \o pb)[i]
  <2>1. x[i] = (a \o b)[i].pos
    BY <1>1, <1>2
  <2>2. CASE i <= Len(a)
    <3>1. i \in DOMAIN a /\ (a \o b)[i] = a[i] /\ (pa \o pb)[i] = pa[i]
      BY <1>1, <1>3, <2>2
    <3>2. pa[i] = a[i].pos
      BY <1>2, <3>1
    <3>3. QED
      BY <2>1, <3>1, <3>2
  <2>3. CASE i > Len(a)
    <3>1. i - Len(a) \in DOMAIN b /\ (a \o b)[i] = b[i - Len(a)] /\ (pa \o pb)[i] = pb[i - Len(a)]
      BY <1>1, <1>3, <2>3
    <3>2. pb[i - Len(a)] = b[i - Len(a)].pos
      BY <1>2, <3>1
    <3>3. QED
      BY <2>1, <3>1, <3>2
  <2>4. QED
    BY <1>4, <2>2, <2>3
<1> DEFINE y == pa \o pb
<1> HIDE DEF y
<1>6. x = y
  BY <1>1, <1>2, <1>3, <1>5 DEF y
<1>7. QED
  BY <1>6 DEF x, y, pa, pb

LEMMA MatchesAre == List!Matches = {r.pos : r \in Wanted}
  BY DEF List!Matches, Wanted, Hits, ContractOf

LEMMA SoonerPlaces ==
    ASSUME NEW r, NEW s
    PROVE  List!Sooner(r.pos, s.pos) <=> Sooner(r, s)
  BY DEF List!Sooner, Sooner

\* A page is the first of what its query selects, and short of it exactly when
\* a row was read ahead.
LEMMA PageFirst ==
    ASSUME TableOK
    PROVE  /\ \A r \in Selectable, i \in 1 .. Len(Page) :
                 Sooner(r, Page[i]) => \E j \in 1 .. Len(Page) : Page[j] = r
           /\ ~More => \A r \in Selectable : \E i \in 1 .. Len(Page) : Page[i] = r
           /\ More => \E r \in Selectable : r \notin ToSet(Page)
<1> DEFINE f == Selected
           m == IF Len(f) > Limit THEN Limit ELSE Len(f)
<1>1. /\ f \in Seq(Selectable)
      /\ Len(f) \in 0 .. Limit + 1
      /\ \A i, j \in 1 .. Len(f) : i < j => Sooner(f[i], f[j])
      /\ \A r \in Selectable, i \in 1 .. Len(f) :
            Sooner(r, f[i]) => \E j \in 1 .. Len(f) : f[j] = r
      /\ Len(f) <= Limit => \A r \in Selectable : \E i \in 1 .. Len(f) : f[i] = r
  BY Found
<1>2. Limit \in Nat /\ Limit > 0
  BY PagingAssumption
<1>3. Page = SubSeq(f, 1, m) /\ (More <=> Len(f) > Limit)
  BY DEF Page, More
<1> HIDE DEF f
<1>4. m \in Nat /\ m <= Len(f) /\ Len(f) \in Nat
  BY <1>1, <1>2
<1>5. Page \in Seq(Selectable) /\ Len(Page) = m /\ \A i \in 1 .. m : Page[i] = f[i]
  BY <1>1, <1>3, <1>4
<1>6. \A r, s \in Selectable : ~(Sooner(r, s) /\ Sooner(s, r)) /\ ~Sooner(r, r)
  <2>1. \A r \in Selectable : r.pos \in Nat
    BY Rows DEF TableOK, Selectable, Hits
  <2>2. QED
    BY <2>1 DEF Sooner
<1>7. \A i \in 1 .. Len(f) : f[i] \in Selectable
  BY <1>1
<1> HIDE DEF m
<1>8. ASSUME NEW r \in Selectable, NEW i \in 1 .. m, Sooner(r, f[i])
      PROVE  \E j \in 1 .. m : f[j] = r
  <2>1. i \in 1 .. Len(f)
    BY <1>4
  <2>2. PICK j \in 1 .. Len(f) : f[j] = r
    BY <1>1, <1>8, <2>1
  <2>3. ~(i < j)
    BY <1>1, <1>6, <1>7, <1>8, <2>1, <2>2
  <2>4. j \in 1 .. m
    BY <1>4, <2>3
  <2>5. QED
    BY <2>2, <2>4
<1>9. ASSUME Len(f) <= Limit
      PROVE  \A r \in Selectable : \E i \in 1 .. m : f[i] = r
  <2>1. m = Len(f)
    BY <1>1, <1>2, <1>9 DEF m
  <2>2. QED
    BY <1>1, <1>9, <2>1
<1>10. ASSUME Len(f) > Limit
       PROVE  \E r \in Selectable : r \notin ToSet(Page)
  <2>1. m = Limit /\ Limit + 1 \in 1 .. Len(f)
    BY <1>1, <1>2, <1>10 DEF m
  <2>2. \A i \in 1 .. m : f[i] # f[Limit + 1]
    <3>1. ASSUME NEW i \in 1 .. m PROVE f[i] # f[Limit + 1]
      <4>1. i \in 1 .. Len(f) /\ i < Limit + 1
        BY <1>2, <1>4, <2>1
      <4>2. QED
        BY <1>1, <1>6, <1>7, <2>1, <4>1
    <3>2. QED
      BY <3>1
  <2>3. DOMAIN Page = 1 .. m
    BY <1>5
  <2>4. f[Limit + 1] \notin ToSet(Page)
    BY <1>5, <2>2, <2>3 DEF ToSet
  <2>5. QED
    BY <1>7, <2>1, <2>4
<1>11. QED
  BY <1>2, <1>3, <1>4, <1>5, <1>8, <1>9, <1>10

\* Undisturbed, what a query selects is what remains to be listed.
LEMMA RemainingIs ==
    ASSUME IInv, Undisturbed, Running
    PROVE  List!Remaining = {r.pos : r \in Selectable}
<1>1. TypeOK /\ TableOK /\ TravOK
  BY DEF IInv
<1>2. trav.out \in Seq(Row)
  BY <1>1 DEF TypeOK, Traversal
<1>3. List!ToSet(Places(trav.out)) = {r.pos : r \in Held}
  BY <1>2, PlacesAre DEF Held
<1>4. Selectable \subseteq Wanted /\ Held \subseteq Wanted
  BY <1>1 DEF Selectable, Wanted, TravOK
<1>5. \A r \in Wanted : r.pos \in Nat
  BY <1>1, Rows DEF Wanted, Hits, TableOK
<1>6. ASSUME NEW r \in Wanted
      PROVE  r \in Selectable <=> \A q \in Held : Sooner(q, r)
  <2>1. CASE trav.cursor = 0
    <3>1. Held = {}
      BY <1>1, <2>1 DEF TravOK, Held, ToSet
    <3>2. QED
      BY <2>1, <3>1 DEF Selectable, AfterCursor, Wanted
  <2>2. CASE trav.cursor # 0
    <3>1. PICK k \in Wanted : AtRow(k)
      BY <1>1, <2>2 DEF TravOK
    <3>2. Selectable = {s \in Wanted : Sooner(k, s)}
      BY <1>1, <2>2, <3>1, SelectableIs DEF AtRow
    <3>3. k \in Held /\ \A q \in Held : q = k \/ Sooner(q, k)
      BY <3>1 DEF AtRow
    <3>4. \A q \in Held : Sooner(q, k) /\ Sooner(k, r) => Sooner(q, r)
      BY <1>4, <1>5 DEF Sooner
    <3>5. QED
      BY <3>2, <3>3, <3>4
  <2>3. QED
    BY <2>1, <2>2
<1>7. ASSUME NEW r \in Wanted
      PROVE  r.pos \in List!Remaining <=> r \in Selectable
  <2>1. r.pos \in List!Matches
    BY MatchesAre
  <2>2. r.pos \in List!Remaining <=> \A q \in Held : List!Sooner(q.pos, r.pos)
    BY <1>3, <2>1 DEF List!Remaining
  <2>3. QED
    BY <1>6, <2>2, SoonerPlaces
<1>8. List!Remaining \subseteq {r.pos : r \in Wanted}
  BY MatchesAre DEF List!Remaining
<1>9. QED
  BY <1>4, <1>7, <1>8

\* A query that answers is a turn of the listing.
LEMMA QueryTurns ==
    ASSUME IInv, Query
    PROVE  \E page \in List!SeqOf(List!Matches, Limit) : List!Turn(page)
<1>1. TypeOK /\ TableOK /\ TravOK /\ trav.st = "query"
  BY DEF IInv, Query
<1>2. /\ trav'.st = (IF More THEN "check" ELSE "done")
      /\ trav'.contract = trav.contract /\ trav'.asc = trav.asc /\ trav'.gen = trav.gen
      /\ trav'.out = trav.out \o Page
      /\ events' = events /\ gen' = gen
  BY <1>1, QueryDoes DEF Query
<1>3. /\ Page \in Seq(Selectable)
      /\ Len(Page) <= Limit
      /\ More => Len(Page) = Limit
  <2>1. Page \in Seq(Selectable) /\ (More => Len(Page) = Limit)
    BY <1>1, PageIs DEF More
  <2>2. ~More => Len(Page) <= Limit
    <3>1. Selected \in Seq(Selectable) /\ Len(Selected) \in Nat /\ Limit \in Nat
      BY <1>1, Found, PagingAssumption
    <3>2. ~More => Len(Page) = Len(Selected) /\ Len(Selected) <= Limit
      BY <3>1 DEF Page, More
    <3>3. QED
      BY <3>2
  <2>3. QED
    BY <2>1, <2>2, PagingAssumption
<1>4. Selectable \subseteq Wanted /\ Wanted \subseteq Row
  BY <1>1 DEF Selectable, Wanted, Hits, TypeOK
<1>5. Page \in Seq(Row) /\ trav.out \in Seq(Row)
  <2>1. Selectable \subseteq Row
    BY <1>4
  <2>2. QED
    BY <1>1, <1>3, <2>1 DEF TypeOK, Traversal
<1> DEFINE page == Places(Page)
<1>6. /\ page \in Seq(DOMAIN Emitted)
      /\ Len(page) = Len(Page) /\ Len(Page) \in Nat
      /\ DOMAIN page = DOMAIN Page /\ DOMAIN Page = 1 .. Len(Page)
      /\ \A i \in DOMAIN Page : page[i] = Page[i].pos /\ Page[i] \in Selectable
      /\ List!ToSet(page) = {r.pos : r \in ToSet(Page)}
  BY <1>3, <1>5, PlacesAre
<1> HIDE DEF page
<1>7. page \in List!SeqOf(List!Matches, Limit)
  <2>1. \A i \in 1 .. Len(Page) : page[i] \in List!Matches
    BY <1>4, <1>6, MatchesAre
  <2>2. page \in [1 .. Len(Page) -> List!Matches]
    BY <1>6, <2>1
  <2>3. Len(Page) \in 0 .. Limit
    <3>1. Limit \in Nat /\ Len(Page) \in Nat /\ Len(Page) <= Limit
      BY <1>3, <1>6, PagingAssumption
    <3>2. QED
      BY <3>1
  <2>4. QED
    BY <2>2, <2>3 DEF List!SeqOf
<1>8. \A i, j \in DOMAIN page : i < j => List!Sooner(page[i], page[j])
  <2>1. \A i, j \in 1 .. Len(Page) : i < j => Sooner(Page[i], Page[j])
    BY <1>1, PageIs
  <2>2. QED
    BY <1>6, <2>1, SoonerPlaces
<1>9. Places(trav'.out) = Places(trav.out) \o page
  BY <1>2, <1>5, PlacesJoin DEF page
<1>10. ASSUME Undisturbed PROVE List!NextOfRemaining(page)
  <2>1. List!Remaining = {r.pos : r \in Selectable}
    BY <1>1, <1>10, RemainingIs DEF Running
  <2>2. \A r \in ToSet(Page) : r \in Selectable
    BY <1>6 DEF ToSet
  <2>3. List!ToSet(page) \subseteq List!Remaining
    BY <1>6, <2>1, <2>2
  <2>4. \A r, s \in Selectable : r.pos = s.pos => r = s
    BY <1>1 DEF Selectable, Hits, TableOK
  <2>5. /\ \A r \in Selectable, q \in ToSet(Page) : Sooner(r, q) => r \in ToSet(Page)
        /\ ~More => \A r \in Selectable : r \in ToSet(Page)
    <3>1. /\ \A r \in Selectable, i \in 1 .. Len(Page) :
                Sooner(r, Page[i]) => \E j \in 1 .. Len(Page) : Page[j] = r
          /\ ~More => \A r \in Selectable : \E i \in 1 .. Len(Page) : Page[i] = r
      BY <1>1, PageFirst DEF More
    <3>2. QED
      BY <1>6, <3>1 DEF ToSet
  <2>6. More => \E r \in Selectable : r \notin ToSet(Page)
    BY <1>1, PageFirst DEF More
  <2>7. \A r \in Selectable : r.pos \in List!ToSet(page) <=> r \in ToSet(Page)
    BY <1>6, <2>2, <2>4
  <2>8. \A p \in List!Remaining, q \in List!ToSet(page) :
           List!Sooner(p, q) => p \in List!ToSet(page)
    <3>1. ASSUME NEW r \in Selectable, NEW q \in ToSet(Page), List!Sooner(r.pos, q.pos)
          PROVE  r.pos \in List!ToSet(page)
      BY <2>5, <2>7, <3>1, SoonerPlaces
    <3>2. QED
      BY <1>6, <2>1, <3>1
  <2>9. List!Remaining \subseteq List!ToSet(page) <=> ~More
    BY <2>1, <2>5, <2>6, <2>7
  <2>10. /\ (IF trav'.st \in {"check", "query"} THEN "open" ELSE trav'.st) = "done" <=> ~More
         /\ (IF trav'.st \in {"check", "query"} THEN "open" ELSE trav'.st) = "open" => More
    BY <1>2
  <2>11. QED
    BY <1>3, <1>6, <2>3, <2>8, <2>9, <2>10 DEF List!NextOfRemaining
<1>11. List!Turn(page)
  <2>1. Undisturbed' = Undisturbed
    BY <1>2 DEF Undisturbed
  <2>2. {r.pos : r \in events'} = {r.pos : r \in events}
    BY <1>2
  <2>3. /\ (IF trav.st \in {"check", "query"} THEN "open" ELSE trav.st) = "open"
        /\ (IF trav'.st \in {"check", "query"} THEN "open" ELSE trav'.st) \in {"open", "done"}
    BY <1>1, <1>2
  <2>4. QED
    BY <1>2, <1>8, <1>9, <1>10, <2>1, <2>2, <2>3 DEF List!Turn
<1>12. QED
  BY <1>7, <1>11

LEMMA NextLists == ASSUME IInv, [Next]_vars PROVE [List!Next]_List!vars
<1>1. TypeOK /\ TableOK /\ TravOK
  BY DEF IInv
<1>2. ASSUME NEW c \in Contracts, NEW ps \in SUBSET DOMAIN Emitted, Commit(c, ps)
      PROVE  List!Next
  <2>1. {r.pos : r \in events'} = {r.pos : r \in events} \union ps
    <3> DEFINE row(p) == [id |-> LastId + Cardinality({q \in ps : q <= p}), pos |-> p]
    <3>1. events' = events \union {row(p) : p \in ps}
      BY <1>2 DEF Commit
    <3>2. \A p \in ps : row(p).pos = p
      OBVIOUS
    <3> HIDE DEF row
    <3>3. QED
      BY <3>1, <3>2
  <2>2. \A p \in ps, q \in {r.pos : r \in events} : Emitted[q].contract = c => q < p
    BY <1>2 DEF Commit, ContractOf
  <2>3. \A p \in ps : Emitted[p].contract = c
    BY <1>2 DEF Commit
  <2>4. trav' = trav /\ Undisturbed' = Undisturbed
    BY <1>2 DEF Commit, Undisturbed
  <2>5. List!Commit(c, ps)
    BY <2>1, <2>2, <2>3, <2>4 DEF List!Commit
  <2>6. QED
    BY <2>5 DEF List!Next
<1>3. ASSUME NEW c \in Contracts, Delete(c) PROVE List!Next
  <2>1. {r.pos : r \in events'} = {p \in {r.pos : r \in events} : Emitted[p].contract # c}
    BY <1>3 DEF Delete, ContractOf
  <2>2. /\ trav' = trav /\ gen' = [gen EXCEPT ![c] = @ + 1]
        /\ gen \in [Contracts -> Nat] /\ trav.gen \in Nat /\ trav.contract \in Contracts
        /\ trav.gen <= gen[trav.contract]
    BY <1>1, <1>3 DEF Delete, TypeOK, Traversal, TravOK
  <2>3. gen[c] \in Nat /\ gen[trav.contract] \in Nat
    BY <2>2
  <2>4. ~Undisturbed' <=> (~Undisturbed \/ c = trav.contract)
    <3>1. CASE c = trav.contract
      BY <2>2, <2>3, <3>1 DEF Undisturbed
    <3>2. CASE c # trav.contract
      BY <2>2, <3>2 DEF Undisturbed
    <3>3. QED
      BY <3>1, <3>2
  <2>5. List!Delete(c)
    BY <2>1, <2>2, <2>4 DEF List!Delete
  <2>6. QED
    BY <2>5 DEF List!Next
<1>4. ASSUME NEW c \in Contracts, NEW asc \in Directions, Start(c, asc) PROVE List!Next
  <2>1. /\ trav.st \in {"idle", "done", "failed"}
        /\ trav'.st = "check" /\ trav'.contract = c /\ trav'.asc = asc
        /\ trav'.out = <<>> /\ trav'.gen = gen[c]
        /\ UNCHANGED <<events, gen>>
    BY <1>4 DEF Start
  <2>2. Undisturbed' /\ Places(trav'.out) = <<>> /\ asc \in BOOLEAN
    BY <2>1, PagingAssumption DEF Undisturbed, Places
  <2>3. List!Start
    BY <2>1, <2>2 DEF List!Start
  <2>4. QED
    BY <2>3 DEF List!Next
<1>5. CASE Query
  BY <1>5, QueryTurns DEF List!Next
<1>6. CASE CheckNotFound \/ RequestFails
  <2>1. /\ trav.st \in {"check", "query"} /\ trav' = [trav EXCEPT !.st = "failed"]
        /\ UNCHANGED <<events, gen>>
    BY <1>6 DEF CheckNotFound, RequestFails
  <2>2. /\ trav'.st = "failed" /\ trav'.contract = trav.contract /\ trav'.asc = trav.asc
        /\ trav'.out = trav.out /\ trav'.gen = trav.gen
    BY <1>1, <2>1 DEF TypeOK, Traversal
  <2>3. Undisturbed' = Undisturbed
    BY <2>1, <2>2 DEF Undisturbed
  <2>4. List!Fail
    BY <2>1, <2>2, <2>3 DEF List!Fail
  <2>5. QED
    BY <2>4 DEF List!Next
<1>7. CASE CheckTracked
  <2>1. /\ trav.st = "check" /\ trav' = [trav EXCEPT !.st = "query"]
        /\ UNCHANGED <<events, gen>>
    BY <1>7 DEF CheckTracked
  <2>2. /\ trav'.st = "query" /\ trav'.contract = trav.contract /\ trav'.asc = trav.asc
        /\ trav'.out = trav.out /\ trav'.gen = trav.gen
    BY <1>1, <2>1 DEF TypeOK, Traversal
  <2>3. Undisturbed' = Undisturbed
    BY <2>1, <2>2 DEF Undisturbed
  <2>4. QED
    BY <2>1, <2>2, <2>3 DEF List!vars
<1>8. CASE UNCHANGED vars \/ \E c \in Contracts : Register(c)
  <2>1. UNCHANGED <<events, gen, trav>>
    BY <1>8 DEF vars, Register
  <2>2. QED
    BY <2>1 DEF List!vars, Undisturbed
<1>9. QED
  BY <1>2, <1>3, <1>4, <1>5, <1>6, <1>7, <1>8 DEF Next

\* A traversal implements the listing it promises its caller: page after page
\* of the next matches in the order asked for, until none remain, with ids,
\* cursors and the two statements of a request out of sight.
THEOREM ListingImplementation == Spec => ImplementsListing
<1>1. Init => List!Init
  <2> SUFFICES ASSUME Init PROVE List!Init
    OBVIOUS
  <2>1. PICK c \in Contracts :
           trav = [st |-> "idle", contract |-> c, asc |-> TRUE, cursor |-> 0,
                   out |-> <<>>, gen |-> 0, snap |-> {}]
    BY DEF Init
  <2>2. /\ trav.st = "idle" /\ trav.contract \in Contracts /\ trav.asc = TRUE
        /\ trav.out = <<>> /\ trav.gen = 0 /\ events = {} /\ gen[trav.contract] = 0
    BY <2>1 DEF Init
  <2>3. Places(trav.out) = <<>> /\ Undisturbed
    BY <2>2 DEF Places, Undisturbed
  <2>4. QED
    BY <2>2, <2>3 DEF List!Init
<1>2. QED
  BY <1>1, NextLists, Inductive, PTL DEF Spec, ImplementsListing, List!Spec

=============================================================================
