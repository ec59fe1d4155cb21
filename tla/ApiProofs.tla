------------------------------ MODULE ApiProofs ------------------------------
(***************************************************************************)
(* Proofs about Api for every value of its constants: any number of        *)
(* requests at once, of any kind, any arguments and any database.          *)
(***************************************************************************)
EXTENDS Api, OrderingProofs, SequenceTheorems

\* A request whose fields are still being resolved.
Live == {"guards", "body", "run"}

Shape(x) ==
    x = [st |-> x.st, req |-> x.req, left |-> x.left, got |-> x.got, out |-> x.out,
         status |-> x.status, body |-> x.body, expired |-> x.expired,
         faulted |-> x.faulted, truths |-> x.truths, honest |-> x.honest]

\* No row without its contract, no progress beyond the chain.
DbOK(d) ==
    /\ d = [last |-> d.last, rows |-> d.rows]
    /\ d.last = [c \in Tracked(d) |-> d.last[c]]
    /\ Tracked(d) \subseteq Contracts
    /\ \A c \in Tracked(d) : d.last[c] \in 0 .. MaxLedger
    /\ d.rows \subseteq [id : 1 .. MaxLedger, contract : Contracts, ledger : 1 .. MaxLedger]
    /\ \A r \in d.rows : r.contract \in Tracked(d)

\* What a field in the middle of its statements holds: the answer to its first
\* one was true, and for a contract's events there was a contract.
Midway(field, left, got, truths) ==
    \/ left = Statements(field) /\ got = <<>>
    \/ field.op = "register" /\ left = <<"get">>
    \/ /\ field.op = "get" /\ field.nested /\ left = <<"query">>
       /\ got = <<got[1]>> /\ Ok(got[1]) \in truths
    \/ field.op = "events" /\ left = <<"query">> /\ Existed(truths)

\* Why a field may fail without a fault and before its deadline.
Caused(field, truths) ==
    \/ field.op = "register" /\ NotFound \in truths
    \/ OverColumn(field)

\* What a field has come to is honest and, if it is an internal error, has a
\* cause.
FieldOK(x, f) ==
    LET field == x.req.fields[f]
    IN  /\ x.out[f].code \in Statuses \union {0}
        /\ x.left[f] # <<>> =>
              /\ x.out[f] = Pending
              /\ FieldAccepted(field)
              /\ Midway(field, x.left[f], x.got[f], x.truths[f])
        /\ x.left[f] = <<>> =>
              /\ x.out[f].code # 0
              /\ Honest(field, x.out[f], x.truths[f])
              /\ x.out[f].code = 500 =>
                    x.expired \/ x.faulted \/ Caused(field, x.truths[f])

LiveOK(k, x) ==
    /\ x.req \in Catalogue[k]
    /\ x.left = [f \in DOMAIN x.req.fields |-> x.left[f]]
    /\ x.got = [f \in DOMAIN x.req.fields |-> x.got[f]]
    /\ x.out = [f \in DOMAIN x.req.fields |-> x.out[f]]
    /\ x.truths = [f \in DOMAIN x.req.fields |-> x.truths[f]]
    /\ Guards(x.req) # {} /\ x.st # "guards" => x.req.token
    /\ \A f \in DOMAIN x.req.fields : FieldOK(x, f)

\* The status line comes first and once, then at most one body, the same.
AnswerOK(x) ==
    /\ x.st \notin {"header", "done"} => x.status = 0
    /\ x.st = "header" => x.status # 0
    /\ x.st # "done" => x.body = <<>>
    /\ x.st = "done" =>
          /\ x.body \in {<<>>, <<x.status>>}
          /\ x.body = <<>> => x.faulted \/ x.status = 204

CallOK(k, x) ==
    /\ Shape(x)
    /\ x.st \in {"idle", "header", "done"} \union Live
    /\ x.req \in Catalogue[k] \union {Absent}
    /\ x.status \in Statuses \union {0}
    /\ x.expired \in BOOLEAN /\ x.faulted \in BOOLEAN /\ x.honest = TRUE
    /\ AnswerOK(x)
    /\ x.st \in Live => LiveOK(k, x)
    /\ x.st \notin Live => x.out = <<>>

\* A request knows all that may be said in the database as it is now.
Knows(x, d) ==
    x.st \in Live =>
        \A f \in DOMAIN x.req.fields : Truths(x.req.fields[f], d) \subseteq x.truths[f]

\* An admitted write that has not run yet has a token of its own; a deletion
\* that took effect and whose 204 is still to come has its count.
Owes(x) ==
    /\ x.st \in {"body", "run"}
    /\ Guards(x.req) # {}
    /\ x.left[1] = Statements(x.req.fields[1])

Claims(x) == x.st \in Live /\ ~x.req.graphql /\ x.out[1].code = 204

Owing == {k \in Slots : Owes(calls[k])}
Claiming == {k \in Slots : Claims(calls[k])}

CallsOK ==
    /\ DbOK(db)
    /\ calls = [k \in Slots |-> calls[k]]
    /\ \A k \in Slots : CallOK(k, calls[k]) /\ Knows(calls[k], db)

CountsOK ==
    /\ ledger \in 0 .. MaxLedger
    /\ tokens \in 0 .. Burst
    /\ log \in [refills : Nat, writes : Nat, unclaimed : Int, faults : Nat]
    /\ log.writes + tokens + Cardinality(Owing) <= Burst + log.refills
    /\ Cardinality(Claiming) <= log.unclaimed

IInv == CallsOK /\ CountsOK

-----------------------------------------------------------------------------
\* Requests.

LEMMA Requests ==
    ASSUME NEW k \in Slots, NEW q \in Catalogue[k]
    PROVE  /\ q.graphql \in BOOLEAN /\ q.token \in BOOLEAN
           /\ q.fields \in Seq(Field)
           /\ ~q.graphql => DOMAIN q.fields = {1} /\ q.fields[1] \in Field
           /\ \A f \in DOMAIN q.fields :
                 /\ q.fields[f] \in Field
                 /\ q.fields[f].op \in Writes \union {"unrouted"} => ~q.graphql
                 /\ q.fields[f].op \in Writes =>
                       f = 1 /\ ~q.graphql /\ Guards(q) # {}
                 /\ q.fields[f].nested =>
                       /\ q.graphql /\ q.fields[f].op = "get"
                       /\ {q.fields[f].args.from, q.fields[f].args.to}
                             \subseteq Int32 \union {Absent}
           /\ Guards(q) # {} => ~q.graphql /\ q.fields[1].op \in Writes
<1>1. /\ q \in Request /\ (~q.graphql => Len(q.fields) = 1)
      /\ \A f \in DOMAIN q.fields :
            /\ q.graphql => q.fields[f].op \notin {"unrouted", "register", "delete"}
            /\ q.fields[f].nested => q.graphql /\ q.fields[f].op = "get"
  BY ApiAssumption
<1>2. q.graphql \in BOOLEAN /\ q.token \in BOOLEAN /\ q.fields \in Seq(Field)
  BY <1>1 DEF Request
<1>3. DOMAIN q.fields = 1 .. Len(q.fields) /\ \A f \in DOMAIN q.fields : q.fields[f] \in Field
  BY <1>2
<1>4. ~q.graphql => DOMAIN q.fields = {1}
  BY <1>1, <1>3
<1>5. ASSUME NEW f \in DOMAIN q.fields, q.fields[f].nested
      PROVE  {q.fields[f].args.from, q.fields[f].args.to} \subseteq Int32 \union {Absent}
  BY <1>5, ApiAssumption
<1>6. QED
  BY <1>1, <1>2, <1>3, <1>4, <1>5 DEF Writes, Guards

\* What the validators accept the store accepts, but for a ledger bound that
\* its column cannot hold.
LEMMA AcceptedByStore ==
    ASSUME NEW field \in Field, QueryAccepted(field.args),
           ~TooWide(EventQuery(field.args))
    PROVE  StoreAccepts(EventQuery(field.args))
<1> DEFINE a == field.args
<1>1. a.limit \in Raw /\ a.cursor \in Raw /\ a.order \in {Absent, Text, "asc", "desc"}
  BY DEF Field, Arguments
<1>2. /\ EventLimit(a.limit) # Refused /\ EventOrder(a.order) # Refused
      /\ EventCursor(a.cursor) # Refused /\ a.name # BadText /\ a.topic # BadText
  BY DEF QueryAccepted, EventFilterText
<1> HIDE DEF a
<1>3. ASSUME NEW n \in Raw, Digits(n) PROVE n \in Int /\ 0 <= n /\ n <= MaxInt64
  BY <1>3 DEF Raw, Digits
<1>4. EventLimit(a.limit) \in 0 .. MaxPageSize
  <2>1. CASE a.limit = Absent
    BY <2>1 DEF EventLimit, EventLimitDefault, MaxPageSize
  <2>2. CASE a.limit # Absent
    <3>1. EventLimit(a.limit) = a.limit /\ a.limit \in 1 .. EventLimitMax
      BY <1>2, <2>2 DEF EventLimit
    <3>2. \A n \in 1 .. EventLimitMax : n \in 0 .. MaxPageSize
      BY SMTT(30) DEF EventLimitMax, MaxPageSize
    <3>3. QED
      BY <3>1, <3>2
  <2>3. QED
    BY <2>1, <2>2
<1>5. EventOrder(a.order) \in {"asc", "desc"}
  BY <1>1, <1>2 DEF EventOrder
<1>6. EventCursor(a.cursor) >= 0 /\ EventCursor(a.cursor) <= MaxInt64
  <2>1. CASE a.cursor = Absent
    BY <2>1, ValidationAssumption DEF EventCursor
  <2>2. CASE a.cursor # Absent
    BY <1>1, <1>2, <1>3, <2>2 DEF EventCursor
  <2>3. QED
    BY <2>1, <2>2
<1>7. StoreAccepts(EventQuery(a))
  <2> DEFINE q == EventQuery(a)
  <2>1. /\ q.limit = EventLimit(a.limit) /\ q.order = EventOrder(a.order)
        /\ q.cursor = EventCursor(a.cursor) /\ q.texts = {a.name, a.topic}
    BY DEF EventQuery
  <2> HIDE DEF q
  <2>2. q.limit >= 0 /\ q.limit <= MaxPageSize
    <3>1. q.limit \in 0 .. MaxPageSize
      BY <1>4, <2>1
    <3>2. MaxPageSize \in Nat
      BY DEF MaxPageSize
    <3>3. QED
      BY <3>1, <3>2
  <2>3. QED
    BY <1>2, <1>5, <1>6, <2>1, <2>2 DEF StoreAccepts, q, a
<1>8. QED
  BY <1>7 DEF a

\* What fits a GraphQL Int fits the column.
LEMMA NarrowEnough ==
    ASSUME NEW args, {args.from, args.to} \subseteq Int32 \union {Absent}, QueryAccepted(args)
    PROVE  ~TooWide(EventQuery(args))
<1>1. ASSUME NEW raw \in {args.from, args.to} PROVE LedgerBound(raw) <= MaxColumn
  <2>1. CASE raw = Absent
    BY <2>1, ValidationAssumption DEF LedgerBound
  <2>2. CASE raw # Absent
    <3>1. raw \in Int32 /\ LedgerBound(raw) = raw
      BY <1>1, <2>2 DEF LedgerBound, QueryAccepted
    <3>2. QED
      BY <3>1, ApiAssumption, ValidationAssumption DEF Int32
  <2>3. QED
    BY <2>1, <2>2
<1>2. ASSUME NEW raw \in {args.from, args.to} PROVE LedgerBound(raw) \in Int
  BY <1>2, ApiAssumption DEF LedgerBound, QueryAccepted, Int32
<1>3. EventQuery(args).from <= MaxColumn /\ EventQuery(args).to <= MaxColumn
  BY <1>1 DEF EventQuery
<1>4. EventQuery(args).from \in Int /\ EventQuery(args).to \in Int
  BY <1>2 DEF EventQuery
<1>5. QED
  BY <1>3, <1>4, ValidationAssumption DEF TooWide

-----------------------------------------------------------------------------
\* The database.

LEMMA InInt32 ==
    ASSUME NEW g \in BOOLEAN, NEW n \in 0 .. MaxLedger
    PROVE  Number(g, n) = n
<1> DEFINE x == n + HalfRange
           y == 2 * HalfRange
           q == x \div y
<1>1. x \in Nat /\ y \in Nat /\ x < y /\ 0 < y
  BY ApiAssumption
<1>2. x = y * q + (x % y) /\ x % y \in 0 .. (y - 1) /\ q \in Int
  <2> HIDE DEF x, y
  <2>1. QED
    BY <1>1 DEF q
<1> HIDE DEF q
<1>3. y * q <= x /\ x < y * q + y
  <2> HIDE DEF x, y
  <2>1. QED
    BY <1>1, <1>2 DEF q
<1>4. q = 0
  <2>1. ASSUME 1 <= q PROVE y <= y * q
    <3> HIDE DEF x, y
    <3>1. QED
      BY <1>1, <1>2, <2>1
  <2>2. ASSUME q <= -1 PROVE y * q <= 0 - y
    <3> HIDE DEF x, y
    <3>1. QED
      BY <1>1, <1>2, <2>2
  <2> HIDE DEF x, y
  <2>3. QED
    BY <1>1, <1>2, <1>3, <2>1, <2>2
<1>5. x % y = x
  <2> HIDE DEF x, y
  <2>1. QED
    BY <1>1, <1>2, <1>4
<1>6. n \in Int /\ HalfRange \in Int
  BY ApiAssumption
<1>7. QED
  BY <1>5, <1>6 DEF Number

\* While the chain stays below 2^31, GraphQL says what REST says.
LEMMA SameNumbers ==
    ASSUME NEW d, DbOK(d), NEW g \in BOOLEAN
    PROVE  /\ Stats(g, d) = Stats(FALSE, d)
           /\ List(g, d) = List(FALSE, d)
           /\ \A c : Get(g, c, d) = Get(FALSE, c, d)
           /\ \A id : EventById(g, id, d) = EventById(FALSE, id, d)
           /\ \A c, args : Page(g, c, args, d) = Page(FALSE, c, args, d)
<1>1. \A n \in 0 .. MaxLedger : Number(g, n) = Number(FALSE, n)
  BY InInt32
<1>2. \A c \in Tracked(d) : d.last[c] \in 0 .. MaxLedger
  BY DEF DbOK
<1>3. \A r \in d.rows : Event(g, r) = Event(FALSE, r)
  <2>1. \A r \in d.rows : r.ledger \in 0 .. MaxLedger
    BY ApiAssumption DEF DbOK
  <2>2. QED
    BY <1>1, <2>1 DEF Event
<1>4. List(g, d) = List(FALSE, d)
  BY <1>1, <1>2 DEF List
<1>5. ASSUME NEW c PROVE Get(g, c, d) = Get(FALSE, c, d)
  BY <1>1, <1>2 DEF Get
<1>6. ASSUME NEW id PROVE EventById(g, id, d) = EventById(FALSE, id, d)
  <2> DEFINE found == {r \in d.rows : r.id = id}
  <2>1. CASE found = {}
    BY <2>1 DEF EventById
  <2>2. CASE found # {}
    <3>1. (CHOOSE r \in found : TRUE) \in found
      BY <2>2
    <3>2. QED
      BY <1>3, <2>2, <3>1 DEF EventById
  <2>3. QED
    BY <2>1, <2>2
<1>7. ASSUME NEW c, NEW args PROVE Page(g, c, args, d) = Page(FALSE, c, args, d)
  <2> DEFINE q == EventQuery(args)
             hits == {s \in d.rows : /\ s.contract = c
                                     /\ q.from > 0 => s.ledger >= q.from
                                     /\ q.to > 0 => s.ledger <= q.to}
  <2>1. {Event(g, r) : r \in hits} = {Event(FALSE, r) : r \in hits}
    BY <1>3
  <2>2. QED
    BY <2>1 DEF Page
<1>8. Stats(g, d) = Stats(FALSE, d)
  <2> DEFINE tops == {0} \union {d.last[c] : c \in Tracked(d)}
  <2>1. tops \in SUBSET (0 .. MaxLedger) /\ tops \in SUBSET Nat /\ tops # {}
    BY <1>2, ApiAssumption
  <2>2. IsFiniteSet(tops)
    <3>1. MaxLedger \in Nat
      BY ApiAssumption
    <3>2. IsFiniteSet(0 .. MaxLedger)
      BY <3>1, FS_Interval
    <3>3. QED
      BY <2>1, <3>2, FS_Subset
  <2> HIDE DEF tops
  <2>3. Max(tops) \in 0 .. MaxLedger
    BY <2>1, <2>2, LargestOf
  <2>4. Number(g, Max(tops)) = Number(FALSE, Max(tops))
    BY <1>1, <2>3
  <2>5. QED
    BY <2>4 DEF Stats, tops
<1>9. QED
  BY <1>4, <1>5, <1>6, <1>7, <1>8

LEMMA InsertedOK ==
    ASSUME NEW d, DbOK(d), NEW c \in Contracts
    PROVE  DbOK(Inserted(c, d)) /\ c \in Tracked(Inserted(c, d))
<1> DEFINE e == Inserted(c, d)
           last == [a \in Tracked(d) \union {c} |-> IF a \in Tracked(d) THEN d.last[a] ELSE 0]
<1>1. e.last = last /\ e.rows = d.rows /\ e = [last |-> e.last, rows |-> e.rows]
  BY DEF DbOK, Inserted, Tracked
<1>2. Tracked(e) = Tracked(d) \union {c}
  BY <1>1 DEF Tracked
<1>3. \A a \in Tracked(e) : e.last[a] \in 0 .. MaxLedger
  BY <1>1, <1>2, ApiAssumption DEF DbOK
<1> HIDE DEF e
<1>4. DbOK(e)
  BY <1>1, <1>2, <1>3 DEF DbOK
<1>5. QED
  BY <1>2, <1>4 DEF e

LEMMA DeletedOK ==
    ASSUME NEW d, DbOK(d), NEW c
    PROVE  DbOK(Deleted(c, d))
<1> DEFINE e == Deleted(c, d)
<1>1. /\ e = [last |-> e.last, rows |-> e.rows]
      /\ e.last = [a \in Tracked(d) \ {c} |-> d.last[a]]
      /\ e.rows = {r \in d.rows : r.contract # c}
  BY DEF Deleted
<1>2. Tracked(e) = Tracked(d) \ {c}
  BY <1>1 DEF Tracked
<1> HIDE DEF e
<1>3. DbOK(e)
  BY <1>1, <1>2 DEF DbOK
<1>4. QED
  BY <1>3 DEF e

-----------------------------------------------------------------------------
\* Steps of one call.

LEMMA Counted ==
    ASSUME NEW A, NEW B, NEW k, IsFiniteSet(A), B \subseteq A \union {k}
    PROVE  /\ Cardinality(A) \in Nat /\ Cardinality(B) \in Nat
           /\ Cardinality(B) <= Cardinality(A) + 1
           /\ B \subseteq A => Cardinality(B) <= Cardinality(A)
           /\ k \in A /\ k \notin B => Cardinality(B) + 1 <= Cardinality(A)
<1>1. IsFiniteSet(A \union {k}) /\ Cardinality(A \union {k}) <= Cardinality(A) + 1
  <2>1. CASE k \in A
    <3>1. A \union {k} = A
      BY <2>1
    <3>2. Cardinality(A) \in Nat
      BY FS_CardinalityType
    <3>3. QED
      BY <3>1, <3>2
  <2>2. CASE k \notin A
    <3>1. IsFiniteSet(A \union {k}) /\ Cardinality(A \union {k}) = Cardinality(A) + 1
      BY <2>2, FS_AddElement
    <3>2. Cardinality(A) \in Nat
      BY FS_CardinalityType
    <3>3. QED
      BY <3>1, <3>2
  <2>3. QED
    BY <2>1, <2>2
<1>2. IsFiniteSet(B) /\ Cardinality(B) <= Cardinality(A \union {k})
  BY <1>1, FS_Subset
<1>3. /\ Cardinality(A) \in Nat /\ Cardinality(B) \in Nat
      /\ Cardinality(A \union {k}) \in Nat
  BY <1>1, <1>2, FS_CardinalityType
<1>4. B \subseteq A => Cardinality(B) <= Cardinality(A)
  BY FS_Subset
<1>5. ASSUME k \in A, k \notin B PROVE Cardinality(B) + 1 <= Cardinality(A)
  <2>1. B \in SUBSET A /\ B # A
    BY <1>5
  <2>2. Cardinality(B) <= Cardinality(A) /\ Cardinality(B) # Cardinality(A)
    BY <2>1, FS_Subset
  <2>3. QED
    BY <1>3, <2>2
<1>6. QED
  BY <1>1, <1>2, <1>3, <1>4, <1>5

\* Call k becomes y, in the database as it was.
LEMMA StepSame ==
    ASSUME CallsOK, NEW k \in Slots, NEW y, calls' = [calls EXCEPT ![k] = y],
           db' = db, CallOK(k, y), Knows(y, db)
    PROVE  /\ CallsOK'
           /\ Owing' \subseteq Owing \union {k} /\ (Owes(y) <=> k \in Owing')
           /\ Claiming' \subseteq Claiming \union {k} /\ (Claims(y) <=> k \in Claiming')
<1>1. calls' = [j \in Slots |-> IF j = k THEN y ELSE calls[j]]
  BY DEF CallsOK
<1>2. \A j \in Slots : calls'[j] = IF j = k THEN y ELSE calls[j]
  BY <1>1
<1>3. calls' = [j \in Slots |-> calls'[j]]
  BY <1>1
<1>4. \A j \in Slots : CallOK(j, calls'[j]) /\ Knows(calls'[j], db)
  BY <1>2 DEF CallsOK
<1>5. CallsOK'
  <2>1. DbOK(db')
    BY DEF CallsOK
  <2>2. DbOK(db)'
    BY <2>1 DEF DbOK, Tracked
  <2>3. \A j \in Slots : CallOK(j, calls'[j]) /\ Knows(calls'[j], db')
    BY <1>4
  <2>4. \A j \in Slots : (CallOK(j, calls[j]) /\ Knows(calls[j], db))'
    BY <2>3 DEF CallOK, Knows, Shape, AnswerOK, LiveOK, FieldOK, Midway, Truths
  <2>5. QED
    BY <1>3, <2>2, <2>4 DEF CallsOK
<1>6. QED
  BY <1>2, <1>5 DEF Owing, Claiming, Owes, Claims

\* What a request has found stays honest as it learns more.
Grown(x, d) ==
    [x EXCEPT !.truths = [f \in DOMAIN @ |-> @[f] \union Truths(x.req.fields[f], d)]]

LEMMA HonestGrows ==
    ASSUME NEW field, NEW answer, NEW T, NEW U, T \subseteq U, Honest(field, answer, T)
    PROVE  Honest(field, answer, U)
BY DEF Honest, Existed

LEMMA GrownOK ==
    ASSUME NEW k \in Slots, NEW x, CallOK(k, x), NEW d
    PROVE  /\ CallOK(k, Grown(x, d)) /\ Knows(Grown(x, d), d)
           /\ Owes(Grown(x, d)) <=> Owes(x)
           /\ Claims(Grown(x, d)) <=> Claims(x)
<1> DEFINE y == Grown(x, d)
<1> DEFINE T == [f \in DOMAIN x.truths |-> x.truths[f] \union Truths(x.req.fields[f], d)]
<1>1. Shape(x) /\ y = [x EXCEPT !.truths = T]
  BY DEF Grown, CallOK
<1> HIDE DEF T
<1>2. y = [st |-> x.st, req |-> x.req, left |-> x.left, got |-> x.got, out |-> x.out,
           status |-> x.status, body |-> x.body, expired |-> x.expired,
           faulted |-> x.faulted, truths |-> T, honest |-> x.honest]
  BY <1>1 DEF Shape
<1> HIDE DEF y
<1>3. /\ Shape(y) /\ y.st = x.st /\ y.req = x.req /\ y.left = x.left /\ y.got = x.got
      /\ y.out = x.out /\ y.status = x.status /\ y.body = x.body /\ y.expired = x.expired
      /\ y.faulted = x.faulted /\ y.honest = x.honest /\ y.truths = T
  BY <1>2 DEF Shape
<1>4. /\ Shape(y) /\ y.st = x.st /\ y.req = x.req /\ y.left = x.left /\ y.got = x.got
      /\ y.out = x.out /\ y.status = x.status /\ y.body = x.body /\ y.expired = x.expired
      /\ y.faulted = x.faulted /\ y.honest = x.honest
      /\ y.truths = [f \in DOMAIN x.truths |-> x.truths[f] \union Truths(x.req.fields[f], d)]
  BY <1>3 DEF T
<1>5. ASSUME x.st \in Live PROVE LiveOK(k, y) /\ Knows(y, d)
  <2> DEFINE F == DOMAIN x.req.fields
  <2>1. LiveOK(k, x)
    BY <1>5 DEF CallOK
  <2>2. DOMAIN x.truths = F
    BY <2>1 DEF LiveOK
  <2>3. \A f \in F : /\ y.truths[f] = x.truths[f] \union Truths(x.req.fields[f], d)
                     /\ x.truths[f] \subseteq y.truths[f]
    BY <1>4, <2>2
  <2>4. ASSUME NEW f \in F PROVE FieldOK(y, f)
    <3> DEFINE field == x.req.fields[f]
    <3>1. FieldOK(x, f)
      BY <2>1 DEF LiveOK
    <3>2. x.truths[f] \subseteq y.truths[f]
      BY <2>3
    <3>3. Midway(field, x.left[f], x.got[f], x.truths[f]) =>
              Midway(field, y.left[f], y.got[f], y.truths[f])
      BY ZenonT(60), <1>4, <3>2 DEF Midway, Existed
    <3>4. Honest(field, x.out[f], x.truths[f]) => Honest(field, y.out[f], y.truths[f])
      BY <1>4, <3>2, HonestGrows
    <3>5. Caused(field, x.truths[f]) => Caused(field, y.truths[f])
      BY <3>2 DEF Caused
    <3>6. QED
      BY <1>4, <3>1, <3>2, <3>3, <3>4, <3>5 DEF FieldOK
  <2>5. Knows(y, d)
    BY <1>4, <2>3 DEF Knows
  <2>6. LiveOK(k, y)
    BY <1>4, <2>1, <2>2, <2>4 DEF LiveOK
  <2>7. QED
    BY <2>5, <2>6
<1>6. CallOK(k, y)
  BY <1>4, <1>5 DEF CallOK, AnswerOK
<1>7. Knows(y, d)
  BY <1>4, <1>5 DEF Knows
<1>8. (Owes(y) <=> Owes(x)) /\ (Claims(y) <=> Claims(x))
  BY <1>4 DEF Owes, Claims
<1>9. QED
  BY <1>6, <1>7, <1>8 DEF y

\* The database becomes d, after the calls have become cs.
LEMMA StepGrows ==
    ASSUME NEW cs, cs = [j \in Slots |-> cs[j]], \A j \in Slots : CallOK(j, cs[j]),
           NEW d, DbOK(d), Becomes(d, cs)
    PROVE  /\ CallsOK'
           /\ Owing' = {j \in Slots : Owes(cs[j])}
           /\ Claiming' = {j \in Slots : Claims(cs[j])}
<1>1. db' = d /\ calls' = [j \in Slots |-> Grown(cs[j], d)]
  BY DEF Becomes, Grown
<1>2. \A j \in Slots : calls'[j] = Grown(cs[j], d)
  BY <1>1
<1>3. \A j \in Slots : /\ CallOK(j, calls'[j]) /\ Knows(calls'[j], d)
                       /\ Owes(calls'[j]) <=> Owes(cs[j])
                       /\ Claims(calls'[j]) <=> Claims(cs[j])
  BY <1>2, GrownOK
<1>4. CallsOK'
  <2>1. DbOK(db)'
    BY <1>1 DEF DbOK, Tracked
  <2>2. calls' = [j \in Slots |-> calls'[j]]
    BY <1>1
  <2>3. \A j \in Slots : CallOK(j, calls'[j]) /\ Knows(calls'[j], db')
    BY <1>1, <1>3
  <2>4. \A j \in Slots : (CallOK(j, calls[j]) /\ Knows(calls[j], db))'
    BY <2>3 DEF CallOK, Knows, Shape, AnswerOK, LiveOK, FieldOK, Midway, Truths
  <2>5. QED
    BY <2>1, <2>2, <2>4 DEF CallsOK
<1>5. QED
  BY <1>3, <1>4 DEF Owing, Claiming, Owes, Claims

-----------------------------------------------------------------------------
\* Arrivals and refusals.

LEMMA Fresh ==
    ASSUME NEW k \in Slots
    PROVE  CallOK(k, Idle) /\ ~Owes(Idle) /\ ~Claims(Idle)
BY DEF CallOK, Shape, Idle, AnswerOK, Live, Owes, Claims

\* The calls whose fields an action sets, one field at a time.
LEMMA Set1 ==
    ASSUME NEW x, Shape(x), NEW st, NEW code, NEW body, NEW b
    PROVE  /\ [x EXCEPT !.st = st] =
                [st |-> st, req |-> x.req, left |-> x.left, got |-> x.got, out |-> x.out,
                 status |-> x.status, body |-> x.body, expired |-> x.expired,
                 faulted |-> x.faulted, truths |-> x.truths, honest |-> x.honest]
           /\ [x EXCEPT !.status = code] =
                [st |-> x.st, req |-> x.req, left |-> x.left, got |-> x.got, out |-> x.out,
                 status |-> code, body |-> x.body, expired |-> x.expired,
                 faulted |-> x.faulted, truths |-> x.truths, honest |-> x.honest]
           /\ [x EXCEPT !.body = body] =
                [st |-> x.st, req |-> x.req, left |-> x.left, got |-> x.got, out |-> x.out,
                 status |-> x.status, body |-> body, expired |-> x.expired,
                 faulted |-> x.faulted, truths |-> x.truths, honest |-> x.honest]
           /\ [x EXCEPT !.expired = b] =
                [st |-> x.st, req |-> x.req, left |-> x.left, got |-> x.got, out |-> x.out,
                 status |-> x.status, body |-> x.body, expired |-> b,
                 faulted |-> x.faulted, truths |-> x.truths, honest |-> x.honest]
           /\ [x EXCEPT !.faulted = b] =
                [st |-> x.st, req |-> x.req, left |-> x.left, got |-> x.got, out |-> x.out,
                 status |-> x.status, body |-> x.body, expired |-> x.expired,
                 faulted |-> b, truths |-> x.truths, honest |-> x.honest]
           /\ [x EXCEPT !.honest = b] =
                [st |-> x.st, req |-> x.req, left |-> x.left, got |-> x.got, out |-> x.out,
                 status |-> x.status, body |-> x.body, expired |-> x.expired,
                 faulted |-> x.faulted, truths |-> x.truths, honest |-> b]
<1>1. [x EXCEPT !.st = st] =
         [st |-> st, req |-> x.req, left |-> x.left, got |-> x.got, out |-> x.out,
          status |-> x.status, body |-> x.body, expired |-> x.expired,
          faulted |-> x.faulted, truths |-> x.truths, honest |-> x.honest]
  BY DEF Shape
<1>2. [x EXCEPT !.status = code] =
         [st |-> x.st, req |-> x.req, left |-> x.left, got |-> x.got, out |-> x.out,
          status |-> code, body |-> x.body, expired |-> x.expired,
          faulted |-> x.faulted, truths |-> x.truths, honest |-> x.honest]
  BY DEF Shape
<1>3. [x EXCEPT !.body = body] =
         [st |-> x.st, req |-> x.req, left |-> x.left, got |-> x.got, out |-> x.out,
          status |-> x.status, body |-> body, expired |-> x.expired,
          faulted |-> x.faulted, truths |-> x.truths, honest |-> x.honest]
  BY DEF Shape
<1>4. [x EXCEPT !.expired = b] =
         [st |-> x.st, req |-> x.req, left |-> x.left, got |-> x.got, out |-> x.out,
          status |-> x.status, body |-> x.body, expired |-> b,
          faulted |-> x.faulted, truths |-> x.truths, honest |-> x.honest]
  BY DEF Shape
<1>5. [x EXCEPT !.faulted = b] =
         [st |-> x.st, req |-> x.req, left |-> x.left, got |-> x.got, out |-> x.out,
          status |-> x.status, body |-> x.body, expired |-> x.expired,
          faulted |-> b, truths |-> x.truths, honest |-> x.honest]
  BY DEF Shape
<1>6. [x EXCEPT !.honest = b] =
         [st |-> x.st, req |-> x.req, left |-> x.left, got |-> x.got, out |-> x.out,
          status |-> x.status, body |-> x.body, expired |-> x.expired,
          faulted |-> x.faulted, truths |-> x.truths, honest |-> b]
  BY DEF Shape
<1>7. QED
  BY <1>1, <1>2, <1>3, <1>4, <1>5, <1>6

LEMMA Flagged ==
    ASSUME NEW x, Shape(x), NEW st, NEW body, NEW b
    PROVE  /\ [x EXCEPT !.expired = b] =
                [st |-> x.st, req |-> x.req, left |-> x.left, got |-> x.got, out |-> x.out,
                 status |-> x.status, body |-> x.body, expired |-> b,
                 faulted |-> x.faulted, truths |-> x.truths, honest |-> x.honest]
           /\ [x EXCEPT !.faulted = b] =
                [st |-> x.st, req |-> x.req, left |-> x.left, got |-> x.got, out |-> x.out,
                 status |-> x.status, body |-> x.body, expired |-> x.expired,
                 faulted |-> b, truths |-> x.truths, honest |-> x.honest]
           /\ [x EXCEPT !.st = st] =
                [st |-> st, req |-> x.req, left |-> x.left, got |-> x.got, out |-> x.out,
                 status |-> x.status, body |-> x.body, expired |-> x.expired,
                 faulted |-> x.faulted, truths |-> x.truths, honest |-> x.honest]
           /\ [x EXCEPT !.st = st, !.body = body] =
                [st |-> st, req |-> x.req, left |-> x.left, got |-> x.got, out |-> x.out,
                 status |-> x.status, body |-> body, expired |-> x.expired,
                 faulted |-> x.faulted, truths |-> x.truths, honest |-> x.honest]
<1>1. PICK v : v = [x EXCEPT !.st = st]
  OBVIOUS
<1>2. v = [st |-> st, req |-> x.req, left |-> x.left, got |-> x.got, out |-> x.out,
           status |-> x.status, body |-> x.body, expired |-> x.expired,
           faulted |-> x.faulted, truths |-> x.truths, honest |-> x.honest]
  BY <1>1, Set1
<1>3. Shape(v)
  BY <1>2 DEF Shape
<1>4. [v EXCEPT !.body = body] =
          [st |-> st, req |-> x.req, left |-> x.left, got |-> x.got, out |-> x.out,
           status |-> x.status, body |-> body, expired |-> x.expired,
           faulted |-> x.faulted, truths |-> x.truths, honest |-> x.honest]
  BY <1>2, <1>3, Set1
<1>5. [x EXCEPT !.st = st, !.body = body] = [v EXCEPT !.body = body]
  BY <1>1
<1>6. QED
  BY <1>1, <1>2, <1>4, <1>5, Set1

\* A status line to be followed by its body.
Headed(y, code) ==
    /\ Shape(y) /\ y.st = "header" /\ y.req = Absent /\ y.status = code /\ y.body = <<>>
    /\ y.out = <<>> /\ y.expired = FALSE /\ y.faulted \in BOOLEAN /\ y.honest = TRUE

LEMMA Header ==
    ASSUME NEW k \in Slots, NEW code \in Statuses, NEW y, Headed(y, code)
    PROVE  /\ CallOK(k, y) /\ ~Owes(y) /\ ~Claims(y)
           /\ \A d : Knows(y, d)
<1>1. code # 0
  BY DEF Statuses
<1>2. AnswerOK(y)
  BY <1>1 DEF AnswerOK, Headed
<1>3. QED
  BY <1>2 DEF CallOK, Headed, Live, Owes, Claims, Knows

LEMMA Headline ==
    ASSUME NEW code, NEW b \in BOOLEAN, NEW h, h = TRUE
    PROVE  /\ Headed([Idle EXCEPT !.st = "header", !.status = code], code)
           /\ Headed([Idle EXCEPT !.st = "header", !.status = code, !.faulted = b,
                                  !.honest = h], code)
<1>1. ASSUME NEW y, y = [Idle EXCEPT !.st = "header", !.status = code]
      PROVE  Headed(y, code)
  BY <1>1 DEF Headed, Shape, Idle
<1>2. ASSUME NEW y, y = [Idle EXCEPT !.st = "header", !.status = code, !.faulted = b,
                                     !.honest = h]
      PROVE  Headed(y, code)
  <2>1. /\ Shape(y) /\ y.st = "header" /\ y.req = Absent /\ y.status = code
        /\ y.body = <<>> /\ y.out = <<>> /\ y.expired = FALSE
        /\ y.faulted = b /\ y.honest = h
    BY <1>2 DEF Shape, Idle
  <2>2. QED
    BY <2>1 DEF Headed
<1>3. QED
  BY <1>1, <1>2

LEMMA ArriveOK ==
    ASSUME CallsOK, NEW k \in Slots, NEW q \in Catalogue[k], Arrive(k, q)
    PROVE  CallsOK' /\ Owing' \subseteq Owing /\ Claiming' \subseteq Claiming
<1> DEFINE F == DOMAIN q.fields
           accepted(f) == FieldAccepted(q.fields[f])
           y == [Idle EXCEPT !.req = q,
                    !.st = IF Guards(q) # {} THEN "guards" ELSE AfterGuards(q),
                    !.left = [f \in F |-> IF accepted(f) THEN Statements(q.fields[f]) ELSE <<>>],
                    !.got = [f \in F |-> <<>>],
                    !.out = [f \in F |->
                        IF ~accepted(f) THEN Fail(400)
                        ELSE IF q.fields[f].op = "unrouted" THEN NotFound ELSE Pending],
                    !.truths = [f \in F |-> Truths(q.fields[f], db)]]
<1>1. calls' = [calls EXCEPT ![k] = y] /\ db' = db
  BY DEF Arrive
<1> DEFINE st == IF Guards(q) # {} THEN "guards" ELSE AfterGuards(q)
           left == [f \in F |-> IF accepted(f) THEN Statements(q.fields[f]) ELSE <<>>]
           got == [f \in F |-> <<>>]
           out == [f \in F |-> IF ~accepted(f) THEN Fail(400)
                               ELSE IF q.fields[f].op = "unrouted" THEN NotFound ELSE Pending]
           T == [f \in F |-> Truths(q.fields[f], db)]
<1>2. y = [Idle EXCEPT !.req = q, !.st = st, !.left = left, !.got = got, !.out = out,
                       !.truths = T]
  OBVIOUS
<1> HIDE DEF st, left, got, out, T, y
<1>3. y = [st |-> st, req |-> q, left |-> left, got |-> got, out |-> out,
           status |-> 0, body |-> <<>>, expired |-> FALSE,
           faulted |-> FALSE, truths |-> T, honest |-> TRUE]
  BY <1>2 DEF Idle
<1>4. /\ Shape(y) /\ y.req = q /\ y.status = 0 /\ y.body = <<>> /\ y.st = st
      /\ y.expired = FALSE /\ y.faulted = FALSE /\ y.honest = TRUE
      /\ y.left = left /\ y.got = got /\ y.out = out /\ y.truths = T
  BY <1>3 DEF Shape
<1>5. /\ Shape(y) /\ y.req = q /\ y.status = 0 /\ y.body = <<>>
      /\ y.st = (IF Guards(q) # {} THEN "guards" ELSE AfterGuards(q))
      /\ y.expired = FALSE /\ y.faulted = FALSE /\ y.honest = TRUE
      /\ y.left = [f \in F |-> IF accepted(f) THEN Statements(q.fields[f]) ELSE <<>>]
      /\ y.got = [f \in F |-> <<>>]
      /\ y.out = [f \in F |->
                        IF ~accepted(f) THEN Fail(400)
                        ELSE IF q.fields[f].op = "unrouted" THEN NotFound ELSE Pending]
      /\ y.truths = [f \in F |-> Truths(q.fields[f], db)]
  BY <1>4 DEF st, left, got, out, T
<1>6. y.st \in Live
  BY <1>5 DEF AfterGuards, Live
<1>7. ASSUME NEW f \in F PROVE FieldOK(y, f)
  <2>1. q.fields[f] \in Field /\ (q.fields[f].nested => q.fields[f].op = "get")
    BY Requests
  <2>2. CASE ~accepted(f)
    <3>1. y.left[f] = <<>> /\ y.out[f] = Fail(400)
      BY <1>5, <2>2
    <3>2. QED
      BY <3>1 DEF FieldOK, Fail, Outcome, Statuses, Honest
  <2>3. CASE accepted(f) /\ q.fields[f].op = "unrouted"
    <3>1. Statements(q.fields[f]) = <<>>
      BY <2>3 DEF Statements
    <3>2. Truths(q.fields[f], db) = {NotFound}
      BY <2>3 DEF Truths
    <3>3. y.left[f] = <<>> /\ y.out[f] = NotFound /\ y.truths[f] = {NotFound}
      BY <1>5, <2>3, <3>1, <3>2
    <3>4. ~q.fields[f].nested
      BY <2>1, <2>3
    <3>5. Honest(q.fields[f], y.out[f], y.truths[f])
      BY <2>3, <3>3, <3>4 DEF Honest
    <3>6. NotFound.code = 404
      BY DEF NotFound, Fail, Outcome
    <3>7. y.out[f].code = 404 /\ y.req = q
      BY <1>5, <3>3, <3>6
    <3>8. QED
      BY <3>3, <3>5, <3>7 DEF FieldOK, Statuses
  <2>4. CASE accepted(f) /\ q.fields[f].op # "unrouted"
    <3>1. y.left[f] = Statements(q.fields[f]) /\ y.out[f] = Pending /\ y.got[f] = <<>>
      BY <1>5, <2>4
    <3>2. Statements(q.fields[f]) # <<>>
      BY <2>1, <2>4 DEF Statements, Field, Ops
    <3>3. QED
      BY <1>5, <2>4, <3>1, <3>2 DEF FieldOK, Midway, Pending, Fail, Outcome
  <2>5. QED
    BY <2>2, <2>3, <2>4
<1>8. LiveOK(k, y)
  BY <1>5, <1>7 DEF LiveOK, AfterGuards
<1>9. CallOK(k, y) /\ Knows(y, db)
  <2>1. y.st # "header" /\ y.st # "done"
    BY <1>6 DEF Live
  <2>2. AnswerOK(y)
    BY <1>5, <2>1 DEF AnswerOK
  <2>3. CallOK(k, y)
    BY <1>5, <1>6, <1>8, <2>2 DEF CallOK
  <2>4. \A f \in F : y.truths[f] = Truths(q.fields[f], db)
    BY <1>5
  <2>5. Knows(y, db)
    BY <1>5, <2>4 DEF Knows
  <2>6. QED
    BY <2>3, <2>5
<1>10. ~Owes(y)
  BY <1>5 DEF Owes
<1>11. ~Claims(y)
  <2> SUFFICES ASSUME ~q.graphql PROVE y.out[1].code # 204
    BY <1>5 DEF Claims
  <2>1. 1 \in F
    BY Requests
  <2>2. QED
    BY <1>5, <2>1 DEF Fail, NotFound, Pending, Outcome
<1>12. QED
  BY <1>1, <1>9, <1>10, <1>11, StepSame

-----------------------------------------------------------------------------
\* A request goes on: admitted, its body read, its context cancelled.

\* x goes on as y, with what it has resolved so far.
Onward(x, y) ==
    /\ Shape(y)
    /\ y.req = x.req /\ y.left = x.left /\ y.got = x.got /\ y.out = x.out
    /\ y.truths = x.truths /\ y.status = x.status /\ y.body = x.body
    /\ y.faulted = x.faulted /\ y.honest = x.honest
    /\ x.st \in Live /\ y.st \in Live
    /\ y.expired \in BOOLEAN /\ (x.expired => y.expired)

LEMMA OnwardOK ==
    ASSUME NEW k \in Slots, NEW x, CallOK(k, x), NEW y, Onward(x, y),
           y.st # "guards" => x.st # "guards" \/ x.req.token
    PROVE  /\ CallOK(k, y) /\ (Claims(y) <=> Claims(x))
           /\ \A d : Knows(x, d) => Knows(y, d)
<1>1. LiveOK(k, x)
  BY DEF CallOK, Onward
<1>2. ASSUME NEW f \in DOMAIN x.req.fields PROVE FieldOK(y, f)
  <2>1. FieldOK(x, f)
    BY <1>1 DEF LiveOK
  <2>2. QED
    BY <2>1 DEF FieldOK, Onward
<1>3. LiveOK(k, y)
  <2>1. /\ y.req \in Catalogue[k]
        /\ y.left = [f \in DOMAIN y.req.fields |-> y.left[f]]
        /\ y.got = [f \in DOMAIN y.req.fields |-> y.got[f]]
        /\ y.out = [f \in DOMAIN y.req.fields |-> y.out[f]]
        /\ y.truths = [f \in DOMAIN y.req.fields |-> y.truths[f]]
    BY <1>1 DEF LiveOK, Onward
  <2>2. Guards(y.req) # {} /\ y.st # "guards" => y.req.token
    BY <1>1 DEF LiveOK, Onward
  <2>3. \A f \in DOMAIN y.req.fields : FieldOK(y, f)
    BY <1>2 DEF Onward
  <2>4. QED
    BY <2>1, <2>2, <2>3 DEF LiveOK
<1>4. AnswerOK(y)
  BY DEF AnswerOK, Onward, CallOK, Live
<1>5. CallOK(k, y)
  BY <1>3, <1>4 DEF CallOK, Onward
<1>6. Claims(y) <=> Claims(x)
  BY DEF Claims, Onward
<1>7. ASSUME NEW d, Knows(x, d) PROVE Knows(y, d)
  BY <1>7 DEF Knows, Onward
<1>8. QED
  BY <1>5, <1>6, <1>7

LEMMA AdmitOK ==
    ASSUME CallsOK, NEW k \in Slots, Admit(k)
    PROVE  CallsOK' /\ Owing' \subseteq Owing \union {k} /\ Claiming' \subseteq Claiming
<1> DEFINE x == calls[k]
           y == [x EXCEPT !.st = AfterGuards(x.req)]
<1>1. CallOK(k, x) /\ Knows(x, db) /\ x.st = "guards" /\ x.req.token
  BY DEF CallsOK, Admit
<1>2. calls' = [calls EXCEPT ![k] = y] /\ db' = db
  BY DEF Admit, CallsOK
<1>3. AfterGuards(x.req) \in {"body", "run"}
  BY DEF AfterGuards
<1>4. Onward(x, y)
  BY <1>1, <1>3 DEF Onward, CallOK, Shape, Live
<1> HIDE DEF x, y
<1>5. CallOK(k, y) /\ Knows(y, db) /\ (Claims(y) <=> Claims(x))
  BY <1>1, <1>4, OnwardOK
<1>6. Claims(x) <=> k \in Claiming
  BY DEF Claiming, x
<1>7. QED
  BY <1>2, <1>5, <1>6, StepSame

LEMMA ReadBodyOK ==
    ASSUME CallsOK, NEW k \in Slots, ReadBody(k)
    PROVE  CallsOK' /\ Owing' \subseteq Owing /\ Claiming' \subseteq Claiming
<1> DEFINE x == calls[k]
           y == [x EXCEPT !.st = "run"]
<1>1. CallOK(k, x) /\ Knows(x, db) /\ x.st = "body"
  BY DEF CallsOK, ReadBody
<1>2. calls' = [calls EXCEPT ![k] = y] /\ db' = db
  BY DEF ReadBody, CallsOK
<1>3. Onward(x, y) /\ y.st = "run"
  BY <1>1 DEF Onward, CallOK, Shape, Live
<1> HIDE DEF x, y
<1>4. CallOK(k, y) /\ Knows(y, db) /\ (Claims(y) <=> Claims(x))
  BY <1>1, <1>3, OnwardOK
<1>5. Owes(y) => Owes(x)
  BY <1>1, <1>3 DEF Owes, Onward
<1>6. (Claims(x) <=> k \in Claiming) /\ (Owes(x) <=> k \in Owing)
  BY DEF Claiming, Owing, x
<1>7. QED
  BY <1>2, <1>4, <1>5, <1>6, StepSame

LEMMA ExpireOK ==
    ASSUME CallsOK, NEW k \in Slots, Expire(k)
    PROVE  CallsOK' /\ Owing' \subseteq Owing /\ Claiming' \subseteq Claiming
<1> DEFINE x == calls[k]
           y == [x EXCEPT !.expired = TRUE]
<1>1. CallOK(k, x) /\ Knows(x, db) /\ x.st \in Live
  BY DEF CallsOK, Expire, Live
<1>2. calls' = [calls EXCEPT ![k] = y] /\ db' = db
  BY DEF Expire, CallsOK
<1>3. Onward(x, y) /\ y.st = x.st
  <2> HIDE DEF x
  <2>1. Shape(x) /\ x.st \in Live
    BY <1>1 DEF CallOK
  <2>2. y = [st |-> x.st, req |-> x.req, left |-> x.left, got |-> x.got, out |-> x.out,
             status |-> x.status, body |-> x.body, expired |-> TRUE,
             faulted |-> x.faulted, truths |-> x.truths, honest |-> x.honest]
    BY <2>1, Flagged
  <2> HIDE DEF y
  <2>3. QED
    BY <2>1, <2>2 DEF Onward, Shape
<1>4. LiveOK(k, x)
  BY <1>1 DEF CallOK
<1> HIDE DEF x, y
<1>5. CallOK(k, y) /\ Knows(y, db) /\ (Claims(y) <=> Claims(x))
  BY <1>1, <1>3, OnwardOK
<1>6. Owes(y) => Owes(x)
  BY <1>1, <1>3 DEF Owes, Onward
<1>7. (Claims(x) <=> k \in Claiming) /\ (Owes(x) <=> k \in Owing)
  BY DEF Claiming, Owing, x
<1>8. QED
  BY <1>2, <1>5, <1>6, <1>7, StepSame

LEMMA RefuseOK ==
    ASSUME CallsOK, NEW k \in Slots, NEW code \in Statuses, Refuse(k, code), db' = db
    PROVE  CallsOK' /\ Owing' \subseteq Owing /\ Claiming' \subseteq Claiming
<1> DEFINE y == [Idle EXCEPT !.st = "header", !.status = code]
<1>1. calls' = [calls EXCEPT ![k] = y]
  BY DEF Refuse
<1>2. Headed(y, code)
  BY Headline
<1> HIDE DEF y
<1>3. CallOK(k, y) /\ Knows(y, db) /\ ~Owes(y) /\ ~Claims(y)
  BY <1>2, Header
<1>4. QED
  BY <1>1, <1>3, StepSame

-----------------------------------------------------------------------------
\* Answering.

LEMMA RespondOK ==
    ASSUME CallsOK, NEW k \in Slots, Respond(k)
    PROVE  /\ CallsOK' /\ Owing' \subseteq Owing /\ Claiming' \subseteq Claiming
           /\ \/ log' = [log EXCEPT !.unclaimed = @ - 0]
              \/ /\ log' = [log EXCEPT !.unclaimed = @ - 1]
                 /\ k \in Claiming /\ k \notin Claiming'
<1> DEFINE x == calls[k]
           status == StatusOf(x.req, x.out)
           reply == Reply(x.req, x.out)
           F == DOMAIN x.req.fields
           honest == \A f \in F : Honest(x.req.fields[f], reply[f], x.truths[f])
           y == [Idle EXCEPT !.st = "header", !.status = status, !.faulted = x.faulted,
                             !.honest = honest]
<1>1. CallOK(k, x) /\ x.st = "run" /\ \A f \in F : x.left[f] = <<>>
  BY DEF CallsOK, Respond, Fields
<1>2. /\ calls' = [calls EXCEPT ![k] = y] /\ db' = db
      /\ log' = [log EXCEPT !.unclaimed = @ - IF status = 204 THEN 1 ELSE 0]
  BY DEF Respond, Fields, At
<1>3. LiveOK(k, x) /\ x.st \in Live
  BY <1>1 DEF CallOK, Live
<1>4. \A f \in F : /\ x.out[f].code \in Statuses
                   /\ Honest(x.req.fields[f], x.out[f], x.truths[f])
  BY <1>1, <1>3 DEF LiveOK, FieldOK
<1>5. ~x.req.graphql => 1 \in F
  BY <1>3, Requests DEF LiveOK
<1>6. status \in Statuses
  BY <1>4, <1>5 DEF StatusOf, Statuses
<1>7. honest = TRUE
  <2>1. \A f \in F : Honest(x.req.fields[f], Pending, x.truths[f])
    BY DEF Honest, Pending, Fail, Outcome
  <2>2. DOMAIN x.out = F
    BY <1>3 DEF LiveOK
  <2>3. \A f \in F : reply[f] = x.out[f] \/ reply[f] = Pending
    BY <2>2 DEF Reply
  <2>4. QED
    BY <1>4, <2>1, <2>3
<1>8. x.faulted \in BOOLEAN
  BY <1>1 DEF CallOK
<1>9. Headed(y, status)
  <2> HIDE DEF x, status, honest
  <2>1. QED
    BY <1>7, <1>8, Headline
<1> HIDE DEF y
<1>10. CallOK(k, y) /\ Knows(y, db) /\ ~Owes(y) /\ ~Claims(y)
  BY <1>6, <1>9, Header
<1>11. CallsOK' /\ Owing' \subseteq Owing /\ Claiming' \subseteq Claiming /\ k \notin Claiming'
  BY <1>2, <1>10, StepSame
<1>12. ASSUME status = 204 PROVE k \in Claiming
  <2>1. ~x.req.graphql /\ x.out[1].code = 204
    BY <1>12 DEF StatusOf
  <2>2. QED
    BY <1>3, <2>1 DEF Claiming, Claims
<1>13. QED
  BY <1>2, <1>11, <1>12

LEMMA WriteBodyOK ==
    ASSUME CallsOK, NEW k \in Slots, WriteBody(k)
    PROVE  CallsOK' /\ Owing' \subseteq Owing /\ Claiming' \subseteq Claiming
<1> DEFINE x == calls[k]
           body == IF x.status = 204 THEN x.body ELSE Append(x.body, x.status)
           y == [x EXCEPT !.st = "done", !.body = body]
<1>1. CallOK(k, x) /\ x.st = "header"
  BY DEF CallsOK, WriteBody
<1>2. calls' = [calls EXCEPT ![k] = y] /\ db' = db
  BY DEF WriteBody, CallsOK
<1>3. x.body = <<>> /\ x.status # 0 /\ x.status \in Statuses \union {0} /\ x.out = <<>>
  BY <1>1 DEF CallOK, AnswerOK, Live
<1>4. body \in {<<>>, <<x.status>>} /\ (body = <<>> => x.status = 204)
  BY <1>3
<1> HIDE DEF body
<1>5. /\ Shape(y) /\ y.st = "done" /\ y.req = x.req /\ y.out = x.out /\ y.status = x.status
      /\ y.body = body /\ y.honest = x.honest
      /\ y.expired = x.expired /\ y.faulted = x.faulted
  <2> HIDE DEF x
  <2>1. Shape(x)
    BY <1>1 DEF CallOK
  <2>2. PICK st : st = "done"
    OBVIOUS
  <2>3. y = [x EXCEPT !.st = st, !.body = body]
    BY <2>2
  <2> HIDE DEF y
  <2>4. y = [st |-> st, req |-> x.req, left |-> x.left, got |-> x.got, out |-> x.out,
             status |-> x.status, body |-> body, expired |-> x.expired,
             faulted |-> x.faulted, truths |-> x.truths, honest |-> x.honest]
    BY ZenonT(60), <2>1, <2>3, Flagged
  <2>5. QED
    BY <2>4, <2>2 DEF Shape
<1> HIDE DEF y
<1>6. y.expired \in BOOLEAN /\ y.faulted \in BOOLEAN
  BY <1>1, <1>5 DEF CallOK
<1>7. AnswerOK(y)
  BY <1>4, <1>5 DEF AnswerOK
<1>8. CallOK(k, y)
  BY <1>1, <1>3, <1>5, <1>6, <1>7 DEF CallOK, Live
<1>9. Knows(y, db) /\ ~Owes(y) /\ ~Claims(y)
  BY <1>5 DEF Knows, Owes, Claims, Live
<1>10. QED
  BY <1>2, <1>8, <1>9, StepSame

LEMMA PanicOK ==
    ASSUME CallsOK, NEW k \in Slots, Panic(k)
    PROVE  CallsOK' /\ Owing' \subseteq Owing /\ Claiming' \subseteq Claiming
<1> DEFINE x == calls[k]
           y == [Recovered(x) EXCEPT !.faulted = TRUE]
<1>1. CallOK(k, x) /\ x.st \in {"run", "header"}
  BY DEF CallsOK, Panic
<1>2. calls' = [calls EXCEPT ![k] = y] /\ db' = db
  BY DEF Panic
<1>3. CallOK(k, y) /\ Knows(y, db) /\ ~Owes(y) /\ ~Claims(y)
  <2>1. CASE x.status = 0
    <3>1. PICK z : z = [Idle EXCEPT !.st = "header", !.status = 500]
      OBVIOUS
    <3>2. Headed(z, 500)
      BY ZenonT(60), <3>1, Headline
    <3>3. y = [z EXCEPT !.faulted = TRUE]
      BY <2>1, <3>1 DEF Recovered
    <3> HIDE DEF y
    <3>4. y = [st |-> z.st, req |-> z.req, left |-> z.left, got |-> z.got, out |-> z.out,
               status |-> z.status, body |-> z.body, expired |-> z.expired,
               faulted |-> TRUE, truths |-> z.truths, honest |-> z.honest]
      <4>1. Shape(z)
        BY <3>2 DEF Headed
      <4>2. QED
        BY <3>3, <4>1, Flagged
    <3>5. Headed(y, 500)
      BY <3>2, <3>4 DEF Headed, Shape
    <3>6. 500 \in Statuses
      BY DEF Statuses
    <3>7. QED
      BY <3>5, <3>6, Header
  <2>2. CASE x.status # 0
    <3>1. x.st = "header" /\ x.body = <<>> /\ x.out = <<>>
      BY <1>1, <2>2 DEF CallOK, AnswerOK, Live
    <3>2. Shape(x) /\ x.expired \in BOOLEAN
      BY <1>1 DEF CallOK
    <3>3. PICK z : z = [x EXCEPT !.st = "done"]
      OBVIOUS
    <3>4. y = [z EXCEPT !.faulted = TRUE]
      BY <2>2, <3>3 DEF Recovered
    <3> HIDE DEF x, y
    <3>5. Shape(z) /\ z = [st |-> "done", req |-> x.req, left |-> x.left, got |-> x.got,
                out |-> x.out, status |-> x.status, body |-> x.body, expired |-> x.expired,
                faulted |-> x.faulted, truths |-> x.truths, honest |-> x.honest]
      BY <3>2, <3>3, Flagged DEF Shape
    <3>6. y = [st |-> "done", req |-> z.req, left |-> z.left, got |-> z.got,
                out |-> z.out, status |-> z.status, body |-> z.body, expired |-> z.expired,
                faulted |-> TRUE, truths |-> z.truths, honest |-> z.honest]
      BY <3>4, <3>5, Flagged
    <3>7. /\ Shape(y) /\ y.st = "done" /\ y.req = x.req /\ y.out = x.out
          /\ y.status = x.status /\ y.body = x.body /\ y.honest = x.honest
          /\ y.expired = x.expired /\ y.faulted = TRUE
      BY <3>5, <3>6 DEF Shape
    <3>8. AnswerOK(y)
      BY <3>1, <3>7 DEF AnswerOK
    <3>9. CallOK(k, y)
      BY <1>1, <3>1, <3>2, <3>7, <3>8 DEF CallOK, Live
    <3>10. QED
      BY <3>7, <3>9 DEF Knows, Owes, Claims, Live
  <2>3. QED
    BY <2>1, <2>2
<1> HIDE DEF y
<1>4. QED
  BY <1>2, <1>3, StepSame

LEMMA ReleaseOK ==
    ASSUME CallsOK, NEW k \in Slots, Release(k)
    PROVE  CallsOK' /\ Owing' \subseteq Owing /\ Claiming' \subseteq Claiming
<1>1. calls' = [calls EXCEPT ![k] = Idle] /\ db' = db
  BY DEF Release
<1>2. Knows(Idle, db)
  BY DEF Knows, Idle, Live
<1>3. QED
  BY <1>1, <1>2, Fresh, StepSame

-----------------------------------------------------------------------------
\* A field goes on.

\* Besides its fields, x is still as it was in y, but for a fault.
Besides(x, y) ==
    /\ Shape(y)
    /\ y.st = x.st /\ y.req = x.req /\ y.status = x.status /\ y.body = x.body
    /\ y.expired = x.expired /\ y.honest = x.honest
    /\ y.faulted \in BOOLEAN /\ (x.faulted => y.faulted)

\* x becomes y, and only in its field f.
Alters(x, y, f) ==
    /\ Besides(x, y)
    /\ y.left = [g \in DOMAIN x.req.fields |-> IF g = f THEN y.left[f] ELSE x.left[g]]
    /\ y.got = [g \in DOMAIN x.req.fields |-> IF g = f THEN y.got[f] ELSE x.got[g]]
    /\ y.out = [g \in DOMAIN x.req.fields |-> IF g = f THEN y.out[f] ELSE x.out[g]]
    /\ y.truths = [g \in DOMAIN x.req.fields |-> IF g = f THEN y.truths[f] ELSE x.truths[g]]

LEMMA AltersOK ==
    ASSUME NEW k \in Slots, NEW x, CallOK(k, x), x.st = "run",
           NEW f \in DOMAIN x.req.fields, NEW y, Alters(x, y, f), FieldOK(y, f)
    PROVE  /\ CallOK(k, y)
           /\ \A d : Knows(x, d) /\ y.truths[f] = x.truths[f] => Knows(y, d)
<1> DEFINE F == DOMAIN x.req.fields
<1>1. LiveOK(k, x)
  BY DEF CallOK, Live
<1>2. ASSUME NEW g \in F, g # f PROVE FieldOK(y, g)
  <2>1. FieldOK(x, g)
    BY <1>1 DEF LiveOK
  <2>2. /\ y.left[g] = x.left[g] /\ y.got[g] = x.got[g] /\ y.out[g] = x.out[g]
        /\ y.truths[g] = x.truths[g]
    BY <1>2 DEF Alters, Besides
  <2>3. y.req = x.req /\ y.expired = x.expired /\ (x.faulted => y.faulted)
    BY DEF Alters, Besides
  <2>4. QED
    BY <2>1, <2>2, <2>3 DEF FieldOK
<1>3. LiveOK(k, y)
  <2>1. /\ y.req \in Catalogue[k]
        /\ Guards(y.req) # {} /\ y.st # "guards" => y.req.token
    BY <1>1 DEF LiveOK, Alters, Besides
  <2>2. /\ y.left = [g \in DOMAIN y.req.fields |-> y.left[g]]
        /\ y.got = [g \in DOMAIN y.req.fields |-> y.got[g]]
        /\ y.out = [g \in DOMAIN y.req.fields |-> y.out[g]]
        /\ y.truths = [g \in DOMAIN y.req.fields |-> y.truths[g]]
    BY DEF Alters, Besides
  <2>3. \A g \in DOMAIN y.req.fields : FieldOK(y, g)
    BY <1>2 DEF Alters, Besides
  <2>4. QED
    BY <2>1, <2>2, <2>3 DEF LiveOK
<1>4. AnswerOK(y)
  BY DEF AnswerOK, Alters, Besides, CallOK
<1>5. CallOK(k, y)
  BY <1>3, <1>4 DEF CallOK, Alters, Besides, Live
<1>6. ASSUME NEW d, Knows(x, d), y.truths[f] = x.truths[f] PROVE Knows(y, d)
  <2>1. y.req = x.req /\ \A g \in F : y.truths[g] = x.truths[g]
    BY <1>6 DEF Alters, Besides
  <2>2. QED
    BY <1>6, <2>1 DEF Knows, Live
<1>7. QED
  BY <1>5, <1>6

\* What is known of the call that runs a statement.
LEMMA Running ==
    ASSUME CallsOK, NEW k \in Slots, calls[k].st = "run", NEW f \in Fields(k)
    PROVE  LET x == calls[k]
               F == DOMAIN x.req.fields
           IN  /\ CallOK(k, x) /\ LiveOK(k, x) /\ Knows(x, db) /\ DbOK(db)
               /\ x.req \in Catalogue[k] /\ f \in F /\ Shape(x)
               /\ x.left = [g \in F |-> x.left[g]] /\ x.got = [g \in F |-> x.got[g]]
               /\ x.out = [g \in F |-> x.out[g]] /\ x.truths = [g \in F |-> x.truths[g]]
               /\ calls = [j \in Slots |-> calls[j]]
               /\ x.expired \in BOOLEAN /\ x.faulted \in BOOLEAN
               /\ FieldOK(x, f) /\ Truths(x.req.fields[f], db) \subseteq x.truths[f]
<1>1. CallOK(k, calls[k]) /\ Knows(calls[k], db) /\ calls = [j \in Slots |-> calls[j]]
      /\ DbOK(db)
  BY DEF CallsOK
<1>2. LiveOK(k, calls[k]) /\ Shape(calls[k])
      /\ calls[k].expired \in BOOLEAN /\ calls[k].faulted \in BOOLEAN
  BY <1>1 DEF CallOK, Live
<1>3. Truths(calls[k].req.fields[f], db) \subseteq calls[k].truths[f]
  BY <1>1 DEF Knows, Fields, Live
<1>4. f \in DOMAIN calls[k].req.fields
  BY DEF Fields
<1>5. QED
  BY <1>1, <1>2, <1>3, <1>4 DEF LiveOK

LEMMA Pair ==
    ASSUME NEW a, NEW b
    PROVE  Append(<<a>>, b)[1] = a /\ Append(<<a>>, b)[2] = b
<1>1. <<a>> \in Seq({a, b}) /\ b \in {a, b} /\ Len(<<a>>) = 1 /\ <<a>>[1] = a
  OBVIOUS
<1>2. QED
  BY <1>1, AppendProperties

\* What a field that has read r goes on with is true; what it comes to is.
Continues(field, left, got, r, T) ==
    /\ Tail(left) # <<>>
    /\ Midway(field, Tail(left), IF field.nested THEN Append(got, r.value) ELSE got, T)

Concludes(field, got, r, T) ==
    /\ Conclusion(field, got, r).code \in {200, 400, 404, 500}
    /\ Honest(field, Conclusion(field, got, r), T)
    /\ Conclusion(field, got, r).code = 500 => Caused(field, T)

\* field f of q, in d, is about to run statement, which gives it r.
Reading(k, q, f, field, d, T, left, got, statement, r) ==
    /\ q \in Catalogue[k] /\ f \in DOMAIN q.fields /\ field = q.fields[f] /\ DbOK(d)
    /\ Truths(field, d) \subseteq T /\ left # <<>> /\ FieldAccepted(field)
    /\ Midway(field, left, got, T) /\ Head(left) = statement
    /\ statement \in {"stats", "list", "get", "event", "query"}
    /\ r = Read(q.graphql, field, statement, d)

\* What a read gives field: another statement to run, with what it said true,
\* or an honest outcome.
LEMMA ReadAnswers ==
    ASSUME NEW k \in Slots, NEW q, NEW f, NEW field, NEW d, NEW T, NEW left, NEW got,
           NEW statement, NEW r, Reading(k, q, f, field, d, T, left, got, statement, r)
    PROVE  /\ r.code = 200 /\ Len(left) > 1 => Continues(field, left, got, r, T)
           /\ ~(r.code = 200 /\ Len(left) > 1) => Concludes(field, got, r, T)
<1> DEFINE more == r.code = 200 /\ Len(left) > 1
           out == Conclusion(field, got, r)
           Goes == /\ Tail(left) # <<>>
                   /\ Midway(field, Tail(left),
                             IF field.nested THEN Append(got, r.value) ELSE got, T)
           Ends == /\ out.code \in {200, 400, 404, 500}
                   /\ Honest(field, out, T)
                   /\ out.code = 500 => Caused(field, T)
<1>1. /\ q \in Catalogue[k] /\ f \in DOMAIN q.fields /\ field = q.fields[f] /\ DbOK(d)
      /\ Truths(field, d) \subseteq T /\ left # <<>> /\ FieldAccepted(field)
      /\ Midway(field, left, got, T) /\ Head(left) = statement
      /\ statement \in {"stats", "list", "get", "event", "query"}
      /\ r = Read(q.graphql, field, statement, d)
  BY DEF Reading
<1> USE <1>1
<1> SUFFICES (more => Goes) /\ (~more => Ends)
  BY DEF Continues, Concludes
<1>2. /\ field \in Field /\ q.graphql \in BOOLEAN
      /\ field.op \in Writes => ~q.graphql
      /\ field.nested => field.op = "get"
  BY Requests
<1>3. field.op \in Ops /\ field.nested \in BOOLEAN
  BY <1>2 DEF Field
<1>4. NotFound.code = 404 /\ Fail(400).code = 400 /\ Fail(500).code = 500
  BY DEF NotFound, Fail, Outcome
<1>5. \A v : Ok(v).code = 200 /\ Ok(v).value = v
  BY DEF Ok, Outcome
\* What is true and is not a failure may be said.
<1>6. ASSUME r \in T, r.code = 200 \/ r = NotFound, field.op # "register",
             ~field.nested \/ r = NotFound,
             field.op = "events" /\ r.code = 200 => Existed(T)
      PROVE  Ends
  <2>1. out = r
    BY <1>4, <1>6 DEF Conclusion
  <2>2. QED
    BY <1>4, <1>6, <2>1 DEF Honest, Statuses
<1>7. CASE left = Statements(field) /\ got = <<>> /\ field.op \in {"health", "list", "event"}
  <2>1. Len(left) = 1 /\ ~field.nested
    BY <1>2, <1>7 DEF Statements
  <2>2. r \in T /\ (r.code = 200 \/ r = NotFound)
    <3>1. CASE field.op = "health"
      <4>1. statement = "stats" /\ r = Stats(q.graphql, d)
        BY <1>7, <3>1 DEF Statements, Read
      <4>2. r = Stats(FALSE, d) /\ Truths(field, d) = {Stats(FALSE, d)}
        BY <1>2, <3>1, <4>1, SameNumbers DEF Truths
      <4>3. QED
        BY <1>5, <4>2 DEF Stats
    <3>2. CASE field.op = "list"
      <4>1. statement = "list" /\ r = List(q.graphql, d)
        BY <1>7, <3>2 DEF Statements, Read
      <4>2. r = List(FALSE, d) /\ Truths(field, d) = {List(FALSE, d)}
        BY <1>2, <3>2, <4>1, SameNumbers DEF Truths
      <4>3. QED
        BY <1>5, <4>2 DEF List
    <3>3. CASE field.op = "event"
      <4>1. statement = "event" /\ r = EventById(q.graphql, EventID(field.id), d)
        BY <1>7, <3>3 DEF Statements, Read
      <4>2. r = EventById(FALSE, EventID(field.id), d)
        BY <1>2, <4>1, SameNumbers
      <4>3. EventID(field.id) # Refused
        BY <3>3 DEF FieldAccepted
      <4>4. Truths(field, d) = {EventById(FALSE, EventID(field.id), d)}
        BY <3>3, <4>3 DEF Truths
      <4>5. r.code = 200 \/ r = NotFound
        <5>1. \A id : EventById(FALSE, id, d) = NotFound \/
                          \E v : EventById(FALSE, id, d) = Ok(v)
          BY DEF EventById
        <5>2. r = NotFound \/ \E v : r = Ok(v)
          <6>1. PICK e : e = EventById(FALSE, EventID(field.id), d)
            OBVIOUS
          <6>2. e = NotFound \/ \E v : e = Ok(v)
            BY <5>1, <6>1
          <6>3. QED
            BY <4>2, <6>1, <6>2
        <5>3. QED
          BY <1>5, <5>2
      <4>6. r \in Truths(field, d)
        BY <4>2, <4>4
      <4>7. QED
        BY <4>5, <4>6
    <3>4. QED
      BY <1>7, <3>1, <3>2, <3>3
  <2>3. ~more /\ Ends
    BY <1>6, <1>7, <2>1, <2>2
  <2>4. QED
    BY <2>3
<1>8. CASE field.op \in {"get", "events"} /\ left = Statements(field) /\ got = <<>>
  <2>1. statement = "get" /\ r = Get(q.graphql, field.contract, d)
    <3>1. left = <<"get">> \/ left = <<"get", "query">>
      BY <1>8 DEF Statements
    <3>2. statement = "get"
      BY <3>1
    <3>3. QED
      BY <3>2 DEF Read
  <2>2. r = Get(FALSE, field.contract, d)
    BY <1>2, <2>1, SameNumbers
  <2>3. r.code = 200 \/ r = NotFound
    BY <1>5, <2>2 DEF Get
  <2>4. r \in T
    <3>1. Get(FALSE, field.contract, d) \in Truths(field, d)
      BY <1>8 DEF Truths, FieldAccepted
    <3>2. QED
      BY <2>2, <3>1
  <2>5. r.code = 200 => Existed(T)
    <3>1. SUFFICES ASSUME r.code = 200 PROVE Existed(T)
      OBVIOUS
    <3>2. field.contract \in Tracked(d)
      BY <1>4, <2>2, <3>1 DEF Get
    <3>3. PICK n : n = d.last[field.contract]
      OBVIOUS
    <3>4. n \in 0 .. MaxLedger
      BY <3>2, <3>3 DEF DbOK
    <3>5. r = Ok([last |-> n])
      BY <2>2, <3>2, <3>3 DEF Get, Number
    <3>6. QED
      BY <2>4, <3>4, <3>5 DEF Existed
  <2>6. CASE r = NotFound
    <3>1. ~more /\ Ends
      BY <1>4, <1>6, <1>8, <2>4, <2>6
    <3>2. QED
      BY <3>1
  <2>7. CASE r.code = 200 /\ field.op = "get" /\ ~field.nested
    <3>1. Len(left) = 1
      BY <1>8, <2>7 DEF Statements
    <3>2. ~more /\ Ends
      BY <1>6, <2>4, <2>7, <3>1
    <3>3. QED
      BY <3>2
  <2>8. CASE r.code = 200 /\ field.op = "get" /\ field.nested
    <3>1. left = <<"get", "query">>
      BY <1>8, <2>8 DEF Statements
    <3>2. Tail(left) = <<"query">> /\ Len(left) = 2
      BY <3>1
    <3>3. r = Ok(r.value)
      BY <2>2, <2>8, <1>4, <1>5 DEF Get
    <3>4. Append(got, r.value) = <<r.value>>
      BY <1>8
    <3>5. more /\ Goes
      BY <2>4, <2>8, <3>2, <3>3, <3>4 DEF Midway
    <3>6. QED
      BY <3>5
  <2>9. CASE r.code = 200 /\ field.op = "events"
    <3>1. left = <<"get", "query">> /\ ~field.nested
      BY <1>2, <1>8, <2>9 DEF Statements
    <3>2. Tail(left) = <<"query">> /\ Len(left) = 2
      BY <3>1
    <3>3. more /\ Goes
      BY <2>5, <2>9, <3>1, <3>2 DEF Midway
    <3>4. QED
      BY <3>3
  <2>10. QED
    BY <1>8, <2>3, <2>6, <2>7, <2>8, <2>9
<1>9. CASE field.op = "register"
  <2>1. left = <<"get">>
    <3>1. left = <<"get">> \/ left = <<"insert", "get">>
      BY <1>9 DEF Midway, Statements
    <3>2. QED
      BY <3>1
  <2>2. r = Get(q.graphql, field.contract, d) /\ Len(left) = 1 /\ ~field.nested
    BY <1>2, <1>9, <2>1 DEF Read
  <2>3. r = Get(FALSE, field.contract, d) /\ r \in T
    BY <1>2, <1>9, <2>2, SameNumbers DEF Truths
  <2>4. CASE r = NotFound
    <3>1. out = Fail(500)
      BY <1>9, <2>4 DEF Conclusion
    <3>2. NotFound \in T
      BY <2>3, <2>4
    <3>3. out.code = 500 /\ Caused(field, T)
      BY <1>4, <1>9, <3>1, <3>2 DEF Caused
    <3> HIDE DEF out
    <3>4. Honest(field, out, T)
      BY <3>3 DEF Honest
    <3>5. out.code \in {200, 400, 404, 500}
      BY <3>3 DEF Statuses
    <3>6. QED
      BY <1>9, <2>2, <3>3, <3>4, <3>5 DEF out
  <2>5. CASE r # NotFound
    <3>1. r.code = 200
      BY <1>5, <2>3, <2>5 DEF Get
    <3>2. out = r
      BY <2>2, <2>5 DEF Conclusion
    <3>3. r \in T
      BY <2>3
    <3> HIDE DEF out
    <3>4. out.code = 200 /\ out \in T
      BY <3>1, <3>2, <3>3
    <3> HIDE DEF out
    <3>5. Honest(field, out, T)
      BY <1>9, <2>2, <3>4 DEF Honest
    <3>6. out.code \in {200, 400, 404, 500} /\ out.code # 500
      BY <3>4 DEF Statuses
    <3>7. QED
      BY <2>2, <3>5, <3>6 DEF out
  <2>6. QED
    BY <2>4, <2>5
<1>10. CASE left = <<"query">> /\ field.op = "get" /\ field.nested /\ got = <<got[1]>>
           /\ Ok(got[1]) \in T
  <2> DEFINE page == Page(q.graphql, field.contract, field.args, d)
  <2>1. Len(left) = 1 /\ statement = "query"
    BY <1>10
  <2>2. CASE ~QueryAccepted(field.args)
    <3>1. r = Fail(400) /\ out = Fail(400)
      BY <1>4, <1>10, <2>1, <2>2 DEF Read, Conclusion
    <3>2. QED
      BY <1>4, <2>1, <3>1 DEF Honest, Statuses
  <2>3. CASE QueryAccepted(field.args)
    <3>1. StoreAccepts(EventQuery(field.args))
      <4>1. {field.args.from, field.args.to} \subseteq Int32 \union {Absent}
        BY <1>10, Requests
      <4>2. QED
        BY <1>2, <2>3, <4>1, NarrowEnough, AcceptedByStore
    <3>2. r = Ok(page)
      BY <2>1, <2>3, <3>1 DEF Read
    <3>3. page = Page(FALSE, field.contract, field.args, d)
      BY <1>2, SameNumbers
    <3>4. Ok(page) \in T
      BY <1>10, <2>3, <3>3 DEF Truths
    <3> HIDE DEF page
    <3>5. r # NotFound
      BY <1>4, <1>5, <3>2
    <3>6. Append(got, r.value)[1] = got[1] /\ Append(got, r.value)[2] = page
      <4>1. PICK g : g = got[1]
        OBVIOUS
      <4>2. got = <<g>> /\ r.value = page
        BY <1>5, <1>10, <3>2, <4>1
      <4>3. QED
        BY <4>1, <4>2, Pair
    <3>7. out.code = 200 /\ out.value = Append(got, r.value)
      <4>1. r.code = 200 /\ field.nested
        BY <1>5, <1>10, <3>2
      <4>2. out = Ok(Append(got, r.value))
        BY <3>5, <4>1 DEF Conclusion
      <4>3. PICK v : v = Append(got, r.value)
        OBVIOUS
      <4> HIDE DEF out
      <4>4. out = Ok(v) /\ Ok(v).code = 200 /\ Ok(v).value = v
        BY <1>5, <4>2, <4>3
      <4>5. QED
        BY <4>3, <4>4
    <3> HIDE DEF out
    <3>8. out.value[1] = got[1] /\ out.value[2] = page
      BY <3>6, <3>7
    <3>9. Honest(field, out, T)
      BY <1>10, <3>4, <3>7, <3>8 DEF Honest
    <3>10. QED
      BY <2>1, <3>7, <3>9 DEF Statuses, out
  <2>4. QED
    BY <2>2, <2>3
<1>11. CASE field.op = "events" /\ left = <<"query">> /\ Existed(T)
  <2> DEFINE page == Page(q.graphql, field.contract, field.args, d)
  <2>1. Len(left) = 1 /\ statement = "query" /\ ~field.nested
    BY <1>2, <1>11
  <2>2. QueryAccepted(field.args)
    BY <1>11 DEF FieldAccepted
  <2>3. CASE TooWide(EventQuery(field.args))
    <3>1. r = Fail(500)
      BY <2>1, <2>2, <2>3 DEF Read, StoreAccepts
    <3>2. out = Fail(500)
      BY <1>4, <1>11, <3>1 DEF Conclusion
    <3>3. Caused(field, T)
      BY <1>11, <2>2, <2>3 DEF Caused, OverColumn
    <3>4. QED
      BY <1>4, <2>1, <3>2, <3>3 DEF Honest
  <2>4. CASE ~TooWide(EventQuery(field.args))
    <3>1. StoreAccepts(EventQuery(field.args))
      BY <1>2, <2>2, <2>4, AcceptedByStore
    <3>2. r = Ok(page)
      BY <2>1, <2>2, <3>1 DEF Read
    <3>3. page = Page(FALSE, field.contract, field.args, d)
      BY <1>2, SameNumbers
    <3>4. Ok(Page(FALSE, field.contract, field.args, d)) \in Truths(field, d)
      BY <1>11, <2>2 DEF Truths
    <3>5. r \in T
      BY <3>2, <3>3, <3>4
    <3>6. r.code = 200
      BY <1>5, <3>2
    <3>7. Ends
      BY <1>6, <1>11, <2>1, <3>5, <3>6
    <3>8. QED
      BY <2>1, <3>7
  <2>5. QED
    BY <2>3, <2>4
<1>12. CASE left = Statements(field) /\ field.op \in {"unrouted", "delete"}
  <2>1. left = <<>> \/ left = <<"delete">>
    BY <1>12 DEF Statements
  <2>2. QED
    BY <2>1
<1>13. QED
  BY <1>3, <1>7, <1>8, <1>9, <1>10, <1>11, <1>12 DEF Midway, Ops

\* The calls cs, when field f of call k is given what an action gives it.
Given(cs, k, f) ==
    /\ cs = [calls EXCEPT ![k] = cs[k]]
    /\ cs = [j \in Slots |-> cs[j]]
    /\ Alters(calls[k], cs[k], f)

\* The ways the actions give it.
SetAll(cs, k, f, left, got, out) ==
    cs = [calls EXCEPT ![k].left[f] = left, ![k].got[f] = got, ![k].out[f] = out]

SetLeft(cs, k, f, left, truths) ==
    cs = [calls EXCEPT ![k].left[f] = left, ![k].truths[f] = truths]

SetOut(cs, k, f, out) == cs = [calls EXCEPT ![k].left[f] = <<>>, ![k].out[f] = out]

SetFault(cs, k, f, out, fault) ==
    /\ fault = TRUE
    /\ cs = [calls EXCEPT ![k].left[f] = <<>>, ![k].out[f] = out, ![k].faulted = fault]

\* fn, with v in the place of what it had at f.
With(fn, F, f, v) == [g \in F |-> IF g = f THEN v ELSE fn[g]]

LEMMA WithSame ==
    ASSUME NEW fn, NEW F, NEW f \in F, fn = [g \in F |-> fn[g]]
    PROVE  fn = With(fn, F, f, fn[f])
BY DEF With

LEMMA GivenOK ==
    ASSUME CallsOK, NEW k \in Slots, calls[k].st = "run", NEW f \in Fields(k), NEW cs,
           cs = [j \in Slots |-> cs[j]], \A j \in Slots : j # k => cs[j] = calls[j],
           NEW y, y = cs[k], Besides(calls[k], y),
           y.left = With(calls[k].left, Fields(k), f, y.left[f]),
           y.got = With(calls[k].got, Fields(k), f, y.got[f]),
           y.out = With(calls[k].out, Fields(k), f, y.out[f]),
           y.truths = With(calls[k].truths, Fields(k), f, y.truths[f])
    PROVE  Given(cs, k, f)
<1>1. calls = [j \in Slots |-> calls[j]] /\ Fields(k) = DOMAIN calls[k].req.fields
  BY Running DEF Fields
<1>2. Alters(calls[k], y, f)
  BY <1>1 DEF Alters, With
<1>3. cs = [calls EXCEPT ![k] = y]
  BY <1>1
<1>4. QED
  BY <1>2, <1>3 DEF Given

LEMMA GivenAll ==
    ASSUME CallsOK, NEW k \in Slots, calls[k].st = "run", NEW f \in Fields(k), NEW cs,
           NEW left, NEW got, NEW out,
           SetAll(cs, k, f, left, got, out)
    PROVE  /\ Given(cs, k, f)
           /\ cs[k].left[f] = left /\ cs[k].got[f] = got
           /\ cs[k].out[f] = out /\ cs[k].truths[f] = calls[k].truths[f]
           /\ cs[k].faulted = calls[k].faulted
<1> DEFINE x == calls[k]
           F == Fields(k)
<1>1. /\ Shape(x) /\ calls = [j \in Slots |-> calls[j]]
      /\ x.left = [g \in F |-> x.left[g]] /\ x.got = [g \in F |-> x.got[g]]
      /\ x.out = [g \in F |-> x.out[g]] /\ x.truths = [g \in F |-> x.truths[g]]
      /\ x.faulted \in BOOLEAN
  BY Running DEF Fields
<1>2. cs = [calls EXCEPT ![k].left[f] = left, ![k].got[f] = got, ![k].out[f] = out]
  BY DEF SetAll
<1>3. cs = [j \in Slots |-> cs[j]]
  BY ZenonT(60), <1>2, <1>1
<1>4. \A j \in Slots : j # k => cs[j] = calls[j]
  BY <1>2, <1>1
<1>5. PICK y : y = cs[k]
  OBVIOUS
<1>6. Shape(y)
  BY <1>2, <1>1, <1>5 DEF Shape
<1>7. /\ y.st = x.st /\ y.req = x.req /\ y.status = x.status
      /\ y.body = x.body /\ y.expired = x.expired /\ y.honest = x.honest
  BY <1>2, <1>1, <1>5 DEF Shape
<1>8. y.faulted = x.faulted
  BY <1>2, <1>1, <1>5 DEF Shape
<1>9. y.faulted \in BOOLEAN /\ (x.faulted => y.faulted)
  BY <1>1, <1>8
<1>10. Besides(x, y)
  BY <1>6, <1>7, <1>9 DEF Besides
<1>11. y.left = With(x.left, F, f, y.left[f]) /\ y.left[f] = left
  <2>1. y.left = With(x.left, F, f, left)
    BY <1>2, <1>1, <1>5 DEF Shape, With
  <2>2. y.left[f] = left
    BY <2>1 DEF With
  <2>3. QED
    BY <2>1, <2>2
<1>12. y.got = With(x.got, F, f, y.got[f]) /\ y.got[f] = got
  <2>1. y.got = With(x.got, F, f, got)
    BY <1>2, <1>1, <1>5 DEF Shape, With
  <2>2. y.got[f] = got
    BY <2>1 DEF With
  <2>3. QED
    BY <2>1, <2>2
<1>13. y.out = With(x.out, F, f, y.out[f]) /\ y.out[f] = out
  <2>1. y.out = With(x.out, F, f, out)
    BY <1>2, <1>1, <1>5 DEF Shape, With
  <2>2. y.out[f] = out
    BY <2>1 DEF With
  <2>3. QED
    BY <2>1, <2>2
<1>14. y.truths = With(x.truths, F, f, y.truths[f]) /\ y.truths[f] = x.truths[f]
  <2>1. y.truths = x.truths
    BY <1>2, <1>1, <1>5 DEF Shape
  <2>2. QED
    BY <1>1, <2>1, WithSame
<1>15. Given(cs, k, f)
  BY <1>3, <1>4, <1>5, <1>10, <1>11, <1>12, <1>13, <1>14, GivenOK
<1>16. QED
  BY <1>5, <1>8, <1>11, <1>12, <1>13, <1>14, <1>15

LEMMA GivenLeft ==
    ASSUME CallsOK, NEW k \in Slots, calls[k].st = "run", NEW f \in Fields(k), NEW cs,
           NEW left, NEW truths,
           SetLeft(cs, k, f, left, truths)
    PROVE  /\ Given(cs, k, f)
           /\ cs[k].left[f] = left /\ cs[k].got[f] = calls[k].got[f]
           /\ cs[k].out[f] = calls[k].out[f] /\ cs[k].truths[f] = truths
           /\ cs[k].faulted = calls[k].faulted
<1> DEFINE x == calls[k]
           F == Fields(k)
<1>1. /\ Shape(x) /\ calls = [j \in Slots |-> calls[j]]
      /\ x.left = [g \in F |-> x.left[g]] /\ x.got = [g \in F |-> x.got[g]]
      /\ x.out = [g \in F |-> x.out[g]] /\ x.truths = [g \in F |-> x.truths[g]]
      /\ x.faulted \in BOOLEAN
  BY Running DEF Fields
<1>2. cs = [calls EXCEPT ![k].left[f] = left, ![k].truths[f] = truths]
  BY DEF SetLeft
<1>3. cs = [j \in Slots |-> cs[j]]
  BY <1>2, <1>1
<1>4. \A j \in Slots : j # k => cs[j] = calls[j]
  BY <1>2, <1>1
<1>5. PICK y : y = cs[k]
  OBVIOUS
<1>6. Shape(y)
  BY <1>2, <1>1, <1>5 DEF Shape
<1>7. /\ y.st = x.st /\ y.req = x.req /\ y.status = x.status
      /\ y.body = x.body /\ y.expired = x.expired /\ y.honest = x.honest
  BY <1>2, <1>1, <1>5 DEF Shape
<1>8. y.faulted = x.faulted
  BY <1>2, <1>1, <1>5 DEF Shape
<1>9. y.faulted \in BOOLEAN /\ (x.faulted => y.faulted)
  BY <1>1, <1>8
<1>10. Besides(x, y)
  BY <1>6, <1>7, <1>9 DEF Besides
<1>11. y.left = With(x.left, F, f, y.left[f]) /\ y.left[f] = left
  <2>1. y.left = With(x.left, F, f, left)
    BY <1>2, <1>1, <1>5 DEF Shape, With
  <2>2. y.left[f] = left
    BY <2>1 DEF With
  <2>3. QED
    BY <2>1, <2>2
<1>12. y.got = With(x.got, F, f, y.got[f]) /\ y.got[f] = x.got[f]
  <2>1. y.got = x.got
    BY <1>2, <1>1, <1>5 DEF Shape
  <2>2. QED
    BY <1>1, <2>1, WithSame
<1>13. y.out = With(x.out, F, f, y.out[f]) /\ y.out[f] = x.out[f]
  <2>1. y.out = x.out
    BY <1>2, <1>1, <1>5 DEF Shape
  <2>2. QED
    BY <1>1, <2>1, WithSame
<1>14. y.truths = With(x.truths, F, f, y.truths[f]) /\ y.truths[f] = truths
  <2>1. y.truths = With(x.truths, F, f, truths)
    BY <1>2, <1>1, <1>5 DEF Shape, With
  <2>2. y.truths[f] = truths
    BY <2>1 DEF With
  <2>3. QED
    BY <2>1, <2>2
<1>15. Given(cs, k, f)
  BY <1>3, <1>4, <1>5, <1>10, <1>11, <1>12, <1>13, <1>14, GivenOK
<1>16. QED
  BY <1>5, <1>8, <1>11, <1>12, <1>13, <1>14, <1>15

LEMMA GivenOut ==
    ASSUME CallsOK, NEW k \in Slots, calls[k].st = "run", NEW f \in Fields(k), NEW cs,
           NEW out,
           SetOut(cs, k, f, out)
    PROVE  /\ Given(cs, k, f)
           /\ cs[k].left[f] = <<>> /\ cs[k].got[f] = calls[k].got[f]
           /\ cs[k].out[f] = out /\ cs[k].truths[f] = calls[k].truths[f]
           /\ cs[k].faulted = calls[k].faulted
<1> DEFINE x == calls[k]
           F == Fields(k)
<1>1. /\ Shape(x) /\ calls = [j \in Slots |-> calls[j]]
      /\ x.left = [g \in F |-> x.left[g]] /\ x.got = [g \in F |-> x.got[g]]
      /\ x.out = [g \in F |-> x.out[g]] /\ x.truths = [g \in F |-> x.truths[g]]
      /\ x.faulted \in BOOLEAN
  BY Running DEF Fields
<1>2. cs = [calls EXCEPT ![k].left[f] = <<>>, ![k].out[f] = out]
  BY DEF SetOut
<1>3. cs = [j \in Slots |-> cs[j]]
  BY <1>2, <1>1
<1>4. \A j \in Slots : j # k => cs[j] = calls[j]
  BY <1>2, <1>1
<1>5. PICK y : y = cs[k]
  OBVIOUS
<1>6. Shape(y)
  BY <1>2, <1>1, <1>5 DEF Shape
<1>7. /\ y.st = x.st /\ y.req = x.req /\ y.status = x.status
      /\ y.body = x.body /\ y.expired = x.expired /\ y.honest = x.honest
  BY <1>2, <1>1, <1>5 DEF Shape
<1>8. y.faulted = x.faulted
  BY <1>2, <1>1, <1>5 DEF Shape
<1>9. y.faulted \in BOOLEAN /\ (x.faulted => y.faulted)
  BY <1>1, <1>8
<1>10. Besides(x, y)
  BY <1>6, <1>7, <1>9 DEF Besides
<1>11. y.left = With(x.left, F, f, y.left[f]) /\ y.left[f] = <<>>
  <2>1. y.left = With(x.left, F, f, <<>>)
    BY <1>2, <1>1, <1>5 DEF Shape, With
  <2>2. y.left[f] = <<>>
    BY <2>1 DEF With
  <2>3. QED
    BY <2>1, <2>2
<1>12. y.got = With(x.got, F, f, y.got[f]) /\ y.got[f] = x.got[f]
  <2>1. y.got = x.got
    BY <1>2, <1>1, <1>5 DEF Shape
  <2>2. QED
    BY <1>1, <2>1, WithSame
<1>13. y.out = With(x.out, F, f, y.out[f]) /\ y.out[f] = out
  <2>1. y.out = With(x.out, F, f, out)
    BY <1>2, <1>1, <1>5 DEF Shape, With
  <2>2. y.out[f] = out
    BY <2>1 DEF With
  <2>3. QED
    BY <2>1, <2>2
<1>14. y.truths = With(x.truths, F, f, y.truths[f]) /\ y.truths[f] = x.truths[f]
  <2>1. y.truths = x.truths
    BY <1>2, <1>1, <1>5 DEF Shape
  <2>2. QED
    BY <1>1, <2>1, WithSame
<1>15. Given(cs, k, f)
  BY <1>3, <1>4, <1>5, <1>10, <1>11, <1>12, <1>13, <1>14, GivenOK
<1>16. QED
  BY <1>5, <1>8, <1>11, <1>12, <1>13, <1>14, <1>15

LEMMA GivenFault ==
    ASSUME CallsOK, NEW k \in Slots, calls[k].st = "run", NEW f \in Fields(k), NEW cs,
           NEW out, NEW fault,
           SetFault(cs, k, f, out, fault)
    PROVE  /\ Given(cs, k, f)
           /\ cs[k].left[f] = <<>> /\ cs[k].got[f] = calls[k].got[f]
           /\ cs[k].out[f] = out /\ cs[k].truths[f] = calls[k].truths[f]
           /\ cs[k].faulted = fault
<1> DEFINE x == calls[k]
           F == Fields(k)
<1>1. /\ Shape(x) /\ calls = [j \in Slots |-> calls[j]]
      /\ x.left = [g \in F |-> x.left[g]] /\ x.got = [g \in F |-> x.got[g]]
      /\ x.out = [g \in F |-> x.out[g]] /\ x.truths = [g \in F |-> x.truths[g]]
      /\ x.faulted \in BOOLEAN
  BY Running DEF Fields
<1>2. /\ fault = TRUE
      /\ cs = [calls EXCEPT ![k].left[f] = <<>>, ![k].out[f] = out, ![k].faulted = fault]
  BY DEF SetFault
<1>3. cs = [j \in Slots |-> cs[j]]
  BY ZenonT(60), <1>2, <1>1
<1>4. \A j \in Slots : j # k => cs[j] = calls[j]
  BY <1>2, <1>1
<1>5. PICK y : y = cs[k]
  OBVIOUS
<1>6. Shape(y)
  BY <1>2, <1>1, <1>5 DEF Shape
<1>7. /\ y.st = x.st /\ y.req = x.req /\ y.status = x.status
      /\ y.body = x.body /\ y.expired = x.expired /\ y.honest = x.honest
  BY <1>2, <1>1, <1>5 DEF Shape
<1>8. y.faulted = fault
  BY <1>2, <1>1, <1>5 DEF Shape
<1>9. y.faulted \in BOOLEAN /\ (x.faulted => y.faulted)
  BY <1>2, <1>1, <1>8
<1>10. Besides(x, y)
  BY <1>6, <1>7, <1>9 DEF Besides
<1>11. y.left = With(x.left, F, f, y.left[f]) /\ y.left[f] = <<>>
  <2>1. y.left = With(x.left, F, f, <<>>)
    BY <1>2, <1>1, <1>5 DEF Shape, With
  <2>2. y.left[f] = <<>>
    BY <2>1 DEF With
  <2>3. QED
    BY <2>1, <2>2
<1>12. y.got = With(x.got, F, f, y.got[f]) /\ y.got[f] = x.got[f]
  <2>1. y.got = x.got
    BY <1>2, <1>1, <1>5 DEF Shape
  <2>2. QED
    BY <1>1, <2>1, WithSame
<1>13. y.out = With(x.out, F, f, y.out[f]) /\ y.out[f] = out
  <2>1. y.out = With(x.out, F, f, out)
    BY <1>2, <1>1, <1>5 DEF Shape, With
  <2>2. y.out[f] = out
    BY <2>1 DEF With
  <2>3. QED
    BY <2>1, <2>2
<1>14. y.truths = With(x.truths, F, f, y.truths[f]) /\ y.truths[f] = x.truths[f]
  <2>1. y.truths = x.truths
    BY <1>2, <1>1, <1>5 DEF Shape
  <2>2. QED
    BY <1>1, <2>1, WithSame
<1>15. Given(cs, k, f)
  BY <1>3, <1>4, <1>5, <1>10, <1>11, <1>12, <1>13, <1>14, GivenOK
<1>16. QED
  BY <1>5, <1>8, <1>11, <1>12, <1>13, <1>14, <1>15

\* A field that is resolved has no write ahead of it.
LEMMA Resolved ==
    ASSUME NEW k \in Slots, NEW q \in Catalogue[k], NEW f \in DOMAIN q.fields,
           NEW y, y.req = q, y.left[f] = <<>>
    PROVE  ~Owes(y) /\ (y.out[f].code # 204 => ~Claims(y))
<1>1. ~q.graphql => f = 1
  BY Requests
<1>2. Guards(q) # {} => ~q.graphql /\ q.fields[1].op \in Writes
  BY Requests
<1>3. ASSUME q.fields[1].op \in Writes PROVE Statements(q.fields[1]) # <<>>
  BY <1>3 DEF Writes, Statements
<1>4. ~Owes(y)
  BY <1>1, <1>2, <1>3 DEF Owes
<1>5. y.out[f].code # 204 => ~Claims(y)
  BY <1>1 DEF Claims
<1>6. QED
  BY <1>4, <1>5

\* The outcome of a field that has failed for a cause.
LEMMA FailedOK ==
    ASSUME NEW x, NEW f, x.left[f] = <<>>, x.out[f] = Fail(500), x.expired \/ x.faulted
    PROVE  FieldOK(x, f)
<1>1. x.out[f].code = 500
  BY DEF Fail, Outcome
<1>2. QED
  BY <1>1 DEF FieldOK, Statuses, Honest

LEMMA ReadOK ==
    ASSUME CallsOK, NEW k \in Slots, calls[k].st = "run", NEW f \in Fields(k),
           NEW statement \in {"stats", "list", "get", "event", "query"},
           ReadStatement(k, f, statement)
    PROVE  CallsOK' /\ Owing' \subseteq Owing /\ Claiming' \subseteq Claiming
<1> DEFINE x == calls[k]
           field == x.req.fields[f]
           T == x.truths[f]
<1>1. /\ CallOK(k, x) /\ Knows(x, db) /\ DbOK(db) /\ x.req \in Catalogue[k]
      /\ f \in DOMAIN x.req.fields /\ FieldOK(x, f) /\ Truths(field, db) \subseteq T
  BY Running
<1>2. x.left[f] # <<>> /\ Head(x.left[f]) = statement
  BY DEF ReadStatement, Turn
<1>3. /\ x.out[f] = Pending /\ FieldAccepted(field)
      /\ Midway(field, x.left[f], x.got[f], T)
  BY <1>1, <1>2 DEF FieldOK
<1>4. PICK r : r = Read(x.req.graphql, field, statement, db)
  OBVIOUS
<1> DEFINE more == r.code = 200 /\ Len(x.left[f]) > 1
<1>5. PICK left : left = (IF more THEN Tail(x.left[f]) ELSE <<>>)
  OBVIOUS
<1>6. PICK got : got = (IF more /\ field.nested THEN Append(x.got[f], r.value)
                        ELSE x.got[f])
  OBVIOUS
<1>7. PICK out : out = (IF more THEN x.out[f] ELSE Conclusion(field, x.got[f], r))
  OBVIOUS
<1>8. SetAll(calls', k, f, left, got, out) /\ db' = db
  BY <1>4, <1>7, <1>5, <1>6 DEF ReadStatement, At, SetAll
<1>9. PICK cs : cs = calls'
  OBVIOUS
<1>10. PICK y : y = cs[k]
  OBVIOUS
<1>11. /\ cs = [calls EXCEPT ![k] = y] /\ Alters(x, y, f)
      /\ y.left[f] = left /\ y.got[f] = got /\ y.out[f] = out /\ y.truths[f] = T
  <2>1. /\ Given(cs, k, f) /\ cs[k].left[f] = left /\ cs[k].got[f] = got
        /\ cs[k].out[f] = out /\ cs[k].truths[f] = T
    BY <1>8, <1>9, GivenAll
  <2>2. QED
    BY <1>10, <2>1 DEF Given
<1>12. y.req = x.req /\ y.st = "run"
  BY <1>11 DEF Alters, Besides
<1>13. /\ more => Continues(field, x.left[f], x.got[f], r, T)
       /\ ~more => Concludes(field, x.got[f], r, T)
  <2>1. PICK q : q = x.req
    OBVIOUS
  <2>2. PICK fd : fd = field
    OBVIOUS
  <2>3. PICK l : l = x.left[f]
    OBVIOUS
  <2>4. PICK g : g = x.got[f]
    OBVIOUS
  <2>5. PICK t : t = T
    OBVIOUS
  <2>6. PICK d : d = db
    OBVIOUS
  <2>7. Reading(k, q, f, fd, d, t, l, g, statement, r)
    BY <1>1, <1>2, <1>3, <1>4, <2>1, <2>2, <2>3, <2>4, <2>5, <2>6 DEF Reading
  <2>8. /\ r.code = 200 /\ Len(l) > 1 => Continues(fd, l, g, r, t)
        /\ ~(r.code = 200 /\ Len(l) > 1) => Concludes(fd, g, r, t)
    BY <2>7, ReadAnswers
  <2>9. QED
    BY <2>2, <2>3, <2>4, <2>5, <2>8
<1>14. CASE more
  <2>1. /\ left = Tail(x.left[f]) /\ left # <<>> /\ out = Pending
        /\ Midway(field, left, got, T)
    BY <1>3, <1>7, <1>5, <1>6, <1>13, <1>14 DEF Continues
  <2>2. Pending.code = 0
    BY DEF Pending, Fail, Outcome
  <2>3. FieldOK(y, f)
    BY <1>3, <1>11, <1>12, <2>1, <2>2 DEF FieldOK
  <2>4. CallOK(k, y) /\ Knows(y, db)
    BY <1>1, <1>11, <2>3, AltersOK
  <2>5. ~Claims(y)
    <3>1. ~x.req.graphql => f = 1
      BY <1>1, Requests
    <3>2. QED
      BY <1>11, <1>12, <2>1, <2>2, <3>1 DEF Claims
  <2>6. ~Owes(y)
    <3>1. SUFFICES ASSUME Owes(y) PROVE FALSE
      OBVIOUS
    <3>2. Guards(x.req) # {} /\ y.left[1] = Statements(x.req.fields[1])
      BY <1>12, <3>1 DEF Owes
    <3>3. f = 1 /\ field.op \in Writes
      BY <1>1, <3>2, Requests
    <3>4. x.left[f] = <<"get">> \/ x.left[f] = Statements(field)
      BY <1>3, <3>3 DEF Midway, Writes
    <3>5. Statements(field) = <<"insert", "get">> \/ Statements(field) = <<"delete">>
      BY <3>3 DEF Writes, Statements
    <3>6. x.left[f] = <<"get">>
      BY <1>2, <3>4, <3>5
    <3>7. QED
      BY <1>14, <3>6
  <2>7. QED
    BY <1>8, <1>9, <1>11, <2>4, <2>5, <2>6, StepSame
<1>15. CASE ~more
  <2>1. /\ left = <<>> /\ out.code \in {200, 400, 404, 500} /\ Honest(field, out, T)
        /\ out.code = 500 => Caused(field, T)
    BY ZenonT(60), <1>7, <1>5, <1>13, <1>15 DEF Concludes
  <2>2. FieldOK(y, f)
    BY <1>11, <1>12, <2>1 DEF FieldOK, Statuses
  <2>3. CallOK(k, y) /\ Knows(y, db)
    BY <1>1, <1>11, <2>2, AltersOK
  <2>4. ~Owes(y) /\ ~Claims(y)
    BY <1>1, <1>11, <1>12, <2>1, Resolved
  <2>5. QED
    BY <1>8, <1>9, <1>11, <2>3, <2>4, StepSame
<1>16. QED
  BY <1>14, <1>15

\* What is known of a field whose next statement writes.
LEMMA Writing ==
    ASSUME CallsOK, NEW k \in Slots, calls[k].st = "run", NEW f \in Fields(k),
           calls[k].left[f] # <<>>, Head(calls[k].left[f]) \in {"insert", "delete"}
    PROVE  /\ f = 1 /\ At(k, f).contract \in Contracts /\ k \in Owing
           /\ calls[k].out[f] = Pending /\ FieldAccepted(At(k, f))
           /\ Head(calls[k].left[f]) = "insert" =>
                At(k, f).op = "register" /\ calls[k].left[f] = <<"insert", "get">>
           /\ Head(calls[k].left[f]) = "delete" =>
                At(k, f).op = "delete" /\ calls[k].left[f] = <<"delete">>
<1> DEFINE x == calls[k]
           field == x.req.fields[f]
<1>1. x.req \in Catalogue[k] /\ f \in DOMAIN x.req.fields /\ FieldOK(x, f)
  BY Running
<1>2. /\ x.out[f] = Pending /\ FieldAccepted(field)
      /\ Midway(field, x.left[f], x.got[f], x.truths[f])
  BY <1>1 DEF FieldOK
<1>3. x.left[f] = Statements(field)
  BY <1>2 DEF Midway
<1>4. /\ Head(x.left[f]) = "insert" =>
                field.op = "register" /\ x.left[f] = <<"insert", "get">>
      /\ Head(x.left[f]) = "delete" => field.op = "delete" /\ x.left[f] = <<"delete">>
  <2>1. field.op \in Ops
    BY <1>1, Requests DEF Field
  <2>2. CASE field.op \notin Writes
    <3>1. \/ Statements(field) = <<>> \/ Statements(field) = <<"stats">>
          \/ Statements(field) = <<"list">> \/ Statements(field) = <<"get">>
          \/ Statements(field) = <<"get", "query">> \/ Statements(field) = <<"event">>
      BY <2>1, <2>2 DEF Statements, Ops, Writes
    <3>2. Statements(field) # <<>>
      BY <1>3
    <3>3. Head(Statements(field)) \in {"stats", "list", "get", "event"}
      BY <3>1, <3>2
    <3>4. QED
      BY <1>3, <3>3
  <2>3. CASE field.op = "register"
    <3>1. Statements(field) = <<"insert", "get">>
      BY <2>3 DEF Statements
    <3>2. QED
      BY <1>3, <2>3, <3>1
  <2>4. CASE field.op = "delete"
    <3>1. Statements(field) = <<"delete">>
      BY <2>4 DEF Statements
    <3>2. QED
      BY <1>3, <2>4, <3>1
  <2>5. QED
    BY <2>2, <2>3, <2>4 DEF Writes
<1>5. field.op \in Writes
  BY <1>4 DEF Writes
<1>6. f = 1 /\ Guards(x.req) # {} /\ field \in Field
  BY <1>1, <1>5, Requests
<1>7. field.contract \in Contracts
  BY <1>2, <1>5, <1>6 DEF FieldAccepted, Field, Writes
<1>8. k \in Owing
  BY <1>3, <1>6 DEF Owing, Owes
<1>9. QED
  BY <1>2, <1>4, <1>6, <1>7, <1>8 DEF At

\* No statement of a write has been executed as long as the whole of them is left.
LEMMA WholeStatements ==
    /\ <<"insert", "get">> # <<>> /\ <<"insert", "get">> # <<"get">>
    /\ <<"delete">> # <<>> /\ <<"delete">> # <<"get">>
<1>1. /\ Len(<<"insert", "get">>) = 2 /\ Len(<<"delete">>) = 1 /\ <<"delete">>[1] = "delete"
      /\ Len(<<>>) = 0 /\ Len(<<"get">>) = 1 /\ <<"get">>[1] = "get"
  OBVIOUS
<1>2. <<"insert", "get">> # <<>> /\ <<"insert", "get">> # <<"get">>
  BY <1>1
<1>3. <<"delete">> # <<>>
  BY <1>1
<1>4. <<"delete">> # <<"get">>
  OBVIOUS
<1>5. QED
  BY <1>2, <1>3, <1>4

\* A write of call k takes effect, and leaves it as it is in cs.
LEMMA Written ==
    ASSUME CallsOK, NEW k \in Slots, calls[k].st = "run", NEW f \in Fields(k),
           calls[k].left[f] # <<>>, Head(calls[k].left[f]) \in {"insert", "delete"},
           NEW cs, Given(cs, k, f), FieldOK(cs[k], f),
           cs[k].left[f] = <<>> \/ cs[k].left[f] = <<"get">>,
           NEW d, d = (IF Head(calls[k].left[f]) = "insert" THEN Inserted(At(k, f).contract, db)
                       ELSE Deleted(At(k, f).contract, db)),
           Becomes(d, cs)
    PROVE  /\ CallsOK' /\ Owing' \subseteq Owing /\ k \in Owing /\ k \notin Owing'
           /\ Claiming' \subseteq Claiming \union {k}
           /\ cs[k].out[f].code # 204 => Claiming' \subseteq Claiming
<1> DEFINE x == calls[k]
<1>1. /\ CallOK(k, x) /\ DbOK(db) /\ f \in DOMAIN x.req.fields /\ x.req \in Catalogue[k]
  BY Running
<1>2. PICK y : y = cs[k]
  OBVIOUS
<1>3. /\ cs = [calls EXCEPT ![k] = y] /\ cs = [j \in Slots |-> cs[j]] /\ Alters(x, y, f)
  BY <1>2 DEF Given
<1>4. CallOK(k, y)
  BY <1>1, <1>2, <1>3, AltersOK
<1>5. \A j \in Slots : j # k => cs[j] = calls[j]
  BY <1>3 DEF CallsOK
<1>6. \A j \in Slots : CallOK(j, cs[j])
  BY <1>2, <1>4, <1>5 DEF CallsOK
<1>7. /\ f = 1 /\ k \in Owing /\ At(k, f).contract \in Contracts
      /\ Head(x.left[f]) = "insert" =>
           At(k, f).op = "register" /\ x.left[f] = <<"insert", "get">>
      /\ Head(x.left[f]) = "delete" =>
           At(k, f).op = "delete" /\ x.left[f] = <<"delete">>
  BY Writing
<1>8. DbOK(d)
  BY <1>1, <1>7, InsertedOK, DeletedOK
<1>9. /\ CallsOK' /\ Owing' = {j \in Slots : Owes(cs[j])}
      /\ Claiming' = {j \in Slots : Claims(cs[j])}
  BY <1>3, <1>6, <1>8, StepGrows
<1>10. y.req = x.req
  BY <1>3 DEF Alters, Besides
<1>11. ~Owes(y)
  <2>1. y.left[1] = <<>> \/ y.left[1] = <<"get">>
    BY <1>2, <1>7
  <2>2. x.req.fields[1].op \in {"register", "delete"}
    BY <1>7 DEF At
  <2>3. Statements(x.req.fields[1]) = <<"insert", "get">> \/
        Statements(x.req.fields[1]) = <<"delete">>
    BY <2>2 DEF Statements
  <2>4. Statements(x.req.fields[1]) # <<>> /\ Statements(x.req.fields[1]) # <<"get">>
    BY <2>3, WholeStatements
  <2>5. QED
    BY <1>10, <2>1, <2>4 DEF Owes
<1>12. y.out[f].code # 204 => ~Claims(y)
  BY <1>7 DEF Claims
<1>13. QED
  BY <1>2, <1>5, <1>7, <1>9, <1>11, <1>12 DEF Owing, Claiming

LEMMA InsertOK ==
    ASSUME CallsOK, NEW k \in Slots, calls[k].st = "run", NEW f \in Fields(k), Insert(k, f)
    PROVE  /\ CallsOK' /\ Owing' \subseteq Owing /\ k \in Owing /\ k \notin Owing'
           /\ Claiming' \subseteq Claiming
<1> DEFINE x == calls[k]
           c == At(k, f).contract
<1>1. /\ x.left[f] # <<>> /\ Head(x.left[f]) = "insert"
  BY DEF Insert, Turn
<1>2. /\ x.out[f] = Pending /\ FieldAccepted(At(k, f)) /\ At(k, f).op = "register"
      /\ x.left[f] = <<"insert", "get">>
  BY <1>1, Writing
<1>3. PICK cs : SetLeft(cs, k, f, Tail(x.left[f]), {})
  BY DEF SetLeft
<1>4. Becomes(Inserted(c, db), cs)
  BY <1>3 DEF Insert, SetLeft
<1>5. /\ Given(cs, k, f) /\ cs[k].left[f] = Tail(x.left[f]) /\ cs[k].out[f] = x.out[f]
  BY <1>3, GivenLeft
<1>6. cs[k].left[f] = <<"get">>
  BY <1>2, <1>5
<1>7. PICK y : y = cs[k]
  OBVIOUS
<1>8. y.req = x.req
  BY <1>5, <1>7 DEF Given, Alters, Besides
<1>9. y.out[f] = Pending /\ Pending.code = 0
  BY <1>2, <1>5, <1>7 DEF Pending, Fail, Outcome
<1>10. FieldOK(y, f)
  <2>1. y.left[f] = <<"get">> /\ <<"get">> # <<>>
    BY <1>6, <1>7
  <2>2. FieldAccepted(y.req.fields[f]) /\ y.req.fields[f].op = "register"
    BY <1>2, <1>8 DEF At
  <2>3. Midway(y.req.fields[f], y.left[f], y.got[f], y.truths[f])
    BY <2>1, <2>2 DEF Midway
  <2>4. QED
    BY <1>9, <2>1, <2>2, <2>3 DEF FieldOK
<1>11. QED
  BY <1>1, <1>4, <1>5, <1>6, <1>7, <1>9, <1>10, Written

LEMMA DeleteOK ==
    ASSUME CallsOK, NEW k \in Slots, calls[k].st = "run", NEW f \in Fields(k), Delete(k, f)
    PROVE  /\ CallsOK' /\ Owing' \subseteq Owing /\ k \in Owing /\ k \notin Owing'
           /\ Claiming' \subseteq Claiming \union {k}
           /\ At(k, f).contract \notin Tracked(db) => Claiming' \subseteq Claiming
<1> DEFINE x == calls[k]
           c == At(k, f).contract
<1>1. x.left[f] # <<>> /\ Head(x.left[f]) = "delete"
  BY DEF Delete, Turn
<1>2. At(k, f).op = "delete"
  BY <1>1, Writing
<1>3. PICK out : out = Affected(c)
  OBVIOUS
<1>4. PICK cs : SetOut(cs, k, f, out)
  BY DEF SetOut
<1>5. Becomes(Deleted(c, db), cs)
  BY <1>3, <1>4 DEF Delete, SetOut
<1>6. /\ Given(cs, k, f) /\ cs[k].left[f] = <<>> /\ cs[k].out[f] = out
      /\ cs[k].truths[f] = x.truths[f]
  BY <1>4, GivenOut
<1>7. PICK y : y = cs[k]
  OBVIOUS
<1>8. y.req = x.req
  BY <1>6, <1>7 DEF Given, Alters, Besides
<1>9. Truths(At(k, f), db) \subseteq x.truths[f] /\ ~At(k, f).nested
  <2>1. /\ Truths(x.req.fields[f], db) \subseteq x.truths[f] /\ x.req \in Catalogue[k]
        /\ f \in DOMAIN x.req.fields
    BY Running
  <2>2. x.req.fields[f].nested => x.req.fields[f].op = "get"
    BY <2>1, Requests
  <2>3. QED
    BY <1>2, <2>1, <2>2 DEF At
<1>10. out \in x.truths[f]
  BY <1>2, <1>3, <1>9 DEF Truths, Affected
<1>11. Fail(204).code = 204 /\ NotFound.code = 404
  BY DEF Fail, NotFound, Outcome
<1>12. out.code \in {204, 404} /\ (c \notin Tracked(db) => out.code = 404)
  BY <1>3, <1>11 DEF Affected
<1>13. Honest(At(k, f), out, x.truths[f])
  BY <1>2, <1>9, <1>10 DEF Honest
<1>14. FieldOK(y, f)
  BY <1>6, <1>7, <1>8, <1>12, <1>13 DEF FieldOK, Statuses, At
<1>15. QED
  BY <1>1, <1>5, <1>6, <1>7, <1>12, <1>14, Written

LEMMA UnansweredOK ==
    ASSUME CallsOK, NEW k \in Slots, NEW f \in Fields(k), WriteUnanswered(k, f)
    PROVE  /\ CallsOK' /\ Owing' \subseteq Owing /\ k \in Owing /\ k \notin Owing'
           /\ Claiming' \subseteq Claiming
<1> DEFINE x == calls[k]
           c == At(k, f).contract
<1>1. /\ x.st = "run" /\ x.left[f] # <<>> /\ Head(x.left[f]) \in {"insert", "delete"}
  BY DEF WriteUnanswered
<1>2. PICK d : d = (IF Head(x.left[f]) = "insert" THEN Inserted(c, db) ELSE Deleted(c, db))
  OBVIOUS
<1>3. PICK fault : fault = TRUE
  OBVIOUS
<1>4. PICK cs : SetFault(cs, k, f, Failed(At(k, f)), fault)
  BY <1>3 DEF SetFault
<1>5. Becomes(d, cs)
  BY <1>2, <1>4, <1>3 DEF WriteUnanswered, SetFault
<1>6. /\ Given(cs, k, f) /\ cs[k].left[f] = <<>> /\ cs[k].out[f] = Failed(At(k, f))
      /\ cs[k].faulted = TRUE
  <2>1. /\ Given(cs, k, f) /\ cs[k].left[f] = <<>> /\ cs[k].faulted = fault
        /\ cs[k].out[f] = Failed(At(k, f)) /\ cs[k].truths[f] = calls[k].truths[f]
    BY <1>1, <1>4, GivenFault
  <2>2. QED
    BY <1>3, <2>1
<1>7. PICK y : y = cs[k]
  OBVIOUS
<1>8. y.out[f] = Fail(500) /\ y.left[f] = <<>> /\ y.faulted
  BY <1>6, <1>7 DEF Failed
<1>9. FieldOK(y, f) /\ y.out[f].code # 204
  BY <1>8, FailedOK DEF Fail, Outcome
<1>10. QED
  BY <1>1, <1>2, <1>5, <1>6, <1>7, <1>9, Written

LEMMA RunningKnown ==
    ASSUME CallsOK, NEW k \in Slots, calls[k].st = "run", NEW f \in Fields(k)
    PROVE  /\ CallOK(k, calls[k]) /\ Knows(calls[k], db)
           /\ f \in DOMAIN calls[k].req.fields /\ calls[k].req \in Catalogue[k]
<1>1. /\ CallOK(k, calls[k]) /\ Knows(calls[k], db)
  BY DEF CallsOK
<1>2. LiveOK(k, calls[k])
  BY <1>1 DEF CallOK, Live
<1>3. f \in DOMAIN calls[k].req.fields /\ calls[k].req \in Catalogue[k]
  BY <1>2 DEF LiveOK, Fields
<1>4. QED
  BY <1>1, <1>3

\* A field fails, and nothing else happens.
LEMMA Given500 ==
    ASSUME CallsOK, NEW k \in Slots, calls[k].st = "run", NEW f \in Fields(k),
           NEW cs, calls' = cs, db' = db, Given(cs, k, f), cs[k].left[f] = <<>>,
           cs[k].out[f] = Fail(500), cs[k].expired \/ cs[k].faulted,
           cs[k].truths[f] = calls[k].truths[f]
    PROVE  CallsOK' /\ Owing' \subseteq Owing /\ Claiming' \subseteq Claiming
<1> DEFINE x == calls[k]
<1>1. /\ CallOK(k, x) /\ Knows(x, db) /\ f \in DOMAIN x.req.fields /\ x.req \in Catalogue[k]
  BY RunningKnown
<1>2. PICK y : y = cs[k]
  OBVIOUS
<1>3. calls' = [calls EXCEPT ![k] = y] /\ Alters(x, y, f) /\ y.req = x.req
  <2>1. calls' = [calls EXCEPT ![k] = y] /\ Alters(x, y, f)
    BY <1>2, Zenon DEF Given
  <2>2. QED
    BY <2>1, Zenon DEF Alters, Besides
<1>4. FieldOK(y, f)
  BY <1>2, FailedOK
<1>5. CallOK(k, y) /\ Knows(y, db)
  BY <1>1, <1>2, <1>3, <1>4, AltersOK
<1>6. y.out[f].code # 204
  BY <1>2 DEF Fail, Outcome
<1>7. ~Owes(y) /\ ~Claims(y)
  BY <1>1, <1>2, <1>3, <1>6, Resolved
<1>8. /\ CallsOK'
      /\ Owing' \subseteq Owing \union {k} /\ (Owes(y) <=> k \in Owing')
      /\ Claiming' \subseteq Claiming \union {k} /\ (Claims(y) <=> k \in Claiming')
  BY <1>3, <1>5, StepSame
<1>9. QED
  BY <1>7, <1>8

LEMMA InterruptedOK ==
    ASSUME CallsOK, NEW k \in Slots, NEW f \in Fields(k), FieldInterrupted(k, f)
    PROVE  CallsOK' /\ Owing' \subseteq Owing /\ Claiming' \subseteq Claiming
<1>1. calls[k].st = "run" /\ calls[k].expired
  BY DEF FieldInterrupted, Interrupted
<1>2. PICK cs : cs = calls'
  OBVIOUS
<1>3. SetOut(cs, k, f, Fail(500)) /\ db' = db
  BY <1>2 DEF FieldInterrupted, Failed, SetOut
<1>4. /\ Given(cs, k, f) /\ cs[k].left[f] = <<>> /\ cs[k].out[f] = Fail(500)
      /\ cs[k].truths[f] = calls[k].truths[f]
  BY <1>1, <1>3, GivenOut
<1>5. cs[k].expired
  BY <1>1, <1>4 DEF Given, Alters, Besides
<1>6. QED
  BY <1>1, <1>2, <1>3, <1>4, <1>5, Given500

LEMMA FaultOK ==
    ASSUME CallsOK, NEW k \in Slots, NEW f \in Fields(k), FieldFault(k, f)
    PROVE  CallsOK' /\ Owing' \subseteq Owing /\ Claiming' \subseteq Claiming
<1>1. calls[k].st = "run"
  BY DEF FieldFault
<1>2. PICK cs : cs = calls'
  OBVIOUS
<1>3. PICK fault : fault = TRUE
  OBVIOUS
<1>4. SetFault(cs, k, f, Fail(500), fault) /\ db' = db
  BY <1>2, <1>3 DEF FieldFault, Failed, SetFault
<1>5. /\ Given(cs, k, f) /\ cs[k].left[f] = <<>> /\ cs[k].out[f] = Fail(500)
      /\ cs[k].truths[f] = calls[k].truths[f] /\ cs[k].faulted = TRUE
  <2>1. /\ Given(cs, k, f) /\ cs[k].left[f] = <<>> /\ cs[k].faulted = fault
        /\ cs[k].out[f] = Fail(500) /\ cs[k].truths[f] = calls[k].truths[f]
    BY <1>1, <1>4, GivenFault
  <2>2. QED
    BY <1>3, <2>1
<1>6. QED
  BY <1>1, <1>2, <1>4, <1>5, Given500

-----------------------------------------------------------------------------
\* The surroundings, and the counts.

LEMMA CommitOK ==
    ASSUME IInv, NEW c \in Contracts, Commit(c)
    PROVE  CallsOK' /\ Owing' = Owing /\ Claiming' = Claiming
<1> DEFINE row == [id |-> ledger + 1, contract |-> c, ledger |-> ledger + 1]
           last == [db.last EXCEPT ![c] = ledger + 1]
<1>1. PICK d : d = [last |-> last, rows |-> db.rows \union {row}]
  OBVIOUS
<1>2. Becomes(d, calls) /\ c \in Tracked(db) /\ ledger < MaxLedger
  BY <1>1 DEF Commit
<1>3. DbOK(db) /\ ledger \in 0 .. MaxLedger
  BY DEF IInv, CallsOK, CountsOK
<1>4. DbOK(d)
  <2>1. d.last = last /\ d.rows = db.rows \union {row} /\ d = [last |-> d.last, rows |-> d.rows]
    BY <1>1
  <2>2. Tracked(d) = Tracked(db)
    BY <2>1 DEF Tracked
  <2>3. ledger + 1 \in 1 .. MaxLedger
    BY <1>2, <1>3, ApiAssumption
  <2>4. d.last = [a \in Tracked(d) |-> d.last[a]]
    BY <1>3, <2>1, <2>2 DEF DbOK, Tracked
  <2>5. \A a \in Tracked(d) : d.last[a] \in 0 .. MaxLedger
    <3>1. \A a \in Tracked(d) : d.last[a] = IF a = c THEN ledger + 1 ELSE db.last[a]
      BY <1>3, <2>1, <2>2 DEF DbOK, Tracked
    <3>2. ledger + 1 \in 0 .. MaxLedger
      BY <2>3
    <3>3. QED
      BY <1>3, <2>2, <3>1, <3>2 DEF DbOK
  <2>6. d.rows \subseteq [id : 1 .. MaxLedger, contract : Contracts, ledger : 1 .. MaxLedger]
    <3>1. row \in [id : 1 .. MaxLedger, contract : Contracts, ledger : 1 .. MaxLedger]
      BY <2>3
    <3>2. QED
      BY <1>3, <2>1, <3>1 DEF DbOK
  <2>7. \A r \in d.rows : r.contract \in Tracked(d)
    BY <1>2, <1>3, <2>1, <2>2 DEF DbOK
  <2>8. QED
    BY <1>3, <2>1, <2>2, <2>4, <2>5, <2>6, <2>7 DEF DbOK
<1>5. calls = [j \in Slots |-> calls[j]] /\ \A j \in Slots : CallOK(j, calls[j])
  BY DEF IInv, CallsOK
<1>6. PICK cs : cs = calls
  OBVIOUS
<1>7. /\ CallsOK' /\ Owing' = {j \in Slots : Owes(cs[j])}
      /\ Claiming' = {j \in Slots : Claims(cs[j])}
  BY <1>2, <1>4, <1>5, <1>6, StepGrows
<1>8. QED
  BY <1>6, <1>7 DEF Owing, Claiming

\* How the counts change with the sets they count.
LEMMA Tally ==
    ASSUME NEW k \in Slots, NEW O, NEW C, O \subseteq Owing \union {k},
           C \subseteq Claiming \union {k}
    PROVE  /\ Cardinality(Owing) \in Nat /\ Cardinality(O) \in Nat
           /\ Cardinality(Claiming) \in Nat /\ Cardinality(C) \in Nat
           /\ Cardinality(O) <= Cardinality(Owing) + 1
           /\ O \subseteq Owing => Cardinality(O) <= Cardinality(Owing)
           /\ k \in Owing /\ k \notin O => Cardinality(O) + 1 <= Cardinality(Owing)
           /\ Cardinality(C) <= Cardinality(Claiming) + 1
           /\ C \subseteq Claiming => Cardinality(C) <= Cardinality(Claiming)
           /\ k \in Claiming /\ k \notin C => Cardinality(C) + 1 <= Cardinality(Claiming)
<1>1. IsFiniteSet(Slots) /\ Owing \subseteq Slots /\ Claiming \subseteq Slots
  BY ApiAssumption DEF Owing, Claiming
<1>2. IsFiniteSet(Owing) /\ IsFiniteSet(Claiming)
  BY <1>1, FS_Subset
<1>3. PICK o : o = Owing
  OBVIOUS
<1>4. PICK m : m = Claiming
  OBVIOUS
<1>5. /\ Cardinality(o) \in Nat /\ Cardinality(O) \in Nat
      /\ Cardinality(O) <= Cardinality(o) + 1
      /\ O \subseteq o => Cardinality(O) <= Cardinality(o)
      /\ k \in o /\ k \notin O => Cardinality(O) + 1 <= Cardinality(o)
  BY <1>2, <1>3, Counted
<1>6. /\ Cardinality(m) \in Nat /\ Cardinality(C) \in Nat
      /\ Cardinality(C) <= Cardinality(m) + 1
      /\ C \subseteq m => Cardinality(C) <= Cardinality(m)
      /\ k \in m /\ k \notin C => Cardinality(C) + 1 <= Cardinality(m)
  BY <1>2, <1>4, Counted
<1>7. QED
  BY <1>3, <1>4, <1>5, <1>6

\* The counts of d, w and u: the tokens, the writes and the deletions without
\* a 204 that a step adds.
LEMMA CountsStep ==
    ASSUME CountsOK, NEW k \in Slots,
           Owing' \subseteq Owing \union {k}, Claiming' \subseteq Claiming \union {k},
           ledger' = ledger, NEW t \in {0, 1}, tokens' = tokens - t, t = 1 => tokens > 0,
           NEW w \in {0, 1}, NEW u \in {0, 1, -1},
           log'.refills = log.refills, log'.writes = log.writes + w,
           log'.unclaimed = log.unclaimed + u,
           log' = [refills |-> log'.refills, writes |-> log'.writes,
                   unclaimed |-> log'.unclaimed, faults |-> log'.faults],
           log'.faults \in Nat,
           t = 0 => Owing' \subseteq Owing,
           w = 1 => t = 0 /\ k \in Owing /\ k \notin Owing',
           u = 0 => Claiming' \subseteq Claiming,
           u = -1 => k \in Claiming /\ k \notin Claiming'
    PROVE  CountsOK'
<1>1. PICK O : O = Owing'
  OBVIOUS
<1>2. PICK C : C = Claiming'
  OBVIOUS
<1>3. O \subseteq Owing \union {k} /\ C \subseteq Claiming \union {k}
  BY <1>1, <1>2
<1>4. /\ Cardinality(Owing) \in Nat /\ Cardinality(O) \in Nat
      /\ Cardinality(Claiming) \in Nat /\ Cardinality(C) \in Nat
      /\ Cardinality(O) <= Cardinality(Owing) + 1
      /\ O \subseteq Owing => Cardinality(O) <= Cardinality(Owing)
      /\ k \in Owing /\ k \notin O => Cardinality(O) + 1 <= Cardinality(Owing)
      /\ Cardinality(C) <= Cardinality(Claiming) + 1
      /\ C \subseteq Claiming => Cardinality(C) <= Cardinality(Claiming)
      /\ k \in Claiming /\ k \notin C => Cardinality(C) + 1 <= Cardinality(Claiming)
  BY <1>3, Tally
<1>5. /\ ledger \in 0 .. MaxLedger /\ tokens \in 0 .. Burst
      /\ log.refills \in Nat /\ log.writes \in Nat /\ log.unclaimed \in Int
      /\ log.writes + tokens + Cardinality(Owing) <= Burst + log.refills
      /\ Cardinality(Claiming) <= log.unclaimed
  BY DEF CountsOK
<1>6. Burst \in Nat
  BY ApiAssumption
<1>7. Cardinality(O) + w <= Cardinality(Owing) + t
  BY <1>1, <1>4
<1>8. Cardinality(C) <= Cardinality(Claiming) + u
  BY <1>2, <1>4
<1>9. tokens' \in 0 .. Burst
  BY <1>5, <1>6
<1>10. /\ log'.refills \in Nat /\ log'.writes \in Nat /\ log'.unclaimed \in Int
  BY <1>5
<1>11. log' \in [refills : Nat, writes : Nat, unclaimed : Int, faults : Nat]
  BY <1>10
<1>12. log'.writes + tokens' + Cardinality(O) <= Burst + log'.refills
  BY <1>4, <1>5, <1>6, <1>7
<1>13. Cardinality(C) <= log'.unclaimed
  BY <1>4, <1>5, <1>8
<1>14. QED
  BY <1>1, <1>2, <1>5, <1>9, <1>11, <1>12, <1>13 DEF CountsOK

-----------------------------------------------------------------------------
\* The invariant.

LEMMA InitInv == Init => IInv
<1> SUFFICES ASSUME Init PROVE IInv
  OBVIOUS
<1>1. DbOK(db)
  BY ApiAssumption DEF Init, DbOK, Tracked
<1>2. \A k \in Slots : calls[k] = Idle
  BY DEF Init
<1>3. \A k \in Slots : CallOK(k, calls[k]) /\ Knows(calls[k], db)
  <2>1. Idle.st = "idle"
    BY DEF Idle
  <2>2. Knows(Idle, db)
    BY <2>1 DEF Knows, Live
  <2>3. QED
    BY <1>2, <2>2, Fresh
<1>4. calls = [k \in Slots |-> calls[k]]
  BY DEF Init
<1>5. Owing = {} /\ Claiming = {}
  BY <1>2, Fresh DEF Owing, Claiming
<1>6. Cardinality(Owing) = 0 /\ Cardinality(Claiming) = 0
  BY <1>5, FS_EmptySet
<1>7. CountsOK
  BY <1>6, ApiAssumption DEF Init, CountsOK
<1>8. QED
  BY <1>1, <1>3, <1>4, <1>7 DEF IInv, CallsOK

\* A step that serves call k and neither writes nor answers a deletion.
LEMMA Quietly ==
    ASSUME IInv, NEW k \in Slots, CallsOK', Owing' \subseteq Owing, Claiming' \subseteq Claiming,
           ledger' = ledger, tokens' = tokens,
           log' = log \/ log' = [log EXCEPT !.faults = @ + 1]
    PROVE  IInv'
<1>1. CountsOK /\ log \in [refills : Nat, writes : Nat, unclaimed : Int, faults : Nat]
      /\ tokens \in Int
  BY DEF IInv, CountsOK
<1>2. /\ log'.refills = log.refills /\ log'.writes = log.writes + 0
      /\ log'.unclaimed = log.unclaimed + 0 /\ log'.faults \in Nat
      /\ log' = [refills |-> log'.refills, writes |-> log'.writes,
                 unclaimed |-> log'.unclaimed, faults |-> log'.faults]
  BY <1>1
<1>3. tokens' = tokens - 0
  BY <1>1
<1>4. CountsOK'
  BY <1>1, <1>2, <1>3, CountsStep
<1>5. QED
  BY <1>4 DEF IInv

LEMMA TokenTaken ==
    ASSUME IInv, NEW k \in Slots, CallsOK', Owing' \subseteq Owing \union {k},
           Claiming' \subseteq Claiming, ledger' = ledger, tokens > 0, tokens' = tokens - 1,
           log' = log
    PROVE  IInv'
<1>1. CountsOK /\ log \in [refills : Nat, writes : Nat, unclaimed : Int, faults : Nat]
  BY DEF IInv, CountsOK
<1>2. /\ log'.refills = log.refills /\ log'.writes = log.writes + 0
      /\ log'.unclaimed = log.unclaimed + 0 /\ log'.faults \in Nat
      /\ log' = [refills |-> log'.refills, writes |-> log'.writes,
                 unclaimed |-> log'.unclaimed, faults |-> log'.faults]
  BY <1>1
<1>3. CountsOK'
  BY <1>1, <1>2, CountsStep
<1>4. QED
  BY <1>3 DEF IInv

\* A write takes effect; u: a deletion that has a 204 to come.
LEMMA TokenUsed ==
    ASSUME IInv, NEW k \in Slots, CallsOK', Owing' \subseteq Owing, k \in Owing, k \notin Owing',
           Claiming' \subseteq Claiming \union {k}, ledger' = ledger, tokens' = tokens,
           NEW u \in {0, 1}, u = 0 => Claiming' \subseteq Claiming,
           log'.refills = log.refills, log'.writes = log.writes + 1,
           log'.unclaimed = log.unclaimed + u, log'.faults \in Nat,
           log' = [refills |-> log'.refills, writes |-> log'.writes,
                   unclaimed |-> log'.unclaimed, faults |-> log'.faults]
    PROVE  IInv'
<1>1. CountsOK /\ tokens \in Int
  BY DEF IInv, CountsOK
<1>2. tokens' = tokens - 0
  BY <1>1
<1>3. CountsOK'
  BY <1>1, <1>2, CountsStep
<1>4. QED
  BY <1>3 DEF IInv

\* What a request does keeps the invariant.
LEMMA FieldStep ==
    ASSUME IInv, NEW k \in Slots, calls[k].st = "run", NEW f \in Fields(k),
           \/ \E s \in {"stats", "list", "get", "event", "query"} : ReadStatement(k, f, s)
           \/ Insert(k, f) \/ Delete(k, f)
           \/ FieldFault(k, f) \/ WriteUnanswered(k, f) \/ FieldInterrupted(k, f)
    PROVE  IInv'
<1>1. CallsOK /\ log \in [refills : Nat, writes : Nat, unclaimed : Int, faults : Nat]
  BY DEF IInv, CountsOK
<1>2. ASSUME NEW s \in {"stats", "list", "get", "event", "query"}, ReadStatement(k, f, s)
      PROVE  IInv'
  <2>1. CallsOK' /\ Owing' \subseteq Owing /\ Claiming' \subseteq Claiming
    BY <1>1, <1>2, ReadOK
  <2>2. ledger' = ledger /\ tokens' = tokens /\ log' = log
    BY <1>2 DEF ReadStatement
  <2>3. QED
    BY <2>1, <2>2, Quietly
<1>3. CASE Insert(k, f)
  <2>1. /\ CallsOK' /\ Owing' \subseteq Owing /\ k \in Owing /\ k \notin Owing'
        /\ Claiming' \subseteq Claiming
    BY <1>1, <1>3, InsertOK
  <2>2. /\ ledger' = ledger /\ tokens' = tokens /\ log' = [log EXCEPT !.writes = @ + 1]
    BY <1>3 DEF Insert
  <2>3. /\ log'.refills = log.refills /\ log'.writes = log.writes + 1
        /\ log'.unclaimed = log.unclaimed + 0 /\ log'.faults \in Nat
        /\ log' = [refills |-> log'.refills, writes |-> log'.writes,
                   unclaimed |-> log'.unclaimed, faults |-> log'.faults]
    BY <1>1, <2>2
  <2>4. QED
    BY <2>1, <2>2, <2>3, TokenUsed
<1>4. CASE Delete(k, f)
  <2>1. /\ CallsOK' /\ Owing' \subseteq Owing /\ k \in Owing /\ k \notin Owing'
        /\ Claiming' \subseteq Claiming \union {k}
        /\ At(k, f).contract \notin Tracked(db) => Claiming' \subseteq Claiming
    BY <1>1, <1>4, DeleteOK
  <2>2. PICK u : u = IF At(k, f).contract \in Tracked(db) THEN 1 ELSE 0
    OBVIOUS
  <2>3. /\ ledger' = ledger /\ tokens' = tokens
        /\ log' = [log EXCEPT !.writes = @ + 1, !.unclaimed = @ + u]
    BY <1>4, <2>2 DEF Delete
  <2>4. u \in {0, 1} /\ (u = 0 => Claiming' \subseteq Claiming)
    BY <2>1, <2>2
  <2>5. /\ log'.refills = log.refills /\ log'.writes = log.writes + 1
        /\ log'.unclaimed = log.unclaimed + u /\ log'.faults \in Nat
        /\ log' = [refills |-> log'.refills, writes |-> log'.writes,
                   unclaimed |-> log'.unclaimed, faults |-> log'.faults]
    <3>1. log = [refills |-> log.refills, writes |-> log.writes,
                 unclaimed |-> log.unclaimed, faults |-> log.faults]
          /\ log.faults \in Nat
      BY <1>1
    <3>2. log' = [refills |-> log.refills, writes |-> log.writes + 1,
                  unclaimed |-> log.unclaimed + u, faults |-> log.faults]
      BY <2>3, <3>1
    <3>3. QED
      BY <3>1, <3>2
  <2>6. QED
    BY <2>1, <2>3, <2>4, <2>5, TokenUsed
<1>5. CASE FieldFault(k, f)
  <2>1. CallsOK' /\ Owing' \subseteq Owing /\ Claiming' \subseteq Claiming
    BY <1>1, <1>5, FaultOK
  <2>2. ledger' = ledger /\ tokens' = tokens /\ log' = [log EXCEPT !.faults = @ + 1]
    BY <1>5 DEF FieldFault
  <2>3. QED
    BY <2>1, <2>2, Quietly
<1>6. CASE WriteUnanswered(k, f)
  <2>1. /\ CallsOK' /\ Owing' \subseteq Owing /\ k \in Owing /\ k \notin Owing'
        /\ Claiming' \subseteq Claiming
    BY <1>1, <1>6, UnansweredOK
  <2>2. PICK u : u = IF Head(calls[k].left[f]) = "delete" /\ At(k, f).contract \in Tracked(db)
                     THEN 1 ELSE 0
    OBVIOUS
  <2>3. /\ ledger' = ledger /\ tokens' = tokens
        /\ log' = [log EXCEPT !.faults = @ + 1, !.writes = @ + 1, !.unclaimed = @ + u]
    BY <1>6, <2>2 DEF WriteUnanswered
  <2>4. u \in {0, 1}
    BY <2>2
  <2>5. /\ log'.refills = log.refills /\ log'.writes = log.writes + 1
        /\ log'.unclaimed = log.unclaimed + u /\ log'.faults \in Nat
        /\ log' = [refills |-> log'.refills, writes |-> log'.writes,
                   unclaimed |-> log'.unclaimed, faults |-> log'.faults]
    <3>1. log = [refills |-> log.refills, writes |-> log.writes,
                 unclaimed |-> log.unclaimed, faults |-> log.faults]
          /\ log.faults \in Nat
      BY <1>1
    <3>2. log' = [refills |-> log.refills, writes |-> log.writes + 1,
                  unclaimed |-> log.unclaimed + u, faults |-> log.faults + 1]
      BY <2>3, <3>1
    <3>3. QED
      BY <3>1, <3>2
  <2>6. QED
    BY <2>1, <2>3, <2>4, <2>5, TokenUsed
<1>7. CASE FieldInterrupted(k, f)
  <2>1. CallsOK' /\ Owing' \subseteq Owing /\ Claiming' \subseteq Claiming
    BY <1>1, <1>7, InterruptedOK
  <2>2. ledger' = ledger /\ tokens' = tokens /\ log' = log
    BY <1>7 DEF FieldInterrupted
  <2>3. QED
    BY <2>1, <2>2, Quietly
<1>8. QED
  BY <1>2, <1>3, <1>4, <1>5, <1>6, <1>7

LEMMA RefusedStep ==
    ASSUME IInv, NEW k \in Slots, RateLimited(k) \/ Unauthorized(k) \/ BodyRefused(k)
    PROVE  IInv'
<1>1. CallsOK
  BY DEF IInv
<1>2. {400, 401, 429} \subseteq Statuses
  BY DEF Statuses
<1>3. CASE RateLimited(k)
  <2>1. Refuse(k, 429) /\ db' = db /\ ledger' = ledger /\ tokens' = tokens /\ log' = log
    BY <1>3 DEF RateLimited
  <2>2. CallsOK' /\ Owing' \subseteq Owing /\ Claiming' \subseteq Claiming
    BY <1>1, <1>2, <2>1, RefuseOK
  <2>3. QED
    BY <2>1, <2>2, Quietly
<1>4. CASE BodyRefused(k)
  <2>1. Refuse(k, 400) /\ db' = db /\ ledger' = ledger /\ tokens' = tokens /\ log' = log
    BY <1>4 DEF BodyRefused
  <2>2. CallsOK' /\ Owing' \subseteq Owing /\ Claiming' \subseteq Claiming
    BY <1>1, <1>2, <2>1, RefuseOK
  <2>3. QED
    BY <2>1, <2>2, Quietly
<1>5. CASE Unauthorized(k)
  <2>1. /\ Refuse(k, 401) /\ db' = db /\ ledger' = ledger /\ tokens > 0
        /\ tokens' = tokens - 1 /\ log' = log
    BY <1>5 DEF Unauthorized
  <2>2. CallsOK' /\ Owing' \subseteq Owing /\ Claiming' \subseteq Claiming
    BY <1>1, <1>2, <2>1, RefuseOK
  <2>3. QED
    BY <2>1, <2>2, TokenTaken
<1>6. QED
  BY <1>3, <1>4, <1>5

LEMMA CallStep ==
    ASSUME IInv, NEW k \in Slots,
           \/ \E q \in Catalogue[k] : Arrive(k, q)
           \/ Admit(k) \/ ReadBody(k) \/ Expire(k)
           \/ Respond(k) \/ WriteBody(k) \/ Panic(k) \/ Release(k)
    PROVE  IInv'
<1>1. CallsOK /\ log \in [refills : Nat, writes : Nat, unclaimed : Int, faults : Nat]
      /\ tokens \in 0 .. Burst
  BY DEF IInv, CountsOK
<1>2. ASSUME NEW q \in Catalogue[k], Arrive(k, q) PROVE IInv'
  <2>1. CallsOK' /\ Owing' \subseteq Owing /\ Claiming' \subseteq Claiming
    BY <1>1, <1>2, ArriveOK
  <2>2. ledger' = ledger /\ tokens' = tokens /\ log' = log
    BY <1>2 DEF Arrive
  <2>3. QED
    BY <2>1, <2>2, Quietly
<1>3. CASE Admit(k)
  <2>1. CallsOK' /\ Owing' \subseteq Owing \union {k} /\ Claiming' \subseteq Claiming
    BY <1>1, <1>3, AdmitOK
  <2>2. ledger' = ledger /\ tokens > 0 /\ tokens' = tokens - 1 /\ log' = log
    BY <1>3 DEF Admit
  <2>3. QED
    BY <2>1, <2>2, TokenTaken
<1>4. CASE ReadBody(k)
  <2>1. CallsOK' /\ Owing' \subseteq Owing /\ Claiming' \subseteq Claiming
    BY <1>1, <1>4, ReadBodyOK
  <2>2. ledger' = ledger /\ tokens' = tokens /\ log' = log
    BY <1>4 DEF ReadBody
  <2>3. QED
    BY <2>1, <2>2, Quietly
<1>5. CASE Expire(k)
  <2>1. CallsOK' /\ Owing' \subseteq Owing /\ Claiming' \subseteq Claiming
    BY <1>1, <1>5, ExpireOK
  <2>2. ledger' = ledger /\ tokens' = tokens /\ log' = log
    BY <1>5 DEF Expire
  <2>3. QED
    BY <2>1, <2>2, Quietly
<1>6. CASE Respond(k)
  <2>1. /\ CallsOK' /\ Owing' \subseteq Owing /\ Claiming' \subseteq Claiming
        /\ \/ log' = [log EXCEPT !.unclaimed = @ - 0]
           \/ /\ log' = [log EXCEPT !.unclaimed = @ - 1]
              /\ k \in Claiming /\ k \notin Claiming'
    BY <1>1, <1>6, RespondOK
  <2>2. ledger' = ledger /\ tokens' = tokens - 0
    BY <1>1, <1>6 DEF Respond
  <2>3. CASE log' = [log EXCEPT !.unclaimed = @ - 0]
    <3>1. /\ log'.refills = log.refills /\ log'.writes = log.writes + 0
          /\ log'.unclaimed = log.unclaimed + 0 /\ log'.faults \in Nat
          /\ log' = [refills |-> log'.refills, writes |-> log'.writes,
                     unclaimed |-> log'.unclaimed, faults |-> log'.faults]
      BY <1>1, <2>3
    <3>2. CountsOK'
      BY <2>1, <2>2, <3>1, CountsStep DEF IInv
    <3>3. QED
      BY <2>1, <3>2 DEF IInv
  <2>4. CASE /\ log' = [log EXCEPT !.unclaimed = @ - 1]
             /\ k \in Claiming /\ k \notin Claiming'
    <3>1. /\ log'.refills = log.refills /\ log'.writes = log.writes + 0
          /\ log'.unclaimed = log.unclaimed + (-1) /\ log'.faults \in Nat
          /\ log' = [refills |-> log'.refills, writes |-> log'.writes,
                     unclaimed |-> log'.unclaimed, faults |-> log'.faults]
      BY <1>1, <2>4
    <3>2. CountsOK'
      BY <2>1, <2>2, <2>4, <3>1, CountsStep DEF IInv
    <3>3. QED
      BY <2>1, <3>2 DEF IInv
  <2>5. QED
    BY <2>1, <2>3, <2>4
<1>7. CASE WriteBody(k)
  <2>1. CallsOK' /\ Owing' \subseteq Owing /\ Claiming' \subseteq Claiming
    BY <1>1, <1>7, WriteBodyOK
  <2>2. ledger' = ledger /\ tokens' = tokens /\ log' = log
    BY <1>7 DEF WriteBody
  <2>3. QED
    BY <2>1, <2>2, Quietly
<1>8. CASE Panic(k)
  <2>1. CallsOK' /\ Owing' \subseteq Owing /\ Claiming' \subseteq Claiming
    BY <1>1, <1>8, PanicOK
  <2>2. ledger' = ledger /\ tokens' = tokens /\ log' = [log EXCEPT !.faults = @ + 1]
    BY <1>8 DEF Panic
  <2>3. QED
    BY <2>1, <2>2, Quietly
<1>9. CASE Release(k)
  <2>1. CallsOK' /\ Owing' \subseteq Owing /\ Claiming' \subseteq Claiming
    BY <1>1, <1>9, ReleaseOK
  <2>2. ledger' = ledger /\ tokens' = tokens /\ log' = log
    BY <1>9 DEF Release
  <2>3. QED
    BY <2>1, <2>2, Quietly
<1>10. QED
  BY <1>2, <1>3, <1>4, <1>5, <1>6, <1>7, <1>8, <1>9

\* The calls and the database stay as they are.
LEMMA SameCalls ==
    ASSUME CallsOK, calls' = calls, db' = db
    PROVE  CallsOK' /\ Owing' = Owing /\ Claiming' = Claiming
<1>1. DbOK(db)'
  <2>1. DbOK(db')
    BY DEF CallsOK
  <2>2. QED
    BY <2>1 DEF DbOK, Tracked
<1>2. calls' = [k \in Slots |-> calls'[k]]
  BY DEF CallsOK
<1>3. \A k \in Slots : (CallOK(k, calls[k]) /\ Knows(calls[k], db))'
  <2>1. \A k \in Slots : CallOK(k, calls'[k]) /\ Knows(calls'[k], db')
    BY DEF CallsOK
  <2>2. QED
    BY <2>1 DEF CallOK, Knows, Shape, AnswerOK, LiveOK, FieldOK, Midway, Truths
<1>4. CallsOK'
  BY <1>1, <1>2, <1>3 DEF CallsOK
<1>5. Owing' = Owing /\ Claiming' = Claiming
  BY DEF Owing, Claiming, Owes, Claims
<1>6. QED
  BY <1>4, <1>5

LEMMA RefillStep ==
    ASSUME IInv, Refill
    PROVE  IInv'
<1>1. CallsOK /\ CountsOK
  BY DEF IInv
<1>2. /\ db' = db /\ ledger' = ledger /\ calls' = calls /\ tokens < Burst
      /\ tokens' = tokens + 1 /\ log' = [log EXCEPT !.refills = @ + 1]
  BY DEF Refill
<1>3. CallsOK' /\ Owing' = Owing /\ Claiming' = Claiming
  BY <1>1, <1>2, SameCalls
<1>4. PICK o, m : o = Cardinality(Owing) /\ m = Cardinality(Claiming)
  OBVIOUS
<1>5. o \in Nat /\ m \in Nat
  <2>1. IsFiniteSet(Slots) /\ Owing \subseteq Slots /\ Claiming \subseteq Slots
    BY ApiAssumption DEF Owing, Claiming
  <2>2. QED
    BY <1>4, <2>1, FS_Subset, FS_CardinalityType
<1>6. Cardinality(Owing') = o /\ Cardinality(Claiming') = m
  BY <1>3, <1>4
<1>7. /\ ledger \in 0 .. MaxLedger /\ tokens \in 0 .. Burst
      /\ log \in [refills : Nat, writes : Nat, unclaimed : Int, faults : Nat]
      /\ log.writes + tokens + o <= Burst + log.refills
      /\ m <= log.unclaimed
  BY <1>1, <1>4 DEF CountsOK
<1>8. Burst \in Nat
  BY ApiAssumption
<1>9. /\ log' \in [refills : Nat, writes : Nat, unclaimed : Int, faults : Nat]
      /\ log'.writes = log.writes /\ log'.refills = log.refills + 1
      /\ log'.unclaimed = log.unclaimed
  BY <1>2, <1>7
<1>10. CountsOK'
  BY <1>2, <1>5, <1>6, <1>7, <1>8, <1>9 DEF CountsOK
<1>11. QED
  BY <1>3, <1>10 DEF IInv

LEMMA CommitStep ==
    ASSUME IInv, NEW c \in Contracts, Commit(c)
    PROVE  IInv'
<1>1. CallsOK' /\ Owing' = Owing /\ Claiming' = Claiming
  BY CommitOK
<1>2. ledger' = ledger + 1 /\ ledger < MaxLedger /\ tokens' = tokens /\ log' = log
  BY DEF Commit
<1>3. PICK o, m : o = Cardinality(Owing) /\ m = Cardinality(Claiming)
  OBVIOUS
<1>4. Cardinality(Owing') = o /\ Cardinality(Claiming') = m
  BY <1>1, <1>3
<1>5. ledger' \in 0 .. MaxLedger
  BY <1>2, ApiAssumption DEF IInv, CountsOK
<1>6. CountsOK'
  BY <1>2, <1>3, <1>4, <1>5 DEF IInv, CountsOK
<1>7. QED
  BY <1>1, <1>6 DEF IInv

LEMMA StutterStep ==
    ASSUME IInv, UNCHANGED vars
    PROVE  IInv'
<1>1. db' = db /\ ledger' = ledger /\ tokens' = tokens /\ calls' = calls /\ log' = log
  BY DEF vars
<1>2. CallsOK' /\ Owing' = Owing /\ Claiming' = Claiming
  BY <1>1, SameCalls DEF IInv
<1>3. CountsOK'
  BY <1>1, <1>2 DEF IInv, CountsOK
<1>4. QED
  BY <1>2, <1>3 DEF IInv

LEMMA NextInv == IInv /\ [Next]_vars => IInv'
<1> SUFFICES ASSUME IInv, [Next]_vars PROVE IInv'
  OBVIOUS
<1>1. ASSUME NEW k \in Slots, Serve(k) PROVE IInv'
  <2>1. ASSUME calls[k].st = "run", NEW f \in Fields(k), FieldInterrupted(k, f) PROVE IInv'
    BY <2>1, FieldStep
  <2>2. QED
    BY <1>1, <2>1, RefusedStep, CallStep DEF Serve
<1>2. ASSUME NEW k \in Slots, calls[k].st = "run", NEW f \in Fields(k),
             \/ \E s \in {"stats", "list", "get", "event", "query"} : ReadStatement(k, f, s)
             \/ Insert(k, f) \/ Delete(k, f)
             \/ FieldFault(k, f) \/ WriteUnanswered(k, f)
      PROVE  IInv'
  BY <1>2, FieldStep
<1>3. ASSUME NEW k \in Slots,
             \/ \E q \in Catalogue[k] : Arrive(k, q)
             \/ ReadBody(k) \/ Panic(k) \/ Release(k)
      PROVE  IInv'
  BY <1>3, CallStep
<1>4. QED
  BY <1>1, <1>2, <1>3, RefillStep, CommitStep, StutterStep DEF Next

-----------------------------------------------------------------------------
\* Theorems.

\* The invariant is inductive: in every reachable state each request knows all
\* that the database has said since it came, and each token and each deletion
\* is accounted for.
THEOREM Inductive == Spec => []IInv
<1>1. QED
  BY InitInv, NextInv, PTL DEF Spec

\* The types of the database, the bucket and the requests.
THEOREM TypeCorrect == Spec => []TypeOK
<1>1. IInv => TypeOK
  <2> SUFFICES ASSUME IInv PROVE TypeOK
    OBVIOUS
  <2>1. DbOK(db) /\ \A k \in Slots : CallOK(k, calls[k])
    BY DEF IInv, CallsOK
  <2>2. ASSUME NEW k \in Slots
        PROVE  /\ calls[k].st \in {"idle", "guards", "body", "run", "header", "done"}
               /\ calls[k].req \in Catalogue[k] \union {Absent}
               /\ calls[k].status \in Statuses \union {0}
               /\ {calls[k].expired, calls[k].faulted, calls[k].honest} \subseteq BOOLEAN
    <3>1. CallOK(k, calls[k])
      BY <2>1
    <3>2. /\ calls[k].expired \in BOOLEAN /\ calls[k].faulted \in BOOLEAN
          /\ calls[k].honest \in BOOLEAN
      BY <3>1 DEF CallOK
    <3>3. {calls[k].expired, calls[k].faulted, calls[k].honest} \subseteq BOOLEAN
      BY <3>2, Zenon
    <3>4. QED
      BY <3>1, <3>3 DEF CallOK, Live
  <2>3. ledger \in 0 .. MaxLedger /\ tokens \in 0 .. Burst
    BY DEF IInv, CountsOK
  <2>4. QED
    BY <2>1, <2>2, <2>3 DEF TypeOK, DbOK
<1>2. QED
  BY <1>1, Inductive, PTL

\* Each thing a client is told was so at some moment of its request, whatever
\* the pollers and any number of other requests did between two statements: a
\* contract and its progress, a page, an absence, a write.  A page comes only
\* of a contract that was found.
THEOREM ToldTheTruth == Spec => []AnswersTrue
<1>1. IInv => AnswersTrue
  BY DEF IInv, CallsOK, CallOK, AnswersTrue
<1>2. QED
  BY <1>1, Inductive, PTL

\* Every 204 stands for a deletion of its own.
THEOREM DeletionsCounted == Spec => []DeletesCounted
<1>1. IInv => DeletesCounted
  <2> SUFFICES ASSUME IInv PROVE DeletesCounted
    OBVIOUS
  <2>1. IsFiniteSet(Slots) /\ Claiming \subseteq Slots
    BY ApiAssumption DEF Claiming
  <2>2. Cardinality(Claiming) \in Nat
    BY <2>1, FS_Subset, FS_CardinalityType
  <2>3. QED
    BY <2>2 DEF IInv, CountsOK, DeletesCounted
<1>2. QED
  BY <1>1, Inductive, PTL

\* No write goes round the limiter or the token.
THEOREM GuardedWrites == Spec => []WritesGuarded
<1>1. IInv => WritesGuarded
  <2> SUFFICES ASSUME IInv PROVE WritesGuarded
    OBVIOUS
  <2>1. IsFiniteSet(Slots) /\ Owing \subseteq Slots
    BY ApiAssumption DEF Owing
  <2>2. PICK o : o = Cardinality(Owing)
    OBVIOUS
  <2>3. o \in Nat
    BY <2>1, <2>2, FS_Subset, FS_CardinalityType
  <2>4. /\ log.writes \in Nat /\ log.refills \in Nat /\ tokens \in Nat /\ Burst \in Nat
        /\ log.writes + tokens + o <= Burst + log.refills
    <3>1. Burst \in Nat
      BY ApiAssumption
    <3>2. QED
      BY <2>2, <3>1 DEF IInv, CountsOK
  <2>5. log.writes <= Burst + log.refills
    BY <2>3, <2>4
  <2>6. ASSUME NEW k \in Slots, calls[k].st = "run", ~calls[k].req.graphql,
               At(k, 1).op \in Writes
        PROVE  calls[k].req.token
    <3>1. LiveOK(k, calls[k])
      BY <2>6 DEF IInv, CallsOK, CallOK, Live
    <3>2. Guards(calls[k].req) # {}
      BY <2>6 DEF Guards, At
    <3>3. QED
      BY <2>6, <3>1, <3>2 DEF LiveOK
  <2>7. QED
    BY <2>5, <2>6 DEF WritesGuarded
<1>2. QED
  BY <1>1, Inductive, PTL

\* An internal error has a cause, whatever the arguments: a fault, a deadline,
\* a deletion during a registration, or a ledger bound that events.ledger
\* cannot hold, the one argument the validators accept and the store refuses.
THEOREM CauseOfInternal == Spec => []InternalHasCause
<1>1. IInv => InternalHasCause
  <2> SUFFICES ASSUME IInv, NEW k \in Slots, NEW f \in DOMAIN calls[k].out,
                      calls[k].out[f].code = 500
               PROVE  \/ calls[k].expired \/ calls[k].faulted
                      \/ At(k, f).op = "register" /\ NotFound \in calls[k].truths[f]
                      \/ OverColumn(At(k, f))
    BY DEF InternalHasCause
  <2>1. CallOK(k, calls[k])
    BY DEF IInv, CallsOK
  <2>2. calls[k].st \in Live
    BY <2>1 DEF CallOK
  <2>3. LiveOK(k, calls[k])
    BY <2>1, <2>2 DEF CallOK
  <2>4. f \in DOMAIN calls[k].req.fields /\ FieldOK(calls[k], f)
    BY <2>3 DEF LiveOK
  <2>5. Pending.code = 0
    BY DEF Pending, Fail, Outcome
  <2>6. QED
    BY <2>4, <2>5 DEF FieldOK, Caused, At
<1>2. QED
  BY <1>1, Inductive, PTL

\* One status line and one body that agree.
THEOREM AnsweredOnce == Spec => []OneAnswer
<1>1. IInv => OneAnswer
  BY DEF IInv, CallsOK, CallOK, AnswerOK, OneAnswer
<1>2. QED
  BY <1>1, Inductive, PTL

=============================================================================
