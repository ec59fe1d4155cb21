-------------------------- MODULE LiveStreamProofs ---------------------------
(***************************************************************************)
(* Proofs about LiveStream for every value of its constants: any chain,    *)
(* filter, page size and retention window.                                 *)
(***************************************************************************)
EXTENDS LiveStream, OrderingProofs

\* The node's chain: finite, one event for an ordinal of a ledger.
ChainOK ==
    /\ IsFiniteSet(chain)
    /\ \A e \in chain : e.index < PerLedger
    /\ \A e, f \in chain : e.ledger = f.ledger /\ e.index = f.index => e = f

\* What was yielded and what is in hand come in emission order, all of it
\* before the next read; nothing wanted was left out on the way there; and the
\* next read is one the caller asked for or one within the chain.
StreamOK ==
    /\ ToSet(out) \union ToSet(page) \subseteq chain
    /\ \A i, j \in DOMAIN out : i < j => Before(out[i], out[j])
    /\ \A i, j \in DOMAIN page : i < j => Before(page[i], page[j])
    /\ \A i \in DOMAIN out, j \in DOMAIN page : Before(out[i], page[j])
    /\ \A e \in ToSet(out) \union ToSet(page) : Before(e, next.from)
    /\ next.from = AtLedger(start) \/ next.from.ledger <= tip
    /\ Wanted \subseteq next.only
    /\ NothingPassedOver

IInv == TypeOK /\ ChainOK /\ StreamOK

-----------------------------------------------------------------------------
\* The node.

LEMMA CloseTypes ==
    ASSUME RpcTypeOK, ChainOK, CloseLedger
    PROVE  /\ RpcTypeOK' /\ ChainOK' /\ chain \subseteq chain' /\ tip <= tip'
           /\ \A e \in chain' \ chain : e.ledger = tip + 1
<1>1. PICK n \in 0 .. PerLedger :
         \E from \in [0 .. n - 1 -> Contracts], good \in [0 .. n - 1 -> Decodable] :
            chain' = chain \union
                {[ledger |-> tip + 1, index |-> i,
                  contract |-> from[i], good |-> good[i]] : i \in 0 .. n - 1}
  BY DEF CloseLedger
<1>2. PICK from \in [0 .. n - 1 -> Contracts], good \in [0 .. n - 1 -> Decodable] :
         chain' = chain \union
                {[ledger |-> tip + 1, index |-> i,
                  contract |-> from[i], good |-> good[i]] : i \in 0 .. n - 1}
  BY <1>1
<1> DEFINE ev(i) == [ledger |-> tip + 1, index |-> i, contract |-> from[i], good |-> good[i]]
           new == {ev(i) : i \in 0 .. n - 1}
<1>3. chain' = chain \union new /\ tip' = tip + 1 /\ floor' = floor
  BY <1>2 DEF CloseLedger
<1>4. n \in Nat /\ n <= PerLedger /\ PerLedger \in Nat /\ tip \in Nat
  BY RpcAssumption DEF RpcTypeOK
<1>5. \A i \in 0 .. n - 1 : i \in Nat /\ i < PerLedger
  BY <1>4
<1>6. \A e \in new : /\ e \in Event /\ e.ledger = tip + 1
                     /\ e.index \in Nat /\ e.index < PerLedger
  <2> SUFFICES ASSUME NEW i \in 0 .. n - 1
               PROVE  /\ ev(i) \in Event /\ ev(i).ledger = tip + 1
                      /\ ev(i).index \in Nat /\ ev(i).index < PerLedger
    OBVIOUS
  <2>1. from[i] \in Contracts /\ good[i] \in BOOLEAN /\ tip + 1 \in Nat
    BY <1>4, RpcAssumption
  <2>2. QED
    BY <1>5, <2>1 DEF Event
<1>7. IsFiniteSet(new)
  <2> DEFINE f == [i \in 0 .. n - 1 |-> ev(i)]
  <2>1. f \in Surjection(0 .. n - 1, new)
    BY Fun_IsSurj
  <2>2. IsFiniteSet(0 .. n - 1)
    BY <1>4, PlacesSize
  <2> HIDE DEF f, new
  <2>3. QED
    BY <2>1, <2>2, FS_Surjection
<1>8. IsFiniteSet(chain')
  BY <1>3, <1>7, FS_Union DEF ChainOK
<1>9. \A e \in chain : e \in Event /\ e.ledger \in Nat /\ e.ledger <= tip
  BY DEF RpcTypeOK, Event
<1>10. \A e, f \in new : e.index = f.index => e = f
  OBVIOUS
<1> HIDE DEF new
<1>11. \A e, f \in chain' : e.ledger = f.ledger /\ e.index = f.index => e = f
  <2>1. \A e \in chain, f \in new : e.ledger # f.ledger
    BY <1>4, <1>6, <1>9
  <2>2. QED
    BY <1>3, <1>10, <2>1 DEF ChainOK
<1>12. RpcTypeOK'
  BY <1>3, <1>4, <1>6, <1>9 DEF RpcTypeOK
<1>13. ChainOK'
  BY <1>3, <1>6, <1>8, <1>11 DEF ChainOK
<1>14. QED
  BY <1>3, <1>4, <1>6, <1>12, <1>13

LEMMA NodeKeeps == ASSUME IInv, Node PROVE IInv'
<1>1. TypeOK /\ ChainOK /\ StreamOK /\ RpcTypeOK
  BY DEF IInv, TypeOK
<1>2. start' = start /\ st' = st /\ next' = next /\ page' = page /\ out' = out
  BY DEF Node, streamVars
<1>3. CASE CloseLedger
  <2>1. /\ RpcTypeOK' /\ ChainOK' /\ chain \subseteq chain' /\ tip <= tip'
        /\ \A e \in chain' \ chain : e.ledger = tip + 1
    BY <1>1, <1>3, CloseTypes
  <2>2. tip \in Nat /\ tip' \in Nat /\ next.from \in Position /\ next.from.ledger \in Nat
    BY <1>1, <2>1 DEF TypeOK, RpcTypeOK, LiveQuery, Position
  <2>3. ASSUME NEW e \in chain', e.contract \in Wanted, ~Before(e, AtLedger(start)),
               Before(e, next.from)
        PROVE  e \in ToSet(out) \union ToSet(page)
    <3>1. CASE e \in chain
      BY <1>1, <2>3, <3>1 DEF StreamOK, NothingPassedOver
    <3>2. CASE e \notin chain
      <4>1. next.from.ledger <= tip /\ e.ledger = tip + 1
        BY <1>1, <2>1, <2>3, <3>2 DEF StreamOK
      <4>2. QED
        BY <2>2, <2>3, <4>1 DEF Before
    <3>3. QED
      BY <3>1, <3>2
  <2>4. TypeOK'
    BY <1>1, <1>2, <2>1 DEF TypeOK
  <2>5. NothingPassedOver'
    BY <1>2, <2>3 DEF NothingPassedOver, Before, AtLedger
  <2>6. next'.from = AtLedger(start') \/ next'.from.ledger <= tip'
    BY <1>1, <1>2, <2>1, <2>2 DEF StreamOK, AtLedger
  <2>7. StreamOK'
    BY <1>1, <1>2, <2>1, <2>5, <2>6 DEF StreamOK, Before, AtLedger
  <2>8. QED
    BY <2>1, <2>4, <2>7 DEF IInv
<1>4. CASE TrimLedger
  <2>1. chain' = chain /\ tip' = tip /\ floor' \in Nat \ {0}
    BY <1>1, <1>4 DEF TrimLedger, RpcTypeOK
  <2>2. TypeOK'
    BY <1>1, <1>2, <2>1 DEF TypeOK, RpcTypeOK
  <2>3. ChainOK'
    BY <1>1, <2>1 DEF ChainOK
  <2>4. StreamOK'
    BY <1>1, <1>2, <2>1 DEF StreamOK, NothingPassedOver, Before, AtLedger
  <2>5. QED
    BY <2>2, <2>3, <2>4 DEF IInv
<1>5. QED
  BY <1>3, <1>4 DEF Node, RpcNext

-----------------------------------------------------------------------------
\* Pages.

LEMMA BeforeIs ==
    ASSUME NEW a, NEW b, NEW c,
           a.ledger \in Nat, a.index \in Nat, b.ledger \in Nat, b.index \in Nat,
           c.ledger \in Nat, c.index \in Nat
    PROVE  /\ ~Before(a, a)
           /\ Before(a, b) /\ Before(b, c) => Before(a, c)
           /\ Before(a, b) /\ ~Before(c, b) => Before(a, c)
           /\ Before(a, b) \/ Before(b, a) \/ (a.ledger = b.ledger /\ a.index = b.index)
  BY DEF Before

LEMMA BeforeNext ==
    ASSUME NEW a, NEW b,
           a.ledger \in Nat, a.index \in Nat, b.ledger \in Nat, b.index \in Nat
    PROVE  Before(a, JustAfter(b)) <=>
              Before(a, b) \/ (a.ledger = b.ledger /\ a.index = b.index)
  BY DEF Before, JustAfter

\* A page is in order, complete up to its last event, and complete when it is
\* not full.
LEMMA PageIs ==
    ASSUME RpcTypeOK, ChainOK, next \in LiveQuery
    PROVE  LET p == PageOf(next)
           IN  /\ p \in Seq(Visible(next))
               /\ \A i, j \in 1 .. Len(p) : i < j => Before(p[i], p[j])
               /\ \A e \in Visible(next), i \in 1 .. Len(p) :
                     Before(e, p[i]) => \E j \in 1 .. Len(p) : p[j] = e
               /\ p = <<>> => Visible(next) = {}
<1> DEFINE S == Visible(next)
           p == PageOf(next)
<1>1. S \in SUBSET chain
  BY DEF Visible
<1>2. IsFiniteSet(S)
  BY <1>1, FS_Subset DEF ChainOK
<1>3. \A e \in S : e.ledger \in Nat /\ e.index \in Nat
  BY <1>1 DEF RpcTypeOK, Event
<1>4. \A e, f \in S : e.ledger = f.ledger /\ e.index = f.index => e = f
  BY <1>1 DEF ChainOK
<1> HIDE DEF S
<1>5. StrictlyOrders(Emission(S), S)
  <2>1. \A e \in S : ~Before(e, e)
    BY <1>3, BeforeIs
  <2>2. \A e, f, g \in S : Before(e, f) /\ Before(f, g) => Before(e, g)
    BY <1>3, BeforeIs
  <2>3. \A e, f \in S : e # f => Before(e, f) \/ Before(f, e)
    BY <1>3, <1>4, BeforeIs
  <2>4. QED
    BY <2>1, <2>2, <2>3 DEF StrictlyOrders, Emission
<1>6. PageSize \in Nat /\ PageSize > 0
  BY LiveAssumption
<1>7. LET f == FirstOf(S, Emission(S), PageSize)
      IN  /\ f \in Seq(S)
          /\ Len(f) <= PageSize
          /\ \A i, j \in 1 .. Len(f) : i < j => <<f[i], f[j]>> \in Emission(S)
          /\ \A x \in S, i \in 1 .. Len(f) :
                <<x, f[i]>> \in Emission(S) => \E j \in 1 .. Len(f) : f[j] = x
          /\ Len(f) < PageSize => \A x \in S : \E i \in 1 .. Len(f) : f[i] = x
  BY <1>2, <1>5, <1>6, Firsts
<1>8. p = FirstOf(S, Emission(S), PageSize)
  BY DEF PageOf, S
<1> HIDE DEF p
<1>9. /\ p \in Seq(S)
      /\ \A i, j \in 1 .. Len(p) : i < j => <<p[i], p[j]>> \in Emission(S)
      /\ \A x \in S, i \in 1 .. Len(p) :
            <<x, p[i]>> \in Emission(S) => \E j \in 1 .. Len(p) : p[j] = x
      /\ Len(p) < PageSize => \A x \in S : \E i \in 1 .. Len(p) : p[i] = x
  BY <1>7, <1>8
<1>10. \A i \in 1 .. Len(p) : p[i] \in S
  BY <1>9
<1>11. \A i, j \in 1 .. Len(p) : i < j => Before(p[i], p[j])
  BY <1>9 DEF Emission
<1>12. \A e \in S, i \in 1 .. Len(p) : Before(e, p[i]) => \E j \in 1 .. Len(p) : p[j] = e
  BY <1>9, <1>10 DEF Emission
<1>13. p = <<>> => S = {}
  <2> SUFFICES ASSUME p = <<>>, NEW e \in S PROVE FALSE
    OBVIOUS
  <2>1. Len(p) = 0
    OBVIOUS
  <2>2. \E i \in 1 .. Len(p) : p[i] = e
    BY <1>6, <1>9, <2>1
  <2>3. QED
    BY <2>1, <2>2
<1>14. QED
  BY <1>9, <1>11, <1>12, <1>13 DEF p, S


-----------------------------------------------------------------------------
\* The stream's steps.

LEMMA FetchKeeps == ASSUME IInv, FetchPage PROVE IInv'
<1>1. TypeOK /\ ChainOK /\ StreamOK /\ RpcTypeOK /\ next \in LiveQuery
  BY DEF IInv, TypeOK
<1> DEFINE p == PageOf(next)
           from == CursorOf(p)
<1>2. /\ st = "fetch" /\ next.from.ledger \in floor .. tip
      /\ page' = p /\ next' = [from |-> from, only |-> Contracts]
      /\ st' = IF p = <<>> THEN "delay" ELSE "yield"
      /\ chain' = chain /\ tip' = tip /\ floor' = floor /\ start' = start /\ out' = out
  BY DEF FetchPage, OutOfRange, rpcVars
<1>3. /\ p \in Seq(Visible(next))
      /\ \A i, j \in 1 .. Len(p) : i < j => Before(p[i], p[j])
      /\ \A e \in Visible(next), i \in 1 .. Len(p) :
            Before(e, p[i]) => \E j \in 1 .. Len(p) : p[j] = e
      /\ p = <<>> => Visible(next) = {}
  BY <1>1, PageIs
<1> DEFINE l == p[Len(p)]
<1>4. p = <<>> => from = [ledger |-> tip, index |-> PerLedger]
  BY DEF CursorOf
<1>5. p # <<>> => from = JustAfter(l)
  BY DEF CursorOf, Last
<1> HIDE DEF from, p
<1>6. page = <<>> /\ DOMAIN page = {} /\ ToSet(page) = {}
  BY <1>1, <1>2 DEF TypeOK, ToSet
<1>7. /\ Len(p) \in Nat /\ DOMAIN p = 1 .. Len(p)
      /\ \A i \in 1 .. Len(p) : p[i] \in Visible(next)
      /\ p # <<>> => Len(p) \in 1 .. Len(p)
  BY <1>3
<1>8. \A e \in chain : /\ e \in Event /\ e.ledger \in Nat /\ e.index \in Nat
                       /\ e.ledger <= tip /\ e.index < PerLedger
  BY <1>1 DEF RpcTypeOK, Event, ChainOK
<1>9. \A e \in Visible(next) : e \in chain /\ ~Before(e, next.from)
  BY DEF Visible
<1>10. /\ next.from \in Position /\ next.from.ledger \in Nat /\ next.from.index \in Nat
       /\ tip \in Nat /\ floor \in Nat /\ PerLedger \in Nat
       /\ floor <= next.from.ledger /\ next.from.ledger <= tip
  <2>1. next.from \in Position /\ tip \in Nat /\ floor \in Nat /\ PerLedger \in Nat
    BY <1>1, RpcAssumption DEF LiveQuery, RpcTypeOK
  <2>2. QED
    BY <1>2, <2>1 DEF Position
<1>11. p # <<>> => /\ l \in Visible(next) /\ l \in chain
                   /\ l.ledger \in Nat /\ l.index \in Nat /\ l.ledger <= tip
  BY <1>7, <1>8, <1>9
<1>12. from \in Position /\ from.ledger <= tip /\ from.ledger \in Nat /\ from.index \in Nat
  BY <1>4, <1>5, <1>10, <1>11 DEF Position, JustAfter
<1>13. ToSet(out) \subseteq chain /\ \A e \in ToSet(out) : Before(e, next.from)
  BY <1>1 DEF StreamOK
\* What is behind the new read.
<1>14. \A e \in ToSet(out) : Before(e, from)
  <2> SUFFICES ASSUME NEW e \in ToSet(out) PROVE Before(e, from)
    OBVIOUS
  <2>1. e \in chain /\ Before(e, next.from) /\ e.ledger \in Nat /\ e.index \in Nat
        /\ e.ledger <= tip /\ e.index < PerLedger
    BY <1>8, <1>13
  <2>2. CASE p = <<>>
    BY <1>4, <1>10, <2>1, <2>2 DEF Before
  <2>3. CASE p # <<>>
    <3>1. Before(e, l)
      BY <1>9, <1>10, <1>11, <2>1, <2>3, BeforeIs
    <3>2. QED
      BY <1>5, <1>11, <2>1, <2>3, <3>1, BeforeNext
  <2>4. QED
    BY <2>2, <2>3
<1>15. \A i \in 1 .. Len(p) : Before(p[i], from)
  <2> SUFFICES ASSUME NEW i \in 1 .. Len(p) PROVE Before(p[i], from)
    OBVIOUS
  <2>1. p # <<>>
    BY <1>7
  <2>2. p[i] \in chain /\ p[i].ledger \in Nat /\ p[i].index \in Nat
    BY <1>7, <1>8, <1>9
  <2>3. p[i] = l \/ Before(p[i], l)
    <3>1. i = Len(p) \/ i < Len(p)
      <4>1. Len(p) \in Nat
        BY <1>7
      <4>2. QED
        BY <4>1
    <3>2. QED
      BY <1>3, <1>7, <2>1, <3>1
  <2>4. QED
    BY <1>5, <1>11, <2>1, <2>2, <2>3, BeforeNext
<1>16. \A e \in ToSet(out), i \in 1 .. Len(p) : Before(e, p[i])
  BY <1>7, <1>8, <1>9, <1>10, <1>13, BeforeIs
\* What is wanted behind it is yielded or in hand.
<1>17. ASSUME NEW e \in chain, e.contract \in Wanted, ~Before(e, AtLedger(start)),
              Before(e, from)
       PROVE  e \in ToSet(out) \union ToSet(p)
  <2>1. e.ledger \in Nat /\ e.index \in Nat /\ e.ledger <= tip /\ e.index < PerLedger
    BY <1>8
  <2>2. CASE Before(e, next.from)
    BY <1>1, <1>6, <1>17, <2>2 DEF StreamOK, NothingPassedOver
  <2>3. CASE ~Before(e, next.from)
    <3>1. e \in Visible(next)
      <4>1. next.from.ledger <= e.ledger
        BY <1>10, <2>1, <2>3 DEF Before
      <4>2. floor <= e.ledger
        BY <1>10, <2>1, <4>1
      <4>3. e.contract \in next.only
        BY <1>1, <1>17 DEF StreamOK
      <4>4. QED
        BY <2>3, <4>2, <4>3 DEF Visible
    <3>2. p # <<>>
      BY <1>3, <3>1
    <3>3. e = l \/ Before(e, l)
      <4>1. Before(e, l) \/ (e.ledger = l.ledger /\ e.index = l.index)
        BY <1>5, <1>11, <1>17, <2>1, <3>2, BeforeNext
      <4>2. QED
        BY <1>1, <1>11, <3>2, <4>1 DEF ChainOK
    <3>4. \E j \in 1 .. Len(p) : p[j] = e
      BY <1>3, <1>7, <3>1, <3>2, <3>3
    <3>5. QED
      BY <1>7, <3>4 DEF ToSet
  <2>4. QED
    BY <2>2, <2>3
<1>18. ToSet(p) \subseteq chain /\ \A e \in ToSet(p) : Before(e, from)
  BY <1>7, <1>9, <1>15 DEF ToSet
<1>19. next'.from = from /\ next'.only = Contracts
  BY <1>2
<1>20. TypeOK'
  <2>1. p \in Seq(Event)
    <3>1. Visible(next) \subseteq Event
      BY <1>8, <1>9
    <3>2. QED
      BY <1>3, <3>1
  <2>2. next' \in LiveQuery
    BY <1>2, <1>12 DEF LiveQuery
  <2>3. QED
    BY <1>1, <1>2, <2>1, <2>2 DEF TypeOK, RpcTypeOK
<1>21. ChainOK'
  BY <1>1, <1>2 DEF ChainOK
<1>22. NothingPassedOver'
  <2>1. \A e \in chain' : /\ e.contract \in Wanted
                          /\ ~Before(e, AtLedger(start'))
                          /\ Before(e, next'.from)
                          => e \in ToSet(out') \union ToSet(page')
    BY <1>2, <1>17, <1>19
  <2>2. QED
    BY <2>1 DEF NothingPassedOver, Before, AtLedger
<1>23. StreamOK'
  <2>1. ToSet(out') \union ToSet(page') \subseteq chain'
    BY <1>2, <1>13, <1>18
  <2>2. \A i, j \in DOMAIN out' : i < j => Before(out'[i], out'[j])
    BY <1>1, <1>2 DEF StreamOK
  <2>3. \A i, j \in DOMAIN page' : i < j => Before(page'[i], page'[j])
    BY <1>2, <1>3, <1>7
  <2>4. \A i \in DOMAIN out', j \in DOMAIN page' : Before(out'[i], page'[j])
    BY <1>2, <1>7, <1>16 DEF ToSet
  <2>5. \A e \in ToSet(out') \union ToSet(page') : Before(e, next'.from)
    BY <1>2, <1>14, <1>18, <1>19
  <2>6. next'.from.ledger <= tip' /\ Wanted \subseteq next'.only
    BY <1>2, <1>12, <1>19, LiveAssumption
  <2>7. QED
    BY <1>22, <2>1, <2>2, <2>3, <2>4, <2>5, <2>6 DEF StreamOK, Before
<1>24. QED
  BY <1>20, <1>21, <1>23 DEF IInv


LEMMA YieldKeeps == ASSUME IInv, Yield PROVE IInv'
<1>1. TypeOK /\ ChainOK /\ StreamOK
  BY DEF IInv, TypeOK
<1>2. /\ st = "yield" /\ page' = Tail(page)
      /\ out' = Append(out, Head(page))
      /\ st' = IF page' = <<>> THEN "fetch" ELSE "yield"
      /\ chain' = chain /\ tip' = tip /\ floor' = floor /\ start' = start /\ next' = next
  BY DEF Yield, rpcVars
<1>3. page \in Seq(Event) /\ page # <<>> /\ out \in Seq(Event)
  BY <1>1, <1>2 DEF TypeOK
<1> DEFINE n == Len(out)
           m == Len(page)
<1>4. /\ n \in Nat /\ m \in Nat /\ 1 <= m
      /\ DOMAIN out = 1 .. n /\ DOMAIN page = 1 .. m
      /\ Head(page) = page[1] /\ page[1] \in Event
  BY <1>3
<1>5. /\ out' \in Seq(Event) /\ DOMAIN out' = 1 .. n + 1
      /\ \A i \in 1 .. n : out'[i] = out[i]
      /\ out'[n + 1] = page[1]
  BY <1>2, <1>3, <1>4
<1>6. /\ page' \in Seq(Event) /\ DOMAIN page' = 1 .. m - 1
      /\ \A i \in 1 .. m - 1 : page'[i] = page[i + 1]
  BY <1>2, <1>3, <1>4
<1> HIDE DEF n, m
<1>7. \A i \in 1 .. m - 1 : i + 1 \in 1 .. m /\ 1 < i + 1
  BY <1>4
<1>8. \A i \in 1 .. n + 1 : i \in 1 .. n \/ i = n + 1
  BY <1>4
<1>9. ToSet(out') \union ToSet(page') = ToSet(out) \union ToSet(page)
  <2>1. ASSUME NEW i \in 1 .. n + 1 PROVE out'[i] \in ToSet(out) \union ToSet(page)
    BY <1>4, <1>5, <1>8 DEF ToSet
  <2>2. ASSUME NEW i \in 1 .. m - 1 PROVE page'[i] \in ToSet(page)
    BY <1>4, <1>6, <1>7 DEF ToSet
  <2>3. ASSUME NEW i \in 1 .. n PROVE out[i] \in ToSet(out')
    <3>1. i \in 1 .. n + 1
      BY <1>4
    <3>2. QED
      BY <1>5, <3>1 DEF ToSet
  <2>4. ASSUME NEW i \in 1 .. m PROVE page[i] \in ToSet(out') \union ToSet(page')
    <3>1. CASE i = 1
      <4>1. n + 1 \in 1 .. n + 1
        BY <1>4
      <4>2. QED
        BY <1>5, <3>1, <4>1 DEF ToSet
    <3>2. CASE i # 1
      <4>1. i - 1 \in 1 .. m - 1 /\ (i - 1) + 1 = i
        BY <1>4, <3>2
      <4>2. page'[i - 1] = page[i]
        BY <1>6, <4>1
      <4>3. QED
        BY <1>6, <4>1, <4>2 DEF ToSet
    <3>3. QED
      BY <3>1, <3>2
  <2>5. ToSet(out') = {out'[i] : i \in 1 .. n + 1} /\ ToSet(page') = {page'[i] : i \in 1 .. m - 1}
    BY <1>5, <1>6 DEF ToSet
  <2>6. ToSet(out) = {out[i] : i \in 1 .. n} /\ ToSet(page) = {page[i] : i \in 1 .. m}
    BY <1>4 DEF ToSet
  <2>7. QED
    BY <2>1, <2>2, <2>3, <2>4, <2>5, <2>6
<1>10. /\ \A i, j \in 1 .. n : i < j => Before(out[i], out[j])
       /\ \A i, j \in 1 .. m : i < j => Before(page[i], page[j])
       /\ \A i \in 1 .. n, j \in 1 .. m : Before(out[i], page[j])
  BY <1>1, <1>4 DEF StreamOK
<1>11. \A i, j \in DOMAIN out' : i < j => Before(out'[i], out'[j])
  <2> SUFFICES ASSUME NEW i \in 1 .. n + 1, NEW j \in 1 .. n + 1, i < j
               PROVE  Before(out'[i], out'[j])
    BY <1>5
  <2>1. i \in 1 .. n
    BY <1>4
  <2>2. CASE j \in 1 .. n
    BY <1>5, <1>10, <2>1, <2>2
  <2>3. CASE j = n + 1
    <3>1. 1 \in 1 .. m
      BY <1>4
    <3>2. Before(out[i], page[1])
      BY <1>10, <2>1, <3>1
    <3>3. QED
      BY <1>5, <2>1, <2>3, <3>2
  <2>4. QED
    BY <1>8, <2>2, <2>3
<1>12. \A i, j \in DOMAIN page' : i < j => Before(page'[i], page'[j])
  <2> SUFFICES ASSUME NEW i \in 1 .. m - 1, NEW j \in 1 .. m - 1, i < j
               PROVE  Before(page'[i], page'[j])
    BY <1>6
  <2>1. i + 1 \in 1 .. m /\ j + 1 \in 1 .. m /\ i + 1 < j + 1
    BY <1>4
  <2>2. Before(page[i + 1], page[j + 1])
    BY <1>10, <2>1
  <2>3. QED
    BY <1>6, <2>2
<1>13. \A i \in DOMAIN out', j \in DOMAIN page' : Before(out'[i], page'[j])
  <2> SUFFICES ASSUME NEW i \in 1 .. n + 1, NEW j \in 1 .. m - 1
               PROVE  Before(out'[i], page'[j])
    BY <1>5, <1>6
  <2>1. j + 1 \in 1 .. m /\ 1 < j + 1 /\ 1 \in 1 .. m
    BY <1>4
  <2>2. CASE i \in 1 .. n
    BY <1>5, <1>6, <1>10, <2>1, <2>2
  <2>3. CASE i = n + 1
    BY <1>5, <1>6, <1>10, <2>1, <2>3
  <2>4. QED
    BY <1>8, <2>2, <2>3
<1>14. TypeOK'
  BY <1>1, <1>2, <1>5, <1>6 DEF TypeOK, RpcTypeOK
<1>15. ChainOK'
  BY <1>1, <1>2 DEF ChainOK
<1>16. NothingPassedOver'
  BY <1>1, <1>2, <1>9 DEF StreamOK, NothingPassedOver, Before, AtLedger
<1>17. StreamOK'
  <2>1. /\ ToSet(out') \union ToSet(page') \subseteq chain'
        /\ \A e \in ToSet(out') \union ToSet(page') : Before(e, next'.from)
        /\ next'.from = AtLedger(start') \/ next'.from.ledger <= tip'
        /\ Wanted \subseteq next'.only
    BY <1>1, <1>2, <1>9 DEF StreamOK, AtLedger
  <2>2. QED
    BY <1>11, <1>12, <1>13, <1>16, <2>1 DEF StreamOK, Before, AtLedger
<1>18. QED
  BY <1>14, <1>15, <1>17 DEF IInv

\* A step between fetches: only the stage moves.
LEMMA StageKeeps ==
    ASSUME IInv, page = <<>>, st' \in {"fetch", "failed"},
           UNCHANGED <<rpcVars, start, next, page, out>>
    PROVE  IInv'
<1>1. /\ chain' = chain /\ tip' = tip /\ floor' = floor /\ start' = start
      /\ next' = next /\ page' = page /\ out' = out
  BY DEF rpcVars
<1>2. TypeOK /\ ChainOK /\ StreamOK
  BY DEF IInv
<1>3. TypeOK'
  BY <1>1, <1>2 DEF TypeOK, RpcTypeOK
<1>4. ChainOK' /\ StreamOK'
  BY <1>1, <1>2 DEF ChainOK, StreamOK, NothingPassedOver, Before, AtLedger
<1>5. QED
  BY <1>3, <1>4 DEF IInv

\* A traversal that starts afresh, at the first or at any later time.
LEMMA FreshKeeps ==
    ASSUME RpcTypeOK, ChainOK, start \in Nat, st = "fetch", page = <<>>, out = <<>>,
           next = [from |-> AtLedger(start), only |-> Wanted]
    PROVE  IInv
<1>1. ToSet(out) = {} /\ ToSet(page) = {} /\ DOMAIN out = {} /\ DOMAIN page = {}
  BY DEF ToSet
<1>2. next.from = AtLedger(start) /\ next.only = Wanted
  OBVIOUS
<1>3. next \in LiveQuery
  BY LiveAssumption DEF LiveQuery, Position, AtLedger
<1>4. TypeOK
  BY <1>3 DEF TypeOK
<1>5. NothingPassedOver
  BY <1>2 DEF NothingPassedOver
<1>6. StreamOK
  BY <1>1, <1>2, <1>5 DEF StreamOK
<1>7. QED
  BY <1>4, <1>6 DEF IInv

LEMMA NextKeeps == ASSUME IInv, [Next]_vars PROVE IInv'
<1>1. TypeOK /\ ChainOK /\ StreamOK
  BY DEF IInv
<1>2. st \in {"fetch", "delay", "failed"} => page = <<>>
  BY <1>1 DEF TypeOK
<1>3. CASE FetchPage
  BY <1>3, FetchKeeps
<1>4. CASE FetchUndecodable \/ FetchRejected \/ FetchFails
  <2>1. page = <<>> /\ st' \in {"fetch", "failed"} /\ UNCHANGED <<rpcVars, start, next, page, out>>
    BY <1>2, <1>4 DEF FetchUndecodable, FetchRejected, FetchFails
  <2>2. QED
    BY <2>1, StageKeeps
<1>5. CASE Yield
  BY <1>5, YieldKeeps
<1>6. CASE Wake
  <2>1. page = <<>> /\ st' \in {"fetch", "failed"} /\ UNCHANGED <<rpcVars, start, next, page, out>>
    BY <1>2, <1>6 DEF Wake
  <2>2. QED
    BY <2>1, StageKeeps
<1>7. CASE Iterate
  <2>1. /\ RpcTypeOK' /\ ChainOK' /\ start' \in Nat /\ st' = "fetch" /\ page' = <<>>
        /\ out' = <<>> /\ start' = start
        /\ next' = [from |-> AtLedger(start'), only |-> Wanted]
    BY <1>1, <1>7 DEF Iterate, rpcVars, TypeOK, RpcTypeOK, ChainOK
  <2>2. ToSet(out') = {} /\ ToSet(page') = {} /\ DOMAIN out' = {} /\ DOMAIN page' = {}
    BY <2>1 DEF ToSet
  <2>3. next'.from = AtLedger(start') /\ next'.only = Wanted
    BY <2>1
  <2>4. next' \in LiveQuery
    BY <2>1, LiveAssumption DEF LiveQuery, Position, AtLedger
  <2>5. TypeOK'
    BY <2>1, <2>4 DEF TypeOK
  <2>6. NothingPassedOver'
    BY <2>3 DEF NothingPassedOver, AtLedger, Before
  <2>7. StreamOK'
    BY <2>2, <2>3, <2>6 DEF StreamOK, AtLedger, Before
  <2>8. QED
    BY <2>1, <2>5, <2>7 DEF IInv
<1>8. CASE Node
  BY <1>8, NodeKeeps
<1>9. CASE UNCHANGED vars
  BY <1>1, <1>9 DEF IInv, vars, rpcVars, streamVars, TypeOK, RpcTypeOK, ChainOK, StreamOK,
                    NothingPassedOver, Before, AtLedger
<1>10. QED
  BY <1>3, <1>4, <1>5, <1>6, <1>7, <1>8, <1>9 DEF Next, Stream

-----------------------------------------------------------------------------
\* The theorems.

THEOREM Inductive == Spec => []IInv
<1>1. Init => IInv
  <2> SUFFICES ASSUME Init PROVE IInv
    OBVIOUS
  <2>1. chain = {} /\ tip = 1 /\ floor = 1 /\ start \in Nat
    BY RpcAssumption DEF Init, RpcInit
  <2>2. RpcTypeOK /\ ChainOK
    BY <2>1, FS_EmptySet DEF RpcTypeOK, ChainOK
  <2>3. QED
    BY <2>1, <2>2, FreshKeeps DEF Init
<1>2. IInv /\ [Next]_vars => IInv'
  BY NextKeeps
<1>3. QED
  BY <1>1, <1>2, PTL DEF Spec

\* The node, the query and the page in hand have their types, and there is a
\* page in hand exactly while events are yielded.
THEOREM TypeCorrect == Spec => []TypeOK
<1>1. IInv => TypeOK
  BY DEF IInv
<1>2. QED
  BY <1>1, Inductive, PTL

\* Events come out of liveEventStream strictly in emission order, wherever
\* pages end and whatever closes between them.
THEOREM InEmissionOrder == Spec => []LiveOrder
<1>1. IInv => LiveOrder
  BY DEF IInv, StreamOK, LiveOrder
<1>2. QED
  BY <1>1, Inductive, PTL

\* Up to its next read the stream has yielded, or has in hand, every event
\* asked for.
THEOREM NoneInSilence == Spec => []NothingPassedOver
<1>1. IInv => NothingPassedOver
  BY DEF IInv, StreamOK
<1>2. QED
  BY <1>1, Inductive, PTL

-----------------------------------------------------------------------------
\* The stream as a feed.

\* A page in hand holds what decodes, of the ledgers asked for, and the next
\* read is not before them.
HandOK ==
    /\ start <= next.from.ledger
    /\ \A e \in ToSet(page) : e.good /\ start <= e.ledger

LEMMA HandKeeps == ASSUME IInv, HandOK, [Next]_vars PROVE HandOK'
<1>1. TypeOK /\ ChainOK /\ RpcTypeOK /\ next \in LiveQuery
  BY DEF IInv, TypeOK
<1>2. /\ start \in Nat /\ tip \in Nat /\ next.from.ledger \in Nat /\ next.from.index \in Nat
      /\ page \in Seq(Event)
  BY <1>1 DEF TypeOK, RpcTypeOK, LiveQuery, Position
<1>3. CASE FetchPage
  <2> DEFINE p == PageOf(next)
  <2>1. /\ page' = p /\ next'.from = CursorOf(p) /\ start' = start
        /\ \A e \in ToSet(p) : e.good
        /\ next.from.ledger <= tip
    BY <1>2, <1>3 DEF FetchPage, OutOfRange
  <2>2. p \in Seq(Visible(next))
    BY <1>1, PageIs
  <2>3. \A e \in Visible(next) : e.ledger \in Nat /\ start <= e.ledger
    <3>1. \A e \in Visible(next) : e.ledger \in Nat /\ ~Before(e, next.from)
      BY <1>1 DEF Visible, RpcTypeOK, Event
    <3>2. QED
      BY <1>2, <3>1 DEF HandOK, Before
  <2> HIDE DEF p
  <2>4. \A i \in DOMAIN p : p[i] \in Visible(next)
    BY <2>2
  <2>5. \A e \in ToSet(p) : e.good /\ start <= e.ledger
    BY <2>1, <2>3, <2>4 DEF ToSet
  <2>6. start <= CursorOf(p).ledger
    <3>1. CASE p = <<>>
      BY <1>2, <2>1, <3>1 DEF CursorOf, HandOK
    <3>2. CASE p # <<>>
      <4>1. Len(p) \in DOMAIN p
        BY <2>2, <3>2
      <4>2. CursorOf(p).ledger = p[Len(p)].ledger
        BY <3>2 DEF CursorOf, JustAfter, Last
      <4>3. QED
        BY <2>3, <2>4, <4>1, <4>2
    <3>3. QED
      BY <3>1, <3>2
  <2>7. QED
    BY <2>1, <2>5, <2>6 DEF HandOK
<1>4. CASE Yield
  <2>1. page' = Tail(page) /\ next' = next /\ start' = start /\ page # <<>>
    BY <1>1, <1>4 DEF Yield, TypeOK
  <2>2. \A i \in DOMAIN page' : page'[i] = page[i + 1] /\ i + 1 \in DOMAIN page
    BY <1>2, <2>1
  <2>3. \A e \in ToSet(page') : e \in ToSet(page)
    BY <2>2 DEF ToSet
  <2>4. QED
    BY <2>1, <2>3 DEF HandOK
<1>5. CASE Iterate
  <2>1. page' = <<>> /\ start' = start /\ next'.from.ledger = start
    BY <1>5 DEF Iterate, AtLedger
  <2>2. ToSet(page') = {}
    BY <2>1 DEF ToSet
  <2>3. QED
    BY <1>2, <2>1, <2>2 DEF HandOK
<1>6. CASE FetchUndecodable \/ FetchRejected \/ FetchFails \/ Wake \/ Node \/ UNCHANGED vars
  <2>1. UNCHANGED <<start, next, page>>
    BY <1>6 DEF FetchUndecodable, FetchRejected, FetchFails, Wake, Node, vars, streamVars
  <2>2. QED
    BY <2>1 DEF HandOK
<1>7. QED
  BY <1>3, <1>4, <1>5, <1>6 DEF Next, Stream

\* Yielding is the feed's next delivery.
LEMMA YieldDelivers ==
    ASSUME IInv, HandOK, Yield
    PROVE  \E e \in chain : Feed!Deliver(e)
<1>1. TypeOK /\ StreamOK /\ RpcTypeOK
  BY DEF IInv, TypeOK
<1>2. /\ st = "yield" /\ page # <<>> /\ page \in Seq(Event)
      /\ page' = Tail(page) /\ out' = Append(out, Head(page))
      /\ st' \in {"fetch", "yield"}
      /\ UNCHANGED <<chain, tip, floor, start>>
  BY <1>1 DEF Yield, TypeOK, rpcVars
<1> DEFINE e == page[1]
<1>3. /\ 1 \in DOMAIN page /\ Head(page) = e /\ e \in ToSet(page)
      /\ \A i \in DOMAIN page : i = 1 \/ 1 < i
  BY <1>2 DEF ToSet
<1>4. e \in chain /\ e.good /\ start <= e.ledger /\ start \in Nat
  BY <1>1, <1>3 DEF StreamOK, HandOK, TypeOK
<1>5. \A d \in ToSet(out) : Before(d, e)
  BY <1>1, <1>3 DEF StreamOK, ToSet
<1> HIDE DEF e
<1>6. /\ \A f \in chain \union {e} : f.ledger \in Nat /\ f.index \in Nat
      /\ next.from.ledger \in Nat /\ next.from.index \in Nat
  BY <1>1, <1>4 DEF RpcTypeOK, Event, TypeOK, LiveQuery, Position
<1>7. ASSUME NEW f \in chain, f.contract \in Wanted, f.ledger >= start, Before(f, e)
      PROVE  f \in ToSet(out)
  <2>1. Before(f, next.from)
    <3>1. Before(e, next.from)
      BY <1>1, <1>3 DEF StreamOK
    <3>2. QED
      BY <1>6, <1>7, <3>1, BeforeIs
  <2>2. ~Before(f, AtLedger(start))
    BY <1>4, <1>6, <1>7 DEF Before, AtLedger
  <2>3. f \in ToSet(out) \union ToSet(page)
    BY <1>1, <1>7, <2>1, <2>2 DEF StreamOK, NothingPassedOver
  <2>4. f \notin ToSet(page)
    <3>1. ASSUME NEW i \in DOMAIN page, f = page[i] PROVE FALSE
      <4>1. f = e \/ Before(e, f)
        BY <1>1, <1>3, <3>1 DEF StreamOK, e
      <4>2. QED
        BY <1>4, <1>6, <1>7, <4>1 DEF Before
    <3>2. QED
      BY <3>1 DEF ToSet
  <2>5. QED
    BY <2>3, <2>4
<1>8. Feed!Deliver(e)
  <2>1. Feed!ToSet(out) = ToSet(out) /\ \A a, b : Feed!Before(a, b) = Before(a, b)
    BY DEF Feed!ToSet, ToSet, Feed!Before, Before
  <2>2. st # "failed" /\ UNCHANGED <<Feed!rpcVars, start, st = "failed">>
    BY <1>2 DEF Feed!rpcVars
  <2>3. e.good /\ e.ledger >= start /\ out' = Append(out, e)
    BY <1>2, <1>3, <1>4, <1>6
  <2>4. QED
    BY <1>5, <1>7, <2>1, <2>2, <2>3 DEF Feed!Deliver, Feed!Asked
<1>9. QED
  BY <1>4, <1>8

LEMMA NextFeeds == ASSUME IInv, HandOK, [Next]_vars PROVE [Feed!Next]_Feed!vars
<1>1. CASE Yield
  BY <1>1, YieldDelivers DEF Feed!Next
<1>2. CASE FetchUndecodable \/ FetchRejected \/ FetchFails
  <2>1. st = "fetch" /\ st' = "failed" /\ UNCHANGED <<chain, tip, floor, start, out>>
    BY <1>2 DEF FetchUndecodable, FetchRejected, FetchFails, rpcVars
  <2>2. QED
    BY <2>1 DEF Feed!Next, Feed!Break, Feed!rpcVars
<1>3. CASE Iterate
  <2>1. /\ st = "failed" /\ st' = "fetch" /\ out' = <<>>
        /\ UNCHANGED <<chain, tip, floor, start>>
    BY <1>3 DEF Iterate, rpcVars
  <2>2. QED
    BY <2>1 DEF Feed!Next, Feed!Restart, Feed!rpcVars
<1>4. CASE Node
  BY <1>4
  DEF Node, RpcNext, CloseLedger, TrimLedger, streamVars, Feed!Next, Feed!Node,
      Feed!RpcNext, Feed!CloseLedger, Feed!TrimLedger
<1>5. CASE FetchPage \/ Wake \/ UNCHANGED vars
  <2>1. (st = "failed") = (st' = "failed") /\ UNCHANGED <<chain, tip, floor, start, out>>
    BY <1>5 DEF FetchPage, Wake, vars, rpcVars, streamVars
  <2>2. QED
    BY <2>1 DEF Feed!vars, Feed!rpcVars
<1>6. QED
  BY <1>1, <1>2, <1>3, <1>4, <1>5 DEF Next, Stream

\* liveEventStream implements the feed it promises its consumer: whatever the
\* pages, the window and the consumer's pace, the next event is the next of
\* the chain with nothing asked for left out on the way, and nothing follows a
\* failure but a fresh iteration.
THEOREM FeedImplementation == Spec => ImplementsFeed
<1>1. Init => Feed!Init
  <2> SUFFICES ASSUME Init PROVE Feed!Init
    OBVIOUS
  <2>1. start \in Nat /\ st = "fetch" /\ out = <<>>
    BY RpcAssumption DEF Init
  <2>2. QED
    BY <2>1 DEF Init, RpcInit, Feed!Init, Feed!RpcInit
<1>2. Init => HandOK
  <2> SUFFICES ASSUME Init PROVE HandOK
    OBVIOUS
  <2>1. start \in Nat /\ page = <<>> /\ next.from.ledger = start
    BY RpcAssumption DEF Init, AtLedger
  <2>2. ToSet(page) = {}
    BY <2>1 DEF ToSet
  <2>3. QED
    BY <2>1, <2>2 DEF HandOK
<1>3. Spec => []HandOK
  BY <1>2, HandKeeps, Inductive, PTL DEF Spec
<1>4. QED
  BY <1>1, <1>3, NextFeeds, Inductive, PTL DEF Spec, ImplementsFeed, Feed!Spec

=============================================================================
