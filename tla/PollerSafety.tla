---------------------------- MODULE PollerSafety ----------------------------
(***************************************************************************)
(* The proof that Poller loses no event silently and stores none of a      *)
(* contract that is gone; that, where no contract is polled twice, ids     *)
(* ascend in chain order, what is reported as skipped is lost and the      *)
(* progress never goes back; and that the process ends under no tick.  A   *)
(* step moves one goroutine, or none, and what it does to the others is    *)
(* only to let the store grow, or to raise the generation of a contract,   *)
(* which frees every tick on it of its promises.                           *)
(***************************************************************************)
EXTENDS PollerProofs, FiniteSetTheorems

\* A step leaves the tick of q where it is.
Quiet(q) ==
    /\ pc'[q] = pc[q]
    /\ job'[q] = job[q]
    /\ txRows'[q] = txRows[q]

\* A step only adds to what is known of c, or c was deleted.
Grown(c) ==
    \/ gen'[c] > gen[c]
    \/ /\ gen'[c] = gen[c]
       /\ \A r \in rows : r.ev.contract = c => r \in rows'
       /\ skipped[c] \subseteq skipped'[c]
       /\ stale[c] => stale'[c]

LEMMA QuietKept ==
    ASSUME TypeOK, TypeOK', NEW q \in Pollers, GoroutineInv(q), Quiet(q),
           chain' = chain, tip' = tip, Grown(Assigned[q])
    PROVE  GoroutineInv(q)'
<1> DEFINE c == Assigned[q]
<1> Assigned[q] \in Contracts
  BY PollerAssumption
<1>g. gen[c] \in Nat /\ gen'[c] \in Nat /\ job[q].gen \in Nat
  BY DEF TypeOK, StoreTypeOK, Job
<1>1. JobInv(q) => JobInv(q)'
  <2>1. job[q].gen <= gen[c] => job[q].gen <= gen'[c]
    <3>1. CASE gen'[c] > gen[c]
      BY <3>1, <1>g
    <3>2. CASE gen'[c] = gen[c]
      BY <3>2
    <3>3. QED
      BY <3>1, <3>2 DEF Grown
  <2>2. QED
    BY <2>1 DEF JobInv, Quiet
<1>2. JobInv(q) /\ BeforeInv(q) => BeforeInv(q)'
  <2> SUFFICES ASSUME JobInv(q), BeforeInv(q), Current(q)' PROVE BeforeInv(q)'
    BY DEF BeforeInv
  <2>1. job[q].gen = gen'[c] /\ ~stale'[c] /\ job[q].gen <= gen[c]
    BY DEF Current, Quiet, JobInv
  <2>2. /\ gen'[c] = gen[c]
        /\ \A r \in rows : r.ev.contract = c => r \in rows'
        /\ skipped[c] \subseteq skipped'[c]
        /\ stale[c] => stale'[c]
    BY <2>1, <1>g DEF Grown
  <2>3. Covered(c, job[q].low - 1)
    BY <2>1, <2>2 DEF BeforeInv, Current
  <2>4. Covered(c, job[q].low - 1)'
    BY <2>2, <2>3 DEF Covered, Stored, Quiet
  <2>5. QED
    BY <2>4 DEF BeforeInv
<1>3. DrainInv(q) => DrainInv(q)'
  BY DEF DrainInv, Quiet
<1>4. BatchInv(q) => BatchInv(q)'
  BY DEF BatchInv, Quiet
<1>5. JobInv(q) /\ InsertInv(q) => InsertInv(q)'
  <2> SUFFICES ASSUME JobInv(q), InsertInv(q), job'[q].gen = gen'[c], 
                      NEW e \in job[q].buf
               PROVE  \E r \in rows' \union txRows'[q] : r.ev = e
    BY DEF InsertInv, Quiet
  <2>1. job[q].gen = gen'[c] /\ job[q].gen <= gen[c]
    BY DEF Quiet, JobInv
  <2>2. /\ gen'[c] = gen[c]
        /\ \A r \in rows : r.ev.contract = c => r \in rows'
    BY <2>1, <1>g DEF Grown
  <2>3. e.contract = c
    BY DEF JobInv
  <2>4. PICK r \in rows \union txRows[q] : r.ev = e
    BY <2>1, <2>2 DEF InsertInv
  <2>5. QED
    BY <2>2, <2>3, <2>4 DEF Quiet
<1>6. {"progress", "commit"} \subseteq Calls
  BY DEF Calls, Drained, Tx
<1>7. QED
  BY <1>1, <1>2, <1>3, <1>4, <1>5, <1>6 DEF GoroutineInv, Quiet

\* The rest of the invariant, under the same kind of step.
LEMMA StoreKept ==
    ASSUME TypeOK, TypeOK', ChainInv, TipInv, NoSilentLoss,
           UNCHANGED rpcVars, UNCHANGED <<last, rows>>,
           \A c \in Contracts : Grown(c) /\ gen'[c] = gen[c],
           \A p \in Pollers : txRows'[p] \subseteq txRows[p]
    PROVE  ChainInv' /\ TipInv' /\ NoSilentLoss'
<1>1. ChainInv'
  BY DEF ChainInv, rpcVars, SameKey
<1>2. TipInv'
  BY DEF TipInv, rpcVars
<1>3. ASSUME NEW c \in Contracts, ~stale'[c]
      PROVE  Covered(c, last[c])'
  <2>1. gen'[c] = gen[c] /\ gen[c] \in Nat
    BY DEF TypeOK, StoreTypeOK
  <2>2. /\ ~stale[c]
        /\ \A r \in rows : r.ev.contract = c => r \in rows'
        /\ skipped[c] \subseteq skipped'[c]
    BY <1>3, <2>1 DEF Grown
  <2>3. Covered(c, last[c])
    BY <2>2 DEF NoSilentLoss
  <2>4. QED
    BY <2>2, <2>3 DEF Covered, Stored, rpcVars
<1>4. QED
  BY <1>1, <1>2, <1>3 DEF NoSilentLoss

\* A tick that ends without a commit, for whatever reason, in success, in
\* failure or with the goroutine.
LEMMA EndKept ==
    ASSUME IInv, TypeOK', NEW p \in Pollers,
           (\E ok \in BOOLEAN : EndTick(p, ok)) \/ Return(p),
           UNCHANGED <<rpcVars, tracked, last, first, rows, gen, histVars>>
    PROVE  IInv'
<1> USE DEF IInv
<1>1. /\ pc' = [pc EXCEPT ![p] = pc'[p]]
      /\ pc'[p] \in {"idle", "stopped"}
      /\ job' = [job EXCEPT ![p] = NoJob]
      /\ txRows' = [txRows EXCEPT ![p] = {}]
  BY DEF EndTick, Return, TypeOK
<1>2. \A c \in Contracts : Grown(c) /\ gen'[c] = gen[c]
  BY DEF Grown, histVars
<1>3. \A q \in Pollers \ {p} : Quiet(q)
  BY <1>1 DEF Quiet, TypeOK, StoreTypeOK
<1>4. \A q \in Pollers : txRows'[q] \subseteq txRows[q]
  BY <1>1 DEF TypeOK, StoreTypeOK
<1>5. ASSUME NEW q \in Pollers PROVE GoroutineInv(q)'
  <2>1. CASE q = p
    BY <1>1, <2>1 DEF GoroutineInv, Calls, Drained, Tx
  <2>2. CASE q # p
    <3>1. Quiet(q) /\ GoroutineInv(q) /\ Assigned[q] \in Contracts
      BY <1>3, <2>2, PollerAssumption DEF TickInv
    <3>2. QED
      BY <1>2, <3>1, QuietKept DEF rpcVars
  <2>3. QED
    BY <2>1, <2>2
<1>6. ChainInv' /\ TipInv' /\ NoSilentLoss'
  BY <1>2, <1>4, StoreKept
<1>7. QED
  BY <1>5, <1>6 DEF TickInv

\* A step of p that writes nothing to the store: it is enough that what the
\* tick has in hand is accounted for.
LEMMA MoveKept ==
    ASSUME IInv, TypeOK', NEW p \in Pollers,
           UNCHANGED <<rpcVars, last, rows, txRows, gen, stale>>,
           \A c \in Contracts : skipped[c] \subseteq skipped'[c],
           \A q \in Pollers \ {p} : pc'[q] = pc[q] /\ job'[q] = job[q],
           GoroutineInv(p)'
    PROVE  IInv'
<1> USE DEF IInv
<1>2. \A c \in Contracts : Grown(c) /\ gen'[c] = gen[c]
  BY DEF Grown
<1>3. ASSUME NEW q \in Pollers PROVE GoroutineInv(q)'
  <2>1. CASE q = p
    BY <2>1
  <2>2. CASE q # p
    <3>1. Quiet(q) /\ GoroutineInv(q) /\ Assigned[q] \in Contracts
      BY <2>2, PollerAssumption DEF TickInv, Quiet
    <3>2. QED
      BY <1>2, <3>1, QuietKept DEF rpcVars
  <2>3. QED
    BY <2>1, <2>2
<1>4. ChainInv' /\ TipInv' /\ NoSilentLoss'
  BY <1>2, StoreKept
<1>5. QED
  BY <1>3, <1>4 DEF TickInv

\* tickOnce begins from the stored progress, which accounts for the past.
LEMMA TickStartKept ==
    ASSUME IInv, TypeOK', NEW p \in Pollers, TickStart(p)
    PROVE  IInv'
<1> DEFINE c == Assigned[p]
<1> USE DEF IInv
<1>c. c \in Contracts /\ last[c] \in Nat /\ gen[c] \in Nat /\ tip \in Nat
  BY PollerAssumption DEF TypeOK, StoreTypeOK, RpcTypeOK
<1>1. /\ pc'[p] = "getEvents"
      /\ job'[p] = [start |-> last[c] + 1, low |-> last[c] + 1,
                    from |-> AtLedger(last[c] + 1), buf |-> {}, high |-> 0,
                    gen |-> gen[c], side |-> "none"]
      /\ \A q \in Pollers \ {p} : pc'[q] = pc[q] /\ job'[q] = job[q]
      /\ UNCHANGED <<rpcVars, storeVars, histVars>>
  BY DEF TickStart, DrainFrom, TypeOK
<1>2. JobInv(p)'
  BY <1>1, <1>c DEF JobInv, TipInv, rpcVars, storeVars
<1>3. BeforeInv(p)'
  <2>1. job'[p].low - 1 = last[c]
    BY <1>1, <1>c
  <2>2. ~stale[c] => Covered(c, last[c])
    BY <1>c DEF NoSilentLoss
  <2>3. ~stale[c] => Covered(c, last[c])'
    BY <1>1, <2>2 DEF Covered, Stored, rpcVars, storeVars, histVars
  <2>4. last'[c] = last[c] /\ stale'[c] = stale[c]
    BY <1>1 DEF storeVars, histVars
  <2>5. QED
    BY <2>1, <2>3, <2>4 DEF BeforeInv, Current, Covered
<1>4. DrainInv(p)'
  <2>1. \A e \in chain : e.ledger \in Nat /\ e.index \in Nat
    BY DEF TypeOK, RpcTypeOK, Event
  <2>2. \A e \in chain : e.ledger >= last[c] + 1 => ~Before(e, AtLedger(last[c] + 1))
    BY <2>1, <1>c DEF Before, AtLedger
  <2>3. QED
    BY <1>1, <1>c, <2>2 DEF DrainInv, AtLedger, TipInv, rpcVars
<1>5. GoroutineInv(p)'
  BY <1>1, <1>2, <1>3, <1>4 DEF GoroutineInv, Drained, Tx
<1>6. QED
  BY <1>1, <1>5, MoveKept DEF storeVars, histVars

\* A full page extends what is in hand up to its last event, a short page to
\* the end of the chain: Matching holds all that lies at or after from.
LEMMA AppendHand ==
    ASSUME IInv, NEW p \in Pollers, NEW from,
           NEW page \in SUBSET Matching(Assigned[p], job[p].from),
           AppendPage(p, page, from)
    PROVE  /\ job'[p].buf = Kept(p, page)
           /\ job'[p].from = from
           /\ job'[p].high \in Nat
           /\ \A e \in Kept(p, page) : e.ledger <= job'[p].high
           /\ job'[p].high = 0 \/ \E e \in Kept(p, page) : e.ledger = job'[p].high
           /\ job'[p].start = job[p].start
           /\ job'[p].low = job[p].low
           /\ job'[p].gen = job[p].gen
           /\ job'[p].side = job[p].side
           /\ \A q \in Pollers \ {p} : job'[q] = job[q]
<1> USE DEF IInv
<1>1. PICK h \in {0} \union {e.ledger : e \in Kept(p, page)} :
        /\ \A e \in Kept(p, page) : e.ledger <= h
        /\ job' = [job EXCEPT ![p] = [@ EXCEPT !.buf = Kept(p, page),
                                             !.high = h, !.from = from]]
  BY DEF AppendPage
<1>2. h \in Nat
  <2>1. Kept(p, page) \subseteq Event
    BY KeptType, PageInChain
  <2>2. QED
    BY <1>1, <2>1 DEF Event
<1>3. job[p] \in Job
  BY DEF TypeOK
<1>4. job'[p] = [job[p] EXCEPT !.buf = Kept(p, page), !.high = h, !.from = from]
  BY <1>1 DEF TypeOK
<1>5. \A q \in Pollers \ {p} : job'[q] = job[q]
  BY <1>1 DEF TypeOK
<1>6. h = 0 \/ \E e \in Kept(p, page) : e.ledger = h
  BY <1>1
<1>7. /\ job'[p].buf = Kept(p, page) /\ job'[p].from = from /\ job'[p].high = h
      /\ job'[p].start = job[p].start /\ job'[p].low = job[p].low
      /\ job'[p].gen = job[p].gen /\ job'[p].side = job[p].side
  BY <1>3, <1>4 DEF Job
<1>8. QED
  BY <1>1, <1>2, <1>5, <1>6, <1>7

LEMMA AppendJob ==
    ASSUME IInv, NEW p \in Pollers, NEW from, pc[p] \in Calls,
           NEW page \in SUBSET Matching(Assigned[p], job[p].from),
           AppendPage(p, page, from), UNCHANGED <<rpcVars, storeVars, histVars>>
    PROVE  JobInv(p)' /\ BeforeInv(p)'
<1> USE DEF IInv
<1>1. JobInv(p) /\ BeforeInv(p)
  BY DEF TickInv, GoroutineInv
<1>2. \A e \in Kept(p, page) : e \in chain /\ e.contract = Assigned[p] /\ e.good
  BY <1>1 DEF Kept, JobInv, Matching
<1>3. job'[p].high <= tip
  <2>1. \A e \in chain : e.ledger <= tip
    BY DEF TypeOK, RpcTypeOK
  <2>2. tip \in Nat
    BY DEF TypeOK, RpcTypeOK
  <2>3. QED
    BY <1>2, <2>1, <2>2, AppendHand
<1>4. JobInv(p)'
  BY <1>1, <1>2, <1>3, AppendHand DEF JobInv, rpcVars, storeVars
<1>5. BeforeInv(p)'
  <2>1. job'[p].low = job[p].low /\ job'[p].gen = job[p].gen
    BY AppendHand
  <2>2. QED
    BY <1>1, <2>1 DEF BeforeInv, Current, Covered, Stored, rpcVars, storeVars, histVars
<1>6. QED
  BY <1>4, <1>5

\* An event in the window's part of the chain that lies before a read of it
\* was in hand already; one that does not is among those the read matches.
LEMMA HandOrMatching ==
    ASSUME IInv, NEW p \in Pollers, pc[p] = "getEvents", ~OutOfRange(job[p].from),
           NEW e \in chain, e.contract = Assigned[p], e.good,
           e.ledger >= job[p].low
    PROVE  e \in job[p].buf \/ e \in Matching(Assigned[p], job[p].from)
<1> USE DEF IInv
<1>1. DrainInv(p)
  BY DEF TickInv, GoroutineInv
<1>2. CASE Before(e, job[p].from)
  BY <1>1, <1>2 DEF DrainInv
<1>3. CASE ~Before(e, job[p].from)
  <2>1. e.ledger \in Nat /\ job[p].from.ledger \in Nat /\ floor \in Nat /\ tip \in Nat
    BY DEF TypeOK, RpcTypeOK, Event, Job, Position
  <2>2. job[p].from.ledger >= floor
    BY <2>1 DEF OutOfRange
  <2>3. e.ledger >= floor
    BY <1>3, <2>1, <2>2 DEF Before
  <2>4. QED
    BY <1>3, <2>3 DEF Matching
<1>4. QED
  BY <1>2, <1>3

LEMMA FullPageKept ==
    ASSUME IInv, TypeOK', NEW p \in Pollers, GetEventsFullPage(p)
    PROVE  IInv'
<1> USE DEF IInv
<1>u. UNCHANGED <<rpcVars, storeVars, histVars>> /\ pc' = pc /\ pc[p] = "getEvents"
      /\ ~OutOfRange(job[p].from)
  BY DEF GetEventsFullPage
<1>0. PICK page \in SUBSET Matching(Assigned[p], job[p].from) :
        /\ IsPage(page, Assigned[p], job[p].from, BatchSize)
        /\ \E e \in page : /\ \A f \in page : ~Before(e, f)
                           /\ AppendPage(p, page, JustAfter(e))
  BY DEF GetEventsFullPage
<1>1. PICK e \in page : /\ \A f \in page : ~Before(e, f)
                       /\ AppendPage(p, page, JustAfter(e))
  BY <1>0
<1>2. JobInv(p)' /\ BeforeInv(p)'
  BY <1>u, <1>1, AppendJob DEF Calls
<1>3. e \in chain /\ \A x \in chain : x.ledger \in Nat /\ x.index \in Nat
  BY PageInChain DEF TypeOK, RpcTypeOK, Event
<1>4. DrainInv(p)'
  <2>1. job'[p].from = JustAfter(e) /\ job'[p].buf = Kept(p, page)
        /\ job'[p].low = job[p].low
    BY <1>1, AppendHand
  <2>2. e.ledger <= tip /\ tip \in Nat
    BY <1>3 DEF TypeOK, RpcTypeOK
  <2>3. ASSUME NEW x \in chain, x.contract = Assigned[p], x.good,
               x.ledger >= job[p].low, Before(x, JustAfter(e))
        PROVE  x \in Kept(p, page)
    <3>1. CASE x \in job[p].buf
      BY <3>1 DEF Kept
    <3>2. CASE x \in page
      BY <2>3, <3>2 DEF Kept
    <3>3. CASE x \in Matching(Assigned[p], job[p].from) \ page
      <4>1. Before(e, x)
        BY <1>0, <1>1, <3>3 DEF IsPage
      <4>2. QED
        BY <1>3, <2>3, <4>1 DEF Before, JustAfter
    <3>4. QED
      BY <1>u, <2>3, <3>1, <3>2, <3>3, HandOrMatching
  <2>4. QED
    BY <1>u, <1>3, <2>1, <2>2, <2>3 DEF DrainInv, JustAfter, rpcVars
<1>5. GoroutineInv(p)'
  BY <1>u, <1>2, <1>4 DEF GoroutineInv, Drained, Tx
<1>6. QED
  BY <1>u, <1>1, <1>5, AppendHand, MoveKept DEF storeVars, histVars

LEMMA LastPageKept ==
    ASSUME IInv, TypeOK', NEW p \in Pollers, GetEventsLastPage(p)
    PROVE  IInv'
<1> USE DEF IInv
<1>u. /\ UNCHANGED <<rpcVars, storeVars, histVars>>
      /\ pc' = [pc EXCEPT ![p] = "begin"]
      /\ pc[p] = "getEvents"
      /\ ~OutOfRange(job[p].from)
  BY DEF GetEventsLastPage
<1>1. PICK page \in SUBSET Matching(Assigned[p], job[p].from) :
        /\ IsPage(page, Assigned[p], job[p].from, BatchSize)
        /\ Cardinality(page) < BatchSize
        /\ AppendPage(p, page, job[p].from)
  BY DEF GetEventsLastPage
<1>2. JobInv(p)' /\ BeforeInv(p)'
  BY <1>u, <1>1, AppendJob DEF Calls
<1>3. page = Matching(Assigned[p], job[p].from)
  BY <1>1 DEF IsPage
<1>4. BatchInv(p)'
  <2>1. job'[p].buf = Kept(p, page) /\ job'[p].low = job[p].low
    BY <1>1, AppendHand
  <2>2. job[p].low \in Nat /\ job'[p].high \in Nat
    BY DEF TypeOK, Job
  <2>3. ASSUME NEW x \in chain, x.contract = Assigned[p], x.good,
               x.ledger \in job'[p].low .. job'[p].high
        PROVE  x \in Kept(p, page)
    <3>1. x.ledger >= job[p].low
      BY <2>1, <2>2, <2>3
    <3>2. x \in job[p].buf \/ x \in page
      BY <1>u, <1>3, <2>3, <3>1, HandOrMatching
    <3>3. QED
      BY <2>3, <3>2 DEF Kept
  <2>4. QED
    BY <1>u, <2>1, <2>3 DEF BatchInv, rpcVars
<1>5. pc'[p] = "begin" /\ \A q \in Pollers \ {p} : pc'[q] = pc[q]
  BY <1>u DEF TypeOK
<1>6. GoroutineInv(p)'
  BY <1>2, <1>4, <1>5 DEF GoroutineInv
<1>7. QED
  BY <1>u, <1>1, <1>5, <1>6, AppendHand, MoveKept DEF storeVars, histVars

\* The rejected read keeps what the tick knows of the past.
LEMMA RejectedKept ==
    ASSUME IInv, TypeOK', NEW p \in Pollers, GetEventsRejected(p)
    PROVE  IInv'
<1> USE DEF IInv
<1>1. CASE EndTick(p, FALSE)
  BY <1>1, EndKept DEF GetEventsRejected
<1>2. CASE ~EndTick(p, FALSE)
  <2>1. PICK x \in {"none", "low", "high"} :
             job' = [job EXCEPT ![p] = [@ EXCEPT !.side = x]]
    BY <1>2 DEF GetEventsRejected
  <2>2. job[p] \in Job
    BY DEF TypeOK
  <2>3. job'[p] = [job[p] EXCEPT !.side = x]
    BY <2>1 DEF TypeOK
  <2>4. /\ job'[p].low = job[p].low /\ job'[p].gen = job[p].gen
        /\ job'[p].buf = job[p].buf /\ job'[p].high = job[p].high
        /\ job'[p].start = job[p].start
    BY <2>2, <2>3 DEF Job
  <2>5. /\ pc' = [pc EXCEPT ![p] = "getHealth"]
        /\ pc[p] = "getEvents"
        /\ UNCHANGED <<rpcVars, storeVars, histVars>>
    BY <1>2 DEF GetEventsRejected, storeVars
  <2>6. pc'[p] = "getHealth" /\ \A q \in Pollers \ {p} : pc'[q] = pc[q]
    BY <2>5 DEF TypeOK
  <2>7. JobInv(p) /\ BeforeInv(p)
    BY <2>5 DEF TickInv, GoroutineInv, Calls
  <2>8. JobInv(p)' /\ BeforeInv(p)'
    BY <2>4, <2>5, <2>7
    DEF JobInv, BeforeInv, Current, Covered, Stored, rpcVars, storeVars, histVars
  <2>9. GoroutineInv(p)'
    <3>1. job[p].low = job[p].start
      BY <1>2 DEF GetEventsRejected
    <3>2. QED
      BY <2>4, <2>6, <2>8, <3>1 DEF GoroutineInv, Drained, Tx
  <2>10. \A q \in Pollers \ {p} : job'[q] = job[q]
    BY <2>1 DEF TypeOK
  <2>11. QED
    BY <2>5, <2>6, <2>9, <2>10, MoveKept DEF storeVars, histVars
<1>3. QED
  BY <1>1, <1>2

\* The gap is reported before the second drain starts past it.
LEMMA BelowFloorKept ==
    ASSUME IInv, TypeOK', NEW p \in Pollers, GetHealthBelowFloor(p)
    PROVE  IInv'
<1> USE DEF IInv
<1> DEFINE c == Assigned[p]
<1>c. c \in Contracts /\ tip \in Nat /\ floor \in Nat /\ job[p].start \in Nat
      /\ job[p].low \in Nat
  BY PollerAssumption DEF TypeOK, RpcTypeOK, Job
<1>1. /\ pc[p] = "getHealth"
      /\ pc'[p] = "getEvents"
      /\ job'[p] = [start |-> job[p].start, low |-> floor, from |-> AtLedger(floor),
                    buf |-> {}, high |-> 0, gen |-> job[p].gen, side |-> "none"]
      /\ \A q \in Pollers \ {p} : pc'[q] = pc[q] /\ job'[q] = job[q]
      /\ UNCHANGED <<rpcVars, storeVars, stale>>
      /\ skipped' = [skipped EXCEPT ![c] = @ \union (job[p].start .. floor - 1)]
  BY DEF GetHealthBelowFloor, DrainFrom, TypeOK
<1>2. JobInv(p) /\ BeforeInv(p)
  BY <1>1 DEF TickInv, GoroutineInv, Calls
<1>3. JobInv(p)'
  BY <1>1, <1>2, <1>c DEF JobInv, TipInv, rpcVars, storeVars
<1>4. \A d \in Contracts : skipped[d] \subseteq skipped'[d]
  BY <1>1 DEF TypeOK
<1>5. BeforeInv(p)'
  <2> SUFFICES ASSUME Current(p), NEW e \in chain, e.contract = c, e.good,
                      e.ledger <= floor - 1
               PROVE  e \in Stored(c) \/ e.ledger \in skipped'[c]
    BY <1>1, <1>c DEF BeforeInv, Current, Covered, Stored, rpcVars, storeVars
  <2>1. e.ledger \in Nat
    BY DEF TypeOK, RpcTypeOK, Event
  <2>2. CASE e.ledger <= job[p].low - 1
    BY <1>2, <1>4, <1>c, <2>2 DEF BeforeInv, Covered
  <2>3. CASE e.ledger >= job[p].start
    BY <1>1, <1>c, <2>1, <2>3 DEF TypeOK
  <2>4. job[p].start = job[p].low
    BY <1>1 DEF TickInv, GoroutineInv
  <2>5. QED
    BY <1>c, <2>1, <2>2, <2>3, <2>4
<1>6. DrainInv(p)'
  <2>1. \A e \in chain : e.ledger \in Nat /\ e.index \in Nat
    BY DEF TypeOK, RpcTypeOK, Event
  <2>2. \A e \in chain : e.ledger >= floor => ~Before(e, AtLedger(floor))
    BY <2>1, <1>c DEF Before, AtLedger
  <2>3. QED
    BY <1>1, <1>c, <2>2 DEF DrainInv, AtLedger, TipInv, rpcVars
<1>7. GoroutineInv(p)'
  BY <1>1, <1>3, <1>5, <1>6 DEF GoroutineInv, Drained, Tx
<1>8. QED
  BY <1>1, <1>4, <1>7, MoveKept DEF storeVars

LEMMA BeginKept ==
    ASSUME IInv, TypeOK', NEW p \in Pollers, Begin(p)
    PROVE  IInv'
<1> USE DEF IInv
<1>1. /\ pc[p] = "begin" /\ pc'[p] = "insert" /\ job' = job
      /\ \A q \in Pollers \ {p} : pc'[q] = pc[q]
      /\ UNCHANGED <<rpcVars, last, rows, txRows, gen, histVars>>
  BY DEF Begin, TypeOK
<1>2. JobInv(p) /\ BeforeInv(p) /\ BatchInv(p)
  BY <1>1 DEF TickInv, GoroutineInv, Calls, Drained
<1>3. GoroutineInv(p)'
  BY <1>1, <1>2 DEF GoroutineInv, JobInv, BeforeInv, BatchInv, Current, Covered,
                    Stored, rpcVars, histVars
<1>4. QED
  BY <1>1, <1>3, MoveKept DEF histVars

\* An event the INSERT leaves out has a committed row under its key, and that
\* row is the event's own: keys are unique on the chain.
LEMMA InsertKept ==
    ASSUME IInv, TypeOK', NEW p \in Pollers, Insert(p)
    PROVE  IInv'
<1> USE DEF IInv
<1>1. /\ pc[p] = "insert" /\ pc'[p] = "progress" /\ job' = job
      /\ \A q \in Pollers \ {p} : pc'[q] = pc[q]
      /\ UNCHANGED <<rpcVars, last, rows, gen, histVars>>
  BY DEF Insert, TypeOK
<1>2. PICK b \in 1 .. MaxRowBatch : txRows' = [txRows EXCEPT ![p] = FreshRows(job[p].buf, b)]
  BY DEF Insert
<1>3. /\ txRows'[p] = FreshRows(job[p].buf, b)
      /\ \A q \in Pollers \ {p} : txRows'[q] = txRows[q]
  BY <1>2 DEF TypeOK, StoreTypeOK
<1>4. JobInv(p) /\ BeforeInv(p) /\ BatchInv(p)
  BY <1>1 DEF TickInv, GoroutineInv, Calls, Drained, Tx
<1>5. \A e \in job[p].buf : \E r \in rows \union txRows'[p] : r.ev = e
  <2> TAKE e \in job[p].buf
  <2>1. e \in chain
    BY <1>4 DEF JobInv
  <2>2. CASE \A r \in rows : ~SameKey(r.ev, e)
    <3>1. [ev |-> e, batch |-> b] \in FreshRows(job[p].buf, b)
      BY <2>2 DEF FreshRows
    <3>2. QED
      BY <1>3, <3>1
  <2>3. CASE \E r \in rows : SameKey(r.ev, e)
    BY <2>1, <2>3 DEF ChainInv
  <2>4. QED
    BY <2>2, <2>3
<1>6. GoroutineInv(p)'
  BY <1>1, <1>4, <1>5 DEF GoroutineInv, JobInv, BeforeInv, BatchInv, InsertInv, Current,
                    Covered, Stored, rpcVars, histVars
<1>7. \A c \in Contracts : Grown(c) /\ gen'[c] = gen[c]
  BY <1>1 DEF Grown, histVars
<1>8. ASSUME NEW q \in Pollers PROVE GoroutineInv(q)'
  <2>1. CASE q = p
    BY <1>6, <2>1
  <2>2. CASE q # p
    <3>1. Quiet(q) /\ GoroutineInv(q) /\ Assigned[q] \in Contracts
      BY <1>1, <1>3, <2>2, PollerAssumption DEF TickInv, Quiet
    <3>2. QED
      BY <1>1, <1>7, <3>1, QuietKept DEF rpcVars
  <2>3. QED
    BY <2>1, <2>2
<1>9. ChainInv'
  <2>1. \A r \in txRows'[p] : r.ev \in chain
    BY <1>3, <1>4 DEF FreshRows, JobInv
  <2>2. QED
    BY <1>1, <1>3, <2>1 DEF ChainInv, rpcVars, SameKey
<1>10. TipInv'
  BY <1>1 DEF TipInv, rpcVars
<1>11. NoSilentLoss'
  BY <1>1 DEF NoSilentLoss, Covered, Stored, rpcVars, histVars
<1>12. QED
  BY <1>8, <1>9, <1>10, <1>11 DEF TickInv

LEMMA SetProgressKept ==
    ASSUME IInv, TypeOK', NEW p \in Pollers, SetProgress(p)
    PROVE  IInv'
<1> USE DEF IInv
<1>1. /\ pc[p] = "progress" /\ pc'[p] = "commit" /\ job' = job
      /\ \A q \in Pollers \ {p} : pc'[q] = pc[q]
      /\ UNCHANGED <<rpcVars, storeVars, histVars>>
  BY DEF SetProgress, TypeOK
<1>2. JobInv(p) /\ BeforeInv(p) /\ BatchInv(p) /\ InsertInv(p)
  BY <1>1 DEF TickInv, GoroutineInv, Calls, Drained, Tx
<1>3. GoroutineInv(p)'
  BY <1>1, <1>2 DEF GoroutineInv, JobInv, BeforeInv, BatchInv, InsertInv, Current, Covered,
                    Stored, rpcVars, storeVars, histVars
<1>4. QED
  BY <1>1, <1>3, MoveKept DEF storeVars, histVars

\* The commit: what the new progress passes lies before the drain, where it
\* was accounted for, or in the batch, which has its rows.
LEMMA CommitKept ==
    ASSUME IInv, TypeOK', NEW p \in Pollers, pc[p] = "commit", CommitWrites(p),
           \E ok \in BOOLEAN : EndTick(p, ok),
           UNCHANGED <<rpcVars, gen, skipped>>
    PROVE  IInv'
<1> USE DEF IInv
<1> DEFINE c == Assigned[p]
<1>c. c \in Contracts
  BY PollerAssumption
<1>1. /\ pc' = [pc EXCEPT ![p] = "idle"]
      /\ job' = [job EXCEPT ![p] = NoJob]
      /\ txRows' = [txRows EXCEPT ![p] = {}]
  BY DEF EndTick
<1>2. /\ rows' = rows \union txRows[p]
      /\ last' = [last EXCEPT ![c] = job[p].high]
      /\ stale' = [stale EXCEPT ![c] = @ \/ job[p].gen # gen[c]]
  BY DEF CommitWrites
<1>3. JobInv(p) /\ BeforeInv(p) /\ BatchInv(p) /\ InsertInv(p)
  BY DEF TickInv, GoroutineInv, Calls, Drained, Tx
<1>4. \A d \in Contracts : Grown(d) /\ gen'[d] = gen[d]
  <2> TAKE d \in Contracts
  <2>1. stale[d] => stale'[d]
    BY <1>2, <1>c DEF TypeOK
  <2>2. QED
    BY <1>2, <2>1 DEF Grown
<1>5. ASSUME NEW q \in Pollers PROVE GoroutineInv(q)'
  <2>1. CASE q = p
    BY <1>1, <2>1 DEF GoroutineInv, Calls, Drained, Tx, TypeOK
  <2>2. CASE q # p
    <3>1. Quiet(q) /\ GoroutineInv(q) /\ Assigned[q] \in Contracts
      BY <1>1, <2>2, PollerAssumption DEF TickInv, Quiet, TypeOK, StoreTypeOK
    <3>2. QED
      BY <1>4, <3>1, QuietKept DEF rpcVars
  <2>3. QED
    BY <2>1, <2>2
<1>6. ChainInv'
  BY <1>1, <1>2 DEF ChainInv, rpcVars, SameKey, TypeOK, StoreTypeOK
<1>7. TipInv'
  BY <1>2, <1>3, <1>c DEF TipInv, rpcVars, JobInv, TypeOK, StoreTypeOK
<1>8. ASSUME NEW d \in Contracts, ~stale'[d] PROVE Covered(d, last[d])'
  <2>1. ~stale[d]
    BY <1>2, <1>8, <1>c DEF TypeOK
  <2>2. CASE d # c
    <3>1. last'[d] = last[d]
      BY <1>2, <2>2 DEF TypeOK, StoreTypeOK
    <3>2. QED
      BY <1>2, <2>1, <3>1 DEF NoSilentLoss, Covered, Stored, rpcVars
  <2>3. CASE d = c
    <3>1. last'[c] = job[p].high /\ job[p].gen = gen[c]
      BY <1>2, <1>8, <2>3, <1>c DEF TypeOK, StoreTypeOK
    <3>2. Covered(c, job[p].low - 1)
      BY <1>3, <2>1, <2>3, <3>1 DEF BeforeInv, Current
    <3>3. ASSUME NEW e \in chain, e.contract = c, e.good, e.ledger <= job[p].high
          PROVE  (\E r \in rows' : r.ev = e) \/ e.ledger \in skipped[c]
      <4>1. e.ledger \in Nat /\ job[p].low \in Nat /\ job[p].high \in Nat
        BY DEF TypeOK, RpcTypeOK, Event, Job
      <4>2. CASE e.ledger <= job[p].low - 1
        BY <1>2, <3>2, <3>3, <4>2 DEF Covered, Stored
      <4>3. CASE e.ledger \in job[p].low .. job[p].high
        <5>1. e \in job[p].buf
          BY <1>3, <3>3, <4>3 DEF BatchInv
        <5>2. QED
          BY <1>2, <1>3, <3>1, <5>1 DEF InsertInv
      <4>4. QED
        BY <3>3, <4>1, <4>2, <4>3
    <3>4. QED
      BY <2>3, <3>1, <3>3 DEF Covered, Stored, rpcVars
  <2>4. QED
    BY <2>2, <2>3
<1>9. QED
  BY <1>5, <1>6, <1>7, <1>8 DEF TickInv, NoSilentLoss

\* Every call of a tick keeps the invariant.
LEMMA StepKept ==
    ASSUME IInv, TypeOK', NEW p \in Pollers, Step(p)
    PROVE  IInv'
<1> USE DEF procVars, tickVars
<1>1. CASE TickNotFound(p) \/ GetEventsNothing(p) \/ GetHealthCaughtUp(p)
           \/ GetHealthInWindow(p) \/ InsertFails(p) \/ SetProgressNotFound(p)
  BY <1>1, EndKept
  DEF TickNotFound, GetEventsNothing, GetHealthCaughtUp, GetHealthInWindow, InsertFails,
      SetProgressNotFound
<1>2. CASE Commit(p)
  BY <1>2, CommitKept DEF Commit
<1>3. QED
  BY <1>1, <1>2, TickStartKept, FullPageKept, LastPageKept, RejectedKept,
     BelowFloorKept, BeginKept, InsertKept, SetProgressKept
  DEF Step

LEMMA TroubleKept ==
    ASSUME IInv, TypeOK', NEW p \in Pollers, PollerFault(p) \/ Cancelled(p)
    PROVE  IInv'
<1>1. CASE RpcFault(p)
  BY <1>1, EndKept DEF RpcFault
<1>2. CASE DbFault(p)
  BY <1>2, EndKept DEF DbFault
<1>3. CASE CommitUnacknowledged(p)
  BY <1>3, CommitKept DEF CommitUnacknowledged
<1>4. CASE Cancelled(p)
  BY <1>4, EndKept DEF Cancelled
<1>5. QED
  BY <1>1, <1>2, <1>3, <1>4 DEF PollerFault

\* A ledger that closes lies past everything read and past all progress; its
\* ordinals are its own.
LEMMA CloseLedgerKept ==
    ASSUME IInv, TypeOK', CloseLedger,
           UNCHANGED <<storeVars, tickVars, histVars>>
    PROVE  IInv'
<1> USE DEF IInv
<1> DEFINE new == chain' \ chain
<1>1. /\ tip' = tip + 1
      /\ floor' = floor
      /\ tip \in Nat
  BY DEF CloseLedger, TypeOK, RpcTypeOK
<1>2. /\ chain \subseteq chain'
      /\ \A e \in new : e.ledger = tip + 1
      /\ \A e, f \in new : e.index = f.index => e = f
  <2>1. PICK n \in 0 .. PerLedger :
          \E from \in [0 .. n - 1 -> Contracts], good \in [0 .. n - 1 -> Decodable] :
            chain' = chain \union
                {[ledger |-> tip + 1, index |-> i,
                  contract |-> from[i], good |-> good[i]] : i \in 0 .. n - 1}
    BY DEF CloseLedger
  <2>2. PICK from \in [0 .. n - 1 -> Contracts], good \in [0 .. n - 1 -> Decodable] :
            chain' = chain \union
                {[ledger |-> tip + 1, index |-> i,
                  contract |-> from[i], good |-> good[i]] : i \in 0 .. n - 1}
    BY <2>1
  <2>3. QED
    BY <2>2
<1>3. \A e \in chain : e.ledger \in Nat /\ e.ledger <= tip /\ e.index \in Nat
  BY DEF TypeOK, RpcTypeOK, Event
<1>4. \A e \in new : e.index \in Nat
  BY DEF TypeOK, RpcTypeOK, Event
<1>5. ChainInv'
  <2>1. ASSUME NEW e \in chain', NEW f \in chain', SameKey(e, f)
        PROVE  e = f
    <3>1. CASE e \in chain /\ f \in chain
      BY <2>1, <3>1 DEF ChainInv
    <3>2. CASE e \in new /\ f \in new
      BY <1>2, <2>1, <3>2 DEF SameKey
    <3>3. CASE (e \in new /\ f \in chain) \/ (e \in chain /\ f \in new)
      BY <1>1, <1>2, <1>3, <2>1, <3>3 DEF SameKey
    <3>4. QED
      BY <1>2, <3>1, <3>2, <3>3
  <2>2. \A e \in chain' : e.ledger > 0
    BY <1>1, <1>2 DEF ChainInv
  <2>3. \A r \in rows' : r.ev \in chain'
    BY <1>2 DEF ChainInv, storeVars
  <2>4. \A p \in Pollers : \A r \in txRows'[p] : r.ev \in chain'
    BY <1>2 DEF ChainInv, storeVars
  <2>5. QED
    BY <2>1, <2>2, <2>3, <2>4 DEF ChainInv, SameKey
<1>6. TipInv'
  BY <1>1 DEF TipInv, storeVars, TypeOK, RpcTypeOK, StoreTypeOK
<1>7. ASSUME NEW c \in Contracts, NEW l \in Int, l <= tip, Covered(c, l)
      PROVE  \A e \in chain' : e.contract = c /\ e.good /\ e.ledger <= l =>
                 e \in Stored(c)' \/ e.ledger \in skipped'[c]
  BY <1>1, <1>2, <1>7 DEF Covered, Stored, storeVars, histVars
<1>8. NoSilentLoss'
  <2>1. \A c \in Contracts : last[c] \in Int /\ last[c] <= tip
    BY DEF TypeOK, StoreTypeOK, TipInv
  <2>2. QED
    BY <1>7, <2>1 DEF NoSilentLoss, Covered, storeVars, histVars
<1>9. ASSUME NEW p \in Pollers PROVE GoroutineInv(p)'
  <2>1. GoroutineInv(p) /\ Assigned[p] \in Contracts /\ job[p] \in Job
    BY PollerAssumption DEF TickInv, TypeOK
  <2>2. /\ job[p].low \in Nat /\ job[p].high \in Nat /\ job[p].from \in Position
    BY <2>1 DEF Job
  <2>3. JobInv(p) => JobInv(p)'
    BY <1>1, <1>2, <2>2 DEF JobInv, storeVars, tickVars
  <2>4. JobInv(p) /\ BeforeInv(p) => BeforeInv(p)'
    <3>1. JobInv(p) => job[p].low - 1 \in Int /\ job[p].low - 1 <= tip
      BY <1>1, <2>2 DEF JobInv
    <3>2. QED
      BY <1>7, <2>1, <3>1 DEF BeforeInv, Current, Covered, storeVars, tickVars, histVars
  <2>5. DrainInv(p) => DrainInv(p)'
    <3> SUFFICES ASSUME DrainInv(p) PROVE DrainInv(p)'
      OBVIOUS
    <3>1. job[p].from.ledger \in Nat /\ job[p].from.index \in Nat
      BY <2>2 DEF Position
    <3>2. \A e \in new : ~Before(e, job[p].from)
      BY <1>1, <1>2, <1>4, <3>1 DEF DrainInv, Before
    <3>3. job[p].from.ledger <= tip' + 1 /\ job[p].from.ledger # tip' + 1
      BY <1>1, <3>1 DEF DrainInv
    <3>4. QED
      BY <3>2, <3>3 DEF DrainInv, tickVars
  <2>6. JobInv(p) /\ BatchInv(p) => BatchInv(p)'
    BY <1>1, <1>2, <2>2 DEF JobInv, BatchInv, tickVars
  <2>7. InsertInv(p) => InsertInv(p)'
    BY DEF InsertInv, storeVars, tickVars
  <2>8. QED
    BY <2>1, <2>3, <2>4, <2>5, <2>6, <2>7
    DEF GoroutineInv, tickVars, Calls, Drained, Tx
<1>10. QED
  BY <1>5, <1>6, <1>8, <1>9 DEF TickInv

LEMMA TrimLedgerKept ==
    ASSUME IInv, TypeOK', TrimLedger,
           UNCHANGED <<storeVars, tickVars, histVars>>
    PROVE  IInv'
<1> USE DEF IInv
<1>1. tip' = tip /\ chain' = chain /\ floor' <= tip
  BY DEF TrimLedger, TypeOK, RpcTypeOK
<1>2. ChainInv' /\ TipInv' /\ NoSilentLoss'
  BY <1>1 DEF ChainInv, SameKey, TipInv, NoSilentLoss, Covered, Stored, storeVars, histVars
<1>3. TickInv'
  BY <1>1
  DEF TickInv, GoroutineInv, JobInv, BeforeInv, Current, DrainInv, BatchInv, InsertInv,
      Covered, Stored, storeVars, tickVars, histVars
<1>4. QED
  BY <1>2, <1>3

\* A deletion raises the generation: its contract's progress and rows are
\* gone, and with them what any tick under way promised of it.
LEMMA DeleteKept ==
    ASSUME IInv, TypeOK', NEW c \in Contracts, Delete(c)
    PROVE  IInv'
<1> USE DEF IInv
<1>1. /\ last' = [last EXCEPT ![c] = 0]
      /\ rows' = {r \in rows : r.ev.contract # c}
      /\ gen' = [gen EXCEPT ![c] = @ + 1]
      /\ skipped' = [skipped EXCEPT ![c] = {}]
      /\ stale' = [stale EXCEPT ![c] = FALSE]
      /\ UNCHANGED <<rpcVars, txRows, tickVars>>
  BY DEF Delete, DeleteRow
<1>2. gen'[c] > gen[c]
  BY <1>1 DEF TypeOK, StoreTypeOK
<1>3. ASSUME NEW d \in Contracts, d # c
      PROVE  /\ Grown(d)
             /\ last'[d] = last[d]
             /\ stale'[d] = stale[d]
             /\ skipped'[d] = skipped[d]
  BY <1>1, <1>3 DEF Grown, TypeOK, StoreTypeOK
<1>4. ASSUME NEW q \in Pollers PROVE GoroutineInv(q)'
  <2>1. Quiet(q) /\ GoroutineInv(q) /\ Assigned[q] \in Contracts
    BY <1>1, PollerAssumption DEF TickInv, Quiet, tickVars
  <2>2. Grown(Assigned[q])
    BY <1>2, <1>3, <2>1 DEF Grown
  <2>3. QED
    BY <1>1, <2>1, <2>2, QuietKept DEF rpcVars
<1>5. ChainInv'
  BY <1>1 DEF ChainInv, rpcVars, SameKey
<1>6. TipInv'
  BY <1>1 DEF TipInv, rpcVars, TypeOK, StoreTypeOK, RpcTypeOK
<1>7. ASSUME NEW d \in Contracts, ~stale'[d] PROVE Covered(d, last[d])'
  <2>1. CASE d = c
    <3>1. last'[c] = 0
      BY <1>1 DEF TypeOK, StoreTypeOK
    <3>2. \A e \in chain' : e.ledger > 0 /\ e.ledger \in Nat
      BY <1>1 DEF ChainInv, rpcVars, TypeOK, RpcTypeOK, Event
    <3>3. QED
      BY <2>1, <3>1, <3>2 DEF Covered
  <2>2. CASE d # c
    BY <1>1, <1>3, <1>7, <2>2 DEF NoSilentLoss, Covered, Stored, rpcVars
  <2>3. QED
    BY <2>1, <2>2
<1>8. QED
  BY <1>4, <1>5, <1>6, <1>7 DEF TickInv, NoSilentLoss

LEMMA RegisterKept ==
    ASSUME IInv, TypeOK', NEW c \in Contracts, Register(c)
    PROVE  IInv'
<1> USE DEF IInv
<1>1. UNCHANGED <<rpcVars, last, rows, txRows, gen, tickVars, histVars>>
  BY DEF Register, RegisterRow
<1>2. \A d \in Contracts : Grown(d) /\ gen'[d] = gen[d]
  BY <1>1 DEF Grown, histVars
<1>3. ASSUME NEW q \in Pollers PROVE GoroutineInv(q)'
  <2>1. Quiet(q) /\ GoroutineInv(q) /\ Assigned[q] \in Contracts
    BY <1>1, PollerAssumption DEF TickInv, Quiet, tickVars
  <2>2. QED
    BY <1>1, <1>2, <2>1, QuietKept DEF rpcVars
<1>4. QED
  BY <1>1, <1>2, <1>3, StoreKept DEF TickInv

\* Startup and a crash leave no tick under way; a crash loses no committed row.
LEMMA ProcessKept ==
    ASSUME IInv, TypeOK', Startup \/ Crash
    PROVE  IInv'
<1> USE DEF IInv
<1>1. /\ UNCHANGED <<rpcVars, last, rows, gen, histVars>>
      /\ \A p \in Pollers : pc'[p] \in {"idle", "stopped"}
      /\ \A p \in Pollers : txRows'[p] \subseteq txRows[p]
  BY DEF Startup, Crash
<1>2. \A d \in Contracts : Grown(d) /\ gen'[d] = gen[d]
  BY <1>1 DEF Grown, histVars
<1>3. TickInv'
  BY <1>1 DEF TickInv, GoroutineInv, Calls, Drained, Tx
<1>4. QED
  BY <1>1, <1>2, <1>3, StoreKept

LEMMA FlagsKept ==
    ASSUME IInv, TypeOK', UNCHANGED <<rpcVars, storeVars, tickVars, histVars>>
    PROVE  IInv'
<1> USE DEF IInv
<1>1. UNCHANGED <<last, rows, txRows, gen, pc, job, chain, tip, skipped, stale>>
  BY DEF rpcVars, storeVars, tickVars, histVars
<1>2. \A d \in Contracts : Grown(d) /\ gen'[d] = gen[d]
  BY <1>1 DEF Grown
<1>3. ASSUME NEW q \in Pollers PROVE GoroutineInv(q)'
  <2>1. Quiet(q) /\ GoroutineInv(q) /\ Assigned[q] \in Contracts
    BY <1>1, PollerAssumption DEF TickInv, Quiet
  <2>2. QED
    BY <1>1, <1>2, <2>1, QuietKept
<1>4. QED
  BY <1>1, <1>2, <1>3, StoreKept DEF TickInv

LEMMA InitInv == Init => IInv
<1> SUFFICES ASSUME Init PROVE IInv
  OBVIOUS
<1>1. TypeOK
  BY InitType
<1>2. ChainInv /\ TipInv
  BY DEF Init, RpcInit, ChainInv, TipInv
<1>3. NoSilentLoss
  BY DEF Init, RpcInit, NoSilentLoss, Covered
<1>4. TickInv
  BY DEF Init, TickInv, GoroutineInv, Calls, Drained, Tx
<1>5. QED
  BY <1>1, <1>2, <1>3, <1>4 DEF IInv

LEMMA NextInv == IInv /\ [Next]_vars => IInv'
<1> SUFFICES ASSUME IInv, [Next]_vars PROVE IInv'
  OBVIOUS
<1>1. TypeOK'
  BY NextType DEF IInv
<1>2. ASSUME NEW p \in Pollers, Step(p) \/ PollerFault(p) \/ Cancelled(p)
      PROVE  IInv'
  BY <1>1, <1>2, StepKept, TroubleKept
<1>3. ASSUME NEW c \in Contracts, Register(c) \/ Delete(c)
      PROVE  IInv'
  BY <1>1, <1>3, RegisterKept, DeleteKept
<1>4. CASE Node
  BY <1>1, <1>4, CloseLedgerKept, TrimLedgerKept DEF Node, RpcNext
<1>5. CASE Startup \/ Crash
  BY <1>1, <1>5, ProcessKept
<1>6. CASE Shutdown \/ Exit
  BY <1>1, <1>6, FlagsKept DEF Shutdown, Exit
<1>7. CASE UNCHANGED vars
  BY <1>1, <1>7, FlagsKept DEF vars
<1>8. QED
  BY <1>2, <1>3, <1>4, <1>5, <1>6, <1>7 DEF Next

\* The poller's inductive invariant holds throughout, for every number of
\* goroutines on any contracts (tickOnce, drain, handleRangeError, commit).
THEOREM Inductive == Spec => []IInv
BY InitInv, NextInv, PTL DEF Spec

\* The stored progress accounts for every event it passes, through concurrent
\* ticks, a moving window, failing calls, crashes and restarts (commit).
THEOREM ProgressAccounts == Spec => []NoSilentLoss
<1>1. IInv => NoSilentLoss
  BY DEF IInv
<1>2. QED
  BY <1>1, Inductive, PTL

-----------------------------------------------------------------------------
\* Rows of contracts that are gone.

LEMMA OrphanEnd ==
    ASSUME IInv, NoOrphanEvents, NEW p \in Pollers,
           (\E ok \in BOOLEAN : EndTick(p, ok)) \/ Return(p),
           tracked \subseteq tracked', rows' \subseteq rows \union txRows[p]
    PROVE  NoOrphanEvents'
<1>1. \A q \in Pollers : txRows'[q] \subseteq txRows[q]
  BY DEF EndTick, Return, IInv, TypeOK, StoreTypeOK
<1>2. QED
  BY <1>1 DEF NoOrphanEvents, PendingRows

LEMMA OrphanSame ==
    ASSUME NoOrphanEvents, tracked \subseteq tracked', UNCHANGED <<rows, txRows>>
    PROVE  NoOrphanEvents'
BY DEF NoOrphanEvents, PendingRows

LEMMA OrphanStep ==
    ASSUME IInv, NoOrphanEvents, NEW p \in Pollers, Step(p)
    PROVE  NoOrphanEvents'
<1>1. CASE TickNotFound(p) \/ GetEventsNothing(p) \/ GetHealthCaughtUp(p)
           \/ GetHealthInWindow(p) \/ InsertFails(p) \/ SetProgressNotFound(p)
  BY <1>1, OrphanEnd
  DEF TickNotFound, GetEventsNothing, GetHealthCaughtUp, GetHealthInWindow, InsertFails,
      SetProgressNotFound
<1>2. CASE GetEventsRejected(p)
  <2>1. CASE EndTick(p, FALSE)
    BY <1>2, <2>1, OrphanEnd DEF GetEventsRejected
  <2>2. CASE UNCHANGED txRows
    BY <1>2, <2>2, OrphanSame DEF GetEventsRejected
  <2>3. QED
    BY <1>2, <2>1, <2>2 DEF GetEventsRejected
<1>3. CASE TickStart(p) \/ GetEventsFullPage(p) \/ GetEventsLastPage(p)
           \/ GetHealthBelowFloor(p) \/ Begin(p) \/ SetProgress(p)
  BY <1>3, OrphanSame
  DEF TickStart, GetEventsFullPage, GetEventsLastPage, GetHealthBelowFloor, Begin,
      SetProgress, storeVars
<1>4. CASE Insert(p)
  <2>1. PICK b \in 1 .. MaxRowBatch :
          txRows' = [txRows EXCEPT ![p] = FreshRows(job[p].buf, b)]
    BY <1>4 DEF Insert
  <2>2. JobInv(p)
    BY <1>4 DEF Insert, IInv, TickInv, GoroutineInv, Calls, Drained, Tx
  <2>3. \A r \in FreshRows(job[p].buf, b) : r.ev.contract = Assigned[p]
    BY <2>2 DEF FreshRows, JobInv
  <2>4. tracked' = tracked /\ rows' = rows /\ Assigned[p] \in tracked
    BY <1>4 DEF Insert
  <2>5. \A q \in Pollers : \A r \in txRows'[q] :
            r.ev.contract = Assigned[p] \/ r \in txRows[q]
    BY <2>1, <2>3 DEF IInv, TypeOK, StoreTypeOK
  <2>6. QED
    BY <2>4, <2>5 DEF NoOrphanEvents, PendingRows
<1>5. CASE Commit(p)
  BY <1>5, OrphanEnd DEF Commit, CommitWrites
<1>6. QED
  BY <1>1, <1>2, <1>3, <1>4, <1>5 DEF Step

\* A deletion cascades over the committed rows, and waits for transactions
\* that hold rows of its contract.
LEMMA OrphanDelete ==
    ASSUME IInv, NoOrphanEvents, NEW c \in Contracts, Delete(c)
    PROVE  NoOrphanEvents'
<1>1. /\ tracked' = tracked \ {c}
      /\ rows' = {r \in rows : r.ev.contract # c}
      /\ txRows' = txRows
      /\ \A p \in Pollers : \A r \in txRows[p] : r.ev.contract # c
  BY DEF Delete, DeleteRow
<1>2. QED
  BY <1>1 DEF NoOrphanEvents, PendingRows

LEMMA OrphanNext ==
    IInv /\ NoOrphanEvents /\ [Next]_vars => NoOrphanEvents'
<1> SUFFICES ASSUME IInv, NoOrphanEvents, [Next]_vars PROVE NoOrphanEvents'
  OBVIOUS
<1>1. ASSUME NEW p \in Pollers, Step(p) PROVE NoOrphanEvents'
  BY <1>1, OrphanStep
<1>2. ASSUME NEW p \in Pollers, PollerFault(p) \/ Cancelled(p) PROVE NoOrphanEvents'
  <2>1. CASE RpcFault(p)
    BY <2>1, OrphanEnd DEF RpcFault
  <2>2. CASE DbFault(p)
    BY <2>2, OrphanEnd DEF DbFault
  <2>3. CASE CommitUnacknowledged(p)
    BY <2>3, OrphanEnd DEF CommitUnacknowledged, CommitWrites
  <2>4. CASE Cancelled(p)
    BY <2>4, OrphanEnd DEF Cancelled
  <2>5. QED
    BY <1>2, <2>1, <2>2, <2>3, <2>4 DEF PollerFault
<1>3. ASSUME NEW c \in Contracts, Register(c) PROVE NoOrphanEvents'
  BY <1>3, OrphanSame DEF Register, RegisterRow
<1>4. ASSUME NEW c \in Contracts, Delete(c) PROVE NoOrphanEvents'
  BY <1>4, OrphanDelete
<1>5. CASE Node
  BY <1>5, OrphanSame DEF Node, storeVars
<1>6. CASE Startup
  BY <1>6, OrphanSame DEF Startup
<1>7. CASE Shutdown \/ Exit
  BY <1>7, OrphanSame DEF Shutdown, Exit, storeVars
<1>8. CASE Crash
  BY <1>8 DEF Crash, NoOrphanEvents, PendingRows
<1>9. CASE UNCHANGED vars
  BY <1>9, OrphanSame DEF vars, storeVars
<1>10. QED
  BY <1>1, <1>2, <1>3, <1>4, <1>5, <1>6, <1>7, <1>8, <1>9 DEF Next

\* No event row outlives its contract, committed or about to be, wherever a
\* deletion falls between the calls of a tick (ON DELETE CASCADE, commit).
THEOREM NoOrphans == Spec => []NoOrphanEvents
<1>1. Init => NoOrphanEvents
  BY DEF Init, NoOrphanEvents, PendingRows
<1>2. QED
  BY <1>1, OrphanNext, Inductive, PTL DEF Spec

-----------------------------------------------------------------------------
\* One goroutine for each contract: the order of the ids, the truth of what is
\* reported as skipped, and the direction of the progress.

LEMMA IdleSolo ==
    ASSUME NEW q \in Pollers, pc'[q] \in {"idle", "stopped"}
    PROVE  SoloOf(q)'
BY DEF SoloOf, Calls, Drained, Tx

\* A step elsewhere disturbs a tick on c only by what it does to c.
LEMMA SoloQuiet ==
    ASSUME TypeOK, TypeOK', NEW q \in Pollers, SoloOf(q), Quiet(q),
           last'[Assigned[q]] <= last[Assigned[q]],
           skipped'[Assigned[q]] \subseteq skipped[Assigned[q]],
           \A s \in rows' : s.ev.contract = Assigned[q] => s \in rows
    PROVE  SoloOf(q)'
<1> DEFINE c == Assigned[q]
<1>1. c \in Contracts
  BY PollerAssumption
<1>2. last[c] \in Nat /\ last'[c] \in Nat /\ job[q].start \in Nat
  BY <1>1 DEF TypeOK, StoreTypeOK, Job
<1>3. pc[q] \in Calls =>
        /\ last'[c] < job[q].start /\ job[q].start <= job[q].low
        /\ \A e \in job[q].buf : e.ledger >= job[q].low /\ e.ledger \notin skipped'[c]
  BY <1>2 DEF SoloOf
<1>4. pc[q] \in {"progress", "commit"} =>
        /\ \A r \in txRows[q] : r.ev \in job[q].buf
        /\ \A r, s \in txRows[q] : r.batch = s.batch
        /\ \A r \in txRows[q], s \in rows' : s.ev.contract = c => s.batch < r.batch
  BY DEF SoloOf
<1>5. /\ pc[q] = "getEvents" => job[q].low <= job[q].from.ledger
      /\ pc[q] \in Drained => job[q].low <= job[q].high
  BY DEF SoloOf
<1>6. QED
  BY <1>3, <1>4, <1>5 DEF SoloOf, Quiet

\* A step that leaves the tables and the reports alone.
LEMMA SoloStore ==
    ASSUME TypeOK, TypeOK', SoloInv, UNCHANGED <<last, rows, skipped>>,
           floor' >= floor, \A q \in Pollers : Quiet(q) \/ SoloOf(q)'
    PROVE  SoloInv'
<1>1. KeysetOrder' /\ GapReportTrue' /\ RowsBehind'
  BY DEF SoloInv, KeysetOrder, Before, GapReportTrue, RowsBehind
<1>2. ReportsGone'
  <2>1. floor \in Nat /\ floor' \in Nat
    BY DEF TypeOK, RpcTypeOK
  <2>2. ASSUME NEW c \in Contracts, NEW l \in skipped[c] PROVE l < floor'
    <3>1. l \in Nat /\ l < floor
      BY <2>2 DEF SoloInv, ReportsGone, TypeOK
    <3>2. QED
      BY <2>1, <3>1
  <2>3. QED
    BY <2>2 DEF ReportsGone
<1>3. ASSUME NEW q \in Pollers PROVE SoloOf(q)'
  <2>1. CASE Quiet(q)
    <3>1. SoloOf(q) /\ Assigned[q] \in Contracts
      BY PollerAssumption DEF SoloInv
    <3>2. last[Assigned[q]] \in Nat
      BY <3>1 DEF TypeOK, StoreTypeOK
    <3>3. QED
      BY <2>1, <3>1, <3>2, SoloQuiet
  <2>2. QED
    BY <2>1
<1>4. QED
  BY <1>1, <1>2, <1>3 DEF SoloInv

LEMMA SoloEnd ==
    ASSUME TypeOK, TypeOK', SoloInv, NEW p \in Pollers,
           (\E ok \in BOOLEAN : EndTick(p, ok)) \/ Return(p),
           UNCHANGED <<rpcVars, last, rows, skipped>>
    PROVE  SoloInv'
<1>1. pc'[p] \in {"idle", "stopped"} /\ \A q \in Pollers \ {p} : Quiet(q)
  BY DEF EndTick, Return, Quiet, TypeOK, StoreTypeOK
<1>2. floor' = floor /\ floor \in Nat
  BY DEF rpcVars, TypeOK, RpcTypeOK
<1>3. QED
  BY <1>1, <1>2, IdleSolo, SoloStore

\* A step of p that touches neither the store nor the window.
LEMMA SoloMove ==
    ASSUME TypeOK, TypeOK', SoloInv, NEW p \in Pollers,
           UNCHANGED <<rpcVars, last, rows, skipped>>,
           \A q \in Pollers \ {p} : Quiet(q),
           SoloOf(p)'
    PROVE  SoloInv'
<1>1. floor' = floor /\ floor \in Nat
  BY DEF rpcVars, TypeOK, RpcTypeOK
<1>2. QED
  BY <1>1, SoloStore

LEMMA SoloTickStart ==
    ASSUME IInv, TypeOK', SoloInv, NEW p \in Pollers, TickStart(p)
    PROVE  SoloInv'
<1> DEFINE c == Assigned[p]
<1> USE DEF IInv
<1>c. c \in Contracts /\ last[c] \in Nat
  BY PollerAssumption DEF TypeOK, StoreTypeOK
<1>1. /\ pc'[p] = "getEvents"
      /\ job'[p] = [start |-> last[c] + 1, low |-> last[c] + 1,
                    from |-> AtLedger(last[c] + 1), buf |-> {}, high |-> 0,
                    gen |-> gen[c], side |-> "none"]
      /\ \A q \in Pollers \ {p} : pc'[q] = pc[q] /\ job'[q] = job[q]
      /\ UNCHANGED <<rpcVars, last, rows, txRows, skipped>>
  BY DEF TickStart, DrainFrom, TypeOK, storeVars, histVars
<1>2. SoloOf(p)'
  BY <1>1, <1>c DEF SoloOf, AtLedger, Drained, Tx
<1>3. QED
  BY <1>1, <1>2, SoloMove DEF Quiet

\* What a page brings lies at or past the read, in the window, and so past
\* every ledger reported as skipped.
LEMMA PageAhead ==
    ASSUME IInv, SoloInv, NEW p \in Pollers, pc[p] = "getEvents",
           NEW page \in SUBSET Matching(Assigned[p], job[p].from)
    PROVE  /\ \A e \in page : e.ledger \in Nat /\ e.ledger >= job[p].low
           /\ \A e \in Kept(p, page) :
                 e.ledger \in Nat /\ e.ledger >= job[p].low
                 /\ e.ledger \notin skipped[Assigned[p]]
<1> DEFINE c == Assigned[p]
<1> USE DEF IInv
<1>1. c \in Contracts /\ floor \in Nat
      /\ job[p].low \in Nat /\ job[p].from.ledger \in Nat
  BY PollerAssumption DEF TypeOK, RpcTypeOK, Job, Position
<1>2. /\ job[p].low <= job[p].from.ledger
      /\ \A e \in job[p].buf : e.ledger >= job[p].low /\ e.ledger \notin skipped[c]
  BY DEF SoloInv, SoloOf, Calls
<1>3. \A e \in chain : e.ledger \in Nat
  BY DEF TypeOK, RpcTypeOK, Event
<1>4. ASSUME NEW e \in page
      PROVE  e.ledger \in Nat /\ e.ledger >= job[p].low /\ e.ledger \notin skipped[c]
  <2>1. e \in chain /\ e.ledger >= floor /\ ~Before(e, job[p].from)
    BY DEF Matching
  <2>2. e.ledger \in Nat /\ e.ledger >= job[p].low
    BY <1>1, <1>2, <1>3, <2>1 DEF Before
  <2>3. e.ledger \notin skipped[c]
    BY <1>1, <2>1, <2>2 DEF SoloInv, ReportsGone
  <2>4. QED
    BY <2>2, <2>3
<1>5. \A e \in job[p].buf : e.ledger \in Nat
  <2>1. JobInv(p)
    BY DEF TickInv, GoroutineInv, Calls
  <2>2. QED
    BY <1>3, <2>1 DEF JobInv
<1>6. QED
  BY <1>2, <1>4, <1>5 DEF Kept

LEMMA SoloFullPage ==
    ASSUME IInv, TypeOK', SoloInv, NEW p \in Pollers, GetEventsFullPage(p)
    PROVE  SoloInv'
<1> USE DEF IInv
<1>u. UNCHANGED <<rpcVars, storeVars, histVars>> /\ pc' = pc /\ pc[p] = "getEvents"
  BY DEF GetEventsFullPage
<1>0. PICK page \in SUBSET Matching(Assigned[p], job[p].from) :
        \E e \in page : AppendPage(p, page, JustAfter(e))
  BY DEF GetEventsFullPage
<1>1. PICK e \in page : AppendPage(p, page, JustAfter(e))
  BY <1>0
<1>2. /\ job'[p].buf = Kept(p, page)
      /\ job'[p].from = JustAfter(e)
      /\ job'[p].start = job[p].start /\ job'[p].low = job[p].low
      /\ \A q \in Pollers \ {p} : job'[q] = job[q]
  BY <1>1, AppendHand
<1>3. SoloOf(p)'
  <2>1. job[p].low <= JustAfter(e).ledger
    BY <1>u, PageAhead DEF JustAfter, TypeOK, Job
  <2>2. last[Assigned[p]] < job[p].start /\ job[p].start <= job[p].low
    BY <1>u DEF SoloInv, SoloOf, Calls
  <2>3. /\ pc'[p] = "getEvents"
        /\ last'[Assigned[p]] = last[Assigned[p]]
        /\ skipped'[Assigned[p]] = skipped[Assigned[p]]
    BY <1>u DEF storeVars, histVars
  <2>4. \A x \in job'[p].buf :
           x.ledger >= job'[p].low /\ x.ledger \notin skipped'[Assigned[p]]
    BY <1>u, <1>2, <2>3, PageAhead
  <2>5. QED
    BY <1>2, <2>1, <2>2, <2>3, <2>4 DEF SoloOf, Drained, Tx
<1>4. QED
  BY <1>u, <1>2, <1>3, SoloMove DEF Quiet, storeVars, histVars

LEMMA SoloLastPage ==
    ASSUME IInv, TypeOK', SoloInv, NEW p \in Pollers, GetEventsLastPage(p)
    PROVE  SoloInv'
<1> USE DEF IInv
<1>u. /\ UNCHANGED <<rpcVars, storeVars, histVars>>
      /\ pc' = [pc EXCEPT ![p] = "begin"]
      /\ pc[p] = "getEvents"
  BY DEF GetEventsLastPage
<1>1. PICK page \in SUBSET Matching(Assigned[p], job[p].from) :
        Kept(p, page) # {} /\ AppendPage(p, page, job[p].from)
  BY DEF GetEventsLastPage
<1>2. /\ job'[p].buf = Kept(p, page)
      /\ job'[p].high \in Nat
      /\ \A e \in Kept(p, page) : e.ledger <= job'[p].high
      /\ job'[p].start = job[p].start /\ job'[p].low = job[p].low
      /\ \A q \in Pollers \ {p} : job'[q] = job[q]
  BY <1>1, AppendHand
<1>3. pc'[p] = "begin" /\ \A q \in Pollers \ {p} : pc'[q] = pc[q]
  BY <1>u DEF TypeOK
<1>4. SoloOf(p)'
  <2>1. job[p].low <= job'[p].high
    <3>1. PICK e \in Kept(p, page) : TRUE
      BY <1>1
    <3>2. e.ledger \in Nat /\ e.ledger >= job[p].low /\ job[p].low \in Nat
      BY <1>u, PageAhead DEF TypeOK, Job
    <3>3. QED
      BY <1>2, <3>2
  <2>2. last[Assigned[p]] < job[p].start /\ job[p].start <= job[p].low
    BY <1>u DEF SoloInv, SoloOf, Calls
  <2>3. /\ last'[Assigned[p]] = last[Assigned[p]]
        /\ skipped'[Assigned[p]] = skipped[Assigned[p]]
    BY <1>u DEF storeVars, histVars
  <2>4. \A x \in job'[p].buf :
           x.ledger >= job'[p].low /\ x.ledger \notin skipped'[Assigned[p]]
    BY <1>u, <1>2, <2>3, PageAhead
  <2>5. QED
    BY <1>2, <1>3, <2>1, <2>2, <2>3, <2>4 DEF SoloOf
<1>5. QED
  BY <1>u, <1>2, <1>3, <1>4, SoloMove DEF Quiet, storeVars, histVars

LEMMA SoloRejected ==
    ASSUME IInv, TypeOK', SoloInv, NEW p \in Pollers, GetEventsRejected(p)
    PROVE  SoloInv'
<1> USE DEF IInv
<1>1. CASE EndTick(p, FALSE)
  BY <1>1, SoloEnd DEF GetEventsRejected, histVars
<1>2. CASE ~EndTick(p, FALSE)
  <2>1. PICK x \in {"none", "low", "high"} :
             job' = [job EXCEPT ![p] = [@ EXCEPT !.side = x]]
    BY <1>2 DEF GetEventsRejected
  <2>2. job[p] \in Job
    BY DEF TypeOK
  <2>3. job'[p] = [job[p] EXCEPT !.side = x]
    BY <2>1 DEF TypeOK
  <2>4. /\ job'[p].low = job[p].low /\ job'[p].start = job[p].start
        /\ job'[p].buf = job[p].buf
    BY <2>2, <2>3 DEF Job
  <2>5. /\ pc' = [pc EXCEPT ![p] = "getHealth"]
        /\ pc[p] = "getEvents"
        /\ UNCHANGED <<rpcVars, last, rows, txRows, skipped>>
    BY <1>2 DEF GetEventsRejected, histVars
  <2>6. pc'[p] = "getHealth" /\ \A q \in Pollers \ {p} : pc'[q] = pc[q]
    BY <2>5 DEF TypeOK
  <2>7. SoloOf(p)'
    BY <2>4, <2>5, <2>6 DEF SoloInv, SoloOf, Calls, Drained, Tx
  <2>8. \A q \in Pollers \ {p} : job'[q] = job[q]
    BY <2>1 DEF TypeOK
  <2>9. QED
    BY <2>5, <2>6, <2>7, <2>8, SoloMove DEF Quiet
<1>3. QED
  BY <1>1, <1>2

\* What is reported lies past the progress, where the table has no row yet,
\* and below the floor, where the drain that follows reads nothing.
LEMMA SoloBelowFloor ==
    ASSUME IInv, TypeOK', SoloInv, Distinct, NEW p \in Pollers, GetHealthBelowFloor(p)
    PROVE  SoloInv'
<1> DEFINE c == Assigned[p]
<1> USE DEF IInv
<1>c. c \in Contracts /\ floor \in Nat /\ job[p].start \in Nat /\ last[c] \in Nat
  BY PollerAssumption DEF TypeOK, RpcTypeOK, StoreTypeOK, Job
<1>1. /\ pc[p] = "getHealth"
      /\ pc'[p] = "getEvents"
      /\ job[p].start < floor
      /\ job'[p] = [start |-> job[p].start, low |-> floor, from |-> AtLedger(floor),
                    buf |-> {}, high |-> 0, gen |-> job[p].gen, side |-> "none"]
      /\ \A q \in Pollers \ {p} : pc'[q] = pc[q] /\ job'[q] = job[q]
      /\ UNCHANGED <<rpcVars, last, rows, txRows>>
      /\ skipped' = [skipped EXCEPT ![c] = @ \union (job[p].start .. floor - 1)]
  BY DEF GetHealthBelowFloor, DrainFrom, TypeOK, storeVars
<1>2. last[c] < job[p].start
  BY <1>1 DEF SoloInv, SoloOf, Calls
<1>3. /\ skipped'[c] = skipped[c] \union (job[p].start .. floor - 1)
      /\ \A d \in Contracts \ {c} : skipped'[d] = skipped[d]
  BY <1>1, <1>c DEF TypeOK
<1>4. KeysetOrder' /\ RowsBehind'
  BY <1>1 DEF SoloInv, KeysetOrder, Before, RowsBehind
<1>5. ASSUME NEW r \in rows PROVE r.ev.ledger \notin skipped'[r.ev.contract]
  <2>1. r.ev.contract \in Contracts /\ r.ev.ledger \in Nat
        /\ r.ev.ledger \notin skipped[r.ev.contract]
        /\ r.ev.ledger <= last[r.ev.contract]
    BY DEF SoloInv, GapReportTrue, RowsBehind, TypeOK, StoreTypeOK, Row, Event
  <2>2. CASE r.ev.contract = c
    BY <1>c, <1>2, <1>3, <2>1, <2>2
  <2>3. CASE r.ev.contract # c
    BY <1>3, <2>1, <2>3
  <2>4. QED
    BY <2>2, <2>3
<1>6. ReportsGone'
  <2>1. floor' = floor
    BY <1>1 DEF rpcVars
  <2>2. \A d \in Contracts : \A l \in skipped[d] : l < floor
    BY DEF SoloInv, ReportsGone
  <2>3. \A l \in skipped'[c] : l < floor
    BY <1>c, <1>3, <2>2
  <2>4. QED
    BY <1>3, <2>1, <2>2, <2>3 DEF ReportsGone
<1>7. ASSUME NEW q \in Pollers PROVE SoloOf(q)'
  <2>1. CASE q = p
    BY <1>c, <1>1, <1>2, <2>1 DEF SoloOf, AtLedger, Drained, Tx
  <2>2. CASE q # p
    <3>1. Assigned[q] \in Contracts \ {c}
      BY <2>2, PollerAssumption DEF Distinct
    <3>2. SoloOf(q) /\ Quiet(q) /\ last[Assigned[q]] \in Nat
      BY <1>1, <2>2, <3>1 DEF SoloInv, Quiet, TypeOK, StoreTypeOK
    <3>3. QED
      BY <1>1, <1>3, <3>1, <3>2, SoloQuiet
  <2>3. QED
    BY <2>1, <2>2
<1>8. QED
  BY <1>1, <1>4, <1>5, <1>6, <1>7 DEF SoloInv, GapReportTrue

\* The transaction opens, and updates the progress: the tick keeps what it has
\* in hand.
LEMMA SoloForward ==
    ASSUME IInv, TypeOK', SoloInv, NEW p \in Pollers, Begin(p) \/ SetProgress(p)
    PROVE  SoloInv'
<1> USE DEF IInv
<1>1. /\ UNCHANGED <<rpcVars, last, rows, txRows, skipped, job>>
      /\ \/ pc[p] = "begin" /\ pc'[p] = "insert"
         \/ pc[p] = "progress" /\ pc'[p] = "commit"
      /\ \A q \in Pollers \ {p} : pc'[q] = pc[q]
  <2>1. CASE Begin(p)
    BY <2>1 DEF Begin, TypeOK, histVars
  <2>2. CASE SetProgress(p)
    BY <2>2 DEF SetProgress, TypeOK, storeVars, histVars
  <2>3. QED
    BY <2>1, <2>2
<1>2. SoloOf(p)
  BY DEF SoloInv
<1>3. SoloOf(p)'
  BY <1>1, <1>2 DEF SoloOf, Calls, Drained, Tx
<1>4. QED
  BY <1>1, <1>3, SoloMove DEF Quiet

LEMMA SoloInsert ==
    ASSUME IInv, TypeOK', SoloInv, NEW p \in Pollers, Insert(p)
    PROVE  SoloInv'
<1> USE DEF IInv
<1>1. PICK b \in 1 .. MaxRowBatch :
        /\ IsNextBatch(b)
        /\ txRows' = [txRows EXCEPT ![p] = FreshRows(job[p].buf, b)]
  BY DEF Insert
<1>2. /\ UNCHANGED <<rpcVars, last, rows, skipped, job>>
      /\ pc[p] = "insert" /\ pc'[p] = "progress"
      /\ \A q \in Pollers \ {p} : pc'[q] = pc[q]
  BY DEF Insert, TypeOK, histVars
<1>3. /\ txRows'[p] = FreshRows(job[p].buf, b)
      /\ \A q \in Pollers \ {p} : txRows'[q] = txRows[q]
  BY <1>1 DEF TypeOK, StoreTypeOK
<1>4. /\ \A r \in txRows'[p] : r.ev \in job[p].buf /\ r.batch = b
      /\ \A s \in rows : s.batch < b
  BY <1>1, <1>3 DEF FreshRows, IsNextBatch
<1>5. SoloOf(p)
  BY DEF SoloInv
<1>6. SoloOf(p)'
  BY <1>2, <1>4, <1>5 DEF SoloOf, Calls, Drained, Tx
<1>7. QED
  BY <1>2, <1>3, <1>6, SoloMove DEF Quiet

\* What a transaction has written is of its tick's contract, past the stored
\* progress and up to the one it writes.
LEMMA TxAhead ==
    ASSUME IInv, SoloInv, NEW p \in Pollers, pc[p] = "commit"
    PROVE  /\ last[Assigned[p]] < job[p].high
           /\ \A r \in txRows[p] :
                /\ r.ev.contract = Assigned[p]
                /\ last[Assigned[p]] < r.ev.ledger
                /\ r.ev.ledger <= job[p].high
                /\ r.ev.ledger \notin skipped[Assigned[p]]
<1> DEFINE c == Assigned[p]
<1> USE DEF IInv
<1>1. last[c] \in Nat /\ job[p].start \in Nat /\ job[p].low \in Nat /\ job[p].high \in Nat
  BY PollerAssumption DEF TypeOK, StoreTypeOK, Job
<1>2. /\ last[c] < job[p].start /\ job[p].start <= job[p].low /\ job[p].low <= job[p].high
      /\ \A e \in job[p].buf : e.ledger >= job[p].low /\ e.ledger \notin skipped[c]
      /\ \A r \in txRows[p] : r.ev \in job[p].buf
  BY DEF SoloInv, SoloOf, Calls, Drained, Tx
<1>3. \A e \in job[p].buf : e \in chain /\ e.contract = c /\ e.ledger <= job[p].high
  BY DEF TickInv, GoroutineInv, JobInv, Calls, Drained, Tx
<1>4. \A e \in chain : e.ledger \in Nat
  BY DEF TypeOK, RpcTypeOK, Event
<1>5. QED
  BY <1>1, <1>2, <1>3, <1>4

LEMMA SoloCommit ==
    ASSUME IInv, TypeOK', SoloInv, Distinct, NEW p \in Pollers, pc[p] = "commit",
           CommitWrites(p), \E ok \in BOOLEAN : EndTick(p, ok),
           UNCHANGED <<rpcVars, skipped>>
    PROVE  SoloInv'
<1> DEFINE c == Assigned[p]
<1> USE DEF IInv
<1>c. c \in Contracts /\ last[c] \in Nat /\ job[p].high \in Nat
  BY PollerAssumption DEF TypeOK, StoreTypeOK, Job
<1>1. /\ rows' = rows \union txRows[p]
      /\ last'[c] = job[p].high
      /\ \A d \in Contracts \ {c} : last'[d] = last[d]
      /\ pc'[p] = "idle"
      /\ \A q \in Pollers \ {p} : Quiet(q)
  BY <1>c DEF CommitWrites, EndTick, Quiet, TypeOK, StoreTypeOK
<1>2. /\ last[c] < job[p].high
      /\ \A r \in txRows[p] : /\ r.ev.contract = c
                              /\ last[c] < r.ev.ledger
                              /\ r.ev.ledger <= job[p].high
                              /\ r.ev.ledger \notin skipped[c]
  BY TxAhead
<1>3. \A r \in rows' : r.ev.ledger \in Nat /\ r.ev.contract \in Contracts /\ r.batch \in Nat
  BY DEF TypeOK, StoreTypeOK, Row, Event
<1>4. RowsBehind'
  <2>1. ASSUME NEW r \in rows PROVE r.ev.ledger <= last'[r.ev.contract]
    <3>1. r.ev.ledger <= last[r.ev.contract] /\ r \in rows'
      BY <1>1 DEF SoloInv, RowsBehind
    <3>2. CASE r.ev.contract = c
      BY <1>c, <1>1, <1>2, <1>3, <3>1, <3>2
    <3>3. CASE r.ev.contract # c
      BY <1>1, <1>3, <3>1, <3>3
    <3>4. QED
      BY <3>2, <3>3
  <2>2. QED
    BY <1>1, <1>2, <2>1 DEF RowsBehind
<1>5. GapReportTrue'
  BY <1>1, <1>2 DEF SoloInv, GapReportTrue
<1>6. KeysetOrder'
  <2>1. ASSUME NEW r \in rows', NEW s \in rows',
               r.ev.contract = s.ev.contract, r.batch < s.batch
        PROVE  Before(r.ev, s.ev)
    <3>1. CASE r \in rows /\ s \in rows
      BY <2>1, <3>1 DEF SoloInv, KeysetOrder
    <3>2. CASE r \in rows /\ s \in txRows[p]
      <4>1. r.ev.contract = c /\ last[c] < s.ev.ledger
        BY <1>2, <2>1, <3>2
      <4>2. r.ev.ledger <= last[c]
        BY <3>2, <4>1 DEF SoloInv, RowsBehind
      <4>3. QED
        BY <1>c, <1>3, <4>1, <4>2 DEF Before
    <3>3. CASE r \in txRows[p] /\ s \in rows
      <4>1. s.ev.contract = c
        BY <1>2, <2>1, <3>3
      <4>2. s.batch < r.batch
        BY <3>3, <4>1 DEF SoloInv, SoloOf
      <4>3. QED
        BY <1>3, <2>1, <4>2
    <3>4. CASE r \in txRows[p] /\ s \in txRows[p]
      <4>1. r.batch = s.batch
        BY <3>4 DEF SoloInv, SoloOf
      <4>2. QED
        BY <1>3, <2>1, <4>1
    <3>5. QED
      BY <1>1, <3>1, <3>2, <3>3, <3>4
  <2>2. QED
    BY <2>1 DEF KeysetOrder, Before
<1>7. ReportsGone'
  BY DEF SoloInv, ReportsGone, rpcVars
<1>8. ASSUME NEW q \in Pollers PROVE SoloOf(q)'
  <2>1. CASE q = p
    BY <1>1, <2>1, IdleSolo
  <2>2. CASE q # p
    <3>1. Assigned[q] \in Contracts \ {c}
      BY <2>2, PollerAssumption DEF Distinct
    <3>2. SoloOf(q) /\ Quiet(q) /\ last[Assigned[q]] \in Nat
      BY <1>1, <2>2, <3>1 DEF SoloInv, TypeOK, StoreTypeOK
    <3>3. \A s \in rows' : s.ev.contract = Assigned[q] => s \in rows
      BY <1>1, <1>2, <3>1
    <3>4. QED
      BY <1>1, <3>1, <3>2, <3>3, SoloQuiet
  <2>3. QED
    BY <2>1, <2>2
<1>9. QED
  BY <1>4, <1>5, <1>6, <1>7, <1>8 DEF SoloInv

\* A deletion takes the progress, the rows and the reports of its contract
\* together, and ticks under way on it are still ahead of what is left.
LEMMA SoloDelete ==
    ASSUME IInv, TypeOK', SoloInv, NEW c \in Contracts, Delete(c)
    PROVE  SoloInv'
<1> USE DEF IInv
<1>1. /\ last' = [last EXCEPT ![c] = 0]
      /\ rows' = {r \in rows : r.ev.contract # c}
      /\ skipped' = [skipped EXCEPT ![c] = {}]
      /\ UNCHANGED <<rpcVars, txRows, tickVars>>
  BY DEF Delete, DeleteRow
<1>2. ASSUME NEW d \in Contracts
      PROVE  /\ last[d] \in Nat /\ last'[d] <= last[d]
             /\ skipped'[d] \subseteq skipped[d]
             /\ d # c => last'[d] = last[d]
  BY <1>1 DEF TypeOK, StoreTypeOK
<1>3. \A r \in rows : r.ev.contract \in Contracts
  BY DEF TypeOK, StoreTypeOK, Row, Event
<1>4. KeysetOrder' /\ GapReportTrue' /\ RowsBehind'
  BY <1>1, <1>2, <1>3 DEF SoloInv, KeysetOrder, Before, GapReportTrue, RowsBehind
<1>5. ReportsGone'
  BY <1>1, <1>2 DEF SoloInv, ReportsGone, rpcVars
<1>6. ASSUME NEW q \in Pollers PROVE SoloOf(q)'
  <2>1. SoloOf(q) /\ Quiet(q) /\ Assigned[q] \in Contracts
    BY <1>1, PollerAssumption DEF SoloInv, Quiet, tickVars
  <2>2. QED
    BY <1>1, <1>2, <2>1, SoloQuiet
<1>7. QED
  BY <1>4, <1>5, <1>6 DEF SoloInv

LEMMA SoloStep ==
    ASSUME IInv, TypeOK', SoloInv, Distinct, NEW p \in Pollers,
           Step(p) \/ PollerFault(p) \/ Cancelled(p)
    PROVE  SoloInv'
<1>t. TypeOK
  BY DEF IInv
<1>1. CASE TickNotFound(p) \/ GetEventsNothing(p) \/ GetHealthCaughtUp(p)
           \/ GetHealthInWindow(p) \/ InsertFails(p) \/ SetProgressNotFound(p)
  BY <1>t, <1>1, SoloEnd
  DEF TickNotFound, GetEventsNothing, GetHealthCaughtUp, GetHealthInWindow, InsertFails,
      SetProgressNotFound, histVars
<1>2. CASE RpcFault(p)
  BY <1>t, <1>2, SoloEnd DEF RpcFault, histVars
<1>3. CASE DbFault(p)
  BY <1>t, <1>3, SoloEnd DEF DbFault, histVars
<1>4. CASE Cancelled(p)
  BY <1>t, <1>4, SoloEnd DEF Cancelled, histVars
<1>5. CASE Commit(p)
  BY <1>5, SoloCommit DEF Commit
<1>6. CASE CommitUnacknowledged(p)
  BY <1>6, SoloCommit DEF CommitUnacknowledged
<1>7. QED
  BY <1>1, <1>2, <1>3, <1>4, <1>5, <1>6, SoloTickStart, SoloFullPage, SoloLastPage,
     SoloRejected, SoloBelowFloor, SoloForward, SoloInsert
  DEF Step, PollerFault

LEMMA SoloNext ==
    ASSUME IInv, SoloInv, Distinct, [Next]_vars
    PROVE  SoloInv'
<1>1. TypeOK /\ TypeOK' /\ floor \in Nat
  BY NextType DEF IInv, TypeOK, RpcTypeOK
<1>2. ASSUME NEW p \in Pollers, Step(p) \/ PollerFault(p) \/ Cancelled(p)
      PROVE  SoloInv'
  BY <1>1, <1>2, SoloStep
<1>3. ASSUME NEW c \in Contracts, Delete(c) PROVE SoloInv'
  BY <1>1, <1>3, SoloDelete
<1>4. ASSUME NEW c \in Contracts, Register(c) PROVE SoloInv'
  <2>1. UNCHANGED <<floor, last, rows, skipped>> /\ \A q \in Pollers : Quiet(q)
    BY <1>4 DEF Register, RegisterRow, Quiet, rpcVars, tickVars, histVars
  <2>2. QED
    BY <1>1, <2>1, SoloStore
<1>5. CASE Node
  <2>1. UNCHANGED <<last, rows, skipped>> /\ floor' >= floor
        /\ \A q \in Pollers : Quiet(q)
    BY <1>1, <1>5
    DEF Node, RpcNext, CloseLedger, TrimLedger, Quiet, storeVars, tickVars, histVars
  <2>2. QED
    BY <1>1, <2>1, SoloStore
<1>6. CASE Startup \/ Crash
  <2>1. UNCHANGED <<floor, last, rows, skipped>>
        /\ \A q \in Pollers : pc'[q] \in {"idle", "stopped"}
    BY <1>6 DEF Startup, Crash, rpcVars, histVars
  <2>2. QED
    BY <1>1, <2>1, IdleSolo, SoloStore
<1>7. CASE UNCHANGED <<rpcVars, storeVars, tickVars, histVars>>
  <2>1. UNCHANGED <<floor, last, rows, skipped>> /\ \A q \in Pollers : Quiet(q)
    BY <1>7 DEF Quiet, rpcVars, storeVars, tickVars, histVars
  <2>2. QED
    BY <1>1, <2>1, SoloStore
<1>8. QED
  BY <1>2, <1>3, <1>4, <1>5, <1>6, <1>7 DEF Next, Shutdown, Exit, vars

LEMMA SoloAlways ==
    ASSUME Distinct
    PROVE  Spec => []SoloInv
<1>1. Init => SoloInv
  <2> SUFFICES ASSUME Init PROVE SoloInv
    OBVIOUS
  <2>1. \A p \in Pollers : SoloOf(p)
    BY DEF Init, SoloOf, Calls, Drained, Tx
  <2>2. KeysetOrder /\ GapReportTrue /\ RowsBehind /\ ReportsGone
    BY DEF Init, KeysetOrder, GapReportTrue, RowsBehind, ReportsGone
  <2>3. QED
    BY <2>1, <2>2 DEF SoloInv
<1>2. IInv /\ SoloInv /\ [Next]_vars => SoloInv'
  BY SoloNext
<1>3. QED
  BY <1>1, <1>2, Inductive, PTL DEF Spec

\* Where no contract is polled twice, ids ascend in emission order among the
\* events of one contract, so the keyset of buildEventsQuery is chain order.
THEOREM KeysetOrdered ==
    ASSUME Distinct
    PROVE  Spec => []KeysetOrder
<1>1. SoloInv => KeysetOrder
  BY DEF SoloInv
<1>2. QED
  BY <1>1, SoloAlways, PTL

\* Where no contract is polled twice, no event of a ledger that
\* poll_skipped_ledgers has named is in the table (handleRangeError).
THEOREM GapReported ==
    ASSUME Distinct
    PROVE  Spec => []GapReportTrue
<1>1. SoloInv => GapReportTrue
  BY DEF SoloInv
<1>2. QED
  BY <1>1, SoloAlways, PTL

LEMMA CommitForward ==
    ASSUME IInv, SoloInv, NEW p \in Pollers, pc[p] = "commit", CommitWrites(p)
    PROVE  ProgressKept
<1> DEFINE c == Assigned[p]
<1>c. c \in Contracts /\ last \in [Contracts -> Nat] /\ first \in [Contracts -> Nat]
      /\ job[p].high \in Nat
  BY PollerAssumption DEF IInv, TypeOK, StoreTypeOK, Job
<1>1. /\ last' = [last EXCEPT ![c] = job[p].high]
      /\ first' = [first EXCEPT ![c] = IF first[c] = 0 THEN job[p].high ELSE first[c]]
      /\ last[c] < job[p].high
  BY TxAhead DEF CommitWrites
<1>2. ASSUME NEW d \in Contracts
      PROVE  last'[d] >= last[d] /\ (first[d] # 0 => first'[d] = first[d])
  BY <1>c, <1>1
<1>3. QED
  BY <1>2 DEF ProgressKept

LEMMA SameProgress ==
    ASSUME TypeOK, UNCHANGED <<last, first>>
    PROVE  ProgressKept
<1>1. \A c \in Contracts : last[c] \in Nat
  BY DEF TypeOK, StoreTypeOK
<1>2. QED
  BY <1>1 DEF ProgressKept

LEMMA ForwardStep ==
    ASSUME IInv, SoloInv, NEW p \in Pollers, Step(p) \/ PollerFault(p) \/ Cancelled(p)
    PROVE  ProgressKept
<1>1. CASE Commit(p) \/ CommitUnacknowledged(p)
  BY <1>1, CommitForward DEF Commit, CommitUnacknowledged
<1>2. CASE UNCHANGED <<last, first>>
  BY <1>2, SameProgress DEF IInv
<1>3. CASE TickStart(p) \/ TickNotFound(p) \/ GetEventsFullPage(p) \/ GetEventsLastPage(p)
           \/ GetEventsNothing(p) \/ GetEventsRejected(p) \/ GetHealthCaughtUp(p)
           \/ GetHealthBelowFloor(p) \/ GetHealthInWindow(p)
  BY <1>2, <1>3
  DEF TickStart, TickNotFound, GetEventsFullPage, GetEventsLastPage, GetEventsNothing,
      GetEventsRejected, GetHealthCaughtUp, GetHealthBelowFloor, GetHealthInWindow, storeVars
<1>4. CASE Begin(p) \/ Insert(p) \/ InsertFails(p) \/ SetProgress(p) \/ SetProgressNotFound(p)
  BY <1>2, <1>4
  DEF Begin, Insert, InsertFails, SetProgress, SetProgressNotFound, storeVars
<1>5. CASE RpcFault(p) \/ DbFault(p) \/ Cancelled(p)
  BY <1>2, <1>5 DEF RpcFault, DbFault, Cancelled
<1>6. QED
  BY <1>1, <1>3, <1>4, <1>5 DEF Step, PollerFault

LEMMA ForwardNext ==
    ASSUME IInv, SoloInv, [Next]_vars
    PROVE  ProgressKept
<1>1. ASSUME NEW p \in Pollers, Step(p) \/ PollerFault(p) \/ Cancelled(p)
      PROVE  ProgressKept
  BY <1>1, ForwardStep
<1>2. ASSUME NEW c \in Contracts, Delete(c) PROVE ProgressKept
  <2>1. /\ last' = [last EXCEPT ![c] = 0]
        /\ first' = [first EXCEPT ![c] = 0]
        /\ gen' = [gen EXCEPT ![c] = @ + 1]
    BY <1>2 DEF Delete, DeleteRow
  <2>2. /\ last \in [Contracts -> Nat] /\ first \in [Contracts -> Nat]
        /\ gen \in [Contracts -> Nat]
    BY DEF IInv, TypeOK, StoreTypeOK
  <2>3. QED
    BY <2>1, <2>2 DEF ProgressKept
<1>3. CASE UNCHANGED <<last, first>>
  BY <1>3, SameProgress DEF IInv
<1>4. QED
  BY <1>1, <1>2, <1>3
  DEF Next, Register, RegisterRow, Node, Startup, Shutdown, Exit, Crash, vars, storeVars

\* Where no contract is polled twice, a registration's progress never goes
\* back and its first ledger, once set, is kept (SetProgress).
THEOREM ProgressForward ==
    ASSUME Distinct
    PROVE  Spec => ProgressMonotone
<1>1. IInv /\ SoloInv /\ [Next]_vars => [ProgressKept]_vars
  BY ForwardNext
<1>2. QED
  BY <1>1, Inductive, SoloAlways, PTL DEF Spec, ProgressMonotone

-----------------------------------------------------------------------------
\* What the readers of the table rely on: rows are appended, and go all at once.

LEMMA SameRows ==
    ASSUME UNCHANGED <<rows, gen>>
    PROVE  RowsAppended
BY DEF RowsAppended

\* The rows of a commit are one INSERT of one tracked contract, past the
\* stored progress, which no row of it has passed.
LEMMA CommitAppends ==
    ASSUME IInv, SoloInv, NoOrphanEvents, NEW p \in Pollers, pc[p] = "commit",
           CommitWrites(p), UNCHANGED gen
    PROVE  RowsAppended
<1> DEFINE c == Assigned[p]
<1>1. rows' = rows \union txRows[p]
  BY DEF CommitWrites
<1>2. \A s \in txRows[p] : /\ s.ev.contract = c
                          /\ c \in tracked
                          /\ last[c] < s.ev.ledger
  BY TxAhead DEF NoOrphanEvents, PendingRows
<1>3. /\ \A r, s \in txRows[p] : r.batch = s.batch
      /\ \A r \in txRows[p], s \in rows : s.ev.contract = c => s.batch < r.batch
  BY DEF SoloInv, SoloOf
<1>4. ASSUME NEW r \in rows, NEW s \in txRows[p], r.ev.contract = s.ev.contract
      PROVE  Before(r.ev, s.ev) /\ r.batch < s.batch
  <2>1. r.ev.contract = c /\ last[c] < s.ev.ledger
    BY <1>2, <1>4
  <2>2. r.ev.ledger <= last[c]
    BY <2>1 DEF SoloInv, RowsBehind
  <2>3. /\ r.ev.ledger \in Nat /\ s.ev.ledger \in Nat /\ last[c] \in Nat
    BY PollerAssumption DEF IInv, TypeOK, StoreTypeOK, Row, Event
  <2>4. Before(r.ev, s.ev)
    BY <2>1, <2>2, <2>3 DEF Before
  <2>5. QED
    BY <1>3, <2>1, <2>4
<1>5. QED
  BY <1>1, <1>2, <1>3, <1>4 DEF RowsAppended

LEMMA DeleteAppends ==
    ASSUME TypeOK, NEW c \in Contracts, Delete(c)
    PROVE  RowsAppended
<1>1. /\ rows' = {r \in rows : r.ev.contract # c}
      /\ tracked' = tracked \ {c}
      /\ gen' = [gen EXCEPT ![c] = @ + 1]
  BY DEF Delete, DeleteRow
<1>2. /\ gen[c] \in Nat
      /\ gen'[c] = gen[c] + 1
      /\ \A d \in Contracts \ {c} : gen'[d] = gen[d]
  BY <1>1 DEF TypeOK, StoreTypeOK
<1>3. gen'[c] # gen[c]
  BY <1>2
<1>4. \A r \in rows \ rows' : r.ev.contract = c
  BY <1>1
<1>5. rows' \ rows = {}
  BY <1>1
<1>6. QED
  BY <1>1, <1>2, <1>3, <1>4, <1>5 DEF RowsAppended

LEMMA AppendStep ==
    ASSUME IInv, SoloInv, NoOrphanEvents, NEW p \in Pollers,
           Step(p) \/ PollerFault(p) \/ Cancelled(p)
    PROVE  RowsAppended
<1>1. CASE Commit(p) \/ CommitUnacknowledged(p)
  BY <1>1, CommitAppends DEF Commit, CommitUnacknowledged
<1>2. CASE TickStart(p) \/ TickNotFound(p) \/ GetEventsFullPage(p) \/ GetEventsLastPage(p)
           \/ GetEventsNothing(p) \/ GetEventsRejected(p) \/ GetHealthCaughtUp(p)
           \/ GetHealthBelowFloor(p) \/ GetHealthInWindow(p)
  BY <1>2, SameRows
  DEF TickStart, TickNotFound, GetEventsFullPage, GetEventsLastPage, GetEventsNothing,
      GetEventsRejected, GetHealthCaughtUp, GetHealthBelowFloor, GetHealthInWindow, storeVars
<1>3. CASE Begin(p) \/ Insert(p) \/ InsertFails(p) \/ SetProgress(p) \/ SetProgressNotFound(p)
  BY <1>3, SameRows
  DEF Begin, Insert, InsertFails, SetProgress, SetProgressNotFound, storeVars
<1>4. CASE RpcFault(p) \/ DbFault(p) \/ Cancelled(p)
  BY <1>4, SameRows DEF RpcFault, DbFault, Cancelled
<1>5. QED
  BY <1>1, <1>2, <1>3, <1>4 DEF Step, PollerFault

LEMMA AppendNext ==
    ASSUME IInv, SoloInv, NoOrphanEvents, [Next]_vars
    PROVE  RowsAppended
<1>1. ASSUME NEW p \in Pollers, Step(p) \/ PollerFault(p) \/ Cancelled(p)
      PROVE  RowsAppended
  BY <1>1, AppendStep
<1>2. ASSUME NEW c \in Contracts, Delete(c) PROVE RowsAppended
  BY <1>2, DeleteAppends DEF IInv
<1>3. ASSUME NEW c \in Contracts, Register(c) PROVE RowsAppended
  BY <1>3, SameRows DEF Register, RegisterRow
<1>4. CASE Node \/ Startup \/ Shutdown \/ Exit \/ Crash \/ UNCHANGED vars
  BY <1>4, SameRows DEF Node, Startup, Shutdown, Exit, Crash, vars, storeVars
<1>5. QED
  BY <1>1, <1>2, <1>3, <1>4 DEF Next

\* Where no contract is polled twice, a commit puts a contract's rows after
\* all it has, in emission order and by id, in one INSERT and while it is
\* tracked, and only its deletion takes them, all at once (commit, Delete):
\* what the traversals of buildEventsQuery assume of their table.
THEOREM TableAppended ==
    ASSUME Distinct
    PROVE  Spec => TableAppends
<1>1. IInv /\ SoloInv /\ NoOrphanEvents /\ [Next]_vars => [RowsAppended]_vars
  BY AppendNext
<1>2. QED
  BY <1>1, Inductive, SoloAlways, NoOrphans, PTL DEF Spec, TableAppends

-----------------------------------------------------------------------------
\* When a transaction is open.

LEMMA OpenEnd ==
    ASSUME TypeOK, OpenInv, NEW p \in Pollers, pc[p] # "stopped",
           (\E ok \in BOOLEAN : EndTick(p, ok)) \/ Return(p), UNCHANGED procUp
    PROVE  OpenInv'
<1>1. open' = open \ {p} /\ \A q \in Pollers \ {p} : pc'[q] = pc[q]
  BY DEF EndTick, Return, TypeOK
<1>2. procUp
  BY DEF OpenInv
<1>3. QED
  BY <1>1, <1>2 DEF OpenInv, TypeOK, StoreTypeOK

LEMMA OpenMove ==
    ASSUME TypeOK, OpenInv, NEW p \in Pollers, pc[p] # "stopped", UNCHANGED procUp,
           open' \subseteq open \union {p}, \A q \in Pollers \ {p} : pc'[q] = pc[q],
           p \in open' => pc'[p] \in Tx
    PROVE  OpenInv'
<1>1. procUp
  BY DEF OpenInv
<1>2. QED
  BY <1>1 DEF OpenInv, TypeOK, StoreTypeOK

LEMMA OpenStep ==
    ASSUME TypeOK, OpenInv, NEW p \in Pollers, Step(p) \/ PollerFault(p) \/ Cancelled(p)
    PROVE  OpenInv'
<1>1. CASE TickNotFound(p) \/ GetEventsNothing(p) \/ GetHealthCaughtUp(p)
           \/ GetHealthInWindow(p) \/ InsertFails(p) \/ SetProgressNotFound(p) \/ Commit(p)
  BY <1>1, OpenEnd
  DEF TickNotFound, GetEventsNothing, GetHealthCaughtUp, GetHealthInWindow, InsertFails,
      SetProgressNotFound, Commit, procVars
<1>2. CASE RpcFault(p) \/ CommitUnacknowledged(p) \/ Cancelled(p)
  BY <1>2, OpenEnd DEF RpcFault, CommitUnacknowledged, Cancelled, procVars
<1>3. CASE DbFault(p)
  BY <1>3, OpenEnd DEF DbFault, Drained, Tx
<1>4. CASE GetEventsRejected(p)
  <2>1. CASE EndTick(p, FALSE)
    BY <1>4, <2>1, OpenEnd DEF GetEventsRejected, procVars
  <2>2. CASE ~EndTick(p, FALSE)
    <3>1. /\ pc[p] = "getEvents" /\ open' = open /\ procUp' = procUp
          /\ pc' = [pc EXCEPT ![p] = "getHealth"]
      BY <1>4, <2>2 DEF GetEventsRejected, procVars
    <3>2. p \notin open
      BY <3>1 DEF OpenInv, Tx
    <3>3. QED
      BY <3>1, <3>2, OpenMove DEF TypeOK
  <2>3. QED
    BY <2>1, <2>2
<1>5. CASE TickStart(p) \/ GetEventsFullPage(p) \/ GetEventsLastPage(p)
           \/ GetHealthBelowFloor(p)
  <2>1. /\ pc[p] \in {"idle", "getEvents", "getHealth"} /\ open' = open /\ procUp' = procUp
        /\ \A q \in Pollers \ {p} : pc'[q] = pc[q]
    BY <1>5
    DEF TickStart, GetEventsFullPage, GetEventsLastPage, GetHealthBelowFloor, storeVars,
        procVars, TypeOK
  <2>2. p \notin open
    BY <2>1 DEF OpenInv, Tx
  <2>3. QED
    BY <2>1, <2>2, OpenMove
<1>6. CASE Begin(p) \/ Insert(p) \/ SetProgress(p)
  <2>1. /\ pc[p] # "stopped" /\ open' \subseteq open \union {p} /\ procUp' = procUp
        /\ pc'[p] \in Tx
        /\ \A q \in Pollers \ {p} : pc'[q] = pc[q]
    BY <1>6 DEF Begin, Insert, SetProgress, storeVars, procVars, TypeOK, Tx
  <2>2. QED
    BY <2>1, OpenMove
<1>7. QED
  BY <1>1, <1>2, <1>3, <1>4, <1>5, <1>6 DEF Step, PollerFault

LEMMA OpenNext == TypeOK /\ OpenInv /\ [Next]_vars => OpenInv'
<1> SUFFICES ASSUME TypeOK, OpenInv, [Next]_vars PROVE OpenInv'
  OBVIOUS
<1>1. ASSUME NEW p \in Pollers, Step(p) \/ PollerFault(p) \/ Cancelled(p)
      PROVE  OpenInv'
  BY <1>1, OpenStep
<1>2. CASE UNCHANGED <<open, pc, procUp>>
  BY <1>2 DEF OpenInv
<1>3. ASSUME NEW c \in Contracts, Register(c) \/ Delete(c) PROVE OpenInv'
  BY <1>2, <1>3 DEF Register, Delete, tickVars, procVars
<1>4. CASE Node \/ Shutdown \/ UNCHANGED vars
  BY <1>2, <1>4 DEF Node, Shutdown, vars, storeVars, tickVars, procVars
<1>5. CASE Startup
  <2>1. open = {}
    BY <1>5 DEF Startup, OpenInv, TypeOK, StoreTypeOK, Tx
  <2>2. QED
    BY <1>5, <2>1 DEF Startup, OpenInv
<1>6. CASE Exit
  BY <1>6 DEF Exit, OpenInv, storeVars, tickVars
<1>7. CASE Crash
  BY <1>7 DEF Crash, OpenInv
<1>8. QED
  BY <1>1, <1>3, <1>4, <1>5, <1>6, <1>7 DEF Next

-----------------------------------------------------------------------------
\* Transactions that wait for one another.

LEMMA LockEnd ==
    ASSUME TypeOK, LockInv, NEW p \in Pollers,
           (\E ok \in BOOLEAN : EndTick(p, ok)) \/ Return(p)
    PROVE  LockInv'
<1>1. /\ pc'[p] \in {"idle", "stopped"}
      /\ txRows'[p] = {}
      /\ open' = open \ {p}
      /\ \A q \in Pollers \ {p} : pc'[q] = pc[q] /\ txRows'[q] = txRows[q]
  BY DEF EndTick, Return, TypeOK, StoreTypeOK
<1>2. QED
  BY <1>1 DEF LockInv, Tx

LEMMA LockMove ==
    ASSUME LockInv, NEW p \in Pollers, open \subseteq open',
           \A q \in Pollers \ {p} : pc'[q] = pc[q] /\ txRows'[q] = txRows[q],
           pc'[p] \in Tx => p \in open',
           txRows'[p] # {} => pc'[p] \in {"progress", "commit"}
    PROVE  LockInv'
BY DEF LockInv

LEMMA LockStep ==
    ASSUME TypeOK, LockInv, NEW p \in Pollers, Step(p) \/ PollerFault(p) \/ Cancelled(p)
    PROVE  LockInv'
<1>1. CASE TickNotFound(p) \/ GetEventsNothing(p) \/ GetHealthCaughtUp(p)
           \/ GetHealthInWindow(p) \/ InsertFails(p) \/ SetProgressNotFound(p) \/ Commit(p)
  BY <1>1, LockEnd
  DEF TickNotFound, GetEventsNothing, GetHealthCaughtUp, GetHealthInWindow, InsertFails,
      SetProgressNotFound, Commit
<1>2. CASE RpcFault(p) \/ DbFault(p) \/ CommitUnacknowledged(p) \/ Cancelled(p)
  BY <1>2, LockEnd DEF RpcFault, DbFault, CommitUnacknowledged, Cancelled
<1>3. CASE TickStart(p) \/ GetEventsFullPage(p) \/ GetEventsLastPage(p)
           \/ GetHealthBelowFloor(p) \/ (GetEventsRejected(p) /\ ~EndTick(p, FALSE))
  <2>1. /\ pc[p] \in {"idle", "getEvents", "getHealth"}
        /\ pc'[p] \in {"getEvents", "getHealth", "begin"}
        /\ \A q \in Pollers \ {p} : pc'[q] = pc[q]
        /\ open' = open /\ txRows' = txRows
    BY <1>3
    DEF TickStart, GetEventsFullPage, GetEventsLastPage, GetHealthBelowFloor,
        GetEventsRejected, storeVars, TypeOK
  <2>2. QED
    BY <2>1, LockMove DEF LockInv, Tx
<1>4. CASE GetEventsRejected(p) /\ EndTick(p, FALSE)
  BY <1>4, LockEnd
<1>5. CASE Begin(p)
  <2>1. /\ pc[p] = "begin" /\ pc'[p] = "insert" /\ open' = open \union {p}
        /\ \A q \in Pollers \ {p} : pc'[q] = pc[q]
        /\ txRows' = txRows
    BY <1>5 DEF Begin, TypeOK
  <2>2. QED
    BY <2>1, LockMove DEF LockInv
<1>6. CASE Insert(p)
  <2>1. /\ pc[p] = "insert" /\ pc'[p] = "progress" /\ open' = open
        /\ \A q \in Pollers \ {p} : pc'[q] = pc[q] /\ txRows'[q] = txRows[q]
    BY <1>6 DEF Insert, TypeOK, StoreTypeOK
  <2>2. QED
    BY <2>1, LockMove DEF LockInv, Tx
<1>7. CASE SetProgress(p)
  <2>1. /\ pc[p] = "progress" /\ pc'[p] = "commit" /\ open' = open /\ txRows' = txRows
        /\ \A q \in Pollers \ {p} : pc'[q] = pc[q]
    BY <1>7 DEF SetProgress, storeVars, TypeOK
  <2>2. QED
    BY <2>1, LockMove DEF LockInv, Tx
<1>8. QED
  BY <1>1, <1>2, <1>3, <1>4, <1>5, <1>6, <1>7 DEF Step, PollerFault

LEMMA LockNext == TypeOK /\ OpenInv /\ LockInv /\ [Next]_vars => LockInv'
<1> SUFFICES ASSUME TypeOK, OpenInv, LockInv, [Next]_vars PROVE LockInv'
  OBVIOUS
<1>1. ASSUME NEW p \in Pollers, Step(p) \/ PollerFault(p) \/ Cancelled(p)
      PROVE  LockInv'
  BY <1>1, LockStep
<1>2. CASE UNCHANGED <<open, pc, txRows>>
  BY <1>2 DEF LockInv
<1>3. ASSUME NEW c \in Contracts, Register(c) \/ Delete(c) PROVE LockInv'
  BY <1>2, <1>3 DEF Register, Delete, tickVars
<1>4. CASE Node \/ Shutdown \/ Exit \/ UNCHANGED vars
  BY <1>2, <1>4 DEF Node, Shutdown, Exit, vars, storeVars, tickVars
<1>5. CASE Startup
  <2>1. \A p \in Pollers : txRows[p] = {}
    BY <1>5 DEF Startup, OpenInv, LockInv
  <2>2. QED
    BY <1>5, <2>1 DEF Startup, LockInv, Tx
<1>6. CASE Crash
  BY <1>6 DEF Crash, LockInv, Tx
<1>7. QED
  BY <1>1, <1>3, <1>4, <1>5, <1>6 DEF Next

LEMMA LockAlways == Spec => [](TypeOK /\ OpenInv /\ LockInv)
<1>1. Init => OpenInv /\ LockInv
  BY DEF Init, OpenInv, LockInv, Tx
<1>2. QED
  BY <1>1, OpenNext, LockNext, TypeCorrect, PTL DEF Spec

\* The statements of a transaction come in one order, and each kind waits only
\* for transactions that are further on.
LEMMA FurthestMoves == TypeOK /\ LockInv => SomeoneMoves
<1> SUFFICES ASSUME LockInv, NEW o \in open, open \subseteq Pollers
             PROVE  \E p \in open : ~Waits(p)
  BY DEF SomeoneMoves, TypeOK, StoreTypeOK
<1>1. CASE \E p \in Pollers : pc[p] = "commit"
  BY <1>1 DEF LockInv, Waits, Tx
<1>2. CASE (\E p \in Pollers : pc[p] = "progress") /\ ~\E p \in Pollers : pc[p] = "commit"
  BY <1>2 DEF LockInv, Waits, RowLocked, Tx
<1>3. CASE ~\E p \in Pollers : pc[p] \in {"progress", "commit"}
  <2>1. \A q \in open : txRows[q] = {}
    BY <1>3 DEF LockInv
  <2>2. ~InsertBlocked(o, job[o].buf) /\ pc[o] # "progress"
    BY <1>3, <2>1 DEF InsertBlocked
  <2>3. QED
    BY <2>2 DEF Waits
<1>4. QED
  BY <1>1, <1>2, <1>3

\* No transactions wait for one another in a circle, on any engine and however
\* many goroutines poll one contract: of those open, one can go on (commit,
\* Events.Insert, SetProgress).
THEOREM NoDeadlock == Spec => []SomeoneMoves
BY LockAlways, FurthestMoves, PTL

\* What a step does to the open transactions.
LEMMA OpensOne ==
    ASSUME [Next]_vars
    PROVE  \/ open' \subseteq open
           \/ \E p \in Pollers : ConnFree /\ open' = open \union {p}
<1>1. ASSUME NEW p \in Pollers, Step(p)
      PROVE  open' \subseteq open \/ (ConnFree /\ open' = open \union {p})
  BY <1>1
  DEF Step, TickStart, TickNotFound, GetEventsFullPage, GetEventsLastPage, GetEventsNothing,
      GetEventsRejected, GetHealthCaughtUp, GetHealthBelowFloor, GetHealthInWindow, Begin,
      Insert, InsertFails, SetProgress, SetProgressNotFound, Commit, EndTick, storeVars
<1>2. ASSUME NEW p \in Pollers, PollerFault(p) \/ Cancelled(p)
      PROVE  open' \subseteq open
  BY <1>2
  DEF PollerFault, RpcFault, DbFault, CommitUnacknowledged, Cancelled, EndTick, Return
<1>3. QED
  BY <1>1, <1>2
  DEF Next, Register, Delete, Node, Startup, Shutdown, Exit, Crash, vars, storeVars

LEMMA PoolNext == PoolInv /\ [Next]_vars => PoolInv'
<1> SUFFICES ASSUME PoolInv, [Next]_vars PROVE PoolInv'
  OBVIOUS
<1>1. CASE open' \subseteq open
  <2>1. IsFiniteSet(open') /\ Cardinality(open') <= Cardinality(open)
    BY <1>1, FS_Subset DEF PoolInv
  <2>2. Cardinality(open') \in Nat /\ Cardinality(open) \in Nat
    BY <2>1, FS_CardinalityType DEF PoolInv
  <2>3. QED
    BY <2>1, <2>2, StoreAssumption DEF PoolInv
<1>2. ASSUME NEW p \in Pollers, ConnFree, open' = open \union {p}
      PROVE  PoolInv'
  <2>1. /\ IsFiniteSet(open')
        /\ Cardinality(open') = Cardinality(open) \/ Cardinality(open') = Cardinality(open) + 1
    BY <1>2, FS_AddElement DEF PoolInv
  <2>2. Cardinality(open) \in Nat /\ Cardinality(open) < PoolMax
    BY <1>2, FS_CardinalityType DEF PoolInv, ConnFree
  <2>3. QED
    BY <2>1, <2>2, StoreAssumption DEF PoolInv
<1>3. QED
  BY <1>1, <1>2, OpensOne

\* On SQLite, whose pool db.Open holds to one connection, transactions are
\* serial: no two goroutines are ever between BeginTx and its end.
THEOREM OneTransaction ==
    ASSUME PoolMax = 1
    PROVE  Spec => [](\A p, q \in Pollers : pc[p] \in Tx /\ pc[q] \in Tx => p = q)
<1>1. Init => PoolInv
  BY FS_EmptySet DEF Init, PoolInv
<1>2. PoolInv /\ LockInv => \A p, q \in Pollers : pc[p] \in Tx /\ pc[q] \in Tx => p = q
  <2> SUFFICES ASSUME PoolInv, LockInv, NEW p \in Pollers, NEW q \in Pollers,
                      pc[p] \in Tx, pc[q] \in Tx, p # q
               PROVE  FALSE
    OBVIOUS
  <2>1. {p, q} \subseteq open
    BY DEF LockInv
  <2>2. IsFiniteSet({p, q}) /\ Cardinality({p, q}) <= Cardinality(open)
    BY <2>1, FS_Subset DEF PoolInv
  <2>3. Cardinality({p}) = 1 /\ IsFiniteSet({p})
    BY FS_Singleton
  <2>4. Cardinality({p} \union {q}) = 2
    BY <2>3, FS_AddElement
  <2>5. {p} \union {q} = {p, q}
    OBVIOUS
  <2>6. Cardinality(open) \in Nat
    BY FS_CardinalityType DEF PoolInv
  <2>7. QED
    BY <2>2, <2>4, <2>5, <2>6 DEF PoolInv
<1>3. QED
  BY <1>1, <1>2, PoolNext, LockAlways, PTL DEF Spec

-----------------------------------------------------------------------------
\* The exception of NoSilentLoss: only a registration that follows another.

\* Where the progress of a registration is overwritten, its contract was
\* deleted before.
LEMMA StaleStep ==
    ASSUME IInv, StaleInv, NEW p \in Pollers, Step(p) \/ PollerFault(p) \/ Cancelled(p)
    PROVE  StaleInv'
<1> DEFINE c == Assigned[p]
<1>1. CASE Commit(p) \/ CommitUnacknowledged(p)
  <2>1. /\ pc[p] = "commit"
        /\ stale' = [stale EXCEPT ![c] = @ \/ job[p].gen # gen[c]]
        /\ gen' = gen
    BY <1>1 DEF Commit, CommitUnacknowledged, CommitWrites
  <2>2. job[p].gen <= gen[c] /\ job[p].gen \in Nat /\ gen[c] \in Nat /\ c \in Contracts
    BY <2>1, PollerAssumption
    DEF IInv, TickInv, GoroutineInv, JobInv, Calls, Drained, Tx, TypeOK, StoreTypeOK, Job
  <2>3. job[p].gen # gen[c] => gen[c] > 0
    BY <2>2
  <2>4. \A d \in Contracts : stale'[d] = IF d = c THEN stale[d] \/ job[p].gen # gen[c]
                                               ELSE stale[d]
    BY <2>1 DEF IInv, TypeOK
  <2>5. QED
    BY <2>1, <2>3, <2>4 DEF StaleInv
<1>2. CASE UNCHANGED <<gen, stale>>
  BY <1>2 DEF StaleInv
<1>3. CASE TickStart(p) \/ TickNotFound(p) \/ GetEventsFullPage(p) \/ GetEventsLastPage(p)
           \/ GetEventsNothing(p) \/ GetEventsRejected(p) \/ GetHealthCaughtUp(p)
           \/ GetHealthBelowFloor(p) \/ GetHealthInWindow(p)
  BY <1>2, <1>3
  DEF TickStart, TickNotFound, GetEventsFullPage, GetEventsLastPage, GetEventsNothing,
      GetEventsRejected, GetHealthCaughtUp, GetHealthBelowFloor, GetHealthInWindow,
      storeVars, histVars
<1>4. CASE Begin(p) \/ Insert(p) \/ InsertFails(p) \/ SetProgress(p) \/ SetProgressNotFound(p)
  BY <1>2, <1>4
  DEF Begin, Insert, InsertFails, SetProgress, SetProgressNotFound, storeVars, histVars
<1>5. CASE RpcFault(p) \/ DbFault(p) \/ Cancelled(p)
  BY <1>2, <1>5 DEF RpcFault, DbFault, Cancelled, histVars
<1>6. QED
  BY <1>1, <1>3, <1>4, <1>5 DEF Step, PollerFault

LEMMA StaleNext == IInv /\ StaleInv /\ [Next]_vars => StaleInv'
<1> SUFFICES ASSUME IInv, StaleInv, [Next]_vars PROVE StaleInv'
  OBVIOUS
<1>1. ASSUME NEW p \in Pollers, Step(p) \/ PollerFault(p) \/ Cancelled(p)
      PROVE  StaleInv'
  BY <1>1, StaleStep
<1>2. ASSUME NEW c \in Contracts, Delete(c) PROVE StaleInv'
  <2>1. /\ stale' = [stale EXCEPT ![c] = FALSE]
        /\ gen' = [gen EXCEPT ![c] = @ + 1]
    BY <1>2 DEF Delete, DeleteRow
  <2>2. \A d \in Contracts \ {c} : stale'[d] = stale[d] /\ gen'[d] = gen[d]
    BY <2>1 DEF IInv, TypeOK, StoreTypeOK
  <2>3. ~stale'[c]
    BY <2>1 DEF IInv, TypeOK
  <2>4. QED
    BY <2>2, <2>3 DEF StaleInv
<1>3. CASE UNCHANGED <<gen, stale>>
  BY <1>3 DEF StaleInv
<1>4. QED
  BY <1>1, <1>2, <1>3
  DEF Next, Register, RegisterRow, Node, Startup, Shutdown, Exit, Crash, vars, storeVars,
      histVars

\* What commit's comment promises holds in full, with no exception, of a
\* contract that has never been deleted: a tick can only write the progress of
\* another registration than the one it read where there has been another.
THEOREM FirstAccounts == Spec => []FirstCovered
<1>1. Init => StaleInv
  BY DEF Init, StaleInv
<1>2. IInv /\ StaleInv => FirstCovered
  BY DEF IInv, NoSilentLoss, StaleInv, FirstCovered
<1>3. QED
  BY <1>1, <1>2, StaleNext, Inductive, PTL DEF Spec

\* Where nothing is deleted through the API, commit's comment holds in full.
THEOREM AllAccounted ==
    ASSUME MaxDeletes = 0
    PROVE  Spec => []ProgressCovered
<1> DEFINE NoneDeleted == \A c \in Contracts : gen[c] = 0
<1>1. Init => NoneDeleted
  BY DEF Init
<1>2. TypeOK /\ NoneDeleted /\ [Next]_vars => NoneDeleted'
  <2> SUFFICES ASSUME TypeOK, NoneDeleted, [Next]_vars PROVE NoneDeleted'
    OBVIOUS
  <2>1. ASSUME NEW c \in Contracts, Delete(c) PROVE FALSE
    BY <2>1 DEF Delete
  <2>2. ASSUME NEW p \in Pollers, Step(p) PROVE gen' = gen
    BY <2>2
    DEF Step, TickStart, TickNotFound, GetEventsFullPage, GetEventsLastPage, GetEventsNothing,
        GetEventsRejected, GetHealthCaughtUp, GetHealthBelowFloor, GetHealthInWindow, Begin,
        Insert, InsertFails, SetProgress, SetProgressNotFound, Commit, storeVars
  <2>3. ASSUME NEW p \in Pollers, PollerFault(p) \/ Cancelled(p) PROVE gen' = gen
    BY <2>3 DEF PollerFault, RpcFault, DbFault, CommitUnacknowledged, Cancelled
  <2>4. gen' = gen
    BY <2>1, <2>2, <2>3
    DEF Next, Register, RegisterRow, Node, Startup, Shutdown, Exit, Crash, vars, storeVars
  <2>5. QED
    BY <2>4
<1>3. FirstCovered /\ NoneDeleted => ProgressCovered
  BY DEF FirstCovered, ProgressCovered
<1>4. QED
  BY <1>1, <1>2, <1>3, FirstAccounts, TypeCorrect, PTL DEF Spec

-----------------------------------------------------------------------------
\* The goroutines and their waits.

LEMMA EndWaits ==
    ASSUME TypeOK, WaitsInReach, NEW p \in Pollers, NEW ok \in BOOLEAN, EndTick(p, ok)
    PROVE  WaitsInReach'
<1> DEFINE b == timer[p].backoff
<1>1. b \in Nat /\ InReach(b)
  BY DEF TypeOK, WaitsInReach
<1>2. InReach(NextBackoff(b))
  BY <1>1, PollerAssumption DEF InReach, NextBackoff
<1>3. InReach(Interval)
  BY PollerAssumption DEF InReach
<1>4. /\ timer'[p] = FreshTimer \/ timer'[p] = [wait |-> b, backoff |-> NextBackoff(b)]
      /\ \A q \in Pollers \ {p} : timer'[q] = timer[q]
  BY DEF EndTick, TypeOK
<1>5. InReach(timer'[p].wait) /\ InReach(timer'[p].backoff)
  BY <1>1, <1>2, <1>3, <1>4 DEF FreshTimer
<1>6. QED
  BY <1>4, <1>5 DEF WaitsInReach

LEMMA WaitsStep ==
    ASSUME TypeOK, WaitsInReach, NEW p \in Pollers,
           Step(p) \/ PollerFault(p) \/ Cancelled(p)
    PROVE  WaitsInReach'
<1>1. CASE UNCHANGED timer
  BY <1>1 DEF WaitsInReach
<1>2. CASE TickNotFound(p) \/ GetEventsNothing(p) \/ GetHealthCaughtUp(p)
           \/ GetHealthInWindow(p) \/ InsertFails(p) \/ SetProgressNotFound(p) \/ Commit(p)
  BY <1>2, EndWaits
  DEF TickNotFound, GetEventsNothing, GetHealthCaughtUp, GetHealthInWindow, InsertFails,
      SetProgressNotFound, Commit
<1>3. CASE DbFault(p) \/ CommitUnacknowledged(p)
  BY <1>3, EndWaits DEF DbFault, CommitUnacknowledged
<1>4. CASE RpcFault(p) \/ GetEventsRejected(p)
  BY <1>1, <1>4, EndWaits DEF RpcFault, Return, GetEventsRejected
<1>5. CASE TickStart(p) \/ GetEventsFullPage(p) \/ GetEventsLastPage(p)
           \/ GetHealthBelowFloor(p) \/ Begin(p) \/ Insert(p) \/ SetProgress(p)
           \/ Cancelled(p)
  BY <1>1, <1>5
  DEF TickStart, GetEventsFullPage, GetEventsLastPage, GetHealthBelowFloor, Begin, Insert,
      SetProgress, Cancelled, Return
<1>6. QED
  BY <1>2, <1>3, <1>4, <1>5 DEF Step, PollerFault

\* Every wait run arms lies between the poll interval and maxBackoff: however
\* many ticks fail, the next is due after the longer of the two at the latest,
\* and none is due sooner than the shorter (run, nextBackoff).  With an
\* interval above maxBackoff the shorter is maxBackoff: the floor nextBackoff
\* names is then not kept.
THEOREM WaitsStayInReach == Spec => []WaitsInReach
<1>1. Init => WaitsInReach
  BY PollerAssumption DEF Init, WaitsInReach, FreshTimer, InReach
<1>2. TypeOK /\ WaitsInReach /\ [Next]_vars => WaitsInReach'
  <2> SUFFICES ASSUME TypeOK, WaitsInReach, [Next]_vars PROVE WaitsInReach'
    OBVIOUS
  <2>1. ASSUME NEW p \in Pollers, Step(p) \/ PollerFault(p) \/ Cancelled(p)
        PROVE  WaitsInReach'
    BY <2>1, WaitsStep
  <2>2. CASE UNCHANGED timer
    BY <2>2 DEF WaitsInReach
  <2>3. CASE Startup
    BY <2>3, PollerAssumption DEF Startup, WaitsInReach, FreshTimer, InReach
  <2>4. QED
    BY <2>1, <2>2, <2>3
    DEF Next, Register, Delete, Node, Shutdown, Exit, Crash, vars, tickVars
<1>3. QED
  BY <1>1, <1>2, TypeCorrect, PTL DEF Spec

\* A failing tick never ends its goroutine, unless the client's own errors
\* unwrap to a cancellation, which those of the client main builds do not:
\* while the process runs and is not told to stop, every contract of the
\* bootstrap list is polled (run).
THEOREM NoneGivesUp ==
    ASSUME "cancelled" \notin RpcErrors
    PROVE  Spec => []AllPoll
<1>1. Init => AllPoll
  BY DEF Init, AllPoll
<1>2. TypeOK /\ AllPoll /\ [Next]_vars => AllPoll'
  <2> SUFFICES ASSUME TypeOK, AllPoll, [Next]_vars PROVE AllPoll'
    OBVIOUS
  <2>1. ASSUME NEW p \in Pollers, \A q \in Pollers \ {p} : pc'[q] = pc[q],
               pc'[p] # "stopped" \/ ctxDone, UNCHANGED <<procUp, ctxDone>>
        PROVE  AllPoll'
    BY <2>1 DEF AllPoll
  <2>2. ASSUME NEW p \in Pollers, Step(p) PROVE AllPoll'
    <3>1. /\ pc'[p] # "stopped"
          /\ \A q \in Pollers \ {p} : pc'[q] = pc[q]
      BY <2>2
      DEF Step, TickStart, TickNotFound, GetEventsFullPage, GetEventsLastPage,
          GetEventsNothing, GetEventsRejected, GetHealthCaughtUp, GetHealthBelowFloor,
          GetHealthInWindow, Begin, Insert, InsertFails, SetProgress, SetProgressNotFound,
          Commit, EndTick, TypeOK
    <3>2. UNCHANGED <<procUp, ctxDone>>
      BY <2>2
      DEF Step, TickStart, TickNotFound, GetEventsFullPage, GetEventsLastPage,
          GetEventsNothing, GetEventsRejected, GetHealthCaughtUp, GetHealthBelowFloor,
          GetHealthInWindow, Begin, Insert, InsertFails, SetProgress, SetProgressNotFound,
          Commit, procVars
    <3>3. QED
      BY <2>1, <3>1, <3>2
  <2>3. ASSUME NEW p \in Pollers, PollerFault(p) \/ Cancelled(p) PROVE AllPoll'
    <3>1. \A q \in Pollers \ {p} : pc'[q] = pc[q]
      BY <2>3
      DEF PollerFault, RpcFault, DbFault, CommitUnacknowledged, Cancelled, EndTick, Return,
          TypeOK
    <3>2. pc'[p] # "stopped" \/ ctxDone
      BY <2>3
      DEF PollerFault, RpcFault, DbFault, CommitUnacknowledged, Cancelled, EndTick, TypeOK
    <3>3. UNCHANGED <<procUp, ctxDone>>
      BY <2>3 DEF PollerFault, RpcFault, DbFault, CommitUnacknowledged, Cancelled, procVars
    <3>4. QED
      BY <2>1, <3>1, <3>2, <3>3
  <2>4. CASE UNCHANGED <<pc, procUp, ctxDone>>
    BY <2>4 DEF AllPoll
  <2>5. CASE Startup \/ Shutdown \/ Exit \/ Crash
    BY <2>5 DEF Startup, Shutdown, Exit, Crash, AllPoll
  <2>6. QED
    BY <2>2, <2>3, <2>4, <2>5
    DEF Next, Register, Delete, Node, vars, tickVars, procVars
<1>3. QED
  BY <1>1, <1>2, TypeCorrect, PTL DEF Spec

=============================================================================
