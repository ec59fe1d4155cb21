---------------------------- MODULE PollerProofs ----------------------------
(***************************************************************************)
(* Proofs about Poller for every value of its constants: any number of     *)
(* goroutines, on any contracts, any pool, page and batch size, any chain. *)
(***************************************************************************)
EXTENDS PollerInv, TLAPS

\* The types of what a tick leaves behind, however it ends.
TickTypes ==
    /\ pc \in [Pollers -> {"idle", "stopped"} \union Calls]
    /\ job \in [Pollers -> Job]
    /\ timer \in [Pollers -> [wait : Nat, backoff : Nat]]
    /\ open \subseteq Pollers
    /\ txRows \in [Pollers -> SUBSET Row]

USE RpcAssumption, StoreAssumption, PollerAssumption

LEMMA NoJobType == NoJob \in Job
BY DEF NoJob, Job, AtLedger, Position

LEMMA NextBackoffType ==
    ASSUME NEW b \in Nat
    PROVE  NextBackoff(b) \in Nat
BY DEF NextBackoff

LEMMA FreshTimerType == FreshTimer \in [wait : Nat, backoff : Nat]
BY DEF FreshTimer

LEMMA EndTickType ==
    ASSUME TypeOK, NEW p \in Pollers, NEW ok, EndTick(p, ok)
    PROVE  TickTypes'
<1>1. timer' \in [Pollers -> [wait : Nat, backoff : Nat]]
  <2>1. timer[p].backoff \in Nat
    BY DEF TypeOK
  <2>2. [wait |-> timer[p].backoff, backoff |-> NextBackoff(timer[p].backoff)]
            \in [wait : Nat, backoff : Nat]
    BY <2>1, NextBackoffType
  <2>3. QED
    BY <2>2, FreshTimerType DEF EndTick, TypeOK
<1>2. job' \in [Pollers -> Job]
  BY NoJobType DEF EndTick, TypeOK
<1>3. QED
  BY <1>1, <1>2 DEF EndTick, TypeOK, StoreTypeOK, TickTypes

LEMMA ReturnType ==
    ASSUME TypeOK, NEW p \in Pollers, Return(p)
    PROVE  TickTypes'
<1>1. job' \in [Pollers -> Job]
  BY NoJobType DEF Return, TypeOK
<1>2. QED
  BY <1>1 DEF Return, TypeOK, StoreTypeOK, TickTypes

LEMMA DrainFromType ==
    ASSUME TypeOK, NEW p, NEW start \in Nat, NEW low \in Nat,
           NEW g \in Nat, DrainFrom(p, start, low, g)
    PROVE  job' \in [Pollers -> Job]
BY DEF DrainFrom, TypeOK, Job, AtLedger, Position

LEMMA KeptType ==
    ASSUME TypeOK, NEW p \in Pollers, NEW page \in SUBSET chain
    PROVE  Kept(p, page) \in SUBSET Event
BY DEF TypeOK, RpcTypeOK, Job, Kept

LEMMA AppendPageType ==
    ASSUME TypeOK, NEW p \in Pollers, NEW page \in SUBSET chain,
           NEW from \in Position, AppendPage(p, page, from)
    PROVE  job' \in [Pollers -> Job]
<1>1. PICK h \in {0} \union {e.ledger : e \in Kept(p, page)} :
          job' = [job EXCEPT ![p] = [@ EXCEPT !.buf = Kept(p, page),
                                               !.high = h, !.from = from]]
  BY DEF AppendPage
<1>2. h \in Nat
  BY <1>1, KeptType DEF Event
<1>3. QED
  <2>1. job[p] \in Job /\ Kept(p, page) \in SUBSET Event
    BY KeptType DEF TypeOK
  <2>2. [job[p] EXCEPT !.buf = Kept(p, page), !.high = h, !.from = from] \in Job
    BY <1>2, <2>1 DEF Job
  <2>3. QED
    BY <1>1, <2>2 DEF TypeOK

LEMMA CommitWritesType ==
    ASSUME TypeOK, NEW p \in Pollers, CommitWrites(p)
    PROVE  /\ last' \in [Contracts -> Nat]
           /\ first' \in [Contracts -> Nat]
           /\ rows' \subseteq Row
           /\ stale' \in [Contracts -> BOOLEAN]
<1>1. job[p].high \in Nat
  BY DEF TypeOK, Job
<1>2. QED
  BY <1>1 DEF CommitWrites, TypeOK, StoreTypeOK

LEMMA PageInChain ==
    ASSUME NEW c, NEW from
    PROVE  Matching(c, from) \subseteq chain
BY DEF Matching

LEMMA MatchingType ==
    ASSUME TypeOK, NEW c, NEW from
    PROVE  Matching(c, from) \subseteq Event
BY PageInChain DEF TypeOK, RpcTypeOK

LEMMA NodeType ==
    ASSUME TypeOK, RpcNext
    PROVE  RpcTypeOK'
<1>1. CASE CloseLedger
  <2>1. PICK n \in 0 .. PerLedger :
          \E from \in [0 .. n - 1 -> Contracts], good \in [0 .. n - 1 -> Decodable] :
            chain' = chain \union
                {[ledger |-> tip + 1, index |-> i,
                  contract |-> from[i], good |-> good[i]] : i \in 0 .. n - 1}
    BY <1>1 DEF CloseLedger
  <2>2. PICK from \in [0 .. n - 1 -> Contracts], good \in [0 .. n - 1 -> Decodable] :
            chain' = chain \union
                {[ledger |-> tip + 1, index |-> i,
                  contract |-> from[i], good |-> good[i]] : i \in 0 .. n - 1}
    BY <2>1
  <2>3. \A i \in 0 .. n - 1 :
          [ledger |-> tip + 1, index |-> i,
           contract |-> from[i], good |-> good[i]] \in Event
    BY DEF TypeOK, RpcTypeOK, Event
  <2>4. tip' = tip + 1 /\ floor' = floor
    BY <1>1 DEF CloseLedger
  <2>5. chain' \subseteq Event
    BY <2>2, <2>3 DEF TypeOK, RpcTypeOK
  <2>6. \A e \in chain' : e.ledger <= tip + 1
    <3>1. \A e \in chain : e.ledger \in Nat /\ e.ledger <= tip
      BY DEF TypeOK, RpcTypeOK, Event
    <3>2. QED
      BY <2>2, <3>1 DEF TypeOK, RpcTypeOK
  <2>7. QED
    BY <2>4, <2>5, <2>6 DEF TypeOK, RpcTypeOK
<1>2. CASE TrimLedger
  BY <1>2 DEF TrimLedger, TypeOK, RpcTypeOK
<1>3. QED
  BY <1>1, <1>2 DEF RpcNext

\* The calls of a tick keep the types.
LEMMA StepType ==
    ASSUME TypeOK, NEW p \in Pollers, Step(p)
    PROVE  TypeOK'
<1> USE DEF tickVars, histVars, procVars, storeVars, rpcVars
<1> Assigned[p] \in Contracts
  OBVIOUS
<1>a. ASSUME NEW ok, EndTick(p, ok),
             UNCHANGED <<rpcVars, tracked, last, first, rows, gen, histVars, procVars>>
      PROVE  TypeOK'
  BY <1>a, EndTickType DEF TypeOK, RpcTypeOK, StoreTypeOK, TickTypes
<1>1. CASE TickStart(p)
  <2>1. last[Assigned[p]] + 1 \in Nat /\ gen[Assigned[p]] \in Nat
    BY DEF TypeOK, StoreTypeOK
  <2>2. job' \in [Pollers -> Job]
    BY <1>1, <2>1, DrainFromType DEF TickStart
  <2>3. QED
    BY <1>1, <2>2 DEF TickStart, TypeOK, RpcTypeOK, StoreTypeOK, Calls
<1>2. CASE TickNotFound(p)
  BY <1>2, <1>a DEF TickNotFound
<1>3. CASE GetEventsFullPage(p)
  <2>1. PICK page \in SUBSET Matching(Assigned[p], job[p].from) :
          \E e \in page : AppendPage(p, page, JustAfter(e))
    BY <1>3 DEF GetEventsFullPage
  <2>2. PICK e \in page : AppendPage(p, page, JustAfter(e))
    BY <2>1
  <2>3. e \in Event /\ page \in SUBSET chain
    BY MatchingType, PageInChain
  <2>4. JustAfter(e) \in Position
    BY <2>3 DEF JustAfter, Position, Event
  <2>5. job' \in [Pollers -> Job]
    BY <2>2, <2>3, <2>4, AppendPageType
  <2>6. QED
    BY <1>3, <2>5 DEF GetEventsFullPage, TypeOK, RpcTypeOK, StoreTypeOK
<1>4. CASE GetEventsLastPage(p)
  <2>1. PICK page \in SUBSET Matching(Assigned[p], job[p].from) :
          AppendPage(p, page, job[p].from)
    BY <1>4 DEF GetEventsLastPage
  <2>2. job[p].from \in Position /\ page \in SUBSET chain
    BY PageInChain DEF TypeOK, Job
  <2>3. job' \in [Pollers -> Job]
    BY <2>1, <2>2, AppendPageType
  <2>4. QED
    BY <1>4, <2>3 DEF GetEventsLastPage, TypeOK, RpcTypeOK, StoreTypeOK, Calls, Drained
<1>5. CASE GetEventsNothing(p)
  BY <1>5, <1>a DEF GetEventsNothing
<1>6. CASE GetEventsRejected(p)
  <2>1. CASE EndTick(p, FALSE)
    BY <1>6, <2>1, <1>a DEF GetEventsRejected
  <2>2. CASE ~EndTick(p, FALSE)
    <3>1. PICK x \in {"none", "low", "high"} :
             job' = [job EXCEPT ![p] = [@ EXCEPT !.side = x]]
      BY <1>6, <2>2 DEF GetEventsRejected
    <3>2. job[p] \in Job
      BY DEF TypeOK
    <3>3. [job[p] EXCEPT !.side = x] \in Job
      BY <3>2 DEF Job
    <3>4. job' \in [Pollers -> Job]
      BY <3>1, <3>3 DEF TypeOK
    <3>5. pc' = [pc EXCEPT ![p] = "getHealth"]
      BY <1>6, <2>2 DEF GetEventsRejected
    <3>6. UNCHANGED <<timer, open, txRows, rpcVars, tracked, last, first, rows, gen,
                      histVars, procVars>>
      BY <1>6, <2>2 DEF GetEventsRejected
    <3>7. QED
      BY <3>4, <3>5, <3>6 DEF TypeOK, RpcTypeOK, StoreTypeOK, Calls
  <2>3. QED
    BY <2>1, <2>2
<1>7. CASE GetHealthCaughtUp(p)
  BY <1>7, <1>a DEF GetHealthCaughtUp
<1>8. CASE GetHealthBelowFloor(p)
  <2>1. job[p].start \in Nat /\ floor \in Nat /\ job[p].gen \in Nat
    BY DEF TypeOK, RpcTypeOK, Job
  <2>2. job' \in [Pollers -> Job]
    BY <1>8, <2>1, DrainFromType DEF GetHealthBelowFloor
  <2>3. skipped[Assigned[p]] \union (job[p].start .. floor - 1) \in SUBSET Nat
    BY <2>1 DEF TypeOK
  <2>4. QED
    BY <1>8, <2>2, <2>3 DEF GetHealthBelowFloor, TypeOK, RpcTypeOK, StoreTypeOK, Calls
<1>9. CASE GetHealthInWindow(p)
  BY <1>9, <1>a DEF GetHealthInWindow
<1>10. CASE Begin(p)
  BY <1>10 DEF Begin, TypeOK, RpcTypeOK, StoreTypeOK, Calls, Drained, Tx
<1>11. CASE Insert(p)
  <2>1. PICK b \in 1 .. MaxRowBatch :
          txRows' = [txRows EXCEPT ![p] = FreshRows(job[p].buf, b)]
    BY <1>11 DEF Insert
  <2>2. FreshRows(job[p].buf, b) \subseteq Row
    <3>1. job[p].buf \subseteq Event
      BY DEF TypeOK, Job
    <3>2. b \in Nat
      OBVIOUS
    <3>3. QED
      BY <3>1, <3>2 DEF FreshRows, Row
  <2>3. txRows' \in [Pollers -> SUBSET Row]
    BY <2>1, <2>2 DEF TypeOK, StoreTypeOK
  <2>4. QED
    BY <1>11, <2>3
    DEF Insert, TypeOK, RpcTypeOK, StoreTypeOK, Calls, Drained, Tx
<1>12. CASE InsertFails(p)
  BY <1>12, <1>a DEF InsertFails
<1>13. CASE SetProgress(p)
  BY <1>13 DEF SetProgress, TypeOK, RpcTypeOK, StoreTypeOK, Calls, Drained, Tx
<1>14. CASE SetProgressNotFound(p)
  BY <1>14, <1>a DEF SetProgressNotFound
<1>15. CASE Commit(p)
  BY <1>15, EndTickType, CommitWritesType
  DEF Commit, TypeOK, RpcTypeOK, StoreTypeOK, TickTypes
<1>16. QED
  BY <1>1, <1>2, <1>3, <1>4, <1>5, <1>6, <1>7, <1>8, <1>9, <1>10, <1>11, <1>12,
     <1>13, <1>14, <1>15
  DEF Step

\* What goes wrong in a tick keeps the types.
LEMMA TroubleType ==
    ASSUME TypeOK, NEW p \in Pollers, PollerFault(p) \/ Cancelled(p)
    PROVE  TypeOK'
<1> USE DEF tickVars, histVars, procVars, storeVars, rpcVars
<1>1. CASE RpcFault(p)
  <2>1. TickTypes'
    BY <1>1, EndTickType, ReturnType DEF RpcFault
  <2>2. QED
    BY <1>1, <2>1 DEF RpcFault, Fault, TypeOK, RpcTypeOK, StoreTypeOK, TickTypes
<1>2. CASE DbFault(p)
  <2>1. TickTypes'
    BY <1>2, EndTickType DEF DbFault
  <2>2. QED
    BY <1>2, <2>1 DEF DbFault, Fault, TypeOK, RpcTypeOK, StoreTypeOK, TickTypes
<1>3. CASE CommitUnacknowledged(p)
  <2>1. TickTypes'
    BY <1>3, EndTickType DEF CommitUnacknowledged
  <2>2. /\ last' \in [Contracts -> Nat]
        /\ first' \in [Contracts -> Nat]
        /\ rows' \subseteq Row
        /\ stale' \in [Contracts -> BOOLEAN]
    BY <1>3, CommitWritesType DEF CommitUnacknowledged
  <2>3. QED
    BY <1>3, <2>1, <2>2
    DEF CommitUnacknowledged, Fault, TypeOK, RpcTypeOK, StoreTypeOK, TickTypes
<1>4. CASE Cancelled(p)
  BY <1>4, ReturnType DEF Cancelled, TypeOK, RpcTypeOK, StoreTypeOK, TickTypes
<1>5. QED
  BY <1>1, <1>2, <1>3, <1>4 DEF PollerFault

\* The API's calls and the life of the process keep the types.
LEMMA OperatorType ==
    ASSUME TypeOK,
           \/ \E c \in Contracts : Register(c) \/ Delete(c)
           \/ Startup \/ Shutdown \/ Exit \/ Crash
    PROVE  TypeOK'
<1> USE DEF tickVars, histVars, procVars, storeVars, rpcVars
<1>1. ASSUME NEW c \in Contracts, Register(c) PROVE TypeOK'
  BY <1>1 DEF Register, RegisterRow, TypeOK, RpcTypeOK, StoreTypeOK
<1>2. ASSUME NEW c \in Contracts, Delete(c) PROVE TypeOK'
  BY <1>2 DEF Delete, DeleteRow, TypeOK, RpcTypeOK, StoreTypeOK
<1>3. CASE Startup
  <2>1. timer' \in [Pollers -> [wait : Nat, backoff : Nat]]
    BY <1>3, FreshTimerType DEF Startup
  <2>2. pc' \in [Pollers -> {"idle", "stopped"} \union Calls]
    BY <1>3 DEF Startup
  <2>3. tracked' \subseteq Contracts
    BY <1>3 DEF Startup, TypeOK, StoreTypeOK
  <2>4. QED
    BY <1>3, <2>1, <2>2, <2>3 DEF Startup, TypeOK, RpcTypeOK, StoreTypeOK
<1>4. CASE Shutdown
  BY <1>4 DEF Shutdown, Fault, TypeOK, RpcTypeOK, StoreTypeOK
<1>5. CASE Exit
  BY <1>5 DEF Exit, TypeOK, RpcTypeOK, StoreTypeOK
<1>6. CASE Crash
  <2>1. job' \in [Pollers -> Job]
    BY <1>6, NoJobType DEF Crash
  <2>2. pc' \in [Pollers -> {"idle", "stopped"} \union Calls]
    BY <1>6 DEF Crash
  <2>3. StoreTypeOK'
    BY <1>6 DEF Crash, TypeOK, StoreTypeOK
  <2>4. RpcTypeOK'
    BY <1>6 DEF Crash, TypeOK, RpcTypeOK
  <2>5. faults' \in Nat
    BY <1>6 DEF Crash, Fault, TypeOK
  <2>6. QED
    BY <1>6, <2>1, <2>2, <2>3, <2>4, <2>5 DEF Crash, TypeOK
<1>7. QED
  BY <1>1, <1>2, <1>3, <1>4, <1>5, <1>6

LEMMA InitType == Init => TypeOK
<1> SUFFICES ASSUME Init PROVE TypeOK
  OBVIOUS
<1>1. RpcTypeOK
  BY DEF Init, RpcInit, RpcTypeOK
<1>2. StoreTypeOK
  BY DEF Init, StoreTypeOK
<1>3. job \in [Pollers -> Job] /\ timer \in [Pollers -> [wait : Nat, backoff : Nat]]
  BY NoJobType, FreshTimerType DEF Init
<1>4. QED
  BY <1>1, <1>2, <1>3 DEF Init, TypeOK

LEMMA NextType == TypeOK /\ [Next]_vars => TypeOK'
<1> SUFFICES ASSUME TypeOK, [Next]_vars PROVE TypeOK'
  OBVIOUS
<1>1. ASSUME NEW p \in Pollers, Step(p) \/ PollerFault(p) \/ Cancelled(p)
      PROVE  TypeOK'
  BY <1>1, StepType, TroubleType
<1>2. CASE Node
  BY <1>2, NodeType
  DEF Node, storeVars, tickVars, histVars, procVars, TypeOK, StoreTypeOK
<1>3. CASE UNCHANGED vars
  BY <1>3 DEF vars, storeVars, tickVars, histVars, procVars, rpcVars,
              TypeOK, StoreTypeOK, RpcTypeOK
<1>4. QED
  BY <1>1, <1>2, <1>3, OperatorType DEF Next

\* Type correctness of the poller, its database and the node
\* (events.go, the contracts and events tables).
THEOREM TypeCorrect == Spec => []TypeOK
BY InitType, NextType, PTL DEF Spec

=============================================================================
