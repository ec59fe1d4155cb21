-------------------------- MODULE PollerRefinement --------------------------
(***************************************************************************)
(* The polling loop implements IndexedHistory, for every instance: each    *)
(* step is a step of it or a stutter.  The invariant of PollerSafety gives *)
(* what a commit accounts for, TxInv what a transaction writes.            *)
(***************************************************************************)
EXTENDS PollerSafety, PollerHistory

\* What TxInv says of one goroutine.
TxOf(q) ==
    /\ pc[q] \in {"progress", "commit"} =>
           \A r \in txRows[q] : r.ev \in job[q].buf
    /\ pc[q] = "commit" => Assigned[q] \in tracked

\* A goroutine that does not move keeps its part when its contract stays.
LEMMA TxOfKept ==
    ASSUME NEW q, TxOf(q), pc'[q] = pc[q], job'[q] = job[q],
           txRows'[q] = txRows[q], tracked \subseteq tracked'
    PROVE  TxOf(q)'
BY DEF TxOf

\* What the others see of a step of p.
Others(p) ==
    \A q \in Pollers \ {p} :
        /\ pc'[q] = pc[q]
        /\ job'[q] = job[q]
        /\ txRows'[q] = txRows[q]

LEMMA OwnStep ==
    ASSUME TypeOK, TxInv, NEW p \in Pollers, Others(p), tracked' = tracked, TxOf(p)'
    PROVE  TxInv'
<1>1. ASSUME NEW q \in Pollers \ {p} PROVE TxOf(q)'
  BY <1>1, TxOfKept DEF TxInv, TxOf, Others
<1>2. QED
  BY <1>1 DEF TxInv, TxOf

LEMMA EndTx ==
    ASSUME TypeOK, TxInv, NEW p \in Pollers, tracked' = tracked,
           (\E ok \in BOOLEAN : EndTick(p, ok)) \/ Return(p)
    PROVE  TxInv'
<1>1. Others(p) /\ pc'[p] \in {"idle", "stopped"}
  BY DEF TypeOK, StoreTypeOK, EndTick, Return, Others
<1>2. QED
  BY <1>1, OwnStep DEF TxOf

\* A call that leads to no transaction statement.
LEMMA BeforeTx ==
    ASSUME TypeOK, TxInv, NEW p \in Pollers, tracked' = tracked, txRows' = txRows,
           NEW j, job' = [job EXCEPT ![p] = j],
           NEW l \in {"getEvents", "getHealth", "begin", "insert"},
           pc' = [pc EXCEPT ![p] = l]
    PROVE  TxInv'
<1>1. Others(p) /\ pc'[p] = l
  BY DEF TypeOK, StoreTypeOK, Others
<1>2. QED
  BY <1>1, OwnStep DEF TxOf

LEMMA TxStep ==
    ASSUME TypeOK, TxInv, NEW p \in Pollers, Step(p) \/ PollerFault(p) \/ Cancelled(p)
    PROVE  TxInv'
<1>1. CASE TickStart(p) \/ GetHealthBelowFloor(p)
  BY <1>1, BeforeTx
  DEF TickStart, GetHealthBelowFloor, DrainFrom, storeVars
<1>2. CASE GetEventsFullPage(p)
  <2>1. PICK j : job' = [job EXCEPT ![p] = j]
    BY <1>2 DEF GetEventsFullPage, AppendPage
  <2>2. tracked' = tracked /\ txRows' = txRows
        /\ pc' = [pc EXCEPT ![p] = "getEvents"]
    BY <1>2 DEF GetEventsFullPage, storeVars, TypeOK
  <2>3. QED
    BY <2>1, <2>2, BeforeTx
<1>3. CASE GetEventsLastPage(p)
  <2>1. PICK j : job' = [job EXCEPT ![p] = j]
    BY <1>3 DEF GetEventsLastPage, AppendPage
  <2>2. QED
    BY <1>3, <2>1, BeforeTx DEF GetEventsLastPage, storeVars
<1>4. CASE GetEventsRejected(p)
  <2>1. CASE job[p].low = job[p].start
    BY <1>4, <2>1, BeforeTx DEF GetEventsRejected
  <2>2. CASE job[p].low # job[p].start
    BY <1>4, <2>2, EndTx DEF GetEventsRejected
  <2>3. QED
    BY <2>1, <2>2
<1>5. CASE Begin(p)
  <2>1. job' = [job EXCEPT ![p] = job[p]]
    BY <1>5 DEF Begin, TypeOK
  <2>2. QED
    BY <1>5, <2>1, BeforeTx DEF Begin
<1>6. CASE Insert(p)
  <2>1. PICK b \in 1 .. MaxRowBatch :
          txRows' = [txRows EXCEPT ![p] = FreshRows(job[p].buf, b)]
    BY <1>6 DEF Insert
  <2>2. Others(p) /\ tracked' = tracked /\ pc'[p] = "progress" /\ job' = job
    BY <1>6, <2>1 DEF Insert, Others, TypeOK, StoreTypeOK
  <2>3. txRows'[p] = FreshRows(job[p].buf, b)
    BY <2>1 DEF TypeOK, StoreTypeOK
  <2>4. \A r \in FreshRows(job[p].buf, b) : r.ev \in job[p].buf
    BY DEF FreshRows
  <2>5. QED
    BY <2>2, <2>3, <2>4, OwnStep DEF TxOf
<1>7. CASE SetProgress(p)
  <2>1. Others(p) /\ tracked' = tracked /\ pc'[p] = "commit"
        /\ job' = job /\ txRows' = txRows /\ Assigned[p] \in tracked
        /\ pc[p] = "progress"
    BY <1>7 DEF SetProgress, storeVars, Others, TypeOK
  <2>2. TxOf(p)'
    BY <2>1 DEF TxOf, TxInv
  <2>3. QED
    BY <2>1, <2>2, OwnStep
<1>8. CASE \/ TickNotFound(p) \/ GetEventsNothing(p) \/ GetHealthCaughtUp(p)
           \/ GetHealthInWindow(p) \/ InsertFails(p) \/ SetProgressNotFound(p)
           \/ Commit(p) \/ PollerFault(p) \/ Cancelled(p)
  BY <1>8, EndTx
  DEF TickNotFound, GetEventsNothing, GetHealthCaughtUp, GetHealthInWindow, InsertFails,
      SetProgressNotFound, Commit, PollerFault, RpcFault, DbFault, CommitUnacknowledged,
      Cancelled
<1>9. QED
  BY <1>1, <1>2, <1>3, <1>4, <1>5, <1>6, <1>7, <1>8 DEF Step

LEMMA TxNext == TypeOK /\ TxInv /\ [Next]_vars => TxInv'
<1> SUFFICES ASSUME TypeOK, TxInv, [Next]_vars PROVE TxInv'
  OBVIOUS
<1>1. ASSUME NEW p \in Pollers, Step(p) \/ PollerFault(p) \/ Cancelled(p)
      PROVE  TxInv'
  BY <1>1, TxStep
<1>2. CASE \/ \E c \in Contracts : Register(c)
           \/ Node \/ Shutdown \/ Exit \/ UNCHANGED vars
  <2>1. tracked \subseteq tracked' /\ UNCHANGED <<pc, job, txRows>>
    BY <1>2
    DEF Register, RegisterRow, Node, Shutdown, Exit, vars, tickVars, storeVars
  <2>2. QED
    BY <2>1 DEF TxInv
<1>3. ASSUME NEW c \in Contracts, Delete(c) PROVE TxInv'
  <2>1. /\ tracked' = tracked \ {c}
        /\ UNCHANGED <<pc, job, txRows>>
        /\ \A p \in Pollers : pc[p] = "commit" => Assigned[p] # c
    BY <1>3 DEF Delete, DeleteRow, tickVars
  <2>2. QED
    BY <2>1 DEF TxInv
<1>4. CASE Startup \/ Crash
  <2>1. \A p \in Pollers : pc'[p] \in {"idle", "stopped"}
    BY <1>4 DEF Startup, Crash
  <2>2. QED
    BY <2>1 DEF TxInv
<1>5. QED
  BY <1>1, <1>2, <1>3, <1>4 DEF Next

-----------------------------------------------------------------------------
\* The steps of the abstract specification.

\* The state IndexedHistory sees.
Seen == <<rpcVars, tracked, rows, last, skipped, stale>>

LEMMA Stutter == UNCHANGED Seen => UNCHANGED History!vars
BY DEF Seen, History!vars, History!rpcVars, rpcVars

LEMMA CommitAdvances ==
    ASSUME IInv, IInv', TxInv, NEW p \in Pollers, pc[p] = "commit", CommitWrites(p),
           UNCHANGED <<rpcVars, tracked, skipped>>
    PROVE  History!Advance(Assigned[p])
<1> DEFINE c == Assigned[p]
           l == job[p].high
           batch == {r.ev : r \in txRows[p]}
           a == stale'[c]
<1>1. c \in Contracts /\ c \in tracked
  BY PollerAssumption DEF TxInv
<1>2. JobInv(p)
  BY DEF IInv, TickInv, GoroutineInv, Calls, Drained, Tx
<1>3. l \in 0 .. tip
  BY <1>2 DEF JobInv, IInv, TypeOK, RpcTypeOK, Job
<1>4. last' = [last EXCEPT ![c] = l]
  BY DEF CommitWrites
<1>5. batch \in SUBSET {e \in chain : e.contract = c /\ e.good /\ e.ledger <= l}
  BY <1>2 DEF JobInv, TxInv
<1>6. {r.ev : r \in rows}' = {r.ev : r \in rows} \union batch
  BY DEF CommitWrites
<1>7. a \in {stale[c], TRUE} /\ stale' = [stale EXCEPT ![c] = a]
  <2>1. stale \in [Contracts -> BOOLEAN]
    BY DEF IInv, TypeOK
  <2>2. stale' = [stale EXCEPT ![c] = stale[c] \/ job[p].gen # gen[c]]
    BY DEF CommitWrites
  <2>3. a = (stale[c] \/ job[p].gen # gen[c])
    BY <1>1, <2>1, <2>2
  <2>4. QED
    BY <2>1, <2>2, <2>3, <1>1
<1>8. ASSUME ~a
      PROVE  \A e \in chain' : e.contract = c /\ e.good /\ e.ledger <= l =>
                 e \in {r.ev : r \in rows}' \/ e.ledger \in skipped'[c]
  <2>1. Covered(c, last[c])'
    BY <1>1, <1>8 DEF IInv, NoSilentLoss
  <2>2. last'[c] = l
    BY <1>1, <1>4 DEF IInv, TypeOK, StoreTypeOK
  <2>3. QED
    BY <2>1, <2>2 DEF Covered, Stored
<1>9. QED
  BY <1>1, <1>3, <1>4, <1>5, <1>6, <1>7, <1>8
  DEF History!Advance, History!Accounted, History!rpcVars, rpcVars

LEMMA PollerStepMaps ==
    ASSUME IInv, IInv', TxInv, NEW p \in Pollers,
           Step(p) \/ PollerFault(p) \/ Cancelled(p)
    PROVE  History!Next \/ UNCHANGED History!vars
<1>1. CASE Commit(p) \/ CommitUnacknowledged(p)
  <2>1. History!Advance(Assigned[p])
    BY <1>1, CommitAdvances DEF Commit, CommitUnacknowledged
  <2>2. QED
    BY <2>1, PollerAssumption DEF History!Next
<1>2. CASE GetHealthBelowFloor(p)
  <2>1. job[p].start \in 0 .. floor - 1
    BY <1>2 DEF GetHealthBelowFloor, IInv, TypeOK, Job, RpcTypeOK
  <2>2. /\ skipped' = [skipped EXCEPT ![Assigned[p]] =
                          @ \union (job[p].start .. floor - 1)]
        /\ UNCHANGED <<rpcVars, tracked, rows, last, stale>>
    BY <1>2 DEF GetHealthBelowFloor, storeVars
  <2>3. History!Report(Assigned[p])
    BY <2>1, <2>2 DEF History!Report, History!rpcVars, rpcVars
  <2>4. QED
    BY <2>3, PollerAssumption DEF History!Next
<1>3. CASE \/ TickStart(p) \/ TickNotFound(p)
           \/ GetEventsFullPage(p) \/ GetEventsLastPage(p)
           \/ GetEventsNothing(p) \/ GetEventsRejected(p)
           \/ GetHealthCaughtUp(p) \/ GetHealthInWindow(p)
           \/ Begin(p) \/ Insert(p) \/ InsertFails(p)
           \/ SetProgress(p) \/ SetProgressNotFound(p)
           \/ RpcFault(p) \/ DbFault(p) \/ Cancelled(p)
  <2>1. UNCHANGED Seen
    BY <1>3
    DEF Seen, storeVars, histVars, TickStart, TickNotFound, GetEventsFullPage,
        GetEventsLastPage, GetEventsNothing, GetEventsRejected, GetHealthCaughtUp,
        GetHealthInWindow, Begin, Insert, InsertFails, SetProgress,
        SetProgressNotFound, RpcFault, DbFault, Cancelled
  <2>2. QED
    BY <2>1, Stutter
<1>4. QED
  BY <1>1, <1>2, <1>3 DEF Step, PollerFault

LEMMA NextMaps ==
    IInv /\ IInv' /\ TxInv /\ [Next]_vars => [History!Next]_History!vars
<1> SUFFICES ASSUME IInv, IInv', TxInv, [Next]_vars
             PROVE  History!Next \/ UNCHANGED History!vars
  OBVIOUS
<1>1. ASSUME NEW p \in Pollers, Step(p) \/ PollerFault(p) \/ Cancelled(p)
      PROVE  History!Next \/ UNCHANGED History!vars
  BY <1>1, PollerStepMaps
<1>2. ASSUME NEW c \in Contracts, Register(c) PROVE History!Next
  <2>1. History!Register({c})
    BY <1>2
    DEF Register, RegisterRow, histVars, History!Register, History!rpcVars, rpcVars
  <2>2. QED
    BY <2>1 DEF History!Next
<1>3. ASSUME NEW c \in Contracts, Delete(c) PROVE History!Next
  <2>1. {r.ev : r \in rows}' = {e \in {r.ev : r \in rows} : e.contract # c}
    BY <1>3 DEF Delete, DeleteRow
  <2>2. History!Delete(c)
    BY <1>3, <2>1 DEF Delete, DeleteRow, History!Delete, History!rpcVars, rpcVars
  <2>3. QED
    BY <2>2 DEF History!Next
<1>4. CASE Node
  <2>1. History!RpcNext
    BY <1>4
    DEF Node, RpcNext, CloseLedger, TrimLedger, History!RpcNext, History!CloseLedger,
        History!TrimLedger
  <2>2. UNCHANGED <<tracked, rows, last, skipped, stale>>
    BY <1>4 DEF Node, storeVars, histVars
  <2>3. QED
    BY <2>1, <2>2 DEF History!Next, History!Node
<1>5. CASE Startup
  <2>1. {Assigned[p] : p \in Pollers} \in SUBSET Contracts
    BY PollerAssumption
  <2>2. History!Register({Assigned[p] : p \in Pollers})
    BY <1>5 DEF Startup, histVars, History!Register, History!rpcVars, rpcVars
  <2>3. QED
    BY <2>1, <2>2 DEF History!Next
<1>6. CASE Shutdown \/ Exit \/ Crash \/ UNCHANGED vars
  <2>1. UNCHANGED Seen
    BY <1>6 DEF Seen, Shutdown, Exit, Crash, vars, storeVars, histVars
  <2>2. QED
    BY <2>1, Stutter
<1>7. QED
  BY <1>1, <1>2, <1>3, <1>4, <1>5, <1>6 DEF Next

\* The polling loop implements the history it promises: table and progress of
\* a contract change together, in batches that leave nothing unaccounted for
\* (commit), whatever the calls, faults and restarts in between.
THEOREM Implementation == Spec => ImplementsHistory
<1>1. Init => History!Init
  BY DEF Init, RpcInit, History!Init, History!RpcInit
<1>2. Init => TxInv
  BY DEF Init, TxInv
<1>3. IInv => TypeOK
  BY DEF IInv
<1>4. Spec => []TxInv
  BY <1>2, <1>3, TxNext, Inductive, PTL DEF Spec
<1>5. QED
  BY <1>1, <1>4, NextMaps, Inductive, PTL DEF Spec, ImplementsHistory, History!Spec

=============================================================================
