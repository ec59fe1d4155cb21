------------------------------- MODULE Poller -------------------------------
(***************************************************************************)
(* The polling loop of indexer/internal/rpc/events.go, one goroutine per   *)
(* bootstrap contract, over the RPC node and the database, together with   *)
(* what happens around it: API calls that register and delete contracts    *)
(* while a tick is under way, failing calls, shutdown, crash and restart.  *)
(*                                                                         *)
(* One action is one call a tick makes.  Between two of them every other   *)
(* actor may move, so what a tick read before a call may be out of date    *)
(* after it.  Time is left out: an idle goroutine may tick at any moment.  *)
(***************************************************************************)
EXTENDS IndexerStore

CONSTANTS
    Assigned,       \* the contract each goroutine polls: BootstrapContracts
    BatchSize,      \* events asked for in one page
    Interval,       \* poll interval
    MaxBackoff,     \* maxBackoff
    RpcErrors,      \* how a failing RPC call may fail: "fault", or "cancelled"
                    \* when its error is context.Canceled to errors.Is
    MaxFaults       \* bound: failing calls, crashes and shutdown signals

ASSUME PollerAssumption ==
    /\ Assigned \in [Pollers -> Contracts]
    /\ BatchSize \in Nat \ {0}
    /\ Interval \in Nat \ {0}
    /\ MaxBackoff \in Nat \ {0}
    /\ RpcErrors \subseteq {"fault", "cancelled"}
    /\ MaxFaults \in Nat

VARIABLES
    pc,             \* the call each goroutine makes next
    job,            \* the locals of its tick
    timer,          \* the wait it last armed and its current backoff
    skipped,        \* history: the ledgers reported by poll_skipped_ledgers
    stale,          \* history: progress written by a tick that read the row
                    \* of an earlier registration
    procUp,         \* the process runs
    ctxDone,        \* its root context is cancelled
    faults          \* bound: calls that failed, crashes and signals so far

tickVars == <<pc, job, timer>>
procVars == <<procUp, ctxDone, faults>>
histVars == <<skipped, stale>>
vars == <<rpcVars, storeVars, tickVars, histVars, procVars>>

Tx == {"insert", "progress", "commit"}        \* a transaction is open
Drained == {"begin"} \union Tx                \* drain has returned events
Calls == {"getEvents", "getHealth"} \union Drained

\* start: tickOnce's startLedger.  low: the ledger drain was called with.
\* from: where its next request reads.  buf, high: assembled, highestLedger.
\* gen and side are history: which registration the tick read, and on which
\* side of the window a rejected read lay when it was rejected.
Job == [start : Nat, low : Nat, from : Position, buf : SUBSET Event,
        high : Nat, gen : Nat, side : {"none", "low", "high"}]

NoJob == [start |-> 0, low |-> 0, from |-> AtLedger(0), buf |-> {},
          high |-> 0, gen |-> 0, side |-> "none"]

DrainFrom(p, start, low, g) ==
    job' = [job EXCEPT ![p] = [start |-> start, low |-> low,
                               from |-> AtLedger(low), buf |-> {}, high |-> 0,
                               gen |-> g, side |-> "none"]]

\* nextBackoff: double, at most maxBackoff, at least the floor.  The ceiling
\* is looked at first.
NextBackoff(current) ==
    LET next == 2 * current
    IN  IF next > MaxBackoff THEN MaxBackoff
        ELSE IF next < Interval THEN Interval ELSE next

FreshTimer == [wait |-> Interval, backoff |-> Interval]

\* What run does with tickOnce's result, after commit's deferred Rollback.
EndTick(p, ok) ==
    /\ pc' = [pc EXCEPT ![p] = "idle"]
    /\ job' = [job EXCEPT ![p] = NoJob]
    /\ timer' = [timer EXCEPT ![p] =
                    IF ok THEN FreshTimer
                    ELSE [wait |-> @.backoff, backoff |-> NextBackoff(@.backoff)]]
    /\ open' = open \ {p}
    /\ txRows' = [txRows EXCEPT ![p] = {}]

\* run returns: an error that is a cancellation ends the goroutine.
Return(p) ==
    /\ pc' = [pc EXCEPT ![p] = "stopped"]
    /\ job' = [job EXCEPT ![p] = NoJob]
    /\ open' = open \ {p}
    /\ txRows' = [txRows EXCEPT ![p] = {}]
    /\ UNCHANGED timer

-----------------------------------------------------------------------------
\* One tick.

\* Mutant of TickStart: the ledger before the progress, not the one after.
TickStartBefore(p) ==
    LET c == Assigned[p]
    IN  /\ pc[p] = "idle"
        /\ ~ctxDone
        /\ ConnFree
        /\ c \in tracked
        /\ pc' = [pc EXCEPT ![p] = "getEvents"]
        /\ DrainFrom(p, last[c] - 1, last[c] - 1, gen[c])
        /\ UNCHANGED <<rpcVars, storeVars, timer, histVars, procVars>>

\* tickOnce reads the contract's row and drain begins just after its progress.
TickStart(p) ==
    LET c == Assigned[p]
    IN  /\ pc[p] = "idle"
        /\ ~ctxDone
        /\ ConnFree
        /\ c \in tracked
        /\ pc' = [pc EXCEPT ![p] = "getEvents"]
        /\ DrainFrom(p, last[c] + 1, last[c] + 1, gen[c])
        /\ UNCHANGED <<rpcVars, storeVars, timer, histVars, procVars>>

\* Mutant of TickNotFound: the goroutine of a contract that is gone returns.
TickNotFoundReturns(p) ==
    /\ pc[p] = "idle"
    /\ ~ctxDone
    /\ ConnFree
    /\ Assigned[p] \notin tracked
    /\ Return(p)
    /\ UNCHANGED <<rpcVars, tracked, last, first, rows, gen, histVars, procVars>>

\* The row is gone: Get reports ErrNotFound, a failure like any other.
TickNotFound(p) ==
    /\ pc[p] = "idle"
    /\ ~ctxDone
    /\ ConnFree
    /\ Assigned[p] \notin tracked
    /\ EndTick(p, FALSE)
    /\ UNCHANGED <<rpcVars, tracked, last, first, rows, gen, histVars, procVars>>

\* What is in hand once a page is decoded; what does not decode is left out.
Kept(p, page) == job[p].buf \union {e \in page : e.good}

\* The page is appended; high is the highest ledger of what is kept.
AppendPage(p, page, from) ==
    \E h \in {0} \union {e.ledger : e \in Kept(p, page)} :
        /\ \A e \in Kept(p, page) : e.ledger <= h
        /\ job' = [job EXCEPT ![p] = [@ EXCEPT !.buf = Kept(p, page),
                                             !.high = h, !.from = from]]

\* A full page: the next request carries its cursor.
GetEventsFullPage(p) ==
    /\ pc[p] = "getEvents"
    /\ ~OutOfRange(job[p].from)
    /\ \E page \in SUBSET Matching(Assigned[p], job[p].from) :
         /\ IsPage(page, Assigned[p], job[p].from, BatchSize)
         /\ Cardinality(page) = BatchSize
         /\ \E e \in page :
              /\ \A f \in page : ~Before(e, f)
              /\ AppendPage(p, page, JustAfter(e))
    /\ UNCHANGED <<rpcVars, storeVars, pc, timer, histVars, procVars>>

\* A short page ends the drain with events to commit.
GetEventsLastPage(p) ==
    /\ pc[p] = "getEvents"
    /\ ~OutOfRange(job[p].from)
    /\ \E page \in SUBSET Matching(Assigned[p], job[p].from) :
         /\ IsPage(page, Assigned[p], job[p].from, BatchSize)
         /\ Cardinality(page) < BatchSize
         /\ Kept(p, page) # {}
         /\ AppendPage(p, page, job[p].from)
    /\ pc' = [pc EXCEPT ![p] = "begin"]
    /\ UNCHANGED <<rpcVars, storeVars, timer, histVars, procVars>>

\* A short page ends the drain and nothing was kept: the tick succeeds and
\* the progress stays where it is.
GetEventsNothing(p) ==
    /\ pc[p] = "getEvents"
    /\ ~OutOfRange(job[p].from)
    /\ \E page \in SUBSET Matching(Assigned[p], job[p].from) :
         /\ IsPage(page, Assigned[p], job[p].from, BatchSize)
         /\ Cardinality(page) < BatchSize
         /\ Kept(p, page) = {}
    /\ EndTick(p, TRUE)
    /\ UNCHANGED <<rpcVars, tracked, last, first, rows, gen, histVars, procVars>>

\* Mutant of GetEventsRejected: every range error fails the tick.
GetEventsRejectedFails(p) ==
    /\ pc[p] = "getEvents"
    /\ OutOfRange(job[p].from)
    /\ EndTick(p, FALSE)
    /\ UNCHANGED <<rpcVars, tracked, last, first, rows, gen, histVars, procVars>>

\* The node answers -32600.  In the first drain handleRangeError re-reads the
\* window; in the drain it starts itself the error fails the tick.
GetEventsRejected(p) ==
    /\ pc[p] = "getEvents"
    /\ OutOfRange(job[p].from)
    /\ \/ /\ job[p].low = job[p].start
          /\ pc' = [pc EXCEPT ![p] = "getHealth"]
          /\ job' = [job EXCEPT ![p] = [@ EXCEPT !.side =
                        IF job[p].from.ledger > tip THEN "high" ELSE "low"]]
          /\ UNCHANGED <<timer, open, txRows>>
       \/ /\ job[p].low # job[p].start
          /\ EndTick(p, FALSE)
    /\ UNCHANGED <<rpcVars, tracked, last, first, rows, gen, histVars, procVars>>

\* handleRangeError, high side: caught up, a tick that succeeded.
GetHealthCaughtUp(p) ==
    /\ pc[p] = "getHealth"
    /\ job[p].start > tip
    /\ EndTick(p, TRUE)
    /\ UNCHANGED <<rpcVars, tracked, last, first, rows, gen, histVars, procVars>>

\* Mutant of GetHealthBelowFloor: the floor itself is reported as lost.
GetHealthReportsFloor(p) ==
    /\ pc[p] = "getHealth"
    /\ job[p].start <= tip
    /\ job[p].start < floor
    /\ pc' = [pc EXCEPT ![p] = "getEvents"]
    /\ DrainFrom(p, job[p].start, floor, job[p].gen)
    /\ skipped' = [skipped EXCEPT ![Assigned[p]] = @ \union (job[p].start .. floor)]
    /\ UNCHANGED <<rpcVars, storeVars, timer, stale, procVars>>

\* Low side: the gap is reported and a second drain starts at the floor.
GetHealthBelowFloor(p) ==
    /\ pc[p] = "getHealth"
    /\ job[p].start <= tip
    /\ job[p].start < floor
    /\ pc' = [pc EXCEPT ![p] = "getEvents"]
    /\ DrainFrom(p, job[p].start, floor, job[p].gen)
    /\ skipped' = [skipped EXCEPT ![Assigned[p]] =
                      @ \union (job[p].start .. floor - 1)]
    /\ UNCHANGED <<rpcVars, storeVars, timer, stale, procVars>>

\* Neither: the third condition, an error.
GetHealthInWindow(p) ==
    /\ pc[p] = "getHealth"
    /\ job[p].start \in floor .. tip
    /\ EndTick(p, FALSE)
    /\ UNCHANGED <<rpcVars, tracked, last, first, rows, gen, histVars, procVars>>

\* commit: BeginTx takes a connection of the pool.
Begin(p) ==
    /\ pc[p] = "begin"
    /\ ConnFree
    /\ pc' = [pc EXCEPT ![p] = "insert"]
    /\ open' = open \union {p}
    /\ UNCHANGED <<rpcVars, tracked, last, first, rows, txRows, gen, job, timer,
                   histVars, procVars>>

\* commit: Events.Insert.  The rows stay in the transaction.
Insert(p) ==
    /\ pc[p] = "insert"
    /\ Cardinality(job[p].buf) <= MaxBatch
    /\ Assigned[p] \in tracked
    /\ ~InsertBlocked(p, job[p].buf)
    /\ \E b \in 1 .. MaxRowBatch :
         /\ IsNextBatch(b)
         /\ txRows' = [txRows EXCEPT ![p] = FreshRows(job[p].buf, b)]
    /\ pc' = [pc EXCEPT ![p] = "progress"]
    /\ UNCHANGED <<rpcVars, tracked, last, first, rows, open, gen, job, timer,
                   histVars, procVars>>

\* The batch is over the ceiling, or the contract's row is gone and the
\* foreign key refuses the rows.
InsertFails(p) ==
    /\ pc[p] = "insert"
    /\ Cardinality(job[p].buf) > MaxBatch \/ Assigned[p] \notin tracked
    /\ EndTick(p, FALSE)
    /\ UNCHANGED <<rpcVars, tracked, last, first, rows, gen, histVars, procVars>>

\* Mutant of RowLocked: an UPDATE that also waits for the key lock which an
\* INSERT into events takes on its contract's row.
RowLockedByInsert(p) ==
    \E q \in Pollers \ {p} :
        Assigned[q] = Assigned[p] /\ (pc[q] = "commit" \/ txRows[q] # {})

\* Another transaction that has updated the contract's row holds its lock; the
\* key lock of an INSERT into events does not keep an UPDATE waiting.
RowLocked(p) ==
    \E q \in Pollers \ {p} : pc[q] = "commit" /\ Assigned[q] = Assigned[p]

\* Mutant of SetProgress: the update runs on the handle, outside the
\* transaction.
SetProgressOutside(p) ==
    /\ pc[p] = "progress"
    /\ Assigned[p] \in tracked
    /\ ~RowLocked(p)
    /\ pc' = [pc EXCEPT ![p] = "commit"]
    /\ last' = [last EXCEPT ![Assigned[p]] = job[p].high]
    /\ UNCHANGED <<rpcVars, tracked, first, rows, txRows, open, gen, job, timer,
                   histVars, procVars>>

\* commit: SetProgress, seen by others once the transaction commits.
SetProgress(p) ==
    /\ pc[p] = "progress"
    /\ Assigned[p] \in tracked
    /\ ~RowLocked(p)
    /\ pc' = [pc EXCEPT ![p] = "commit"]
    /\ UNCHANGED <<rpcVars, storeVars, job, timer, histVars, procVars>>

\* No row to update: ErrNotFound, and the deferred Rollback.
SetProgressNotFound(p) ==
    /\ pc[p] = "progress"
    /\ Assigned[p] \notin tracked
    /\ EndTick(p, FALSE)
    /\ UNCHANGED <<rpcVars, tracked, last, first, rows, gen, histVars, procVars>>

\* Mutant of CommitWrites: first_indexed_ledger without its COALESCE.
CommitWritesDrifting(p) ==
    LET c == Assigned[p]
    IN  /\ rows' = rows \union txRows[p]
        /\ last' = [last EXCEPT ![c] = job[p].high]
        /\ first' = [first EXCEPT ![c] = job[p].high]
        /\ stale' = [stale EXCEPT ![c] = @ \/ job[p].gen # gen[c]]

\* The transaction's writes appear together.
CommitWrites(p) ==
    LET c == Assigned[p]
    IN  /\ rows' = rows \union txRows[p]
        /\ last' = [last EXCEPT ![c] = job[p].high]
        /\ first' = [first EXCEPT ![c] = IF @ = 0 THEN job[p].high ELSE @]
        /\ stale' = [stale EXCEPT ![c] = @ \/ job[p].gen # gen[c]]

Commit(p) ==
    /\ pc[p] = "commit"
    /\ CommitWrites(p)
    /\ EndTick(p, TRUE)
    /\ UNCHANGED <<rpcVars, tracked, gen, skipped, procVars>>

-----------------------------------------------------------------------------
\* What can go wrong during a tick.

Fault ==
    /\ faults < MaxFaults
    /\ faults' = faults + 1

\* An RPC call fails.  run returns on an error that is a cancellation.
RpcFault(p) ==
    /\ pc[p] \in {"getEvents", "getHealth"}
    /\ Fault
    /\ \/ "fault" \in RpcErrors /\ EndTick(p, FALSE)
       \/ "cancelled" \in RpcErrors /\ Return(p)
    /\ UNCHANGED <<rpcVars, tracked, last, first, rows, gen, histVars, procUp, ctxDone>>

\* A statement fails: reading the row, or one of the commit's.
DbFault(p) ==
    /\ pc[p] \in {"idle"} \union Drained
    /\ ~ctxDone
    /\ Fault
    /\ EndTick(p, FALSE)
    /\ UNCHANGED <<rpcVars, tracked, last, first, rows, gen, histVars, procUp, ctxDone>>

\* The database commits and the answer is lost: the tick counts as failed.
CommitUnacknowledged(p) ==
    /\ pc[p] = "commit"
    /\ Fault
    /\ CommitWrites(p)
    /\ EndTick(p, FALSE)
    /\ UNCHANGED <<rpcVars, tracked, gen, skipped, procUp, ctxDone>>

\* Mutant of Cancelled: the loop no longer selects on ctx.Done.
CancelledInCall(p) ==
    /\ ctxDone
    /\ pc[p] \in Calls
    /\ Return(p)
    /\ UNCHANGED <<rpcVars, tracked, last, first, rows, gen, histVars, procVars>>

\* The root context is cancelled.  A call in flight may still succeed first;
\* then the goroutine's select or its next call sees the cancellation.
Cancelled(p) ==
    /\ ctxDone
    /\ pc[p] # "stopped"
    /\ Return(p)
    /\ UNCHANGED <<rpcVars, tracked, last, first, rows, gen, histVars, procVars>>

-----------------------------------------------------------------------------
\* API calls against the same database, and the life of the process.

Register(c) ==
    /\ procUp
    /\ ConnFree
    /\ RegisterRow(c)
    /\ UNCHANGED <<rpcVars, txRows, open, tickVars, histVars, procVars>>

\* Mutant of Delete: the rows an open transaction holds are not waited for.
DeleteAtOnce(c) ==
    /\ procUp
    /\ ConnFree
    /\ gen[c] < MaxDeletes
    /\ DeleteRow(c)
    /\ skipped' = [skipped EXCEPT ![c] = {}]
    /\ stale' = [stale EXCEPT ![c] = FALSE]
    /\ UNCHANGED <<rpcVars, txRows, open, tickVars, procVars>>

\* DELETE waits for the rows an open transaction holds: the contract's row,
\* through a foreign key or an update.
Delete(c) ==
    /\ procUp
    /\ ConnFree
    /\ gen[c] < MaxDeletes
    /\ \A p \in Pollers : /\ \A r \in txRows[p] : r.ev.contract # c
                          /\ pc[p] = "commit" => Assigned[p] # c
    /\ DeleteRow(c)
    /\ skipped' = [skipped EXCEPT ![c] = {}]
    /\ stale' = [stale EXCEPT ![c] = FALSE]
    /\ UNCHANGED <<rpcVars, txRows, open, tickVars, procVars>>

\* main: register the bootstrap contracts, then launch the goroutines.
Startup ==
    /\ ~procUp
    /\ procUp' = TRUE
    /\ ctxDone' = FALSE
    /\ tracked' = tracked \union {Assigned[p] : p \in Pollers}
    /\ pc' = [p \in Pollers |-> "idle"]
    /\ timer' = [p \in Pollers |-> FreshTimer]
    /\ UNCHANGED <<rpcVars, last, first, rows, txRows, open, gen, job, histVars,
                   faults>>

\* A signal, or a fatal serve error: the root context is cancelled.
Shutdown ==
    /\ procUp
    /\ ~ctxDone
    /\ Fault
    /\ ctxDone' = TRUE
    /\ UNCHANGED <<rpcVars, storeVars, tickVars, histVars, procUp>>

\* wg.Wait returns, the deferred Close closes the pool, the process ends.
Exit ==
    /\ procUp
    /\ ctxDone
    /\ \A p \in Pollers : pc[p] = "stopped"
    /\ procUp' = FALSE
    /\ UNCHANGED <<rpcVars, storeVars, tickVars, histVars, ctxDone, faults>>

\* The process dies; the database rolls open transactions back.
Crash ==
    /\ procUp
    /\ Fault
    /\ procUp' = FALSE
    /\ pc' = [p \in Pollers |-> "stopped"]
    /\ job' = [p \in Pollers |-> NoJob]
    /\ open' = {}
    /\ txRows' = [p \in Pollers |-> {}]
    /\ UNCHANGED <<rpcVars, tracked, last, first, rows, gen, timer, histVars,
                   ctxDone>>

-----------------------------------------------------------------------------
Init ==
    /\ RpcInit
    /\ tracked = {}
    /\ last = [c \in Contracts |-> 0]
    /\ first = [c \in Contracts |-> 0]
    /\ rows = {}
    /\ txRows = [p \in Pollers |-> {}]
    /\ open = {}
    /\ gen = [c \in Contracts |-> 0]
    /\ pc = [p \in Pollers |-> "stopped"]
    /\ job = [p \in Pollers |-> NoJob]
    /\ timer = [p \in Pollers |-> FreshTimer]
    /\ skipped = [c \in Contracts |-> {}]
    /\ stale = [c \in Contracts |-> FALSE]
    /\ procUp = FALSE
    /\ ctxDone = FALSE
    /\ faults = 0

\* The calls of one tick that answer, whatever they answer.
Step(p) ==
    \/ TickStart(p) \/ TickNotFound(p)
    \/ GetEventsFullPage(p) \/ GetEventsLastPage(p)
    \/ GetEventsNothing(p) \/ GetEventsRejected(p)
    \/ GetHealthCaughtUp(p) \/ GetHealthBelowFloor(p) \/ GetHealthInWindow(p)
    \/ Begin(p) \/ Insert(p) \/ InsertFails(p)
    \/ SetProgress(p) \/ SetProgressNotFound(p) \/ Commit(p)

PollerFault(p) == RpcFault(p) \/ DbFault(p) \/ CommitUnacknowledged(p)

Node == RpcNext /\ UNCHANGED <<storeVars, tickVars, histVars, procVars>>

Next ==
    \/ \E p \in Pollers : Step(p) \/ PollerFault(p) \/ Cancelled(p)
    \/ \E c \in Contracts : Register(c) \/ Delete(c)
    \/ Node
    \/ Startup \/ Shutdown \/ Exit \/ Crash

Spec == Init /\ [][Next]_vars

\* A goroutine keeps ticking and its calls return; a supervisor restarts the
\* process; a cancelled goroutine returns and main does not outwait it.  The
\* chain, the operators and the faults owe nothing.
Fairness ==
    /\ \A p \in Pollers : WF_vars(Step(p)) /\ WF_vars(Cancelled(p))
    /\ WF_vars(Startup)
    /\ WF_vars(Exit)

FairSpec == Spec /\ Fairness

-----------------------------------------------------------------------------
\* Properties.

TypeOK ==
    /\ RpcTypeOK
    /\ StoreTypeOK
    /\ pc \in [Pollers -> {"idle", "stopped"} \union Calls]
    /\ job \in [Pollers -> Job]
    /\ timer \in [Pollers -> [wait : Nat, backoff : Nat]]
    /\ skipped \in [Contracts -> SUBSET Nat]
    /\ stale \in [Contracts -> BOOLEAN]
    /\ procUp \in BOOLEAN
    /\ ctxDone \in BOOLEAN
    /\ faults \in Nat

\* Every event of c that decodes and that the progress of c passes is in the
\* events table, or its ledger was reported as skipped.
Covered(c, l) ==
    \A e \in chain :
        e.contract = c /\ e.good /\ e.ledger <= l =>
            e \in Stored(c) \/ e.ledger \in skipped[c]

\* The stored progress never runs ahead of the events it accounts for
\* (events.go, commit): interleavings of ticks, moving windows, failing calls,
\* crashes and lost acknowledgements all leave what it passes stored or
\* reported.  Registrations whose progress was written by a tick that began
\* before they existed are excepted; ProgressCovered is without the exception.
NoSilentLoss == \A c \in Contracts : ~stale[c] => Covered(c, last[c])

\* commit's comment in full: no registration is excepted.
ProgressCovered == \A c \in Contracts : Covered(c, last[c])

\* The foreign key with its cascade, seen from a tick: the rows it commits
\* never outlive the contract, however a deletion falls between its calls.
NoOrphanEvents ==
    \A r \in rows \union PendingRows : r.ev.contract \in tracked

\* The id keyset (buildEventsQuery): among the events of one contract, ids
\* ascend in emission order.
KeysetOrder ==
    \A r, s \in rows :
        r.ev.contract = s.ev.contract /\ r.batch < s.batch => Before(r.ev, s.ev)

\* What the readers of the table rely on, Commit and Delete of EventPaging
\* (commit, Contracts.Delete): a contract's new rows come after all it has, in
\* emission order and by id, in one INSERT and while it is tracked, and its
\* rows go all at once with it and in no other way.
RowsAppended ==
    LET new == rows' \ rows
    IN  /\ \A s \in new :
             /\ s.ev.contract \in tracked
             /\ \A r \in rows : r.ev.contract = s.ev.contract =>
                   Before(r.ev, s.ev) /\ r.batch < s.batch
             /\ \A t \in new : t.ev.contract = s.ev.contract => t.batch = s.batch
        /\ \A r \in rows \ rows' : gen'[r.ev.contract] # gen[r.ev.contract]
        /\ \A c \in Contracts : gen'[c] # gen[c] =>
             c \notin tracked' /\ \A r \in rows' : r.ev.contract # c
TableAppends == [][RowsAppended]_vars

\* Within one registration the progress never goes back, and
\* first_indexed_ledger, once set, is kept (SetProgress).
ProgressKept ==
    \A c \in Contracts : gen'[c] = gen[c] =>
        /\ last'[c] >= last[c]
        /\ first[c] # 0 => first'[c] = first[c]
ProgressMonotone == [][ProgressKept]_vars

\* poll_skipped_ledgers reports nothing that is stored: no event of a ledger it
\* names is in the table, whenever the floor moved during the drain.  That
\* nothing is lost without a report is NoSilentLoss.
GapReportTrue ==
    \A r \in rows : r.ev.ledger \notin skipped[r.ev.contract]

\* Every event that decodes is, in the end, stored or its ledger reported.
EventuallyStored ==
    \A c \in Contracts, l \in 1 .. MaxLedger, i \in 0 .. PerLedger - 1 :
        LET e == [ledger |-> l, index |-> i, contract |-> c, good |-> TRUE]
        IN  (e \in chain /\ procUp) ~> (e \in Stored(c) \/ l \in skipped[c])

\* A cancelled process ends: no goroutine waits for a connection or a row
\* lock past the cancellation.
EventuallyExits == (procUp /\ ctxDone) ~> ~procUp

=============================================================================
