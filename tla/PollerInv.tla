----------------------------- MODULE PollerInv ------------------------------
(***************************************************************************)
(* The inductive invariant of Poller: what holds between the calls of a    *)
(* tick, from which NoSilentLoss and NoOrphanEvents follow.                *)
(*                                                                         *)
(* What a tick has in hand is compared with the chain as it is now, not as *)
(* it was when the tick read it: Covered(c, low - 1) accounts for what     *)
(* lies before the drain, DrainInv for what the drain has read, InsertInv  *)
(* for what the transaction has written.                                   *)
(***************************************************************************)
EXTENDS Poller

\* Keys are unique on the chain, whose ledgers begin after progress 0, and
\* every row is of an event of the chain.
ChainInv ==
    /\ \A e \in chain : e.ledger > 0
    /\ \A e, f \in chain : SameKey(e, f) => e = f
    /\ \A r \in rows : r.ev \in chain
    /\ \A p \in Pollers : \A r \in txRows[p] : r.ev \in chain

\* Nothing the indexer holds is ahead of the tip.
TipInv ==
    /\ floor <= tip
    /\ \A c \in Contracts : last[c] <= tip

\* The locals of a tick under way.
JobInv(p) ==
    LET j == job[p]
    IN  /\ j.gen <= gen[Assigned[p]]
        /\ j.low <= tip + 1
        /\ j.high <= tip
        /\ \A e \in j.buf :
             e \in chain /\ e.contract = Assigned[p] /\ e.good /\ e.ledger <= j.high

\* The tick read the row of the present registration, whose progress no
\* earlier tick has overwritten.
Current(p) == job[p].gen = gen[Assigned[p]] /\ ~stale[Assigned[p]]

\* What lies before the drain is stored or reported.
BeforeInv(p) == Current(p) => Covered(Assigned[p], job[p].low - 1)

\* What lies between the start of the drain and its next read is in hand.
DrainInv(p) ==
    LET j == job[p]
    IN  /\ j.from.ledger <= tip + 1
        /\ j.from.ledger = tip + 1 => j.from.index = 0
        /\ \A e \in chain :
             /\ e.contract = Assigned[p]
             /\ e.good
             /\ e.ledger >= j.low
             /\ Before(e, j.from)
             => e \in j.buf

\* After the drain: everything from its start to the highest ledger kept.
BatchInv(p) ==
    \A e \in chain :
        /\ e.contract = Assigned[p]
        /\ e.good
        /\ e.ledger \in job[p].low .. job[p].high
        => e \in job[p].buf

\* After the insert: each event of the batch has a row, here or committed.
InsertInv(p) ==
    job[p].gen = gen[Assigned[p]] =>
        \A e \in job[p].buf : \E r \in rows \union txRows[p] : r.ev = e

GoroutineInv(p) ==
    /\ pc[p] \in Calls => JobInv(p) /\ BeforeInv(p)
    /\ pc[p] = "getEvents" => DrainInv(p)
    /\ pc[p] = "getHealth" => job[p].low = job[p].start
    /\ pc[p] \in Drained => BatchInv(p)
    /\ pc[p] \in {"progress", "commit"} => InsertInv(p)

TickInv == \A p \in Pollers : GoroutineInv(p)

\* The inductive invariant of NoSilentLoss: what every tick has in hand
\* accounts for the chain up to where it has read (tickOnce, drain, commit).
IInv == TypeOK /\ ChainInv /\ TipInv /\ NoSilentLoss /\ TickInv

-----------------------------------------------------------------------------
\* One goroutine for each contract, as a bootstrap list without repetitions
\* gives: what KeysetOrder, GapReportTrue and ProgressMonotone need besides.

Distinct == \A p, q \in Pollers : Assigned[p] = Assigned[q] => p = q

\* No row is ahead of its contract's progress, and what was reported has left
\* the window for good.
RowsBehind == \A r \in rows : r.ev.ledger <= last[r.ev.contract]
ReportsGone == \A c \in Contracts : \A l \in skipped[c] : l < floor

\* A tick reads ahead of the progress, and nothing that it has reported; its
\* transaction holds one INSERT of what it has in hand, the last of its
\* contract.
SoloOf(p) ==
    LET j == job[p]
        c == Assigned[p]
    IN  /\ pc[p] \in Calls =>
              /\ last[c] < j.start /\ j.start <= j.low
              /\ \A e \in j.buf : e.ledger >= j.low /\ e.ledger \notin skipped[c]
        /\ pc[p] = "getEvents" => j.low <= j.from.ledger
        /\ pc[p] \in Drained => j.low <= j.high
        /\ pc[p] \in {"progress", "commit"} =>
              /\ \A r \in txRows[p] : r.ev \in j.buf
              /\ \A r, s \in txRows[p] : r.batch = s.batch
              /\ \A r \in txRows[p], s \in rows : s.ev.contract = c => s.batch < r.batch

SoloInv ==
    /\ KeysetOrder /\ GapReportTrue
    /\ RowsBehind /\ ReportsGone
    /\ \A p \in Pollers : SoloOf(p)

\* Only a tick that is under way has a transaction open, and only in a
\* process that runs.
OpenInv ==
    /\ \A p \in open : pc[p] \in Tx
    /\ ~procUp => \A p \in Pollers : pc[p] = "stopped"

\* A transaction is open all through its tick's statements, and holds rows
\* only once its INSERT is done.
LockInv ==
    \A p \in Pollers :
        /\ pc[p] \in Tx => p \in open
        /\ txRows[p] # {} => pc[p] \in {"progress", "commit"}

\* What an open transaction may wait for: a key another one has inserted, or
\* the contract's row another one has updated.
Waits(p) ==
    \/ pc[p] = "insert" /\ InsertBlocked(p, job[p].buf)
    \/ pc[p] = "progress" /\ RowLocked(p)

\* Of the transactions that are open, one waits for no other: goroutines that
\* commit for one contract (commit, Events.Insert, SetProgress) never hold what
\* each other waits for.
SomeoneMoves == open # {} => \E p \in open : ~Waits(p)

\* The pool is never overdrawn.
PoolInv == IsFiniteSet(open) /\ Cardinality(open) <= PoolMax

\* Every wait that run arms lies between the interval and maxBackoff, whichever
\* of the two is the larger.
InReach(w) ==
    \/ w \in Interval .. MaxBackoff
    \/ w \in MaxBackoff .. Interval
WaitsInReach == \A p \in Pollers : InReach(timer[p].wait) /\ InReach(timer[p].backoff)

\* While the process runs and is not told to stop, every contract of the
\* bootstrap list has its goroutine, whatever has failed and though the contract
\* may have been deleted and registered again: a bad poll "must not tear down
\* the goroutine" (run).
AllPoll == procUp /\ ~ctxDone => \A p \in Pollers : pc[p] # "stopped"

\* Only a contract that was deleted can have its progress written by a tick
\* of an earlier registration.
StaleInv == \A c \in Contracts : stale[c] => gen[c] > 0
FirstCovered == \A c \in Contracts : gen[c] = 0 => Covered(c, last[c])

=============================================================================
