---------------------------- MODULE IndexerStore ----------------------------
(***************************************************************************)
(* The indexer's database: the contracts and events tables of              *)
(* indexer/migrations, the statements indexer/internal/store runs on them, *)
(* and the connection pool of indexer/internal/db.                         *)
(*                                                                         *)
(* A transaction keeps its writes to itself until it commits.  A pool of   *)
(* one connection is SQLite, where an open transaction keeps every other   *)
(* statement waiting; a larger pool is Postgres, where statements wait for *)
(* the rows an open transaction has written.                               *)
(***************************************************************************)
EXTENDS Integers, FiniteSets, SorobanRpc

CONSTANTS
    Pollers,        \* the polling goroutines, the only users of transactions
    PoolMax,        \* open connections: 1 for SQLite, more for Postgres
    MaxBatch,       \* maxPageSize, the ceiling on one INSERT
    MaxRowBatch,    \* bound: INSERT statements that add rows
    MaxDeletes      \* bound: deletions of one contract

ASSUME StoreAssumption ==
    /\ PoolMax \in Nat \ {0}
    /\ MaxBatch \in Nat
    /\ MaxRowBatch \in Nat
    /\ MaxDeletes \in Nat

VARIABLES
    tracked,        \* contracts: the ids that have a row
    last,           \* contracts.last_indexed_ledger
    first,          \* contracts.first_indexed_ledger, 0 for NULL
    rows,           \* events: the committed rows
    txRows,         \* txRows[p]: event rows p's open transaction has inserted
    open,           \* the pollers that hold an open transaction
    gen             \* history: gen[c] counts the deletions of c

storeVars == <<tracked, last, first, rows, txRows, open, gen>>

\* A row of the events table.  Ids ascend from one INSERT to the next and,
\* within one, in the order of its VALUES, which is emission order: batch
\* numbers the INSERT, so <<batch, ledger, index>> orders rows as id does.
Row == [ev : Event, batch : Nat]

StoreTypeOK ==
    /\ tracked \subseteq Contracts
    /\ last \in [Contracts -> Nat]
    /\ first \in [Contracts -> Nat]
    /\ rows \subseteq Row
    /\ txRows \in [Pollers -> SUBSET Row]
    /\ open \subseteq Pollers
    /\ gen \in [Contracts -> Nat]

Stored(c) == {e \in chain : e.contract = c /\ \E r \in rows : r.ev = e}

\* A statement outside a transaction needs a connection of the pool.
ConnFree == Cardinality(open) < PoolMax

\* UNIQUE (ledger, event_index), which the INSERT's ON CONFLICT names.
SameKey(e, f) == e.ledger = f.ledger /\ e.index = f.index

PendingRows == UNION {txRows[p] : p \in Pollers}

\* An INSERT whose keys another open transaction has inserted waits for it.
InsertBlocked(p, events) ==
    \E q \in open \ {p} : \E r \in txRows[q], e \in events : SameKey(r.ev, e)

\* Mutant of FreshRows: the conflict is on event_index alone.
FreshRowsByIndex(events, b) ==
    {[ev |-> e, batch |-> b] :
        e \in {f \in events : \A r \in rows : r.ev.index # f.index}}

\* Mutant of FreshRows: the newest event is the first of the VALUES.
FreshRowsReversed(events, b) ==
    {[ev |-> e, batch |-> b + (MaxLedger - e.ledger)] :
        e \in {f \in events : \A r \in rows : ~SameKey(r.ev, f)}}

\* Rows the INSERT ... ON CONFLICT (ledger, event_index) DO NOTHING adds.
FreshRows(events, b) ==
    {[ev |-> e, batch |-> b] :
        e \in {f \in events : \A r \in rows : ~SameKey(r.ev, f)}}

\* Mutant of IsNextBatch: ids from a cache of the session's own, unused but in
\* no order.
IsUnusedBatch(b) == \A r \in rows \union PendingRows : r.batch # b

\* The ids an INSERT draws follow every id drawn so far.
IsNextBatch(b) ==
    /\ \A r \in rows \union PendingRows : r.batch < b
    /\ b = 1 \/ \E r \in rows \union PendingRows : r.batch = b - 1

\* Contracts.Register: INSERT ... ON CONFLICT (id) DO NOTHING, then a read.
\* A contract already tracked keeps its row.
RegisterRow(c) ==
    /\ c \notin tracked
    /\ tracked' = tracked \union {c}
    /\ UNCHANGED <<last, first, rows, gen>>

\* Mutant of DeleteRow: no cascade.
DeleteRowOnly(c) ==
    /\ c \in tracked
    /\ tracked' = tracked \ {c}
    /\ last' = [last EXCEPT ![c] = 0]
    /\ first' = [first EXCEPT ![c] = 0]
    /\ gen' = [gen EXCEPT ![c] = @ + 1]
    /\ UNCHANGED rows

\* Contracts.Delete: the row goes, and its events go by ON DELETE CASCADE.
\* The next registration starts from the column defaults.
DeleteRow(c) ==
    /\ c \in tracked
    /\ tracked' = tracked \ {c}
    /\ last' = [last EXCEPT ![c] = 0]
    /\ first' = [first EXCEPT ![c] = 0]
    /\ rows' = {r \in rows : r.ev.contract # c}
    /\ gen' = [gen EXCEPT ![c] = @ + 1]

=============================================================================
