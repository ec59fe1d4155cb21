---------------------------- MODULE PollerHistory ----------------------------
(***************************************************************************)
(* The polling loop as an implementation of IndexedHistory: every call of  *)
(* a tick is a stutter there, but for the report of a gap and the commit.  *)
(***************************************************************************)
EXTENDS PollerInv

\* The events table as a set of events.
History == INSTANCE IndexedHistory WITH
    stored <- {r.ev : r \in rows},
    progress <- last,
    lost <- skipped,
    adrift <- stale

\* What a transaction holds is of its tick's batch, and once it has updated
\* the contract's row that row stays.
TxInv ==
    \A p \in Pollers :
        /\ pc[p] \in {"progress", "commit"} =>
               \A r \in txRows[p] : r.ev \in job[p].buf
        /\ pc[p] = "commit" => Assigned[p] \in tracked

\* Readers see a contract's table and progress change only together, batch by
\* batch, each leaving all it passes stored or reported (commit,
\* handleRangeError, Contracts.Delete), across faults, crashes and restarts.
ImplementsHistory == History!Spec

=============================================================================
