--------------------------- MODULE IndexedHistory ---------------------------
(***************************************************************************)
(* What the indexer promises its readers about the contracts it tracks,    *)
(* whatever goes on inside a tick: the events table and the progress of a  *)
(* contract change only in whole batches, after which everything the       *)
(* progress passes is in the table or was reported lost; only what the     *)
(* node no longer serves is reported lost; a deletion takes everything     *)
(* with it.  Poller is shown to implement this (PollerHistory).            *)
(***************************************************************************)
EXTENDS SorobanRpc

VARIABLES
    tracked,        \* the contracts that are tracked
    stored,         \* the events in the table
    progress,       \* progress[c]: last_indexed_ledger, 0 when there is none
    lost,           \* lost[c]: the ledgers reported as skipped
    adrift          \* adrift[c]: a tick of an earlier registration has
                    \* written the progress of c; no promise is left

vars == <<rpcVars, tracked, stored, progress, lost, adrift>>

Accounted(c, l) ==
    \A e \in chain :
        e.contract = c /\ e.good /\ e.ledger <= l =>
            e \in stored \/ e.ledger \in lost[c]

Register(cs) ==
    /\ tracked' = tracked \union cs
    /\ UNCHANGED <<rpcVars, stored, progress, lost, adrift>>

Delete(c) ==
    /\ c \in tracked
    /\ tracked' = tracked \ {c}
    /\ stored' = {e \in stored : e.contract # c}
    /\ progress' = [progress EXCEPT ![c] = 0]
    /\ lost' = [lost EXCEPT ![c] = {}]
    /\ adrift' = [adrift EXCEPT ![c] = FALSE]
    /\ UNCHANGED rpcVars

\* Ledgers that have fallen off the node are reported.
Report(c) ==
    /\ \E l \in 0 .. floor - 1 : lost' = [lost EXCEPT ![c] = @ \union (l .. floor - 1)]
    /\ UNCHANGED <<rpcVars, tracked, stored, progress, adrift>>

\* A batch of c's events and the progress that accounts for it.
Advance(c) ==
    /\ c \in tracked
    /\ \E l \in 0 .. tip :
         /\ progress' = [progress EXCEPT ![c] = l]
         /\ \E batch \in SUBSET {e \in chain : e.contract = c /\ e.good /\ e.ledger <= l} :
              stored' = stored \union batch
         /\ \E a \in {adrift[c], TRUE} :
              /\ adrift' = [adrift EXCEPT ![c] = a]
              /\ ~a => Accounted(c, l)'
    /\ UNCHANGED <<rpcVars, tracked, lost>>

Node == RpcNext /\ UNCHANGED <<tracked, stored, progress, lost, adrift>>

Init ==
    /\ RpcInit
    /\ tracked = {}
    /\ stored = {}
    /\ progress = [c \in Contracts |-> 0]
    /\ lost = [c \in Contracts |-> {}]
    /\ adrift = [c \in Contracts |-> FALSE]

Next ==
    \/ \E cs \in SUBSET Contracts : Register(cs)
    \/ \E c \in Contracts : Delete(c) \/ Report(c) \/ Advance(c)
    \/ Node

Spec == Init /\ [][Next]_vars

=============================================================================
