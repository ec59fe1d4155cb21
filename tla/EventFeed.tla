------------------------------ MODULE EventFeed ------------------------------
(***************************************************************************)
(* What liveEventStream (packages/sdk/src/rpc.ts) promises its consumer,   *)
(* whatever pages, cursors and waits it takes: event after event of the    *)
(* chain in emission order, never one past an event that was asked for and *)
(* not delivered - one that has left the node or does not decode breaks    *)
(* the feed - and, once the feed is broken, nothing until it is iterated   *)
(* again from its start.  LiveStream is shown to implement this.           *)
(***************************************************************************)
EXTENDS SorobanRpc, SequencesExt

CONSTANTS Wanted    \* the contracts asked for

VARIABLES
    start,          \* the ledger asked for
    out,            \* the events delivered in this iteration
    broken          \* the iteration has thrown

vars == <<rpcVars, start, out, broken>>

Asked(e) == e.contract \in Wanted /\ e.ledger >= start

\* The next event.  It need not be one that was asked for: see OnlyWanted of
\* LiveStream.
Deliver(e) ==
    /\ ~broken
    /\ e.good /\ e.ledger >= start
    /\ \A d \in ToSet(out) : Before(d, e)
    /\ \A f \in chain : Asked(f) /\ Before(f, e) => f \in ToSet(out)
    /\ out' = Append(out, e)
    /\ UNCHANGED <<rpcVars, start, broken>>

Break ==
    /\ ~broken
    /\ broken' = TRUE
    /\ UNCHANGED <<rpcVars, start, out>>

Restart ==
    /\ broken
    /\ broken' = FALSE
    /\ out' = <<>>
    /\ UNCHANGED <<rpcVars, start>>

Node == RpcNext /\ UNCHANGED <<start, out, broken>>

Init ==
    /\ RpcInit
    /\ start \in Nat
    /\ out = <<>>
    /\ broken = FALSE

Next == (\E e \in chain : Deliver(e)) \/ Break \/ Restart \/ Node

Spec == Init /\ [][Next]_vars

=============================================================================
