----------------------------- MODULE SorobanRpc -----------------------------
(***************************************************************************)
(* The Stellar Soroban RPC node, as indexer/internal/rpc uses it.  The     *)
(* node is not part of the repository: what it does is taken from the      *)
(* calls in client.go and events.go and from the probes recorded in        *)
(* ADR-022, ADR-028 and ADR-036 (.agent/decisions.md).                     *)
(*                                                                         *)
(* The node serves the events of the ledgers floor .. tip.  Ledgers close  *)
(* at the tip and fall off the floor, and both move between any two calls  *)
(* of the poller.                                                          *)
(***************************************************************************)
EXTENDS Integers, FiniteSets

CONSTANTS
    Contracts,      \* every contract of this instance
    MaxLedger,      \* bound: the last ledger that closes
    PerLedger,      \* bound: events in one ledger
    Decodable       \* the values the good field may take: {TRUE}, or BOOLEAN
                    \* when some events carry XDR the decoder cannot read

ASSUME RpcAssumption ==
    /\ MaxLedger \in Nat \ {0}
    /\ PerLedger \in Nat
    /\ Decodable \subseteq BOOLEAN

VARIABLES
    chain,          \* the events emitted so far
    tip,            \* latestLedger
    floor           \* oldestLedger

rpcVars == <<chain, tip, floor>>

\* An event as getEvents reports it.  The index is the second component of
\* the event id, the ordinal within the ledger (ADR-022).  good abstracts
\* whether assemble succeeds on it.
Event == [ledger : Nat, index : Nat, contract : Contracts, good : BOOLEAN]

\* Where a getEvents call starts reading: a start ledger is the position
\* [ledger, 0], a page cursor the position just after the event it names.
Position == [ledger : Nat, index : Nat]

\* Emission order, on events and positions alike.
Before(a, b) ==
    \/ a.ledger < b.ledger
    \/ a.ledger = b.ledger /\ a.index < b.index

AtLedger(l) == [ledger |-> l, index |-> 0]
JustAfter(e) == [ledger |-> e.ledger, index |-> e.index + 1]

RpcTypeOK ==
    /\ chain \subseteq Event
    /\ \A e \in chain : e.ledger <= tip
    /\ tip \in Nat
    /\ floor \in Nat \ {0}

RpcInit ==
    /\ chain = {}
    /\ tip = 1
    /\ floor = 1

\* A ledger closes with its events, of any contracts, at ordinals 0, 1, ...
CloseLedger ==
    /\ tip < MaxLedger
    /\ tip' = tip + 1
    /\ \E n \in 0 .. PerLedger :
         \E from \in [0 .. n - 1 -> Contracts], good \in [0 .. n - 1 -> Decodable] :
            chain' = chain \union
                {[ledger |-> tip + 1, index |-> i,
                  contract |-> from[i], good |-> good[i]] : i \in 0 .. n - 1}
    /\ UNCHANGED floor

\* The retention window moves: the oldest ledger is gone from the node.
TrimLedger ==
    /\ floor < tip
    /\ floor' = floor + 1
    /\ UNCHANGED <<chain, tip>>

RpcNext == CloseLedger \/ TrimLedger

-----------------------------------------------------------------------------
\* The node answers -32600 to a read that starts outside the window,
\* below the floor and above the tip alike (ADR-036).
OutOfRange(from) == from.ledger \notin floor .. tip

\* The events of one contract that a read starting at from can see.
Matching(c, from) ==
    {e \in chain : e.contract = c /\ e.ledger >= floor /\ ~Before(e, from)}

\* One page: the first events of what matches, at most limit of them, and
\* fewer only when nothing is left (ADR-028).
IsPage(page, c, from, limit) ==
    /\ page \subseteq Matching(c, from)
    /\ \A e \in page, f \in Matching(c, from) \ page : Before(e, f)
    /\ Cardinality(page) <= limit
    /\ Cardinality(page) < limit => page = Matching(c, from)

=============================================================================
