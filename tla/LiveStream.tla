----------------------------- MODULE LiveStream -----------------------------
(***************************************************************************)
(* The SDK's live path (packages/sdk/src/rpc.ts): liveEventStream follows  *)
(* the chain by reading pages straight from the RPC node, yields their     *)
(* events one by one to a consumer that takes its time, and waits after an *)
(* empty page.  Ledgers close and fall off the node at any moment.  A      *)
(* stream begins at a ledger of the caller's; a cursor is left out.        *)
(***************************************************************************)
EXTENDS SorobanRpc, Ordering, SequencesExt

CONSTANTS
    Wanted,         \* filter.contractIds; every contract when there is none
    PageSize,       \* the page size: query.limit, or the node's default
    CallsFail       \* whether an RPC call may fail for no reason of the window

ASSUME LiveAssumption ==
    /\ Wanted \subseteq Contracts
    /\ PageSize \in Nat \ {0}
    /\ CallsFail \in BOOLEAN

VARIABLES
    start,          \* the ledger the caller asked for
    st,             \* what the generator does next
    next,           \* the query of its next request
    page,           \* the events of the page in hand, still to be yielded
    out             \* the events yielded

streamVars == <<start, st, next, page, out>>
vars == <<rpcVars, streamVars>>

\* The query: where it reads from and the contracts its filter lets pass.
LiveQuery == [from : Position, only : SUBSET Contracts]

\* Getting a page: what the node can see of the query, oldest first.
Visible(q) ==
    {e \in chain : e.contract \in q.only /\ e.ledger >= floor /\ ~Before(e, q.from)}

Emission(events) == {p \in events \X events : Before(p[1], p[2])}

PageOf(q) == FirstOf(Visible(q), Emission(Visible(q)), PageSize)

\* Mutant of CursorOf: the scan stops at the end of its last event's ledger.
CursorAtLedgerEnd(events) ==
    [ledger |-> IF events = <<>> THEN tip ELSE Last(events).ledger,
     index |-> PerLedger]

\* Mutant of CursorOf: the cursor is that of the event itself.
CursorAtEvent(events) ==
    IF events = <<>> THEN [ledger |-> tip, index |-> PerLedger]
    ELSE [ledger |-> Last(events).ledger, index |-> Last(events).index]

\* The response's cursor (ADR-025): the last event's, or where the scan
\* stopped when the page is empty.
CursorOf(events) ==
    IF events = <<>> THEN [ledger |-> tip, index |-> PerLedger]
    ELSE JustAfter(Last(events))

-----------------------------------------------------------------------------
\* fetchLiveEvents answers.  next is built afresh from the cursor and the
\* limit: the filter of the original query is not carried over.
FetchPage ==
    /\ st = "fetch"
    /\ ~OutOfRange(next.from)
    /\ \A e \in ToSet(PageOf(next)) : e.good
    /\ page' = PageOf(next)
    /\ next' = [from |-> CursorOf(PageOf(next)), only |-> Contracts]
    /\ st' = IF page' = <<>> THEN "delay" ELSE "yield"
    /\ UNCHANGED <<rpcVars, start, out>>

\* Mutant of FetchUndecodable: the stream leaves such events out, as the poller
\* does.
FetchLeavesOut ==
    /\ st = "fetch"
    /\ ~OutOfRange(next.from)
    /\ \E e \in ToSet(PageOf(next)) : ~e.good
    /\ page' = SelectSeq(PageOf(next), LAMBDA e : e.good)
    /\ next' = [from |-> CursorOf(PageOf(next)), only |-> Contracts]
    /\ st' = IF page' = <<>> THEN "delay" ELSE "yield"
    /\ UNCHANGED <<rpcVars, start, out>>

\* toLiveDecodedEvent throws on an event it cannot decode: nothing of the page
\* is yielded.
FetchUndecodable ==
    /\ st = "fetch"
    /\ ~OutOfRange(next.from)
    /\ \E e \in ToSet(PageOf(next)) : ~e.good
    /\ st' = "failed"
    /\ UNCHANGED <<rpcVars, start, next, page, out>>

\* Mutant of FetchRejected: the stream goes on at the floor, as the poller
\* does.
FetchRejectedSkips ==
    /\ st = "fetch"
    /\ OutOfRange(next.from)
    /\ next' = [next EXCEPT !.from = AtLedger(floor)]
    /\ UNCHANGED <<rpcVars, start, st, page, out>>

\* The position has left the window: a PulsarNetworkError out of the loop.
FetchRejected ==
    /\ st = "fetch"
    /\ OutOfRange(next.from)
    /\ st' = "failed"
    /\ UNCHANGED <<rpcVars, start, next, page, out>>

\* The call fails for another reason: there is no retry.
FetchFails ==
    /\ st = "fetch"
    /\ CallsFail
    /\ st' = "failed"
    /\ UNCHANGED <<rpcVars, start, next, page, out>>

\* Mutant of Yield: the last event of a page is not noticed.
YieldUnaware ==
    /\ st = "yield"
    /\ out' = Append(out, Head(page))
    /\ page' = Tail(page)
    /\ UNCHANGED <<rpcVars, start, st, next>>

\* The consumer takes one event.  After the last the next page is fetched.
Yield ==
    /\ st = "yield"
    /\ out' = Append(out, Head(page))
    /\ page' = Tail(page)
    /\ st' = IF page' = <<>> THEN "fetch" ELSE "yield"
    /\ UNCHANGED <<rpcVars, start, next>>

\* pollIntervalMs has passed since the empty page.
Wake ==
    /\ st = "delay"
    /\ st' = "fetch"
    /\ UNCHANGED <<rpcVars, start, next, page, out>>

Init ==
    /\ RpcInit
    /\ start \in 1 .. MaxLedger
    /\ st = "fetch"
    /\ next = [from |-> AtLedger(start), only |-> Wanted]
    /\ page = <<>>
    /\ out = <<>>

\* The caller iterates again after a failure: afresh, from its own query.
Iterate ==
    /\ st = "failed"
    /\ st' = "fetch"
    /\ next' = [from |-> AtLedger(start), only |-> Wanted]
    /\ page' = <<>>
    /\ out' = <<>>
    /\ UNCHANGED <<rpcVars, start>>

Stream ==
    \/ FetchPage \/ FetchUndecodable \/ FetchRejected \/ FetchFails
    \/ Yield \/ Wake

Node == RpcNext /\ UNCHANGED streamVars

Next == Stream \/ Iterate \/ Node

Spec == Init /\ [][Next]_vars

\* The consumer keeps taking events, calls return and timers fire.
FairSpec == Spec /\ WF_vars(Stream)

-----------------------------------------------------------------------------
\* Properties.

TypeOK ==
    /\ RpcTypeOK
    /\ start \in Nat
    /\ st \in {"fetch", "yield", "delay", "failed"}
    /\ next \in LiveQuery
    /\ page \in Seq(Event)
    /\ out \in Seq(Event)
    /\ st = "yield" <=> page # <<>>

\* Events come out strictly in emission order, so none comes twice, however
\* the pages fall and whatever closes between them.
LiveOrder ==
    \A i, j \in DOMAIN out : i < j => Before(out[i], out[j])

\* No event is passed over in silence: between where the caller asked to
\* start and where the next request reads, every wanted event is yielded or
\* in hand.  A stream that falls out of the retention window has to fail.
NothingPassedOver ==
    \A e \in chain :
        /\ e.contract \in Wanted
        /\ ~Before(e, AtLedger(start))
        /\ Before(e, next.from)
        => e \in ToSet(out) \union ToSet(page)

\* The consumer's view: a feed whose pages, cursors and waits are not seen.
Feed == INSTANCE EventFeed WITH broken <- (st = "failed")

\* A stream is a feed (liveEventStream): what it yields next is the next event
\* of the chain with nothing asked for in between, and after a failure
\* nothing comes until it is iterated again from its start.
ImplementsFeed == Feed!Spec

\* Every wanted event is yielded in the end, or the loop throws.
EventuallyYielded ==
    \A c \in Wanted, l \in 1 .. MaxLedger, i \in 0 .. PerLedger - 1 :
        LET e == [ledger |-> l, index |-> i, contract |-> c, good |-> TRUE]
        IN  (e \in chain /\ l >= start) ~> (e \in ToSet(out) \/ st = "failed")

\* The filter restricts the stream to the contracts asked for
\* (LiveEventFilterSchema: "Restrict to these contracts").
OnlyWanted == \A e \in ToSet(out) : e.contract \in Wanted

=============================================================================
