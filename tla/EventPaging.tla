----------------------------- MODULE EventPaging -----------------------------
(***************************************************************************)
(* Reading one contract's events page by page, from the SDK's eventStream  *)
(* (packages/sdk/src/client.ts) through handleListEvents                   *)
(* (indexer/internal/api/handlers.go) to Events.Query                      *)
(* (indexer/internal/store/events.go), while the indexer writes the table  *)
(* and contracts come and go.                                              *)
(*                                                                         *)
(* A request runs two statements, so the table may change between them and *)
(* between two pages.  The writer is abstracted to what Poller guarantees  *)
(* with one goroutine per contract: a contract's rows arrive in emission   *)
(* order (KeysetOrder).  A traversal begins at the first page: eventStream *)
(* takes a cursor of the caller's as well, which would begin it further on.*)
(***************************************************************************)
EXTENDS Ordering, SequencesExt

CONSTANTS
    Contracts,
    Emitted,        \* the chain: Emitted[i] is the i-th event emitted, with
                    \* its contract and whether the query's filters match it
    Sequence,       \* TRUE: ids come from a sequence (BIGSERIAL); FALSE: an
                    \* id is one more than the largest in the table (SQLite)
    Limit,          \* the page size
    Directions,     \* the orders asked for: asc is TRUE, desc is FALSE
    MaxId,          \* bound: ids drawn
    MaxDeletes      \* bound: deletions of one contract

ASSUME PagingAssumption ==
    /\ Emitted \in Seq([contract : Contracts, hit : BOOLEAN])
    /\ Sequence \in BOOLEAN
    /\ Limit \in Nat \ {0}
    /\ Directions \subseteq BOOLEAN
    /\ MaxId \in Nat
    /\ MaxDeletes \in Nat

VARIABLES
    tracked,        \* contracts: the ids that have a row
    events,         \* events: the rows
    drawn,          \* the largest id drawn so far
    gen,            \* history: gen[c] counts the deletions of c
    trav            \* one traversal: #streamEvents and its request in flight

vars == <<tracked, events, drawn, gen, trav>>

\* pos is the place in emission order, which (ledger, event_index) gives.
Row == [id : 1 .. MaxId, pos : DOMAIN Emitted]

ContractOf(r) == Emitted[r.pos].contract

\* Mutant of Hits: the query is not bound to its contract.
HitsOfAny(c) == {r \in events : Emitted[r.pos].hit}

\* The rows the WHERE clause of a query for c selects, its cursor aside.
Hits(c) == {r \in events : ContractOf(r) = c /\ Emitted[r.pos].hit}

\* cursor: 0 for none.  out: the events yielded.  gen and snap are
\* history: the registration the traversal began on and what its first page
\* could have returned.
Traversal == [st : {"idle", "check", "query", "done", "failed"},
              contract : Contracts, asc : BOOLEAN, cursor : 0 .. MaxId,
              out : Seq(Row), gen : Nat, snap : SUBSET Row]

-----------------------------------------------------------------------------
\* The tables.

\* Mutant of LastId: SQLite's rule, whatever the engine.
LastIdInTable == IF events = {} THEN 0 ELSE Max({r.id : r \in events})

\* The id before the one the next row gets.
LastId ==
    IF Sequence THEN drawn
    ELSE IF events = {} THEN 0 ELSE Max({r.id : r \in events})

\* A tick commits the events at positions ps of c: later ones than c has.
Commit(c, ps) ==
    /\ c \in tracked
    /\ ps # {}
    /\ \A p \in ps : Emitted[p].contract = c
    /\ \A r \in events, p \in ps : ContractOf(r) = c => r.pos < p
    /\ LastId + Cardinality(ps) <= MaxId
    /\ events' = events \union
          {[id |-> LastId + Cardinality({q \in ps : q <= p}), pos |-> p] : p \in ps}
    /\ drawn' = Max({drawn, LastId + Cardinality(ps)})
    /\ UNCHANGED <<tracked, gen, trav>>

\* Contracts.Register and Contracts.Delete, with its cascade.
Register(c) ==
    /\ c \notin tracked
    /\ tracked' = tracked \union {c}
    /\ UNCHANGED <<events, drawn, gen, trav>>

Delete(c) ==
    /\ c \in tracked
    /\ gen[c] < MaxDeletes
    /\ tracked' = tracked \ {c}
    /\ events' = {r \in events : ContractOf(r) # c}
    /\ gen' = [gen EXCEPT ![c] = @ + 1]
    /\ UNCHANGED <<drawn, trav>>

-----------------------------------------------------------------------------
\* The traversal.

\* eventStream: each iteration starts afresh, with no cursor.
Start(c, asc) ==
    /\ trav.st \in {"idle", "done", "failed"}
    /\ trav' = [st |-> "check", contract |-> c, asc |-> asc, cursor |-> 0,
                out |-> <<>>, gen |-> gen[c], snap |-> {}]
    /\ UNCHANGED <<tracked, events, drawn, gen>>

\* handleListEvents reads the contract's row first.
CheckTracked ==
    /\ trav.st = "check"
    /\ trav.contract \in tracked
    /\ trav' = [trav EXCEPT !.st = "query"]
    /\ UNCHANGED <<tracked, events, drawn, gen>>

\* The contract is not tracked: a 404, which ends the iteration.
CheckNotFound ==
    /\ trav.st = "check"
    /\ trav.contract \notin tracked
    /\ trav' = [trav EXCEPT !.st = "failed"]
    /\ UNCHANGED <<tracked, events, drawn, gen>>

\* Mutant of AfterCursor: the event of the cursor comes again.
AtCursor(r) ==
    \/ trav.cursor = 0
    \/ IF trav.asc THEN r.id >= trav.cursor ELSE r.id <= trav.cursor

\* The keyset condition, on the id.
AfterCursor(r) ==
    \/ trav.cursor = 0
    \/ IF trav.asc THEN r.id > trav.cursor ELSE r.id < trav.cursor

\* The rows of the WHERE clause, and ORDER BY on them.
Selectable == {r \in Hits(trav.contract) : AfterCursor(r)}

OrderBy ==
    {p \in Selectable \X Selectable :
        IF trav.asc THEN p[1].pos < p[2].pos ELSE p[1].pos > p[2].pos}

\* Mutant of Selected: no row is read ahead.
SelectedNoneAhead == FirstOf(Selectable, OrderBy, Limit)

\* buildEventsQuery: at most limit + 1 of them.
Selected == FirstOf(Selectable, OrderBy, Limit + 1)

\* Mutant of NextCursor: the cursor is the row that was read ahead.
NextCursorAhead(found) == found[Limit + 1].id

\* Mutant of NextCursor: the cursor is the event's place in the chain.
NextCursorByPosition(found) == found[Limit].pos

NextCursor(found) == found[Limit].id

\* Events.Query returns a page; #streamEvents yields it and asks for the next
\* one when there is a cursor.
Query ==
    /\ trav.st = "query"
    /\ LET found == Selected
           more == Len(found) > Limit
       IN  trav' = [trav EXCEPT
              !.st = IF more THEN "check" ELSE "done",
              !.out = @ \o SubSeq(found, 1, IF more THEN Limit ELSE Len(found)),
              !.cursor = IF more THEN NextCursor(found) ELSE @,
              !.snap = IF trav.cursor = 0 THEN Hits(trav.contract) ELSE @]
    /\ UNCHANGED <<tracked, events, drawn, gen>>

\* Either statement fails, or the request does: the iteration throws.
RequestFails ==
    /\ trav.st \in {"check", "query"}
    /\ trav' = [trav EXCEPT !.st = "failed"]
    /\ UNCHANGED <<tracked, events, drawn, gen>>

\* Events.Get behind handleGetEvent and client.event: the row with the id.
EventById(id) == {r \in events : r.id = id}

Init ==
    /\ tracked = {}
    /\ events = {}
    /\ drawn = 0
    /\ gen = [c \in Contracts |-> 0]
    /\ \E c \in Contracts :
         trav = [st |-> "idle", contract |-> c, asc |-> TRUE, cursor |-> 0,
                 out |-> <<>>, gen |-> 0, snap |-> {}]

Next ==
    \/ \E c \in Contracts :
         \/ \E ps \in SUBSET DOMAIN Emitted : Commit(c, ps)
         \/ Register(c) \/ Delete(c)
         \/ \E asc \in Directions : Start(c, asc)
    \/ CheckTracked \/ CheckNotFound \/ Query \/ RequestFails

Spec == Init /\ [][Next]_vars

-----------------------------------------------------------------------------
\* Properties.

TypeOK ==
    /\ tracked \subseteq Contracts
    /\ events \subseteq Row
    /\ drawn \in 0 .. MaxId
    /\ gen \in [Contracts -> Nat]
    /\ trav \in Traversal
    /\ trav.cursor \in {0} \union {r.id : r \in ToSet(trav.out)}

\* No deletion of the contract since the traversal began.
Undisturbed == gen[trav.contract] = trav.gen

\* A traversal yields events strictly in the order asked for, across pages and
\* whatever is written meanwhile (ORDER BY and the id keyset of
\* buildEventsQuery agree); so no event comes twice.
PageOrder ==
    Undisturbed =>
        \A i, j \in DOMAIN trav.out : i < j =>
            IF trav.asc THEN trav.out[i].pos < trav.out[j].pos
            ELSE trav.out[i].pos > trav.out[j].pos

\* A traversal that reaches its end has yielded every match there was at its
\* first page; newest first, nothing else, so that it ends however fast the
\* indexer writes.
TraversalComplete ==
    trav.st = "done" /\ Undisturbed =>
        /\ trav.snap \subseteq ToSet(trav.out)
        /\ ~trav.asc => trav.snap = ToSet(trav.out)

\* Oldest first, the end is the end of the table as it is then: the row read
\* ahead and the page are of one statement (buildEventsQuery, limit + 1).
EndsAtTableEnd ==
    [][trav.st = "query" /\ trav'.st = "done" /\ Undisturbed /\ trav.asc =>
            Hits(trav.contract) \subseteq ToSet(trav'.out)]_vars

\* Event ids are unique across the indexer, so an id from a query fetches
\* that event or nothing (client.ts, event): also after its contract was
\* deleted.
HeldIdsTrue ==
    \A i \in DOMAIN trav.out : EventById(trav.out[i].id) \subseteq {trav.out[i]}

Places(rows) == [i \in DOMAIN rows |-> rows[i].pos]

\* The caller's view: a listing, whose ids, cursors and statements are not
\* seen.
List == INSTANCE Listing WITH
    present <- {r.pos : r \in events},
    mode <- IF trav.st \in {"check", "query"} THEN "open" ELSE trav.st,
    contract <- trav.contract,
    asc <- trav.asc,
    yielded <- Places(trav.out),
    disturbed <- ~Undisturbed

\* A traversal (eventStream over handleListEvents and Events.Query) is a
\* listing: each page is the next of the matches there are when it is read,
\* and there is another request exactly when matches remain.
ImplementsListing == List!Spec

=============================================================================
