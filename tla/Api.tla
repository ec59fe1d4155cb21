--------------------------------- MODULE Api ---------------------------------
(***************************************************************************)
(* The HTTP surface of the indexer (indexer/internal/api): REST and        *)
(* GraphQL requests handled at once over one database, behind the request  *)
(* recorder, the read deadline, the recoverer, the write limiter and the   *)
(* token check, while the pollers advance the contracts.                   *)
(*                                                                         *)
(* A request is a sequence of fields to resolve: one for a REST request,   *)
(* the selected ones for a GraphQL query, which resolves them in any       *)
(* interleaving.  A field runs its SQL statements one at a time.           *)
(***************************************************************************)
EXTENDS Validation, Sequences, FiniteSets, FiniteSetsExt

CONSTANTS
    Contracts,
    Slots,          \* places for requests being handled
    Catalogue,      \* Catalogue[k]: the requests that may come to slot k
    Burst,          \* the write limiter's bucket
    HalfRange,      \* stands for 2^31
    MaxRefills,     \* bound: tokens added
    MaxLedger,      \* bound: ledgers closed
    MaxFaults       \* bound: faults

Ops == {"unrouted", "health", "list", "register", "get", "delete", "events", "event"}

Raw == Int \union {Absent, Text, BadText}

Arguments == [limit : Raw, order : {Absent, Text, "asc", "desc"}, cursor : Raw, from : Raw,
              to : Raw, name : {Absent, Text, BadText}, topic : {Absent, Text, BadText}]

\* nested: a GraphQL contract is asked for with its events.
Field == [op : Ops, contract : Contracts \union {Text}, id : Int \union {Text},
          args : Arguments,
          nested : BOOLEAN]

\* What a GraphQL Int may be.
Int32 == (-HalfRange) .. (HalfRange - 1)

\* token: it carries the admin token.
Request == [graphql : BOOLEAN, fields : Seq(Field), token : BOOLEAN]

ASSUME ApiAssumption ==
    /\ IsFiniteSet(Slots)
    /\ \A k \in Slots : \A q \in Catalogue[k] :
          /\ q \in Request
          /\ ~q.graphql => Len(q.fields) = 1
          /\ \A f \in DOMAIN q.fields :
                /\ q.graphql =>
                      /\ q.fields[f].op \notin {"unrouted", "register", "delete"}
                      /\ {q.fields[f].args[a] : a \in {"limit", "from", "to"}}
                            \subseteq Int32 \union {Absent}
                /\ q.fields[f].nested => q.graphql /\ q.fields[f].op = "get"
    /\ Burst \in Nat \ {0}
    /\ MaxRefills \in Nat /\ MaxLedger \in Nat /\ MaxFaults \in Nat
    /\ HalfRange \in Nat /\ MaxLedger < HalfRange /\ HalfRange - 1 <= MaxColumn

VARIABLES
    db,             \* db.last[c]: the progress of each tracked c; db.rows: events
    ledger,         \* the last ledger any poller has stored
    tokens,         \* the limiter's bucket
    calls,          \* calls[k]: the request in slot k
    log             \* history: refills, writes and faults so far, and how
                    \* many deletions no 204 has told of

vars == <<db, ledger, tokens, calls, log>>

\* Of the indexer's own answers; net/http's, to what it cannot read as a
\* request, come before any handler.
Statuses == {200, 204, 400, 401, 404, 429, 500}

\* What a field or a request comes to.
Outcome(code, value) == [code |-> code, value |-> value]
Ok(value) == Outcome(200, value)
Fail(code) == Outcome(code, Absent)
NotFound == Fail(404)
Pending == Fail(0)

\* st: idle, guards, body, run (fields resolve), header (the status line is
\* written) and done.  left[f]: the statements field f has yet to run; got[f]:
\* what a contract resolver holds while its events are read; out[f]: the
\* outcome.  status: the status written; body: the one whose body was.
\* expired: the context is cancelled.  History: faulted, whether a fault hit
\* it; truths[f], every answer to f that was true at some moment since it
\* came; honest, whether the reply is one of them.
Idle == [st |-> "idle", req |-> Absent, left |-> <<>>, got |-> <<>>, out |-> <<>>,
         status |-> 0, body |-> <<>>, expired |-> FALSE, faulted |-> FALSE,
         truths |-> <<>>, honest |-> TRUE]

\* The database may hold contracts from earlier runs.
Init ==
    /\ \E c \in SUBSET Contracts : db = [last |-> [e \in c |-> 0], rows |-> {}]
    /\ ledger = 0
    /\ tokens = Burst
    /\ calls = [k \in Slots |-> Idle]
    /\ log = [refills |-> 0, writes |-> 0, unclaimed |-> 0, faults |-> 0]

Fields(k) == DOMAIN calls[k].req.fields
At(k, f) == calls[k].req.fields[f]

-----------------------------------------------------------------------------
\* The store's statements (indexer/internal/store).

Tracked(d) == DOMAIN d.last

\* A GraphQL Int has 32 bits, a REST number as many as it takes.
Number(graphql, n) ==
    IF graphql THEN ((n + HalfRange) % (2 * HalfRange)) - HalfRange ELSE n

Event(graphql, r) == [id |-> r.id, ledger |-> Number(graphql, r.ledger)]

\* Query: the page of a validated query, newest first.  One page is enough
\* here; EventPaging has cursors and orders.
Page(graphql, c, args, d) ==
    LET q == EventQuery(args)
    IN  [items |-> {Event(graphql, r) : r \in {s \in d.rows :
            /\ s.contract = c
            /\ q.from > 0 => s.ledger >= q.from
            /\ q.to > 0 => s.ledger <= q.to}}]

Get(graphql, c, d) ==
    IF c \in Tracked(d) THEN Ok([last |-> Number(graphql, d.last[c])]) ELSE NotFound

\* Stats: COUNT and COALESCE(MAX(last_indexed_ledger), 0).
Stats(graphql, d) ==
    Ok(<<Cardinality(Tracked(d)),
         Number(graphql, Max({0} \union {d.last[c] : c \in Tracked(d)}))>>)

List(graphql, d) == Ok([c \in Tracked(d) |-> Number(graphql, d.last[c])])

EventById(graphql, id, d) ==
    LET found == {r \in d.rows : r.id = id}
    IN  IF found = {} THEN NotFound ELSE Ok(Event(graphql, CHOOSE r \in found : TRUE))

Read(graphql, field, statement, d) ==
    CASE statement = "stats" -> Stats(graphql, d)
      [] statement = "list"  -> List(graphql, d)
      [] statement = "get"   -> Get(graphql, field.contract, d)
      [] statement = "event" -> EventById(graphql, EventID(field.id), d)
      [] statement = "query" ->
            IF ~QueryAccepted(field.args) THEN Fail(400)
            ELSE IF ~StoreAccepts(EventQuery(field.args)) THEN Fail(500)
            ELSE Ok(Page(graphql, field.contract, field.args, d))

Inserted(c, d) ==
    [d EXCEPT !.last = [e \in DOMAIN @ \union {c} |-> IF e \in DOMAIN @ THEN @[e] ELSE 0]]

\* ON DELETE CASCADE takes the events along.
Deleted(c, d) ==
    [last |-> [e \in Tracked(d) \ {c} |-> d.last[e]],
     rows |-> {r \in d.rows : r.contract # c}]

-----------------------------------------------------------------------------
\* The handlers and resolvers: what each field checks, then the statements.

FieldAccepted(field) ==
    /\ field.op \in {"register", "get", "delete", "events"} => field.contract # Text
    /\ field.op = "events" => QueryAccepted(field.args)
    /\ field.op = "event" => EventID(field.id) # Refused

\* A Contract.events checks its filters when its contract has been read.
Statements(field) ==
    CASE field.op = "health"   -> <<"stats">>
      [] field.op = "list"     -> <<"list">>
      [] field.op = "register" -> <<"insert", "get">>
      [] field.op = "get"      -> IF field.nested THEN <<"get", "query">> ELSE <<"get">>
      [] field.op = "delete"   -> <<"delete">>
      [] field.op = "events"   -> <<"get", "query">>
      [] field.op = "event"    -> <<"event">>
      [] OTHER                 -> <<>>


Writes == {"register", "delete"}

\* Everything a field's statements may say in state d of the database, each by
\* itself.
Truths(field, d) ==
    CASE field.op = "health" -> {Stats(FALSE, d)}
      [] field.op = "list"   -> {List(FALSE, d)}
      [] field.op = "event"  ->
            IF EventID(field.id) = Refused THEN {} ELSE {EventById(FALSE, EventID(field.id), d)}
      [] field.op \in {"get", "register"} ->
            {Get(FALSE, field.contract, d)}
              \union (IF field.nested /\ QueryAccepted(field.args)
                      THEN {Ok(Page(FALSE, field.contract, field.args, d))} ELSE {})
      [] field.op = "delete" ->
            {IF field.contract \in Tracked(d) THEN Fail(204) ELSE NotFound}
      [] field.op = "events" ->
            IF ~QueryAccepted(field.args) THEN {}
            ELSE {Get(FALSE, field.contract, d),
                  Ok(Page(FALSE, field.contract, field.args, d))}
      [] OTHER -> {NotFound}

\* The database becomes d; the requests are as in cs, and have seen d.
Becomes(d, cs) ==
    /\ db' = d
    /\ calls' = [k \in Slots |->
          [cs[k] EXCEPT !.truths =
              [f \in DOMAIN @ |-> @[f] \union Truths(cs[k].req.fields[f], d)]]]

-----------------------------------------------------------------------------
\* Requests and their guards.

\* Mutant of Guards: DELETE is routed without them.
GuardsOfPost(q) == IF q.fields[1].op = "register" THEN {"limiter", "auth"} ELSE {}

\* Routes: a write passes the limiter, then the token check.
Guards(q) ==
    IF ~q.graphql /\ q.fields[1].op \in Writes THEN {"limiter", "auth"} ELSE {}

HasBody(q) == q.graphql \/ q.fields[1].op = "register"

AfterGuards(q) == IF HasBody(q) THEN "body" ELSE "run"

\* A field whose arguments are refused runs no statement.
Arrive(k, q) ==
    /\ calls[k].st = "idle"
    /\ calls' = [calls EXCEPT ![k] =
          [Idle EXCEPT !.req = q,
              !.st = IF Guards(q) # {} THEN "guards" ELSE AfterGuards(q),
              !.left = [f \in DOMAIN q.fields |->
                  IF FieldAccepted(q.fields[f]) THEN Statements(q.fields[f]) ELSE <<>>],
              !.got = [f \in DOMAIN q.fields |-> <<>>],
              !.out = [f \in DOMAIN q.fields |->
                  IF ~FieldAccepted(q.fields[f]) THEN Fail(400)
                  ELSE IF q.fields[f].op = "unrouted" THEN NotFound ELSE Pending],
              !.truths = [f \in DOMAIN q.fields |-> Truths(q.fields[f], db)]]]
    /\ UNCHANGED <<db, ledger, tokens, log>>

\* writeError, before any field is resolved.
Refuse(k, code) ==
    calls' = [calls EXCEPT ![k] = [Idle EXCEPT !.st = "header", !.status = code]]

RateLimited(k) ==
    /\ calls[k].st = "guards"
    /\ tokens = 0
    /\ Refuse(k, 429)
    /\ UNCHANGED <<db, ledger, tokens, log>>

\* RequireAuth, behind the limiter: a refused request has used a token.
Unauthorized(k) ==
    /\ calls[k].st = "guards"
    /\ tokens > 0
    /\ ~calls[k].req.token
    /\ tokens' = tokens - 1
    /\ Refuse(k, 401)
    /\ UNCHANGED <<db, ledger, log>>

Admit(k) ==
    /\ calls[k].st = "guards"
    /\ tokens > 0
    /\ calls[k].req.token
    /\ tokens' = tokens - 1
    /\ calls' = [calls EXCEPT ![k].st = AfterGuards(calls[k].req)]
    /\ UNCHANGED <<db, ledger, log>>

ReadBody(k) ==
    /\ calls[k].st = "body"
    /\ calls' = [calls EXCEPT ![k].st = "run"]
    /\ UNCHANGED <<db, ledger, tokens, log>>

\* Not JSON, too large, without a query, or still on its way when the
\* connection's read timeout passes.
BodyRefused(k) ==
    /\ calls[k].st = "body"
    /\ Refuse(k, 400)
    /\ UNCHANGED <<db, ledger, tokens, log>>

-----------------------------------------------------------------------------
\* Resolving a field.

Turn(k, f, statement) ==
    /\ calls[k].st = "run"
    /\ calls[k].left[f] # <<>>
    /\ Head(calls[k].left[f]) = statement

\* What field f comes to when its last statement has returned r.
Conclusion(field, got, r) ==
    IF r = NotFound /\ field.op = "register" THEN Fail(500)
    ELSE IF r.code # 200 THEN r
    ELSE IF field.nested THEN Ok(Append(got, r.value)) ELSE r

ReadStatement(k, f, statement) ==
    /\ Turn(k, f, statement)
    /\ ~calls[k].expired
    /\ LET r == Read(calls[k].req.graphql, At(k, f), statement, db)
           more == r.code = 200 /\ Len(calls[k].left[f]) > 1
       IN  calls' = [calls EXCEPT
              ![k].left[f] = IF more THEN Tail(@) ELSE <<>>,
              ![k].got[f] = IF more /\ At(k, f).nested THEN Append(@, r.value) ELSE @,
              ![k].out[f] = IF more THEN @ ELSE Conclusion(At(k, f), calls[k].got[f], r)]
    /\ UNCHANGED <<db, ledger, tokens, log>>

\* INSERT ... ON CONFLICT DO NOTHING.  What a registration answers it reads
\* from here on.
Insert(k, f) ==
    /\ Turn(k, f, "insert")
    /\ ~calls[k].expired
    /\ Becomes(Inserted(At(k, f).contract, db),
          [calls EXCEPT ![k].left[f] = Tail(@), ![k].truths[f] = {}])
    /\ log' = [log EXCEPT !.writes = @ + 1]
    /\ UNCHANGED <<ledger, tokens>>

\* Mutant of Affected: whatever was deleted, it is a success.
AffectedAny(c) == Fail(204)

\* RowsAffected
Affected(c) == IF c \in Tracked(db) THEN Fail(204) ELSE NotFound

Delete(k, f) ==
    LET c == At(k, f).contract
    IN  /\ Turn(k, f, "delete")
        /\ ~calls[k].expired
        /\ Becomes(Deleted(c, db),
              [calls EXCEPT ![k].left[f] = <<>>, ![k].out[f] = Affected(c)])
        /\ log' = [log EXCEPT !.writes = @ + 1,
                              !.unclaimed = @ + IF c \in Tracked(db) THEN 1 ELSE 0]
        /\ UNCHANGED <<ledger, tokens>>

\* Mutant of Failed: a resolver that is told of any error returns null.
FailedAsNull(field) == IF field.op \in {"get", "event"} THEN NotFound ELSE Fail(500)

\* A statement that fails is INTERNAL_STORE, and so is one that the context
\* has cut.
Failed(field) == Fail(500)

\* Mutant of Interrupted: a query runs on without the request's context.
InterruptedButQuery(k, f) ==
    calls[k].expired /\ Head(calls[k].left[f]) # "query"

Interrupted(k, f) == calls[k].expired

FieldInterrupted(k, f) ==
    /\ calls[k].st = "run"
    /\ calls[k].left[f] # <<>>
    /\ Interrupted(k, f)
    /\ calls' = [calls EXCEPT ![k].left[f] = <<>>, ![k].out[f] = Failed(At(k, f))]
    /\ UNCHANGED <<db, ledger, tokens, log>>

\* A database error, or a panic that graph-gophers recovers.
FieldFault(k, f) ==
    /\ calls[k].st = "run"
    /\ calls[k].left[f] # <<>>
    /\ log.faults < MaxFaults
    /\ log' = [log EXCEPT !.faults = @ + 1]
    /\ calls' = [calls EXCEPT ![k].left[f] = <<>>, ![k].out[f] = Failed(At(k, f)),
                              ![k].faulted = TRUE]
    /\ UNCHANGED <<db, ledger, tokens>>

\* The deadline passes, or a connection breaks, after a write took effect.
WriteUnanswered(k, f) ==
    LET c == At(k, f).contract
        write == Head(calls[k].left[f])
    IN  /\ calls[k].st = "run"
        /\ calls[k].left[f] # <<>>
        /\ write \in {"insert", "delete"}
        /\ log.faults < MaxFaults
        /\ Becomes(IF write = "insert" THEN Inserted(c, db) ELSE Deleted(c, db),
              [calls EXCEPT ![k].left[f] = <<>>, ![k].out[f] = Failed(At(k, f)),
                            ![k].faulted = TRUE])
        /\ log' = [log EXCEPT !.faults = @ + 1, !.writes = @ + 1,
                              !.unclaimed = @ + IF write = "delete" /\ c \in Tracked(db)
                                                THEN 1 ELSE 0]
        /\ UNCHANGED <<ledger, tokens>>

\* The deadline of ReadDeadline, or the client is gone.
Expire(k) ==
    /\ calls[k].st \in {"guards", "body", "run"}
    /\ ~calls[k].expired
    /\ calls' = [calls EXCEPT ![k].expired = TRUE]
    /\ UNCHANGED <<db, ledger, tokens, log>>

-----------------------------------------------------------------------------
\* Answering.

\* The fields whose type is not nullable take the whole data with them.
Bubbles(field, out) ==
    field.op \in {"health", "list", "events"} /\ out.code # 200

\* A REST answer is its field's.  A GraphQL one is 200 whatever became of its
\* fields: an absent contract or event is null, a failed one null with an
\* error (a code), and all of them are dropped when one bubbles.
Reply(q, out) ==
    IF q.graphql /\ \E f \in DOMAIN out : Bubbles(q.fields[f], out[f])
    THEN [f \in DOMAIN out |-> Pending] ELSE out

\* Mutant of StatusOf: net/http's own answer to a wrong method.
StatusOfNetHttp(q, out) ==
    IF q.graphql THEN 200 ELSE IF q.fields[1].op = "unrouted" THEN 405 ELSE out[1].code

StatusOf(q, out) == IF q.graphql THEN 200 ELSE out[1].code

\* Whether its contract was found at some moment.
Existed(truths) == \E n \in 0 .. MaxLedger : Ok([last |-> n]) \in truths

\* Whether an answer that is no failure was true while it was being found.  Of
\* one that takes two statements, each part is: what it has of the contract,
\* or that there was one, and its page.
Honest(field, answer, truths) ==
    answer.code \in {200, 204, 404} =>
        IF field.nested /\ answer.code = 200
        THEN {Ok(answer.value[1]), Ok(answer.value[2])} \subseteq truths
        ELSE /\ answer \in truths
             /\ field.op = "events" /\ answer.code = 200 => Existed(truths)

\* writeJSON and handleGraphQL: the body is built, then the status written.
Respond(k) ==
    LET call == calls[k]
        status == StatusOf(call.req, call.out)
        reply == Reply(call.req, call.out)
    IN  /\ call.st = "run"
        /\ \A f \in Fields(k) : call.left[f] = <<>>
        /\ calls' = [calls EXCEPT ![k] =
              [Idle EXCEPT !.st = "header", !.status = status, !.faulted = call.faulted,
                  !.honest = \A f \in Fields(k) : Honest(At(k, f), reply[f], call.truths[f])]]
        /\ log' = [log EXCEPT !.unclaimed = @ - IF status = 204 THEN 1 ELSE 0]
        /\ UNCHANGED <<db, ledger, tokens>>

WriteBody(k) ==
    /\ calls[k].st = "header"
    /\ calls' = [calls EXCEPT ![k].st = "done",
          ![k].body = IF calls[k].status = 204 THEN @ ELSE Append(@, calls[k].status)]
    /\ UNCHANGED <<db, ledger, tokens, log>>

\* Mutant of Recovered: the recoverer always answers; the recorder drops its
\* status, not its body.
RecoveredAlways(call) ==
    IF call.status = 0 THEN [Idle EXCEPT !.st = "header", !.status = 500]
    ELSE [call EXCEPT !.st = "done", !.body = Append(@, 500)]

\* Recoverer: a 500, unless the status is already written.
Recovered(call) ==
    IF call.status = 0 THEN [Idle EXCEPT !.st = "header", !.status = 500]
    ELSE [call EXCEPT !.st = "done"]

\* A handler panics, before the status is written or after.
Panic(k) ==
    /\ calls[k].st \in {"run", "header"}
    /\ log.faults < MaxFaults
    /\ log' = [log EXCEPT !.faults = @ + 1]
    /\ calls' = [calls EXCEPT ![k] = [Recovered(calls[k]) EXCEPT !.faulted = TRUE]]
    /\ UNCHANGED <<db, ledger, tokens>>

Release(k) ==
    /\ calls[k].st = "done"
    /\ calls' = [calls EXCEPT ![k] = Idle]
    /\ UNCHANGED <<db, ledger, tokens, log>>

-----------------------------------------------------------------------------
\* The surroundings.

Refill ==
    /\ tokens < Burst
    /\ log.refills < MaxRefills
    /\ tokens' = tokens + 1
    /\ log' = [log EXCEPT !.refills = @ + 1]
    /\ UNCHANGED <<db, ledger, calls>>

\* A tick of the poller commits an event of c and its progress (Poller).
Commit(c) ==
    /\ c \in Tracked(db)
    /\ ledger < MaxLedger
    /\ ledger' = ledger + 1
    /\ Becomes([last |-> [db.last EXCEPT ![c] = ledger + 1],
                rows |-> db.rows \union
                    {[id |-> ledger + 1, contract |-> c, ledger |-> ledger + 1]}], calls)
    /\ UNCHANGED <<tokens, log>>

\* What the server does of itself, short of a database that may never answer.
Serve(k) ==
    \/ RateLimited(k) \/ Unauthorized(k) \/ Admit(k) \/ BodyRefused(k) \/ Expire(k)
    \/ calls[k].st = "run" /\ \E f \in Fields(k) : FieldInterrupted(k, f)
    \/ Respond(k) \/ WriteBody(k)

Next ==
    \/ \E k \in Slots :
          \/ \E q \in Catalogue[k] : Arrive(k, q)
          \/ ReadBody(k)
          \/ calls[k].st = "run" /\ \E f \in Fields(k) :
                \/ \E s \in {"stats", "list", "get", "event", "query"} : ReadStatement(k, f, s)
                \/ Insert(k, f) \/ Delete(k, f)
                \/ FieldFault(k, f) \/ WriteUnanswered(k, f)
          \/ Serve(k)
          \/ Panic(k) \/ Release(k)
    \/ Refill
    \/ \E c \in Contracts : Commit(c)

\* Timers fire and handlers go on.  No statement need ever return, no body
\* ever arrive.
Fairness == \A k \in Slots : WF_vars(calls[k].st \notin {"idle", "done"} /\ Serve(k))

Spec == Init /\ [][Next]_vars /\ Fairness

-----------------------------------------------------------------------------
\* Properties.

TypeOK ==
    /\ Tracked(db) \subseteq Contracts
    /\ \A c \in Tracked(db) : db.last[c] \in 0 .. MaxLedger
    /\ db.rows \subseteq [id : 1 .. MaxLedger, contract : Contracts, ledger : 1 .. MaxLedger]
    /\ ledger \in 0 .. MaxLedger
    /\ tokens \in 0 .. Burst
    /\ \A k \in Slots :
          /\ calls[k].st \in {"idle", "guards", "body", "run", "header", "done"}
          /\ calls[k].req \in Catalogue[k] \union {Absent}
          /\ calls[k].status \in Statuses \union {0}
          /\ {calls[k].expired, calls[k].faulted, calls[k].honest} \subseteq BOOLEAN

\* Whatever the pollers and the other requests do between two statements, each
\* thing a client is told was so at some moment of its request: a contract and
\* its progress, a page, absence (a 404, or a null without an error), the
\* success of a write; and a page comes only of a contract that there was.  A
\* failure never passes for absence (ADR-019, ADR-043).  Two things told at once
\* need not have been so at once: of a contract that is deleted between them the
\* page is empty, where handlers.go:301-303 promises a 404.
AnswersTrue == \A k \in Slots : calls[k].honest

\* Every 204 stands for a deletion of its own: of two requests that delete
\* one contract, one is told 404 (ADR-039).
DeletesCounted == log.unclaimed >= 0

\* No write goes round the limiter or the token: at most one for each token
\* the bucket has held, and none for a request that is not the operator's.
WritesGuarded ==
    /\ log.writes <= Burst + log.refills
    /\ \A k \in Slots :
          calls[k].st = "run" /\ ~calls[k].req.graphql /\ At(k, 1).op \in Writes
              => calls[k].req.token

\* A query of events with a ledger bound over MaxColumn, which the boundary
\* accepts and the store does not.  A GraphQL Int is never that large.
OverColumn(field) ==
    /\ field.op = "events"
    /\ QueryAccepted(field.args)
    /\ TooWide(EventQuery(field.args))

\* A request the boundary has accepted fails inside only for a cause: a fault,
\* its deadline, a contract deleted while it was being registered, or a ledger
\* bound of a REST query too wide for its column.  The last is the one thing that the validators
\* accept and the store refuses, against "a catalogued 400 rather than a store
\* error" (parseEventQuery).
InternalHasCause ==
    \A k \in Slots : \A f \in DOMAIN calls[k].out :
        calls[k].out[f].code = 500 =>
            \/ calls[k].expired \/ calls[k].faulted
            \/ At(k, f).op = "register" /\ NotFound \in calls[k].truths[f]
            \/ OverColumn(At(k, f))

\* One status line and one body that agree, whenever a handler panics.
OneAnswer ==
    \A k \in Slots : calls[k].st = "done" =>
        /\ calls[k].body \in {<<>>, <<calls[k].status>>}
        /\ calls[k].body = <<>> => calls[k].faulted \/ calls[k].status = 204

\* Every request is answered, by its deadline if the database hangs: the read
\* deadline and the connection's bound every step of a handler.
EveryRequestAnswered ==
    \A k \in Slots : calls[k].st # "idle" ~> calls[k].st = "done"

=============================================================================
