# A TLA+ verification of the Pulsar indexer

Pulsar reads the events that Soroban smart contracts emit, decodes them, keeps
them in a database and serves them over REST and GraphQL, with a TypeScript SDK
and a web app in front. This directory holds TLA+ models of its core, the TLC
runs that check them on small instances, and TLAPS proofs of the main results
for every instance: the polling loop, the daemon with its migrations, the API,
and the SDK's two ways of reading events. Line numbers refer to the repository; in
`PROJECT.json` they carry the prefix `src/`.

## 1. Inventory

| Component | State it keeps | Operations | Talks to | What makes it correct |
|---|---|---|---|---|
| Polling loop `indexer/internal/rpc/events.go` | one goroutine per bootstrap contract: timer, backoff, the locals of a tick | tick: read progress, drain pages, classify a range rejection, commit | RPC node (calls), database (statements, one transaction) | no event is passed over in silence; progress and rows move together; every event is stored in the end; one bad poll stops nothing |
| RPC client `rpc/client.go` | none | getEvents, getHealth, error classification | RPC node | -32600 is told from everything else |
| RPC node (external) | chain, tip, retention floor | answer pages, reject reads outside the window | | |
| Store `indexer/internal/store`, schema `indexer/migrations` | tables `contracts` and `events` | Register, Get, List, Stats, Delete, SetProgress, SetStatus; Insert, Get, Query | engine | unique keys, cascade, ids ascending in emission order, pages that fit together |
| Database handle `indexer/internal/db` | connection pool | Open, Resolve | engine | one connection on SQLite never deadlocks |
| Migrations `indexer/internal/db/migrate.go` | `schema_migrations` | Up, Down, Version | engine | recorded version = schema, also after a crash or with two instances |
| Configuration `indexer/internal/config`, with `db.Resolve` | none | Load, Resolve | environment | what cannot run is refused at the start |
| Daemon `indexer/cmd/pulsar-indexer` | root context, WaitGroup, HTTP server | startup, serve, shutdown | all of the above | the database outlives every goroutine that uses it; a clean exit cuts nothing off; shutdown ends; some process comes to serve |
| API `indexer/internal/api` | the write limiter's bucket; per request, what its statements returned | contracts, events, health, GraphQL, middleware | store | answers true at some moment of the request; absence told from failure; writes guarded; one answer, in bounded time |
| Validation `indexer/internal/validate`, statuses `apierror` | none | pure functions | API, store | what the boundary accepts the store accepts |
| Models, logger, decoder | none | pure functions | | boundaries, widths |
| SDK indexer client `packages/sdk/src/client.ts`, `http.ts` | one traversal | contracts, events, eventStream, event | API over HTTP | traversals neither lose nor repeat events; failures classified in the right order |
| SDK live path `packages/sdk/src/rpc.ts` | one generator | fetchLiveEvents, liveEventStream | RPC node | order, no silent gap, filter respected |
| SDK contract binding `contract.ts` | none | simulate a read | RPC node | |
| Web app `apps/web` | health indicator, events panel, proxy limiter | poll, load more, limit | SDK, GraphQL | stale answers never replace fresh ones; limits hold at the window's edge |

The hard behaviours are: API calls that delete and register a contract while a
tick of it is under way; the retention window moving between any two calls;
crashes and lost acknowledgements around the commit; several goroutines behind
one SQLite connection; several builds migrating one database at once; requests
made of several statements, cut by a deadline between any two; traversals that
span many requests; consumers slower than the chain; shutdown with requests
and ticks under way. `PROJECT.json` lists each as a
hazard at its line.

## 2. Modules

```
SorobanRpc           the RPC node: chain, tip, floor, pages (external)
  IndexerStore       contracts and events tables, transactions, pool
    Poller           the polling loop, the API's writes, the process
      PollerInv      its inductive invariants
        PollerProofs   TLAPS: type correctness
          PollerSafety TLAPS: the invariant and the safety properties
        PollerHistory  Poller as an implementation of IndexedHistory
          PollerRefinement TLAPS: the refinement (also extends PollerSafety)
          MCPoller     TLC instances
  EventFeed          abstract: what a live stream promises its consumer
  LiveStream         the SDK's live path (also extends Ordering)
    LiveStreamProofs TLAPS (also extends OrderingProofs)   MCLiveStream
IndexedHistory       abstract: what readers of the tables are promised

Configuration        environment to configuration and pool
Migrations           the files of a build, Up and Down on a shared database
  Daemon             processes from start to exit (also extends Configuration)
    DaemonProofs     TLAPS                                 MCDaemon
SchemaVersion        abstract: what the migrations promise a process

Validation           the boundary's validators and the store's checks
  Api                requests, guards, statements, answers
    ApiProofs        TLAPS                                 MCApi

Listing              abstract: what a traversal promises its caller
Ordering             a set as the sequence of its elements in order
  OrderingProofs     TLAPS: what those sequences are
  EventPaging        API and SDK reading side
    EventPagingProofs  TLAPS (also extends OrderingProofs) MCEventPaging
```

### Poller, with IndexerStore and SorobanRpc

One action is one call of a tick, so that any other actor can move between two
calls. `pc[p]` is the call goroutine `p` makes next and `job[p]` the locals it
carries across calls.

| Code | Action |
|---|---|
| `tickOnce` 153-167: Get, start ledger, call drain | `TickStart`, `TickNotFound` |
| `drain` 200-254, one getEvents | `GetEventsFullPage` (goes on), `GetEventsLastPage` (to commit), `GetEventsNothing` (tick ends well) |
| -32600 of getEvents | `GetEventsRejected`: to handleRangeError from the first drain, a failed tick from the second |
| `handleRangeError` 269-312 | `GetHealthCaughtUp`, `GetHealthBelowFloor` (reports the gap, drains from the floor), `GetHealthInWindow` |
| `commit` 323-340 | `Begin`, `Insert` / `InsertFails`, `SetProgress` / `SetProgressNotFound`, `Commit` |
| `run` 105-125 | `EndTick` (wait and backoff), `Return`, `Cancelled` |
| failing calls | `RpcFault`, `DbFault`, `CommitUnacknowledged` (committed, but the caller sees an error) |
| `store/contracts.go` from the API | `Register`, `Delete` |
| `main.go` 119-213 | `Startup`, `Shutdown`, `Exit`, `Crash` |

Abstractions. An event is its ledger, its ordinal in the ledger, its contract
and whether it decodes. A transaction's rows (`txRows`) become visible at
`Commit`; the progress it will write is `job.high`. Statements are atomic. A
pool of one connection is SQLite: an open transaction keeps every other
statement waiting (`ConnFree`). A larger pool is Postgres: `InsertBlocked`,
`RowLocked` and the guard of `Delete` are the row locks that make statements
wait. An id is the number of its INSERT followed by the emission order within
it. Time is left out: an idle goroutine may tick at any moment, `timer` keeps
the wait it armed. `gen`, `stale`, `skipped` and `job.side` are history and
guard nothing but the bound on deletions. The process starts with an empty
database and may start again on whatever a crash left.

### IndexedHistory and PollerHistory

`IndexedHistory` is what a reader of the database may rely on, without ticks,
transactions, pages or goroutines: a contract is registered or deleted with all
it has, lost ledgers are reported, and a batch of events appears together with
the progress that accounts for it (`Advance`). `PollerHistory` maps the tables
to it: the rows as a set of events (ids and rows of open transactions are left
out), `last`, `skipped` and `stale`. Under that mapping `Commit` and
`CommitUnacknowledged` are `Advance`, `GetHealthBelowFloor` is `Report`,
`Startup` is a registration of the whole bootstrap list, and every other call,
fault, crash and exit is a stutter. A commit of a tick that outlived its
registration (`adrift`) is the one `Advance` that promises nothing; what that
means for the code's comment is the run `poller_rereg`.

### EventPaging

`Start`, `CheckTracked` / `CheckNotFound`, `Query` and `RequestFails` are a
traversal by `eventStream`: each page is a request of two statements, and the
SDK asks for the next page with the cursor of the last. A traversal begins at
the first page; the code also takes a caller's cursor. `Commit`, `Register`
and `Delete` are the writers: that a contract's rows arrive after all it has, in
emission order and by id, and go only all at once, is `TableAppends` of Poller,
which holds of every commit with one goroutine per contract. Pages are `FirstOf` of `Ordering`: ORDER
BY and LIMIT as a place for each selected row. `Sequence` chooses between
Postgres ids (a sequence) and SQLite ids (one more than the largest in the
table). The filters of a query are one bit of an event: match or not. Yielding
is folded into the arrival of a page, as nothing else happens between.

`Listing` is the same seen by the caller, without ids, cursors, requests and
statements: each page is the next `Limit` of the matches there are when it is
read, the listing ends with the page that reaches the last of them, and not
before, and of a contract that is deleted meanwhile only order is left.
`EventPaging` implements it with a row as its place in `Emitted`: `Query` is
`Turn`, `CheckNotFound` and `RequestFails` are `Fail`, `CheckTracked` and
`Register` are stutters.

### LiveStream

`FetchPage`, `FetchUndecodable`, `FetchRejected`, `FetchFails` are the outcomes
of `fetchLiveEvents`; `Yield` hands one event to a consumer of any speed, `Wake`
ends the delay after an empty page, `Iterate` is a caller that iterates again
after a failure. A stream begins at a ledger; the code also takes a cursor. `next` holds the position and the filter of the next request;
as in the code, the filter is only in the first.

`EventFeed` is the consumer's side, without pages, cursors and waits: an event
may be delivered once everything asked for before it has been, an event that
left the node or does not decode breaks the feed, and a broken feed delivers
nothing until it is iterated again. `LiveStream` implements it: `Yield` is
`Deliver`, the failing fetches are `Break`, `Iterate` is `Restart`. The feed
promises no filter, since the stream does not keep its own (`live_filter`).

### Daemon, with Migrations and Configuration

Several processes (`Instances`), each with the migrations of its own build, on
one database. `inst[i].stage` is where `run` of main.go stands, `mig[i]` where
the process's `db.Up` stands.

| Code | Action |
|---|---|
| `run` 75-105: Load, Resolve, Open and their early returns | `Start`, `StartRefused` |
| `db.Up` 36-60, `inTransaction` 145-175 | `MigrateStep`: `ReadApplied` (once), `BeginNext`, `ExecStatement`, `Record`, `Commit`, `LoopEnds`, and the refusals of the engine |
| `run` 119-136 | `MigrateDone`, `MigrateError`, `RegisterBoot`, `ReadBack`, `ReadBackNotFound` |
| `run` 162-189 | `Listen` (a goroutine for each entry of the list), `ListenFails` |
| `serveUntilShutdown` 237-264 | `BeginDrain`, `DrainDone`, `GracePasses`, `ServeFails` |
| `run` 202-213 and its deferred calls | `WaitDone`, `PollReturn`, `Return` |
| requests and ticks, reduced to their span | `Receive`, `Answer`, `Poll` |
| signals, kills, failing statements, commits whose answer is lost | `Signal`, `StartupCancelled`, `Crash`, `StartupFault`, `MigrateFault` |
| `db.Down` 62-93 | `BeginDown`, `DownStep`, `DownFault`, `DownEnds` |

The record of applied versions is read once, before the loop, and nothing locks
it: two processes that start at once may both go on from the same record. What
keeps them apart is the engine, which refuses an object that exists already and
a version that is recorded already, and waits on an open transaction that has
touched the same (`Waits`, `Applies`, external). No code path of the daemon
calls `Down`: an operator runs it, and it is modelled on a database no process
uses, with a build that knows every version on record. An older build would
revert the last version it knows and leave a gap; `NoGap` does not speak of
that. `Waits` stands for both engines: `OneWriter` is SQLite, and the runs are
Postgres; the proofs cover both.

All processes are taken to share one listen address, so that a second one
fails to listen.

`Configuration` is a function of an environment: the checks of `Load`, `Resolve`
and `Open` (`Accepted`), the `Config` that `Load` returns and the `Pool` it asks
for. Texts are reduced to what the checks ask of them, a URL to its kind, a
token to its length. A duration is an int64 of nanoseconds and wraps
(`Duration`). What main builds the HTTP server with is left out, and so is a
SQLite URL that turns `foreign_keys` off, which `appendPragmas` lets win.

`SchemaVersion` is what a process counts on: one version, moving by one step,
never below a process that has found it high enough. `Daemon` implements it
under the mapping `Version` and the set of processes past `db.Up`.

### Api, with Validation

A request in slot `k` goes through `guards`, `body`, `run`, `header` and `done`.
It is a sequence of fields, one for REST, and each field a list of statements
(`left`): a GraphQL query resolves its fields in any interleaving, and any
other request, tick or deadline may fall between two statements.

| Code | Action |
|---|---|
| `Routes` 16-66, `RequestLogger`, `Recoverer`, `ReadDeadline` | `Arrive`, `Panic` / `Recovered`, `Expire`, `Release` |
| `RateLimit`, `RequireAuth` (authz.go) | `RateLimited`, `Unauthorized`, `Admit`, `Refill` |
| bodies of POST /contracts and /graphql | `ReadBody`, `BodyRefused` |
| `Contracts.Get`, `List`, `Stats`, `Events.Get`, `Query` as handlers and resolvers call them | `ReadStatement` with `Read` |
| `Register` (and its read-back), `Delete` | `Insert`, then `ReadStatement`; `Delete` with `Affected` |
| a statement cut by the context, a failing one, a write whose answer is lost | `FieldInterrupted`, `FieldFault`, `WriteUnanswered` |
| `writeJSON`, `handleGraphQL` 555-569 | `Respond` (`Reply`: null, error, bubbling), `WriteBody` |
| `commit` of the poller | `Commit` |

`truths[f]` collects what each statement of `f` might have answered at each
moment since the request came; `honest` compares the reply with it part by part:
of a contract with its events, the contract and the page; of a page of events,
that its contract was found and the page. `FieldAccepted` and `QueryAccepted`
are the validators, `StoreAccepts` the checks of the store and its driver on
what they let through: `MaxColumn` is the largest number that `events.ledger`
may be compared with (2^31-1 on Postgres, any int64 on SQLite). `Statuses` are
those of the indexer's own answers, not what net/http says to what it cannot
read. The read deadline is taken to be on. `Number` narrows to 32 bits on the GraphQL side, with
`HalfRange` in place of 2^31. GraphQL parsing, and its limits on a document's
depth and length, belong to the library.

## 3. Runs

Passing runs (each within about two minutes):

| Run | Instance | Properties |
|---|---|---|
| `poller_postgres` | 2 goroutines on one contract, pool 2, 3 ledgers of 2 events, pages of 1, 1 deletion, 1 fault incl. cancellations | `IInv`, `NoOrphanEvents`, `SomeoneMoves` |
| `poller_single` | 1 goroutine, pool 1, 4 ledgers of 2 events that may not decode, pages of 2, 1 deletion, 1 fault | `TypeOK`, `NoSilentLoss`, `KeysetOrder`, `GapReportTrue`, `ProgressMonotone`, `TableAppends`, `ImplementsHistory`, `AllPoll` |
| `poller_live` | 2 goroutines on one contract, pool 1, 3 ledgers, poison events, 2 faults, fairness | `EventuallyStored`, `EventuallyExits` |
| `paging` | 5 events of 2 contracts, pages of 1, both orders, 7 ids, 1 deletion each | `TypeOK`, `PageOrder`, `TraversalComplete`, `HeldIdsTrue`, `EndsAtTableEnd`, `ImplementsListing` |
| `live` | 2 contracts of which 1 is asked for, 3 ledgers of 2 events that may not decode, pages of 2, failing calls, fairness | `TypeOK`, `LiveOrder`, `NothingPassedOver`, `ImplementsFeed`, `EventuallyYielded` |
| `daemon` | an old build (2 migrations), a new one (3) and a broken one on one Postgres database, 9 environments of which 1 is good, 1 request slot, 1 signal, crash or fault, 1 run of Down, fairness | `TypeOK`, `NoGap`, `SchemaAsRecorded`, `ServesOnItsSchema`, `PollersHaveHandle`, `CleanExit`, `ImplementsSchemaVersion`, `EventuallyServed`, `SignalledEnds` |
| `api` | 2 slots: REST requests that read and write, with and without a token, with arguments that are refused, with a ledger bound over the column, an unrouted one, GraphQL queries of several fields, against writes; a bucket of 1 with 1 refill, 1 ledger, 1 fault or panic, fairness | `TypeOK`, `AnswersTrue`, `DeletesCounted`, `WritesGuarded`, `InternalHasCause`, `OneAnswer`, `EveryRequestAnswered` |

Runs that show a disagreement between the code and what the repository says of
it (each checks the one property that states the claim):

| Run | Claim | What happens |
|---|---|---|
| `poller_rereg` | progress never ahead of its events (events.go:315) | delete and re-register during a tick: the tick's commit moves the new registration past events the cascade removed |
| `poller_twice` | id ascends with emission order (store/events.go:265) | a repeated bootstrap entry gives two goroutines; with the floor moving between their drains the later INSERT has the earlier events |
| `poller_backlog` | no bad poll stops a contract for good (events.go:97), "a poll returns a page of events" (store/events.go:72) | drain hands the whole window to one INSERT, which refuses it, every time |
| `daemon_unpolled` | the indexer idles until a contract is registered (main.go:194), POST /contracts registers for indexing (indexer/README.md:111) | only the bootstrap list is polled, from the start of the process: a contract registered later is not, until a restart with a longer list |
| `live_filter` | the stream restricts to the contracts asked for (rpc.ts:44) | the filter is dropped after the first page |

Further disagreements are visible in the models and have no run of their own:

- an RPC error that unwraps to a cancellation ends its goroutine for good
  (`Return` of Poller, events.go:112, against 97-99); nothing else does
  (`NoneGivesUp`), and the client main builds has no deadline that could;
- a range rejection answered by a window that has caught up since is a failed
  tick if a ledger closes in between (`GetHealthInWindow`, events.go:305,
  against ADR-036);
- SQLite gives the ids of deleted rows to new ones, so that an id a caller holds
  may fetch another event (`LastId` of EventPaging with `Sequence` false,
  client.ts:335);
- `NextBackoff` compares with `maxBackoff` before the floor, so a poll interval
  above 60 s backs off to 60 s, below the floor that events.go:136 says it
  never drops below; between the two every wait stays (`WaitsStayInReach`);
- `CheckTracked` and `Query`, and the two statements of a field of Api, are not
  atomic: a deletion between them answers an empty page for a contract that is
  no longer tracked, where handlers.go:301-303 and ADR-021 promise a 404, "not
  an empty page". `AnswersTrue` states what the code does keep, that the
  contract was found and that the page was so, each at some moment;
- on Postgres a REST query with a ledger bound over 2^31-1 passes `LedgerBound`
  (validate/events.go:119-131), is refused as a parameter of an INTEGER column
  and answers 500, where handlers.go:240-243 promises "a catalogued 400 rather
  than a store error" (`TooWide`; `OverColumn` is its cause in
  `InternalHasCause`);
- a number of seconds over 2^63/10^9 passes `positiveInt` and wraps when it is
  made a duration (config.go:160, 206), against "safe to use as-is" (config.go:
  29-30): a read timeout that comes out negative switches the read deadline off
  (authz.go:97), and the bound of newHTTPServer falls back to its default
  (`Duration`, `Load`);
- GraphQL narrows ledgers to int32 (graphql.go:381-383) where the comment
  appeals to a bound of uint32: from 2^31 on `Number` is negative. Soroban's
  ledgers are far below; `ApiAssumption` names the condition.

In `poller_single` RPC errors are never cancellations, since one of them would
leave the only goroutine stopped for good.

Bounds and why they are enough. Poller: three or four ledgers let a tick read,
the floor pass it, and a second tick follow; two events a ledger put a page end
inside one; two goroutines give every overlap of two transactions; one deletion
with a registration after it gives the stale tick; one or two faults give a
lost acknowledgement followed by a crash. EventPaging: a page of one puts a
write, a deletion and a registration between any two rows (179,924 states).
LiveStream: pages of two over ledgers of two end inside a ledger as well as at
its end (28,563 states). Daemon: two builds that can migrate are the least that
overlap with different targets, one body of two statements the least that can
stop half-way, and one fault falls at every point of a run; after it every
process may start again (25,722 states). Api: two slots give every pair of
requests between each other's statements, and anything a third could do to the
first two is a write or a commit; one fault is a lost answer or a panic
(361,152 states, two minutes). What the bounds leave out the proofs cover for
the safety properties.

`MaxLedger`, `PerLedger`, `MaxRowBatch`, `MaxDeletes`, `MaxFaults`, `MaxId`,
`MaxDowns`, `MaxRefills` are bounds of the instances and guard the actions they
name. `MaxBatch` (10000 in the code, 9 or 1 here), `BatchSize`, `Limit`,
`PageSize`, `Burst`, `HalfRange`, `MaxColumn`, `MaxInt64`, `HalfInt64` and
`Second` stand for parameters and widths of the program; the last two are scaled
down together, so that a number of seconds that wraps is in reach.
Deadlock is checked in every run: in none can the system stop.

Fairness. `Poller` assumes that a goroutine keeps ticking and its calls return
(`WF Step(p)`), that a cancelled goroutine sees it (`WF Cancelled(p)`: select
and every call take the context), that a supervisor restarts the process
(`WF Startup`) and that main returns from `wg.Wait` (`WF Exit`). The first is
an assumption about the network: `http.DefaultClient` (main.go:138) has no
timeout. Ledgers, operators and faults have no fairness. `LiveStream` assumes
that the consumer keeps taking events and calls return (`WF Stream`). `Daemon`
assumes that a started process takes its next step and a run of Down its own,
that a cancelled goroutine returns, and that someone starts the process again;
nothing is assumed of requests (`SignalledEnds` holds although one may never be
answered: the grace passes), of ticks, signals and faults. `Api` assumes only
that deadlines fire and handlers go on: no statement need return and no body
arrive, and still every request is answered, since every statement takes the
request's context. This needs the read deadline, which a read timeout that wraps
below zero switches off.

## 4. Proofs

Every proof is of the module's `Spec`, for any value of its constants: any sets
of contracts, goroutines, processes and requests, any builds and environments,
any pool, page, batch and bucket sizes, and any bounds. The assumptions are the
named `ASSUME`s: `RpcAssumption`, `StoreAssumption`, `PollerAssumption` for the
polling loop, `ConfigurationAssumption`, `MigrationsAssumption` and
`DaemonAssumption`, `PagingAssumption`,
`RpcAssumption` and `LiveAssumption` for the live path, `ValidationAssumption`
and `ApiAssumption`.

| Module | Theorems |
|---|---|
| `PollerProofs` | `TypeCorrect`: `TypeOK` |
| `PollerSafety` | `Inductive`: `IInv`; `ProgressAccounts`: `NoSilentLoss`; `NoOrphans`: `NoOrphanEvents`; with `Distinct`, `KeysetOrdered`: `KeysetOrder`, `GapReported`: `GapReportTrue`, `ProgressForward`: `ProgressMonotone`, `TableAppended`: `TableAppends`; `FirstAccounts` and, with `MaxDeletes = 0`, `AllAccounted`: `ProgressCovered`; `NoDeadlock`: `SomeoneMoves`; with `PoolMax = 1`, `OneTransaction`; `WaitsStayInReach`; with no cancellation among `RpcErrors`, `NoneGivesUp`: `AllPoll` |
| `PollerRefinement` | `Implementation`: `Spec => ImplementsHistory`, that is `History!Spec` |
| `DaemonProofs` | `Inductive`; `TypeCorrect`; `RecordHasNoGap`: `NoGap`; `RecordIsSchema`: `SchemaAsRecorded`; `ServesItsSchema`: `ServesOnItsSchema`; `PollersKeepHandle`: `PollersHaveHandle`; `CleanExits`: `CleanExit`; `MigrationsImplement`: `ImplementsSchemaVersion`; `OneMigrator`; `MigrationsMove` |
| `EventPagingProofs` | `Inductive`; `TypeCorrect`; `InTheOrderAsked`: `PageOrder`; `NothingMissed`: `TraversalComplete`; `ReachesTableEnd`: `EndsAtTableEnd`; `IdsStayTrue`: `Sequence => []HeldIdsTrue`; `ListingImplementation`: `ImplementsListing`, that is `List!Spec` |
| `LiveStreamProofs` | `Inductive`; `TypeCorrect`; `InEmissionOrder`: `LiveOrder`; `NoneInSilence`: `NothingPassedOver`; `FeedImplementation`: `ImplementsFeed`, that is `Feed!Spec` |
| `ApiProofs` | `Inductive`; `TypeCorrect`; `ToldTheTruth`: `AnswersTrue`; `DeletionsCounted`: `DeletesCounted`; `GuardedWrites`: `WritesGuarded`; `CauseOfInternal`: `InternalHasCause`; `AnsweredOnce`: `OneAnswer` |
| `OrderingProofs` | lemmas only: what `InOrder` and `FirstOf` return |

**Polling loop.** `NoSilentLoss` speaks of the stored progress and is not
inductive: whether a commit keeps it depends on what the tick has in hand. `IInv` (PollerInv) adds
what holds between the calls of a tick. `BeforeInv`: what lies before the drain
is stored or reported. `DrainInv`: what lies between the start of the drain and
its next read is in hand; an event of a ledger that closes later lies after the
read, since no read is ahead of the tip, and an event the floor passes makes
the next read fail, since the node rejects it. `BatchInv`: after the drain, all
of the ledgers up to the highest one kept are in hand. `InsertInv`: after the
insert each of them has a row, inserted by this transaction or committed
before; here `ChainInv` is needed, as ON CONFLICT compares keys and only the
uniqueness of keys on the chain makes a conflict mean "already stored". All of
these are conditioned on the registration (`gen`) the tick has read: a deletion
breaks the tie and sets the tick free, and `stale` records when such a tick
commits. The proof has one lemma per group of actions and one step per
conjunct the group can disturb. `NoOrphans` is a separate small invariant: it
rests on the guard of `Delete` (row locks) and of `Insert` (foreign key).

`KeysetOrder`, `GapReportTrue` and `ProgressMonotone` fail when a contract is
polled twice, as `poller_twice` shows for the first, so they are proved under `Distinct`: no
two goroutines have the same contract. `SoloInv` (PollerInv) then says what a
tick may count on: `RowsBehind`, no row is ahead of its contract's progress;
`ReportsGone`, what was reported lies below the floor, so that no later page
brings it; and `SoloOf`, a tick reads past the progress and past everything
reported, and its transaction is one INSERT that comes after every row of its
contract. A commit then appends on all three counts. Others change none of
this: they write other contracts, or delete this one, which takes progress,
rows and reports together. `TableAppended` is the same facts seen by a reader,
and what the writers of EventPaging and Listing assume.

How much of commit's comment (events.go:315) is true is said by three theorems.
`ProgressAccounts` holds of every contract no stale tick has committed for;
`FirstAccounts` has no such exception, of a contract that has not been deleted
yet, since `StaleInv` ties stale commits to deletions; and `AllAccounted` states
the claim itself, which `poller_rereg` violates with one deletion, for a
database nothing is deleted from.

`SomeoneMoves`, proved by `NoDeadlock`, is about what an open transaction may
wait for (`Waits`): a key another one has inserted, a row another one has
updated. `LockInv` says who
holds anything: rows only after the INSERT, the contract's row only before
`Commit`, and whoever is at `Commit` waits for nobody. So the transaction that
is furthest always moves: one at `Commit` if there is one, else one at
`SetProgress`, since no contract's row is locked then, else any. It covers
several goroutines on one contract, where transactions do block each other, and
rests on every transaction taking its locks in the same order, keys before the
row. A statement is one step of the model: that two INSERTs do not cross key by
key is not part of the theorem; in the code both name their events in emission
order, as the pages bring them.
`OneTransaction` counts open transactions (`PoolInv`) against the pool.

`WaitsStayInReach` and `NoneGivesUp` are about `run`: the first needs the
two cases of an interval below and above `maxBackoff`, the second (`AllPoll`)
that only a cancellation of the context, or an RPC error that looks like one,
ends a goroutine: not a contract that was deleted, nor any other failure.

`Implementation` maps the initial states and then every action. A commit needs
two facts the mapping hides: that the rows of the transaction are of the tick's
batch and that the contract's row is still there once it has been updated
(`TxInv`, proved invariant first), and that the progress after the commit
accounts for the chain, which is `NoSilentLoss` of the next state, from
`Inductive`. The other actions leave what the mapping sees unchanged, but for
the gap report, registration, deletion and the node.

**Daemon.** That the record has no gap looks like a matter of the loop alone,
but each process goes on from a record it read before others wrote to it. `IInv`
says what survives: `UpRun`, a running Up still has to apply an interval that
starts no later than one past the current version, so its next commit either
is the next version or is refused by the engine; `DownRun`, a run of Down holds
the last version in hand, which needs `DownAlone`; and `ProcessOK`, what each
stage of a process has behind it (a Startable environment, an open handle, a
schema at least as high as its build). The refinement maps `Commit` and
`CommitUnanswered` to `Upgrade` or `Downgrade`, `MigrateDone` to `Enter` and
`Return` to `Leave`.

Up takes no lock of its own (migrate.go:44). `OneMigrator` says what the engine's
locks leave of that: `Exclusive`, no two transactions have run statements of the
same migration, and on SQLite no two have run any, since a first statement
waits while another has run one. From it `MigrationsMove`: a transaction that has
written is waited for and waits for nobody, and if none has written there is
nothing to wait for.

**Event paging.** `TraversalComplete` says nothing before the last page, so
`TravOK` says where a traversal stands: at a row it holds (`AtRow`), whose id is
the cursor; everything else it holds comes sooner; it has passed over nothing
that matches but, newest first, what arrived after it began. Ids and chain
order agree within a contract (`TableOK`), which is how the id keyset of the
query stands for the order asked for. `ListingImplementation` uses all of it: the
matches above the cursor are exactly those that remain after what was yielded,
a page is the first of them, and the row read ahead is there exactly when the
page does not exhaust them.

**Live path.** `StreamOK` says that what was yielded and what is in hand comes in
order and before the next read, that nothing wanted was left out behind that
read, and that the read starts where the caller asked or within the chain, so
that a ledger that closes later lies ahead of it. `FeedImplementation` maps
every step with it: what is delivered next comes after all that was, and
whatever was asked for before it lies before the next read and outside what is
left of the page, so it has been delivered.

**Ordering.** The two modules above cut pages from sorted sets. The place of an
element is the number of elements before it; that places are distinct and fill
1 to the cardinality needs cardinalities of subsets and no induction.

**API.** `FieldOK` speaks of a field between two statements: what it holds was
true when it was read (`Midway`), what it has come to is `Honest`, and a 500 has
its cause (`Caused`). It is kept by the other actors because `truths` only grows, and by
the field's own statements because a request knows every truth of the current
database (`Knows`) and reads from it: `ReadAnswers`, which rests on
`SameNumbers` (narrowing changes nothing below `HalfRange`) and
`AcceptedByStore` (the store refuses nothing that the validators accept but a
ledger bound over `MaxColumn`) and `NarrowEnough` (a GraphQL Int never is one).
`CountsOK` counts: writes, tokens left and admitted writes that have not run
never exceed what the bucket has held, and the deletions whose 204 is still to
come are among those that removed a row.

**Only model-checked.** Liveness (`EventuallyStored`, `EventuallyExits`,
`EventuallyServed`, `SignalledEnds`, `EventuallyYielded`,
`EveryRequestAnswered`), which is out of the prover's reach. Every safety
property and every refinement of a passing run is also proved.

## 5. Not modelled

Decoding, parsing, formatting, logging and the data models are pure; what the
models need of them enters as constants (`Decodable`) or as a choice of inputs.
The text split of `SplitStatements` is reduced to a number of statements, and
GraphQL parsing is the library's. Engine limits other than the batch ceiling,
such as bind parameters, are not modelled. `SetStatus` and the status column
are neither called nor read by the program. The SDK's HTTP layer classifies one
response at a time and keeps no state. The contract binding simulates reads
over stellar-sdk. The web app keeps its state in React components and a Next.js
route. Scripts and CI are outside.

## 6. Plan

1. Done: Poller with store and node, its inductive invariant and its refinement
   of IndexedHistory, with proofs; EventPaging; LiveStream.
2. Done: Configuration, Migrations and Daemon, with the abstract SchemaVersion;
   Validation and Api, with GraphQL and the middleware.
3. Done: proofs of every safety property of Poller, Daemon, EventPaging,
   LiveStream and Api; the abstract EventFeed and Listing and their refinements;
   freedom from deadlock of the poller's transactions and of migrations.
4. Next: an abstract specification of what the API answers, implemented by Api;
   the SDK's HTTP classification with its timeout and abort; the web app's
   health indicator, events panel and limiter.
