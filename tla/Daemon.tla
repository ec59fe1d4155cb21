-------------------------------- MODULE Daemon --------------------------------
(***************************************************************************)
(* The life of pulsar-indexer processes on one database                    *)
(* (indexer/cmd/pulsar-indexer/main.go): configuration, migrations,        *)
(* bootstrap registration, listener, serving, and the ways a process ends. *)
(* Requests and polls are reduced to whether one is in flight; Poller and  *)
(* Api say what they do.                                                   *)
(***************************************************************************)
EXTENDS Migrations, Configuration

CONSTANTS
    Contracts,
    Environments,   \* the environments a process may be started in
    Requests,       \* slots for requests in flight
    MaxFaults,      \* bound: faults, crashes and signals
    MaxDowns        \* bound: runs of Down

ASSUME DaemonAssumption ==
    /\ MaxFaults \in Nat
    /\ MaxDowns \in Nat
    /\ \A env \in Environments :
          /\ Len(env.bootstrap) \in Nat
          /\ DOMAIN env.bootstrap = 1 .. Len(env.bootstrap)
          /\ \A n \in DOMAIN env.bootstrap :
                env.bootstrap[n].wellFormed => env.bootstrap[n].id \in Contracts

VARIABLES
    inst,           \* inst[i]: the process of instance i
    polls,          \* polls[i][c]: the goroutine of c in i
    inFlight,       \* inFlight[i]: the requests i is handling
    tracked,        \* the contracts table
    faults,         \* faults so far
    downs           \* runs of Down so far

procVars == <<inst, polls, inFlight>>
vars == <<recorded, schema, mig, inst, polls, inFlight, tracked, faults, downs>>

Stages == {"off", "migrate", "register", "readback", "serve", "drain", "wait"}

\* env: what it was started in; handle: the database is open; boot: the place
\* in the bootstrap list; listening: the port is bound; cancelled: the root
\* context is; err: run returns an error.  exit and cut are history: how the
\* last run ended, and whether a request was still being handled when it
\* closed the database.
Process == [stage : Stages, env : Environments \union {Unset}, handle : BOOLEAN,
            boot : Nat, listening : BOOLEAN, cancelled : BOOLEAN, err : BOOLEAN,
            exit : {"none", "clean", "error", "killed"}, cut : BOOLEAN]

Stage(i) == inst[i].stage

\* What the program makes of each environment and each build.
Config == [env \in Environments |-> Load(env)]
Startable == {env \in Environments : Accepted(env)}
Runnable == {i \in Instances : ParseAccepts(Files[i])}

Bootstrap(i) == Config[inst[i].env].bootstrap

NoPolls == [c \in Contracts |-> "none"]

Init ==
    /\ recorded = {} /\ schema = {}
    /\ mig = [i \in Instances |-> Idle]
    /\ inst = [i \in Instances |->
          [stage |-> "off", env |-> Unset, handle |-> FALSE, boot |-> 0,
           listening |-> FALSE, cancelled |-> FALSE, err |-> FALSE,
           exit |-> "none", cut |-> FALSE]]
    /\ polls = [i \in Instances |-> NoPolls]
    /\ inFlight = [i \in Instances |-> {}]
    /\ tracked = {}
    /\ faults = 0
    /\ downs = 0

-----------------------------------------------------------------------------
\* Startup.

\* A run of Down keeps every start waiting: nothing in the daemon calls Down,
\* an operator runs it with the binary that knows every recorded version, on
\* a database nobody uses.
Reverting == \E i \in Instances : ~mig[i].up /\ mig[i].st # "idle"

\* run fails before it touches the database, or its first step in db.Up does.
StartRefused(i, env) ==
    /\ Stage(i) = "off"
    /\ env \notin Startable \/ i \notin Runnable
    /\ inst' = [inst EXCEPT ![i].exit = "error", ![i].cut = FALSE]
    /\ UNCHANGED <<recorded, schema, mig, polls, inFlight, tracked, faults, downs>>

Start(i, env) ==
    /\ Stage(i) = "off"
    /\ ~Reverting
    /\ env \in Startable
    /\ i \in Runnable
    /\ inst' = [inst EXCEPT ![i].stage = "migrate", ![i].env = env, ![i].handle = TRUE,
          ![i].exit = "none", ![i].cut = FALSE]
    /\ UNCHANGED <<recorded, schema, mig, polls, inFlight, tracked, faults, downs>>

\* What run's deferred calls do on every return: the transaction in flight is
\* rolled back, the handle is closed under the requests still in flight.
Return(i, exit) ==
    /\ inst' = [inst EXCEPT ![i].stage = "off", ![i].env = Unset, ![i].handle = FALSE,
          ![i].boot = 0, ![i].listening = FALSE, ![i].cancelled = FALSE, ![i].err = FALSE,
          ![i].exit = exit, ![i].cut = inFlight[i] # {}]
    /\ inFlight' = [inFlight EXCEPT ![i] = {}]
    /\ mig' = [mig EXCEPT ![i] = Idle]
    /\ UNCHANGED <<recorded, schema, tracked, downs>>

\* A statement on a cancelled context fails, so startup goes on only without
\* a signal.
Live(i) == ~inst[i].cancelled

MigrateStep(i) ==
    /\ Stage(i) = "migrate"
    /\ \/ LoopEnds(i)
       \/ Live(i) /\ (ReadApplied(i, TRUE, 0) \/ Migrating(i))
    /\ UNCHANGED <<inst, polls, inFlight, tracked, faults, downs>>

\* Mutant of MigrateDone: an error of db.Up is logged, not returned.
MigrateDoneAnyway(i) ==
    /\ Stage(i) = "migrate"
    /\ mig[i].st \in {"done", "failed"}
    /\ inst' = [inst EXCEPT ![i].stage = "register", ![i].boot = 1]
    /\ mig' = [mig EXCEPT ![i] = Idle]
    /\ UNCHANGED <<recorded, schema, polls, inFlight, tracked, faults, downs>>

MigrateDone(i) ==
    /\ Stage(i) = "migrate"
    /\ mig[i].st = "done"
    /\ inst' = [inst EXCEPT ![i].stage = "register", ![i].boot = 1]
    /\ mig' = [mig EXCEPT ![i] = Idle]
    /\ UNCHANGED <<recorded, schema, polls, inFlight, tracked, faults, downs>>

MigrateError(i) ==
    /\ Stage(i) = "migrate"
    /\ mig[i].st = "failed"
    /\ Return(i, "error")
    /\ UNCHANGED <<polls, faults>>

\* Contracts.Register of each entry: the INSERT, then the read back.
Booting(i) == Stage(i) = "register" /\ inst[i].boot <= Len(Bootstrap(i))

RegisterBoot(i) ==
    /\ Booting(i)
    /\ Live(i)
    /\ tracked' = tracked \union {Bootstrap(i)[inst[i].boot]}
    /\ inst' = [inst EXCEPT ![i].stage = "readback"]
    /\ UNCHANGED <<recorded, schema, mig, polls, inFlight, faults, downs>>

ReadBack(i) ==
    /\ Stage(i) = "readback"
    /\ Live(i)
    /\ Bootstrap(i)[inst[i].boot] \in tracked
    /\ inst' = [inst EXCEPT ![i].stage = "register", ![i].boot = @ + 1]
    /\ UNCHANGED <<recorded, schema, mig, polls, inFlight, tracked, faults, downs>>

\* Another instance's API has deleted the contract in between.
ReadBackNotFound(i) ==
    /\ Stage(i) = "readback"
    /\ Bootstrap(i)[inst[i].boot] \notin tracked
    /\ Return(i, "error")
    /\ UNCHANGED <<polls, faults>>

\* A signal during startup: the next statement on the context fails.
StartupCancelled(i) ==
    /\ \/ Stage(i) = "migrate" /\ mig[i].st \notin {"done", "failed"}
             /\ ~(mig[i].st = "next" /\ mig[i].todo = {})
       \/ Booting(i)
       \/ Stage(i) = "readback"
    /\ ~Live(i)
    /\ Return(i, "error")
    /\ UNCHANGED <<polls, faults>>

\* net.Listen, then the goroutines and the HTTP server.  The instances are
\* started on one address.
PortTaken == \E j \in Instances : inst[j].listening

Listen(i) ==
    /\ Stage(i) = "register"
    /\ ~Booting(i)
    /\ ~PortTaken
    /\ inst' = [inst EXCEPT ![i].stage = "serve", ![i].listening = TRUE]
    /\ polls' = [polls EXCEPT ![i] =
          [c \in Contracts |->
              IF \E n \in DOMAIN Bootstrap(i) : Bootstrap(i)[n] = c THEN "idle" ELSE "none"]]
    /\ UNCHANGED <<recorded, schema, mig, inFlight, tracked, faults, downs>>

ListenFails(i) ==
    /\ Stage(i) = "register"
    /\ ~Booting(i)
    /\ PortTaken
    /\ Return(i, "error")
    /\ UNCHANGED <<polls, faults>>

-----------------------------------------------------------------------------
\* Serving.

Receive(i, r) ==
    /\ Stage(i) = "serve"
    /\ r \notin inFlight[i]
    /\ inFlight' = [inFlight EXCEPT ![i] = @ \union {r}]
    /\ UNCHANGED <<recorded, schema, mig, inst, polls, tracked, faults, downs>>

\* A request reads, registers a contract or deletes one, and is answered.
Answer(i, r) ==
    /\ r \in inFlight[i]
    /\ inFlight' = [inFlight EXCEPT ![i] = @ \ {r}]
    /\ \/ tracked' = tracked
       \/ \E c \in Contracts : tracked' \in {tracked \union {c}, tracked \ {c}}
    /\ UNCHANGED <<recorded, schema, mig, inst, polls, faults, downs>>

\* A tick opens its transaction, and ends it one way or the other.
Poll(i, c) ==
    /\ \/ polls[i][c] = "idle" /\ Live(i) /\ polls' = [polls EXCEPT ![i][c] = "tx"]
       \/ polls[i][c] = "tx" /\ polls' = [polls EXCEPT ![i][c] = "idle"]
    /\ UNCHANGED <<recorded, schema, mig, inst, inFlight, tracked, faults, downs>>

-----------------------------------------------------------------------------
\* The ways out.

\* serveUntilShutdown on ctx.Done: the listener closes, what is in flight goes on.
BeginDrain(i) ==
    /\ Stage(i) = "serve"
    /\ ~Live(i)
    /\ inst' = [inst EXCEPT ![i].stage = "drain", ![i].listening = FALSE]
    /\ UNCHANGED <<recorded, schema, mig, polls, inFlight, tracked, faults, downs>>

DrainDone(i) ==
    /\ Stage(i) = "drain"
    /\ inFlight[i] = {}
    /\ inst' = [inst EXCEPT ![i].stage = "wait"]
    /\ UNCHANGED <<recorded, schema, mig, polls, inFlight, tracked, faults, downs>>

\* Mutants of GracePasses: Shutdown's error is dropped; Shutdown has no deadline.
GracePassesClean(i) ==
    /\ Stage(i) = "drain"
    /\ inFlight[i] # {}
    /\ inst' = [inst EXCEPT ![i].stage = "wait"]
    /\ UNCHANGED <<recorded, schema, mig, polls, inFlight, tracked, faults, downs>>

GracePassesNever(i) == Stage(i) = "drain" /\ FALSE /\ UNCHANGED vars

\* shutdownGrace: Shutdown returns its context's error.
GracePasses(i) ==
    /\ Stage(i) = "drain"
    /\ inFlight[i] # {}
    /\ inst' = [inst EXCEPT ![i].stage = "wait", ![i].err = TRUE]
    /\ UNCHANGED <<recorded, schema, mig, polls, inFlight, tracked, faults, downs>>

\* run's cancel after serveUntilShutdown reaches the pollers through their
\* context, as the signal does.
PollReturn(i, c) ==
    /\ polls[i][c] # "none"
    /\ ~Live(i)
    /\ polls' = [polls EXCEPT ![i][c] = "none"]
    /\ UNCHANGED <<recorded, schema, mig, inst, inFlight, tracked, faults, downs>>

\* Mutant of WaitDone: the WaitGroup is not waited for.
WaitDoneAtOnce(i) ==
    /\ Stage(i) = "wait"
    /\ Return(i, IF inst[i].err THEN "error" ELSE "clean")
    /\ UNCHANGED <<polls, faults>>

\* wg.Wait, and run returns what serveUntilShutdown did.
WaitDone(i) ==
    /\ Stage(i) = "wait"
    /\ polls[i] = NoPolls
    /\ Return(i, IF inst[i].err THEN "error" ELSE "clean")
    /\ UNCHANGED <<polls, faults>>

-----------------------------------------------------------------------------
\* The environment: signals, faults, an operator.

Fault == faults < MaxFaults /\ faults' = faults + 1

\* The first signal; NotifyContext swallows the ones that follow.
Signal(i) ==
    /\ Fault
    /\ Stage(i) # "off"
    /\ Live(i)
    /\ inst' = [inst EXCEPT ![i].cancelled = TRUE]
    /\ UNCHANGED <<recorded, schema, mig, polls, inFlight, tracked, downs>>

\* Serve returns an error: the listener is closed, run cancels the pollers.
ServeFails(i) ==
    /\ Fault
    /\ Stage(i) = "serve"
    /\ inst' = [inst EXCEPT ![i].stage = "wait", ![i].listening = FALSE,
          ![i].cancelled = TRUE, ![i].err = TRUE]
    /\ UNCHANGED <<recorded, schema, mig, polls, inFlight, tracked, downs>>

MigrateFault(i) ==
    /\ Fault
    /\ Stage(i) = "migrate"
    /\ MigrationFault(i) \/ CommitUnanswered(i)
    /\ UNCHANGED <<inst, polls, inFlight, tracked, downs>>

\* A statement of the bootstrap registration fails, or listening does.
StartupFault(i) ==
    /\ Fault
    /\ Stage(i) \in {"register", "readback"}
    /\ Return(i, "error")
    /\ UNCHANGED polls

Crash(i) ==
    /\ Fault
    /\ Stage(i) # "off"
    /\ Return(i, "killed")
    /\ polls' = [polls EXCEPT ![i] = NoPolls]

\* Down, with a binary that knows every recorded version and no daemon up.
BeginDown(i, target) ==
    /\ downs < MaxDowns
    /\ \A j \in Instances : Stage(j) = "off"
    /\ i \in Runnable
    /\ recorded \subseteq Available(i)
    /\ ~Reverting
    /\ ReadApplied(i, FALSE, target)
    /\ downs' = downs + 1
    /\ UNCHANGED <<inst, polls, inFlight, tracked, faults>>

DownStep(i) ==
    /\ ~mig[i].up
    /\ Migrating(i)
    /\ UNCHANGED <<inst, polls, inFlight, tracked, faults, downs>>

DownFault(i) ==
    /\ Fault
    /\ ~mig[i].up
    /\ MigrationFault(i) \/ CommitUnanswered(i)
    /\ UNCHANGED <<inst, polls, inFlight, tracked, downs>>

DownEnds(i) ==
    /\ ~mig[i].up
    /\ mig[i].st \in {"done", "failed"}
    /\ mig' = [mig EXCEPT ![i] = Idle]
    /\ UNCHANGED <<recorded, schema, inst, polls, inFlight, tracked, faults, downs>>

-----------------------------------------------------------------------------
\* What a process does of itself once started.
Run(i) ==
    \/ MigrateStep(i) \/ MigrateDone(i) \/ MigrateError(i)
    \/ RegisterBoot(i) \/ ReadBack(i) \/ ReadBackNotFound(i) \/ StartupCancelled(i)
    \/ Listen(i) \/ ListenFails(i)
    \/ BeginDrain(i) \/ DrainDone(i) \/ GracePasses(i) \/ WaitDone(i)

Faults(i) ==
    \/ Signal(i) \/ ServeFails(i) \/ MigrateFault(i) \/ StartupFault(i)
    \/ Crash(i) \/ DownFault(i)

Next ==
    \E i \in Instances :
        \/ \E env \in Environments : StartRefused(i, env) \/ Start(i, env)
        \/ Run(i)
        \/ \E r \in Requests : Receive(i, r) \/ Answer(i, r)
        \/ \E c \in Contracts : Poll(i, c) \/ PollReturn(i, c)
        \/ Faults(i)
        \/ \E target \in 0 .. Version : BeginDown(i, target)
        \/ DownStep(i) \/ DownEnds(i)

\* A process takes its next step, a cancelled goroutine returns, and whoever
\* runs the daemon (a supervisor, an operator) starts it again.  Nothing is
\* assumed of requests, ticks, signals and faults.
Fairness ==
    \A i \in Instances :
        /\ WF_vars(Run(i))
        /\ \A c \in Contracts : WF_vars(PollReturn(i, c))
        /\ WF_vars(\E env \in Startable : Start(i, env))
        /\ WF_vars(DownStep(i) \/ DownEnds(i))

Spec == Init /\ [][Next]_vars /\ Fairness

-----------------------------------------------------------------------------
\* Properties.

Migration == [st : {"idle", "next", "tx", "record", "commit", "done", "failed"},
              up : BOOLEAN, todo : SUBSET Nat, at : Nat, ran : Nat]

TypeOK ==
    /\ recorded \in SUBSET Nat /\ IsFiniteSet(recorded)
    /\ schema \in SUBSET Nat
    /\ mig \in [Instances -> Migration]
    /\ inst \in [Instances -> Process]
    /\ polls \in [Instances -> [Contracts -> {"none", "idle", "tx"}]]
    /\ inFlight \in [Instances -> SUBSET Requests]
    /\ tracked \in SUBSET Contracts
    /\ faults \in Nat
    /\ downs \in Nat

\* However many instances, of whichever builds, migrate, crash or lose answers
\* on one database, the versions on record are 1 to some n: Version
\* (migrate.go) never meets ErrDirtySchema.  Down is run as BeginDown says, with
\* a binary that knows every recorded version and no daemon up; one that knows
\* fewer would take a version off below others.
NoGap == ~Dirty

\* The record and the schema cannot disagree (the comment of inTransaction),
\* at whatever point of a migration a process fails or dies.
SchemaAsRecorded == schema = recorded

\* The stages in which the process takes the schema as migrated.
Uses(i) == Stage(i) \in {"register", "readback", "serve", "drain", "wait"}

\* A process past db.Up has every object its build knows of, whoever put it
\* there and whatever the other instances are doing to the database.
ServesOnItsSchema == \A i \in Instances : Uses(i) => Available(i) \subseteq schema

\* The migrations of all instances implement the one schema version a process
\* counts on: one step up or down at a time, never below it under a process.
Abstract == INSTANCE SchemaVersion WITH
    Users <- Instances,
    Needs <- [i \in Instances |-> Cardinality(Available(i))],
    version <- Version,
    using <- {i \in Instances : Uses(i)}

ImplementsSchemaVersion == Abstract!Spec

\* No goroutine is left in a transaction on a closed database: "main waits
\* for all of them before exiting so no goroutine is torn down
\* mid-transaction" (main.go).
PollersHaveHandle ==
    \A i \in Instances, c \in Contracts : polls[i][c] # "none" => inst[i].handle

\* A process that reports success (exit status 0) has cut no request off.
CleanExit == \A i \in Instances : inst[i].exit = "clean" => ~inst[i].cut

\* After the last fault some process comes to serve and goes on serving:
\* instances that migrate at once, half-done migrations and lost answers
\* never leave a database nobody can start on.
EventuallyServed == <>[](\E i \in Instances : Stage(i) = "serve")

\* A process that was signalled ends, whatever its requests and its pollers
\* are doing.
SignalledEnds ==
    \A i \in Instances : inst[i].cancelled ~> Stage(i) = "off"

\* A contract that stays registered under a running daemon is polled: "POST
\* /contracts ... Register a contract for indexing" (indexer/README.md) and
\* "the indexer will idle until a contract is registered" (main.go).
RegisteredIsPolled ==
    \A i \in Instances, c \in Contracts :
        (Stage(i) = "serve" /\ c \in tracked)
            ~> (polls[i][c] # "none" \/ c \notin tracked \/ Stage(i) # "serve")

=============================================================================
