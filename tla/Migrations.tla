------------------------------ MODULE Migrations ------------------------------
(***************************************************************************)
(* Schema migrations: the files a binary carries (indexer/migrations), and *)
(* Up and Down of indexer/internal/db/migrate.go, run by any number of     *)
(* instances on one database.                                              *)
(*                                                                         *)
(* Each migration runs in a transaction of its own, together with the row  *)
(* of schema_migrations that records it; DDL is transactional on both      *)
(* engines, so nothing of a transaction shows before it commits.           *)
(***************************************************************************)
EXTENDS Integers, FiniteSets, FiniteSetsExt

CONSTANTS
    Instances,      \* the processes that may migrate the database
    Files,          \* Files[i]: the migration files in i's binary
    Statements,     \* Statements[v]: the statements of migration v's body
    OneWriter       \* TRUE for SQLite: one open transaction may write

File == [version : Nat, label : STRING, up : BOOLEAN, blank : BOOLEAN]

ASSUME MigrationsAssumption ==
    /\ \A i \in Instances : Files[i] \subseteq File /\ IsFiniteSet(Files[i])
    /\ \A i \in Instances : \A f \in Files[i] : f.up => Statements[f.version] \in Nat \ {0}
    /\ OneWriter \in BOOLEAN

VARIABLES
    recorded,       \* schema_migrations: the versions that have a row
    schema,         \* the versions whose objects the database has
    mig             \* mig[i]: i's run of Up or Down

migVars == <<recorded, schema, mig>>

-----------------------------------------------------------------------------
\* migrations.For

Versions(files, up) == {f.version : f \in {g \in files : g.up = up}}

\* requireContiguous
Contiguous(versions) == versions = 1 .. Cardinality(versions)

\* Mutant of ParseAccepts: a gap is no error.
ParseAcceptsGap(files) ==
    /\ \A f \in files : f.version > 0 /\ ~f.blank
    /\ \A f, g \in files : f.version = g.version => f.label = g.label
    /\ Versions(files, TRUE) = Versions(files, FALSE)

\* parse: a name parseName refuses stands as version 0.  A version needs one
\* label, an up and a down file, both with a body.
ParseAccepts(files) ==
    /\ \A f \in files : f.version > 0 /\ ~f.blank
    /\ \A f, g \in files : f.version = g.version => f.label = g.label
    /\ Versions(files, TRUE) = Versions(files, FALSE)
    /\ Contiguous(Versions(files, TRUE))

Available(i) == Versions(Files[i], TRUE)

\* Version: the highest version, of a record without gaps.
Dirty == ~Contiguous(recorded)

Version == Cardinality(recorded)

-----------------------------------------------------------------------------
\* One run of Up or Down.

\* st: idle, next (between transactions), tx (statements left to run), record
\* and commit (the end of the transaction), done or failed.  todo: what it
\* still has to apply or revert; at: the version whose transaction is open,
\* done statements of which have run.
Idle == [st |-> "idle", up |-> TRUE, todo |-> {}, at |-> 0, ran |-> 0]

InTx(i) == mig[i].st \in {"tx", "record", "commit"}

\* A body's statements wait for an open transaction that has written the
\* same objects, and on SQLite for any that has written.
Waits(i) ==
    \E j \in Instances \ {i} :
        /\ InTx(j) /\ mig[j].ran > 0
        /\ OneWriter \/ mig[j].at = mig[i].at

\* CREATE must find nothing of its version, DROP what it drops.
Applies(i) == mig[i].up <=> mig[i].at \notin schema

\* Mutant of ReadApplied: every file is to be applied.
ReadNothingApplied(i, up, target) ==
    /\ mig[i].st = "idle"
    /\ mig' = [mig EXCEPT ![i] =
          [st |-> "next", up |-> up, at |-> 0, ran |-> 0, todo |-> Available(i)]]
    /\ UNCHANGED <<recorded, schema>>

\* Up and Down: create schema_migrations if need be, then read it, once.
ReadApplied(i, up, target) ==
    /\ mig[i].st = "idle"
    /\ mig' = [mig EXCEPT ![i] =
          [st |-> "next", up |-> up, at |-> 0, ran |-> 0,
           todo |-> IF up THEN Available(i) \ recorded
                          ELSE {v \in Available(i) \cap recorded : v > target}]]
    /\ UNCHANGED <<recorded, schema>>

\* The loop over the files: ascending for Up, newest first for Down.
BeginNext(i) ==
    /\ mig[i].st = "next"
    /\ mig[i].todo # {}
    /\ LET v == IF mig[i].up THEN Min(mig[i].todo) ELSE Max(mig[i].todo)
       IN  mig' = [mig EXCEPT ![i].st = "tx", ![i].at = v, ![i].ran = 0,
                              ![i].todo = @ \ {v}]
    /\ UNCHANGED <<recorded, schema>>

LoopEnds(i) ==
    /\ mig[i].st = "next"
    /\ mig[i].todo = {}
    /\ mig' = [mig EXCEPT ![i].st = "done"]
    /\ UNCHANGED <<recorded, schema>>

ExecStatement(i) ==
    /\ mig[i].st = "tx"
    /\ ~Waits(i)
    /\ Applies(i)
    /\ mig' = [mig EXCEPT ![i].ran = @ + 1,
          ![i].st = IF mig[i].ran + 1 = Statements[mig[i].at] THEN "record" ELSE "tx"]
    /\ UNCHANGED <<recorded, schema>>

\* The rollback of inTransaction's defer; Up and Down return the error.
MigrationFails(i) ==
    /\ mig' = [mig EXCEPT ![i].st = "failed", ![i].todo = {}]
    /\ UNCHANGED <<recorded, schema>>

\* Mutant of StatementRefused: what exists already counts as applied.
StatementRefusedDone(i) ==
    /\ mig[i].st = "tx"
    /\ ~Waits(i)
    /\ ~Applies(i)
    /\ mig' = [mig EXCEPT ![i].st = "done", ![i].todo = {}]
    /\ UNCHANGED <<recorded, schema>>

\* A statement that finds what it creates, or misses what it drops.
StatementRefused(i) ==
    /\ mig[i].st = "tx"
    /\ ~Waits(i)
    /\ ~Applies(i)
    /\ MigrationFails(i)

\* Mutant of Record: the row is written outside the transaction.
RecordOutside(i) ==
    /\ mig[i].st = "record"
    /\ mig[i].up => mig[i].at \notin recorded
    /\ mig' = [mig EXCEPT ![i].st = "commit"]
    /\ recorded' = IF mig[i].up THEN recorded \union {mig[i].at}
                                ELSE recorded \ {mig[i].at}
    /\ UNCHANGED schema

\* The row: an INSERT its primary key may refuse, or a DELETE.
Record(i) ==
    /\ mig[i].st = "record"
    /\ mig[i].up => mig[i].at \notin recorded
    /\ mig' = [mig EXCEPT ![i].st = "commit"]
    /\ UNCHANGED <<recorded, schema>>

RecordRefused(i) ==
    /\ mig[i].st = "record"
    /\ mig[i].up /\ mig[i].at \in recorded
    /\ MigrationFails(i)

\* What a commit of i's transaction leaves.
Committed(i) ==
    IF mig[i].up
    THEN recorded' = recorded \union {mig[i].at} /\ schema' = schema \union {mig[i].at}
    ELSE recorded' = recorded \ {mig[i].at} /\ schema' = schema \ {mig[i].at}

Commit(i) ==
    /\ mig[i].st = "commit"
    /\ Committed(i)
    /\ mig' = [mig EXCEPT ![i].st = "next"]

\* Faults: a statement, a lock or a connection that fails; a commit whose
\* answer is lost; a process that dies.  The engine rolls back.
MigrationFault(i) ==
    /\ mig[i].st \in {"idle", "next"} \/ InTx(i)
    /\ MigrationFails(i)

CommitUnanswered(i) ==
    /\ mig[i].st = "commit"
    /\ Committed(i)
    /\ mig' = [mig EXCEPT ![i].st = "failed", ![i].todo = {}]

Migrating(i) ==
    \/ BeginNext(i) \/ LoopEnds(i) \/ ExecStatement(i) \/ StatementRefused(i)
    \/ Record(i) \/ RecordRefused(i) \/ Commit(i)

=============================================================================
