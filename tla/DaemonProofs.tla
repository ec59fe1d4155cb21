---------------------------- MODULE DaemonProofs ----------------------------
(***************************************************************************)
(* Proofs about Daemon for every value of its constants: any number of     *)
(* instances, of any builds, statements, environments, faults and runs of  *)
(* Down.                                                                   *)
(***************************************************************************)
EXTENDS Daemon, FiniteSetTheorems, TLAPS

\* The last migration in i's binary.
LastOf(i) == Cardinality(Available(i))

\* The record has no gaps, and is the schema.
RecordOK ==
    /\ Version \in Nat
    /\ recorded = 1 .. Version
    /\ schema = recorded

\* What a run of Up still has to apply starts no later than the next version,
\* even when others have applied some of it since the record was read.
UpRun(i) ==
    /\ mig[i].st = "next" => \E a \in 1 .. (Version + 1) : mig[i].todo = a .. LastOf(i)
    /\ InTx(i) => /\ mig[i].at \in 1 .. (Version + 1)
                  /\ mig[i].at <= LastOf(i)
                  /\ mig[i].todo = (mig[i].at + 1) .. LastOf(i)
    /\ mig[i].st = "done" => LastOf(i) <= Version

\* A run of Down takes off the last version.
DownRun(i) ==
    /\ mig[i].st = "next" => \E t \in 0 .. Version : mig[i].todo = (t + 1) .. Version
    /\ InTx(i) => /\ mig[i].at = Version
                  /\ Version > 0
                  /\ \E t \in 0 .. (Version - 1) : mig[i].todo = (t + 1) .. (Version - 1)

RunOK(i) ==
    /\ mig[i].up \/ mig[i].st # "idle"
    /\ mig[i].up => mig[i].st = "idle" \/ Stage(i) = "migrate"
    /\ mig[i].st # "idle" => i \in Runnable
    /\ mig[i].up => UpRun(i)
    /\ ~mig[i].up => DownRun(i)

\* Down runs alone.
DownAlone ==
    \A i \in Instances : ~mig[i].up =>
        \A j \in Instances : Stage(j) = "off" /\ (j # i => mig[j].up)

\* A process runs in an environment it accepts, with a build it can parse.
ProcessOK(i) ==
    /\ Stage(i) # "off" =>
           inst[i].env \in Startable /\ i \in Runnable /\ inst[i].handle
    /\ Stage(i) = "readback" => inst[i].boot \in DOMAIN Bootstrap(i)
    /\ Stage(i) = "register" => inst[i].boot > 0
    /\ Uses(i) => LastOf(i) <= Version
    /\ Stage(i) \notin {"serve", "drain", "wait"} => polls[i] = NoPolls
    /\ Stage(i) = "wait" /\ ~inst[i].err => inFlight[i] = {}
    /\ inst[i].exit = "clean" => ~inst[i].cut

\* The inductive invariant.
IInv ==
    /\ TypeOK
    /\ RecordOK
    /\ DownAlone
    /\ \A i \in Instances : RunOK(i) /\ ProcessOK(i)

-----------------------------------------------------------------------------
\* Intervals.

LEMMA IntervalSize ==
    ASSUME NEW n \in Nat
    PROVE  IsFiniteSet(1 .. n) /\ Cardinality(1 .. n) = n
BY FS_Interval

LEMMA VersionIs ==
    ASSUME NEW n \in Nat, recorded' = 1 .. n
    PROVE  Version' = n
BY IntervalSize DEF Version

LEMMA IntervalMin ==
    ASSUME NEW a \in Int, NEW b \in Int, a .. b # {}
    PROVE  Min(a .. b) = a /\ (a .. b) \ {a} = (a + 1) .. b
<1>1. a \in a .. b /\ \A y \in a .. b : a <= y
  OBVIOUS
<1>2. \A x \in a .. b : (\A y \in a .. b : x <= y) => x = a
  BY <1>1
<1>3. QED
  BY <1>1, <1>2 DEF Min

LEMMA IntervalMax ==
    ASSUME NEW a \in Int, NEW b \in Int, a .. b # {}
    PROVE  Max(a .. b) = b /\ (a .. b) \ {b} = a .. (b - 1)
<1>1. b \in a .. b /\ \A y \in a .. b : b >= y
  OBVIOUS
<1>2. \A x \in a .. b : (\A y \in a .. b : x >= y) => x = b
  BY <1>1
<1>3. QED
  BY <1>1, <1>2 DEF Max

\* A build that parses has the versions 1 to some n.
LEMMA Builds ==
    ASSUME NEW i \in Instances
    PROVE  /\ IsFiniteSet(Available(i))
           /\ LastOf(i) \in Nat
           /\ i \in Runnable => Available(i) = 1 .. LastOf(i)
<1> DEFINE ups == {g \in Files[i] : g.up = TRUE}
           f == [g \in ups |-> g.version]
<1>1. IsFiniteSet(ups)
  BY MigrationsAssumption, FS_Subset, ups \in SUBSET Files[i]
<1>2. f \in Surjection(ups, Available(i))
  BY DEF Surjection, Available, Versions
<1>3. IsFiniteSet(Available(i))
  BY <1>1, <1>2, FS_Surjection
<1>4. QED
  BY <1>3, FS_CardinalityType DEF LastOf, Runnable, ParseAccepts, Contiguous, Available

-----------------------------------------------------------------------------
\* One step of a run of Up or Down.

\* What it does to its own run, and to the record.
RunStep(i) ==
    /\ mig' \in [Instances -> Migration]
    /\ \A j \in Instances \ {i} : mig'[j] = mig[j]
    /\ mig'[i].up = mig[i].up
    /\ mig'[i].st # "idle"
    /\ RecordOK'
    /\ mig[i].up => UpRun(i)' /\ Version' \in {Version, Version + 1}
    /\ ~mig[i].up => /\ DownRun(i)'
                     /\ Version' = Version \/ (Version > 0 /\ Version' = Version - 1)

LEMMA VersionKept ==
    ASSUME UNCHANGED <<recorded, schema>>
    PROVE  Version' = Version /\ (RecordOK => RecordOK')
BY DEF Version, RecordOK

\* A step of i's run, as its fields tell it.
Moves(i, st, at, todo) ==
    /\ mig' \in [Instances -> Migration]
    /\ \A j \in Instances \ {i} : mig'[j] = mig[j]
    /\ mig'[i].up = mig[i].up
    /\ mig'[i].st = st
    /\ mig'[i].at = at
    /\ mig'[i].todo = todo

\* A step that opens no transaction and commits none.
LEMMA RunMoves ==
    ASSUME IInv, NEW i \in Instances, UNCHANGED <<recorded, schema>>,
           NEW st \in {"done", "failed", "record", "commit", "tx"}, NEW todo,
           Moves(i, st, mig[i].at, todo),
           st \in {"record", "commit", "tx"} => InTx(i) /\ todo = mig[i].todo,
           st = "done" => mig[i].st = "next" /\ mig[i].todo = {}
    PROVE  RunStep(i)
<1>1. RecordOK' /\ Version' = Version /\ Version \in Nat /\ LastOf(i) \in Nat
  BY VersionKept, Builds DEF IInv, RecordOK
<1>2. ASSUME mig[i].up PROVE UpRun(i)'
  <2>1. UpRun(i)
    BY <1>2 DEF IInv, RunOK
  <2>2. CASE st = "done"
    <3>1. PICK a \in 1 .. (Version + 1) : mig[i].todo = a .. LastOf(i)
      BY <2>1, <2>2 DEF UpRun
    <3>2. LastOf(i) <= Version
      BY <1>1, <2>2, <3>1
    <3>3. QED
      BY <1>1, <2>2, <3>2 DEF UpRun, InTx, Moves
  <2>3. CASE st # "done"
    BY <1>1, <2>1, <2>3 DEF UpRun, InTx, Moves
  <2>4. QED
    BY <2>2, <2>3
<1>3. ASSUME ~mig[i].up PROVE DownRun(i)'
  BY <1>1, <1>3 DEF IInv, RunOK, DownRun, InTx, Moves
<1>4. QED
  BY <1>1, <1>2, <1>3 DEF RunStep, Moves

LEMMA FailsStep ==
    ASSUME IInv, NEW i \in Instances, MigrationFails(i)
    PROVE  RunStep(i)
<1>1. mig' \in [Instances -> Migration]
  BY ZenonT(60) DEF IInv, TypeOK, MigrationFails, Migration
<1>2. Moves(i, "failed", mig[i].at, {})
  BY <1>1 DEF IInv, TypeOK, MigrationFails, Moves
<1>3. QED
  BY <1>2, RunMoves DEF MigrationFails

\* The version BeginNext takes.
LEMMA BeginNextMoves ==
    ASSUME IInv, NEW i \in Instances, BeginNext(i), NEW v \in Nat,
           mig[i].up => Min(mig[i].todo) = v, ~mig[i].up => Max(mig[i].todo) = v
    PROVE  Moves(i, "tx", v, mig[i].todo \ {v})
<1>1. mig' = [mig EXCEPT ![i].st = "tx", ![i].at = v, ![i].ran = 0, ![i].todo = @ \ {v}]
  BY DEF BeginNext
<1> DEFINE todo == mig[i].todo \ {v}
           m == [mig[i] EXCEPT !.st = "tx", !.at = v, !.ran = 0, !.todo = todo]
<1>2. todo \in SUBSET Nat
  BY DEF IInv, TypeOK, Migration
<1>3. mig' = [mig EXCEPT ![i] = m]
  BY <1>1 DEF IInv, TypeOK
<1> HIDE DEF todo
<1>4. m \in Migration
  BY ZenonT(60), <1>2 DEF IInv, TypeOK, Migration
<1>5. mig' \in [Instances -> Migration]
  BY <1>3, <1>4 DEF IInv, TypeOK
<1>6. QED
  BY <1>1, <1>5 DEF IInv, TypeOK, Moves

LEMMA BeginNextStep ==
    ASSUME IInv, NEW i \in Instances, BeginNext(i)
    PROVE  RunStep(i)
<1>1. mig[i].st = "next" /\ mig[i].todo # {} /\ mig[i].up \in BOOLEAN
  BY DEF BeginNext, IInv, TypeOK, Migration
<1>2. RecordOK' /\ Version' = Version /\ Version \in Nat /\ LastOf(i) \in Nat
  BY VersionKept, Builds DEF BeginNext, IInv, RecordOK
<1>3. CASE mig[i].up
  <2>1. PICK a \in 1 .. (Version + 1) : mig[i].todo = a .. LastOf(i)
    BY <1>1, <1>3 DEF IInv, RunOK, UpRun
  <2>2. Min(mig[i].todo) = a /\ mig[i].todo \ {a} = (a + 1) .. LastOf(i) /\ a <= LastOf(i)
    BY <1>1, <1>2, <2>1, IntervalMin
  <2>3. Moves(i, "tx", a, (a + 1) .. LastOf(i))
    BY <1>2, <1>3, <2>2, BeginNextMoves
  <2>4. UpRun(i)'
    BY <1>2, <2>2, <2>3 DEF UpRun, InTx, Moves
  <2>5. QED
    BY <1>2, <1>3, <2>3, <2>4 DEF RunStep, Moves
<1>4. CASE ~mig[i].up
  <2>1. PICK t \in 0 .. Version : mig[i].todo = (t + 1) .. Version
    BY <1>1, <1>4 DEF IInv, RunOK, DownRun
  <2>2. /\ Max(mig[i].todo) = Version
        /\ mig[i].todo \ {Version} = (t + 1) .. (Version - 1)
        /\ t \in 0 .. (Version - 1)
    BY <1>1, <1>2, <2>1, IntervalMax
  <2>3. Moves(i, "tx", Version, (t + 1) .. (Version - 1))
    BY <1>2, <1>4, <2>2, BeginNextMoves
  <2>4. DownRun(i)'
    BY <1>2, <2>2, <2>3 DEF DownRun, InTx, Moves
  <2>5. QED
    BY <1>2, <1>4, <2>3, <2>4 DEF RunStep, Moves
<1>5. QED
  BY <1>1, <1>3, <1>4

LEMMA LoopEndsStep ==
    ASSUME IInv, NEW i \in Instances, LoopEnds(i)
    PROVE  RunStep(i)
<1>1. Moves(i, "done", mig[i].at, mig[i].todo)
  BY DEF IInv, TypeOK, Migration, LoopEnds, Moves
<1>2. QED
  BY <1>1, RunMoves DEF LoopEnds

LEMMA StatementStep ==
    ASSUME IInv, NEW i \in Instances, ExecStatement(i) \/ Record(i)
    PROVE  RunStep(i)
<1>1. CASE ExecStatement(i)
  <2>1. PICK st \in {"tx", "record"} :
            mig' = [mig EXCEPT ![i].ran = @ + 1, ![i].st = st]
    BY <1>1 DEF ExecStatement
  <2> DEFINE r == mig[i].ran + 1
             m == [mig[i] EXCEPT !.ran = r, !.st = st]
  <2>r. r \in Nat
    BY DEF IInv, TypeOK, Migration
  <2>3. mig' = [mig EXCEPT ![i] = m]
    BY <2>1 DEF IInv, TypeOK
  <2> HIDE DEF r
  <2>2. m \in Migration /\ m.st = st /\ m.at = mig[i].at /\ m.todo = mig[i].todo
        /\ m.up = mig[i].up
    <3>1. mig[i] \in Migration
      BY DEF IInv, TypeOK
    <3>2. m \in Migration
      BY ZenonT(60), <2>r, <3>1 DEF Migration
    <3>3. m.st = st /\ m.at = mig[i].at /\ m.todo = mig[i].todo /\ m.up = mig[i].up
      BY ZenonT(60), <3>1 DEF Migration
    <3>4. QED
      BY <3>2, <3>3
  <2> HIDE DEF m
  <2>4. Moves(i, st, mig[i].at, mig[i].todo)
    BY <2>2, <2>3 DEF IInv, TypeOK, Moves
  <2>5. QED
    BY <1>1, <2>4, RunMoves DEF ExecStatement, InTx
<1>2. CASE Record(i)
  <2>1. mig' \in [Instances -> Migration]
    BY ZenonT(60), <1>2 DEF Record, IInv, TypeOK, Migration
  <2>2. Moves(i, "commit", mig[i].at, mig[i].todo)
    BY <1>2, <2>1 DEF Record, IInv, TypeOK, Moves
  <2>3. QED
    BY <1>2, <2>2, RunMoves DEF Record, InTx
<1>3. QED
  BY <1>1, <1>2

LEMMA CommitStep ==
    ASSUME IInv, NEW i \in Instances, Commit(i) \/ CommitUnanswered(i)
    PROVE  RunStep(i)
<1>1. /\ mig[i].st = "commit" /\ InTx(i) /\ Committed(i) /\ mig[i].up \in BOOLEAN
  BY DEF IInv, TypeOK, Migration, Commit, CommitUnanswered, InTx
<1>2. PICK st, todo :
          /\ st \in {"next", "failed"}
          /\ Moves(i, st, mig[i].at, todo)
          /\ st = "next" => todo = mig[i].todo
  <2>1. CASE Commit(i)
    <3>1. mig' \in [Instances -> Migration]
      BY ZenonT(60), <2>1 DEF Commit, IInv, TypeOK, Migration
    <3>2. Moves(i, "next", mig[i].at, mig[i].todo)
      BY <2>1, <3>1 DEF Commit, IInv, TypeOK, Moves
    <3>3. QED
      BY <3>2
  <2>2. CASE CommitUnanswered(i)
    <3>1. mig' \in [Instances -> Migration]
      <4>1. mig' = [mig EXCEPT ![i].st = "failed", ![i].todo = {}]
        BY <2>2 DEF CommitUnanswered
      <4>2. QED
        BY ZenonT(60), <4>1 DEF IInv, TypeOK, Migration
    <3>2. Moves(i, "failed", mig[i].at, {})
      BY <2>2, <3>1 DEF CommitUnanswered, IInv, TypeOK, Moves
    <3>3. QED
      BY <3>2
  <2>3. QED
    BY <2>1, <2>2
<1>3. RecordOK /\ Version \in Nat /\ LastOf(i) \in Nat
  BY Builds DEF IInv, RecordOK
<1>4. CASE mig[i].up
  <2> DEFINE n == IF mig[i].at = Version + 1 THEN Version + 1 ELSE Version
  <2>1. /\ mig[i].at \in 1 .. (Version + 1) /\ mig[i].at <= LastOf(i)
        /\ mig[i].todo = (mig[i].at + 1) .. LastOf(i)
    BY <1>1, <1>4 DEF IInv, RunOK, UpRun
  <2> HIDE DEF n
  <2>2. recorded' = recorded \union {mig[i].at} /\ schema' = schema \union {mig[i].at}
    BY <1>1, <1>4 DEF Committed
  <2>3. n \in Nat /\ recorded' = 1 .. n /\ schema' = recorded'
    BY <1>3, <2>1, <2>2 DEF RecordOK, n
  <2>4. Version' = n
    BY <2>3, VersionIs
  <2>5. RecordOK'
    BY <2>3, <2>4 DEF RecordOK
  <2>6. /\ Version' \in {Version, Version + 1}
        /\ mig[i].at + 1 \in 1 .. (Version' + 1)
    BY <1>3, <2>1, <2>4 DEF n
  <2>7. UpRun(i)'
    BY <1>2, <2>1, <2>6 DEF UpRun, InTx, Moves
  <2>8. QED
    BY <1>2, <1>4, <2>5, <2>6, <2>7 DEF RunStep, Moves
<1>5. CASE ~mig[i].up
  <2>1. PICK t \in 0 .. (Version - 1) :
          mig[i].at = Version /\ Version > 0 /\ mig[i].todo = (t + 1) .. (Version - 1)
    BY <1>1, <1>5 DEF IInv, RunOK, DownRun
  <2>2. recorded' = recorded \ {mig[i].at} /\ schema' = schema \ {mig[i].at}
    BY <1>1, <1>5 DEF Committed
  <2>3. Version - 1 \in Nat /\ recorded' = 1 .. (Version - 1) /\ schema' = recorded'
    BY <1>3, <2>1, <2>2 DEF RecordOK
  <2>4. Version' = Version - 1
    BY <2>3, VersionIs
  <2>5. RecordOK'
    BY <2>3, <2>4 DEF RecordOK
  <2>6. DownRun(i)'
    BY <1>2, <1>3, <2>1, <2>4 DEF DownRun, InTx, Moves
  <2>7. QED
    BY <1>2, <1>5, <2>1, <2>4, <2>5, <2>6 DEF RunStep, Moves
<1>6. QED
  BY <1>1, <1>4, <1>5

LEMMA MigratingStep ==
    ASSUME IInv, NEW i \in Instances,
           Migrating(i) \/ MigrationFault(i) \/ CommitUnanswered(i)
    PROVE  RunStep(i)
BY FailsStep, BeginNextStep, LoopEndsStep, StatementStep, CommitStep
DEF Migrating, StatementRefused, RecordRefused, MigrationFault

LEMMA ReadAppliedStep ==
    ASSUME IInv, NEW i \in Runnable, ReadApplied(i, TRUE, 0)
    PROVE  RunStep(i)
<1> DEFINE todo == Available(i) \ recorded
           m == [st |-> "next", up |-> TRUE, at |-> 0, ran |-> 0, todo |-> todo]
<1>1. i \in Instances
  BY DEF Runnable
<1>2. mig[i].up = TRUE
  BY <1>1 DEF IInv, RunOK, ReadApplied, TypeOK, Migration
<1>3. mig' = [mig EXCEPT ![i] = m] /\ UNCHANGED <<recorded, schema>>
  BY DEF ReadApplied
<1>4. RecordOK' /\ RecordOK /\ Version' = Version /\ Version \in Nat /\ LastOf(i) \in Nat
  BY <1>1, <1>3, VersionKept, Builds DEF IInv, RecordOK
<1>5. todo = (Version + 1) .. LastOf(i)
  BY <1>1, <1>4, Builds DEF RecordOK
<1>6. todo \in SUBSET Nat
  BY <1>4, <1>5
<1> HIDE DEF todo
<1>7. m \in Migration
  BY <1>6 DEF Migration
<1>8. mig' \in [Instances -> Migration] /\ mig'[i] = m
      /\ \A j \in Instances \ {i} : mig'[j] = mig[j]
  BY <1>1, <1>3, <1>7 DEF IInv, TypeOK
<1>9. UpRun(i)'
  BY <1>4, <1>5, <1>8 DEF UpRun, InTx
<1>10. mig'[i].up = TRUE /\ mig'[i].st = "next"
  BY <1>8
<1>11. mig[i].up /\ mig'[i].up = mig[i].up
  BY <1>2, <1>10
<1>12. mig'[i].st # "idle" /\ Version' \in {Version, Version + 1}
  BY <1>4, <1>10
<1>13. QED
  BY <1>4, <1>8, <1>9, <1>11, <1>12, Zenon DEF RunStep

-----------------------------------------------------------------------------
\* The steps of Next.

LEMMA RecordTypes ==
    ASSUME RecordOK
    PROVE  recorded \in SUBSET Nat /\ IsFiniteSet(recorded) /\ schema \in SUBSET Nat
BY IntervalSize DEF RecordOK

\* A step of one run, which no other run and no process is disturbed by.
LEMMA RunKeeps ==
    ASSUME IInv, NEW i \in Runnable, RunStep(i), mig[i].up => Stage(i) = "migrate",
           UNCHANGED <<inst, polls, inFlight, tracked, downs>>, faults' \in Nat
    PROVE  IInv'
<1>1. i \in Instances
  BY DEF Runnable
<1>2. RecordOK' /\ Version \in Nat /\ Version' \in Nat
  BY DEF RunStep, IInv, RecordOK
<1>3. \A j \in Instances : mig'[j].up = mig[j].up /\ mig[j].up \in BOOLEAN
  BY DEF RunStep, IInv, TypeOK, Migration
<1>4. TypeOK'
  <2>1. recorded' \in SUBSET Nat /\ IsFiniteSet(recorded') /\ schema' \in SUBSET Nat
    BY <1>2, IntervalSize DEF RecordOK
  <2>2. QED
    BY <2>1 DEF RunStep, IInv, TypeOK
<1>5. DownAlone'
  BY <1>3 DEF DownAlone, IInv, Stage
<1>6. ASSUME NEW j \in Instances PROVE RunOK(j)' /\ ProcessOK(j)'
  <2>1. RunOK(j) /\ ProcessOK(j) /\ LastOf(j) \in Nat
    BY Builds DEF IInv
  <2>2. CASE mig[i].up
    <3>1. Version <= Version' /\ Stage(i) = "migrate"
      BY <1>2, <2>2 DEF RunStep
    <3>2. mig[j].up
      BY <1>1, <1>3, <3>1 DEF IInv, DownAlone
    <3>3. UpRun(j)'
      BY <1>2, <2>1, <2>2, <3>1, <3>2 DEF RunStep, RunOK, UpRun, InTx
    <3>4. RunOK(j)'
      BY <1>3, <2>1, <3>1, <3>2, <3>3 DEF RunStep, RunOK, Stage
    <3>5. ProcessOK(j)'
      BY <1>2, <2>1, <3>1 DEF ProcessOK, Stage, Uses, Bootstrap
    <3>6. QED
      BY <3>4, <3>5
  <2>3. CASE ~mig[i].up
    <3>1. Stage(j) = "off" /\ (j # i => mig[j].up)
      BY <1>1, <2>3 DEF IInv, DownAlone
    <3>2. RunOK(j)'
      <4>1. CASE j = i
        <5>1. DownRun(i)' /\ mig'[i].st # "idle"
          BY <2>3 DEF RunStep
        <5>2. ~mig'[i].up
          BY <1>1, <1>3, <2>3
        <5>3. QED
          BY <4>1, <5>1, <5>2 DEF RunOK
      <4>2. CASE j # i
        BY <2>1, <3>1, <4>2 DEF RunStep, RunOK, UpRun, InTx, Stage
      <4>3. QED
        BY <4>1, <4>2
    <3>3. ProcessOK(j)'
      BY <2>1, <3>1 DEF ProcessOK, Stage, Uses
    <3>4. QED
      BY <3>2, <3>3
  <2>4. QED
    BY <2>2, <2>3
<1>7. QED
  BY <1>2, <1>4, <1>5, <1>6 DEF IInv

\* A step of one process: its run of Up is left alone or over.
LEMMA ProcessKeeps ==
    ASSUME IInv, NEW i \in Instances, UNCHANGED <<recorded, schema>>,
           \/ mig' = mig /\ (mig[i].st = "idle" \/ Stage(i)' = Stage(i))
           \/ mig' = [mig EXCEPT ![i] = Idle],
           NEW p \in Process, inst' = [inst EXCEPT ![i] = p],
           Stage(i) = "off" => p.stage = "off" \/ ~Reverting,
           polls' \in [Instances -> [Contracts -> {"none", "idle", "tx"}]],
           inFlight' \in [Instances -> SUBSET Requests],
           \A j \in Instances \ {i} : polls'[j] = polls[j] /\ inFlight'[j] = inFlight[j],
           tracked' \in SUBSET Contracts, faults' \in Nat, downs' \in Nat,
           ProcessOK(i)'
    PROVE  IInv'
<1>1. RecordOK' /\ Version' = Version
  BY VersionKept DEF IInv
<1>2. Idle \in Migration
  BY DEF Idle, Migration
<1>3. /\ mig' \in [Instances -> Migration]
      /\ \A j \in Instances \ {i} : mig'[j] = mig[j]
      /\ \/ mig'[i] = mig[i] /\ (mig[i].st = "idle" \/ Stage(i)' = Stage(i))
         \/ mig'[i] = Idle
  BY <1>2 DEF IInv, TypeOK
<1>4. /\ inst' \in [Instances -> Process]
      /\ \A j \in Instances \ {i} : inst'[j] = inst[j]
      /\ inst'[i] = p
  BY DEF IInv, TypeOK
<1>5. TypeOK'
  BY <1>1, <1>3, <1>4, RecordTypes DEF IInv, TypeOK
<1>6. DownAlone'
  <2> SUFFICES ASSUME NEW j \in Instances, ~mig'[j].up, NEW k \in Instances
               PROVE  Stage(k)' = "off" /\ (k # j => mig'[k].up)
    BY DEF DownAlone
  <2>1. ~mig[j].up
    BY <1>3 DEF Idle
  <2>2. Stage(k) = "off" /\ (k # j => mig[k].up)
    BY <2>1 DEF IInv, DownAlone
  <2>3. Reverting
    BY <2>1 DEF IInv, RunOK, Reverting
  <2>4. Stage(k)' = "off"
    BY <1>4, <2>2, <2>3 DEF Stage
  <2>5. k # j => mig'[k].up
    BY <1>3, <2>2 DEF Idle
  <2>6. QED
    BY <2>4, <2>5
<1>7. ASSUME NEW j \in Instances PROVE RunOK(j)'
  <2>1. CASE mig'[j] = Idle
    BY <2>1 DEF Idle, RunOK, UpRun, InTx
  <2>2. CASE mig'[j] = mig[j] /\ (mig[j].st = "idle" \/ Stage(j)' = Stage(j))
    BY <1>1, <2>2 DEF IInv, RunOK, UpRun, DownRun, InTx
  <2>3. QED
    BY <1>3, <1>4, <2>1, <2>2 DEF Stage
<1>8. ASSUME NEW j \in Instances, j # i PROVE ProcessOK(j)'
  BY <1>1, <1>4, <1>8 DEF IInv, ProcessOK, Stage, Uses, Bootstrap
<1>9. QED
  BY <1>1, <1>5, <1>6, <1>7, <1>8 DEF IInv

LEMMA Elements ==
    ASSUME NEW S, NEW s \in Seq(S)
    PROVE  /\ Len(s) \in Nat /\ DOMAIN s = 1 .. Len(s)
           /\ \A k \in 1 .. Len(s) : s[k] \in S
OBVIOUS

\* contractList checks every entry, so each one that a process registers is a
\* contract.
LEMMA BootstrapType ==
    ASSUME NEW env \in Startable
    PROVE  Config[env].bootstrap \in Seq(Contracts)
<1> DEFINE n == Len(env.bootstrap)
<1>1. /\ env \in Environments
      /\ n \in Nat /\ DOMAIN env.bootstrap = 1 .. n
      /\ \A k \in 1 .. n : env.bootstrap[k].wellFormed => env.bootstrap[k].id \in Contracts
  BY DaemonAssumption DEF Startable
<1>2. Config[env].bootstrap = [k \in 1 .. n |-> env.bootstrap[k].id]
  BY <1>1 DEF Config, Load
<1>3. \A k \in 1 .. n : env.bootstrap[k].wellFormed
  BY <1>1 DEF Startable, Accepted, LoadAccepts, ListAccepts
<1>4. Config[env].bootstrap \in [1 .. n -> Contracts]
  BY <1>1, <1>2, <1>3
<1>5. QED
  BY <1>1, <1>4

LEMMA ReturnKeeps ==
    ASSUME IInv, NEW i \in Instances, NEW e \in {"clean", "error", "killed"}, Return(i, e),
           e = "clean" => inFlight[i] = {},
           polls' \in [Instances -> [Contracts -> {"none", "idle", "tx"}]],
           polls'[i] = NoPolls, \A j \in Instances \ {i} : polls'[j] = polls[j],
           faults' \in Nat
    PROVE  IInv'
<1> DEFINE cut == inFlight[i] # {}
           p == [inst[i] EXCEPT !.stage = "off", !.env = Unset, !.handle = FALSE,
                    !.boot = 0, !.listening = FALSE, !.cancelled = FALSE, !.err = FALSE,
                    !.exit = e, !.cut = cut]
<1>1. inst' = [inst EXCEPT ![i] = p] /\ inFlight' = [inFlight EXCEPT ![i] = {}]
      /\ mig' = [mig EXCEPT ![i] = Idle] /\ UNCHANGED <<recorded, schema, tracked, downs>>
  BY ZenonT(60) DEF Return, IInv, TypeOK
<1>2. cut \in BOOLEAN /\ (e = "clean" => ~cut)
  OBVIOUS
<1> HIDE DEF cut
<1>3. p \in Process
  <2>1. inst[i] \in Process
    BY DEF IInv, TypeOK
  <2>2. QED
    BY <1>2, <2>1 DEF Process, Stages
<1>4. p.stage = "off" /\ p.exit = e /\ p.cut = cut
  BY DEF IInv, TypeOK, Process
<1> HIDE DEF p
<1>5. inst'[i] = p
  BY <1>1 DEF IInv, TypeOK
<1>6. ProcessOK(i)'
  BY <1>2, <1>4, <1>5 DEF ProcessOK, Stage, Uses
<1>7. QED
  BY <1>1, <1>3, <1>4, <1>6, ProcessKeeps DEF IInv, TypeOK

\* A process that returns before it serves, or that has waited for its pollers.
LEMMA ReturnsQuietly ==
    ASSUME IInv, NEW i \in Instances, NEW e \in {"clean", "error", "killed"}, Return(i, e),
           e = "clean" => inFlight[i] = {}, polls[i] = NoPolls, polls' = polls,
           faults' \in Nat
    PROVE  IInv'
BY ReturnKeeps DEF IInv, TypeOK

LEMMA EarlyErrors ==
    ASSUME IInv, NEW i \in Instances,
           \/ MigrateError(i) \/ ReadBackNotFound(i) \/ StartupCancelled(i)
           \/ ListenFails(i) \/ StartupFault(i)
    PROVE  IInv'
<1>1. Return(i, "error") /\ polls' = polls /\ faults' \in Nat
  BY DEF MigrateError, ReadBackNotFound, StartupCancelled, ListenFails, StartupFault,
         Fault, IInv, TypeOK
<1>2. Stage(i) \in {"migrate", "register", "readback"}
  BY DEF MigrateError, ReadBackNotFound, StartupCancelled, ListenFails, StartupFault, Booting
<1>3. polls[i] = NoPolls
  BY <1>2 DEF IInv, ProcessOK
<1>4. QED
  BY <1>1, <1>3, ReturnsQuietly

LEMMA WaitDoneKeeps ==
    ASSUME IInv, NEW i \in Instances, WaitDone(i)
    PROVE  IInv'
<1>1. CASE inst[i].err
  BY <1>1, ReturnsQuietly DEF WaitDone, IInv, TypeOK
<1>2. CASE ~inst[i].err
  BY <1>2, ReturnsQuietly DEF WaitDone, IInv, TypeOK, ProcessOK
<1>3. QED
  BY <1>1, <1>2

LEMMA CrashKeeps ==
    ASSUME IInv, NEW i \in Instances, Crash(i)
    PROVE  IInv'
<1>1. polls' = [polls EXCEPT ![i] = NoPolls]
  BY DEF Crash
<1>2. NoPolls \in [Contracts -> {"none", "idle", "tx"}]
  BY DEF NoPolls
<1>3. QED
  BY <1>1, <1>2, ReturnKeeps DEF Crash, Fault, IInv, TypeOK

LEMMA StartRefusedKeeps ==
    ASSUME IInv, NEW i \in Instances, NEW env, StartRefused(i, env)
    PROVE  IInv'
<1> DEFINE p == [inst[i] EXCEPT !.exit = "error", !.cut = FALSE]
<1>1. inst' = [inst EXCEPT ![i] = p] /\ inst[i] \in Process
  BY DEF StartRefused, IInv, TypeOK
<1>2. p \in Process /\ p.stage = "off" /\ p.exit = "error"
  BY <1>1 DEF Process, StartRefused, Stage
<1> HIDE DEF p
<1>3. inst'[i] = p
  BY <1>1 DEF IInv, TypeOK
<1>4. ProcessOK(i)'
  BY <1>2, <1>3 DEF ProcessOK, Stage, Uses, IInv, StartRefused
<1>5. QED
  BY <1>1, <1>2, <1>3, <1>4, ProcessKeeps DEF StartRefused, IInv, TypeOK, Stage

LEMMA StartKeeps ==
    ASSUME IInv, NEW i \in Instances, NEW env \in Environments, Start(i, env)
    PROVE  IInv'
<1> DEFINE p == [inst[i] EXCEPT !.stage = "migrate", !.env = env, !.handle = TRUE,
                    !.exit = "none", !.cut = FALSE]
<1>1. inst' = [inst EXCEPT ![i] = p] /\ inst[i] \in Process
  BY DEF Start, IInv, TypeOK
<1>2. p \in Process /\ p.stage = "migrate" /\ p.env = env /\ p.handle /\ p.exit = "none"
  BY <1>1 DEF Process, Stages
<1> HIDE DEF p
<1>3. inst'[i] = p
  BY <1>1 DEF IInv, TypeOK
<1>4. mig[i].st = "idle"
  BY DEF Start, IInv, RunOK, Reverting, Stage
<1>5. ProcessOK(i)'
  BY <1>2, <1>3 DEF ProcessOK, Stage, Uses, IInv, Start
<1>6. QED
  BY <1>1, <1>2, <1>4, <1>5, ProcessKeeps DEF Start, IInv, TypeOK

LEMMA MigrateDoneKeeps ==
    ASSUME IInv, NEW i \in Instances, MigrateDone(i)
    PROVE  IInv'
<1> DEFINE p == [inst[i] EXCEPT !.stage = "register", !.boot = 1]
<1>1. inst' = [inst EXCEPT ![i] = p] /\ inst[i] \in Process /\ Stage(i) = "migrate"
  BY DEF MigrateDone, IInv, TypeOK
<1>2. p \in Process /\ p.stage = "register" /\ p.boot = 1 /\ p.env = inst[i].env
      /\ p.handle = inst[i].handle /\ p.exit = inst[i].exit /\ p.cut = inst[i].cut
  BY <1>1 DEF Process, Stages
<1> HIDE DEF p
<1>3. inst'[i] = p
  BY <1>1 DEF IInv, TypeOK
<1>4. mig[i].up
  BY <1>1 DEF IInv, DownAlone
<1>5. LastOf(i) <= Version /\ Version' = Version
  BY <1>4, VersionKept DEF MigrateDone, IInv, RunOK, UpRun
<1>6. ProcessOK(i)'
  BY <1>1, <1>2, <1>3, <1>5 DEF ProcessOK, Stage, Uses, IInv, MigrateDone
<1>7. QED
  BY <1>1, <1>2, <1>6, ProcessKeeps DEF MigrateDone, IInv, TypeOK

LEMMA RegisterBootKeeps ==
    ASSUME IInv, NEW i \in Instances, RegisterBoot(i)
    PROVE  IInv'
<1> DEFINE p == [inst[i] EXCEPT !.stage = "readback"]
<1>1. inst' = [inst EXCEPT ![i] = p] /\ inst[i] \in Process /\ Stage(i) = "register"
  BY DEF RegisterBoot, Booting, IInv, TypeOK
<1>2. p \in Process /\ p.stage = "readback" /\ p.boot = inst[i].boot /\ p.env = inst[i].env
      /\ p.handle = inst[i].handle /\ p.exit = inst[i].exit /\ p.cut = inst[i].cut
  BY <1>1 DEF Process, Stages
<1> HIDE DEF p
<1>3. inst'[i] = p
  BY <1>1 DEF IInv, TypeOK
<1>4. Bootstrap(i) \in Seq(Contracts)
  BY <1>1, BootstrapType DEF IInv, ProcessOK, Bootstrap
<1>5. inst[i].boot \in Nat /\ inst[i].boot > 0 /\ inst[i].boot <= Len(Bootstrap(i))
  BY <1>1 DEF IInv, ProcessOK, Process, RegisterBoot, Booting
<1>6. inst[i].boot \in DOMAIN Bootstrap(i) /\ Bootstrap(i)[inst[i].boot] \in Contracts
  BY <1>4, <1>5, Elements
<1>7. ProcessOK(i)'
  BY <1>1, <1>2, <1>3, <1>6, VersionKept
  DEF ProcessOK, Stage, Uses, IInv, RegisterBoot, Bootstrap
<1>8. mig[i].st = "idle"
  BY <1>1 DEF IInv, RunOK, DownAlone
<1>9. tracked' \in SUBSET Contracts
  BY <1>6 DEF RegisterBoot, IInv, TypeOK
<1>10. QED
  BY <1>1, <1>2, <1>7, <1>8, <1>9, ProcessKeeps DEF RegisterBoot, IInv, TypeOK

LEMMA ReadBackKeeps ==
    ASSUME IInv, NEW i \in Instances, ReadBack(i)
    PROVE  IInv'
<1> DEFINE b == inst[i].boot + 1
           p == [inst[i] EXCEPT !.stage = "register", !.boot = b]
<1>1. inst' = [inst EXCEPT ![i] = p] /\ inst[i] \in Process /\ Stage(i) = "readback"
  BY DEF ReadBack, IInv, TypeOK
<1>2. b \in Nat /\ b > 0
  BY <1>1 DEF Process
<1> HIDE DEF b
<1>3. p \in Process /\ p.stage = "register" /\ p.boot = b /\ p.env = inst[i].env
      /\ p.handle = inst[i].handle /\ p.exit = inst[i].exit /\ p.cut = inst[i].cut
  BY <1>1, <1>2 DEF Process, Stages
<1> HIDE DEF p
<1>4. inst'[i] = p
  BY <1>1 DEF IInv, TypeOK
<1>5. ProcessOK(i)'
  <2>1. ProcessOK(i) /\ Version' = Version /\ polls' = polls
    BY VersionKept DEF IInv, ReadBack
  <2>2. QED
    BY <1>1, <1>2, <1>3, <1>4, <2>1 DEF ProcessOK, Stage, Uses
<1>6. mig[i].st = "idle"
  BY <1>1 DEF IInv, RunOK, DownAlone
<1>7. QED
  BY <1>1, <1>3, <1>5, <1>6, ProcessKeeps DEF ReadBack, IInv, TypeOK

LEMMA ListenKeeps ==
    ASSUME IInv, NEW i \in Instances, Listen(i)
    PROVE  IInv'
<1> DEFINE p == [inst[i] EXCEPT !.stage = "serve", !.listening = TRUE]
<1>1. inst' = [inst EXCEPT ![i] = p] /\ inst[i] \in Process /\ Stage(i) = "register"
  BY DEF Listen, IInv, TypeOK
<1>2. p \in Process /\ p.stage = "serve" /\ p.env = inst[i].env
      /\ p.handle = inst[i].handle /\ p.exit = inst[i].exit /\ p.cut = inst[i].cut
  BY <1>1 DEF Process, Stages
<1> HIDE DEF p
<1>3. inst'[i] = p
  BY <1>1 DEF IInv, TypeOK
<1>4. ProcessOK(i)'
  BY <1>1, <1>2, <1>3, VersionKept DEF ProcessOK, Stage, Uses, IInv, Listen
<1>5. mig[i].st = "idle"
  BY <1>1 DEF IInv, RunOK, DownAlone
<1>6. /\ polls' \in [Instances -> [Contracts -> {"none", "idle", "tx"}]]
      /\ \A j \in Instances \ {i} : polls'[j] = polls[j]
  <2>1. PICK ps \in [Contracts -> {"none", "idle", "tx"}] : polls' = [polls EXCEPT ![i] = ps]
    BY DEF Listen
  <2>2. QED
    BY <2>1 DEF IInv, TypeOK
<1>7. QED
  BY <1>1, <1>2, <1>4, <1>5, <1>6, ProcessKeeps DEF Listen, IInv, TypeOK

LEMMA DrainKeeps ==
    ASSUME IInv, NEW i \in Instances,
           BeginDrain(i) \/ DrainDone(i) \/ GracePasses(i) \/ ServeFails(i)
    PROVE  IInv'
<1>1. PICK stage \in {"drain", "wait"}, l \in BOOLEAN, c \in BOOLEAN, e \in BOOLEAN :
          /\ inst' = [inst EXCEPT ![i].stage = stage, ![i].listening = l,
                                  ![i].cancelled = c, ![i].err = e]
          /\ stage = "wait" /\ ~e => inFlight[i] = {}
  <2>1. inst \in [Instances -> Process]
    BY DEF IInv, TypeOK
  <2>2. CASE BeginDrain(i)
    <3>1. inst' = [inst EXCEPT ![i].stage = "drain", ![i].listening = FALSE,
                               ![i].cancelled = inst[i].cancelled, ![i].err = inst[i].err]
      BY <2>1, <2>2 DEF BeginDrain, Process
    <3>2. QED
      BY <2>1, <3>1 DEF Process
  <2>3. CASE DrainDone(i)
    <3>1. inst' = [inst EXCEPT ![i].stage = "wait", ![i].listening = inst[i].listening,
                               ![i].cancelled = inst[i].cancelled, ![i].err = inst[i].err]
      BY <2>1, <2>3 DEF DrainDone, Process
    <3>2. QED
      BY <2>1, <2>3, <3>1 DEF Process, DrainDone
  <2>4. CASE GracePasses(i)
    <3>1. inst' = [inst EXCEPT ![i].stage = "wait", ![i].listening = inst[i].listening,
                               ![i].cancelled = inst[i].cancelled, ![i].err = TRUE]
      BY <2>1, <2>4 DEF GracePasses, Process
    <3>2. QED
      BY <2>1, <3>1 DEF Process
  <2>5. CASE ServeFails(i)
    BY <2>5 DEF ServeFails
  <2>6. QED
    BY <2>2, <2>3, <2>4, <2>5
<1> DEFINE p == [inst[i] EXCEPT !.stage = stage, !.listening = l, !.cancelled = c, !.err = e]
<1>2. inst' = [inst EXCEPT ![i] = p] /\ inst[i] \in Process
      /\ Stage(i) \in {"serve", "drain"}
  BY <1>1 DEF BeginDrain, DrainDone, GracePasses, ServeFails, IInv, TypeOK
<1>3. p \in Process /\ p.stage = stage /\ p.env = inst[i].env /\ p.err = e
      /\ p.handle = inst[i].handle /\ p.exit = inst[i].exit /\ p.cut = inst[i].cut
  BY <1>2 DEF Process, Stages
<1> HIDE DEF p
<1>4. inst'[i] = p
  BY <1>2 DEF IInv, TypeOK
<1>5. /\ UNCHANGED <<recorded, schema, mig, polls, inFlight, tracked, downs>>
      /\ faults' \in Nat
  BY DEF BeginDrain, DrainDone, GracePasses, ServeFails, Fault, IInv, TypeOK
<1>6. ProcessOK(i)'
  BY <1>1, <1>2, <1>3, <1>4, <1>5, VersionKept DEF ProcessOK, Stage, Uses, IInv
<1>7. mig[i].st = "idle"
  BY <1>2 DEF IInv, RunOK, DownAlone
<1>8. QED
  BY <1>2, <1>3, <1>5, <1>6, <1>7, ProcessKeeps DEF IInv, TypeOK

LEMMA SignalKeeps ==
    ASSUME IInv, NEW i \in Instances, Signal(i)
    PROVE  IInv'
<1> DEFINE p == [inst[i] EXCEPT !.cancelled = TRUE]
<1>1. inst' = [inst EXCEPT ![i] = p] /\ inst[i] \in Process /\ Stage(i) # "off"
  BY DEF Signal, IInv, TypeOK
<1>2. p \in Process /\ p.stage = Stage(i) /\ p.env = inst[i].env /\ p.boot = inst[i].boot
      /\ p.handle = inst[i].handle /\ p.exit = inst[i].exit /\ p.cut = inst[i].cut
      /\ p.err = inst[i].err
  BY <1>1 DEF Process, Stage
<1> HIDE DEF p
<1>3. inst'[i] = p
  BY <1>1 DEF IInv, TypeOK
<1>4. ProcessOK(i)'
  BY <1>1, <1>2, <1>3, VersionKept DEF ProcessOK, Stage, Uses, IInv, Signal, Bootstrap
<1>5. Stage(i)' = Stage(i)
  BY <1>2, <1>3 DEF Stage
<1>6. UNCHANGED <<recorded, schema, mig, polls, inFlight, tracked, downs>>
      /\ faults' \in Nat
  BY DEF Signal, Fault, IInv, TypeOK
<1>7. QED
  BY <1>1, <1>2, <1>4, <1>5, <1>6, ProcessKeeps DEF IInv, TypeOK

\* Requests and polls come and go without the process changing stage.
LEMMA TrafficKeeps ==
    ASSUME IInv, NEW i \in Instances,
           \/ \E r \in Requests : Receive(i, r) \/ Answer(i, r)
           \/ \E c \in Contracts : Poll(i, c) \/ PollReturn(i, c)
    PROVE  IInv'
<1>1. inst' = [inst EXCEPT ![i] = inst[i]] /\ inst[i] \in Process
      /\ UNCHANGED <<recorded, schema, mig, inst, faults, downs>>
  BY DEF Receive, Answer, Poll, PollReturn, IInv, TypeOK
<1>2. CASE \E r \in Requests : Receive(i, r) \/ Answer(i, r)
  <2>1. PICK r \in Requests : Receive(i, r) \/ Answer(i, r)
    BY <1>2
  <2>2. inFlight' \in [Instances -> SUBSET Requests] /\ polls' = polls
        /\ \A j \in Instances \ {i} : inFlight'[j] = inFlight[j]
    BY <2>1 DEF Receive, Answer, IInv, TypeOK
  <2>3. tracked' \in SUBSET Contracts
    BY <2>1 DEF Receive, Answer, IInv, TypeOK
  <2>4. Stage(i) = "serve" \/ inFlight'[i] \subseteq inFlight[i]
    BY <2>1 DEF Receive, Answer, IInv, TypeOK
  <2>5. ProcessOK(i)'
    BY <1>1, <2>2, <2>4, VersionKept DEF ProcessOK, Stage, Uses, IInv, Bootstrap
  <2>6. QED
    BY <1>1, <2>2, <2>3, <2>5, ProcessKeeps DEF IInv, TypeOK, Stage
<1>3. CASE \E c \in Contracts : Poll(i, c) \/ PollReturn(i, c)
  <2>1. PICK c \in Contracts : Poll(i, c) \/ PollReturn(i, c)
    BY <1>3
  <2>2. PICK v \in {"none", "idle", "tx"} : polls' = [polls EXCEPT ![i][c] = v]
    BY <2>1 DEF Poll, PollReturn
  <2>3. polls' \in [Instances -> [Contracts -> {"none", "idle", "tx"}]]
        /\ \A j \in Instances \ {i} : polls'[j] = polls[j]
    BY <2>2 DEF IInv, TypeOK
  <2>4. inFlight' = inFlight /\ tracked' = tracked
    BY <2>1 DEF Poll, PollReturn
  <2>5. polls[i] # NoPolls
    BY <2>1 DEF NoPolls, Poll, PollReturn
  <2>6. ProcessOK(i)'
    BY <1>1, <2>4, <2>5, VersionKept DEF ProcessOK, Stage, Uses, IInv, Bootstrap
  <2>7. QED
    BY <1>1, <2>3, <2>4, <2>6, ProcessKeeps DEF IInv, TypeOK, Stage
<1>4. QED
  BY <1>2, <1>3

LEMMA MigrateKeeps ==
    ASSUME IInv, NEW i \in Instances, MigrateStep(i) \/ MigrateFault(i)
    PROVE  IInv'
<1>1. Stage(i) = "migrate" /\ UNCHANGED <<inst, polls, inFlight, tracked, downs>>
      /\ faults' \in Nat
  <2>1. faults \in Nat
    BY DEF IInv, TypeOK
  <2>2. CASE MigrateStep(i)
    BY <2>1, <2>2, Zenon DEF MigrateStep
  <2>3. CASE MigrateFault(i)
    <3>1. faults' = faults + 1
      BY <2>3 DEF MigrateFault, Fault
    <3>2. faults' \in Nat
      BY <2>1, <3>1
    <3>3. QED
      BY <2>3, <3>2, Zenon DEF MigrateFault
  <2>4. QED
    BY <2>2, <2>3
<1>2. i \in Runnable
  BY <1>1 DEF IInv, ProcessOK
<1>3. RunStep(i)
  BY <1>2, MigratingStep, ReadAppliedStep DEF MigrateStep, MigrateFault, Migrating
<1>4. QED
  BY <1>1, <1>2, <1>3, RunKeeps

LEMMA DownKeeps ==
    ASSUME IInv, NEW i \in Instances, DownStep(i) \/ DownFault(i)
    PROVE  IInv'
<1>1. ~mig[i].up /\ UNCHANGED <<inst, polls, inFlight, tracked, downs>>
      /\ faults' \in Nat
  BY DEF DownStep, DownFault, Fault, IInv, TypeOK
<1>2. i \in Runnable
  BY <1>1 DEF IInv, RunOK
<1>3. RunStep(i)
  BY MigratingStep DEF DownStep, DownFault
<1>4. QED
  BY <1>1, <1>2, <1>3, RunKeeps

LEMMA DownEndsKeeps ==
    ASSUME IInv, NEW i \in Instances, DownEnds(i)
    PROVE  IInv'
<1>1. inst' = [inst EXCEPT ![i] = inst[i]] /\ inst[i] \in Process
      /\ UNCHANGED <<recorded, schema, inst, polls, inFlight, tracked, faults, downs>>
      /\ mig' = [mig EXCEPT ![i] = Idle]
  BY DEF DownEnds, IInv, TypeOK
<1>2. ProcessOK(i)'
  BY <1>1, VersionKept DEF ProcessOK, Stage, Uses, IInv, Bootstrap
<1>3. QED
  BY <1>1, <1>2, ProcessKeeps DEF IInv, TypeOK, Stage

LEMMA BeginDownKeeps ==
    ASSUME IInv, NEW i \in Instances, NEW target \in 0 .. Version, BeginDown(i, target)
    PROVE  IInv'
<1> DEFINE todo == {v \in Available(i) \intersect recorded : v > target}
           m == [st |-> "next", up |-> FALSE, at |-> 0, ran |-> 0, todo |-> todo]
<1>1. mig' = [mig EXCEPT ![i] = m]
      /\ UNCHANGED <<recorded, schema, inst, polls, inFlight, tracked, faults>>
  BY DEF BeginDown, ReadApplied
<1>2. RecordOK' /\ RecordOK /\ Version' = Version /\ Version \in Nat
  BY <1>1, VersionKept DEF IInv, RecordOK
<1>3. todo = (target + 1) .. Version
  BY <1>2 DEF RecordOK, BeginDown
<1>4. todo \in SUBSET Nat
  BY <1>2, <1>3
<1> HIDE DEF todo
<1>5. m \in Migration
  BY <1>4 DEF Migration
<1>6. mig' \in [Instances -> Migration] /\ mig'[i] = m
      /\ \A j \in Instances \ {i} : mig'[j] = mig[j]
  BY <1>1, <1>5 DEF IInv, TypeOK
<1>7. \A j \in Instances : Stage(j) = "off" /\ mig[j].up
  BY DEF BeginDown, Reverting, IInv, RunOK
<1>8. TypeOK'
  BY <1>1, <1>6 DEF BeginDown, IInv, TypeOK
<1>9. DownAlone'
  BY <1>1, <1>6, <1>7 DEF DownAlone, Stage
<1>10. RunOK(i)'
  BY <1>2, <1>3, <1>6 DEF RunOK, DownRun, InTx, BeginDown
<1>11. \A j \in Instances \ {i} : RunOK(j)'
  BY <1>1, <1>2, <1>6, <1>7 DEF RunOK, UpRun, InTx, IInv, Stage
<1>12. \A j \in Instances : ProcessOK(j)'
  BY <1>1, <1>2 DEF ProcessOK, Stage, Uses, IInv, Bootstrap
<1>13. QED
  BY <1>2, <1>8, <1>9, <1>10, <1>11, <1>12 DEF IInv

LEMMA NextKeeps ==
    ASSUME IInv, [Next]_vars
    PROVE  IInv'
<1>1. CASE UNCHANGED vars
  BY <1>1, VersionKept
  DEF vars, IInv, TypeOK, RecordOK, DownAlone, RunOK, UpRun, DownRun, InTx, ProcessOK,
      Stage, Uses, Bootstrap
<1>2. ASSUME NEW i \in Instances, Run(i) PROVE IInv'
  BY <1>2, MigrateKeeps, MigrateDoneKeeps, EarlyErrors, RegisterBootKeeps, ReadBackKeeps,
     ListenKeeps, DrainKeeps, WaitDoneKeeps DEF Run
<1>3. ASSUME NEW i \in Instances, Faults(i) PROVE IInv'
  BY <1>3, SignalKeeps, DrainKeeps, MigrateKeeps, EarlyErrors, CrashKeeps, DownKeeps
  DEF Faults
<1>4. QED
  BY <1>1, <1>2, <1>3, StartRefusedKeeps, StartKeeps, TrafficKeeps, BeginDownKeeps,
     DownKeeps, DownEndsKeeps DEF Next

LEMMA InitOK == Init => IInv
<1> SUFFICES ASSUME Init PROVE IInv
  OBVIOUS
<1>1. Version = 0 /\ recorded = 1 .. Version /\ IsFiniteSet(recorded)
  BY FS_EmptySet DEF Init, Version
<1>2. RecordOK
  BY <1>1 DEF RecordOK, Init
<1>3. TypeOK
  BY <1>1, DaemonAssumption
  DEF Init, TypeOK, Idle, Migration, Process, Stages, NoPolls
<1>4. \A i \in Instances : RunOK(i) /\ ProcessOK(i)
  BY DEF Init, RunOK, UpRun, InTx, Idle, ProcessOK, Stage, Uses
<1>5. DownAlone
  BY DEF Init, DownAlone, Idle
<1>6. QED
  BY <1>2, <1>3, <1>4, <1>5 DEF IInv

\* Whatever the instances, builds, faults and reverts: every run of Up starts
\* no later than the next version, a run of Down is alone, and a process only
\* comes as far as its configuration and the schema allow.
THEOREM Inductive == Spec => []IInv
BY InitOK, NextKeeps, PTL DEF Spec

-----------------------------------------------------------------------------
\* What follows from it.

\* The types of the daemon's state, among them that the record is finite.
THEOREM TypeCorrect == Spec => []TypeOK
<1>1. IInv => TypeOK
  BY DEF IInv
<1>2. QED
  BY <1>1, Inductive, PTL

\* No interleaving of runs of Up, crashes, lost answers and of runs of Down as
\* BeginDown has them leaves a gap in schema_migrations (ErrDirtySchema).
THEOREM RecordHasNoGap == Spec => []NoGap
<1>1. IInv => NoGap
  BY DEF IInv, RecordOK, NoGap, Dirty, Contiguous, Version
<1>2. QED
  BY <1>1, Inductive, PTL

\* The record of the migrations and the objects of the schema never disagree
\* (inTransaction).
THEOREM RecordIsSchema == Spec => []SchemaAsRecorded
<1>1. IInv => SchemaAsRecorded
  BY DEF IInv, RecordOK, SchemaAsRecorded
<1>2. QED
  BY <1>1, Inductive, PTL

\* A process past db.Up finds every object its build knows of, for as long as
\* it runs.
THEOREM ServesItsSchema == Spec => []ServesOnItsSchema
<1>1. ASSUME IInv, NEW i \in Instances, Uses(i) PROVE Available(i) \subseteq schema
  <2>1. LastOf(i) <= Version /\ i \in Runnable
    BY <1>1 DEF IInv, ProcessOK, Uses
  <2>2. Available(i) = 1 .. LastOf(i) /\ LastOf(i) \in Nat
    BY <2>1, Builds
  <2>3. QED
    BY <1>1, <2>1, <2>2 DEF IInv, RecordOK
<1>2. IInv => ServesOnItsSchema
  BY <1>1 DEF ServesOnItsSchema
<1>3. QED
  BY <1>2, Inductive, PTL

\* No goroutine polls on a closed database: wg.Wait comes before the handle's
\* deferred Close.
THEOREM PollersKeepHandle == Spec => []PollersHaveHandle
<1>1. ASSUME IInv, NEW i \in Instances, NEW c \in Contracts, polls[i][c] # "none"
      PROVE  inst[i].handle
  <2>1. polls[i] # NoPolls
    BY <1>1 DEF NoPolls
  <2>2. Stage(i) \in {"serve", "drain", "wait"}
    BY <1>1, <2>1 DEF IInv, ProcessOK
  <2>3. QED
    BY <1>1, <2>2 DEF IInv, ProcessOK
<1>2. IInv => PollersHaveHandle
  BY <1>1 DEF PollersHaveHandle
<1>3. QED
  BY <1>2, Inductive, PTL

\* Exit status 0 means that no request was cut off by the shutdown.
THEOREM CleanExits == Spec => []CleanExit
<1>1. IInv => CleanExit
  BY DEF IInv, ProcessOK, CleanExit
<1>2. QED
  BY <1>1, Inductive, PTL

-----------------------------------------------------------------------------
\* The refinement.

AllUsing == {i \in Instances : Uses(i)}

AbstractStep == Abstract!Next \/ UNCHANGED <<Version, AllUsing>>

\* A step of a run takes the version up or down, or leaves it.
LEMMA RunMaps ==
    ASSUME IInv, NEW i \in Runnable, RunStep(i), mig[i].up \in BOOLEAN, inst' = inst
    PROVE  AbstractStep
<1>1. i \in Instances
  BY DEF Runnable
<1>2. AllUsing' = AllUsing
  BY DEF AllUsing, Uses, Stage
<1>3. CASE Version' = Version
  BY <1>2, <1>3 DEF AbstractStep
<1>4. CASE Version' = Version + 1
  <2>1. Abstract!Upgrade
    BY <1>2, <1>4 DEF Abstract!Upgrade, AllUsing
  <2>2. QED
    BY <2>1 DEF AbstractStep, Abstract!Next
<1>5. CASE ~mig[i].up /\ Version > 0 /\ Version' = Version - 1
  <2>1. AllUsing = {}
    BY <1>1, <1>5 DEF IInv, DownAlone, AllUsing, Uses
  <2>2. Abstract!Downgrade
    BY <1>2, <1>5, <2>1 DEF Abstract!Downgrade, AllUsing
  <2>3. QED
    BY <2>2 DEF AbstractStep, Abstract!Next
<1>6. QED
  BY <1>3, <1>4, <1>5 DEF RunStep

\* A step of a process enters, leaves, or neither.
LEMMA ProcessMaps ==
    ASSUME IInv, IInv', NEW i \in Instances, recorded' = recorded,
           \A j \in Instances \ {i} : inst'[j] = inst[j]
    PROVE  AbstractStep
<1>1. Version' = Version
  BY DEF Version
<1>2. \A j \in Instances \ {i} : Uses(j)' = Uses(j)
  BY DEF Uses, Stage
<1>3. CASE Uses(i)'
  <2>1. AllUsing' = AllUsing \union {i}
    BY <1>2, <1>3 DEF AllUsing
  <2>2. LastOf(i) <= Version
    BY <1>1, <1>3 DEF IInv, ProcessOK
  <2>3. Abstract!Enter(i)
    BY <1>1, <2>1, <2>2 DEF Abstract!Enter, AllUsing, LastOf
  <2>4. QED
    BY <2>3 DEF AbstractStep, Abstract!Next
<1>4. CASE ~Uses(i)'
  <2>1. AllUsing' = AllUsing \ {i}
    BY <1>2, <1>4 DEF AllUsing
  <2>2. Abstract!Leave(i)
    BY <1>1, <2>1 DEF Abstract!Leave, AllUsing
  <2>3. QED
    BY <2>2 DEF AbstractStep, Abstract!Next
<1>5. QED
  BY <1>3, <1>4

LEMMA ReturnMaps ==
    ASSUME IInv, IInv', NEW i \in Instances, NEW e, Return(i, e)
    PROVE  AbstractStep
BY ProcessMaps DEF Return, IInv, TypeOK

LEMMA RunActionMaps ==
    ASSUME IInv, IInv', NEW i \in Instances, Run(i)
    PROVE  AbstractStep
<1>1. CASE MigrateStep(i)
  <2>1. i \in Runnable /\ inst' = inst /\ mig[i].up \in BOOLEAN
    BY <1>1 DEF MigrateStep, IInv, ProcessOK, TypeOK, Migration
  <2>2. RunStep(i)
    BY <1>1, <2>1, MigratingStep, ReadAppliedStep DEF MigrateStep, Migrating
  <2>3. QED
    BY <2>1, <2>2, RunMaps
<1>2. CASE \/ MigrateError(i) \/ ReadBackNotFound(i) \/ StartupCancelled(i)
           \/ ListenFails(i) \/ WaitDone(i)
  BY <1>2, ReturnMaps
  DEF MigrateError, ReadBackNotFound, StartupCancelled, ListenFails, WaitDone
<1>3. CASE \/ MigrateDone(i) \/ RegisterBoot(i) \/ ReadBack(i) \/ Listen(i)
           \/ BeginDrain(i) \/ DrainDone(i) \/ GracePasses(i)
  <2>1. recorded' = recorded /\ \A j \in Instances \ {i} : inst'[j] = inst[j]
    BY <1>3 DEF MigrateDone, RegisterBoot, ReadBack, Listen, BeginDrain, DrainDone,
                GracePasses, IInv, TypeOK
  <2>2. QED
    BY <2>1, ProcessMaps
<1>4. QED
  BY <1>1, <1>2, <1>3 DEF Run

LEMMA FaultMaps ==
    ASSUME IInv, IInv', NEW i \in Instances, Faults(i)
    PROVE  AbstractStep
<1>1. CASE MigrateFault(i) \/ DownFault(i)
  <2>1. i \in Runnable /\ inst' = inst /\ mig[i].up \in BOOLEAN
    BY <1>1 DEF MigrateFault, DownFault, IInv, ProcessOK, RunOK, TypeOK, Migration
  <2>2. RunStep(i)
    BY <1>1, MigratingStep DEF MigrateFault, DownFault
  <2>3. QED
    BY <2>1, <2>2, RunMaps
<1>2. CASE StartupFault(i) \/ Crash(i)
  BY <1>2, ReturnMaps DEF StartupFault, Crash
<1>3. CASE Signal(i) \/ ServeFails(i)
  <2>1. recorded' = recorded /\ \A j \in Instances \ {i} : inst'[j] = inst[j]
    BY <1>3 DEF Signal, ServeFails, IInv, TypeOK
  <2>2. QED
    BY <2>1, ProcessMaps
<1>4. QED
  BY <1>1, <1>2, <1>3 DEF Faults

LEMMA NextMaps ==
    ASSUME IInv, IInv', [Next]_vars
    PROVE  AbstractStep
<1>1. CASE UNCHANGED vars
  BY <1>1 DEF vars, AbstractStep, Version, AllUsing, Uses, Stage
<1>2. ASSUME NEW i \in Instances,
             \/ \E env \in Environments : StartRefused(i, env) \/ Start(i, env)
             \/ \E r \in Requests : Receive(i, r) \/ Answer(i, r)
             \/ \E c \in Contracts : Poll(i, c) \/ PollReturn(i, c)
             \/ \E target \in 0 .. Version : BeginDown(i, target)
             \/ DownEnds(i)
      PROVE  AbstractStep
  <2>1. recorded' = recorded /\ \A j \in Instances \ {i} : inst'[j] = inst[j]
    BY <1>2 DEF StartRefused, Start, Receive, Answer, Poll, PollReturn, BeginDown,
                ReadApplied, DownEnds, IInv, TypeOK
  <2>2. QED
    BY <2>1, ProcessMaps
<1>3. ASSUME NEW i \in Instances, DownStep(i) PROVE AbstractStep
  <2>1. i \in Runnable /\ inst' = inst /\ mig[i].up \in BOOLEAN
    BY <1>3 DEF DownStep, IInv, RunOK, TypeOK, Migration
  <2>2. RunStep(i)
    BY <1>3, MigratingStep DEF DownStep
  <2>3. QED
    BY <2>1, <2>2, RunMaps
<1>4. QED
  BY <1>1, <1>2, <1>3, RunActionMaps, FaultMaps DEF Next

\* The migrations of all instances implement one schema version that moves by
\* one step at a time and never falls below a process that counts on it.
THEOREM MigrationsImplement == Spec => ImplementsSchemaVersion
<1>1. Init => Abstract!Init
  BY FS_EmptySet DEF Init, Abstract!Init, Version, Uses, Stage
<1>2. IInv /\ IInv' /\ [Next]_vars => [Abstract!Next]_(Abstract!svars)
  BY NextMaps DEF AbstractStep, AllUsing, Abstract!svars
<1>3. QED
  BY <1>1, <1>2, Inductive, PTL DEF Spec, ImplementsSchemaVersion, Abstract!Spec

-----------------------------------------------------------------------------
\* Migrations that wait for one another.

\* i's transaction has written objects of its migration.
Written(i) == InTx(i) /\ mig[i].ran > 0

\* No migration is half applied in two transactions at once, and on SQLite no
\* two migrations are.
Exclusive ==
    \A i, j \in Instances : i # j /\ Written(i) /\ Written(j) =>
        ~OneWriter /\ mig[i].at # mig[j].at

\* Of the processes that are migrating, one waits for no other.
SomeoneMigrates ==
    (\E i \in Instances : InTx(i)) =>
        \E i \in Instances : InTx(i) /\ ~(mig[i].st = "tx" /\ Waits(i))

\* The run of i, if it has written still, had written before, the same.
Harmless(i) ==
    /\ \A j \in Instances \ {i} : mig'[j] = mig[j]
    /\ Written(i)' => Written(i) /\ mig'[i].at = mig[i].at

LEMMA HarmlessKeeps ==
    ASSUME Exclusive, NEW i \in Instances, Harmless(i)
    PROVE  Exclusive'
BY DEF Exclusive, Harmless, Written, InTx

\* What waits for no other writes what no other has.
LEMMA ExecKeeps ==
    ASSUME TypeOK, Exclusive, NEW i \in Instances, ExecStatement(i)
    PROVE  Exclusive'
<1>1. /\ mig[i].st = "tx" /\ ~Waits(i)
      /\ \A j \in Instances \ {i} : mig'[j] = mig[j]
      /\ mig'[i].at = mig[i].at
  BY DEF ExecStatement, TypeOK, Migration
<1>2. \A j \in Instances \ {i} : Written(j) => ~OneWriter /\ mig[j].at # mig[i].at
  BY <1>1 DEF Waits, Written
<1>3. QED
  BY <1>1, <1>2 DEF Exclusive, Written, InTx

LEMMA RunExcludes ==
    ASSUME TypeOK, Exclusive, NEW i \in Instances,
           \/ ReadApplied(i, TRUE, 0) \/ (\E t \in 0 .. Version : ReadApplied(i, FALSE, t))
           \/ Migrating(i) \/ MigrationFault(i) \/ CommitUnanswered(i)
    PROVE  Exclusive'
<1>1. mig[i] \in Migration
  BY DEF TypeOK
<1>2. CASE ExecStatement(i)
  BY <1>2, ExecKeeps
<1>3. CASE ReadApplied(i, TRUE, 0) \/ \E t \in 0 .. Version : ReadApplied(i, FALSE, t)
  <2>1. Harmless(i)
    BY <1>3 DEF ReadApplied, Harmless, Written, InTx, TypeOK
  <2>2. QED
    BY <2>1, HarmlessKeeps
<1>4. CASE BeginNext(i)
  <2>1. Harmless(i)
    BY <1>1, <1>4 DEF BeginNext, Harmless, Written, InTx, TypeOK, Migration
  <2>2. QED
    BY <2>1, HarmlessKeeps
<1>5. CASE LoopEnds(i) \/ StatementRefused(i) \/ Record(i) \/ RecordRefused(i) \/ Commit(i)
  <2>1. Harmless(i)
    BY <1>1, <1>5
    DEF LoopEnds, StatementRefused, MigrationFails, Record, RecordRefused, Commit, Harmless,
        Written, InTx, TypeOK, Migration
  <2>2. QED
    BY <2>1, HarmlessKeeps
<1>6. CASE MigrationFault(i) \/ CommitUnanswered(i)
  <2>1. Harmless(i)
    BY <1>1, <1>6
    DEF MigrationFault, MigrationFails, CommitUnanswered, Harmless, Written, InTx, TypeOK,
        Migration
  <2>2. QED
    BY <2>1, HarmlessKeeps
<1>7. QED
  BY <1>2, <1>3, <1>4, <1>5, <1>6 DEF Migrating

LEMMA ExclusiveNext ==
    ASSUME TypeOK, Exclusive, [Next]_vars
    PROVE  Exclusive'
<1>1. ASSUME NEW i \in Instances, mig' = [mig EXCEPT ![i] = Idle]
      PROVE  Exclusive'
  <2>1. Harmless(i)
    BY <1>1 DEF Harmless, Written, InTx, Idle, TypeOK
  <2>2. QED
    BY <2>1, HarmlessKeeps
<1>2. CASE mig' = mig
  BY <1>2 DEF Exclusive, Written, InTx
<1>3. ASSUME NEW i \in Instances, NEW e, Return(i, e) PROVE Exclusive'
  BY <1>1, <1>3 DEF Return
<1>4. ASSUME NEW i \in Instances, Run(i) PROVE Exclusive'
  <2>1. CASE MigrateStep(i)
    BY <2>1, RunExcludes DEF MigrateStep, Migrating
  <2>2. CASE MigrateDone(i)
    BY <1>1, <2>2 DEF MigrateDone
  <2>3. CASE MigrateError(i) \/ ReadBackNotFound(i) \/ StartupCancelled(i) \/ ListenFails(i)
             \/ WaitDone(i)
    BY <1>3, <2>3
    DEF MigrateError, ReadBackNotFound, StartupCancelled, ListenFails, WaitDone
  <2>4. CASE RegisterBoot(i) \/ ReadBack(i) \/ Listen(i) \/ BeginDrain(i) \/ DrainDone(i)
             \/ GracePasses(i)
    BY <1>2, <2>4 DEF RegisterBoot, ReadBack, Listen, BeginDrain, DrainDone, GracePasses
  <2>5. QED
    BY <1>4, <2>1, <2>2, <2>3, <2>4 DEF Run
<1>5. ASSUME NEW i \in Instances, Faults(i) PROVE Exclusive'
  <2>1. CASE MigrateFault(i) \/ DownFault(i)
    BY <2>1, RunExcludes DEF MigrateFault, DownFault
  <2>2. CASE StartupFault(i) \/ Crash(i)
    BY <1>3, <2>2 DEF StartupFault, Crash
  <2>3. CASE Signal(i) \/ ServeFails(i)
    BY <1>2, <2>3 DEF Signal, ServeFails
  <2>4. QED
    BY <1>5, <2>1, <2>2, <2>3 DEF Faults
<1>6. ASSUME NEW i \in Instances, NEW t \in 0 .. Version, BeginDown(i, t)
      PROVE  Exclusive'
  BY <1>6, RunExcludes DEF BeginDown
<1>7. ASSUME NEW i \in Instances, DownStep(i) PROVE Exclusive'
  BY <1>7, RunExcludes DEF DownStep
<1>8. ASSUME NEW i \in Instances, DownEnds(i) PROVE Exclusive'
  BY <1>1, <1>8 DEF DownEnds
<1>9. ASSUME NEW i \in Instances, NEW env, StartRefused(i, env) \/ Start(i, env)
      PROVE  Exclusive'
  BY <1>2, <1>9 DEF StartRefused, Start
<1>10. ASSUME NEW i \in Instances, NEW r, Receive(i, r) \/ Answer(i, r)
       PROVE  Exclusive'
  BY <1>2, <1>10 DEF Receive, Answer
<1>11. ASSUME NEW i \in Instances, NEW c, Poll(i, c) \/ PollReturn(i, c)
       PROVE  Exclusive'
  BY <1>2, <1>11 DEF Poll, PollReturn
<1>12. CASE UNCHANGED vars
  BY <1>2, <1>12 DEF vars
<1>13. QED
  BY <1>4, <1>5, <1>6, <1>7, <1>8, <1>9, <1>10, <1>11, <1>12 DEF Next

LEMMA ExclusiveAlways == Spec => []Exclusive
<1>1. Init => Exclusive
  BY DEF Init, Exclusive, Written, InTx, Idle
<1>2. QED
  BY <1>1, ExclusiveNext, TypeCorrect, PTL DEF Spec

\* However many processes migrate one database at once, no two have the same
\* migration half applied, and on SQLite only one has any: what the lock of an
\* open transaction leaves of Up, which takes none of its own.
THEOREM OneMigrator == Spec => []Exclusive
BY ExclusiveAlways

\* Processes that migrate one database never wait for one another in a circle:
\* of the migrations that are open, one can go on.
THEOREM MigrationsMove == Spec => []SomeoneMigrates
<1>1. ASSUME TypeOK, Exclusive, NEW o \in Instances, InTx(o)
      PROVE  \E i \in Instances : InTx(i) /\ ~(mig[i].st = "tx" /\ Waits(i))
  <2>1. CASE \E i \in Instances : Written(i)
    <3>1. PICK i \in Instances : Written(i)
      BY <2>1
    <3>2. \A j \in Instances \ {i} : Written(j) => ~OneWriter /\ mig[j].at # mig[i].at
      BY <1>1, <3>1 DEF Exclusive
    <3>3. ~Waits(i)
      BY <3>2 DEF Waits, Written
    <3>4. QED
      BY <3>1, <3>3 DEF Written
  <2>2. CASE ~\E i \in Instances : Written(i)
    <3>1. ~Waits(o)
      BY <2>2 DEF Waits, Written
    <3>2. QED
      BY <1>1, <3>1
  <2>3. QED
    BY <2>1, <2>2
<1>2. TypeOK /\ Exclusive => SomeoneMigrates
  BY <1>1 DEF SomeoneMigrates
<1>3. QED
  BY <1>2, ExclusiveAlways, TypeCorrect, PTL

=============================================================================
