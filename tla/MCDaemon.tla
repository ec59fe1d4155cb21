------------------------------ MODULE MCDaemon ------------------------------
(***************************************************************************)
(* Instances for TLC: an old build with two migrations, a new one with     *)
(* three and a broken one whose files skip a version, on one Postgres      *)
(* database; starts in good and in bad environments.                       *)
(***************************************************************************)
EXTENDS Daemon

CONSTANTS old, new, broken, c1, c2

\* The up and the down file of each version.
FilesOf(versions) == [version : versions, label : {"m"}, up : BOOLEAN, blank : {FALSE}]

MCFiles == [i \in Instances |-> FilesOf(CASE i = old -> {1, 2}
                                          [] i = new -> {1, 2, 3}
                                          [] OTHER -> {1, 3})]

MCStatements == [v \in 1 .. 3 |-> IF v = 1 THEN 2 ELSE 1]

Entry(c) == [id |-> c, wellFormed |-> TRUE]

Good == [logLevel |-> Unset, logFormat |-> Unset, driver |-> "postgres", dbURL |-> "tls",
         poolMax |-> Unset, poolMin |-> Unset, insecureTLS |-> Unset, rpcURL |-> "http",
         network |-> "testnet", pollInterval |-> Unset, batchSize |-> 10000, rate |-> Unset,
         burst |-> Unset, readTimeout |-> 1, bootstrap |-> <<Entry(c1)>>, tokenLen |-> 16]

\* One environment to start in, and one for each way to be refused.
MCEnvironments ==
    {Good,
     [Good EXCEPT !.poolMax = 1],
     [Good EXCEPT !.driver = "sqlite", !.poolMax = 2],
     [Good EXCEPT !.dbURL = "plain"],
     [Good EXCEPT !.tokenLen = 15],
     [Good EXCEPT !.burst = 0],
     [Good EXCEPT !.pollInterval = HalfInt64],
     [Good EXCEPT !.rate = NotANumber],
     [Good EXCEPT !.batchSize = 10001],
     [Good EXCEPT !.bootstrap = <<Entry(c1), [id |-> "C", wellFormed |-> FALSE]>>]}

=============================================================================
