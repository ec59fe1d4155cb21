---------------------------- MODULE SchemaVersion ----------------------------
(***************************************************************************)
(* What the migrations promise the rest of the daemon                      *)
(* (indexer/internal/db/migrate.go): the schema is always at some version, *)
(* moves by one version at a time, and under a process that uses it is     *)
(* never below the version that process was built for.                     *)
(***************************************************************************)
EXTENDS Naturals

CONSTANTS
    Users,      \* the processes
    Needs       \* Needs[u]: the last migration in u's binary

VARIABLES
    version,
    using       \* the processes that have found the schema migrated

svars == <<version, using>>

Init == version = 0 /\ using = {}

Upgrade == version' = version + 1 /\ UNCHANGED using

Downgrade ==
    /\ using = {}
    /\ version > 0
    /\ version' = version - 1
    /\ UNCHANGED using

Enter(u) ==
    /\ Needs[u] <= version
    /\ using' = using \union {u}
    /\ UNCHANGED version

Leave(u) ==
    /\ using' = using \ {u}
    /\ UNCHANGED version

Next == Upgrade \/ Downgrade \/ \E u \in Users : Enter(u) \/ Leave(u)

Spec == Init /\ [][Next]_svars

=============================================================================
