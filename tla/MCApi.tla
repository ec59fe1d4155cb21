-------------------------------- MODULE MCApi --------------------------------
(***************************************************************************)
(* Requests for TLC: every route, with what it accepts and what it         *)
(* refuses, and a GraphQL query that asks for several fields at once.      *)
(***************************************************************************)
EXTENDS Api

CONSTANTS c1, k1

NoArgs == [limit |-> Absent, order |-> Absent, cursor |-> Absent, from |-> Absent,
           to |-> Absent, name |-> Absent, topic |-> Absent]

F(op) == [op |-> op, contract |-> c1, id |-> 1, args |-> NoArgs, nested |-> FALSE]

Rest(field, token) == [graphql |-> FALSE, fields |-> <<field>>, token |-> token]
Query(fields) == [graphql |-> TRUE, fields |-> fields, token |-> FALSE]

Nested == [F("get") EXCEPT !.nested = TRUE]
\* Each fails one check of the query parsers, or of the ids.
BadArgs ==
    {[NoArgs EXCEPT !.limit = MaxPageSize + 1], [NoArgs EXCEPT !.from = 2, !.to = 1],
     [NoArgs EXCEPT !.topic = BadText]}

\* Accepted, and over MaxColumn.
WideArgs == [NoArgs EXCEPT !.from = 2]

Writing == {Rest(F(op), TRUE) : op \in {"register", "delete"}}

\* What can disturb a request is a write, so the second slot takes only those.
MCCatalogue ==
    [k \in Slots |->
        IF k # k1 THEN Writing
        ELSE Writing \union
             {Rest(F(op), FALSE) : op \in {"delete", "events", "event", "unrouted"}}
               \union {Rest([F("events") EXCEPT !.args = a], FALSE) : a \in BadArgs \union {WideArgs}}
               \union {Query(<<F("health"), Nested>>), Query(<<F("list")>>)}]

=============================================================================
