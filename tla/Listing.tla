------------------------------- MODULE Listing -------------------------------
(***************************************************************************)
(* What eventStream (packages/sdk/src/client.ts) promises its caller,      *)
(* without ids, cursors, requests and statements: a traversal lists the    *)
(* matching events of a contract in the order asked for, page by page,     *)
(* each page the next Limit of the matches there are when it is read, and  *)
(* ends at the first that reaches the last of them.  Once the contract has *)
(* been deleted under it only that much is left: pages of matches, each in *)
(* order.  EventPaging is shown to implement this.                         *)
(***************************************************************************)
EXTENDS Integers, SequencesExt

CONSTANTS
    Contracts,
    Emitted,        \* as in EventPaging
    Limit           \* the page size

VARIABLES
    present,        \* the events in the table, by their place in Emitted
    mode,           \* "idle", "open", "done" or "failed"
    contract, asc,  \* what is listed, and whether oldest first
    yielded,        \* the events listed so far
    disturbed       \* the contract has been deleted since the traversal began

vars == <<present, mode, contract, asc, yielded, disturbed>>

Matches == {p \in present : Emitted[p].contract = contract /\ Emitted[p].hit}

Sooner(p, q) == IF asc THEN p < q ELSE p > q

Remaining == {p \in Matches : \A q \in ToSet(yielded) : Sooner(q, p)}

\* The next of what remains, all of it or a page full.
NextOfRemaining(page) ==
    /\ ToSet(page) \subseteq Remaining
    /\ \A p \in Remaining, q \in ToSet(page) : Sooner(p, q) => p \in ToSet(page)
    /\ Remaining \subseteq ToSet(page) <=> mode' = "done"
    /\ mode' = "open" => Len(page) = Limit

Turn(page) ==
    /\ mode = "open"
    /\ \A i, j \in DOMAIN page : i < j => Sooner(page[i], page[j])
    /\ yielded' = yielded \o page
    /\ mode' \in {"open", "done"}
    /\ ~disturbed => NextOfRemaining(page)
    /\ UNCHANGED <<present, contract, asc, disturbed>>

Fail ==
    /\ mode = "open"
    /\ mode' = "failed"
    /\ UNCHANGED <<present, contract, asc, yielded, disturbed>>

Start ==
    /\ mode # "open"
    /\ mode' = "open"
    /\ contract' \in Contracts
    /\ asc' \in BOOLEAN
    /\ yielded' = <<>>
    /\ disturbed' = FALSE
    /\ UNCHANGED present

\* Events arrive in order, contract by contract, and go all at once.
Commit(c, ps) ==
    /\ \A p \in ps : Emitted[p].contract = c
    /\ \A p \in ps, q \in present : Emitted[q].contract = c => q < p
    /\ present' = present \union ps
    /\ UNCHANGED <<mode, contract, asc, yielded, disturbed>>

Delete(c) ==
    /\ present' = {p \in present : Emitted[p].contract # c}
    /\ disturbed' = (disturbed \/ c = contract)
    /\ UNCHANGED <<mode, contract, asc, yielded>>

Init ==
    /\ present = {}
    /\ mode = "idle"
    /\ contract \in Contracts
    /\ asc = TRUE
    /\ yielded = <<>>
    /\ disturbed = FALSE

Next ==
    \/ \E page \in SeqOf(Matches, Limit) : Turn(page)
    \/ Fail \/ Start
    \/ \E c \in Contracts :
         Delete(c) \/ \E ps \in SUBSET DOMAIN Emitted : Commit(c, ps)

Spec == Init /\ [][Next]_vars

=============================================================================
