------------------------------ MODULE Ordering ------------------------------
(***************************************************************************)
(* A finite set as the sequence of its elements in order: what ORDER BY    *)
(* and the RPC node make of the events they select.                        *)
(***************************************************************************)
EXTENDS Integers, FiniteSets, Sequences

\* Less is the order, as the pairs that stand in it.
InOrder(S, Less) ==
    [i \in 1 .. Cardinality(S) |->
        CHOOSE x \in S : Cardinality({y \in S : <<y, x>> \in Less}) = i - 1]

\* Its first n elements, all of them when there are fewer.
FirstOf(S, Less, n) ==
    SubSeq(InOrder(S, Less), 1, IF Cardinality(S) < n THEN Cardinality(S) ELSE n)

=============================================================================
