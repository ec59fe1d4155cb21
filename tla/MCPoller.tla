------------------------------ MODULE MCPoller ------------------------------
(***************************************************************************)
(* Instances of Poller for TLC: one contract per goroutine, or two         *)
(* goroutines on one contract, which a repeated entry of the bootstrap     *)
(* list or a second process on the same database gives.                    *)
(***************************************************************************)
EXTENDS PollerHistory, TLC

CONSTANTS c1, c2, p1, p2

TwoContracts == {c1, c2}
OneContract == {c1}
TwoPollers == {p1, p2}
OnePoller == {p1}

OnlyFirst == p1 :> c1
BothSame == [p \in TwoPollers |-> c1]

AllDecode == {TRUE}
SomePoison == BOOLEAN
PlainFaults == {"fault"}
AnyFault == {"fault", "cancelled"}
NoFault == {}

=============================================================================
