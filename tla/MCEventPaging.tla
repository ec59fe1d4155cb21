---------------------------- MODULE MCEventPaging ----------------------------
(***************************************************************************)
(* Instances of EventPaging for TLC.  The chain interleaves two contracts  *)
(* and has an event of the first that the filters leave out.               *)
(***************************************************************************)
EXTENDS EventPaging

CONSTANTS c1, c2

TwoContracts == {c1, c2}
Ev(c, h) == [contract |-> c, hit |-> h]
Chain == <<Ev(c1, TRUE), Ev(c2, TRUE), Ev(c1, TRUE), Ev(c1, FALSE), Ev(c1, TRUE)>>
BothOrders == BOOLEAN

=============================================================================
