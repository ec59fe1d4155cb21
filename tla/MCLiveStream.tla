---------------------------- MODULE MCLiveStream ----------------------------
(***************************************************************************)
(* Instances of LiveStream for TLC.                                        *)
(***************************************************************************)
EXTENDS LiveStream

CONSTANTS c1, c2

TwoContracts == {c1, c2}
OneContract == {c1}
AllDecode == {TRUE}
SomePoison == BOOLEAN

=============================================================================
