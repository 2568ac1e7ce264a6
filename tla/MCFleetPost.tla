---------------------------- MODULE MCFleetPost ----------------------------
(***************************************************************************)
(* Instances of FleetPost for TLC.                                         *)
(***************************************************************************)
EXTENDS FleetPost, TLC

CONSTANTS r1, a1, a2, a3, s1, u1, p1, p2

OneReview == {r1}
ThreeApproves == {a1, a2, a3}
OneSkip == {s1}
OneSupersede == {u1}
TwoProcs == {p1, p2}
InTwoProcs == [c \in Calls |-> IF c = a2 THEN p2 ELSE p1]

=============================================================================
