--------------------------- MODULE MCFleetReview ---------------------------
(***************************************************************************)
(* Instances of FleetReview for TLC.                                       *)
(***************************************************************************)
EXTENDS FleetReview, TLC

CONSTANTS r1, r2, p1

TwoRows == {r1, r2}
OneRow == {r1}
OnePr == <<p1>>

\* The webhooks and ReviewNow calls are about the row that does not poll.
OneAsked == {<<r2, p1>>}

=============================================================================
