---------------------------- MODULE MCScheduler ----------------------------
(***************************************************************************)
(* Instances of Scheduler for TLC.                                         *)
(***************************************************************************)
EXTENDS Scheduler

CONSTANTS d1, d2, nightly, once

TwoDrivers == {d1, d2}
Once == {once}
Both == {nightly, once}

=============================================================================
