-------------------------- MODULE MCCampaignPoller --------------------------
(***************************************************************************)
(* Instances of CampaignPoller for TLC.                                    *)
(***************************************************************************)
EXTENDS CampaignPoller

CONSTANTS l1, l2, p1, p2

TwoLeaves == {l1, l2}
OnePoller == {p1}
TwoPollers == {p1, p2}
TwoPRs == {1, 2}

=============================================================================
