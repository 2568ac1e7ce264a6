--------------------------- MODULE MCCampaignTick ---------------------------
(***************************************************************************)
(* Instances of CampaignTick for TLC.                                      *)
(***************************************************************************)
EXTENDS CampaignTick

CONSTANTS A, B

TwoTenants == <<A, B>>

=============================================================================
