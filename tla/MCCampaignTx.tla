---------------------------- MODULE MCCampaignTx ----------------------------
(***************************************************************************)
(* Instances of CampaignTx for TLC: a root with two children a and b, and  *)
(* one child below a.                                                      *)
(***************************************************************************)
EXTENDS CampaignTx, TLC

CONSTANTS r, a, b, a1, t1, t2

TwoTxs == {t1, t2}
FourRows == {r, a, b, a1}
PlaceOf == r :> 1 @@ a :> 2 @@ b :> 3 @@ a1 :> 4
DepthOf == r :> 0 @@ a :> 1 @@ b :> 1 @@ a1 :> 2
ParentOf == a :> r @@ b :> r @@ a1 :> a
LineageOf == r :> {r} @@ a :> {r, a} @@ b :> {r, b} @@ a1 :> {r, a, a1}
NoDeps == [x \in FourRows |-> {}]
OneBranch == {r, a}

TreeOps == {"plan_start", "decompose", "plan_reject", "mark_leaf", "approve",
            "approve_children", "claim", "cancel", "replan"}

TxSymmetry == Permutations(Txs)

=============================================================================
