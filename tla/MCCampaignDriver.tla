-------------------------- MODULE MCCampaignDriver --------------------------
(* Instances of CampaignDriver for TLC: a root and one leaf below it. *)
EXTENDS CampaignDriver, Sequences, TLC

CONSTANTS o1, o2, w1, w2

RootPath == << >>
OneLeaf == {<< >>, <<1>>}

ParentPath == [t \in Tasks \ {Root} |-> SubSeq(t, 1, Len(t) - 1)]
LastOrdinal == [t \in Tasks \ {Root} |-> t[Len(t)]]
PathDepth == [t \in Tasks |-> Len(t)]
Prefixes == [t \in Tasks |-> {SubSeq(t, 1, k) : k \in 0 .. Len(t)}]

OnePolicy == {[approve_levels |-> {}, max_depth |-> 1, max_children |-> 1,
               max_nodes |-> 2, max_plan_attempts |-> 1]}

\* Two drivers with one permit each; one driver with two permits.
OneEach == (w1 :> o1) @@ (w2 :> o2)
BothOfOne == (w1 :> o1) @@ (w2 :> o1)

=============================================================================
