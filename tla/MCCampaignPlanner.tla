------------------------- MODULE MCCampaignPlanner -------------------------
(* Instances of CampaignPlanner for TLC: a root, with or without a child. *)
EXTENDS CampaignPlanner, Sequences, TLC

CONSTANTS p1, p2, o1

RootPath == << >>
RootAndChild == {<< >>, <<1>>}
RootAndChildOrder == [t \in Tasks |-> Len(t)]

ParentPath == [t \in Tasks \ {Root} |-> SubSeq(t, 1, Len(t) - 1)]
LastOrdinal == [t \in Tasks \ {Root} |-> t[Len(t)]]
PathDepth == [t \in Tasks |-> Len(t)]
PathPrefixes == [t \in Tasks |-> {SubSeq(t, 1, k) : k \in 0 .. Len(t)}]

OnePolicy == {[approve_levels |-> {}, max_depth |-> 1, max_children |-> 1,
               max_nodes |-> 2, max_plan_attempts |-> 1]}

=============================================================================
