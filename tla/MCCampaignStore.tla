-------------------------- MODULE MCCampaignStore --------------------------
(***************************************************************************)
(* Instances of CampaignStore for TLC.  A row is its path below the root,  *)
(* written as the sequence of its ordinals.                                *)
(***************************************************************************)
EXTENDS CampaignStore, Sequences, TLC

RootPath == << >>

\* A task that can be split, replanned and split again, below the root.
NestedTree == {<< >>, <<1>>, <<1, 1>>, <<1, 2>>}

ParentPath == [t \in Tasks \ {Root} |-> SubSeq(t, 1, Len(t) - 1)]
LastOrdinal == [t \in Tasks \ {Root} |-> t[Len(t)]]
PathDepth == [t \in Tasks |-> Len(t)]
Prefixes == [t \in Tasks |-> {SubSeq(t, 1, k) : k \in 0 .. Len(t)}]

\* No approval gate; one failed planner call exhausts the attempts.
Ungated == [approve_levels |-> {}, max_depth |-> 2, max_children |-> 2,
            max_nodes |-> 4, max_plan_attempts |-> 1]

\* The leaves below the task wait for approval.
Gated == [Ungated EXCEPT !.approve_levels = {2}]

OnePolicy == {Ungated}
TwoPolicies == {Ungated, Gated}

Symmetry == Permutations(Owners) \cup Permutations(Planners)

\* The table lists the 84 tuples T2 boundary_exhaustive counts (rules.rs).
ASSUME AllowedCount ==
  Cardinality({<<f, t, k, a>> \in TaskState \X TaskState \X TaskKind \X ActorClass :
                 allowed(f, t, k, a)}) = 84

=============================================================================
