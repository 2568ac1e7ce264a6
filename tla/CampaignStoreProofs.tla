------------------------ MODULE CampaignStoreProofs ------------------------
(***************************************************************************)
(* Proofs about CampaignStore for every tree, every set of owners and      *)
(* planner calls and every set of policies.                                *)
(***************************************************************************)
EXTENDS CampaignStore, FiniteSetTheorems, TLAPS

States == TaskState \cup {Absent}

-----------------------------------------------------------------------------
(* The transition table. *)

\* What allowed() says of any move: where it cannot start, who may finish a row
\* and who may lease one.
LEMMA AllowedFacts ==
  ASSUME NEW f, NEW s, NEW k, NEW a, allowed(f, s, k, a)
  PROVE  /\ s \in TaskState /\ f # s
         /\ ~is_terminal(f)
         /\ is_leased(s) => k = "leaf"
         /\ s = "claimed" => f = "ready" /\ a = "driver"
         /\ s = "running" => f = "claimed"
         /\ s = "in_review" => f = "running"
         /\ s = "failed" => f \in {"running", "in_review"}
         /\ s = "done" => \/ k = "leaf" /\ f = "in_review"
                          \/ k # "leaf" /\ f \in {"decomposed", "blocked"} /\ a = "rollup"
BY DEF allowed, is_terminal, is_leased, TaskState

\* The rows only rollup moves are never leased ones.
LEMMA RollupActorFacts ==
  ASSUME NEW f, NEW s, NEW k, allowed(f, s, k, "rollup")
  PROVE  /\ f \in {"ready", "decomposed", "blocked"}
         /\ s \in {"decomposed", "blocked", "done"}
BY DEF allowed, is_terminal, is_leased

-----------------------------------------------------------------------------
(* The tree. *)

\* What the paths say of a parent: it is the nearest proper ancestor, and the
\* ancestors of an ancestor are ancestors.
LEMMA TreeFacts ==
  /\ \A t \in Tasks : t \in Lineage[t] /\ Ancestors(t) \subseteq Tasks
  /\ \A t \in Tasks \ {Root} : /\ Parent[t] \in Tasks
                               /\ Parent[t] # t
                               /\ Parent[t] \in Ancestors(t)
  /\ \A t \in Tasks : \A c \in Ancestors(t) \ {Root} : Parent[c] \in Ancestors(t)
<1>1. \A t \in Tasks : t \in Lineage[t] /\ Ancestors(t) \subseteq Tasks
  BY TreeAssumption DEF Ancestors
<1>2. \A t \in Tasks \ {Root} : /\ Parent[t] \in Tasks
                                /\ Parent[t] # t
                                /\ Parent[t] \in Ancestors(t)
  BY <1>1, TreeAssumption DEF Ancestors
<1>3. ASSUME NEW t \in Tasks, NEW c \in Ancestors(t) \ {Root}
      PROVE  Parent[c] \in Ancestors(t)
  <2>1. c \in Tasks /\ c \in Lineage[t] /\ c # t
    BY <1>1 DEF Ancestors
  <2>2. Parent[c] \in Lineage[t]
    BY <2>1, <1>2, TreeAssumption DEF Ancestors
  <2>3. Parent[c] # t
    BY <2>1, TreeAssumption
  <2> QED BY <2>2, <2>3 DEF Ancestors
<1> QED BY <1>1, <1>2, <1>3

-----------------------------------------------------------------------------
(* The rollup pass. *)

\* The rule answers with the parent's own state or with a state of RollupStates,
\* rewrites only decomposed and blocked parents, and answers done over live
\* children that are all done.
LEMMA RuleFacts ==
  ASSUME NEW p, NEW C
  PROVE  /\ rollup(p, C) # p => p \in {"decomposed", "blocked"}
         /\ rollup(p, C) \in RollupStates \cup {p}
         /\ rollup(p, C) = "done" /\ p # "done" => live_states(C) = {"done"}
         /\ rollup(p, C) = "decomposed" /\ C \ {"superseded"} # {} =>
              \E s \in C : ~is_terminal(s)
BY DEF rollup, live_states, RollupStates, is_terminal

\* What the pass started above t does to the state column st: rows that are not
\* ancestors of t keep their state, a rewritten row has the state the rule gives
\* it, and the parent of t and of every rewritten row has been recomputed.
LEMMA RollupFacts ==
  ASSUME NEW t \in Tasks, NEW st \in [Tasks -> States], NEW res \in rollup_from(st, t)
  PROVE  /\ res \in [Tasks -> States]
         /\ \A n \in Tasks : n \notin Ancestors(t) => res[n] = st[n]
         /\ \A n \in Tasks : res[n] # st[n] => /\ res[n] = rolled(st, res, n)
                                               /\ res[n] \in RollupStates
                                               /\ st[n] \in {"decomposed", "blocked"}
         /\ t # Root => res[Parent[t]] = rolled(st, res, Parent[t])
         /\ \A c \in Tasks \ {Root} :
              res[c] # st[c] => res[Parent[c]] = rolled(st, res, Parent[c])
<1>1. PICK g \in UNION {[C -> RollupStates] : C \in SUBSET Ancestors(t)} :
         res = [n \in Tasks |-> IF n \in DOMAIN g THEN g[n] ELSE st[n]]
  BY DEF rollup_from
<1>2. \A a \in Ancestors(t) :
         res[a] = IF reached(st, res, t, a) THEN rolled(st, res, a) ELSE st[a]
  BY DEF rollup_from
<1>3. RollupStates \subseteq States
  BY DEF RollupStates, States, TaskState
<1>a. PICK C \in SUBSET Ancestors(t) : g \in [C -> RollupStates]
  OBVIOUS
<1>4. res \in [Tasks -> States]
  BY <1>1, <1>a, <1>3
<1>5. \A n \in Tasks : n \notin Ancestors(t) => res[n] = st[n]
  BY <1>1, <1>a
<1>6. ASSUME NEW n \in Tasks, res[n] # st[n]
      PROVE  /\ res[n] = rolled(st, res, n)
             /\ res[n] \in RollupStates
             /\ st[n] \in {"decomposed", "blocked"}
  <2>1. n \in Ancestors(t)
    BY <1>5, <1>6
  <2>2. res[n] = rolled(st, res, n)
    BY <1>2, <1>6, <2>1
  <2> QED BY <2>2, <1>6, RuleFacts DEF rolled
<1>7. t # Root => res[Parent[t]] = rolled(st, res, Parent[t])
  BY <1>2, TreeFacts DEF reached
<1>8. ASSUME NEW c \in Tasks \ {Root}, res[c] # st[c]
      PROVE  res[Parent[c]] = rolled(st, res, Parent[c])
  <2>1. c \in Ancestors(t) \ {Root}
    BY <1>5, <1>8
  <2>2. Parent[c] \in Ancestors(t)
    BY <2>1, TreeFacts
  <2>3. reached(st, res, t, Parent[c])
    BY <2>1, <1>8 DEF reached
  <2> QED BY <1>2, <2>2, <2>3
<1> QED BY <1>4, <1>5, <1>6, <1>7, <1>8

-----------------------------------------------------------------------------
(* Type correctness. *)

\* A state column stays one when rows are moved to a state.
LEMMA MoveType ==
  ASSUME NEW st \in [Tasks -> States], NEW S, NEW s \in TaskState
  PROVE  move(st, S, s) \in [Tasks -> States]
BY DEF move, States

\* The states the protocols name are states.
LEMMA NamedStates ==
  {"draft", "ready", "decomposing", "decomposed", "blocked", "claimed", "running",
   "in_review", "done", "failed", "cancelled", "superseded", "awaiting_approval"}
  \subseteq TaskState
BY DEF TaskState

\* The columns a state write touches keep their types.
LEMMA TransitionType ==
  ASSUME TypeOK, NEW st \in [Tasks -> States], NEW S, NEW actor,
         transition(st, S, actor)
  PROVE  /\ state' = st
         /\ state' \in [Tasks -> TaskState \cup {Absent}]
         /\ stale' \subseteq Tasks
         /\ owner' \in [Tasks -> Owners \cup {NoOwner}]
         /\ expired' \subseteq Tasks
BY DEF TypeOK, transition, States

\* A state write with its version bump keeps the types of the columns it touches.
LEMMA WriteType ==
  ASSUME TypeOK, NEW st \in [Tasks -> States], NEW S, NEW actor,
         write(st, S, actor)
  PROVE  /\ state' = st
         /\ state' \in [Tasks -> TaskState \cup {Absent}]
         /\ stale' \subseteq Tasks
         /\ owner' \in [Tasks -> Owners \cup {NoOwner}]
         /\ expired' \subseteq Tasks
         /\ holder' \in [Tasks -> Planners \cup {NoPlanner}]
BY TransitionType DEF TypeOK, write, bump

\* So does the write of a rolled-up state column.
LEMMA RollupWriteType ==
  ASSUME TypeOK, NEW t \in Tasks, NEW st \in [Tasks -> States], NEW S, NEW actor,
         \E res \in rollup_from(st, t) : write(res, S, actor)
  PROVE  /\ state' \in [Tasks -> TaskState \cup {Absent}]
         /\ stale' \subseteq Tasks
         /\ owner' \in [Tasks -> Owners \cup {NoOwner}]
         /\ expired' \subseteq Tasks
         /\ holder' \in [Tasks -> Planners \cup {NoPlanner}]
<1>1. PICK res \in rollup_from(st, t) : write(res, S, actor)
  OBVIOUS
<1>2. res \in [Tasks -> States]
  BY RollupFacts
<1> QED BY <1>1, <1>2, WriteType

\* Closing attempts keeps the attempt counts counts.
LEMMA CloseWorkType ==
  ASSUME TypeOK, NEW S, close_work(S)
  PROVE  pending' \in [Tasks -> [Owners -> Nat]]
BY DEF TypeOK, close_work

\* So does closing the attempts of one owner.
LEMMA CloseWorkOfType ==
  ASSUME TypeOK, NEW t \in Tasks, NEW o \in Owners, close_work_of(t, o)
  PROVE  pending' \in [Tasks -> [Owners -> Nat]]
BY DEF TypeOK, close_work_of

\* The states block_dependents leaves behind are states.
LEMMA FailedType ==
  ASSUME TypeOK, NEW t \in Tasks
  PROVE  block_dependents(move(state, {t}, "failed"), t) \in [Tasks -> States]
BY MoveType, NamedStates DEF TypeOK, block_dependents, States

\* Every step of the store keeps the columns in their types.
LEMMA TypeStep ==
  ASSUME TypeOK, [Next]_vars
  PROVE  TypeOK'
<1> USE TypeOK DEF States
<1>0. state \in [Tasks -> States]
  BY DEF TypeOK
<1>1. ASSUME NEW t \in Tasks, plan_start_blocked(t)
       PROVE  TypeOK'
  <2>1. move(state, {t}, "blocked") \in [Tasks -> States]
    BY <1>0, MoveType, NamedStates
  <2> QED BY <2>1, <1>1, RollupWriteType DEF plan_start_blocked, TypeOK, tree_vars, plan_vars, lease_vars
<1>2. ASSUME NEW p \in Planners, NEW t \in Tasks, plan_start(p, t)
       PROVE  TypeOK'
  <2>1. move(state, {t}, "decomposing") \in [Tasks -> States]
    BY <1>0, MoveType, NamedStates
  <2> QED BY <2>1, <1>2, TransitionType DEF plan_start, TypeOK, tree_vars, plan_vars, lease_vars
<1>3. ASSUME NEW p \in Planners, NEW t \in Tasks, NEW n \in 1 .. MAX_CHILDREN, decompose(p, t, n)
       PROVE  TypeOK'
  <2> DEFINE batch == new_children(t, n)
             first == IF gated(Depth[t] + 1) THEN "awaiting_approval" ELSE "ready"
             st    == move(move(state, batch, first), {t}, "decomposed")
  <2>1. st \in [Tasks -> States]
    BY <1>0, MoveType, NamedStates
  <2>2. batch \subseteq Tasks
    BY DEF new_children, Slots
  <2>3. write(st, {t}, "planner")
    BY <1>3 DEF decompose
  <2>4. depends_on' \in [Tasks -> SUBSET Tasks]
    <3>1. PICK deps \in [batch -> SUBSET batch] :
             depends_on' = [c \in Tasks |-> IF c \in batch THEN deps[c] ELSE depends_on[c]]
      BY <1>3 DEF decompose
    <3> HIDE DEF batch
    <3> QED BY <3>1, <2>2 DEF TypeOK
  <2>5. /\ token_cap' \in BOOLEAN
        /\ UNCHANGED <<kind, attempts, pending, policy>>
    BY <1>3 DEF decompose, plan_attempt, TypeOK
  <2> HIDE DEF st
  <2> QED BY <2>1, <2>3, <2>4, <2>5, WriteType DEF TypeOK
<1>4. ASSUME NEW p \in Planners, NEW t \in Tasks, mark_leaf(p, t)
       PROVE  TypeOK'
  <2> DEFINE st == move(state, {t}, IF gated(Depth[t]) THEN "awaiting_approval" ELSE "ready")
  <2>1. st \in [Tasks -> States]
    BY <1>0, MoveType, NamedStates
  <2>2. write(st, {t}, "planner")
    BY <1>4 DEF mark_leaf
  <2>3. kind' \in [Tasks -> TaskKind]
    BY <1>4 DEF mark_leaf, TypeOK, TaskKind
  <2>4. token_cap' \in BOOLEAN /\ UNCHANGED <<depends_on, attempts, pending, policy>>
    BY <1>4 DEF mark_leaf, plan_attempt, TypeOK
  <2> HIDE DEF st
  <2> QED BY <2>1, <2>2, <2>3, <2>4, WriteType DEF TypeOK
<1>5. ASSUME NEW p \in Planners, NEW t \in Tasks, plan_close_needs_info(p, t)
       PROVE  TypeOK'
  <2>1. move(state, {t}, "awaiting_approval") \in [Tasks -> States]
    BY <1>0, MoveType, NamedStates
  <2> QED BY <2>1, <1>5, WriteType DEF plan_close_needs_info, plan_attempt, TypeOK, tree_vars, plan_vars, lease_vars
<1>6. ASSUME NEW p \in Planners, NEW t \in Tasks, plan_close_reject(p, t)
       PROVE  TypeOK'
  <2>1. move(state, {t}, "blocked") \in [Tasks -> States]
    BY <1>0, MoveType, NamedStates
  <2> QED BY <2>1, <1>6, RollupWriteType DEF plan_close_reject, plan_attempt, TypeOK, tree_vars, plan_vars, lease_vars
<1>7. ASSUME NEW p \in Planners, NEW t \in Tasks, plan_close_error(p, t)
       PROVE  TypeOK'
  <2>1. /\ move(state, {t}, "blocked") \in [Tasks -> States]
        /\ move(state, {t}, "ready") \in [Tasks -> States]
    BY <1>0, MoveType, NamedStates
  <2>2. attempts' \in [Tasks -> Nat]
    BY <1>7 DEF plan_close_error, TypeOK
  <2>3. token_cap' \in BOOLEAN /\ UNCHANGED <<tree_vars, pending, policy>>
    BY <1>7 DEF plan_close_error, plan_attempt, TypeOK
  <2>4. CASE attempts[t] + 1 >= policy.max_plan_attempts
    BY <2>1, <2>2, <2>3, <2>4, <1>7, RollupWriteType DEF plan_close_error, TypeOK, tree_vars
  <2>5. CASE ~(attempts[t] + 1 >= policy.max_plan_attempts)
    BY <2>1, <2>2, <2>3, <2>5, <1>7, WriteType DEF plan_close_error, TypeOK, tree_vars
  <2> QED BY <2>4, <2>5
<1>8. ASSUME NEW o \in Owners, NEW S \in SUBSET Tasks, claim(o, S)
       PROVE  TypeOK'
  <2>1. move(state, S, "claimed") \in [Tasks -> States]
    BY <1>0, MoveType, NamedStates
  <2>2. pending' \in [Tasks -> [Owners -> Nat]]
    BY <1>8 DEF claim, TypeOK
  <2> QED BY <2>1, <2>2, <1>8 DEF claim, bump, TypeOK, tree_vars, plan_vars
<1>9. ASSUME NEW o \in Owners, NEW t \in Tasks, heartbeat(o, t)
       PROVE  TypeOK'
  BY <1>9 DEF heartbeat, TypeOK, tree_vars, plan_vars
<1>10. ASSUME NEW o \in Owners, NEW t \in Tasks, start(o, t)
       PROVE  TypeOK'
  <2>1. move(state, {t}, "running") \in [Tasks -> States]
    BY <1>0, MoveType, NamedStates
  <2> QED BY <2>1, <1>10, WriteType DEF start, TypeOK, tree_vars, plan_vars, lease_vars
<1>11. ASSUME NEW o \in Owners, NEW t \in Tasks, complete(o, t)
       PROVE  TypeOK'
  <2>1. move(state, {t}, "in_review") \in [Tasks -> States]
    BY <1>0, MoveType, NamedStates
  <2> QED BY <2>1, <1>11, WriteType, CloseWorkOfType DEF complete, TypeOK, tree_vars, plan_vars, lease_vars
<1>12. ASSUME NEW o \in Owners, NEW t \in Tasks, fail(o, t)
       PROVE  TypeOK'
  BY <1>12, FailedType, RollupWriteType, CloseWorkOfType
     DEF fail, TypeOK, tree_vars, plan_vars
<1>13. ASSUME NEW S \in SUBSET Tasks, reap(S)
       PROVE  TypeOK'
  <2>1. move(state, S, "ready") \in [Tasks -> States]
    BY <1>0, MoveType, NamedStates
  <2> QED BY <2>1, <1>13, WriteType, CloseWorkType DEF reap, TypeOK, tree_vars, plan_vars, lease_vars
<1>14. ASSUME NEW S \in SUBSET Tasks, reap_decomposing(S)
       PROVE  TypeOK'
  <2>1. move(state, S, "ready") \in [Tasks -> States]
    BY <1>0, MoveType, NamedStates
  <2> QED BY <2>1, <1>14, WriteType DEF reap_decomposing, TypeOK, tree_vars, plan_vars, lease_vars
<1>15. ASSUME NEW t \in Tasks, resolve_merged(t)
       PROVE  TypeOK'
  <2>1. move(state, {t}, "done") \in [Tasks -> States]
    BY <1>0, MoveType, NamedStates
  <2> QED BY <2>1, <1>15, RollupWriteType DEF resolve_merged, TypeOK, tree_vars, plan_vars, lease_vars
<1>16. ASSUME NEW t \in Tasks, resolve_closed(t)
       PROVE  TypeOK'
  BY <1>16, FailedType, RollupWriteType
     DEF resolve_closed, TypeOK, tree_vars, plan_vars
<1>17. ASSUME NEW s \in {"draft", "ready"}, create(s)
       PROVE  TypeOK'
  BY <1>17, NamedStates, TreeAssumption
     DEF create, TypeOK, tree_vars, plan_vars, lease_vars
<1>18. ASSUME NEW pol \in Policies, update_policy(pol)
       PROVE  TypeOK'
  BY <1>18, TreeAssumption DEF update_policy, TypeOK, tree_vars, plan_vars, lease_vars
<1>19. ASSUME NEW t \in Tasks, approve(t)
       PROVE  TypeOK'
  <2>1. move(state, {t}, "ready") \in [Tasks -> States]
    BY <1>0, MoveType, NamedStates
  <2> QED BY <2>1, <1>19, WriteType DEF approve, TypeOK, tree_vars, plan_vars, lease_vars
<1>20. ASSUME NEW t \in Tasks, answer(t)
       PROVE  TypeOK'
  <2>1. move(state, {t}, "ready") \in [Tasks -> States]
    BY <1>0, MoveType, NamedStates
  <2> QED BY <2>1, <1>20, WriteType DEF answer, TypeOK, tree_vars, plan_vars, lease_vars
<1>21. ASSUME NEW t \in Tasks, approve_children(t)
       PROVE  TypeOK'
  <2> DEFINE waiting == {c \in children_of(state, t) : state[c] = "awaiting_approval"}
  <2>1. move(state, waiting, "ready") \in [Tasks -> States]
    BY <1>0, MoveType, NamedStates
  <2> QED BY <2>1, <1>21, WriteType DEF approve_children, TypeOK, tree_vars, plan_vars
<1>22. ASSUME NEW t \in Tasks, retry(t)
       PROVE  TypeOK'
  <2>1. move(state, {t}, "ready") \in [Tasks -> States]
    BY <1>0, MoveType, NamedStates
  <2> QED BY <2>1, <1>22, RollupWriteType DEF retry, TypeOK, tree_vars, plan_vars, lease_vars
<1>23. ASSUME NEW t \in Tasks, cancel(t)
       PROVE  TypeOK'
  <2> DEFINE S == {n \in subtree_of(t) : ~is_terminal(state[n])}
  <2>1. move(state, S, "cancelled") \in [Tasks -> States]
    BY <1>0, MoveType, NamedStates
  <2>2. /\ \E st \in rollup_from(move(state, S, "cancelled"), t) : write(st, S, "user")
        /\ close_work(S)
        /\ UNCHANGED <<tree_vars, plan_vars, policy>>
    BY <1>23 DEF cancel
  <2> HIDE DEF S
  <2> QED BY <2>1, <2>2, RollupWriteType, CloseWorkType DEF TypeOK, tree_vars, plan_vars
<1>24. ASSUME NEW t \in Tasks, replan(t)
       PROVE  TypeOK'
  <2> DEFINE S  == {n \in subtree_of(t) \ {t} : ~is_terminal(state[n])}
             st == move(move(state, S, "superseded"), {t}, "decomposing")
  <2>1. st \in [Tasks -> States]
    BY <1>0, MoveType, NamedStates
  <2>2. /\ write(st, S \cup {t}, "user")
        /\ close_work(S)
        /\ attempts' = [attempts EXCEPT ![t] = 0]
        /\ UNCHANGED <<tree_vars, token_cap, policy>>
    BY <1>24 DEF replan
  <2> HIDE DEF S, st
  <2> QED BY <2>1, <2>2, WriteType, CloseWorkType DEF TypeOK, tree_vars
<1>25. ASSUME NEW t \in Tasks, lease_expires(t)
       PROVE  TypeOK'
  BY <1>25 DEF lease_expires, TypeOK, tree_vars, plan_vars
<1>26. ASSUME NEW t \in Tasks, plan_goes_stale(t)
       PROVE  TypeOK'
  BY <1>26 DEF plan_goes_stale, TypeOK, tree_vars, plan_vars, lease_vars
<1>27. CASE UNCHANGED vars
  BY <1>27 DEF vars, TypeOK
<1> QED
  BY <1>1, <1>2, <1>3, <1>4, <1>5, <1>6, <1>7, <1>8, <1>9, <1>10, <1>11, <1>12, <1>13, <1>14,
     <1>15, <1>16, <1>17, <1>18, <1>19, <1>20, <1>21, <1>22, <1>23, <1>24, <1>25, <1>26, <1>27
     DEF Next, PlannerStep, WorkerStep, DriverStep, UserStep, Clock

\* The initial columns are of their types.
LEMMA InitType == Init => TypeOK
<1> SUFFICES ASSUME Init PROVE TypeOK
  OBVIOUS
<1>1. token_cap \in BOOLEAN
  BY DEF Init
<1>2. pending \in [Tasks -> [Owners -> Nat]] /\ attempts \in [Tasks -> Nat]
  BY DEF Init
<1>3. kind \in [Tasks -> TaskKind]
  BY DEF Init, TaskKind
<1> QED BY <1>1, <1>2, <1>3 DEF Init, TypeOK

\* The store keeps its columns in their types: TypeOK of the runs, for every tree.
THEOREM TypeCorrect == Spec => []TypeOK
<1>1. Init => TypeOK
  BY InitType
<1>2. TypeOK /\ [Next]_vars => TypeOK'
  BY TypeStep
<1> QED BY <1>1, <1>2, PTL DEF Spec

-----------------------------------------------------------------------------
(* What a single step may do to a row. *)

\* A row's next state, when the row is there: its own, or one that allowed()
\* grants to some actor.
MovesAllowed ==
  \A t \in Tasks : exists(t) =>
    \/ state'[t] = state[t]
    \/ \E a \in ActorClass : allowed(state[t], state'[t], kind[t], a)

\* A row's next kind: its own, or leaf when mark_leaf takes it.
KindsGrow ==
  \A t \in Tasks : \/ kind'[t] = kind[t]
                   \/ /\ kind'[t] = "leaf" /\ children_of(state, t) = {}
                      /\ state[t] = "decomposing"
                      /\ state'[t] \in {"awaiting_approval", "ready"}

\* A state write moves the rows that are there as the table grants.
LEMMA TransitionAllowed ==
  ASSUME NEW st, NEW S, NEW actor \in ActorClass, transition(st, S, actor)
  PROVE  MovesAllowed
BY DEF transition, MovesAllowed, ActorClass

\* Every step obeys the transition table, the statements that bypass
\* transition() (claim) included.
LEMMA StepAllowed ==
  ASSUME TypeOK, [Next]_vars
  PROVE  MovesAllowed /\ KindsGrow
<1> USE DEF ActorClass
<1>1. ASSUME NEW t \in Tasks, plan_start_blocked(t)
       PROVE  MovesAllowed /\ KindsGrow
  <2>1. PICK st, S0 : transition(st, S0, "planner")
    BY <1>1 DEF plan_start_blocked, write
  <2> QED BY <2>1, <1>1, TransitionAllowed DEF plan_start_blocked, KindsGrow, tree_vars
<1>2. ASSUME NEW p \in Planners, NEW t \in Tasks, plan_start(p, t)
       PROVE  MovesAllowed /\ KindsGrow
  <2>1. PICK st, S0 : transition(st, S0, "planner")
    BY <1>2 DEF plan_start, write
  <2> QED BY <2>1, <1>2, TransitionAllowed DEF plan_start, KindsGrow, tree_vars
<1>3. ASSUME NEW p \in Planners, NEW t \in Tasks, NEW n \in 1 .. MAX_CHILDREN, decompose(p, t, n)
       PROVE  MovesAllowed /\ KindsGrow
  <2>1. PICK st : transition(st, {t}, "planner")
    BY <1>3 DEF decompose, write
  <2> QED BY <2>1, <1>3, TransitionAllowed DEF decompose, KindsGrow
<1>4. ASSUME NEW p \in Planners, NEW t \in Tasks, mark_leaf(p, t)
       PROVE  MovesAllowed /\ KindsGrow
  <2> DEFINE s == IF gated(Depth[t]) THEN "awaiting_approval" ELSE "ready"
  <2>1. /\ transition(move(state, {t}, s), {t}, "planner")
        /\ children_of(state, t) = {} /\ cas(p, t)
        /\ kind' = [kind EXCEPT ![t] = "leaf"]
    BY <1>4 DEF mark_leaf, write
  <2>2. state'[t] \in {"awaiting_approval", "ready"}
    BY <2>1 DEF transition, move
  <2> HIDE DEF s
  <2>3. MovesAllowed
    BY <2>1, TransitionAllowed
  <2> QED BY <2>1, <2>2, <2>3 DEF KindsGrow, cas, TypeOK
<1>5. ASSUME NEW p \in Planners, NEW t \in Tasks, plan_close_needs_info(p, t)
       PROVE  MovesAllowed /\ KindsGrow
  <2>1. PICK st, S0 : transition(st, S0, "planner")
    BY <1>5 DEF plan_close_needs_info, write
  <2> QED BY <2>1, <1>5, TransitionAllowed DEF plan_close_needs_info, KindsGrow, tree_vars
<1>6. ASSUME NEW p \in Planners, NEW t \in Tasks, plan_close_reject(p, t)
       PROVE  MovesAllowed /\ KindsGrow
  <2>1. PICK st, S0 : transition(st, S0, "planner")
    BY <1>6 DEF plan_close_reject, write
  <2> QED BY <2>1, <1>6, TransitionAllowed DEF plan_close_reject, KindsGrow, tree_vars
<1>7. ASSUME NEW p \in Planners, NEW t \in Tasks, plan_close_error(p, t)
       PROVE  MovesAllowed /\ KindsGrow
  <2>1. PICK st, S0 : transition(st, S0, "planner")
    BY <1>7 DEF plan_close_error, write
  <2> QED BY <2>1, <1>7, TransitionAllowed DEF plan_close_error, KindsGrow, tree_vars
<1>8. ASSUME NEW o \in Owners, NEW S \in SUBSET Tasks, claim(o, S)
       PROVE  MovesAllowed /\ KindsGrow
  <2>1. ASSUME NEW t \in Tasks, state'[t] # state[t]
        PROVE  allowed(state[t], state'[t], kind[t], "driver")
    BY <1>8, <2>1 DEF claim, claimable, move, allowed
  <2> QED BY <2>1, <1>8 DEF MovesAllowed, KindsGrow, claim, tree_vars
<1>9. ASSUME NEW o \in Owners, NEW t \in Tasks, heartbeat(o, t)
       PROVE  MovesAllowed /\ KindsGrow
  BY <1>9 DEF heartbeat, MovesAllowed, KindsGrow, tree_vars
<1>10. ASSUME NEW o \in Owners, NEW t \in Tasks, start(o, t)
       PROVE  MovesAllowed /\ KindsGrow
  <2>1. PICK st, S0 : transition(st, S0, "worker")
    BY <1>10 DEF start, write
  <2> QED BY <2>1, <1>10, TransitionAllowed DEF start, KindsGrow, tree_vars
<1>11. ASSUME NEW o \in Owners, NEW t \in Tasks, complete(o, t)
       PROVE  MovesAllowed /\ KindsGrow
  <2>1. PICK st, S0 : transition(st, S0, "worker")
    BY <1>11 DEF complete, write
  <2> QED BY <2>1, <1>11, TransitionAllowed DEF complete, KindsGrow, tree_vars
<1>12. ASSUME NEW o \in Owners, NEW t \in Tasks, fail(o, t)
       PROVE  MovesAllowed /\ KindsGrow
  <2>1. PICK st, S0 : transition(st, S0, "worker")
    BY <1>12 DEF fail, write
  <2> QED BY <2>1, <1>12, TransitionAllowed DEF fail, KindsGrow, tree_vars
<1>13. ASSUME NEW S \in SUBSET Tasks, reap(S)
       PROVE  MovesAllowed /\ KindsGrow
  <2>1. PICK st, S0 : transition(st, S0, "reaper")
    BY <1>13 DEF reap, write
  <2> QED BY <2>1, <1>13, TransitionAllowed DEF reap, KindsGrow, tree_vars
<1>14. ASSUME NEW S \in SUBSET Tasks, reap_decomposing(S)
       PROVE  MovesAllowed /\ KindsGrow
  <2>1. PICK st, S0 : transition(st, S0, "reaper")
    BY <1>14 DEF reap_decomposing, write
  <2> QED BY <2>1, <1>14, TransitionAllowed DEF reap_decomposing, KindsGrow, tree_vars
<1>15. ASSUME NEW t \in Tasks, resolve_merged(t)
       PROVE  MovesAllowed /\ KindsGrow
  <2>1. PICK st, S0 : transition(st, S0, "poller")
    BY <1>15 DEF resolve_merged, write
  <2> QED BY <2>1, <1>15, TransitionAllowed DEF resolve_merged, KindsGrow, tree_vars
<1>16. ASSUME NEW t \in Tasks, resolve_closed(t)
       PROVE  MovesAllowed /\ KindsGrow
  <2>1. PICK st, S0 : transition(st, S0, "poller")
    BY <1>16 DEF resolve_closed, write
  <2> QED BY <2>1, <1>16, TransitionAllowed DEF resolve_closed, KindsGrow, tree_vars
<1>17. ASSUME NEW s \in {"draft", "ready"}, create(s)
       PROVE  MovesAllowed /\ KindsGrow
  BY <1>17, TreeAssumption DEF create, exists, TypeOK, MovesAllowed, KindsGrow, tree_vars
<1>18. ASSUME NEW pol \in Policies, update_policy(pol)
       PROVE  MovesAllowed /\ KindsGrow
  BY <1>18 DEF update_policy, MovesAllowed, KindsGrow, tree_vars
<1>19. ASSUME NEW t \in Tasks, approve(t)
       PROVE  MovesAllowed /\ KindsGrow
  <2>1. PICK st, S0 : transition(st, S0, "user")
    BY <1>19 DEF approve, write
  <2> QED BY <2>1, <1>19, TransitionAllowed DEF approve, KindsGrow, tree_vars
<1>20. ASSUME NEW t \in Tasks, answer(t)
       PROVE  MovesAllowed /\ KindsGrow
  <2>1. PICK st, S0 : transition(st, S0, "user")
    BY <1>20 DEF answer, write
  <2> QED BY <2>1, <1>20, TransitionAllowed DEF answer, KindsGrow, tree_vars
<1>21. ASSUME NEW t \in Tasks, approve_children(t)
       PROVE  MovesAllowed /\ KindsGrow
  <2>1. PICK st, S0 : transition(st, S0, "user")
    BY <1>21 DEF approve_children, write
  <2> QED BY <2>1, <1>21, TransitionAllowed DEF approve_children, KindsGrow, tree_vars
<1>22. ASSUME NEW t \in Tasks, retry(t)
       PROVE  MovesAllowed /\ KindsGrow
  <2>1. PICK st, S0 : transition(st, S0, "user")
    BY <1>22 DEF retry, write
  <2> QED BY <2>1, <1>22, TransitionAllowed DEF retry, KindsGrow, tree_vars
<1>23. ASSUME NEW t \in Tasks, cancel(t)
       PROVE  MovesAllowed /\ KindsGrow
  <2>1. PICK st, S0 : transition(st, S0, "user")
    BY <1>23 DEF cancel, write
  <2> QED BY <2>1, <1>23, TransitionAllowed DEF cancel, KindsGrow, tree_vars
<1>24. ASSUME NEW t \in Tasks, replan(t)
       PROVE  MovesAllowed /\ KindsGrow
  <2>1. PICK st, S0 : transition(st, S0, "user")
    BY <1>24 DEF replan, write
  <2> QED BY <2>1, <1>24, TransitionAllowed DEF replan, KindsGrow, tree_vars
<1>25. ASSUME NEW t \in Tasks, lease_expires(t)
       PROVE  MovesAllowed /\ KindsGrow
  BY <1>25 DEF lease_expires, MovesAllowed, KindsGrow, tree_vars
<1>26. ASSUME NEW t \in Tasks, plan_goes_stale(t)
       PROVE  MovesAllowed /\ KindsGrow
  BY <1>26 DEF plan_goes_stale, MovesAllowed, KindsGrow, tree_vars
<1>27. CASE UNCHANGED vars
  BY <1>27 DEF vars, MovesAllowed, KindsGrow
<1> QED
  BY <1>1, <1>2, <1>3, <1>4, <1>5, <1>6, <1>7, <1>8, <1>9, <1>10, <1>11, <1>12, <1>13, <1>14,
     <1>15, <1>16, <1>17, <1>18, <1>19, <1>20, <1>21, <1>22, <1>23, <1>24, <1>25, <1>26, <1>27
     DEF Next, PlannerStep, WorkerStep, DriverStep, UserStep, Clock

\* No row leaves done, cancelled or superseded, no leaf turns back into a task
\* and no row is dropped, whatever the tree and the interleaving.
THEOREM FinishedHolds == Spec => Finished
<1> DEFINE Kept == \A t \in Tasks : /\ is_terminal(state[t]) => state'[t] = state[t]
                                    /\ kind[t] = "leaf" => kind'[t] = "leaf"
                                    /\ exists(t) => state'[t] # Absent
<1>1. TypeOK /\ [Next]_vars => Kept
  <2> SUFFICES ASSUME TypeOK, [Next]_vars, NEW t \in Tasks
               PROVE  /\ is_terminal(state[t]) => state'[t] = state[t]
                      /\ kind[t] = "leaf" => kind'[t] = "leaf"
                      /\ exists(t) => state'[t] # Absent
    OBVIOUS
  <2>1. MovesAllowed /\ KindsGrow
    BY StepAllowed
  <2>2. is_terminal(state[t]) => exists(t)
    BY NoneAssumption, NamedStates DEF exists, is_terminal
  <2> QED BY <2>1, <2>2, AllowedFacts, NoneAssumption DEF MovesAllowed, KindsGrow, exists
<1>2. [Next]_vars /\ TypeOK => [Kept]_vars
  BY <1>1
<1> QED BY <1>2, TypeCorrect, PTL DEF Spec, Finished

-----------------------------------------------------------------------------
(* Leases. *)

\* A row that is not there is neither leased nor finished.
LEMMA NotThere ==
  /\ ~is_leased(Absent) /\ ~is_terminal(Absent)
  /\ \A s \in TaskState : s # Absent
BY NoneAssumption, NamedStates DEF is_leased, is_terminal

\* The pass inserts no row and leases none.
LEMMA RollupUnleased ==
  ASSUME NEW t \in Tasks, NEW st \in [Tasks -> States], NEW res \in rollup_from(st, t)
  PROVE  /\ \A n \in Tasks : st[n] = Absent => res[n] = Absent
         /\ \A n \in Tasks : ~is_leased(st[n]) => ~is_leased(res[n])
<1>1. \A s \in RollupStates : ~is_leased(s)
  BY DEF RollupStates, is_leased
<1>2. Absent \notin {"decomposed", "blocked"}
  BY NoneAssumption, NamedStates
<1> QED BY <1>1, <1>2, RollupFacts

\* Only claim leases a row: any other state write keeps the owner of a row that
\* stays leased and clears the others.  An action keeps LeaseIntegrity when it
\* closes the attempts of the rows of S that it takes out of their lease.
LEMMA LeaseStep ==
  ASSUME TypeOK, LeaseIntegrity, NEW st \in [Tasks -> States],
         NEW S \in SUBSET Tasks, NEW actor,
         actor # "driver", transition(st, S, actor),
         \A t \in Tasks : state[t] = Absent => ~is_leased(st[t]),
         \A t \in Tasks : kind[t] = "leaf" => kind'[t] = "leaf",
         \A t \in Tasks : \A o \in Owners :
            pending'[t][o] = IF t \in S /\ ~is_leased(st[t]) THEN 0 ELSE pending[t][o]
  PROVE  LeaseIntegrity'
<1> SUFFICES ASSUME NEW t \in Tasks
             PROVE  /\ is_leased(st[t]) <=> owner'[t] # NoOwner
                    /\ is_leased(st[t]) => kind'[t] = "leaf"
                    /\ \A o \in Owners : pending'[t][o] = IF owner'[t] = o THEN 1 ELSE 0
                    /\ t \in expired' => is_leased(st[t])
  BY DEF LeaseIntegrity, transition
<1>1. state' = st /\ owner'[t] = (IF st[t] = state[t] \/ is_leased(st[t])
                                  THEN owner[t] ELSE NoOwner)
      /\ expired' = {x \in expired : st[x] = state[x] \/ is_leased(st[x])}
  BY DEF transition
<1>2. CASE st[t] = state[t]
  <2>1. owner'[t] = owner[t]
    BY <1>1, <1>2
  <2>2. ~is_leased(st[t]) => \A o \in Owners : pending[t][o] = 0
    BY <1>2, NoneAssumption DEF LeaseIntegrity
  <2> QED BY <1>1, <1>2, <2>1, <2>2 DEF LeaseIntegrity
<1>3. CASE st[t] # state[t] /\ exists(t)
  <2>0. allowed(state[t], st[t], kind[t], IF t \in S THEN actor ELSE "rollup")
    BY <1>3 DEF transition
  <2>1. CASE is_leased(st[t])
    <3>1. state[t] = "claimed" /\ kind[t] = "leaf"
      BY <2>0, <2>1, AllowedFacts DEF is_leased
    <3>2. owner'[t] = owner[t] /\ is_leased(state[t])
      BY <1>1, <2>1, <3>1 DEF is_leased
    <3> QED BY <2>1, <3>1, <3>2 DEF LeaseIntegrity
  <2>2. CASE ~is_leased(st[t])
    <3>1. owner'[t] = NoOwner /\ t \notin expired'
      BY <1>1, <1>3, <2>2
    <3>2. t \notin S => ~is_leased(state[t])
      BY <2>0, RollupActorFacts DEF is_leased
    <3>3. \A o \in Owners : pending'[t][o] = 0
      BY <2>2, <3>2, NoneAssumption DEF LeaseIntegrity
    <3> QED BY <2>2, <3>1, <3>3, NoneAssumption
  <2> QED BY <2>1, <2>2
<1>4. CASE st[t] # state[t] /\ ~exists(t)
  <2>1. ~is_leased(st[t]) /\ ~is_leased(state[t])
    BY <1>4, NoneAssumption, NamedStates DEF exists, is_leased
  <2>2. owner'[t] = NoOwner /\ t \notin expired'
    BY <1>1, <1>4, <2>1
  <2>3. \A o \in Owners : pending'[t][o] = 0
    BY <2>1, NoneAssumption DEF LeaseIntegrity
  <2> QED BY <2>1, <2>2, <2>3, NoneAssumption
<1> QED BY <1>2, <1>3, <1>4

\* The case of a protocol that closes no attempt: the rows it moves are not leased.
LEMMA LeaseQuiet ==
  ASSUME TypeOK, LeaseIntegrity, NEW st \in [Tasks -> States],
         NEW S \in SUBSET Tasks, NEW actor,
         actor # "driver", transition(st, S, actor),
         \A t \in Tasks : state[t] = Absent => ~is_leased(st[t]),
         \A t \in S : ~is_leased(state[t]),
         \A t \in Tasks : kind[t] = "leaf" => kind'[t] = "leaf",
         pending' = pending
  PROVE  LeaseIntegrity'
<1>1. \A t \in S : \A o \in Owners : pending[t][o] = 0
  BY NoneAssumption DEF LeaseIntegrity
<1>2. \A t \in Tasks : \A o \in Owners :
         pending'[t][o] = IF t \in S /\ ~is_leased(st[t]) THEN 0 ELSE pending[t][o]
  BY <1>1
<1> QED BY <1>2, LeaseStep

\* The same with a rollup pass behind the write.
LEMMA LeaseQuietRollup ==
  ASSUME TypeOK, LeaseIntegrity, NEW t \in Tasks, NEW st \in [Tasks -> States],
         NEW S \in SUBSET Tasks, NEW actor, actor # "driver",
         \E res \in rollup_from(st, t) : write(res, S, actor),
         \A n \in Tasks : state[n] = Absent => st[n] = Absent,
         \A n \in S : ~is_leased(state[n]),
         kind' = kind, pending' = pending
  PROVE  LeaseIntegrity'
<1>1. PICK res \in rollup_from(st, t) : write(res, S, actor)
  OBVIOUS
<1>2. res \in [Tasks -> States]
  BY RollupFacts
<1>3. \A n \in Tasks : state[n] = Absent => ~is_leased(res[n])
  BY RollupUnleased, NotThere
<1> QED BY <1>1, <1>2, <1>3, LeaseQuiet DEF write

\* Closing the attempts of the owner of t closes all there are of t.
LEMMA CloseWorkOfOwner ==
  ASSUME TypeOK, LeaseIntegrity, NEW t \in Tasks, NEW o \in Owners,
         owner[t] = o, close_work_of(t, o)
  PROVE  \A n \in Tasks : \A x \in Owners :
            pending'[n][x] = IF n = t THEN 0 ELSE pending[n][x]
BY DEF TypeOK, LeaseIntegrity, close_work_of

\* Closing the attempts of the rows of S leaves those of the other rows.
LEMMA CloseWorkAll ==
  ASSUME TypeOK, NEW S, close_work(S)
  PROVE  \A n \in Tasks : \A x \in Owners :
            pending'[n][x] = IF n \in S THEN 0 ELSE pending[n][x]
BY DEF close_work

\* Every step keeps leases whole, one case per protocol.
LEMMA LeaseIntegrityStep ==
  ASSUME TypeOK, LeaseIntegrity, [Next]_vars
  PROVE  LeaseIntegrity'
<1>0. state \in [Tasks -> States]
  BY DEF TypeOK, States
<1>1. ASSUME NEW t \in Tasks, plan_start_blocked(t)
       PROVE  LeaseIntegrity'
  <2>1. /\ move(state, {t}, "blocked") \in [Tasks -> States]
        /\ \A x \in Tasks : state[x] = Absent => move(state, {t}, "blocked")[x] = Absent
        /\ ~is_leased(state[t])
    BY <1>0, <1>1, MoveType, NamedStates, NotThere
       DEF plan_start_blocked, plan_start_ok, cas, move, is_leased
  <2>2. /\ \E st \in rollup_from(move(state, {t}, "blocked"), t) : write(st, {t}, "planner")
        /\ kind' = kind /\ pending' = pending
    BY <1>1 DEF plan_start_blocked, tree_vars
  <2> QED BY <2>1, <2>2, LeaseQuietRollup
<1>2. ASSUME NEW p \in Planners, NEW t \in Tasks, plan_start(p, t)
       PROVE  LeaseIntegrity'
  <2>1. /\ move(state, {t}, "decomposing") \in [Tasks -> States]
        /\ \A x \in Tasks : state[x] = Absent => ~is_leased(move(state, {t}, "decomposing")[x])
        /\ \A x \in {t} : ~is_leased(state[x])
    BY <1>0, <1>2, MoveType, NamedStates, NotThere
       DEF plan_start, plan_start_ok, cas, move, is_leased
  <2>2. /\ transition(move(state, {t}, "decomposing"), {t}, "planner")
        /\ kind' = kind /\ pending' = pending
    BY <1>2 DEF plan_start, write, tree_vars
  <2> QED BY <2>1, <2>2, LeaseQuiet
<1>3. ASSUME NEW p \in Planners, NEW t \in Tasks, NEW n \in 1 .. MAX_CHILDREN, decompose(p, t, n)
       PROVE  LeaseIntegrity'
  <2> DEFINE batch == new_children(t, n)
             first == IF gated(Depth[t] + 1) THEN "awaiting_approval" ELSE "ready"
             st    == move(move(state, batch, first), {t}, "decomposed")
  <2>1. st \in [Tasks -> States]
    BY <1>0, MoveType, NamedStates
  <2>2. /\ \A x \in Tasks : state[x] = Absent => ~is_leased(st[x])
        /\ ~is_leased(state[t])
    BY <1>3, NotThere DEF decompose, cas, move, is_leased
  <2>3. transition(st, {t}, "planner") /\ kind' = kind /\ pending' = pending
    BY <1>3 DEF decompose, write
  <2> HIDE DEF st
  <2> QED BY <2>1, <2>2, <2>3, LeaseQuiet
<1>4. ASSUME NEW p \in Planners, NEW t \in Tasks, mark_leaf(p, t)
       PROVE  LeaseIntegrity'
  <2> DEFINE st == move(state, {t}, IF gated(Depth[t]) THEN "awaiting_approval" ELSE "ready")
  <2>1. st \in [Tasks -> States]
    BY <1>0, MoveType, NamedStates
  <2>2. /\ \A x \in Tasks : state[x] = Absent => ~is_leased(st[x])
        /\ ~is_leased(state[t])
    BY <1>4, NotThere DEF mark_leaf, cas, move, is_leased
  <2>3. transition(st, {t}, "planner") /\ pending' = pending
    BY <1>4 DEF mark_leaf, write
  <2>4. \A x \in Tasks : kind[x] = "leaf" => kind'[x] = "leaf"
    BY <1>4 DEF mark_leaf, TypeOK
  <2> HIDE DEF st
  <2> QED BY <2>1, <2>2, <2>3, <2>4, LeaseQuiet
<1>5. ASSUME NEW p \in Planners, NEW t \in Tasks, plan_close_needs_info(p, t)
       PROVE  LeaseIntegrity'
  <2>1. /\ move(state, {t}, "awaiting_approval") \in [Tasks -> States]
        /\ \A x \in Tasks : state[x] = Absent => ~is_leased(move(state, {t}, "awaiting_approval")[x])
        /\ \A x \in {t} : ~is_leased(state[x])
    BY <1>0, <1>5, MoveType, NamedStates, NotThere
       DEF plan_close_needs_info, plan_start_ok, cas, move, is_leased
  <2>2. /\ transition(move(state, {t}, "awaiting_approval"), {t}, "planner")
        /\ kind' = kind /\ pending' = pending
    BY <1>5 DEF plan_close_needs_info, write, tree_vars
  <2> QED BY <2>1, <2>2, LeaseQuiet
<1>6. ASSUME NEW p \in Planners, NEW t \in Tasks, plan_close_reject(p, t)
       PROVE  LeaseIntegrity'
  <2>1. /\ move(state, {t}, "blocked") \in [Tasks -> States]
        /\ \A x \in Tasks : state[x] = Absent => move(state, {t}, "blocked")[x] = Absent
        /\ ~is_leased(state[t])
    BY <1>0, <1>6, MoveType, NamedStates, NotThere
       DEF plan_close_reject, plan_start_ok, cas, move, is_leased
  <2>2. /\ \E st \in rollup_from(move(state, {t}, "blocked"), t) : write(st, {t}, "planner")
        /\ kind' = kind /\ pending' = pending
    BY <1>6 DEF plan_close_reject, tree_vars
  <2> QED BY <2>1, <2>2, LeaseQuietRollup
<1>7. ASSUME NEW p \in Planners, NEW t \in Tasks, plan_close_error(p, t)
       PROVE  LeaseIntegrity'
  <2>1. /\ move(state, {t}, "blocked") \in [Tasks -> States]
        /\ move(state, {t}, "ready") \in [Tasks -> States]
        /\ \A x \in Tasks : state[x] = Absent => move(state, {t}, "blocked")[x] = Absent
        /\ \A x \in Tasks : state[x] = Absent => ~is_leased(move(state, {t}, "ready")[x])
        /\ ~is_leased(state[t])
    BY <1>0, <1>7, MoveType, NamedStates, NotThere DEF plan_close_error, cas, move, is_leased
  <2>2. kind' = kind /\ pending' = pending
    BY <1>7 DEF plan_close_error, tree_vars
  <2>3. CASE attempts[t] + 1 >= policy.max_plan_attempts
    BY <2>1, <2>2, <2>3, <1>7, LeaseQuietRollup DEF plan_close_error
  <2>4. CASE ~(attempts[t] + 1 >= policy.max_plan_attempts)
    <3>1. transition(move(state, {t}, "ready"), {t}, "planner")
      BY <2>4, <1>7 DEF plan_close_error, write
    <3> QED BY <2>1, <2>2, <3>1, LeaseQuiet
  <2> QED BY <2>3, <2>4
<1>8. ASSUME NEW o \in Owners, NEW S \in SUBSET Tasks, claim(o, S)
       PROVE  LeaseIntegrity'
  <2> SUFFICES ASSUME NEW t \in Tasks
               PROVE  /\ is_leased(state'[t]) <=> owner'[t] # NoOwner
                      /\ is_leased(state'[t]) => kind'[t] = "leaf"
                      /\ \A x \in Owners : pending'[t][x] = IF owner'[t] = x THEN 1 ELSE 0
                      /\ t \in expired' => is_leased(state'[t])
    BY DEF LeaseIntegrity
  <2>1. CASE t \in S
    <3>1. state[t] = "ready" /\ kind[t] = "leaf"
      BY <1>8, <2>1 DEF claim, claimable
    <3>2. \A x \in Owners : pending[t][x] = 0
      BY <3>1, NoneAssumption DEF LeaseIntegrity, is_leased
    <3>3. /\ state'[t] = "claimed" /\ owner'[t] = o /\ kind'[t] = kind[t]
          /\ pending'[t] = [pending[t] EXCEPT ![o] = @ + 1]
      BY <1>8, <2>1 DEF claim, move, tree_vars
    <3>4. \A x \in Owners : pending'[t][x] = IF x = o THEN 1 ELSE 0
      BY <3>2, <3>3 DEF TypeOK
    <3> QED BY <3>1, <3>3, <3>4, NoneAssumption DEF is_leased
  <2>2. CASE t \notin S
    <3>1. /\ state'[t] = state[t] /\ owner'[t] = owner[t] /\ kind'[t] = kind[t]
          /\ pending'[t] = pending[t] /\ (t \in expired' => t \in expired)
      BY <1>8, <2>2 DEF claim, move, tree_vars
    <3> QED BY <3>1 DEF LeaseIntegrity
  <2> QED BY <2>1, <2>2
<1>9. ASSUME NEW o \in Owners, NEW t \in Tasks, heartbeat(o, t)
       PROVE  LeaseIntegrity'
  BY <1>9 DEF heartbeat, LeaseIntegrity, tree_vars, plan_vars
<1>10. ASSUME NEW o \in Owners, NEW t \in Tasks, start(o, t)
       PROVE  LeaseIntegrity'
  <2> DEFINE st == move(state, {t}, "running")
  <2>1. /\ st \in [Tasks -> States]
        /\ \A x \in Tasks : state[x] = Absent => ~is_leased(st[x])
    BY <1>0, <1>10, MoveType, NamedStates, NotThere DEF start, move, is_leased
  <2>2. \A x \in Tasks : \A y \in Owners :
           pending'[x][y] = IF x \in {t} /\ ~is_leased(st[x]) THEN 0 ELSE pending[x][y]
    BY <1>10 DEF start, move, is_leased
  <2>3. transition(st, {t}, "worker") /\ kind' = kind
    BY <1>10 DEF start, write, tree_vars
  <2> HIDE DEF st
  <2> QED BY <2>1, <2>2, <2>3, LeaseStep
<1>11. ASSUME NEW o \in Owners, NEW t \in Tasks, complete(o, t)
       PROVE  LeaseIntegrity'
  <2> DEFINE st == move(state, {t}, "in_review")
  <2>1. /\ st \in [Tasks -> States]
        /\ \A x \in Tasks : state[x] = Absent => ~is_leased(st[x])
        /\ ~is_leased(st[t])
    BY <1>0, <1>11, MoveType, NamedStates, NotThere DEF complete, move, is_leased
  <2>2. \A x \in Tasks : \A y \in Owners :
           pending'[x][y] = IF x = t THEN 0 ELSE pending[x][y]
    BY <1>11, CloseWorkOfOwner DEF complete
  <2>3. transition(st, {t}, "worker") /\ kind' = kind
    BY <1>11 DEF complete, write, tree_vars
  <2>4. \A x \in Tasks : \A y \in Owners :
           pending'[x][y] = IF x \in {t} /\ ~is_leased(st[x]) THEN 0 ELSE pending[x][y]
    BY <2>1, <2>2
  <2> HIDE DEF st
  <2> QED BY <2>1, <2>3, <2>4, LeaseStep
<1>12. ASSUME NEW o \in Owners, NEW t \in Tasks, fail(o, t)
       PROVE  LeaseIntegrity'
  <2> DEFINE st == block_dependents(move(state, {t}, "failed"), t)
  <2>1. st \in [Tasks -> States]
    BY FailedType
  <2>2. st[t] = "failed" /\ \A x \in Tasks : state[x] = Absent => st[x] = Absent
    BY <1>12, NotThere, NamedStates DEF fail, block_dependents, dependents, move
  <2>3. /\ \E res \in rollup_from(st, t) : write(res, {t}, "worker")
        /\ owner[t] = o /\ close_work_of(t, o) /\ kind' = kind
    BY <1>12 DEF fail, tree_vars
  <2> HIDE DEF st
  <2>4. PICK res \in rollup_from(st, t) : write(res, {t}, "worker")
    BY <2>3
  <2>5. res \in [Tasks -> States] /\ res[t] = "failed"
    BY <2>1, <2>2, RollupFacts DEF Ancestors
  <2>6. \A x \in Tasks : state[x] = Absent => ~is_leased(res[x])
    BY <2>1, <2>2, RollupUnleased, NotThere
  <2>7. \A x \in Tasks : \A y \in Owners :
           pending'[x][y] = IF x \in {t} /\ ~is_leased(res[x]) THEN 0 ELSE pending[x][y]
    BY <2>3, <2>5, CloseWorkOfOwner DEF is_leased
  <2> QED BY <2>3, <2>4, <2>5, <2>6, <2>7, LeaseStep DEF write
<1>13. ASSUME NEW S \in SUBSET Tasks, reap(S)
       PROVE  LeaseIntegrity'
  <2>1. /\ move(state, S, "ready") \in [Tasks -> States]
        /\ \A x \in Tasks : state[x] = Absent => ~is_leased(move(state, S, "ready")[x])
        /\ \A x \in S : ~is_leased(move(state, S, "ready")[x])
    BY <1>0, MoveType, NamedStates, NotThere DEF move, is_leased
  <2>2. \A x \in Tasks : \A y \in Owners :
           pending'[x][y] = IF x \in S THEN 0 ELSE pending[x][y]
    BY <1>13, CloseWorkAll DEF reap
  <2>3. transition(move(state, S, "ready"), S, "reaper") /\ kind' = kind
    BY <1>13 DEF reap, write, tree_vars
  <2> QED BY <2>1, <2>2, <2>3, LeaseStep
<1>14. ASSUME NEW S \in SUBSET Tasks, reap_decomposing(S)
       PROVE  LeaseIntegrity'
  <2>1. /\ move(state, S, "ready") \in [Tasks -> States]
        /\ \A x \in Tasks : state[x] = Absent => ~is_leased(move(state, S, "ready")[x])
        /\ \A x \in S : ~is_leased(state[x])
    BY <1>0, <1>14, MoveType, NamedStates, NotThere
       DEF reap_decomposing, plan_start_ok, cas, move, is_leased
  <2>2. /\ transition(move(state, S, "ready"), S, "reaper")
        /\ kind' = kind /\ pending' = pending
    BY <1>14 DEF reap_decomposing, write, tree_vars
  <2> QED BY <2>1, <2>2, LeaseQuiet
<1>15. ASSUME NEW t \in Tasks, resolve_merged(t)
       PROVE  LeaseIntegrity'
  <2>1. /\ move(state, {t}, "done") \in [Tasks -> States]
        /\ \A x \in Tasks : state[x] = Absent => move(state, {t}, "done")[x] = Absent
        /\ ~is_leased(state[t])
    BY <1>0, <1>15, MoveType, NamedStates, NotThere
       DEF resolve_merged, plan_start_ok, cas, move, is_leased
  <2>2. /\ \E st \in rollup_from(move(state, {t}, "done"), t) : write(st, {t}, "poller")
        /\ kind' = kind /\ pending' = pending
    BY <1>15 DEF resolve_merged, tree_vars
  <2> QED BY <2>1, <2>2, LeaseQuietRollup
<1>16. ASSUME NEW t \in Tasks, resolve_closed(t)
       PROVE  LeaseIntegrity'
  <2> DEFINE st == block_dependents(move(state, {t}, "failed"), t)
  <2>1. st \in [Tasks -> States]
    BY FailedType
  <2>2. ~is_leased(state[t]) /\ \A x \in Tasks : state[x] = Absent => st[x] = Absent
    BY <1>16, NotThere, NamedStates
       DEF resolve_closed, block_dependents, dependents, move, is_leased
  <2>3. /\ \E res \in rollup_from(st, t) : write(res, {t}, "poller")
        /\ kind' = kind /\ pending' = pending
    BY <1>16 DEF resolve_closed, tree_vars
  <2> HIDE DEF st
  <2> QED BY <2>1, <2>2, <2>3, LeaseQuietRollup
<1>17. ASSUME NEW s \in {"draft", "ready"}, create(s)
       PROVE  LeaseIntegrity'
  <2>1. \A x \in Tasks : state'[x] = IF x = Root THEN s ELSE state[x]
    BY <1>17, TreeAssumption DEF create, TypeOK
  <2>2. /\ ~is_leased(s) /\ ~is_leased(state[Root])
        /\ UNCHANGED <<kind, owner, expired, pending>>
    BY <1>17, NotThere DEF create, exists, is_leased, tree_vars, lease_vars
  <2>3. \A x \in Tasks : is_leased(state'[x]) <=> is_leased(state[x])
    BY <2>1, <2>2
  <2> QED BY <2>2, <2>3 DEF LeaseIntegrity
<1>18. ASSUME NEW pol \in Policies, update_policy(pol)
       PROVE  LeaseIntegrity'
  BY <1>18 DEF update_policy, LeaseIntegrity, tree_vars, lease_vars
<1>19. ASSUME NEW t \in Tasks, approve(t)
       PROVE  LeaseIntegrity'
  <2>1. /\ move(state, {t}, "ready") \in [Tasks -> States]
        /\ \A x \in Tasks : state[x] = Absent => ~is_leased(move(state, {t}, "ready")[x])
        /\ \A x \in {t} : ~is_leased(state[x])
    BY <1>0, <1>19, MoveType, NamedStates, NotThere
       DEF approve, plan_start_ok, cas, move, is_leased
  <2>2. /\ transition(move(state, {t}, "ready"), {t}, "user")
        /\ kind' = kind /\ pending' = pending
    BY <1>19 DEF approve, write, tree_vars
  <2> QED BY <2>1, <2>2, LeaseQuiet
<1>20. ASSUME NEW t \in Tasks, answer(t)
       PROVE  LeaseIntegrity'
  <2>1. /\ move(state, {t}, "ready") \in [Tasks -> States]
        /\ \A x \in Tasks : state[x] = Absent => ~is_leased(move(state, {t}, "ready")[x])
        /\ \A x \in {t} : ~is_leased(state[x])
    BY <1>0, <1>20, MoveType, NamedStates, NotThere
       DEF answer, plan_start_ok, cas, move, is_leased
  <2>2. /\ transition(move(state, {t}, "ready"), {t}, "user")
        /\ kind' = kind /\ pending' = pending
    BY <1>20 DEF answer, write, tree_vars
  <2> QED BY <2>1, <2>2, LeaseQuiet
<1>21. ASSUME NEW t \in Tasks, approve_children(t)
       PROVE  LeaseIntegrity'
  <2> DEFINE waiting == {c \in children_of(state, t) : state[c] = "awaiting_approval"}
  <2>1. /\ move(state, waiting, "ready") \in [Tasks -> States]
        /\ \A x \in Tasks : state[x] = Absent => ~is_leased(move(state, waiting, "ready")[x])
        /\ \A x \in waiting : ~is_leased(state[x])
        /\ waiting \in SUBSET Tasks
    BY <1>0, MoveType, NamedStates, NotThere DEF move, is_leased, children_of, Slots
  <2>2. /\ transition(move(state, waiting, "ready"), waiting, "user")
        /\ kind' = kind /\ pending' = pending
    BY <1>21 DEF approve_children, write, tree_vars
  <2> HIDE DEF waiting
  <2> QED BY <2>1, <2>2, LeaseQuiet
<1>22. ASSUME NEW t \in Tasks, retry(t)
       PROVE  LeaseIntegrity'
  <2>1. /\ move(state, {t}, "ready") \in [Tasks -> States]
        /\ \A x \in Tasks : state[x] = Absent => move(state, {t}, "ready")[x] = Absent
        /\ ~is_leased(state[t])
    BY <1>0, <1>22, MoveType, NamedStates, NotThere
       DEF retry, plan_start_ok, cas, move, is_leased
  <2>2. /\ \E st \in rollup_from(move(state, {t}, "ready"), t) : write(st, {t}, "user")
        /\ kind' = kind /\ pending' = pending
    BY <1>22 DEF retry, tree_vars
  <2> QED BY <2>1, <2>2, LeaseQuietRollup
<1>23. ASSUME NEW t \in Tasks, cancel(t)
       PROVE  LeaseIntegrity'
  <2> DEFINE S  == {n \in subtree_of(t) : ~is_terminal(state[n])}
             st == move(state, S, "cancelled")
  <2>0. S \in SUBSET Tasks
    BY DEF subtree_of
  <2>1. st \in [Tasks -> States]
    BY <1>0, MoveType, NamedStates
  <2>2. /\ \A x \in Tasks : state[x] = Absent => st[x] = Absent
        /\ \A x \in S : st[x] = "cancelled"
    BY DEF move, subtree_of, exists
  <2>3. /\ \E res \in rollup_from(st, t) : write(res, S, "user")
        /\ close_work(S) /\ kind' = kind
    BY <1>23 DEF cancel, tree_vars
  <2> HIDE DEF S, st
  <2>4. PICK res \in rollup_from(st, t) : write(res, S, "user")
    BY <2>3
  <2>5. res \in [Tasks -> States]
    BY <2>1, RollupFacts
  <2>6. /\ \A x \in Tasks : state[x] = Absent => ~is_leased(res[x])
        /\ \A x \in S : ~is_leased(res[x])
    <3>1. \A x \in S : ~is_leased(st[x])
      BY <2>2 DEF is_leased
    <3> QED BY <3>1, <2>0, <2>1, <2>2, RollupUnleased, NotThere
  <2>7. \A x \in Tasks : \A y \in Owners :
           pending'[x][y] = IF x \in S /\ ~is_leased(res[x]) THEN 0 ELSE pending[x][y]
    BY <2>3, <2>6, CloseWorkAll
  <2> QED BY <2>0, <2>3, <2>4, <2>5, <2>6, <2>7, LeaseStep DEF write
<1>24. ASSUME NEW t \in Tasks, replan(t)
       PROVE  LeaseIntegrity'
  <2> DEFINE S  == {n \in subtree_of(t) \ {t} : ~is_terminal(state[n])}
             st == move(move(state, S, "superseded"), {t}, "decomposing")
  <2>0. S \cup {t} \in SUBSET Tasks
    BY DEF subtree_of
  <2>1. st \in [Tasks -> States]
    BY <1>0, MoveType, NamedStates
  <2>2. /\ \A x \in Tasks : state[x] = Absent => ~is_leased(st[x])
        /\ \A x \in S \cup {t} : ~is_leased(st[x])
        /\ ~is_leased(state[t]) /\ t \notin S
    BY <2>0, <1>24, NotThere DEF replan, move, is_leased
  <2>3. /\ transition(st, S \cup {t}, "user")
        /\ close_work(S) /\ kind' = kind
    BY <1>24 DEF replan, write, tree_vars
  <2> HIDE DEF S, st
  <2>4. \A y \in Owners : pending[t][y] = 0
    BY <2>2, NoneAssumption DEF LeaseIntegrity
  <2>5. \A x \in Tasks : \A y \in Owners :
           pending'[x][y] = IF x \in S \cup {t} /\ ~is_leased(st[x]) THEN 0 ELSE pending[x][y]
    BY <2>2, <2>3, <2>4, CloseWorkAll
  <2> QED BY <2>0, <2>1, <2>2, <2>3, <2>5, LeaseStep
<1>25. ASSUME NEW t \in Tasks, lease_expires(t)
       PROVE  LeaseIntegrity'
  BY <1>25 DEF lease_expires, LeaseIntegrity, tree_vars, plan_vars
<1>26. ASSUME NEW t \in Tasks, plan_goes_stale(t)
       PROVE  LeaseIntegrity'
  BY <1>26 DEF plan_goes_stale, LeaseIntegrity, tree_vars, lease_vars
<1>27. CASE UNCHANGED vars
  BY <1>27 DEF vars, LeaseIntegrity
<1> QED
  BY <1>1, <1>2, <1>3, <1>4, <1>5, <1>6, <1>7, <1>8, <1>9, <1>10, <1>11, <1>12, <1>13, <1>14,
     <1>15, <1>16, <1>17, <1>18, <1>19, <1>20, <1>21, <1>22, <1>23, <1>24, <1>25, <1>26, <1>27
     DEF Next, PlannerStep, WorkerStep, DriverStep, UserStep, Clock

\* A lease is whole: claimed_by, the leased states, the leaf kind and the pending
\* work attempts agree in every reachable state, for any number of owners.
THEOREM LeaseCorrect == Spec => []LeaseIntegrity
<1>1. Init => LeaseIntegrity
  <2> SUFFICES ASSUME Init PROVE LeaseIntegrity
    OBVIOUS
  <2>1. \A t \in Tasks : ~is_leased(state[t])
    BY NotThere DEF Init
  <2>2. \A t \in Tasks : owner[t] = NoOwner /\ \A o \in Owners : pending[t][o] = 0
    BY DEF Init
  <2> QED BY <2>1, <2>2, NoneAssumption DEF Init, LeaseIntegrity
<1>2. TypeOK /\ LeaseIntegrity /\ [Next]_vars => LeaseIntegrity'
  BY LeaseIntegrityStep
<1> QED BY <1>1, <1>2, TypeCorrect, PTL DEF Spec

-----------------------------------------------------------------------------
(* The shape of the task tree: what a finished, a done, a decomposed and a  *)
(* leaf row say about the rows around them, and what a leaf under work says *)
(* about its dependencies.                                                  *)

\* The four tree invariants hold together: the rollup rule reads the children
\* it needs the others for.
TreeInv == LeafHasNoChildren /\ FinishedSubtree /\ DoneMeansDone /\ DecomposedWaits

\* Some child of p still has work to do in the state column st.
Waits(st, p) == \E c \in children_of(st, p) : ~is_terminal(st[c])

-----------------------------------------------------------------------------
(* A step that inserts no row. *)

\* What a step has to show about the rows it moved: whatever is under a row it
\* finished is finished, a non-leaf it made done has live children that are all
\* done, and a decomposed row it made, or a child of which it finished, waits.
LEMMA TreeStep ==
  ASSUME TypeOK, TreeInv, NEW st \in [Tasks -> States], state' = st,
         \A n \in Tasks : state[n] = Absent <=> st[n] = Absent,
         \A n \in Tasks : is_terminal(state[n]) => st[n] = state[n],
         \A n \in Tasks : \/ kind'[n] = kind[n]
                          \/ kind'[n] = "leaf" /\ children_of(state, n) = {},
         \A p \in Tasks : st[p] # state[p] /\ is_terminal(st[p]) => ~Waits(st, p),
         \A p \in Tasks : st[p] # state[p] /\ st[p] = "done" /\ kind[p] # "leaf" =>
            live_states({st[c] : c \in children_of(st, p)}) = {"done"},
         \A p \in Tasks : st[p] # state[p] /\ st[p] = "decomposed" => Waits(st, p),
         \A c \in Tasks \ {Root} :
            st[c] # state[c] /\ is_terminal(st[c]) /\ st[Parent[c]] = "decomposed" =>
              Waits(st, Parent[c])
  PROVE  TreeInv'
<1>0. \A p \in Tasks : children_of(st, p) = children_of(state, p)
  BY DEF children_of, Slots
<1>1. LeafHasNoChildren'
  <2> SUFFICES ASSUME NEW t \in Tasks \ {Root}, st[t] # Absent
               PROVE  kind'[Parent[t]] # "leaf" /\ st[Parent[t]] # Absent
    BY DEF LeafHasNoChildren, exists
  <2>1. Parent[t] \in Tasks
    BY TreeFacts
  <2>2. t \in children_of(state, Parent[t])
    BY <2>1 DEF children_of, Slots
  <2> QED BY <2>1, <2>2 DEF TreeInv, LeafHasNoChildren, exists
<1>2. FinishedSubtree'
  <2> SUFFICES ASSUME NEW t \in Tasks \ {Root}, st[t] # Absent, is_terminal(st[Parent[t]])
               PROVE  is_terminal(st[t])
    BY DEF FinishedSubtree, exists
  <2>1. Parent[t] \in Tasks
    BY TreeFacts
  <2>2. t \in children_of(st, Parent[t])
    BY DEF children_of, Slots
  <2>3. CASE st[Parent[t]] = state[Parent[t]]
    BY <2>1, <2>3 DEF TreeInv, FinishedSubtree, exists
  <2>4. CASE st[Parent[t]] # state[Parent[t]]
    BY <2>1, <2>2, <2>4 DEF Waits
  <2> QED BY <2>3, <2>4
<1>3. DoneMeansDone'
  <2> SUFFICES ASSUME NEW t \in Tasks, kind'[t] # "leaf", st[t] = "done"
               PROVE  live_states({st[c] : c \in children_of(st, t)}) = {"done"}
    BY DEF DoneMeansDone
  <2>1. kind[t] # "leaf"
    OBVIOUS
  <2>2. CASE state[t] = "done"
    <3>1. live_states({state[c] : c \in children_of(state, t)}) = {"done"}
      BY <2>1, <2>2 DEF TreeInv, DoneMeansDone
    <3>2. \A c \in children_of(state, t) : c \in Tasks /\ is_terminal(state[c])
      BY <3>1 DEF live_states, is_terminal, children_of, Slots
    <3>3. \A c \in children_of(state, t) : st[c] = state[c]
      BY <3>2
    <3>4. {st[c] : c \in children_of(st, t)} = {state[c] : c \in children_of(state, t)}
      BY <3>3, <1>0
    <3> QED BY <3>1, <3>4
  <2>3. CASE state[t] # "done"
    BY <2>1, <2>3
  <2> QED BY <2>2, <2>3
<1>4. DecomposedWaits'
  <2> SUFFICES ASSUME NEW t \in Tasks, st[t] = "decomposed"
               PROVE  Waits(st, t)
    BY DEF DecomposedWaits, Waits
  <2>1. CASE state[t] # "decomposed"
    BY <2>1
  <2>2. CASE state[t] = "decomposed"
    <3>1. PICK c \in children_of(state, t) : ~is_terminal(state[c])
      BY <2>2 DEF TreeInv, DecomposedWaits
    <3>2. c \in Tasks \ {Root} /\ Parent[c] = t /\ c \in children_of(st, t)
      BY <3>1, <1>0 DEF children_of, Slots
    <3>3. CASE ~is_terminal(st[c])
      BY <3>2, <3>3 DEF Waits
    <3>4. CASE is_terminal(st[c])
      BY <3>1, <3>2, <3>4
    <3> QED BY <3>3, <3>4
  <2> QED BY <2>1, <2>2
<1> QED BY <1>1, <1>2, <1>3, <1>4 DEF TreeInv

\* The case of a protocol that finishes and decomposes no row.
LEMMA TreeQuiet ==
  ASSUME TypeOK, TreeInv, NEW st \in [Tasks -> States], state' = st,
         \A n \in Tasks : state[n] = Absent <=> st[n] = Absent,
         \A n \in Tasks : is_terminal(state[n]) => st[n] = state[n],
         \A n \in Tasks : \/ kind'[n] = kind[n]
                          \/ kind'[n] = "leaf" /\ children_of(state, n) = {},
         \A n \in Tasks : st[n] # state[n] => ~is_terminal(st[n]) /\ st[n] # "decomposed"
  PROVE  TreeInv'
BY TreeStep DEF is_terminal

-----------------------------------------------------------------------------
(* A step with a rollup pass. *)

\* The write moves rows to the column m, the pass makes res of it.  The write may
\* finish t, or rows whose parent it finishes too, with all that is under them;
\* it makes no row decomposed, no non-leaf done, and t not superseded.
LEMMA TreeRollup ==
  ASSUME TypeOK, TreeInv, NEW t \in Tasks, NEW m \in [Tasks -> States],
         NEW res \in rollup_from(m, t), state' = res, kind' = kind,
         \A n \in Tasks : state[n] = Absent <=> m[n] = Absent,
         \A n \in Tasks : is_terminal(state[n]) => m[n] = state[n],
         m[t] \notin {Absent, "superseded"},
         \A n \in Tasks : m[n] # state[n] =>
            /\ m[n] # "decomposed"
            /\ m[n] = "done" => kind[n] = "leaf"
            /\ is_terminal(m[n]) => /\ ~Waits(m, n)
                                    /\ n # t => n # Root /\ is_terminal(m[Parent[n]])
  PROVE  TreeInv'
<1>1. /\ res \in [Tasks -> States]
      /\ \A n \in Tasks : res[n] # m[n] => /\ res[n] = rolled(m, res, n)
                                           /\ res[n] \in RollupStates
                                           /\ m[n] \in {"decomposed", "blocked"}
      /\ t # Root => res[Parent[t]] = rolled(m, res, Parent[t])
      /\ \A c \in Tasks \ {Root} :
            res[c] # m[c] => res[Parent[c]] = rolled(m, res, Parent[c])
      /\ res[t] = m[t]
  BY RollupFacts DEF Ancestors
<1>2. Absent \notin RollupStates \cup {"decomposed", "blocked"}
  BY NotThere, NamedStates DEF RollupStates
<1>3. \A n \in Tasks : state[n] = Absent <=> res[n] = Absent
  BY <1>1, <1>2
<1>4. \A n \in Tasks : is_terminal(m[n]) => res[n] = m[n]
  BY <1>1 DEF is_terminal
<1>5. \A n \in Tasks : is_terminal(state[n]) => res[n] = state[n]
  BY <1>4
<1>6. \A p \in Tasks : children_of(res, p) = children_of(m, p)
  BY <1>1, <1>2 DEF children_of, Slots
<1>7. \A p \in Tasks : ~Waits(m, p) => ~Waits(res, p)
  BY <1>4, <1>6 DEF Waits, children_of, Slots
\* A row the pass makes done stands over live children that are done.
<1>8. ASSUME NEW p \in Tasks, res[p] # m[p], res[p] = "done"
      PROVE  live_states({res[c] : c \in children_of(res, p)}) = {"done"}
  <2> DEFINE C == {res[c] : c \in children_of(res, p)}
  <2>1. rollup(m[p], C) = "done" /\ m[p] # "done"
    BY <1>1, <1>8 DEF rolled
  <2> HIDE DEF C
  <2>2. live_states(C) = {"done"}
    BY <2>1, RuleFacts
  <2> QED BY <2>2 DEF C
\* A row the pass leaves decomposed waits, when one of its children is not superseded.
<1>9. ASSUME NEW p \in Tasks, res[p] = "decomposed", res[p] = rolled(m, res, p),
             NEW c \in children_of(res, p), res[c] # "superseded"
      PROVE  Waits(res, p)
  <2> DEFINE C == {res[x] : x \in children_of(res, p)}
  <2>1. C \ {"superseded"} # {}
    BY <1>9
  <2>2. rollup(m[p], C) = "decomposed"
    BY <1>9 DEF rolled
  <2> HIDE DEF C
  <2>3. PICK s \in C : ~is_terminal(s)
    BY <2>1, <2>2, RuleFacts
  <2> QED BY <2>3 DEF Waits, C
<1>10. \A p \in Tasks : res[p] # state[p] /\ is_terminal(res[p]) => ~Waits(res, p)
  <2> SUFFICES ASSUME NEW p \in Tasks, res[p] # state[p], is_terminal(res[p])
               PROVE  ~Waits(res, p)
    OBVIOUS
  <2>1. CASE res[p] = m[p]
    BY <2>1, <1>7
  <2>2. CASE res[p] # m[p]
    <3>1. res[p] = "done"
      BY <2>2, <1>1 DEF RollupStates, is_terminal
    <3>2. live_states({res[c] : c \in children_of(res, p)}) = {"done"}
      BY <2>2, <3>1, <1>8
    <3> QED BY <3>2 DEF Waits, live_states, is_terminal
  <2> QED BY <2>1, <2>2
<1>11. \A p \in Tasks : res[p] # state[p] /\ res[p] = "done" /\ kind[p] # "leaf" =>
          live_states({res[c] : c \in children_of(res, p)}) = {"done"}
  BY <1>8
<1>12. \A p \in Tasks : res[p] # state[p] /\ res[p] = "decomposed" => Waits(res, p)
  <2> SUFFICES ASSUME NEW p \in Tasks, res[p] # state[p], res[p] = "decomposed"
               PROVE  Waits(res, p)
    OBVIOUS
  <2>1. res[p] # m[p]
    OBVIOUS
  <2>2. res[p] = rolled(m, res, p) /\ m[p] = "blocked"
    BY <2>1, <1>1
  <2>3. live_states({res[c] : c \in children_of(res, p)}) # {}
    BY <2>2 DEF rolled, rollup
  <2>4. PICK c \in children_of(res, p) : res[c] # "superseded"
    BY <2>3 DEF live_states
  <2> QED BY <2>2, <2>4, <1>9
<1>13. \A c \in Tasks \ {Root} :
          res[c] # state[c] /\ is_terminal(res[c]) /\ res[Parent[c]] = "decomposed" =>
            Waits(res, Parent[c])
  <2> SUFFICES ASSUME NEW c \in Tasks \ {Root}, res[c] # state[c], is_terminal(res[c]),
                      res[Parent[c]] = "decomposed"
               PROVE  Waits(res, Parent[c])
    OBVIOUS
  <2>0. Parent[c] \in Tasks /\ (res[c] # Absent => c \in children_of(res, Parent[c]))
    BY TreeFacts DEF children_of, Slots
  <2>1. CASE res[c] # m[c]
    <3>1. res[Parent[c]] = rolled(m, res, Parent[c])
      BY <2>1, <1>1
    <3>2. res[c] \in RollupStates
      BY <2>1, <1>1
    <3>3. res[c] # "superseded" /\ res[c] # Absent
      BY <3>2, <1>2 DEF RollupStates
    <3> QED BY <2>0, <3>1, <3>3, <1>9
  <2>2. CASE res[c] = m[c] /\ c = t
    <3>1. res[Parent[c]] = rolled(m, res, Parent[c])
      BY <2>2, <1>1
    <3>2. res[c] # "superseded" /\ res[c] # Absent
      BY <2>2
    <3> QED BY <2>0, <3>1, <3>2, <1>9
  <2>3. CASE res[c] = m[c] /\ c # t
    <3>1. is_terminal(m[Parent[c]])
      BY <2>3
    <3>2. res[Parent[c]] = m[Parent[c]]
      BY <2>0, <3>1, <1>4
    <3> QED BY <3>1, <3>2 DEF is_terminal
  <2> QED BY <2>1, <2>2, <2>3
<1> QED BY <1>1, <1>3, <1>5, <1>10, <1>11, <1>12, <1>13, TreeStep

-----------------------------------------------------------------------------
(* The subtree of a node. *)

\* The rows below t that are there: a child of one of them is one of them, and so
\* is the parent of every one but t.
LEMMA SubtreeFacts ==
  ASSUME LeafHasNoChildren, NEW t \in Tasks
  PROVE  /\ subtree_of(t) \subseteq Tasks
         /\ \A n \in subtree_of(t) : \A c \in children_of(state, n) : c \in subtree_of(t)
         /\ \A n \in subtree_of(t) \ {t} : n # Root /\ Parent[n] \in subtree_of(t)
<1>1. subtree_of(t) \subseteq Tasks
  BY DEF subtree_of
<1>2. \A n \in subtree_of(t) : \A c \in children_of(state, n) : c \in subtree_of(t)
  BY TreeAssumption DEF subtree_of, children_of, Slots, exists
<1>3. \A n \in subtree_of(t) \ {t} : n # Root /\ Parent[n] \in subtree_of(t)
  <2> SUFFICES ASSUME NEW n \in subtree_of(t), n # t
               PROVE  n # Root /\ Parent[n] \in subtree_of(t)
    OBVIOUS
  <2>1. n \in Tasks /\ t \in Lineage[n] /\ exists(n)
    BY DEF subtree_of
  <2>2. n # Root
    BY <2>1, TreeAssumption
  <2>3. Parent[n] \in Tasks /\ t \in Lineage[Parent[n]]
    BY <2>1, <2>2, TreeAssumption
  <2> QED BY <2>1, <2>2, <2>3 DEF subtree_of, LeafHasNoChildren
<1> QED BY <1>1, <1>2, <1>3

-----------------------------------------------------------------------------
(* The protocols that insert, finish or fail rows. *)

\* A step that leaves states and kinds alone leaves the tree alone.
LEMMA SameTree ==
  ASSUME TreeInv, state' = state, kind' = kind
  PROVE  TreeInv'
BY DEF TreeInv, LeafHasNoChildren, FinishedSubtree, DoneMeansDone, DecomposedWaits,
       exists, children_of

\* A write of t alone to ready or blocked, with a rollup pass.
LEMMA RollupMoveTree ==
  ASSUME TypeOK, TreeInv, NEW t \in Tasks, NEW s \in {"ready", "blocked"}, NEW actor,
         state[t] # Absent, ~is_terminal(state[t]), kind' = kind,
         \E st \in rollup_from(move(state, {t}, s), t) : write(st, {t}, actor)
  PROVE  TreeInv'
<1> DEFINE m == move(state, {t}, s)
<1>1. s \in TaskState /\ ~is_terminal(s) /\ s # "decomposed" /\ s # "superseded" /\ s # "done"
  BY NamedStates DEF is_terminal
<1>2. m \in [Tasks -> States]
  BY <1>1, MoveType DEF TypeOK, States
<1>3. m[t] = s /\ \A n \in Tasks : n # t => m[n] = state[n]
  BY DEF move
<1>4. PICK res \in rollup_from(m, t) : write(res, {t}, actor)
  OBVIOUS
<1> HIDE DEF m
<1>5. state' = res
  BY <1>4 DEF write, transition
<1>6. s # Absent
  BY <1>1, NotThere
<1>7. \A n \in Tasks : m[n] # state[n] => m[n] = s
  BY <1>3
<1>8. /\ \A n \in Tasks : state[n] = Absent <=> m[n] = Absent
      /\ \A n \in Tasks : is_terminal(state[n]) => m[n] = state[n]
      /\ m[t] \notin {Absent, "superseded"}
  BY <1>1, <1>3, <1>6
<1> QED BY <1>1, <1>2, <1>4, <1>5, <1>7, <1>8, TreeRollup

\* A failed leaf: its ready dependents are blocked and the parent is recomputed.
LEMMA FailTree ==
  ASSUME TypeOK, TreeInv, NEW t \in Tasks, NEW actor,
         state[t] # Absent, ~is_terminal(state[t]), kind' = kind,
         \E st \in rollup_from(block_dependents(move(state, {t}, "failed"), t), t) :
            write(st, {t}, actor)
  PROVE  TreeInv'
<1> DEFINE m == block_dependents(move(state, {t}, "failed"), t)
<1>1. m \in [Tasks -> States]
  BY FailedType
<1>2. /\ ~is_terminal("ready") /\ ~is_terminal("failed") /\ ~is_terminal("blocked")
      /\ Absent \notin {"ready", "failed", "blocked"}
  BY NotThere, NamedStates DEF is_terminal
<1>3. /\ m[t] = "failed"
      /\ \A n \in Tasks : \/ m[n] = state[n]
                          \/ n = t /\ m[n] = "failed"
                          \/ state[n] = "ready" /\ m[n] = "blocked"
  BY DEF block_dependents, dependents, move
<1>4. PICK res \in rollup_from(m, t) : write(res, {t}, actor)
  OBVIOUS
<1> HIDE DEF m
<1>5. state' = res
  BY <1>4 DEF write, transition
<1>6. \A n \in Tasks : m[n] # state[n] =>
         ~is_terminal(m[n]) /\ m[n] # "decomposed" /\ m[n] # "done"
  BY <1>2, <1>3
<1>7. /\ \A n \in Tasks : state[n] = Absent <=> m[n] = Absent
      /\ \A n \in Tasks : is_terminal(state[n]) => m[n] = state[n]
      /\ m[t] \notin {Absent, "superseded"}
  BY <1>2, <1>3
<1> QED BY <1>1, <1>4, <1>5, <1>6, <1>7, TreeRollup

\* cancel finishes whole subtrees.
LEMMA CancelTree ==
  ASSUME TypeOK, TreeInv, NEW t \in Tasks, cancel(t)
  PROVE  TreeInv'
<1> DEFINE S == {n \in subtree_of(t) : ~is_terminal(state[n])}
           m == move(state, S, "cancelled")
<1>1. /\ S \subseteq subtree_of(t) /\ S \subseteq Tasks
      /\ \A n \in subtree_of(t) : n \in S \/ is_terminal(state[n])
      /\ \A n \in S : ~is_terminal(state[n]) /\ state[n] # Absent
  BY DEF subtree_of, exists
<1>2. t \in S
  BY TreeFacts DEF cancel, subtree_of
<1>3. m \in [Tasks -> States]
  BY MoveType, NamedStates DEF TypeOK, States
<1>4. \A n \in Tasks : m[n] = IF n \in S THEN "cancelled" ELSE state[n]
  BY DEF move
<1>5. PICK res \in rollup_from(m, t) : write(res, S, "user")
  BY DEF cancel
<1>6. state' = res /\ kind' = kind
  BY <1>5 DEF cancel, write, transition, tree_vars
<1> HIDE DEF S, m
<1>7. is_terminal("cancelled") /\ "cancelled" # Absent
  BY NotThere, NamedStates DEF is_terminal
<1>8. \A n \in subtree_of(t) : is_terminal(m[n])
  BY <1>1, <1>4, <1>7, SubtreeFacts DEF TreeInv
<1>9. /\ \A n \in Tasks : state[n] = Absent <=> m[n] = Absent
      /\ \A n \in Tasks : is_terminal(state[n]) => m[n] = state[n]
      /\ m[t] \notin {Absent, "superseded"}
  BY <1>1, <1>2, <1>4, <1>7
<1>10. ASSUME NEW n \in Tasks, m[n] # state[n]
       PROVE  /\ m[n] # "decomposed"
              /\ m[n] = "done" => kind[n] = "leaf"
              /\ ~Waits(m, n)
              /\ n # t => n # Root /\ is_terminal(m[Parent[n]])
  <2>1. n \in S /\ n \in subtree_of(t)
    BY <1>1, <1>4, <1>10
  <2>2. \A c \in children_of(m, n) : c \in children_of(state, n)
    BY <1>9 DEF children_of, Slots
  <2>3. \A c \in children_of(m, n) : is_terminal(m[c])
    BY <2>1, <2>2, <1>8, SubtreeFacts DEF TreeInv
  <2>4. n # t => n # Root /\ is_terminal(m[Parent[n]])
    BY <2>1, <1>8, SubtreeFacts DEF TreeInv
  <2> QED BY <2>1, <2>3, <2>4, <1>4 DEF Waits
<1> QED BY <1>3, <1>5, <1>6, <1>9, <1>10, TreeRollup

\* replan supersedes everything unfinished below t and reopens t.
LEMMA ReplanTree ==
  ASSUME TypeOK, TreeInv, NEW t \in Tasks, replan(t)
  PROVE  TreeInv'
<1> DEFINE S  == {n \in subtree_of(t) \ {t} : ~is_terminal(state[n])}
           st == move(move(state, S, "superseded"), {t}, "decomposing")
<1>1. /\ S \subseteq subtree_of(t) /\ S \subseteq Tasks /\ t \notin S
      /\ \A n \in subtree_of(t) : n = t \/ n \in S \/ is_terminal(state[n])
      /\ \A n \in S : ~is_terminal(state[n]) /\ state[n] # Absent
  BY DEF subtree_of, exists
<1>2. state[t] \in {"decomposed", "blocked"} /\ kind' = kind /\ state' = st
  BY DEF replan, write, transition, tree_vars
<1>3. st \in [Tasks -> States]
  BY MoveType, NamedStates DEF TypeOK, States
<1>4. \A n \in Tasks : st[n] = IF n = t THEN "decomposing"
                               ELSE IF n \in S THEN "superseded" ELSE state[n]
  BY DEF move
<1> HIDE DEF S, st
<1>5. /\ is_terminal("superseded") /\ ~is_terminal("decomposing")
      /\ ~is_terminal("decomposed") /\ ~is_terminal("blocked")
      /\ Absent \notin {"superseded", "decomposing", "decomposed", "blocked"}
  BY NotThere, NamedStates DEF is_terminal
<1>6. \A n \in subtree_of(t) : n = t \/ is_terminal(st[n])
  BY <1>1, <1>4, <1>5, SubtreeFacts DEF TreeInv
<1>7. /\ \A n \in Tasks : state[n] = Absent <=> st[n] = Absent
      /\ \A n \in Tasks : is_terminal(state[n]) => st[n] = state[n]
  BY <1>1, <1>2, <1>4, <1>5
<1>8. ASSUME NEW n \in Tasks, st[n] # state[n], is_terminal(st[n])
      PROVE  /\ ~Waits(st, n) /\ n # Root
             /\ Parent[n] = t \/ is_terminal(st[Parent[n]])
  <2>1. n \in S /\ n \in subtree_of(t) /\ n # t
    BY <1>1, <1>4, <1>5, <1>8
  <2>2. \A c \in children_of(st, n) : c \in children_of(state, n)
    BY <1>7 DEF children_of, Slots
  <2>3. \A c \in children_of(st, n) : c \in subtree_of(t)
    BY <2>1, <2>2, SubtreeFacts DEF TreeInv
  <2>4. t \notin children_of(st, n)
    <3>1. t \in Lineage[n]
      BY <2>1 DEF subtree_of
    <3> QED BY <3>1, TreeAssumption DEF children_of, Slots
  <2>5. \A c \in children_of(st, n) : is_terminal(st[c])
    BY <2>3, <2>4, <1>6
  <2>6. n # Root /\ Parent[n] \in subtree_of(t)
    BY <2>1, SubtreeFacts DEF TreeInv
  <2> QED BY <2>5, <2>6, <1>6 DEF Waits
<1>9. \A n \in Tasks : st[n] # state[n] => st[n] \in {"decomposing", "superseded"}
  BY <1>4
<1>10. \A p \in Tasks : st[p] = "decomposed" => p # t /\ ~is_terminal(st[p])
  BY <1>4, <1>5
<1> QED
  <2>1. \A p \in Tasks : st[p] # state[p] /\ is_terminal(st[p]) => ~Waits(st, p)
    BY <1>8
  <2>2. \A c \in Tasks \ {Root} :
            st[c] # state[c] /\ is_terminal(st[c]) /\ st[Parent[c]] = "decomposed" =>
              Waits(st, Parent[c])
    BY <1>8, <1>10, TreeFacts
  <2> QED BY <1>2, <1>3, <1>7, <1>9, <2>1, <2>2, TreeStep

\* create inserts the root above nothing.
LEMMA CreateTree ==
  ASSUME TypeOK, TreeInv, NEW s \in {"draft", "ready"}, create(s)
  PROVE  TreeInv'
<1>1. /\ state[Root] = Absent /\ kind' = kind
      /\ \A n \in Tasks : state'[n] = IF n = Root THEN s ELSE state[n]
  BY TreeAssumption DEF create, exists, TypeOK, tree_vars
<1>2. s # Absent /\ ~is_terminal(s) /\ s # "decomposed"
  BY NotThere, NamedStates DEF is_terminal
<1>3. \A n \in Tasks \ {Root} : exists(n) => Parent[n] # Root
  BY <1>1 DEF TreeInv, LeafHasNoChildren, exists
<1>4. LeafHasNoChildren' /\ FinishedSubtree'
  BY <1>1, <1>2, <1>3, TreeFacts
     DEF TreeInv, LeafHasNoChildren, FinishedSubtree, exists
<1>5. \A p \in Tasks : children_of(state', p) = children_of(state, p)
                       /\ \A c \in children_of(state, p) : state'[c] = state[c]
  BY <1>1 DEF children_of, Slots
<1>6. DoneMeansDone'
  <2> SUFFICES ASSUME NEW p \in Tasks, kind[p] # "leaf", state'[p] = "done"
               PROVE  live_states({state'[c] : c \in children_of(state', p)}) = {"done"}
    BY <1>1 DEF DoneMeansDone
  <2>1. state[p] = "done"
    BY <1>1, <1>2 DEF is_terminal
  <2>2. {state'[c] : c \in children_of(state', p)} = {state[c] : c \in children_of(state, p)}
    BY <1>5
  <2> QED BY <2>1, <2>2 DEF TreeInv, DoneMeansDone
<1>7. DecomposedWaits'
  BY <1>1, <1>2, <1>5 DEF TreeInv, DecomposedWaits
<1> QED BY <1>4, <1>6, <1>7 DEF TreeInv

\* decompose inserts children below t, at least one, and touches no other row.
LEMMA DecomposeTree ==
  ASSUME TypeOK, TreeInv, NEW p \in Planners, NEW t \in Tasks, NEW n \in 1 .. MAX_CHILDREN,
         decompose(p, t, n)
  PROVE  TreeInv'
<1> DEFINE batch == new_children(t, n)
           first == IF gated(Depth[t] + 1) THEN "awaiting_approval" ELSE "ready"
           st    == move(move(state, batch, first), {t}, "decomposed")
<1>1. /\ kind[t] # "leaf" /\ state[t] = "decomposing" /\ kind' = kind /\ state' = st
      /\ Cardinality(batch) = n
      /\ transition(st, {t}, "planner")
  BY DEF decompose, cas, write, transition
<1>2. batch # {}
  BY <1>1, FS_EmptySet DEF MAX_CHILDREN
<1>3. \A c \in batch : c \in Tasks \ {Root} /\ Parent[c] = t /\ c # t
  BY TreeFacts DEF new_children, Slots
<1>4. first \in {"awaiting_approval", "ready"}
  OBVIOUS
<1>5. \A x \in Tasks : st[x] = IF x = t THEN "decomposed"
                               ELSE IF x \in batch THEN first ELSE state[x]
  BY DEF move
<1> HIDE DEF batch, first, st
<1>6. /\ \A s \in {"awaiting_approval", "ready", "decomposed", "decomposing"} :
            s # Absent /\ ~is_terminal(s)
  BY NotThere, NamedStates DEF is_terminal
<1>7. \A x \in Tasks : st[x] # state[x] /\ x # t => x \in batch /\ state[x] = Absent
  <2> SUFFICES ASSUME NEW x \in Tasks, st[x] # state[x], x # t, state[x] # Absent
               PROVE  FALSE
    BY <1>5
  <2>1. allowed(state[x], st[x], kind[x], "rollup")
    BY <1>1 DEF transition, exists
  <2> QED BY <2>1, <1>4, <1>5, RollupActorFacts
<1>8. \A x \in Tasks : st[x] = Absent => state[x] = Absent
  BY <1>4, <1>5, <1>6
<1>9. LeafHasNoChildren'
  <2> SUFFICES ASSUME NEW x \in Tasks \ {Root}, st[x] # Absent
               PROVE  kind[Parent[x]] # "leaf" /\ st[Parent[x]] # Absent
    BY <1>1 DEF LeafHasNoChildren, exists
  <2>1. CASE state[x] # Absent
    BY <2>1, <1>8, TreeFacts DEF TreeInv, LeafHasNoChildren, exists
  <2>2. CASE state[x] = Absent
    <3>1. x \in batch
      BY <2>2, <1>7, <1>1, <1>6
    <3> QED BY <3>1, <1>1, <1>3, <1>5, <1>6
  <2> QED BY <2>1, <2>2
<1>10. FinishedSubtree'
  <2> SUFFICES ASSUME NEW x \in Tasks \ {Root}, st[x] # Absent, is_terminal(st[Parent[x]])
               PROVE  is_terminal(st[x])
    BY <1>1 DEF FinishedSubtree, exists
  <2>1. Parent[x] \in Tasks /\ Parent[x] # t /\ Parent[x] \notin batch
    BY TreeFacts, <1>4, <1>5, <1>6
  <2>2. is_terminal(state[Parent[x]]) /\ x \notin batch
    BY <2>1, <1>3, <1>5
  <2>3. x # t
    BY <2>2, <1>1, <1>6 DEF TreeInv, FinishedSubtree, exists
  <2> QED BY <2>2, <2>3, <1>5 DEF TreeInv, FinishedSubtree, exists
<1>11. DoneMeansDone'
  <2> SUFFICES ASSUME NEW x \in Tasks, kind[x] # "leaf", st[x] = "done"
               PROVE  live_states({st[c] : c \in children_of(st, x)}) = {"done"}
    BY <1>1 DEF DoneMeansDone
  <2>1. x # t /\ state[x] = "done"
    BY <1>4, <1>5
  <2>2. live_states({state[c] : c \in children_of(state, x)}) = {"done"}
    BY <2>1 DEF TreeInv, DoneMeansDone
  <2>3. t \notin children_of(state, x)
    BY <2>2, <1>1 DEF live_states
  <2>4. /\ \A c \in Slots(x) : c \in Tasks /\ c \notin batch
    BY <2>1, <1>3 DEF Slots
  <2>5. \A c \in Slots(x) : st[c] = state[c]
    BY <2>3, <2>4, <1>1, <1>5, <1>6 DEF children_of
  <2>6. children_of(st, x) = children_of(state, x)
    BY <2>5 DEF children_of
  <2>7. {st[c] : c \in children_of(st, x)} = {state[c] : c \in children_of(state, x)}
    BY <2>5, <2>6 DEF children_of
  <2> QED BY <2>2, <2>7
<1>12. DecomposedWaits'
  <2> SUFFICES ASSUME NEW x \in Tasks, st[x] = "decomposed"
               PROVE  \E c \in children_of(st, x) : ~is_terminal(st[c])
    BY <1>1 DEF DecomposedWaits
  <2>1. CASE x = t
    <3>1. PICK c \in batch : TRUE
      BY <1>2
    <3>2. c \in children_of(st, t) /\ ~is_terminal(st[c])
      BY <3>1, <1>3, <1>4, <1>5, <1>6 DEF children_of, Slots
    <3> QED BY <2>1, <3>2
  <2>2. CASE x # t
    <3>1. state[x] = "decomposed"
      BY <2>2, <1>4, <1>5
    <3>2. PICK c \in children_of(state, x) : ~is_terminal(state[c])
      BY <3>1 DEF TreeInv, DecomposedWaits
    <3>3. c \in Slots(x) /\ c \in Tasks /\ state[c] # Absent
      BY <3>2 DEF children_of, Slots
    <3>4. st[c] = state[c] \/ st[c] = "decomposed"
      BY <3>3, <1>5, <1>7
    <3> QED BY <3>2, <3>3, <3>4, <1>6, <1>8 DEF children_of
  <2> QED BY <2>1, <2>2
<1> QED BY <1>9, <1>10, <1>11, <1>12 DEF TreeInv

-----------------------------------------------------------------------------
(* One step per protocol. *)

\* Every step keeps the tree invariants, one case per protocol.
LEMMA TreeInvStep ==
  ASSUME TypeOK, LeaseIntegrity, TreeInv, [Next]_vars
  PROVE  TreeInv'
<1>0. state \in [Tasks -> States]
  BY DEF TypeOK, States
<1>a. \A s \in {"ready", "claimed", "running", "in_review", "decomposing",
                "awaiting_approval", "blocked", "failed", "decomposed"} :
         ~is_terminal(s) /\ s # Absent
  BY NotThere, NamedStates DEF is_terminal
<1>1. ASSUME NEW t \in Tasks, plan_start_blocked(t)
       PROVE  TreeInv'
  <2>1. /\ state[t] # Absent /\ ~is_terminal(state[t])
        /\ kind' = kind
        /\ \E st \in rollup_from(move(state, {t}, "blocked"), t) : write(st, {t}, "planner")
    BY <1>1, <1>a DEF plan_start_blocked, plan_start_ok, cas, tree_vars
  <2> QED BY <2>1, <1>0, RollupMoveTree
<1>2. ASSUME NEW p \in Planners, NEW t \in Tasks, plan_start(p, t)
       PROVE  TreeInv'
  <2> DEFINE st == move(state, {t}, "decomposing")
  <2>1. /\ state' = st /\ st \in [Tasks -> States] /\ kind' = kind
        /\ \A x \in {t} : state[x] # Absent /\ ~is_terminal(state[x])
    BY <1>2, <1>0, <1>a, MoveType, NamedStates
       DEF plan_start, plan_start_ok, cas, claimable, write, transition, tree_vars
  <2>2. /\ \A x \in Tasks : state[x] = Absent <=> st[x] = Absent
        /\ \A x \in Tasks : is_terminal(state[x]) => st[x] = state[x]
        /\ \A x \in Tasks : st[x] # state[x] => st[x] = "decomposing"
    BY <2>1, <1>a DEF move
  <2> HIDE DEF st
  <2> QED BY <2>1, <2>2, <1>a, TreeQuiet
<1>3. ASSUME NEW p \in Planners, NEW t \in Tasks, NEW n \in 1 .. MAX_CHILDREN, decompose(p, t, n)
       PROVE  TreeInv'
  BY <1>3, DecomposeTree
<1>4. ASSUME NEW p \in Planners, NEW t \in Tasks, mark_leaf(p, t)
       PROVE  TreeInv'
  <2> DEFINE s  == IF gated(Depth[t]) THEN "awaiting_approval" ELSE "ready"
             st == move(state, {t}, s)
  <2>1. s \in {"awaiting_approval", "ready"}
    OBVIOUS
  <2>2. /\ state' = st /\ state[t] = "decomposing"
        /\ \A x \in Tasks : \/ kind'[x] = kind[x]
                            \/ kind'[x] = "leaf" /\ children_of(state, x) = {}
    BY <1>4 DEF mark_leaf, cas, write, transition, TypeOK
  <2> HIDE DEF s
  <2>3. st \in [Tasks -> States]
    BY <2>1, <1>0, MoveType, NamedStates
  <2>4. /\ \A x \in Tasks : state[x] = Absent <=> st[x] = Absent
        /\ \A x \in Tasks : is_terminal(state[x]) => st[x] = state[x]
        /\ \A x \in Tasks : st[x] # state[x] => st[x] = s
    BY <2>1, <2>2, <1>a DEF move
  <2> HIDE DEF st
  <2> QED BY <2>1, <2>2, <2>3, <2>4, <1>a, TreeQuiet
<1>5. ASSUME NEW p \in Planners, NEW t \in Tasks, plan_close_needs_info(p, t)
       PROVE  TreeInv'
  <2> DEFINE st == move(state, {t}, "awaiting_approval")
  <2>1. /\ state' = st /\ st \in [Tasks -> States] /\ kind' = kind
        /\ \A x \in {t} : state[x] # Absent /\ ~is_terminal(state[x])
    BY <1>5, <1>0, <1>a, MoveType, NamedStates
       DEF plan_close_needs_info, plan_start_ok, cas, claimable, write, transition, tree_vars
  <2>2. /\ \A x \in Tasks : state[x] = Absent <=> st[x] = Absent
        /\ \A x \in Tasks : is_terminal(state[x]) => st[x] = state[x]
        /\ \A x \in Tasks : st[x] # state[x] => st[x] = "awaiting_approval"
    BY <2>1, <1>a DEF move
  <2> HIDE DEF st
  <2> QED BY <2>1, <2>2, <1>a, TreeQuiet
<1>6. ASSUME NEW p \in Planners, NEW t \in Tasks, plan_close_reject(p, t)
       PROVE  TreeInv'
  <2>1. /\ state[t] # Absent /\ ~is_terminal(state[t])
        /\ kind' = kind
        /\ \E st \in rollup_from(move(state, {t}, "blocked"), t) : write(st, {t}, "planner")
    BY <1>6, <1>a DEF plan_close_reject, plan_start_ok, cas, tree_vars
  <2> QED BY <2>1, <1>0, RollupMoveTree
<1>7. ASSUME NEW p \in Planners, NEW t \in Tasks, plan_close_error(p, t)
       PROVE  TreeInv'
  <2>1. state[t] = "decomposing" /\ kind' = kind
    BY <1>7 DEF plan_close_error, cas, tree_vars
  <2>2. CASE attempts[t] + 1 >= policy.max_plan_attempts
    <3>1. \E st \in rollup_from(move(state, {t}, "blocked"), t) : write(st, {t}, "planner")
      BY <1>7, <2>2 DEF plan_close_error
    <3> QED BY <2>1, <3>1, <1>0, <1>a, RollupMoveTree
  <2>3. CASE ~(attempts[t] + 1 >= policy.max_plan_attempts)
    <3> DEFINE st == move(state, {t}, "ready")
    <3>1. state' = st /\ st \in [Tasks -> States]
      BY <1>7, <2>3, <1>0, MoveType, NamedStates DEF plan_close_error, write, transition
    <3>2. /\ \A x \in Tasks : state[x] = Absent <=> st[x] = Absent
          /\ \A x \in Tasks : is_terminal(state[x]) => st[x] = state[x]
          /\ \A x \in Tasks : st[x] # state[x] => st[x] = "ready"
      BY <2>1, <1>a DEF move
    <3> HIDE DEF st
    <3> QED BY <2>1, <3>1, <3>2, <1>a, TreeQuiet
  <2> QED BY <2>2, <2>3
<1>8. ASSUME NEW o \in Owners, NEW S \in SUBSET Tasks, claim(o, S)
       PROVE  TreeInv'
  <2> DEFINE st == move(state, S, "claimed")
  <2>1. /\ state' = st /\ st \in [Tasks -> States] /\ kind' = kind
        /\ \A x \in S : state[x] # Absent /\ ~is_terminal(state[x])
    BY <1>8, <1>0, <1>a, MoveType, NamedStates
       DEF claim, plan_start_ok, cas, claimable, write, transition, tree_vars
  <2>2. /\ \A x \in Tasks : state[x] = Absent <=> st[x] = Absent
        /\ \A x \in Tasks : is_terminal(state[x]) => st[x] = state[x]
        /\ \A x \in Tasks : st[x] # state[x] => st[x] = "claimed"
    BY <2>1, <1>a DEF move
  <2> HIDE DEF st
  <2> QED BY <2>1, <2>2, <1>a, TreeQuiet
<1>9. ASSUME NEW o \in Owners, NEW t \in Tasks, heartbeat(o, t)
       PROVE  TreeInv'
  BY <1>9, SameTree DEF heartbeat, tree_vars
<1>10. ASSUME NEW o \in Owners, NEW t \in Tasks, start(o, t)
       PROVE  TreeInv'
  <2> DEFINE st == move(state, {t}, "running")
  <2>1. /\ state' = st /\ st \in [Tasks -> States] /\ kind' = kind
        /\ \A x \in {t} : state[x] # Absent /\ ~is_terminal(state[x])
    BY <1>10, <1>0, <1>a, MoveType, NamedStates
       DEF start, plan_start_ok, cas, claimable, write, transition, tree_vars
  <2>2. /\ \A x \in Tasks : state[x] = Absent <=> st[x] = Absent
        /\ \A x \in Tasks : is_terminal(state[x]) => st[x] = state[x]
        /\ \A x \in Tasks : st[x] # state[x] => st[x] = "running"
    BY <2>1, <1>a DEF move
  <2> HIDE DEF st
  <2> QED BY <2>1, <2>2, <1>a, TreeQuiet
<1>11. ASSUME NEW o \in Owners, NEW t \in Tasks, complete(o, t)
       PROVE  TreeInv'
  <2> DEFINE st == move(state, {t}, "in_review")
  <2>1. /\ state' = st /\ st \in [Tasks -> States] /\ kind' = kind
        /\ \A x \in {t} : state[x] # Absent /\ ~is_terminal(state[x])
    BY <1>11, <1>0, <1>a, MoveType, NamedStates
       DEF complete, plan_start_ok, cas, claimable, write, transition, tree_vars
  <2>2. /\ \A x \in Tasks : state[x] = Absent <=> st[x] = Absent
        /\ \A x \in Tasks : is_terminal(state[x]) => st[x] = state[x]
        /\ \A x \in Tasks : st[x] # state[x] => st[x] = "in_review"
    BY <2>1, <1>a DEF move
  <2> HIDE DEF st
  <2> QED BY <2>1, <2>2, <1>a, TreeQuiet
<1>12. ASSUME NEW o \in Owners, NEW t \in Tasks, fail(o, t)
       PROVE  TreeInv'
  <2>1. /\ state[t] = "running" /\ kind' = kind
        /\ \E st \in rollup_from(block_dependents(move(state, {t}, "failed"), t), t) :
              write(st, {t}, "worker")
    BY <1>12 DEF fail, tree_vars
  <2> QED BY <2>1, <1>a, FailTree
<1>13. ASSUME NEW S \in SUBSET Tasks, reap(S)
       PROVE  TreeInv'
  <2> DEFINE st == move(state, S, "ready")
  <2>1. state' = st /\ st \in [Tasks -> States] /\ kind' = kind
    BY <1>13, <1>0, MoveType, NamedStates DEF reap, write, transition, tree_vars
  <2>2. \A x \in S : is_leased(state[x])
    BY <1>13 DEF reap, LeaseIntegrity
  <2>3. \A x \in S : state[x] # Absent /\ ~is_terminal(state[x])
    BY <2>2, <1>a DEF is_leased
  <2>4. /\ \A x \in Tasks : state[x] = Absent <=> st[x] = Absent
        /\ \A x \in Tasks : is_terminal(state[x]) => st[x] = state[x]
        /\ \A x \in Tasks : st[x] # state[x] => st[x] = "ready"
    BY <2>3, <1>a DEF move
  <2> HIDE DEF st
  <2> QED BY <2>1, <2>4, <1>a, TreeQuiet
<1>14. ASSUME NEW S \in SUBSET Tasks, reap_decomposing(S)
       PROVE  TreeInv'
  <2> DEFINE st == move(state, S, "ready")
  <2>1. /\ state' = st /\ st \in [Tasks -> States] /\ kind' = kind
        /\ \A x \in S : state[x] # Absent /\ ~is_terminal(state[x])
    BY <1>14, <1>0, <1>a, MoveType, NamedStates
       DEF reap_decomposing, plan_start_ok, cas, claimable, write, transition, tree_vars
  <2>2. /\ \A x \in Tasks : state[x] = Absent <=> st[x] = Absent
        /\ \A x \in Tasks : is_terminal(state[x]) => st[x] = state[x]
        /\ \A x \in Tasks : st[x] # state[x] => st[x] = "ready"
    BY <2>1, <1>a DEF move
  <2> HIDE DEF st
  <2> QED BY <2>1, <2>2, <1>a, TreeQuiet
<1>15. ASSUME NEW t \in Tasks, resolve_merged(t)
       PROVE  TreeInv'
  <2> DEFINE m == move(state, {t}, "done")
  <2>1. /\ m \in [Tasks -> States] /\ state[t] = "in_review" /\ kind' = kind
    BY <1>15, <1>0, MoveType, NamedStates DEF resolve_merged, tree_vars
  <2>2. /\ m[t] = "done" /\ \A x \in Tasks : x # t => m[x] = state[x]
    BY DEF move
  <2>3. PICK res \in rollup_from(m, t) : write(res, {t}, "poller")
    BY <1>15 DEF resolve_merged
  <2> HIDE DEF m
  <2>4. res[t] = "done" /\ state' = res
    BY <2>1, <2>2, <2>3, RollupFacts DEF Ancestors, write, transition
  <2>5. kind[t] = "leaf"
    <3>1. allowed(state[t], "done", kind[t], "poller")
      BY <2>1, <2>3, <2>4, <1>a DEF write, transition, exists
    <3> QED BY <3>1, AllowedFacts
  <2>6. children_of(state, t) = {}
    BY <2>5 DEF TreeInv, LeafHasNoChildren, children_of, Slots, exists
  <2>7. children_of(m, t) = {}
    BY <2>1, <2>2, <2>6, <1>a, TreeFacts DEF children_of, Slots
  <2>8. \A x \in Tasks : m[x] # state[x] =>
           /\ m[x] # "decomposed"
           /\ m[x] = "done" => kind[x] = "leaf"
           /\ is_terminal(m[x]) => /\ ~Waits(m, x)
                                   /\ x # t => x # Root /\ is_terminal(m[Parent[x]])
    BY <2>2, <2>5, <2>7 DEF Waits
  <2>9. m[t] \notin {Absent, "superseded"}
    BY <2>2, NotThere, NamedStates
  <2>10. /\ \A x \in Tasks : state[x] = Absent <=> m[x] = Absent
         /\ \A x \in Tasks : is_terminal(state[x]) => m[x] = state[x]
    BY <2>1, <2>2, <2>9, <1>a
  <2> QED BY <2>1, <2>3, <2>4, <2>8, <2>9, <2>10, TreeRollup
<1>16. ASSUME NEW t \in Tasks, resolve_closed(t)
       PROVE  TreeInv'
  <2>1. /\ state[t] = "in_review" /\ kind' = kind
        /\ \E st \in rollup_from(block_dependents(move(state, {t}, "failed"), t), t) :
              write(st, {t}, "poller")
    BY <1>16 DEF resolve_closed, tree_vars
  <2> QED BY <2>1, <1>a, FailTree
<1>17. ASSUME NEW s \in {"draft", "ready"}, create(s)
       PROVE  TreeInv'
  BY <1>17, CreateTree
<1>18. ASSUME NEW pol \in Policies, update_policy(pol)
       PROVE  TreeInv'
  BY <1>18, SameTree DEF update_policy, tree_vars
<1>19. ASSUME NEW t \in Tasks, approve(t)
       PROVE  TreeInv'
  <2> DEFINE st == move(state, {t}, "ready")
  <2>1. /\ state' = st /\ st \in [Tasks -> States] /\ kind' = kind
        /\ \A x \in {t} : state[x] # Absent /\ ~is_terminal(state[x])
    BY <1>19, <1>0, <1>a, MoveType, NamedStates
       DEF approve, plan_start_ok, cas, claimable, write, transition, tree_vars
  <2>2. /\ \A x \in Tasks : state[x] = Absent <=> st[x] = Absent
        /\ \A x \in Tasks : is_terminal(state[x]) => st[x] = state[x]
        /\ \A x \in Tasks : st[x] # state[x] => st[x] = "ready"
    BY <2>1, <1>a DEF move
  <2> HIDE DEF st
  <2> QED BY <2>1, <2>2, <1>a, TreeQuiet
<1>20. ASSUME NEW t \in Tasks, answer(t)
       PROVE  TreeInv'
  <2> DEFINE st == move(state, {t}, "ready")
  <2>1. /\ state' = st /\ st \in [Tasks -> States] /\ kind' = kind
        /\ \A x \in {t} : state[x] # Absent /\ ~is_terminal(state[x])
    BY <1>20, <1>0, <1>a, MoveType, NamedStates
       DEF answer, plan_start_ok, cas, claimable, write, transition, tree_vars
  <2>2. /\ \A x \in Tasks : state[x] = Absent <=> st[x] = Absent
        /\ \A x \in Tasks : is_terminal(state[x]) => st[x] = state[x]
        /\ \A x \in Tasks : st[x] # state[x] => st[x] = "ready"
    BY <2>1, <1>a DEF move
  <2> HIDE DEF st
  <2> QED BY <2>1, <2>2, <1>a, TreeQuiet
<1>21. ASSUME NEW t \in Tasks, approve_children(t)
       PROVE  TreeInv'
  <2> DEFINE waiting == {c \in children_of(state, t) : state[c] = "awaiting_approval"}
             st == move(state, waiting, "ready")
  <2>1. /\ state' = st /\ st \in [Tasks -> States] /\ kind' = kind
    BY <1>21, <1>0, MoveType, NamedStates DEF approve_children, write, transition, tree_vars
  <2>2. /\ \A x \in Tasks : state[x] = Absent <=> st[x] = Absent
        /\ \A x \in Tasks : is_terminal(state[x]) => st[x] = state[x]
        /\ \A x \in Tasks : st[x] # state[x] => st[x] = "ready"
    BY <1>a DEF move
  <2> HIDE DEF st
  <2> QED BY <2>1, <2>2, <1>a, TreeQuiet
<1>22. ASSUME NEW t \in Tasks, retry(t)
       PROVE  TreeInv'
  <2>1. /\ state[t] # Absent /\ ~is_terminal(state[t])
        /\ kind' = kind
        /\ \E st \in rollup_from(move(state, {t}, "ready"), t) : write(st, {t}, "user")
    BY <1>22, <1>a DEF retry, plan_start_ok, cas, tree_vars
  <2> QED BY <2>1, <1>0, RollupMoveTree
<1>23. ASSUME NEW t \in Tasks, cancel(t)
       PROVE  TreeInv'
  BY <1>23, CancelTree
<1>24. ASSUME NEW t \in Tasks, replan(t)
       PROVE  TreeInv'
  BY <1>24, ReplanTree
<1>25. ASSUME NEW t \in Tasks, lease_expires(t)
       PROVE  TreeInv'
  BY <1>25, SameTree DEF lease_expires, tree_vars
<1>26. ASSUME NEW t \in Tasks, plan_goes_stale(t)
       PROVE  TreeInv'
  BY <1>26, SameTree DEF plan_goes_stale, tree_vars
<1>27. CASE UNCHANGED vars
  BY <1>27, SameTree DEF vars
<1> QED
  BY <1>1, <1>2, <1>3, <1>4, <1>5, <1>6, <1>7, <1>8, <1>9, <1>10, <1>11, <1>12, <1>13, <1>14,
     <1>15, <1>16, <1>17, <1>18, <1>19, <1>20, <1>21, <1>22, <1>23, <1>24, <1>25, <1>26, <1>27
     DEF Next, PlannerStep, WorkerStep, DriverStep, UserStep, Clock

\* The tree invariants of the runs, for every tree: a leaf has no children and no
\* row an absent parent; nothing unfinished is below a finished row; a done node
\* stands over done work; a decomposed node waits for a child.
THEOREM TreeCorrect ==
  Spec => [](LeafHasNoChildren /\ FinishedSubtree /\ DoneMeansDone /\ DecomposedWaits)
<1>1. Init => TreeInv
  <2> SUFFICES ASSUME Init PROVE TreeInv
    OBVIOUS
  <2>1. \A t \in Tasks : state[t] = Absent
    BY DEF Init
  <2>2. Absent \notin {"done", "decomposed"}
    BY NotThere, NamedStates
  <2> QED BY <2>1, <2>2
          DEF TreeInv, LeafHasNoChildren, FinishedSubtree, DoneMeansDone, DecomposedWaits, exists
<1>2. TypeOK /\ LeaseIntegrity /\ TreeInv /\ [Next]_vars => TreeInv'
  BY TreeInvStep
<1> QED BY <1>1, <1>2, TypeCorrect, LeaseCorrect, PTL DEF Spec, TreeInv

\* A leaf has no children (mark_leaf refuses a parent, decompose a leaf).
THEOREM LeavesCorrect == Spec => []LeafHasNoChildren
BY TreeCorrect, PTL

\* A node that is done stands over done or cancelled work (rollup).
THEOREM DoneCorrect == Spec => []DoneMeansDone
BY TreeCorrect, PTL

\* A decomposed node has a child that is not finished, so the rollup is still to come.
THEOREM DecomposedCorrect == Spec => []DecomposedWaits
BY TreeCorrect, PTL

-----------------------------------------------------------------------------
(* Dependencies. *)

\* The states of a leaf that a worker has taken up.
TakenUp == {"claimed", "running", "in_review", "done", "failed"}

\* Inductive form: only rows that are there are leaves.
DepsInv == DependenciesDone /\ \A t \in Tasks : kind[t] = "leaf" => exists(t)

\* Dependencies are written once, on rows that decompose inserts or leaves unclaimed.
LEMMA DepsWrittenOnce ==
  ASSUME TypeOK, [Next]_vars, NEW t \in Tasks
  PROVE  depends_on'[t] = depends_on[t] \/ state'[t] \notin TakenUp
<1>1. CASE depends_on' = depends_on
  BY <1>1
<1>2. ASSUME NEW p \in Planners, NEW x \in Tasks, NEW n \in 1 .. MAX_CHILDREN,
             decompose(p, x, n)
      PROVE  depends_on'[t] = depends_on[t] \/ state'[t] \notin TakenUp
  <2>1. CASE t \in new_children(x, n)
    <3>1. state'[t] \in {"awaiting_approval", "ready", "decomposed"}
      BY <1>2, <2>1 DEF decompose, write, transition, move
    <3> QED BY <3>1 DEF TakenUp
  <2>2. CASE t \notin new_children(x, n)
    BY <1>2, <2>2 DEF decompose
  <2> QED BY <2>1, <2>2
<1>3. \/ depends_on' = depends_on
      \/ \E p \in Planners : \E x \in Tasks : \E n \in 1 .. MAX_CHILDREN : decompose(p, x, n)
  <2>1. CASE PlannerStep
    BY <2>1 DEF PlannerStep, plan_start_blocked, plan_start, mark_leaf,
                plan_close_needs_info, plan_close_reject, plan_close_error, tree_vars
  <2>2. CASE WorkerStep
    BY <2>2 DEF WorkerStep, claim, heartbeat, start, complete, fail, tree_vars
  <2>3. CASE DriverStep
    BY <2>3 DEF DriverStep, reap, reap_decomposing, resolve_merged, resolve_closed, tree_vars
  <2>4. CASE UserStep
    BY <2>4 DEF UserStep, create, update_policy, approve, answer, approve_children, retry,
                cancel, replan, tree_vars
  <2>5. CASE Clock \/ UNCHANGED vars
    BY <2>5 DEF Clock, lease_expires, plan_goes_stale, tree_vars, vars
  <2> QED BY <2>1, <2>2, <2>3, <2>4, <2>5 DEF Next
<1> QED BY <1>1, <1>2, <1>3

\* Only claim moves a row to claimed, and it takes claimable rows.
LEMMA ClaimedWereClaimable ==
  ASSUME TypeOK, [Next]_vars, NEW t \in Tasks, exists(t),
         state'[t] = "claimed", state[t] # "claimed"
  PROVE  t \in claimable
<1>1. ASSUME NEW st, NEW S, NEW actor \in ActorClass \ {"driver"}, transition(st, S, actor)
      PROVE  FALSE
  <2>1. allowed(state[t], "claimed", kind[t], IF t \in S THEN actor ELSE "rollup")
    BY <1>1 DEF transition
  <2> QED BY <2>1, AllowedFacts
<1>2. \A a \in {"planner", "worker", "reaper", "poller", "user"} : a \in ActorClass \ {"driver"}
  BY DEF ActorClass
<1>3. CASE PlannerStep
  BY <1>1, <1>2, <1>3 DEF PlannerStep, plan_start_blocked, plan_start, decompose, mark_leaf,
                     plan_close_needs_info, plan_close_reject, plan_close_error, write
<1>4. CASE WorkerStep
  <2>1. ASSUME NEW o \in Owners, NEW S \in SUBSET Tasks, claim(o, S)
        PROVE  t \in claimable
    BY <2>1 DEF claim, move
  <2>2. ASSUME NEW o \in Owners, NEW x \in Tasks,
               heartbeat(o, x) \/ start(o, x) \/ complete(o, x) \/ fail(o, x)
        PROVE  FALSE
    BY <1>1, <1>2, <2>2 DEF heartbeat, start, complete, fail, write
  <2> QED BY <1>4, <2>1, <2>2 DEF WorkerStep
<1>5. CASE DriverStep
  BY <1>1, <1>2, <1>5 DEF DriverStep, reap, reap_decomposing, resolve_merged, resolve_closed,
                     write
<1>6. CASE UserStep
  <2>1. ASSUME NEW s \in {"draft", "ready"}, create(s)
        PROVE  FALSE
    BY <2>1, TreeAssumption DEF create, TypeOK
  <2>2. ASSUME NEW pol \in Policies, update_policy(pol)
        PROVE  FALSE
    BY <2>2 DEF update_policy
  <2>3. ASSUME NEW x \in Tasks, \/ approve(x) \/ answer(x) \/ approve_children(x)
                                \/ retry(x) \/ cancel(x) \/ replan(x)
        PROVE  FALSE
    BY <1>1, <1>2, <2>3 DEF approve, answer, approve_children, retry, cancel, replan, write
  <2> QED BY <1>6, <2>1, <2>2, <2>3 DEF UserStep
<1>7. CASE Clock \/ UNCHANGED vars
  BY <1>7 DEF Clock, lease_expires, plan_goes_stale, vars
<1> QED BY <1>3, <1>4, <1>5, <1>6, <1>7 DEF Next

\* A leaf is taken up only behind done dependencies, and they stay done.
THEOREM DependenciesCorrect == Spec => []DependenciesDone
<1>1. Init => DepsInv
  BY DEF Init, DepsInv, DependenciesDone
<1>2. TypeOK /\ DepsInv /\ [Next]_vars => DepsInv'
  <2> SUFFICES ASSUME TypeOK, DepsInv, [Next]_vars
               PROVE  DepsInv'
    OBVIOUS
  <2>1. MovesAllowed /\ KindsGrow
    BY StepAllowed
  <2>2. \A t \in Tasks : exists(t) => state'[t] # Absent
    BY <2>1, AllowedFacts, NotThere DEF MovesAllowed, exists
  <2>3. \A t \in Tasks : state[t] = "done" => state'[t] = "done"
    <3>1. "done" # Absent /\ is_terminal("done")
      BY NotThere, NamedStates DEF is_terminal
    <3> QED BY <3>1, <2>1, AllowedFacts DEF MovesAllowed, exists
  <2>4. \A t \in Tasks : kind'[t] = "leaf" => state'[t] # Absent
    <3>1. Absent \notin {"awaiting_approval", "ready"}
      BY NotThere, NamedStates
    <3> QED BY <3>1, <2>1, <2>2 DEF DepsInv, KindsGrow
  <2>5. ASSUME NEW t \in Tasks, kind'[t] = "leaf", state'[t] \in TakenUp,
               NEW d \in depends_on'[t]
        PROVE  state'[d] = "done"
    <3>1. kind[t] = "leaf" /\ exists(t)
      BY <2>1, <2>5 DEF KindsGrow, TakenUp, DepsInv
    <3>2. d \in depends_on[t] /\ d \in Tasks
      BY <2>5, DepsWrittenOnce DEF TypeOK
    <3>3. CASE state[t] \in TakenUp
      BY <3>1, <3>2, <3>3, <2>3 DEF DepsInv, DependenciesDone, TakenUp
    <3>4. CASE state[t] \notin TakenUp
      <4>1. state'[t] # state[t]
        BY <2>5, <3>4
      <4>2. PICK a \in ActorClass : allowed(state[t], state'[t], kind[t], a)
        BY <4>1, <3>1, <2>1 DEF MovesAllowed
      <4>3. state'[t] = "claimed"
        BY <4>2, <3>1, <3>4, <2>5, AllowedFacts DEF TakenUp
      <4>4. t \in claimable
        BY <4>1, <4>3, <3>1, ClaimedWereClaimable
      <4> QED BY <4>4, <3>2, <2>3 DEF claimable
    <3> QED BY <3>3, <3>4
  <2> QED BY <2>4, <2>5 DEF DepsInv, DependenciesDone, TakenUp, exists
<1>3. DepsInv => DependenciesDone
  BY DEF DepsInv
<1> QED BY <1>1, <1>2, <1>3, TypeCorrect, PTL DEF Spec

=============================================================================
