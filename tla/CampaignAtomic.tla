--------------------------- MODULE CampaignAtomic ---------------------------
(***************************************************************************)
(* What a transaction of the campaign store promises: the states of the    *)
(* rows change as if each protocol happened at once, over the rows as they *)
(* are at that moment.  Only the columns that locks are about are kept:    *)
(* state, and whether a row is a leaf.  CampaignTx, where a transaction    *)
(* locks, reads and writes in steps, is shown to implement this.           *)
(* (update_policy locks the root and writes no state: no protocol here.)   *)
(***************************************************************************)
EXTENDS CampaignRules

CONSTANTS
  Rows,     \* the rows the campaign can hold
  Root,
  Parent,   \* parent_id
  Lineage,  \* a row and its ancestors, as its path says
  Deps,     \* depends_on, as the planner sets it when it inserts the rows
  Gated,    \* rows whose level waits for an approval
  Absent,   \* the state of a row that is not inserted
  Ops       \* the protocols that are called in an instance

VARIABLES state, leafs

above(t) == Lineage[t] \ {t}

kids(st, p) == {c \in Rows \ {Root} : Parent[c] = p /\ st[c] # Absent}

slots(p) == {c \in Rows \ {Root} : Parent[c] = p}

below(st, t) == {n \in Rows : st[n] # Absent /\ t \in Lineage[n]}

set(st, S, s) == [r \in Rows |-> IF r \in S THEN s ELSE st[r]]

RollupStates == {"decomposed", "blocked", "done"}

\* The rollup pass reaches the parent of t, and then the parent of every ancestor
\* that it has rewritten.
reached(st, res, t, a) ==
  \/ t # Root /\ a = Parent[t]
  \/ \E c \in above(t) \ {Root} : a = Parent[c] /\ res[c] # st[c]

\* An ancestor the pass reaches takes the state the rule gives it over its children
\* as rewritten; every other row keeps its own.  (A set with one member.)
rollup_from(st, t) ==
  {res \in {[r \in Rows |-> IF r \in DOMAIN g THEN g[r] ELSE st[r]] :
              g \in UNION {[C -> RollupStates] : C \in SUBSET above(t)}} :
     \A a \in above(t) :
       res[a] = IF reached(st, res, t, a)
                THEN rollup(st[a], {res[c] : c \in kids(res, a)}) ELSE st[a]}

\* The condition each protocol checks on its row.
needs(op, t, st, lf) ==
  CASE op \in {"plan_start", "plan_capped"} -> st[t] = "ready" /\ t \notin lf
    [] op = "decompose"   -> st[t] = "decomposing" /\ slots(t) \ kids(st, t) # {}
    [] op = "mark_leaf"   -> st[t] = "decomposing" /\ t # Root /\ kids(st, t) = {}
    [] op \in {"plan_reject", "plan_needs_info", "plan_error"} -> st[t] = "decomposing"
    [] op \in {"approve", "answer"} -> st[t] = "awaiting_approval"
    [] op = "approve_children" -> st[t] # Absent
    [] op = "claim"       -> /\ st[t] = "ready" /\ t \in lf
                             /\ \A d \in Deps[t] : st[d] = "done"
    [] op = "reap"        -> is_leased(st[t])
    [] op = "reap_decomposing" -> st[t] = "decomposing"
    [] op = "start"       -> st[t] = "claimed"
    [] op = "complete"    -> st[t] = "running"
    [] op = "fail"        -> st[t] = "running"
    [] op = "merged"      -> st[t] = "in_review"
    [] op = "closed"      -> st[t] = "in_review"
    [] op = "retry"       -> st[t] = "failed" \/ (st[t] = "blocked" /\ t # Root)
    [] op = "cancel"      -> st[t] # Absent /\ ~is_terminal(st[t])
    [] op = "replan"      -> st[t] \in {"decomposed", "blocked"} /\ t \notin lf

\* The rows beyond its own that a protocol goes on to write.
others(op, t, st) ==
  CASE op \in {"cancel", "replan"} -> below(st, t)
    [] op = "approve_children" ->
         {c \in kids(st, t) : st[c] = "awaiting_approval"}
    [] op \in {"fail", "closed"} ->
         IF t = Root THEN {}
         ELSE {s \in kids(st, Parent[t]) : st[s] = "ready" /\ t \in Deps[s]}
    [] OTHER -> {}

\* What it makes of the states, where S are those other rows.  (One member.)
result(op, t, st, S) ==
  LET alive == {n \in S : ~is_terminal(st[n])}
      inserted == slots(t) \ kids(st, t)
  IN
  CASE op = "plan_start" -> {set(st, {t}, "decomposing")}
    [] op = "decompose"  ->
         {set(set(set(st, inserted, "ready"), inserted \cap Gated, "awaiting_approval"),
              {t}, "decomposed")}
    [] op \in {"plan_reject", "plan_capped"} -> rollup_from(set(st, {t}, "blocked"), t)
    [] op = "plan_needs_info" -> {set(st, {t}, "awaiting_approval")}
    [] op = "claim"       -> {set(st, {t}, "claimed")}
    [] op = "start"       -> {set(st, {t}, "running")}
    [] op = "complete"    -> {set(st, {t}, "in_review")}
    [] op = "merged"      -> rollup_from(set(st, {t}, "done"), t)
    [] op \in {"fail", "closed"} ->
         rollup_from(set(set(st, S, "blocked"), {t}, "failed"), t)
    [] op = "retry"       -> rollup_from(set(st, {t}, "ready"), t)
    [] op = "cancel"      -> rollup_from(set(st, alive, "cancelled"), t)
    [] op = "replan"      -> {set(set(st, alive, "superseded"), {t}, "decomposing")}
    [] op = "approve_children" -> {set(st, S, "ready")}
    [] OTHER              -> {set(st, {t}, IF op = "mark_leaf" /\ t \in Gated
                                           THEN "awaiting_approval" ELSE "ready")}

new_leafs(op, t) == IF op = "mark_leaf" THEN {t} ELSE {}

\* These list rows and lock them one by one: one that comes to qualify after the list
\* was read is left out, as if it had come later.
Listing == {"approve_children", "fail", "closed"}

call(op, t) ==
  /\ needs(op, t, state, leafs)
  /\ \E S \in SUBSET others(op, t, state) :
       /\ op \notin Listing => S = others(op, t, state)
       /\ state' \in result(op, t, state, S)
  /\ leafs' = leafs \cup new_leafs(op, t)

\* The root has just been created.
Init ==
  /\ state = [r \in Rows |-> IF r = Root THEN "ready" ELSE Absent]
  /\ leafs = {}

Next == \E op \in Ops, t \in Rows : call(op, t)

Spec == Init /\ [][Next]_<<state, leafs>>

=============================================================================
