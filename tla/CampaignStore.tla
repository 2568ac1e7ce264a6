--------------------------- MODULE CampaignStore ---------------------------
(***************************************************************************)
(* The campaign store (crates/agent-campaign/src/postgres.rs): the task    *)
(* tree of one campaign and one action per protocol of the CampaignStore   *)
(* trait.  Every protocol is one transaction, so one step here; a call     *)
(* that returns an error rolls its transaction back and is no step at all. *)
(*                                                                         *)
(* The tree.  Tasks is the set of the rows the campaign can ever hold, one *)
(* per path; a row not inserted yet is in state Absent.  Parent, Ordinal,  *)
(* Depth and Lineage are what the path column says about a row.            *)
(*                                                                         *)
(* Versions.  A row's version only ever grows and is only ever compared    *)
(* with the one plan_start returned (expected_version), so a row keeps the *)
(* planner call whose expected_version is still current (holder), and any  *)
(* other write of the row clears it.                                       *)
(*                                                                         *)
(* Time.  A lease is past lease_until (expired) or not; a decomposing row  *)
(* is older than DECOMPOSING_MAX_SECS (stale) or not.                      *)
(***************************************************************************)
EXTENDS CampaignRules, Integers

CONSTANTS
  Tasks,      \* the rows of the campaign, one per path
  Root,       \* the objective
  Parent,     \* parent_id
  Ordinal,    \* the last component of the path
  Depth,      \* the number of components after the first
  Lineage,    \* a row and its ancestors: the prefixes of its path
  Owners,     \* owner tokens of drivers
  Planners,   \* planner calls
  Policies,   \* policies a user can store on the root
  NoOwner, NoPlanner, Absent

\* The path column: a child's path extends its parent's by one ordinal.
ASSUME TreeAssumption ==
  /\ Root \in Tasks
  /\ Parent \in [Tasks \ {Root} -> Tasks]
  /\ Ordinal \in [Tasks \ {Root} -> Nat \ {0}]
  /\ Depth \in [Tasks -> Nat] /\ Depth[Root] = 0
  /\ Lineage \in [Tasks -> SUBSET Tasks]
  /\ Lineage[Root] = {Root}
  /\ \A t \in Tasks : \A a \in Lineage[t] : Lineage[a] \subseteq Lineage[t]
  /\ \A t \in Tasks \ {Root} :
        /\ Depth[t] = Depth[Parent[t]] + 1
        /\ t \notin Lineage[Parent[t]]
        /\ Lineage[t] = {t} \cup Lineage[Parent[t]]

\* None is told apart from every value of its column.
ASSUME NoneAssumption ==
  NoOwner \notin Owners /\ NoPlanner \notin Planners /\ Absent \notin TaskState

MAX_CHILDREN == 8

\* What Policy::validate accepts, for the fields the store reads.
Policy ==
  [approve_levels : SUBSET (1 .. 6), max_depth : 1 .. 6, max_children : 1 .. MAX_CHILDREN,
   max_nodes : Nat \ {0}, max_plan_attempts : Nat \ {0}]

ASSUME PolicyAssumption == Policies \subseteq Policy

VARIABLES
  state,       \* the state column
  kind,        \* the kind column
  depends_on,  \* the depends_on column
  attempts,    \* failed planner calls counted against a row
  holder,      \* the planner call whose expected_version is the row's version
  stale,       \* decomposing rows older than DECOMPOSING_MAX_SECS
  owner,       \* the claimed_by column
  expired,     \* rows whose lease_until has passed
  pending,     \* pending work attempts of a row, counted by owner
  policy,      \* the policy column of the root
  token_cap    \* the campaign's plan tokens have reached max_plan_tokens

tree_vars  == <<kind, depends_on>>
plan_vars  == <<attempts, token_cap>>
lease_vars == <<owner, expired, pending>>
vars == <<state, kind, depends_on, attempts, holder, stale, owner, expired,
          pending, policy, token_cap>>

-----------------------------------------------------------------------------
(* Reads. *)

exists(t) == state[t] # Absent

\* The slots below p; children_of reads the inserted ones, whatever their state.
Slots(p) == {c \in Tasks \ {Root} : Parent[c] = p}

children_of(st, p) == {c \in Slots(p) : st[c] # Absent}

Ancestors(t) == Lineage[t] \ {t}

\* Mutant of subtree_of: a LIKE pattern that stops one level below the node.
subtree_one_level(t) ==
  {n \in Tasks : (n = t \/ n \in Slots(t)) /\ exists(n)}

subtree_of(t) == {n \in Tasks : t \in Lineage[n] /\ exists(n)}

gated(depth) == depth \in policy.approve_levels

\* Mutants of claimable: the dependency subquery dropped; the state test dropped.
claimable_any_deps == {t \in Tasks : kind[t] = "leaf" /\ state[t] = "ready"}

claimable_any_state == {t \in Tasks : /\ kind[t] = "leaf"
                                      /\ \A d \in depends_on[t] : state[d] = "done"}

claimable == {t \in Tasks : /\ kind[t] = "leaf"
                            /\ state[t] = "ready"
                            /\ \A d \in depends_on[t] : state[d] = "done"}

-----------------------------------------------------------------------------
(* Writes shared by the protocols. *)

move(st, S, s) == [t \in Tasks |-> IF t \in S THEN s ELSE st[t]]

\* Every state write: st is the state column after the transaction, which moves
\* the rows of S as actor and any other row as rollup.  A write that allowed()
\* denies aborts the transaction; a moved row is no longer stale, and its lease
\* is cleared unless the new state is leased.
transition(st, S, actor) ==
  /\ \A t \in Tasks : st[t] # state[t] /\ exists(t) =>
        allowed(state[t], st[t], kind[t], IF t \in S THEN actor ELSE "rollup")
  /\ state' = st
  /\ stale' = {t \in stale : st[t] = state[t]}
  /\ owner' = [t \in Tasks |-> IF st[t] = state[t] \/ is_leased(st[t])
                               THEN owner[t] ELSE NoOwner]
  /\ expired' = {t \in expired : st[t] = state[t] \/ is_leased(st[t])}

\* The version bump of every moved row, seen by the planner calls.
bump(st) == [t \in Tasks |-> IF st[t] = state[t] THEN holder[t] ELSE NoPlanner]

write(st, S, actor) == transition(st, S, actor) /\ holder' = bump(st)

\* Closes every pending work attempt of the rows of S.
close_work(S) ==
  pending' = [t \in Tasks |-> IF t \in S THEN [o \in Owners |-> 0] ELSE pending[t]]

\* Mutant of close_work_of: the attempt is left pending.
close_work_forgotten(t, o) == pending' = pending

\* Closes the pending work attempts of t that o claimed.
close_work_of(t, o) == pending' = [pending EXCEPT ![t][o] = 0]

\* The ready siblings that depend on t.
dependents(st, t) ==
  {s \in Tasks \ {Root} : /\ t # Root /\ Parent[s] = Parent[t]
                          /\ st[s] = "ready" /\ t \in depends_on[s]}

block_dependents(st, t) == move(st, dependents(st, t), "blocked")

RollupStates == {"decomposed", "blocked", "done"}

rolled(st, res, a) == rollup(st[a], {res[c] : c \in children_of(res, a)})

\* The pass over the ancestors of t reaches its parent, and then the parent of
\* every ancestor it has rewritten.
reached(st, res, t, a) ==
  \/ t # Root /\ a = Parent[t]
  \/ \E c \in Ancestors(t) \ {Root} : a = Parent[c] /\ res[c] # st[c]

\* What the rollup pass makes of the state column st: an ancestor it reaches
\* takes the state the rule gives it over its children as rewritten, and every
\* other row keeps its own.  (A set with one member.)
rollup_from(st, t) ==
  {res \in {[n \in Tasks |-> IF n \in DOMAIN g THEN g[n] ELSE st[n]] :
              g \in UNION {[C -> RollupStates] : C \in SUBSET Ancestors(t)}} :
     \A a \in Ancestors(t) :
       res[a] = IF reached(st, res, t, a) THEN rolled(st, res, a) ELSE st[a]}

-----------------------------------------------------------------------------
(* (a) create *)

create(s) ==
  /\ ~exists(Root)
  /\ s \in {"draft", "ready"}
  /\ state' = [state EXCEPT ![Root] = s]
  /\ UNCHANGED <<tree_vars, plan_vars, lease_vars, holder, stale, policy>>

-----------------------------------------------------------------------------
(* (b) plan_start, decompose, mark_leaf, plan_close *)

plan_start_ok(t) == kind[t] # "leaf" /\ state[t] = "ready"

plan_capped(t) == attempts[t] >= policy.max_plan_attempts \/ token_cap

\* A cap blocks the node, and the parent is recomputed.
plan_start_blocked(t) ==
  /\ plan_start_ok(t)
  /\ plan_capped(t)
  /\ \E st \in rollup_from(move(state, {t}, "blocked"), t) : write(st, {t}, "planner")
  /\ UNCHANGED <<tree_vars, plan_vars, pending, policy>>

plan_start(p, t) ==
  /\ plan_start_ok(t)
  /\ ~plan_capped(t)
  /\ transition(move(state, {t}, "decomposing"), {t}, "planner")
  /\ holder' = [holder EXCEPT ![t] = p]
  /\ UNCHANGED <<tree_vars, plan_vars, pending, policy>>

\* Mutant of cas: the version is not compared.
cas_state_only(p, t) == state[t] = "decomposing"

\* cas: the caller's expected_version is the row's, and the row is decomposing.
cas(p, t) == holder[t] = p /\ state[t] = "decomposing"

\* The attempt row a planner call closes carries its tokens.
plan_attempt == token_cap' \in {token_cap, TRUE}

\* The n children to insert below t: ordinals continue from the highest in use.
max_ord(t) ==
  LET used == {0} \cup {Ordinal[c] : c \in children_of(state, t)}
  IN  CHOOSE m \in used : \A k \in used : k <= m

new_children(t, n) == {c \in Slots(t) : Ordinal[c] \in max_ord(t) + 1 .. max_ord(t) + n}

decompose(p, t, n) ==
  LET batch == new_children(t, n)
      first == IF gated(Depth[t] + 1) THEN "awaiting_approval" ELSE "ready"
  IN
  /\ kind[t] # "leaf"
  /\ cas(p, t)
  /\ Depth[t] + 1 <= policy.max_depth
  /\ Cardinality(children_of(state, t)) + n <= policy.max_children
  /\ Cardinality({r \in Tasks : exists(r)}) + n <= policy.max_nodes
  /\ Cardinality(batch) = n
  /\ write(move(move(state, batch, first), {t}, "decomposed"), {t}, "planner")
  /\ \E deps \in [batch -> SUBSET batch] :
       /\ check_deps(batch, deps)
       /\ depends_on' = [c \in Tasks |-> IF c \in batch THEN deps[c] ELSE depends_on[c]]
  /\ plan_attempt
  /\ UNCHANGED <<kind, attempts, pending, policy>>

\* Mutant of mark_leaf: only live children count as children.
mark_leaf_live_only(p, t) ==
  /\ kind[t] # "objective"
  /\ cas(p, t)
  /\ \A c \in children_of(state, t) : is_terminal(state[c])
  /\ write(move(state, {t}, IF gated(Depth[t]) THEN "awaiting_approval" ELSE "ready"),
           {t}, "planner")
  /\ kind' = [kind EXCEPT ![t] = "leaf"]
  /\ plan_attempt
  /\ UNCHANGED <<depends_on, attempts, pending, policy>>

mark_leaf(p, t) ==
  /\ kind[t] # "objective"
  /\ cas(p, t)
  /\ children_of(state, t) = {}
  /\ write(move(state, {t}, IF gated(Depth[t]) THEN "awaiting_approval" ELSE "ready"),
           {t}, "planner")
  /\ kind' = [kind EXCEPT ![t] = "leaf"]
  /\ plan_attempt
  /\ UNCHANGED <<depends_on, attempts, pending, policy>>

plan_close_needs_info(p, t) ==
  /\ kind[t] # "leaf"
  /\ cas(p, t)
  /\ write(move(state, {t}, "awaiting_approval"), {t}, "planner")
  /\ plan_attempt
  /\ UNCHANGED <<tree_vars, attempts, pending, policy>>

\* Reject and Injection: blocked, no attempt counted, the parent recomputed.
plan_close_reject(p, t) ==
  /\ kind[t] # "leaf"
  /\ cas(p, t)
  /\ \E st \in rollup_from(move(state, {t}, "blocked"), t) : write(st, {t}, "planner")
  /\ plan_attempt
  /\ UNCHANGED <<tree_vars, attempts, pending, policy>>

plan_close_error(p, t) ==
  /\ kind[t] # "leaf"
  /\ cas(p, t)
  /\ attempts' = [attempts EXCEPT ![t] = @ + 1]
  /\ IF attempts[t] + 1 >= policy.max_plan_attempts
     THEN \E st \in rollup_from(move(state, {t}, "blocked"), t) :
             write(st, {t}, "planner")
     ELSE write(move(state, {t}, "ready"), {t}, "planner")
  /\ plan_attempt
  /\ UNCHANGED <<tree_vars, pending, policy>>

-----------------------------------------------------------------------------
(* (c) claim, heartbeat, reap *)

\* SKIP LOCKED under a limit: any of the claimable leaves can be the ones taken.
claim(o, S) ==
  /\ S # {} /\ S \subseteq claimable
  /\ state' = move(state, S, "claimed")
  /\ owner' = [t \in Tasks |-> IF t \in S THEN o ELSE owner[t]]
  /\ expired' = expired \ S
  /\ pending' = [t \in Tasks |-> IF t \in S THEN [pending[t] EXCEPT ![o] = @ + 1]
                                 ELSE pending[t]]
  /\ holder' = bump(state')
  /\ stale' = stale \ S
  /\ UNCHANGED <<tree_vars, plan_vars, policy>>

\* A lease past lease_until can still be renewed until it is reaped.
heartbeat(o, t) ==
  /\ owner[t] = o /\ is_leased(state[t])
  /\ expired' = expired \ {t}
  /\ UNCHANGED <<state, tree_vars, plan_vars, holder, stale, owner, pending, policy>>

\* Mutant of reap: only leaves that were never started are taken back.
reap_claimed_only(S) ==
  /\ S # {} /\ S \subseteq {t \in expired : state[t] = "claimed"}
  /\ write(move(state, S, "ready"), S, "reaper")
  /\ close_work(S)
  /\ UNCHANGED <<tree_vars, plan_vars, policy>>

reap(S) ==
  /\ S # {} /\ S \subseteq {t \in expired : owner[t] # NoOwner}
  /\ write(move(state, S, "ready"), S, "reaper")
  /\ close_work(S)
  /\ UNCHANGED <<tree_vars, plan_vars, policy>>

reap_decomposing(S) ==
  /\ S # {} /\ S \subseteq {t \in stale : state[t] = "decomposing" /\ kind[t] # "leaf"}
  /\ write(move(state, S, "ready"), S, "reaper")
  /\ UNCHANGED <<tree_vars, plan_vars, pending, policy>>

-----------------------------------------------------------------------------
(* (d) start, complete, fail, resolve_review *)

\* Mutant of start: claimed_by is not compared with the caller.
start_any_owner(o, t) ==
  /\ state[t] = "claimed"
  /\ write(move(state, {t}, "running"), {t}, "worker")
  /\ UNCHANGED <<tree_vars, plan_vars, pending, policy>>

start(o, t) ==
  /\ owner[t] = o
  /\ state[t] = "claimed"
  /\ write(move(state, {t}, "running"), {t}, "worker")
  /\ UNCHANGED <<tree_vars, plan_vars, pending, policy>>

complete(o, t) ==
  /\ owner[t] = o
  /\ state[t] = "running"
  /\ write(move(state, {t}, "in_review"), {t}, "worker")
  /\ close_work_of(t, o)
  /\ UNCHANGED <<tree_vars, plan_vars, policy>>

fail(o, t) ==
  /\ owner[t] = o
  /\ state[t] = "running"
  /\ \E st \in rollup_from(block_dependents(move(state, {t}, "failed"), t), t) :
        write(st, {t}, "worker")
  /\ close_work_of(t, o)
  /\ UNCHANGED <<tree_vars, plan_vars, policy>>

\* Mutant of resolve_merged: the parent is not recomputed.
resolve_merged_no_rollup(t) ==
  /\ state[t] = "in_review"
  /\ write(move(state, {t}, "done"), {t}, "poller")
  /\ UNCHANGED <<tree_vars, plan_vars, pending, policy>>

resolve_merged(t) ==
  /\ state[t] = "in_review"
  /\ \E st \in rollup_from(move(state, {t}, "done"), t) : write(st, {t}, "poller")
  /\ UNCHANGED <<tree_vars, plan_vars, pending, policy>>

resolve_closed(t) ==
  /\ state[t] = "in_review"
  /\ \E st \in rollup_from(block_dependents(move(state, {t}, "failed"), t), t) :
        write(st, {t}, "poller")
  /\ UNCHANGED <<tree_vars, plan_vars, pending, policy>>

-----------------------------------------------------------------------------
(* (e) approve, approve_children, answer, retry, update_policy *)

approve(t) ==
  /\ state[t] = "awaiting_approval"
  /\ write(move(state, {t}, "ready"), {t}, "user")
  /\ UNCHANGED <<tree_vars, plan_vars, pending, policy>>

\* The same write, with the answer appended to the goal (text, not modelled).
answer(t) ==
  /\ state[t] = "awaiting_approval"
  /\ write(move(state, {t}, "ready"), {t}, "user")
  /\ UNCHANGED <<tree_vars, plan_vars, pending, policy>>

approve_children(p) ==
  LET waiting == {c \in children_of(state, p) : state[c] = "awaiting_approval"}
  IN  /\ exists(p)
      /\ waiting # {}
      /\ write(move(state, waiting, "ready"), waiting, "user")
      /\ UNCHANGED <<tree_vars, plan_vars, pending, policy>>

\* The parent is recomputed: it leaves blocked when nothing below is stuck.
retry(t) ==
  /\ state[t] \in {"failed", "blocked"}
  /\ \E st \in rollup_from(move(state, {t}, "ready"), t) : write(st, {t}, "user")
  /\ UNCHANGED <<tree_vars, plan_vars, pending, policy>>

\* A version bump of the root without a state change.
update_policy(pol) ==
  /\ exists(Root)
  /\ policy' = pol
  /\ token_cap' \in BOOLEAN
  /\ holder' = [holder EXCEPT ![Root] = NoPlanner]
  /\ stale' = stale \ {Root}
  /\ UNCHANGED <<state, tree_vars, attempts, lease_vars>>

-----------------------------------------------------------------------------
(* (f) cancel, (g) replan *)

cancel(t) ==
  LET S == {n \in subtree_of(t) : ~is_terminal(state[n])}
  IN  /\ exists(t) /\ ~is_terminal(state[t])
      /\ \E st \in rollup_from(move(state, S, "cancelled"), t) : write(st, S, "user")
      /\ close_work(S)
      /\ UNCHANGED <<tree_vars, plan_vars, policy>>

\* Mutant of replan: attempts counted down instead of reset.
replan_counts_down(t) ==
  LET S == {n \in subtree_of(t) \ {t} : ~is_terminal(state[n])}
  IN  /\ kind[t] # "leaf"
      /\ state[t] \in {"decomposed", "blocked"}
      /\ write(move(move(state, S, "superseded"), {t}, "decomposing"), S \cup {t}, "user")
      /\ close_work(S)
      /\ attempts' = [attempts EXCEPT ![t] = @ - 1]
      /\ UNCHANGED <<tree_vars, token_cap, policy>>

replan(t) ==
  LET S == {n \in subtree_of(t) \ {t} : ~is_terminal(state[n])}
  IN  /\ kind[t] # "leaf"
      /\ state[t] \in {"decomposed", "blocked"}
      /\ write(move(move(state, S, "superseded"), {t}, "decomposing"), S \cup {t}, "user")
      /\ close_work(S)
      /\ attempts' = [attempts EXCEPT ![t] = 0]
      /\ UNCHANGED <<tree_vars, token_cap, policy>>

-----------------------------------------------------------------------------
(* The clock. *)

lease_expires(t) ==
  /\ is_leased(state[t]) /\ t \notin expired
  /\ expired' = expired \cup {t}
  /\ UNCHANGED <<state, tree_vars, plan_vars, holder, stale, owner, pending, policy>>

plan_goes_stale(t) ==
  /\ state[t] = "decomposing" /\ t \notin stale
  /\ stale' = stale \cup {t}
  /\ UNCHANGED <<state, tree_vars, plan_vars, lease_vars, holder, policy>>

-----------------------------------------------------------------------------
Init ==
  /\ state = [t \in Tasks |-> Absent]
  /\ kind = [t \in Tasks |-> IF t = Root THEN "objective" ELSE "task"]
  /\ depends_on = [t \in Tasks |-> {}]
  /\ attempts = [t \in Tasks |-> 0]
  /\ holder = [t \in Tasks |-> NoPlanner]
  /\ stale = {}
  /\ owner = [t \in Tasks |-> NoOwner]
  /\ expired = {}
  /\ pending = [t \in Tasks |-> [o \in Owners |-> 0]]
  /\ policy \in Policies
  /\ token_cap = FALSE

PlannerStep ==
  \E t \in Tasks :
    \/ plan_start_blocked(t)
    \/ \E p \in Planners :
         \/ plan_start(p, t)
         \/ \E n \in 1 .. MAX_CHILDREN : decompose(p, t, n)
         \/ mark_leaf(p, t)
         \/ plan_close_needs_info(p, t)
         \/ plan_close_reject(p, t)
         \/ plan_close_error(p, t)

WorkerStep ==
  \E o \in Owners :
    \/ \E S \in SUBSET Tasks : claim(o, S)
    \/ \E t \in Tasks : heartbeat(o, t) \/ start(o, t) \/ complete(o, t) \/ fail(o, t)

DriverStep ==
  \/ \E S \in SUBSET Tasks : reap(S) \/ reap_decomposing(S)
  \/ \E t \in Tasks : resolve_merged(t) \/ resolve_closed(t)

UserStep ==
  \/ \E s \in {"draft", "ready"} : create(s)
  \/ \E pol \in Policies : update_policy(pol)
  \/ \E t \in Tasks :
       \/ approve(t) \/ answer(t) \/ approve_children(t)
       \/ retry(t) \/ cancel(t) \/ replan(t)

Clock == \E t \in Tasks : lease_expires(t) \/ plan_goes_stale(t)

Next == PlannerStep \/ WorkerStep \/ DriverStep \/ UserStep \/ Clock

Spec == Init /\ [][Next]_vars

-----------------------------------------------------------------------------
(* Properties. *)

\* The columns hold values of their types, as the schema declares them.
TypeOK ==
  /\ state \in [Tasks -> TaskState \cup {Absent}]
  /\ kind \in [Tasks -> TaskKind]
  /\ depends_on \in [Tasks -> SUBSET Tasks]
  /\ attempts \in [Tasks -> Nat]
  /\ holder \in [Tasks -> Planners \cup {NoPlanner}]
  /\ stale \subseteq Tasks
  /\ owner \in [Tasks -> Owners \cup {NoOwner}]
  /\ expired \subseteq Tasks
  /\ pending \in [Tasks -> [Owners -> Nat]]
  /\ policy \in Policies
  /\ token_cap \in BOOLEAN

\* A row is leased exactly while claimed_by names an owner, only a leaf is ever
\* leased, and the pending work attempts are then one attempt of that owner and
\* otherwise none: no protocol leaves an attempt open or closes the wrong one.
LeaseIntegrity ==
  \A t \in Tasks :
    /\ is_leased(state[t]) <=> owner[t] # NoOwner
    /\ is_leased(state[t]) => kind[t] = "leaf"
    /\ \A o \in Owners : pending[t][o] = IF owner[t] = o THEN 1 ELSE 0
    /\ t \in expired => is_leased(state[t])

\* A leaf that a worker has taken up, or that has an outcome of its work, was
\* taken up when everything it depends on was done, and that is still so.
DependenciesDone ==
  \A t \in Tasks :
    kind[t] = "leaf" /\ state[t] \in {"claimed", "running", "in_review", "done", "failed"}
      => \A d \in depends_on[t] : state[d] = "done"

\* Nothing below a finished node is unfinished: cancel and replan take the whole
\* subtree along, and a node only becomes done over finished children.
FinishedSubtree ==
  \A t \in Tasks \ {Root} :
    exists(t) /\ is_terminal(state[Parent[t]]) => is_terminal(state[t])

\* A done node that is not a leaf has a done child, and every other child of it
\* was done, cancelled or superseded.
DoneMeansDone ==
  \A t \in Tasks :
    kind[t] # "leaf" /\ state[t] = "done" =>
      live_states({state[c] : c \in children_of(state, t)}) = {"done"}

\* A leaf has no children, whatever is planned, superseded or retried.
LeafHasNoChildren ==
  \A t \in Tasks \ {Root} : exists(t) => kind[Parent[t]] # "leaf" /\ exists(Parent[t])

\* A decomposed node waits for a live child that is not done yet: no completion
\* or cancellation of a child is ever missed by the rollup.
DecomposedWaits ==
  \A t \in Tasks : state[t] = "decomposed" =>
    \E c \in children_of(state, t) : ~is_terminal(state[c])

\* A step never moves a row out of done, cancelled or superseded, never turns a
\* leaf back into a task and never drops a row.
Finished ==
  [][\A t \in Tasks : /\ is_terminal(state[t]) => state'[t] = state[t]
                      /\ kind[t] = "leaf" => kind'[t] = "leaf"
                      /\ exists(t) => state'[t] # Absent]_vars

\* Rollup rule of 02-transactions.md: a decomposed parent with a failed or
\* blocked live child becomes blocked.
StuckChildBlocksParent ==
  \A t \in Tasks : state[t] = "decomposed" =>
    \A c \in children_of(state, t) : state[c] \notin {"failed", "blocked"}

=============================================================================
