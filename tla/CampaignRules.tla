--------------------------- MODULE CampaignRules ---------------------------
(***************************************************************************)
(* The pure rules of a campaign (crates/agent-core/src/campaign/rules.rs   *)
(* and check_deps of mod.rs): the vocabularies of a task row, the          *)
(* transition table, the rollup rule and the dependency check.  No state.  *)
(***************************************************************************)
EXTENDS Naturals, FiniteSets

TaskState ==
  {"draft", "awaiting_approval", "ready", "decomposing", "decomposed",
   "claimed", "running", "in_review", "blocked", "done", "failed",
   "cancelled", "superseded"}

is_terminal(s) == s \in {"done", "cancelled", "superseded"}

is_leased(s) == s \in {"claimed", "running"}

TaskKind == {"objective", "task", "leaf"}

ActorClass ==
  {"user", "model", "planner", "driver", "worker", "reaper", "poller",
   "rollup"}

(***************************************************************************)
(* The transition table.  kind is the kind of the row before the write.    *)
(***************************************************************************)
allowed(from, to, kind, actor) ==
  LET leaf == kind = "leaf"
      user == actor = "user"
  IN
  /\ from # to
  /\ \/ /\ to = "superseded"
        /\ ~is_terminal(from) /\ kind # "objective" /\ user
     \/ /\ from = "draft" /\ to \in {"ready", "cancelled"}
        /\ kind = "objective" /\ user
     \/ from = "awaiting_approval" /\ to \in {"ready", "cancelled"} /\ user
     \/ from = "ready" /\ to = "decomposing" /\ ~leaf /\ actor = "planner"
     \/ from = "ready" /\ to = "claimed" /\ leaf /\ actor = "driver"
     \/ /\ from = "ready" /\ to = "blocked"
        /\ \/ actor = "planner"
           \/ kind # "objective" /\ actor = "rollup"
     \/ from = "ready" /\ to = "cancelled" /\ user
     \/ /\ from = "decomposing" /\ to = "ready"
        /\ ~leaf /\ actor \in {"planner", "reaper"}
     \/ /\ from = "decomposing"
        /\ to \in {"decomposed", "awaiting_approval", "blocked"}
        /\ ~leaf /\ actor = "planner"
     \/ from = "decomposing" /\ to = "cancelled" /\ user
     \/ /\ from = "decomposed" /\ to \in {"done", "blocked"}
        /\ ~leaf /\ actor = "rollup"
     \/ from = "decomposed" /\ to = "decomposing" /\ ~leaf /\ user
     \/ from = "decomposed" /\ to = "cancelled" /\ user
     \/ from = "claimed" /\ to = "running" /\ leaf /\ actor = "worker"
     \/ from = "running" /\ to \in {"in_review", "failed"} /\ leaf /\ actor = "worker"
     \/ is_leased(from) /\ to = "ready" /\ leaf /\ actor = "reaper"
     \/ is_leased(from) /\ to = "cancelled" /\ leaf /\ user
     \/ from = "in_review" /\ to \in {"done", "failed"} /\ leaf /\ actor = "poller"
     \/ from = "in_review" /\ to = "cancelled" /\ leaf /\ user
     \/ from = "blocked" /\ to = "ready" /\ kind # "objective" /\ user
     \/ from = "blocked" /\ to = "decomposing" /\ ~leaf /\ user
     \/ from = "blocked" /\ to = "cancelled" /\ user
     \/ /\ from = "blocked" /\ to \in {"decomposed", "done"}
        /\ ~leaf /\ actor = "rollup"
     \/ from = "failed" /\ to \in {"ready", "cancelled"} /\ leaf /\ user

(***************************************************************************)
(* The rollup rule: the state a parent takes over the states of all its    *)
(* children.  The code returns None where this returns parent itself.      *)
(***************************************************************************)
live_states(children) == children \ {"superseded", "cancelled"}

\* Mutant of rollup: one done child is enough.
rollup_any_done(parent, children) ==
  LET live == live_states(children)
  IN  IF parent \notin {"decomposed", "blocked"} THEN parent
      ELSE IF live = {}
           THEN IF "cancelled" \in children THEN "blocked" ELSE parent
      ELSE IF "done" \in live THEN "done"
      ELSE IF live \cap {"failed", "blocked"} # {} THEN "blocked"
      ELSE "decomposed"

rollup(parent, children) ==
  LET live == live_states(children)
  IN  IF parent \notin {"decomposed", "blocked"} THEN parent
      ELSE IF live = {}
           THEN IF "cancelled" \in children THEN "blocked" ELSE parent
      ELSE IF live = {"done"} THEN "done"
      ELSE IF live \cap {"failed", "blocked"} # {} THEN "blocked"
      ELSE "decomposed"

(***************************************************************************)
(* depends_on of a batch of children: a relation over the batch, given as  *)
(* a function from a child to the set of children it depends on.  Kahn's   *)
(* algorithm drains every child exactly when every nonempty part of the    *)
(* batch has a member that depends on nothing in that part.                *)
(***************************************************************************)
check_deps(batch, depends_on) ==
  /\ depends_on \in [batch -> SUBSET batch]
  /\ \A c \in batch : c \notin depends_on[c]
  /\ \A part \in (SUBSET batch) \ {{}} :
        \E c \in part : depends_on[c] \cap part = {}

=============================================================================
