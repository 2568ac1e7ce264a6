-------------------------- MODULE CampaignPlanner --------------------------
(***************************************************************************)
(* The planner (crates/agent-campaign/src/planner): each driver plans the  *)
(* ready nodes of its tick one after another.  Planning a node is a        *)
(* session of many steps, a provider call of minutes among them, between   *)
(* the store's plan_start and the one write that finishes it; meanwhile    *)
(* the node can be cancelled, replanned, reaped and planned by another     *)
(* driver, and the driver can die.  The store is CampaignStore, the owner  *)
(* of a session the planner call of the same name there.                   *)
(***************************************************************************)
EXTENDS CampaignStore

CONSTANTS
  PathOrder,   \* the place of a row by path, as plannable orders them
  PerTick,     \* [campaign] plan_per_tick
  MaxRepairs,  \* repair turns of an ask
  MaxFaults,   \* bound: crashes, store errors and policy edits in a behaviour
  NoTask

ASSUME PlannerAssumption ==
  /\ PathOrder \in [Tasks -> Nat]
  /\ \A t, u \in Tasks : PathOrder[t] = PathOrder[u] => t = u
  /\ PerTick \in Nat \ {0} /\ MaxRepairs \in Nat /\ MaxFaults \in Nat /\ NoTask \notin Tasks

VARIABLES
  at,          \* where a planner is in plan_inner, "idle" between ticks
  queue,       \* the nodes of its tick it has not planned to the end
  open,        \* the decisions that the context it has read leaves open
  decision,    \* the validated decision it is about to write
  repairs,     \* repair turns of the ask so far
  spent,       \* its session has paid for a provider call
  moved,       \* history: somebody else moved its node since plan_start
  faults

session_vars == <<at, queue, open, decision, repairs, spent>>
pvars == <<vars, session_vars, moved, faults>>

Decision == {"execute", "split", "needs_info", "reject"}

At == {"idle", "start", "context", "prompt", "ask", "validate", "write", "close"}

\* The node a planner is at: the first by path of those left.
node(p) == IF queue[p] = {} THEN NoTask
           ELSE CHOOSE t \in queue[p] : \A u \in queue[p] : PathOrder[t] <= PathOrder[u]

\* p is the planner that takes the step, or NoPlanner.
watch(p) ==
  moved' = [q \in Planners |->
    IF at'[q] \in {"idle", "start"} THEN FALSE
    ELSE moved[q] \/ (q # p /\ state'[node(q)] # state[node(q)])]

a_fault == faults < MaxFaults /\ faults' = faults + 1

goto(p, s) ==
  /\ at' = [at EXCEPT ![p] = s]
  /\ UNCHANGED <<queue, open>>

\* plan_node returns: the next node of the tick, or the end of it.
next_node(p) ==
  /\ queue' = [queue EXCEPT ![p] = @ \ {node(p)}]
  /\ at' = [at EXCEPT ![p] = IF queue[p] = {node(p)} THEN "idle" ELSE "start"]
  /\ open' = [open EXCEPT ![p] = {}]
  /\ decision' = [decision EXCEPT ![p] = "reject"]
  /\ repairs' = [repairs EXCEPT ![p] = 0]
  /\ spent' = [spent EXCEPT ![p] = FALSE]

-----------------------------------------------------------------------------
plannable == {t \in Tasks : state[t] = "ready" /\ kind[t] # "leaf"}

\* The first of them by path, up to the limit.
listed == {t \in plannable :
             Cardinality({u \in plannable : PathOrder[u] < PathOrder[t]}) < PerTick}

tick(p) ==
  /\ at[p] = "idle" /\ plannable # {}
  /\ queue' = [queue EXCEPT ![p] = listed]
  /\ at' = [at EXCEPT ![p] = "start"]
  /\ UNCHANGED <<vars, open, decision, repairs, spent, faults>>

\* Step 1.  A cap blocks the node; one that is not ready any more is skipped.
start_plan(p) ==
  /\ at[p] = "start"
  /\ \/ /\ plan_start(p, node(p)) /\ goto(p, "context")
        /\ UNCHANGED <<decision, repairs, spent>>
     \/ plan_start_blocked(node(p)) /\ next_node(p)
     \/ ~plan_start_ok(node(p)) /\ UNCHANGED vars /\ next_node(p)
  /\ UNCHANGED faults

\* The call fails, or commits and its answer is lost: a node without a planner.
start_fails(p) ==
  /\ at[p] = "start"
  /\ plan_start(p, node(p)) \/ UNCHANGED vars
  /\ next_node(p)
  /\ a_fault

\* Mutant of allowed_decisions: the root is treated like any other node.
allowed_anywhere(t) == Decision

allowed_decisions(t) ==
  IF Depth[t] = 0 THEN Decision \ {"execute"}
  ELSE IF Depth[t] + 1 >= policy.max_depth THEN Decision \ {"split"} ELSE Decision

\* Children that are neither superseded nor cancelled.
live_children(t) == {c \in children_of(state, t) : state[c] \notin {"superseded", "cancelled"}}

\* Step 2: the policy and the children as they are now.  After a store error the node
\* is closed, best effort.
context(p) ==
  /\ at[p] = "context"
  /\ \/ /\ open' = [open EXCEPT ![p] =
                      allowed_decisions(node(p))
                        \ (IF live_children(node(p)) # {} THEN {"execute"} ELSE {})]
        /\ at' = [at EXCEPT ![p] = "prompt"] /\ UNCHANGED <<queue, faults>>
     \/ goto(p, "close") /\ a_fault
  /\ UNCHANGED <<vars, decision, repairs, spent>>

\* Steps 3 to 6.  A marker in the inputs blocks the node as a reject does, and
\* inputs over the cap are an error.
build_prompt(p) ==
  /\ at[p] = "prompt"
  /\ \/ goto(p, "ask")
     \/ goto(p, "write")
     \/ goto(p, "close")
  /\ UNCHANGED <<vars, decision, repairs, spent, faults>>

\* Step 7.  A provider error ends the ask; an answer that the schema refuses is
\* repaired so many times.
ask_structured(p) ==
  /\ at[p] = "ask"
  /\ \/ goto(p, "close") /\ UNCHANGED <<repairs, spent>>
     \/ /\ spent' = [spent EXCEPT ![p] = TRUE]
        /\ \/ goto(p, "validate") /\ UNCHANGED repairs
           \/ /\ repairs[p] < MaxRepairs
              /\ repairs' = [repairs EXCEPT ![p] = @ + 1]
              /\ goto(p, "ask")
           \/ /\ repairs[p] = MaxRepairs
              /\ goto(p, "close")
              /\ UNCHANGED repairs
  /\ UNCHANGED <<vars, decision, faults>>

\* Step 8.  What the validator accepts of the context it was given; the store
\* checks the rows again.
post_validate(p) ==
  /\ at[p] = "validate"
  /\ \/ /\ \E d \in open[p] : decision' = [decision EXCEPT ![p] = d]
        /\ goto(p, "write")
     \/ UNCHANGED decision /\ goto(p, "close")
  /\ UNCHANGED <<vars, repairs, spent, faults>>

decided(p, t) ==
  CASE decision[p] = "execute"    -> mark_leaf(p, t)
    [] decision[p] = "split"      -> \E n \in 1 .. MAX_CHILDREN : decompose(p, t, n)
    [] decision[p] = "needs_info" -> plan_close_needs_info(p, t)
    [] decision[p] = "reject"     -> plan_close_reject(p, t)

\* The store's caps and shapes, under its lock: Invalid, TooLong or Denied.
refusable(p, t) == decision[p] \in {"execute", "split"} \/ ~spent[p]

\* Conflict: the version is another, or the node that is to be executed has children,
\* dead ones too.  Nothing is written, and a node still decomposing stays so for now.
conflicting(p, t) ==
  ~cas(p, t) \/ (decision[p] = "execute" /\ children_of(state, t) # {})

\* Step 9.  Whether or not the answer arrives, the session is over.
finish_plan(p) ==
  /\ at[p] = "write"
  /\ \/ decided(p, node(p)) /\ next_node(p)
     \/ conflicting(p, node(p)) /\ UNCHANGED vars /\ next_node(p)
     \/ /\ ~conflicting(p, node(p)) /\ refusable(p, node(p)) /\ UNCHANGED vars
        /\ goto(p, "close")
        /\ UNCHANGED <<decision, repairs, spent>>
  /\ UNCHANGED faults

\* close_error, with the same attempt; a conflict writes nothing at all.
close_error(p) ==
  /\ at[p] = "close"
  /\ \/ plan_close_error(p, node(p))
     \/ ~cas(p, node(p)) /\ UNCHANGED vars
  /\ next_node(p)
  /\ UNCHANGED faults

\* The store cannot be reached for the finishing write.
finish_fails(p) ==
  /\ at[p] \in {"write", "close"}
  /\ UNCHANGED vars
  /\ next_node(p)
  /\ a_fault

\* The driver dies, and another one takes its place.
crash_session(p) ==
  /\ at[p] # "idle"
  /\ at' = [at EXCEPT ![p] = "idle"]
  /\ queue' = [queue EXCEPT ![p] = {}]
  /\ open' = [open EXCEPT ![p] = {}]
  /\ decision' = [decision EXCEPT ![p] = "reject"]
  /\ repairs' = [repairs EXCEPT ![p] = 0]
  /\ spent' = [spent EXCEPT ![p] = FALSE]
  /\ a_fault
  /\ UNCHANGED vars

-----------------------------------------------------------------------------
(* The others: everything in the store that is not planning. *)

policy_edit ==
  /\ \E pol \in Policies : update_policy(pol)
  /\ a_fault
  /\ UNCHANGED session_vars

others_step ==
  /\ \/ WorkerStep \/ Clock
     \/ \E S \in SUBSET Tasks : reap(S)
     \/ \E s \in {"draft", "ready"} : create(s)
     \/ \E t \in Tasks :
          \/ resolve_merged(t) \/ resolve_closed(t)
          \/ approve(t) \/ answer(t) \/ approve_children(t)
          \/ retry(t) \/ cancel(t) \/ replan(t)
  /\ UNCHANGED <<session_vars, faults>>

\* Mutant of release_stale: a node that is still held by a planner call is left alone.
release_stale_unheld ==
  /\ \E S \in SUBSET {t \in Tasks : holder[t] = NoPlanner} : reap_decomposing(S)
  /\ UNCHANGED <<session_vars, faults>>

\* Every tick of a driver releases what has been decomposing for too long.
release_stale ==
  /\ \E S \in SUBSET Tasks : reap_decomposing(S)
  /\ UNCHANGED <<session_vars, faults>>

-----------------------------------------------------------------------------
PlannerInit ==
  /\ Init
  /\ at = [p \in Planners |-> "idle"]
  /\ queue = [p \in Planners |-> {}]
  /\ open = [p \in Planners |-> {}]
  /\ decision = [p \in Planners |-> "reject"]
  /\ repairs = [p \in Planners |-> 0]
  /\ spent = [p \in Planners |-> FALSE]
  /\ moved = [p \in Planners |-> FALSE]
  /\ faults = 0

plan(p) ==
  \/ tick(p) \/ start_plan(p) \/ context(p) \/ build_prompt(p) \/ ask_structured(p)
  \/ post_validate(p) \/ finish_plan(p) \/ close_error(p)

PlanStep(p) == plan(p) /\ watch(p)

PlannerNext ==
  \/ \E p \in Planners :
       (plan(p) \/ start_fails(p) \/ finish_fails(p) \/ crash_session(p)) /\ watch(p)
  \/ (policy_edit \/ others_step \/ release_stale) /\ watch(NoPlanner)

PlannerSpec == PlannerInit /\ [][PlannerNext]_pvars

\* A planner goes on while its driver lives, time passes, and ticks release what
\* is stale.
FairPlannerSpec ==
  /\ PlannerSpec
  /\ \A p \in Planners : WF_pvars(PlanStep(p))
  /\ \A t \in Tasks :
       WF_pvars(plan_goes_stale(t) /\ UNCHANGED <<session_vars, faults>> /\ watch(NoPlanner))
  /\ WF_pvars(release_stale /\ watch(NoPlanner))

-----------------------------------------------------------------------------
(* Properties. *)

\* A planner is at a step of a session exactly while it has a node, and the caps
\* on attempts and repairs are kept.
PlannerTypeOK ==
  /\ at \in [Planners -> At]
  /\ queue \in [Planners -> SUBSET Tasks]
  /\ \A p \in Planners : at[p] = "idle" <=> queue[p] = {}
  /\ open \in [Planners -> SUBSET Decision]
  /\ decision \in [Planners -> Decision]
  /\ \A p \in Planners :
       decision[p] = "execute" \/ "execute" \in open[p] => node(p) # Root
  /\ repairs \in [Planners -> 0 .. MaxRepairs]
  /\ spent \in [Planners -> BOOLEAN] /\ moved \in [Planners -> BOOLEAN]
  /\ faults \in 0 .. MaxFaults

\* A session whose node somebody else has moved since plan_start writes nothing,
\* even if the node is decomposing again under another planner or a replan.
StaleSessionWritesNothing ==
  [][\A p \in Planners : moved[p] /\ at[p] \in {"write", "close"} /\ at'[p] # at[p]
                         => UNCHANGED vars]_pvars

\* No node stays in decomposing: whatever died, was lost or was replanned without a
\* planner, it is planned to the end or released.
DecomposingEnds ==
  \A t \in Tasks : []<>(state[t] # "decomposing")

=============================================================================
