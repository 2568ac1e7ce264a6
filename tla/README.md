# agent-seddon: a TLA+ verification project

agent-seddon is a coding agent in Rust. Its core crate (`agent-core`) defines the seams, about
fifty crates implement them, `agent-runtime` wires them into the agent loop and `agent-cli` is the
front end. Most of those crates transform data or talk to a third party. This project models the
parts that keep shared state under concurrency and failure: the *campaign* subsystem, the
durable *scheduler*, the *session manager* and the *review fleet*.

A campaign is a tree of tasks below one objective. A planner asks a model whether a node should be
split, executed as one leaf, clarified or rejected. Drivers claim ready leaves under leases and
dispatch workers; a worker runs an agent session in a worktree, pushes a branch and opens a pull
request. A poller resolves pull requests. Users approve, answer, retry, cancel, replan and edit
the policy at any moment. All of them meet in one Postgres table.

The scheduler keeps jobs as cards of a config store, which several drivers claim by
compare-and-swap. The session manager hosts agent sessions as actors with a queue, caps and an idle
reaper. The review fleet turns triggers (polls, webhooks, requests) into reviews of pull requests
in worktrees, keeps the drafts in a history, and posts a draft to the forge when it is approved.

## 1. Inventory

| Component | Source (under `src/crates`) | State | Operations | What is hard |
|---|---|---|---|---|
| Rules | `agent-core/src/campaign/{rules,mod,policy,path}.rs` | none | transition table, rollup rule, dependency check, policy validation | the rules must agree with every protocol that uses them |
| Store | `agent-campaign/src/postgres.rs`, `postgres/sql.rs` | the task rows: state, kind, version, dependencies, lease, attempt rows, policy, event log | create, plan_start, decompose, mark_leaf, plan_close, claim, heartbeat, reap, reap_decomposing, start, complete, fail, resolve_review, approve, approve_children, answer, retry, update_policy, cancel, replan | every pair of callers interleaves, also inside their transactions; a write must keep row, attempts, subtree and ancestors consistent |
| Driver | `agent-campaign/src/driver/mod.rs` | owner token (one per process), permits, worker tasks, tenant rotation | tick (reap, plan, claim, dispatch, poll), run_worker with a timeout, settle_failure, drain | crashes between claim and dispatch, timeouts racing answers, lost answers, a budget shared by tenants |
| Worker | `agent-runtime/src/campaign_worker.rs` | cancel flag, heartbeat task, its place in the run | claim check, start, heartbeat, session, push and pull request, complete or fail | a lease lost while it works |
| Poller | `agent-campaign/src/driver/poller.rs` | snapshot of leaves in review and policies | read pull request states, approvals, resolve_review, review_note | the snapshot is stale when it is used |
| Planner | `agent-campaign/src/planner/*` | a version held over a provider call | tick, context, ask and repair, validation, the closing write | the node moves while the model answers |
| Scheduler | `agent-scheduler/src`, `agent-runtime/src/scheduler_driver.rs` | cards with next fire, owner and claim time | schedule, cancel, tick, claim, skip, run, finish | stale bytes, expired claims, crashes between claim and run |
| Sessions | `agent-runtime/src/agent/session_manager.rs` | the map of sessions, an actor and a queue each | admit, start, run, close, reap_idle | removal races admission and runs |
| Review fleet, intake | `agent-review-fleet/src/{poll,orchestrator}.rs` | trigger queue, tasks in flight, worktrees | poll, enqueue, handle, the task of a review | stale history, reused worktrees, shed triggers |
| Review fleet, drafts | `agent-runtime/src/agent.rs` (`EngineApprover`), `agent-review-fleet/src/lease.rs`, `agent-telemetry/src/{writer,history}.rs`, `agent-forge/src/http.rs` | post leases, draft rows | approve, skip, supersede | a request whose answer is lost; a history that lags |
| In-memory store | `agent-testkit/src/campaign/mem.rs` | as the store | as the store | a test double under one lock |
| Agent loop, providers | `agent-runtime/src/agent.rs`, `agent-providers` | transcripts, key pool, routers | turns, tool calls, fallback, joins | what matters in them is texts |
| All others | context, memory, search, tools, git, grpc, mcp, lsp, slack, sandbox, pty, config, telemetry, web, cli ... | mostly none | data transformation and I/O | little to check by states |

How they interact: planner, driver, worker, poller and users never talk to each other directly;
every interaction is a transaction of the store. The driver additionally spawns the worker, bounds
it with `worker_timeout` and settles its leaf when the worker returns an error, panics or times
out. The scheduler's drivers meet in the config store; what a job runs is a call of the agent.
The fleet's orchestrator admits each review as a session of the session manager, and finds out what
was reviewed from the history that the approver's and its own rows reach through the telemetry
writer.

What makes each part correct:

* rules: the table has exactly the documented tuples; rollup is a function of the live children;
* store: leases and attempts agree; no work before its dependencies are done; finished stays
  finished; nothing unfinished below a finished node; done means done below; nobody waits for
  children that have all finished; transactions are serializable and lock in one order;
* driver and worker: whoever lost a lease writes nothing; every lease ends; dispatch never waits
  for a permit, and every tenant is served;
* planner: a late answer is refused, and a refused answer leaves no node behind;
* poller: done means merged, and approved where the policy asks for it; what is merged is resolved;
* scheduler: no double fire within a claim's time, no wedged job;
* sessions: caps hold, every run is answered, and a session nobody needs goes away;
* review fleet: a review reads its own checkout, the last head comes to have a draft, and a draft
  is posted once, up to answers the network lost.

The hazards behind these properties are in `PROJECT.json`, each at its source line.

## 2. Modules

```
CampaignRules                        pure rules
   |       \
   |        CampaignAtomic <--------- CampaignTx --- MCCampaignTx   (INSTANCE, refinement)
   |                                      |
   |                              CampaignTxProofs    locks, their order, serializability
CampaignStore  --------------------- MCCampaignStore
   |   |    \
   |   |     CampaignStoreProofs      types, finished rows, leases, the tree, dependencies
   |   |            |
   |  CampaignPlanner --------------- MCCampaignPlanner
   |        |       |
   |     CampaignActorProofs          planners and drivers implement the store;
   |        |                         stale sessions, lost leases
CampaignDriver ---------------------- MCCampaignDriver

CampaignPoller, CampaignTick, Scheduler, SessionManager, FleetReview, FleetPost:
         one specification each, with an MC module of its name
CampaignTick, CampaignPoller --- CampaignTickProofs    permits and rounds; merged and approved
Scheduler ---------------------- SchedulerProofs       claims and one-shots
SessionManager ----------------- SessionManagerProofs  caps and runs
FleetReview -------------------- FleetReviewProofs     worktrees, folding, sessions
FleetPost ---------------------- FleetPostProofs       the post lease
```

### CampaignRules

`allowed` is the `match` of `rules::allowed` with its arms as disjuncts. `rollup` returns the
parent's own state where the code returns `None`. `check_deps` is stated by what Kahn's algorithm
decides (every nonempty part of the batch has a member that depends on nothing in it).

### CampaignStore

The variables are the columns of the task table. Every protocol is one transaction, hence one
action; a call that returns an error rolls back and is no step. `transition` models the row write
all the protocols go through: the table is consulted for every row the transaction moves, and a
denial disables the whole action, as it aborts the whole transaction.

What is abstracted:

| Code | Model |
|---|---|
| `version` and `expected_version` of a planner call | `holder[t]`: the planner call whose `expected_version` is still current; every other write of the row clears it. The versions a user's call compares are not kept: a stale one is refused, which is no step |
| `lease_until`, `updated_at` | `expired`, `stale`, moved by the clock |
| attempt rows | `pending`: open work attempts by owner; planner attempts by the count on the row |
| plan tokens against `max_plan_tokens` | `token_cap`, which any closed planner call may set |
| `ORDER BY`, `LIMIT`, `SKIP LOCKED` of `claim`, `reap` | any nonempty subset |
| the path column | `Parent`, `Ordinal`, `Depth`, `Lineage`, constants constrained by `TreeAssumption` |
| the ancestor loop of `rollup_from` | the state column that satisfies, at each ancestor the pass reaches, the rule over its children as rewritten. The pass goes up while it changes something (`reached`) |
| idempotency keys | a replayed call is refused: no step |

Not in the model: titles, goals and other texts and their limits, the event log (so `approve` of a
leaf in review, which only appends an event, is no step), `review_note`, tenants and migrations.
Row locks inside a transaction are the subject of `CampaignTx`, approvals and notes of leaves in review
of `CampaignPoller`.

`create` may leave the root in `draft`. No protocol of the trait submits a draft (the table has the
tuple, no call uses it), so the only way on from there in the model is `cancel`, as in the code.

### CampaignDriver

It extends the store with the places of the workers (`pc`), their leaves, their cancel flags, the
drivers that are up, and one history variable: `claimant`, the worker for whom a leased row was last
claimed, which the code does not record and the properties need. A `Worker` is a permit of a
driver; `DriverOf` says whose, so the number of drivers and of permits per driver are both
parameters.

* `dispatch` is the claim phase of a tick with the spawn of what it claimed; `claim_unanswered` is
  a claim whose answer is lost after the commit.
* `check_claim`, `begin`, `session`, `push_pr`, `finish` and `fail_leaf` are the steps of
  `run_leaf`; `beat` is one beat of the heartbeat task. Sessions, pushes and `create_pr` are only
  "it worked" or "it failed".
* every store call may succeed, be refused or unreachable (no change, error branch), or commit
  and lose its answer (change, error branch);
* `cut` is the timeout, panic or process end at any point; `settle_read`, `settle_start` and
  `settle_fail` are the three transactions of `settle_failure`;
* `crash` ends a driver, with its in-process workers, while any of its worker *processes* may run
  on.

One tenant is modelled here; the tick over several is `CampaignTick`. Observers are left out.

### CampaignTx and CampaignAtomic

`CampaignStore` takes every protocol as one step. These two modules ask whether that is right.
`CampaignAtomic` keeps the columns that locks are about (state, leaf or not) and performs a protocol
at once. `CampaignTx` runs it as the code does at READ COMMITTED: the row is seen without a lock
(`begin`), ancestors and row are locked (`take_lock`), the row is checked and the other rows listed
(`check`), locked in order and written (`write`, with the rollup over what is committed then), and
committed, after the deferred foreign key on `campaign_id` has locked the root `FOR KEY SHARE` when
rows were inserted. `transition` reads each listed row again under its lock and refuses a move the
table does not have (`still_allowed`). Every statement locks by depth and then path, so what a
transaction has still to lock is a set of rows, and `next_lock` its first by `Place`. `Serializable` is the refinement `Atomic!Spec`, with the
committed rows as the abstract state. What the run shows about the foreign key: it is the only
thing that keeps a `cancel` or `replan` of the root from missing rows that a planner is inserting.

Three protocols (`Listing`) first list rows and then lock them one by one: `approve_children` the
children that wait for approval, `fail` and a closed pull request the `ready` dependents. A row that
comes to qualify between the list and the lock, because a `mark_leaf` or `approve` of it commits
meanwhile, is not among them. The abstract call therefore writes *some* of the rows that qualify, as
if the others had come later; every other protocol writes all of them. That this is needed was
seen with TLC on two larger instances, one with a dependency and one with three gated siblings: with
"all" for every protocol the refinement fails there, as stated it holds. It never writes a row that does
not qualify.

A `claim` or `reap` of several rows is several transactions of one row. In the instance of the run
nothing depends on anything and the planner's other endings (`plan_capped`, `plan_needs_info`,
`plan_error`) and `answer` are not called; the theorems are for every `Deps` and all protocols.
`update_policy` writes neither state nor kind, so it is no protocol here.

### CampaignPlanner

It extends the store with the sessions of `plan_inner`: `tick` takes the
first plannable nodes by path (the queue is a set, and the node of a session its first by
`PathOrder`), `start_plan` is the store's `plan_start`, then `context`, `build_prompt`, `ask_structured` (with
repair turns), `post_validate`, and one finishing write or `close_error`. What `context` read of the
policy and the children decides which decisions are left `open`; the store looks again. Each of them can
fail in the ways the code distinguishes. `others_step` is everything users, workers and other drivers do to
the store meanwhile. The history variable `moved` says that somebody else moved the node of a
session. Left out: prompts, briefs and answers, the injection screen, `touches`, idempotency
keys.

### CampaignPoller

A leaf's life is reduced to what a poller sees. `poll` reads the batch with the numbers of the rows,
`read_policy` the policy once per batch, `get_pr` the forge, `read_events` the approvals;
`resolve_review` goes by task id and state alone, `review_note` marks a leaf once. Failures,
timeouts, answers about another pull request and restarts are faults. The forge merges, closes
and reopens at any time. `made_for` is history. `Steady` names the processes that are kept
running; any other may stop in the middle of a batch.

### CampaignTick

One driver over a list of tenants: rotation by the cursor, each tenant's claims within its free
permits and what is left of the global budget, the interleaved order of dispatch, one permit of the
tenant and one global per claim. Leaves are counted, not told apart. The claims of a tick are a set:
`<<k, i>>` is the k-th claim of the i-th tenant served. `interleave`, which pops a claim of every tenant per
round, yields them by round and then by tenant, and the model takes the first that is left. `dispatched`
counts what `report.dispatched` lists. `Interleaved` says what the rounds are for: while a tenant waits for
a claim to be dispatched, nobody is more than one worker ahead of it.

### Scheduler

Times are kept relative to the wall clock and stop where no comparison can tell them apart, so
behaviours go on for ever. A compare-and-swap succeeds if nobody wrote the card since the driver
read it (`fresh`): every write changes the bytes. `tick`, `claim_due` per card, `dispatch`,
`run_claimed`, `exec_ends`, `finish_read` and `finish_write` are the steps of a driver; `crash`,
`claim_due_fails` and `finish_fails` its failures. `lag` is the age of the `now` a tick works
with. Left out: the in-memory scheduler, cron expressions, caps on jobs and history, clock skew
between drivers, tenants, what a run does.

A compare-and-swap is one step for all drivers. Of the store's tiers that is so in sqlite and postgres,
which run it in a transaction, and in the file tier for the drivers of one process: its
read-modify-write is guarded by a mutex of the process only (`agent-config-store/src/file.rs:162`).
`FleetPost` makes the same assumption.

### SessionManager

What happens under the map's lock is a step; everything else interleaves. Watchers use `session_for`
and `start`, runners `run_review` and `run`; closers and the reaper remove. An actor takes runs
from its bounded queue one at a time; abort ends it at any await. Left out: event sinks and their
registry, metrics, what a turn does, and `get_or_create` (`session_manager.rs:254`), by which a seam
makes a session without looking at the caps: `CapsHold` is about the sessions that `admit` lets in.

### FleetReview

`list_prs` and `emit` are a poll, `webhook` and `review_now` the other triggers, `enqueue` the folding
queue, `roster_get` to `ground` the steps of `handle` between its awaits, `admit_review`,
`run_review` and `cleanup` the spawned task, `flush` the history writer. All rows watch one
repository. A row's id is a path segment as it stands, so the sanitizing and cutting of
`review_worktree_id` (`orchestrator.rs:1060`) leaves it alone. A head is a number that grows with each push; 0 stands for a pull request that is not
open or still a draft. What a poll has listed and not yet emitted is a set of
places in the list with their heads, and `emit` takes the lowest. The status "posted" stands for posted and skipped.

### FleetPost

`lookup` reads the newest stored row, `acquire`, the post with its retries, `commit` or `release`,
and `record` follow, each of which can fail or be cut by the end of the process; `supersede` is
the orchestrator's. A row's place in the log stands for its timestamp. A request that fails for its call
(an error status, a timeout, a lost answer) is `late`: it may land at once, later or never, and
`unheard` counts those that did. `dropped` is the end of an approve or a skip whose client goes away:
the gRPC handler (`review_fleet.rs:385`) is dropped at whatever await it is at, also between the acquire of the
lease and its end. `cut` remembers the calls that lost their hold on a lease that way, by a
crash or by a failed store call. Only the lease in the shared
store is modelled, not the in-memory one; edits of a draft's body are left out.

## 3. Runs

| Run | Instance | Distinct states | Checks |
|---|---|---|---|
| `store` | root, task, two leaves; 2 owners, 2 planner calls, a gated and an ungated policy, edited at any time | 71,000 | `TypeOK`, `FinishedSubtree`, `DoneMeansDone`, `LeafHasNoChildren`, `DecomposedWaits`, `LeaseIntegrity`, `DependenciesDone`, `Finished` |
| `driver_crash` | one leaf, two drivers with one permit each, crashes | 37,000 | `DriverTypeOK`, `LostLeaseWritesNothing`, `LeaseEnds` |
| `tx` | root with children a, b and a child of a; two transactions at a time, a waits for approval; plan_start, decompose (root and a), plan_reject, mark_leaf, approve, approve_children, claim, cancel, replan | 1,200,000 | `TxTypeOK`, `Serializable`, `LockOrder` |
| `planner` | root and child, two drivers, `PerTick` 1, `MaxRepairs` 1, `MaxFaults` 1, one plan attempt, no worker | 189,000 | `PlannerTypeOK`, `StaleSessionWritesNothing`, `DecomposingEnds` |
| `poller` | two leaves, two pull requests, two pollers, one of them steady, `Batch` 1, `MaxFaults` 1, the approval gate switched on at any time | 829,000 | `PollerTypeOK`, `DoneMeansMerged`, `ApprovalGate`, `MergedIsResolved` |
| `tick` | two tenants, `PerTenant` 3, `Global` 4, `MaxReady` 3 | 21,000 | `TickTypeOK`, `DispatchNeverWaits`, `Interleaved`, `TenantServed` |
| `scheduler` | a recurring job and a one-shot, two drivers, `Period` 1, `TTL` 2, `MaxLag` 1, `MaxFaults` 1 | 295,000 | `SchedulerTypeOK`, `NoDoubleFire`, `OneShotOnce`, `ReleasedByOwner`, `NotWedged` |
| `session` | two sessions of a user who may have one, two watchers, a runner, a closer, the reaper, `QueueCap` 1, `MaxActors` 2, `MaxBeats` 1 | 719,000 | `SessionTypeOK`, `CapsHold`, `SessionsDrain` |
| `post` | one draft, three approvals in two processes, a skip, a supersede, `MaxRetries` 1, `MaxFaults` 2; any client may leave | 2,276,000 | `PostTypeOK`, `AnsweredOnce`, `SkipIsFinal`, `HeldHasHolder` |
| `review` | two rows over one pull request (`Polled` one, `Asked` the other), `MaxTotal` 1, `QueueCap` 1, `MaxHead` 2, `MaxForced` 1, `MaxRows` 1, `MaxFaults` 1 | 642,000 | `ReviewTypeOK`, `RunsOnItsTree`, `SettledHeadDrafted` |
| `stuck_child` | as `store`, one owner, one planner call, one policy | | refutes `StuckChildBlocksParent` |
| `lost_lease` | one leaf, one driver with two permits | | refutes `LostBeatWritesNothing` |

Every run of `MCCampaignStore` also evaluates `AllowedCount`: the table has the 84 tuples the
repository's exhaustive test counts.

**Bounds.** Three levels are the least in which a rollup can climb twice and a `cancel` or `replan`
reaches past its children; two children are the least in which a parent can be half done and the
least for a dependency. Two owners, planner calls, transactions, pollers or drivers are the least
in which a stale one meets a fresh one. `attempts` is bounded by `max_plan_attempts`, so in the
store nothing else has to be cut off. `MAX_CHILDREN` is the code's. In the driver runs one leaf is
enough, because a worker only touches the leaf it was given; what matters is the number
of claims of that leaf. `MaxNodes` is the number of rows of the instance. Faults (`MaxFaults`)
are bounded per behaviour, so that what must happen in the end can be asked at all (a client that goes
away is no fault and is not bounded); one or two let a crash or failure fall at any point of the protocol, and on top of another. A `Period` of
one and a `TTL` of two make a job due again while its claim is live, and again when it has run
out; a `MaxLag` of one makes a tick's `now` old. `MaxActors` 2 lets a session be closed and
admitted once more; `MaxBeats` bounds the heartbeats that keep an idle session, and `MaxHead`
the pushes of which `SettledHeadDrafted` speaks about the last.
Two leaves and two pull requests with a batch of one let the forge's answer be another leaf's, one leaf stand
before another, and a leaf have an earlier pull request. Four global permits are the least
with which `TenantServed` has its hypothesis (more than `(2 - 1) * 3`). In `session` both keys are one
user's, and with two keys the total cap of two cannot be exceeded: the run tests the cap per user, the theorem
covers both. `review` has one pull request, so the cap of a tick on what it emits (`poll.rs:82`)
never bites there. Owners and planner calls of the
store, and transactions, are interchangeable, so `SYMMETRY` is used there, where the properties are
safety properties; no run with a liveness property uses it.

**Deadlock** is not checked where the system may stop: a campaign that is done, cancelled or waits
for a user (`store`, `driver_crash`, `planner`, and the refuting runs), and finitely many calls or
clients that have all ended (`post`, `session`). The other runs check it.

**Fairness.** Nobody is assumed to come, to close, to approve or to edit; faults are never fair.

* `FairDriverSpec` (`LeaseEnds`): a worker's next step is taken, since store calls answer or fail and
  sessions and pushes are inside `worker_timeout`; a lease whose renewals have ended runs out; an
  expired leaf is reaped, because every tick starts with a reap and `crash` leaves one driver up,
  which stands for a deployment that restarts it under a fresh token.
* `FairPlannerSpec` (`DecomposingEnds`): a session goes on while its driver lives (the ask has a
  timeout), time passes, and ticks release what is stale.
* `FairSpec` of `CampaignPoller` (`MergedIsResolved`): in a process that is kept running (`Steady`, one
  of two in the run) every tick polls, and `get_pr` is bounded by `POLL_PR_TIMEOUT_SECS`.
* `FairTickSpec` (`TenantServed`): ticks go on, workers end (`worker_timeout`), and a
  claim that is possible again and again for a tenant succeeds at some time (strong fairness: a
  claim may take nothing in one tick, because another driver was first, but not in all).
* `FairSpec` of `Scheduler` (`NotWedged`): time passes and drivers keep ticking.
* `FairSpec` of `SessionManager` (`SessionsDrain`): the runtime schedules every task, a turn ends,
  time passes and the reaper's interval ticks.
* `FairSpec` of `FleetReview` (`SettledHeadDrafted`): polls repeat, the drain loop, the tasks and the
  writer go on.

## 4. What the refuting runs show

1. `stuck_child`. A blocked task that already has children is retried and planned again.
   `decompose` (`postgres.rs:1060`) writes `decomposed` and runs no rollup pass, so the node is
   `decomposed` over a failed or blocked child, where the rule of
   `docs/design/campaigns/02-transactions.md:99` says `blocked`. The next write of any child
   corrects it.
2. `lost_lease`. The owner token is per process. With two permits (`per_tenant_workers` is 2 by
   default) a driver can reap the lease of its own slow worker and claim the leaf again; settling
   the old worker (`driver/mod.rs:821`) then fails the *new* claim, which carries the same token.
   `campaign_worker.rs:152` says that nothing is written after a lost lease.

### Where code and documents differ otherwise

Met while modelling. The models contain these behaviours; no run of this project is about them,
and no property of section 3 claims the contrary.

* `block_dependents` (`postgres.rs:750`) blocks the dependents that are `ready` when a dependency
  fails; one that is being planned is missed and becomes a `ready` leaf that nobody can claim
  (`04-executor.md:272`: "A failed dependency blocks its dependents in the same transaction").
* `update_policy` (`postgres.rs:1707`) takes the version of a root that is being planned and does not
  move it, so the planner's close conflicts and the root waits for `reap_decomposing`; its tokens
  are in no attempt row (`planner/mod.rs:44`, `03-decomposition.md:95`).
* `resolve_review` (`postgres.rs:1560`) goes by task id: a late answer about an earlier pull request
  can resolve a leaf whose row names a later one (`04-executor.md:260`), and an approval of an
  earlier pull request counts for it, as `04-executor.md:235` allows. `DoneMeansMerged` is therefore about a pull
  request of the leaf, not about the one its row names.
* A poll batch is the oldest leaves in review (`sql.rs:119`), which keep their place while their pull
  requests stay open or unapproved: with more of them than `poll_batch`, one behind them is not asked
  about, merged or not. `MergedIsResolved` is about the `poll_batch` oldest only.
* The planner's validator asks for a node without *live* children before an `execute`
  (`validate.rs:128`), `mark_leaf` for one without any (`postgres.rs:1098`): over dead children the
  decision is a conflict that writes nothing, not even the attempt (`planner/mod.rs:267`), and the node
  stays `decomposing` until `reap_decomposing`. `conflicting` has it, so the theorems about planners cover it;
  the two rows of the run do not reach it, as the root is never executed.
* `decompose` locks no ancestor, and its foreign key check locks the root at commit: against a
  `cancel` of the root this is a circle, which Postgres breaks with an error
  (`02-transactions.md:122`: "cannot deadlock"). `LockOrder` is about the explicit locks only.
* `max_nodes` (`postgres.rs:984`) is counted under the lock of one parent; two parents
  decomposed at once exceed it (`01-schema.md:162`).
* "No tenant's position in the list starves it" (`driver/mod.rs:637`). The rotation (`driver/mod.rs:655`)
  moves with every tick, whether or not a permit was free: with one global permit and two tenants, the
  permit can be out in every tick that serves one of them first and free in every tick that serves the
  other first. `TenantServed` says when there is no starvation: when the global permits outnumber what
  the other tenants can hold. With one permit less TLC finds the starvation in the instance of `tick`.
* Two documents disagree about two drivers of one scheduler store. `docs/components/scheduler.md:154`
  says that the claim is no compare-and-set and that two drivers could both claim a job;
  `store.rs:236` says that each claim is a `Write::CompareAndSwap` and exactly one wins. The code is the
  latter, and so is the model (`NoDoubleFire`).
* But `store.rs:236` and, for the post lease, `lease.rs:17` ("across threads *and* processes sharing
  the backend") promise it for every tier, and the file tier's write is guarded by a mutex of the process
  only (`file.rs:162`): two processes that share a file can both win. The properties are about tiers
  whose compare-and-swap is one step.
* Scheduler: a skipped fire recorded between the read and the swap of `finish` (`store.rs:322`) makes
  the owner's run vanish from the history; a one-shot whose driver dies after the claim never fires
  (`store.rs:280`).
* "Nothing that writes is retried" (`docs/components/forge.md:164`; a test of the gRPC seam says the
  same, `forge_roundtrip.rs:140`). Below that seam the HTTP client repeats a `POST` after a timeout, a
  failed connection, a 429 or a 5xx (`http.rs:259`), and a request that timed out may still have its
  effect: a draft can have several comments. A failed post also releases the lease, so a second approve
  can add one to a late first, although the lease is to make approve and post idempotent (`lease.rs:2`).
  `AnsweredOnce` and `SkipIsFinal` count such comments apart: they bound the posts that are answered, not
  the comments.
* An approve whose gRPC client goes away between `acquire` and `commit` or `release` (`agent.rs:884`)
  leaves the lease held, with no crash and no failed call; nothing ends it, because it has no TTL.
* Drafts: such a lease, or one left by a process that died, is answered with `AlreadyPosted` for ever
  (`lease.rs:222`); a draft posted while a new round prepares becomes `superseded` in the history
  (`orchestrator.rs:835`); an edit before the posted row is stored rewrites a posted draft
  (`agent.rs:1223`).
* Sessions: a run that starts between the scan of `reap_idle` and its removals is aborted
  (`session_manager.rs:407`); a session admitted between the two halves of `remove` publishes into a
  sink that is then retired (`session_manager.rs:381`).
* Fleet: a full queue or a review under way drops a forced trigger (`orchestrator.rs:244`, `668`); a
  head can be drafted twice before its row is stored, and a draft of one row makes the head up to
  date for another (`orchestrator.rs:734`); capacity is checked long before it is taken
  (`orchestrator.rs:717`); a tick emits the first pull requests of the list only (`poll.rs:82`).

## 5. Theorems

The theorems hold for every value of the constants that satisfies the named assumptions:

* `TreeAssumption`, `NoneAssumption`, `PolicyAssumption` (store, driver, planner): paths are those of
  a tree with its root at depth 0, a missing value is none of its column's, and policies are what
  `Policy::validate` accepts. The number of rows, owners, planner calls, drivers and permits is
  arbitrary, also infinite.
* `TreeAssumption` and `OpsAssumption` of `CampaignTx`: finitely many rows, `Depth` one more than the
  parent's, `Place` a numbering of the rows by depth first (`ORDER BY depth, path COLLATE "C"` in
  `sql.rs`: paths are unique in a campaign, and any order of the rows of one depth will do), and
  protocols that are among the ones modelled. The number of transactions, of rows that inserts
  can fill, the gates and the dependencies are arbitrary.
* `TickAssumption`: the list names each tenant once, and both semaphores have a permit.
* `WorkerAssumption`: every worker belongs to one driver. `PlannerAssumption`: no two rows have the
  same path, and a tick has room for one node.
* `PollerAssumption`, `SchedulerAssumption`, `SessionAssumption`, `FleetReviewAssumption`,
  `FleetPostAssumption`: the sorts of the constants, finitely many leaves, jobs, drivers, keys,
  clients and rows of the roster, capacities and times at least one where the configuration
  requires it, and values for "none" that are nothing else. `MaxFaults`, `MaxLag`, `MaxActors` and
  the other bounds of the runs are arbitrary natural numbers there.

| Theorem | Statement |
|---|---|
| `TypeCorrect` | `Spec => []TypeOK` |
| `FinishedHolds` | `Spec => Finished` |
| `LeaseCorrect` | `Spec => []LeaseIntegrity` |
| `TreeCorrect` | `Spec => []` of `LeafHasNoChildren`, `FinishedSubtree`, `DoneMeansDone`, `DecomposedWaits` |
| `LeavesCorrect`, `DoneCorrect`, `DecomposedCorrect` | `Spec => []LeafHasNoChildren`, `Spec => []DoneMeansDone`, `Spec => []DecomposedWaits` |
| `DependenciesCorrect` | `Spec => []DependenciesDone` |
| `DriverImplementsStore` | `DriverSpec => Spec` |
| `DriverTypeCorrect` | `DriverSpec => []DriverTypeOK` |
| `DriverKeepsStoreInvariants` | `DriverSpec` keeps the store's invariants |
| `LostLeaseHolds` | if no two permits belong to the same driver, `DriverSpec => LostLeaseWritesNothing` |
| `PlannerImplementsStore` | `PlannerSpec => Spec` |
| `PlannerTypeCorrect`, `StaleSessionHolds` | `PlannerSpec => []PlannerTypeOK`, `PlannerSpec => StaleSessionWritesNothing` |
| `PlannerKeepsStoreInvariants` | `PlannerSpec` keeps the store's invariants |
| `TxTypeCorrect`, `LockOrderHolds` | of `CampaignTx`: `Spec => []TxTypeOK`, `Spec => []LockOrder` |
| `SerializableHolds` | of `CampaignTx`: `Spec => Serializable`, that is, `CampaignTx` implements `CampaignAtomic` |
| `TickTypeCorrect`, `DispatchNeverWaitsHolds`, `InterleavedHolds` | of `CampaignTick`: `TickSpec => []TickTypeOK`, `[]DispatchNeverWaits`, `[]Interleaved` |
| `PollerTypeCorrect`, `DoneMeansMergedHolds`, `ApprovalGateHolds` | of `CampaignPoller`: `Spec => []PollerTypeOK`, `[]DoneMeansMerged`, `ApprovalGate` |
| `SchedulerTypeCorrect`, `NoDoubleFireHolds`, `OneShotOnceHolds`, `ReleasedByOwnerHolds` | of `Scheduler`: `Spec => []SchedulerTypeOK`, `[]NoDoubleFire`, `[]OneShotOnce`, `ReleasedByOwner` |
| `SessionTypeCorrect`, `CapsHoldAlways`, `NoRunLostHolds` | of `SessionManager`: `Spec => []SessionTypeOK`, `[]CapsHold`, `[]NoRunLost` |
| `ReviewTypeCorrect`, `RunsOnItsTreeHolds`, `FoldHolds`, `SessionsHold` | of `FleetReview`: `Spec => []ReviewTypeOK`, `[]RunsOnItsTree`, `[]FoldOK`, `[]SessionsOK` |
| `PostTypeCorrect`, `AnsweredOnceHolds`, `SkipIsFinalHolds`, `HeldHasHolderHolds` | of `FleetPost`: `Spec => []PostTypeOK`, `[]AnsweredOnce`, `[]SkipIsFinal`, `[]HeldHasHolder` |

The arguments:

* **Types and finished rows.** `TypeOK` is inductive by itself. `Finished` follows because each
  write goes through `transition`, and `allowed` has no tuple that leaves a terminal state; `claim`
  writes directly and takes `ready` rows only.
* **Leases.** `LeaseIntegrity` is inductive with `TypeOK`: `transition` clears the lease of every
  row it moves to a state that is not leased, and each protocol that does so closes exactly the
  attempts of those rows.
* **The tree.** The four properties are not inductive one by one: `FinishedSubtree` needs
  `LeafHasNoChildren` (a leaf becomes done without looking below) and `DoneMeansDone` needs
  `FinishedSubtree`'s closure of finished children. Their conjunction `TreeInv` is inductive with
  `TypeOK` and `LeaseIntegrity`. `TreeStep` reduces a step to what it must show about the rows
  it moved; the lemmas on `rollup_from` show that an ancestor the pass reached has the state of
  the rule and that one it did not reach has unchanged children, from the fixpoint form of the
  pass and without induction over the path.
* **Dependencies.** `DepsInv` adds to `DependenciesDone` that only inserted rows are leaves.
  Dependencies are written once, on rows nobody can have taken up; a claim requires them done, and
  a done row stays done (`Finished`).
* **Drivers.** Every step of `DriverNext` is a step of the store's `Next` or leaves `vars`
  unchanged, so the store's specification, invariants and action properties carry over.
* **Lost leases.** The strengthening `ClaimedForMe` says that while a worker's leaf is leased under
  the token of its driver, it was claimed for that very worker. It needs the hypothesis, one
  permit per driver, at the two actions that claim. Given it, a store write that passes the
  owner test is made by the claimant. The run `lost_lease` shows that the hypothesis cannot be
  dropped: with the default of two permits per tenant the property fails.
* **Locks.** `TxInv` says what a transaction holds at each point: before its check rows of
  `first_locks`, after it all of these and some it has listed, a share lock only at its end (`FirstPart`,
  `SecondPart`, `LastPart`, `ShareAtEnd`); with `Exclusive`, whoever holds a row `FOR UPDATE` holds it alone.
  For `LockOrder`, suppose a set of transactions each waiting for another of them, and take the one whose next row
  comes last by `Place`. Its holder waits for a row that comes no later, although what a
  transaction holds comes before what it waits for (`HeldBeforeAwaited`). That has one exception: `fail` and a
  closed pull request hold their row and go on to lock siblings of it, some of which come before
  it. But they hold everything above as well, so whoever holds such a sibling is at work below it and
  waits, if at all, for a row that comes after theirs (`DependentsAreFree`).
* **Serializability.** The committed rows are the abstract state, so only `commit` has to be matched, and it
  has to be a `call` on the rows *at that moment*, although it was checked and computed earlier. `SerInv`
  closes the distance: a transaction past its check holds its row and, if it rolls up, all
  ancestors (`HoldsAll`); the check still holds (`Checked`); what it has written is still the result of
  its protocol over the committed rows (`Written`). The work is to show that another commit
  disturbs none of it. Two protocols that roll up both hold the root, so beside one of them only protocols
  that lock no ancestor and insert nothing can commit (`BesideRoot`; for `decompose` it is the share
  lock of the foreign key that excludes it), and these move rows between active states only, which the
  rollup rule does not tell apart (`RollupBenign`, `RollupFrame`). Children are inserted under the lock of
  their parent (`KidsKept`), and what a protocol writes beyond its row it has locked (`CommitEffect`,
  `ResultEffect`, `ResultFrame`). For the listing protocols `StillListed` shows that a listed row from which the
  table still allows the move still qualifies.
* **The tick.** `TickInv` ties the claims that are left to the permits: each tenant's are its last
  ones (`LastClaims`), they fit its free permits together with the ones dispatched before them
  (`TenantFits`), and all of them with the rest of the budget fit the free global permits (`GlobalFits`, by
  cardinality). A worker that ends only makes room. Each tenant is served once (`ServedOnce`, from the
  rotation), so that its claims are sized once. `Interleaved` is inductive with `LastClaims`: the first
  claim left is of a round that no waiting tenant has passed.
* **The post lease.** None of `AnsweredOnce` and `SkipIsFinal` is inductive. `PostInv` adds
  `OnePoster` (past the lease of a draft there is one call, and the lease is held), `Heard` (the
  comments are those of failed requests, or one more and the draft is `Settled`: its lease is taken
  and no call is in a place to give it back) and `SkipSettles` (a skip never posts; once past its
  commit, the draft is settled without an answered request). A dropped call, a crash or a failed
  store call can only leave a lease held, which keeps a settled draft settled; `HeldHasHolder` then
  needs the call among those that were `cut`.
* **Planners.** As for drivers, every step is one of the store's or leaves `vars` unchanged; that a
  session always has a node of the tree comes from `PlannerTypeOK` and the least place of a nonempty
  queue. `StaleSessionWritesNothing` needs `PlannerInv`: `MovedIsStale` (who moved the node of a
  session has taken its version) holds because every write but `plan_start` either keeps a row's state
  or takes its version (`Bumped`), and `plan_start` gives the version to its caller, whose own session
  was not moved yet. `create` is the one write that moves a row without a bump; `HeldDecomposes` shows
  that no version of that row is held. `Undecided` keeps a decision from reaching the next node.
* **The poller.** Between its snapshot and its write a poller knows only what it read. `PollerInv` says
  which of that stays true: a row in review and every batch entry name a pull request made for
  that leaf (`RowOK`, `BatchOK`), an answer is about the pull request that was asked for, which once merged
  stays merged, and a leaf about to be resolved as done was approved or its batch holds a policy without the
  gate (`AnswerOK`, `PolicyOK`). `ListOK` makes the list of leaves in review a list without repetitions.
  For `ApprovalGate`, `OnlyResolves` shows that a leaf becomes done by such a poller only.
* **The scheduler.** `NoDoubleFire` rests on `ClaimOnCard`: a claim younger than its TTL is the one the
  card carries. It survives another driver's compare-and-swap because of `FreshIsOld`, which ties the
  bytes a driver read to the age of the claim on the card, and so the liveness test made at a `now`
  that is `lag` old to the present. `OneShotSpent` says that a one-shot is claimed by spending its
  next fire, so a second claim finds nothing due. `ReleasedByOwner` follows from the second half of
  `FreshIsOld`: the bytes a finisher read and nobody wrote since still name it.
* **Sessions.** `CapsHold` is a statement about cardinalities of subsets of the map and needs only
  types; a removal shrinks them and an admission checks them in the same step. `NoRunLost` needs where
  runs can be: an actor has a run in hand exactly while it is at work (`HandsOK`), its queue and its
  hand hold different runs that were submitted to it (`PlacesOK`), and a client submits once, to
  the actor of its admission (`ClientOK`, `SpawnOrder`). An actor that is aborted
  answers what it has in that step; one whose channel is closed ends with an empty queue.
* **Reviews.** `RunsOnItsTree` is disturbed by `worktree_add` and the removal of stale trees for the key
  that `handle` is at; `DrainOK` says that this key has no task, so no running review loses its
  tree. `FoldOK` and `SessionsOK` are inductive with the types; the first counts on the queue
  holding a key once, the second on the cap being checked in the step that admits.

**Only model-checked:**

* every liveness property (`LeaseEnds`, `DecomposingEnds`, `MergedIsResolved`, `TenantServed`,
  `NotWedged`, `SessionsDrain`, `SettledHeadDrafted`): fairness is out of the prover's reach;
* `AllowedCount`, and what the refuting runs refute.

A set of natural numbers has a least member, and that much of induction can be used: the library
states it for a relation instead of an operator. The proofs about planners, transactions, ticks and
reviews do. So every invariant and action property that a passing run checks is also a theorem.

## 6. Plan

1. Kahn's algorithm as written against the declarative `check_deps`: an induction over the rounds of
   the algorithm, for TLC over all batches of a bounded size.
2. `CampaignStore` against `CampaignAtomic`: the columns the two have in common, so that the store's
   one-step protocols and the serializable transactions are one argument.
3. `claim` and `reap` of several rows in one transaction of `CampaignTx`.

## 7. Not modelled

About 250,000 lines of Rust are in the repository; most of them have no state that a model
checker could say something about that a test could not. Left out for that reason: context
assembly, memory, search, the repository graph, tools and git, the gRPC, MCP, LSP and Slack
surfaces and their conversions, configuration and its builder, metrics, the web and the command
line. The loop of a turn (`agent-runtime/src/agent.rs`) and the providers' routers are sequences
of calls to models and tools, whose control depends on texts. The sandbox and the pty isolate
processes by means of the operating system. Of the modelled parts, what is missing is said in
section 2 and in `PROJECT.json`.
