--------------------------- MODULE CampaignDriver ---------------------------
(***************************************************************************)
(* The campaign driver (crates/agent-campaign/src/driver/mod.rs) and the   *)
(* worker it dispatches (crates/agent-runtime/src/campaign_worker.rs) over *)
(* the campaign store: several driver processes, each with one owner token *)
(* for its whole life and one permit per worker it may run.                *)
(*                                                                         *)
(* Workers is the set of permits of all the drivers; DriverOf says whose   *)
(* permit it is.  A store call of a worker is the store's action, or no    *)
(* action when the store refuses it or cannot be reached; and when the     *)
(* connection is lost after the commit, the store's action with the answer *)
(* of a failed call.                                                       *)
(***************************************************************************)
EXTENDS CampaignStore

CONSTANTS Workers, DriverOf, NoWorker, NoLeaf

ASSUME WorkerAssumption ==
  /\ DriverOf \in [Workers -> Owners]
  /\ NoWorker \notin Workers
  /\ NoLeaf \notin Tasks

VARIABLES
  pc,        \* where the worker that holds a permit is, "idle" for a free permit
  leaf,      \* the leaf it was dispatched for
  lost,      \* its heartbeat has lost the lease: the cancel flag
  claimant,  \* the worker a leased row was last claimed for
  alive      \* the owner tokens of the drivers that are running

run_vars == <<pc, leaf, lost>>
dvars == <<vars, run_vars, claimant, alive>>

\* The points of run_leaf, and then those of settle_failure.
Inner == {"spawned", "starting", "session", "pushing", "completing", "failing"}
Settle == {"settling", "settle_start", "settle_fail"}

\* The heartbeat task lives from start until run_body returns.
Beating == {"session", "pushing", "completing"}

-----------------------------------------------------------------------------
\* The worker moves to p; it gives its permit back when it has settled.
step(w, p) ==
  /\ pc' = [pc EXCEPT ![w] = p]
  /\ leaf' = IF p = "idle" THEN [leaf EXCEPT ![w] = NoLeaf] ELSE leaf
  /\ lost' = IF p = "idle" THEN [lost EXCEPT ![w] = FALSE] ELSE lost
  /\ claimant' = [t \in Tasks |-> IF owner'[t] = NoOwner THEN NoWorker ELSE claimant[t]]
  /\ UNCHANGED alive

\* exec.run returned an error: the driver settles the leaf.  A worker process
\* that has outlived its driver just ends.
exit(w) == step(w, IF DriverOf[w] \in alive THEN "settling" ELSE "idle")

\* claim_limit: a claim is sized to the free permits of the driver, so that every
\* leaf it returns can be given one.
free(o) == {w \in Workers : DriverOf[w] = o /\ pc[w] = "idle"}

permits(o, S) == {f \in [S -> free(o)] : \A s, t \in S : f[s] = f[t] => s = t}

\* The claim phase of a tick, and the dispatch of what it claimed.
dispatch(o, S) ==
  /\ o \in alive
  /\ claim(o, S)
  /\ \E f \in permits(o, S) :
       LET taken == {f[t] : t \in S}
       IN  /\ pc' = [w \in Workers |-> IF w \in taken THEN "spawned" ELSE pc[w]]
           /\ leaf' = [w \in Workers |-> IF w \in taken THEN CHOOSE t \in S : f[t] = w
                                         ELSE leaf[w]]
           /\ claimant' = [t \in Tasks |-> IF t \in S THEN f[t] ELSE claimant[t]]
  /\ UNCHANGED <<lost, alive>>

\* The claim is committed and its answer lost: leased rows without a worker.
claim_unanswered(o, S) ==
  /\ o \in alive
  /\ permits(o, S) # {}
  /\ claim(o, S)
  /\ UNCHANGED <<run_vars, claimant, alive>>

-----------------------------------------------------------------------------
(* run_leaf, by the worker w of the driver that claimed its leaf. *)

\* Step 1: the leaf must be claimed by this owner.
check_claim(w) ==
  /\ pc[w] = "spawned"
  /\ UNCHANGED vars
  /\ \/ /\ state[leaf[w]] = "claimed" /\ owner[leaf[w]] = DriverOf[w]
        /\ step(w, "starting")
     \/ exit(w)

\* Step 2: claimed to running.
begin(w) ==
  /\ pc[w] = "starting"
  /\ \/ start(DriverOf[w], leaf[w]) /\ (step(w, "session") \/ exit(w))
     \/ UNCHANGED vars /\ exit(w)

\* Step 3: one beat.  A lease that is not this owner's flips the cancel flag.
beat(w) ==
  /\ pc[w] \in Beating /\ ~lost[w]
  /\ \/ heartbeat(DriverOf[w], leaf[w]) /\ UNCHANGED lost
     \/ /\ owner[leaf[w]] # DriverOf[w] \/ ~is_leased(state[leaf[w]])
        /\ lost' = [lost EXCEPT ![w] = TRUE]
        /\ UNCHANGED vars
  /\ UNCHANGED <<pc, leaf, claimant, alive>>

\* Steps 4 and 5: bindings, worktree and session.  Only here is the cancel flag
\* looked at, in the select against the session.
session(w) ==
  /\ pc[w] = "session"
  /\ UNCHANGED vars
  /\ \/ step(w, "pushing") \/ step(w, "failing")
     \/ lost[w] /\ exit(w)

\* Step 6: checkpoint, push, policy, create_pr.
push_pr(w) ==
  /\ pc[w] = "pushing"
  /\ UNCHANGED vars
  /\ step(w, "completing") \/ step(w, "failing")

\* Step 7: a lost lease ends the worker, any other refusal fails the leaf.
finish(w) ==
  /\ pc[w] = "completing"
  /\ \/ complete(DriverOf[w], leaf[w]) /\ (step(w, "idle") \/ step(w, "failing"))
     \/ UNCHANGED vars /\ owner[leaf[w]] # DriverOf[w] /\ exit(w)
     \/ UNCHANGED vars /\ step(w, "failing")

\* Step 8.  Every exit from here is an error to the driver.
fail_leaf(w) ==
  /\ pc[w] = "failing"
  /\ fail(DriverOf[w], leaf[w]) \/ UNCHANGED vars
  /\ exit(w)

\* worker_timeout, a panic or the end of a worker process, wherever it is.
cut(w) == pc[w] \in Inner /\ UNCHANGED vars /\ exit(w)

-----------------------------------------------------------------------------
(* settle_failure: the driver fails what the worker has not settled. *)

settle_read(w) ==
  /\ pc[w] = "settling"
  /\ UNCHANGED vars
  /\ \/ state[leaf[w]] = "claimed" /\ step(w, "settle_start")
     \/ state[leaf[w]] = "running" /\ step(w, "settle_fail")
     \/ step(w, "idle")

settle_start(w) ==
  /\ pc[w] = "settle_start"
  /\ \/ start(DriverOf[w], leaf[w]) /\ (step(w, "settle_fail") \/ step(w, "idle"))
     \/ UNCHANGED vars /\ step(w, "idle")

settle_fail(w) ==
  /\ pc[w] = "settle_fail"
  /\ fail(DriverOf[w], leaf[w]) \/ UNCHANGED vars
  /\ step(w, "idle")

-----------------------------------------------------------------------------
\* Mutant of crash: the ended workers keep their leaves.
crash_keeps_leaf(o) ==
  /\ o \in alive /\ alive # {o}
  /\ alive' = alive \ {o}
  /\ pc' = [w \in Workers |-> IF DriverOf[w] = o THEN "idle" ELSE pc[w]]
  /\ UNCHANGED <<vars, leaf, lost, claimant>>

\* A driver process ends and never comes back under this token (another one is
\* up: a deployment restarts its driver).  Its in-process workers end with it,
\* its worker processes run on.
crash(o) ==
  /\ o \in alive /\ alive # {o}
  /\ alive' = alive \ {o}
  /\ \E on \in SUBSET {w \in Workers : DriverOf[w] = o /\ pc[w] \in Inner} :
       LET ended == {w \in Workers : DriverOf[w] = o} \ on
       IN  /\ pc' = [w \in Workers |-> IF w \in ended THEN "idle" ELSE pc[w]]
           /\ leaf' = [w \in Workers |-> IF w \in ended THEN NoLeaf ELSE leaf[w]]
           /\ lost' = [w \in Workers |-> w \notin ended /\ lost[w]]
  /\ UNCHANGED <<vars, claimant>>

\* The workers during a store step that none of them takes.
Bystanders ==
  /\ claimant' = [t \in Tasks |-> IF owner'[t] = NoOwner THEN NoWorker ELSE claimant[t]]
  /\ UNCHANGED <<run_vars, alive>>

\* The planner's steps, a user's, those of the other phases of a tick, the clock's.
StoreStep == (PlannerStep \/ DriverStep \/ UserStep \/ Clock) /\ Bystanders

Progress(w) ==
  \/ check_claim(w) \/ begin(w) \/ session(w) \/ push_pr(w) \/ finish(w)
  \/ fail_leaf(w) \/ cut(w)
  \/ settle_read(w) \/ settle_start(w) \/ settle_fail(w)

DriverInit ==
  /\ Init
  /\ pc = [w \in Workers |-> "idle"]
  /\ leaf = [w \in Workers |-> NoLeaf]
  /\ lost = [w \in Workers |-> FALSE]
  /\ claimant = [t \in Tasks |-> NoWorker]
  /\ alive = Owners

DriverNext ==
  \/ StoreStep
  \/ \E o \in Owners :
       \/ crash(o)
       \/ \E S \in SUBSET Tasks : dispatch(o, S) \/ claim_unanswered(o, S)
  \/ \E w \in Workers : Progress(w) \/ beat(w)

DriverSpec == DriverInit /\ [][DriverNext]_dvars

\* Every step of a worker is bounded by a timeout, leases run out, and every
\* tick of a driver that is up reaps what has expired.
Fairness ==
  /\ \A w \in Workers : WF_dvars(Progress(w))
  /\ \A t \in Tasks : /\ WF_dvars(lease_expires(t) /\ Bystanders)
                      /\ WF_dvars((\E S \in SUBSET Tasks : t \in S /\ reap(S)) /\ Bystanders)

FairDriverSpec == DriverSpec /\ Fairness

-----------------------------------------------------------------------------
(* Properties. *)

\* A worker is somewhere in its protocol, for a leaf.
DriverTypeOK ==
  /\ pc \in [Workers -> {"idle"} \cup Inner \cup Settle]
  /\ leaf \in [Workers -> Tasks \cup {NoLeaf}]
  /\ \A w \in Workers : pc[w] = "idle" <=> leaf[w] = NoLeaf
  /\ lost \in [Workers -> BOOLEAN]
  /\ claimant \in [Tasks -> Workers \cup {NoWorker}]
  /\ alive \subseteq Owners

\* A worker whose leaf has been reaped, cancelled or claimed for another worker
\* since it was dispatched writes nothing, and nor does the driver that settles
\* it: with one permit per driver, the owner token tells every claim apart.
LostLeaseWritesNothing ==
  [][\A w \in Workers :
       pc[w] # "idle" /\ pc'[w] # pc[w] /\ claimant[leaf[w]] # w => state' = state]_dvars

\* A driver does not leave a row leased for ever: whatever crashes, times out or
\* loses an answer, the leaf is settled or given back.
LeaseEnds == \A t \in Tasks : is_leased(state[t]) ~> ~is_leased(state[t])

\* What LeafExit says of LeaseLost: once the heartbeat has lost the lease, nothing
\* is written under it, by the worker or by the settling of it.
LostBeatWritesNothing ==
  [][\A w \in Workers : lost[w] /\ pc'[w] # pc[w] => state' = state]_dvars

=============================================================================
