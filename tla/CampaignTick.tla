---------------------------- MODULE CampaignTick ----------------------------
(***************************************************************************)
(* One driver's ticks over several tenants                                 *)
(* (crates/agent-campaign/src/driver/mod.rs, tick_inner): the tenants in   *)
(* rotated order, each claiming within the free permits and what is left   *)
(* of the global budget, then dispatch, which takes a permit of the tenant *)
(* and a global one for every claim.  Workers end at any moment and free   *)
(* both.  Leaves are counted, not told apart: what happens to each is the  *)
(* subject of CampaignDriver.                                              *)
(***************************************************************************)
EXTENDS Integers, Sequences, FiniteSets, Functions

CONSTANTS
  Tenants,     \* the tenants, in the order the list has them
  PerTenant,   \* per_tenant_workers
  Global,      \* global_workers
  MaxReady     \* bound: claimable leaves of a tenant

All == Range(Tenants)

ASSUME TickAssumption ==
  /\ Tenants \in Seq(All) /\ Tenants # <<>>
  /\ \A i, j \in DOMAIN Tenants : Tenants[i] = Tenants[j] => i = j
  /\ PerTenant \in Nat \ {0} /\ Global \in Nat \ {0} /\ MaxReady \in Nat

VARIABLES
  ready,       \* claimable leaves of a tenant
  tenant_held, \* permits taken of a tenant's semaphore
  global_held, \* permits taken of the global semaphore
  cursor,      \* rr_cursor, modulo the length of the list
  phase,       \* "idle", "serve", "dispatch", or "global": between the two permits
  order,       \* the tenants as this tick serves them
  served,      \* how many of them it has served
  budget,      \* what is left of the global permits that were free at the start
  claims,      \* claims to dispatch: <<k, i>> is the k-th claim of tenant order[i]
  dispatched   \* report.dispatched: claims of a tenant that have their worker

tick_vars == <<ready, tenant_held, global_held, cursor, phase, order, served, budget,
               claims, dispatched>>

-----------------------------------------------------------------------------
rotate_left(s, n) ==
  [i \in 1 .. Len(s) |-> s[IF i + n <= Len(s) THEN i + n ELSE i + n - Len(s)]]

no_dispatch == [t \in All |-> 0]

\* Mutant of interleave: one tenant after the other.
interleave_batches(S) ==
  CHOOSE c \in S : \A d \in S : c[2] < d[2] \/ (c[2] = d[2] /\ c[1] <= d[1])

\* Round k takes the k-th claim of every tenant that has one: the claim that comes
\* first of those in S.
interleave(S) ==
  CHOOSE c \in S : \A d \in S : c[1] < d[1] \/ (c[1] = d[1] /\ c[2] <= d[2])

\* The tenant that is dispatched for.
next_tenant == order[interleave(claims)[2]]

\* Mutant of claim_limit: only the tenant's permits count.
claim_limit_tenant_only(per_tenant_free, global_budget) == per_tenant_free

claim_limit(per_tenant_free, global_budget) ==
  IF per_tenant_free < global_budget THEN per_tenant_free ELSE global_budget

\* harvest, tenants_for_tick, the budget.  (A tick whose tenant discovery fails
\* serves nothing and leaves the cursor alone: no step.)
tick ==
  /\ phase = "idle"
  /\ order' = rotate_left(Tenants, cursor)
  /\ cursor' = IF Len(Tenants) > 1 THEN (cursor + 1) % Len(Tenants) ELSE cursor
  /\ budget' = Global - global_held
  /\ phase' = "serve"
  /\ UNCHANGED <<ready, tenant_held, global_held, served, claims, dispatched>>

\* Mutant of spend: the budget is not shared between the tenants.
spend_nothing(n) == budget

spend(n) == budget - n

\* The phases of one tenant, ending with its claim, which takes what is claimable
\* within the limit; another driver may have been faster.
tick_tenant(n) ==
  LET i == served + 1
      t == order[i]
      limit == claim_limit(PerTenant - tenant_held[t], budget)
  IN  /\ phase = "serve" /\ served < Len(order)
      /\ n <= limit /\ n <= ready[t]
      /\ n = limit \/ n = ready[t]
      /\ ready' = [ready EXCEPT ![t] = @ - n]
      /\ budget' = spend(n)
      /\ claims' = claims \cup ((1 .. n) \X {i})
      /\ served' = i
      /\ UNCHANGED <<tenant_held, global_held, cursor, phase, order, dispatched>>

\* The tenant cannot be opened, or its claim fails: nothing is claimed.
tick_tenant_fails ==
  /\ phase = "serve" /\ served < Len(order)
  /\ served' = served + 1
  /\ UNCHANGED <<ready, tenant_held, global_held, cursor, phase, order, budget, claims,
                 dispatched>>

dispatch ==
  /\ phase = "serve" /\ served = Len(order)
  /\ budget' = 0
  /\ phase' = "dispatch"
  /\ UNCHANGED <<ready, tenant_held, global_held, cursor, order, served, claims, dispatched>>

\* acquire: waits while no permit is free.
acquire_tenant ==
  /\ phase = "dispatch" /\ claims # {}
  /\ tenant_held[next_tenant] < PerTenant
  /\ tenant_held' = [tenant_held EXCEPT ![next_tenant] = @ + 1]
  /\ phase' = "global"
  /\ UNCHANGED <<ready, global_held, cursor, order, served, budget, claims, dispatched>>

acquire_global ==
  /\ phase = "global"
  /\ global_held < Global
  /\ global_held' = global_held + 1
  /\ claims' = claims \ {interleave(claims)}
  /\ dispatched' = [dispatched EXCEPT ![next_tenant] = @ + 1]
  /\ phase' = "dispatch"
  /\ UNCHANGED <<ready, tenant_held, cursor, order, served, budget>>

tick_ends ==
  /\ phase = "dispatch" /\ claims = {}
  /\ order' = <<>> /\ served' = 0 /\ dispatched' = no_dispatch
  /\ phase' = "idle"
  /\ UNCHANGED <<ready, tenant_held, global_held, cursor, budget, claims>>

-----------------------------------------------------------------------------
(* The workers: a permit of a tenant whose global one is still awaited is not *)
(* a worker yet.                                                              *)

workers(t) ==
  tenant_held[t] - (IF phase = "global" /\ next_tenant = t THEN 1 ELSE 0)

\* Mutants of worker_ends: one of the two permits is not given back.
worker_ends_tenant_only(t) ==
  /\ workers(t) > 0
  /\ tenant_held' = [tenant_held EXCEPT ![t] = @ - 1]
  /\ UNCHANGED <<ready, global_held, cursor, phase, order, served, budget, claims, dispatched>>

worker_ends_global_only(t) ==
  /\ workers(t) > 0
  /\ global_held' = global_held - 1
  /\ UNCHANGED <<ready, tenant_held, cursor, phase, order, served, budget, claims, dispatched>>

\* run_worker has settled and drops both permits.
worker_ends(t) ==
  /\ workers(t) > 0
  /\ tenant_held' = [tenant_held EXCEPT ![t] = @ - 1]
  /\ global_held' = global_held - 1
  /\ UNCHANGED <<ready, cursor, phase, order, served, budget, claims, dispatched>>

\* Planning, approvals, retries and reaps make leaves claimable.
leaf_ready(t) ==
  /\ ready[t] < MaxReady
  /\ ready' = [ready EXCEPT ![t] = @ + 1]
  /\ UNCHANGED <<tenant_held, global_held, cursor, phase, order, served, budget, claims,
                 dispatched>>

-----------------------------------------------------------------------------
TickInit ==
  /\ ready = [t \in All |-> 0]
  /\ tenant_held = [t \in All |-> 0]
  /\ global_held = 0
  /\ cursor = 0
  /\ phase = "idle"
  /\ order = <<>> /\ served = 0
  /\ claims = {} /\ dispatched = no_dispatch
  /\ budget = 0

TickStep ==
  \/ tick \/ dispatch \/ acquire_tenant \/ acquire_global \/ tick_ends
  \/ \E n \in 0 .. MaxReady : tick_tenant(n)

TickNext ==
  \/ TickStep \/ tick_tenant_fails
  \/ \E t \in All : worker_ends(t) \/ leaf_ready(t)

TickSpec == TickInit /\ [][TickNext]_tick_vars

\* Tenant t is the next to be served, and has something claimed.
claims_for(t) ==
  served < Len(order) /\ order[served + 1] = t /\ \E n \in 1 .. MaxReady : tick_tenant(n)

\* The driver ticks on its interval, a claim that can succeed does so at some time,
\* and every worker ends: run_worker is bounded by worker_timeout.
FairTickSpec ==
  /\ TickSpec
  /\ WF_tick_vars(TickStep)
  /\ \A t \in All : WF_tick_vars(worker_ends(t)) /\ SF_tick_vars(claims_for(t))

-----------------------------------------------------------------------------
(* Properties. *)

running == {w \in All \X (1 .. PerTenant) : w[2] <= workers(w[1])}

\* The counters have their types, no semaphore ever gives out more than it has, and
\* every global permit that is taken has a worker with a permit of its tenant.
TickTypeOK ==
  /\ ready \in [All -> 0 .. MaxReady]
  /\ tenant_held \in [All -> 0 .. PerTenant]
  /\ global_held \in 0 .. Global /\ global_held = Cardinality(running)
  /\ cursor \in 0 .. Len(Tenants) - 1
  /\ phase \in {"idle", "serve", "dispatch", "global"}
  /\ order \in Seq(All) /\ served \in 0 .. Len(order)
  /\ claims \subseteq (1 .. PerTenant) \X (1 .. Len(order))
  /\ dispatched \in [All -> 0 .. PerTenant]
  /\ budget \in 0 .. Global

\* Dispatch never waits for a permit, whatever workers end and leaves appear while
\* the tenants are served: the claims of a tick fit the permits free at its end.
DispatchNeverWaits ==
  /\ phase = "dispatch" /\ claims # {} => tenant_held[next_tenant] < PerTenant
  /\ phase = "global" => global_held < Global

\* The claims of a tick are dispatched "interleaved across tenants": while a tenant
\* waits for one of its claims, no other is more than one worker ahead of it.
Interleaved ==
  \A t \in All :
    (\E c \in claims : order[c[2]] = t) =>
      \A u \in All : dispatched[u] <= dispatched[t] + 1

\* A tenant with a claimable leaf gets a worker, if the global permits outnumber those
\* the other tenants can hold together.  The rotation of tenants_for_tick alone does not
\* give this: with fewer permits the others' workers may hold all of them at every tick
\* that serves the tenant first.
TenantServed ==
  Global > (Len(Tenants) - 1) * PerTenant => \A t \in All : ready[t] > 0 ~> workers(t) > 0

=============================================================================
