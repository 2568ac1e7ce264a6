------------------------- MODULE CampaignTickProofs -------------------------
(***************************************************************************)
(* The two parts of a driver's tick that are specified by themselves.      *)
(* CampaignTick, for every list of tenants and every size of the           *)
(* semaphores: the claims of a tick fit the permits that are free when     *)
(* they are dispatched.  CampaignPoller, for every number of leaves,       *)
(* pollers and pull requests, every batch size and number of faults: a     *)
(* done leaf had a pull request of its own merged, and was approved if the *)
(* policy never let that go.                                               *)
(***************************************************************************)
EXTENDS CampaignTick, CampaignPoller, FiniteSetTheorems, WellFoundedInduction, TLAPS

-----------------------------------------------------------------------------
(* The tick. *)

\* A tick serves each tenant once.
ServedOnce == \A i, j \in 1 .. Len(order) : order[i] = order[j] => i = j

\* Claims are there from the tenants' phases to their dispatch.
ClaimsPhase ==
  /\ phase = "idle" => claims = {} /\ served = 0
  /\ phase = "global" => claims # {} /\ tenant_held[next_tenant] > 0
  /\ phase \in {"idle", "serve"} => dispatched = no_dispatch
  /\ \A c \in claims : c[2] <= served

\* The claims of a tenant that are left are its last ones.
LastClaims ==
  \A c \in claims :
    /\ dispatched[order[c[2]]] < c[1]
    /\ \A k \in 1 .. c[1] : dispatched[order[c[2]]] < k => <<k, c[2]>> \in claims

\* They fit the free permits of the tenant, with the ones dispatched before them, and
\* all claims fit the free global permits, with what is left of the budget.
TenantFits ==
  \A c \in claims :
    workers(order[c[2]]) + c[1] - dispatched[order[c[2]]] <= PerTenant

GlobalFits == Cardinality(claims) + budget + global_held <= Global

TickInv ==
  /\ TickTypeOK /\ ServedOnce /\ ClaimsPhase /\ LastClaims /\ TenantFits /\ GlobalFits
  /\ Interleaved

\* A set of natural numbers that has a member has a least one.
LEMMA NatMin ==
  ASSUME NEW T \in SUBSET Nat, T # {}
  PROVE  \E x \in T : \A y \in T : x <= y
<1>. DEFINE R == {ss \in Nat \X Nat : ss[1] < ss[2]}
<1>1. IsWellFoundedOn(R, Nat)
  BY NatLessThanWellFounded DEF OpToRel
<1>2. PICK x \in T : \A y \in T : ~(<<y, x>> \in R)
  <2>. HIDE DEF R
  <2>. QED BY <1>1, WFMin
<1>3. \A y \in T : ~(y < x)
  BY <1>2
<1>4. QED
  BY <1>3

\* A claim comes first: it is one of them, and none is of an earlier round.
LEMMA FirstClaim ==
  ASSUME NEW S \in SUBSET (Nat \X Nat), S # {}
  PROVE  /\ interleave(S) \in S
         /\ \A d \in S : interleave(S)[1] <= d[1]
<1>. DEFINE K == {c[1] : c \in S}
<1>1. PICK k \in K : \A j \in K : k <= j
  <2>1. K \in SUBSET Nat /\ K # {}
    OBVIOUS
  <2>. HIDE DEF K
  <2>2. QED BY <2>1, NatMin
<1>. DEFINE I == {c[2] : c \in {d \in S : d[1] = k}}
<1>2. PICK i \in I : \A j \in I : i <= j
  <2>1. I \in SUBSET Nat /\ I # {}
    OBVIOUS
  <2>. HIDE DEF I
  <2>2. QED BY <2>1, NatMin
<1>3. PICK c \in S : c[1] = k /\ c[2] = i
  OBVIOUS
<1>4. \A d \in S : c[1] < d[1] \/ (c[1] = d[1] /\ c[2] <= d[2])
  <2>1. TAKE d \in S
  <2>2. d[1] \in Nat /\ d[2] \in Nat /\ c[1] \in Nat /\ c[2] \in Nat
    OBVIOUS
  <2>3. k <= d[1]
    BY <1>1
  <2>4. d[1] = k => i <= d[2]
    BY <1>2
  <2>. HIDE DEF K, I
  <2>5. QED BY <2>2, <2>3, <2>4, <1>3
<1>. DEFINE f == interleave(S)
<1>5. f \in S /\ \A d \in S : f[1] < d[1] \/ (f[1] = d[1] /\ f[2] <= d[2])
  BY <1>4 DEF interleave
<1>. HIDE DEF f
<1>6. \A d \in S : f[1] <= d[1]
  <2>1. TAKE d \in S
  <2>2. d[1] \in Nat /\ f[1] \in Nat
    BY <1>5
  <2>3. QED BY <1>5, <2>2
<1>7. QED
  BY <1>5, <1>6 DEF f

\* There are finitely many tenants, so the claims and the workers are finitely many.
LEMMA Finite ==
  ASSUME TickTypeOK
  PROVE  IsFiniteSet(claims) /\ IsFiniteSet(running)
<1>1. IsFiniteSet(All)
  <2>1. Tenants \in Surjection(1 .. Len(Tenants), All)
    BY TickAssumption DEF All, Range, Surjection
  <2>2. QED BY <2>1, FS_Surjection, FS_Interval, TickAssumption
<1>2. IsFiniteSet(1 .. PerTenant) /\ IsFiniteSet(1 .. Len(order))
  BY FS_Interval, TickAssumption DEF TickTypeOK
<1>3. IsFiniteSet((1 .. PerTenant) \X (1 .. Len(order))) /\ IsFiniteSet(All \X (1 .. PerTenant))
  BY <1>1, <1>2, FS_Product
<1>4. QED
  BY <1>3, FS_Subset DEF TickTypeOK, running

\* What a tick in progress knows of the claim it dispatches next.
LEMMA NextClaim ==
  ASSUME TickInv, claims # {}
  PROVE  /\ interleave(claims) \in claims
         /\ interleave(claims)[1] \in 1 .. PerTenant /\ interleave(claims)[2] \in 1 .. Len(order)
         /\ next_tenant \in All
         /\ interleave(claims)[1] = dispatched[next_tenant] + 1
         /\ \A d \in claims : interleave(claims)[1] <= d[1]
<1>. DEFINE c == interleave(claims)
<1>. USE TickAssumption
<1>0. /\ claims \subseteq (1 .. PerTenant) \X (1 .. Len(order)) /\ Len(order) \in Nat
      /\ order \in Seq(All) /\ dispatched \in [All -> 0 .. PerTenant]
  <2>1. TickTypeOK
    BY DEF TickInv
  <2>2. claims \subseteq (1 .. PerTenant) \X (1 .. Len(order))
    BY <2>1 DEF TickTypeOK
  <2>3. order \in Seq(All)
    BY <2>1 DEF TickTypeOK
  <2>4. dispatched \in [All -> 0 .. PerTenant]
    BY <2>1 DEF TickTypeOK
  <2>5. QED
    BY <2>2, <2>3, <2>4
<1>1. claims \in SUBSET (Nat \X Nat)
  BY <1>0
<1>2. c \in claims /\ \A d \in claims : c[1] <= d[1]
  BY <1>1, FirstClaim
<1>. HIDE DEF c
<1>3. c[1] \in 1 .. PerTenant /\ c[2] \in 1 .. Len(order)
  BY <1>0, <1>2
<1>4. order[c[2]] \in All
  BY <1>0, <1>3
<1>5. c[1] = dispatched[order[c[2]]] + 1
  <2>. DEFINE k == dispatched[order[c[2]]] + 1
  <2>1. dispatched[order[c[2]]] \in Nat
    BY <1>0, <1>4
  <2>2. dispatched[order[c[2]]] < c[1]
    BY <1>2 DEF TickInv, LastClaims
  <2>3. k \in 1 .. c[1]
    BY <2>1, <2>2, <1>3
  <2>4. <<k, c[2]>> \in claims
    BY <1>2, <2>1, <2>3 DEF TickInv, LastClaims
  <2>5. c[1] <= k
    BY <1>2, <2>4
  <2>6. QED BY <2>1, <2>2, <2>5, <1>3
<1>6. QED
  BY <1>2, <1>3, <1>4, <1>5 DEF c, next_tenant

\* A tenant's workers are no more than its permits.
LEMMA WorkersType ==
  ASSUME TickInv, NEW t \in All
  PROVE  /\ workers(t) \in 0 .. PerTenant /\ tenant_held[t] \in 0 .. PerTenant
         /\ workers(t) <= tenant_held[t]
<1>1. tenant_held[t] \in 0 .. PerTenant
  <2>1. tenant_held \in [All -> 0 .. PerTenant]
    BY DEF TickInv, TickTypeOK
  <2>2. QED BY <2>1
<1>2. phase = "global" /\ next_tenant = t => tenant_held[t] > 0
  BY DEF TickInv, ClaimsPhase
<1>3. QED
  BY <1>1, <1>2, TickAssumption DEF workers

\* The workers after a step that changes none.
LEMMA RunningKept ==
  ASSUME \A t \in All : workers(t)' = workers(t)
  PROVE  running' = running
BY DEF running

\* One more, with the new permit of its tenant.
LEMMA RunningMore ==
  ASSUME TickInv, NEW t \in All, workers(t)' = workers(t) + 1, workers(t) < PerTenant,
         \A u \in All \ {t} : workers(u)' = workers(u)
  PROVE  Cardinality(running)' = Cardinality(running) + 1
<1>. DEFINE w == <<t, workers(t) + 1>>
<1>1. workers(t) \in Nat
  BY WorkersType, TickAssumption
<1>2. running' = running \cup {w}
  <2>1. ASSUME NEW v \in All \X (1 .. PerTenant)
        PROVE  v[2] <= workers(v[1])' <=> v[2] <= workers(v[1]) \/ v = w
    <3>1. CASE v[1] = t
      BY <3>1, <1>1, TickAssumption
    <3>2. CASE v[1] # t
      BY <3>2
    <3>3. QED BY <3>1, <3>2
  <2>2. w \in All \X (1 .. PerTenant)
    BY <1>1, TickAssumption
  <2>3. QED
    BY <2>1, <2>2 DEF running
<1>3. w \notin running
  BY <1>1 DEF running
<1>4. IsFiniteSet(running)
  BY Finite DEF TickInv
<1>. HIDE DEF w
<1>5. Cardinality(running \cup {w}) = Cardinality(running) + 1
  BY <1>3, <1>4, FS_AddElement
<1>6. QED
  BY <1>2, <1>5

\* One less, with the last permit of its tenant.
LEMMA RunningLess ==
  ASSUME TickInv, NEW t \in All, workers(t)' = workers(t) - 1, workers(t) > 0,
         \A u \in All \ {t} : workers(u)' = workers(u)
  PROVE  Cardinality(running)' = Cardinality(running) - 1
<1>. DEFINE w == <<t, workers(t)>>
<1>1. workers(t) \in 1 .. PerTenant
  BY WorkersType, TickAssumption
<1>2. running' = running \ {w}
  <2>1. ASSUME NEW v \in All \X (1 .. PerTenant)
        PROVE  v[2] <= workers(v[1])' <=> v[2] <= workers(v[1]) /\ v # w
    <3>1. CASE v[1] = t
      BY <3>1, <1>1, TickAssumption
    <3>2. CASE v[1] # t
      BY <3>2
    <3>3. QED BY <3>1, <3>2
  <2>3. QED
    BY <2>1 DEF running
<1>3. w \in running
  BY <1>1, TickAssumption DEF running
<1>4. IsFiniteSet(running)
  BY Finite DEF TickInv
<1>. HIDE DEF w
<1>5. Cardinality(running \ {w}) = Cardinality(running) - 1
  BY <1>3, <1>4, FS_RemoveElement
<1>6. QED
  BY <1>2, <1>5

\* A rotated list has the tenants of the list, each once.
LEMMA Rotated ==
  ASSUME NEW n \in 0 .. Len(Tenants) - 1
  PROVE  LET s == rotate_left(Tenants, n)
         IN  /\ s \in Seq(All) /\ Len(s) = Len(Tenants)
             /\ \A i, j \in 1 .. Len(s) : s[i] = s[j] => i = j
<1>. DEFINE L == Len(Tenants)
            at(i) == IF i + n <= L THEN i + n ELSE i + n - L
            s == rotate_left(Tenants, n)
<1>1. L \in Nat /\ Tenants \in Seq(All) /\ n \in Nat /\ n < L
  BY TickAssumption
<1>2. \A i \in 1 .. L : at(i) \in 1 .. L
  BY <1>1
<1>3. s = [i \in 1 .. L |-> Tenants[at(i)]]
  BY DEF rotate_left
<1>4. \A i, j \in 1 .. L : at(i) = at(j) => i = j
  BY <1>1
<1>5. \A i, j \in 1 .. L : Tenants[i] = Tenants[j] => i = j
  BY <1>1, TickAssumption
<1>. HIDE DEF L, at
<1>6. \A i \in 1 .. L : Tenants[at(i)] \in All
  BY <1>1, <1>2 DEF L
<1>7. s \in Seq(All) /\ Len(s) = L
  BY <1>1, <1>3, <1>6
<1>8. \A i, j \in 1 .. L : s[i] = s[j] => i = j
  BY <1>2, <1>3, <1>4, <1>5
<1>9. QED
  BY <1>7, <1>8 DEF L

\* The initial states satisfy the invariant.
LEMMA TickInitInv == TickInit => TickInv
<1>. SUFFICES ASSUME TickInit PROVE TickInv
  OBVIOUS
<1>. USE TickAssumption DEF TickInit
<1>1. Cardinality({}) = 0
  BY FS_EmptySet
<1>2. \A t \in All : workers(t) = 0
  BY DEF workers
<1>3. running = {}
  BY <1>2 DEF running
<1>4. dispatched \in [All -> 0 .. PerTenant]
  BY DEF no_dispatch
<1>5. TickTypeOK
  BY <1>1, <1>3, <1>4 DEF TickTypeOK
<1>6. ServedOnce /\ ClaimsPhase /\ LastClaims /\ TenantFits
  BY DEF ServedOnce, ClaimsPhase, LastClaims, TenantFits
<1>7. GlobalFits /\ Interleaved
  BY <1>1 DEF GlobalFits, Interleaved
<1>8. QED
  BY <1>5, <1>6, <1>7 DEF TickInv

\* A new tick starts without claims.
LEMMA TickKeeps == ASSUME TickInv, tick PROVE TickInv'
<1>. USE TickAssumption
<1>1. claims = {} /\ claims' = {} /\ phase' = "serve" /\ phase = "idle"
  BY DEF tick, TickInv, ClaimsPhase
<1>2. \A t \in All : workers(t)' = workers(t)
  BY <1>1 DEF workers, tick
<1>3. running' = running
  BY <1>2, RunningKept
<1>4. cursor \in 0 .. Len(Tenants) - 1 /\ Len(Tenants) \in Nat
  BY DEF TickInv, TickTypeOK
<1>5. order' \in Seq(All) /\ ServedOnce'
  BY <1>4, Rotated DEF tick, ServedOnce
<1>6. cursor' \in 0 .. Len(Tenants) - 1
  BY <1>4 DEF tick
<1>7. served' = 0 /\ dispatched' = no_dispatch
  BY <1>1 DEF tick, TickInv, ClaimsPhase
<1>. DEFINE g == Cardinality(running)
<1>8. global_held \in 0 .. Global /\ global_held = g
  BY DEF TickInv, TickTypeOK
<1>9. global_held' = global_held /\ budget' = Global - global_held
  BY DEF tick
<1>10. TickTypeOK'
  <2>1. /\ ready' \in [All -> 0 .. MaxReady] /\ tenant_held' \in [All -> 0 .. PerTenant]
        /\ dispatched' \in [All -> 0 .. PerTenant]
    BY DEF TickInv, TickTypeOK, tick
  <2>2. served' \in 0 .. Len(order')
    BY <1>5, <1>7
  <2>3. claims' \subseteq (1 .. PerTenant) \X (1 .. Len(order'))
    BY <1>1
  <2>4. global_held' \in 0 .. Global /\ global_held' = Cardinality(running') /\ budget' \in 0 .. Global
    BY <1>3, <1>8, <1>9
  <2>5. QED
    BY <1>1, <1>5, <1>6, <2>1, <2>2, <2>3, <2>4 DEF TickTypeOK
<1>11. ClaimsPhase' /\ LastClaims' /\ TenantFits' /\ Interleaved'
  BY <1>1, <1>7 DEF ClaimsPhase, LastClaims, TenantFits, Interleaved, no_dispatch
<1>12. GlobalFits'
  <2>1. Cardinality(claims') = 0
    BY <1>1, FS_EmptySet
  <2>2. QED
    BY <1>8, <1>9, <2>1 DEF GlobalFits
<1>13. QED
  BY <1>5, <1>10, <1>11, <1>12 DEF TickInv

\* What a step that leaves claims, order and report alone keeps: it may change the
\* counters, as long as no tenant has more workers.
LEMMA ClaimsKept ==
  ASSUME TickInv, UNCHANGED <<order, claims, dispatched>>,
         \A t \in All : workers(t)' \in Int /\ workers(t)' <= workers(t)
  PROVE  /\ ServedOnce' /\ LastClaims' /\ TenantFits' /\ Interleaved'
         /\ next_tenant' = next_tenant
<1>. USE TickAssumption
<1>1. /\ claims \subseteq (1 .. PerTenant) \X (1 .. Len(order))
      /\ order \in Seq(All)
      /\ dispatched \in [All -> 0 .. PerTenant]
  BY DEF TickInv, TickTypeOK
<1>2. ServedOnce' /\ LastClaims' /\ Interleaved'
  BY DEF TickInv, ServedOnce, LastClaims, Interleaved
<1>3. TenantFits'
  <2>1. SUFFICES ASSUME NEW c \in claims
                 PROVE  workers(order[c[2]])' + c[1] - dispatched[order[c[2]]] <= PerTenant
    BY DEF TenantFits
  <2>2. order[c[2]] \in All /\ c[1] \in Nat /\ c[2] \in 1 .. Len(order)
    BY <1>1
  <2>3. dispatched[order[c[2]]] \in Nat
    BY <1>1, <2>2
  <2>4. workers(order[c[2]]) \in Int
    BY <2>2, WorkersType
  <2>5. workers(order[c[2]]) + c[1] - dispatched[order[c[2]]] <= PerTenant
    BY DEF TickInv, TenantFits
  <2>. DEFINE wn == workers(order[c[2]])'
              w == workers(order[c[2]])
  <2>6. wn \in Int /\ wn <= w
    BY <2>2
  <2>7. wn + c[1] - dispatched[order[c[2]]] <= PerTenant
    <3>. HIDE DEF wn, w
    <3>1. w \in Int /\ w + c[1] - dispatched[order[c[2]]] <= PerTenant
      BY <2>4, <2>5 DEF w
    <3>2. QED BY <2>2, <2>3, <2>6, <3>1
  <2>8. QED BY <2>7
<1>4. next_tenant' = next_tenant
  BY DEF next_tenant, interleave
<1>5. QED
  BY <1>2, <1>3, <1>4

\* A tenant whose phases fail, and the start of the dispatch, touch no permit.
LEMMA FailsKeeps == ASSUME TickInv, tick_tenant_fails \/ dispatch PROVE TickInv'
<1>. USE TickAssumption
<1>1. UNCHANGED <<order, claims, dispatched, tenant_held, global_held, ready, cursor>>
  BY DEF tick_tenant_fails, dispatch
<1>2. phase = "serve" /\ phase' \in {"serve", "dispatch"}
  BY DEF tick_tenant_fails, dispatch
<1>3. \A t \in All : workers(t)' = workers(t) /\ workers(t)' \in Int
  BY <1>1, <1>2, WorkersType DEF workers
<1>4. running' = running
  BY <1>3, RunningKept
<1>5. ServedOnce' /\ LastClaims' /\ TenantFits' /\ Interleaved'
  <2>1. \A t \in All : workers(t)' \in Int /\ workers(t)' <= workers(t)
    BY <1>3
  <2>2. QED BY <1>1, <2>1, ClaimsKept
<1>6. served \in 0 .. Len(order) /\ order \in Seq(All) /\ budget \in 0 .. Global
  BY DEF TickInv, TickTypeOK
<1>7. served' \in 0 .. Len(order) /\ served <= served' /\ budget' \in 0 .. Global /\ budget' <= budget
  BY <1>6 DEF tick_tenant_fails, dispatch
<1>8. TickTypeOK'
  <2>1. TickTypeOK
    BY DEF TickInv
  <2>2. Cardinality(running') = Cardinality(running)
    BY <1>4
  <2>3. global_held' = Cardinality(running')
    BY <1>1, <2>1, <2>2 DEF TickTypeOK
  <2>4. QED
    BY <1>1, <1>2, <1>7, <2>1, <2>3 DEF TickTypeOK
<1>9. ClaimsPhase'
  <2>1. claims \subseteq (1 .. PerTenant) \X (1 .. Len(order))
    BY DEF TickInv, TickTypeOK
  <2>2. \A c \in claims : c[2] <= served'
    <3>1. TAKE c \in claims
    <3>2. c[2] \in Nat /\ c[2] <= served
      BY <1>6, <2>1 DEF TickInv, ClaimsPhase
    <3>3. QED BY <1>6, <1>7, <3>2
  <2>3. dispatched = no_dispatch /\ dispatched' = dispatched
    BY <1>1, <1>2 DEF TickInv, ClaimsPhase
  <2>. QED
    BY <1>1, <1>2, <2>2, <2>3 DEF ClaimsPhase, no_dispatch
<1>10. GlobalFits'
  <2>1. Cardinality(claims) + budget + global_held <= Global
    BY DEF TickInv, GlobalFits
  <2>2. Cardinality(claims) \in Nat
    BY Finite, FS_CardinalityType DEF TickInv
  <2>3. global_held \in Nat
    BY DEF TickInv, TickTypeOK
  <2>4. claims' = claims /\ global_held' = global_held
    BY <1>1
  <2>5. QED
    BY <1>6, <1>7, <2>1, <2>2, <2>3, <2>4 DEF GlobalFits
<1>11. QED
  BY <1>5, <1>8, <1>9, <1>10 DEF TickInv

\* The conjuncts a step keeps that touches neither the claims nor the places of the
\* tick, when it keeps workers and global permits in step.
LEMMA CountersKept ==
  ASSUME TickInv,
         UNCHANGED <<order, claims, dispatched, served, budget, cursor, phase>>,
         \A t \in All : workers(t)' \in Int /\ workers(t)' <= workers(t),
         ready' \in [All -> 0 .. MaxReady], tenant_held' \in [All -> 0 .. PerTenant],
         global_held' \in 0 .. global_held, global_held' = Cardinality(running'),
         phase = "global" => tenant_held'[next_tenant] > 0
  PROVE  TickInv'
<1>. USE TickAssumption
<1>1. ServedOnce' /\ LastClaims' /\ TenantFits' /\ Interleaved' /\ next_tenant' = next_tenant
  BY ClaimsKept
<1>2. global_held \in 0 .. Global
  BY DEF TickInv, TickTypeOK
<1>3. TickTypeOK'
  <2>1. TickTypeOK
    BY DEF TickInv
  <2>2. global_held' \in 0 .. Global
    BY <1>2
  <2>3. QED
    BY <2>1, <2>2 DEF TickTypeOK
<1>4. ClaimsPhase'
  BY <1>1 DEF TickInv, ClaimsPhase, no_dispatch
<1>5. GlobalFits'
  <2>1. Cardinality(claims) + budget + global_held <= Global
    BY DEF TickInv, GlobalFits
  <2>2. Cardinality(claims) \in Nat
    BY Finite, FS_CardinalityType DEF TickInv
  <2>3. budget \in Nat
    BY DEF TickInv, TickTypeOK
  <2>4. global_held' \in Nat /\ global_held' <= global_held
    BY <1>2
  <2>5. Cardinality(claims) + budget + global_held' <= Global
    BY <1>2, <2>1, <2>2, <2>3, <2>4
  <2>6. QED
    BY <2>5 DEF GlobalFits
<1>6. QED
  BY <1>1, <1>3, <1>4, <1>5 DEF TickInv

\* A leaf that becomes claimable touches no permit.
LEMMA ReadyKeeps == ASSUME TickInv, NEW t \in All, leaf_ready(t) PROVE TickInv'
<1>. USE TickAssumption
<1>1. /\ UNCHANGED <<order, claims, dispatched, served, budget, cursor, phase>>
      /\ UNCHANGED <<tenant_held, global_held>>
  BY DEF leaf_ready
<1>2. next_tenant' = next_tenant
  BY <1>1 DEF next_tenant, interleave
<1>3. \A u \in All : workers(u)' = workers(u) /\ workers(u)' \in Int /\ workers(u)' <= workers(u)
  BY <1>1, <1>2, WorkersType DEF workers
<1>4. running' = running
  BY <1>3, RunningKept
<1>5. ready' \in [All -> 0 .. MaxReady]
  <2>1. ready \in [All -> 0 .. MaxReady]
    BY DEF TickInv, TickTypeOK
  <2>2. ready[t] + 1 \in 0 .. MaxReady
    BY <2>1 DEF leaf_ready
  <2>3. QED
    BY <2>1, <2>2 DEF leaf_ready
<1>6. /\ tenant_held' \in [All -> 0 .. PerTenant]
      /\ global_held' \in 0 .. global_held /\ global_held' = Cardinality(running')
  <2>1. tenant_held \in [All -> 0 .. PerTenant] /\ global_held = Cardinality(running)
    BY DEF TickInv, TickTypeOK
  <2>2. global_held \in Nat
    BY DEF TickInv, TickTypeOK
  <2>3. QED BY <1>1, <1>4, <2>1, <2>2
<1>7. phase = "global" => tenant_held'[next_tenant] > 0
  BY <1>1 DEF TickInv, ClaimsPhase
<1>8. QED
  BY <1>1, <1>3, <1>5, <1>6, <1>7, CountersKept

\* A worker that ends gives back a permit of its tenant and a global one.
LEMMA EndsKeeps == ASSUME TickInv, NEW t \in All, worker_ends(t) PROVE TickInv'
<1>. USE TickAssumption
<1>1. /\ UNCHANGED <<order, claims, dispatched, served, budget, cursor, phase>>
      /\ UNCHANGED ready
      /\ workers(t) > 0 /\ global_held' = global_held - 1
      /\ tenant_held' = [tenant_held EXCEPT ![t] = @ - 1]
  BY DEF worker_ends
<1>2. next_tenant' = next_tenant
  BY <1>1 DEF next_tenant, interleave
<1>3. tenant_held \in [All -> 0 .. PerTenant] /\ ready \in [All -> 0 .. MaxReady]
  BY DEF TickInv, TickTypeOK
<1>4. tenant_held'[t] = tenant_held[t] - 1 /\ \A u \in All \ {t} : tenant_held'[u] = tenant_held[u]
  BY <1>1, <1>3
<1>5. workers(t)' = workers(t) - 1
  BY <1>1, <1>2, <1>3, <1>4 DEF workers
<1>6. \A u \in All \ {t} : workers(u)' = workers(u)
  BY <1>1, <1>2, <1>4 DEF workers
<1>7. \A u \in All : workers(u)' \in Int /\ workers(u)' <= workers(u)
  <2>1. TAKE u \in All
  <2>2. workers(u) \in Int
    BY WorkersType
  <2>3. CASE u = t
    BY <1>5, <2>2, <2>3
  <2>4. CASE u # t
    BY <1>6, <2>2, <2>4
  <2>5. QED BY <2>3, <2>4
<1>8. Cardinality(running)' = Cardinality(running) - 1
  BY <1>1, <1>5, <1>6, RunningLess
<1>9. global_held' \in 0 .. global_held /\ global_held' = Cardinality(running')
  <2>1. Cardinality(running') \in Nat
    <3>1. running' \subseteq running
      BY <1>7, WorkersType DEF running
    <3>2. IsFiniteSet(running')
      BY <3>1, Finite, FS_Subset DEF TickInv
    <3>3. QED BY <3>2, FS_CardinalityType
  <2>2. global_held = Cardinality(running) /\ global_held \in Nat
    BY DEF TickInv, TickTypeOK
  <2>3. QED BY <1>1, <1>8, <2>1, <2>2
<1>10. workers(t) <= tenant_held[t] /\ workers(t) \in Nat
  BY WorkersType
<1>11. tenant_held' \in [All -> 0 .. PerTenant]
  BY <1>1, <1>3, <1>10
<1>12. phase = "global" => tenant_held'[next_tenant] > 0
  <2>1. CASE phase = "global" /\ next_tenant = t
    BY <1>1, <1>3, <1>4, <2>1 DEF workers
  <2>2. CASE phase = "global" /\ next_tenant # t
    <3>1. next_tenant \in All /\ tenant_held[next_tenant] > 0
      BY <2>2, NextClaim DEF TickInv, ClaimsPhase
    <3>2. QED BY <1>4, <2>2, <3>1
  <2>3. QED BY <2>1, <2>2
<1>13. QED
  BY <1>1, <1>3, <1>7, <1>9, <1>11, <1>12, CountersKept

\* The permit of the tenant is not a worker yet.
LEMMA AcquireTenantKeeps == ASSUME TickInv, acquire_tenant PROVE TickInv'
<1>. USE TickAssumption
<1>1. /\ UNCHANGED <<order, claims, dispatched, served, budget, cursor, ready, global_held>>
      /\ claims # {} /\ phase = "dispatch" /\ phase' = "global"
      /\ tenant_held[next_tenant] < PerTenant
      /\ tenant_held' = [tenant_held EXCEPT ![next_tenant] = @ + 1]
  BY DEF acquire_tenant
<1>2. next_tenant' = next_tenant /\ next_tenant \in All
  BY <1>1, NextClaim DEF next_tenant, interleave
<1>3. tenant_held \in [All -> 0 .. PerTenant]
  BY DEF TickInv, TickTypeOK
<1>4. tenant_held' \in [All -> 0 .. PerTenant]
  BY <1>1, <1>2, <1>3
<1>5. /\ tenant_held'[next_tenant] = tenant_held[next_tenant] + 1
      /\ \A u \in All : u # next_tenant => tenant_held'[u] = tenant_held[u]
  BY <1>1, <1>2, <1>3
<1>6. \A u \in All : workers(u)' = workers(u)
  BY <1>1, <1>2, <1>3, <1>5 DEF workers
<1>7. \A u \in All : workers(u)' \in Int /\ workers(u)' <= workers(u)
  BY <1>6, WorkersType
<1>8. ServedOnce' /\ LastClaims' /\ TenantFits' /\ Interleaved'
  BY <1>1, <1>7, ClaimsKept
<1>9. running' = running
  BY <1>6, RunningKept
<1>10. TickTypeOK'
  <2>1. TickTypeOK
    BY DEF TickInv
  <2>2. global_held' = Cardinality(running')
    BY <1>1, <1>9, <2>1 DEF TickTypeOK
  <2>3. QED
    BY <1>1, <1>4, <2>1, <2>2 DEF TickTypeOK
<1>11. ClaimsPhase'
  <2>1. tenant_held'[next_tenant'] > 0
    BY <1>2, <1>3, <1>5
  <2>2. \A c \in claims : c[2] <= served
    BY DEF TickInv, ClaimsPhase
  <2>3. QED
    BY <1>1, <2>1, <2>2 DEF ClaimsPhase
<1>12. GlobalFits'
  BY <1>1 DEF TickInv, GlobalFits
<1>13. QED
  BY <1>8, <1>10, <1>11, <1>12 DEF TickInv

\* The claim that has both permits leaves, and its tenant has one worker more.
LEMMA AcquireGlobalKeeps == ASSUME TickInv, acquire_global PROVE TickInv'
<1>. USE TickAssumption
<1>0. claims # {}
  BY DEF acquire_global, TickInv, ClaimsPhase
<1>. PICK n \in All : n = next_tenant
  BY <1>0, NextClaim
<1>. PICK c \in claims : c = interleave(claims)
  BY <1>0, NextClaim
<1>1. /\ UNCHANGED <<order, served, budget, cursor, ready, tenant_held>>
      /\ phase = "global" /\ phase' = "dispatch"
      /\ global_held < Global /\ global_held' = global_held + 1
      /\ claims' = claims \ {c}
      /\ dispatched' = [dispatched EXCEPT ![n] = @ + 1]
  BY DEF acquire_global
<1>3. /\ c \in claims /\ c[1] \in 1 .. PerTenant /\ c[2] \in 1 .. Len(order) /\ n \in All
      /\ c[1] = dispatched[n] + 1 /\ n = order[c[2]]
      /\ \A d \in claims : c[1] <= d[1]
  BY <1>0, NextClaim DEF next_tenant
<1>4. \A u \in All : workers(u) = tenant_held[u] - (IF n = u THEN 1 ELSE 0)
  BY <1>1 DEF workers
<1>5. \A u \in All : workers(u)' = tenant_held[u]
  <2>1. TAKE u \in All
  <2>2. tenant_held[u] \in Int
    BY WorkersType
  <2>3. QED BY <1>1, <2>2 DEF workers
<1>6. /\ claims \subseteq (1 .. PerTenant) \X (1 .. Len(order)) /\ order \in Seq(All)
      /\ dispatched \in [All -> 0 .. PerTenant]
  BY DEF TickInv, TickTypeOK
<1>7. /\ dispatched'[n] = dispatched[n] + 1
      /\ \A u \in All : u # n => dispatched'[u] = dispatched[u]
  BY <1>1, <1>3, <1>6
<1>8. \A d \in claims : order[d[2]] = n => d[2] = c[2]
  <2>1. TAKE d \in claims
  <2>2. d[2] \in 1 .. Len(order)
    BY <1>6
  <2>3. QED BY <1>3, <2>2 DEF TickInv, ServedOnce
<1>9. \A d \in claims : /\ order[d[2]] \in All /\ d[1] \in Nat /\ d[2] \in 1 .. Len(order)
                        /\ d = <<d[1], d[2]>>
                        /\ dispatched[order[d[2]]] \in Nat
  BY <1>6
<1>10. Cardinality(running)' = Cardinality(running) + 1
  <2>1. workers(n)' = workers(n) + 1 /\ workers(n) < PerTenant
    <3>1. tenant_held[n] \in 0 .. PerTenant
      BY <1>3, WorkersType
    <3>2. QED BY <1>3, <1>4, <1>5, <3>1
  <2>2. \A u \in All \ {n} : workers(u)' = workers(u)
    <3>1. TAKE u \in All \ {n}
    <3>2. tenant_held[u] \in Int
      BY WorkersType
    <3>3. QED BY <1>4, <1>5, <3>2
  <2>3. QED BY <1>3, <2>1, <2>2, RunningMore
<1>11. TickTypeOK'
  <2>1. TickTypeOK
    BY DEF TickInv
  <2>2. global_held' \in 0 .. Global /\ global_held' = Cardinality(running')
    <3>1. global_held \in Nat /\ global_held = Cardinality(running)
      BY <2>1 DEF TickTypeOK
    <3>2. QED BY <1>1, <1>10, <3>1
  <2>3. dispatched' \in [All -> 0 .. PerTenant]
    BY <1>1, <1>3, <1>6
  <2>4. claims' \subseteq (1 .. PerTenant) \X (1 .. Len(order))
    BY <1>1, <1>6
  <2>5. QED
    BY <1>1, <2>1, <2>2, <2>3, <2>4 DEF TickTypeOK
<1>12. ServedOnce'
  BY <1>1 DEF TickInv, ServedOnce
<1>13. ClaimsPhase'
  <2>1. \A d \in claims : d[2] <= served
    BY DEF TickInv, ClaimsPhase
  <2>2. QED BY <1>1, <2>1 DEF ClaimsPhase
<1>14. LastClaims'
  <2>1. SUFFICES ASSUME NEW d \in claims'
                 PROVE  /\ dispatched'[order[d[2]]] < d[1]
                        /\ \A k \in 1 .. d[1] :
                             dispatched'[order[d[2]]] < k => <<k, d[2]>> \in claims'
    BY <1>1 DEF LastClaims
  <2>2. d \in claims /\ d # c
    BY <1>1
  <2>3. /\ dispatched[order[d[2]]] < d[1]
        /\ \A k \in 1 .. d[1] : dispatched[order[d[2]]] < k => <<k, d[2]>> \in claims
    BY <2>2 DEF TickInv, LastClaims
  <2>4. CASE order[d[2]] = n
    <3>1. d[2] = c[2] /\ d[1] # c[1]
      BY <1>3, <1>8, <1>9, <2>2, <2>4
    <3>2. dispatched'[n] < d[1]
      BY <1>3, <1>7, <1>9, <2>2, <2>3, <2>4, <3>1
    <3>3. ASSUME NEW k \in 1 .. d[1], dispatched'[n] < k PROVE <<k, d[2]>> \in claims'
      <4>1. <<k, d[2]>> \in claims
        BY <1>7, <1>9, <2>2, <2>3, <2>4, <3>3
      <4>2. <<k, d[2]>> # c
        BY <1>3, <1>7, <1>9, <2>2, <2>4, <3>3
      <4>3. QED BY <1>1, <4>1, <4>2
    <3>4. QED BY <2>4, <3>2, <3>3
  <2>5. CASE order[d[2]] # n
    <3>1. dispatched'[order[d[2]]] = dispatched[order[d[2]]] /\ d[2] # c[2]
      BY <1>3, <1>7, <1>9, <2>2, <2>5
    <3>2. \A k \in 1 .. d[1] : <<k, d[2]>> # c
      BY <3>1
    <3>3. QED BY <1>1, <2>3, <3>1, <3>2
  <2>6. QED BY <2>4, <2>5
<1>15. TenantFits'
  <2>1. SUFFICES ASSUME NEW d \in claims'
                 PROVE  workers(order[d[2]])' + d[1] - dispatched'[order[d[2]]] <= PerTenant
    BY <1>1 DEF TenantFits
  <2>2. d \in claims
    BY <1>1
  <2>. PICK u \in All : u = order[d[2]]
    BY <1>9, <2>2
  <2>. DEFINE w == workers(u)
  <2>3. w + d[1] - dispatched[u] <= PerTenant
    BY <2>2 DEF TickInv, TenantFits
  <2>4. u \in All /\ d[1] \in Nat /\ dispatched[u] \in Nat
    BY <1>9, <2>2
  <2>5. tenant_held[u] \in Nat /\ w = tenant_held[u] - (IF n = u THEN 1 ELSE 0)
    BY <1>4, <2>4, WorkersType
  <2>6. dispatched'[u] = dispatched[u] + (IF n = u THEN 1 ELSE 0)
    BY <1>7, <2>4
  <2>7. workers(u)' = tenant_held[u]
    BY <1>5, <2>4
  <2>. HIDE DEF w
  <2>8. tenant_held[u] + d[1] - dispatched'[u] <= PerTenant
    BY <2>3, <2>4, <2>5, <2>6
  <2>9. workers(order[d[2]])' = workers(u)'
    BY <1>1 DEF workers
  <2>10. QED BY <2>7, <2>8, <2>9
<1>16. GlobalFits'
  <2>1. Cardinality(claims) + budget + global_held <= Global
    BY DEF TickInv, GlobalFits
  <2>2. IsFiniteSet(claims)
    BY Finite DEF TickInv
  <2>3. Cardinality(claims) \in Nat
    BY <2>2, FS_CardinalityType
  <2>4. Cardinality(claims \ {c}) = Cardinality(claims) - 1
    BY <1>3, <2>2, FS_RemoveElement
  <2>5. budget \in Nat /\ global_held \in Nat
    BY DEF TickInv, TickTypeOK
  <2>6. Cardinality(claims') = Cardinality(claims) - 1
    BY <1>1, <2>4
  <2>7. QED
    BY <1>1, <2>1, <2>3, <2>5, <2>6 DEF GlobalFits
<1>17. Interleaved'
  <2>1. SUFFICES ASSUME NEW t \in All, NEW d \in claims', order[d[2]] = t, NEW u \in All
                 PROVE  dispatched'[u] <= dispatched'[t] + 1
    BY <1>1 DEF Interleaved
  <2>2. d \in claims
    BY <1>1
  <2>3. dispatched[u] <= dispatched[t] + 1
    BY <2>1, <2>2 DEF TickInv, Interleaved
  <2>4. /\ dispatched[u] \in Nat /\ dispatched[t] \in Nat
        /\ dispatched'[t] \in Nat /\ dispatched[t] <= dispatched'[t]
    <3>1. dispatched[u] \in Nat /\ dispatched[t] \in Nat
      BY <1>6
    <3>2. dispatched'[t] = dispatched[t] \/ dispatched'[t] = dispatched[t] + 1
      BY <1>7
    <3>3. QED BY <3>1, <3>2
  <2>5. CASE u # n
    <3>1. dispatched'[u] = dispatched[u]
      BY <1>7, <2>5
    <3>2. QED BY <2>3, <2>4, <3>1
  <2>6. CASE u = n
    <3>. DEFINE k == dispatched[t] + 1
    <3>1. dispatched[t] < d[1] /\ d[1] \in Nat
      BY <1>9, <2>1, <2>2 DEF TickInv, LastClaims
    <3>2. <<k, d[2]>> \in claims
      BY <2>1, <2>2, <2>4, <3>1 DEF TickInv, LastClaims
    <3>3. c[1] <= k
      BY <1>3, <3>2
    <3>4. QED
      BY <1>3, <1>6, <1>7, <2>4, <2>6, <3>3
  <2>7. QED BY <2>5, <2>6
<1>18. QED
  BY <1>11, <1>12, <1>13, <1>14, <1>15, <1>16, <1>17 DEF TickInv

\* When all claims are dispatched the tick ends.
LEMMA TickEndsKeeps == ASSUME TickInv, tick_ends PROVE TickInv'
<1>. USE TickAssumption
<1>1. /\ UNCHANGED <<ready, tenant_held, global_held, cursor, budget, claims>>
      /\ phase = "dispatch" /\ phase' = "idle" /\ claims = {}
      /\ order' = <<>> /\ served' = 0 /\ dispatched' = no_dispatch
  BY DEF tick_ends
<1>2. \A u \in All : workers(u)' = workers(u)
  BY <1>1 DEF workers
<1>3. running' = running
  BY <1>2, RunningKept
<1>4. dispatched' \in [All -> 0 .. PerTenant]
  BY <1>1 DEF no_dispatch
<1>5. TickTypeOK'
  <2>1. TickTypeOK
    BY DEF TickInv
  <2>2. global_held' = Cardinality(running')
    BY <1>1, <1>3, <2>1 DEF TickTypeOK
  <2>3. /\ order' \in Seq(All) /\ served' \in 0 .. Len(order')
        /\ claims' \subseteq (1 .. PerTenant) \X (1 .. Len(order'))
    BY <1>1
  <2>4. QED
    BY <1>1, <1>4, <2>1, <2>2, <2>3 DEF TickTypeOK
<1>6. ServedOnce' /\ ClaimsPhase' /\ LastClaims' /\ TenantFits' /\ Interleaved'
  BY <1>1 DEF ServedOnce, ClaimsPhase, LastClaims, TenantFits, Interleaved, no_dispatch
<1>7. GlobalFits'
  BY <1>1 DEF TickInv, GlobalFits
<1>8. QED
  BY <1>5, <1>6, <1>7 DEF TickInv

\* A tenant claims within its free permits and the budget, in rounds of its own.
LEMMA TenantKeeps == ASSUME TickInv, NEW n \in 0 .. MaxReady, tick_tenant(n) PROVE TickInv'
<1>. USE TickAssumption
<1>. PICK i \in Nat : i = served + 1
  BY DEF TickInv, TickTypeOK
<1>0. served \in 0 .. Len(order) /\ served < Len(order) /\ order \in Seq(All)
  BY DEF TickInv, TickTypeOK, tick_tenant
<1>. PICK t \in All : t = order[i]
  BY <1>0
<1>. DEFINE add == (1 .. n) \X {i}
<1>1. /\ phase = "serve" /\ phase' = "serve"
      /\ UNCHANGED <<tenant_held, global_held, cursor, order, dispatched>>
      /\ ready' = [ready EXCEPT ![t] = @ - n] /\ n <= ready[t]
      /\ budget' = budget - n
      /\ claims' = claims \cup add /\ served' = i
  BY DEF tick_tenant, spend
<1>2. n <= PerTenant - tenant_held[t] /\ n <= budget
  <2>1. tenant_held[t] \in 0 .. PerTenant /\ budget \in 0 .. Global
    BY WorkersType DEF TickInv, TickTypeOK
  <2>2. n <= claim_limit(PerTenant - tenant_held[t], budget)
    BY DEF tick_tenant
  <2>3. QED BY <2>1, <2>2 DEF claim_limit
<1>3. /\ claims \subseteq (1 .. PerTenant) \X (1 .. Len(order))
      /\ ready \in [All -> 0 .. MaxReady] /\ tenant_held \in [All -> 0 .. PerTenant]
      /\ budget \in 0 .. Global /\ global_held \in 0 .. Global
      /\ dispatched = no_dispatch
  BY <1>1 DEF TickInv, TickTypeOK, ClaimsPhase
<1>4. add \subseteq (1 .. PerTenant) \X (1 .. Len(order))
  <2>1. n <= PerTenant
    BY <1>2, <1>3
  <2>2. i \in 1 .. Len(order)
    BY <1>0
  <2>3. QED BY <2>1, <2>2
<1>5. \A c \in claims : c[2] \in Nat /\ c[2] < i /\ c[1] \in Nat
  <2>1. TAKE c \in claims
  <2>2. c[2] <= served /\ c[1] \in Nat /\ c[2] \in Nat
    BY <1>3 DEF TickInv, ClaimsPhase
  <2>3. QED BY <1>0, <2>2
<1>6. \A u \in All : workers(u)' = workers(u) /\ workers(u) = tenant_held[u]
  <2>1. TAKE u \in All
  <2>2. tenant_held[u] \in Int
    BY WorkersType
  <2>3. QED BY <1>1, <2>2 DEF workers
<1>7. running' = running
  BY <1>6, RunningKept
<1>8. TickTypeOK'
  <2>1. TickTypeOK
    BY DEF TickInv
  <2>2. global_held' = Cardinality(running')
    BY <1>1, <1>7, <2>1 DEF TickTypeOK
  <2>3. ready' \in [All -> 0 .. MaxReady]
    <3>1. ready[t] - n \in 0 .. MaxReady
      BY <1>1, <1>3
    <3>2. QED BY <1>1, <1>3, <3>1
  <2>4. budget' \in 0 .. Global
    BY <1>1, <1>2, <1>3
  <2>5. served' \in 0 .. Len(order)
    BY <1>0, <1>1
  <2>6. claims' \subseteq (1 .. PerTenant) \X (1 .. Len(order))
    BY <1>1, <1>3, <1>4
  <2>7. QED
    <3>. HIDE DEF add
    <3>. QED BY <1>1, <2>1, <2>2, <2>3, <2>4, <2>5, <2>6 DEF TickTypeOK
<1>9. ServedOnce'
  BY <1>1 DEF TickInv, ServedOnce
<1>10. ClaimsPhase'
  <2>1. \A c \in claims' : c[2] <= i
    <3>1. TAKE c \in claims'
    <3>2. CASE c \in claims
      BY <1>5, <3>2
    <3>3. CASE c \in add
      BY <3>3
    <3>4. QED BY <1>1, <3>2, <3>3
  <2>2. dispatched' = no_dispatch'
    BY <1>1, <1>3 DEF no_dispatch
  <2>3. QED BY <1>1, <2>1, <2>2 DEF ClaimsPhase
<1>11. \A u \in All : dispatched[u] = 0
  BY <1>3 DEF no_dispatch
<1>12. \A c \in claims : order[c[2]] \in All
  BY <1>0, <1>3
<1>13. LastClaims'
  <2>1. SUFFICES ASSUME NEW c \in claims'
                 PROVE  /\ dispatched[order[c[2]]] < c[1]
                        /\ \A k \in 1 .. c[1] :
                             dispatched[order[c[2]]] < k => <<k, c[2]>> \in claims'
    BY <1>1 DEF LastClaims
  <2>2. CASE c \in claims
    BY <1>1, <2>2 DEF TickInv, LastClaims
  <2>3. CASE c \in add
    <3>1. c[1] \in 1 .. n /\ c[2] = i
      BY <2>3
    <3>2. dispatched[order[c[2]]] = 0
      BY <1>11, <3>1
    <3>3. \A k \in 1 .. c[1] : <<k, c[2]>> \in add
      BY <3>1
    <3>4. QED BY <1>1, <3>1, <3>2, <3>3
  <2>4. QED BY <1>1, <2>2, <2>3
<1>14. TenantFits'
  <2>1. SUFFICES ASSUME NEW c \in claims'
                 PROVE  workers(order[c[2]])' + c[1] - dispatched[order[c[2]]] <= PerTenant
    BY <1>1 DEF TenantFits
  <2>2. CASE c \in claims
    <3>1. PICK u \in All : u = order[c[2]]
      BY <1>12, <2>2
    <3>2. workers(order[c[2]])' = workers(u)'
      BY <1>1, <3>1 DEF workers
    <3>3. workers(u) + c[1] - dispatched[u] <= PerTenant
      BY <2>2, <3>1 DEF TickInv, TenantFits
    <3>4. QED BY <1>6, <3>1, <3>2, <3>3
  <2>3. CASE c \in add
    <3>1. c[1] \in 1 .. n /\ c[2] = i
      BY <2>3
    <3>2. workers(order[c[2]])' = workers(t)'
      BY <1>1, <3>1 DEF workers
    <3>3. workers(t)' = tenant_held[t] /\ tenant_held[t] \in Nat
      BY <1>6, WorkersType
    <3>4. dispatched[order[c[2]]] = 0
      BY <1>11, <3>1
    <3>5. tenant_held[t] + c[1] - 0 <= PerTenant
      BY <1>2, <3>1, <3>3
    <3>6. QED BY <3>2, <3>3, <3>4, <3>5
  <2>4. QED BY <1>1, <2>2, <2>3
<1>15. GlobalFits'
  <2>1. IsFiniteSet(claims) /\ Cardinality(claims) \in Nat
    BY Finite, FS_CardinalityType DEF TickInv
  <2>2. IsFiniteSet(1 .. n) /\ Cardinality(1 .. n) = n
    BY FS_Interval
  <2>3. IsFiniteSet({i}) /\ Cardinality({i}) = 1
    BY FS_Singleton
  <2>4. IsFiniteSet(add) /\ Cardinality(add) = n * 1
    BY <2>2, <2>3, FS_Product
  <2>5. claims \cap add = {}
    BY <1>5
  <2>. HIDE DEF add
  <2>6. Cardinality(claims \cup add) = Cardinality(claims) + Cardinality(add) - Cardinality(claims \cap add)
    BY <2>1, <2>4, FS_Union
  <2>7. Cardinality(claims \cap add) = 0
    BY <2>5, FS_EmptySet
  <2>8. Cardinality(claims') = Cardinality(claims) + n
    BY <1>1, <2>1, <2>4, <2>6, <2>7
  <2>9. Cardinality(claims) + budget + global_held <= Global
    BY DEF TickInv, GlobalFits
  <2>10. QED
    BY <1>1, <1>3, <2>1, <2>8, <2>9 DEF GlobalFits
<1>16. Interleaved'
  <2>1. \A u \in All : dispatched'[u] = 0
    BY <1>1, <1>11
  <2>2. QED BY <1>1, <2>1 DEF Interleaved
<1>17. QED
  BY <1>8, <1>9, <1>10, <1>13, <1>14, <1>15, <1>16 DEF TickInv

\* The invariant is inductive.
LEMMA TickInvariant == TickSpec => []TickInv
<1>1. TickInit => TickInv
  BY TickInitInv
<1>2. ASSUME TickInv, [TickNext]_tick_vars PROVE TickInv'
  <2>1. CASE tick
    BY <1>2, <2>1, TickKeeps
  <2>2. CASE dispatch \/ tick_tenant_fails
    BY <1>2, <2>2, FailsKeeps
  <2>3. CASE acquire_tenant
    BY <1>2, <2>3, AcquireTenantKeeps
  <2>4. CASE acquire_global
    BY <1>2, <2>4, AcquireGlobalKeeps
  <2>5. CASE tick_ends
    BY <1>2, <2>5, TickEndsKeeps
  <2>6. CASE \E n \in 0 .. MaxReady : tick_tenant(n)
    BY <1>2, <2>6, TenantKeeps
  <2>7. CASE \E t \in All : worker_ends(t)
    BY <1>2, <2>7, EndsKeeps
  <2>8. CASE \E t \in All : leaf_ready(t)
    BY <1>2, <2>8, ReadyKeeps
  <2>9. CASE UNCHANGED tick_vars
    <3>. USE <1>2
    <3>1. /\ UNCHANGED <<order, claims, dispatched, served, budget, cursor, phase>>
          /\ UNCHANGED <<ready, tenant_held, global_held>>
      BY <2>9 DEF tick_vars
    <3>2. next_tenant' = next_tenant
      BY <3>1 DEF next_tenant, interleave
    <3>3. \A u \in All : /\ workers(u)' = workers(u)
                        /\ workers(u)' \in Int /\ workers(u)' <= workers(u)
      BY <3>1, <3>2, WorkersType DEF workers
    <3>4. running' = running
      BY <3>3, RunningKept
    <3>5. /\ ready \in [All -> 0 .. MaxReady] /\ tenant_held \in [All -> 0 .. PerTenant]
          /\ global_held = Cardinality(running)
      BY DEF TickInv, TickTypeOK
    <3>6. global_held \in Nat
      BY TickAssumption DEF TickInv, TickTypeOK
    <3>7. phase = "global" => tenant_held[next_tenant] > 0
      BY DEF TickInv, ClaimsPhase
    <3>8. QED
      BY <3>1, <3>3, <3>4, <3>5, <3>6, <3>7, CountersKept
  <2>10. QED
    BY <1>2, <2>1, <2>2, <2>3, <2>4, <2>5, <2>6, <2>7, <2>8, <2>9 DEF TickNext, TickStep
<1>3. QED
  BY <1>1, <1>2, PTL DEF TickSpec

\* For every list of tenants and every size of the two semaphores, the permits that are
\* out are those of the workers, and neither semaphore gives out more than it has.
THEOREM TickTypeCorrect == TickSpec => []TickTypeOK
<1>1. TickInv => TickTypeOK
  BY DEF TickInv
<1>2. QED
  BY <1>1, TickInvariant, PTL

\* "neither waits, since the claims were sized to the free permits" (tick_inner): however
\* many tenants there are, and whatever workers end meanwhile.
THEOREM DispatchNeverWaitsHolds == TickSpec => []DispatchNeverWaits
<1>1. ASSUME TickInv PROVE DispatchNeverWaits
  <2>. USE TickAssumption
  <2>1. ASSUME phase = "dispatch", claims # {} PROVE tenant_held[next_tenant] < PerTenant
    <3>. PICK t \in All : t = next_tenant
      BY <1>1, <2>1, NextClaim
    <3>. PICK c \in claims : c = interleave(claims)
      BY <1>1, <2>1, NextClaim
    <3>1. c[1] = dispatched[t] + 1 /\ order[c[2]] = t
      BY <1>1, <2>1, NextClaim DEF next_tenant
    <3>2. workers(t) + c[1] - dispatched[t] <= PerTenant
      BY <1>1, <3>1 DEF TickInv, TenantFits
    <3>3. tenant_held[t] \in Nat /\ workers(t) = tenant_held[t]
      BY <1>1, <2>1, WorkersType DEF workers
    <3>4. dispatched[t] \in Nat
      BY <1>1 DEF TickInv, TickTypeOK
    <3>5. QED
      BY <3>1, <3>2, <3>3, <3>4
  <2>2. ASSUME phase = "global" PROVE global_held < Global
    <3>1. claims # {} /\ IsFiniteSet(claims)
      BY <1>1, <2>2, Finite DEF TickInv, ClaimsPhase
    <3>2. Cardinality(claims) \in Nat /\ Cardinality(claims) # 0
      BY <3>1, FS_CardinalityType, FS_EmptySet
    <3>3. budget \in Nat /\ global_held \in Nat
      BY <1>1 DEF TickInv, TickTypeOK
    <3>4. Cardinality(claims) + budget + global_held <= Global
      BY <1>1 DEF TickInv, GlobalFits
    <3>5. QED
      BY <3>2, <3>3, <3>4
  <2>3. QED
    BY <2>1, <2>2 DEF DispatchNeverWaits
<1>2. QED
  BY <1>1, TickInvariant, PTL

\* For every list of tenants, the claims of a tick are dispatched in rounds: nobody is
\* more than one worker ahead of a tenant that still waits.
THEOREM InterleavedHolds == TickSpec => []Interleaved
<1>1. TickInv => Interleaved
  BY DEF TickInv
<1>2. QED
  BY <1>1, TickInvariant, PTL

-----------------------------------------------------------------------------
(* The poller. *)

\* The list holds each leaf in review once, and no other.
ListOK ==
  /\ \A i \in 1 .. Len(in_review) : leaf[in_review[i]] = "in_review"
  /\ \A i, j \in 1 .. Len(in_review) : in_review[i] = in_review[j] => i = j

\* A row in review names a pull request that was opened for it.
RowOK ==
  \A l \in Leaves : leaf[l] = "in_review" =>
    pr[l] \in PRs /\ forge[pr[l]] # "none" /\ made_for[pr[l]] = l

\* So does every entry of a batch, however old it is.
BatchOK ==
  \A p \in Pollers : \A i \in 1 .. Len(batch[p]) :
    /\ forge[batch[p][i].number] # "none"
    /\ made_for[batch[p][i].number] = batch[p][i].leaf

\* A poller in the middle of a batch has a leaf in hand.
InHandOK == \A p \in Pollers : pc[p] # "idle" => batch[p] # <<>>

\* A poller asks the forge with a policy in hand.
PolicyOK == \A p \in Pollers : pc[p] \notin {"idle", "policy"} => cached[p] # {}

\* A poller about to resolve a leaf as done has seen its pull request merged, and its
\* approval unless the policy of its batch asks for none.
AnswerOK ==
  \A p \in Pollers :
    /\ pc[p] \in {"events", "merged"} => forge[polled(p).number] = "merged"
    /\ pc[p] = "merged" => FALSE \in cached[p] \/ polled(p).leaf \in approved

PollerInv ==
  /\ PollerTypeOK /\ ListOK /\ RowOK /\ BatchOK /\ InHandOK /\ PolicyOK /\ AnswerOK
  /\ DoneMeansMerged

USE DEF row_vars, event_vars, forge_vars, poller_vars

-----------------------------------------------------------------------------
(* Helpers. *)

\* The initial states satisfy the invariant.
LEMMA PollerInit == Init => PollerInv
<1>. SUFFICES ASSUME Init PROVE PollerInv
  OBVIOUS
<1>. USE PollerAssumption DEF Init
<1>1. PollerTypeOK
  <2>1. (CHOOSE l \in Leaves : TRUE) \in Leaves
    OBVIOUS
  <2>2. made_for \in [PRs -> Leaves]
    BY <2>1
  <2>3. strict \in BOOLEAN
    OBVIOUS
  <2>4. /\ leaf \in [Leaves -> LeafState] /\ pr \in [Leaves -> PRs \cup {NoPR}]
        /\ in_review \in Seq(Leaves) /\ approved \subseteq Leaves
        /\ marks \in [Leaves -> {0, 1}] /\ forge \in [PRs -> PrState]
        /\ pc \in [Pollers -> Step] /\ batch \in [Pollers -> Seq([leaf : Leaves, number : PRs])]
        /\ cached \in [Pollers -> SUBSET BOOLEAN] /\ faults \in 0 .. MaxFaults
    BY DEF LeafState, PrState, Step
  <2>5. QED
    BY <2>2, <2>3, <2>4 DEF PollerTypeOK
<1>2. ListOK /\ RowOK /\ BatchOK /\ InHandOK
  BY DEF ListOK, RowOK, BatchOK, InHandOK
<1>3. PolicyOK /\ AnswerOK
  BY DEF PolicyOK, AnswerOK
<1>4. DoneMeansMerged
  BY DEF DoneMeansMerged
<1>5. QED
  BY <1>1, <1>2, <1>3, <1>4 DEF PollerInv

\* What without leaves of a list without duplicates: no l, and no duplicates either.
LEMMA Without ==
  ASSUME NEW S, NEW s \in Seq(S), NEW l \in S,
         \A i, j \in 1 .. Len(s) : s[i] = s[j] => i = j
  PROVE  /\ without(s, l) \in Seq(S)
         /\ \A i \in 1 .. Len(without(s, l)) :
              /\ without(s, l)[i] # l
              /\ \E k \in 1 .. Len(s) : without(s, l)[i] = s[k]
         /\ \A i, j \in 1 .. Len(without(s, l)) : without(s, l)[i] = without(s, l)[j] => i = j
<1>1. CASE ~\E i \in 1 .. Len(s) : s[i] = l
  BY <1>1 DEF without
<1>2. CASE \E i \in 1 .. Len(s) : s[i] = l
  <2>. DEFINE at == CHOOSE i \in 1 .. Len(s) : s[i] = l
              w == [i \in 1 .. Len(s) - 1 |-> IF i < at THEN s[i] ELSE s[i + 1]]
  <2>1. at \in 1 .. Len(s) /\ s[at] = l
    BY <1>2
  <2>2. without(s, l) = w
    BY <1>2 DEF without
  <2>. HIDE DEF at
  <2>3. Len(s) \in Nat /\ Len(s) - 1 \in Nat
    BY <2>1
  <2>4. \A i \in 1 .. Len(s) - 1 : w[i] \in S
    BY <2>1, <2>3
  <2>5. w \in Seq(S) /\ Len(w) = Len(s) - 1
    BY <2>3, <2>4
  <2>6. \A i \in 1 .. Len(s) - 1 : w[i] # l /\ \E k \in 1 .. Len(s) : w[i] = s[k]
    BY <2>1, <2>3
  <2>7. \A i, j \in 1 .. Len(s) - 1 : w[i] = w[j] => i = j
    BY <2>1, <2>3
  <2>. HIDE DEF w
  <2>8. QED
    BY <2>2, <2>5, <2>6, <2>7
<1>3. QED
  BY <1>1, <1>2

\* A state write keeps the list the list of the leaves in review.
LEMMA SetLeaf ==
  ASSUME PollerTypeOK, ListOK, NEW l \in Leaves, NEW s \in LeafState,
         s = "in_review" => leaf[l] # "in_review", set_leaf(l, s)
  PROVE  /\ leaf' \in [Leaves -> LeafState] /\ in_review' \in Seq(Leaves) /\ ListOK'
         /\ \A k \in Leaves : leaf'[k] = IF k = l THEN s ELSE leaf[k]
<1>1. /\ leaf' \in [Leaves -> LeafState]
      /\ \A k \in Leaves : leaf'[k] = IF k = l THEN s ELSE leaf[k]
  BY DEF set_leaf, PollerTypeOK
<1>2. in_review \in Seq(Leaves)
  BY DEF PollerTypeOK
<1>3. CASE s = "in_review"
  <2>1. in_review' = Append(in_review, l)
    BY <1>3 DEF set_leaf
  <2>2. in_review' \in Seq(Leaves) /\ Len(in_review') = Len(in_review) + 1
    BY <1>2, <2>1
  <2>3. /\ \A i \in 1 .. Len(in_review) : in_review'[i] = in_review[i] /\ in_review[i] \in Leaves
        /\ in_review'[Len(in_review) + 1] = l /\ Len(in_review) \in Nat
    BY <1>2, <2>1
  <2>4. \A i \in 1 .. Len(in_review) : in_review[i] # l
    BY <1>3 DEF ListOK
  <2>5. ListOK'
    <3>1. \A i \in 1 .. Len(in_review') : leaf'[in_review'[i]] = "in_review"
      BY <1>1, <1>3, <2>2, <2>3 DEF ListOK
    <3>2. \A i, j \in 1 .. Len(in_review') : in_review'[i] = in_review'[j] => i = j
      BY <2>2, <2>3, <2>4 DEF ListOK
    <3>3. QED
      BY <3>1, <3>2 DEF ListOK
  <2>6. QED
    BY <1>1, <2>2, <2>5
<1>4. CASE s # "in_review"
  <2>1. in_review' = without(in_review, l)
    BY <1>4 DEF set_leaf
  <2>2. \A i, j \in 1 .. Len(in_review) : in_review[i] = in_review[j] => i = j
    BY DEF ListOK
  <2>3. /\ in_review' \in Seq(Leaves)
        /\ \A i \in 1 .. Len(in_review') :
             /\ in_review'[i] # l
             /\ \E k \in 1 .. Len(in_review) : in_review'[i] = in_review[k]
        /\ \A i, j \in 1 .. Len(in_review') : in_review'[i] = in_review'[j] => i = j
    BY <1>2, <2>1, <2>2, Without
  <2>4. \A i \in 1 .. Len(in_review') : in_review'[i] \in Leaves
    BY <2>3
  <2>5. \A i \in 1 .. Len(in_review') : leaf'[in_review'[i]] = "in_review"
    BY <1>1, <2>3, <2>4 DEF ListOK
  <2>6. QED
    BY <1>1, <2>3, <2>5 DEF ListOK
<1>5. QED
  BY <1>3, <1>4

\* A fault is counted.
LEMMA Fault == ASSUME PollerTypeOK, a_fault PROVE faults' \in 0 .. MaxFaults
BY PollerAssumption DEF PollerTypeOK, a_fault

\* The poller goes on to the next leaf of its batch, or ends it.
LEMMA NextLeaf ==
  ASSUME PollerTypeOK, BatchOK, InHandOK, NEW p \in Pollers, pc[p] # "idle",
         next_leaf(p), forge' = forge, made_for' = made_for
  PROVE  /\ batch' \in [Pollers -> Seq([leaf : Leaves, number : PRs])]
         /\ pc' \in [Pollers -> Step] /\ BatchOK' /\ InHandOK'
         /\ pc'[p] \in {"idle", "policy"} /\ cached' \in [Pollers -> SUBSET BOOLEAN]
         /\ \A q \in Pollers : q # p => /\ pc'[q] = pc[q] /\ batch'[q] = batch[q]
                                       /\ cached'[q] = cached[q]
<1>. DEFINE E == [leaf : Leaves, number : PRs]
<1>1. batch[p] \in Seq(E) /\ batch[p] # <<>>
  BY DEF PollerTypeOK, InHandOK
<1>2. /\ Tail(batch[p]) \in Seq(E) /\ Len(Tail(batch[p])) = Len(batch[p]) - 1
      /\ \A i \in 1 .. Len(Tail(batch[p])) :
           i + 1 \in 1 .. Len(batch[p]) /\ Tail(batch[p])[i] = batch[p][i + 1]
      /\ Len(batch[p]) \in Nat \ {0}
  BY <1>1
<1>3. /\ batch' \in [Pollers -> Seq(E)] /\ batch'[p] = Tail(batch[p])
      /\ \A q \in Pollers : q # p => batch'[q] = batch[q]
  BY <1>2 DEF next_leaf, PollerTypeOK
<1>4. /\ pc' \in [Pollers -> Step]
      /\ pc'[p] = IF Len(batch[p]) = 1 THEN "idle" ELSE "policy"
      /\ \A q \in Pollers : q # p => pc'[q] = pc[q]
  BY DEF next_leaf, PollerTypeOK, Step
<1>9. /\ cached' \in [Pollers -> SUBSET BOOLEAN]
      /\ \A q \in Pollers : q # p => cached'[q] = cached[q]
  <2>1. cached \in [Pollers -> SUBSET BOOLEAN] /\ cached[p] \in SUBSET BOOLEAN
    BY DEF PollerTypeOK
  <2>2. PICK c \in SUBSET BOOLEAN : cached' = [cached EXCEPT ![p] = c]
    BY <2>1 DEF next_leaf
  <2>3. QED
    BY <2>1, <2>2
<1>. HIDE DEF E
<1>5. BatchOK'
  <2>1. ASSUME NEW i \in 1 .. Len(batch'[p])
        PROVE  /\ forge[batch'[p][i].number] # "none"
               /\ made_for[batch'[p][i].number] = batch'[p][i].leaf
    <3>1. i + 1 \in 1 .. Len(batch[p]) /\ batch'[p][i] = batch[p][i + 1]
      BY <1>2, <1>3
    <3>2. QED
      BY <3>1 DEF BatchOK
  <2>2. ASSUME NEW q \in Pollers, q # p, NEW i \in 1 .. Len(batch'[q])
        PROVE  /\ forge[batch'[q][i].number] # "none"
               /\ made_for[batch'[q][i].number] = batch'[q][i].leaf
    BY <1>3, <2>2 DEF BatchOK
  <2>3. QED
    BY <2>1, <2>2 DEF BatchOK
<1>6. pc'[p] # "idle" => batch'[p] # <<>>
  <2>1. pc'[p] # "idle" => Len(batch'[p]) # 0
    BY <1>2, <1>3, <1>4
  <2>2. QED
    BY <2>1
<1>7. InHandOK'
  BY <1>3, <1>4, <1>6 DEF InHandOK
<1>8. QED
  BY <1>3, <1>4, <1>5, <1>7, <1>9 DEF E

\* The poller goes on with the same leaf.
LEMMA Goto ==
  ASSUME PollerTypeOK, BatchOK, InHandOK, NEW p \in Pollers, pc[p] # "idle",
         NEW s \in Step, goto(p, s), forge' = forge, made_for' = made_for
  PROVE  /\ batch' = batch /\ cached' = cached
         /\ pc' \in [Pollers -> Step] /\ BatchOK' /\ InHandOK' /\ pc'[p] = s
         /\ \A q \in Pollers : q # p => pc'[q] = pc[q]
<1>1. /\ batch' = batch /\ cached' = cached /\ pc' \in [Pollers -> Step] /\ pc'[p] = s
      /\ \A q \in Pollers : q # p => pc'[q] = pc[q]
  BY DEF goto, PollerTypeOK
<1>2. BatchOK' /\ InHandOK'
  BY <1>1 DEF BatchOK, InHandOK
<1>3. QED
  BY <1>1, <1>2

\* The leaf in hand is the first of the batch.
LEMMA Polled ==
  ASSUME PollerTypeOK, BatchOK, InHandOK, NEW p \in Pollers, pc[p] # "idle"
  PROVE  /\ polled(p).leaf \in Leaves /\ polled(p).number \in PRs
         /\ forge[polled(p).number] # "none" /\ made_for[polled(p).number] = polled(p).leaf
<1>. DEFINE E == [leaf : Leaves, number : PRs]
<1>1. batch[p] \in Seq(E) /\ batch[p] # <<>>
  BY DEF PollerTypeOK, InHandOK
<1>. HIDE DEF E
<1>2. 1 \in 1 .. Len(batch[p]) /\ Head(batch[p]) = batch[p][1] /\ batch[p][1] \in E
  BY <1>1
<1>3. QED
  BY <1>2 DEF polled, BatchOK, E

\* A poller that goes on to another leaf, and one that learns nothing, owe nothing.
LEMMA Onward ==
  ASSUME PolicyOK, AnswerOK, NEW p \in Pollers, pc'[p] \in {"idle", "policy"},
         \A q \in Pollers : q # p => /\ pc'[q] = pc[q] /\ batch'[q] = batch[q]
                                    /\ cached'[q] = cached[q],
         forge' = forge, approved' = approved
  PROVE  PolicyOK' /\ AnswerOK'
<1>1. PolicyOK'
  BY DEF PolicyOK
<1>2. \A q \in Pollers : q # p => polled(q)' = polled(q)
  BY DEF polled
<1>3. AnswerOK'
  BY <1>2 DEF AnswerOK
<1>4. QED
  BY <1>1, <1>3

-----------------------------------------------------------------------------
(* The rows. *)

\* The pollers do not notice: their variables stay, merged stays merged, and what was
\* opened or approved stays so.
LEMMA PollersKeep ==
  ASSUME PollerInv, pc' = pc, batch' = batch, cached' = cached,
         approved \subseteq approved',
         \A n \in PRs : /\ forge[n] # "none" => forge'[n] # "none" /\ made_for'[n] = made_for[n]
                        /\ forge[n] = "merged" => forge'[n] = "merged"
  PROVE  BatchOK' /\ InHandOK' /\ PolicyOK' /\ AnswerOK'
<1>. USE DEF PollerInv
<1>1. BatchOK'
  <2>1. ASSUME NEW p \in Pollers, NEW i \in 1 .. Len(batch[p]) PROVE batch[p][i].number \in PRs
    <3>. DEFINE E == [leaf : Leaves, number : PRs]
    <3>1. batch[p] \in Seq(E)
      BY DEF PollerTypeOK
    <3>. HIDE DEF E
    <3>2. batch[p][i] \in E
      BY <3>1
    <3>3. QED
      BY <3>2 DEF E
  <2>2. QED
    BY <2>1 DEF BatchOK
<1>2. InHandOK' /\ PolicyOK'
  BY DEF InHandOK, PolicyOK
<1>3. ASSUME NEW p \in Pollers
      PROVE  /\ pc'[p] \in {"events", "merged"} => forge'[polled(p)'.number] = "merged"
             /\ pc'[p] = "merged" => FALSE \in cached'[p] \/ polled(p)'.leaf \in approved'
  <2>1. polled(p)' = polled(p)
    BY DEF polled
  <2>2. pc[p] # "idle" => polled(p).number \in PRs
    BY Polled
  <2>3. QED
    BY <2>1, <2>2 DEF AnswerOK
<1>4. AnswerOK'
  BY <1>3 DEF AnswerOK
<1>5. QED
  BY <1>1, <1>2, <1>4

\* A worker opens a pull request; the row names it or, the lease lost, does not.
LEMMA CompleteStep ==
  ASSUME PollerInv, NEW l \in Leaves, NEW n \in PRs, complete(l, n)
  PROVE  PollerInv'
<1>. USE DEF PollerInv
<1>1. /\ leaf[l] = "working" /\ forge[n] = "none" /\ approved' = approved /\ marks' = marks
      /\ pc' = pc /\ batch' = batch /\ cached' = cached /\ strict' = strict
      /\ faults' = faults
  BY DEF complete
<1>2. /\ forge' \in [PRs -> PrState] /\ made_for' \in [PRs -> Leaves]
      /\ \A m \in PRs : /\ forge'[m] = IF m = n THEN "open" ELSE forge[m]
                        /\ made_for'[m] = IF m = n THEN l ELSE made_for[m]
  BY DEF complete, PollerTypeOK, PrState
<1>3. BatchOK' /\ InHandOK' /\ PolicyOK' /\ AnswerOK'
  BY <1>1, <1>2, PollersKeep
<1>4. CASE set_leaf(l, "in_review") /\ pr' = [pr EXCEPT ![l] = n]
  <2>1. /\ leaf' \in [Leaves -> LeafState] /\ in_review' \in Seq(Leaves) /\ ListOK'
        /\ \A k \in Leaves : leaf'[k] = IF k = l THEN "in_review" ELSE leaf[k]
    BY <1>1, <1>4, SetLeaf DEF LeafState
  <2>2. /\ pr' \in [Leaves -> PRs \cup {NoPR}]
        /\ \A k \in Leaves : pr'[k] = IF k = l THEN n ELSE pr[k]
    BY <1>4 DEF PollerTypeOK
  <2>3. RowOK'
    BY <1>1, <1>2, <2>1, <2>2 DEF RowOK
  <2>4. DoneMeansMerged'
    BY <1>1, <1>2, <2>1 DEF DoneMeansMerged
  <2>5. PollerTypeOK'
    BY <1>1, <1>2, <2>1, <2>2 DEF PollerTypeOK
  <2>6. QED
    BY <1>3, <2>1, <2>3, <2>4, <2>5
<1>5. CASE UNCHANGED row_vars
  <2>1. ListOK'
    BY <1>5 DEF ListOK
  <2>2. RowOK'
    BY <1>1, <1>2, <1>5 DEF RowOK
  <2>3. DoneMeansMerged'
    BY <1>1, <1>2, <1>5 DEF DoneMeansMerged
  <2>4. PollerTypeOK'
    BY <1>1, <1>2, <1>5 DEF PollerTypeOK
  <2>5. QED
    BY <1>3, <2>1, <2>2, <2>3, <2>4
<1>6. QED
  BY <1>4, <1>5 DEF complete

\* A worker or a user writes a state that is neither in review nor done.
LEMMA RowStep ==
  ASSUME PollerInv, NEW l \in Leaves, fail(l) \/ retry(l) \/ cancel(l)
  PROVE  PollerInv'
<1>. USE DEF PollerInv
<1>1. PICK s \in {"failed", "working", "cancelled"} : set_leaf(l, s)
  BY DEF fail, retry, cancel
<1>2. /\ pr' = pr /\ approved' = approved /\ marks' = marks /\ forge' = forge
      /\ made_for' = made_for /\ pc' = pc /\ batch' = batch /\ cached' = cached
      /\ strict' = strict /\ faults' = faults
  BY DEF fail, retry, cancel
<1>3. /\ leaf' \in [Leaves -> LeafState] /\ in_review' \in Seq(Leaves) /\ ListOK'
      /\ \A k \in Leaves : leaf'[k] = IF k = l THEN s ELSE leaf[k]
  BY <1>1, SetLeaf DEF LeafState
<1>4. BatchOK' /\ InHandOK' /\ PolicyOK' /\ AnswerOK'
  BY <1>2, PollersKeep
<1>5. RowOK' /\ DoneMeansMerged'
  BY <1>2, <1>3 DEF RowOK, DoneMeansMerged
<1>6. PollerTypeOK'
  BY <1>2, <1>3 DEF PollerTypeOK
<1>7. QED
  BY <1>3, <1>4, <1>5, <1>6

\* An approval, a policy and the forge's own steps.
LEMMA OutsideStep ==
  ASSUME PollerInv,
         \/ \E l \in Leaves : approve(l)
         \/ \E b \in Approvals : update_policy(b)
         \/ \E n \in PRs : forge_step(n)
  PROVE  PollerInv'
<1>. USE PollerAssumption DEF PollerInv
<1>1. /\ leaf' = leaf /\ pr' = pr /\ in_review' = in_review /\ marks' = marks /\ made_for' = made_for
      /\ pc' = pc /\ batch' = batch /\ cached' = cached /\ faults' = faults
  BY DEF approve, update_policy, forge_step
<1>2. approved' \subseteq Leaves /\ approved \subseteq approved'
  BY DEF approve, update_policy, forge_step, PollerTypeOK
<1>3. /\ forge' \in [PRs -> PrState]
      /\ \A n \in PRs : /\ forge[n] # "none" => forge'[n] # "none"
                        /\ forge[n] = "merged" => forge'[n] = "merged"
  BY DEF approve, update_policy, forge_step, PollerTypeOK, PrState
<1>4. strict' \in BOOLEAN
  BY DEF approve, update_policy, forge_step, PollerTypeOK
<1>5. BatchOK' /\ InHandOK' /\ PolicyOK' /\ AnswerOK'
  BY <1>1, <1>2, <1>3, <1>4, PollersKeep
<1>6. ListOK' /\ RowOK'
  BY <1>1, <1>3 DEF ListOK, RowOK, PollerTypeOK
<1>7. DoneMeansMerged'
  BY <1>1, <1>2, <1>3, <1>4 DEF DoneMeansMerged
<1>8. PollerTypeOK'
  BY <1>1, <1>2, <1>3, <1>4 DEF PollerTypeOK
<1>9. QED
  BY <1>5, <1>6, <1>7, <1>8

-----------------------------------------------------------------------------
(* The pollers. *)

\* A poller's step that writes no row: the rows' part of the invariant stays.
LEMMA RowsKeep ==
  ASSUME PollerInv, leaf' = leaf, pr' = pr, in_review' = in_review, approved' = approved,
         forge' = forge, made_for' = made_for
  PROVE  ListOK' /\ RowOK' /\ DoneMeansMerged'
BY DEF PollerInv, ListOK, RowOK, DoneMeansMerged

\* A batch is read off the rows, which name their pull requests.
LEMMA PollStep ==
  ASSUME PollerInv, NEW p \in Pollers, poll(p)
  PROVE  PollerInv'
<1>. USE PollerAssumption DEF PollerInv
<1>. DEFINE E == [leaf : Leaves, number : PRs]
            n == IF Len(in_review) < Batch THEN Len(in_review) ELSE Batch
            read == [i \in 1 .. n |-> [leaf |-> in_review[i], number |-> pr[in_review[i]]]]
<1>1. /\ leaf' = leaf /\ pr' = pr /\ in_review' = in_review /\ approved' = approved /\ marks' = marks
      /\ forge' = forge /\ made_for' = made_for /\ strict' = strict /\ faults' = faults
      /\ batch' = [batch EXCEPT ![p] = read] /\ pc' = [pc EXCEPT ![p] = "policy"]
      /\ cached' = cached /\ in_review # <<>>
  BY DEF poll, listed
<1>2. n \in Nat \ {0} /\ n <= Len(in_review) /\ in_review \in Seq(Leaves)
  BY <1>1 DEF PollerTypeOK
<1>. HIDE DEF n
<1>3. ASSUME NEW i \in 1 .. n
      PROVE  /\ read[i] \in E
             /\ forge[read[i].number] # "none" /\ made_for[read[i].number] = read[i].leaf
  <2>1. i \in 1 .. Len(in_review) /\ in_review[i] \in Leaves
    BY <1>2
  <2>2. pr[in_review[i]] \in PRs /\ forge[pr[in_review[i]]] # "none"
        /\ made_for[pr[in_review[i]]] = in_review[i]
    BY <2>1 DEF ListOK, RowOK
  <2>3. QED
    BY <2>1, <2>2
<1>4. read \in Seq(E) /\ Len(read) = n
  <2>1. \A i \in 1 .. n : read[i] \in E
    BY <1>3
  <2>. HIDE DEF E
  <2>2. QED
    BY <1>2, <2>1
<1>. HIDE DEF read
<1>5. /\ batch' \in [Pollers -> Seq(E)] /\ batch'[p] = read
      /\ \A q \in Pollers : q # p => batch'[q] = batch[q]
  BY <1>1, <1>4 DEF PollerTypeOK
<1>6. /\ pc' \in [Pollers -> Step] /\ pc'[p] = "policy"
      /\ \A q \in Pollers : q # p => pc'[q] = pc[q]
  BY <1>1 DEF PollerTypeOK, Step
<1>7. cached' \in [Pollers -> SUBSET BOOLEAN]
  BY <1>1 DEF PollerTypeOK
<1>8. BatchOK'
  <2>1. \A q \in Pollers : q # p => \A i \in 1 .. Len(batch'[q]) :
          /\ forge[batch'[q][i].number] # "none"
          /\ made_for[batch'[q][i].number] = batch'[q][i].leaf
    BY <1>5 DEF BatchOK
  <2>2. \A i \in 1 .. Len(batch'[p]) :
          /\ forge[batch'[p][i].number] # "none"
          /\ made_for[batch'[p][i].number] = batch'[p][i].leaf
    BY <1>3, <1>4, <1>5
  <2>3. QED
    BY <1>1, <2>1, <2>2 DEF BatchOK
<1>9. InHandOK'
  <2>1. batch'[p] # <<>>
    BY <1>2, <1>4, <1>5
  <2>2. QED
    BY <1>5, <1>6, <2>1 DEF InHandOK
<1>10. PolicyOK'
  BY <1>1, <1>6 DEF PolicyOK
<1>11. AnswerOK'
  <2>1. \A q \in Pollers : q # p => polled(q)' = polled(q)
    BY <1>5 DEF polled
  <2>2. QED
    BY <1>1, <1>6, <2>1 DEF AnswerOK
<1>12. PollerTypeOK'
  BY <1>1, <1>5, <1>6, <1>7 DEF PollerTypeOK
<1>13. QED
  BY <1>1, <1>8, <1>9, <1>10, <1>11, <1>12, RowsKeep

\* The step of a poller that writes nothing but, at most, a mark.
SilentStep ==
  /\ leaf' = leaf /\ pr' = pr /\ in_review' = in_review /\ approved' = approved
  /\ forge' = forge /\ made_for' = made_for /\ strict' = strict
  /\ marks' \in [Leaves -> {0, 1}] /\ faults' \in 0 .. MaxFaults

\* On to the next leaf, with nothing but a mark written.
LEMMA SilentNext ==
  ASSUME PollerInv, NEW p \in Pollers, pc[p] # "idle", next_leaf(p), SilentStep
  PROVE  PollerInv'
<1>. USE DEF PollerInv, SilentStep
<1>1. /\ batch' \in [Pollers -> Seq([leaf : Leaves, number : PRs])]
      /\ pc' \in [Pollers -> Step] /\ BatchOK' /\ InHandOK'
      /\ pc'[p] \in {"idle", "policy"} /\ cached' \in [Pollers -> SUBSET BOOLEAN]
      /\ \A q \in Pollers : q # p => /\ pc'[q] = pc[q] /\ batch'[q] = batch[q]
                                    /\ cached'[q] = cached[q]
  BY NextLeaf
<1>2. PolicyOK' /\ AnswerOK'
  BY <1>1, Onward
<1>3. PollerTypeOK'
  BY <1>1 DEF PollerTypeOK
<1>4. QED
  BY <1>1, <1>2, <1>3, RowsKeep

\* On with the same leaf: what the new place owes is known.
LEMMA SilentGoto ==
  ASSUME PollerInv, NEW p \in Pollers, pc[p] # "idle", cached[p] # {},
         NEW s \in Step \ {"idle", "policy"}, goto(p, s), SilentStep,
         s \in {"events", "merged"} => forge[polled(p).number] = "merged",
         s = "merged" => FALSE \in cached[p] \/ polled(p).leaf \in approved
  PROVE  PollerInv'
<1>. USE DEF PollerInv, SilentStep
<1>1. /\ batch' = batch /\ cached' = cached
      /\ pc' \in [Pollers -> Step] /\ BatchOK' /\ InHandOK' /\ pc'[p] = s
      /\ \A q \in Pollers : q # p => pc'[q] = pc[q]
  BY Goto
<1>2. PolicyOK'
  BY <1>1 DEF PolicyOK
<1>3. \A q \in Pollers : polled(q)' = polled(q)
  BY <1>1 DEF polled
<1>4. AnswerOK'
  BY <1>1, <1>3 DEF AnswerOK
<1>5. PollerTypeOK'
  BY <1>1 DEF PollerTypeOK
<1>6. QED
  BY <1>1, <1>2, <1>4, <1>5, RowsKeep

\* The policy is read, or was read for a leaf before.
LEMMA ReadPolicyStep ==
  ASSUME PollerInv, NEW p \in Pollers, read_policy(p)
  PROVE  PollerInv'
<1>. USE DEF PollerInv
<1>1. /\ pc[p] = "policy" /\ batch' = batch /\ leaf' = leaf /\ pr' = pr /\ in_review' = in_review
      /\ approved' = approved /\ marks' = marks /\ forge' = forge /\ made_for' = made_for
      /\ strict' = strict /\ faults' = faults
  BY DEF read_policy
<1>2. /\ pc' \in [Pollers -> Step] /\ pc'[p] = "ask"
      /\ \A q \in Pollers : q # p => pc'[q] = pc[q]
  BY DEF read_policy, PollerTypeOK, Step
<1>8. BatchOK' /\ InHandOK'
  BY <1>1, <1>2 DEF BatchOK, InHandOK
<1>3. /\ cached' \in [Pollers -> SUBSET BOOLEAN]
      /\ cached'[p] = IF cached[p] = {} THEN {strict} ELSE cached[p]
      /\ \A q \in Pollers : q # p => cached'[q] = cached[q]
  <2>1. cached \in [Pollers -> SUBSET BOOLEAN] /\ strict \in BOOLEAN
    BY DEF PollerTypeOK
  <2>2. cached' = [cached EXCEPT ![p] = IF cached[p] = {} THEN {strict} ELSE cached[p]]
    BY <2>1 DEF read_policy
  <2>3. QED
    BY <2>1, <2>2
<1>4. PolicyOK'
  <2>1. cached'[p] # {}
    BY <1>3
  <2>2. QED
    BY <1>2, <1>3, <2>1 DEF PolicyOK
<1>5. AnswerOK'
  <2>1. \A q \in Pollers : polled(q)' = polled(q)
    BY <1>1 DEF polled
  <2>2. QED
    BY <1>1, <1>2, <1>3, <2>1 DEF AnswerOK
<1>6. PollerTypeOK'
  BY <1>1, <1>2, <1>3 DEF PollerTypeOK
<1>7. QED
  BY <1>1, <1>4, <1>5, <1>6, <1>8, RowsKeep

\* The answer is about the pull request of the leaf in hand, which exists.
LEMMA GetPrStep ==
  ASSUME PollerInv, NEW p \in Pollers, get_pr(p)
  PROVE  PollerInv'
<1>. USE DEF PollerInv
<1>1. pc[p] = "ask" /\ SilentStep /\ after_answer(p, polled(p).number)
  BY DEF get_pr, SilentStep, PollerTypeOK
<1>2. forge[polled(p).number] \in {"open", "closed", "merged"}
  BY <1>1, Polled DEF PollerTypeOK, PrState
<1>3. cached[p] # {} /\ cached[p] \subseteq BOOLEAN
  BY <1>1 DEF PolicyOK, PollerTypeOK
<1>4. CASE forge[polled(p).number] = "open"
  <2>1. next_leaf(p)
    BY <1>1, <1>4 DEF after_answer
  <2>2. QED
    BY <1>1, <2>1, SilentNext
<1>5. CASE forge[polled(p).number] = "closed"
  <2>1. goto(p, "closed")
    BY <1>1, <1>5 DEF after_answer
  <2>2. QED
    BY <1>1, <1>3, <2>1, SilentGoto DEF Step
<1>6. CASE forge[polled(p).number] = "merged" /\ TRUE \in cached[p]
  <2>1. goto(p, "events")
    BY <1>1, <1>6 DEF after_answer
  <2>2. QED
    BY <1>1, <1>3, <1>6, <2>1, SilentGoto DEF Step
<1>7. CASE forge[polled(p).number] = "merged" /\ TRUE \notin cached[p]
  <2>1. goto(p, "merged")
    BY <1>1, <1>7 DEF after_answer
  <2>2. FALSE \in cached[p]
    BY <1>3, <1>7
  <2>3. QED
    BY <1>1, <1>3, <1>7, <2>1, <2>2, SilentGoto DEF Step
<1>8. QED
  BY <1>2, <1>4, <1>5, <1>6, <1>7

\* The approval is read after the answer.
LEMMA ReadEventsStep ==
  ASSUME PollerInv, NEW p \in Pollers, read_events(p)
  PROVE  PollerInv'
<1>. USE DEF PollerInv
<1>1. pc[p] = "events" /\ SilentStep
  BY DEF read_events, SilentStep, PollerTypeOK
<1>2. cached[p] # {} /\ forge[polled(p).number] = "merged"
  BY <1>1 DEF PolicyOK, AnswerOK
<1>3. CASE polled(p).leaf \in approved
  <2>1. goto(p, "merged")
    BY <1>3 DEF read_events, has_pr_approval
  <2>2. QED
    BY <1>1, <1>2, <1>3, <2>1, SilentGoto DEF Step
<1>4. CASE polled(p).leaf \notin approved
  <2>1. goto(p, "awaiting")
    BY <1>4 DEF read_events, has_pr_approval
  <2>2. QED
    BY <1>1, <1>2, <2>1, SilentGoto DEF Step
<1>5. QED
  BY <1>3, <1>4

\* A merged leaf is done, a closed one failed; its pull request is the one that was
\* opened for it.
LEMMA ResolveStep ==
  ASSUME PollerInv, NEW p \in Pollers, resolve_review(p)
  PROVE  PollerInv'
<1>. USE DEF PollerInv
<1>. DEFINE l == polled(p).leaf
            s == IF pc[p] = "merged" THEN "done" ELSE "failed"
<1>1. /\ pc[p] \in {"merged", "closed"} /\ set_leaf(l, s) /\ next_leaf(p)
      /\ pr' = pr /\ approved' = approved /\ marks' = marks /\ forge' = forge
      /\ made_for' = made_for /\ strict' = strict /\ faults' = faults
  BY DEF resolve_review
<1>2. l \in Leaves /\ polled(p).number \in PRs /\ made_for[polled(p).number] = l
  BY <1>1, Polled
<1>3. pc[p] = "merged" => forge[polled(p).number] = "merged"
  BY DEF AnswerOK
<1>4. s \in LeafState /\ s # "in_review" /\ (s = "done" => pc[p] = "merged")
  BY DEF LeafState
<1>. HIDE DEF l, s
<1>5. /\ leaf' \in [Leaves -> LeafState] /\ in_review' \in Seq(Leaves) /\ ListOK'
      /\ \A k \in Leaves : leaf'[k] = IF k = l THEN s ELSE leaf[k]
  BY <1>1, <1>2, <1>4, SetLeaf
<1>6. /\ batch' \in [Pollers -> Seq([leaf : Leaves, number : PRs])]
      /\ pc' \in [Pollers -> Step] /\ BatchOK' /\ InHandOK'
      /\ pc'[p] \in {"idle", "policy"} /\ cached' \in [Pollers -> SUBSET BOOLEAN]
      /\ \A q \in Pollers : q # p => /\ pc'[q] = pc[q] /\ batch'[q] = batch[q]
                                    /\ cached'[q] = cached[q]
  BY <1>1, NextLeaf
<1>7. PolicyOK' /\ AnswerOK'
  BY <1>1, <1>6, Onward
<1>8. RowOK'
  BY <1>1, <1>4, <1>5 DEF RowOK
<1>9. DoneMeansMerged'
  BY <1>1, <1>2, <1>3, <1>4, <1>5 DEF DoneMeansMerged
<1>10. PollerTypeOK'
  BY <1>1, <1>5, <1>6 DEF PollerTypeOK
<1>11. QED
  BY <1>5, <1>6, <1>7, <1>8, <1>9, <1>10

\* A mark, a refusal, an error: the batch goes on.
LEMMA SkipStep ==
  ASSUME PollerInv, NEW p \in Pollers,
         review_note(p) \/ refused(p) \/ policy_unread(p) \/ call_fails(p)
  PROVE  PollerInv'
<1>1. PollerTypeOK /\ pc[p] # "idle" /\ next_leaf(p)
  BY DEF PollerInv, review_note, refused, policy_unread, call_fails
<1>2. marks' \in [Leaves -> {0, 1}]
  BY DEF PollerInv, PollerTypeOK, review_note, refused, policy_unread, call_fails
<1>3. faults' \in 0 .. MaxFaults
  BY <1>1, Fault DEF PollerTypeOK, review_note, refused, policy_unread, call_fails
<1>4. SilentStep
  BY <1>2, <1>3 DEF SilentStep, review_note, refused, policy_unread, call_fails
<1>5. QED
  BY <1>1, <1>4, SilentNext

\* The forge errs, or answers with another pull request.
LEMMA AskFailsStep ==
  ASSUME PollerInv, NEW p \in Pollers, get_pr_fails(p) \/ \E n \in PRs : get_other_pr(p, n)
  PROVE  PollerInv'
<1>1. PollerTypeOK /\ pc[p] = "ask" /\ a_fault /\ marks' = marks
  BY DEF PollerInv, get_pr_fails, get_other_pr
<1>2. faults' \in 0 .. MaxFaults /\ marks' \in [Leaves -> {0, 1}]
  BY <1>1, Fault DEF PollerTypeOK
<1>3. SilentStep
  BY <1>2 DEF SilentStep, get_pr_fails, get_other_pr
<1>4. cached[p] # {}
  BY <1>1 DEF PollerInv, PolicyOK
<1>5. CASE next_leaf(p)
  BY <1>1, <1>3, <1>5, SilentNext
<1>6. CASE goto(p, "error")
  BY <1>1, <1>3, <1>4, <1>6, SilentGoto DEF Step
<1>7. QED
  BY <1>5, <1>6 DEF get_pr_fails, get_other_pr

\* The driver ends: its batch is forgotten.
LEMMA CrashStep ==
  ASSUME PollerInv, NEW p \in Pollers, crash(p)
  PROVE  PollerInv'
<1>. USE DEF PollerInv
<1>1. /\ leaf' = leaf /\ pr' = pr /\ in_review' = in_review /\ approved' = approved /\ marks' = marks
      /\ forge' = forge /\ made_for' = made_for /\ strict' = strict
      /\ a_fault
  BY DEF crash
<1>2. /\ batch' \in [Pollers -> Seq([leaf : Leaves, number : PRs])] /\ batch'[p] = <<>>
      /\ pc' \in [Pollers -> Step] /\ pc'[p] = "idle"
      /\ \A q \in Pollers : q # p => pc'[q] = pc[q] /\ batch'[q] = batch[q]
  <2>. DEFINE E == [leaf : Leaves, number : PRs]
  <2>1. batch \in [Pollers -> Seq(E)] /\ batch' = [batch EXCEPT ![p] = <<>>]
    BY DEF crash, PollerTypeOK
  <2>. HIDE DEF E
  <2>2. /\ batch' \in [Pollers -> Seq(E)] /\ batch'[p] = <<>>
        /\ \A q \in Pollers : q # p => batch'[q] = batch[q]
    BY <2>1
  <2>3. /\ pc' \in [Pollers -> Step] /\ pc'[p] = "idle"
        /\ \A q \in Pollers : q # p => pc'[q] = pc[q]
    BY DEF crash, PollerTypeOK, Step
  <2>4. QED
    BY <2>2, <2>3 DEF E
<1>9. /\ cached' \in [Pollers -> SUBSET BOOLEAN]
      /\ \A q \in Pollers : q # p => cached'[q] = cached[q]
  <2>1. cached \in [Pollers -> SUBSET BOOLEAN] /\ cached' = [cached EXCEPT ![p] = {}]
    BY DEF crash, PollerTypeOK
  <2>2. QED
    BY <2>1
<1>3. faults' \in 0 .. MaxFaults
  BY <1>1, Fault
<1>4. BatchOK'
  <2>1. \A q \in Pollers : q # p => \A i \in 1 .. Len(batch'[q]) :
          /\ forge[batch'[q][i].number] # "none"
          /\ made_for[batch'[q][i].number] = batch'[q][i].leaf
    BY <1>2 DEF BatchOK
  <2>2. Len(batch'[p]) = 0
    BY <1>2
  <2>3. QED
    BY <1>1, <2>1, <2>2 DEF BatchOK
<1>5. InHandOK'
  BY <1>2 DEF InHandOK
<1>6. PolicyOK' /\ AnswerOK'
  BY <1>1, <1>2, <1>9, Onward
<1>7. PollerTypeOK'
  BY <1>1, <1>2, <1>3, <1>9 DEF PollerTypeOK
<1>8. QED
  BY <1>1, <1>4, <1>5, <1>6, <1>7, RowsKeep

-----------------------------------------------------------------------------
(* The theorems. *)

\* The invariant is inductive.
LEMMA PollerStepKeeps == PollerInv /\ [Next]_vars => PollerInv'
<1>. SUFFICES ASSUME PollerInv, [Next]_vars PROVE PollerInv'
  OBVIOUS
<1>1. CASE UNCHANGED vars
  <2>1. /\ leaf' = leaf /\ pr' = pr /\ in_review' = in_review /\ approved' = approved
        /\ marks' = marks /\ forge' = forge /\ made_for' = made_for /\ strict' = strict
        /\ pc' = pc /\ batch' = batch /\ cached' = cached /\ faults' = faults
    BY <1>1 DEF vars
  <2>2. PollerTypeOK'
    BY <2>1 DEF PollerInv, PollerTypeOK
  <2>3. QED
    BY <2>1, <2>2, RowsKeep, PollersKeep DEF PollerInv
<1>2. CASE LeafStep
  BY <1>2, CompleteStep, RowStep, OutsideStep DEF LeafStep
<1>3. CASE (\E b \in Approvals : update_policy(b)) \/ (\E n \in PRs : forge_step(n))
  BY <1>3, OutsideStep
<1>4. ASSUME NEW p \in Pollers, PollerStep(p) PROVE PollerInv'
  BY <1>4, PollStep, ReadPolicyStep, GetPrStep, ReadEventsStep, ResolveStep, SkipStep
     DEF PollerStep
<1>5. ASSUME NEW p \in Pollers, PollerFault(p) PROVE PollerInv'
  BY <1>5, SkipStep, AskFailsStep, CrashStep DEF PollerFault
<1>6. QED
  BY <1>1, <1>2, <1>3, <1>4, <1>5 DEF Next

\* The rows, the batches and what the pollers learned fit together, always.
THEOREM PollerInvariant == Spec => []PollerInv
BY PollerInit, PollerStepKeeps, PTL DEF Spec

\* The variables keep their types, and no leaf is marked as awaiting its approval more
\* than once (review_note of the store).
THEOREM PollerTypeCorrect == Spec => []PollerTypeOK
<1>1. PollerInv => PollerTypeOK
  BY DEF PollerInv
<1>2. QED
  BY <1>1, PollerInvariant, PTL

\* A leaf that resolve_review made done had a pull request of its own merged, however
\* old the batch and whatever the workers, the users and the forge did since it was read.
THEOREM DoneMeansMergedHolds == Spec => []DoneMeansMerged
<1>1. PollerInv => DoneMeansMerged
  BY DEF PollerInv
<1>2. QED
  BY <1>1, PollerInvariant, PTL

\* The part of the invariant that an approval rests on: only a resolution makes a leaf
\* done, and the poller that asks for it holds the policy or the approval.
LEMMA OnlyResolves ==
  ASSUME PollerInv, [Next]_vars, NEW l \in Leaves, leaf[l] # "done", leaf'[l] = "done"
  PROVE  \E p \in Pollers : resolve_review(p) /\ pc[p] = "merged" /\ polled(p).leaf = l
<1>. USE DEF PollerInv, PollerTypeOK
<1>1. PICK p \in Pollers : resolve_review(p)
  <2>1. leaf' # leaf
    OBVIOUS
  <2>2. ~\E k \in Leaves : \/ \E n \in PRs : complete(k, n)
                          \/ fail(k) \/ retry(k) \/ cancel(k)
    BY DEF complete, fail, retry, cancel, set_leaf
  <2>3. ~\E k \in Leaves : approve(k)
    BY <2>1 DEF approve
  <2>4. ~\E b \in Approvals : update_policy(b)
    BY <2>1 DEF update_policy
  <2>5. ~\E n \in PRs : forge_step(n)
    BY <2>1 DEF forge_step
  <2>6. ~\E q \in Pollers : PollerFault(q)
    BY <2>1 DEF PollerFault, policy_unread, get_pr_fails, call_fails, crash, get_other_pr
  <2>7. ~\E q \in Pollers : poll(q) \/ read_policy(q) \/ get_pr(q) \/ read_events(q)
                           \/ review_note(q) \/ refused(q)
    BY <2>1 DEF poll, read_policy, get_pr, read_events, review_note, refused
  <2>8. ~UNCHANGED vars
    BY <2>1 DEF vars
  <2>9. QED
    BY <2>2, <2>3, <2>4, <2>5, <2>6, <2>7, <2>8 DEF Next, LeafStep, PollerStep
<1>2. /\ pc[p] \in {"merged", "closed"}
      /\ set_leaf(polled(p).leaf, IF pc[p] = "merged" THEN "done" ELSE "failed")
  BY <1>1 DEF resolve_review
<1>3. leaf'[l] = IF polled(p).leaf = l THEN (IF pc[p] = "merged" THEN "done" ELSE "failed")
                                       ELSE leaf[l]
  BY <1>2 DEF set_leaf
<1>4. QED
  BY <1>1, <1>2, <1>3

\* A resolution lets a leaf through that a user has approved, or that the policy its
\* batch had read let through (poller.rs: the approval is read before every resolution).
THEOREM ApprovalGateHolds == Spec => ApprovalGate
<1>1. ASSUME PollerInv, [Next]_vars
      PROVE  [\A l \in Leaves : leaf[l] # "done" /\ leaf'[l] = "done" =>
                \/ l \in approved
                \/ \E p \in Pollers : /\ pc[p] = "merged" /\ polled(p).leaf = l
                                      /\ FALSE \in cached[p]]_vars
  <2>1. ASSUME NEW l \in Leaves, leaf[l] # "done", leaf'[l] = "done"
        PROVE  \/ l \in approved
               \/ \E p \in Pollers : pc[p] = "merged" /\ polled(p).leaf = l /\ FALSE \in cached[p]
    <3>1. PICK p \in Pollers : pc[p] = "merged" /\ polled(p).leaf = l
      BY <1>1, <2>1, OnlyResolves
    <3>2. FALSE \in cached[p] \/ polled(p).leaf \in approved
      BY <1>1, <3>1 DEF PollerInv, AnswerOK
    <3>3. QED
      BY <3>1, <3>2
  <2>2. QED
    BY <2>1
<1>2. PollerInv /\ [Next]_vars =>
        [\A l \in Leaves : leaf[l] # "done" /\ leaf'[l] = "done" =>
           \/ l \in approved
           \/ \E p \in Pollers : pc[p] = "merged" /\ polled(p).leaf = l /\ FALSE \in cached[p]]_vars
  BY <1>1
<1>3. QED
  BY <1>2, PollerInvariant, PTL DEF Spec, ApprovalGate

=============================================================================
