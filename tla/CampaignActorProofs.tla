------------------------ MODULE CampaignActorProofs ------------------------
(***************************************************************************)
(* The processes around the campaign store: the drivers and workers of     *)
(* CampaignDriver and the planners of CampaignPlanner only ever take the   *)
(* steps of the store, so what the store promises holds with them.  When   *)
(* every driver has one permit, a worker whose lease is lost writes        *)
(* nothing; a session whose node somebody else has moved never does.       *)
(***************************************************************************)
EXTENDS CampaignDriver, CampaignPlanner, CampaignStoreProofs, WellFoundedInduction

-----------------------------------------------------------------------------
(* Drivers and workers. *)

\* Whatever a worker's step is, the store takes one of its own steps or none.
LEMMA WorkerTakesStoreSteps ==
  ASSUME NEW w \in Workers, DriverTypeOK, Progress(w) \/ beat(w)
  PROVE  [Next]_vars
<1>1. DriverOf[w] \in Owners
  BY WorkerAssumption
<1>2. ASSUME pc[w] # "idle"
      PROVE  leaf[w] \in Tasks
  BY <1>2 DEF DriverTypeOK
<1>3. ASSUME pc[w] # "idle",
             \/ start(DriverOf[w], leaf[w]) \/ complete(DriverOf[w], leaf[w])
             \/ fail(DriverOf[w], leaf[w]) \/ heartbeat(DriverOf[w], leaf[w])
      PROVE  Next
  BY <1>1, <1>2, <1>3 DEF Next, WorkerStep
<1>4. \/ UNCHANGED vars
      \/ pc[w] # "idle" /\ start(DriverOf[w], leaf[w])
      \/ pc[w] # "idle" /\ complete(DriverOf[w], leaf[w])
      \/ pc[w] # "idle" /\ fail(DriverOf[w], leaf[w])
      \/ pc[w] # "idle" /\ heartbeat(DriverOf[w], leaf[w])
  BY DEF Progress, check_claim, begin, session, push_pr, finish, fail_leaf, cut, settle_read,
         settle_start, settle_fail, beat, Beating
<1> QED BY <1>3, <1>4

\* A step of the drivers is a step of the store, or leaves the store alone.
LEMMA DriverTakesStoreSteps ==
  ASSUME DriverTypeOK, [DriverNext]_dvars
  PROVE  [Next]_vars
<1>1. CASE UNCHANGED dvars
  BY <1>1 DEF dvars
<1>2. CASE StoreStep
  BY <1>2 DEF StoreStep, Next
<1>3. CASE \E o \in Owners : crash(o)
  BY <1>3 DEF crash
<1>4. CASE \E o \in Owners, S \in SUBSET Tasks : dispatch(o, S) \/ claim_unanswered(o, S)
  BY <1>4 DEF dispatch, claim_unanswered, Next, WorkerStep
<1>5. CASE \E w \in Workers : Progress(w) \/ beat(w)
  BY <1>5, WorkerTakesStoreSteps
<1> QED BY <1>1, <1>2, <1>3, <1>4, <1>5 DEF DriverNext

-----------------------------------------------------------------------------
\* Where a worker can be, and the leaf it is there for.
LEMMA StepType ==
  ASSUME DriverTypeOK, NEW w \in Workers,
         NEW p \in {"idle"} \cup Inner \cup Settle, step(w, p),
         pc[w] # "idle"
  PROVE  DriverTypeOK'
<1>1. pc' \in [Workers -> {"idle"} \cup Inner \cup Settle]
  BY DEF DriverTypeOK, step
<1>2. leaf' \in [Workers -> Tasks \cup {NoLeaf}]
  BY DEF DriverTypeOK, step
<1>3. ASSUME NEW v \in Workers
      PROVE  pc'[v] = "idle" <=> leaf'[v] = NoLeaf
  BY <1>3, WorkerAssumption DEF DriverTypeOK, step
<1>4. lost' \in [Workers -> BOOLEAN]
  BY ZenonT(20) DEF DriverTypeOK, step
<1>5. claimant' \in [Tasks -> Workers \cup {NoWorker}]
  BY DEF DriverTypeOK, step
<1> QED BY <1>1, <1>2, <1>3, <1>4, <1>5 DEF DriverTypeOK, step

\* Every step keeps the workers' types.
LEMMA DriverTypeStep ==
  ASSUME DriverTypeOK, [DriverNext]_dvars
  PROVE  DriverTypeOK'
<1>1. CASE UNCHANGED dvars
  BY <1>1 DEF dvars, run_vars, DriverTypeOK
<1>2. CASE StoreStep
  BY <1>2 DEF StoreStep, Bystanders, run_vars, DriverTypeOK
<1>3. ASSUME NEW o \in Owners, crash(o)
      PROVE  DriverTypeOK'
  <2>1. PICK ended \in SUBSET Workers :
          /\ pc' = [w \in Workers |-> IF w \in ended THEN "idle" ELSE pc[w]]
          /\ leaf' = [w \in Workers |-> IF w \in ended THEN NoLeaf ELSE leaf[w]]
          /\ lost' = [w \in Workers |-> w \notin ended /\ lost[w]]
    <3>1. PICK on \in SUBSET {w \in Workers : DriverOf[w] = o /\ pc[w] \in Inner} :
            LET ended == {w \in Workers : DriverOf[w] = o} \ on
            IN  /\ pc' = [w \in Workers |-> IF w \in ended THEN "idle" ELSE pc[w]]
                /\ leaf' = [w \in Workers |-> IF w \in ended THEN NoLeaf ELSE leaf[w]]
                /\ lost' = [w \in Workers |-> w \notin ended /\ lost[w]]
      BY <1>3 DEF crash
    <3> WITNESS {w \in Workers : DriverOf[w] = o} \ on \in SUBSET Workers
    <3> QED BY <3>1
  <2>2. pc' \in [Workers -> {"idle"} \cup Inner \cup Settle]
    BY <2>1 DEF DriverTypeOK
  <2>3. leaf' \in [Workers -> Tasks \cup {NoLeaf}]
    BY <2>1 DEF DriverTypeOK
  <2>4. ASSUME NEW w \in Workers
        PROVE  pc'[w] = "idle" <=> leaf'[w] = NoLeaf
    BY <2>1, <2>4 DEF DriverTypeOK
  <2>5. lost' \in [Workers -> BOOLEAN]
    BY <2>1 DEF DriverTypeOK
  <2> QED BY <2>2, <2>3, <2>4, <2>5, <1>3 DEF DriverTypeOK, crash
<1>4. ASSUME NEW o \in Owners, NEW S \in SUBSET Tasks, dispatch(o, S)
      PROVE  DriverTypeOK'
  <2> DEFINE taken(f) == {f[t] : t \in S}
  <2>1. PICK f \in permits(o, S) :
          /\ pc' = [w \in Workers |-> IF w \in taken(f) THEN "spawned" ELSE pc[w]]
          /\ leaf' = [w \in Workers |-> IF w \in taken(f) THEN CHOOSE t \in S : f[t] = w
                                        ELSE leaf[w]]
          /\ claimant' = [t \in Tasks |-> IF t \in S THEN f[t] ELSE claimant[t]]
    BY <1>4 DEF dispatch
  <2>2. ASSUME NEW w \in taken(f)
        PROVE  (CHOOSE t \in S : f[t] = w) \in Tasks
    BY <2>2
  <2>3. \A t \in S : f[t] \in Workers
    BY <2>1 DEF permits, free
  <2> HIDE DEF taken
  <2>4. pc' \in [Workers -> {"idle"} \cup Inner \cup Settle]
    BY <2>1 DEF DriverTypeOK, Inner
  <2>5. leaf' \in [Workers -> Tasks \cup {NoLeaf}]
    BY <2>1, <2>2 DEF DriverTypeOK
  <2>6. ASSUME NEW w \in Workers
        PROVE  pc'[w] = "idle" <=> leaf'[w] = NoLeaf
    BY <2>1, <2>2, <2>6, WorkerAssumption DEF DriverTypeOK
  <2>7. claimant' \in [Tasks -> Workers \cup {NoWorker}]
    BY <2>1, <2>3 DEF DriverTypeOK
  <2> QED BY <2>4, <2>5, <2>6, <2>7, <1>4 DEF DriverTypeOK, dispatch
<1>5. ASSUME NEW o \in Owners, NEW S \in SUBSET Tasks, claim_unanswered(o, S)
      PROVE  DriverTypeOK'
  BY <1>5 DEF claim_unanswered, run_vars, DriverTypeOK
<1>6. ASSUME NEW w \in Workers, beat(w)
      PROVE  DriverTypeOK'
  <2>1. lost' \in [Workers -> BOOLEAN]
    <3>1. lost' = lost \/ lost' = [lost EXCEPT ![w] = TRUE]
      BY <1>6 DEF beat
    <3> QED BY <3>1 DEF DriverTypeOK
  <2> QED BY <2>1, <1>6 DEF beat, DriverTypeOK
<1>7. ASSUME NEW w \in Workers, Progress(w)
      PROVE  DriverTypeOK'
  <2>1. pc[w] # "idle" /\ \E p \in {"idle"} \cup Inner \cup Settle : step(w, p)
    BY <1>7 DEF Progress, check_claim, begin, session, push_pr, finish, fail_leaf, cut,
                settle_read, settle_start, settle_fail, exit, Inner, Settle
  <2> QED BY <2>1, StepType
<1> QED BY <1>1, <1>2, <1>3, <1>4, <1>5, <1>6, <1>7 DEF DriverNext

\* Initially every permit is free.
LEMMA DriverTypeInit ==
  ASSUME DriverInit PROVE DriverTypeOK
<1>1. lost \in [Workers -> BOOLEAN]
  BY DEF DriverInit
<1> QED BY <1>1 DEF DriverInit, DriverTypeOK

\* Every behaviour of the drivers and their workers is one of the campaign store:
\* dispatch, the worker protocol and the settling of failures write nothing but
\* what the store's protocols write.
THEOREM DriverImplementsStore == DriverSpec => Spec
<1>1. DriverInit => DriverTypeOK /\ Init
  BY DriverTypeInit DEF DriverInit
<1>2. DriverTypeOK /\ [DriverNext]_dvars => DriverTypeOK' /\ [Next]_vars
  BY DriverTypeStep, DriverTakesStoreSteps
<1> QED BY <1>1, <1>2, PTL DEF DriverSpec, Spec

\* Every worker is in its protocol and has a leaf exactly while it holds a permit,
\* wherever drivers crash, workers are cut off or answers are lost.
THEOREM DriverTypeCorrect == DriverSpec => []DriverTypeOK
<1>1. DriverInit => DriverTypeOK
  BY DriverTypeInit DEF DriverInit
<1>2. DriverTypeOK /\ [DriverNext]_dvars => DriverTypeOK'
  BY DriverTypeStep
<1> QED BY <1>1, <1>2, PTL DEF DriverSpec

\* So every invariant of the store holds while workers crash, time out, lose their
\* leases and are settled.
THEOREM DriverKeepsStoreInvariants ==
  DriverSpec => [](/\ LeaseIntegrity /\ DependenciesDone /\ LeafHasNoChildren
                   /\ FinishedSubtree /\ DoneMeansDone /\ DecomposedWaits)
BY DriverImplementsStore, LeaseCorrect, TreeCorrect, DependenciesCorrect, PTL

-----------------------------------------------------------------------------
\* Only a claim gives a row an owner: the other protocols keep claimed_by or clear it.
LEMMA OnlyClaimTakes ==
  ASSUME TypeOK,
         \/ PlannerStep \/ DriverStep \/ UserStep \/ Clock
         \/ \E o \in Owners, t \in Tasks :
              heartbeat(o, t) \/ start(o, t) \/ complete(o, t) \/ fail(o, t)
  PROVE  \A t \in Tasks : owner'[t] = owner[t] \/ owner'[t] = NoOwner
<1>1. ASSUME NEW st, NEW S, NEW actor, transition(st, S, actor)
      PROVE  \A t \in Tasks : owner'[t] = owner[t] \/ owner'[t] = NoOwner
  BY <1>1 DEF transition
<1>2. ASSUME UNCHANGED owner
      PROVE  \A t \in Tasks : owner'[t] = owner[t] \/ owner'[t] = NoOwner
  BY <1>2
<1>3. ASSUME PlannerStep
      PROVE  \E st, S, actor : transition(st, S, actor)
  BY <1>3 DEF PlannerStep, plan_start_blocked, plan_start, decompose, mark_leaf,
              plan_close_needs_info, plan_close_reject, plan_close_error, write
<1>4. ASSUME DriverStep
      PROVE  \E st, S, actor : transition(st, S, actor)
  BY <1>4 DEF DriverStep, reap, reap_decomposing, resolve_merged, resolve_closed, write
<1>5. ASSUME UserStep
      PROVE  UNCHANGED owner \/ \E st, S, actor : transition(st, S, actor)
  BY <1>5 DEF UserStep, create, update_policy, approve, answer, approve_children, retry,
              cancel, replan, write, lease_vars
<1>6. ASSUME Clock
      PROVE  UNCHANGED owner
  BY <1>6 DEF Clock, lease_expires, plan_goes_stale, lease_vars
<1>7. ASSUME NEW o \in Owners, NEW t \in Tasks,
             heartbeat(o, t) \/ start(o, t) \/ complete(o, t) \/ fail(o, t)
      PROVE  UNCHANGED owner \/ \E st, S, actor : transition(st, S, actor)
  BY <1>7 DEF heartbeat, start, complete, fail, write
<1> QED BY <1>1, <1>2, <1>3, <1>4, <1>5, <1>6, <1>7

\* A worker whose leaf is claimed under its driver's token is the one it was claimed
\* for.
ClaimedForMe ==
  \A w \in Workers :
    pc[w] # "idle" /\ owner[leaf[w]] = DriverOf[w] => claimant[leaf[w]] = w

\* What a step that takes no new claim must keep for ClaimedForMe.
LEMMA ClaimKept ==
  ASSUME DriverTypeOK, ClaimedForMe,
         \A t \in Tasks : owner'[t] = owner[t] \/ owner'[t] = NoOwner,
         claimant' = [t \in Tasks |-> IF owner'[t] = NoOwner THEN NoWorker ELSE claimant[t]],
         \A w \in Workers : pc'[w] = "idle" \/ (pc[w] # "idle" /\ leaf'[w] = leaf[w])
  PROVE  ClaimedForMe'
<1> SUFFICES ASSUME NEW w \in Workers, pc'[w] # "idle", owner'[leaf'[w]] = DriverOf[w]
             PROVE  claimant'[leaf'[w]] = w
  BY DEF ClaimedForMe
<1>1. leaf'[w] = leaf[w] /\ pc[w] # "idle" /\ leaf[w] \in Tasks
  BY DEF DriverTypeOK
<1>2. owner'[leaf[w]] # NoOwner /\ owner[leaf[w]] = DriverOf[w]
  BY <1>1, WorkerAssumption, NoneAssumption
<1> QED BY <1>1, <1>2 DEF ClaimedForMe

\* One permit per driver: no driver claims while it has a worker.
LEMMA ClaimedForMeStep ==
  ASSUME \A v, w \in Workers : DriverOf[v] = DriverOf[w] => v = w,
         TypeOK, DriverTypeOK, ClaimedForMe, [DriverNext]_dvars
  PROVE  ClaimedForMe'
<1>1. CASE UNCHANGED dvars
  BY <1>1 DEF dvars, vars, run_vars, ClaimedForMe
<1>2. CASE StoreStep
  BY <1>2, OnlyClaimTakes, ClaimKept DEF StoreStep, Bystanders, run_vars
<1>3. ASSUME NEW o \in Owners, crash(o)
      PROVE  ClaimedForMe'
  <2>1. PICK on : LET ended == {w \in Workers : DriverOf[w] = o} \ on
                  IN  /\ pc' = [w \in Workers |-> IF w \in ended THEN "idle" ELSE pc[w]]
                      /\ leaf' = [w \in Workers |-> IF w \in ended THEN NoLeaf ELSE leaf[w]]
    BY <1>3 DEF crash
  <2>2. \A w \in Workers : pc'[w] = "idle" \/ (pc'[w] = pc[w] /\ leaf'[w] = leaf[w])
    BY <2>1
  <2>3. UNCHANGED <<owner, claimant>>
    BY <1>3 DEF crash, vars
  <2> QED BY <2>2, <2>3 DEF ClaimedForMe
<1>4. ASSUME NEW o \in Owners, NEW S \in SUBSET Tasks, claim(o, S), permits(o, S) # {},
             NEW v \in Workers, pc[v] # "idle"
      PROVE  DriverOf[v] # o
  <2>1. PICK f \in permits(o, S) : TRUE
    BY <1>4
  <2>2. PICK t \in S : f[t] \in free(o)
    BY <2>1, <1>4 DEF claim, permits
  <2> QED BY <2>2, <1>4 DEF free
<1>5. ASSUME NEW o \in Owners, NEW S \in SUBSET Tasks, claim(o, S)
      PROVE  owner' = [t \in Tasks |-> IF t \in S THEN o ELSE owner[t]]
  BY <1>5 DEF claim
<1>6. ASSUME NEW o \in Owners, NEW S \in SUBSET Tasks, dispatch(o, S)
      PROVE  ClaimedForMe'
  <2> SUFFICES ASSUME NEW w \in Workers, pc'[w] # "idle", owner'[leaf'[w]] = DriverOf[w]
               PROVE  claimant'[leaf'[w]] = w
    BY DEF ClaimedForMe
  <2> DEFINE taken(f) == {f[t] : t \in S}
  <2>1. PICK f \in permits(o, S) :
          /\ pc' = [v \in Workers |-> IF v \in taken(f) THEN "spawned" ELSE pc[v]]
          /\ leaf' = [v \in Workers |-> IF v \in taken(f) THEN CHOOSE t \in S : f[t] = v
                                        ELSE leaf[v]]
          /\ claimant' = [t \in Tasks |-> IF t \in S THEN f[t] ELSE claimant[t]]
    BY <1>6 DEF dispatch
  <2>2. claim(o, S)
    BY <1>6 DEF dispatch
  <2>3. CASE w \in taken(f)
    <3>1. leaf'[w] = CHOOSE t \in S : f[t] = w
      BY <2>1, <2>3
    <3>2. leaf'[w] \in S /\ f[leaf'[w]] = w
      BY <3>1, <2>3
    <3> QED BY <3>2, <2>1
  <2>4. CASE w \notin taken(f)
    <3>1. pc[w] # "idle" /\ leaf'[w] = leaf[w]
      BY <2>1, <2>4
    <3>2. leaf[w] \in Tasks
      BY <3>1 DEF DriverTypeOK
    <3>3. DriverOf[w] # o
      BY <3>1, <2>1, <2>2, <1>4
    <3>4. leaf[w] \notin S /\ owner[leaf[w]] = DriverOf[w]
      BY <3>1, <3>2, <3>3, <2>2, <1>5
    <3> QED BY <3>1, <3>2, <3>4, <2>1 DEF ClaimedForMe
  <2> QED BY <2>3, <2>4
<1>7. ASSUME NEW o \in Owners, NEW S \in SUBSET Tasks, claim_unanswered(o, S)
      PROVE  ClaimedForMe'
  <2> SUFFICES ASSUME NEW w \in Workers, pc[w] # "idle", owner'[leaf[w]] = DriverOf[w]
               PROVE  claimant[leaf[w]] = w
    BY <1>7 DEF ClaimedForMe, claim_unanswered, run_vars
  <2>1. claim(o, S) /\ permits(o, S) # {}
    BY <1>7 DEF claim_unanswered
  <2>2. leaf[w] \in Tasks /\ DriverOf[w] # o
    BY <2>1, <1>4 DEF DriverTypeOK
  <2>3. owner[leaf[w]] = DriverOf[w]
    BY <2>1, <2>2, <1>5
  <2> QED BY <2>3 DEF ClaimedForMe
<1>8. ASSUME NEW w \in Workers, Progress(w) \/ beat(w)
      PROVE  ClaimedForMe'
  <2>1. pc[w] # "idle" /\ leaf[w] \in Tasks /\ DriverOf[w] \in Owners
    <3>1. pc[w] # "idle"
      BY <1>8 DEF Progress, check_claim, begin, session, push_pr, finish, fail_leaf, cut,
                  settle_read, settle_start, settle_fail, beat, Beating, Inner
    <3> QED BY <3>1, WorkerAssumption DEF DriverTypeOK
  <2>2. \/ UNCHANGED owner
        \/ start(DriverOf[w], leaf[w]) \/ complete(DriverOf[w], leaf[w])
        \/ fail(DriverOf[w], leaf[w]) \/ heartbeat(DriverOf[w], leaf[w])
    BY <1>8 DEF Progress, check_claim, begin, session, push_pr, finish, fail_leaf, cut,
                settle_read, settle_start, settle_fail, beat, vars
  <2>3. \A t \in Tasks : owner'[t] = owner[t] \/ owner'[t] = NoOwner
    BY <2>1, <2>2, OnlyClaimTakes
  <2>4. CASE Progress(w)
    <3>1. PICK p : step(w, p)
      BY <2>4 DEF Progress, check_claim, begin, session, push_pr, finish, fail_leaf, cut,
                  settle_read, settle_start, settle_fail, exit
    <3>2. ASSUME NEW v \in Workers
          PROVE  pc'[v] = "idle" \/ (pc[v] # "idle" /\ leaf'[v] = leaf[v])
      <4>1. v # w => pc'[v] = pc[v] /\ leaf'[v] = leaf[v]
        BY <3>1 DEF step, DriverTypeOK
      <4>2. pc'[w] = p /\ (p # "idle" => leaf'[w] = leaf[w])
        BY <3>1 DEF step, DriverTypeOK
      <4> QED BY <4>1, <4>2, <2>1
    <3> QED BY <3>1, <3>2, <2>3, ClaimKept DEF step
  <2>5. CASE beat(w)
    <3>1. UNCHANGED owner
      BY <2>5 DEF beat, heartbeat, vars
    <3> QED BY <3>1, <2>5 DEF beat, ClaimedForMe
  <2> QED BY <1>8, <2>4, <2>5
<1> QED BY <1>1, <1>2, <1>3, <1>6, <1>7, <1>8 DEF DriverNext

\* When every driver has one permit, a worker whose leaf was reaped, cancelled or
\* claimed for another worker writes nothing, and nor does the settling of it.  (With
\* more permits it does: see the run lost_lease.)
THEOREM LostLeaseHolds ==
  ASSUME \A v, w \in Workers : DriverOf[v] = DriverOf[w] => v = w
  PROVE  DriverSpec => LostLeaseWritesNothing
<1>1. DriverInit => DriverTypeOK /\ ClaimedForMe
  BY DriverTypeInit DEF DriverInit, ClaimedForMe
<1>2. TypeOK /\ DriverTypeOK /\ ClaimedForMe /\ [DriverNext]_dvars
        => DriverTypeOK' /\ ClaimedForMe'
  BY DriverTypeStep, ClaimedForMeStep
<1>3. ASSUME DriverTypeOK, ClaimedForMe, [DriverNext]_dvars, NEW w \in Workers,
             pc[w] # "idle", pc'[w] # pc[w], claimant[leaf[w]] # w
      PROVE  state' = state
  <2>1. owner[leaf[w]] # DriverOf[w]
    BY <1>3 DEF ClaimedForMe
  <2>2. CASE \E v \in Workers : Progress(v)
    <3>1. PICK v \in Workers : Progress(v)
      BY <2>2
    <3>2. \E p : step(v, p)
      BY <3>1 DEF Progress, check_claim, begin, session, push_pr, finish, fail_leaf, cut,
                  settle_read, settle_start, settle_fail, exit
    <3>3. v = w
      BY <3>2, <1>3 DEF step, DriverTypeOK
    <3> QED BY <3>1, <3>3, <2>1
            DEF Progress, check_claim, begin, session, push_pr, finish, fail_leaf, cut,
                settle_read, settle_start, settle_fail, start, complete, fail, vars
  <2>3. CASE StoreStep \/ \E v \in Workers : beat(v)
    BY <2>3, <1>3 DEF StoreStep, Bystanders, run_vars, beat
  <2>4. ASSUME NEW o \in Owners, NEW S \in SUBSET Tasks, dispatch(o, S) \/ claim_unanswered(o, S)
        PROVE  FALSE
    <3>1. CASE claim_unanswered(o, S)
      BY <3>1, <1>3 DEF claim_unanswered, run_vars
    <3>2. CASE dispatch(o, S)
      <4>1. PICK f \in permits(o, S) :
              pc' = [v \in Workers |-> IF v \in {f[t] : t \in S} THEN "spawned" ELSE pc[v]]
        BY <3>2 DEF dispatch
      <4>2. PICK t \in S : f[t] = w
        BY <4>1, <1>3
      <4> QED BY <4>2, <1>3 DEF permits, free
    <3> QED BY <2>4, <3>1, <3>2
  <2>5. CASE (\E o \in Owners : crash(o)) \/ UNCHANGED dvars
    BY <2>5 DEF crash, dvars, vars
  <2> QED BY <1>3, <2>2, <2>3, <2>4, <2>5 DEF DriverNext
<1>4. DriverTypeOK /\ ClaimedForMe /\ [DriverNext]_dvars =>
        [\A w \in Workers :
           pc[w] # "idle" /\ pc'[w] # pc[w] /\ claimant[leaf[w]] # w => state' = state]_dvars
  BY <1>3
<1> QED
  BY <1>1, <1>2, <1>4, DriverImplementsStore, TypeCorrect, PTL
     DEF DriverSpec, LostLeaseWritesNothing

-----------------------------------------------------------------------------
(* Planners. *)

\* A version that plan_start returned is only current while its row is decomposing.
HeldDecomposes == \A t \in Tasks : holder[t] \in Planners => state[t] = "decomposing"

\* Who moved the node of a session has taken its version away.
MovedIsStale ==
  \A p \in Planners : moved[p] => at[p] \notin {"idle", "start"} /\ holder[node(p)] # p

\* Only the validator decides anything but a reject, and only for the node it was asked
\* about; without a session nothing is open.
Undecided ==
  \A p \in Planners : /\ at[p] \notin {"write", "close"} => decision[p] = "reject"
                      /\ at[p] = "idle" => open[p] = {}

PlannerInv == TypeOK /\ PlannerTypeOK /\ HeldDecomposes /\ MovedIsStale /\ Undecided

\* What a write of another protocol than plan_start does to a row: it keeps the row's
\* state, or the row has a version that no planner call was given.
Bumped ==
  \A t \in Tasks : \/ holder'[t] = NoPlanner
                   \/ holder'[t] = holder[t] /\ state'[t] = state[t]

-----------------------------------------------------------------------------
(* The node of a session. *)

\* A set of natural numbers that has a member has a least one.
LEMMA LeastPlace ==
  ASSUME NEW T \in SUBSET Nat, T # {}
  PROVE  \E x \in T : \A y \in T : x <= y
<1>. DEFINE R == {ss \in Nat \X Nat : ss[1] < ss[2]}
<1>1. IsWellFoundedOn(R, Nat)
  BY NatLessThanWellFounded DEF OpToRel
<1>2. PICK x \in T : \A y \in T : ~(<<y, x>> \in R)
  <2>. HIDE DEF R
  <2>. QED BY <1>1, WFMin
<1>3. \A y \in T : ~(y < x)
  BY <1>2
<1>4. QED
  BY <1>3

\* Among rows there is a first by path.
LEMMA FirstByPath ==
  ASSUME NEW S \in SUBSET Tasks, S # {}
  PROVE  \E t \in S : \A u \in S : PathOrder[t] <= PathOrder[u]
<1>. DEFINE T == {PathOrder[t] : t \in S}
<1>1. T \in SUBSET Nat /\ T # {}
  BY PlannerAssumption
<1>2. PICK x \in T : \A y \in T : x <= y
  <2>. HIDE DEF T
  <2>. QED BY <1>1, LeastPlace
<1>3. QED
  BY <1>2

\* A planner that has nodes left is at one of them.
LEMMA NodeIsQueued ==
  ASSUME NEW p \in Planners, PlannerTypeOK, at[p] # "idle"
  PROVE  node(p) \in queue[p] /\ node(p) \in Tasks
<1>1. queue[p] \in SUBSET Tasks /\ queue[p] # {}
  BY DEF PlannerTypeOK
<1>2. \E t \in queue[p] : \A u \in queue[p] : PathOrder[t] <= PathOrder[u]
  BY <1>1, FirstByPath
<1>3. QED
  BY <1>1, <1>2 DEF node

\* A tick that finds a plannable node takes one.
LEMMA ListedIsThere ==
  ASSUME plannable # {}
  PROVE  listed # {} /\ listed \in SUBSET Tasks
<1>1. plannable \in SUBSET Tasks
  BY DEF plannable
<1>2. PICK t \in plannable : \A u \in plannable : PathOrder[t] <= PathOrder[u]
  <2>. HIDE DEF plannable
  <2>. QED BY <1>1, FirstByPath
<1>3. \A u \in plannable : ~(PathOrder[u] < PathOrder[t])
  <2>1. \A u \in plannable : PathOrder[u] \in Nat
    BY <1>1, PlannerAssumption
  <2>2. QED
    BY <1>2, <2>1
<1>4. {u \in plannable : PathOrder[u] < PathOrder[t]} = {}
  BY <1>3
<1>5. Cardinality({u \in plannable : PathOrder[u] < PathOrder[t]}) < PerTick
  BY <1>4, FS_EmptySet, PlannerAssumption
<1>6. t \in listed
  BY <1>2, <1>5 DEF listed
<1>7. QED
  BY <1>1, <1>6 DEF listed

-----------------------------------------------------------------------------
(* The store under the planners. *)

\* The finishing write of a session is a step of the store, and needs its version.
LEMMA DecidedSteps ==
  ASSUME NEW p \in Planners, NEW t \in Tasks, decision[p] \in Decision, decided(p, t)
  PROVE  PlannerStep /\ cas(p, t)
<1>1. CASE decision[p] = "execute"
  <2>1. mark_leaf(p, t)
    BY <1>1 DEF decided
  <2>2. QED
    BY <2>1 DEF PlannerStep, mark_leaf
<1>2. CASE decision[p] = "split"
  <2>1. \E n \in 1 .. MAX_CHILDREN : decompose(p, t, n)
    BY <1>2 DEF decided
  <2>2. PICK n \in 1 .. MAX_CHILDREN : decompose(p, t, n)
    BY <2>1
  <2>3. PlannerStep
    BY <2>2 DEF PlannerStep
  <2>4. QED
    BY <2>2, <2>3 DEF decompose
<1>3. CASE decision[p] = "needs_info"
  <2>1. plan_close_needs_info(p, t)
    BY <1>3 DEF decided
  <2>2. QED
    BY <2>1 DEF PlannerStep, plan_close_needs_info
<1>4. CASE decision[p] = "reject"
  <2>1. plan_close_reject(p, t)
    BY <1>4 DEF decided
  <2>2. QED
    BY <2>1 DEF PlannerStep, plan_close_reject
<1>5. QED
  BY <1>1, <1>2, <1>3, <1>4 DEF Decision

\* Whatever a step is, the store takes one of its own steps or none.
LEMMA PlannerTakesStoreSteps ==
  ASSUME PlannerTypeOK, [PlannerNext]_pvars
  PROVE  [Next]_vars
<1>1. ASSUME NEW p \in Planners,
             plan(p) \/ start_fails(p) \/ finish_fails(p) \/ crash_session(p)
      PROVE  [Next]_vars
  <2>1. CASE \/ tick(p) \/ context(p) \/ build_prompt(p) \/ ask_structured(p)
             \/ post_validate(p) \/ finish_fails(p) \/ crash_session(p)
    BY <2>1 DEF tick, context, build_prompt, ask_structured, post_validate, finish_fails, crash_session
  <2>2. CASE start_plan(p) \/ start_fails(p)
    <3>1. node(p) \in Tasks
      BY <2>2, NodeIsQueued DEF start_plan, start_fails
    <3>2. plan_start(p, node(p)) \/ plan_start_blocked(node(p)) \/ UNCHANGED vars
      BY <2>2 DEF start_plan, start_fails
    <3>3. QED
      BY <3>1, <3>2 DEF Next, PlannerStep
  <2>3. CASE finish_plan(p)
    <3>1. node(p) \in Tasks /\ decision[p] \in Decision
      BY <2>3, NodeIsQueued DEF finish_plan, PlannerTypeOK
    <3>2. decided(p, node(p)) \/ UNCHANGED vars
      BY <2>3 DEF finish_plan
    <3>3. QED
      BY <3>1, <3>2, DecidedSteps DEF Next
  <2>4. CASE close_error(p)
    <3>1. node(p) \in Tasks
      BY <2>4, NodeIsQueued DEF close_error
    <3>2. plan_close_error(p, node(p)) \/ UNCHANGED vars
      BY <2>4 DEF close_error
    <3>3. QED
      BY <3>1, <3>2 DEF Next, PlannerStep
  <2>5. QED
    BY <1>1, <2>1, <2>2, <2>3, <2>4 DEF plan
<1>2. CASE policy_edit
  BY <1>2 DEF policy_edit, Next, UserStep
<1>3. CASE others_step
  BY <1>3 DEF others_step, Next, DriverStep, UserStep
<1>4. CASE release_stale
  BY <1>4 DEF release_stale, Next, DriverStep
<1>5. CASE UNCHANGED pvars
  BY <1>5 DEF pvars
<1>6. QED
  BY <1>1, <1>2, <1>3, <1>4, <1>5 DEF PlannerNext

-----------------------------------------------------------------------------
(* Versions. *)

\* A write through the row write of the protocols takes the versions of what it moves.
LEMMA WriteBumps ==
  ASSUME NEW st, NEW S, NEW actor, write(st, S, actor)
  PROVE  Bumped
BY DEF write, transition, bump, Bumped

\* So does every protocol but plan_start.
LEMMA OthersBump ==
  ASSUME TypeOK, HeldDecomposes, policy_edit \/ others_step \/ release_stale
  PROVE  Bumped
<1>1. ASSUME NEW pol, update_policy(pol)
      PROVE  Bumped
  BY <1>1, TreeAssumption DEF update_policy, Bumped, TypeOK
<1>2. ASSUME NEW s, create(s)
      PROVE  Bumped
  <2>1. holder[Root] = NoPlanner
    BY <1>2, TreeAssumption, NoneAssumption
       DEF create, exists, HeldDecomposes, TypeOK, TaskState
  <2>2. \A t \in Tasks : holder'[t] = holder[t]
    BY <1>2 DEF create
  <2>3. \A t \in Tasks : t # Root => state'[t] = state[t]
    BY <1>2 DEF create, TypeOK
  <2>4. QED
    BY <2>1, <2>2, <2>3 DEF Bumped
<1>3. ASSUME NEW o \in Owners, NEW S \in SUBSET Tasks, claim(o, S)
      PROVE  Bumped
  BY <1>3 DEF claim, bump, Bumped
<1>4. ASSUME UNCHANGED <<state, holder>>
      PROVE  Bumped
  BY <1>4 DEF Bumped
<1>5. ASSUME NEW o \in Owners, NEW t \in Tasks,
             heartbeat(o, t) \/ start(o, t) \/ complete(o, t) \/ fail(o, t)
      PROVE  UNCHANGED <<state, holder>> \/ \E st, S, actor : write(st, S, actor)
  BY <1>5 DEF heartbeat, start, complete, fail
<1>6. CASE WorkerStep
  BY <1>3, <1>4, <1>5, <1>6, WriteBumps DEF WorkerStep
<1>7. CASE Clock
  BY <1>4, <1>7 DEF Clock, lease_expires, plan_goes_stale
<1>8. ASSUME NEW S \in SUBSET Tasks, reap(S) \/ reap_decomposing(S)
      PROVE  Bumped
  BY <1>8, WriteBumps DEF reap, reap_decomposing
<1>9. ASSUME NEW t \in Tasks,
             \/ resolve_merged(t) \/ resolve_closed(t)
             \/ approve(t) \/ answer(t) \/ approve_children(t)
             \/ retry(t) \/ cancel(t) \/ replan(t)
      PROVE  \E st, S, actor : write(st, S, actor)
  <2>1. CASE resolve_merged(t) \/ resolve_closed(t)
    BY <2>1 DEF resolve_merged, resolve_closed
  <2>2. CASE approve(t) \/ answer(t) \/ approve_children(t)
    BY <2>2 DEF approve, answer, approve_children
  <2>3. CASE retry(t) \/ cancel(t) \/ replan(t)
    BY <2>3 DEF retry, cancel, replan
  <2>4. QED
    BY <1>9, <2>1, <2>2, <2>3
<1>10. QED
  BY <1>1, <1>2, <1>6, <1>7, <1>8, <1>9, WriteBumps
     DEF policy_edit, others_step, release_stale

\* So do the planner's own other calls.
LEMMA ClosingBumps ==
  ASSUME NEW p \in Planners, NEW t \in Tasks, decision[p] \in Decision,
         decided(p, t) \/ plan_close_error(p, t) \/ plan_start_blocked(t)
  PROVE  Bumped
<1>1. CASE plan_close_error(p, t) \/ plan_start_blocked(t)
  BY <1>1, WriteBumps DEF plan_close_error, plan_start_blocked
<1>2. CASE decided(p, t)
  <2>1. \/ mark_leaf(p, t) \/ (\E n \in 1 .. MAX_CHILDREN : decompose(p, t, n))
        \/ plan_close_needs_info(p, t) \/ plan_close_reject(p, t)
    <3>1. CASE decision[p] = "execute"
      BY <1>2, <3>1 DEF decided
    <3>2. CASE decision[p] = "split"
      BY <1>2, <3>2 DEF decided
    <3>3. CASE decision[p] = "needs_info"
      BY <1>2, <3>3 DEF decided
    <3>4. CASE decision[p] = "reject"
      BY <1>2, <3>4 DEF decided
    <3>5. QED
      BY <3>1, <3>2, <3>3, <3>4 DEF Decision
  <2>2. QED
    BY <2>1, WriteBumps DEF mark_leaf, decompose, plan_close_needs_info, plan_close_reject
<1>3. QED
  BY <1>1, <1>2

\* plan_start gives its caller the version of the one row it moves.
LEMMA StartGives ==
  ASSUME TypeOK, NEW p \in Planners, NEW t \in Tasks, plan_start(p, t)
  PROVE  /\ holder'[t] = p /\ state'[t] = "decomposing"
         /\ \A u \in Tasks : u # t => holder'[u] = holder[u] /\ state'[u] = state[u]
BY DEF plan_start, transition, move, TypeOK

\* A version is current only while its row is decomposing, whoever writes.
LEMMA HeldStep ==
  ASSUME TypeOK, HeldDecomposes,
         Bumped \/ \E p \in Planners, t \in Tasks : plan_start(p, t)
  PROVE  HeldDecomposes'
<1>1. CASE Bumped
  BY <1>1, NoneAssumption DEF Bumped, HeldDecomposes
<1>2. CASE \E p \in Planners, t \in Tasks : plan_start(p, t)
  <2>1. PICK p \in Planners, t \in Tasks : plan_start(p, t)
    BY <1>2
  <2>2. /\ holder'[t] = p /\ state'[t] = "decomposing"
        /\ \A u \in Tasks : u # t => holder'[u] = holder[u] /\ state'[u] = state[u]
    BY <2>1, StartGives
  <2>3. QED
    BY <2>2 DEF HeldDecomposes
<1>3. QED
  BY <1>1, <1>2

\* What a step by p, or by nobody among the planners, has to show of the sessions.
LEMMA MovedStep ==
  ASSUME PlannerInv, NEW p \in Planners \cup {NoPlanner}, watch(p),
         \A q \in Planners : q # p => at'[q] = at[q] /\ queue'[q] = queue[q],
         p \in Planners => at'[p] \in {"idle", "start"} \/ queue'[p] = queue[p],
         \/ Bumped
         \/ p \in Planners /\ at[p] = "start" /\ plan_start(p, node(p))
  PROVE  MovedIsStale'
<1>. SUFFICES ASSUME NEW q \in Planners, moved'[q]
              PROVE  at'[q] \notin {"idle", "start"} /\ holder'[node(q)'] # q
  BY DEF MovedIsStale
<1>1. /\ at'[q] \notin {"idle", "start"}
      /\ moved[q] \/ (q # p /\ state'[node(q)] # state[node(q)])
  BY DEF watch
<1>2. queue'[q] = queue[q]
  BY <1>1
<1>3. node(q)' = node(q)
  BY <1>2 DEF node
<1>4. at[q] # "idle"
  BY <1>1 DEF PlannerInv, MovedIsStale
<1>5. node(q) \in Tasks
  BY <1>4, NodeIsQueued DEF PlannerInv
<1>6. moved[q] => at[q] # "start" /\ holder[node(q)] # q
  BY DEF PlannerInv, MovedIsStale
<1>7. CASE Bumped
  BY <1>1, <1>3, <1>5, <1>6, <1>7, NoneAssumption DEF Bumped
<1>8. CASE p \in Planners /\ at[p] = "start" /\ plan_start(p, node(p))
  <2>1. node(p) \in Tasks
    BY <1>8, NodeIsQueued DEF PlannerInv
  <2>2. /\ holder'[node(p)] = p
        /\ \A u \in Tasks : u # node(p) => holder'[u] = holder[u] /\ state'[u] = state[u]
    BY <1>8, <2>1, StartGives DEF PlannerInv
  <2>3. q # p
    BY <1>1, <1>6, <1>8
  <2>4. QED
    BY <1>1, <1>3, <1>5, <1>6, <2>2, <2>3
<1>9. QED
  BY <1>1, <1>7, <1>8

-----------------------------------------------------------------------------
(* Types. *)

\* The history variable is a flag per planner, and faults stay within their bound.
LEMMA FlagTypes ==
  ASSUME PlannerTypeOK, NEW p, watch(p)
  PROVE  moved' \in [Planners -> BOOLEAN]
<1>1. moved \in [Planners -> BOOLEAN]
  BY DEF PlannerTypeOK
<1>2. \A q \in Planners :
        (IF at'[q] \in {"idle", "start"} THEN FALSE
         ELSE moved[q] \/ (q # p /\ state'[node(q)] # state[node(q)])) \in BOOLEAN
  BY <1>1, Zenon
<1>3. QED
  BY <1>2 DEF watch

LEMMA FaultTypes ==
  ASSUME PlannerTypeOK, a_fault \/ UNCHANGED faults
  PROVE  faults' \in 0 .. MaxFaults
BY PlannerAssumption DEF PlannerTypeOK, a_fault

\* A session goes on at another step, with the same node.
LEMMA GotoTypes ==
  ASSUME PlannerTypeOK, NEW p \in Planners, NEW s \in At, at[p] # "idle", s # "idle",
         at' = [at EXCEPT ![p] = s], queue' = queue,
         moved' \in [Planners -> BOOLEAN], faults' \in 0 .. MaxFaults,
         open' \in [Planners -> SUBSET Decision], decision' \in [Planners -> Decision],
         \A q \in Planners : decision'[q] = "execute" \/ "execute" \in open'[q] => node(q) # Root,
         repairs' \in [Planners -> 0 .. MaxRepairs], spent' \in [Planners -> BOOLEAN]
  PROVE  PlannerTypeOK'
<1>1. at' \in [Planners -> At]
  BY DEF PlannerTypeOK
<1>2. \A q \in Planners : at'[q] = "idle" <=> at[q] = "idle"
  BY DEF PlannerTypeOK
<1>3. \A q \in Planners : node(q)' = node(q)
  BY DEF node
<1>4. QED
  BY <1>1, <1>2, <1>3 DEF PlannerTypeOK

\* The other nodes keep their place when a planner has done with its own.
LEMMA NextNodeTypes ==
  ASSUME PlannerTypeOK, NEW p \in Planners, at[p] # "idle", next_node(p),
         moved' \in [Planners -> BOOLEAN], faults' \in 0 .. MaxFaults
  PROVE  PlannerTypeOK'
<1>1. node(p) \in queue[p]
  BY NodeIsQueued
<1>2. at' \in [Planners -> At]
  BY DEF next_node, PlannerTypeOK, At
<1>3. queue' \in [Planners -> SUBSET Tasks]
  BY DEF next_node, PlannerTypeOK
<1>4. \A q \in Planners : at'[q] = "idle" <=> queue'[q] = {}
  <2>. TAKE q \in Planners
  <2>1. CASE q = p
    <3>1. queue'[p] = queue[p] \ {node(p)}
      BY DEF next_node, PlannerTypeOK
    <3>2. at'[p] = IF queue[p] = {node(p)} THEN "idle" ELSE "start"
      BY DEF next_node, PlannerTypeOK
    <3>3. QED
      BY <1>1, <2>1, <3>1, <3>2
  <2>2. CASE q # p
    BY <2>2 DEF next_node, PlannerTypeOK
  <2>3. QED
    BY <2>1, <2>2
<1>5. open' \in [Planners -> SUBSET Decision] /\ decision' \in [Planners -> Decision]
  BY DEF next_node, PlannerTypeOK, Decision
<1>6. \A q \in Planners : decision'[q] = "execute" \/ "execute" \in open'[q] => node(q)' # Root
  <2>1. \A q \in Planners : q # p => /\ node(q)' = node(q) /\ decision'[q] = decision[q]
                                    /\ open'[q] = open[q]
    BY DEF next_node, PlannerTypeOK, node
  <2>2. decision'[p] = "reject" /\ open'[p] = {}
    BY DEF next_node, PlannerTypeOK
  <2>3. QED
    BY <2>1, <2>2 DEF PlannerTypeOK
<1>7. repairs' \in [Planners -> 0 .. MaxRepairs]
  BY PlannerAssumption DEF next_node, PlannerTypeOK
<1>8. spent' \in [Planners -> BOOLEAN]
  BY DEF next_node, PlannerTypeOK
<1>9. QED
  BY <1>2, <1>3, <1>4, <1>5, <1>6, <1>7, <1>8 DEF PlannerTypeOK

\* A crash forgets the session; what it held stays with the store.
LEMMA CrashTypes ==
  ASSUME PlannerTypeOK, NEW p \in Planners, crash_session(p),
         moved' \in [Planners -> BOOLEAN], faults' \in 0 .. MaxFaults
  PROVE  PlannerTypeOK'
<1>1. /\ at' \in [Planners -> At] /\ open' \in [Planners -> SUBSET Decision]
      /\ decision' \in [Planners -> Decision]
  BY DEF crash_session, PlannerTypeOK, At, Decision
<1>2. queue' \in [Planners -> SUBSET Tasks]
  BY DEF crash_session, PlannerTypeOK
<1>3. \A q \in Planners : at'[q] = "idle" <=> queue'[q] = {}
  BY DEF crash_session, PlannerTypeOK
<1>4. \A q \in Planners : decision'[q] = "execute" \/ "execute" \in open'[q] => node(q)' # Root
  <2>1. \A q \in Planners : q # p => /\ node(q)' = node(q) /\ decision'[q] = decision[q]
                                    /\ open'[q] = open[q]
    BY DEF crash_session, PlannerTypeOK, node
  <2>2. decision'[p] = "reject" /\ open'[p] = {}
    BY DEF crash_session, PlannerTypeOK
  <2>3. QED
    BY <2>1, <2>2 DEF PlannerTypeOK
<1>5. repairs' \in [Planners -> 0 .. MaxRepairs]
  BY PlannerAssumption DEF crash_session, PlannerTypeOK
<1>6. spent' \in [Planners -> BOOLEAN]
  BY DEF crash_session, PlannerTypeOK
<1>7. QED
  BY <1>1, <1>2, <1>3, <1>4, <1>5, <1>6 DEF PlannerTypeOK

\* A tick begins with the nodes it listed.
LEMMA TickTypes ==
  ASSUME PlannerTypeOK, NEW p \in Planners, tick(p),
         Undecided, moved' \in [Planners -> BOOLEAN], faults' \in 0 .. MaxFaults
  PROVE  PlannerTypeOK'
<1>1. listed # {} /\ listed \in SUBSET Tasks
  BY ListedIsThere DEF tick
<1>2. at' \in [Planners -> At]
  BY DEF tick, PlannerTypeOK, At
<1>3. queue' \in [Planners -> SUBSET Tasks]
  BY <1>1 DEF tick, PlannerTypeOK
<1>4. \A q \in Planners : at'[q] = "idle" <=> queue'[q] = {}
  BY <1>1 DEF tick, PlannerTypeOK
<1>5. \A q \in Planners : decision'[q] = "execute" \/ "execute" \in open'[q] => node(q)' # Root
  <2>1. \A q \in Planners : q # p => node(q)' = node(q)
    BY DEF tick, PlannerTypeOK, node
  <2>2. decision' = decision /\ open' = open /\ decision[p] # "execute" /\ open[p] = {}
    BY DEF tick, Undecided
  <2>3. QED
    BY <2>1, <2>2 DEF PlannerTypeOK
<1>6. QED
  BY <1>2, <1>3, <1>4, <1>5 DEF PlannerTypeOK, tick

\* Every step of a planner keeps the types and decides only at the validator.
LEMMA SessionTypes ==
  ASSUME PlannerTypeOK, Undecided, NEW p \in Planners, watch(p),
         plan(p) \/ start_fails(p) \/ finish_fails(p) \/ crash_session(p)
  PROVE  PlannerTypeOK' /\ Undecided'
<1>1. moved' \in [Planners -> BOOLEAN]
  BY FlagTypes
<1>2. faults' \in 0 .. MaxFaults
  <2>1. a_fault \/ UNCHANGED faults
    BY DEF plan, tick, start_plan, start_fails, context, build_prompt, ask_structured,
           post_validate, finish_plan, close_error, finish_fails, crash_session
  <2>2. QED
    BY <2>1, FaultTypes
<1>3. /\ decision \in [Planners -> Decision] /\ repairs \in [Planners -> 0 .. MaxRepairs]
      /\ spent \in [Planners -> BOOLEAN] /\ at \in [Planners -> At]
      /\ open \in [Planners -> SUBSET Decision]
      /\ \A q \in Planners : decision[q] = "execute" \/ "execute" \in open[q] => node(q) # Root
  BY DEF PlannerTypeOK
<1>4. ASSUME next_node(p), at[p] # "idle"
      PROVE  PlannerTypeOK' /\ Undecided'
  <2>1. PlannerTypeOK'
    BY <1>1, <1>2, <1>4, NextNodeTypes
  <2>2. /\ decision'[p] = "reject" /\ open'[p] = {}
        /\ \A q \in Planners : q # p => /\ decision'[q] = decision[q] /\ open'[q] = open[q]
                                      /\ at'[q] = at[q]
    BY <1>3, <1>4 DEF next_node
  <2>3. QED
    BY <2>1, <2>2 DEF Undecided
<1>5. ASSUME NEW s \in At, at[p] # "idle", s # "idle", goto(p, s), UNCHANGED decision,
             repairs' \in [Planners -> 0 .. MaxRepairs], spent' \in [Planners -> BOOLEAN],
             s \in {"write", "close"} \/ at[p] \notin {"write", "close"}
      PROVE  PlannerTypeOK' /\ Undecided'
  <2>1. PlannerTypeOK'
    BY <1>1, <1>2, <1>3, <1>5, GotoTypes DEF goto
  <2>2. at'[p] = s /\ open' = open /\ \A q \in Planners : q # p => at'[q] = at[q]
    BY <1>3, <1>5 DEF goto
  <2>3. QED
    BY <1>5, <2>1, <2>2 DEF Undecided
<1>6. CASE tick(p)
  <2>1. PlannerTypeOK'
    BY <1>1, <1>2, <1>6, TickTypes
  <2>2. at'[p] = "start" /\ \A q \in Planners : q # p => at'[q] = at[q]
    BY <1>3, <1>6 DEF tick
  <2>3. at[p] = "idle" /\ decision' = decision /\ open' = open
    BY <1>6 DEF tick
  <2>4. QED
    BY <2>1, <2>2, <2>3 DEF Undecided
<1>7. CASE start_plan(p)
  <2>1. at[p] = "start"
    BY <1>7 DEF start_plan
  <2>2. next_node(p) \/ (goto(p, "context") /\ UNCHANGED <<decision, repairs, spent>>)
    BY <1>7 DEF start_plan
  <2>3. QED
    BY <1>3, <1>4, <1>5, <2>1, <2>2 DEF At
<1>8. CASE start_fails(p) \/ close_error(p) \/ finish_fails(p)
  <2>1. next_node(p) /\ at[p] # "idle"
    BY <1>8 DEF start_fails, close_error, finish_fails
  <2>2. QED
    BY <1>4, <2>1
<1>9. CASE context(p) \/ build_prompt(p)
  <2>1. at[p] \in {"context", "prompt"} /\ UNCHANGED <<decision, repairs, spent>>
    BY <1>9 DEF context, build_prompt
  <2>2. CASE \E s \in {"ask", "write", "close"} : goto(p, s)
    BY <1>3, <1>5, <2>1, <2>2 DEF At
  <2>3. ASSUME NEW S \in SUBSET allowed_decisions(node(p)), open' = [open EXCEPT ![p] = S],
               at' = [at EXCEPT ![p] = "prompt"], queue' = queue
        PROVE  PlannerTypeOK' /\ Undecided'
    <3>1. S \subseteq Decision /\ (node(p) = Root => "execute" \notin S)
      BY <2>3, TreeAssumption DEF allowed_decisions
    <3>2. /\ open' \in [Planners -> SUBSET Decision] /\ open'[p] = S
          /\ \A q \in Planners : q # p => open'[q] = open[q]
      BY <1>3, <2>3, <3>1
    <3>3. \A q \in Planners : decision'[q] = "execute" \/ "execute" \in open'[q] => node(q) # Root
      BY <1>3, <2>1, <3>1, <3>2
    <3>4. PlannerTypeOK'
      BY <1>1, <1>2, <1>3, <2>1, <2>3, <3>2, <3>3, GotoTypes DEF At
    <3>5. at'[p] = "prompt" /\ \A q \in Planners : q # p => at'[q] = at[q]
      BY <1>3, <2>3
    <3>6. QED
      BY <2>1, <3>2, <3>4, <3>5 DEF Undecided
  <2>4. QED
    BY <1>9, <2>2, <2>3 DEF context, build_prompt
<1>10. CASE ask_structured(p)
  <2>1. at[p] = "ask" /\ UNCHANGED decision
    BY <1>10 DEF ask_structured
  <2>2. PICK s \in {"close", "validate", "ask"} : goto(p, s)
    BY <1>10 DEF ask_structured
  <2>3. spent' = spent \/ spent' = [spent EXCEPT ![p] = TRUE]
    BY <1>10 DEF ask_structured
  <2>4. spent' \in [Planners -> BOOLEAN]
    BY <1>3, <2>3
  <2>5. \/ repairs' = repairs
        \/ repairs[p] < MaxRepairs /\ repairs' = [repairs EXCEPT ![p] = @ + 1]
    BY <1>10 DEF ask_structured
  <2>6. repairs' \in [Planners -> 0 .. MaxRepairs]
    BY <1>3, <2>5, PlannerAssumption
  <2>7. QED
    BY <1>5, <2>1, <2>2, <2>4, <2>6 DEF At
<1>11. CASE post_validate(p)
  <2>1. at[p] = "validate" /\ UNCHANGED <<repairs, spent>>
    BY <1>11 DEF post_validate
  <2>2. CASE UNCHANGED decision /\ goto(p, "close")
    BY <1>3, <1>5, <2>1, <2>2 DEF At
  <2>3. ASSUME NEW d \in open[p], decision' = [decision EXCEPT ![p] = d],
               goto(p, "write")
        PROVE  PlannerTypeOK' /\ Undecided'
    <3>1. d \in Decision
      BY <1>3, <2>3
    <3>2. node(p) = Root => d # "execute"
      BY <1>3, <2>3
    <3>3. decision' \in [Planners -> Decision]
      BY <1>3, <2>3, <3>1
    <3>4. decision'[p] = d /\ \A q \in Planners : q # p => decision'[q] = decision[q]
      BY <1>3, <2>3
    <3>5. \A q \in Planners : decision'[q] = "execute" \/ "execute" \in open[q] => node(q) # Root
      BY <1>3, <3>2, <3>4
    <3>6. PlannerTypeOK'
      BY <1>1, <1>2, <1>3, <2>1, <2>3, <3>3, <3>5, GotoTypes DEF At, goto
    <3>7. at'[p] = "write" /\ open' = open /\ \A q \in Planners : q # p => at'[q] = at[q]
      BY <1>3, <2>3 DEF goto
    <3>8. QED
      BY <3>4, <3>6, <3>7 DEF Undecided
  <2>4. QED
    BY <1>11, <2>2, <2>3 DEF post_validate
<1>12. CASE finish_plan(p)
  <2>1. at[p] = "write"
    BY <1>12 DEF finish_plan
  <2>2. next_node(p) \/ (goto(p, "close") /\ UNCHANGED <<decision, repairs, spent>>)
    BY <1>12 DEF finish_plan
  <2>3. QED
    BY <1>3, <1>4, <1>5, <2>1, <2>2 DEF At
<1>13. CASE crash_session(p)
  <2>1. PlannerTypeOK'
    BY <1>1, <1>2, <1>13, CrashTypes
  <2>2. /\ decision'[p] = "reject" /\ open'[p] = {}
        /\ \A q \in Planners : q # p => /\ decision'[q] = decision[q] /\ open'[q] = open[q]
                                      /\ at'[q] = at[q]
    BY <1>3, <1>13 DEF crash_session
  <2>3. QED
    BY <2>1, <2>2 DEF Undecided
<1>14. QED
  BY <1>6, <1>7, <1>8, <1>9, <1>10, <1>11, <1>12, <1>13 DEF plan

-----------------------------------------------------------------------------
(* The invariant. *)

LEMMA PlannerInvInit ==
  ASSUME PlannerInit
  PROVE  PlannerTypeOK /\ HeldDecomposes /\ MovedIsStale /\ Undecided
<1>1. /\ at \in [Planners -> At] /\ queue \in [Planners -> SUBSET Tasks]
      /\ open \in [Planners -> SUBSET Decision] /\ decision \in [Planners -> Decision]
      /\ \A p \in Planners : /\ at[p] = "idle" /\ queue[p] = {}
                            /\ open[p] = {} /\ decision[p] = "reject"
  BY DEF PlannerInit, At, Decision
<1>2. repairs \in [Planners -> 0 .. MaxRepairs] /\ faults \in 0 .. MaxFaults
  BY PlannerAssumption DEF PlannerInit
<1>3. spent \in [Planners -> BOOLEAN] /\ moved \in [Planners -> BOOLEAN]
  BY DEF PlannerInit
<1>4. \A p \in Planners : ~moved[p]
  BY DEF PlannerInit
<1>5. \A t \in Tasks : holder[t] = NoPlanner
  BY DEF PlannerInit, Init
<1>6. QED
  BY <1>1, <1>2, <1>3, <1>4, <1>5, NoneAssumption
     DEF PlannerTypeOK, HeldDecomposes, MovedIsStale, Undecided

\* A planner's step leaves the other sessions alone; its own is over, at its next node,
\* or still at the same one.
LEMMA SessionFrame ==
  ASSUME PlannerTypeOK, NEW p \in Planners,
         plan(p) \/ start_fails(p) \/ finish_fails(p) \/ crash_session(p)
  PROVE  /\ \A q \in Planners : q # p => at'[q] = at[q] /\ queue'[q] = queue[q]
         /\ at'[p] \in {"idle", "start"} \/ queue'[p] = queue[p]
<1>1. at \in [Planners -> At] /\ queue \in [Planners -> SUBSET Tasks]
  BY DEF PlannerTypeOK
<1>2. CASE next_node(p)
  BY <1>1, <1>2 DEF next_node
<1>3. CASE \E s : at' = [at EXCEPT ![p] = s] /\ queue' = queue
  BY <1>1, <1>3
<1>4. CASE tick(p) \/ crash_session(p)
  BY <1>1, <1>4 DEF tick, crash_session
<1>5. \/ next_node(p) \/ tick(p) \/ crash_session(p)
      \/ \E s : at' = [at EXCEPT ![p] = s] /\ queue' = queue
  BY DEF plan, start_plan, start_fails, context, build_prompt, ask_structured,
         post_validate, finish_plan, close_error, finish_fails, goto
<1>6. QED
  BY <1>2, <1>3, <1>4, <1>5

\* What a planner's step writes in the store.
LEMMA SessionWrites ==
  ASSUME PlannerTypeOK, NEW p \in Planners,
         plan(p) \/ start_fails(p) \/ finish_fails(p) \/ crash_session(p)
  PROVE  \/ Bumped
         \/ at[p] = "start" /\ plan_start(p, node(p)) /\ node(p) \in Tasks
<1>1. ASSUME UNCHANGED vars PROVE Bumped
  BY <1>1 DEF vars, Bumped
<1>2. CASE \/ tick(p) \/ context(p) \/ build_prompt(p) \/ ask_structured(p)
           \/ post_validate(p) \/ finish_fails(p) \/ crash_session(p)
  BY <1>1, <1>2 DEF tick, context, build_prompt, ask_structured, post_validate, finish_fails,
                    crash_session
<1>3. CASE \/ start_plan(p) \/ start_fails(p) \/ finish_plan(p) \/ close_error(p)
  <2>1. node(p) \in Tasks
    BY <1>3, NodeIsQueued DEF start_plan, start_fails, finish_plan, close_error
  <2>2. decision[p] \in Decision
    BY DEF PlannerTypeOK
  <2>3. \/ UNCHANGED vars
        \/ at[p] = "start" /\ plan_start(p, node(p))
        \/ decided(p, node(p)) \/ plan_close_error(p, node(p)) \/ plan_start_blocked(node(p))
    BY <1>3 DEF start_plan, start_fails, finish_plan, close_error
  <2>4. QED
    BY <1>1, <2>1, <2>2, <2>3, ClosingBumps
<1>4. QED
  BY <1>2, <1>3 DEF plan

LEMMA PlannerInvStep ==
  ASSUME PlannerInv, [PlannerNext]_pvars
  PROVE  PlannerInv'
<1>1. TypeOK'
  <2>1. [Next]_vars
    BY PlannerTakesStoreSteps DEF PlannerInv
  <2>2. QED
    BY <2>1, TypeStep DEF PlannerInv
<1>2. ASSUME NEW p \in Planners, watch(p),
             plan(p) \/ start_fails(p) \/ finish_fails(p) \/ crash_session(p)
      PROVE  PlannerInv'
  <2>1. PlannerTypeOK' /\ Undecided'
    BY <1>2, SessionTypes DEF PlannerInv
  <2>2. /\ \A q \in Planners : q # p => at'[q] = at[q] /\ queue'[q] = queue[q]
        /\ at'[p] \in {"idle", "start"} \/ queue'[p] = queue[p]
    BY <1>2, SessionFrame DEF PlannerInv
  <2>3. \/ Bumped
        \/ at[p] = "start" /\ plan_start(p, node(p)) /\ node(p) \in Tasks
    BY <1>2, SessionWrites DEF PlannerInv
  <2>4. HeldDecomposes'
    BY <2>3, HeldStep DEF PlannerInv
  <2>5. MovedIsStale'
    BY <1>2, <2>2, <2>3, MovedStep
  <2>6. QED
    BY <1>1, <2>1, <2>4, <2>5 DEF PlannerInv
<1>3. ASSUME watch(NoPlanner), policy_edit \/ others_step \/ release_stale
      PROVE  PlannerInv'
  <2>1. UNCHANGED session_vars
    BY <1>3 DEF policy_edit, others_step, release_stale
  <2>2. a_fault \/ UNCHANGED faults
    BY <1>3 DEF policy_edit, others_step, release_stale
  <2>3. faults' \in 0 .. MaxFaults /\ moved' \in [Planners -> BOOLEAN]
    BY <1>3, <2>2, FaultTypes, FlagTypes DEF PlannerInv
  <2>4. /\ at' = at /\ queue' = queue /\ open' = open /\ decision' = decision
        /\ repairs' = repairs /\ spent' = spent
    BY <2>1 DEF session_vars
  <2>5. \A q \in Planners : node(q)' = node(q)
    BY <2>4 DEF node
  <2>6. PlannerTypeOK' /\ Undecided'
    BY <2>3, <2>4, <2>5 DEF PlannerInv, PlannerTypeOK, Undecided
  <2>7. Bumped
    BY <1>3, OthersBump DEF PlannerInv
  <2>8. HeldDecomposes'
    BY <2>7, HeldStep DEF PlannerInv
  <2>9. MovedIsStale'
    BY <1>3, <2>4, <2>7, MovedStep, NoneAssumption
  <2>10. QED
    BY <1>1, <2>6, <2>8, <2>9 DEF PlannerInv
<1>4. CASE UNCHANGED pvars
  <2>1. /\ at' = at /\ queue' = queue /\ open' = open /\ decision' = decision /\ repairs' = repairs
        /\ spent' = spent /\ moved' = moved /\ faults' = faults
        /\ state' = state /\ holder' = holder
    BY <1>4 DEF pvars, session_vars, vars
  <2>2. \A q \in Planners : node(q)' = node(q)
    BY <2>1 DEF node
  <2>3. QED
    BY <1>1, <2>1, <2>2
       DEF PlannerInv, PlannerTypeOK, HeldDecomposes, MovedIsStale, Undecided
<1>5. QED
  BY <1>2, <1>3, <1>4 DEF PlannerNext

-----------------------------------------------------------------------------
(* The theorems. *)

\* The planners implement the store: whatever a session, a crash_session, a lost answer or
\* anybody else does is one protocol of the store, or nothing.
THEOREM PlannerImplementsStore == PlannerSpec => Spec
<1>1. PlannerInit => PlannerTypeOK /\ HeldDecomposes /\ MovedIsStale /\ Undecided /\ Init
  BY PlannerInvInit DEF PlannerInit
<1>2. Init => TypeOK
  BY InitType
<1>3. PlannerInv /\ [PlannerNext]_pvars => PlannerInv' /\ [Next]_vars
  BY PlannerInvStep, PlannerTakesStoreSteps DEF PlannerInv
<1>4. PlannerInit => PlannerInv /\ Init
  BY <1>1, <1>2 DEF PlannerInv
<1>5. QED
  BY <1>3, <1>4, PTL DEF PlannerSpec, Spec

\* The parts of the invariant hold together, always.
THEOREM PlannerInvariant == PlannerSpec => []PlannerInv
<1>1. PlannerInit => PlannerInv
  BY PlannerInvInit, InitType DEF PlannerInit, PlannerInv
<1>2. PlannerInv /\ [PlannerNext]_pvars => PlannerInv'
  BY PlannerInvStep
<1>3. QED
  BY <1>1, <1>2, PTL DEF PlannerSpec

\* A planner is in its protocol and has a node exactly while a tick of it lasts, and
\* never decides to execute the objective (plan_inner, allowed_decisions).
THEOREM PlannerTypeCorrect == PlannerSpec => []PlannerTypeOK
<1>1. PlannerInv => PlannerTypeOK
  BY DEF PlannerInv
<1>2. QED
  BY <1>1, PlannerInvariant, PTL

\* Every invariant of the store holds while planners crash_session, lose answers and race.
THEOREM PlannerKeepsStoreInvariants ==
  PlannerSpec => [](/\ LeaseIntegrity /\ DependenciesDone /\ LeafHasNoChildren
                    /\ FinishedSubtree /\ DoneMeansDone /\ DecomposedWaits)
BY PlannerImplementsStore, LeaseCorrect, TreeCorrect, DependenciesCorrect, PTL

\* The finishing write of a session whose node was moved is refused (cas of the store):
\* nothing is written, also when the node is decomposing again.
THEOREM StaleSessionHolds == PlannerSpec => StaleSessionWritesNothing
<1>1. ASSUME PlannerInv, PlannerNext, NEW p \in Planners, moved[p],
             at[p] \in {"write", "close"}, at'[p] # at[p]
      PROVE  UNCHANGED vars
  <2>1. ~cas(p, node(p))
    BY <1>1 DEF PlannerInv, MovedIsStale, cas
  <2>2. node(p) \in Tasks /\ decision[p] \in Decision
    BY <1>1, NodeIsQueued DEF PlannerInv, PlannerTypeOK
  <2>3. ~(policy_edit \/ others_step \/ release_stale)
    BY <1>1 DEF policy_edit, others_step, release_stale, session_vars
  <2>4. PICK q \in Planners : plan(q) \/ start_fails(q) \/ finish_fails(q) \/ crash_session(q)
    BY <1>1, <2>3 DEF PlannerNext
  <2>5. q = p
    BY <1>1, <2>4, SessionFrame DEF PlannerInv
  <2>6. finish_plan(p) \/ close_error(p) \/ finish_fails(p) \/ crash_session(p)
    BY <1>1, <2>4, <2>5 DEF plan, tick, start_plan, start_fails, context, build_prompt,
                            ask_structured, post_validate
  <2>7. CASE finish_plan(p)
    BY <2>1, <2>2, <2>7, DecidedSteps DEF finish_plan
  <2>8. CASE close_error(p)
    BY <2>1, <2>8 DEF close_error, plan_close_error
  <2>9. CASE finish_fails(p) \/ crash_session(p)
    BY <2>9 DEF finish_fails, crash_session
  <2>10. QED
    BY <2>6, <2>7, <2>8, <2>9
<1>2. PlannerInv /\ [PlannerNext]_pvars =>
        [\A p \in Planners : moved[p] /\ at[p] \in {"write", "close"} /\ at'[p] # at[p]
                             => UNCHANGED vars]_pvars
  BY <1>1
<1>3. QED
  BY <1>2, PlannerInvariant, PTL DEF PlannerSpec, StaleSessionWritesNothing

=============================================================================
