-------------------------- MODULE SchedulerProofs --------------------------
(***************************************************************************)
(* For every number of jobs, drivers and permits, every period, TTL and    *)
(* lag: no job is run twice within the TTL of a claim, a claim is released *)
(* by its owner only, and a one-shot fires once.                           *)
(***************************************************************************)
EXTENDS Scheduler, TLAPS

\* What a driver has in hand belongs to the tick it is in.
RunPlaces ==
  \A d \in Drivers, j \in Jobs :
    /\ pc[d] = "idle" => run[d][j] = "none"
    /\ pc[d] = "claiming" => run[d][j] \in {"none", "queued"}

\* A claim younger than its TTL is the one on the card, with its time.
ClaimOnCard ==
  \A d \in Drivers, j \in Jobs :
    run[d][j] # "none" /\ held[d][j] < TTL => by[j] = d /\ age[j] = held[d][j]

\* A card nobody has written since a tick read it has no claim younger than that
\* tick; since a finish read it, no owner but the finisher.
FreshIsOld ==
  \A d \in Drivers, j \in Jobs :
    /\ pc[d] = "claiming" /\ j \in fresh[d] /\ age[j] # None => age[j] >= lag[d]
    /\ run[d][j] = "finishing" /\ j \in fresh[d] => by[j] = d

\* A card that was never stored is blank.
NewIsBlank == \A j \in Jobs : card[j] = "new" => age[j] = None /\ next[j] = None

\* A one-shot is claimed when its next fire is spent, by one driver, and not fired
\* before that.
OneShotSpent ==
  \A j \in OneShots :
    /\ fired[j] \in 0 .. 1
    /\ card[j] = "new" \/ next[j] # None =>
         fired[j] = 0 /\ \A d \in Drivers : run[d][j] = "none"
    /\ \A d \in Drivers : run[d][j] = "queued" => fired[j] = 0
    /\ \A c, d \in Drivers : c # d /\ run[c][j] # "none" => run[d][j] = "none"

SchedulerInv ==
  /\ SchedulerTypeOK /\ RunPlaces /\ ClaimOnCard
  /\ FreshIsOld /\ NewIsBlank /\ OneShotSpent

RunState == {"none", "queued", "running", "ran", "finishing"}

USE DEF card_vars, tick_vars, run_vars

-----------------------------------------------------------------------------
(* Helpers. *)

\* The initial states satisfy the invariant.
LEMMA SchedulerInit == Init => SchedulerInv
<1>. SUFFICES ASSUME Init PROVE SchedulerInv
  OBVIOUS
<1>. USE SchedulerAssumption DEF Init
<1>1. SchedulerTypeOK
  BY DEF SchedulerTypeOK
<1>2. RunPlaces /\ ClaimOnCard /\ FreshIsOld /\ NewIsBlank
  BY DEF RunPlaces, ClaimOnCard, FreshIsOld, NewIsBlank
<1>3. OneShotSpent
  BY DEF OneShotSpent
<1>4. QED
  BY <1>1, <1>2, <1>3 DEF SchedulerInv

\* in_hand keeps the types and forgets what is not in hand.
LEMMA InHand ==
  ASSUME SchedulerTypeOK, NEW d \in Drivers, NEW S, in_hand(d, S)
  PROVE  /\ run' \in [Drivers -> [Jobs -> RunState]] /\ held' \in [Drivers -> [Jobs -> 0 .. TTL]]
         /\ \A c \in Drivers, j \in Jobs :
              /\ c # d \/ j \in S => run'[c][j] = run[c][j] /\ held'[c][j] = held[c][j]
              /\ c = d /\ j \notin S => run'[c][j] = "none"
<1>1. run' \in [Drivers -> [Jobs -> RunState]]
  BY DEF SchedulerTypeOK, in_hand, RunState
<1>2. held' \in [Drivers -> [Jobs -> 0 .. TTL]]
  BY SchedulerAssumption DEF SchedulerTypeOK, in_hand
<1>3. ASSUME NEW c \in Drivers, NEW j \in Jobs
      PROVE  /\ c # d \/ j \in S => run'[c][j] = run[c][j] /\ held'[c][j] = held[c][j]
             /\ c = d /\ j \notin S => run'[c][j] = "none"
  BY DEF SchedulerTypeOK, in_hand
<1>4. QED
  BY <1>1, <1>2, <1>3

\* A claim is written only where the one before it is as old as its TTL: a fresh card
\* has no claim in the future of its reader.
LEMMA ClaimFacts ==
  ASSUME SchedulerInv, NEW d \in Drivers, NEW j \in Jobs,
         pc[d] = "claiming", swapped(d, j) # {}, ~claim_is_live(age[j], lag[d])
  PROVE  /\ j \in fresh[d]
         /\ age[j] # None => age[j] >= TTL
         /\ \A c \in Drivers : run[c][j] # "none" => held[c][j] = TTL
<1>. USE SchedulerAssumption DEF SchedulerInv
<1>1. j \in fresh[d]
  BY DEF swapped
<1>2. lag[d] \in 0 .. MaxLag
  BY DEF SchedulerTypeOK
<1>3. ASSUME age[j] # None PROVE age[j] >= TTL
  <2>1. age[j] \in Nat /\ age[j] >= lag[d]
    BY <1>1, <1>3 DEF SchedulerTypeOK, FreshIsOld
  <2>2. ~(age[j] - lag[d] < TTL)
    BY <1>3, <2>1 DEF claim_is_live
  <2>3. QED
    BY <1>2, <2>1, <2>2
<1>4. ASSUME NEW c \in Drivers, run[c][j] # "none" PROVE held[c][j] = TTL
  <2>1. held[c][j] \in 0 .. TTL
    BY DEF SchedulerTypeOK
  <2>2. CASE held[c][j] < TTL
    BY <1>3, <1>4, <2>1, <2>2 DEF ClaimOnCard
  <2>3. QED
    BY <2>1, <2>2
<1>5. QED
  BY <1>1, <1>3, <1>4

\* The next fire after a claim, or after a skip, is in range and after the tick's now;
\* a due one-shot has none.
LEMMA NextFireFacts ==
  ASSUME SchedulerTypeOK, NEW j \in Jobs, NEW l \in 0 .. MaxLag, is_due(j, l)
  PROVE  /\ next_fire(j, l) \in {None} \cup (-MaxLag .. Period)
         /\ next_fire(j, l) # None => next_fire(j, l) > -l
         /\ j \in OneShots => next_fire(j, l) = None
         /\ card[j] = "stored" /\ next[j] # None
<1>. USE SchedulerAssumption
<1>1. next[j] \in -MaxLag .. Period /\ next[j] <= -l /\ card[j] = "stored" /\ next[j] # None
  BY DEF SchedulerTypeOK, is_due
<1>2. QED
  BY <1>1 DEF next_fire

\* No driver has anything in hand that it had not.
NothingNew ==
  \A c \in Drivers, i \in Jobs :
    run'[c][i] = "none" \/ (run'[c][i] = run[c][i] /\ held'[c][i] = held[c][i])

\* Runs that are forgotten disturb nothing.
LEMMA Forgotten ==
  ASSUME SchedulerInv, card' = card, next' = next, fired' = fired, NothingNew
  PROVE  /\ OneShotSpent'
         /\ UNCHANGED pc => RunPlaces'
         /\ UNCHANGED <<by, age>> => ClaimOnCard'
<1>. USE SchedulerAssumption DEF SchedulerInv, NothingNew
<1>1. OneShotSpent'
  <2>. SUFFICES ASSUME NEW j \in OneShots
       PROVE  /\ fired'[j] \in 0 .. 1
              /\ card'[j] = "new" \/ next'[j] # None =>
                   fired'[j] = 0 /\ \A d \in Drivers : run'[d][j] = "none"
              /\ \A d \in Drivers : run'[d][j] = "queued" => fired'[j] = 0
              /\ \A c, d \in Drivers : c # d /\ run'[c][j] # "none" => run'[d][j] = "none"
    BY DEF OneShotSpent
  <2>1. j \in Jobs
    OBVIOUS
  <2>2. QED
    BY <2>1 DEF OneShotSpent
<1>2. ASSUME UNCHANGED pc PROVE RunPlaces'
  BY <1>2 DEF RunPlaces
<1>3. ASSUME UNCHANGED <<by, age>> PROVE ClaimOnCard'
  BY <1>3 DEF ClaimOnCard
<1>4. QED
  BY <1>1, <1>2, <1>3

-----------------------------------------------------------------------------
(* The actions. *)

\* A card is stored.
LEMMA ScheduleStep ==
  ASSUME SchedulerInv, NEW j \in Jobs, schedule(j)
  PROVE  SchedulerInv'
<1>. USE SchedulerAssumption DEF SchedulerInv
<1>1. SchedulerTypeOK'
  BY DEF SchedulerTypeOK, schedule
<1>2. RunPlaces'
  BY DEF SchedulerTypeOK, RunPlaces, schedule
<1>3. ClaimOnCard'
  BY DEF SchedulerTypeOK, ClaimOnCard, RunPlaces, schedule
<1>4. FreshIsOld'
  BY DEF SchedulerTypeOK, FreshIsOld, RunPlaces, schedule
<1>5. NewIsBlank'
  BY DEF SchedulerTypeOK, NewIsBlank, schedule
<1>6. OneShotSpent'
  BY DEF SchedulerTypeOK, OneShotSpent, schedule
<1>7. QED
  BY <1>1, <1>2, <1>3, <1>4, <1>5, <1>6

\* A card is deleted; what was read of it is old.
LEMMA CancelStep ==
  ASSUME SchedulerInv, NEW j \in Jobs, cancel(j)
  PROVE  SchedulerInv'
<1>. USE SchedulerAssumption DEF SchedulerInv
<1>1. SchedulerTypeOK'
  BY DEF SchedulerTypeOK, cancel, touched
<1>2. RunPlaces'
  BY DEF SchedulerTypeOK, RunPlaces, cancel, touched
<1>3. ClaimOnCard'
  BY DEF SchedulerTypeOK, ClaimOnCard, RunPlaces, cancel, touched
<1>4. FreshIsOld'
  BY DEF SchedulerTypeOK, FreshIsOld, RunPlaces, cancel, touched
<1>5. NewIsBlank'
  BY DEF SchedulerTypeOK, NewIsBlank, cancel, touched
<1>6. OneShotSpent'
  BY DEF SchedulerTypeOK, OneShotSpent, cancel, touched
<1>7. QED
  BY <1>1, <1>2, <1>3, <1>4, <1>5, <1>6

\* A tick starts with nothing in hand and its now at zero.
LEMMA TickStep ==
  ASSUME SchedulerInv, NEW d \in Drivers, tick(d)
  PROVE  SchedulerInv'
<1>. USE SchedulerAssumption DEF SchedulerInv
<1>1. SchedulerTypeOK'
  BY DEF SchedulerTypeOK, tick
<1>2. RunPlaces'
  BY DEF SchedulerTypeOK, RunPlaces, tick
<1>3. ClaimOnCard'
  BY DEF SchedulerTypeOK, ClaimOnCard, RunPlaces, tick
<1>4. FreshIsOld'
  BY DEF SchedulerTypeOK, FreshIsOld, RunPlaces, tick
<1>5. NewIsBlank'
  BY DEF SchedulerTypeOK, NewIsBlank, tick
<1>6. OneShotSpent'
  BY DEF SchedulerTypeOK, OneShotSpent, tick
<1>7. QED
  BY <1>1, <1>2, <1>3, <1>4, <1>5, <1>6

\* The claims are in hand.
LEMMA DispatchStep ==
  ASSUME SchedulerInv, NEW d \in Drivers, dispatch(d)
  PROVE  SchedulerInv'
<1>. USE SchedulerAssumption DEF SchedulerInv
<1>1. SchedulerTypeOK'
  BY DEF SchedulerTypeOK, dispatch
<1>2. RunPlaces'
  BY DEF SchedulerTypeOK, RunPlaces, dispatch
<1>3. ClaimOnCard'
  BY DEF SchedulerTypeOK, ClaimOnCard, RunPlaces, dispatch
<1>4. FreshIsOld'
  BY DEF SchedulerTypeOK, FreshIsOld, RunPlaces, dispatch
<1>5. NewIsBlank'
  BY DEF SchedulerTypeOK, NewIsBlank, dispatch
<1>6. OneShotSpent'
  BY DEF SchedulerTypeOK, OneShotSpent, dispatch
<1>7. QED
  BY <1>1, <1>2, <1>3, <1>4, <1>5, <1>6

\* A run ends.
LEMMA ExecEndsStep ==
  ASSUME SchedulerInv, NEW d \in Drivers, NEW j \in Jobs, exec_ends(d, j)
  PROVE  SchedulerInv'
<1>. USE SchedulerAssumption DEF SchedulerInv
<1>0. /\ run' \in [Drivers -> [Jobs -> RunState]]
      /\ \A c \in Drivers, i \in Jobs :
           run'[c][i] = IF c = d /\ i = j THEN "ran" ELSE run[c][i]
  <2>1. run' = [run EXCEPT ![d][j] = "ran"] /\ "ran" \in RunState
    BY DEF exec_ends, RunState
  <2>2. QED
    BY <2>1 DEF SchedulerTypeOK, RunState
<1>1. SchedulerTypeOK'
  BY <1>0 DEF SchedulerTypeOK, exec_ends, RunState
<1>2. RunPlaces'
  BY <1>0 DEF SchedulerTypeOK, RunPlaces, exec_ends, RunState
<1>3. ClaimOnCard'
  BY <1>0 DEF SchedulerTypeOK, ClaimOnCard, RunPlaces, exec_ends, RunState
<1>4. FreshIsOld'
  BY <1>0 DEF SchedulerTypeOK, FreshIsOld, RunPlaces, exec_ends, RunState
<1>5. NewIsBlank'
  BY <1>0 DEF SchedulerTypeOK, NewIsBlank, exec_ends, RunState
<1>6. OneShotSpent'
  BY <1>0 DEF SchedulerTypeOK, OneShotSpent, exec_ends, RunState
<1>7. QED
  BY <1>1, <1>2, <1>3, <1>4, <1>5, <1>6

\* A tick ends with nothing in hand.
LEMMA TickEndsStep ==
  ASSUME SchedulerInv, NEW d \in Drivers, tick_ends(d)
  PROVE  SchedulerInv'
<1>. USE SchedulerAssumption DEF SchedulerInv
<1>1. SchedulerTypeOK'
  BY DEF SchedulerTypeOK, tick_ends
<1>2. RunPlaces'
  BY DEF SchedulerTypeOK, RunPlaces, tick_ends
<1>3. ClaimOnCard'
  BY DEF SchedulerTypeOK, ClaimOnCard, RunPlaces, tick_ends
<1>4. FreshIsOld'
  BY DEF SchedulerTypeOK, FreshIsOld, RunPlaces, tick_ends
<1>5. NewIsBlank'
  BY DEF SchedulerTypeOK, NewIsBlank, tick_ends
<1>6. OneShotSpent'
  BY DEF SchedulerTypeOK, OneShotSpent, tick_ends
<1>7. QED
  BY <1>1, <1>2, <1>3, <1>4, <1>5, <1>6

\* A run starts: of a one-shot the first one.
LEMMA RunClaimedStep ==
  ASSUME SchedulerInv, NEW d \in Drivers, NEW j \in Jobs, run_claimed(d, j)
  PROVE  SchedulerInv'
<1>. USE SchedulerAssumption DEF SchedulerInv
<1>0. /\ run' \in [Drivers -> [Jobs -> RunState]]
      /\ \A c \in Drivers, i \in Jobs :
           run'[c][i] = IF c = d /\ i = j THEN "running" ELSE run[c][i]
  <2>1. run' = [run EXCEPT ![d][j] = "running"] /\ "running" \in RunState
    BY DEF run_claimed, RunState
  <2>2. QED
    BY <2>1 DEF SchedulerTypeOK, RunState
<1>1. SchedulerTypeOK'
  BY <1>0 DEF SchedulerTypeOK, run_claimed, RunState
<1>2. RunPlaces'
  BY <1>0 DEF SchedulerTypeOK, RunPlaces, run_claimed, RunState
<1>3. ClaimOnCard'
  BY <1>0 DEF SchedulerTypeOK, ClaimOnCard, RunPlaces, run_claimed, RunState
<1>4. FreshIsOld'
  BY <1>0 DEF SchedulerTypeOK, FreshIsOld, RunPlaces, run_claimed, RunState
<1>5. NewIsBlank'
  BY <1>0 DEF SchedulerTypeOK, NewIsBlank, run_claimed, RunState
<1>6. OneShotSpent'
  BY <1>0 DEF SchedulerTypeOK, OneShotSpent, run_claimed, RunState
<1>7. QED
  BY <1>1, <1>2, <1>3, <1>4, <1>5, <1>6

\* The run is forgotten, and its claim left.
LEMMA FinishFailsStep ==
  ASSUME SchedulerInv, NEW d \in Drivers, NEW j \in Jobs, finish_fails(d, j)
  PROVE  SchedulerInv'
<1>. USE SchedulerAssumption DEF SchedulerInv
<1>0. /\ run' \in [Drivers -> [Jobs -> RunState]] /\ held' \in [Drivers -> [Jobs -> 0 .. TTL]]
      /\ \A c \in Drivers, i \in Jobs :
           /\ c # d \/ i # j => run'[c][i] = run[c][i] /\ held'[c][i] = held[c][i]
           /\ c = d /\ ~(i # j) => run'[c][i] = "none"
  BY InHand DEF finish_fails
<1>a. NothingNew
  BY <1>0 DEF NothingNew
<1>b. card' = card /\ next' = next /\ fired' = fired
  BY DEF finish_fails
<1>1. SchedulerTypeOK'
  <2>1. fresh' \in [Drivers -> SUBSET Jobs] /\ faults' \in 0 .. MaxFaults
    BY DEF SchedulerTypeOK, finish_fails, a_fault
  <2>2. QED
    BY <1>0, <2>1 DEF SchedulerTypeOK, finish_fails, RunState
<1>2. RunPlaces'
  BY <1>a, <1>b, Forgotten DEF finish_fails
<1>3. ClaimOnCard'
  BY <1>a, <1>b, Forgotten DEF finish_fails
<1>4. FreshIsOld'
  BY <1>0 DEF SchedulerTypeOK, FreshIsOld, RunPlaces, finish_fails, a_fault
<1>5. NewIsBlank'
  BY <1>0 DEF SchedulerTypeOK, NewIsBlank, finish_fails, a_fault
<1>6. OneShotSpent'
  BY <1>a, <1>b, Forgotten DEF finish_fails
<1>7. QED
  BY <1>1, <1>2, <1>3, <1>4, <1>5, <1>6

\* Whatever the driver had in hand is forgotten.
LEMMA CrashStep ==
  ASSUME SchedulerInv, NEW d \in Drivers, crash(d)
  PROVE  SchedulerInv'
<1>. USE SchedulerAssumption DEF SchedulerInv
<1>0. /\ run' \in [Drivers -> [Jobs -> RunState]] /\ held' \in [Drivers -> [Jobs -> 0 .. TTL]]
      /\ \A c \in Drivers, i \in Jobs :
           /\ c # d \/ FALSE => run'[c][i] = run[c][i] /\ held'[c][i] = held[c][i]
           /\ c = d /\ ~(FALSE) => run'[c][i] = "none"
  BY InHand DEF crash
<1>a. NothingNew
  BY <1>0 DEF NothingNew
<1>b. card' = card /\ next' = next /\ fired' = fired
  BY DEF crash
<1>1. SchedulerTypeOK'
  <2>1. /\ fresh' \in [Drivers -> SUBSET Jobs] /\ todo' \in [Drivers -> SUBSET Jobs]
        /\ faults' \in 0 .. MaxFaults /\ lag' \in [Drivers -> 0 .. MaxLag]
        /\ pc' \in [Drivers -> {"idle", "claiming", "firing"}]
    BY DEF SchedulerTypeOK, crash, a_fault
  <2>2. /\ by' \in [Jobs -> {None, Ended} \cup Drivers]
        /\ \A j \in Jobs : by'[j] = None <=> by[j] = None
    BY DEF SchedulerTypeOK, crash
  <2>3. QED
    BY <1>0, <2>1, <2>2 DEF SchedulerTypeOK, crash, RunState
<1>2. RunPlaces'
  BY <1>0 DEF SchedulerTypeOK, RunPlaces, crash, a_fault
<1>3. ClaimOnCard'
  BY <1>0 DEF SchedulerTypeOK, ClaimOnCard, RunPlaces, crash, a_fault
<1>4. FreshIsOld'
  BY <1>0 DEF SchedulerTypeOK, FreshIsOld, RunPlaces, crash, a_fault
<1>5. NewIsBlank'
  BY <1>0 DEF SchedulerTypeOK, NewIsBlank, crash, a_fault
<1>6. OneShotSpent'
  BY <1>a, <1>b, Forgotten DEF crash
<1>7. QED
  BY <1>1, <1>2, <1>3, <1>4, <1>5, <1>6

\* A claim is released by the owner on the card.
LEMMA FinishWriteStep ==
  ASSUME SchedulerInv, NEW d \in Drivers, NEW j \in Jobs, finish_write(d, j)
  PROVE  SchedulerInv'
<1>. USE SchedulerAssumption DEF SchedulerInv
<1>0. /\ run' \in [Drivers -> [Jobs -> RunState]] /\ held' \in [Drivers -> [Jobs -> 0 .. TTL]]
      /\ \A c \in Drivers, i \in Jobs :
           /\ c # d \/ i # j => run'[c][i] = run[c][i] /\ held'[c][i] = held[c][i]
           /\ c = d /\ ~(i # j) => run'[c][i] = "none"
  BY InHand DEF finish_write
<1>a. NothingNew
  BY <1>0 DEF NothingNew
<1>b. /\ card' = card /\ next' = next /\ fired' = fired /\ pc' = pc /\ lag' = lag
      /\ todo' = todo /\ faults' = faults
  BY DEF finish_write
<1>c. OneShotSpent' /\ RunPlaces'
  BY <1>a, <1>b, Forgotten
<1>1. CASE swapped(d, j) = {}
  <2>1. by' = by /\ age' = age /\ enabled' = enabled /\ fresh' = fresh
    BY <1>1 DEF finish_write
  <2>2. SchedulerTypeOK'
    BY <1>0, <1>b, <2>1 DEF SchedulerTypeOK, RunState
  <2>3. ClaimOnCard'
    BY <1>a, <1>b, <2>1, Forgotten
  <2>4. FreshIsOld'
    BY <1>0, <1>b, <2>1 DEF FreshIsOld
  <2>5. NewIsBlank'
    BY <1>b, <2>1 DEF NewIsBlank
  <2>6. QED
    BY <1>c, <2>2, <2>3, <2>4, <2>5
<1>2. CASE swapped(d, j) # {}
  <2>1. by[j] = d
    BY <1>2 DEF finish_write, swapped, FreshIsOld
  <2>2. /\ by' = [by EXCEPT ![j] = None] /\ age' = [age EXCEPT ![j] = None]
        /\ fresh' = [c \in Drivers |-> fresh[c] \ {j}]
        /\ enabled' = [enabled EXCEPT ![j] = next[j] # None]
    BY <1>2 DEF finish_write, released, touched
  <2>3. SchedulerTypeOK'
    <3>1. enabled' \in [Jobs -> BOOLEAN]
      BY <2>2, Zenon DEF SchedulerTypeOK
    <3>2. QED
      BY <1>0, <1>b, <2>2, <3>1 DEF SchedulerTypeOK, RunState
  <2>4. ClaimOnCard'
    BY <1>0, <2>1, <2>2 DEF SchedulerTypeOK, ClaimOnCard
  <2>5. FreshIsOld'
    BY <1>0, <1>b, <2>2 DEF SchedulerTypeOK, FreshIsOld
  <2>6. NewIsBlank'
    BY <1>b, <2>2 DEF SchedulerTypeOK, NewIsBlank
  <2>7. QED
    BY <1>c, <2>3, <2>4, <2>5, <2>6
<1>3. QED
  BY <1>1, <1>2

\* finish goes on with the claim that is on the card, or is over.
LEMMA FinishReadStep ==
  ASSUME SchedulerInv, NEW d \in Drivers, NEW j \in Jobs, finish_read(d, j)
  PROVE  SchedulerInv'
<1>. USE SchedulerAssumption DEF SchedulerInv
<1>0. /\ card' = card /\ next' = next /\ fired' = fired /\ pc' = pc /\ lag' = lag
      /\ todo' = todo /\ faults' = faults /\ by' = by /\ age' = age /\ enabled' = enabled
      /\ run[d][j] = "ran"
  BY DEF finish_read
<1>1. CASE card[j] = "stored" /\ owns(d, j)
  <2>1. /\ run' = [run EXCEPT ![d][j] = "finishing"] /\ held' = held
        /\ fresh' = [fresh EXCEPT ![d] = @ \cup {j}] /\ by[j] = d
    BY <1>1 DEF finish_read, owns
  <2>2. /\ run' \in [Drivers -> [Jobs -> RunState]]
        /\ \A c \in Drivers, i \in Jobs :
             run'[c][i] = IF c = d /\ i = j THEN "finishing" ELSE run[c][i]
    BY <2>1 DEF SchedulerTypeOK, RunState
  <2>3. pc[d] = "firing"
    BY <1>0 DEF SchedulerTypeOK, RunPlaces
  <2>4. SchedulerTypeOK'
    BY <1>0, <2>1, <2>2 DEF SchedulerTypeOK, RunState
  <2>5. RunPlaces'
    BY <1>0, <2>2, <2>3 DEF RunPlaces
  <2>6. ClaimOnCard'
    BY <1>0, <2>1, <2>2 DEF ClaimOnCard
  <2>7. FreshIsOld'
    BY <1>0, <2>1, <2>2, <2>3 DEF SchedulerTypeOK, FreshIsOld
  <2>8. NewIsBlank'
    BY <1>0 DEF NewIsBlank
  <2>9. OneShotSpent'
    <3>1. ASSUME NEW i \in OneShots
          PROVE  /\ fired'[i] \in 0 .. 1
                 /\ card'[i] = "new" \/ next'[i] # None =>
                      fired'[i] = 0 /\ \A c \in Drivers : run'[c][i] = "none"
                 /\ \A c \in Drivers : run'[c][i] = "queued" => fired'[i] = 0
                 /\ \A b, c \in Drivers : b # c /\ run'[b][i] # "none" => run'[c][i] = "none"
      <4>1. i \in Jobs
        OBVIOUS
      <4>2. QED
        BY <4>1, <1>0, <2>2 DEF OneShotSpent
    <3>2. QED
      BY <3>1 DEF OneShotSpent
  <2>10. QED
    BY <2>4, <2>5, <2>6, <2>7, <2>8, <2>9
<1>2. CASE ~(card[j] = "stored" /\ owns(d, j))
  <2>1. in_hand(d, Jobs \ {j}) /\ fresh' = fresh
    BY <1>2 DEF finish_read
  <2>2. /\ run' \in [Drivers -> [Jobs -> RunState]] /\ held' \in [Drivers -> [Jobs -> 0 .. TTL]]
        /\ \A c \in Drivers, i \in Jobs :
             /\ c # d \/ i # j => run'[c][i] = run[c][i] /\ held'[c][i] = held[c][i]
             /\ c = d /\ i = j => run'[c][i] = "none"
    BY <2>1, InHand
  <2>3. NothingNew
    BY <2>2 DEF NothingNew
  <2>4. SchedulerTypeOK'
    BY <1>0, <2>1, <2>2 DEF SchedulerTypeOK, RunState
  <2>5. RunPlaces' /\ ClaimOnCard' /\ OneShotSpent'
    BY <1>0, <2>3, Forgotten
  <2>6. FreshIsOld'
    BY <1>0, <2>1, <2>2 DEF FreshIsOld
  <2>7. NewIsBlank'
    BY <1>0 DEF NewIsBlank
  <2>8. QED
    BY <2>4, <2>5, <2>6, <2>7
<1>3. QED
  BY <1>1, <1>2

\* Time passes for the claim on the card and the one in hand alike.
LEMMA ClockStep ==
  ASSUME SchedulerInv, clock
  PROVE  SchedulerInv'
<1>. USE SchedulerAssumption DEF SchedulerInv
<1>1. SchedulerTypeOK'
  <2>0. ASSUME NEW j \in Jobs
        PROVE  /\ next'[j] \in {None} \cup (-MaxLag .. Period)
               /\ age'[j] \in {None} \cup (0 .. TTL + MaxLag)
               /\ age'[j] = None <=> by'[j] = None
               /\ age'[j] # None /\ next'[j] # None /\ card'[j] = "stored" => next'[j] > -age'[j]
    <3>1. /\ next'[j] = IF next[j] = None \/ card[j] # "stored" \/ next[j] = -MaxLag
                        THEN next[j] ELSE next[j] - 1
          /\ age'[j] = IF age[j] = None \/ age[j] = TTL + MaxLag THEN age[j] ELSE age[j] + 1
          /\ by'[j] = by[j] /\ card'[j] = card[j]
      BY DEF clock
    <3>2. /\ next[j] = None \/ next[j] \in -MaxLag .. Period
          /\ age[j] = None \/ age[j] \in 0 .. TTL + MaxLag
          /\ age[j] = None <=> by[j] = None
          /\ age[j] # None /\ next[j] # None /\ card[j] = "stored" => next[j] > -age[j]
      BY DEF SchedulerTypeOK
    <3>3. /\ next'[j] = None <=> next[j] = None
          /\ age'[j] = None <=> age[j] = None
          /\ next[j] # None => next'[j] \in -MaxLag .. Period
          /\ age[j] # None => age'[j] \in 0 .. TTL + MaxLag
      BY <3>1, <3>2
    <3>4. ASSUME age'[j] # None, next'[j] # None, card'[j] = "stored"
          PROVE  next'[j] > -age'[j]
      BY <3>1, <3>2, <3>3, <3>4
    <3>5. QED
      BY <3>1, <3>2, <3>3, <3>4
  <2>1. /\ next' = [j \in Jobs |-> next'[j]] /\ age' = [j \in Jobs |-> age'[j]]
        /\ card' = card /\ by' = by
    BY DEF clock
  <2>4. lag' \in [Drivers -> 0 .. MaxLag]
    BY DEF SchedulerTypeOK, clock
  <2>5. held' \in [Drivers -> [Jobs -> 0 .. TTL]]
    BY DEF SchedulerTypeOK, clock
  <2>6. QED
    <3>1. next' \in [Jobs -> {None} \cup (-MaxLag .. Period)]
      BY <2>0, <2>1
    <3>2. age' \in [Jobs -> {None} \cup (0 .. TTL + MaxLag)]
      BY <2>0, <2>1
    <3>3. QED
      BY <2>0, <2>1, <2>4, <2>5, <3>1, <3>2 DEF SchedulerTypeOK, clock
<1>2. RunPlaces'
  BY DEF SchedulerTypeOK, RunPlaces, clock
<1>3. ClaimOnCard'
  BY DEF SchedulerTypeOK, ClaimOnCard, RunPlaces, clock
<1>4. FreshIsOld'
  BY DEF SchedulerTypeOK, FreshIsOld, RunPlaces, clock
<1>5. NewIsBlank'
  BY DEF SchedulerTypeOK, NewIsBlank, clock
<1>6. OneShotSpent'
  BY DEF SchedulerTypeOK, OneShotSpent, clock
<1>7. QED
  BY <1>1, <1>2, <1>3, <1>4, <1>5, <1>6

\* A card is claimed: nobody else has a claim on it that is younger than its TTL.
LEMMA ClaimCard ==
  ASSUME SchedulerInv, NEW d \in Drivers, NEW j \in Jobs,
         pc[d] = "claiming", swapped(d, j) # {}, is_due(j, lag[d]),
         ~claim_is_live(age[j], lag[d]), claim(d, j), fired' = fired,
         pc' = [pc EXCEPT ![d] = "firing"] \/ pc' = pc,
         \A c \in Drivers \ {d} : lag'[c] = lag[c],
         pc' = pc => lag'[d] = lag[d],
         \A c \in Drivers, i \in Jobs :
            \/ run'[c][i] = "none"
            \/ ~(c = d /\ i = j) /\ run'[c][i] = run[c][i] /\ held'[c][i] = held[c][i]
            \/ /\ c = d /\ i = j /\ run'[c][i] = "queued"
               /\ held'[c][i] = IF lag[d] < TTL THEN lag[d] ELSE TTL
  PROVE  /\ next' \in [Jobs -> {None} \cup (-MaxLag .. Period)]
         /\ age' \in [Jobs -> {None} \cup (0 .. TTL + MaxLag)]
         /\ by' \in [Jobs -> {None, Ended} \cup Drivers]
         /\ \A i \in Jobs :
              /\ age'[i] = None <=> by'[i] = None
              /\ age'[i] # None /\ next'[i] # None /\ card'[i] = "stored" => next'[i] > -age'[i]
         /\ fresh' \in [Drivers -> SUBSET Jobs]
         /\ RunPlaces' /\ ClaimOnCard' /\ FreshIsOld' /\ NewIsBlank' /\ OneShotSpent'
<1>. USE SchedulerAssumption DEF SchedulerInv
<1>0. lag[d] \in 0 .. MaxLag
  BY DEF SchedulerTypeOK
<1>1. /\ next_fire(j, lag[d]) \in {None} \cup (-MaxLag .. Period)
      /\ next_fire(j, lag[d]) # None => next_fire(j, lag[d]) > -lag[d]
      /\ j \in OneShots => next_fire(j, lag[d]) = None
      /\ card[j] = "stored" /\ next[j] # None
  BY <1>0, NextFireFacts
<1>2. \A c \in Drivers : run[c][j] # "none" => held[c][j] = TTL
  BY ClaimFacts
<1>3. /\ next' = [next EXCEPT ![j] = next_fire(j, lag[d])]
      /\ age' = [age EXCEPT ![j] = lag[d]] /\ by' = [by EXCEPT ![j] = d]
      /\ fresh' = [c \in Drivers |-> fresh[c] \ {j}] /\ card' = card
  BY DEF claim, touched
<1>4. next' \in [Jobs -> {None} \cup (-MaxLag .. Period)]
  BY <1>1, <1>3 DEF SchedulerTypeOK
<1>5. /\ age' \in [Jobs -> {None} \cup (0 .. TTL + MaxLag)]
      /\ by' \in [Jobs -> {None, Ended} \cup Drivers]
      /\ fresh' \in [Drivers -> SUBSET Jobs]
  BY <1>0, <1>3 DEF SchedulerTypeOK
<1>6. ASSUME NEW i \in Jobs
      PROVE  /\ age'[i] = None <=> by'[i] = None
             /\ age'[i] # None /\ next'[i] # None /\ card'[i] = "stored" => next'[i] > -age'[i]
  BY <1>0, <1>1, <1>3 DEF SchedulerTypeOK
<1>7. RunPlaces'
  <2>1. ASSUME NEW c \in Drivers, NEW i \in Jobs
        PROVE  /\ pc'[c] = "idle" => run'[c][i] = "none"
               /\ pc'[c] = "claiming" => run'[c][i] \in {"none", "queued"}
    BY DEF SchedulerTypeOK, RunPlaces
  <2>2. QED
    BY <2>1 DEF RunPlaces
<1>8. ClaimOnCard'
  <2>1. ASSUME NEW c \in Drivers, NEW i \in Jobs, run'[c][i] # "none", held'[c][i] < TTL
        PROVE  by'[i] = c /\ age'[i] = held'[c][i]
    <3>1. CASE c = d /\ i = j
      BY <1>0, <1>3, <2>1, <3>1 DEF SchedulerTypeOK
    <3>2. CASE ~(c = d /\ i = j)
      <4>1. run[c][i] # "none" /\ held'[c][i] = held[c][i] /\ held[c][i] < TTL
        BY <2>1, <3>2
      <4>2. i # j
        BY <1>2, <4>1
      <4>3. QED
        BY <1>3, <4>1, <4>2 DEF ClaimOnCard, SchedulerTypeOK
    <3>3. QED
      BY <3>1, <3>2
  <2>2. QED
    BY <2>1 DEF ClaimOnCard
<1>9. FreshIsOld'
  <2>1. ASSUME NEW c \in Drivers, NEW i \in Jobs, i \in fresh'[c]
        PROVE  /\ pc'[c] = "claiming" /\ age'[i] # None => age'[i] >= lag'[c]
               /\ run'[c][i] = "finishing" => by'[i] = c
    <3>1. i # j /\ i \in fresh[c] /\ age'[i] = age[i] /\ by'[i] = by[i]
      BY <1>3, <2>1 DEF SchedulerTypeOK
    <3>2. run'[c][i] = "finishing" => run[c][i] = "finishing"
      BY <3>1
    <3>3. pc'[c] = "claiming" => pc[c] = "claiming" /\ lag'[c] = lag[c]
      BY DEF SchedulerTypeOK
    <3>4. QED
      BY <3>1, <3>2, <3>3 DEF FreshIsOld
  <2>2. QED
    BY <2>1 DEF FreshIsOld
<1>10. NewIsBlank'
  BY <1>1, <1>3 DEF SchedulerTypeOK, NewIsBlank
<1>11. OneShotSpent'
  <2>1. ASSUME NEW i \in OneShots
        PROVE  /\ fired'[i] \in 0 .. 1
               /\ card'[i] = "new" \/ next'[i] # None =>
                    fired'[i] = 0 /\ \A c \in Drivers : run'[c][i] = "none"
               /\ \A c \in Drivers : run'[c][i] = "queued" => fired'[i] = 0
               /\ \A b, c \in Drivers : b # c /\ run'[b][i] # "none" => run'[c][i] = "none"
    <3>1. i \in Jobs
      OBVIOUS
    <3>2. CASE i = j
      <4>1. fired[j] = 0 /\ \A c \in Drivers : run[c][j] = "none"
        BY <1>1, <3>2 DEF OneShotSpent
      <4>2. \A c \in Drivers : run'[c][j] = "none" \/ (c = d /\ run'[c][j] = "queued")
        BY <4>1
      <4>3. next'[j] = None /\ card'[j] = "stored"
        BY <1>1, <1>3, <3>2 DEF SchedulerTypeOK
      <4>4. QED
        BY <3>2, <4>1, <4>2, <4>3
    <3>3. CASE i # j
      <4>1. next'[i] = next[i] /\ card'[i] = card[i]
        BY <1>3, <3>1, <3>3 DEF SchedulerTypeOK
      <4>2. \A c \in Drivers : run'[c][i] = "none" \/ run'[c][i] = run[c][i]
        BY <3>1, <3>3
      <4>3. QED
        BY <3>1, <4>1, <4>2 DEF OneShotSpent
    <3>4. QED
      BY <3>2, <3>3
  <2>2. QED
    BY <2>1 DEF OneShotSpent
<1>12. QED
  BY <1>4, <1>5, <1>6, <1>7, <1>8, <1>9, <1>10, <1>11

\* One card of a batch: claimed, skipped, or left as it is.
LEMMA ClaimDueStep ==
  ASSUME SchedulerInv, NEW d \in Drivers, NEW j \in Jobs, claim_due(d, j)
  PROVE  SchedulerInv'
<1>. USE SchedulerAssumption DEF SchedulerInv
<1>0. /\ pc' = pc /\ lag' = lag /\ fired' = fired /\ faults' = faults /\ pc[d] = "claiming"
      /\ todo' = [todo EXCEPT ![d] = @ \ {j}] /\ lag[d] \in 0 .. MaxLag
  BY DEF claim_due, SchedulerTypeOK
<1>1. CASE swapped(d, j) = {} \/ ~is_due(j, lag[d])
  <2>1. /\ fresh' = [fresh EXCEPT ![d] = @ \ {j}] /\ run' = run /\ held' = held
        /\ card' = card /\ next' = next /\ age' = age /\ by' = by /\ enabled' = enabled
    BY <1>1 DEF claim_due
  <2>2. SchedulerTypeOK'
    BY <1>0, <2>1 DEF SchedulerTypeOK
  <2>3. RunPlaces' /\ ClaimOnCard' /\ NewIsBlank'
    BY <1>0, <2>1 DEF RunPlaces, ClaimOnCard, NewIsBlank
  <2>4. FreshIsOld'
    BY <1>0, <2>1 DEF SchedulerTypeOK, FreshIsOld
  <2>5. OneShotSpent'
    BY <1>0, <2>1 DEF OneShotSpent
  <2>6. QED
    BY <2>2, <2>3, <2>4, <2>5
<1>2. CASE swapped(d, j) # {} /\ is_due(j, lag[d]) /\ claim_is_live(age[j], lag[d])
  <2>1. /\ next' = [next EXCEPT ![j] = next_fire(j, lag[d])]
        /\ fresh' = [c \in Drivers |-> fresh[c] \ {j}] /\ run' = run /\ held' = held
        /\ card' = card /\ age' = age /\ by' = by /\ enabled' = enabled
    BY <1>2 DEF claim_due, skip, touched
  <2>2. /\ next_fire(j, lag[d]) \in {None} \cup (-MaxLag .. Period)
        /\ next_fire(j, lag[d]) # None => next_fire(j, lag[d]) > -lag[d]
        /\ card[j] = "stored" /\ next[j] # None
    BY <1>0, <1>2, NextFireFacts
  <2>3. age[j] # None /\ age[j] >= lag[d]
    BY <1>2 DEF claim_is_live
  <2>4. SchedulerTypeOK'
    <3>1. next' \in [Jobs -> {None} \cup (-MaxLag .. Period)]
      BY <2>1, <2>2 DEF SchedulerTypeOK
    <3>2. ASSUME NEW i \in Jobs, age'[i] # None, next'[i] # None, card'[i] = "stored"
          PROVE  next'[i] > -age'[i]
      <4>1. CASE i = j
        <5>1. next'[i] = next_fire(j, lag[d]) /\ age'[i] = age[j] /\ age[j] \in Nat
          BY <2>1, <2>3, <4>1 DEF SchedulerTypeOK
        <5>2. next'[i] \in Int /\ next'[i] > -lag[d]
          BY <2>2, <3>2, <5>1
        <5>3. QED
          BY <1>0, <2>3, <5>1, <5>2
      <4>2. CASE i # j
        BY <2>1, <3>2, <4>2 DEF SchedulerTypeOK
      <4>3. QED
        BY <4>1, <4>2
    <3>3. QED
      BY <1>0, <2>1, <3>1, <3>2 DEF SchedulerTypeOK
  <2>5. RunPlaces' /\ ClaimOnCard'
    BY <1>0, <2>1 DEF RunPlaces, ClaimOnCard
  <2>6. FreshIsOld'
    BY <1>0, <2>1 DEF SchedulerTypeOK, FreshIsOld
  <2>7. NewIsBlank'
    BY <2>1, <2>2 DEF SchedulerTypeOK, NewIsBlank
  <2>8. OneShotSpent'
    <3>1. \A i \in Jobs : next'[i] # None => next[i] # None
      BY <2>1, <2>2 DEF SchedulerTypeOK
    <3>2. QED
      BY <1>0, <2>1, <3>1 DEF OneShotSpent
  <2>9. QED
    BY <2>4, <2>5, <2>6, <2>7, <2>8
<1>3. CASE swapped(d, j) # {} /\ is_due(j, lag[d]) /\ ~claim_is_live(age[j], lag[d])
  <2>1. /\ claim(d, j) /\ run' = [run EXCEPT ![d][j] = "queued"]
        /\ held' = [held EXCEPT ![d][j] = IF lag[d] < TTL THEN lag[d] ELSE TTL]
        /\ card' = card /\ enabled' = enabled
    BY <1>3 DEF claim_due, claim
  <2>2. /\ run' \in [Drivers -> [Jobs -> RunState]]
        /\ \A c \in Drivers, i \in Jobs :
             run'[c][i] = IF c = d /\ i = j THEN "queued" ELSE run[c][i]
    BY <2>1 DEF SchedulerTypeOK, RunState
  <2>3. /\ held' \in [Drivers -> [Jobs -> 0 .. TTL]]
        /\ \A c \in Drivers, i \in Jobs :
             held'[c][i] = IF c = d /\ i = j THEN (IF lag[d] < TTL THEN lag[d] ELSE TTL)
                           ELSE held[c][i]
    BY <1>0, <2>1 DEF SchedulerTypeOK
  <2>4. /\ next' \in [Jobs -> {None} \cup (-MaxLag .. Period)]
        /\ age' \in [Jobs -> {None} \cup (0 .. TTL + MaxLag)]
        /\ by' \in [Jobs -> {None, Ended} \cup Drivers]
        /\ \A i \in Jobs :
             /\ age'[i] = None <=> by'[i] = None
             /\ age'[i] # None /\ next'[i] # None /\ card'[i] = "stored" => next'[i] > -age'[i]
        /\ fresh' \in [Drivers -> SUBSET Jobs]
        /\ RunPlaces' /\ ClaimOnCard' /\ FreshIsOld' /\ NewIsBlank' /\ OneShotSpent'
    BY <1>0, <1>3, <2>1, <2>2, <2>3, ClaimCard
  <2>5. SchedulerTypeOK'
    BY <1>0, <2>1, <2>2, <2>3, <2>4 DEF SchedulerTypeOK, RunState
  <2>6. QED
    BY <2>4, <2>5
<1>4. QED
  BY <1>1, <1>2, <1>3

\* An error ends the batch; a claim that was written all the same stays on its card.
LEMMA ClaimDueFailsStep ==
  ASSUME SchedulerInv, NEW d \in Drivers, claim_due_fails(d)
  PROVE  SchedulerInv'
<1>. USE SchedulerAssumption DEF SchedulerInv
<1>0. /\ pc' = [pc EXCEPT ![d] = "firing"] /\ lag' = [lag EXCEPT ![d] = 0]
      /\ todo' = [todo EXCEPT ![d] = {}] /\ fired' = fired /\ pc[d] = "claiming"
      /\ in_hand(d, {})
  BY DEF claim_due_fails
<1>1. /\ run' \in [Drivers -> [Jobs -> RunState]] /\ held' \in [Drivers -> [Jobs -> 0 .. TTL]]
      /\ \A c \in Drivers, i \in Jobs :
           /\ c # d => run'[c][i] = run[c][i] /\ held'[c][i] = held[c][i]
           /\ c = d => run'[c][i] = "none"
  BY <1>0, InHand
<1>2. faults' \in 0 .. MaxFaults
  BY DEF claim_due_fails, a_fault, SchedulerTypeOK
<1>3. CASE /\ card' = card /\ next' = next /\ age' = age /\ by' = by /\ enabled' = enabled
           /\ fresh' = [fresh EXCEPT ![d] = {}]
  <2>1. NothingNew
    BY <1>1 DEF NothingNew
  <2>2. ClaimOnCard' /\ OneShotSpent'
    BY <1>0, <1>3, <2>1, Forgotten
  <2>3. RunPlaces'
    BY <1>0, <1>1 DEF SchedulerTypeOK, RunPlaces
  <2>4. FreshIsOld' /\ NewIsBlank'
    BY <1>0, <1>1, <1>3 DEF SchedulerTypeOK, FreshIsOld, NewIsBlank
  <2>5. SchedulerTypeOK'
    BY <1>0, <1>1, <1>2, <1>3 DEF SchedulerTypeOK, RunState
  <2>6. QED
    BY <2>2, <2>3, <2>4, <2>5
<1>4. ASSUME NEW j \in todo[d], swapped(d, j) # {}, is_due(j, lag[d]),
             ~claim_is_live(age[j], lag[d]), claim(d, j)
      PROVE  SchedulerInv'
  <2>1. j \in Jobs
    BY DEF SchedulerTypeOK
  <2>2. /\ \A c \in Drivers \ {d} : lag'[c] = lag[c]
        /\ pc' = pc => lag'[d] = lag[d]
        /\ pc' = [pc EXCEPT ![d] = "firing"] \/ pc' = pc
    <3>1. pc' # pc
      BY <1>0 DEF SchedulerTypeOK
    <3>2. QED
      BY <1>0, <3>1 DEF SchedulerTypeOK
  <2>3. \A c \in Drivers, i \in Jobs :
            \/ run'[c][i] = "none"
            \/ ~(c = d /\ i = j) /\ run'[c][i] = run[c][i] /\ held'[c][i] = held[c][i]
            \/ /\ c = d /\ i = j /\ run'[c][i] = "queued"
               /\ held'[c][i] = IF lag[d] < TTL THEN lag[d] ELSE TTL
    BY <1>1
  <2>4. /\ pc[d] = "claiming" /\ fired' = fired /\ swapped(d, j) # {} /\ is_due(j, lag[d])
        /\ ~claim_is_live(age[j], lag[d]) /\ claim(d, j)
    BY <1>0, <1>4
  <2>5. /\ next' \in [Jobs -> {None} \cup (-MaxLag .. Period)]
        /\ age' \in [Jobs -> {None} \cup (0 .. TTL + MaxLag)]
        /\ by' \in [Jobs -> {None, Ended} \cup Drivers]
        /\ \A i \in Jobs :
             /\ age'[i] = None <=> by'[i] = None
             /\ age'[i] # None /\ next'[i] # None /\ card'[i] = "stored" => next'[i] > -age'[i]
        /\ fresh' \in [Drivers -> SUBSET Jobs]
        /\ RunPlaces' /\ ClaimOnCard' /\ FreshIsOld' /\ NewIsBlank' /\ OneShotSpent'
    BY <2>1, <2>2, <2>3, <2>4, ClaimCard
  <2>6. SchedulerTypeOK'
    <3>1. card' = card /\ enabled' = enabled
      BY <1>4 DEF claim
    <3>2. /\ pc' \in [Drivers -> {"idle", "claiming", "firing"}]
          /\ lag' \in [Drivers -> 0 .. MaxLag] /\ todo' \in [Drivers -> SUBSET Jobs]
          /\ fired' \in [OneShots -> 0 .. 2]
      BY <1>0 DEF SchedulerTypeOK
    <3>3. QED
      BY <1>1, <1>2, <2>5, <3>1, <3>2 DEF SchedulerTypeOK, RunState
  <2>7. QED
    BY <2>5, <2>6
<1>5. QED
  BY <1>3, <1>4 DEF claim_due_fails

-----------------------------------------------------------------------------
(* The theorems. *)

\* The invariant is inductive.
LEMMA SchedulerStep == SchedulerInv /\ [Next]_vars => SchedulerInv'
<1>. SUFFICES ASSUME SchedulerInv, [Next]_vars PROVE SchedulerInv'
  OBVIOUS
<1>1. CASE UNCHANGED vars
  BY <1>1 DEF vars, SchedulerInv, SchedulerTypeOK, RunPlaces, ClaimOnCard, FreshIsOld,
              NewIsBlank, OneShotSpent
<1>2. CASE clock
  BY <1>2, ClockStep
<1>3. ASSUME NEW j \in Jobs, schedule(j) \/ cancel(j) PROVE SchedulerInv'
  BY <1>3, ScheduleStep, CancelStep
<1>4. ASSUME NEW d \in Drivers,
             tick(d) \/ dispatch(d) \/ tick_ends(d) \/ claim_due_fails(d) \/ crash(d)
      PROVE  SchedulerInv'
  BY <1>4, TickStep, DispatchStep, TickEndsStep, ClaimDueFailsStep, CrashStep
<1>5. ASSUME NEW d \in Drivers, NEW j \in Jobs,
             \/ claim_due(d, j) \/ run_claimed(d, j) \/ exec_ends(d, j)
             \/ finish_read(d, j) \/ finish_write(d, j) \/ finish_fails(d, j)
      PROVE  SchedulerInv'
  BY <1>5, ClaimDueStep, RunClaimedStep, ExecEndsStep, FinishReadStep, FinishWriteStep,
     FinishFailsStep
<1>6. QED
  BY <1>1, <1>2, <1>3, <1>4, <1>5 DEF Next, DriverStep

\* The cards, the claims in hand and what was read of them fit together, always.
THEOREM SchedulerInvariant == Spec => []SchedulerInv
BY SchedulerInit, SchedulerStep, PTL DEF Spec

\* The variables keep their types, and a card names an owner exactly while it has a
\* claim time (claim_due and finish of the store).
THEOREM SchedulerTypeCorrect == Spec => []SchedulerTypeOK
<1>1. SchedulerInv => SchedulerTypeOK
  BY DEF SchedulerInv
<1>2. QED
  BY <1>1, SchedulerInvariant, PTL

\* However many drivers tick, read late and crash: two have a job in hand only if the
\* claim of one has outlived its TTL (the compare-and-swap of claim_due).
THEOREM NoDoubleFireHolds == Spec => []NoDoubleFire
<1>1. ASSUME SchedulerInv, NEW j \in Jobs, NEW c \in Drivers, NEW d \in Drivers,
             c # d, run[c][j] # "none", run[d][j] # "none"
      PROVE  held[c][j] = TTL \/ held[d][j] = TTL
  <2>1. held[c][j] \in 0 .. TTL /\ held[d][j] \in 0 .. TTL /\ TTL \in Nat
    BY <1>1, SchedulerAssumption DEF SchedulerInv, SchedulerTypeOK
  <2>2. held[c][j] < TTL /\ held[d][j] < TTL => by[j] = c /\ by[j] = d
    BY <1>1 DEF SchedulerInv, ClaimOnCard
  <2>3. QED
    BY <1>1, <2>1, <2>2
<1>2. SchedulerInv => NoDoubleFire
  BY <1>1 DEF NoDoubleFire
<1>3. QED
  BY <1>2, SchedulerInvariant, PTL

\* A one-shot starts one run at most, whoever ticks and whatever crashes.
THEOREM OneShotOnceHolds == Spec => []OneShotOnce
<1>1. SchedulerInv => OneShotOnce
  BY DEF SchedulerInv, OneShotSpent, OneShotOnce
<1>2. QED
  BY <1>1, SchedulerInvariant, PTL

\* A claim written on a card, by a claim that goes through.
LEMMA ClaimTakesOver ==
  ASSUME SchedulerInv, NEW d \in Drivers, NEW j \in Jobs,
         pc[d] = "claiming", swapped(d, j) # {}, ~claim_is_live(age[j], lag[d]), claim(d, j)
  PROVE  \A i \in Jobs : by'[i] = by[i] \/ (by'[i] \in Drivers /\ (by[i] # None => age[i] >= TTL))
<1>1. by' = [by EXCEPT ![j] = d] /\ by \in [Jobs -> {None, Ended} \cup Drivers]
  BY DEF claim, SchedulerInv, SchedulerTypeOK
<1>2. by[j] # None => age[j] # None
  BY DEF SchedulerInv, SchedulerTypeOK
<1>3. age[j] # None => age[j] >= TTL
  BY ClaimFacts
<1>4. QED
  BY <1>1, <1>2, <1>3

\* A claim is released only by the driver that holds it, taken over only when it is as
\* old as its TTL, and its owner token dies with its tick (finish of the store).
THEOREM ReleasedByOwnerHolds == Spec => ReleasedByOwner
<1>. DEFINE Passed(j, d) ==
       \/ by'[j] # None /\ (age[j] >= TTL \/ by'[j] = Ended)
       \/ run[d][j] = "finishing" /\ run'[d][j] = "none"
<1>1. ASSUME SchedulerInv, [Next]_vars
      PROVE  \A j \in Jobs, d \in Drivers : by[j] = d /\ by'[j] # d => Passed(j, d)
  <2>. SUFFICES ASSUME NEW j \in Jobs, NEW d \in Drivers, by[j] = d, by'[j] # d
                PROVE  Passed(j, d)
    OBVIOUS
  <2>. USE SchedulerAssumption
  <2>0. /\ by[j] # None /\ by'[j] # by[j] /\ d # None /\ d # Ended
        /\ by \in [Jobs -> {None, Ended} \cup Drivers]
    BY <1>1 DEF SchedulerInv, SchedulerTypeOK
  <2>1. CASE UNCHANGED vars
    BY <2>0, <2>1 DEF vars
  <2>2. CASE clock \/ \E i \in Jobs : schedule(i) \/ cancel(i)
    BY <2>0, <2>2 DEF clock, schedule, cancel
  <2>3. ASSUME NEW c \in Drivers, tick(c) \/ dispatch(c) PROVE Passed(j, d)
    BY <2>0, <2>3 DEF tick, dispatch
  <2>4. ASSUME NEW c \in Drivers, tick_ends(c) \/ crash(c) PROVE Passed(j, d)
    <3>1. by' = [i \in Jobs |-> IF by[i] = c THEN Ended ELSE by[i]]
      BY <2>4 DEF tick_ends, crash
    <3>2. by'[j] = Ended
      BY <2>0, <3>1
    <3>3. QED
      BY <3>2
  <2>5. ASSUME NEW c \in Drivers, NEW i \in Jobs, claim_due(c, i) PROVE Passed(j, d)
    <3>1. CASE swapped(c, i) = {} \/ ~is_due(i, lag[c])
      BY <2>0, <2>5, <3>1 DEF claim_due
    <3>2. CASE swapped(c, i) # {} /\ is_due(i, lag[c]) /\ claim_is_live(age[i], lag[c])
      BY <2>0, <2>5, <3>2 DEF claim_due, skip
    <3>3. CASE swapped(c, i) # {} /\ is_due(i, lag[c]) /\ ~claim_is_live(age[i], lag[c])
      <4>1. pc[c] = "claiming" /\ claim(c, i)
        BY <2>5, <3>3 DEF claim_due
      <4>2. by'[j] \in Drivers /\ age[j] >= TTL
        BY <1>1, <2>0, <3>3, <4>1, ClaimTakesOver
      <4>3. QED
        BY <4>2
    <3>4. QED
      BY <3>1, <3>2, <3>3
  <2>6. ASSUME NEW c \in Drivers, claim_due_fails(c) PROVE Passed(j, d)
    <3>1. PICK i \in todo[c] : /\ swapped(c, i) # {} /\ is_due(i, lag[c])
                               /\ ~claim_is_live(age[i], lag[c]) /\ claim(c, i)
      BY <2>0, <2>6 DEF claim_due_fails
    <3>2. pc[c] = "claiming" /\ i \in Jobs
      BY <1>1, <2>6 DEF claim_due_fails, SchedulerInv, SchedulerTypeOK
    <3>3. by'[j] \in Drivers /\ age[j] >= TTL
      BY <1>1, <2>0, <3>1, <3>2, ClaimTakesOver
    <3>4. QED
      BY <3>3
  <2>7. ASSUME NEW c \in Drivers, NEW i \in Jobs,
               \/ run_claimed(c, i) \/ exec_ends(c, i) \/ finish_read(c, i) \/ finish_fails(c, i)
        PROVE  Passed(j, d)
    BY <2>0, <2>7 DEF run_claimed, exec_ends, finish_read, finish_fails
  <2>8. ASSUME NEW c \in Drivers, NEW i \in Jobs, finish_write(c, i) PROVE Passed(j, d)
    <3>1. swapped(c, i) # {} /\ by' = [by EXCEPT ![i] = None]
      BY <2>0, <2>8 DEF finish_write, released
    <3>2. i = j /\ i \in fresh[c] /\ run[c][i] = "finishing"
      BY <2>0, <2>8, <3>1 DEF finish_write, swapped
    <3>3. by[i] = c
      BY <1>1, <3>2 DEF SchedulerInv, FreshIsOld
    <3>4. in_hand(c, Jobs \ {i}) /\ SchedulerTypeOK
      BY <1>1, <2>8 DEF finish_write, SchedulerInv
    <3>5. run'[c][i] = "none"
      BY <3>4, InHand
    <3>6. QED
      BY <3>2, <3>3, <3>5
  <2>9. QED
    BY <1>1, <2>1, <2>2, <2>3, <2>4, <2>5, <2>6, <2>7, <2>8 DEF Next, DriverStep
<1>2. SchedulerInv /\ [Next]_vars =>
        [\A j \in Jobs, d \in Drivers : by[j] = d /\ by'[j] # d => Passed(j, d)]_vars
  BY <1>1
<1>3. QED
  BY <1>2, SchedulerInvariant, PTL DEF Spec, ReleasedByOwner

=============================================================================
