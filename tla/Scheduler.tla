----------------------------- MODULE Scheduler -----------------------------
(***************************************************************************)
(* The durable scheduler (crates/agent-scheduler/src/store.rs) and the     *)
(* drivers that tick it (crates/agent-runtime/src/scheduler_driver.rs).    *)
(* A job is one card in the config store.  A driver reads all cards, then  *)
(* claims or re-arms each due one by a compare-and-swap on the bytes it    *)
(* read, runs what it claimed under a ceiling, and records each run and    *)
(* releases its claim by another read and compare-and-swap.                *)
(*                                                                         *)
(* Times are kept relative to the wall clock, so behaviours need no last   *)
(* instant.  Every write of a card changes its bytes (it appends a run or  *)
(* stamps a fresh owner), so a compare-and-swap succeeds exactly if nobody *)
(* has written the card since it was read.                                 *)
(*                                                                         *)
(* Assumed of the store: a compare-and-swap is one step for all drivers.   *)
(* The sqlite and postgres tiers make it one transaction.  The file tier   *)
(* reads, compares and writes its file under a mutex of the process only   *)
(* (agent-config-store/src/file.rs), so on it this module is about the     *)
(* drivers of one process: of two processes both may win a swap.           *)
(***************************************************************************)
EXTENDS Integers, FiniteSets

CONSTANTS
  Jobs, OneShots,  \* the jobs that may be scheduled, and those that fire once
  Drivers,
  Period,          \* of a recurring job; a one-shot is due as far ahead
  TTL,             \* claim_ttl_ms
  MaxConcurrent,   \* runs of a driver at a time
  MaxLag,          \* bound: how old a tick's now may be when it writes a claim
  MaxFaults,       \* bound: crashes and store errors in a behaviour
  None

Ended == "ended"  \* the owner token of a tick that is over

ASSUME SchedulerAssumption ==
  /\ OneShots \subseteq Jobs /\ IsFiniteSet(Jobs) /\ IsFiniteSet(Drivers)
  /\ Period \in Nat \ {0} /\ TTL \in Nat \ {0} /\ MaxConcurrent \in Nat \ {0}
  /\ MaxLag \in Nat /\ MaxFaults \in Nat
  /\ None \notin Drivers \cup Int \cup {Ended} /\ Ended \notin Drivers

VARIABLES
  card,    \* "new", "stored" or "deleted"
  next,    \* next_fire_ms, from now on, or None
  age,     \* how long ago claimed_at_ms is, or None
  by,      \* claimed_by
  enabled,
  pc,      \* a driver is "idle", "claiming" or "firing"
  lag,     \* how long ago the tick read its now
  todo,    \* cards of its batch a tick has not looked at yet
  fresh,   \* cards that still hold the bytes the driver read
  run,     \* of a job by a driver: "none", "queued", "running", "ran" or "finishing"
  held,    \* how long ago the driver's claim was, up to TTL
  fired,   \* history: runs started of a one-shot, up to 2
  faults

card_vars == <<card, next, age, by, enabled>>
tick_vars == <<pc, lag, todo>>
run_vars  == <<run, held>>
vars == <<card_vars, tick_vars, fresh, run_vars, fired, faults>>

-----------------------------------------------------------------------------
(* The card. *)

\* Mutant of claim_is_live: a claim lasts until it is released.
claim_for_ever(a, l) == a # None

\* At a now that is l old.  A claim in the future is not live.
claim_is_live(a, l) == a # None /\ a >= l /\ a - l < TTL

\* Mutant of next_fire: at or after, not strictly after.
next_fire_at(j, l) == IF j \notin OneShots THEN Period - l
                      ELSE IF next[j] >= -l THEN next[j] ELSE None

\* The next fire strictly after a now that is l old.
next_fire(j, l) == IF j \notin OneShots THEN Period - l
                   ELSE IF next[j] > -l THEN next[j] ELSE None

is_due(j, l) ==
  /\ card[j] = "stored" /\ enabled[j]
  /\ next[j] # None /\ next[j] <= -l

\* The others' bytes are old now; so are the writer's own.
touched(j) == fresh' = [d \in Drivers |-> fresh[d] \ {j}]

\* Mutant of swapped: the card is put, not compared and swapped.
swapped_by_put(d, j) == {j}

\* What a compare-and-swap lets through, one driver after the other.
swapped(d, j) == fresh[d] \cap {j}

\* The jobs a driver keeps in hand; the others' runs are forgotten.
in_hand(d, S) ==
  /\ run' = [run EXCEPT ![d] = [j \in Jobs |-> IF j \in S THEN @[j] ELSE "none"]]
  /\ held' = [held EXCEPT ![d] = [j \in Jobs |-> IF j \in S THEN @[j] ELSE 0]]

a_fault == faults < MaxFaults /\ faults' = faults + 1

-----------------------------------------------------------------------------
(* The registry. *)

schedule(j) ==
  /\ card[j] = "new"
  /\ card' = [card EXCEPT ![j] = "stored"]
  /\ next' = [next EXCEPT ![j] = Period]
  /\ UNCHANGED <<age, by, enabled, tick_vars, fresh, run_vars, fired, faults>>

cancel(j) ==
  /\ card[j] = "stored"
  /\ card' = [card EXCEPT ![j] = "deleted"]
  /\ touched(j)
  /\ UNCHANGED <<next, age, by, enabled, tick_vars, run_vars, fired, faults>>

-----------------------------------------------------------------------------
(* A driver's tick. *)

\* A fresh instance with a fresh owner token; all cards of the tenant are read.
tick(d) ==
  /\ pc[d] = "idle"
  /\ pc' = [pc EXCEPT ![d] = "claiming"]
  /\ lag' = [lag EXCEPT ![d] = 0]
  /\ todo' = [todo EXCEPT ![d] = {j \in Jobs : card[j] = "stored"}]
  /\ fresh' = [fresh EXCEPT ![d] = {j \in Jobs : card[j] = "stored"}]
  /\ UNCHANGED <<card_vars, run_vars, fired, faults>>

\* The claim of a due job without a live claim.
claim(d, j) ==
  /\ next' = [next EXCEPT ![j] = next_fire(j, lag[d])]
  /\ age' = [age EXCEPT ![j] = lag[d]]
  /\ by' = [by EXCEPT ![j] = d]
  /\ touched(j)
  /\ UNCHANGED <<card, enabled>>

\* The re-arming of one with a live claim: the fire is recorded as skipped.
skip(d, j) ==
  /\ next' = [next EXCEPT ![j] = next_fire(j, lag[d])]
  /\ touched(j)
  /\ UNCHANGED <<card, age, by, enabled>>

\* One card of the batch.  A conflict, like a card that is not due, leaves nothing.
claim_due(d, j) ==
  /\ pc[d] = "claiming" /\ j \in todo[d]
  /\ todo' = [todo EXCEPT ![d] = @ \ {j}]
  /\ IF swapped(d, j) = {} \/ ~is_due(j, lag[d])
     THEN fresh' = [fresh EXCEPT ![d] = @ \ {j}] /\ UNCHANGED <<card_vars, run_vars>>
     ELSE IF claim_is_live(age[j], lag[d])
     THEN skip(d, j) /\ UNCHANGED run_vars
     ELSE /\ claim(d, j)
          /\ run' = [run EXCEPT ![d][j] = "queued"]
          /\ held' = [held EXCEPT ![d][j] = IF lag[d] < TTL THEN lag[d] ELSE TTL]
  /\ UNCHANGED <<pc, lag, fired, faults>>

\* Any other error, before or after the write took effect: what the tick had
\* claimed so far is dropped with it.
claim_due_fails(d) ==
  /\ pc[d] = "claiming"
  /\ a_fault
  /\ \/ UNCHANGED card_vars /\ fresh' = [fresh EXCEPT ![d] = {}]
     \/ \E j \in todo[d] : /\ swapped(d, j) # {} /\ is_due(j, lag[d])
                           /\ ~claim_is_live(age[j], lag[d])
                           /\ claim(d, j)
  /\ pc' = [pc EXCEPT ![d] = "firing"]
  /\ lag' = [lag EXCEPT ![d] = 0]
  /\ todo' = [todo EXCEPT ![d] = {}]
  /\ in_hand(d, {})
  /\ UNCHANGED fired

dispatch(d) ==
  /\ pc[d] = "claiming" /\ todo[d] = {}
  /\ pc' = [pc EXCEPT ![d] = "firing"]
  /\ lag' = [lag EXCEPT ![d] = 0]
  /\ UNCHANGED <<card_vars, todo, fresh, run_vars, fired, faults>>

running(d) == {j \in Jobs : run[d][j] = "running"}

\* The permits are there; the claim is not looked at again.
run_claimed(d, j) ==
  /\ pc[d] = "firing" /\ run[d][j] = "queued"
  /\ Cardinality(running(d)) < MaxConcurrent
  /\ run' = [run EXCEPT ![d][j] = "running"]
  /\ fired' = [i \in OneShots |-> IF i = j /\ fired[i] < 2 THEN fired[i] + 1 ELSE fired[i]]
  /\ UNCHANGED <<card_vars, tick_vars, fresh, held, faults>>

exec_ends(d, j) ==
  /\ run[d][j] = "running"
  /\ run' = [run EXCEPT ![d][j] = "ran"]
  /\ UNCHANGED <<card_vars, tick_vars, fresh, held, fired, faults>>

\* Mutant of owns: whoever finishes releases the claim.
owns_any(d, j) == by[j] # None

owns(d, j) == by[j] = d

\* finish reads the card: without a card, or without the claim, it is over.
finish_read(d, j) ==
  /\ run[d][j] = "ran"
  /\ IF card[j] = "stored" /\ owns(d, j)
     THEN /\ run' = [run EXCEPT ![d][j] = "finishing"]
          /\ fresh' = [fresh EXCEPT ![d] = @ \cup {j}]
          /\ UNCHANGED held
     ELSE in_hand(d, Jobs \ {j}) /\ UNCHANGED fresh
  /\ UNCHANGED <<card_vars, tick_vars, fired, faults>>

\* Mutant of released: the owner is left on the card.
released_time_only(j) == age' = [age EXCEPT ![j] = None] /\ UNCHANGED by

released(j) ==
  /\ age' = [age EXCEPT ![j] = None]
  /\ by' = [by EXCEPT ![j] = None]

\* The run is recorded, the claim released and a spent one-shot disabled; on a
\* conflict nothing is.
finish_write(d, j) ==
  /\ run[d][j] = "finishing"
  /\ in_hand(d, Jobs \ {j})
  /\ IF swapped(d, j) # {}
     THEN /\ released(j)
          /\ enabled' = [enabled EXCEPT ![j] = next[j] # None]
          /\ touched(j)
          /\ UNCHANGED <<card, next>>
     ELSE UNCHANGED <<card_vars, fresh>>
  /\ UNCHANGED <<tick_vars, fired, faults>>

\* The store fails under finish: logged.
finish_fails(d, j) ==
  /\ run[d][j] \in {"ran", "finishing"}
  /\ in_hand(d, Jobs \ {j})
  /\ fresh' = [fresh EXCEPT ![d] = @ \ {j}]
  /\ a_fault
  /\ UNCHANGED <<card_vars, tick_vars, fired>>

\* The tick ends when all its runs have; its owner token is never used again.
tick_ends(d) ==
  /\ pc[d] = "firing" /\ \A j \in Jobs : run[d][j] = "none"
  /\ pc' = [pc EXCEPT ![d] = "idle"]
  /\ by' = [j \in Jobs |-> IF by[j] = d THEN Ended ELSE by[j]]
  /\ UNCHANGED <<card, next, age, enabled, lag, todo, fresh, run_vars, fired, faults>>

\* The process ends with whatever it was doing, and a new one takes its place.
crash(d) ==
  /\ pc[d] # "idle"
  /\ a_fault
  /\ pc' = [pc EXCEPT ![d] = "idle"]
  /\ todo' = [todo EXCEPT ![d] = {}]
  /\ lag' = [lag EXCEPT ![d] = 0]
  /\ fresh' = [fresh EXCEPT ![d] = {}]
  /\ in_hand(d, {})
  /\ by' = [j \in Jobs |-> IF by[j] = d THEN Ended ELSE by[j]]
  /\ UNCHANGED <<card, next, age, enabled, fired>>

\* A unit of time.  Times beyond what any comparison can tell apart stay put.
clock ==
  /\ \A d \in Drivers : pc[d] = "claiming" => lag[d] < MaxLag
  /\ next' = [j \in Jobs |-> IF next[j] = None \/ card[j] # "stored" \/ next[j] = -MaxLag
                             THEN next[j] ELSE next[j] - 1]
  /\ age' = [j \in Jobs |-> IF age[j] = None \/ age[j] = TTL + MaxLag
                            THEN age[j] ELSE age[j] + 1]
  /\ lag' = [d \in Drivers |-> IF pc[d] = "claiming" THEN lag[d] + 1 ELSE lag[d]]
  /\ held' = [d \in Drivers |-> [j \in Jobs |->
                IF run[d][j] # "none" /\ held[d][j] < TTL THEN held[d][j] + 1
                ELSE held[d][j]]]
  /\ UNCHANGED <<card, by, enabled, pc, todo, fresh, run, fired, faults>>

-----------------------------------------------------------------------------
Init ==
  /\ card = [j \in Jobs |-> "new"]
  /\ next = [j \in Jobs |-> None]
  /\ age = [j \in Jobs |-> None]
  /\ by = [j \in Jobs |-> None]
  /\ enabled = [j \in Jobs |-> TRUE]
  /\ pc = [d \in Drivers |-> "idle"]
  /\ lag = [d \in Drivers |-> 0]
  /\ todo = [d \in Drivers |-> {}]
  /\ fresh = [d \in Drivers |-> {}]
  /\ run = [d \in Drivers |-> [j \in Jobs |-> "none"]]
  /\ held = [d \in Drivers |-> [j \in Jobs |-> 0]]
  /\ fired = [j \in OneShots |-> 0]
  /\ faults = 0

DriverStep(d) ==
  \/ tick(d) \/ dispatch(d) \/ tick_ends(d)
  \/ \E j \in Jobs : \/ claim_due(d, j) \/ run_claimed(d, j) \/ exec_ends(d, j)
                     \/ finish_read(d, j) \/ finish_write(d, j)

Next ==
  \/ clock
  \/ \E j \in Jobs : schedule(j) \/ cancel(j)
  \/ \E d \in Drivers : \/ DriverStep(d) \/ claim_due_fails(d) \/ crash(d)
                        \/ \E j \in Jobs : finish_fails(d, j)

Spec == Init /\ [][Next]_vars

\* Time passes and every driver keeps ticking: a run ends by its own limits or the
\* sandbox's timeout, and a store call answers or fails.
FairSpec == Spec /\ WF_vars(clock) /\ \A d \in Drivers : WF_vars(DriverStep(d))

-----------------------------------------------------------------------------
(* Properties. *)

\* A card names an owner exactly while it has a claim time, and its next fire is
\* after the claim (so a claim dated in the future is not due either).
SchedulerTypeOK ==
  /\ card \in [Jobs -> {"new", "stored", "deleted"}]
  /\ next \in [Jobs -> {None} \cup (-MaxLag .. Period)]
  /\ age \in [Jobs -> {None} \cup (0 .. TTL + MaxLag)]
  /\ by \in [Jobs -> {None, Ended} \cup Drivers]
  /\ \A j \in Jobs :
       /\ age[j] = None <=> by[j] = None
       /\ age[j] # None /\ next[j] # None /\ card[j] = "stored" => next[j] > -age[j]
  /\ enabled \in [Jobs -> BOOLEAN]
  /\ pc \in [Drivers -> {"idle", "claiming", "firing"}]
  /\ lag \in [Drivers -> 0 .. MaxLag]
  /\ todo \in [Drivers -> SUBSET Jobs] /\ fresh \in [Drivers -> SUBSET Jobs]
  /\ run \in [Drivers -> [Jobs -> {"none", "queued", "running", "ran", "finishing"}]]
  /\ held \in [Drivers -> [Jobs -> 0 .. TTL]]
  /\ fired \in [OneShots -> 0 .. 2] /\ faults \in 0 .. MaxFaults

\* No double fire: two drivers have a job in hand only if the claim of one of them
\* has outlived its TTL.  This is claim_due's "exactly one wins each due job", for the
\* drivers that the store's compare-and-swap is one step for.
NoDoubleFire ==
  \A j \in Jobs, c, d \in Drivers :
    c # d /\ run[c][j] # "none" /\ run[d][j] # "none" => held[c][j] = TTL \/ held[d][j] = TTL

\* A claim is released only by the driver that holds it: a late finisher whose
\* claim was taken over changes nothing.
ReleasedByOwner ==
  [][\A j \in Jobs, d \in Drivers :
       by[j] = d /\ by'[j] # d =>
         \/ by'[j] # None /\ (age[j] >= TTL \/ by'[j] = Ended)
         \/ run[d][j] = "finishing" /\ run'[d][j] = "none"]_vars

\* A one-shot fires at most once, whoever ticks.
OneShotOnce == \A j \in OneShots : fired[j] <= 1

\* A recurring job is not wedged: whatever crashes and fails, it fires again and
\* again until it is cancelled.
NotWedged ==
  \A j \in Jobs \ OneShots :
    card[j] = "stored" ~> card[j] # "stored" \/ \E d \in Drivers : run[d][j] = "running"

=============================================================================
