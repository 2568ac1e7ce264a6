---------------------------- MODULE FleetReview ----------------------------
(***************************************************************************)
(* From a trigger to a draft: the forge poll, the webhooks and ReviewNow   *)
(* feed a bounded queue that folds what is already pending; one drain loop *)
(* takes a trigger at a time through handle, which prepares a review and   *)
(* spawns the task that runs it (crates/agent-review-fleet/src/poll.rs and *)
(* orchestrator.rs).  What was already reviewed is read from the draft     *)
(* history, which a draft reaches with the writer's next batch.            *)
(*                                                                         *)
(* All rows watch one repository.  A head is a number that grows with each *)
(* push; 0 stands for a pull request that is not open or still a draft,    *)
(* and for a trigger that names no head.                                   *)
(***************************************************************************)
EXTENDS Naturals, Sequences, FiniteSets

CONSTANTS
  Rows,       \* of the roster: fleet sessions
  Polled,     \* rows whose forge answers their polls
  Asked,      \* keys that webhooks and ReviewNow calls are about
  Listed,     \* the pull requests, in the order in which the forge lists them
  PerTick,    \* MAX_TRIGGERS_PER_TICK
  QueueCap,   \* capacity of the trigger queue
  MaxTotal,   \* sessions the host admits
  MaxHead,    \* bound: pushes to a pull request
  MaxForced,  \* bound: forced ReviewNow calls
  MaxRows,    \* bound: rows buffered by the writer
  MaxFaults   \* bound: failed calls, failed runs, lost batches, restarts

Prs == {Listed[i] : i \in 1 .. Len(Listed)}
Keys == Rows \X Prs
Heads == 0 .. MaxHead

ASSUME FleetReviewAssumption ==
  /\ IsFiniteSet(Rows) /\ Len(Listed) \in Nat /\ Polled \subseteq Rows /\ Asked \subseteq Keys
  /\ {PerTick, QueueCap, MaxTotal, MaxRows} \subseteq Nat \ {0}
  /\ {MaxHead, MaxForced, MaxFaults} \subseteq Nat

VARIABLES
  head,      \* of a pull request, at the forge
  listed,    \* of a row: what its poll was told and has not emitted, by place in the list
  queue,     \* of keys
  pending,   \* of a key in the queue: the head named by all, and whether one was forced
  drain,     \* the trigger in handle, and how far it is
  task,      \* of a key: its ReviewTask
  sessions,  \* live sessions of the host
  worktree,  \* the head a worktree id is checked out at
  hist, buf, \* draft rows: the newest stored row of a pull request; those not yet stored
  forced, faults

trigger_vars == <<listed, queue, pending>>
history_vars == <<hist, buf>>
vars == <<head, trigger_vars, drain, task, sessions, worktree, history_vars, forced, faults>>

NoDraft == [head |-> 0, status |-> "none"]
Draft == [head : Heads, status : {"none", "drafted", "superseded", "posted"}]
Unfolded == [head |-> 0, force |-> FALSE]
NoTask == [at |-> "none", head |-> 0, facts |-> FALSE]
Idle == [at |-> "idle", key |-> <<>>, hint |-> 0, force |-> FALSE, prior |-> NoDraft, head |-> 0]

in_flight == {k \in Keys : task[k].at # "none"}
fault == faults < MaxFaults /\ faults' = faults + 1

-----------------------------------------------------------------------------
(* The trigger queue. *)

\* Mutant of enqueue: the capacity is not looked at.
enqueue_unbounded(k, h, f) ==
  IF k \in {queue[i] : i \in 1 .. Len(queue)}
  THEN /\ pending' = [pending EXCEPT ![k] =
                        [head |-> IF @.head = h THEN h ELSE 0, force |-> @.force \/ f]]
       /\ UNCHANGED queue
  ELSE /\ queue' = Append(queue, k)
       /\ pending' = [pending EXCEPT ![k] = [head |-> h, force |-> f]]

\* enqueue: fold into the pending trigger of the key, or queue; a full queue takes nothing.
enqueue(k, h, f) ==
  IF k \in {queue[i] : i \in 1 .. Len(queue)}
  THEN /\ pending' = [pending EXCEPT ![k] =
                        [head |-> IF @.head = h THEN h ELSE 0, force |-> @.force \/ f]]
       /\ UNCHANGED queue
  ELSE IF Len(queue) < QueueCap
  THEN /\ queue' = Append(queue, k)
       /\ pending' = [pending EXCEPT ![k] = [head |-> h, force |-> f]]
  ELSE UNCHANGED <<queue, pending>>

\* poll_session, list_prs: the first of the open ones, with the heads of the answer.
list_prs(r) ==
  /\ listed[r] = {}
  /\ LET open == {i \in 1 .. Len(Listed) : head[Listed[i]] # 0}
         first == {i \in open : Cardinality({j \in open : j < i}) < PerTick}
     IN /\ open # {}
        /\ listed' = [listed EXCEPT ![r] = {[at |-> i, head |-> head[Listed[i]]] : i \in first}]
  /\ UNCHANGED <<head, queue, pending, drain, task, sessions, worktree, history_vars, forced, faults>>

\* poll_session, one trigger.
emit(r) ==
  /\ \E p \in listed[r] :
       /\ \A o \in listed[r] : p.at <= o.at
       /\ enqueue(<<r, Listed[p.at]>>, p.head, FALSE)
       /\ listed' = [listed EXCEPT ![r] = @ \ {p}]
  /\ UNCHANGED <<head, drain, task, sessions, worktree, history_vars, forced, faults>>

\* A webhook, a link in Slack, a ReviewNow that is not forced: no head is named.
webhook(k) ==
  /\ head[k[2]] # 0
  /\ enqueue(k, 0, FALSE)
  /\ UNCHANGED <<head, listed, drain, task, sessions, worktree, history_vars, forced, faults>>

review_now(k) ==
  /\ head[k[2]] # 0 /\ forced < MaxForced
  /\ enqueue(k, 0, TRUE)
  /\ forced' = forced + 1
  /\ UNCHANGED <<head, listed, drain, task, sessions, worktree, history_vars, faults>>

push(p) ==
  /\ head[p] < MaxHead
  /\ head' = [head EXCEPT ![p] = @ + 1]
  /\ UNCHANGED <<trigger_vars, drain, task, sessions, worktree, history_vars, forced, faults>>

-----------------------------------------------------------------------------
(* handle. *)

\* Mutant of up_to_date: a superseded draft counts as well.
up_to_date_superseded(prior, h) == prior.status # "none" /\ prior.head = h

up_to_date(prior, h) == prior.status \notin {"none", "superseded"} /\ prior.head = h

\* A row's id is sanitized and cut to a path segment; ids that are segments already, as
\* here, keep apart.
review_worktree_id(k) == k

\* Mutant of reap_finished: completed tasks stay in the guard.
reap_nothing(t) == t

reap_finished(t) == [k \in Keys |-> IF t[k].at = "finished" THEN NoTask ELSE t[k]]

has_capacity(k) == k \in sessions \/ Cardinality(sessions) < MaxTotal

recv ==
  /\ drain.at = "idle" /\ queue # <<>>
  /\ LET k == Head(queue)
     IN /\ drain' = [Idle EXCEPT !.at = "row", !.key = k,
                                 !.hint = pending[k].head, !.force = pending[k].force]
        /\ pending' = [pending EXCEPT ![k] = Unfolded]
  /\ queue' = Tail(queue)
  /\ task' = reap_finished(task)
  /\ UNCHANGED <<head, listed, sessions, worktree, history_vars, forced, faults>>

\* An early return of handle, or an error that the drain loop logs.
returns == drain' = Idle

\* The row, then the two checks that cost nothing.
roster_get ==
  /\ drain.at = "row"
  /\ \/ /\ IF drain.key \in in_flight \/ ~has_capacity(drain.key)
           THEN returns
           ELSE drain' = [drain EXCEPT !.at = "prior"]
        /\ UNCHANGED faults
     \/ fault /\ returns
  /\ UNCHANGED <<head, trigger_vars, task, sessions, worktree, history_vars, forced>>

\* The history is read; a read that fails is no prior draft.
prior_review ==
  /\ drain.at = "prior"
  /\ \E last \in {hist[drain.key[2]], NoDraft} :
       /\ \/ last = hist[drain.key[2]] /\ UNCHANGED faults
          \/ last = NoDraft /\ fault
       /\ IF ~drain.force /\ drain.hint # 0 /\ up_to_date(last, drain.hint)
          THEN returns
          ELSE drain' = [drain EXCEPT !.at = "fetch", !.prior = last, !.hint = 0]
  /\ UNCHANGED <<head, trigger_vars, task, sessions, worktree, history_vars, forced>>

fetch_pr ==
  /\ drain.at = "fetch"
  /\ \/ /\ LET h == head[drain.key[2]]
           IN IF ~drain.force /\ up_to_date(drain.prior, h)
              THEN returns
              ELSE drain' = [drain EXCEPT !.at = "worktree", !.head = h]
        /\ UNCHANGED faults
     \/ fault /\ returns
  /\ UNCHANGED <<head, trigger_vars, task, sessions, worktree, history_vars, forced>>

\* Mutant of stale_removed: the worktree of an earlier round is left.
stale_left(w, k) == w

\* Mutant of stale_removed: one worktree for each pull request, whatever the row.
stale_removed_of_pr(w, k) == [j \in Keys |-> IF j[2] = k[2] THEN 0 ELSE w[j]]

\* worktree_remove before worktree_add.
stale_removed(w, k) == [w EXCEPT ![review_worktree_id(k)] = 0]

\* A prior draft that nobody has decided on is superseded by a new round.
supersede ==
  IF drain.prior.status = "drafted" /\ (drain.prior.head # drain.head \/ drain.force)
  THEN buf' = Append(buf, [pr |-> drain.key[2],
                           draft |-> [drain.prior EXCEPT !.status = "superseded"]])
  ELSE UNCHANGED buf

\* worktree_add collides with a worktree that is still registered.
worktree_add ==
  /\ drain.at = "worktree" /\ Len(buf) < MaxRows
  /\ LET k == drain.key
         w == stale_removed(worktree, k)
     IN \/ /\ w[review_worktree_id(k)] = 0
           /\ worktree' = [w EXCEPT ![review_worktree_id(k)] = drain.head]
           /\ supersede
           /\ drain' = [Idle EXCEPT !.at = "ground", !.key = k, !.head = drain.head]
           /\ UNCHANGED faults
        \/ /\ w[review_worktree_id(k)] # 0
           /\ returns
           /\ UNCHANGED <<worktree, buf, faults>>
        \/ fault /\ returns /\ worktree' = w /\ UNCHANGED buf
  /\ UNCHANGED <<head, trigger_vars, task, sessions, hist, forced>>

\* The review is grounded, or goes on without facts; its task is spawned.
ground ==
  /\ drain.at = "ground"
  /\ \E ok \in BOOLEAN :
       /\ (ok /\ UNCHANGED faults) \/ (~ok /\ fault)
       /\ task' = [task EXCEPT ![drain.key] = [at |-> "admit", head |-> drain.head, facts |-> ok]]
  /\ returns
  /\ UNCHANGED <<head, trigger_vars, sessions, worktree, history_vars, forced>>

drain_step == recv \/ roster_get \/ prior_review \/ fetch_pr \/ worktree_add \/ ground

-----------------------------------------------------------------------------
(* The task of a review. *)

at_task(k, l) ==
  task' = [task EXCEPT ![k] = IF l = "run" THEN [@ EXCEPT !.at = l] ELSE [NoTask EXCEPT !.at = l]]

\* run_review admits the session, which the caps may refuse by now.
admit_review(k) ==
  /\ task[k].at = "admit"
  /\ IF has_capacity(k)
     THEN sessions' = sessions \cup {k} /\ at_task(k, "run")
     ELSE at_task(k, "clean") /\ UNCHANGED sessions
  /\ UNCHANGED <<head, trigger_vars, drain, worktree, history_vars, forced, faults>>

\* The run ends; with facts its draft is recorded, unless the run or the draft failed.
run_review(k) ==
  /\ task[k].at = "run" /\ Len(buf) < MaxRows
  /\ at_task(k, "clean")
  /\ \/ /\ IF task[k].facts
           THEN buf' = Append(buf, [pr |-> k[2],
                                    draft |-> [head |-> task[k].head, status |-> "drafted"]])
           ELSE UNCHANGED buf
        /\ UNCHANGED faults
     \/ fault /\ UNCHANGED buf
  /\ UNCHANGED <<head, trigger_vars, drain, sessions, worktree, hist, forced>>

\* Mutant of cleanup: the session of a finished review is left to the idle reaper.
cleanup_keeps_session(k) ==
  /\ task[k].at = "clean"
  /\ worktree' = [worktree EXCEPT ![review_worktree_id(k)] = 0]
  /\ at_task(k, "finished")
  /\ UNCHANGED <<head, trigger_vars, drain, sessions, history_vars, forced, faults>>

cleanup(k) ==
  /\ task[k].at = "clean"
  /\ worktree' = [worktree EXCEPT ![review_worktree_id(k)] = 0]
  /\ sessions' = sessions \ {k}
  /\ at_task(k, "finished")
  /\ UNCHANGED <<head, trigger_vars, drain, history_vars, forced, faults>>

task_step(k) == admit_review(k) \/ run_review(k) \/ cleanup(k)

-----------------------------------------------------------------------------
(* The draft history, and a restart of the process. *)

\* prior: the newest stored row of a pull request.
newest(p) ==
  LET of == {i \in 1 .. Len(buf) : buf[i].pr = p}
  IN IF of = {} THEN hist[p] ELSE buf[CHOOSE i \in of : \A j \in of : j <= i].draft

\* The writer's tick stores a batch, or loses it.
flush ==
  /\ buf # <<>>
  /\ buf' = <<>>
  /\ \/ hist' = [p \in Prs |-> newest(p)] /\ UNCHANGED faults
     \/ fault /\ UNCHANGED hist
  /\ UNCHANGED <<head, trigger_vars, drain, task, sessions, worktree, forced>>

\* A draft is decided on, posted or skipped (FleetPost): the row is seen when it is stored.
posted(p) ==
  /\ hist[p].status = "drafted"
  /\ hist' = [hist EXCEPT ![p].status = "posted"]
  /\ UNCHANGED <<head, trigger_vars, drain, task, sessions, worktree, buf, forced, faults>>

\* Worktrees are on disk; everything else of the process is gone.
restart ==
  /\ fault
  /\ listed' = [r \in Rows |-> {}] /\ queue' = <<>>
  /\ pending' = [k \in Keys |-> Unfolded]
  /\ drain' = Idle
  /\ task' = [k \in Keys |-> NoTask]
  /\ sessions' = {} /\ buf' = <<>>
  /\ UNCHANGED <<head, worktree, hist, forced>>

-----------------------------------------------------------------------------
Init ==
  /\ head = [p \in Prs |-> 0]
  /\ listed = [r \in Rows |-> {}] /\ queue = <<>>
  /\ pending = [k \in Keys |-> Unfolded]
  /\ drain = Idle
  /\ task = [k \in Keys |-> NoTask]
  /\ sessions = {}
  /\ worktree = [k \in Keys |-> 0]
  /\ hist = [p \in Prs |-> NoDraft] /\ buf = <<>>
  /\ forced = 0 /\ faults = 0

Next ==
  \/ \E r \in Polled : list_prs(r) \/ emit(r)
  \/ \E k \in Asked : webhook(k) \/ review_now(k)
  \/ \E k \in Keys : task_step(k)
  \/ \E p \in Prs : push(p) \/ posted(p)
  \/ drain_step
  \/ flush
  \/ restart

Spec == Init /\ [][Next]_vars

\* A poll job fires again and again, the drain loop and every task go on, the writer ticks.
FairSpec ==
  /\ Spec
  /\ \A r \in Polled : WF_vars(list_prs(r) \/ emit(r))
  /\ WF_vars(drain_step)
  /\ \A k \in Keys : WF_vars(task_step(k))
  /\ WF_vars(flush)
-----------------------------------------------------------------------------
(* Properties. *)

\* Every variable has its type.
ReviewTypeOK ==
  /\ head \in [Prs -> Heads]
  /\ listed \in [Rows -> SUBSET [at : 1 .. Len(Listed), head : Heads]]
  /\ queue \in Seq(Keys) /\ Len(queue) <= QueueCap
  /\ pending \in [Keys -> [head : Heads, force : BOOLEAN]]
  /\ drain \in [at : {"idle", "row", "prior", "fetch", "worktree", "ground"},
                key : Keys \cup {<<>>}, hint : Heads, force : BOOLEAN, prior : Draft, head : Heads]
  /\ task \in [Keys -> [at : {"none", "admit", "run", "clean", "finished"},
                        head : Heads, facts : BOOLEAN]]
  /\ sessions \subseteq Keys
  /\ worktree \in [Keys -> Heads]
  /\ hist \in [Prs -> Draft] /\ buf \in Seq([pr : Prs, draft : Draft])
  /\ forced \in 0 .. MaxForced /\ faults \in 0 .. MaxFaults

\* From its spawn to its cleanup a review finds its own checkout, at the head it was
\* started for, whatever other triggers, rows, pushes and restarts do meanwhile
\* (worktree_remove and worktree_add of handle, the cleanup of the task).
RunsOnItsTree ==
  \A k \in Keys : task[k].at \in {"admit", "run"} =>
    worktree[review_worktree_id(k)] = task[k].head

\* Once its head no longer moves, a pull request comes to have a live draft of that head
\* and keeps it (reap_finished, up_to_date, the retry by the next poll).
SettledHeadDrafted ==
  \A p \in Prs : <>[](head[p] # 0 => /\ hist[p].head = head[p]
                                    /\ hist[p].status \in {"drafted", "posted"})

=============================================================================
