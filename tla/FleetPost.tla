----------------------------- MODULE FleetPost -----------------------------
(***************************************************************************)
(* What becomes of a review draft: approve (post it to the forge), skip,   *)
(* supersede (crates/agent-runtime/src/agent.rs, and the supersede of      *)
(* crates/agent-review-fleet/src/orchestrator.rs).  A draft's status is    *)
(* read from a history that rows reach late (the telemetry writer) or      *)
(* never; what keeps a draft from being posted twice is the post lease in  *)
(* the store that the processes share (StorePostLease of                   *)
(* crates/agent-review-fleet/src/lease.rs).  The post is an HTTP request   *)
(* that is retried (crates/agent-forge/src/http.rs), and one that nobody   *)
(* waits for any more may still land.  An approve or a skip is a gRPC call *)
(* (crates/agent-grpc/src/server/review_fleet.rs): when its client goes    *)
(* away it is dropped where it waits.                                      *)
(*                                                                         *)
(* The store compares and swaps in one step for all the processes: the     *)
(* sqlite and postgres tiers do, the file tier only for the calls of one   *)
(* process.  A row's place in the log stands for its timestamp: clocks     *)
(* agree.                                                                  *)
(***************************************************************************)
EXTENDS Naturals, Sequences

CONSTANTS
  Reviews,
  Approves, Skips, Supersedes,  \* the calls, by what they do
  Procs, At,       \* the processes, and the one each call runs in
  MaxRetries,      \* of a request to the forge
  MaxFaults        \* bound: crashes, failed store calls, lost batches of rows

Calls == Approves \cup Skips \cup Supersedes

ASSUME FleetPostAssumption ==
  /\ Approves \cap Skips = {} /\ Supersedes \cap (Approves \cup Skips) = {}
  /\ At \in [Calls -> Procs]
  /\ MaxRetries \in Nat /\ MaxFaults \in Nat

VARIABLES
  lease,     \* of a review: "none", "held" or "posted"
  log,       \* draft rows in the order of their timestamps, and where each is
  comments,  \* at the forge: how often a review was posted
  late,      \* requests that failed for their call, and may still land
  unheard,   \* history: how many comments such requests left
  pc, on,    \* of a call: where it is, and the review it is about
  tries,     \* retries of its request
  out,       \* how a call ended
  cut,       \* history: calls that lost their hold on a lease: dropped, dead, or
             \* refused by the store
  faults

forge_vars == <<comments, late, unheard>>
call_vars == <<pc, on, tries, out, cut>>
vars == <<lease, log, forge_vars, call_vars, faults>>

-----------------------------------------------------------------------------
(* The history: the newest row that was stored. *)

Row == [review : Reviews, status : {"drafted", "posted", "skipped", "superseded"},
        proc : Procs, at : {"buffered", "stored", "lost"}]

stored(r) == {i \in 1 .. Len(log) : log[i].review = r /\ log[i].at = "stored"}

draft_by_id(r) ==
  IF stored(r) = {} THEN "drafted"
  ELSE log[CHOOSE i \in stored(r) : \A k \in stored(r) : k <= i].status

record_draft(c, s) ==
  log' = Append(log, [review |-> on[c], status |-> s, proc |-> At[c], at |-> "buffered"])

\* The writer's tick: the buffered rows of a process are inserted in one batch.
flushed(p, where) ==
  log' = [i \in 1 .. Len(log) |->
            IF log[i].proc = p /\ log[i].at = "buffered"
            THEN [log[i] EXCEPT !.at = where] ELSE log[i]]

-----------------------------------------------------------------------------
(* Helpers of the calls. *)

goto(c, l) == pc' = [pc EXCEPT ![c] = l]
ends(c, o) == goto(c, "done") /\ out' = [out EXCEPT ![c] = o]
fault == faults < MaxFaults /\ faults' = faults + 1

\* The places of a call between its acquire of the lease and the lease's end.
holding(c) == pc[c] \in {"post", "commit", "release"}

cuts(S) == cut' = cut \cup S

-----------------------------------------------------------------------------
(* The looked-up status decides whether a call goes on. *)

\* Mutant of after_lookup: a skip commits the lease without having acquired it.
after_lookup_skip_unleased(c, s) ==
  IF c \in Approves THEN IF s \in {"posted", "skipped"} THEN "done" ELSE "read"
  ELSE IF c \in Skips THEN IF s \in {"posted", "skipped"} THEN "done" ELSE "commit"
  ELSE IF s = "drafted" THEN "record" ELSE "done"

\* plan_approve, plan_skip, the condition of supersede.
after_lookup(c, s) ==
  IF c \in Supersedes THEN IF s = "drafted" THEN "record" ELSE "done"
  ELSE IF s \in {"posted", "skipped"} THEN "done"
  ELSE IF c \in Approves THEN "read" ELSE "acquire"

lookup(c, r) ==
  /\ pc[c] = "new"
  /\ goto(c, after_lookup(c, draft_by_id(r)))
  /\ out' = IF after_lookup(c, draft_by_id(r)) = "done"
            THEN [out EXCEPT ![c] = "already"] ELSE out
  /\ on' = [on EXCEPT ![c] = r]
  /\ UNCHANGED <<lease, log, forge_vars, tries, cut, faults>>

\* The roster, the forge's credential or the file cannot be read.
refused(c) ==
  /\ pc[c] = "read"
  /\ ends(c, "failed")
  /\ UNCHANGED <<lease, log, forge_vars, on, tries, cut, faults>>

read_confined_body(c) ==
  /\ pc[c] = "read"
  /\ goto(c, "acquire")
  /\ UNCHANGED <<lease, log, forge_vars, on, tries, out, cut, faults>>

-----------------------------------------------------------------------------
(* The lease. *)

\* Mutant of acquirable: a held lease may be taken over.
acquirable_held(r) == lease[r] # "posted"

acquirable(r) == lease[r] = "none"

\* A call that finds the lease held or posted stands down.
acquire(c) ==
  /\ pc[c] = "acquire"
  /\ IF acquirable(on[c])
     THEN /\ lease' = [lease EXCEPT ![on[c]] = "held"]
          /\ goto(c, IF c \in Skips THEN "commit" ELSE "post")
          /\ UNCHANGED out
     ELSE ends(c, "already") /\ UNCHANGED lease
  /\ UNCHANGED <<log, forge_vars, on, tries, cut, faults>>

\* The store fails; the claim may be written all the same.
acquire_fails(c) ==
  /\ pc[c] = "acquire" /\ fault
  /\ ends(c, "failed")
  /\ \/ lease' = [lease EXCEPT ![on[c]] = IF @ = "none" THEN "held" ELSE @]
     \/ UNCHANGED lease
  /\ cuts({c})
  /\ UNCHANGED <<log, forge_vars, on, tries>>

committed(r) == lease' = [lease EXCEPT ![r] = "posted"]

commit(c) ==
  /\ pc[c] = "commit"
  /\ committed(on[c])
  /\ goto(c, "record")
  /\ UNCHANGED <<log, forge_vars, on, tries, out, cut, faults>>

\* Only a warning: the lease left held makes every later call stand down.
commit_fails(c) ==
  /\ pc[c] = "commit" /\ fault
  /\ committed(on[c]) \/ UNCHANGED lease
  /\ goto(c, "record")
  /\ cuts({c})
  /\ UNCHANGED <<log, forge_vars, on, tries, out>>

released(r) == lease' = [lease EXCEPT ![r] = IF @ = "held" THEN "none" ELSE @]

release(c) ==
  /\ pc[c] = "release"
  /\ released(on[c])
  /\ ends(c, "failed")
  /\ UNCHANGED <<log, forge_vars, on, tries, cut, faults>>

release_fails(c) ==
  /\ pc[c] = "release" /\ fault
  /\ released(on[c]) \/ UNCHANGED lease
  /\ ends(c, "failed")
  /\ cuts({c})
  /\ UNCHANGED <<log, forge_vars, on, tries>>

-----------------------------------------------------------------------------
(* The request to the forge. *)

posts(r) == comments' = [comments EXCEPT ![r] = @ + 1]

review_pr(c) ==
  /\ pc[c] = "post"
  /\ posts(on[c])
  /\ goto(c, "commit")
  /\ UNCHANGED <<lease, log, late, unheard, on, tries, out, cut, faults>>

\* A request that failed for its call may have its effect, at once, later or never.
unanswered(c) ==
  /\ late' = [late EXCEPT ![on[c]] = @ + 1]
  /\ UNCHANGED <<comments, unheard>>

lands(r) ==
  /\ late[r] > 0
  /\ late' = [late EXCEPT ![r] = @ - 1]
  /\ posts(r) /\ unheard' = [unheard EXCEPT ![r] = @ + 1]
  /\ UNCHANGED <<lease, log, call_vars, faults>>

\* Mutant of post_refused: the error is returned before the lease is released.
post_refused_keeps_lease(c) ==
  /\ pc[c] = "post"
  /\ unanswered(c)
  /\ ends(c, "failed")
  /\ UNCHANGED <<lease, log, on, tries, cut, faults>>

\* An error status, or an answer that cannot be read: no retry.
post_refused(c) ==
  /\ pc[c] = "post"
  /\ unanswered(c)
  /\ goto(c, "release")
  /\ UNCHANGED <<lease, log, on, tries, out, cut, faults>>

\* Mutant of retries_left: one retry too many.
retries_left_inclusive(c) == tries[c] <= MaxRetries

retries_left(c) == tries[c] < MaxRetries

\* A timeout, a failed connection, a 429 or 5xx.
post_retried(c) ==
  /\ pc[c] = "post"
  /\ unanswered(c)
  /\ IF retries_left(c)
     THEN tries' = [tries EXCEPT ![c] = @ + 1] /\ UNCHANGED pc
     ELSE goto(c, "release") /\ UNCHANGED tries
  /\ UNCHANGED <<lease, log, on, out, cut, faults>>

-----------------------------------------------------------------------------
(* The end of a call; the writer; the process. *)

\* The row of an approve, a skip or a supersede, and the call's answer.
record(c) ==
  LET s == IF c \in Approves THEN "posted" ELSE IF c \in Skips THEN "skipped" ELSE "superseded" IN
  /\ pc[c] = "record"
  /\ record_draft(c, s)
  /\ ends(c, s)
  /\ UNCHANGED <<lease, forge_vars, on, tries, cut, faults>>

buffered(p) == \E i \in 1 .. Len(log) : log[i].proc = p /\ log[i].at = "buffered"

flush(p) ==
  /\ buffered(p) /\ flushed(p, "stored")
  /\ UNCHANGED <<lease, forge_vars, call_vars, faults>>

\* The insert fails and the batch is dropped.
insert_fails(p) ==
  /\ buffered(p) /\ fault /\ flushed(p, "lost")
  /\ UNCHANGED <<lease, forge_vars, call_vars>>

\* Calls end without an answer and leave the lease as it is; what they had sent to
\* the forge may still land (by the lease, one of them at most has a request out).
ends_unanswered(S) ==
  /\ pc' = [c \in Calls |-> IF c \in S THEN "done" ELSE pc[c]]
  /\ late' = [r \in Reviews |-> late[r] +
                IF \E c \in S : on[c] = r /\ pc[c] = "post" THEN 1 ELSE 0]
  /\ cuts({c \in S : holding(c)})
  /\ UNCHANGED <<lease, comments, unheard, on, tries, out>>

\* The client of an approve or a skip goes away: its handler is dropped at an await.
\* (A store call that was out is one that was just answered.)
dropped(c) ==
  /\ c \in Approves \cup Skips /\ pc[c] \notin {"new", "done"}
  /\ ends_unanswered({c})
  /\ UNCHANGED <<log, faults>>

\* The process dies with its calls and its buffered rows.
crash(p) ==
  /\ fault
  /\ flushed(p, "lost")
  /\ ends_unanswered({c \in Calls : At[c] = p /\ pc[c] # "new"})

-----------------------------------------------------------------------------
(* Each review has a draft, and its row has been stored. *)
Init ==
  /\ lease = [r \in Reviews |-> "none"]
  /\ log = <<>>
  /\ comments = [r \in Reviews |-> 0]
  /\ late = [r \in Reviews |-> 0] /\ unheard = [r \in Reviews |-> 0]
  /\ pc = [c \in Calls |-> "new"]
  /\ on \in {[c \in Calls |-> r] : r \in Reviews}
  /\ tries = [c \in Calls |-> 0]
  /\ out = [c \in Calls |-> "none"] /\ cut = {} /\ faults = 0

Next ==
  \/ \E c \in Calls :
       \/ \E r \in Reviews : lookup(c, r)
       \/ refused(c) \/ read_confined_body(c)
       \/ acquire(c) \/ acquire_fails(c)
       \/ review_pr(c) \/ post_refused(c) \/ post_retried(c)
       \/ commit(c) \/ commit_fails(c) \/ release(c) \/ release_fails(c)
       \/ record(c) \/ dropped(c)
  \/ \E r \in Reviews : lands(r)
  \/ \E p \in Procs : flush(p) \/ insert_fails(p) \/ crash(p)

Spec == Init /\ [][Next]_vars

-----------------------------------------------------------------------------
(* Properties. *)

\* Every variable has its type; a request is retried MaxRetries times at most.
PostTypeOK ==
  /\ lease \in [Reviews -> {"none", "held", "posted"}] /\ log \in Seq(Row)
  /\ comments \in [Reviews -> Nat] /\ late \in [Reviews -> Nat]
  /\ unheard \in [Reviews -> Nat] /\ cut \subseteq Calls
  /\ pc \in [Calls -> {"new", "read", "acquire", "post", "commit", "release", "record", "done"}]
  /\ on \in [Calls -> Reviews] /\ tries \in [Calls -> 0 .. MaxRetries]
  /\ out \in [Calls -> {"none", "failed", "already", "posted", "skipped", "superseded"}]
  /\ faults \in 0 .. MaxFaults

\* The forge answers at most one post of a draft, and no request about it goes out
\* after that one, however approvals, dropped calls, crashes and failed store calls
\* overlap (what the post lease is for).  It does not say that there is one comment:
\* each request that failed for its call may have left another (unheard), be it one
\* that was repeated or one after which the lease was released for a second approve.
AnsweredOnce ==
  \A r \in Reviews :
    comments[r] > unheard[r] =>
      comments[r] = 1 + unheard[r] /\ \A c \in Calls : on[c] = r => pc[c] # "post"

\* A draft whose skip was answered is never posted by a request that succeeds: what
\* is at the forge came from requests that had failed for their calls.
SkipIsFinal ==
  \A c \in Skips : out[c] = "skipped" /\ pc[c] = "done" => comments[on[c]] = unheard[on[c]]

\* A held lease has a call to answer for it: one that is on its way to commit it or to
\* give it back, whatever the forge answers, or one that was cut off from it while it
\* held it (its client left, its process died, a store call failed).  Only the second
\* kind leaves a draft that no approve can post and no skip can close.
HeldHasHolder ==
  \A r \in Reviews : lease[r] = "held" =>
    \E c \in Calls : on[c] = r /\ (holding(c) \/ c \in cut)

=============================================================================
