--------------------------- MODULE CampaignPoller ---------------------------
(***************************************************************************)
(* The pull request poller (crates/agent-campaign/src/driver/poller.rs).   *)
(* Per tick it takes the oldest leaves in review, asks the forge for the   *)
(* pull request each row named when the batch was read, and resolves the   *)
(* leaf by its task id.  Every read and write is a step of its own, so the *)
(* snapshot, the policy and the approval can all be old when the leaf is   *)
(* resolved.  Around it: the workers that open pull requests, the users    *)
(* and the forge, each reduced to the writes the poller can observe.       *)
(***************************************************************************)
EXTENDS Integers, Sequences, FiniteSets

CONSTANTS
  Leaves,    \* the leaves of one campaign
  Pollers,   \* one per driver process
  Steady,    \* the processes that are kept running; the others may stop anywhere
  PRs,       \* the numbers the forge hands out, in their order
  Batch,     \* [campaign] poll_batch
  MaxFaults, \* bound: errors, timeouts and crashes in a behaviour
  Approvals, \* the values of require_pr_approval a user may store
  NoPR       \* a row without a pull request

ASSUME PollerAssumption ==
  /\ Batch \in Nat \ {0} /\ PRs \subseteq Nat /\ NoPR \notin PRs
  /\ IsFiniteSet(Leaves) /\ Leaves # {} /\ Steady \subseteq Pollers
  /\ Approvals \subseteq BOOLEAN /\ MaxFaults \in Nat

VARIABLES
  leaf,      \* the state of a leaf; "working" stands for ready, claimed and running
  pr,        \* the pr_number column
  in_review, \* the leaves in review by updated_at, oldest first
  approved,  \* leaves with a pr_approved event
  marks,     \* the awaiting_pr_approval events of a leaf
  strict,    \* require_pr_approval of the root's policy
  forge,     \* the state of a pull request at the forge
  made_for,  \* the leaf a pull request was opened for
  pc,        \* where a poller is
  batch,     \* the rest of a poller's batch: leaf and number as they were read
  cached,    \* the policy as the batch read it: {} before, then {require_pr_approval}
  faults     \* faults so far

row_vars    == <<leaf, pr, in_review>>
event_vars  == <<approved, marks>>
forge_vars  == <<forge, made_for>>
poller_vars == <<pc, batch, cached>>
vars == <<row_vars, event_vars, forge_vars, poller_vars, strict, faults>>

LeafState == {"working", "in_review", "done", "failed", "cancelled"}
PrState   == {"none", "open", "merged", "closed"}
Step      == {"idle", "policy", "ask", "events", "merged", "closed", "awaiting", "error"}

-----------------------------------------------------------------------------
(* The store's side. *)

\* A list without l, which is in it once at most.
without(s, l) ==
  IF \E i \in 1 .. Len(s) : s[i] = l
  THEN LET at == CHOOSE i \in 1 .. Len(s) : s[i] = l
       IN  [i \in 1 .. Len(s) - 1 |-> IF i < at THEN s[i] ELSE s[i + 1]]
  ELSE s

\* A state write: the row's updated_at is now.
set_leaf(l, s) ==
  /\ leaf' = [leaf EXCEPT ![l] = s]
  /\ in_review' = IF s = "in_review" THEN Append(in_review, l) ELSE without(in_review, l)

\* A worker pushes, opens a pull request and completes; the lease may be lost in
\* between, and then the pull request is there and the row does not name it.
complete(l, n) ==
  /\ leaf[l] = "working" /\ forge[n] = "none" /\ \A m \in PRs : m < n => forge[m] # "none"
  /\ forge' = [forge EXCEPT ![n] = "open"]
  /\ made_for' = [made_for EXCEPT ![n] = l]
  /\ \/ set_leaf(l, "in_review") /\ pr' = [pr EXCEPT ![l] = n]
     \/ UNCHANGED row_vars
  /\ UNCHANGED <<event_vars, poller_vars, strict, faults>>

fail(l) ==
  /\ leaf[l] = "working"
  /\ set_leaf(l, "failed")
  /\ UNCHANGED <<pr, event_vars, forge_vars, poller_vars, strict, faults>>

retry(l) ==
  /\ leaf[l] = "failed"
  /\ set_leaf(l, "working")
  /\ UNCHANGED <<pr, event_vars, forge_vars, poller_vars, strict, faults>>

cancel(l) ==
  /\ leaf[l] \in {"working", "in_review", "failed"}
  /\ set_leaf(l, "cancelled")
  /\ UNCHANGED <<pr, event_vars, forge_vars, poller_vars, strict, faults>>

\* On a leaf in review an approval is an event: the row, and so its place in the
\* order, stays as it is.
approve(l) ==
  /\ leaf[l] = "in_review"
  /\ approved' = approved \cup {l}
  /\ UNCHANGED <<row_vars, marks, forge_vars, poller_vars, strict, faults>>

update_policy(b) ==
  /\ strict' = b
  /\ UNCHANGED <<row_vars, event_vars, forge_vars, poller_vars, faults>>

-----------------------------------------------------------------------------
(* The forge: a closed pull request can be opened again, a merged one cannot. *)

forge_step(n) ==
  /\ \/ forge[n] = "open" /\ forge' = [forge EXCEPT ![n] = "merged"]
     \/ forge[n] = "open" /\ forge' = [forge EXCEPT ![n] = "closed"]
     \/ forge[n] = "closed" /\ forge' = [forge EXCEPT ![n] = "open"]
  /\ UNCHANGED <<row_vars, event_vars, made_for, poller_vars, strict, faults>>

-----------------------------------------------------------------------------
(* The poller. *)

\* An error, a timeout or a crash: behaviours have at most MaxFaults of them.
a_fault == faults < MaxFaults /\ faults' = faults + 1

\* Mutant of listed: a leaf that was noted as awaiting its approval is not asked about
\* again.
listed_unmarked == SelectSeq(in_review, LAMBDA l : marks[l] = 0)

\* ORDER BY updated_at.
listed == in_review

\* The first of them, up to the limit.
poll(p) ==
  /\ pc[p] = "idle" /\ listed # <<>>
  /\ LET n == IF Len(listed) < Batch THEN Len(listed) ELSE Batch
     IN  batch' = [batch EXCEPT ![p] =
                     [i \in 1 .. n |-> [leaf   |-> listed[i],
                                        number |-> pr[listed[i]]]]]
  /\ pc' = [pc EXCEPT ![p] = "policy"]
  /\ UNCHANGED <<row_vars, event_vars, forge_vars, cached, strict, faults>>

polled(p) == Head(batch[p])

goto(p, s) == pc' = [pc EXCEPT ![p] = s] /\ UNCHANGED <<batch, cached>>

\* The next leaf of the batch, or the end of it and of what it had read.
next_leaf(p) ==
  /\ batch' = [batch EXCEPT ![p] = Tail(@)]
  /\ cached' = [cached EXCEPT ![p] = IF Len(batch[p]) = 1 THEN {} ELSE @]
  /\ pc' = [pc EXCEPT ![p] = IF Len(batch[p]) = 1 THEN "idle" ELSE "policy"]

\* The root is read once per batch; a read that fails is tried again for the
\* next leaf.
read_policy(p) ==
  /\ pc[p] = "policy"
  /\ cached' = [cached EXCEPT ![p] = IF @ = {} THEN {strict} ELSE @]
  /\ pc' = [pc EXCEPT ![p] = "ask"] /\ UNCHANGED batch
  /\ UNCHANGED <<row_vars, event_vars, forge_vars, strict, faults>>

policy_unread(p) ==
  /\ pc[p] = "policy" /\ cached[p] = {}
  /\ next_leaf(p)
  /\ a_fault
  /\ UNCHANGED <<row_vars, event_vars, forge_vars, strict>>

\* What the poller makes of an answer about pull request n.
after_answer(p, n) ==
  CASE forge[n] = "open"   -> next_leaf(p)
    [] forge[n] = "closed" -> goto(p, "closed")
    [] forge[n] = "merged" -> goto(p, IF TRUE \in cached[p] THEN "events" ELSE "merged")

get_pr(p) ==
  /\ pc[p] = "ask"
  /\ after_answer(p, polled(p).number)
  /\ UNCHANGED <<row_vars, event_vars, forge_vars, strict, faults>>

\* Mutant of get_other_pr: the number of the answer is not looked at.
get_other_pr_unchecked(p, n) ==
  /\ pc[p] = "ask" /\ forge[n] # "none" /\ n # polled(p).number
  /\ after_answer(p, n)
  /\ a_fault
  /\ UNCHANGED <<row_vars, event_vars, forge_vars, strict>>

\* The forge answers with another pull request than the one it was asked for.
get_other_pr(p, n) ==
  /\ pc[p] = "ask" /\ forge[n] # "none" /\ n # polled(p).number
  /\ goto(p, "error")
  /\ a_fault
  /\ UNCHANGED <<row_vars, event_vars, forge_vars, strict>>

\* An error or a timeout is noted on the leaf; an unknown state is only counted.
get_pr_fails(p) ==
  /\ pc[p] = "ask"
  /\ goto(p, "error") \/ next_leaf(p)
  /\ a_fault
  /\ UNCHANGED <<row_vars, event_vars, forge_vars, strict>>

\* Mutant of has_pr_approval: an awaiting mark counts as an approval.
has_any_mark(l) == l \in approved \/ marks[l] > 0

has_pr_approval(l) == l \in approved

read_events(p) ==
  /\ pc[p] = "events"
  /\ goto(p, IF has_pr_approval(polled(p).leaf) THEN "merged" ELSE "awaiting")
  /\ UNCHANGED <<row_vars, event_vars, forge_vars, strict, faults>>

\* By task id and state: the row's pull request is not looked at again.
resolve_review(p) ==
  /\ pc[p] \in {"merged", "closed"}
  /\ leaf[polled(p).leaf] = "in_review"
  /\ set_leaf(polled(p).leaf, IF pc[p] = "merged" THEN "done" ELSE "failed")
  /\ next_leaf(p)
  /\ UNCHANGED <<pr, event_vars, forge_vars, strict, faults>>

\* Mutant of review_note: the mark is written on every tick.
review_note_always(p) ==
  /\ pc[p] \in {"awaiting", "error"}
  /\ leaf[polled(p).leaf] = "in_review"
  /\ marks' = [marks EXCEPT ![polled(p).leaf] = IF pc[p] = "awaiting" THEN @ + 1 ELSE @]
  /\ next_leaf(p)
  /\ UNCHANGED <<row_vars, approved, forge_vars, strict, faults>>

\* The mark of a leaf that awaits its approval is written once; a poll_error is
\* text and leaves nothing that is read again.
review_note(p) ==
  /\ pc[p] \in {"awaiting", "error"}
  /\ leaf[polled(p).leaf] = "in_review"
  /\ marks' = [marks EXCEPT ![polled(p).leaf] = IF pc[p] = "awaiting" THEN 1 ELSE @]
  /\ next_leaf(p)
  /\ UNCHANGED <<row_vars, approved, forge_vars, strict, faults>>

\* Conflict: the leaf is no longer in review.  Logged, and the batch goes on.
refused(p) ==
  /\ pc[p] \in {"merged", "closed", "awaiting", "error"}
  /\ leaf[polled(p).leaf] # "in_review"
  /\ next_leaf(p)
  /\ UNCHANGED <<row_vars, event_vars, forge_vars, strict, faults>>

\* The store is unreachable, with the same consequence.
call_fails(p) ==
  /\ pc[p] \in {"events", "merged", "closed", "awaiting", "error"}
  /\ next_leaf(p)
  /\ a_fault
  /\ UNCHANGED <<row_vars, event_vars, forge_vars, strict>>

\* The driver ends; its successor starts with an empty batch.
crash(p) ==
  /\ pc[p] # "idle"
  /\ pc' = [pc EXCEPT ![p] = "idle"]
  /\ batch' = [batch EXCEPT ![p] = <<>>] /\ cached' = [cached EXCEPT ![p] = {}]
  /\ a_fault
  /\ UNCHANGED <<row_vars, event_vars, forge_vars, strict>>

-----------------------------------------------------------------------------
Init ==
  /\ leaf = [l \in Leaves |-> "working"]
  /\ pr = [l \in Leaves |-> NoPR]
  /\ in_review = <<>>
  /\ approved = {}
  /\ marks = [l \in Leaves |-> 0]
  /\ strict \in BOOLEAN
  /\ forge = [n \in PRs |-> "none"]
  /\ made_for = [n \in PRs |-> CHOOSE l \in Leaves : TRUE]
  /\ pc = [p \in Pollers |-> "idle"]
  /\ batch = [p \in Pollers |-> <<>>]
  /\ cached = [p \in Pollers |-> {}]
  /\ faults = 0

LeafStep ==
  \E l \in Leaves :
    \/ \E n \in PRs : complete(l, n)
    \/ fail(l) \/ retry(l) \/ cancel(l) \/ approve(l)

PollerStep(p) ==
  \/ poll(p) \/ read_policy(p) \/ get_pr(p) \/ read_events(p)
  \/ resolve_review(p) \/ review_note(p) \/ refused(p)

PollerFault(p) ==
  \/ policy_unread(p) \/ get_pr_fails(p) \/ call_fails(p) \/ crash(p)
  \/ \E n \in PRs : get_other_pr(p, n)

Next ==
  \/ LeafStep
  \/ \E b \in Approvals : update_policy(b)
  \/ \E n \in PRs : forge_step(n)
  \/ \E p \in Pollers : PollerStep(p) \/ PollerFault(p)

Spec == Init /\ [][Next]_vars

\* In a process that is kept running every tick polls, and every call of the poller
\* returns: get_pr is bounded by POLL_PR_TIMEOUT_SECS and a store call answers or fails.
FairSpec == Spec /\ \A p \in Steady : WF_vars(PollerStep(p))

-----------------------------------------------------------------------------
(* Properties. *)

\* The rows and the pollers' places have their types, and at most one
\* awaiting_pr_approval event is ever written for a leaf.
PollerTypeOK ==
  /\ leaf \in [Leaves -> LeafState]
  /\ pr \in [Leaves -> PRs \cup {NoPR}]
  /\ in_review \in Seq(Leaves)
  /\ approved \subseteq Leaves
  /\ marks \in [Leaves -> {0, 1}]
  /\ strict \in BOOLEAN
  /\ forge \in [PRs -> PrState]
  /\ made_for \in [PRs -> Leaves]
  /\ pc \in [Pollers -> Step]
  /\ batch \in [Pollers -> Seq([leaf : Leaves, number : PRs])]
  /\ cached \in [Pollers -> SUBSET BOOLEAN]
  /\ faults \in 0 .. MaxFaults

\* A done leaf had a pull request of its own merged, not another leaf's, whatever
\* the forge answered and however many pollers raced with the user's retries.  It
\* need not be the one the row names now: resolve_review goes by the task id, so an
\* answer about an earlier pull request of the leaf resolves it too.
DoneMeansMerged ==
  \A l \in Leaves : leaf[l] = "done" =>
    \E n \in PRs : forge[n] = "merged" /\ made_for[n] = l

\* A leaf becomes done only after a user approved it, or by the batch of a poller that
\* had itself read a policy without require_pr_approval: a policy that is switched on
\* while that batch is under way comes too late for it, and whatever other pollers, the
\* forge or faults do opens the gate to no other batch.  An approval given to an
\* earlier pull request of the leaf counts.
ApprovalGate ==
  [][\A l \in Leaves : leaf[l] # "done" /\ leaf'[l] = "done" =>
       \/ l \in approved
       \/ \E p \in Pollers : pc[p] = "merged" /\ polled(p).leaf = l /\ FALSE \in cached[p]]_vars

\* The leaves the next batch takes.
in_front(l) == \E i \in 1 .. Len(in_review) : i <= Batch /\ in_review[i] = l

\* A merged and approved leaf among the poll_batch oldest in review does not stay so:
\* another leaf, forge errors and crashes only delay its resolution (nothing else ends
\* any of the three).  Behind them it is not even asked about, for as long as they stay
\* in review: an open pull request, or a merged one that nobody approves, keeps its
\* place, and the property says nothing of the leaves behind it.
MergedIsResolved ==
  \A l \in Leaves : []<>~(in_front(l) /\ l \in approved /\ forge[pr[l]] = "merged")

=============================================================================
