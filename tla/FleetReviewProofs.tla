------------------------- MODULE FleetReviewProofs -------------------------
(***************************************************************************)
(* For every roster, list of pull requests, queue and cap: a review runs   *)
(* on its own checkout, no trigger is queued twice or folded away, and the *)
(* host's sessions are those of the reviews under way.                     *)
(***************************************************************************)
EXTENDS FleetReview, FiniteSetTheorems, WellFoundedInduction, TLAPS

\* Past its first checks handle works for a key without a task, and from worktree_add
\* on it has that key's worktree at the head it fetched.
DrainOK ==
  /\ drain.at # "idle" => drain.key \in Keys
  /\ drain.at \in {"prior", "fetch", "worktree", "ground"} => task[drain.key].at = "none"
  /\ drain.at = "ground" => worktree[drain.key] = drain.head

\* A key is in the queue once at most, and what was folded for a key is in the queue:
\* a forced trigger is never left behind in pending.
FoldOK ==
  /\ \A i, j \in 1 .. Len(queue) : queue[i] = queue[j] => i = j
  /\ \A k \in Keys : pending[k] # Unfolded => \E i \in 1 .. Len(queue) : queue[i] = k

\* The live sessions are those of admitted reviews that are not yet cleaned up, and no
\* more than the host admits.
SessionsOK ==
  /\ IsFiniteSet(sessions) /\ Cardinality(sessions) <= MaxTotal
  /\ \A k \in Keys : /\ k \in sessions => task[k].at \in {"run", "clean"}
                     /\ task[k].at = "run" => k \in sessions

ReviewInv ==
  /\ ReviewTypeOK /\ DrainOK /\ FoldOK /\ SessionsOK /\ RunsOnItsTree

\* The types of the records.
Folded == [head : Heads, force : BOOLEAN]
DrainRec == [at : {"idle", "row", "prior", "fetch", "worktree", "ground"},
             key : Keys \cup {<<>>}, hint : Heads, force : BOOLEAN, prior : Draft, head : Heads]
TaskRec == [at : {"none", "admit", "run", "clean", "finished"}, head : Heads, facts : BOOLEAN]
ListRec == [at : 1 .. Len(Listed), head : Heads]
BufRec == [pr : Prs, draft : Draft]

USE DEF trigger_vars, history_vars

-----------------------------------------------------------------------------
(* Helpers. *)

\* The bounds are natural numbers, the capacities positive.
LEMMA Bounds ==
  /\ PerTick \in Nat \ {0} /\ QueueCap \in Nat \ {0} /\ MaxTotal \in Nat \ {0}
  /\ MaxRows \in Nat \ {0} /\ MaxHead \in Nat /\ MaxForced \in Nat /\ MaxFaults \in Nat
  /\ Polled \subseteq Rows /\ Asked \subseteq Keys
BY FleetReviewAssumption

\* The records that stand for nothing have their types, and 0 is a head.
LEMMA Blanks ==
  /\ 0 \in Heads /\ NoDraft \in Draft /\ Unfolded \in Folded /\ NoTask \in TaskRec
  /\ Idle \in DrainRec
<1>1. 0 \in Heads
  BY Bounds DEF Heads
<1>2. NoDraft \in Draft
  BY <1>1 DEF NoDraft, Draft
<1>3. Unfolded \in Folded /\ NoTask \in TaskRec
  BY <1>1 DEF Unfolded, Folded, NoTask, TaskRec
<1>4. Idle \in DrainRec
  BY <1>1, <1>2 DEF Idle, DrainRec
<1>5. QED
  BY <1>1, <1>2, <1>3, <1>4

\* A set of natural numbers that has a member has a least one.
LEMMA NatMin ==
  ASSUME NEW T \in SUBSET Nat, T # {}
  PROVE  \E x \in T : \A y \in T : x <= y
<1>. DEFINE R == {ss \in Nat \X Nat : ss[1] < ss[2]}
<1>1. IsWellFoundedOn(R, Nat)
  BY NatLessThanWellFounded DEF OpToRel
<1>2. PICK x \in T : \A y \in T : ~(<<y, x>> \in R)
  <2>. HIDE DEF R
  <2>. QED BY <1>1, WFMin
<1>3. \A y \in T : ~(y < x)
  BY <1>2
<1>4. QED
  BY <1>3

\* One of numbers up to n has a greatest one.
LEMMA MaxUpTo ==
  ASSUME NEW n \in Nat, NEW S \in SUBSET (1 .. n), S # {}
  PROVE  \E i \in S : \A j \in S : j <= i
<1>. DEFINE T == {m \in Nat : \A j \in S : j <= m}
<1>1. n \in T
  OBVIOUS
<1>2. PICK m \in T : \A y \in T : m <= y
  <2>1. T \in SUBSET Nat /\ T # {}
    BY <1>1
  <2>. HIDE DEF T
  <2>2. QED
    BY <2>1, NatMin
<1>3. m \in S
  <2>. SUFFICES ASSUME m \notin S PROVE FALSE
    OBVIOUS
  <2>1. PICK j \in S : TRUE
    OBVIOUS
  <2>2. j \in Nat \ {0} /\ j <= m /\ m \in Nat
    BY <1>2, <2>1
  <2>3. m - 1 \in Nat
    BY <2>2
  <2>4. \A y \in S : y <= m - 1
    <3>1. \A y \in S : y \in Nat /\ y <= m /\ y # m
      BY <1>2
    <3>2. QED
      BY <2>2, <3>1
  <2>5. m - 1 \in T
    BY <2>3, <2>4
  <2>6. QED
    BY <1>2, <2>2, <2>5
<1>4. QED
  BY <1>2, <1>3

\* The initial states satisfy the invariant.
LEMMA ReviewInit == Init => ReviewInv
<1>. SUFFICES ASSUME Init PROVE ReviewInv
  OBVIOUS
<1>. USE Bounds, Blanks DEF Init
<1>1. ReviewTypeOK
  <2>1. queue \in Seq(Keys) /\ Len(queue) <= QueueCap /\ buf \in Seq(BufRec)
    OBVIOUS
  <2>2. /\ head \in [Prs -> Heads] /\ listed \in [Rows -> SUBSET ListRec]
        /\ pending \in [Keys -> Folded] /\ task \in [Keys -> TaskRec] /\ drain \in DrainRec
        /\ sessions \subseteq Keys /\ worktree \in [Keys -> Heads] /\ hist \in [Prs -> Draft]
    OBVIOUS
  <2>3. forced \in 0 .. MaxForced /\ faults \in 0 .. MaxFaults
    OBVIOUS
  <2>4. QED
    BY <2>1, <2>2, <2>3 DEF ReviewTypeOK, Folded, TaskRec, DrainRec, ListRec, BufRec
<1>2. DrainOK /\ FoldOK
  BY DEF DrainOK, FoldOK, Idle
<1>3. SessionsOK
  BY FS_EmptySet DEF SessionsOK, NoTask
<1>4. RunsOnItsTree
  BY DEF RunsOnItsTree, NoTask
<1>5. QED
  BY <1>1, <1>2, <1>3, <1>4 DEF ReviewInv

\* The drain, the tasks and their trees and sessions are untouched.
LEMMA TasksKeep ==
  ASSUME ReviewInv, drain' = drain, task' = task, sessions' = sessions, worktree' = worktree
  PROVE  DrainOK' /\ SessionsOK' /\ RunsOnItsTree'
BY DEF ReviewInv, DrainOK, SessionsOK, RunsOnItsTree, review_worktree_id

\* So is the queue.
LEMMA QueueKeep ==
  ASSUME ReviewInv, queue' = queue, pending' = pending
  PROVE  FoldOK'
BY DEF ReviewInv, FoldOK

\* A fault is counted.
LEMMA Fault == ASSUME ReviewTypeOK, fault PROVE faults' \in 0 .. MaxFaults
BY Bounds DEF ReviewTypeOK, fault

-----------------------------------------------------------------------------
(* The queue. *)

\* A trigger is folded, queued or shed.
LEMMA Enqueue ==
  ASSUME ReviewInv, NEW k \in Keys, NEW h \in Heads, NEW f \in BOOLEAN, enqueue(k, h, f)
  PROVE  /\ queue' \in Seq(Keys) /\ Len(queue') <= QueueCap /\ pending' \in [Keys -> Folded]
         /\ FoldOK'
<1>. USE DEF ReviewInv
<1>1. /\ queue \in Seq(Keys) /\ Len(queue) \in Nat /\ Len(queue) <= QueueCap
      /\ pending \in [Keys -> Folded]
  BY DEF ReviewTypeOK, Folded
<1>2. CASE k \in {queue[i] : i \in 1 .. Len(queue)}
  <2>. DEFINE g == [head |-> IF pending[k].head = h THEN h ELSE 0, force |-> pending[k].force \/ f]
  <2>1. queue' = queue /\ pending' = [pending EXCEPT ![k] = g]
    BY <1>1, <1>2 DEF enqueue
  <2>2. g \in Folded
    <3>1. (pending[k].force \/ f) \in BOOLEAN
      OBVIOUS
    <3>2. QED
      BY <3>1, Blanks DEF Folded
  <2>. HIDE DEF g
  <2>3. pending' \in [Keys -> Folded] /\ \A j \in Keys : j # k => pending'[j] = pending[j]
    BY <1>1, <2>1, <2>2
  <2>4. \E i \in 1 .. Len(queue) : queue[i] = k
    BY <1>2
  <2>5. FoldOK'
    BY <2>1, <2>3, <2>4 DEF FoldOK
  <2>6. QED
    BY <1>1, <2>1, <2>3, <2>5
<1>3. CASE k \notin {queue[i] : i \in 1 .. Len(queue)} /\ Len(queue) < QueueCap
  <2>. DEFINE g == [head |-> h, force |-> f]
  <2>1. queue' = Append(queue, k) /\ pending' = [pending EXCEPT ![k] = g]
    BY <1>3 DEF enqueue
  <2>2. g \in Folded
    BY DEF Folded
  <2>. HIDE DEF g
  <2>3. pending' \in [Keys -> Folded] /\ \A j \in Keys : j # k => pending'[j] = pending[j]
    BY <1>1, <2>1, <2>2
  <2>4. /\ queue' \in Seq(Keys) /\ Len(queue') = Len(queue) + 1 /\ queue'[Len(queue) + 1] = k
        /\ \A i \in 1 .. Len(queue) : queue'[i] = queue[i] /\ queue[i] # k
    BY <1>1, <1>3, <2>1
  <2>5. Len(queue') <= QueueCap
    BY <1>1, <1>3, <2>4, Bounds
  <2>6. \A i, j \in 1 .. Len(queue') : queue'[i] = queue'[j] => i = j
    BY <1>1, <2>4 DEF FoldOK
  <2>7. ASSUME NEW j \in Keys, pending'[j] # Unfolded
        PROVE  \E i \in 1 .. Len(queue') : queue'[i] = j
    <3>1. CASE j = k
      <4>1. Len(queue) + 1 \in 1 .. Len(queue')
        BY <1>1, <2>4
      <4>2. QED
        BY <2>4, <3>1, <4>1
    <3>2. CASE j # k
      <4>1. PICK i \in 1 .. Len(queue) : queue[i] = j
        BY <2>3, <2>7, <3>2 DEF FoldOK
      <4>2. i \in 1 .. Len(queue')
        BY <1>1, <2>4
      <4>3. QED
        BY <2>4, <4>1, <4>2
    <3>3. QED
      BY <3>1, <3>2
  <2>8. QED
    BY <2>3, <2>4, <2>5, <2>6, <2>7 DEF FoldOK
<1>4. CASE k \notin {queue[i] : i \in 1 .. Len(queue)} /\ ~(Len(queue) < QueueCap)
  <2>1. queue' = queue /\ pending' = pending
    BY <1>4 DEF enqueue
  <2>2. QED
    BY <1>1, <2>1, QueueKeep
<1>5. QED
  BY <1>2, <1>3, <1>4

\* A poll, a webhook, a request: the queue changes and nothing that handle works on.
LEMMA TriggerStep ==
  ASSUME ReviewInv,
         \/ \E r \in Polled : list_prs(r) \/ emit(r)
         \/ \E k \in Asked : webhook(k) \/ review_now(k)
  PROVE  ReviewInv'
<1>. USE Bounds DEF ReviewInv
<1>1. /\ head' = head /\ drain' = drain /\ task' = task /\ sessions' = sessions
      /\ worktree' = worktree /\ hist' = hist /\ buf' = buf /\ faults' = faults
  BY DEF list_prs, emit, webhook, review_now
<1>2. forced' \in 0 .. MaxForced
  <2>1. forced' = forced \/ (forced < MaxForced /\ forced' = forced + 1)
    BY DEF list_prs, emit, webhook, review_now
  <2>2. forced \in 0 .. MaxForced
    BY DEF ReviewTypeOK
  <2>3. QED
    BY <2>1, <2>2
<1>3. /\ queue' \in Seq(Keys) /\ Len(queue') <= QueueCap /\ pending' \in [Keys -> Folded]
      /\ FoldOK' /\ listed' \in [Rows -> SUBSET ListRec]
  <2>0. /\ queue \in Seq(Keys) /\ Len(queue) <= QueueCap /\ pending \in [Keys -> Folded]
        /\ listed \in [Rows -> SUBSET ListRec] /\ head \in [Prs -> Heads]
    BY DEF ReviewTypeOK, ListRec, Folded
  <2>1. ASSUME NEW r \in Polled, list_prs(r)
        PROVE  queue' = queue /\ pending' = pending /\ listed' \in [Rows -> SUBSET ListRec]
    <3>. DEFINE open == {i \in 1 .. Len(Listed) : head[Listed[i]] # 0}
                first == {i \in open : Cardinality({j \in open : j < i}) < PerTick}
                told == {[at |-> i, head |-> head[Listed[i]]] : i \in first}
    <3>1. queue' = queue /\ pending' = pending /\ listed' = [listed EXCEPT ![r] = told]
      BY <2>1 DEF list_prs
    <3>2. first \subseteq 1 .. Len(Listed)
      OBVIOUS
    <3>. HIDE DEF first
    <3>3. told \subseteq ListRec
      <4>1. ASSUME NEW i \in first PROVE [at |-> i, head |-> head[Listed[i]]] \in ListRec
        <5>1. i \in 1 .. Len(Listed) /\ Listed[i] \in Prs
          BY <3>2 DEF Prs
        <5>2. head[Listed[i]] \in Heads
          BY <2>0, <5>1
        <5>3. QED
          BY <5>1, <5>2 DEF ListRec
      <4>2. QED
        BY <4>1
    <3>. HIDE DEF told
    <3>4. QED
      BY <2>0, <3>1, <3>3
  <2>2. ASSUME NEW r \in Polled, emit(r)
        PROVE  /\ queue' \in Seq(Keys) /\ Len(queue') <= QueueCap /\ pending' \in [Keys -> Folded]
               /\ FoldOK' /\ listed' \in [Rows -> SUBSET ListRec]
    <3>1. PICK p \in listed[r] : /\ enqueue(<<r, Listed[p.at]>>, p.head, FALSE)
                                 /\ listed' = [listed EXCEPT ![r] = listed[r] \ {p}]
      BY <2>0, <2>2 DEF emit
    <3>2. p \in ListRec /\ r \in Rows
      BY <2>0, <3>1
    <3>3. <<r, Listed[p.at]>> \in Keys /\ p.head \in Heads /\ FALSE \in BOOLEAN
      BY <3>2 DEF ListRec, Keys, Prs
    <3>4. /\ queue' \in Seq(Keys) /\ Len(queue') <= QueueCap /\ pending' \in [Keys -> Folded]
          /\ FoldOK'
      BY <3>1, <3>3, Enqueue
    <3>5. listed' \in [Rows -> SUBSET ListRec]
      BY <2>0, <3>1
    <3>6. QED
      BY <3>4, <3>5
  <2>3. ASSUME NEW k \in Asked, webhook(k) \/ review_now(k)
        PROVE  /\ queue' \in Seq(Keys) /\ Len(queue') <= QueueCap /\ pending' \in [Keys -> Folded]
               /\ FoldOK' /\ listed' \in [Rows -> SUBSET ListRec]
    <3>1. k \in Keys /\ 0 \in Heads /\ listed' = listed
      BY <2>3, Blanks DEF webhook, review_now
    <3>2. PICK f \in BOOLEAN : enqueue(k, 0, f)
      BY <2>3 DEF webhook, review_now
    <3>3. QED
      BY <2>0, <3>1, <3>2, Enqueue
  <2>4. QED
    BY <2>0, <2>1, <2>2, <2>3, QueueKeep
<1>4. ReviewTypeOK'
  BY <1>1, <1>2, <1>3 DEF ReviewTypeOK, ListRec, Folded
<1>5. QED
  BY <1>1, <1>3, <1>4, TasksKeep

\* A push, and a decision on a draft, are seen by the next read only.
LEMMA OutsideStep ==
  ASSUME ReviewInv, NEW p \in Prs, push(p) \/ posted(p)
  PROVE  ReviewInv'
<1>. USE Bounds DEF ReviewInv
<1>1. /\ listed' = listed /\ queue' = queue /\ pending' = pending /\ drain' = drain /\ task' = task
      /\ sessions' = sessions /\ worktree' = worktree /\ buf' = buf /\ forced' = forced
      /\ faults' = faults
  BY DEF push, posted
<1>2. head' \in [Prs -> Heads]
  <2>1. head \in [Prs -> Heads] /\ (head[p] < MaxHead => head[p] + 1 \in Heads)
    BY DEF ReviewTypeOK, Heads
  <2>2. QED
    BY <2>1 DEF push, posted
<1>3. hist' \in [Prs -> Draft]
  <2>1. CASE posted(p)
    <3>1. hist[p] \in Draft /\ hist' = [hist EXCEPT ![p] = [hist[p] EXCEPT !.status = "posted"]]
      BY <2>1 DEF posted, ReviewTypeOK
    <3>2. [hist[p] EXCEPT !.status = "posted"] \in Draft
      BY <3>1 DEF Draft
    <3>3. QED
      BY <3>1, <3>2 DEF ReviewTypeOK
  <2>2. CASE push(p)
    BY <2>2 DEF push, ReviewTypeOK
  <2>3. QED
    BY <2>1, <2>2
<1>4. ReviewTypeOK'
  BY <1>1, <1>2, <1>3 DEF ReviewTypeOK
<1>5. QED
  BY <1>1, <1>4, TasksKeep, QueueKeep

-----------------------------------------------------------------------------
(* handle. *)

\* A trigger leaves the queue with all that was folded into it; finished tasks leave the
\* guard.
LEMMA RecvStep ==
  ASSUME ReviewInv, recv
  PROVE  ReviewInv'
<1>. USE DEF ReviewInv
<1>. DEFINE k == Head(queue)
<1>1. /\ head' = head /\ listed' = listed /\ sessions' = sessions /\ worktree' = worktree
      /\ hist' = hist /\ buf' = buf /\ forced' = forced /\ faults' = faults
      /\ queue # <<>> /\ queue' = Tail(queue) /\ task' = reap_finished(task)
      /\ pending' = [pending EXCEPT ![k] = Unfolded]
      /\ drain' = [Idle EXCEPT !.at = "row", !.key = k,
                               !.hint = pending[k].head, !.force = pending[k].force]
  BY DEF recv
<1>2. /\ queue \in Seq(Keys) /\ Len(queue) <= QueueCap /\ pending \in [Keys -> Folded]
      /\ task \in [Keys -> TaskRec]
  BY DEF ReviewTypeOK, Folded, TaskRec
<1>3. /\ k = queue[1] /\ k \in Keys /\ Len(queue) \in Nat \ {0} /\ queue' \in Seq(Keys)
      /\ Len(queue') = Len(queue) - 1
      /\ \A i \in 1 .. Len(queue) - 1 : queue'[i] = queue[i + 1]
  BY <1>1, <1>2
<1>4. Len(queue') <= QueueCap
  BY <1>2, <1>3, Bounds
<1>. HIDE DEF k
<1>5. /\ pending' \in [Keys -> Folded] /\ pending'[k] = Unfolded
      /\ \A j \in Keys : j # k => pending'[j] = pending[j]
  BY <1>1, <1>2, <1>3, Blanks
<1>6. drain' \in DrainRec /\ drain'.at = "row" /\ drain'.key = k
  <2>1. pending[k] \in Folded
    BY <1>2, <1>3
  <2>2. QED
    BY <1>1, <1>3, <2>1, Blanks DEF Folded, DrainRec, Idle
<1>7. /\ task' \in [Keys -> TaskRec]
      /\ \A j \in Keys : task'[j] = IF task[j].at = "finished" THEN NoTask ELSE task[j]
  BY <1>1, <1>2, Blanks DEF reap_finished
<1>8. ReviewTypeOK'
  BY <1>1, <1>3, <1>4, <1>5, <1>6, <1>7 DEF ReviewTypeOK, Folded, DrainRec, TaskRec
<1>9. FoldOK'
  <2>1. \A i, j \in 1 .. Len(queue') : queue'[i] = queue'[j] => i = j
    <3>1. \A i \in 1 .. Len(queue') : i + 1 \in 1 .. Len(queue)
      BY <1>3
    <3>2. QED
      BY <1>3, <3>1 DEF FoldOK
  <2>2. ASSUME NEW j \in Keys, pending'[j] # Unfolded
        PROVE  \E i \in 1 .. Len(queue') : queue'[i] = j
    <3>1. j # k /\ pending[j] # Unfolded
      BY <1>5, <2>2
    <3>2. PICK i \in 1 .. Len(queue) : queue[i] = j
      BY <3>1 DEF FoldOK
    <3>3. i # 1
      BY <1>3, <3>1, <3>2
    <3>4. i - 1 \in 1 .. Len(queue') /\ (i - 1) + 1 = i
      BY <1>3, <3>3
    <3>5. queue'[i - 1] = j
      BY <1>3, <3>2, <3>4
    <3>6. QED
      BY <3>4, <3>5
  <2>3. QED
    BY <2>1, <2>2 DEF FoldOK
<1>10. DrainOK'
  BY <1>3, <1>6 DEF DrainOK
<1>11. SessionsOK'
  BY <1>1, <1>7 DEF SessionsOK, NoTask
<1>12. RunsOnItsTree'
  BY <1>1, <1>7 DEF RunsOnItsTree, NoTask, review_worktree_id
<1>13. QED
  BY <1>8, <1>9, <1>10, <1>11, <1>12

\* The reads of handle: they end it or take it one step on, the key and its checks kept.
LEMMA ReadStep ==
  ASSUME ReviewInv, roster_get \/ prior_review \/ fetch_pr
  PROVE  ReviewInv'
<1>. USE DEF ReviewInv
<1>1. /\ head' = head /\ listed' = listed /\ queue' = queue /\ pending' = pending /\ task' = task
      /\ sessions' = sessions /\ worktree' = worktree /\ hist' = hist /\ buf' = buf
      /\ forced' = forced
  BY DEF roster_get, prior_review, fetch_pr
<1>2. faults' \in 0 .. MaxFaults
  <2>1. faults' = faults \/ fault
    BY DEF roster_get, prior_review, fetch_pr
  <2>2. QED
    BY <2>1, Fault DEF ReviewTypeOK
<1>3. drain \in DrainRec /\ head \in [Prs -> Heads] /\ hist \in [Prs -> Draft] /\ task \in [Keys -> TaskRec]
  BY DEF ReviewTypeOK, DrainRec, TaskRec
<1>4. drain.at \in {"row", "prior", "fetch"} /\ drain.key \in Keys /\ drain.key[2] \in Prs
  BY DEF roster_get, prior_review, fetch_pr, DrainOK, Keys
<1>5. \/ drain' = Idle
      \/ /\ drain' \in DrainRec /\ drain'.key = drain.key /\ task[drain.key].at = "none"
         /\ drain'.at \in {"prior", "fetch", "worktree"}
  <2>1. CASE roster_get
    <3>1. drain' = Idle \/ (drain' = [drain EXCEPT !.at = "prior"] /\ drain.key \notin in_flight)
      BY <2>1 DEF roster_get, returns
    <3>2. drain.key \notin in_flight => task[drain.key].at = "none"
      BY <1>4 DEF in_flight
    <3>3. QED
      BY <1>3, <3>1, <3>2 DEF DrainRec
  <2>2. CASE prior_review
    <3>1. drain' = Idle \/ \E last \in Draft : drain' = [drain EXCEPT !.at = "fetch", !.prior = last, !.hint = 0]
      BY <1>3, <1>4, <2>2, Blanks DEF prior_review, returns
    <3>2. task[drain.key].at = "none"
      BY <2>2 DEF prior_review, DrainOK
    <3>3. QED
      BY <1>3, <3>1, <3>2, Blanks DEF DrainRec
  <2>3. CASE fetch_pr
    <3>1. drain' = Idle \/ drain' = [drain EXCEPT !.at = "worktree", !.head = head[drain.key[2]]]
      BY <2>3 DEF fetch_pr, returns
    <3>2. task[drain.key].at = "none" /\ head[drain.key[2]] \in Heads
      BY <1>3, <1>4, <2>3 DEF fetch_pr, DrainOK
    <3>3. QED
      BY <1>3, <3>1, <3>2 DEF DrainRec
  <2>4. QED
    BY <2>1, <2>2, <2>3
<1>6. DrainOK'
  BY <1>1, <1>4, <1>5 DEF DrainOK, Idle
<1>7. SessionsOK' /\ RunsOnItsTree'
  BY <1>1 DEF SessionsOK, RunsOnItsTree, review_worktree_id
<1>8. drain' \in DrainRec
  BY <1>5, Blanks
<1>9. ReviewTypeOK'
  BY <1>1, <1>2, <1>8 DEF ReviewTypeOK, DrainRec
<1>10. QED
  BY <1>1, <1>6, <1>7, <1>9, QueueKeep

\* The worktree of the key is made anew, at the head that was fetched; no task has it.
LEMMA WorktreeStep ==
  ASSUME ReviewInv, worktree_add
  PROVE  ReviewInv'
<1>. USE DEF ReviewInv, review_worktree_id
<1>. DEFINE k == drain.key
            w == stale_removed(worktree, k)
<1>1. /\ head' = head /\ listed' = listed /\ queue' = queue /\ pending' = pending /\ task' = task
      /\ sessions' = sessions /\ hist' = hist /\ forced' = forced /\ drain.at = "worktree"
  BY DEF worktree_add
<1>2. k \in Keys /\ task[k].at = "none" /\ k[2] \in Prs
  BY <1>1 DEF DrainOK, Keys
<1>3. drain \in DrainRec /\ worktree \in [Keys -> Heads] /\ buf \in Seq(BufRec)
  BY DEF ReviewTypeOK, DrainRec, BufRec
<1>4. drain.head \in Heads /\ drain.prior \in Draft
  BY <1>3 DEF DrainRec
<1>5. w \in [Keys -> Heads] /\ \A j \in Keys : w[j] = IF j = k THEN 0 ELSE worktree[j]
  BY <1>2, <1>3, Blanks DEF stale_removed
<1>6. faults' \in 0 .. MaxFaults
  <2>1. faults' = faults \/ fault
    BY DEF worktree_add
  <2>2. QED
    BY <2>1, Fault DEF ReviewTypeOK
<1>7. buf' \in Seq(BufRec)
  <2>. DEFINE row == [pr |-> drain.key[2], draft |-> [drain.prior EXCEPT !.status = "superseded"]]
  <2>1. buf' = buf \/ buf' = Append(buf, row)
    BY DEF worktree_add, supersede
  <2>2. row \in BufRec
    BY <1>2, <1>4 DEF BufRec, Draft
  <2>. HIDE DEF row
  <2>3. QED
    BY <1>3, <2>1, <2>2
<1>8. \/ /\ worktree' = [w EXCEPT ![k] = drain.head]
         /\ drain' = [Idle EXCEPT !.at = "ground", !.key = k, !.head = drain.head]
      \/ (worktree' = worktree \/ worktree' = w) /\ drain' = Idle
  BY DEF worktree_add, returns
<1>. HIDE DEF k, w
<1>9. worktree' \in [Keys -> Heads] /\ \A j \in Keys : j # k => worktree'[j] = worktree[j]
  BY <1>2, <1>3, <1>4, <1>5, <1>8
<1>10. RunsOnItsTree'
  BY <1>1, <1>2, <1>9 DEF RunsOnItsTree
<1>11. SessionsOK'
  BY <1>1 DEF SessionsOK
<1>12. drain' \in DrainRec /\ DrainOK'
  <2>1. CASE /\ worktree' = [w EXCEPT ![k] = drain.head]
             /\ drain' = [Idle EXCEPT !.at = "ground", !.key = k, !.head = drain.head]
    <3>1. drain'.at = "ground" /\ drain'.key = k /\ drain'.head = drain.head /\ drain' \in DrainRec
      BY <1>2, <1>4, <2>1, Blanks DEF Idle, DrainRec
    <3>2. worktree'[k] = drain.head
      BY <1>2, <1>5, <2>1
    <3>3. QED
      BY <1>1, <1>2, <3>1, <3>2 DEF DrainOK
  <2>2. CASE drain' = Idle
    BY <2>2, Blanks DEF DrainOK, Idle
  <2>3. QED
    BY <1>8, <2>1, <2>2
<1>13. ReviewTypeOK'
  BY <1>1, <1>6, <1>7, <1>9, <1>12 DEF ReviewTypeOK, DrainRec, BufRec
<1>14. QED
  BY <1>1, <1>10, <1>11, <1>12, <1>13, QueueKeep

\* The task is spawned on the worktree that was made for it.
LEMMA GroundStep ==
  ASSUME ReviewInv, ground
  PROVE  ReviewInv'
<1>. USE DEF ReviewInv, review_worktree_id
<1>. DEFINE k == drain.key
<1>1. /\ head' = head /\ listed' = listed /\ queue' = queue /\ pending' = pending
      /\ sessions' = sessions /\ worktree' = worktree /\ hist' = hist /\ buf' = buf
      /\ forced' = forced /\ drain.at = "ground" /\ drain' = Idle
  BY DEF ground, returns
<1>2. k \in Keys /\ task[k].at = "none" /\ worktree[k] = drain.head
  BY <1>1 DEF DrainOK
<1>3. faults' \in 0 .. MaxFaults
  <2>1. faults' = faults \/ fault
    BY DEF ground
  <2>2. QED
    BY <2>1, Fault DEF ReviewTypeOK
<1>4. task \in [Keys -> TaskRec] /\ drain.head \in Heads
  BY DEF ReviewTypeOK, TaskRec
<1>5. PICK ok \in BOOLEAN : task' = [task EXCEPT ![k] = [at |-> "admit", head |-> drain.head, facts |-> ok]]
  BY DEF ground
<1>6. [at |-> "admit", head |-> drain.head, facts |-> ok] \in TaskRec
  BY <1>4 DEF TaskRec
<1>7. /\ task' \in [Keys -> TaskRec] /\ task'[k].at = "admit" /\ task'[k].head = drain.head
      /\ \A j \in Keys : j # k => task'[j] = task[j]
  BY <1>2, <1>4, <1>5, <1>6
<1>. HIDE DEF k
<1>8. RunsOnItsTree'
  BY <1>1, <1>2, <1>7 DEF RunsOnItsTree
<1>9. SessionsOK'
  <2>1. k \notin sessions
    BY <1>2 DEF SessionsOK
  <2>2. QED
    BY <1>1, <1>7, <2>1 DEF SessionsOK
<1>10. DrainOK'
  BY <1>1 DEF DrainOK, Idle
<1>11. ReviewTypeOK'
  BY <1>1, <1>3, <1>7, Blanks DEF ReviewTypeOK, DrainRec, TaskRec
<1>12. QED
  BY <1>1, <1>8, <1>9, <1>10, <1>11, QueueKeep

-----------------------------------------------------------------------------
(* The tasks. *)

\* A task goes on to its next place; only a run keeps the head and the facts.
LEMMA AtTask ==
  ASSUME ReviewInv, NEW k \in Keys, NEW l \in {"run", "clean", "finished"}, at_task(k, l)
  PROVE  /\ task' \in [Keys -> TaskRec] /\ task'[k].at = l
         /\ l = "run" => task'[k].head = task[k].head
         /\ \A j \in Keys : j # k => task'[j] = task[j]
<1>1. task \in [Keys -> TaskRec] /\ task[k] \in TaskRec
  BY DEF ReviewInv, ReviewTypeOK, TaskRec
<1>. DEFINE t == IF l = "run" THEN [task[k] EXCEPT !.at = l] ELSE [NoTask EXCEPT !.at = l]
<1>2. task' = [task EXCEPT ![k] = t]
  BY <1>1 DEF at_task
<1>3. t \in TaskRec /\ t.at = l /\ (l = "run" => t.head = task[k].head)
  <2>1. CASE l = "run"
    BY <1>1, <2>1 DEF TaskRec
  <2>2. CASE l # "run"
    BY <2>2, Blanks DEF TaskRec, NoTask
  <2>3. QED
    BY <2>1, <2>2
<1>. HIDE DEF t
<1>4. QED
  BY <1>1, <1>2, <1>3

\* The drain works for another key than a task that is under way.
LEMMA DrainElsewhere ==
  ASSUME ReviewInv, NEW k \in Keys, task[k].at # "none", drain' = drain,
         \A j \in Keys : j # k => task'[j] = task[j] /\ worktree'[j] = worktree[j]
  PROVE  DrainOK'
BY DEF ReviewInv, DrainOK

\* The host admits the session of a review, or its caps refuse it.
LEMMA AdmitStep ==
  ASSUME ReviewInv, NEW k \in Keys, admit_review(k)
  PROVE  ReviewInv'
<1>. USE DEF ReviewInv, review_worktree_id
<1>1. /\ head' = head /\ listed' = listed /\ queue' = queue /\ pending' = pending /\ drain' = drain
      /\ worktree' = worktree /\ hist' = hist /\ buf' = buf /\ forced' = forced /\ faults' = faults
      /\ task[k].at = "admit"
  BY DEF admit_review
<1>2. PICK l \in {"run", "clean"} :
        /\ at_task(k, l)
        /\ sessions' = IF l = "run" THEN sessions \cup {k} ELSE sessions
        /\ l = "run" => has_capacity(k)
  BY DEF admit_review
<1>3. /\ task' \in [Keys -> TaskRec] /\ task'[k].at = l
      /\ l = "run" => task'[k].head = task[k].head
      /\ \A j \in Keys : j # k => task'[j] = task[j]
  BY <1>2, AtTask
<1>4. k \notin sessions
  BY <1>1 DEF SessionsOK
<1>5. SessionsOK'
  <2>1. IsFiniteSet(sessions') /\ Cardinality(sessions') <= MaxTotal
    <3>1. CASE l = "run"
      <4>1. sessions' = sessions \cup {k} /\ Cardinality(sessions) < MaxTotal
        BY <1>2, <1>4, <3>1 DEF has_capacity
      <4>2. IsFiniteSet(sessions) /\ Cardinality(sessions) \in Nat
        BY FS_CardinalityType DEF SessionsOK
      <4>3. IsFiniteSet(sessions') /\ Cardinality(sessions') = Cardinality(sessions) + 1
        BY <1>4, <4>1, <4>2, FS_AddElement
      <4>4. QED
        BY <4>1, <4>2, <4>3, Bounds
    <3>2. CASE l = "clean"
      BY <1>2, <3>2 DEF SessionsOK
    <3>3. QED
      BY <3>1, <3>2
  <2>2. \A j \in Keys : /\ j \in sessions' => task'[j].at \in {"run", "clean"}
                        /\ task'[j].at = "run" => j \in sessions'
    BY <1>2, <1>3, <1>4 DEF SessionsOK
  <2>3. QED
    BY <2>1, <2>2 DEF SessionsOK
<1>6. RunsOnItsTree'
  BY <1>1, <1>3 DEF RunsOnItsTree
<1>7. DrainOK'
  BY <1>1, <1>3, DrainElsewhere
<1>8. sessions' \subseteq Keys
  BY <1>2 DEF ReviewTypeOK
<1>9. ReviewTypeOK'
  BY <1>1, <1>3, <1>8 DEF ReviewTypeOK, TaskRec
<1>10. QED
  BY <1>1, <1>5, <1>6, <1>7, <1>9, QueueKeep

\* The run ends, with a draft or without.
LEMMA RunStep ==
  ASSUME ReviewInv, NEW k \in Keys, run_review(k)
  PROVE  ReviewInv'
<1>. USE DEF ReviewInv, review_worktree_id
<1>1. /\ head' = head /\ listed' = listed /\ queue' = queue /\ pending' = pending /\ drain' = drain
      /\ worktree' = worktree /\ sessions' = sessions /\ hist' = hist /\ forced' = forced
      /\ task[k].at = "run" /\ at_task(k, "clean")
  BY DEF run_review
<1>2. /\ task' \in [Keys -> TaskRec] /\ task'[k].at = "clean"
      /\ \A j \in Keys : j # k => task'[j] = task[j]
  BY <1>1, AtTask
<1>3. faults' \in 0 .. MaxFaults
  <2>1. faults' = faults \/ fault
    BY DEF run_review
  <2>2. QED
    BY <2>1, Fault DEF ReviewTypeOK
<1>4. buf' \in Seq(BufRec)
  <2>. DEFINE row == [pr |-> k[2], draft |-> [head |-> task[k].head, status |-> "drafted"]]
  <2>1. buf' = buf \/ buf' = Append(buf, row)
    BY DEF run_review
  <2>2. task[k].head \in Heads /\ k[2] \in Prs /\ buf \in Seq(BufRec)
    BY DEF ReviewTypeOK, BufRec, Keys
  <2>3. row \in BufRec
    BY <2>2 DEF BufRec, Draft
  <2>. HIDE DEF row
  <2>4. QED
    BY <2>1, <2>2, <2>3
<1>5. SessionsOK' /\ RunsOnItsTree'
  BY <1>1, <1>2 DEF SessionsOK, RunsOnItsTree
<1>6. DrainOK'
  BY <1>1, <1>2, DrainElsewhere
<1>7. ReviewTypeOK'
  BY <1>1, <1>2, <1>3, <1>4 DEF ReviewTypeOK, TaskRec, BufRec
<1>8. QED
  BY <1>1, <1>5, <1>6, <1>7, QueueKeep

\* The worktree and the session of a review go with it.
LEMMA CleanupStep ==
  ASSUME ReviewInv, NEW k \in Keys, cleanup(k)
  PROVE  ReviewInv'
<1>. USE DEF ReviewInv, review_worktree_id
<1>1. /\ head' = head /\ listed' = listed /\ queue' = queue /\ pending' = pending /\ drain' = drain
      /\ hist' = hist /\ buf' = buf /\ forced' = forced /\ faults' = faults
      /\ task[k].at = "clean" /\ at_task(k, "finished")
      /\ worktree' = [worktree EXCEPT ![k] = 0] /\ sessions' = sessions \ {k}
  BY DEF cleanup
<1>2. /\ task' \in [Keys -> TaskRec] /\ task'[k].at = "finished"
      /\ \A j \in Keys : j # k => task'[j] = task[j]
  BY <1>1, AtTask
<1>3. worktree' \in [Keys -> Heads] /\ \A j \in Keys : j # k => worktree'[j] = worktree[j]
  BY <1>1, Blanks DEF ReviewTypeOK
<1>4. SessionsOK'
  <2>1. IsFiniteSet(sessions') /\ Cardinality(sessions') <= Cardinality(sessions)
        /\ Cardinality(sessions) \in Nat /\ Cardinality(sessions') \in Nat
    <3>1. IsFiniteSet(sessions) /\ sessions' \subseteq sessions
      BY <1>1 DEF SessionsOK
    <3>2. QED
      BY <3>1, FS_Subset, FS_CardinalityType
  <2>2. Cardinality(sessions') <= MaxTotal
    BY <2>1, Bounds DEF SessionsOK
  <2>3. \A j \in Keys : /\ j \in sessions' => task'[j].at \in {"run", "clean"}
                        /\ task'[j].at = "run" => j \in sessions'
    BY <1>1, <1>2 DEF SessionsOK
  <2>4. QED
    BY <2>1, <2>2, <2>3 DEF SessionsOK
<1>5. RunsOnItsTree'
  BY <1>2, <1>3 DEF RunsOnItsTree
<1>6. DrainOK'
  BY <1>1, <1>2, <1>3, DrainElsewhere
<1>7. sessions' \subseteq Keys
  BY <1>1 DEF ReviewTypeOK
<1>8. ReviewTypeOK'
  BY <1>1, <1>2, <1>3, <1>7 DEF ReviewTypeOK, TaskRec
<1>9. QED
  BY <1>1, <1>4, <1>5, <1>6, <1>8, QueueKeep

-----------------------------------------------------------------------------
(* The history and the restart. *)

\* The newest row of a pull request, stored or of the batch, is a draft.
LEMMA NewestIsDraft ==
  ASSUME ReviewTypeOK, NEW p \in Prs
  PROVE  newest(p) \in Draft
<1>1. buf \in Seq(BufRec) /\ Len(buf) \in Nat /\ hist[p] \in Draft
  BY DEF ReviewTypeOK, BufRec
<1>. DEFINE of == {i \in 1 .. Len(buf) : buf[i].pr = p}
            last == CHOOSE i \in of : \A j \in of : j <= i
<1>2. CASE of = {}
  BY <1>1, <1>2 DEF newest
<1>3. CASE of # {}
  <2>1. of \in SUBSET (1 .. Len(buf))
    OBVIOUS
  <2>2. last \in of
    <3>. HIDE DEF of
    <3>1. \E i \in of : \A j \in of : j <= i
      BY <1>1, <1>3, <2>1, MaxUpTo
    <3>2. QED
      BY <3>1
  <2>3. newest(p) = buf[last].draft
    BY <1>3 DEF newest
  <2>4. last \in 1 .. Len(buf)
    BY <2>1, <2>2
  <2>. HIDE DEF last
  <2>5. buf[last] \in BufRec
    BY <1>1, <2>4
  <2>6. QED
    BY <2>3, <2>5 DEF BufRec
<1>4. QED
  BY <1>2, <1>3

\* A batch is stored or lost.
LEMMA FlushStep ==
  ASSUME ReviewInv, flush
  PROVE  ReviewInv'
<1>. USE DEF ReviewInv
<1>1. /\ head' = head /\ listed' = listed /\ queue' = queue /\ pending' = pending /\ drain' = drain
      /\ task' = task /\ sessions' = sessions /\ worktree' = worktree /\ forced' = forced
      /\ buf' = <<>>
  BY DEF flush
<1>2. hist' \in [Prs -> Draft]
  <2>1. \A p \in Prs : newest(p) \in Draft
    BY NewestIsDraft
  <2>2. hist' = hist \/ hist' = [p \in Prs |-> newest(p)]
    BY DEF flush
  <2>3. QED
    BY <2>1, <2>2 DEF ReviewTypeOK
<1>3. faults' \in 0 .. MaxFaults
  <2>1. faults' = faults \/ fault
    BY DEF flush
  <2>2. QED
    BY <2>1, Fault DEF ReviewTypeOK
<1>4. ReviewTypeOK'
  BY <1>1, <1>2, <1>3 DEF ReviewTypeOK
<1>5. QED
  BY <1>1, <1>4, TasksKeep, QueueKeep

\* The process starts anew, on the worktrees that are left.
LEMMA RestartStep ==
  ASSUME ReviewInv, restart
  PROVE  ReviewInv'
<1>. USE DEF ReviewInv
<1>1. /\ head' = head /\ worktree' = worktree /\ hist' = hist /\ forced' = forced
      /\ listed' = [r \in Rows |-> {}] /\ queue' = <<>> /\ pending' = [k \in Keys |-> Unfolded]
      /\ drain' = Idle /\ task' = [k \in Keys |-> NoTask] /\ sessions' = {} /\ buf' = <<>>
      /\ faults' \in 0 .. MaxFaults
  BY Fault DEF restart
<1>2. queue' \in Seq(Keys) /\ Len(queue') <= QueueCap /\ buf' \in Seq(BufRec)
  BY <1>1, Bounds
<1>3. /\ listed' \in [Rows -> SUBSET ListRec] /\ pending' \in [Keys -> Folded]
      /\ task' \in [Keys -> TaskRec] /\ drain' \in DrainRec
  BY <1>1, Blanks
<1>4. ReviewTypeOK'
  BY <1>1, <1>2, <1>3 DEF ReviewTypeOK, ListRec, Folded, TaskRec, DrainRec, BufRec
<1>5. DrainOK' /\ FoldOK'
  BY <1>1 DEF DrainOK, FoldOK, Idle
<1>6. SessionsOK' /\ RunsOnItsTree'
  BY <1>1, FS_EmptySet, Bounds DEF SessionsOK, RunsOnItsTree, NoTask
<1>7. QED
  BY <1>4, <1>5, <1>6

-----------------------------------------------------------------------------
(* The theorems. *)

\* The invariant is inductive.
LEMMA ReviewStep == ReviewInv /\ [Next]_vars => ReviewInv'
<1>. SUFFICES ASSUME ReviewInv, [Next]_vars PROVE ReviewInv'
  OBVIOUS
<1>1. CASE UNCHANGED vars
  <2>1. /\ head' = head /\ listed' = listed /\ queue' = queue /\ pending' = pending
        /\ drain' = drain /\ task' = task /\ sessions' = sessions /\ worktree' = worktree
        /\ hist' = hist /\ buf' = buf /\ forced' = forced /\ faults' = faults
    BY <1>1 DEF vars
  <2>2. ReviewTypeOK'
    BY <2>1 DEF ReviewInv, ReviewTypeOK
  <2>3. QED
    BY <2>1, <2>2, TasksKeep, QueueKeep DEF ReviewInv
<1>2. CASE \/ \E r \in Polled : list_prs(r) \/ emit(r)
           \/ \E k \in Asked : webhook(k) \/ review_now(k)
  BY <1>2, TriggerStep
<1>3. ASSUME NEW k \in Keys, task_step(k) PROVE ReviewInv'
  BY <1>3, AdmitStep, RunStep, CleanupStep DEF task_step
<1>4. ASSUME NEW p \in Prs, push(p) \/ posted(p) PROVE ReviewInv'
  BY <1>4, OutsideStep
<1>5. CASE drain_step
  BY <1>5, RecvStep, ReadStep, WorktreeStep, GroundStep DEF drain_step
<1>6. CASE flush \/ restart
  BY <1>6, FlushStep, RestartStep
<1>7. QED
  BY <1>1, <1>2, <1>3, <1>4, <1>5, <1>6 DEF Next

\* The queue, the drain loop, the tasks and their trees fit together, always.
THEOREM ReviewInvariant == Spec => []ReviewInv
BY ReviewInit, ReviewStep, PTL DEF Spec

\* The variables keep their types, and the trigger queue its capacity.
THEOREM ReviewTypeCorrect == Spec => []ReviewTypeOK
<1>1. ReviewInv => ReviewTypeOK
  BY DEF ReviewInv
<1>2. QED
  BY <1>1, ReviewInvariant, PTL

\* A review finds its own checkout at its own head, from its spawn to its cleanup
\* (worktree_remove and worktree_add of handle), also on what a restart has left.
THEOREM RunsOnItsTreeHolds == Spec => []RunsOnItsTree
<1>1. ReviewInv => RunsOnItsTree
  BY DEF ReviewInv
<1>2. QED
  BY <1>1, ReviewInvariant, PTL

\* A key is queued once at most, and a fold never outlives its place in the queue
\* (enqueue and recv of the trigger queue).
THEOREM FoldHolds == Spec => []FoldOK
<1>1. ReviewInv => FoldOK
  BY DEF ReviewInv
<1>2. QED
  BY <1>1, ReviewInvariant, PTL

\* The sessions of the host are those of admitted reviews that are not cleaned up, and
\* within its cap (run_review and the cleanup of the task).
THEOREM SessionsHold == Spec => []SessionsOK
<1>1. ReviewInv => SessionsOK
  BY DEF ReviewInv
<1>2. QED
  BY <1>1, ReviewInvariant, PTL

=============================================================================
