-------------------------- MODULE FleetPostProofs --------------------------
(***************************************************************************)
(* For every number of reviews, calls and processes: the post lease lets   *)
(* one call at a time reach the forge, so that the forge answers one post  *)
(* of a draft at most, the last one, and none after its skip.              *)
(***************************************************************************)
EXTENDS FleetPost, TLAPS

Past == {"post", "commit", "release"}

\* Past the lease of a review there is one call, and the lease is held; a call that was
\* cut off from a lease has chosen its review.
OnePoster ==
  /\ \A c \in Calls : pc[c] \in Past =>
       /\ lease[on[c]] = "held"
       /\ \A d \in Calls : d # c /\ on[d] = on[c] => pc[d] \notin Past
  /\ \A c \in cut : pc[c] # "new"

\* The lease of a review is taken, and nobody is in a place to give it back.
Settled(r) ==
  /\ lease[r] # "none"
  /\ \A c \in Calls : on[c] = r => pc[c] \notin {"post", "release"}

\* A comment whose request was answered settles the review.
Heard ==
  \A r \in Reviews : \/ comments[r] = unheard[r]
                     \/ comments[r] = unheard[r] + 1 /\ Settled(r)

\* So does a skip, which posts nothing.
SkipSettles ==
  \A c \in Skips :
    /\ pc[c] \notin {"read", "post", "release"}
    /\ pc[c] = "commit" => comments[on[c]] = unheard[on[c]]
    /\ pc[c] = "record" \/ out[c] = "skipped" =>
         comments[on[c]] = unheard[on[c]] /\ Settled(on[c])
    /\ out[c] = "skipped" => pc[c] = "done"

PostInv == PostTypeOK /\ OnePoster /\ Heard /\ SkipSettles /\ HeldHasHolder

USE DEF Calls, forge_vars, call_vars, holding, cuts

\* The initial states satisfy the invariant.
LEMMA PostInit == Init => PostInv
<1>. SUFFICES ASSUME Init PROVE PostInv
  OBVIOUS
<1>. USE FleetPostAssumption DEF Init
<1>1. PostTypeOK
  BY DEF PostTypeOK, Row
<1>2. OnePoster /\ HeldHasHolder
  BY DEF OnePoster, HeldHasHolder, Past
<1>3. Heard /\ SkipSettles
  BY DEF Heard, SkipSettles
<1>4. QED
  BY <1>1, <1>2, <1>3 DEF PostInv

\* A flush moves rows of the log from one place to another.
LEMMA FlushedType ==
  ASSUME log \in Seq(Row), NEW p, NEW w \in {"stored", "lost"}, flushed(p, w)
  PROVE  log' \in Seq(Row)
<1>1. ASSUME NEW x \in Row PROVE [x EXCEPT !.at = w] \in Row
  BY DEF Row
<1>2. log' \in [1 .. Len(log) -> Row]
  BY <1>1 DEF flushed
<1>3. Len(log) \in Nat
  OBVIOUS
<1>4. QED
  BY <1>2, <1>3

\* A request without an answer leaves the comments for later.
LEMMA UnansweredCounts ==
  ASSUME PostTypeOK, NEW c \in Calls, unanswered(c)
  PROVE  comments' = comments /\ unheard' = unheard /\ late' \in [Reviews -> Nat]
<1>1. on[c] \in Reviews
  BY DEF PostTypeOK
<1>2. QED
  BY <1>1 DEF PostTypeOK, unanswered

\* A call chooses its review before it is past any lease.
LEMMA LookupStep ==
  ASSUME PostInv, NEW c \in Calls, NEW r \in Reviews, lookup(c, r)
  PROVE  PostInv'
<1>. USE FleetPostAssumption DEF PostInv
<1>1. PostTypeOK'
  BY DEF PostTypeOK, lookup, after_lookup, goto
<1>2. /\ pc[c] = "new" /\ pc'[c] \notin Past \cup {"new"} /\ UNCHANGED <<lease, cut>>
      /\ \A d \in Calls \ {c} : pc'[d] = pc[d] /\ on'[d] = on[d]
  BY DEF PostTypeOK, lookup, after_lookup, goto, Past
<1>3. OnePoster'
  <2>1. ASSUME NEW d \in Calls, pc'[d] \in Past
        PROVE  /\ lease'[on'[d]] = "held"
               /\ \A e \in Calls : e # d /\ on'[e] = on'[d] => pc'[e] \notin Past
    <3>1. d # c /\ pc[d] \in Past /\ on'[d] = on[d]
      BY <1>2, <2>1
    <3>2. ASSUME NEW e \in Calls, e # d, on'[e] = on'[d] PROVE pc'[e] \notin Past
      BY <1>2, <3>1, <3>2 DEF OnePoster
    <3>3. QED
      BY <1>2, <3>1, <3>2 DEF OnePoster
  <2>2. \A d \in cut' : pc'[d] # "new"
    BY <1>2 DEF PostTypeOK, OnePoster
  <2>3. QED
    BY <2>1, <2>2 DEF OnePoster
<1>4. ASSUME NEW x \in Reviews, lease'[x] = "held"
      PROVE  \E d \in Calls : on'[d] = x /\ (pc'[d] \in Past \/ d \in cut')
  <2>1. PICK d \in Calls : on[d] = x /\ (pc[d] \in Past \/ d \in cut)
    BY <1>2, <1>4 DEF HeldHasHolder, Past
  <2>2. d # c
    BY <1>2, <2>1 DEF OnePoster, Past
  <2>3. on'[d] = x /\ (pc'[d] \in Past \/ d \in cut')
    BY <1>2, <2>1, <2>2
  <2>4. QED
    BY <2>3
<1>5. HeldHasHolder'
  BY <1>4 DEF HeldHasHolder, Past
<1>6. Heard'
  BY DEF PostTypeOK, OnePoster, Heard, Settled, Past, lookup, after_lookup, goto
<1>7. SkipSettles'
  BY DEF PostTypeOK, OnePoster, Heard, SkipSettles, Settled, Past, lookup, after_lookup, goto
<1>8. QED
  BY <1>1, <1>3, <1>5, <1>6, <1>7

\* A refused call ends before the lease.
LEMMA RefusedStep ==
  ASSUME PostInv, NEW c \in Calls, refused(c)
  PROVE  PostInv'
<1>. USE FleetPostAssumption DEF PostInv
<1>1. PostTypeOK'
  BY DEF PostTypeOK, refused, ends, goto
<1>2. OnePoster' /\ HeldHasHolder'
  BY DEF PostTypeOK, OnePoster, HeldHasHolder, Past, refused, ends, goto
<1>3. Heard'
  BY DEF PostTypeOK, OnePoster, Heard, Settled, Past, refused, ends, goto
<1>4. SkipSettles'
  BY DEF PostTypeOK, OnePoster, Heard, SkipSettles, Settled, Past, refused, ends, goto
<1>5. QED
  BY <1>1, <1>2, <1>3, <1>4

\* The file is read before the lease.
LEMMA ReadStep ==
  ASSUME PostInv, NEW c \in Calls, read_confined_body(c)
  PROVE  PostInv'
<1>. USE FleetPostAssumption DEF PostInv
<1>1. PostTypeOK'
  BY DEF PostTypeOK, read_confined_body, goto
<1>2. OnePoster' /\ HeldHasHolder'
  BY DEF PostTypeOK, OnePoster, HeldHasHolder, Past, read_confined_body, goto
<1>3. Heard'
  BY DEF PostTypeOK, OnePoster, Heard, Settled, Past, read_confined_body, goto
<1>4. SkipSettles'
  BY DEF PostTypeOK, OnePoster, Heard, SkipSettles, Settled, Past, read_confined_body, goto
<1>5. QED
  BY <1>1, <1>2, <1>3, <1>4

\* A lease that was free settles nothing yet: nobody else is past it.
LEMMA AcquireStep ==
  ASSUME PostInv, NEW c \in Calls, acquire(c)
  PROVE  PostInv'
<1>. USE FleetPostAssumption DEF PostInv
<1>1. PostTypeOK'
  BY DEF PostTypeOK, acquire, acquirable, ends, goto
<1>2. OnePoster' /\ HeldHasHolder'
  <2>1. CASE lease[on[c]] = "none"
    <3>1. /\ lease' = [lease EXCEPT ![on[c]] = "held"]
          /\ pc'[c] \in Past /\ \A d \in Calls \ {c} : pc'[d] = pc[d]
          /\ on' = on /\ cut' = cut
      BY <2>1 DEF PostTypeOK, acquire, acquirable, goto, Past
    <3>2. \A d \in Calls : on[d] = on[c] => pc[d] \notin Past
      BY <2>1 DEF OnePoster
    <3>a. \A d \in Calls : pc'[d] \in Past =>
            /\ lease'[on'[d]] = "held"
            /\ \A e \in Calls : e # d /\ on'[e] = on'[d] => pc'[e] \notin Past
      BY <3>1, <3>2 DEF PostTypeOK, OnePoster
    <3>b. \A d \in cut' : pc'[d] # "new"
      BY <3>1 DEF PostTypeOK, OnePoster, Past
    <3>3. OnePoster'
      BY <3>a, <3>b DEF OnePoster
    <3>4. ASSUME NEW r \in Reviews, lease'[r] = "held"
          PROVE  \E d \in Calls : on'[d] = r /\ (pc'[d] \in Past \/ d \in cut')
      <4>1. CASE r = on[c]
        BY <3>1, <4>1
      <4>2. CASE r # on[c]
        <5>1. lease[r] = "held"
          BY <3>1, <3>4, <4>2 DEF PostTypeOK
        <5>2. PICK d \in Calls : on[d] = r /\ (pc[d] \in Past \/ d \in cut)
          BY <5>1 DEF HeldHasHolder, Past
        <5>3. on'[d] = r /\ (pc'[d] \in Past \/ d \in cut')
          BY <3>1, <4>2, <5>2
        <5>4. QED
          BY <5>3
      <4>3. QED
        BY <4>1, <4>2
    <3>5. QED
      BY <3>3, <3>4 DEF HeldHasHolder, Past
  <2>2. CASE lease[on[c]] # "none"
    <3>1. /\ UNCHANGED <<lease, on, cut>> /\ pc[c] = "acquire"
          /\ pc' = [pc EXCEPT ![c] = "done"]
      BY <2>2 DEF acquire, acquirable, ends, goto
    <3>2. \A d \in Calls : pc'[d] \in Past <=> pc[d] \in Past
      BY <3>1 DEF PostTypeOK, Past
    <3>3. OnePoster'
      BY <3>1, <3>2 DEF OnePoster
    <3>4. HeldHasHolder'
      BY <3>1, <3>2 DEF HeldHasHolder, Past
    <3>5. QED
      BY <3>3, <3>4
  <2>3. QED
    BY <2>1, <2>2
<1>3. Heard'
  BY DEF PostTypeOK, OnePoster, Heard, Settled, Past, acquire, acquirable, ends, goto
<1>4. SkipSettles'
  BY DEF PostTypeOK, OnePoster, Heard, SkipSettles, Settled, Past, acquire, acquirable, ends, goto
<1>5. QED
  BY <1>1, <1>2, <1>3, <1>4

\* An acquire without an answer leaves the lease held, and the call cut off.
LEMMA AcquireFailsStep ==
  ASSUME PostInv, NEW c \in Calls, acquire_fails(c)
  PROVE  PostInv'
<1>. USE FleetPostAssumption DEF PostInv
<1>1. PostTypeOK'
  BY DEF PostTypeOK, acquire_fails, ends, goto, fault
<1>2. OnePoster' /\ HeldHasHolder'
  BY DEF PostTypeOK, OnePoster, HeldHasHolder, Past, acquire_fails, ends, goto, fault
<1>3. Heard'
  BY DEF PostTypeOK, OnePoster, Heard, Settled, Past, acquire_fails, ends, goto, fault
<1>4. SkipSettles'
  BY DEF PostTypeOK, OnePoster, Heard, SkipSettles, Settled, Past, acquire_fails, ends, goto, fault
<1>5. QED
  BY <1>1, <1>2, <1>3, <1>4

\* The answered request: nobody else is past the lease, so it is the first.
LEMMA PostedStep ==
  ASSUME PostInv, NEW c \in Calls, review_pr(c)
  PROVE  PostInv'
<1>. USE FleetPostAssumption DEF PostInv
<1>1. PostTypeOK'
  BY DEF PostTypeOK, review_pr, posts, goto
<1>2. OnePoster' /\ HeldHasHolder'
  BY DEF PostTypeOK, OnePoster, HeldHasHolder, Past, review_pr, posts, goto
<1>3. Heard'
  BY DEF PostTypeOK, OnePoster, Heard, Settled, Past, review_pr, posts, goto
<1>4. SkipSettles'
  <2>1. \A d \in Calls : d # c /\ on[d] = on[c] => pc[d] \notin Past
    BY DEF OnePoster, Past, review_pr
  <2>2. c \notin Skips
    BY DEF SkipSettles, review_pr
  <2>3. ASSUME NEW d \in Skips
        PROVE  /\ pc'[d] \notin {"read", "post", "release"}
               /\ pc'[d] = "commit" => comments'[on'[d]] = unheard'[on'[d]]
               /\ pc'[d] = "record" \/ out'[d] = "skipped" =>
                    comments'[on'[d]] = unheard'[on'[d]] /\ Settled(on[d])'
               /\ out'[d] = "skipped" => pc'[d] = "done"
    <3>1. CASE on[d] = on[c]
      BY <2>1, <2>2, <3>1 DEF PostTypeOK, SkipSettles, Settled, Past, review_pr, posts, goto
    <3>2. CASE on[d] # on[c]
      BY <2>2, <3>2 DEF PostTypeOK, SkipSettles, Settled, review_pr, posts, goto
    <3>3. QED
      BY <3>1, <3>2
  <2>4. QED
    BY <2>3 DEF SkipSettles, Settled
<1>5. QED
  BY <1>1, <1>2, <1>3, <1>4

\* A request that failed leaves the comments for later.
LEMMA PostRefusedStep ==
  ASSUME PostInv, NEW c \in Calls, post_refused(c)
  PROVE  PostInv'
<1>. USE FleetPostAssumption DEF PostInv
<1>0. comments' = comments /\ unheard' = unheard /\ late' \in [Reviews -> Nat]
  BY UnansweredCounts DEF post_refused, post_retried
<1>1. PostTypeOK'
  BY <1>0 DEF PostTypeOK, post_refused, goto
<1>2. OnePoster' /\ HeldHasHolder'
  BY DEF PostTypeOK, OnePoster, HeldHasHolder, Past, post_refused, goto
<1>3. Heard'
  BY <1>0 DEF PostTypeOK, OnePoster, Heard, Settled, Past, post_refused, goto
<1>4. SkipSettles'
  BY <1>0 DEF PostTypeOK, OnePoster, Heard, SkipSettles, Settled, Past, post_refused, goto
<1>5. QED
  BY <1>1, <1>2, <1>3, <1>4

\* So does each of its retries.
LEMMA PostRetriedStep ==
  ASSUME PostInv, NEW c \in Calls, post_retried(c)
  PROVE  PostInv'
<1>. USE FleetPostAssumption DEF PostInv
<1>0. comments' = comments /\ unheard' = unheard /\ late' \in [Reviews -> Nat]
  BY UnansweredCounts DEF post_refused, post_retried
<1>1. PostTypeOK'
  <2>1. CASE retries_left(c)
    <3>1. tries[c] + 1 \in 0 .. MaxRetries
      BY <2>1 DEF PostTypeOK, retries_left
    <3>2. tries' \in [Calls -> 0 .. MaxRetries]
      BY <2>1, <3>1 DEF PostTypeOK, post_retried
    <3>3. QED
      BY <1>0, <2>1, <3>2 DEF PostTypeOK, post_retried
  <2>2. CASE ~retries_left(c)
    BY <1>0, <2>2 DEF PostTypeOK, post_retried, goto
  <2>3. QED
    BY <2>1, <2>2
<1>2. OnePoster' /\ HeldHasHolder'
  <2>1. CASE retries_left(c)
    BY <2>1 DEF PostTypeOK, OnePoster, HeldHasHolder, Past, post_retried
  <2>2. CASE ~retries_left(c)
    <3>1. /\ UNCHANGED <<lease, on, cut>> /\ pc[c] = "post"
          /\ pc' = [pc EXCEPT ![c] = "release"]
      BY <2>2 DEF post_retried, goto
    <3>2. \A d \in Calls : pc'[d] \in Past <=> pc[d] \in Past
      BY <3>1 DEF PostTypeOK, Past
    <3>3. OnePoster'
      BY <3>1, <3>2 DEF OnePoster
    <3>4. HeldHasHolder'
      BY <3>1, <3>2 DEF HeldHasHolder, Past
    <3>5. QED
      BY <3>3, <3>4
  <2>3. QED
    BY <2>1, <2>2
<1>3. Heard'
  BY <1>0 DEF PostTypeOK, OnePoster, Heard, Settled, Past, post_retried, retries_left, goto
<1>4. SkipSettles'
  BY <1>0 DEF PostTypeOK, OnePoster, Heard, SkipSettles, Settled, Past, post_retried, retries_left, goto
<1>5. QED
  BY <1>1, <1>2, <1>3, <1>4

\* The commit settles the review.
LEMMA CommitStep ==
  ASSUME PostInv, NEW c \in Calls, commit(c)
  PROVE  PostInv'
<1>. USE FleetPostAssumption DEF PostInv
<1>1. PostTypeOK'
  BY DEF PostTypeOK, commit, committed, goto
<1>2. OnePoster' /\ HeldHasHolder'
  BY DEF PostTypeOK, OnePoster, HeldHasHolder, Past, commit, committed, goto
<1>3. Heard'
  BY DEF PostTypeOK, OnePoster, Heard, Settled, Past, commit, committed, goto
<1>4. SkipSettles'
  BY DEF PostTypeOK, OnePoster, Heard, SkipSettles, Settled, Past, commit, committed, goto
<1>5. QED
  BY <1>1, <1>2, <1>3, <1>4

\* The lease is left held, which settles it too.
LEMMA CommitFailsStep ==
  ASSUME PostInv, NEW c \in Calls, commit_fails(c)
  PROVE  PostInv'
<1>. USE FleetPostAssumption DEF PostInv
<1>1. PostTypeOK'
  BY DEF PostTypeOK, commit_fails, committed, goto, fault
<1>2. OnePoster' /\ HeldHasHolder'
  BY DEF PostTypeOK, OnePoster, HeldHasHolder, Past, commit_fails, committed, goto, fault
<1>3. Heard'
  BY DEF PostTypeOK, OnePoster, Heard, Settled, Past, commit_fails, committed, goto, fault
<1>4. SkipSettles'
  BY DEF PostTypeOK, OnePoster, Heard, SkipSettles, Settled, Past, commit_fails, committed, goto, fault
<1>5. QED
  BY <1>1, <1>2, <1>3, <1>4

\* The lease is given back only when no answered request went out.
LEMMA ReleaseStep ==
  ASSUME PostInv, NEW c \in Calls, release(c)
  PROVE  PostInv'
<1>. USE FleetPostAssumption DEF PostInv
<1>1. PostTypeOK'
  BY DEF PostTypeOK, release, released, ends, goto
<1>2. OnePoster' /\ HeldHasHolder'
  BY DEF PostTypeOK, OnePoster, HeldHasHolder, Past, release, released, ends, goto
<1>3. Heard'
  BY DEF PostTypeOK, OnePoster, Heard, Settled, Past, release, released, ends, goto
<1>4. SkipSettles'
  BY DEF PostTypeOK, OnePoster, Heard, SkipSettles, Settled, Past, release, released, ends, goto
<1>5. QED
  BY <1>1, <1>2, <1>3, <1>4

\* As release, or the lease stays held and the call cut off.
LEMMA ReleaseFailsStep ==
  ASSUME PostInv, NEW c \in Calls, release_fails(c)
  PROVE  PostInv'
<1>. USE FleetPostAssumption DEF PostInv
<1>1. PostTypeOK'
  BY DEF PostTypeOK, release_fails, released, ends, goto, fault
<1>2. OnePoster' /\ HeldHasHolder'
  BY DEF PostTypeOK, OnePoster, HeldHasHolder, Past, release_fails, released, ends, goto, fault
<1>3. Heard'
  BY DEF PostTypeOK, OnePoster, Heard, Settled, Past, release_fails, released, ends, goto, fault
<1>4. SkipSettles'
  BY DEF PostTypeOK, OnePoster, Heard, SkipSettles, Settled, Past, release_fails, released, ends, goto, fault
<1>5. QED
  BY <1>1, <1>2, <1>3, <1>4

\* The row and the answer of a skip come after its commit.
LEMMA RecordStep ==
  ASSUME PostInv, NEW c \in Calls, record(c)
  PROVE  PostInv'
<1>. USE FleetPostAssumption DEF PostInv
<1>1. PostTypeOK'
  BY DEF PostTypeOK, record, record_draft, ends, goto, Row
<1>2. OnePoster' /\ HeldHasHolder'
  BY DEF PostTypeOK, OnePoster, HeldHasHolder, Past, record, record_draft, ends, goto
<1>3. Heard'
  BY DEF PostTypeOK, OnePoster, Heard, Settled, Past, record, record_draft, ends, goto
<1>4. SkipSettles'
  BY DEF PostTypeOK, OnePoster, Heard, SkipSettles, Settled, Past, record, record_draft, ends, goto
<1>5. QED
  BY <1>1, <1>2, <1>3, <1>4

\* The writer touches the log only.
LEMMA FlushStep ==
  ASSUME PostInv, NEW p \in Procs, flush(p)
  PROVE  PostInv'
<1>. USE FleetPostAssumption DEF PostInv
<1>1. PostTypeOK'
  <2>1. log' \in Seq(Row)
    BY FlushedType DEF PostTypeOK, flush
  <2>2. QED
    BY <2>1 DEF PostTypeOK, flush, fault
<1>2. OnePoster' /\ HeldHasHolder'
  BY DEF PostTypeOK, OnePoster, HeldHasHolder, Past, flush, flushed
<1>3. Heard'
  BY DEF PostTypeOK, OnePoster, Heard, Settled, Past, flush, flushed
<1>4. SkipSettles'
  BY DEF PostTypeOK, OnePoster, Heard, SkipSettles, Settled, Past, flush, flushed
<1>5. QED
  BY <1>1, <1>2, <1>3, <1>4

\* A lost batch is a fault, and touches the log only.
LEMMA InsertFailsStep ==
  ASSUME PostInv, NEW p \in Procs, insert_fails(p)
  PROVE  PostInv'
<1>. USE FleetPostAssumption DEF PostInv
<1>1. PostTypeOK'
  <2>1. log' \in Seq(Row)
    BY FlushedType DEF PostTypeOK, insert_fails
  <2>2. QED
    BY <2>1 DEF PostTypeOK, insert_fails, fault
<1>2. OnePoster' /\ HeldHasHolder'
  BY DEF PostTypeOK, OnePoster, HeldHasHolder, Past, insert_fails, flushed, fault
<1>3. Heard'
  BY DEF PostTypeOK, OnePoster, Heard, Settled, Past, insert_fails, flushed, fault
<1>4. SkipSettles'
  BY DEF PostTypeOK, OnePoster, Heard, SkipSettles, Settled, Past, insert_fails, flushed, fault
<1>5. QED
  BY <1>1, <1>2, <1>3, <1>4

\* A request that failed for its call counts on both sides when it lands.
LEMMA LandsStep ==
  ASSUME PostInv, NEW r \in Reviews, lands(r)
  PROVE  PostInv'
<1>. USE FleetPostAssumption DEF PostInv
<1>0. /\ comments' \in [Reviews -> Nat] /\ unheard' \in [Reviews -> Nat] /\ late' \in [Reviews -> Nat]
      /\ \A x \in Reviews :
           /\ comments[x] = unheard[x] => comments'[x] = unheard'[x]
           /\ comments[x] = unheard[x] + 1 => comments'[x] = unheard'[x] + 1
  <2>1. comments' \in [Reviews -> Nat] /\ unheard' \in [Reviews -> Nat]
    BY DEF PostTypeOK, lands, posts
  <2>2. late[r] \in Nat /\ late[r] > 0 /\ late' = [late EXCEPT ![r] = late[r] - 1]
    BY DEF PostTypeOK, lands
  <2>3. late' \in [Reviews -> Nat]
    BY <2>2 DEF PostTypeOK
  <2>4. ASSUME NEW x \in Reviews
        PROVE  /\ comments[x] = unheard[x] => comments'[x] = unheard'[x]
               /\ comments[x] = unheard[x] + 1 => comments'[x] = unheard'[x] + 1
    <3>1. CASE x = r
      BY <3>1 DEF PostTypeOK, lands, posts
    <3>2. CASE x # r
      BY <3>2 DEF PostTypeOK, lands, posts
    <3>3. QED
      BY <3>1, <3>2
  <2>5. QED
    BY <2>1, <2>3, <2>4
<1>1. PostTypeOK'
  BY <1>0 DEF PostTypeOK, lands
<1>2. OnePoster' /\ HeldHasHolder'
  BY DEF OnePoster, HeldHasHolder, Past, lands
<1>3. Heard'
  BY <1>0 DEF Heard, Settled, lands
<1>4. SkipSettles'
  BY <1>0 DEF PostTypeOK, SkipSettles, Settled, lands
<1>5. QED
  BY <1>1, <1>2, <1>3, <1>4

\* Calls that end without an answer leave their places, and the leases as they are; the
\* ones past a lease are cut off from it.
LEMMA EndsUnanswered ==
  ASSUME PostInv, NEW S \in SUBSET Calls, ends_unanswered(S)
  PROVE  /\ pc' \in [Calls -> {"new", "read", "acquire", "post", "commit", "release",
                               "record", "done"}]
         /\ late' \in [Reviews -> Nat] /\ cut' \subseteq Calls
         /\ OnePoster' /\ Heard' /\ SkipSettles' /\ HeldHasHolder'
<1>. USE DEF PostInv
<1>1. /\ lease' = lease /\ comments' = comments /\ unheard' = unheard /\ on' = on /\ out' = out
      /\ \A c \in Calls : pc'[c] = IF c \in S THEN "done" ELSE pc[c]
      /\ cut' = cut \cup {c \in S : pc[c] \in Past}
  BY DEF ends_unanswered, Past
<1>2. /\ pc' \in [Calls -> {"new", "read", "acquire", "post", "commit", "release",
                            "record", "done"}]
      /\ cut' \subseteq Calls
  BY <1>1 DEF ends_unanswered, PostTypeOK
<1>3. late' \in [Reviews -> Nat]
  <2>1. ASSUME NEW r \in Reviews, NEW n \in {0, 1} PROVE late[r] + n \in Nat
    BY DEF PostTypeOK
  <2>2. QED
    BY <2>1 DEF ends_unanswered
<1>4. OnePoster'
  <2>1. \A c \in Calls : pc'[c] \in Past => pc[c] \in Past
    BY <1>1 DEF Past
  <2>2. \A c \in cut' : pc'[c] # "new"
    BY <1>1 DEF PostTypeOK, OnePoster, Past
  <2>3. QED
    BY <1>1, <2>1, <2>2 DEF OnePoster
<1>5. Heard'
  BY <1>1 DEF Heard, Settled
<1>6. SkipSettles'
  BY <1>1 DEF SkipSettles, Settled
<1>7. ASSUME NEW r \in Reviews, lease'[r] = "held"
      PROVE  \E c \in Calls : on'[c] = r /\ (pc'[c] \in Past \/ c \in cut')
  <2>1. PICK c \in Calls : on[c] = r /\ (pc[c] \in Past \/ c \in cut)
    BY <1>1, <1>7 DEF HeldHasHolder, Past
  <2>2. on'[c] = r /\ (pc'[c] \in Past \/ c \in cut')
    BY <1>1, <2>1
  <2>3. QED
    BY <2>2
<1>8. HeldHasHolder'
  BY <1>7 DEF HeldHasHolder, Past
<1>9. QED
  BY <1>2, <1>3, <1>4, <1>5, <1>6, <1>8

\* A dropped call.
LEMMA DroppedStep ==
  ASSUME PostInv, NEW c \in Calls, dropped(c)
  PROVE  PostInv'
<1>1. {c} \in SUBSET Calls /\ ends_unanswered({c})
  BY DEF dropped
<1>2. /\ pc' \in [Calls -> {"new", "read", "acquire", "post", "commit", "release",
                            "record", "done"}]
      /\ late' \in [Reviews -> Nat] /\ cut' \subseteq Calls
      /\ OnePoster' /\ Heard' /\ SkipSettles' /\ HeldHasHolder'
  BY <1>1, EndsUnanswered
<1>3. PostTypeOK'
  BY <1>1, <1>2 DEF PostInv, PostTypeOK, dropped, ends_unanswered
<1>4. QED
  BY <1>2, <1>3 DEF PostInv

\* A crash ends the calls of its process, and touches the log.
LEMMA CrashStep ==
  ASSUME PostInv, NEW p \in Procs, crash(p)
  PROVE  PostInv'
<1>. DEFINE S == {c \in Calls : At[c] = p /\ pc[c] # "new"}
<1>1. S \in SUBSET Calls /\ ends_unanswered(S)
  BY DEF crash
<1>. HIDE DEF S
<1>2. /\ pc' \in [Calls -> {"new", "read", "acquire", "post", "commit", "release",
                            "record", "done"}]
      /\ late' \in [Reviews -> Nat] /\ cut' \subseteq Calls
      /\ OnePoster' /\ Heard' /\ SkipSettles' /\ HeldHasHolder'
  BY <1>1, EndsUnanswered
<1>3. log' \in Seq(Row)
  BY FlushedType DEF PostInv, PostTypeOK, crash
<1>4. faults' \in 0 .. MaxFaults
  BY FleetPostAssumption DEF PostInv, PostTypeOK, crash, fault
<1>5. PostTypeOK'
  BY <1>1, <1>2, <1>3, <1>4 DEF PostInv, PostTypeOK, ends_unanswered
<1>6. QED
  BY <1>2, <1>5 DEF PostInv

\* The invariant is inductive.
LEMMA PostInvStep == PostInv /\ [Next]_vars => PostInv'
<1>. SUFFICES ASSUME PostInv, [Next]_vars PROVE PostInv'
  OBVIOUS
<1>1. CASE UNCHANGED vars
  BY <1>1 DEF vars, PostInv, PostTypeOK, OnePoster, Heard, Settled, SkipSettles,
              HeldHasHolder, Row
<1>2. ASSUME NEW c \in Calls, NEW r \in Reviews, lookup(c, r) PROVE PostInv'
  BY <1>2, LookupStep
<1>3. ASSUME NEW c \in Calls,
             \/ refused(c) \/ read_confined_body(c) \/ acquire(c) \/ acquire_fails(c)
             \/ review_pr(c) \/ post_refused(c) \/ post_retried(c)
             \/ commit(c) \/ commit_fails(c) \/ release(c) \/ release_fails(c) \/ record(c) \/ dropped(c)
      PROVE  PostInv'
  BY <1>3, RefusedStep, ReadStep, AcquireStep, AcquireFailsStep, PostedStep, PostRefusedStep,
     PostRetriedStep, CommitStep, CommitFailsStep, ReleaseStep, ReleaseFailsStep, RecordStep,
     DroppedStep
<1>4. ASSUME NEW p \in Procs, flush(p) \/ insert_fails(p) \/ crash(p) PROVE PostInv'
  BY <1>4, FlushStep, InsertFailsStep, CrashStep
<1>5. ASSUME NEW r \in Reviews, lands(r) PROVE PostInv'
  BY <1>5, LandsStep
<1>6. QED
  BY <1>1, <1>2, <1>3, <1>4, <1>5 DEF Next

\* The lease and the history behave as PostInv says, in every behaviour.
THEOREM PostInvariant == Spec => []PostInv
BY PostInit, PostInvStep, PTL DEF Spec

\* Every variable keeps its type, and a request is retried MaxRetries times at most,
\* for every number of drafts, calls and processes.
THEOREM PostTypeCorrect == Spec => []PostTypeOK
<1>1. PostInv => PostTypeOK
  BY DEF PostInv
<1>2. QED
  BY <1>1, PostInvariant, PTL

\* The forge answers one post of a draft at most, and no request about it goes out after
\* that (post_with_lease), for every number of approvals in every number of processes.
THEOREM AnsweredOnceHolds == Spec => []AnsweredOnce
<1>1. ASSUME PostInv, NEW r \in Reviews, comments[r] > unheard[r]
      PROVE  comments[r] = 1 + unheard[r] /\ \A c \in Calls : on[c] = r => pc[c] # "post"
  <2>1. comments[r] \in Nat /\ unheard[r] \in Nat
    BY <1>1 DEF PostInv, PostTypeOK
  <2>2. comments[r] = unheard[r] + 1 /\ Settled(r)
    BY <1>1, <2>1 DEF PostInv, Heard
  <2>3. QED
    BY <2>1, <2>2 DEF Settled
<1>2. PostInv => AnsweredOnce
  BY <1>1 DEF AnsweredOnce
<1>3. QED
  BY <1>2, PostInvariant, PTL

\* A draft whose skip was answered has no comment but those of requests that failed for
\* their calls (skip_with_lease).
THEOREM SkipIsFinalHolds == Spec => []SkipIsFinal
<1>1. PostInv => SkipIsFinal
  BY DEF PostInv, SkipSettles, SkipIsFinal
<1>2. QED
  BY <1>1, PostInvariant, PTL

\* A held lease has a call that will commit it or give it back, or one that was cut off
\* from it: dropped with its client, dead, or refused by the store (post_with_lease).
THEOREM HeldHasHolderHolds == Spec => []HeldHasHolder
<1>1. PostInv => HeldHasHolder
  BY DEF PostInv
<1>2. QED
  BY <1>1, PostInvariant, PTL

=============================================================================
