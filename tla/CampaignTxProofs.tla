-------------------------- MODULE CampaignTxProofs --------------------------
(***************************************************************************)
(* The transactions of CampaignTx, for every tree and every number of      *)
(* transactions: no row is locked twice, and the locks that are taken      *)
(* FOR UPDATE are never waited for in a circle.                            *)
(***************************************************************************)
EXTENDS CampaignTx, FiniteSetTheorems, WellFoundedInduction, TLAPS

States == TaskState \cup {Absent}

Writes == UNION {[D -> States] : D \in SUBSET Rows}

\* The types of all variables.
TxTypes ==
  /\ rows \in [Rows -> States]
  /\ leafs \in SUBSET Rows
  /\ op \in [Txs -> Ops \cup {"idle"}]
  /\ node \in [Txs -> Rows]
  /\ todo \in [Txs -> SUBSET Rows]
  /\ phase \in [Txs -> {"lock", "more", "commit"}]
  /\ seen \in [Txs -> SUBSET Rows]
  /\ new \in [Txs -> Writes]
  /\ update \in [Rows -> SUBSET Txs]
  /\ share \in [Rows -> SUBSET Txs]

\* Whoever holds a row FOR UPDATE is the only one who holds it.
Exclusive == \A r \in Rows : \A x \in update[r] : update[r] \cup share[r] = {x}

\* No transaction, no lock; and a lock FOR KEY SHARE is the last thing that is taken.
IdleHoldsNothing(x) ==
  op[x] = "idle" =>
    /\ \A r \in Rows : x \notin update[r] /\ x \notin share[r]
    /\ todo[x] = {} /\ phase[x] = "lock"

ShareAtEnd(x) ==
  \A r \in Rows : x \in share[r] => phase[x] = "commit" /\ todo[x] = {}

\* Up to the check, a transaction holds and awaits the rows it locks first, and what it
\* holds comes before what it awaits.
FirstPart(x) ==
  op[x] # "idle" /\ phase[x] = "lock" =>
    /\ todo[x] \subseteq first_locks(op[x], node[x])
    /\ \A r \in Rows : x \in update[r] => r \in first_locks(op[x], node[x])
    /\ \A r \in first_locks(op[x], node[x]) : x \in update[r] \/ r \in todo[x]
    /\ \A r \in Rows : x \in update[r] => \A s \in todo[x] : Place[r] < Place[s]

\* The rows that a protocol may list once it has checked its own.
Listable(o, t, n) ==
  \/ o \in {"cancel", "replan"} /\ t \in Lineage[n]
  \/ o = "approve_children" /\ n # Root /\ Parent[n] = t
  \/ o \in {"fail", "closed"} /\ t # Root /\ n # Root /\ Parent[n] = Parent[t]

\* After it, all of those are held, and what it goes on to lock are rows it listed, in
\* order.
SecondPart(x) ==
  phase[x] = "more" =>
    /\ op[x] # "idle"
    /\ \A r \in first_locks(op[x], node[x]) : x \in update[r]
    /\ todo[x] \subseteq seen[x] \ {node[x]}
    /\ \A n \in seen[x] : Listable(op[x], node[x], n)
    /\ \A r \in Rows : x \in update[r] => r \in first_locks(op[x], node[x]) \cup seen[x]
    /\ \A r \in Rows : x \in update[r] /\ r \notin first_locks(op[x], node[x]) =>
         \A s \in todo[x] : Place[r] < Place[s]

\* At its commit it awaits at most the root, whose share the inserted rows need.
LastPart(x) ==
  phase[x] = "commit" =>
    /\ op[x] # "idle" /\ todo[x] \subseteq {Root}
    /\ op[x] = "decompose" => Root \in todo[x] \/ x \in share[Root]

TxOK(x) ==
  IdleHoldsNothing(x) /\ ShareAtEnd(x) /\ FirstPart(x) /\ SecondPart(x) /\ LastPart(x)

TxInv == TxTypes /\ Exclusive /\ \A x \in Txs : TxOK(x)

-----------------------------------------------------------------------------
(* Numbers and places. *)

\* A set of natural numbers that has a member has a least one.
LEMMA Least ==
  ASSUME NEW T \in SUBSET Nat, T # {}
  PROVE  \E m \in T : \A n \in T : m <= n
<1>. DEFINE R == {ss \in Nat \X Nat : ss[1] < ss[2]}
<1>1. IsWellFoundedOn(R, Nat)
  BY NatLessThanWellFounded DEF OpToRel
<1>2. PICK m \in T : \A n \in T : ~(<<n, m>> \in R)
  <2>. HIDE DEF R
  <2>. QED BY <1>1, WFMin
<1>3. \A n \in T : ~(n < m)
  BY <1>2
<1>4. QED
  BY <1>3

\* A set of numbers up to N that has a member has a greatest one.
LEMMA Greatest ==
  ASSUME NEW N \in Nat, NEW T \in SUBSET (1 .. N), T # {}
  PROVE  \E m \in T : \A n \in T : n <= m
<1>. DEFINE D == {N - n : n \in T}
<1>1. D \in SUBSET Nat /\ D # {}
  <2>1. \A n \in T : n \in Nat /\ n <= N
    OBVIOUS
  <2>2. \A n \in T : N - n \in Nat
    BY <2>1
  <2>3. QED
    BY <2>2
<1>2. PICK d \in D : \A e \in D : d <= e
  <2>. HIDE DEF D
  <2>. QED BY <1>1, Least
<1>3. PICK m \in T : d = N - m
  BY <1>2
<1>4. ASSUME NEW n \in T
      PROVE  n <= m
  <2>1. N - n \in D
    OBVIOUS
  <2>2. d <= N - n
    BY <1>2, <2>1
  <2>3. m \in Nat /\ n \in Nat
    OBVIOUS
  <2>4. QED
    BY <1>3, <2>2, <2>3
<1>5. QED
  BY <1>4

\* The lock taken next is the first of those still to take (ORDER BY depth, path).
LEMMA NextLockIsFirst ==
  ASSUME TxTypes, NEW x \in Txs, todo[x] # {}
  PROVE  /\ next_lock(x) \in todo[x] /\ next_lock(x) \in Rows
         /\ \A s \in todo[x] : Place[next_lock(x)] <= Place[s]
<1>1. todo[x] \in SUBSET Rows
  BY DEF TxTypes
<1>. DEFINE T == {Place[r] : r \in todo[x]}
<1>2. T \in SUBSET Nat /\ T # {}
  BY <1>1, TreeAssumption
<1>3. PICK m \in T : \A n \in T : m <= n
  <2>. HIDE DEF T
  <2>. QED BY <1>2, Least
<1>4. \E r \in todo[x] : \A s \in todo[x] : Place[r] <= Place[s]
  BY <1>3
<1>5. QED
  BY <1>1, <1>4 DEF next_lock

\* The ancestors of a row come before it.
LEMMA AncestorsFirst ==
  ASSUME NEW t \in Rows, NEW a \in Lineage[t]
  PROVE  a \in Rows /\ (a = t \/ Place[a] < Place[t])
BY TreeAssumption

\* A row is in its own lineage, and so is its parent.
LEMMA OwnLineage ==
  ASSUME NEW t \in Rows
  PROVE  /\ t \in Lineage[t] /\ Lineage[t] \in SUBSET Rows
         /\ t # Root => Parent[t] \in Rows /\ Lineage[t] = {t} \cup Lineage[Parent[t]]
<1>1. CASE t = Root
  BY <1>1, TreeAssumption
<1>2. CASE t # Root
  <2>1. t \in Rows \ {Root}
    BY <1>2
  <2>2. QED
    BY <2>1, TreeAssumption
<1>3. QED
  BY <1>1, <1>2

\* The first locks are rows.
LEMMA FirstLocksAreRows ==
  ASSUME NEW o, NEW t \in Rows
  PROVE  first_locks(o, t) \in SUBSET Rows
BY TreeAssumption DEF first_locks, lock_ancestors, Atomic!above

-----------------------------------------------------------------------------
(* Types. *)

\* set writes one state into some rows.
LEMMA SetTyped ==
  ASSUME NEW st \in [Rows -> States], NEW S, NEW s \in States
  PROVE  Atomic!set(st, S, s) \in [Rows -> States]
BY DEF Atomic!set

\* A rollup pass writes states of the rollup rule.
LEMMA RollupTyped ==
  ASSUME NEW st \in [Rows -> States], NEW t \in Rows, NEW res \in Atomic!rollup_from(st, t)
  PROVE  res \in [Rows -> States]
<1>1. PICK g \in UNION {[C -> Atomic!RollupStates] : C \in SUBSET Atomic!above(t)} :
        res = [r \in Rows |-> IF r \in DOMAIN g THEN g[r] ELSE st[r]]
  BY DEF Atomic!rollup_from
<1>2. \A r \in DOMAIN g : g[r] \in Atomic!RollupStates
  BY <1>1
<1>3. Atomic!RollupStates \subseteq States
  BY DEF Atomic!RollupStates, States, TaskState
<1>4. QED
  BY <1>1, <1>2, <1>3

\* Whatever a protocol makes of the states, they are states.
LEMMA ResultTyped ==
  ASSUME NEW st \in [Rows -> States], NEW t \in Rows, NEW S, NEW o,
         NEW res \in Atomic!result(o, t, st, S)
  PROVE  res \in [Rows -> States]
<1>1. \A s \in TaskState : s \in States
  BY DEF States
<1>2. \A s \in TaskState : \A T : Atomic!set(st, T, s) \in [Rows -> States]
  BY <1>1, SetTyped
<1>3. \A s, u \in TaskState : \A T, U : Atomic!set(Atomic!set(st, T, s), U, u) \in [Rows -> States]
  BY <1>1, <1>2, SetTyped
<1>4. \A s, u, v \in TaskState : \A T, U, V :
        Atomic!set(Atomic!set(Atomic!set(st, T, s), U, u), V, v) \in [Rows -> States]
  BY <1>1, <1>3, SetTyped
<1>5. {"ready", "decomposing", "decomposed", "claimed", "running", "in_review", "blocked",
       "done", "failed", "cancelled", "superseded", "awaiting_approval"} \subseteq TaskState
  BY DEF TaskState
<1>6. \/ \E s \in TaskState : \E T : res = Atomic!set(st, T, s)
      \/ \E s, u \in TaskState : \E T, U : res = Atomic!set(Atomic!set(st, T, s), U, u)
      \/ \E s, u, v \in TaskState : \E T, U, V :
           res = Atomic!set(Atomic!set(Atomic!set(st, T, s), U, u), V, v)
      \/ \E s \in TaskState : \E T : res \in Atomic!rollup_from(Atomic!set(st, T, s), t)
      \/ \E s, u \in TaskState : \E T, U :
           res \in Atomic!rollup_from(Atomic!set(Atomic!set(st, T, s), U, u), t)
  BY <1>5 DEF Atomic!result
<1>7. QED
  BY <1>2, <1>3, <1>4, <1>6, RollupTyped

\* The rows a protocol lists are rows it may list.
LEMMA OthersListable ==
  ASSUME NEW st, NEW o, NEW t \in Rows, NEW n \in Atomic!others(o, t, st)
  PROVE  n \in Rows /\ Listable(o, t, n)
BY DEF Atomic!others, Atomic!below, Atomic!kids, Listable

\* What is written is a part of the states.
LEMMA WrittenTyped ==
  ASSUME NEW st \in [Rows -> States]
  PROVE  written(st) \in Writes
<1>1. DOMAIN written(st) \in SUBSET Rows /\ written(st) \in [DOMAIN written(st) -> States]
  BY DEF written
<1>2. QED
  BY <1>1 DEF Writes

\* Nothing is written at first.
LEMMA NoWritesTyped == no_writes \in Writes
<1>1. no_writes \in [{} -> States]
  BY DEF no_writes
<1>2. QED
  BY <1>1 DEF Writes

\* Locks, reads, writes and commits keep the types.
LEMMA TypesKept ==
  ASSUME TxTypes, [Next]_vars
  PROVE  TxTypes'
<1>1. CASE UNCHANGED vars
  BY <1>1 DEF TxTypes, vars, tx_vars
<1>2. ASSUME NEW x \in Txs, NEW o \in Ops, NEW t \in Rows, begin(x, o, t)
      PROVE  TxTypes'
  <2>1. first_locks(o, t) \in SUBSET Rows
    BY FirstLocksAreRows
  <2>2. QED
    BY <1>2, <2>1 DEF TxTypes, begin
<1>3. ASSUME NEW x \in Txs, NEW o \in Ops, NEW t \in Rows, begin_skip_locked(x, o, t)
      PROVE  TxTypes'
  <2>1. PICK st \in Atomic!result(o, t, rows, {}) : new' = [new EXCEPT ![x] = written(st)]
    BY <1>3 DEF begin_skip_locked
  <2>2. written(st) \in Writes
    BY <2>1, ResultTyped, WrittenTyped DEF TxTypes
  <2>3. new' \in [Txs -> Writes]
    BY <2>1, <2>2 DEF TxTypes
  <2>4. QED
    BY <1>3, <2>3 DEF TxTypes, begin_skip_locked
<1>4. ASSUME NEW x \in Txs, take_lock(x)
      PROVE  TxTypes'
  <2>1. next_lock(x) \in Rows
    BY <1>4, NextLockIsFirst DEF take_lock
  <2>2. update' \in [Rows -> SUBSET Txs] /\ share' \in [Rows -> SUBSET Txs]
    BY <1>4, <2>1 DEF TxTypes, take_lock
  <2>3. QED
    BY <1>4, <2>2 DEF TxTypes, take_lock
<1>5. ASSUME NEW x \in Txs, check(x)
      PROVE  TxTypes'
  <2>1. node[x] \in Rows
    BY DEF TxTypes
  <2>2. Atomic!others(op[x], node[x], rows) \in SUBSET Rows
    BY <2>1, OthersListable
  <2>3. QED
    BY <1>5, <2>2 DEF TxTypes, check
<1>6. ASSUME NEW x \in Txs, write(x)
      PROVE  TxTypes'
  <2>1. PICK st \in Atomic!result(op[x], node[x], rows, seen[x]) :
          new' = [new EXCEPT ![x] = written(st)]
    BY <1>6 DEF write
  <2>2. written(st) \in Writes
    BY <2>1, ResultTyped, WrittenTyped DEF TxTypes
  <2>3. new' \in [Txs -> Writes]
    BY <2>1, <2>2 DEF TxTypes
  <2>4. todo' \in [Txs -> SUBSET Rows]
    BY <1>6, TreeAssumption DEF TxTypes, write, fk_check
  <2>5. QED
    BY <1>6, <2>3, <2>4 DEF TxTypes, write
<1>7. ASSUME NEW x \in Txs, release(x)
      PROVE  /\ op' \in [Txs -> Ops \cup {"idle"}]
             /\ node' \in [Txs -> Rows]
             /\ todo' \in [Txs -> SUBSET Rows]
             /\ phase' \in [Txs -> {"lock", "more", "commit"}]
             /\ seen' \in [Txs -> SUBSET Rows]
             /\ new' \in [Txs -> Writes]
             /\ update' \in [Rows -> SUBSET Txs]
             /\ share' \in [Rows -> SUBSET Txs]
  BY <1>7, NoWritesTyped, TreeAssumption DEF TxTypes, release
<1>8. ASSUME NEW x \in Txs, commit(x)
      PROVE  TxTypes'
  <2>1. new[x] \in Writes
    BY DEF TxTypes
  <2>2. \A r \in DOMAIN new[x] : new[x][r] \in States
    BY <2>1 DEF Writes
  <2>3. rows' \in [Rows -> States]
    BY <1>8, <2>2 DEF TxTypes, commit
  <2>4. leafs' \in SUBSET Rows
    BY <1>8 DEF TxTypes, commit, Atomic!new_leafs
  <2>5. release(x)
    BY <1>8 DEF commit
  <2>6. QED
    BY <1>7, <2>3, <2>4, <2>5 DEF TxTypes
<1>9. ASSUME NEW x \in Txs, rollback(x)
      PROVE  TxTypes'
  BY <1>7, <1>9 DEF TxTypes, rollback
<1>10. QED
  BY <1>1, <1>2, <1>3, <1>4, <1>5, <1>6, <1>8, <1>9 DEF Next

-----------------------------------------------------------------------------
(* Locks. *)

\* Nothing about y has changed.
Untouched(y) ==
  /\ op'[y] = op[y] /\ node'[y] = node[y] /\ todo'[y] = todo[y]
  /\ phase'[y] = phase[y] /\ seen'[y] = seen[y] /\ new'[y] = new[y]
  /\ \A r \in Rows : (y \in update'[r] <=> y \in update[r]) /\ (y \in share'[r] <=> y \in share[r])

\* A step of one transaction touches no other.
LEMMA OneAtATime ==
  ASSUME TxTypes, NEW x \in Txs, NEW y \in Txs \ {x},
         \/ \E o \in Ops, t \in Rows : begin(x, o, t) \/ begin_skip_locked(x, o, t)
         \/ take_lock(x) \/ check(x) \/ write(x) \/ commit(x) \/ rollback(x)
  PROVE  Untouched(y)
<1>1. ASSUME NEW o \in Ops, NEW t \in Rows, begin(x, o, t)
      PROVE  Untouched(y)
  BY <1>1 DEF begin, TxTypes, Untouched
<1>2. ASSUME NEW o \in Ops, NEW t \in Rows, begin_skip_locked(x, o, t)
      PROVE  Untouched(y)
  BY <1>2 DEF begin_skip_locked, TxTypes, Untouched
<1>3. CASE take_lock(x)
  <2>1. next_lock(x) \in Rows
    BY <1>3, NextLockIsFirst DEF take_lock
  <2>2. \A r \in Rows : (y \in update'[r] <=> y \in update[r]) /\ (y \in share'[r] <=> y \in share[r])
    BY <1>3, <2>1 DEF take_lock, TxTypes
  <2>3. QED
    BY <1>3, <2>2 DEF take_lock, TxTypes, Untouched
<1>4. CASE check(x)
  BY <1>4 DEF check, TxTypes, Untouched
<1>5. CASE write(x)
  BY <1>5 DEF write, TxTypes, Untouched
<1>6. CASE commit(x) \/ rollback(x)
  BY <1>6 DEF commit, rollback, release, TxTypes, Untouched
<1>7. QED
  BY <1>1, <1>2, <1>3, <1>4, <1>5, <1>6

\* What is not touched stays as it is.
LEMMA UntouchedOK ==
  ASSUME TxTypes, NEW y \in Txs, Untouched(y), TxOK(y)
  PROVE  TxOK(y)'
<1>0. \A r \in first_locks(op[y], node[y]) : r \in Rows
  BY FirstLocksAreRows DEF TxTypes
<1>1. IdleHoldsNothing(y)' /\ ShareAtEnd(y)'
  BY DEF Untouched, TxOK, IdleHoldsNothing, ShareAtEnd
<1>2. FirstPart(y)'
  <2>1. FirstPart(y)
    BY DEF TxOK
  <2>2. QED
    BY <1>0, <2>1 DEF Untouched, FirstPart
<1>3. SecondPart(y)'
  <2>1. SecondPart(y)
    BY DEF TxOK
  <2>2. QED
    BY <1>0, <2>1 DEF Untouched, SecondPart
<1>4. LastPart(y)'
  BY TreeAssumption DEF Untouched, TxOK, LastPart
<1>5. QED
  BY <1>1, <1>2, <1>3, <1>4 DEF TxOK

\* A transaction that ends holds nothing and awaits nothing.
LEMMA EndsOK ==
  ASSUME TxTypes, NEW x \in Txs, release(x)
  PROVE  TxOK(x)'
<1>1. op'[x] = "idle" /\ todo'[x] = {} /\ phase'[x] = "lock"
  BY DEF release, TxTypes
<1>2. \A r \in Rows : x \notin update'[r] /\ x \notin share'[r]
  BY DEF release
<1>3. QED
  BY <1>1, <1>2 DEF TxOK, IdleHoldsNothing, ShareAtEnd, FirstPart, SecondPart, LastPart

\* peek takes no lock.
LEMMA BeginOK ==
  ASSUME TxInv, NEW x \in Txs, NEW o \in Ops, NEW t \in Rows, begin(x, o, t)
  PROVE  TxOK(x)'
<1>1. /\ op'[x] = o /\ node'[x] = t /\ todo'[x] = first_locks(o, t) /\ phase'[x] = "lock"
      /\ update' = update /\ share' = share
  BY DEF begin, TxInv, TxTypes, TxOK, IdleHoldsNothing
<1>2. \A r \in Rows : x \notin update[r] /\ x \notin share[r]
  BY DEF begin, TxInv, TxOK, IdleHoldsNothing
<1>3. o # "idle"
  BY OpsAssumption DEF Rolling, SkipLocked
<1>4. IdleHoldsNothing(x)' /\ ShareAtEnd(x)' /\ SecondPart(x)' /\ LastPart(x)'
  BY <1>1, <1>2, <1>3 DEF IdleHoldsNothing, ShareAtEnd, SecondPart, LastPart
<1>5. FirstPart(x)'
  BY <1>1, <1>2 DEF FirstPart, first_locks
<1>6. QED
  BY <1>4, <1>5 DEF TxOK

\* SKIP LOCKED goes on to its commit.
LEMMA SkipLockedOK ==
  ASSUME TxInv, NEW x \in Txs, NEW o \in Ops, NEW t \in Rows, begin_skip_locked(x, o, t)
  PROVE  TxOK(x)'
<1>1. /\ op'[x] = o /\ phase'[x] = "commit" /\ todo'[x] = {} /\ share' = share
  BY DEF begin_skip_locked, TxInv, TxTypes, TxOK, IdleHoldsNothing
<1>2. o # "idle" /\ o # "decompose"
  BY OpsAssumption DEF begin_skip_locked, SkipLocked
<1>3. QED
  BY <1>1, <1>2 DEF TxOK, IdleHoldsNothing, ShareAtEnd, SecondPart, FirstPart, LastPart

\* A lock that is taken is the first of those awaited.
LEMMA TakeLockOK ==
  ASSUME TxInv, NEW x \in Txs, take_lock(x)
  PROVE  TxOK(x)'
<1>. DEFINE r == next_lock(x)
<1>1. r \in todo[x] /\ r \in Rows /\ \A s \in todo[x] : Place[r] <= Place[s]
  BY NextLockIsFirst DEF take_lock, TxInv
<1>2. \A s \in todo[x] \ {r} : s \in Rows /\ Place[r] < Place[s]
  <2>1. \A s \in todo[x] : s \in Rows /\ Place[s] \in Nat /\ (Place[s] = Place[r] => s = r)
    BY <1>1, TreeAssumption DEF TxInv, TxTypes
  <2>2. Place[r] \in Nat
    BY <1>1, TreeAssumption
  <2>3. QED
    BY <1>1, <2>1, <2>2
<1>3. /\ op'[x] = op[x] /\ node'[x] = node[x] /\ phase'[x] = phase[x] /\ seen'[x] = seen[x]
      /\ todo'[x] = todo[x] \ {r}
  BY DEF take_lock, TxInv, TxTypes
<1>4. op[x] # "idle"
  BY <1>1 DEF TxInv, TxOK, IdleHoldsNothing
<1>5. CASE phase[x] = "commit"
  <2>1. LastPart(x)
    BY DEF TxInv, TxOK
  <2>2. r = Root /\ todo'[x] = {}
    BY <1>1, <1>3, <1>5, <2>1 DEF LastPart
  <2>3. x \in share'[Root]
    BY <1>1, <1>5, <2>2 DEF take_lock, mode, TxInv, TxTypes
  <2>4. QED
    BY <1>3, <1>4, <1>5, <2>2, <2>3
       DEF TxOK, IdleHoldsNothing, ShareAtEnd, SecondPart, FirstPart, LastPart
<1>6. CASE phase[x] # "commit"
  <2>1. /\ share' = share
        /\ \A s \in Rows : x \in update'[s] <=> x \in update[s] \/ s = r
    BY <1>1, <1>6 DEF take_lock, mode, TxInv, TxTypes
  <2>2. \A s \in Rows : x \notin share[s]
    BY <1>6 DEF TxInv, TxOK, ShareAtEnd
  <2>3. IdleHoldsNothing(x)' /\ ShareAtEnd(x)'
    BY <1>3, <1>4, <2>1, <2>2 DEF IdleHoldsNothing, ShareAtEnd
  <2>4. FirstPart(x)'
    <3>1. CASE phase[x] # "lock"
      BY <1>3, <3>1 DEF FirstPart
    <3>2. CASE phase[x] = "lock"
      <4>1. FirstPart(x)
        BY DEF TxInv, TxOK
      <4>2. QED
        <5>. DEFINE F == first_locks(op[x], node[x])
        <5>. HIDE DEF F, r
        <5>1. /\ todo[x] \subseteq F
              /\ \A s \in Rows : x \in update[s] => s \in F
              /\ \A s \in F : x \in update[s] \/ s \in todo[x]
              /\ \A s \in Rows : x \in update[s] => \A u \in todo[x] : Place[s] < Place[u]
          BY <1>4, <3>2, <4>1 DEF FirstPart, F
        <5>2. /\ todo'[x] \subseteq F
              /\ \A s \in Rows : x \in update'[s] => s \in F
          BY <1>1, <1>3, <2>1, <5>1
        <5>3. \A s \in F : x \in update'[s] \/ s \in todo'[x]
          <6>1. \A s \in F : s \in Rows
            BY FirstLocksAreRows DEF F, TxInv, TxTypes
          <6>2. QED
            BY <1>1, <1>3, <2>1, <5>1, <6>1
        <5>4. \A s \in Rows : x \in update'[s] => \A u \in todo'[x] : Place[s] < Place[u]
          BY <1>1, <1>2, <1>3, <2>1, <5>1
        <5>5. F = first_locks(op'[x], node'[x])
          BY <1>3 DEF F
        <5>6. QED
          BY <5>2, <5>3, <5>4, <5>5 DEF FirstPart
    <3>3. QED
      BY <3>1, <3>2
  <2>5. SecondPart(x)'
    <3>1. CASE phase[x] # "more"
      BY <1>3, <3>1 DEF SecondPart
    <3>2. CASE phase[x] = "more"
      <4>1. SecondPart(x)
        BY DEF TxInv, TxOK
      <4>2. QED
        <5>. DEFINE F == first_locks(op[x], node[x])
        <5>. HIDE DEF F, r
        <5>1. /\ \A s \in F : x \in update[s]
              /\ todo[x] \subseteq seen[x] \ {node[x]}
              /\ \A n \in seen[x] : Listable(op[x], node[x], n)
              /\ \A s \in Rows : x \in update[s] => s \in F \cup seen[x]
              /\ \A s \in Rows : x \in update[s] /\ s \notin F =>
                   \A u \in todo[x] : Place[s] < Place[u]
          BY <3>2, <4>1 DEF SecondPart, F
        <5>2. \A s \in F : s \in Rows
          BY FirstLocksAreRows DEF F, TxInv, TxTypes
        <5>3. /\ \A s \in F : x \in update'[s]
              /\ todo'[x] \subseteq seen'[x] \ {node'[x]}
              /\ \A s \in Rows : x \in update'[s] => s \in F \cup seen'[x]
          BY <1>1, <1>3, <2>1, <5>1, <5>2
        <5>4. \A s \in Rows : x \in update'[s] /\ s \notin F =>
                \A u \in todo'[x] : Place[s] < Place[u]
          BY <1>1, <1>2, <1>3, <2>1, <5>1
        <5>5. F = first_locks(op'[x], node'[x])
          BY <1>3 DEF F
        <5>6. \A n \in seen'[x] : Listable(op'[x], node'[x], n)
          BY <1>3, <5>1
        <5>7. QED
          BY <1>3, <1>4, <5>3, <5>4, <5>5, <5>6 DEF SecondPart
    <3>3. QED
      BY <3>1, <3>2
  <2>6. LastPart(x)'
    BY <1>3, <1>6 DEF LastPart
  <2>7. QED
    BY <2>3, <2>4, <2>5, <2>6 DEF TxOK
<1>7. QED
  BY <1>5, <1>6

\* The check comes when all first locks are held.
LEMMA CheckOK ==
  ASSUME TxInv, NEW x \in Txs, check(x)
  PROVE  TxOK(x)'
<1>1. /\ op'[x] = op[x] /\ node'[x] = node[x] /\ phase'[x] = "more"
      /\ seen'[x] = Atomic!others(op[x], node[x], rows)
      /\ todo'[x] = seen'[x] \ {node[x]}
      /\ update' = update /\ share' = share
  BY DEF check, TxInv, TxTypes
<1>2. op[x] # "idle" /\ phase[x] = "lock" /\ todo[x] = {}
  BY DEF check
<1>3. FirstPart(x) /\ ShareAtEnd(x) /\ node[x] \in Rows
  BY DEF TxInv, TxOK, TxTypes
<1>4. \A n \in seen'[x] : Listable(op[x], node[x], n)
  BY <1>1, <1>3, OthersListable
<1>5. IdleHoldsNothing(x)' /\ ShareAtEnd(x)' /\ FirstPart(x)'
  BY <1>1, <1>2, <1>3 DEF IdleHoldsNothing, ShareAtEnd, FirstPart
<1>6. SecondPart(x)' /\ LastPart(x)'
  BY <1>1, <1>2, <1>3, <1>4 DEF SecondPart, FirstPart, LastPart
<1>7. QED
  BY <1>5, <1>6 DEF TxOK

\* The writes take no row lock; only the foreign key is left.
LEMMA WriteOK ==
  ASSUME TxInv, NEW x \in Txs, write(x)
  PROVE  TxOK(x)'
<1>1. /\ op'[x] = op[x] /\ phase'[x] = "commit" /\ share' = share
      /\ todo'[x] = IF op[x] = "decompose" THEN {Root} ELSE {}
  BY DEF write, TxInv, TxTypes, fk_check
<1>2. op[x] # "idle" /\ \A r \in Rows : x \notin share[r]
  BY DEF write, TxInv, TxOK, SecondPart, ShareAtEnd
<1>3. QED
  BY <1>1, <1>2 DEF TxOK, IdleHoldsNothing, ShareAtEnd, SecondPart, FirstPart, LastPart

\* A row is given to one transaction FOR UPDATE, or to several FOR KEY SHARE.
LEMMA ExclusiveKept ==
  ASSUME TxInv, [Next]_vars
  PROVE  Exclusive'
<1>1. CASE UNCHANGED vars
  BY <1>1 DEF TxInv, Exclusive, vars
<1>2. ASSUME NEW x \in Txs, NEW o \in Ops, NEW t \in Rows, begin(x, o, t)
      PROVE  Exclusive'
  BY <1>2 DEF TxInv, Exclusive, begin
<1>3. ASSUME NEW x \in Txs, NEW o \in Ops, NEW t \in Rows, begin_skip_locked(x, o, t)
      PROVE  Exclusive'
  BY <1>3 DEF TxInv, TxTypes, Exclusive, begin_skip_locked
<1>4. ASSUME NEW x \in Txs, take_lock(x)
      PROVE  Exclusive'
  <2>. DEFINE r == next_lock(x)
  <2>1. r \in Rows
    BY <1>4, NextLockIsFirst DEF take_lock, TxInv
  <2>2. (update[r] \cup (IF mode(x) = "update" THEN share[r] ELSE {})) \ {x} = {}
    BY <1>4 DEF take_lock, waits_for, holders
  <2>3. CASE mode(x) = "update"
    <3>1. share' = share /\ \A s \in Rows : update'[s] = IF s = r THEN update[s] \cup {x} ELSE update[s]
      BY <1>4, <2>1, <2>3 DEF take_lock, TxInv, TxTypes
    <3>2. Exclusive
      BY DEF TxInv
    <3>3. update'[r] = {x} /\ share'[r] \subseteq {x}
      BY <2>1, <2>2, <2>3, <3>1
    <3>4. \A s \in Rows \ {r} : update'[s] = update[s] /\ share'[s] = share[s]
      BY <3>1
    <3>5. QED
      BY <2>1, <3>2, <3>3, <3>4 DEF Exclusive
  <2>4. CASE mode(x) # "update"
    <3>1. update' = update /\ \A s \in Rows : share'[s] = IF s = r THEN share[s] \cup {x} ELSE share[s]
      BY <1>4, <2>1, <2>4 DEF take_lock, TxInv, TxTypes
    <3>2. QED
      BY <2>2, <2>4, <3>1 DEF Exclusive, TxInv
  <2>5. QED
    BY <2>3, <2>4
<1>5. ASSUME NEW x \in Txs, check(x) \/ write(x)
      PROVE  Exclusive'
  BY <1>5 DEF TxInv, Exclusive, check, write
<1>6. ASSUME NEW x \in Txs, release(x)
      PROVE  Exclusive'
  BY <1>6 DEF TxInv, Exclusive, release
<1>7. QED
  BY <1>1, <1>2, <1>3, <1>4, <1>5, <1>6 DEF Next, commit, rollback

\* The invariant of the transactions.
LEMMA TxInvKept ==
  ASSUME TxInv, [Next]_vars
  PROVE  TxInv'
<1>1. TxTypes' /\ Exclusive'
  BY TypesKept, ExclusiveKept DEF TxInv
<1>2. CASE UNCHANGED vars
  <2>1. \A y \in Txs : Untouched(y)
    BY <1>2 DEF Untouched, vars, tx_vars
  <2>2. QED
    BY <1>1, <2>1, UntouchedOK DEF TxInv
<1>3. CASE Next
  <2>1. PICK x \in Txs :
          \/ \E o \in Ops, t \in Rows : begin(x, o, t) \/ begin_skip_locked(x, o, t)
          \/ take_lock(x) \/ check(x) \/ write(x) \/ commit(x) \/ rollback(x)
    BY <1>3 DEF Next
  <2>2. \A y \in Txs \ {x} : Untouched(y)
    BY <2>1, OneAtATime DEF TxInv
  <2>3. \A y \in Txs \ {x} : TxOK(y)'
    BY <2>2, UntouchedOK DEF TxInv
  <2>4. TxOK(x)'
    BY <2>1, EndsOK, BeginOK, SkipLockedOK, TakeLockOK, CheckOK, WriteOK
       DEF TxInv, commit, rollback
  <2>5. QED
    BY <1>1, <2>3, <2>4 DEF TxInv
<1>4. QED
  BY <1>2, <1>3

\* At first nothing runs.
LEMMA TxInvInit ==
  ASSUME Init
  PROVE  TxInv
<1>1. TxTypes
  <2>1. rows \in [Rows -> States] /\ leafs \in SUBSET Rows
    BY DEF Init, Atomic!Init, States, TaskState
  <2>2. QED
    BY <2>1, NoWritesTyped, TreeAssumption DEF Init, TxTypes
<1>2. Exclusive
  BY DEF Init, Exclusive
<1>3. \A x \in Txs : TxOK(x)
  BY DEF Init, TxOK, IdleHoldsNothing, ShareAtEnd, FirstPart, SecondPart, LastPart
<1>4. QED
  BY <1>1, <1>2, <1>3 DEF TxInv

\* The invariant holds in every state.
LEMMA TxInvariant == Spec => []TxInv
<1>1. Init => TxInv
  BY TxInvInit
<1>2. TxInv /\ [Next]_vars => TxInv'
  BY TxInvKept
<1>3. QED
  BY <1>1, <1>2, PTL DEF Spec

\* Locks are exclusive: a row held FOR UPDATE is held by nobody else, and a transaction
\* that ended, by its commit or by any error, holds nothing.
THEOREM TxTypeCorrect == Spec => []TxTypeOK
<1>1. TxInv => TxTypeOK
  BY DEF TxInv, TxTypes, Exclusive, TxOK, IdleHoldsNothing, TxTypeOK, States
<1>2. QED
  BY <1>1, TxInvariant, PTL

-----------------------------------------------------------------------------
(* No circle. *)

\* What y holds while it waits comes before what it waits for, unless y blocks the
\* dependents of its row.
LEMMA HeldBeforeAwaited ==
  ASSUME TxInv, NEW y \in Txs, NEW r \in Rows, y \in update[r], NEW s \in todo[y],
         phase[y] # "commit"
  PROVE  \/ Place[r] < Place[s]
         \/ /\ op[y] \in {"fail", "closed"} /\ phase[y] = "more"
            /\ r = node[y] /\ r # Root /\ s # Root /\ Parent[s] = Parent[r]
<1>1. op[y] # "idle" /\ s \in Rows /\ node[y] \in Rows
  BY DEF TxInv, TxTypes, TxOK, IdleHoldsNothing
<1>2. CASE phase[y] = "lock"
  BY <1>1, <1>2 DEF TxInv, TxOK, FirstPart
<1>3. CASE phase[y] = "more"
  <2>1. /\ s \in seen[y] /\ s # node[y] /\ Listable(op[y], node[y], s)
        /\ r \in first_locks(op[y], node[y]) \cup seen[y]
        /\ r \notin first_locks(op[y], node[y]) => Place[r] < Place[s]
    BY <1>3 DEF TxInv, TxOK, SecondPart
  <2>2. CASE r \in first_locks(op[y], node[y])
    <3>1. r \in Lineage[node[y]] \/ r = node[y]
      BY <2>2 DEF first_locks, lock_ancestors, Atomic!above
    <3>2. Depth[r] \in Nat /\ Depth[s] \in Nat /\ Depth[node[y]] \in Nat
      BY <1>1, TreeAssumption
    <3>3. r = node[y] \/ Depth[r] < Depth[node[y]]
      BY <1>1, <3>1, TreeAssumption
    <3>4. CASE op[y] \in {"cancel", "replan"} /\ node[y] \in Lineage[s]
      <4>1. Depth[node[y]] < Depth[s]
        BY <1>1, <2>1, <3>4, TreeAssumption
      <4>2. Depth[r] < Depth[s]
        BY <3>2, <3>3, <4>1
      <4>3. QED
        BY <1>1, <4>2, TreeAssumption
    <3>5. CASE op[y] = "approve_children" /\ s # Root /\ Parent[s] = node[y]
      <4>1. Depth[s] = Depth[node[y]] + 1
        BY <1>1, <3>5, TreeAssumption
      <4>2. Depth[r] < Depth[s]
        BY <3>2, <3>3, <4>1
      <4>3. QED
        BY <1>1, <4>2, TreeAssumption
    <3>6. CASE /\ op[y] \in {"fail", "closed"} /\ node[y] # Root /\ s # Root
               /\ Parent[s] = Parent[node[y]]
      <4>1. CASE r = node[y]
        BY <1>3, <3>6, <4>1
      <4>2. CASE r # node[y]
        <5>1. Depth[s] = Depth[Parent[s]] + 1 /\ Depth[node[y]] = Depth[Parent[s]] + 1
          BY <1>1, <3>6, TreeAssumption
        <5>2. Depth[r] < Depth[s]
          BY <3>2, <3>3, <4>2, <5>1
        <5>3. QED
          BY <1>1, <5>2, TreeAssumption
      <4>3. QED
        BY <4>1, <4>2
    <3>7. QED
      BY <2>1, <3>4, <3>5, <3>6 DEF Listable
  <2>3. QED
    BY <2>1, <2>2
<1>4. QED
  BY <1>2, <1>3 DEF TxInv, TxTypes

\* Transactions that wait FOR UPDATE hold nothing FOR KEY SHARE.
LEMMA WaitersHoldForUpdate ==
  ASSUME TxInv, NEW x \in Txs, NEW y \in waits_for(x), todo[y] # {}
  PROVE  y \in Txs /\ y # x /\ todo[x] # {} /\ y \in update[next_lock(x)] /\ next_lock(x) \in Rows
<1>1. todo[x] # {}
  BY DEF waits_for
<1>2. next_lock(x) \in Rows
  BY <1>1, NextLockIsFirst DEF TxInv
<1>3. y \in update[next_lock(x)] \cup share[next_lock(x)] /\ y # x
  BY <1>1 DEF waits_for, holders
<1>4. y \in Txs
  BY <1>2, <1>3 DEF TxInv, TxTypes
<1>5. y \notin share[next_lock(x)]
  BY <1>2, <1>4 DEF TxInv, TxOK, ShareAtEnd
<1>6. QED
  BY <1>1, <1>2, <1>3, <1>4, <1>5

\* A row held by two is not held.
LEMMA NotTwice ==
  ASSUME TxInv, NEW r \in Rows, NEW y \in update[r], NEW z \in update[r]
  PROVE  y = z
BY DEF TxInv, Exclusive

\* Whoever blocks the dependents of its row holds all above them.  So nobody else both
\* holds one of these and waits for a row that does not come after them all.
LEMMA DependentsAreFree ==
  ASSUME TxInv, NEW y \in Txs, op[y] \in {"fail", "closed"}, phase[y] = "more",
         node[y] # Root, NEW s \in Rows \ {Root}, Parent[s] = Parent[node[y]],
         NEW z \in Txs \ {y}, z \in update[s], phase[z] # "commit", NEW u \in todo[z]
  PROVE  Place[node[y]] < Place[u]
<1>1. node[y] \in Rows /\ node[z] \in Rows /\ u \in Rows /\ op[z] # "idle"
  BY DEF TxInv, TxTypes, TxOK, IdleHoldsNothing
<1>2. /\ Parent[s] \in Rows /\ Parent[s] \in Lineage[s]
      /\ Lineage[node[y]] = {node[y]} \cup Lineage[Parent[s]]
      /\ Lineage[s] = {s} \cup Lineage[Parent[s]]
  <2>1. Parent[s] \in Rows
    BY TreeAssumption
  <2>2. Parent[s] \in Lineage[Parent[s]]
    BY <2>1, OwnLineage
  <2>3. QED
    BY <1>1, <2>1, <2>2, OwnLineage
<1>3. \A a \in Lineage[Parent[s]] : a \in Rows /\ y \in update[a]
  <2>1. \A a \in first_locks(op[y], node[y]) : y \in update[a]
    BY DEF TxInv, TxOK, SecondPart
  <2>2. Lineage[node[y]] \subseteq first_locks(op[y], node[y])
    BY DEF first_locks, lock_ancestors, Atomic!above, Rolling
  <2>3. QED
    BY <1>2, <2>1, <2>2, TreeAssumption
<1>4. \A a \in Lineage[Parent[s]] : z \notin update[a]
  BY <1>3, NotTwice
<1>5. Parent[s] \in Lineage[Parent[s]]
  BY <1>2, TreeAssumption
<1>6. ASSUME op[z] \in Rolling, s \in Lineage[node[z]],
             Parent[s] \in todo[z] \/ z \in update[Parent[s]]
      PROVE  Parent[s] \in todo[z]
  BY <1>4, <1>5, <1>6
<1>7. ASSUME s \in Lineage[node[z]]
      PROVE  Parent[s] \in Lineage[node[z]]
  BY <1>1, <1>2, <1>7, TreeAssumption
<1>8. CASE phase[z] = "lock"
  <2>1. /\ s \in first_locks(op[z], node[z]) /\ u \in first_locks(op[z], node[z])
        /\ \A r \in first_locks(op[z], node[z]) : z \in update[r] \/ r \in todo[z]
        /\ \A v \in todo[z] : Place[s] < Place[v]
    BY <1>1, <1>8 DEF TxInv, TxOK, FirstPart
  <2>2. CASE op[z] \in Rolling
    <3>1. first_locks(op[z], node[z]) = Lineage[node[z]] \cup {node[z]}
      BY <2>2 DEF first_locks, lock_ancestors, Atomic!above
    <3>2. s \in Lineage[node[z]]
      BY <1>1, <2>1, <3>1, TreeAssumption
    <3>3. Parent[s] \in todo[z]
      BY <1>6, <1>7, <2>1, <2>2, <3>1, <3>2
    <3>4. Place[s] < Place[Parent[s]]
      BY <2>1, <3>3
    <3>5. Place[Parent[s]] < Place[s]
      <4>1. Depth[Parent[s]] < Depth[s]
        BY <1>2, TreeAssumption
      <4>2. QED
        BY <1>2, <4>1, TreeAssumption
    <3>6. Place[s] \in Nat /\ Place[Parent[s]] \in Nat
      BY <1>2, TreeAssumption
    <3>7. QED
      BY <3>4, <3>5, <3>6
  <2>3. CASE op[z] \notin Rolling
    <3>1. s = node[z] /\ u = node[z]
      BY <2>1, <2>3 DEF first_locks
    <3>2. Place[s] < Place[s] /\ Place[s] \in Nat
      BY <2>1, <3>1, TreeAssumption
    <3>3. QED
      BY <3>2
  <2>4. QED
    BY <2>2, <2>3
<1>9. CASE phase[z] = "more"
  <2>1. /\ \A r \in first_locks(op[z], node[z]) : z \in update[r]
        /\ Listable(op[z], node[z], u)
        /\ s \in first_locks(op[z], node[z]) \/ Listable(op[z], node[z], s)
    BY <1>9 DEF TxInv, TxOK, SecondPart
  <2>2. z \in update[node[z]]
    BY <2>1 DEF first_locks
  <2>3. CASE op[z] \in Rolling
    <3>1. \A a \in Lineage[node[z]] : z \in update[a]
      BY <2>1, <2>3 DEF first_locks, lock_ancestors, Atomic!above
    <3>2. CASE s \in Lineage[node[z]]
      BY <1>4, <1>5, <1>7, <3>1, <3>2
    <3>3. CASE s \notin Lineage[node[z]]
      <4>1. s # node[z]
        BY <1>1, <3>3, TreeAssumption
      <4>2. s \notin first_locks(op[z], node[z])
        BY <3>3, <4>1 DEF first_locks, lock_ancestors, Atomic!above
      <4>3. CASE node[z] \in Lineage[s]
        BY <1>2, <1>4, <2>2, <4>1, <4>3
      <4>4. CASE node[z] # Root /\ Parent[s] = Parent[node[z]]
        BY <1>1, <1>4, <1>5, <3>1, <4>4, TreeAssumption
      <4>5. QED
        BY <2>1, <2>3, <4>2, <4>3, <4>4 DEF Listable, Rolling
    <3>4. QED
      BY <3>2, <3>3
  <2>4. CASE op[z] \notin Rolling
    <3>1. op[z] = "approve_children" /\ u # Root /\ Parent[u] = node[z]
      BY <2>1, <2>4 DEF Listable, Rolling
    <3>2. s = node[z] \/ Parent[s] = node[z]
      BY <2>1, <2>4, <3>1 DEF Listable, first_locks
    <3>3. Parent[s] # node[z]
      BY <1>4, <1>5, <2>2
    <3>4. Depth[u] = Depth[s] + 1 /\ Depth[s] = Depth[Parent[s]] + 1
      BY <1>1, <3>1, <3>2, <3>3, TreeAssumption
    <3>5. Depth[node[y]] = Depth[Parent[s]] + 1
      BY <1>1, TreeAssumption
    <3>6. Depth[node[y]] < Depth[u]
      <4>1. Depth[Parent[s]] \in Nat
        BY <1>2, TreeAssumption
      <4>2. QED
        BY <3>4, <3>5, <4>1
    <3>7. QED
      BY <1>1, <3>6, TreeAssumption
  <2>5. QED
    BY <2>3, <2>4
<1>10. QED
  BY <1>8, <1>9 DEF TxInv, TxTypes

\* The order of the locks is one in which no circle of waiting transactions can close.
LEMMA NoCircle ==
  ASSUME TxInv
  PROVE  LockOrder
<1>. SUFFICES ASSUME ~LockOrder PROVE FALSE
  OBVIOUS
<1>1. PICK S \in (SUBSET Txs) \ {{}} :
        \A x \in S : waits_for(x) \cap S # {} /\ mode(x) # "share"
  BY DEF LockOrder
<1>2. \A x \in S : todo[x] # {} /\ phase[x] # "commit"
  BY <1>1 DEF waits_for, mode
<1>3. \A x \in S : next_lock(x) \in todo[x] /\ next_lock(x) \in Rows
  BY <1>2, NextLockIsFirst DEF TxInv
<1>4. \A x \in S : \E y \in S \ {x} : y \in update[next_lock(x)]
  <2>1. ASSUME NEW x \in S
        PROVE  \E y \in S \ {x} : y \in update[next_lock(x)]
    <3>1. PICK y \in S : y \in waits_for(x)
      BY <1>1
    <3>2. QED
      BY <1>2, <3>1, WaitersHoldForUpdate
  <2>2. QED
    BY <2>1
<1>5. PICK x \in S : \A w \in S : Place[next_lock(w)] <= Place[next_lock(x)]
  <2>. DEFINE P == {Place[next_lock(w)] : w \in S}
              N == Cardinality(Rows)
  <2>1. N \in Nat
    BY TreeAssumption, FS_CardinalityType
  <2>2. P \in SUBSET (1 .. N) /\ P # {}
    <3>0. S # {}
      OBVIOUS
    <3>1. P # {}
      BY <3>0
    <3>2. \A w \in S : Place[next_lock(w)] \in 1 .. N
      BY <1>3, TreeAssumption
    <3>3. QED
      BY <3>1, <3>2
  <2>3. PICK m \in P : \A n \in P : n <= m
    <3>. HIDE DEF P, N
    <3>. QED BY <2>1, <2>2, Greatest
  <2>4. QED
    BY <2>3
<1>6. PICK y \in S \ {x} : y \in update[next_lock(x)]
  BY <1>4
<1>. DEFINE r == next_lock(x)
            s == next_lock(y)
<1>7. r \in Rows /\ s \in Rows /\ Place[r] \in Nat /\ Place[s] \in Nat /\ Place[s] <= Place[r]
  <2>1. r \in Rows /\ s \in Rows
    BY <1>3
  <2>2. QED
    BY <1>5, <2>1, TreeAssumption
<1>8. /\ op[y] \in {"fail", "closed"} /\ phase[y] = "more"
      /\ r = node[y] /\ r # Root /\ s # Root /\ Parent[s] = Parent[r]
  <2>1. ~(Place[r] < Place[s])
    BY <1>7
  <2>2. QED
    BY <1>2, <1>3, <1>6, <1>7, <2>1, HeldBeforeAwaited
<1>9. PICK z \in S \ {y} : z \in update[s]
  BY <1>4
<1>10. Place[r] < Place[next_lock(z)]
  BY <1>2, <1>3, <1>7, <1>8, <1>9, DependentsAreFree
<1>11. Place[next_lock(z)] \in Nat /\ Place[next_lock(z)] <= Place[r]
  <2>1. next_lock(z) \in Rows
    BY <1>3
  <2>2. QED
    BY <1>5, <2>1, TreeAssumption
<1>12. QED
  BY <1>7, <1>10, <1>11

\* However many transactions lock the rows of whatever tree, there is no deadlock among
\* those that wait FOR UPDATE: ancestors before their descendants, and siblings only
\* under the lock of their parent.
THEOREM LockOrderHolds == Spec => []LockOrder
<1>1. TxInv => LockOrder
  BY NoCircle
<1>2. QED
  BY <1>1, TxInvariant, PTL

-----------------------------------------------------------------------------
(* Serializability. *)

\* A transaction past its check holds its row, the ancestors too if it rolls up, and
\* every row it listed once it has written.
HoldsAll(x) ==
  /\ phase[x] = "lock" => seen[x] = {}
  /\ phase[x] \in {"more", "commit"} =>
       /\ x \in update[node[x]]
       /\ op[x] \in Rolling => \A a \in Lineage[node[x]] : x \in update[a]
       /\ \A n \in seen[x] : /\ Listable(op[x], node[x], n)
                             /\ x \in update[n] \/ (phase[x] = "more" /\ n \in todo[x])

\* States between which the protocols that lock no ancestor move a row: rollup does
\* not tell them apart.
Active == {"awaiting_approval", "ready", "decomposing", "claimed", "running", "in_review"}

\* What the check found is still true, under the locks that are held.
Checked(x) ==
  phase[x] \in {"more", "commit"} =>
    /\ Atomic!needs(op[x], node[x], rows, leafs)
    /\ op[x] \in {"cancel", "replan"} => seen[x] = Atomic!below(rows, node[x])
    /\ op[x] \in Atomic!Listing =>
         \A n \in seen[x] : rows[n] \in Active \ {"decomposing"}
    /\ op[x] \in {"fail", "closed"} => \A n \in seen[x] : node[x] \in Deps[n]

\* The committed rows, with what x has written over them.
Outcome(x) == [r \in Rows |-> IF r \in DOMAIN new[x] THEN new[x][r] ELSE rows[r]]

\* What x has written is what its protocol makes of the rows as they are now, and it
\* only writes rows that it holds or inserts.
Written(x) ==
  phase[x] = "commit" =>
    /\ seen[x] \subseteq Atomic!others(op[x], node[x], rows)
    /\ \A r \in DOMAIN new[x] :
         /\ new[x][r] # rows[r]
         /\ \/ x \in update[r]
            \/ op[x] = "decompose" /\ rows[r] = Absent /\ r # Root /\ Parent[r] = node[x]
    /\ Outcome(x) \in Atomic!result(op[x], node[x], rows, seen[x])

SerInv == TxInv /\ \A x \in Txs : HoldsAll(x) /\ Checked(x) /\ Written(x)

\* The rollup rule does not tell the active states of children apart.
LEMMA RollupBenign ==
  ASSUME NEW p, NEW X, NEW Y, X \ Active = Y \ Active,
         X \cap Active = {} <=> Y \cap Active = {}
  PROVE  Atomic!rollup(p, X) = Atomic!rollup(p, Y)
<1>. DEFINE LX == Atomic!live_states(X)
            LY == Atomic!live_states(Y)
<1>1. LX = {} <=> LY = {}
  BY DEF Atomic!live_states, Active
<1>2. "cancelled" \in X <=> "cancelled" \in Y
  BY DEF Active
<1>3. LX = {"done"} <=> LY = {"done"}
  BY DEF Atomic!live_states, Active
<1>4. LX \cap {"failed", "blocked"} # {} <=> LY \cap {"failed", "blocked"} # {}
  BY DEF Atomic!live_states, Active
<1>5. QED
  <2>. HIDE DEF LX, LY
  <2>1. /\ Atomic!rollup(p, X) =
              IF p \notin {"decomposed", "blocked"} THEN p
              ELSE IF LX = {} THEN IF "cancelled" \in X THEN "blocked" ELSE p
              ELSE IF LX = {"done"} THEN "done"
              ELSE IF LX \cap {"failed", "blocked"} # {} THEN "blocked"
              ELSE "decomposed"
        /\ Atomic!rollup(p, Y) =
              IF p \notin {"decomposed", "blocked"} THEN p
              ELSE IF LY = {} THEN IF "cancelled" \in Y THEN "blocked" ELSE p
              ELSE IF LY = {"done"} THEN "done"
              ELSE IF LY \cap {"failed", "blocked"} # {} THEN "blocked"
              ELSE "decomposed"
    BY DEF Atomic!rollup, LX, LY
  <2>2. QED
    BY <1>1, <1>2, <1>3, <1>4, <2>1

\* A pass changes ancestors only, from and to a state of the rollup rule.
LEMMA RollupEffect ==
  ASSUME NEW st \in [Rows -> States], NEW t \in Rows, NEW res \in Atomic!rollup_from(st, t),
         NEW r \in Rows, res[r] # st[r]
  PROVE  /\ r \in Atomic!above(t)
         /\ st[r] \in {"decomposed", "blocked"} /\ res[r] \in Atomic!RollupStates
<1>1. PICK g \in UNION {[C -> Atomic!RollupStates] : C \in SUBSET Atomic!above(t)} :
        res = [n \in Rows |-> IF n \in DOMAIN g THEN g[n] ELSE st[n]]
  BY DEF Atomic!rollup_from
<1>2. DOMAIN g \subseteq Atomic!above(t) /\ \A n \in DOMAIN g : g[n] \in Atomic!RollupStates
  BY <1>1
<1>3. r \in Atomic!above(t) /\ res[r] \in Atomic!RollupStates
  BY <1>1, <1>2
<1>4. res[r] = IF Atomic!reached(st, res, t, r)
               THEN Atomic!rollup(st[r], {res[c] : c \in Atomic!kids(res, r)}) ELSE st[r]
  BY <1>3 DEF Atomic!rollup_from
<1>5. \A X : st[r] \notin {"decomposed", "blocked"} => Atomic!rollup(st[r], X) = st[r]
  BY DEF Atomic!rollup
<1>6. QED
  BY <1>3, <1>4, <1>5

\* A pass comes out the same when rows outside it move between active states.
LEMMA RollupFrame ==
  ASSUME NEW st \in [Rows -> States], NEW st2 \in [Rows -> States], NEW t \in Rows,
         NEW T \in SUBSET Rows, Atomic!above(t) \subseteq T,
         \A r \in T : st2[r] = st[r],
         \A r \in Rows : st2[r] = st[r] \/ (st[r] \in Active /\ st2[r] \in Active),
         NEW res \in Atomic!rollup_from(st, t)
  PROVE  [r \in Rows |-> IF r \in T THEN res[r] ELSE st2[r]] \in Atomic!rollup_from(st2, t)
<1>. DEFINE res2 == [r \in Rows |-> IF r \in T THEN res[r] ELSE st2[r]]
<1>1. PICK g \in UNION {[C -> Atomic!RollupStates] : C \in SUBSET Atomic!above(t)} :
        res = [n \in Rows |-> IF n \in DOMAIN g THEN g[n] ELSE st[n]]
  BY DEF Atomic!rollup_from
<1>2. DOMAIN g \subseteq Atomic!above(t)
  BY <1>1
<1>3. res2 = [n \in Rows |-> IF n \in DOMAIN g THEN g[n] ELSE st2[n]]
  BY <1>1, <1>2
<1>4. \A a \in Atomic!above(t) : a \in Rows /\ res2[a] = res[a] /\ st2[a] = st[a]
  BY OwnLineage DEF Atomic!above
<1>5. \A r \in Rows : res2[r] = res[r] \/ (res[r] \in Active /\ res2[r] \in Active)
  <2>1. ASSUME NEW r \in Rows, r \notin T
        PROVE  res[r] = st[r] /\ res2[r] = st2[r]
    BY <1>1, <1>2, <2>1
  <2>2. QED
    BY <2>1
<1>6. ASSUME NEW a \in Atomic!above(t)
      PROVE  res2[a] = IF Atomic!reached(st2, res2, t, a)
                       THEN Atomic!rollup(st2[a], {res2[c] : c \in Atomic!kids(res2, a)})
                       ELSE st2[a]
  <2>. DEFINE X == {res[c] : c \in Atomic!kids(res, a)}
              Y == {res2[c] : c \in Atomic!kids(res2, a)}
  <2>1. res[a] = IF Atomic!reached(st, res, t, a) THEN Atomic!rollup(st[a], X) ELSE st[a]
    BY <1>6 DEF Atomic!rollup_from
  <2>2. Atomic!reached(st, res, t, a) <=> Atomic!reached(st2, res2, t, a)
    <3>. HIDE DEF res2
    <3>. QED BY <1>4 DEF Atomic!reached
  <2>3. Absent \notin Active
    BY TreeAssumption DEF Active, TaskState
  <2>4. Atomic!kids(res, a) = Atomic!kids(res2, a) /\ Atomic!kids(res, a) \subseteq Rows
    <3>. HIDE DEF res2
    <3>. QED BY <1>5, <2>3 DEF Atomic!kids
  <2>5. X \ Active = Y \ Active /\ (X \cap Active = {} <=> Y \cap Active = {})
    <3>. HIDE DEF res2
    <3>1. \A c \in Atomic!kids(res, a) : res2[c] = res[c] \/ (res[c] \in Active /\ res2[c] \in Active)
      BY <1>5, <2>4
    <3>2. QED
      BY <2>4, <3>1
  <2>6. Atomic!rollup(st[a], X) = Atomic!rollup(st[a], Y)
    <3>. HIDE DEF X, Y
    <3>. QED BY <2>5, RollupBenign
  <2>7. QED
    BY <1>4, <2>1, <2>2, <2>6
<1>7. QED
  <2>. HIDE DEF res2
  <2>1. res2 \in {[n \in Rows |-> IF n \in DOMAIN h THEN h[n] ELSE st2[n]] :
                   h \in UNION {[C -> Atomic!RollupStates] : C \in SUBSET Atomic!above(t)}}
    BY <1>1, <1>3
  <2>2. res2 \in Atomic!rollup_from(st2, t)
    BY <1>6, <2>1 DEF Atomic!rollup_from
  <2>3. QED
    BY <2>2 DEF res2

\* The protocols whose result is a pass over the rows they have set.
PassBase(o, t, st, S) ==
  CASE o \in {"plan_reject", "plan_capped"} -> Atomic!set(st, {t}, "blocked")
    [] o = "merged" -> Atomic!set(st, {t}, "done")
    [] o \in {"fail", "closed"} -> Atomic!set(Atomic!set(st, S, "blocked"), {t}, "failed")
    [] o = "retry" -> Atomic!set(st, {t}, "ready")
    [] o = "cancel" -> Atomic!set(st, {n \in S : ~Atomic!is_terminal(st[n])}, "cancelled")

Passing == {"plan_reject", "plan_capped", "merged", "fail", "closed", "retry", "cancel"}

\* Their result is what the pass makes of those.
LEMMA PassResult ==
  ASSUME NEW o \in Passing, NEW t, NEW st, NEW S
  PROVE  Atomic!result(o, t, st, S) = Atomic!rollup_from(PassBase(o, t, st, S), t)
BY DEF Atomic!result, PassBase, Passing

\* What is set before the pass: the row, and those listed.
LEMMA PassBaseAt ==
  ASSUME NEW o \in Passing, NEW t \in Rows, NEW st \in [Rows -> States], NEW S
  PROVE  /\ PassBase(o, t, st, S) \in [Rows -> States]
         /\ \A r \in Rows : PassBase(o, t, st, S)[r] # st[r] =>
              /\ r = t \/ r \in S
              /\ PassBase(o, t, st, S)[r] \in TaskState
              /\ o = "cancel" => r \in S /\ ~Atomic!is_terminal(st[r])
         /\ \A r \in Rows : r # t /\ r \notin S => PassBase(o, t, st, S)[r] = st[r]
         /\ \A st2 \in [Rows -> States] : \A r \in Rows :
              (r = t \/ r \in S) /\ st2[r] = st[r] =>
                PassBase(o, t, st2, S)[r] = PassBase(o, t, st, S)[r]
<1>1. {"ready", "blocked", "done", "failed", "cancelled"} \subseteq TaskState
  BY DEF TaskState
<1>2. CASE o \in {"plan_reject", "plan_capped"}
  BY <1>1, <1>2 DEF PassBase, Atomic!set, States
<1>3. CASE o = "merged"
  BY <1>1, <1>3 DEF PassBase, Atomic!set, States
<1>4. CASE o \in {"fail", "closed"}
  BY <1>1, <1>4 DEF PassBase, Atomic!set, States
<1>5. CASE o = "retry"
  BY <1>1, <1>5 DEF PassBase, Atomic!set, States
<1>6. CASE o = "cancel"
  BY <1>1, <1>6 DEF PassBase, Atomic!set, States
<1>7. QED
  BY <1>2, <1>3, <1>4, <1>5, <1>6 DEF Passing

\* The result of every other protocol, row by row.
PlainAt(o, t, st, S, r) ==
  CASE o = "plan_start" -> IF r = t THEN "decomposing" ELSE st[r]
    [] o = "plan_needs_info" -> IF r = t THEN "awaiting_approval" ELSE st[r]
    [] o = "decompose" -> IF r = t THEN "decomposed"
                          ELSE IF r \in Atomic!slots(t) /\ st[r] = Absent
                               THEN IF r \in Gated THEN "awaiting_approval" ELSE "ready"
                          ELSE st[r]
    [] o = "claim" -> IF r = t THEN "claimed" ELSE st[r]
    [] o = "start" -> IF r = t THEN "running" ELSE st[r]
    [] o = "complete" -> IF r = t THEN "in_review" ELSE st[r]
    [] o = "replan" -> IF r = t THEN "decomposing"
                       ELSE IF r \in S /\ ~Atomic!is_terminal(st[r]) THEN "superseded"
                       ELSE st[r]
    [] o = "approve_children" -> IF r \in S THEN "ready" ELSE st[r]
    [] OTHER -> IF r = t THEN IF o = "mark_leaf" /\ t \in Gated
                              THEN "awaiting_approval" ELSE "ready"
                ELSE st[r]

\* The results that no pass follows.
LEMMA PlainResult ==
  ASSUME NEW o, o \notin Passing, NEW t \in Rows, NEW st \in [Rows -> States],
         NEW S \in SUBSET Rows
  PROVE  Atomic!result(o, t, st, S) = {[r \in Rows |-> PlainAt(o, t, st, S, r)]}
<1>1. CASE o = "plan_start"
  BY <1>1 DEF Atomic!result, PlainAt, Atomic!set
<1>2. CASE o = "decompose"
  <2>. DEFINE I == Atomic!slots(t) \ Atomic!kids(st, t)
  <2>1. \A r \in Rows : r \in I <=> r \in Atomic!slots(t) /\ st[r] = Absent
    BY DEF Atomic!slots, Atomic!kids
  <2>2. Atomic!result(o, t, st, S) =
          {Atomic!set(Atomic!set(Atomic!set(st, I, "ready"), I \cap Gated, "awaiting_approval"),
                      {t}, "decomposed")}
    BY <1>2 DEF Atomic!result
  <2>. HIDE DEF I
  <2>3. Atomic!set(Atomic!set(Atomic!set(st, I, "ready"), I \cap Gated, "awaiting_approval"),
                   {t}, "decomposed")
          = [r \in Rows |-> PlainAt(o, t, st, S, r)]
    BY <1>2, <2>1 DEF PlainAt, Atomic!set
  <2>4. QED
    BY <2>2, <2>3
<1>3. CASE o = "claim"
  BY <1>3 DEF Atomic!result, PlainAt, Atomic!set
<1>4. CASE o = "start"
  BY <1>4 DEF Atomic!result, PlainAt, Atomic!set
<1>5. CASE o = "complete"
  BY <1>5 DEF Atomic!result, PlainAt, Atomic!set
<1>6. CASE o = "replan"
  BY <1>6 DEF Atomic!result, PlainAt, Atomic!set
<1>7. CASE o = "approve_children"
  BY <1>7 DEF Atomic!result, PlainAt, Atomic!set
<1>8. CASE o = "plan_needs_info"
  BY <1>8 DEF Atomic!result, PlainAt, Atomic!set
<1>9. CASE o \notin {"plan_start", "plan_needs_info", "decompose", "claim", "start", "complete",
                      "replan", "approve_children"}
  BY <1>9 DEF Atomic!result, PlainAt, Atomic!set, Passing
<1>10. QED
  BY <1>1, <1>2, <1>3, <1>4, <1>5, <1>6, <1>7, <1>8, <1>9

\* What a protocol does to the rows it owns depends on no other row, except through
\* the states of children in a rollup, and there active ones count as one.
LEMMA ResultFrame ==
  ASSUME NEW o, NEW t \in Rows, NEW S \in SUBSET Rows,
         NEW st \in [Rows -> States], NEW st2 \in [Rows -> States],
         NEW T \in SUBSET Rows, t \in T, S \subseteq T,
         o = "decompose" => \A c \in Atomic!slots(t) \ T : st2[c] # Absent,
         o \in Passing => Atomic!above(t) \subseteq T,
         \A r \in T : st2[r] = st[r],
         o \in Passing =>
           \A r \in Rows : st2[r] = st[r] \/ (st[r] \in Active /\ st2[r] \in Active),
         NEW res \in Atomic!result(o, t, st, S)
  PROVE  [r \in Rows |-> IF r \in T THEN res[r] ELSE st2[r]] \in Atomic!result(o, t, st2, S)
<1>1. CASE o \in Passing
  <2>. DEFINE b == PassBase(o, t, st, S)
              b2 == PassBase(o, t, st2, S)
  <2>1. b \in [Rows -> States] /\ b2 \in [Rows -> States]
    BY <1>1, PassBaseAt
  <2>2. \A r \in Rows : r = t \/ r \in S => b2[r] = b[r]
    BY <1>1, PassBaseAt
  <2>3. \A r \in Rows : r # t /\ r \notin S => b[r] = st[r] /\ b2[r] = st2[r]
    BY <1>1, PassBaseAt
  <2>4. res \in Atomic!rollup_from(b, t)
    BY <1>1, PassResult
  <2>5. Atomic!result(o, t, st2, S) = Atomic!rollup_from(b2, t)
    BY <1>1, PassResult
  <2>. HIDE DEF b, b2
  <2>6. \A r \in T : b2[r] = b[r]
    BY <2>2, <2>3
  <2>7. \A r \in Rows : b2[r] = b[r] \/ (b[r] \in Active /\ b2[r] \in Active)
    BY <1>1, <2>2, <2>3
  <2>8. [r \in Rows |-> IF r \in T THEN res[r] ELSE b2[r]] \in Atomic!rollup_from(b2, t)
    BY <1>1, <2>1, <2>4, <2>6, <2>7, RollupFrame
  <2>9. [r \in Rows |-> IF r \in T THEN res[r] ELSE b2[r]]
          = [r \in Rows |-> IF r \in T THEN res[r] ELSE st2[r]]
    BY <2>3
  <2>10. QED
    BY <2>5, <2>8, <2>9
<1>2. CASE o \notin Passing
  <2>1. res = [r \in Rows |-> PlainAt(o, t, st, S, r)]
    BY <1>2, PlainResult
  <2>2. Atomic!result(o, t, st2, S) = {[r \in Rows |-> PlainAt(o, t, st2, S, r)]}
    BY <1>2, PlainResult
  <2>3. ASSUME NEW r \in T
        PROVE  PlainAt(o, t, st2, S, r) = PlainAt(o, t, st, S, r)
    <3>1. st2[r] = st[r]
      OBVIOUS
    <3>2. QED
      BY <3>1 DEF PlainAt
  <2>4. ASSUME NEW r \in Rows, r \notin T
        PROVE  PlainAt(o, t, st2, S, r) = st2[r]
    <3>1. r # t /\ r \notin S /\ (o = "decompose" /\ r \in Atomic!slots(t) => st2[r] # Absent)
      BY <2>4
    <3>2. QED
      BY <3>1 DEF PlainAt
  <2>5. [r \in Rows |-> IF r \in T THEN res[r] ELSE st2[r]]
          = [r \in Rows |-> PlainAt(o, t, st2, S, r)]
    BY <2>1, <2>3, <2>4
  <2>6. QED
    BY <2>2, <2>5
<1>3. QED
  BY <1>1, <1>2

\* What a protocol may change, and how.
Effect(o, t, st, S, r, s) ==
  /\ \/ r = t \/ r \in S
     \/ o \in Passing /\ r \in Atomic!above(t)
     \/ o = "decompose" /\ r \in Atomic!slots(t) /\ st[r] = Absent
  /\ st[r] # "done" /\ s # Absent
  /\ o # "decompose" => st[r] # Absent
  /\ o \notin Rolling \cup {"decompose"} =>
       st[r] \in Active /\ s \in Active \ {"decomposing"}

\* A protocol whose check holds changes its row, those it listed, what the pass reaches
\* and the slots it fills; never a row that is done, and without the locks on the
\* ancestors only between active states.
LEMMA ResultEffect ==
  ASSUME NEW o \in Ops, NEW t \in Rows, NEW S \in SUBSET Rows, NEW lf,
         NEW st \in [Rows -> States],
         Atomic!needs(o, t, st, lf), S \subseteq Atomic!others(o, t, st),
         NEW res \in Atomic!result(o, t, st, S), NEW r \in Rows, res[r] # st[r]
  PROVE  Effect(o, t, st, S, r, res[r])
<1>0. /\ Absent \notin TaskState
      /\ {"ready", "decomposing", "decomposed", "claimed", "running", "in_review", "blocked",
          "done", "failed", "cancelled", "superseded", "awaiting_approval"} \subseteq TaskState
  BY TreeAssumption DEF TaskState
<1>1. CASE o \in Passing
  <2>. DEFINE b == PassBase(o, t, st, S)
  <2>1. b \in [Rows -> States] /\ res \in Atomic!rollup_from(b, t)
    BY <1>1, PassBaseAt, PassResult
  <2>2. ASSUME b[r] # st[r]
        PROVE  /\ r = t \/ r \in S
               /\ b[r] \in TaskState /\ st[r] # "done" /\ st[r] # Absent
    <3>1. /\ r = t \/ r \in S
          /\ b[r] \in TaskState
          /\ o = "cancel" => r \in S /\ ~Atomic!is_terminal(st[r])
      BY <1>1, <2>2, PassBaseAt
    <3>2. CASE o = "cancel"
      <4>1. r \in Atomic!below(st, t)
        BY <3>1, <3>2 DEF Atomic!others
      <4>2. QED
        BY <3>1, <3>2, <4>1 DEF Atomic!below, Atomic!is_terminal
    <3>3. CASE r = t /\ o # "cancel"
      BY <1>0, <1>1, <3>1, <3>3 DEF Passing, Atomic!needs
    <3>4. CASE r \in S /\ o # "cancel"
      <4>1. st[r] = "ready"
        BY <1>1, <3>4 DEF Passing, Atomic!others
      <4>2. QED
        BY <1>0, <3>1, <4>1
    <3>5. QED
      BY <3>1, <3>2, <3>3, <3>4
  <2>3. ASSUME res[r] # b[r]
        PROVE  r \in Atomic!above(t) /\ b[r] \in {"decomposed", "blocked"} /\ res[r] \in TaskState
    <3>. HIDE DEF b
    <3>1. /\ r \in Atomic!above(t)
          /\ b[r] \in {"decomposed", "blocked"} /\ res[r] \in Atomic!RollupStates
      BY <2>1, <2>3, RollupEffect
    <3>2. QED
      BY <1>0, <3>1 DEF Atomic!RollupStates
  <2>4. o \in Rolling /\ o # "decompose"
    BY <1>1 DEF Passing, Rolling
  <2>5. QED
    <3>. HIDE DEF b
    <3>1. st[r] # "done" /\ st[r] # Absent /\ res[r] # Absent
      BY <1>0, <2>2, <2>3
    <3>2. QED
      BY <1>1, <2>2, <2>3, <2>4, <3>1 DEF Effect
<1>2. CASE o \notin Passing
  <2>1. res[r] = PlainAt(o, t, st, S, r)
    BY <1>2, PlainResult
  <2>2. CASE o = "plan_start"
    BY <1>0, <2>1, <2>2 DEF PlainAt, Effect, Atomic!needs, Rolling
  <2>3. CASE o = "decompose"
    BY <1>0, <2>1, <2>3 DEF PlainAt, Effect, Atomic!needs
  <2>4. CASE o = "claim"
    BY <1>0, <2>1, <2>4 DEF PlainAt, Effect, Atomic!needs, Active
  <2>5. CASE o = "start"
    BY <1>0, <2>1, <2>5 DEF PlainAt, Effect, Atomic!needs, Active
  <2>6. CASE o = "complete"
    BY <1>0, <2>1, <2>6 DEF PlainAt, Effect, Atomic!needs, Active
  <2>7. CASE o = "replan"
    <3>1. r \in S => r \in Atomic!below(st, t)
      BY <2>7 DEF Atomic!others
    <3>2. st[t] \in {"decomposed", "blocked"}
      BY <2>7 DEF Atomic!needs
    <3>3. QED
      BY <1>0, <2>1, <2>7, <3>1, <3>2
         DEF PlainAt, Effect, Rolling, Atomic!below, Atomic!is_terminal
  <2>8. CASE o = "approve_children"
    <3>1. r \in S => st[r] = "awaiting_approval"
      BY <2>8 DEF Atomic!others
    <3>2. QED
      BY <1>0, <2>1, <2>8, <3>1 DEF PlainAt, Effect, Active
  <2>9. CASE o \in {"mark_leaf", "approve", "answer", "reap", "reap_decomposing",
                    "plan_needs_info", "plan_error"}
    <3>1. r = t /\ res[r] \in {"awaiting_approval", "ready"}
      BY <2>1, <2>9 DEF PlainAt
    <3>2. st[t] \in {"decomposing", "awaiting_approval", "claimed", "running"}
      BY <2>9 DEF Atomic!needs, Atomic!is_leased
    <3>3. QED
      BY <1>0, <2>9, <3>1, <3>2 DEF Effect, Active
  <2>10. QED
    BY <1>2, <2>2, <2>3, <2>4, <2>5, <2>6, <2>7, <2>8, <2>9, OpsAssumption
       DEF Rolling, SkipLocked, Passing
<1>3. QED
  BY <1>1, <1>2

\* Locks are kept to the end of the transaction.
LEMMA HoldsAllKept ==
  ASSUME TxInv, \A y \in Txs : HoldsAll(y), NEW x \in Txs,
         \/ \E o \in Ops, t \in Rows : begin(x, o, t) \/ begin_skip_locked(x, o, t)
         \/ take_lock(x) \/ check(x) \/ write(x) \/ commit(x) \/ rollback(x)
  PROVE  \A y \in Txs : HoldsAll(y)'
<1>1. ASSUME NEW y \in Txs \ {x}
      PROVE  HoldsAll(y)'
  <2>1. Untouched(y)
    BY OneAtATime DEF TxInv
  <2>2. HoldsAll(y) /\ node[y] \in Rows /\ seen[y] \in SUBSET Rows
    BY DEF TxInv, TxTypes
  <2>3. \A a \in Lineage[node[y]] : a \in Rows
    BY <2>2, OwnLineage
  <2>4. QED
    BY <2>1, <2>2, <2>3 DEF Untouched, HoldsAll
<1>2. ASSUME NEW o \in Ops, NEW t \in Rows, begin(x, o, t)
      PROVE  HoldsAll(x)'
  <2>1. phase'[x] = "lock" /\ seen'[x] = {}
    BY <1>2 DEF begin, TxInv, TxTypes, TxOK, IdleHoldsNothing, HoldsAll
  <2>2. QED
    BY <2>1 DEF HoldsAll
<1>3. ASSUME NEW o \in Ops, NEW t \in Rows, begin_skip_locked(x, o, t)
      PROVE  HoldsAll(x)'
  <2>1. /\ phase'[x] = "commit" /\ seen'[x] = {} /\ node'[x] = t /\ op'[x] = o
        /\ x \in update'[t]
    BY <1>3 DEF begin_skip_locked, TxInv, TxTypes, TxOK, IdleHoldsNothing, HoldsAll
  <2>2. o \notin Rolling
    BY <1>3 DEF begin_skip_locked, Rolling, SkipLocked
  <2>3. QED
    BY <2>1, <2>2 DEF HoldsAll
<1>4. ASSUME take_lock(x)
      PROVE  HoldsAll(x)'
  <2>. DEFINE r == next_lock(x)
  <2>1. r \in todo[x] /\ r \in Rows
    BY <1>4, NextLockIsFirst DEF take_lock, TxInv
  <2>2. /\ op'[x] = op[x] /\ node'[x] = node[x] /\ phase'[x] = phase[x] /\ seen'[x] = seen[x]
        /\ todo'[x] = todo[x] \ {r}
    BY <1>4 DEF take_lock, TxInv, TxTypes
  <2>3. HoldsAll(x) /\ node[x] \in Rows /\ seen[x] \in SUBSET Rows
    BY DEF TxInv, TxTypes
  <2>4. \A a \in Lineage[node[x]] : a \in Rows
    BY <2>3, OwnLineage
  <2>5. \A a \in Rows : x \in update[a] => x \in update'[a]
    BY <1>4, <2>1 DEF take_lock, TxInv, TxTypes
  <2>6. phase[x] = "more" => x \in update'[r]
    BY <1>4, <2>1 DEF take_lock, mode, TxInv, TxTypes
  <2>. HIDE DEF r
  <2>7. QED
    BY <2>1, <2>2, <2>3, <2>4, <2>5, <2>6 DEF HoldsAll
<1>5. ASSUME check(x)
      PROVE  HoldsAll(x)'
  <2>1. TxOK(x)'
    BY <1>5, CheckOK
  <2>2. /\ op'[x] = op[x] /\ node'[x] = node[x] /\ phase'[x] = "more"
        /\ todo'[x] = seen'[x] \ {node[x]}
    BY <1>5 DEF check, TxInv, TxTypes
  <2>3. /\ \A a \in first_locks(op'[x], node'[x]) : x \in update'[a]
        /\ \A n \in seen'[x] : Listable(op'[x], node'[x], n)
    BY <2>1, <2>2 DEF TxOK, SecondPart
  <2>4. /\ x \in update'[node'[x]]
        /\ op'[x] \in Rolling => \A a \in Lineage[node'[x]] : x \in update'[a]
    BY <2>3 DEF first_locks, lock_ancestors, Atomic!above
  <2>5. \A n \in seen'[x] : x \in update'[n] \/ n \in todo'[x]
    BY <2>2, <2>4
  <2>6. QED
    BY <2>2, <2>3, <2>4, <2>5 DEF HoldsAll
<1>6. ASSUME write(x)
      PROVE  HoldsAll(x)'
  <2>1. /\ op'[x] = op[x] /\ node'[x] = node[x] /\ phase'[x] = "commit" /\ seen'[x] = seen[x]
        /\ update' = update /\ phase[x] = "more" /\ todo[x] = {}
    BY <1>6 DEF write, TxInv, TxTypes
  <2>2. QED
    BY <2>1 DEF HoldsAll
<1>7. ASSUME commit(x) \/ rollback(x)
      PROVE  HoldsAll(x)'
  <2>1. phase'[x] = "lock" /\ seen'[x] = {}
    BY <1>7 DEF commit, rollback, release, TxInv, TxTypes
  <2>2. QED
    BY <2>1 DEF HoldsAll
<1>8. QED
  BY <1>1, <1>2, <1>3, <1>4, <1>5, <1>6, <1>7

-----------------------------------------------------------------------------
(* What a commit leaves alone. *)

\* The rows a commit changes are its own, and it changes them as its protocol may.
LEMMA CommitEffect ==
  ASSUME SerInv, NEW x \in Txs, commit(x), NEW r \in Rows, rows'[r] # rows[r]
  PROVE  /\ Effect(op[x], node[x], rows, seen[x], r, rows'[r])
         /\ \/ x \in update[r]
            \/ op[x] = "decompose" /\ rows[r] = Absent /\ r # Root /\ Parent[r] = node[x]
<1>1. rows' = Outcome(x) /\ phase[x] = "commit"
  BY DEF commit, Outcome
<1>2. /\ op[x] \in Ops /\ node[x] \in Rows /\ seen[x] \in SUBSET Rows
      /\ rows \in [Rows -> States]
  BY <1>1 DEF SerInv, TxInv, TxTypes, TxOK, LastPart
<1>3. /\ Atomic!needs(op[x], node[x], rows, leafs)
      /\ seen[x] \subseteq Atomic!others(op[x], node[x], rows)
      /\ rows' \in Atomic!result(op[x], node[x], rows, seen[x])
  BY <1>1 DEF SerInv, Checked, Written
<1>4. Effect(op[x], node[x], rows, seen[x], r, rows'[r])
  BY <1>2, <1>3, ResultEffect
<1>5. r \in DOMAIN new[x]
  BY <1>1 DEF Outcome
<1>6. QED
  BY <1>1, <1>4, <1>5 DEF SerInv, Written

\* A row that another transaction holds is not changed, unless it is not there yet.
LEMMA HeldUnchanged ==
  ASSUME SerInv, NEW x \in Txs, commit(x), NEW y \in Txs \ {x}, NEW r \in Rows,
         y \in update[r], rows[r] # Absent
  PROVE  rows'[r] = rows[r]
<1>1. ASSUME rows'[r] # rows[r]
      PROVE  FALSE
  <2>1. x \in update[r]
    BY <1>1, CommitEffect
  <2>2. QED
    BY <2>1, NotTwice DEF SerInv
<1>2. QED
  BY <1>1

\* Beside a transaction that holds the root, only protocols that lock no ancestor and
\* insert nothing can commit.
LEMMA BesideRoot ==
  ASSUME SerInv, NEW x \in Txs, commit(x), NEW y \in Txs \ {x}, y \in update[Root]
  PROVE  op[x] \notin Rolling /\ op[x] # "decompose"
<1>1. phase[x] = "commit" /\ todo[x] = {} /\ node[x] \in Rows
  BY DEF commit, SerInv, TxInv, TxTypes
<1>2. x \notin update[Root] /\ x \notin share[Root]
  BY TreeAssumption DEF SerInv, TxInv, Exclusive
<1>3. op[x] \notin Rolling
  <2>1. Root \in Lineage[node[x]]
    BY <1>1, TreeAssumption
  <2>2. QED
    BY <1>1, <1>2, <2>1 DEF SerInv, HoldsAll
<1>4. op[x] # "decompose"
  BY <1>1, <1>2 DEF SerInv, TxInv, TxOK, LastPart
<1>5. QED
  BY <1>3, <1>4

\* So beside it, rows move between active states only.
LEMMA BesideRootActive ==
  ASSUME SerInv, NEW x \in Txs, commit(x), NEW y \in Txs \ {x}, y \in update[Root],
         NEW r \in Rows, rows'[r] # rows[r]
  PROVE  rows[r] \in Active /\ rows'[r] \in Active \ {"decomposing"}
<1>1. op[x] \notin Rolling /\ op[x] # "decompose"
  BY BesideRoot
<1>2. Effect(op[x], node[x], rows, seen[x], r, rows'[r])
  BY CommitEffect
<1>3. QED
  BY <1>1, <1>2 DEF Effect

\* The children of a row that another transaction holds are neither inserted nor
\* removed by a commit.
LEMMA KidsKept ==
  ASSUME SerInv, NEW x \in Txs, commit(x), NEW y \in Txs \ {x}, NEW t \in Rows,
         y \in update[t]
  PROVE  Atomic!kids(rows', t) = Atomic!kids(rows, t)
<1>1. ASSUME NEW c \in Rows \ {Root}, Parent[c] = t
      PROVE  rows'[c] = Absent <=> rows[c] = Absent
  <2>1. CASE rows'[c] = rows[c]
    BY <2>1
  <2>2. CASE rows'[c] # rows[c]
    <3>1. Effect(op[x], node[x], rows, seen[x], c, rows'[c])
      BY <2>2, CommitEffect
    <3>2. rows'[c] # Absent
      BY <3>1 DEF Effect
    <3>3. ASSUME rows[c] = Absent
          PROVE  FALSE
      <4>1. op[x] = "decompose"
        BY <3>1, <3>3 DEF Effect
      <4>2. phase[x] = "commit" /\ node[x] \in Rows
        BY DEF commit, SerInv, TxInv, TxTypes
      <4>3. x \in update[node[x]]
        BY <4>2 DEF SerInv, HoldsAll
      <4>4. Atomic!needs(op[x], node[x], rows, leafs) /\ seen[x] = {}
        <5>1. Atomic!needs(op[x], node[x], rows, leafs)
          BY <4>2 DEF SerInv, Checked
        <5>2. seen[x] \subseteq Atomic!others(op[x], node[x], rows)
          BY <4>2 DEF SerInv, Written
        <5>3. QED
          BY <4>1, <5>1, <5>2 DEF Atomic!others
      <4>5. rows[node[x]] # Absent
        BY <4>1, <4>4, TreeAssumption DEF Atomic!needs, TaskState
      <4>6. Parent[c] = node[x]
        BY <3>1, <3>3, <4>1, <4>4, <4>5 DEF Effect, Atomic!slots, Passing
      <4>7. QED
        BY <1>1, <4>3, <4>6, NotTwice DEF SerInv
    <3>4. QED
      BY <3>2, <3>3
  <2>3. QED
    BY <2>1, <2>2
<1>2. QED
  BY <1>1 DEF Atomic!kids

\* Every check asks that the row is there.
LEMMA NeedsRow ==
  ASSUME NEW o \in Ops, NEW t, NEW st, NEW lf, Atomic!needs(o, t, st, lf)
  PROVE  st[t] # Absent
<1>1. Absent \notin {"ready", "decomposing", "awaiting_approval", "claimed", "running",
                     "in_review", "failed", "blocked", "decomposed"}
  BY TreeAssumption DEF TaskState
<1>2. CASE o \in {"approve_children", "cancel"}
  BY <1>2 DEF Atomic!needs
<1>3. CASE o \in {"plan_start", "plan_capped", "claim", "decompose", "mark_leaf", "plan_reject",
                  "plan_needs_info", "plan_error", "approve", "answer"}
  BY <1>1, <1>3 DEF Atomic!needs
<1>4. CASE o \in {"reap", "reap_decomposing", "start", "complete", "fail"}
  BY <1>1, <1>4 DEF Atomic!needs, Atomic!is_leased
<1>5. CASE o \in {"merged", "closed", "retry", "replan"}
  BY <1>1, <1>5 DEF Atomic!needs
<1>6. QED
  BY <1>2, <1>3, <1>4, <1>5, OpsAssumption DEF Rolling, SkipLocked

\* What a transaction past its check can rely on.
LEMMA PastCheck ==
  ASSUME SerInv, NEW y \in Txs, phase[y] \in {"more", "commit"}
  PROVE  /\ op[y] \in Ops /\ node[y] \in Rows /\ seen[y] \in SUBSET Rows
         /\ y \in update[node[y]] /\ rows[node[y]] # Absent
         /\ op[y] \in Rolling => y \in update[Root] /\ \A a \in Lineage[node[y]] : y \in update[a]
<1>1. op[y] \in Ops /\ node[y] \in Rows /\ seen[y] \in SUBSET Rows
  BY DEF SerInv, TxInv, TxTypes, TxOK, LastPart, SecondPart
<1>2. Root \in Lineage[node[y]]
  BY <1>1, TreeAssumption
<1>3. rows[node[y]] # Absent
  BY <1>1, NeedsRow DEF SerInv, Checked
<1>4. QED
  BY <1>1, <1>2, <1>3 DEF SerInv, HoldsAll

\* A check that has passed holds until the transaction ends.
LEMMA NeedsKept ==
  ASSUME SerInv, NEW x \in Txs, commit(x), NEW y \in Txs \ {x}, phase[y] \in {"more", "commit"}
  PROVE  Atomic!needs(op[y], node[y], rows', leafs')
<1>. DEFINE t == node[y]
<1>1. /\ op[y] \in Ops /\ t \in Rows /\ y \in update[t] /\ rows[t] # Absent
  BY PastCheck
<1>2. Atomic!needs(op[y], t, rows, leafs)
  BY DEF SerInv, Checked
<1>3. rows'[t] = rows[t]
  BY <1>1, HeldUnchanged
<1>4. Atomic!kids(rows', t) = Atomic!kids(rows, t)
  BY <1>1, KidsKept
<1>5. t \in leafs' <=> t \in leafs
  <2>1. phase[x] = "commit" /\ leafs' = leafs \cup Atomic!new_leafs(op[x], node[x])
    BY DEF commit
  <2>2. x \in update[node[x]] /\ node[x] \in Rows
    BY <2>1, PastCheck
  <2>3. t # node[x]
    BY <1>1, <2>2, NotTwice DEF SerInv
  <2>4. QED
    BY <2>1, <2>3 DEF Atomic!new_leafs
<1>6. \A d \in Deps[t] : rows[d] = "done" => rows'[d] = "done"
  <2>1. ASSUME NEW d \in Rows, rows[d] = "done", rows'[d] # rows[d]
        PROVE  FALSE
    BY <2>1, CommitEffect DEF Effect
  <2>2. \A d \in Deps[t] : d \in Rows
    BY <1>1, TreeAssumption
  <2>3. QED
    BY <2>1, <2>2
<1>. HIDE DEF t
<1>7. Atomic!needs(op[y], t, rows', leafs')
  <2>1. CASE op[y] = "claim"
    BY <1>2, <1>3, <1>5, <1>6, <2>1 DEF Atomic!needs
  <2>2. CASE op[y] \in {"plan_start", "plan_capped", "plan_reject", "plan_needs_info",
                        "plan_error", "approve", "answer", "approve_children", "reap",
                        "reap_decomposing", "start", "complete"}
    BY <1>2, <1>3, <1>5, <2>2 DEF Atomic!needs
  <2>3. CASE op[y] \in {"fail", "merged", "closed", "retry", "cancel", "replan"}
    BY <1>2, <1>3, <1>5, <2>3 DEF Atomic!needs
  <2>4. CASE op[y] \in {"decompose", "mark_leaf"}
    BY <1>2, <1>3, <1>4, <2>4 DEF Atomic!needs
  <2>5. QED
    BY <1>1, <2>1, <2>2, <2>3, <2>4, OpsAssumption DEF Rolling, SkipLocked
<1>8. QED
  BY <1>7 DEF t

\* Nobody else inserts below a row that is being cancelled or replanned.
LEMMA BelowKept ==
  ASSUME SerInv, NEW x \in Txs, commit(x), NEW y \in Txs \ {x}, phase[y] \in {"more", "commit"},
         op[y] \in {"cancel", "replan"}
  PROVE  Atomic!below(rows', node[y]) = Atomic!below(rows, node[y])
<1>1. y \in update[Root]
  BY PastCheck DEF Rolling
<1>2. Absent \notin Active
  BY TreeAssumption DEF Active, TaskState
<1>3. \A r \in Rows : rows'[r] # Absent <=> rows[r] # Absent
  BY <1>1, <1>2, BesideRootActive
<1>4. QED
  BY <1>3 DEF Atomic!below

\* Whoever changes a child of a row and locks ancestors has locked that row.
LEMMA ParentLocked ==
  ASSUME SerInv, NEW x \in Txs, commit(x), op[x] \in Rolling, NEW n \in Rows \ {Root},
         rows'[n] # rows[n], rows[Parent[n]] # Absent
  PROVE  x \in update[Parent[n]]
<1>1. /\ phase[x] = "commit" /\ node[x] \in Rows
      /\ \A a \in Lineage[node[x]] : x \in update[a]
  BY PastCheck DEF commit
<1>2. Parent[n] \in Rows /\ Parent[n] \in Lineage[n] /\ Lineage[n] = {n} \cup Lineage[Parent[n]]
  BY OwnLineage
<1>3. CASE n \in Lineage[node[x]]
  BY <1>1, <1>2, <1>3, TreeAssumption
<1>4. CASE n \notin Lineage[node[x]]
  <2>1. n # node[x] /\ n \notin Atomic!above(node[x])
    BY <1>1, <1>4, OwnLineage DEF Atomic!above
  <2>2. n \in seen[x]
    <3>1. Effect(op[x], node[x], rows, seen[x], n, rows'[n])
      BY CommitEffect
    <3>2. QED
      BY <2>1, <3>1 DEF Effect, Rolling
  <2>3. Listable(op[x], node[x], n) /\ \A m \in seen[x] : x \in update[m]
    BY <1>1, <2>2 DEF SerInv, HoldsAll
  <2>4. CASE op[x] \in {"cancel", "replan"} /\ node[x] \in Lineage[n]
    <3>1. node[x] \in Lineage[Parent[n]]
      BY <1>2, <2>1, <2>4
    <3>2. Parent[n] \in Atomic!below(rows, node[x])
      BY <1>2, <3>1 DEF Atomic!below
    <3>3. Parent[n] \in seen[x]
      BY <1>1, <2>4, <3>2 DEF SerInv, Checked
    <3>4. QED
      BY <2>3, <3>3
  <2>5. CASE node[x] # Root /\ Parent[n] = Parent[node[x]]
    <3>1. Parent[n] \in Lineage[node[x]]
      BY <1>1, <1>2, <2>5, OwnLineage
    <3>2. QED
      BY <1>1, <3>1
  <2>6. QED
    BY <2>3, <2>4, <2>5 DEF Listable, Rolling
<1>5. QED
  BY <1>3, <1>4

\* A row that was listed stays active: what would take it away needs the lock of the
\* row it was listed under.
LEMMA ListedKept ==
  ASSUME SerInv, NEW x \in Txs, commit(x), NEW y \in Txs \ {x}, phase[y] \in {"more", "commit"},
         op[y] \in Atomic!Listing, NEW n \in seen[y]
  PROVE  rows'[n] \in Active \ {"decomposing"}
<1>1. n \in Rows /\ rows[n] \in Active \ {"decomposing"} /\ Listable(op[y], node[y], n)
  BY PastCheck DEF SerInv, Checked, HoldsAll
<1>2. CASE rows'[n] = rows[n]
  BY <1>1, <1>2
<1>3. CASE rows'[n] # rows[n]
  <2>1. Effect(op[x], node[x], rows, seen[x], n, rows'[n])
    BY <1>1, <1>3, CommitEffect
  <2>2. CASE op[x] \notin Rolling \cup {"decompose"}
    BY <2>1, <2>2 DEF Effect
  <2>3. CASE op[x] = "decompose"
    <3>1. Absent \notin Active
      BY TreeAssumption DEF Active, TaskState
    <3>2. phase[x] = "commit" /\ node[x] \in Rows /\ seen[x] \in SUBSET Rows
      BY PastCheck DEF commit
    <3>3. rows[node[x]] = "decomposing"
      BY <2>3, <3>2 DEF SerInv, Checked, Atomic!needs
    <3>4. n \notin seen[x]
      BY <2>3, <3>2 DEF SerInv, Written, Atomic!others
    <3>5. QED
      BY <1>1, <2>1, <2>3, <3>1, <3>3, <3>4 DEF Effect, Passing
  <2>4. CASE op[x] \in Rolling
    <3>1. CASE op[y] = "approve_children"
      <4>1. n # Root /\ Parent[n] = node[y]
        BY <1>1, <3>1 DEF Listable
      <4>2. y \in update[node[y]] /\ rows[node[y]] # Absent /\ node[y] \in Rows
        BY PastCheck
      <4>3. x \in update[node[y]]
        BY <1>1, <1>3, <2>4, <4>1, <4>2, ParentLocked
      <4>4. QED
        BY <4>2, <4>3, NotTwice DEF SerInv
    <3>2. CASE op[y] \in {"fail", "closed"}
      <4>1. y \in update[Root]
        BY <3>2, PastCheck DEF Rolling
      <4>2. QED
        BY <2>4, <4>1, BesideRoot
    <3>3. QED
      BY <3>1, <3>2 DEF Atomic!Listing
  <2>5. QED
    BY <2>2, <2>3, <2>4
<1>4. QED
  BY <1>2, <1>3

\* What the check of y found is still true after the commit of x.
LEMMA CheckedBeside ==
  ASSUME SerInv, NEW x \in Txs, commit(x), NEW y \in Txs \ {x}
  PROVE  Checked(y)'
<1>1. Untouched(y)
  BY OneAtATime DEF SerInv, TxInv
<1>2. /\ op'[y] = op[y] /\ node'[y] = node[y] /\ phase'[y] = phase[y] /\ seen'[y] = seen[y]
  BY <1>1 DEF Untouched
<1>3. Checked(y)
  BY DEF SerInv
<1>4. CASE phase[y] \in {"more", "commit"}
  <2>1. Atomic!needs(op[y], node[y], rows', leafs')
    BY <1>4, NeedsKept
  <2>2. op[y] \in {"cancel", "replan"} => seen[y] = Atomic!below(rows', node[y])
    BY <1>3, <1>4, BelowKept DEF Checked
  <2>3. op[y] \in Atomic!Listing => \A n \in seen[y] : rows'[n] \in Active \ {"decomposing"}
    BY <1>4, ListedKept
  <2>4. QED
    BY <1>2, <1>3, <1>4, <2>1, <2>2, <2>3 DEF Checked
<1>5. CASE phase[y] \notin {"more", "commit"}
  BY <1>2, <1>5 DEF Checked
<1>6. QED
  BY <1>4, <1>5

\* The rows that y has written are as they were when it wrote them.
LEMMA WrittenUnchanged ==
  ASSUME SerInv, NEW x \in Txs, commit(x), NEW y \in Txs \ {x}, phase[y] = "commit",
         NEW r \in DOMAIN new[y]
  PROVE  r \in Rows /\ rows'[r] = rows[r]
<1>1. new[y] \in Writes /\ rows \in [Rows -> States]
  BY DEF SerInv, TxInv, TxTypes
<1>2. r \in Rows
  BY <1>1 DEF Writes
<1>3. /\ op[y] \in Ops /\ node[y] \in Rows /\ seen[y] \in SUBSET Rows
      /\ y \in update[node[y]] /\ rows[node[y]] # Absent
  BY PastCheck
<1>4. /\ Atomic!needs(op[y], node[y], rows, leafs)
      /\ seen[y] \subseteq Atomic!others(op[y], node[y], rows)
      /\ Outcome(y) \in Atomic!result(op[y], node[y], rows, seen[y])
      /\ new[y][r] # rows[r]
      /\ \/ y \in update[r]
         \/ op[y] = "decompose" /\ rows[r] = Absent /\ r # Root /\ Parent[r] = node[y]
  BY DEF SerInv, Checked, Written
<1>5. Outcome(y)[r] # rows[r]
  BY <1>2, <1>4 DEF Outcome
<1>6. Effect(op[y], node[y], rows, seen[y], r, Outcome(y)[r])
  BY <1>1, <1>2, <1>3, <1>4, <1>5, ResultEffect
<1>7. CASE rows[r] # Absent
  BY <1>2, <1>4, <1>7, HeldUnchanged
<1>8. CASE rows[r] = Absent
  <2>1. op[y] = "decompose"
    BY <1>6, <1>8 DEF Effect
  <2>2. seen[y] = {}
    BY <1>4, <2>1 DEF Atomic!others
  <2>3. r \in Atomic!slots(node[y])
    BY <1>3, <1>6, <1>8, <2>1, <2>2 DEF Effect, Passing
  <2>4. r \notin Atomic!kids(rows, node[y])
    BY <1>8 DEF Atomic!kids
  <2>5. r \notin Atomic!kids(rows', node[y])
    BY <1>3, <2>4, KidsKept
  <2>6. rows'[r] = Absent
    BY <2>3, <2>5 DEF Atomic!kids, Atomic!slots
  <2>7. QED
    BY <1>2, <1>8, <2>6
<1>9. QED
  BY <1>2, <1>7, <1>8

\* What y has written is still what its protocol makes of the rows, after the commit
\* of x.
LEMMA WrittenBeside ==
  ASSUME SerInv, NEW x \in Txs, commit(x), NEW y \in Txs \ {x}
  PROVE  Written(y)'
<1>1. Untouched(y) /\ TxTypes'
  <2>1. Untouched(y)
    BY OneAtATime DEF SerInv, TxInv
  <2>2. Next
    BY DEF Next
  <2>3. QED
    BY <2>1, <2>2, TypesKept DEF SerInv, TxInv
<1>2. /\ op'[y] = op[y] /\ node'[y] = node[y] /\ phase'[y] = phase[y] /\ seen'[y] = seen[y]
      /\ new'[y] = new[y] /\ \A r \in Rows : y \in update'[r] <=> y \in update[r]
  BY <1>1 DEF Untouched
<1>3. SUFFICES ASSUME phase[y] = "commit"
               PROVE  Written(y)'
  BY <1>2 DEF Written
<1>. DEFINE o == op[y]
            t == node[y]
            S == seen[y]
<1>4. /\ o \in Ops /\ t \in Rows /\ S \in SUBSET Rows /\ y \in update[t] /\ rows[t] # Absent
      /\ o \in Rolling => y \in update[Root] /\ \A a \in Lineage[t] : y \in update[a]
  BY <1>3, PastCheck
<1>5. /\ S \subseteq Atomic!others(o, t, rows)
      /\ Outcome(y) \in Atomic!result(o, t, rows, S)
      /\ \A r \in DOMAIN new[y] :
           /\ new[y][r] # rows[r]
           /\ \/ y \in update[r]
              \/ o = "decompose" /\ rows[r] = Absent /\ r # Root /\ Parent[r] = t
  BY <1>3 DEF SerInv, Written
<1>6. \A n \in S : rows[n] # Absent /\ y \in update[n]
  BY <1>3, <1>5 DEF SerInv, HoldsAll, Atomic!others, Atomic!below, Atomic!kids
<1>7. \A n \in S : rows'[n] = rows[n]
  BY <1>4, <1>6, HeldUnchanged
<1>8. \A r \in DOMAIN new[y] : r \in Rows /\ rows'[r] = rows[r]
  BY <1>3, WrittenUnchanged
<1>9. S \subseteq Atomic!others(o, t, rows')
  <2>1. CASE o \in {"cancel", "replan"}
    <3>1. Atomic!below(rows', t) = Atomic!below(rows, t)
      BY <1>3, <2>1, BelowKept
    <3>2. QED
      BY <1>5, <2>1, <3>1 DEF Atomic!others
  <2>2. CASE o = "approve_children"
    BY <1>5, <1>7, <2>2 DEF Atomic!others, Atomic!kids
  <2>3. CASE o \in {"fail", "closed"}
    BY <1>5, <1>7, <2>3 DEF Atomic!others, Atomic!kids
  <2>4. CASE o \notin {"cancel", "replan", "approve_children", "fail", "closed"}
    BY <1>5, <2>4 DEF Atomic!others
  <2>5. QED
    BY <2>1, <2>2, <2>3, <2>4
<1>10. \A r \in DOMAIN new'[y] :
         /\ new'[y][r] # rows'[r]
         /\ \/ y \in update'[r]
            \/ op'[y] = "decompose" /\ rows'[r] = Absent /\ r # Root /\ Parent[r] = node'[y]
  BY <1>2, <1>5, <1>8
<1>11. Outcome(y)' \in Atomic!result(o, t, rows', S)
  <2>. DEFINE T == {r \in Rows : rows'[r] = rows[r]}
              res == Outcome(y)
  <2>1. rows \in [Rows -> States] /\ rows' \in [Rows -> States] /\ T \in SUBSET Rows
    BY <1>1 DEF SerInv, TxInv, TxTypes
  <2>2. t \in T
    BY <1>4, HeldUnchanged
  <2>3. S \subseteq T
    BY <1>4, <1>7
  <2>4. o = "decompose" => \A c \in Atomic!slots(t) \ T : rows'[c] # Absent
    <3>1. Atomic!kids(rows', t) = Atomic!kids(rows, t)
      BY <1>4, KidsKept
    <3>2. \A c \in Atomic!slots(t) : rows'[c] = Absent => rows[c] = Absent
      BY <3>1 DEF Atomic!kids, Atomic!slots
    <3>3. QED
      BY <3>2 DEF Atomic!slots
  <2>5. o \in Passing =>
          \A r \in Rows : rows'[r] = rows[r] \/ (rows[r] \in Active /\ rows'[r] \in Active)
    BY <1>4, BesideRootActive DEF Passing, Rolling
  <2>6. o \in Passing => Atomic!above(t) \subseteq T
    <3>1. ASSUME o \in Passing, NEW a \in Atomic!above(t)
          PROVE  a \in T
      <4>1. a \in Rows /\ y \in update[a]
        BY <1>4, <3>1, OwnLineage DEF Passing, Rolling, Atomic!above
      <4>2. Absent \notin Active
        BY TreeAssumption DEF Active, TaskState
      <4>3. ASSUME rows'[a] # rows[a]
            PROVE  FALSE
        <5>1. rows[a] # Absent
          BY <2>5, <3>1, <4>1, <4>2, <4>3
        <5>2. QED
          BY <4>1, <4>3, <5>1, HeldUnchanged
      <4>4. QED
        BY <4>1, <4>3
    <3>2. QED
      BY <3>1
  <2>7. \A r \in T : rows'[r] = rows[r]
    OBVIOUS
  <2>8. Outcome(y)' = [r \in Rows |-> IF r \in T THEN res[r] ELSE rows'[r]]
    <3>1. Outcome(y)' = [r \in Rows |-> IF r \in DOMAIN new[y] THEN new[y][r] ELSE rows'[r]]
      BY <1>2 DEF Outcome
    <3>2. \A r \in DOMAIN new[y] : r \in T
      BY <1>8
    <3>3. QED
      BY <3>1, <3>2 DEF Outcome
  <2>9. [r \in Rows |-> IF r \in T THEN res[r] ELSE rows'[r]] \in Atomic!result(o, t, rows', S)
    <3>. HIDE DEF T, res, o, t, S
    <3>1. res \in Atomic!result(o, t, rows, S)
      BY <1>5 DEF res
    <3>2. QED
      BY <1>4, <2>1, <2>2, <2>3, <2>4, <2>5, <2>6, <2>7, <3>1, ResultFrame
  <2>10. QED
    BY <2>8, <2>9
<1>12. QED
  BY <1>2, <1>9, <1>10, <1>11 DEF Written

-----------------------------------------------------------------------------
(* The steps of the transaction itself. *)

\* What is written are the rows that change, all of them its own; with it the rows are
\* the result.
LEMMA WriteEstablishes ==
  ASSUME SerInv, NEW x \in Txs, NEW o \in Ops, NEW t \in Rows, NEW S \in SUBSET Rows,
         Atomic!needs(o, t, rows, leafs), S \subseteq Atomic!others(o, t, rows),
         NEW st \in Atomic!result(o, t, rows, S)
  PROVE  /\ \A r \in DOMAIN written(st) : /\ r \in Rows /\ written(st)[r] # rows[r]
                                         /\ Effect(o, t, rows, S, r, st[r])
         /\ [r \in Rows |-> IF r \in DOMAIN written(st) THEN written(st)[r] ELSE rows[r]] = st
<1>1. rows \in [Rows -> States]
  BY DEF SerInv, TxInv, TxTypes
<1>2. st \in [Rows -> States]
  BY <1>1, ResultTyped
<1>3. \A r \in Rows : st[r] # rows[r] => Effect(o, t, rows, S, r, st[r])
  BY <1>1, ResultEffect
<1>4. QED
  BY <1>2, <1>3 DEF written

\* A statement with SKIP LOCKED writes the row it takes.
LEMMA SkipLockedSer ==
  ASSUME SerInv, NEW x \in Txs, NEW o \in Ops, NEW t \in Rows, begin_skip_locked(x, o, t)
  PROVE  Checked(x)' /\ Written(x)'
<1>1. /\ op'[x] = o /\ node'[x] = t /\ phase'[x] = "commit" /\ seen'[x] = {}
      /\ x \in update'[t] /\ rows' = rows /\ leafs' = leafs
  BY DEF begin_skip_locked, SerInv, TxInv, TxTypes, TxOK, IdleHoldsNothing, HoldsAll
<1>2. o \in SkipLocked /\ Atomic!needs(o, t, rows, leafs)
  BY DEF begin_skip_locked
<1>3. PICK st \in Atomic!result(o, t, rows, {}) : new' = [new EXCEPT ![x] = written(st)]
  BY DEF begin_skip_locked
<1>4. new'[x] = written(st)
  BY <1>3 DEF SerInv, TxInv, TxTypes
<1>5. /\ \A r \in DOMAIN written(st) : /\ r \in Rows /\ written(st)[r] # rows[r]
                                      /\ Effect(o, t, rows, {}, r, st[r])
      /\ [r \in Rows |-> IF r \in DOMAIN written(st) THEN written(st)[r] ELSE rows[r]] = st
  <2>1. {} \subseteq Atomic!others(o, t, rows) /\ {} \in SUBSET Rows
    OBVIOUS
  <2>2. QED
    BY <1>2, <1>3, <2>1, WriteEstablishes
<1>6. \A r \in DOMAIN new'[x] : new'[x][r] # rows[r] /\ x \in update'[r]
  <2>1. o \notin Passing /\ o # "decompose"
    BY <1>2 DEF SkipLocked, Passing
  <2>2. QED
    BY <1>1, <1>4, <1>5, <2>1 DEF Effect
<1>7. Outcome(x)' = st
  BY <1>1, <1>4, <1>5 DEF Outcome
<1>8. Checked(x)'
  <2>1. o \notin {"cancel", "replan"}
    BY <1>2 DEF SkipLocked
  <2>2. QED
    BY <1>1, <1>2, <2>1 DEF Checked
<1>9. QED
  BY <1>1, <1>3, <1>6, <1>7, <1>8 DEF Written

\* The check lists what the protocol goes on to write.
LEMMA CheckSer ==
  ASSUME SerInv, NEW x \in Txs, check(x)
  PROVE  Checked(x)' /\ Written(x)'
<1>1. /\ op'[x] = op[x] /\ node'[x] = node[x] /\ phase'[x] = "more"
      /\ seen'[x] = Atomic!others(op[x], node[x], rows)
      /\ rows' = rows /\ leafs' = leafs
  BY DEF check, SerInv, TxInv, TxTypes
<1>2. Atomic!needs(op[x], node[x], rows, leafs)
  BY DEF check
<1>3. op[x] \in {"cancel", "replan"} => seen'[x] = Atomic!below(rows, node[x])
  BY <1>1 DEF Atomic!others
<1>4. op[x] \in Atomic!Listing => \A n \in seen'[x] : rows[n] \in Active \ {"decomposing"}
  BY <1>1 DEF Atomic!others, Atomic!Listing, Active
<1>5. op[x] \in {"fail", "closed"} => \A n \in seen'[x] : node[x] \in Deps[n]
  BY <1>1 DEF Atomic!others
<1>6. QED
  BY <1>1, <1>2, <1>3, <1>4, <1>5 DEF Checked, Written

\* The rows that were listed, and that transition finds it may still move, are among
\* those the protocol would list now.
LEMMA StillListed ==
  ASSUME SerInv, NEW x \in Txs, write(x)
  PROVE  seen[x] \subseteq Atomic!others(op[x], node[x], rows)
<1>1. phase[x] = "more" /\ still_allowed(x)
  BY DEF write
<1>2. node[x] \in Rows /\ seen[x] \in SUBSET Rows
  BY <1>1, PastCheck
<1>3. /\ op[x] \in {"cancel", "replan"} => seen[x] = Atomic!below(rows, node[x])
      /\ op[x] \in Atomic!Listing => \A n \in seen[x] : rows[n] \in Active \ {"decomposing"}
      /\ op[x] \in {"fail", "closed"} => \A n \in seen[x] : node[x] \in Deps[n]
      /\ \A n \in seen[x] : Listable(op[x], node[x], n)
  BY <1>1 DEF SerInv, Checked, HoldsAll
<1>4. Absent \notin Active
  BY TreeAssumption DEF Active, TaskState
<1>5. CASE op[x] \in {"cancel", "replan"}
  BY <1>3, <1>5 DEF Atomic!others
<1>6. CASE op[x] = "approve_children"
  <2>1. \A n \in seen[x] : rows[n] \in Active \ {"decomposing"} /\ n # Root /\ Parent[n] = node[x]
    BY <1>3, <1>6 DEF Atomic!Listing, Listable
  <2>2. \A n \in seen[x] : \E k \in TaskKind : allowed(rows[n], "ready", k, "user")
    BY <1>1, <1>6 DEF still_allowed, TaskKind
  <2>3. \A n \in seen[x] : rows[n] = "awaiting_approval"
    BY <2>1, <2>2 DEF allowed, Active, is_terminal, is_leased
  <2>4. QED
    BY <1>2, <1>4, <1>6, <2>1, <2>3 DEF Atomic!others, Atomic!kids
<1>7. CASE op[x] \in {"fail", "closed"}
  <2>1. \A n \in seen[x] : /\ rows[n] \in Active \ {"decomposing"} /\ node[x] \in Deps[n]
                           /\ node[x] # Root /\ n # Root /\ Parent[n] = Parent[node[x]]
    BY <1>3, <1>7 DEF Atomic!Listing, Listable
  <2>2. \A n \in seen[x] : \E k \in TaskKind : allowed(rows[n], "blocked", k, "rollup")
    BY <1>1, <1>7 DEF still_allowed, TaskKind
  <2>3. \A n \in seen[x] : rows[n] = "ready"
    BY <2>1, <2>2 DEF allowed, Active, is_terminal, is_leased
  <2>4. QED
    BY <1>2, <1>4, <1>7, <2>1, <2>3 DEF Atomic!others, Atomic!kids
<1>8. CASE op[x] \notin {"cancel", "replan", "approve_children", "fail", "closed"}
  BY <1>3, <1>8 DEF Listable
<1>9. QED
  BY <1>5, <1>6, <1>7, <1>8

\* The writes of a protocol that has locked what it lists.
LEMMA WriteSer ==
  ASSUME SerInv, NEW x \in Txs, write(x)
  PROVE  Checked(x)' /\ Written(x)'
<1>1. /\ op'[x] = op[x] /\ node'[x] = node[x] /\ phase[x] = "more" /\ phase'[x] = "commit"
      /\ seen'[x] = seen[x] /\ todo[x] = {}
      /\ update' = update /\ rows' = rows /\ leafs' = leafs
  BY DEF write, SerInv, TxInv, TxTypes
<1>2. PICK st \in Atomic!result(op[x], node[x], rows, seen[x]) :
        new' = [new EXCEPT ![x] = written(st)]
  BY DEF write
<1>3. new'[x] = written(st)
  BY <1>2 DEF SerInv, TxInv, TxTypes
<1>4. /\ op[x] \in Ops /\ node[x] \in Rows /\ seen[x] \in SUBSET Rows
      /\ x \in update[node[x]] /\ rows[node[x]] # Absent
      /\ op[x] \in Rolling => \A a \in Lineage[node[x]] : x \in update[a]
      /\ \A n \in seen[x] : x \in update[n]
  BY <1>1, PastCheck DEF SerInv, HoldsAll
<1>5. Atomic!needs(op[x], node[x], rows, leafs)
  BY <1>1 DEF SerInv, Checked
<1>6. seen[x] \subseteq Atomic!others(op[x], node[x], rows)
  BY StillListed
<1>7. /\ \A r \in DOMAIN written(st) : /\ r \in Rows /\ written(st)[r] # rows[r]
                                      /\ Effect(op[x], node[x], rows, seen[x], r, st[r])
      /\ [r \in Rows |-> IF r \in DOMAIN written(st) THEN written(st)[r] ELSE rows[r]] = st
  BY <1>2, <1>4, <1>5, <1>6, WriteEstablishes
<1>8. ASSUME NEW r \in DOMAIN new'[x]
      PROVE  /\ new'[x][r] # rows[r]
             /\ \/ x \in update[r]
                \/ op[x] = "decompose" /\ rows[r] = Absent /\ r # Root /\ Parent[r] = node[x]
  <2>1. new'[x][r] # rows[r] /\ Effect(op[x], node[x], rows, seen[x], r, st[r])
    BY <1>3, <1>7, <1>8
  <2>2. op[x] \in Passing => op[x] \in Rolling
    BY DEF Passing, Rolling
  <2>3. QED
    BY <1>4, <2>1, <2>2 DEF Effect, Atomic!above, Atomic!slots
<1>9. Outcome(x)' = st
  BY <1>1, <1>3, <1>7 DEF Outcome
<1>10. Checked(x)'
  BY <1>1 DEF SerInv, Checked
<1>11. Written(x)'
  BY <1>1, <1>2, <1>6, <1>8, <1>9 DEF Written
<1>12. QED
  BY <1>10, <1>11

\* Only a commit changes what others have read.
LEMMA OthersBeside ==
  ASSUME SerInv, NEW x \in Txs, rows' = rows, leafs' = leafs, NEW y \in Txs, Untouched(y)
  PROVE  Checked(y)' /\ Written(y)'
<1>1. /\ op'[y] = op[y] /\ node'[y] = node[y] /\ phase'[y] = phase[y] /\ seen'[y] = seen[y]
      /\ new'[y] = new[y] /\ \A r \in Rows : y \in update'[r] <=> y \in update[r]
  BY DEF Untouched
<1>2. Checked(y)'
  BY <1>1 DEF SerInv, Checked
<1>3. Outcome(y)' = Outcome(y)
  BY <1>1 DEF Outcome
<1>4. \A r \in DOMAIN new[y] : r \in Rows
  BY DEF SerInv, TxInv, TxTypes, Writes
<1>5. Written(y)
  BY DEF SerInv
<1>6. Written(y)'
  BY <1>1, <1>3, <1>4, <1>5 DEF Written
<1>7. QED
  BY <1>2, <1>6

\* The invariant of serializability.
LEMMA SerInvKept ==
  ASSUME SerInv, [Next]_vars
  PROVE  SerInv'
<1>1. TxInv'
  BY TxInvKept DEF SerInv
<1>2. CASE UNCHANGED vars
  <2>1. \A y \in Txs : Untouched(y)
    BY <1>2 DEF Untouched, vars, tx_vars
  <2>2. \A y \in Txs : Checked(y)' /\ Written(y)'
    BY <1>2, <2>1, OthersBeside DEF vars
  <2>3. \A y \in Txs : HoldsAll(y)'
    BY <1>2 DEF SerInv, HoldsAll, vars, tx_vars
  <2>4. QED
    BY <1>1, <2>2, <2>3 DEF SerInv
<1>3. CASE Next
  <2>1. PICK x \in Txs :
          \/ \E o \in Ops, t \in Rows : begin(x, o, t) \/ begin_skip_locked(x, o, t)
          \/ take_lock(x) \/ check(x) \/ write(x) \/ commit(x) \/ rollback(x)
    BY <1>3 DEF Next
  <2>2. \A y \in Txs : HoldsAll(y)'
    BY <2>1, HoldsAllKept DEF SerInv
  <2>3. \A y \in Txs \ {x} : Untouched(y)
    BY <2>1, OneAtATime DEF SerInv, TxInv
  <2>4. CASE commit(x)
    <3>1. phase'[x] = "lock"
      BY <2>4 DEF commit, release, SerInv, TxInv, TxTypes
    <3>2. Checked(x)' /\ Written(x)'
      BY <3>1 DEF Checked, Written
    <3>3. \A y \in Txs \ {x} : Checked(y)' /\ Written(y)'
      BY <2>4, CheckedBeside, WrittenBeside
    <3>4. QED
      BY <1>1, <2>2, <3>2, <3>3 DEF SerInv
  <2>5. CASE ~commit(x)
    <3>1. rows' = rows /\ leafs' = leafs
      BY <2>1, <2>5 DEF begin, begin_skip_locked, take_lock, check, write, rollback
    <3>2. \A y \in Txs \ {x} : Checked(y)' /\ Written(y)'
      BY <2>3, <3>1, OthersBeside
    <3>3. Checked(x)' /\ Written(x)'
      <4>1. ASSUME NEW o \in Ops, NEW t \in Rows, begin(x, o, t)
            PROVE  Checked(x)' /\ Written(x)'
        <5>1. phase'[x] = "lock"
          BY <4>1 DEF begin, SerInv, TxInv, TxTypes, TxOK, IdleHoldsNothing
        <5>2. QED
          BY <5>1 DEF Checked, Written
      <4>2. ASSUME NEW o \in Ops, NEW t \in Rows, begin_skip_locked(x, o, t)
            PROVE  Checked(x)' /\ Written(x)'
        BY <4>2, SkipLockedSer
      <4>3. ASSUME take_lock(x)
            PROVE  Checked(x)' /\ Written(x)'
        <5>1. /\ op'[x] = op[x] /\ node'[x] = node[x] /\ phase'[x] = phase[x]
              /\ seen'[x] = seen[x] /\ new'[x] = new[x]
          BY <4>3 DEF take_lock
        <5>2. next_lock(x) \in Rows
          BY <4>3, NextLockIsFirst DEF take_lock, SerInv, TxInv
        <5>3. \A r \in Rows : x \in update[r] => x \in update'[r]
          BY <4>3, <5>2 DEF take_lock, SerInv, TxInv, TxTypes
        <5>4. Checked(x)'
          BY <3>1, <5>1 DEF SerInv, Checked
        <5>5. Outcome(x)' = Outcome(x)
          BY <3>1, <5>1 DEF Outcome
        <5>6. \A r \in DOMAIN new[x] : r \in Rows
          BY DEF SerInv, TxInv, TxTypes, Writes
        <5>7. Written(x)
          BY DEF SerInv
        <5>8. Written(x)'
          BY <3>1, <5>1, <5>3, <5>5, <5>6, <5>7 DEF Written
        <5>9. QED
          BY <5>4, <5>8
      <4>4. ASSUME rollback(x)
            PROVE  Checked(x)' /\ Written(x)'
        <5>1. phase'[x] = "lock"
          BY <4>4 DEF rollback, release, SerInv, TxInv, TxTypes
        <5>2. QED
          BY <5>1 DEF Checked, Written
      <4>5. QED
        BY <2>1, <2>5, <4>1, <4>2, <4>3, <4>4, CheckSer, WriteSer
    <3>4. QED
      BY <1>1, <2>2, <3>2, <3>3 DEF SerInv
  <2>6. QED
    BY <2>4, <2>5
<1>4. QED
  BY <1>2, <1>3

\* A commit is the protocol, all at once, over the rows as they are committed then.
LEMMA CommitIsCall ==
  ASSUME SerInv, NEW x \in Txs, commit(x)
  PROVE  Atomic!Next
<1>1. phase[x] = "commit" /\ rows' = Outcome(x)
      /\ leafs' = leafs \cup Atomic!new_leafs(op[x], node[x])
  BY DEF commit, Outcome
<1>2. op[x] \in Ops /\ node[x] \in Rows /\ seen[x] \in SUBSET Rows
  BY <1>1, PastCheck
<1>3. /\ Atomic!needs(op[x], node[x], rows, leafs)
      /\ op[x] \in {"cancel", "replan"} => seen[x] = Atomic!below(rows, node[x])
  BY <1>1 DEF SerInv, Checked
<1>4. /\ seen[x] \subseteq Atomic!others(op[x], node[x], rows)
      /\ rows' \in Atomic!result(op[x], node[x], rows, seen[x])
  BY <1>1 DEF SerInv, Written
<1>5. op[x] \notin Atomic!Listing => seen[x] = Atomic!others(op[x], node[x], rows)
  BY <1>3, <1>4 DEF Atomic!Listing, Atomic!others
<1>6. Atomic!call(op[x], node[x])
  BY <1>1, <1>3, <1>4, <1>5 DEF Atomic!call
<1>7. QED
  BY <1>2, <1>6 DEF Atomic!Next

\* Serializability, for every tree, dependencies, gates and number of transactions:
\* the transactions, with their locks, reads and writes in any order, implement the
\* protocols that happen at once.
THEOREM SerializableHolds == Spec => Serializable
<1>1. Init => SerInv
  <2>1. SUFFICES ASSUME Init PROVE SerInv
    OBVIOUS
  <2>2. TxInv
    BY <2>1, TxInvInit
  <2>3. \A x \in Txs : phase[x] = "lock" /\ seen[x] = {}
    BY <2>1 DEF Init
  <2>4. QED
    BY <2>2, <2>3 DEF SerInv, HoldsAll, Checked, Written
<1>2. SerInv /\ [Next]_vars => SerInv'
  BY SerInvKept
<1>3. Init => Atomic!Init
  BY DEF Init
<1>4. SerInv /\ [Next]_vars => [Atomic!Next]_<<rows, leafs>>
  <2>1. SUFFICES ASSUME SerInv, [Next]_vars
                 PROVE  Atomic!Next \/ UNCHANGED <<rows, leafs>>
    OBVIOUS
  <2>2. CASE UNCHANGED vars
    BY <2>2 DEF vars
  <2>3. CASE Next
    <3>1. PICK x \in Txs :
            \/ \E o \in Ops, t \in Rows : begin(x, o, t) \/ begin_skip_locked(x, o, t)
            \/ take_lock(x) \/ check(x) \/ write(x) \/ commit(x) \/ rollback(x)
      BY <2>3 DEF Next
    <3>2. CASE commit(x)
      BY <2>1, <3>2, CommitIsCall
    <3>3. CASE ~commit(x)
      BY <3>1, <3>3 DEF begin, begin_skip_locked, take_lock, check, write, rollback
    <3>4. QED
      BY <3>2, <3>3
  <2>4. QED
    BY <2>1, <2>2, <2>3
<1>5. QED
  BY <1>1, <1>2, <1>3, <1>4, PTL DEF Spec, Serializable, Atomic!Spec

=============================================================================
