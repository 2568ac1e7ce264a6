----------------------------- MODULE CampaignTx -----------------------------
(***************************************************************************)
(* Transactions of the campaign store as they run (READ COMMITTED): a      *)
(* protocol locks rows one after another, reads what is committed, writes  *)
(* rows only it can see, and commits.  Locks are the ones its statements   *)
(* take (FOR UPDATE), and the one the foreign key on campaign_id takes     *)
(* when rows are inserted: that key is DEFERRABLE INITIALLY DEFERRED, so   *)
(* the root is locked FOR KEY SHARE at commit                              *)
(* (crates/agent-campaign/migrations/0001_campaigns.sql).                  *)
(***************************************************************************)
EXTENDS CampaignRules

CONSTANTS
  Rows, Root, Parent, Lineage, Deps, Gated, Absent, Ops,
  Depth,     \* the column depth
  Place,     \* the place of a row in the order (depth, path)
  Txs,       \* transactions at a time
  Planned,   \* nodes that decompose is called for
  MaxNodes   \* max_nodes of the policy

\* The protocols that lock the ancestors of their row, the ones that lock none they
\* would wait for, and the others.  (plan_start ends as "plan_capped" at a cap; an error
\* of the planner at the attempts' cap is a plan_reject here.)
Rolling == {"plan_start", "plan_capped", "plan_reject", "plan_needs_info", "plan_error",
            "fail", "merged", "closed", "retry", "cancel", "replan"}

SkipLocked == {"claim", "reap", "reap_decomposing"}

ASSUME OpsAssumption ==
  Ops \subseteq Rolling \cup SkipLocked
                \cup {"decompose", "mark_leaf", "approve", "answer", "approve_children",
                      "start", "complete"}

\* What paths say: a row's is its parent's and one step more, and the order of the
\* locks goes by depth first.
ASSUME TreeAssumption ==
  /\ IsFiniteSet(Rows) /\ Root \in Rows /\ Absent \notin TaskState
  /\ Parent \in [Rows \ {Root} -> Rows] /\ Deps \in [Rows -> SUBSET Rows]
  /\ Depth \in [Rows -> Nat] /\ Place \in [Rows -> 1 .. Cardinality(Rows)]
  /\ \A t \in Rows \ {Root} : Depth[t] = Depth[Parent[t]] + 1
  /\ \A s, t \in Rows : Place[s] = Place[t] => s = t
  /\ \A s, t \in Rows : Depth[s] < Depth[t] => Place[s] < Place[t]
  /\ Lineage \in [Rows -> SUBSET Rows] /\ Lineage[Root] = {Root}
  /\ \A t \in Rows \ {Root} : Lineage[t] = {t} \cup Lineage[Parent[t]]
  /\ \A t \in Rows : Root \in Lineage[t]
  /\ \A t \in Rows : \A a \in Lineage[t] : Lineage[a] \subseteq Lineage[t]
  /\ \A t \in Rows : \A a \in Lineage[t] \ {t} : Depth[a] < Depth[t]

VARIABLES
  rows,    \* the committed states
  leafs,   \* the committed leaves
  op,      \* the protocol a transaction runs, or "idle"
  node,    \* its row
  todo,    \* the rows it has still to lock
  phase,   \* "lock" before the row is checked, "more" after it, "commit" at the end
  seen,    \* the other rows, as the statement that listed them saw them
  new,     \* what it has written
  update,  \* the transactions holding a row FOR UPDATE
  share    \* the transactions holding a row FOR KEY SHARE

tx_vars == <<op, node, todo, phase, seen, new>>
vars == <<rows, leafs, tx_vars, update, share>>

Atomic == INSTANCE CampaignAtomic WITH state <- rows, leafs <- leafs

-----------------------------------------------------------------------------
(* Locks. *)

\* Mutant of lock_ancestors: no ancestor is locked.
lock_no_ancestors(t) == {}

lock_ancestors(t) == Atomic!above(t)

\* The rows a protocol locks before it checks its own.
first_locks(o, t) == (IF o \in Rolling THEN lock_ancestors(t) ELSE {}) \cup {t}

\* Mutant of fk_check: campaign_id is no foreign key.
fk_unchecked(t) == {}

\* The deferred check of the inserted rows' campaign_id.
fk_check(t) == {Root}

\* Mutant of next_lock: the deepest row first.
next_lock_deepest(x) == CHOOSE r \in todo[x] : \A s \in todo[x] : Place[s] <= Place[r]

\* Every statement that locks rows does so by (depth, path).
next_lock(x) == CHOOSE r \in todo[x] : \A s \in todo[x] : Place[r] <= Place[s]

mode(x) == IF phase[x] = "commit" THEN "share" ELSE "update"

holders(r, m, x) == (update[r] \cup (IF m = "update" THEN share[r] ELSE {})) \ {x}

waits_for(x) == IF todo[x] = {} THEN {} ELSE holders(next_lock(x), mode(x), x)

no_writes == [r \in {} |-> Absent]

release(x) ==
  /\ update' = [r \in Rows |-> update[r] \ {x}]
  /\ share' = [r \in Rows |-> share[r] \ {x}]
  /\ op' = [op EXCEPT ![x] = "idle"]
  /\ node' = [node EXCEPT ![x] = Root]
  /\ todo' = [todo EXCEPT ![x] = {}]
  /\ phase' = [phase EXCEPT ![x] = "lock"]
  /\ seen' = [seen EXCEPT ![x] = {}]
  /\ new' = [new EXCEPT ![x] = no_writes]

-----------------------------------------------------------------------------
(* The steps of a transaction. *)

\* What x writes over the committed rows: the rows it changes, and no others.
written(st) == [r \in {n \in Rows : st[n] # rows[n]} |-> st[r]]

\* peek: the row is there, without a lock.
begin(x, o, t) ==
  /\ op[x] = "idle" /\ o \notin SkipLocked /\ rows[t] # Absent
  /\ o = "decompose" => t \in Planned
  /\ op' = [op EXCEPT ![x] = o]
  /\ node' = [node EXCEPT ![x] = t]
  /\ todo' = [todo EXCEPT ![x] = first_locks(o, t)]
  /\ UNCHANGED <<rows, leafs, phase, seen, new, update, share>>

\* SKIP LOCKED: one statement takes a row that nobody holds and writes it; it never
\* waits.  (It may take several rows; each is then a transaction here.)
begin_skip_locked(x, o, t) ==
  /\ op[x] = "idle" /\ o \in SkipLocked
  /\ update[t] = {} /\ share[t] = {}
  /\ Atomic!needs(o, t, rows, leafs)
  /\ op' = [op EXCEPT ![x] = o]
  /\ node' = [node EXCEPT ![x] = t]
  /\ phase' = [phase EXCEPT ![x] = "commit"]
  /\ update' = [update EXCEPT ![t] = {x}]
  /\ \E st \in Atomic!result(o, t, rows, {}) :
       new' = [new EXCEPT ![x] = written(st)]
  /\ UNCHANGED <<rows, leafs, todo, seen, share>>

take_lock(x) ==
  /\ todo[x] # {} /\ waits_for(x) = {}
  /\ LET row == next_lock(x)
     IN  /\ IF mode(x) = "update"
            THEN update' = [update EXCEPT ![row] = @ \cup {x}] /\ UNCHANGED share
            ELSE share' = [share EXCEPT ![row] = @ \cup {x}] /\ UNCHANGED update
         /\ todo' = [todo EXCEPT ![x] = @ \ {row}]
  /\ UNCHANGED <<rows, leafs, op, node, phase, seen, new>>

\* The row is checked under its lock; then the other rows are listed and locked
\* in order: the subtree, the siblings or the children.
check(x) ==
  /\ op[x] # "idle" /\ phase[x] = "lock" /\ todo[x] = {}
  /\ Atomic!needs(op[x], node[x], rows, leafs)
  /\ op[x] = "decompose" =>
       Cardinality({r \in Rows : rows[r] # Absent}
                   \cup Atomic!slots(node[x])) <= MaxNodes
  /\ LET S == Atomic!others(op[x], node[x], rows)
     IN  /\ seen' = [seen EXCEPT ![x] = S]
         /\ todo' = [todo EXCEPT ![x] = S \ {node[x]}]
  /\ phase' = [phase EXCEPT ![x] = "more"]
  /\ UNCHANGED <<rows, leafs, op, node, new, update, share>>

\* Mutant of still_allowed: the listed rows are written as they were listed.
still_listed(x) == TRUE

\* transition reads every row again under its lock, and refuses a move that the
\* table does not allow from there; the protocol then ends in an error.
still_allowed(x) ==
  LET kind(n) == IF n \in leafs THEN "leaf" ELSE IF n = Root THEN "objective" ELSE "task"
      to == CASE op[x] = "approve_children" -> <<"ready", "user">>
              [] op[x] \in {"fail", "closed"} -> <<"blocked", "rollup">>
              [] OTHER -> <<>>
  IN  to # <<>> => \A n \in seen[x] : allowed(rows[n], to[1], kind(n), to[2])

\* The writes, with the rollup over the committed children and its own writes;
\* rows inserted meanwhile are not among those listed.
write(x) ==
  /\ phase[x] = "more" /\ todo[x] = {} /\ still_allowed(x)
  /\ \E st \in Atomic!result(op[x], node[x], rows, seen[x]) :
       new' = [new EXCEPT ![x] = written(st)]
  /\ phase' = [phase EXCEPT ![x] = "commit"]
  /\ todo' = [todo EXCEPT ![x] = IF op[x] = "decompose" THEN fk_check(node[x]) ELSE {}]
  /\ UNCHANGED <<rows, leafs, op, node, seen, update, share>>

commit(x) ==
  /\ phase[x] = "commit" /\ todo[x] = {}
  /\ rows' = [r \in Rows |-> IF r \in DOMAIN new[x] THEN new[x][r] ELSE rows[r]]
  /\ leafs' = leafs \cup Atomic!new_leafs(op[x], node[x])
  /\ release(x)

\* Mutant of rollback: the connection is reused with its transaction open.
rollback_forgotten(x) ==
  /\ op[x] # "idle"
  /\ op' = [op EXCEPT ![x] = "idle"]
  /\ todo' = [todo EXCEPT ![x] = {}]
  /\ UNCHANGED <<rows, leafs, node, phase, seen, new, update, share>>

\* A check that fails, an unreachable server, or the server picking x to break a
\* deadlock.
rollback(x) ==
  /\ op[x] # "idle"
  /\ release(x)
  /\ UNCHANGED <<rows, leafs>>

-----------------------------------------------------------------------------
Init ==
  /\ Atomic!Init
  /\ op = [x \in Txs |-> "idle"]
  /\ node = [x \in Txs |-> Root]
  /\ todo = [x \in Txs |-> {}]
  /\ phase = [x \in Txs |-> "lock"]
  /\ seen = [x \in Txs |-> {}]
  /\ new = [x \in Txs |-> no_writes]
  /\ update = [r \in Rows |-> {}]
  /\ share = [r \in Rows |-> {}]

Next ==
  \E x \in Txs :
    \/ \E o \in Ops, t \in Rows : begin(x, o, t) \/ begin_skip_locked(x, o, t)
    \/ take_lock(x) \/ check(x) \/ write(x) \/ commit(x) \/ rollback(x)

Spec == Init /\ [][Next]_vars

-----------------------------------------------------------------------------
(* Properties. *)

\* A row has at most one transaction holding it FOR UPDATE, and then nobody else
\* holds it at all; a transaction that ended holds nothing.
TxTypeOK ==
  /\ rows \in [Rows -> TaskState \cup {Absent}]
  /\ leafs \subseteq Rows
  /\ op \in [Txs -> Ops \cup {"idle"}]
  /\ \A r \in Rows : \A x \in update[r] : update[r] \cup share[r] = {x}
  /\ \A x \in Txs : op[x] = "idle" => \A r \in Rows : x \notin update[r] \cup share[r]

\* Serializability: every commit changes the rows as its protocol would have done
\* at that moment on its own.  So no rollup misses a sibling that finished at the
\* same time, and no cancel or replan misses a row that was being inserted.
Serializable == Atomic!Spec

\* The order of the explicit locks, root first, then the node, then the rest by depth
\* and path: transactions that wait for rows FOR UPDATE never wait in a circle.  The
\* wait FOR KEY SHARE of the foreign key at a commit is not one of these: with it a
\* circle is possible (decompose against a cancel of the root).
LockOrder ==
  \A S \in (SUBSET Txs) \ {{}} :
    \E x \in S : waits_for(x) \cap S = {} \/ mode(x) = "share"

=============================================================================
