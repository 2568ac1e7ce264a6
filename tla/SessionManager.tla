-------------------------- MODULE SessionManager --------------------------
(***************************************************************************)
(* The pool of live sessions                                               *)
(* (crates/agent-runtime/src/agent/session_manager.rs).  A session is an   *)
(* actor: a task that owns it and takes its runs, one at a time, from a    *)
(* bounded queue.  Clients admit a session and submit a run, either to     *)
(* watch it (the portal's Send) or to await its answer (a fleet review);   *)
(* close and a periodic reaper take sessions out of the map and abort      *)
(* their tasks.                                                            *)
(*                                                                         *)
(* The threads are those of the runtime: what happens under a lock is a    *)
(* step, and everything else interleaves.  All clients come by admit; the  *)
(* path of the seams, get_or_create, makes a session without looking at    *)
(* the caps, and is left out.                                              *)
(***************************************************************************)
EXTENDS Naturals, Sequences, FiniteSets

CONSTANTS
  Keys, UserOf,        \* the sessions and their users
  Watchers, Runners,   \* clients: session_for and start, run_review and run
  KeyOf,               \* the session a client asks for
  Closers, Reaper,     \* threads that remove sessions
  MaxTotal, MaxPerUser,
  QueueCap,            \* commands a session's channel holds
  MaxActors,           \* bound: actors spawned in a behaviour
  MaxBeats,            \* bound: heartbeats
  None

Clients == Watchers \cup Runners
Removers == Closers \cup {Reaper}
Actors == 1 .. MaxActors

ASSUME SessionAssumption ==
  /\ IsFiniteSet(Keys) /\ IsFiniteSet(Clients) /\ Watchers \cap Runners = {}
  /\ KeyOf \in [Clients -> Keys] /\ DOMAIN UserOf = Keys
  /\ {MaxTotal, MaxPerUser, MaxActors, MaxBeats} \subseteq Nat /\ QueueCap \in Nat \ {0}
  /\ None \notin Actors \cup Clients \cup Keys /\ Reaper \notin Closers

VARIABLES
  map,        \* sessions: the actor of a key, or None
  idle,       \* has last_used of a key's entry become older than idle_after
  spawned,    \* how many actors there have been
  state,      \* of an actor: "unborn", "waiting", "taken", "running" or "dead"
  queue, cur, \* its channel, and the run it has taken
  busy, aborted,
  pc, handle, \* of a client: where it is, and the actor its handle names
  run,        \* what became of its run
  todo,       \* of a remover: keys to remove
  beats

map_vars == <<map, idle, spawned>>
actor_vars == <<state, queue, cur, busy, aborted>>
client_vars == <<pc, handle, run>>
vars == <<map_vars, actor_vars, client_vars, todo, beats>>

-----------------------------------------------------------------------------
(* Admission. *)

live == {k \in Keys : map[k] # None}

\* Mutant of has_capacity_for: one session too many for a user.
has_capacity_off_by_one(k) ==
  /\ MaxTotal > 0 => Cardinality(live) < MaxTotal
  /\ MaxPerUser > 0 => Cardinality({j \in live : UserOf[j] = UserOf[k]}) <= MaxPerUser

\* A limit of 0 is none.
has_capacity_for(k) ==
  /\ MaxTotal > 0 => Cardinality(live) < MaxTotal
  /\ MaxPerUser > 0 => Cardinality({j \in live : UserOf[j] = UserOf[k]}) < MaxPerUser

\* Where a client goes once it has a handle.
admitted(c) == IF c \in Watchers THEN "start" ELSE "send"

admit_live(c) ==
  LET k == KeyOf[c] IN
  /\ pc[c] = "new" /\ map[k] # None
  /\ idle' = [idle EXCEPT ![k] = FALSE]
  /\ handle' = [handle EXCEPT ![c] = map[k]]
  /\ pc' = [pc EXCEPT ![c] = admitted(c)]
  /\ UNCHANGED <<map, spawned, actor_vars, run, todo, beats>>

admit_new(c) ==
  LET k == KeyOf[c]
      a == spawned + 1 IN
  /\ pc[c] = "new" /\ map[k] = None /\ has_capacity_for(k)
  /\ a \in Actors
  /\ spawned' = a
  /\ map' = [map EXCEPT ![k] = a]
  /\ idle' = [idle EXCEPT ![k] = FALSE]
  /\ state' = [state EXCEPT ![a] = "waiting"]
  /\ handle' = [handle EXCEPT ![c] = a]
  /\ pc' = [pc EXCEPT ![c] = admitted(c)]
  /\ UNCHANGED <<queue, cur, busy, aborted, run, todo, beats>>

admit_refused(c) ==
  /\ pc[c] = "new" /\ map[KeyOf[c]] = None /\ ~has_capacity_for(KeyOf[c])
  /\ pc' = [pc EXCEPT ![c] = "done"]
  /\ UNCHANGED <<map_vars, actor_vars, handle, run, todo, beats>>

touch(k) ==
  /\ map[k] # None /\ idle[k] /\ beats < MaxBeats
  /\ idle' = [idle EXCEPT ![k] = FALSE]
  /\ beats' = beats + 1
  /\ UNCHANGED <<map, spawned, actor_vars, client_vars, todo>>

idle_after(k) ==
  /\ map[k] # None /\ ~idle[k]
  /\ idle' = [idle EXCEPT ![k] = TRUE]
  /\ UNCHANGED <<map, spawned, actor_vars, client_vars, todo, beats>>

-----------------------------------------------------------------------------
(* A client submits its run. *)

submits(c) ==
  /\ queue' = [queue EXCEPT ![handle[c]] = Append(@, c)]
  /\ run' = [run EXCEPT ![c] = "queued"]

\* Mutant of has_room: an unbounded channel.
has_room_always(a) == TRUE

has_room(a) == Len(queue[a]) < QueueCap

\* try_send: a full queue or a dead actor, and the run just does not start.
start(c) ==
  LET a == handle[c] IN
  /\ pc[c] = "start"
  /\ IF state[a] # "dead" /\ has_room(a)
     THEN submits(c)
     ELSE run' = [run EXCEPT ![c] = "unstarted"] /\ UNCHANGED queue
  /\ pc' = [pc EXCEPT ![c] = "submitted"]
  /\ UNCHANGED <<map_vars, state, cur, busy, aborted, handle, todo, beats>>

\* send waits for room.
send(c) ==
  LET a == handle[c] IN
  /\ pc[c] = "send"
  /\ IF state[a] = "dead"
     THEN run' = [run EXCEPT ![c] = "dropped"] /\ UNCHANGED queue
     ELSE has_room(a) /\ submits(c)
  /\ pc' = [pc EXCEPT ![c] = "submitted"]
  /\ UNCHANGED <<map_vars, state, cur, busy, aborted, handle, todo, beats>>

\* The client goes away; that drops its cancel sender.
disconnect(c) ==
  /\ pc[c] \in {"send", "submitted"}
  /\ pc' = [pc EXCEPT ![c] = "done"]
  /\ UNCHANGED <<map_vars, actor_vars, handle, run, todo, beats>>

-----------------------------------------------------------------------------
(* The actor. *)

recv(a) ==
  /\ state[a] = "waiting" /\ queue[a] # <<>>
  /\ cur' = [cur EXCEPT ![a] = Head(queue[a])]
  /\ queue' = [queue EXCEPT ![a] = Tail(@)]
  /\ state' = [state EXCEPT ![a] = "taken"]
  /\ UNCHANGED <<map_vars, busy, aborted, client_vars, todo, beats>>

begin(a) ==
  /\ state[a] = "taken"
  /\ busy' = [busy EXCEPT ![a] = TRUE]
  /\ state' = [state EXCEPT ![a] = "running"]
  /\ run' = [run EXCEPT ![cur[a]] = "running"]
  /\ UNCHANGED <<map_vars, queue, cur, aborted, pc, handle, todo, beats>>

\* Mutant of no_longer_busy: a cancelled run leaves the flag set.
no_longer_busy_unless(a, o) == busy' = [busy EXCEPT ![a] = o = "cancelled"]

no_longer_busy(a, o) == busy' = [busy EXCEPT ![a] = FALSE]

ended(a, o) ==
  /\ no_longer_busy(a, o)
  /\ state' = [state EXCEPT ![a] = "waiting"]
  /\ run' = [run EXCEPT ![cur[a]] = o]
  /\ cur' = [cur EXCEPT ![a] = None]
  /\ UNCHANGED <<map_vars, queue, aborted, pc, handle, todo, beats>>

finish(a) == state[a] = "running" /\ ended(a, "finished")

cancelled(a) == state[a] = "running" /\ pc[cur[a]] = "done" /\ ended(a, "cancelled")

\* Nobody can send to the actor any more.
unreachable(a) ==
  /\ \A k \in Keys : map[k] # a
  /\ \A c \in Clients : handle[c] = a => pc[c] = "done"

\* Mutant of dropped: the runs that were queued get no answer.
dropped_current_only(a) == {c \in Clients : c = cur[a]}

\* The runs whose done sender is dropped with the task.
dropped(a) == {c \in Clients : c = cur[a] \/ \E i \in 1 .. Len(queue[a]) : queue[a][i] = c}

\* An aborted task ends at its next await; any other one when its channel is closed.
actor_ends(a) ==
  /\ \/ aborted[a] /\ state[a] # "dead"
     \/ state[a] = "waiting" /\ queue[a] = <<>> /\ unreachable(a)
  /\ state' = [state EXCEPT ![a] = "dead"]
  /\ run' = [c \in Clients |-> IF c \in dropped(a) THEN "dropped" ELSE run[c]]
  /\ queue' = [queue EXCEPT ![a] = <<>>]
  /\ cur' = [cur EXCEPT ![a] = None]
  /\ UNCHANGED <<map_vars, busy, aborted, pc, handle, todo, beats>>

-----------------------------------------------------------------------------
(* Removal. *)

free(x) == todo[x] = {}

close(x, k) ==
  /\ x \in Closers /\ free(x) /\ map[k] # None
  /\ todo' = [todo EXCEPT ![x] = {k}]
  /\ UNCHANGED <<map_vars, actor_vars, client_vars, beats>>

\* The first half of reap_idle: under the lock, the entries that are idle and not busy.
stale == {k \in live : idle[k] /\ ~busy[map[k]]}

reap_idle ==
  /\ free(Reaper) /\ stale # {}
  /\ todo' = [todo EXCEPT ![Reaper] = stale]
  /\ UNCHANGED <<map_vars, actor_vars, client_vars, beats>>

\* Mutant of abort: dropping the entry's sender is all.
abort_by_drop(k) == UNCHANGED aborted

abort(k) == aborted' = IF map[k] = None THEN aborted ELSE [aborted EXCEPT ![map[k]] = TRUE]

remove(x, k) ==
  /\ k \in todo[x]
  /\ abort(k)
  /\ map' = [map EXCEPT ![k] = None]
  /\ todo' = [todo EXCEPT ![x] = @ \ {k}]
  /\ UNCHANGED <<idle, spawned, state, queue, cur, busy, client_vars, beats>>

-----------------------------------------------------------------------------
Init ==
  /\ map = [k \in Keys |-> None] /\ idle = [k \in Keys |-> FALSE]
  /\ spawned = 0
  /\ state = [a \in Actors |-> "unborn"] /\ queue = [a \in Actors |-> <<>>]
  /\ cur = [a \in Actors |-> None]
  /\ busy = [a \in Actors |-> FALSE] /\ aborted = [a \in Actors |-> FALSE]
  /\ pc = [c \in Clients |-> "new"] /\ handle = [c \in Clients |-> None]
  /\ run = [c \in Clients |-> "none"]
  /\ todo = [x \in Removers |-> {}]
  /\ beats = 0

client_step(c) == start(c) \/ send(c)
actor_step(a) == recv(a) \/ begin(a) \/ finish(a) \/ cancelled(a)
remover_step(x) == \E k \in Keys : remove(x, k)

Next ==
  \/ \E c \in Clients : admit_live(c) \/ admit_new(c) \/ admit_refused(c) \/ client_step(c) \/ disconnect(c)
  \/ \E a \in Actors : actor_step(a) \/ actor_ends(a)
  \/ \E k \in Keys : touch(k) \/ idle_after(k) \/ \E x \in Closers : close(x, k)
  \/ \E x \in Removers : remover_step(x)
  \/ reap_idle

Spec == Init /\ [][Next]_vars

\* The runtime schedules every task, a turn ends (it is bounded in iterations and
\* its calls in time), time passes and the reaper's interval ticks.  Nobody has to
\* come, to close or to disconnect.
FairSpec ==
  /\ Spec
  /\ \A c \in Clients : WF_vars(client_step(c))
  /\ \A a \in Actors : WF_vars(actor_step(a)) /\ WF_vars(actor_ends(a))
  /\ \A k \in Keys : WF_vars(idle_after(k))
  /\ \A x \in Removers : WF_vars(remover_step(x))
  /\ WF_vars(reap_idle)

-----------------------------------------------------------------------------
(* Properties. *)

\* The variables have their types, and no channel holds more than its capacity.
SessionTypeOK ==
  /\ map \in [Keys -> Actors \cup {None}] /\ idle \in [Keys -> BOOLEAN]
  /\ spawned \in 0 .. MaxActors
  /\ state \in [Actors -> {"unborn", "waiting", "taken", "running", "dead"}]
  /\ queue \in [Actors -> Seq(Clients)] /\ \A a \in Actors : Len(queue[a]) <= QueueCap
  /\ cur \in [Actors -> Clients \cup {None}]
  /\ busy \in [Actors -> BOOLEAN] /\ aborted \in [Actors -> BOOLEAN]
  /\ pc \in [Clients -> {"new", "start", "send", "submitted", "done"}]
  /\ handle \in [Clients -> Actors \cup {None}]
  /\ run \in [Clients -> {"none", "queued", "running", "finished", "cancelled", "dropped", "unstarted"}]
  /\ todo \in [Removers -> SUBSET Keys]

\* Admissions that race each other and removals never exceed the caps of
\* admit_seeded.  It is about sessions that admit let in: get_or_create enforces no cap.
CapsHold ==
  /\ MaxTotal > 0 => Cardinality(live) <= MaxTotal
  /\ MaxPerUser > 0 => \A k \in live : Cardinality({j \in live : UserOf[j] = UserOf[k]}) <= MaxPerUser

\* Nothing is left behind once the clients have come and gone: every run that was
\* submitted has ended and its submitter has heard of it, although its session may be
\* closed or reaped before it was taken or while it runs; no flag left set keeps a
\* session in the map; and an actor that is out of the map ends, even if a client
\* keeps its handle (remove, reap_idle and the end of the actor's task).
SessionsDrain ==
  <>[](/\ \A c \in Clients : run[c] \notin {"queued", "running"}
       /\ \A k \in Keys : map[k] = None
       /\ \A a \in Actors : state[a] \in {"unborn", "dead"})

===========================================================================
