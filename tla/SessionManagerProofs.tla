------------------------ MODULE SessionManagerProofs ------------------------
(***************************************************************************)
(* For every number of sessions, users, clients and actors: the pool never *)
(* exceeds its caps, and a run that was submitted is in the hands of the   *)
(* actor it was submitted to until it ends.                                *)
(***************************************************************************)
EXTENDS SessionManager, FiniteSetTheorems, TLAPS

\* Actors are spawned in order; one that is not yet spawned is blank, and the map
\* names none of them.
SpawnOrder ==
  /\ \A a \in Actors : a > spawned => state[a] = "unborn" /\ ~aborted[a]
  /\ \A k \in Keys : map[k] # None => map[k] <= spawned

\* An actor has a run in hand exactly while it is at work on it.
HandsOK == \A a \in Actors : cur[a] # None <=> state[a] \in {"taken", "running"}

\* A client has a handle from its admission on, and submits after that.
ClientOK ==
  \A c \in Clients :
    /\ pc[c] \in {"start", "send"} => handle[c] \in Actors
    /\ pc[c] \in {"new", "start", "send"} => run[c] = "none"

\* What an actor has, queued or in hand, are different runs submitted to it.
PlacesOK ==
  \A a \in Actors :
    /\ \A i \in 1 .. Len(queue[a]) :
         /\ handle[queue[a][i]] = a /\ run[queue[a][i]] = "queued" /\ queue[a][i] # cur[a]
         /\ \A j \in 1 .. Len(queue[a]) : queue[a][i] = queue[a][j] => i = j
    /\ cur[a] # None => /\ handle[cur[a]] = a
                        /\ run[cur[a]] = IF state[a] = "taken" THEN "queued" ELSE "running"

\* No run is lost: until it has ended, one that was submitted is in the channel or in the
\* hands of the live actor that the client's handle names.
NoRunLost ==
  \A c \in Clients : run[c] \in {"queued", "running"} =>
    /\ handle[c] \in Actors /\ state[handle[c]] # "dead"
    /\ cur[handle[c]] = c \/ (run[c] = "queued" /\ \E i \in 1 .. Len(queue[handle[c]]) : queue[handle[c]][i] = c)

SessionInv ==
  /\ SessionTypeOK /\ SpawnOrder /\ HandsOK /\ ClientOK /\ PlacesOK /\ NoRunLost /\ CapsHold

ActorState == {"unborn", "waiting", "taken", "running", "dead"}
Place == {"new", "start", "send", "submitted", "done"}
RunState == {"none", "queued", "running", "finished", "cancelled", "dropped", "unstarted"}

USE DEF map_vars, actor_vars, client_vars

-----------------------------------------------------------------------------
(* Helpers. *)

\* The initial states satisfy the invariant.
LEMMA SessionInit == Init => SessionInv
<1>. SUFFICES ASSUME Init PROVE SessionInv
  OBVIOUS
<1>. USE SessionAssumption DEF Init
<1>1. SessionTypeOK
  <2>1. idle \in [Keys -> BOOLEAN] /\ busy \in [Actors -> BOOLEAN] /\ aborted \in [Actors -> BOOLEAN]
    BY Zenon
  <2>2. spawned \in 0 .. MaxActors
    OBVIOUS
  <2>3. queue \in [Actors -> Seq(Clients)] /\ \A a \in Actors : Len(queue[a]) <= QueueCap
    OBVIOUS
  <2>4. QED
    BY <2>1, <2>2, <2>3 DEF SessionTypeOK
<1>2. SpawnOrder
  <2>1. \A a \in Actors : state[a] = "unborn" /\ ~aborted[a]
    BY Zenon
  <2>2. QED
    BY <2>1 DEF SpawnOrder
<1>3. HandsOK /\ ClientOK /\ PlacesOK /\ NoRunLost
  BY DEF HandsOK, ClientOK, PlacesOK, NoRunLost
<1>4. CapsHold
  <2>1. live = {}
    BY DEF live
  <2>2. Cardinality(live) = 0
    BY <2>1, FS_EmptySet
  <2>3. QED
    BY <2>1, <2>2 DEF CapsHold
<1>5. QED
  BY <1>1, <1>2, <1>3, <1>4 DEF SessionInv

\* The caps are about the map only.
LEMMA SameMap == ASSUME CapsHold, map' = map PROVE CapsHold'
<1>1. live' = live
  BY DEF live
<1>2. QED
  BY <1>1 DEF CapsHold

\* The runs' places are about the actors, the handles and the runs only.
LEMMA SameRuns ==
  ASSUME SessionInv, state' = state, queue' = queue, cur' = cur, handle' = handle, run' = run
  PROVE  HandsOK' /\ PlacesOK' /\ NoRunLost'
<1>1. HandsOK' /\ PlacesOK'
  BY DEF SessionInv, HandsOK, PlacesOK
<1>2. NoRunLost'
  BY DEF SessionInv, NoRunLost
<1>3. QED
  BY <1>1, <1>2

\* A session more or less, or none: sets of sessions are finite.
LEMMA LiveFinite ==
  /\ IsFiniteSet(live) /\ Cardinality(live) \in Nat
  /\ \A S \in SUBSET live : IsFiniteSet(S) /\ Cardinality(S) \in Nat /\ Cardinality(S) <= Cardinality(live)
<1>1. IsFiniteSet(Keys) /\ live \subseteq Keys
  BY SessionAssumption DEF live
<1>2. IsFiniteSet(live)
  BY <1>1, FS_Subset
<1>3. QED
  BY <1>2, FS_Subset, FS_CardinalityType

\* An admission under the caps keeps them.
LEMMA AdmitKeepsCaps ==
  ASSUME CapsHold, NEW k \in Keys, map[k] = None, has_capacity_for(k), NEW a, a # None,
         DOMAIN map = Keys, map' = [map EXCEPT ![k] = a]
  PROVE  CapsHold'
<1>. DEFINE of(u) == {j \in live : UserOf[j] = u}
<1>1. live' = live \cup {k} /\ k \notin live
  BY DEF live
<1>2. ASSUME MaxTotal > 0 PROVE Cardinality(live') <= MaxTotal
  <2>1. Cardinality(live') = Cardinality(live) + 1
    BY <1>1, LiveFinite, FS_AddElement
  <2>2. QED
    BY <1>2, <2>1, LiveFinite, SessionAssumption DEF has_capacity_for
<1>3. ASSUME MaxPerUser > 0, NEW j \in live'
      PROVE  Cardinality({i \in live' : UserOf[i] = UserOf[j]}) <= MaxPerUser
  <2>1. CASE UserOf[j] = UserOf[k]
    <3>1. {i \in live' : UserOf[i] = UserOf[j]} = of(UserOf[k]) \cup {k} /\ k \notin of(UserOf[k])
      BY <1>1, <2>1
    <3>2. IsFiniteSet(of(UserOf[k])) /\ Cardinality(of(UserOf[k])) \in Nat
      BY LiveFinite
    <3>3. Cardinality(of(UserOf[k])) < MaxPerUser
      BY <1>3 DEF has_capacity_for
    <3>. HIDE DEF of
    <3>4. Cardinality(of(UserOf[k]) \cup {k}) = Cardinality(of(UserOf[k])) + 1
      BY <3>1, <3>2, FS_AddElement
    <3>5. MaxPerUser \in Nat
      BY SessionAssumption
    <3>6. Cardinality(of(UserOf[k]) \cup {k}) <= MaxPerUser
      BY <3>2, <3>3, <3>4, <3>5
    <3>7. QED
      BY <3>1, <3>6
  <2>2. CASE UserOf[j] # UserOf[k]
    <3>1. {i \in live' : UserOf[i] = UserOf[j]} = {i \in live : UserOf[i] = UserOf[j]} /\ j \in live
      BY <1>1, <2>2
    <3>2. QED
      BY <1>3, <3>1 DEF CapsHold
  <2>3. QED
    BY <2>1, <2>2
<1>4. QED
  BY <1>2, <1>3 DEF CapsHold

\* A removal keeps the caps.
LEMMA RemoveKeepsCaps ==
  ASSUME CapsHold, NEW k \in Keys, DOMAIN map = Keys, map' = [map EXCEPT ![k] = None]
  PROVE  CapsHold'
<1>1. live' = live \ {k}
  BY DEF live
<1>2. ASSUME MaxTotal > 0 PROVE Cardinality(live') <= MaxTotal
  <2>1. Cardinality(live') \in Nat /\ Cardinality(live') <= Cardinality(live)
    BY <1>1, LiveFinite
  <2>2. QED
    BY <1>2, <2>1, LiveFinite, SessionAssumption DEF CapsHold
<1>3. ASSUME MaxPerUser > 0, NEW j \in live'
      PROVE  Cardinality({i \in live' : UserOf[i] = UserOf[j]}) <= MaxPerUser
  <2>. DEFINE S == {i \in live : UserOf[i] = UserOf[j]}
              T == {i \in live' : UserOf[i] = UserOf[j]}
  <2>1. T \subseteq S /\ j \in live
    BY <1>1
  <2>2. IsFiniteSet(S) /\ Cardinality(S) \in Nat
    BY LiveFinite
  <2>3. Cardinality(S) <= MaxPerUser
    BY <1>3, <2>1 DEF CapsHold
  <2>. HIDE DEF S, T
  <2>4. IsFiniteSet(T) /\ Cardinality(T) <= Cardinality(S) /\ Cardinality(T) \in Nat
    BY <2>1, <2>2, FS_Subset, FS_CardinalityType
  <2>5. Cardinality(T) <= MaxPerUser
    BY <2>2, <2>3, <2>4, SessionAssumption
  <2>6. QED
    BY <2>5 DEF T
<1>4. QED
  BY <1>2, <1>3 DEF CapsHold

-----------------------------------------------------------------------------
(* The clients. *)

\* A client that has submitted nothing gets a handle: no run is affected.
LEMMA HandleStep ==
  ASSUME SessionInv, NEW c \in Clients, pc[c] = "new", NEW a \in Actors,
         handle' = [handle EXCEPT ![c] = a], pc' = [pc EXCEPT ![c] = admitted(c)], run' = run
  PROVE  /\ handle' \in [Clients -> Actors \cup {None}] /\ pc' \in [Clients -> Place] /\ ClientOK'
         /\ \A d \in Clients : run[d] # "none" => handle'[d] = handle[d]
<1>. USE DEF SessionInv
<1>1. /\ handle' \in [Clients -> Actors \cup {None}] /\ handle'[c] = a
      /\ \A d \in Clients : d # c => handle'[d] = handle[d]
  BY DEF SessionTypeOK
<1>2. admitted(c) \in {"start", "send"}
  BY DEF admitted
<1>3. /\ pc' \in [Clients -> Place] /\ pc'[c] = admitted(c)
      /\ \A d \in Clients : d # c => pc'[d] = pc[d]
  BY <1>2 DEF SessionTypeOK, Place
<1>4. ClientOK' /\ run[c] = "none"
  BY <1>1, <1>2, <1>3 DEF ClientOK
<1>5. QED
  BY <1>1, <1>3, <1>4

\* Runs keep their places when the handles of submitted runs stay.
LEMMA SamePlaces ==
  ASSUME SessionInv, queue' = queue, cur' = cur, run' = run,
         \A d \in Clients : run[d] # "none" => handle'[d] = handle[d],
         \A a \in Actors : cur[a] # None \/ state[a] # "unborn" => state'[a] = state[a],
         \A a \in Actors : state'[a] = "dead" => state[a] = "dead"
  PROVE  PlacesOK' /\ NoRunLost'
<1>. USE DEF SessionInv
<1>1. \A a \in Actors : \A i \in 1 .. Len(queue[a]) : queue[a][i] \in Clients
  BY DEF SessionTypeOK
<1>2. \A a \in Actors : cur[a] # None => cur[a] \in Clients
  BY DEF SessionTypeOK
<1>3. PlacesOK'
  BY <1>1, <1>2 DEF PlacesOK
<1>4. NoRunLost'
  BY DEF NoRunLost
<1>5. QED
  BY <1>3, <1>4

\* A session that is live is handed out.
LEMMA AdmitLiveStep ==
  ASSUME SessionInv, NEW c \in Clients, admit_live(c)
  PROVE  SessionInv'
<1>. USE SessionAssumption DEF SessionInv
<1>1. KeyOf[c] \in Keys /\ map[KeyOf[c]] \in Actors /\ pc[c] = "new"
  BY DEF admit_live, SessionTypeOK
<1>2. /\ map' = map /\ spawned' = spawned /\ state' = state /\ queue' = queue /\ cur' = cur
      /\ busy' = busy /\ aborted' = aborted /\ run' = run /\ todo' = todo
      /\ idle' = [idle EXCEPT ![KeyOf[c]] = FALSE]
      /\ handle' = [handle EXCEPT ![c] = map[KeyOf[c]]] /\ pc' = [pc EXCEPT ![c] = admitted(c)]
  BY DEF admit_live
<1>3. /\ handle' \in [Clients -> Actors \cup {None}] /\ pc' \in [Clients -> Place] /\ ClientOK'
      /\ \A d \in Clients : run[d] # "none" => handle'[d] = handle[d]
  BY <1>1, <1>2, HandleStep
<1>4. PlacesOK' /\ NoRunLost'
  BY <1>2, <1>3, SamePlaces
<1>5. idle' \in [Keys -> BOOLEAN]
  BY <1>1, <1>2, Zenon DEF SessionTypeOK
<1>6. SessionTypeOK'
  BY <1>2, <1>3, <1>5 DEF SessionTypeOK, Place
<1>7. SpawnOrder' /\ HandsOK'
  BY <1>2 DEF SpawnOrder, HandsOK
<1>8. QED
  BY <1>2, <1>3, <1>4, <1>6, <1>7, SameMap

\* A session is spawned under the caps.
LEMMA AdmitNewStep ==
  ASSUME SessionInv, NEW c \in Clients, admit_new(c)
  PROVE  SessionInv'
<1>. USE SessionAssumption DEF SessionInv
<1>. DEFINE a == spawned + 1
            k == KeyOf[c]
<1>1. /\ k \in Keys /\ map[k] = None /\ has_capacity_for(k) /\ pc[c] = "new"
      /\ a \in Actors /\ a # None /\ spawned \in Nat
  <2>1. k \in Keys /\ spawned \in Nat
    BY DEF SessionTypeOK
  <2>2. map[k] = None /\ has_capacity_for(k) /\ pc[c] = "new" /\ a \in Actors
    BY DEF admit_new
  <2>3. QED
    BY <2>1, <2>2
<1>2. /\ spawned' = a /\ map' = [map EXCEPT ![k] = a] /\ idle' = [idle EXCEPT ![k] = FALSE]
      /\ state' = [state EXCEPT ![a] = "waiting"] /\ queue' = queue /\ cur' = cur
      /\ busy' = busy /\ aborted' = aborted /\ run' = run /\ todo' = todo
      /\ handle' = [handle EXCEPT ![c] = a] /\ pc' = [pc EXCEPT ![c] = admitted(c)]
  BY DEF admit_new
<1>. HIDE DEF k
<1>3. /\ handle' \in [Clients -> Actors \cup {None}] /\ pc' \in [Clients -> Place] /\ ClientOK'
      /\ \A d \in Clients : run[d] # "none" => handle'[d] = handle[d]
  BY <1>1, <1>2, HandleStep
<1>4. state[a] = "unborn" /\ cur[a] = None
  BY <1>1 DEF SpawnOrder, HandsOK
<1>5. /\ state' \in [Actors -> ActorState]
      /\ \A b \in Actors : state'[b] = IF b = a THEN "waiting" ELSE state[b]
  BY <1>1, <1>2 DEF SessionTypeOK, ActorState
<1>6. PlacesOK' /\ NoRunLost'
  BY <1>2, <1>3, <1>4, <1>5, SamePlaces
<1>7. HandsOK'
  BY <1>2, <1>4, <1>5 DEF HandsOK
<1>8. /\ map' \in [Keys -> Actors \cup {None}]
      /\ \A j \in Keys : map'[j] = IF j = k THEN a ELSE map[j]
  BY <1>1, <1>2 DEF SessionTypeOK
<1>9. SpawnOrder'
  <2>1. \A b \in Actors : b > a => b > spawned /\ b # a
    BY <1>1 DEF Actors
  <2>2. \A j \in Keys : map'[j] # None => map'[j] <= a
    <3>1. \A j \in Keys : map[j] # None => map[j] \in Nat /\ map[j] <= spawned
      BY DEF SpawnOrder, SessionTypeOK, Actors
    <3>2. QED
      BY <1>1, <1>8, <3>1
  <2>3. QED
    BY <1>2, <1>5, <2>1, <2>2 DEF SpawnOrder
<1>10. CapsHold'
  <2>1. DOMAIN map = Keys
    BY DEF SessionTypeOK
  <2>. HIDE DEF a
  <2>2. QED
    BY <1>1, <1>2, <2>1, AdmitKeepsCaps
<1>11. idle' \in [Keys -> BOOLEAN]
  BY <1>1, <1>2, Zenon DEF SessionTypeOK
<1>12. spawned' \in 0 .. MaxActors
  BY <1>1, <1>2 DEF Actors
<1>13. SessionTypeOK'
  BY <1>2, <1>3, <1>5, <1>8, <1>11, <1>12 DEF SessionTypeOK, Place, ActorState
<1>14. QED
  BY <1>3, <1>6, <1>7, <1>9, <1>10, <1>13

\* The caps refuse, or the client goes away.
LEMMA LeaveStep ==
  ASSUME SessionInv, NEW c \in Clients, admit_refused(c) \/ disconnect(c)
  PROVE  SessionInv'
<1>. USE DEF SessionInv
<1>1. /\ map' = map /\ spawned' = spawned /\ idle' = idle /\ state' = state /\ queue' = queue /\ cur' = cur
      /\ busy' = busy /\ aborted' = aborted /\ run' = run /\ todo' = todo /\ handle' = handle
      /\ pc' = [pc EXCEPT ![c] = "done"]
  BY DEF admit_refused, disconnect
<1>2. /\ pc' \in [Clients -> Place] /\ pc'[c] = "done"
      /\ \A d \in Clients : d # c => pc'[d] = pc[d]
  BY <1>1 DEF SessionTypeOK, Place
<1>3. ClientOK'
  BY <1>1, <1>2 DEF ClientOK
<1>4. SessionTypeOK' /\ SpawnOrder'
  BY <1>1, <1>2 DEF SessionTypeOK, SpawnOrder, Place
<1>5. QED
  BY <1>1, <1>3, <1>4, SameRuns, SameMap

\* A heartbeat, or its absence.
LEMMA IdleStep ==
  ASSUME SessionInv, NEW k \in Keys, touch(k) \/ idle_after(k)
  PROVE  SessionInv'
<1>. USE DEF SessionInv
<1>1. /\ map' = map /\ spawned' = spawned /\ state' = state /\ queue' = queue /\ cur' = cur
      /\ busy' = busy /\ aborted' = aborted /\ run' = run /\ todo' = todo /\ handle' = handle
      /\ pc' = pc /\ (idle' = [idle EXCEPT ![k] = TRUE] \/ idle' = [idle EXCEPT ![k] = FALSE])
  BY DEF touch, idle_after
<1>2. idle' \in [Keys -> BOOLEAN]
  BY <1>1, Zenon DEF SessionTypeOK
<1>3. ClientOK' /\ SpawnOrder'
  BY <1>1 DEF ClientOK, SpawnOrder
<1>4. SessionTypeOK'
  BY <1>1, <1>2 DEF SessionTypeOK
<1>5. QED
  BY <1>1, <1>3, <1>4, SameRuns, SameMap

-----------------------------------------------------------------------------
(* Submissions. *)

\* The run in an actor's hands was submitted.
LEMMA InHandsSubmitted ==
  ASSUME SessionInv
  PROVE  \A b \in Actors : cur[b] # None => cur[b] \in Clients /\ run[cur[b]] # "none"
<1>1. \A b \in Actors : cur[b] # None => cur[b] \in Clients
  BY DEF SessionInv, SessionTypeOK
<1>2. \A b \in Actors : cur[b] # None => run[cur[b]] \in {"queued", "running"}
  BY DEF SessionInv, PlacesOK
<1>3. QED
  BY <1>1, <1>2

\* A run is queued: it was in no place before, and is in one now.
LEMMA SubmitPlaces ==
  ASSUME SessionInv, NEW c \in Clients, pc[c] \in {"start", "send"}, submits(c),
         state[handle[c]] # "dead", Len(queue[handle[c]]) < QueueCap,
         state' = state, cur' = cur, handle' = handle
  PROVE  /\ queue' \in [Actors -> Seq(Clients)] /\ \A a \in Actors : Len(queue'[a]) <= QueueCap
         /\ run' \in [Clients -> RunState] /\ \A d \in Clients : d # c => run'[d] = run[d]
         /\ PlacesOK' /\ NoRunLost'
<1>. USE DEF SessionInv
<1>. DEFINE a == handle[c]
            n == Len(queue[a])
<1>1. a \in Actors /\ a = handle[c] /\ run[c] = "none" /\ state[a] # "dead"
  BY DEF ClientOK
<1>2. /\ queue[a] \in Seq(Clients) /\ n \in Nat /\ n = Len(queue[a]) /\ n < QueueCap
      /\ QueueCap \in Nat
  BY <1>1, SessionAssumption DEF SessionTypeOK
<1>. HIDE DEF a, n
<1>3. /\ queue' \in [Actors -> Seq(Clients)] /\ queue'[a] = Append(queue[a], c)
      /\ \A b \in Actors : b # a => queue'[b] = queue[b]
  BY <1>1, <1>2 DEF submits, SessionTypeOK
<1>4. /\ Len(queue'[a]) = n + 1 /\ queue'[a][n + 1] = c
      /\ \A i \in 1 .. n : queue'[a][i] = queue[a][i] /\ queue[a][i] \in Clients
  BY <1>2, <1>3
<1>5. \A b \in Actors : Len(queue'[b]) <= QueueCap
  <2>1. \A b \in Actors : Len(queue[b]) <= QueueCap
    BY DEF SessionTypeOK
  <2>2. Len(queue'[a]) <= QueueCap
    BY <1>2, <1>4
  <2>3. QED
    BY <1>3, <2>1, <2>2
<1>6. /\ run' \in [Clients -> RunState] /\ run'[c] = "queued"
      /\ \A d \in Clients : d # c => run'[d] = run[d]
  BY DEF submits, SessionTypeOK, RunState
<1>7. \A b \in Actors : cur[b] # None => cur[b] \in Clients /\ cur[b] # c
  BY <1>1, InHandsSubmitted
<1>8. \A b \in Actors : \A i \in 1 .. Len(queue[b]) : queue[b][i] \in Clients /\ queue[b][i] # c
  BY <1>1 DEF PlacesOK, SessionTypeOK
<1>9. PlacesOK'
  <2>1. ASSUME NEW b \in Actors, NEW i \in 1 .. Len(queue'[b])
        PROVE  /\ handle[queue'[b][i]] = b /\ run'[queue'[b][i]] = "queued"
               /\ queue'[b][i] # cur[b]
               /\ \A j \in 1 .. Len(queue'[b]) : queue'[b][i] = queue'[b][j] => i = j
    <3>1. CASE b # a
      BY <1>3, <1>6, <1>8, <3>1 DEF PlacesOK
    <3>2. CASE b = a /\ i \in 1 .. n
      <4>1. queue'[a][i] = queue[a][i] /\ queue[a][i] # c /\ queue[a][i] \in Clients
        BY <1>1, <1>2, <1>4, <1>8, <3>2
      <4>2. \A j \in 1 .. Len(queue'[a]) : queue[a][i] = queue'[a][j] => j \in 1 .. n /\ queue'[a][j] = queue[a][j]
        BY <1>2, <1>4, <4>1
      <4>3. /\ handle[queue[a][i]] = a /\ run[queue[a][i]] = "queued" /\ queue[a][i] # cur[a]
            /\ \A j \in 1 .. n : queue[a][i] = queue[a][j] => i = j
        BY <1>1, <1>2, <3>2 DEF PlacesOK
      <4>4. QED
        BY <1>6, <3>2, <4>1, <4>2, <4>3
    <3>3. CASE b = a /\ i = n + 1
      <4>1. \A j \in 1 .. n : queue'[a][j] # c
        BY <1>1, <1>2, <1>4, <1>8
      <4>2. c # cur[a]
        <5>1. c # None
          BY SessionAssumption, Zenon
        <5>2. QED
          BY <1>1, <1>7, <5>1
      <4>3. QED
        BY <1>1, <1>2, <1>4, <1>6, <3>3, <4>1, <4>2
    <3>4. b # a \/ (b = a /\ i \in 1 .. n) \/ (b = a /\ i = n + 1)
      BY <1>2, <1>4, <2>1
    <3>5. QED
      BY <3>1, <3>2, <3>3, <3>4
  <2>2. ASSUME NEW b \in Actors, cur[b] # None
        PROVE  /\ handle[cur[b]] = b
               /\ run'[cur[b]] = IF state[b] = "taken" THEN "queued" ELSE "running"
    BY <1>6, <1>7, <2>2 DEF PlacesOK
  <2>3. QED
    BY <2>1, <2>2 DEF PlacesOK
<1>10. NoRunLost'
  <2>1. ASSUME NEW d \in Clients, d # c, run'[d] \in {"queued", "running"}
        PROVE  /\ handle[d] \in Actors /\ state[handle[d]] # "dead"
               /\ cur[handle[d]] = d \/ (run'[d] = "queued" /\ \E i \in 1 .. Len(queue'[handle[d]]) : queue'[handle[d]][i] = d)
    <3>1. run'[d] = run[d]
      BY <1>6, <2>1
    <3>2. /\ handle[d] \in Actors /\ state[handle[d]] # "dead"
          /\ cur[handle[d]] = d \/ (run[d] = "queued" /\ \E i \in 1 .. Len(queue[handle[d]]) : queue[handle[d]][i] = d)
      BY <2>1, <3>1 DEF NoRunLost
    <3>3. \A b \in Actors : \A i \in 1 .. Len(queue[b]) : i \in 1 .. Len(queue'[b]) /\ queue'[b][i] = queue[b][i]
      <4>1. \A i \in 1 .. Len(queue[a]) : i \in 1 .. Len(queue'[a]) /\ queue'[a][i] = queue[a][i]
        BY <1>2, <1>4
      <4>2. QED
        BY <1>3, <4>1
    <3>4. QED
      BY <3>1, <3>2, <3>3
  <2>2. n + 1 \in 1 .. Len(queue'[a]) /\ queue'[a][n + 1] = c
    BY <1>2, <1>4
  <2>3. QED
    BY <1>1, <1>6, <2>1, <2>2 DEF NoRunLost
<1>11. QED
  BY <1>3, <1>5, <1>6, <1>9, <1>10

\* A run that is in no place is refused: no other is affected.
LEMMA RefusePlaces ==
  ASSUME SessionInv, NEW c \in Clients, run[c] = "none", NEW o \in {"unstarted", "dropped"},
         run' = [run EXCEPT ![c] = o], state' = state, cur' = cur, handle' = handle, queue' = queue
  PROVE  /\ run' \in [Clients -> RunState] /\ \A d \in Clients : d # c => run'[d] = run[d]
         /\ PlacesOK' /\ NoRunLost'
<1>. USE DEF SessionInv
<1>1. /\ run' \in [Clients -> RunState] /\ run'[c] = o
      /\ \A d \in Clients : d # c => run'[d] = run[d]
  BY DEF SessionTypeOK, RunState
<1>2. \A b \in Actors : cur[b] # None => cur[b] \in Clients /\ cur[b] # c
  BY InHandsSubmitted
<1>3. \A b \in Actors : \A i \in 1 .. Len(queue[b]) : queue[b][i] \in Clients /\ queue[b][i] # c
  BY DEF PlacesOK, SessionTypeOK
<1>4. PlacesOK'
  BY <1>1, <1>2, <1>3 DEF PlacesOK
<1>5. NoRunLost'
  BY <1>1 DEF NoRunLost
<1>6. QED
  BY <1>1, <1>4, <1>5

\* A client submits, or is told that it cannot.
LEMMA SubmitStep ==
  ASSUME SessionInv, NEW c \in Clients, client_step(c)
  PROVE  SessionInv'
<1>. USE DEF SessionInv
<1>1. /\ map' = map /\ spawned' = spawned /\ idle' = idle /\ state' = state /\ cur' = cur
      /\ busy' = busy /\ aborted' = aborted /\ todo' = todo /\ handle' = handle
      /\ pc' = [pc EXCEPT ![c] = "submitted"] /\ pc[c] \in {"start", "send"}
  BY DEF client_step, start, send
<1>2. run[c] = "none"
  BY <1>1 DEF ClientOK
<1>3. /\ queue' \in [Actors -> Seq(Clients)] /\ \A a \in Actors : Len(queue'[a]) <= QueueCap
      /\ run' \in [Clients -> RunState] /\ \A d \in Clients : d # c => run'[d] = run[d]
      /\ PlacesOK' /\ NoRunLost'
  <2>1. CASE submits(c) /\ state[handle[c]] # "dead" /\ Len(queue[handle[c]]) < QueueCap
    BY <1>1, <2>1, SubmitPlaces
  <2>2. ASSUME NEW o \in {"unstarted", "dropped"}, run' = [run EXCEPT ![c] = o], queue' = queue
        PROVE  /\ queue' \in [Actors -> Seq(Clients)] /\ \A a \in Actors : Len(queue'[a]) <= QueueCap
               /\ run' \in [Clients -> RunState] /\ \A d \in Clients : d # c => run'[d] = run[d]
               /\ PlacesOK' /\ NoRunLost'
    <3>1. /\ run' \in [Clients -> RunState] /\ \A d \in Clients : d # c => run'[d] = run[d]
          /\ PlacesOK' /\ NoRunLost'
      BY <1>1, <1>2, <2>2, RefusePlaces
    <3>2. queue' \in [Actors -> Seq(Clients)] /\ \A a \in Actors : Len(queue'[a]) <= QueueCap
      BY <2>2 DEF SessionTypeOK
    <3>3. QED
      BY <3>1, <3>2
  <2>3. \/ submits(c) /\ state[handle[c]] # "dead" /\ Len(queue[handle[c]]) < QueueCap
        \/ \E o \in {"unstarted", "dropped"} : run' = [run EXCEPT ![c] = o] /\ queue' = queue
    BY DEF client_step, start, send, has_room
  <2>4. QED
    BY <2>1, <2>2, <2>3
<1>4. /\ pc' \in [Clients -> Place] /\ pc'[c] = "submitted"
      /\ \A d \in Clients : d # c => pc'[d] = pc[d]
  BY <1>1 DEF SessionTypeOK, Place
<1>5. ClientOK'
  BY <1>1, <1>3, <1>4 DEF ClientOK
<1>6. SpawnOrder' /\ HandsOK'
  BY <1>1 DEF SpawnOrder, HandsOK
<1>7. SessionTypeOK'
  BY <1>1, <1>3, <1>4 DEF SessionTypeOK, Place, RunState
<1>8. QED
  BY <1>1, <1>3, <1>5, <1>6, <1>7, SameMap

-----------------------------------------------------------------------------
(* The actors. *)

\* What stays when only actors and runs change.
LEMMA ActorFrame ==
  ASSUME SessionInv, map' = map, spawned' = spawned, idle' = idle, aborted' = aborted,
         pc' = pc, handle' = handle, todo' = todo,
         NEW a \in Actors, a <= spawned,
         \A b \in Actors : b # a => state'[b] = state[b],
         \A c \in Clients : run[c] = "none" => run'[c] = "none"
  PROVE  SpawnOrder' /\ ClientOK' /\ CapsHold'
<1>. USE DEF SessionInv
<1>1. \A b \in Actors : b > spawned => b # a
  BY DEF SessionTypeOK, Actors
<1>2. SpawnOrder'
  BY <1>1 DEF SpawnOrder
<1>3. ClientOK'
  BY DEF ClientOK
<1>4. QED
  BY <1>2, <1>3, SameMap

\* An actor that has been at work, or aborted, was spawned.
LEMMA Spawned ==
  ASSUME SessionInv, NEW a \in Actors, state[a] # "unborn" \/ aborted[a]
  PROVE  a <= spawned
BY DEF SessionInv, SpawnOrder, SessionTypeOK, Actors

\* An idle actor takes the oldest run of its channel.
LEMMA RecvStep ==
  ASSUME SessionInv, NEW a \in Actors, recv(a)
  PROVE  SessionInv'
<1>. USE DEF SessionInv
<1>. DEFINE q == queue[a]
<1>1. /\ map' = map /\ spawned' = spawned /\ idle' = idle /\ busy' = busy /\ aborted' = aborted
      /\ pc' = pc /\ handle' = handle /\ run' = run /\ todo' = todo
      /\ state[a] = "waiting" /\ q # <<>> /\ cur' = [cur EXCEPT ![a] = Head(q)]
      /\ queue' = [queue EXCEPT ![a] = Tail(q)] /\ state' = [state EXCEPT ![a] = "taken"]
  BY DEF recv, SessionTypeOK
<1>2. /\ q \in Seq(Clients) /\ Len(q) \in Nat \ {0} /\ Len(q) <= QueueCap /\ Head(q) = q[1]
      /\ Tail(q) \in Seq(Clients) /\ Len(Tail(q)) = Len(q) - 1 /\ q[1] \in Clients
      /\ \A i \in 1 .. Len(q) - 1 : Tail(q)[i] = q[i + 1]
  BY <1>1 DEF SessionTypeOK
<1>3. /\ state' \in [Actors -> ActorState]
      /\ \A b \in Actors : state'[b] = IF b = a THEN "taken" ELSE state[b]
  BY <1>1 DEF SessionTypeOK, ActorState
<1>4. /\ cur' \in [Actors -> Clients \cup {None}]
      /\ \A b \in Actors : cur'[b] = IF b = a THEN q[1] ELSE cur[b]
  BY <1>1, <1>2 DEF SessionTypeOK
<1>5. /\ queue' \in [Actors -> Seq(Clients)] /\ queue'[a] = Tail(q)
      /\ \A b \in Actors : b # a => queue'[b] = queue[b]
  BY <1>1, <1>2 DEF SessionTypeOK
<1>6. \A b \in Actors : Len(queue'[b]) <= QueueCap
  <2>1. QueueCap \in Nat /\ \A b \in Actors : Len(queue[b]) <= QueueCap
    BY SessionAssumption DEF SessionTypeOK
  <2>. HIDE DEF q
  <2>2. QED
    BY <1>2, <1>5, <2>1
<1>7. SessionTypeOK'
  BY <1>1, <1>3, <1>4, <1>5, <1>6 DEF SessionTypeOK, ActorState
<1>8. SpawnOrder' /\ ClientOK' /\ CapsHold'
  <2>1. a <= spawned
    BY <1>1, Spawned
  <2>2. QED
    BY <1>1, <1>3, <2>1, ActorFrame
<1>9. HandsOK'
  <2>1. q[1] # None
    BY <1>2, SessionAssumption, Zenon
  <2>2. QED
    BY <1>3, <1>4, <2>1 DEF HandsOK
<1>10. PlacesOK'
  <2>1. /\ handle[q[1]] = a /\ run[q[1]] = "queued"
        /\ \A i \in 1 .. Len(q) - 1 : /\ handle[q[i + 1]] = a /\ run[q[i + 1]] = "queued" /\ q[i + 1] # q[1]
                                      /\ \A j \in 1 .. Len(q) - 1 : q[i + 1] = q[j + 1] => i = j
    <3>1. \A i \in 1 .. Len(q) : /\ handle[q[i]] = a /\ run[q[i]] = "queued"
                                 /\ \A j \in 1 .. Len(q) : q[i] = q[j] => i = j
      BY DEF PlacesOK
    <3>2. \A i \in 1 .. Len(q) - 1 : i + 1 \in 1 .. Len(q) /\ i + 1 # 1
      BY <1>2
    <3>3. 1 \in 1 .. Len(q)
      BY <1>2
    <3>. HIDE DEF q
    <3>4. QED
      BY <3>1, <3>2, <3>3
  <2>2. /\ \A i \in 1 .. Len(queue'[a]) :
             /\ handle[queue'[a][i]] = a /\ run[queue'[a][i]] = "queued" /\ queue'[a][i] # cur'[a]
             /\ \A j \in 1 .. Len(queue'[a]) : queue'[a][i] = queue'[a][j] => i = j
        /\ handle[cur'[a]] = a /\ run[cur'[a]] = "queued" /\ state'[a] = "taken"
    <3>. HIDE DEF q
    <3>1. QED
      BY <1>2, <1>3, <1>4, <1>5, <2>1
  <2>3. \A b \in Actors : b # a => /\ queue'[b] = queue[b] /\ cur'[b] = cur[b] /\ state'[b] = state[b]
    BY <1>3, <1>4, <1>5
  <2>4. run' = run /\ handle' = handle
    BY <1>1
  <2>5. ASSUME NEW b \in Actors, b # a
        PROVE  /\ \A i \in 1 .. Len(queue'[b]) :
                    /\ handle[queue'[b][i]] = b /\ run[queue'[b][i]] = "queued" /\ queue'[b][i] # cur'[b]
                    /\ \A j \in 1 .. Len(queue'[b]) : queue'[b][i] = queue'[b][j] => i = j
               /\ cur'[b] # None => /\ handle[cur'[b]] = b
                                    /\ run[cur'[b]] = IF state'[b] = "taken" THEN "queued" ELSE "running"
    BY <2>3, <2>5 DEF PlacesOK
  <2>6. QED
    BY <2>2, <2>4, <2>5 DEF PlacesOK
<1>11. NoRunLost'
  <2>1. ASSUME NEW c \in Clients, run[c] \in {"queued", "running"}
        PROVE  /\ handle[c] \in Actors /\ state'[handle[c]] # "dead"
               /\ cur'[handle[c]] = c \/ (run[c] = "queued" /\ \E i \in 1 .. Len(queue'[handle[c]]) : queue'[handle[c]][i] = c)
    <3>1. /\ handle[c] \in Actors /\ state[handle[c]] # "dead"
          /\ cur[handle[c]] = c \/ (run[c] = "queued" /\ \E i \in 1 .. Len(queue[handle[c]]) : queue[handle[c]][i] = c)
      BY <2>1 DEF NoRunLost
    <3>2. CASE handle[c] # a
      BY <1>3, <1>4, <1>5, <3>1, <3>2
    <3>3. CASE handle[c] = a
      <4>1. cur[a] = None /\ c # None
        <5>1. c # None
          BY SessionAssumption, Zenon
        <5>2. QED
          BY <1>1, <5>1 DEF HandsOK
      <4>2. PICK i \in 1 .. Len(q) : q[i] = c /\ run[c] = "queued"
        BY <3>1, <3>3, <4>1
      <4>. HIDE DEF q
      <4>3. CASE i = 1
        BY <1>3, <1>4, <3>1, <3>3, <4>2, <4>3
      <4>4. CASE i # 1
        <5>1. i - 1 \in 1 .. Len(q) - 1 /\ Tail(q)[i - 1] = c
          <6>1. i - 1 \in 1 .. Len(q) - 1 /\ (i - 1) + 1 = i
            BY <1>2, <4>4
          <6>2. QED
            BY <1>2, <4>2, <6>1
        <5>2. QED
          BY <1>2, <1>3, <1>5, <3>1, <3>3, <4>2, <5>1
      <4>5. QED
        BY <4>3, <4>4
    <3>4. QED
      BY <3>2, <3>3
  <2>2. run' = run /\ handle' = handle
    BY <1>1
  <2>3. QED
    BY <2>1, <2>2 DEF NoRunLost
<1>12. QED
  BY <1>7, <1>8, <1>9, <1>10, <1>11

\* The run in hand begins.
LEMMA BeginStep ==
  ASSUME SessionInv, NEW a \in Actors, begin(a)
  PROVE  SessionInv'
<1>. USE DEF SessionInv
<1>1. /\ map' = map /\ spawned' = spawned /\ idle' = idle /\ aborted' = aborted
      /\ pc' = pc /\ handle' = handle /\ todo' = todo /\ queue' = queue /\ cur' = cur
      /\ state[a] = "taken" /\ busy' = [busy EXCEPT ![a] = TRUE]
      /\ state' = [state EXCEPT ![a] = "running"] /\ run' = [run EXCEPT ![cur[a]] = "running"]
  BY DEF begin
<1>2. cur[a] # None /\ cur[a] \in Clients /\ handle[cur[a]] = a /\ run[cur[a]] = "queued"
  BY <1>1, InHandsSubmitted DEF HandsOK, PlacesOK
<1>3. /\ state' \in [Actors -> ActorState]
      /\ \A b \in Actors : state'[b] = IF b = a THEN "running" ELSE state[b]
  BY <1>1 DEF SessionTypeOK, ActorState
<1>4. /\ run' \in [Clients -> RunState]
      /\ \A c \in Clients : run'[c] = IF c = cur[a] THEN "running" ELSE run[c]
  BY <1>1, <1>2 DEF SessionTypeOK, RunState
<1>5. busy' \in [Actors -> BOOLEAN]
  BY <1>1, Zenon DEF SessionTypeOK
<1>6. SessionTypeOK'
  BY <1>1, <1>3, <1>4, <1>5 DEF SessionTypeOK, ActorState, RunState
<1>7. SpawnOrder' /\ ClientOK' /\ CapsHold'
  <2>1. a <= spawned
    BY <1>1, Spawned
  <2>2. QED
    BY <1>1, <1>2, <1>3, <1>4, <2>1, ActorFrame
<1>8. HandsOK'
  BY <1>1, <1>3 DEF HandsOK
<1>9. PlacesOK'
  <2>1. ASSUME NEW b \in Actors, NEW i \in 1 .. Len(queue[b])
        PROVE  /\ handle[queue[b][i]] = b /\ run'[queue[b][i]] = "queued" /\ queue[b][i] # cur[b]
               /\ \A j \in 1 .. Len(queue[b]) : queue[b][i] = queue[b][j] => i = j
    <3>1. /\ handle[queue[b][i]] = b /\ run[queue[b][i]] = "queued" /\ queue[b][i] # cur[b]
          /\ \A j \in 1 .. Len(queue[b]) : queue[b][i] = queue[b][j] => i = j
      BY DEF PlacesOK
    <3>2. queue[b][i] \in Clients
      BY DEF SessionTypeOK
    <3>3. queue[b][i] # cur[a]
      BY <1>2, <3>1
    <3>4. QED
      BY <1>4, <3>1, <3>2, <3>3
  <2>2. ASSUME NEW b \in Actors, cur[b] # None
        PROVE  /\ handle[cur[b]] = b
               /\ run'[cur[b]] = IF state'[b] = "taken" THEN "queued" ELSE "running"
    <3>1. cur[b] \in Clients /\ handle[cur[b]] = b /\ run[cur[b]] = IF state[b] = "taken" THEN "queued" ELSE "running"
      BY <2>2, InHandsSubmitted DEF PlacesOK
    <3>2. cur[b] = cur[a] <=> b = a
      BY <1>2, <3>1
    <3>3. QED
      BY <1>3, <1>4, <3>1, <3>2
  <2>3. QED
    BY <1>1, <2>1, <2>2 DEF PlacesOK
<1>10. NoRunLost'
  <2>1. ASSUME NEW c \in Clients, run'[c] \in {"queued", "running"}
        PROVE  /\ handle[c] \in Actors /\ state'[handle[c]] # "dead"
               /\ cur[handle[c]] = c \/ (run'[c] = "queued" /\ \E i \in 1 .. Len(queue[handle[c]]) : queue[handle[c]][i] = c)
    <3>1. CASE c = cur[a]
      BY <1>2, <1>3, <3>1
    <3>2. CASE c # cur[a]
      BY <1>3, <1>4, <2>1, <3>2 DEF NoRunLost
    <3>3. QED
      BY <3>1, <3>2
  <2>2. QED
    BY <1>1, <2>1 DEF NoRunLost
<1>11. QED
  BY <1>6, <1>7, <1>8, <1>9, <1>10

\* A set of runs of one actor ends and leaves it: the others keep their places.
LEMMA EndedPlaces ==
  ASSUME SessionInv, NEW a \in Actors, NEW D \in SUBSET Clients, handle' = handle,
         \A c \in D : handle[c] = a,
         \A c \in Clients : IF c \in D THEN run'[c] \notin {"queued", "running"} ELSE run'[c] = run[c],
         \A b \in Actors \ {a} : queue'[b] = queue[b] /\ cur'[b] = cur[b] /\ state'[b] = state[b],
         cur'[a] = None,
         \/ queue'[a] = queue[a] /\ state'[a] # "dead" /\ D = {cur[a]}
         \/ queue'[a] = <<>> /\ \A c \in Clients : c = cur[a] \/ (\E i \in 1 .. Len(queue[a]) : queue[a][i] = c) => c \in D
  PROVE  PlacesOK' /\ NoRunLost'
<1>. USE DEF SessionInv
<1>1. \A b \in Actors : \A i \in 1 .. Len(queue[b]) :
        /\ queue[b][i] \in Clients /\ handle[queue[b][i]] = b /\ run[queue[b][i]] = "queued"
        /\ queue[b][i] # cur[b] /\ \A j \in 1 .. Len(queue[b]) : queue[b][i] = queue[b][j] => i = j
  BY DEF PlacesOK, SessionTypeOK
<1>2. \A b \in Actors : cur[b] # None =>
        /\ cur[b] \in Clients /\ handle[cur[b]] = b
        /\ run[cur[b]] = IF state[b] = "taken" THEN "queued" ELSE "running"
  BY InHandsSubmitted DEF PlacesOK
<1>3. PlacesOK'
  <2>1. ASSUME NEW b \in Actors, b # a
        PROVE  /\ \A i \in 1 .. Len(queue'[b]) :
                    /\ handle[queue'[b][i]] = b /\ run'[queue'[b][i]] = "queued" /\ queue'[b][i] # cur'[b]
                    /\ \A j \in 1 .. Len(queue'[b]) : queue'[b][i] = queue'[b][j] => i = j
               /\ cur'[b] # None => /\ handle[cur'[b]] = b
                                    /\ run'[cur'[b]] = IF state'[b] = "taken" THEN "queued" ELSE "running"
    BY <1>1, <1>2, <2>1
  <2>2. ASSUME NEW i \in 1 .. Len(queue'[a])
        PROVE  /\ handle[queue'[a][i]] = a /\ run'[queue'[a][i]] = "queued" /\ queue'[a][i] # cur'[a]
               /\ \A j \in 1 .. Len(queue'[a]) : queue'[a][i] = queue'[a][j] => i = j
    <3>1. CASE queue'[a] = <<>>
      BY <2>2, <3>1
    <3>2. CASE queue'[a] = queue[a] /\ D = {cur[a]}
      <4>1. queue[a][i] \in Clients /\ queue[a][i] \notin D /\ queue[a][i] # None
        BY <1>1, <2>2, <3>2, SessionAssumption
      <4>2. QED
        BY <1>1, <2>2, <3>2, <4>1
    <3>3. QED
      BY <3>1, <3>2
  <2>3. QED
    BY <2>1, <2>2 DEF PlacesOK
<1>4. NoRunLost'
  <2>1. ASSUME NEW c \in Clients, run'[c] \in {"queued", "running"}
        PROVE  /\ handle[c] \in Actors /\ state'[handle[c]] # "dead"
               /\ cur'[handle[c]] = c \/ (run'[c] = "queued" /\ \E i \in 1 .. Len(queue'[handle[c]]) : queue'[handle[c]][i] = c)
    <3>1. c \notin D /\ run'[c] = run[c]
      BY <2>1
    <3>2. /\ handle[c] \in Actors /\ state[handle[c]] # "dead"
          /\ cur[handle[c]] = c \/ (run[c] = "queued" /\ \E i \in 1 .. Len(queue[handle[c]]) : queue[handle[c]][i] = c)
      BY <2>1, <3>1 DEF NoRunLost
    <3>3. CASE handle[c] # a
      BY <3>1, <3>2, <3>3
    <3>4. CASE handle[c] = a
      BY <3>1, <3>2, <3>4
    <3>5. QED
      BY <3>3, <3>4
  <2>2. QED
    BY <2>1 DEF NoRunLost
<1>5. QED
  BY <1>3, <1>4

\* The run in hand ends, or is cancelled: the actor waits again.
LEMMA EndedStep ==
  ASSUME SessionInv, NEW a \in Actors, finish(a) \/ cancelled(a)
  PROVE  SessionInv'
<1>. USE DEF SessionInv
<1>1. PICK o \in {"finished", "cancelled"} : state[a] = "running" /\ ended(a, o)
  BY DEF finish, cancelled
<1>2. /\ map' = map /\ spawned' = spawned /\ idle' = idle /\ aborted' = aborted
      /\ pc' = pc /\ handle' = handle /\ todo' = todo /\ queue' = queue
      /\ busy' = [busy EXCEPT ![a] = FALSE] /\ state' = [state EXCEPT ![a] = "waiting"]
      /\ run' = [run EXCEPT ![cur[a]] = o] /\ cur' = [cur EXCEPT ![a] = None]
  BY <1>1 DEF ended, no_longer_busy
<1>3. cur[a] # None /\ cur[a] \in Clients /\ handle[cur[a]] = a /\ run[cur[a]] = "running"
  BY <1>1, InHandsSubmitted DEF HandsOK, PlacesOK
<1>4. /\ state' \in [Actors -> ActorState]
      /\ \A b \in Actors : state'[b] = IF b = a THEN "waiting" ELSE state[b]
  BY <1>2 DEF SessionTypeOK, ActorState
<1>5. /\ run' \in [Clients -> RunState]
      /\ \A c \in Clients : run'[c] = IF c = cur[a] THEN o ELSE run[c]
  BY <1>2, <1>3 DEF SessionTypeOK, RunState
<1>6. /\ cur' \in [Actors -> Clients \cup {None}]
      /\ \A b \in Actors : cur'[b] = IF b = a THEN None ELSE cur[b]
  BY <1>2 DEF SessionTypeOK
<1>7. busy' \in [Actors -> BOOLEAN]
  BY <1>2, Zenon DEF SessionTypeOK
<1>8. SessionTypeOK'
  BY <1>2, <1>4, <1>5, <1>6, <1>7 DEF SessionTypeOK, ActorState, RunState
<1>9. SpawnOrder' /\ ClientOK' /\ CapsHold'
  <2>1. a <= spawned
    BY <1>1, Spawned
  <2>2. QED
    BY <1>2, <1>3, <1>4, <1>5, <2>1, ActorFrame
<1>10. HandsOK'
  BY <1>4, <1>6 DEF HandsOK
<1>11. PlacesOK' /\ NoRunLost'
  <2>1. {cur[a]} \in SUBSET Clients /\ \A c \in {cur[a]} : handle[c] = a
    BY <1>3
  <2>2. \A c \in Clients : IF c \in {cur[a]} THEN run'[c] \notin {"queued", "running"} ELSE run'[c] = run[c]
    BY <1>5
  <2>3. \A b \in Actors \ {a} : queue'[b] = queue[b] /\ cur'[b] = cur[b] /\ state'[b] = state[b]
    BY <1>2, <1>4, <1>6
  <2>4. cur'[a] = None /\ queue'[a] = queue[a] /\ state'[a] # "dead" /\ handle' = handle
    BY <1>2, <1>4, <1>6
  <2>5. QED
    BY <2>1, <2>2, <2>3, <2>4, EndedPlaces
<1>12. QED
  BY <1>8, <1>9, <1>10, <1>11

\* The actor ends: whoever still waits for it is told.
LEMMA ActorEndsStep ==
  ASSUME SessionInv, NEW a \in Actors, actor_ends(a)
  PROVE  SessionInv'
<1>. USE DEF SessionInv
<1>1. /\ map' = map /\ spawned' = spawned /\ idle' = idle /\ aborted' = aborted /\ busy' = busy
      /\ pc' = pc /\ handle' = handle /\ todo' = todo /\ queue' = [queue EXCEPT ![a] = <<>>]
      /\ state' = [state EXCEPT ![a] = "dead"] /\ cur' = [cur EXCEPT ![a] = None]
      /\ run' = [c \in Clients |-> IF c \in dropped(a) THEN "dropped" ELSE run[c]]
      /\ aborted[a] \/ state[a] = "waiting"
  BY DEF actor_ends
<1>2. /\ state' \in [Actors -> ActorState]
      /\ \A b \in Actors : state'[b] = IF b = a THEN "dead" ELSE state[b]
  BY <1>1 DEF SessionTypeOK, ActorState
<1>3. /\ run' \in [Clients -> RunState]
      /\ \A c \in Clients : run'[c] = IF c \in dropped(a) THEN "dropped" ELSE run[c]
  BY <1>1 DEF SessionTypeOK, RunState
<1>4. /\ cur' \in [Actors -> Clients \cup {None}]
      /\ \A b \in Actors : cur'[b] = IF b = a THEN None ELSE cur[b]
  BY <1>1 DEF SessionTypeOK
<1>5. /\ queue' \in [Actors -> Seq(Clients)] /\ queue'[a] = <<>>
      /\ \A b \in Actors : b # a => queue'[b] = queue[b]
  BY <1>1 DEF SessionTypeOK
<1>6. \A b \in Actors : Len(queue'[b]) <= QueueCap
  <2>1. QueueCap \in Nat /\ \A b \in Actors : Len(queue[b]) <= QueueCap
    BY SessionAssumption DEF SessionTypeOK
  <2>2. Len(queue'[a]) = 0
    BY <1>5
  <2>3. QED
    BY <1>5, <2>1, <2>2
<1>7. SessionTypeOK'
  BY <1>1, <1>2, <1>3, <1>4, <1>5, <1>6 DEF SessionTypeOK, ActorState, RunState
<1>8. \A c \in dropped(a) : c \in Clients /\ handle[c] = a /\ run[c] # "none"
  <2>1. ASSUME NEW c \in Clients, c = cur[a] PROVE handle[c] = a /\ run[c] # "none"
    <3>1. c # None
      BY SessionAssumption, Zenon
    <3>2. QED
      BY <2>1, <3>1, InHandsSubmitted DEF PlacesOK
  <2>2. ASSUME NEW c \in Clients, NEW i \in 1 .. Len(queue[a]), queue[a][i] = c
        PROVE  handle[c] = a /\ run[c] # "none"
    BY <2>2 DEF PlacesOK
  <2>3. QED
    BY <2>1, <2>2 DEF dropped
<1>9. SpawnOrder' /\ ClientOK' /\ CapsHold'
  <2>1. a <= spawned
    BY <1>1, Spawned
  <2>2. \A c \in Clients : run[c] = "none" => run'[c] = "none"
    BY <1>3, <1>8
  <2>3. QED
    BY <1>1, <1>2, <2>1, <2>2, ActorFrame
<1>10. HandsOK'
  BY <1>2, <1>4 DEF HandsOK
<1>11. PlacesOK' /\ NoRunLost'
  <2>1. dropped(a) \in SUBSET Clients /\ \A c \in dropped(a) : handle[c] = a
    BY <1>8
  <2>2. \A c \in Clients : IF c \in dropped(a) THEN run'[c] \notin {"queued", "running"} ELSE run'[c] = run[c]
    BY <1>3
  <2>3. \A b \in Actors \ {a} : queue'[b] = queue[b] /\ cur'[b] = cur[b] /\ state'[b] = state[b]
    BY <1>2, <1>4, <1>5
  <2>4. \A c \in Clients : c = cur[a] \/ (\E i \in 1 .. Len(queue[a]) : queue[a][i] = c) => c \in dropped(a)
    BY DEF dropped
  <2>5. cur'[a] = None /\ queue'[a] = <<>> /\ handle' = handle
    BY <1>1, <1>4, <1>5
  <2>6. QED
    BY <2>1, <2>2, <2>3, <2>4, <2>5, EndedPlaces
<1>12. QED
  BY <1>7, <1>9, <1>10, <1>11

-----------------------------------------------------------------------------
(* Removals. *)

\* A closer or the reaper picks sessions.
LEMMA PickStep ==
  ASSUME SessionInv, reap_idle \/ \E k \in Keys, x \in Closers : close(x, k)
  PROVE  SessionInv'
<1>. USE DEF SessionInv
<1>1. /\ map' = map /\ spawned' = spawned /\ idle' = idle /\ state' = state /\ queue' = queue /\ cur' = cur
      /\ busy' = busy /\ aborted' = aborted /\ pc' = pc /\ handle' = handle /\ run' = run
  BY DEF reap_idle, close
<1>2. todo' \in [Removers -> SUBSET Keys]
  BY DEF reap_idle, close, stale, live, Removers, SessionTypeOK
<1>3. SessionTypeOK' /\ SpawnOrder' /\ ClientOK'
  BY <1>1, <1>2 DEF SessionTypeOK, SpawnOrder, ClientOK
<1>4. QED
  BY <1>1, <1>3, SameRuns, SameMap

\* A session leaves the map and its task is aborted.
LEMMA RemoveStep ==
  ASSUME SessionInv, NEW x \in Removers, remover_step(x)
  PROVE  SessionInv'
<1>. USE DEF SessionInv
<1>1. PICK k \in Keys : remove(x, k)
  BY DEF remover_step
<1>2. /\ spawned' = spawned /\ idle' = idle /\ state' = state /\ queue' = queue /\ cur' = cur
      /\ busy' = busy /\ pc' = pc /\ handle' = handle /\ run' = run
      /\ map' = [map EXCEPT ![k] = None] /\ todo' = [todo EXCEPT ![x] = @ \ {k}] /\ abort(k)
  BY <1>1 DEF remove
<1>3. todo' \in [Removers -> SUBSET Keys]
  BY <1>2 DEF SessionTypeOK
<1>4. /\ map' \in [Keys -> Actors \cup {None}] /\ \A j \in Keys : map'[j] # None => map'[j] = map[j]
  BY <1>2 DEF SessionTypeOK
<1>5. /\ aborted' \in [Actors -> BOOLEAN]
      /\ \A a \in Actors : aborted'[a] => aborted[a] \/ a = map[k]
  <2>1. aborted \in [Actors -> BOOLEAN]
    BY DEF SessionTypeOK
  <2>2. QED
    BY <1>2, <2>1, Zenon DEF abort
<1>6. SessionTypeOK'
  BY <1>2, <1>3, <1>4, <1>5 DEF SessionTypeOK
<1>7. SpawnOrder'
  <2>1. ASSUME NEW a \in Actors, a > spawned PROVE state'[a] = "unborn" /\ ~aborted'[a]
    <3>1. state[a] = "unborn" /\ ~aborted[a]
      BY <2>1 DEF SpawnOrder
    <3>2. a # None
      BY SessionAssumption, Zenon
    <3>3. a # map[k]
      BY <2>1, <3>2 DEF SpawnOrder, SessionTypeOK, Actors
    <3>4. QED
      BY <1>2, <1>5, <3>1, <3>3
  <2>2. \A j \in Keys : map'[j] # None => map'[j] <= spawned'
    BY <1>2, <1>4 DEF SpawnOrder
  <2>3. QED
    BY <1>2, <2>1, <2>2 DEF SpawnOrder
<1>8. ClientOK'
  BY <1>2 DEF ClientOK
<1>9. CapsHold'
  <2>1. DOMAIN map = Keys
    BY DEF SessionTypeOK
  <2>2. QED
    BY <1>2, <2>1, RemoveKeepsCaps
<1>10. QED
  BY <1>2, <1>6, <1>7, <1>8, <1>9, SameRuns

-----------------------------------------------------------------------------
(* The theorems. *)

\* The invariant is inductive.
LEMMA SessionStep == SessionInv /\ [Next]_vars => SessionInv'
<1>. SUFFICES ASSUME SessionInv, [Next]_vars PROVE SessionInv'
  OBVIOUS
<1>1. CASE UNCHANGED vars
  <2>1. /\ map' = map /\ spawned' = spawned /\ idle' = idle /\ state' = state /\ queue' = queue
        /\ cur' = cur /\ busy' = busy /\ aborted' = aborted /\ pc' = pc /\ handle' = handle
        /\ run' = run /\ todo' = todo
    BY <1>1 DEF vars
  <2>2. SessionTypeOK' /\ SpawnOrder' /\ ClientOK'
    BY <2>1 DEF SessionInv, SessionTypeOK, SpawnOrder, ClientOK
  <2>3. QED
    BY <2>1, <2>2, SameRuns, SameMap DEF SessionInv
<1>2. ASSUME NEW c \in Clients,
             \/ admit_live(c) \/ admit_new(c) \/ admit_refused(c) \/ client_step(c) \/ disconnect(c)
      PROVE  SessionInv'
  BY <1>2, AdmitLiveStep, AdmitNewStep, LeaveStep, SubmitStep
<1>3. ASSUME NEW a \in Actors, actor_step(a) \/ actor_ends(a) PROVE SessionInv'
  BY <1>3, RecvStep, BeginStep, EndedStep, ActorEndsStep DEF actor_step
<1>4. ASSUME NEW k \in Keys, touch(k) \/ idle_after(k) \/ \E x \in Closers : close(x, k)
      PROVE  SessionInv'
  BY <1>4, IdleStep, PickStep
<1>5. ASSUME NEW x \in Removers, remover_step(x) PROVE SessionInv'
  BY <1>5, RemoveStep
<1>6. CASE reap_idle
  BY <1>6, PickStep
<1>7. QED
  BY <1>1, <1>2, <1>3, <1>4, <1>5, <1>6 DEF Next

\* The map, the actors, the clients and the runs fit together, always.
THEOREM SessionInvariant == Spec => []SessionInv
BY SessionInit, SessionStep, PTL DEF Spec

\* The variables keep their types, and no channel holds more than its capacity.
THEOREM SessionTypeCorrect == Spec => []SessionTypeOK
<1>1. SessionInv => SessionTypeOK
  BY DEF SessionInv
<1>2. QED
  BY <1>1, SessionInvariant, PTL

\* Whatever races with them, admissions exceed neither cap of admit_seeded.
THEOREM CapsHoldAlways == Spec => []CapsHold
<1>1. SessionInv => CapsHold
  BY DEF SessionInv
<1>2. QED
  BY <1>1, SessionInvariant, PTL

\* A submitted run stays with the actor it was submitted to until it ends, although its
\* session may be closed, reaped and admitted again meanwhile: no run is lost, and none
\* is taken over by the session's next actor.
THEOREM NoRunLostHolds == Spec => []NoRunLost
<1>1. SessionInv => NoRunLost
  BY DEF SessionInv
<1>2. QED
  BY <1>1, SessionInvariant, PTL

=============================================================================
