------------------------- MODULE MCSessionManager -------------------------
(***************************************************************************)
(* Instances of SessionManager for TLC.                                    *)
(***************************************************************************)
EXTENDS SessionManager, TLC

CONSTANTS k1, k2, u1, w1, w2, g1, x1, reaper

Sessions == {k1, k2}
OneUser == [k \in Keys |-> u1]
TwoWatchers == {w1, w2}
OneRunner == {g1}
OneCloser == {x1}

\* A watcher and a runner of one session, and a watcher of the other.
Asks == w1 :> k1 @@ g1 :> k1 @@ w2 :> k2

=============================================================================
