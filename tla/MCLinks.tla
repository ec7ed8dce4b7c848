------------------------------ MODULE MCLinks ------------------------------
(***************************************************************************)
(* Links between two daemons a and b over two networks.  Each scene lets   *)
(* a few kinds of events meet, so that every pair of features that share   *)
(* state in the peer table interleaves in some scene.                      *)
(***************************************************************************)
EXTENDS Links, TLC
CONSTANTS a, b

Holders(x, y) == (a :> x) @@ (b :> y)
Scene(keys, shared, up, kinds, max) ==
  [keys |-> keys, shared |-> shared, up |-> up, kinds |-> kinds, max |-> max]

\* Dials that cross; a link lost, closed idle or dialed again.
Crossing == Scene(Holders({1}, {}), {1}, 0, {"dial", "fail"}, 2)
Broken == Scene(Holders({1}, {}), {1}, 2, {"lose", "timeout", "idle"}, 1)
Again == Scene(Holders({}, {}), {1, 2}, 2, {"idle", "dial", "timeout"}, 2)
\* One of two shared networks is left, or its member removed.
Leaving == Scene(Holders({1}, {2}), {1, 2}, 2, {"leave", "idle"}, 2)
Kicking == Scene(Holders({1, 2}, {}), {1, 2}, 2, {"kick", "leave", "idle"}, 2)
\* A leave that dials its coordinator.
Unreached == Scene(Holders({}, {1}), {1}, 0, {"leave", "timeout", "stall"}, 2)
\* A first join; a network coordinated outside the pair.
Joining == Scene(Holders({1}, {}), {}, 0, {"join", "leave"}, 2)
Evicting == Scene(Holders({2}, {}), {1, 2}, 2, {"evict", "leave", "idle"}, 2)
Admitting == Scene(Holders({}, {}), {}, 0, {"admit"}, 2)

AllScenes == {Crossing, Broken, Again, Leaving, Unreached, Kicking, Joining, Evicting, Admitting}
============================================================================
