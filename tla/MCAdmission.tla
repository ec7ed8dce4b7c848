----------------------------- MODULE MCAdmission -----------------------------
(* Instances of Admission for TLC. *)
EXTENDS Admission, TLC

CONSTANTS a, b, x, y, z, x2, i1, k, web, Cases

OneLaneEach == [p \in Peers |-> p]

\* The peer x may have a second connection, made after the first failed.
TwoLanes == x :> x @@ y :> y @@ z :> z @@ x2 :> x

AnySecret == [p \in Peers |-> {i1, k, NoInvite}]
BoundName == [j \in Invites |-> web]
SameName == [p \in Peers |-> web]

-----------------------------------------------------------------------------
(* One run covers several small cases: which coordinators take part, what    *)
(* the peers present, and how many joins, removals and faults there are.     *)

VARIABLE case

Case(cs, ps, ss, j, r, f) ==
  [coords |-> cs, peers |-> ps, present |-> ss, joins |-> j, kicks |-> r, faults |-> f]

\* An operator answers one coordinator's queue, through evictions and faults.
Approvals == Case({a}, {x, y}, {NoInvite}, 2, 0, 2)

\* A member is removed and comes back, at either of two coordinators.
Removals == Case({a, b}, {x}, {NoInvite}, 2, 1, 1)

\* Two peers with one invite at one coordinator, with three failed saves.
OneInvite == Case({a}, {x, y}, {i1}, 3, 0, 3)

\* The same invite at two coordinators.
TwoLedgers == Case({a, b}, {x, y}, {i1}, 2, 0, 1)

\* A peer that is queued, and then comes with an invite.
LateInvite == Case({a}, {x}, {i1, NoInvite}, 2, 0, 3)

\* A reusable key.
OneKey == Case({a, b}, {x, y}, {k}, 1, 0, 1)

\* A device of a member, admitted at two coordinators.
OneDevice == Case({a, b}, {z}, {NoInvite}, 1, 0, 3)

\* A member is removed between the saves of its admission.
LateRemoval == Case({a}, {z}, {NoInvite}, 2, 1, 3)

AllCases == {LateRemoval, Approvals, Removals, OneInvite, TwoLedgers, LateInvite, OneKey, OneDevice}

Within ==
  /\ joins' <= case.joins /\ kicks' <= case.kicks /\ faults' <= case.faults
  /\ \A p \in Peers : join'[p].st \in {"round", "asking"} =>
                        p \in case.peers /\ join'[p].secret \in case.present
  /\ expired' \subseteq case.present
  /\ \A c \in Coordinators :
       /\ \A j \in Invites \ case.present : ledger'[c][j].st = "absent"
       /\ \A j \in Keys \ case.present : live'[c].keys[j] = "none"

MCInit == Init /\ case \in Cases /\ admins = case.coords
MCNext == Next /\ Within /\ UNCHANGED case
MCSpec == MCInit /\ [][MCNext]_<<vars, case>>
MCLiveSpec == MCSpec /\ Fairness
====
