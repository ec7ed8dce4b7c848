------------------------------ MODULE InviteUse ------------------------------
(***************************************************************************)
(* What a coordinator's ledger of single-use invites promises: an invite   *)
(* seats nobody but the peer it was redeemed by, it is given back only     *)
(* while it seats nobody, and a revoked one is never usable again.         *)
(***************************************************************************)
CONSTANTS Invites, Peers, Nobody

VARIABLES
  status,   \* invite -> what the ledger says of it
  by,       \* invite -> the peer that redeemed it here
  seats     \* invite -> the peers it holds a seat for, or may after a restart

Init ==
  /\ status = [i \in Invites |-> "absent"]
  /\ by = [i \in Invites |-> Nobody]
  /\ seats = [i \in Invites |-> {}]

Moves(i, from, to, p) ==
  /\ status[i] = from
  /\ status' = [status EXCEPT ![i] = to]
  /\ by' = [by EXCEPT ![i] = p]
  /\ UNCHANGED seats

\* The invite becomes known, by minting it or from the coordinator that did.
Learn(i) == Moves(i, "absent", "pending", Nobody)

\* A peer redeems it here, or (Nobody) it was redeemed at another coordinator.
Spend(i) == \E p \in Peers \cup {Nobody} : Moves(i, "pending", "redeemed", p)

\* The admission it paid for was refused.
GiveBack(i) == seats[i] = {} /\ Moves(i, "redeemed", "pending", Nobody)

Revoke(i) == Moves(i, "pending", "revoked", Nobody)

\* The redeemer is seated, in the place of what seat they had.
Seat(i) ==
  /\ status[i] = "redeemed" /\ by[i] # Nobody
  /\ \E f \in [Invites -> SUBSET Peers] :
       /\ f[i] \subseteq seats[i] \cup {by[i]}
       /\ \A j \in Invites \ {i} : f[j] \subseteq seats[j]
       /\ seats' = f
  /\ UNCHANGED <<status, by>>

\* A roster without some of the seats is saved, adopted or recovered.
Unseat ==
  /\ \E f \in [Invites -> SUBSET Peers] :
       /\ \A i \in Invites : f[i] \subseteq seats[i]
       /\ seats' = f
  /\ UNCHANGED <<status, by>>

Next ==
  \/ \E i \in Invites :
       Learn(i) \/ Spend(i) \/ GiveBack(i) \/ Revoke(i) \/ Seat(i)
  \/ Unseat

Spec == Init /\ [][Next]_<<status, by, seats>>
====
