----------------------------- MODULE MCPairing -----------------------------
(* Instances of Pairing for TLC. *)
EXTENDS Pairing, TLC

CONSTANTS p1, p2, n1, n2

NoCoord == [n \in {} |-> p1]
OneCoord == n1 :> p1
SharedCoord == n1 :> p1 @@ n2 :> p1
TwoCoord == n1 :> p1 @@ n2 :> p2

\* A start later in the life of the system, which saves TLC a pairing: the
\* device paired with p1, confirmed that and joined every network of p1 that it
\* is not in independently.  Reachable from Init.
PairedInit ==
  /\ cert = {[by |-> p1, gen |-> 1]} /\ pending = {}
  /\ joined = Coordinated(p1) \ Independent
  /\ dop = Idle /\ nullTasks = {}
  /\ resolved = [n \in Networks |-> "none"]
  /\ joining = [n \in Networks |-> {}]
  /\ revoked = {} /\ notices = [p \in Primaries |-> {}]
  /\ issued = [p \in Primaries |-> IF p = p1 THEN 1 ELSE 0]
  /\ confirmed = [p \in Primaries |-> IF p = p1 THEN 1 ELSE 0]
  /\ nulled = {} /\ stale = {} /\ record = {}
  /\ listed = Coordinated(p1) \ Independent
  /\ pop = [p \in Primaries |-> Free] /\ session = [p \in Primaries |-> {}]
  /\ awaiting = [p \in Primaries |-> {}] /\ unpairing = {}
  /\ phase = [n \in Networks |-> "running"]
  /\ link = [p \in Primaries |-> NoLink] /\ reqs = {} /\ told = {}
  /\ tickets = 0 /\ faults = 0
  /\ ended = {} /\ recorded = {} /\ disowned = {}

PairedSpec == PairedInit /\ [][Next]_vars
FairPairedSpec == PairedSpec /\ Fairness

\* Bound on the requests, notices and records that wait at once to be acted on.
MaxWaiting == 2
FewWaiting ==
  Cardinality(nullTasks) + Cardinality(told) + Cardinality(reqs) <= MaxWaiting
====
