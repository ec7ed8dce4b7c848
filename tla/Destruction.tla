----------------------------- MODULE Destruction -----------------------------
(* Destroying a network. The destruction is a record signed by the network   *)
(* key; a second record under a discovery key derived from it, the index,    *)
(* carries the same proof where no roster publisher can overwrite it. A node *)
(* keeps both as files, forgets the network, and publishes them until every  *)
(* other node has found one. Nodes crash between any two of these steps.     *)
EXTENDS Integers, FiniteSets

CONSTANTS
  Nodes,      \* nodes of the network
  HolderSets, \* the sets of nodes tried that hold the network key
  Founder,    \* the holder that may destroy the network
  MaxSigns,   \* roster records signed
  MaxCrashes

VARIABLES
  Holders,    \* the nodes that hold the network key
  up,         \* nodes whose daemon runs
  running,    \* nodes that have the network registered
  ended,      \* NetworkState.destroyed, at nodes that have it registered
  saved,      \* nodes with the network in their config
  restoring,  \* nodes whose restore has passed its checks
  editor,     \* nodes where a handler holds a loaded config, to be saved
  proof,      \* nodes with the destruction record in destroyed-networks
  index,      \* nodes with the index record there
  destroying, \* [Nodes -> step of destroy_network]
  publisher,  \* holders whose publisher has passed its checks
  canon,      \* the relay's record under the network key
  entry,      \* whether the relay has the index record
  mail,       \* nodes the destruction record is on its way to
  stamp,      \* when the destruction record was signed, 0 before that
  signs, crashes

destVars == <<Holders, up, running, ended, saved, restoring, editor, proof, index, destroying,
              publisher, canon, entry, mail, stamp, signs, crashes>>

DestInit ==
  /\ Holders \in HolderSets
  /\ up = Nodes /\ running = Nodes /\ saved = Nodes
  /\ ended = {} /\ restoring = {} /\ editor = {} /\ proof = {} /\ index = {} /\ publisher = {} /\ mail = {}
  /\ destroying = [n \in Nodes |-> "no"]
  /\ canon = [kind |-> "roster", at |-> 1]
  /\ entry = FALSE
  /\ stamp = 0 /\ signs = 1 /\ crashes = 0

\* The relay keeps the record with the latest timestamp.
Newest(at, kind) == IF at > canon.at THEN [kind |-> kind, at |-> at] ELSE canon

\* resolve_network_packet: the index outranks a roster record.
Resolved == canon.kind = "destroyed" \/ entry

\* A task that runs destroy_network(n) with the record in hand. A second one
\* waits for the first to give revocation_lock up and finds nothing to destroy.
Start(n) == destroying' = [destroying EXCEPT ![n] = IF @ = "no" THEN "begin" ELSE @]

-----------------------------------------------------------------------------
(* Learning of the destruction.                                              *)

nuke_network ==
  /\ Founder \in running \ ended /\ destroying[Founder] = "no"
  /\ stamp' = IF stamp = 0 THEN signs + 1 ELSE stamp
  /\ signs' = IF stamp = 0 THEN signs + 1 ELSE signs
  /\ Start(Founder)
  /\ UNCHANGED <<Holders, up, running, ended, saved, restoring, editor, proof, index, publisher, canon, entry, mail, crashes>>

\* handle_common: a peer sent the record.
SignedRecord(n) ==
  /\ n \in mail
  /\ mail' = mail \ {n}
  /\ IF n \in running THEN Start(n) ELSE UNCHANGED destroying
  /\ UNCHANGED <<Holders, up, running, ended, saved, restoring, editor, proof, index, publisher, canon, entry, stamp, signs, crashes>>

Poll(n) ==
  /\ n \in running /\ Resolved
  /\ Start(n)
  /\ UNCHANGED <<Holders, up, running, ended, saved, restoring, editor, proof, index, publisher, canon, entry, mail, stamp, signs, crashes>>

\* A join or a resolve of the same key: forget_destroyed_key saves the proof
\* before it looks for a network saved under the key.
forget_destroyed_key(n) ==
  /\ n \in up /\ (n \in proof \/ Resolved)
  /\ proof' = proof \cup {n}
  /\ IF n \in saved THEN Start(n) ELSE UNCHANGED destroying
  /\ UNCHANGED <<Holders, up, running, ended, saved, restoring, editor, index, publisher, canon, entry, mail, stamp, signs, crashes>>

-----------------------------------------------------------------------------
(* destroy_network.                                                          *)

\* Mutant: the key is taken from the registered network only.
SaveIndex_live(n) ==
  /\ destroying[n] = "begin"
  /\ n \notin ended /\ n \in running \cup saved
  /\ index' = IF n \in Holders \cap running THEN index \cup {n} ELSE index
  /\ destroying' = [destroying EXCEPT ![n] = "index"]
  /\ UNCHANGED <<Holders, up, running, ended, saved, restoring, editor, proof, publisher, canon, entry, mail, stamp, signs, crashes>>

\* destruction::save, first file: the index, which needs the key.
SaveIndex(n) ==
  /\ destroying[n] = "begin"
  /\ n \notin ended /\ n \in running \cup saved
  /\ index' = IF n \in Holders THEN index \cup {n} ELSE index
  /\ destroying' = [destroying EXCEPT ![n] = "index"]
  /\ UNCHANGED <<Holders, up, running, ended, saved, restoring, editor, proof, publisher, canon, entry, mail, stamp, signs, crashes>>

\* Second file: the proof. The commit lock is held until the state is marked.
SaveProof(n) ==
  /\ destroying[n] = "index"
  /\ proof' = proof \cup {n}
  /\ ended' = IF n \in running THEN ended \cup {n} ELSE ended
  /\ destroying' = [destroying EXCEPT ![n] = "proof"]
  /\ UNCHANGED <<Holders, up, running, saved, restoring, editor, index, publisher, canon, entry, mail, stamp, signs, crashes>>

\* A holder tells the peers it reaches.
Notify(n) ==
  /\ destroying[n] = "proof"
  /\ \E told \in SUBSET (Nodes \ {n}) :
       mail' = IF n \in Holders THEN mail \cup told ELSE mail
  /\ destroying' = [destroying EXCEPT ![n] = "told"]
  /\ UNCHANGED <<Holders, up, running, ended, saved, restoring, editor, proof, index, publisher, canon, entry, stamp, signs, crashes>>

\* delete_network, remove_pending_join, teardown_network_runtime.
Forget(n) ==
  /\ destroying[n] = "told"
  /\ saved' = saved \ {n}
  /\ running' = running \ {n}
  /\ ended' = ended \ {n}
  /\ publisher' = publisher \ {n}
  /\ destroying' = [destroying EXCEPT ![n] = "forgot"]
  /\ UNCHANGED <<Holders, up, restoring, editor, proof, index, canon, entry, mail, stamp, signs, crashes>>

\* The records are published; a failure is left to republish_destructions.
Publish(n) ==
  /\ destroying[n] = "forgot"
  /\ destroying' = [destroying EXCEPT ![n] = "no"]
  /\ \/ entry' = (entry \/ n \in Holders) /\ canon' = Newest(stamp, "destroyed")
     \/ UNCHANGED <<entry, canon>>
  /\ UNCHANGED <<Holders, up, running, ended, saved, restoring, editor, proof, index, publisher, mail, stamp, signs, crashes>>

republish_destructions(n) ==
  /\ n \in up /\ n \in proof \cup index
  /\ entry' = (entry \/ n \in index)
  /\ canon' = IF n \in proof THEN Newest(stamp, "destroyed") ELSE canon
  /\ UNCHANGED <<Holders, up, running, ended, saved, restoring, editor, proof, index, destroying, publisher, mail, stamp, signs, crashes>>

-----------------------------------------------------------------------------
(* The publisher of roster records, at the nodes that hold the key.          *)

\* Proof on disk, then the index, then the record itself.
PublisherCheck(n) ==
  /\ n \in (running \cap Holders) \ (publisher \cup ended)
  /\ IF n \in proof \/ Resolved
     THEN Start(n) /\ UNCHANGED publisher
     ELSE publisher' = publisher \cup {n} /\ UNCHANGED destroying
  /\ UNCHANGED <<Holders, up, running, ended, saved, restoring, editor, proof, index, canon, entry, mail, stamp, signs, crashes>>

\* Signed under the commit lock, unless the state is marked destroyed. The
\* publish that follows carries that timestamp, so the two are one step.
PublisherSign(n) ==
  /\ n \in publisher
  /\ destroying[n] \notin {"index"}
  /\ publisher' = publisher \ {n}
  /\ IF n \notin ended /\ n \in saved /\ signs < MaxSigns
     THEN /\ signs' = signs + 1
          /\ canon' = Newest(signs + 1, "roster")
     ELSE UNCHANGED <<signs, canon>>
  /\ UNCHANGED <<Holders, up, running, ended, saved, restoring, editor, proof, index, destroying, entry, mail, stamp, crashes>>

-----------------------------------------------------------------------------
(* The config, and restarts.                                                 *)

\* A handler loads the network's config, to save it back with a change.
load_network(n) ==
  /\ n \in running \cap saved /\ n \notin editor
  /\ editor' = editor \cup {n}
  /\ UNCHANGED <<Holders, up, running, ended, saved, restoring, proof, index, destroying, publisher, canon, entry, mail, stamp, signs, crashes>>

\* Mutant: the saved proof is not looked at.
save_network_blind(n) ==
  /\ n \in editor
  /\ editor' = editor \ {n}
  /\ saved' = saved \cup {n}
  /\ UNCHANGED <<Holders, up, running, ended, restoring, proof, index, destroying, publisher, canon, entry, mail, stamp, signs, crashes>>

save_network(n) ==
  /\ n \in editor
  /\ editor' = editor \ {n}
  /\ saved' = IF n \in proof THEN saved ELSE saved \cup {n}
  /\ UNCHANGED <<Holders, up, running, ended, restoring, proof, index, destroying, publisher, canon, entry, mail, stamp, signs, crashes>>

Crash(n) ==
  /\ n \in up /\ crashes < MaxCrashes
  /\ crashes' = crashes + 1
  /\ up' = up \ {n} /\ running' = running \ {n} /\ ended' = ended \ {n}
  /\ restoring' = restoring \ {n} /\ editor' = editor \ {n} /\ publisher' = publisher \ {n} /\ mail' = mail \ {n}
  /\ destroying' = [destroying EXCEPT ![n] = "no"]
  /\ UNCHANGED <<Holders, saved, proof, index, canon, entry, stamp, signs>>

Boot(n) ==
  /\ n \notin up
  /\ up' = up \cup {n}
  /\ UNCHANGED <<Holders, running, ended, saved, restoring, editor, proof, index, destroying, publisher, canon, entry, mail, stamp, signs, crashes>>

\* Restoring a saved network: a proof on disk, or, with the key, the index on
\* the relay, ends it instead. So does the record it resolves.
check_destruction(n) ==
  /\ n \in (up \cap saved) \ (running \cup restoring)
  /\ IF n \in proof \/ Resolved
     THEN /\ proof' = IF Resolved THEN proof \cup {n} ELSE proof
          /\ Start(n) /\ UNCHANGED restoring
     ELSE restoring' = restoring \cup {n} /\ UNCHANGED <<proof, destroying>>
  /\ UNCHANGED <<Holders, up, running, ended, saved, editor, index, publisher, canon, entry, mail, stamp, signs, crashes>>

\* The restored network is registered, with the state of a live one.
Install(n) ==
  /\ n \in restoring
  /\ restoring' = restoring \ {n}
  /\ running' = running \cup {n}
  /\ UNCHANGED <<Holders, up, ended, saved, editor, proof, index, destroying, publisher, canon, entry, mail, stamp, signs, crashes>>

DestNext ==
  \/ nuke_network
  \/ \E n \in Nodes :
       \/ SignedRecord(n) \/ Poll(n) \/ forget_destroyed_key(n)
       \/ SaveIndex(n) \/ SaveProof(n) \/ Notify(n) \/ Forget(n) \/ Publish(n)
       \/ republish_destructions(n) \/ PublisherCheck(n) \/ PublisherSign(n)
       \/ load_network(n) \/ save_network(n)
       \/ Crash(n) \/ Boot(n) \/ check_destruction(n) \/ Install(n)

DestSpec == DestInit /\ [][DestNext]_destVars

-----------------------------------------------------------------------------
\* The values the variables take, and what belongs to a registered network.
DestTypeOK ==
  /\ Holders \in HolderSets
  /\ up \subseteq Nodes /\ running \subseteq up /\ ended \subseteq running
  /\ saved \subseteq Nodes /\ restoring \subseteq up /\ editor \subseteq up
  /\ proof \subseteq Nodes /\ index \subseteq Nodes
  /\ destroying \in [Nodes -> {"no", "begin", "index", "proof", "told", "forgot"}]
  /\ publisher \subseteq running \cap Holders /\ mail \subseteq Nodes
  /\ canon.kind \in {"roster", "destroyed"} /\ canon.at \in 1 .. signs
  /\ entry \in BOOLEAN
  /\ stamp \in 0 .. signs /\ signs \in 1 .. MaxSigns + 1 /\ crashes \in 0 .. MaxCrashes

\* A network is forgotten only once its destruction is on disk, whatever
\* crash comes between the steps; a node with the key keeps the index too,
\* the record that a roster published later cannot hide.
ForgottenIsProved ==
  \A n \in Nodes \ saved : n \in proof /\ (n \in Holders => n \in index)

\* The destruction is terminal for the config: once forgotten, the network
\* is not saved again, not even by a handler that had loaded it before.
NotSavedAgain ==
  [][\A n \in Nodes : n \in proof \ saved => n \notin saved']_destVars
====
