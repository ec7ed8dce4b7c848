------------------------------ MODULE Admission ------------------------------
(***************************************************************************)
(* How a coordinator seats a peer that asks to join: the ledger of         *)
(* single-use invites, the queue of requests an operator answers, the      *)
(* commit of a tentative roster with its rollback, the reply, and the      *)
(* joiner that goes from coordinator to coordinator and tries again.       *)
(*                                                                         *)
(* One network and its coordinators.  A roster is what the admission       *)
(* changes: the name each peer is seated under, the peers an operator has  *)
(* approved, and the reusable keys.  The order of records is RecordSync's  *)
(* subject: here the newest published roster is `record', and a            *)
(* coordinator that has not applied it yet is `behind'.                    *)
(***************************************************************************)
EXTENDS Naturals, Sequences, FiniteSets, FiniteSetsExt, Functions

CONSTANTS
  Coordinators,
  AdminSets,    \* the sets of them a network may have
  Peers,        \* the peers that may ask to join
  Lanes,        \* their connections: one control frame at a time on each
  PeerOf,       \* lane -> the peer at its other end
  Invites,      \* single-use invites
  Keys,         \* reusable keys
  Presents,     \* peer -> the secrets it may present, NoInvite for none
  Bound,        \* invite -> the hostname bound to it, or NoName
  Wants,        \* peer -> the hostname it asks for
  Devices,      \* the peers whose certificate names a seated user
  Mode,         \* "open" or "restricted"
  NoInvite, NoName, Nobody,
  MaxPending,   \* MAX_PENDING_JOINS
  MaxJoins,     \* `ray join' commands, of all peers together
  MaxKicks,     \* members removed
  MaxFaults     \* failed writes, lost replies, slow handlers, crashes

ASSUME AdminsAreCoordinators == AdminSets \subseteq SUBSET Coordinators
ASSUME NobodyIsNoPeer == Nobody \notin Peers
ASSUME NoInviteIsNone == NoInvite \notin Invites \cup Keys
ASSUME LanesHavePeers == PeerOf \in [Lanes -> Peers] /\ Nobody \notin Lanes
ASSUME WantsAreNames == \A p \in Peers : Wants[p] # NoName

VARIABLES
  admins,    \* the network's coordinators
  live,      \* coordinator -> its roster in memory
  file,      \* coordinator -> the roster its config names
  disk,      \* coordinator -> the roster the last successful save left
  sure,      \* coordinator -> "no" while unconfirmed_durable_hash is set
  owed,      \* coordinator -> live edits whose save is still to come
  lock,      \* coordinator -> the lane whose admission holds snapshot_commit
  ledger,    \* coordinator -> invite -> its entry
  queue,     \* coordinator -> the pending requests, oldest first
  denied,    \* coordinator -> the queued requests an operator has denied
  task,      \* coordinator -> lane -> the handler of its frame
  join,      \* peer -> its attempt to join
  gossip,    \* InviteShare and InviteUsed on their way
  expired,   \* the invites past their expiry
  record,    \* the newest published roster
  behind,    \* the coordinators that have not applied it
  kicks, faults, joins

vars == <<admins, live, file, disk, sure, owed, lock, ledger, queue, denied, task,
          join, gossip, expired, record, behind, kicks, faults, joins>>

rosters == <<live, file, disk, sure>>
counters == <<kicks, faults, joins>>

-----------------------------------------------------------------------------
(* The data. *)

Secrets == Invites \cup Keys
Out == <<NoName, 0>>

\* A hostname, with the suffix collision resolution gave it.
HostNames == {Out} \cup ({Wants[p] : p \in Peers} \X (0 .. Cardinality(Peers)))
             \cup ({Bound[i] : i \in Invites} \X {0})

\* The invite a seat was given for, with the coordinator that redeemed it.
\* Not in the code: what the properties are about.
Vias == (Coordinators \X Invites) \cup {<<Nobody, NoInvite>>}
NoVia == <<Nobody, NoInvite>>

Rosters == [name : [Peers -> HostNames], via : [Peers -> Vias],
            appr : SUBSET Peers, keys : [Keys -> {"none", "active", "revoked"}]]

EmptyRoster == [name |-> [p \in Peers |-> Out],
                via |-> [p \in Peers |-> NoVia],
                appr |-> {}, keys |-> [k \in Keys |-> "none"]]

Seated(g) == {p \in Peers : g.name[p] # Out}
SeatIn(g, p, n, v) ==
  [g EXCEPT !.name = [@ EXCEPT ![p] = n], !.via = [@ EXCEPT ![p] = v]]
RemovedFrom(g, p) == [SeatIn(g, p, Out, NoVia) EXCEPT !.appr = @ \ {p}]

\* The hostnames of the other members.
Taken(g, p) == {g.name[q] : q \in Seated(g) \ {p}}

\* name, then name-1, name-2 ...
ResolveCollision(want, taken) ==
  <<want, Min({n \in 0 .. Cardinality(Peers) : <<want, n>> \notin taken})>>

Entries == [st : {"absent", "pending", "redeemed", "revoked"},
            by : Peers \cup {Nobody}, host : {Bound[i] : i \in Invites} \cup {NoName}]
Entry(s, p, h) == [st |-> s, by |-> p, host |-> h]

\* What a commit displaces: the seat, the approval and the place in the queue.
NoUndo == [name |-> Out, via |-> NoVia, appr |-> {}, queued |-> {},
           denied |-> {}, ahead |-> {}]

\* A frame's handler.  `paid' is the invite this admission has burned, and
\* `appr' holds the peer when it is admitted for an operator's approval.
Idle == [st |-> "idle", secret |-> NoInvite, paid |-> NoInvite, name |-> Out,
         appr |-> {}, undo |-> NoUndo]
Replying == {"sayPending", "retained", "hello", "welcome", "deny", "undone",
             "refuse"}

NotJoining == [st |-> "off", secret |-> NoInvite, todo |-> {}, pend |-> "no",
               loop |-> "no", at |-> <<Nobody, Nobody>>]

Fault == faults < MaxFaults /\ faults' = faults + 1

Step(c, l, t) == task' = [task EXCEPT ![c][l] = t]
ViaOf(c, t) == IF t.paid = NoInvite THEN NoVia ELSE <<c, t.paid>>

-----------------------------------------------------------------------------
(* Saving a roster. *)

\* The blob and the pointer to it are written and synced, and the record is
\* signed and published.
SaveOK(c, g) ==
  /\ live' = [live EXCEPT ![c] = g]
  /\ file' = [file EXCEPT ![c] = g]
  /\ disk' = [disk EXCEPT ![c] = g]
  /\ sure' = [sure EXCEPT ![c] = "yes"]
  /\ record' = g /\ behind' = admins \ {c}
  /\ UNCHANGED faults

\* A failed write of roster w may have replaced the file or not; g stays live.
SaveFails(c, w, g) ==
  /\ Fault
  /\ live' = [live EXCEPT ![c] = g]
  /\ \E s \in {file[c], w} : file' = [file EXCEPT ![c] = s]
  /\ sure' = [sure EXCEPT ![c] = "no"]
  /\ UNCHANGED <<disk, record, behind>>

\* refresh_snapshot drops the requests of members and approved peers.
Waiting(g, q) == SelectSeq(q, LAMBDA p : p \notin Seated(g) \cup g.appr)
Refresh(c, g, q, d) ==
  /\ queue' = [queue EXCEPT ![c] = Waiting(g, q)]
  /\ denied' = [denied EXCEPT ![c] = d \cap Range(Waiting(g, q))]

-----------------------------------------------------------------------------
(* A join request at a coordinator. *)

\* validate_admission has settled the name.
Validated(t, n) == [t EXCEPT !.st = "valid", !.name = n]
Chosen(c, p) == ResolveCollision(Wants[p], Taken(live[c], p))

\* Mutant: the pending durability of the roster is not looked at.
HandleMemberAtOnce(c, l) ==
  LET t == task[c][l] IN
  /\ t.st = "asked" /\ PeerOf[l] \in Seated(live[c])
  /\ Step(c, l, [t EXCEPT !.st = "hello"])
  /\ UNCHANGED <<ledger, faults>>

\* A seated peer asks again: it is welcomed again, unless the roster that
\* seats it is not known to be saved.
HandleMember(c, l) ==
  LET t == task[c][l] IN
  /\ t.st = "asked" /\ PeerOf[l] \in Seated(live[c])
  /\ sure[c] = "yes" => lock[c] = Nobody
  /\ Step(c, l, [t EXCEPT !.st = IF sure[c] = "no" THEN "sayPending" ELSE "hello"])
  /\ UNCHANGED <<ledger, faults>>

\* A peer the operator approved is admitted.
HandleApproved(c, l) ==
  LET t == task[c][l] p == PeerOf[l] IN
  /\ t.st = "asked" /\ p \in live[c].appr \ Seated(live[c])
  /\ Step(c, l, [Validated(t, Chosen(c, p)) EXCEPT !.appr = {p}])
  /\ UNCHANGED <<ledger, faults>>

Redeemable(c, i) == ledger[c][i].st = "pending" /\ i \notin expired

\* The name for an invite is the one bound to it, or refused if it is taken.
Assigned(c, i, p, t) ==
  LET h == ledger[c][i].host IN
  CASE h = NoName -> Validated(t, Chosen(c, p))
    [] h # NoName /\ <<h, 0>> \in Taken(live[c], p) -> [t EXCEPT !.st = "deny"]
    [] OTHER -> Validated(t, <<h, 0>>)

\* Neither an operator nor the roster knows the peer, and it has a secret.
Stranger(c, l) ==
  /\ task[c][l].st = "asked"
  /\ PeerOf[l] \notin Seated(live[c]) \cup live[c].appr

\* A single-use invite is burned, and saved as burned, before the admission.
RedeemInvite(c, l) ==
  LET t == task[c][l] i == t.secret p == PeerOf[l]
      used == [ledger EXCEPT ![c][i] = Entry("redeemed", p, @.host)] IN
  /\ Stranger(c, l) /\ i \in Invites /\ Redeemable(c, i)
  /\ \/ /\ ledger' = used /\ UNCHANGED faults
        /\ Step(c, l, Assigned(c, i, p, [t EXCEPT !.paid = i]))
     \/ /\ Fault /\ ledger' \in {ledger, used}
        /\ Step(c, l, [t EXCEPT !.st = "deny"])

ActiveKeys(c) == {k \in Keys : live[c].keys[k] = "active"} \ expired

\* A secret the ledger does not redeem may be a reusable key.
RedeemKey(c, l) ==
  LET t == task[c][l] IN
  /\ Stranger(c, l) /\ t.secret # NoInvite
  /\ t.secret \in Invites => ~Redeemable(c, t.secret)
  /\ Step(c, l, IF t.secret \in ActiveKeys(c)
                THEN Validated(t, Chosen(c, PeerOf[l]))
                ELSE [t EXCEPT !.st = "deny"])
  /\ UNCHANGED <<ledger, faults>>

\* An open network admits anyone, a closed one the devices of its users.
AdmitDirectly(c, l) ==
  /\ Stranger(c, l) /\ task[c][l].secret = NoInvite
  /\ Mode = "open" \/ PeerOf[l] \in Devices
  /\ Step(c, l, Validated(task[c][l], Chosen(c, PeerOf[l])))
  /\ UNCHANGED <<ledger, faults>>

Others(q, p) == SelectSeq(q, LAMBDA r : r # p)

\* At the cap the oldest other request is evicted.
Enqueued(q, p) ==
  Append(IF p \in Range(q) \/ Len(q) < MaxPending THEN Others(q, p) ELSE Tail(q), p)

\* Everybody else waits for the operator, or is told of their denial.
HandleUnknown(c, l) ==
  LET t == task[c][l] p == PeerOf[l] IN
  /\ Stranger(c, l) /\ t.secret = NoInvite
  /\ Mode = "restricted" /\ p \notin Devices
  /\ \/ /\ p \in denied[c]
        /\ Step(c, l, [t EXCEPT !.st = "refuse"])
        /\ UNCHANGED <<queue, denied>>
     \/ /\ p \notin denied[c]
        /\ queue' = [queue EXCEPT ![c] = Enqueued(@, p)]
        /\ denied' = [denied EXCEPT ![c] = @ \cap Range(Enqueued(queue[c], p))]
        /\ Step(c, l, [t EXCEPT !.st = "sayPending"])

Handle(c, l) ==
  /\ \/ /\ HandleMember(c, l) \/ HandleApproved(c, l) \/ RedeemInvite(c, l)
           \/ RedeemKey(c, l) \/ AdmitDirectly(c, l)
        /\ UNCHANGED <<queue, denied>>
     \/ HandleUnknown(c, l) /\ UNCHANGED <<ledger, faults>>
  /\ UNCHANGED <<rosters, owed, lock, join, gossip, expired, record, behind,
                 kicks, joins>>

-----------------------------------------------------------------------------
(* The commit of an admission, under the network's snapshot_commit lock. *)

Before(q, p) == {q[k] : k \in {j \in DOMAIN q :
                   p \in Range(q) /\ \E n \in DOMAIN q : q[n] = p /\ j < n}}

\* The peer is taken out of the approved list and the queue, and seated.
CommitAdmission(c, l) ==
  LET t == task[c][l] p == PeerOf[l] g0 == live[c] q == queue[c]
      g == [SeatIn(g0, p, t.name, ViaOf(c, t)) EXCEPT !.appr = @ \ t.appr]
      undo == [name |-> g0.name[p], via |-> g0.via[p],
               appr |-> t.appr \cap g0.appr, queued |-> {p} \cap Range(q),
               denied |-> {p} \cap denied[c], ahead |-> Before(q, p)] IN
  /\ t.st = "valid" /\ lock[c] = Nobody
  /\ \/ SaveOK(c, g) /\ Step(c, l, [t EXCEPT !.st = "welcome"]) /\ UNCHANGED lock
     \/ /\ SaveFails(c, g, g)
        /\ Step(c, l, [t EXCEPT !.st = "rollback", !.undo = undo])
        /\ lock' = [lock EXCEPT ![c] = l]
  /\ Refresh(c, g, q, denied[c])
  /\ UNCHANGED <<owed, ledger, join, gossip, expired, kicks, joins>>

\* Mutant: the rollback queues a request whether it was queued or not.
RequeuedAlways(q, p, u) ==
  SelectSeq(q, LAMBDA r : r \in u.ahead) \o <<p>>
  \o SelectSeq(q, LAMBDA r : r \notin u.ahead \cup {p})

\* Put back where it was in the queue.
Requeued(q, p, u) ==
  IF u.queued = {} THEN q
  ELSE SelectSeq(q, LAMBDA r : r \in u.ahead) \o <<p>>
       \o SelectSeq(q, LAMBDA r : r \notin u.ahead \cup {p})

\* Mutant: the admission is denied although its rollback was not saved.
RollBackOnce(c, l) ==
  LET t == task[c][l] p == PeerOf[l] u == t.undo
      g == [SeatIn(live[c], p, u.name, u.via) EXCEPT !.appr = @ \cup u.appr] IN
  /\ t.st = "rollback"
  /\ SaveOK(c, g) \/ SaveFails(c, g, g)
  /\ Refresh(c, g, Requeued(queue[c], p, u), denied[c] \cup u.denied)
  /\ Step(c, l, [t EXCEPT !.st = "undone", !.undo = NoUndo])
  /\ lock' = [lock EXCEPT ![c] = Nobody]
  /\ UNCHANGED <<owed, ledger, join, gossip, expired, kicks, joins>>

\* The first save failed: the seat is undone, unless the roster shows another
\* edit of it by now, and that is saved.  If this fails too, the file may
\* still be the one that seats the peer, so the peer is seated again.
RollBack(c, l) ==
  LET t == task[c][l] p == PeerOf[l] g0 == live[c] u == t.undo
      mine == g0.name[p] = t.name /\ g0.via[p] = ViaOf(c, t)
      g == IF mine THEN [SeatIn(g0, p, u.name, u.via) EXCEPT !.appr = @ \cup u.appr]
           ELSE g0
      back == IF mine THEN Requeued(queue[c], p, u) ELSE queue[c]
      again == [SeatIn(g, p, t.name, ViaOf(c, t)) EXCEPT !.appr = @ \ {p}] IN
  /\ t.st = "rollback"
  /\ \/ /\ SaveOK(c, g)
        /\ Refresh(c, g, back, denied[c] \cup u.denied)
        /\ Step(c, l, [t EXCEPT !.st = "undone", !.undo = NoUndo])
        /\ lock' = [lock EXCEPT ![c] = Nobody]
     \/ /\ SaveFails(c, g, again)
        /\ Refresh(c, again, back, denied[c])
        /\ Step(c, l, [t EXCEPT !.st = "retain", !.undo = NoUndo])
        /\ UNCHANGED lock
  /\ UNCHANGED <<owed, ledger, join, gossip, expired, kicks, joins>>

\* The retained roster is saved once more before the answer.
Retain(c, l) ==
  LET t == task[c][l] IN
  /\ t.st = "retain"
  /\ \/ SaveOK(c, live[c]) /\ Step(c, l, [t EXCEPT !.st = "welcome"])
     \/ SaveFails(c, live[c], live[c]) /\ Step(c, l, [t EXCEPT !.st = "retained"])
  /\ lock' = [lock EXCEPT ![c] = Nobody]
  /\ Refresh(c, live[c], queue[c], denied[c])
  /\ UNCHANGED <<owed, ledger, join, gossip, expired, kicks, joins>>

-----------------------------------------------------------------------------
(* The answer, and what the handler does after it. *)

Used(c, i) == {[to |-> d, kind |-> "used", inv |-> i] : d \in admins \ {c}}

\* What the joiner makes of an answer.
Answered(j, s) ==
  CASE s \in {"hello", "welcome"} -> [NotJoining EXCEPT !.st = "joined"]
    [] s \in {"deny", "undone", "refuse"} -> [NotJoining EXCEPT !.st = "denied"]
    [] OTHER -> [j EXCEPT !.st = "round", !.pend = "yes", !.at = NotJoining.at]

\* Mutant: an admission that is not known to be saved gives its invite back.
AfterUnsaved(t) ==
  CASE t.st = "hello" -> [Idle EXCEPT !.st = "rename"]
    [] t.st \in {"deny", "undone", "retained"} /\ t.paid # NoInvite ->
         [Idle EXCEPT !.st = "restore", !.paid = t.paid]
    [] OTHER -> Idle

\* The handler after an answer: an admission that was refused gives its
\* invite back, any other keeps it spent.
After(t) ==
  CASE t.st = "hello" -> [Idle EXCEPT !.st = "rename"]
    [] t.st \in {"deny", "undone"} /\ t.paid # NoInvite ->
         [Idle EXCEPT !.st = "restore", !.paid = t.paid]
    [] OTHER -> Idle

\* The answer reaches the joiner or not, and the handler learns of it or not.
Reply(c, l) ==
  LET t == task[c][l] p == PeerOf[l]
      waits == join[p].st = "asking" /\ join[p].at = <<c, l>> IN
  /\ t.st \in Replying
  /\ \E got, acked \in BOOLEAN :
       /\ acked => got
       /\ got => waits
       /\ IF waits /\ ~acked THEN Fault ELSE UNCHANGED faults
       /\ join' = IF got THEN [join EXCEPT ![p] = Answered(@, t.st)] ELSE join
       /\ IF acked /\ t.st = "refuse" /\ p \in denied[c]
            THEN /\ queue' = [queue EXCEPT ![c] = Others(@, p)]
                 /\ denied' = [denied EXCEPT ![c] = @ \ {p}]
            ELSE UNCHANGED <<queue, denied>>
  /\ Step(c, l, After(t))
  /\ gossip' = IF t.st \in {"welcome", "retained"} /\ t.paid # NoInvite
               THEN gossip \cup Used(c, t.paid) ELSE gossip
  /\ UNCHANGED <<rosters, owed, lock, ledger, expired, record, behind, kicks, joins>>

\* A refused admission gives its invite back.
RestoreInvite(c, l) ==
  LET t == task[c][l]
      back == IF ledger[c][t.paid].st = "redeemed"
              THEN [ledger EXCEPT ![c][t.paid] = Entry("pending", Nobody, @.host)]
              ELSE ledger IN
  /\ t.st = "restore"
  /\ \/ ledger' = back /\ UNCHANGED faults
     \/ Fault /\ ledger' \in {ledger, back}
  /\ Step(c, l, Idle)
  /\ UNCHANGED <<rosters, owed, lock, queue, denied, join, gossip, expired,
                 record, behind, kicks, joins>>

\* A member that was welcomed again gets the name it asks for.
Rename(c, l) ==
  LET p == PeerOf[l] g == SeatIn(live[c], p, Chosen(c, p), live[c].via[p]) IN
  /\ task[c][l].st = "rename" /\ lock[c] = Nobody
  /\ \/ /\ p \in Seated(live[c]) /\ g # live[c]
        /\ SaveOK(c, g) \/ SaveFails(c, g, g)
        /\ Refresh(c, g, queue[c], denied[c])
     \/ /\ p \notin Seated(live[c]) \/ g = live[c]
        /\ UNCHANGED <<rosters, queue, denied, record, behind, faults>>
  /\ Step(c, l, Idle)
  /\ UNCHANGED <<owed, lock, ledger, join, gossip, expired, kicks, joins>>

-----------------------------------------------------------------------------
(* Invites and keys. *)

others == <<task, join, queue, denied, lock, record, behind, kicks, joins>>

\* A minted invite is in the ledger before the other coordinators hear of it.
InviteCreate(c, i) ==
  /\ \A d \in Coordinators : ledger[d][i].st = "absent"
  /\ i \notin expired
  /\ ledger' = [ledger EXCEPT ![c][i] = Entry("pending", Nobody, Bound[i])]
  /\ gossip' = gossip \cup
       {[to |-> d, kind |-> "share", inv |-> i] : d \in admins \ {c}}
  /\ UNCHANGED <<rosters, owed, expired, faults, others>>

\* The frames may overtake each other, and may never arrive.
HandleGossip(m) ==
  LET e == ledger[m.to][m.inv] IN
  /\ gossip' = gossip \ {m}
  /\ ledger' = [ledger EXCEPT ![m.to][m.inv] =
       CASE m.kind = "share" /\ e.st = "absent" -> Entry("pending", Nobody, NoName)
         [] m.kind = "used" /\ e.st = "pending" -> Entry("redeemed", Nobody, e.host)
         [] OTHER -> e]
  /\ UNCHANGED <<rosters, owed, expired, faults, others>>

\* Only this coordinator's ledger changes; a used invite cannot be revoked.
InviteRevoke(c, i) ==
  /\ ledger[c][i].st = "pending"
  /\ ledger' = [ledger EXCEPT ![c][i] = Entry("revoked", Nobody, @.host)]
  /\ UNCHANGED <<rosters, owed, gossip, expired, faults, others>>

Expire(i) ==
  /\ i \notin expired
  /\ expired' = expired \cup {i}
  /\ UNCHANGED <<rosters, owed, ledger, gossip, faults, others>>

WithKey(g, k, s) == [g EXCEPT !.keys = [@ EXCEPT ![k] = s]]

\* A reusable key is put into the roster, which is saved afterwards.
ReusableKeyCreate(c, k) ==
  /\ \A d \in Coordinators : live[d].keys[k] = "none" /\ record.keys[k] = "none"
  /\ k \notin expired
  /\ live' = [live EXCEPT ![c] = WithKey(@, k, "active")]
  /\ owed' = [owed EXCEPT ![c] = @ \cup {k}]
  /\ UNCHANGED <<file, disk, sure, ledger, gossip, expired, faults, others>>

\* A revoked key stays revoked in memory even if that cannot be saved.
RevokeReusable(c, k) ==
  /\ live[c].keys[k] = "active"
  /\ live' = [live EXCEPT ![c] = WithKey(@, k, "revoked")]
  /\ owed' = [owed EXCEPT ![c] = @ \cup {"edit"}]
  /\ UNCHANGED <<file, disk, sure, ledger, gossip, expired, faults, others>>

-----------------------------------------------------------------------------
(* The operator. *)

\* Accepting a request approves the peer in memory; the save comes after.
AcceptRequest(c, p) ==
  LET g == [live[c] EXCEPT !.appr = @ \cup {p}] IN
  /\ p \in Range(queue[c]) \ denied[c]
  /\ live' = [live EXCEPT ![c] = g]
  /\ Refresh(c, g, Others(queue[c], p), denied[c])
  /\ owed' = [owed EXCEPT ![c] = @ \cup {"edit"}]
  /\ UNCHANGED <<file, disk, sure, lock, ledger, task, join, gossip, expired,
                 record, behind, counters>>

\* A denied request stays in the queue until the joiner has been told.
DenyRequest(c, p) ==
  /\ p \in Range(queue[c]) \ denied[c]
  /\ denied' = [denied EXCEPT ![c] = @ \cup {p}]
  /\ UNCHANGED <<rosters, owed, lock, ledger, queue, task, join, gossip,
                 expired, record, behind, counters>>

\* A member is removed from the roster in memory; the save comes after.
KickMember(c, p) ==
  /\ Mode = "restricted" /\ kicks < MaxKicks /\ p \in Seated(live[c])
  /\ kicks' = kicks + 1
  /\ live' = [live EXCEPT ![c] = RemovedFrom(@, p)]
  /\ owed' = [owed EXCEPT ![c] = @ \cup {"edit"}]
  /\ UNCHANGED <<file, disk, sure, lock, ledger, queue, denied, task, join,
                 gossip, expired, record, behind, faults, joins>>

\* update_snapshot_and_publish for an edit made in memory.  A reusable key
\* that could not be saved is taken back out, and that is saved.
SaveOwed(c) ==
  LET keys == owed[c] \cap Keys
      g == live[c]
      kept == [g EXCEPT !.keys = [k \in Keys |-> IF k \in keys THEN "none" ELSE @[k]]] IN
  /\ owed[c] # {} /\ lock[c] = Nobody
  /\ \/ SaveOK(c, g) /\ owed' = [owed EXCEPT ![c] = {}]
        /\ Refresh(c, g, queue[c], denied[c])
     \/ SaveFails(c, g, kept)
        /\ owed' = [owed EXCEPT ![c] = IF keys = {} THEN {} ELSE {"edit"}]
        /\ Refresh(c, kept, queue[c], denied[c])
  /\ UNCHANGED <<lock, ledger, task, join, gossip, expired, kicks, joins>>

\* The publisher saves again what is not known to be saved.
RetryDurable(c) ==
  /\ sure[c] = "no" /\ lock[c] = Nobody
  /\ SaveOK(c, live[c]) \/ SaveFails(c, live[c], live[c])
  /\ Refresh(c, live[c], queue[c], denied[c])
  /\ UNCHANGED <<owed, lock, ledger, task, join, gossip, expired, kicks, joins>>

\* The roster of a newer record replaces the coordinator's own.
Reconverge(c) ==
  /\ c \in behind /\ lock[c] = Nobody /\ sure[c] = "yes"
  /\ live' = [live EXCEPT ![c] = record]
  /\ file' = [file EXCEPT ![c] = record]
  /\ disk' = [disk EXCEPT ![c] = record]
  /\ behind' = behind \ {c}
  /\ Refresh(c, record, queue[c], denied[c])
  /\ UNCHANGED <<sure, owed, lock, ledger, task, join, gossip, expired, record,
                 counters>>

\* The daemon stops and starts again: requests, handlers and edits not saved
\* are gone, and the roster is one the disk may hold.
Restart(c) ==
  /\ Fault
  /\ \E g \in {file[c], disk[c]} :
       /\ live' = [live EXCEPT ![c] = g]
       /\ file' = [file EXCEPT ![c] = g]
       /\ disk' = [disk EXCEPT ![c] = g]
  /\ sure' = [sure EXCEPT ![c] = "yes"]
  /\ owed' = [owed EXCEPT ![c] = {}]
  /\ lock' = [lock EXCEPT ![c] = Nobody]
  /\ queue' = [queue EXCEPT ![c] = <<>>]
  /\ denied' = [denied EXCEPT ![c] = {}]
  /\ task' = [task EXCEPT ![c] = [l \in Lanes |-> Idle]]
  /\ UNCHANGED <<ledger, join, gossip, expired, record, behind, kicks, joins>>

-----------------------------------------------------------------------------
(* The joiner. *)

joiner == <<rosters, owed, lock, ledger, queue, denied, gossip, expired,
            record, behind, kicks>>

\* `ray join', with or without one of the secrets its user has.
JoinNetwork(p, s) ==
  /\ joins < MaxJoins /\ joins' = joins + 1
  /\ join[p].st \in {"off", "denied"}
  /\ join' = [join EXCEPT ![p] =
       [NotJoining EXCEPT !.st = "round", !.secret = s, !.todo = admins]]
  /\ UNCHANGED <<joiner, task, faults>>

\* The next coordinator is asked, or cannot be reached.
Ask(p, c) ==
  /\ join[p].st = "round" /\ c \in join[p].todo
  /\ \/ \E l \in Lanes :
          /\ PeerOf[l] = p /\ task[c][l].st = "idle"
          /\ Step(c, l, [Idle EXCEPT !.st = "asked", !.secret = join[p].secret])
          /\ join' = [join EXCEPT ![p].st = "asking", ![p].at = <<c, l>>,
                                  ![p].todo = @ \ {c}]
          /\ UNCHANGED faults
     \/ /\ Fault
        /\ join' = [join EXCEPT ![p].todo = @ \ {c}]
        /\ UNCHANGED task
  /\ UNCHANGED <<joiner, joins>>

\* No answer came: the handler is slow, or its connection or its daemon died.
AnswerTimesOut(p) ==
  /\ join[p].st = "asking"
  /\ IF task[join[p].at[1]][join[p].at[2]].st \in {"idle", "rename", "restore"}
     THEN UNCHANGED faults ELSE Fault
  /\ join' = [join EXCEPT ![p].st = "round", ![p].at = NotJoining.at]
  /\ UNCHANGED <<joiner, task, joins>>

\* A request some coordinator queued is repeated until it is answered; a
\* first round that reached nobody fails.
EndRound(p) ==
  /\ join[p].st = "round" /\ join[p].todo = {}
  /\ join' = [join EXCEPT ![p] =
       IF @.pend = "yes" \/ @.loop = "yes"
       THEN [@ EXCEPT !.todo = admins, !.pend = "no", !.loop = "yes"]
       ELSE NotJoining]
  /\ UNCHANGED <<joiner, task, faults, joins>>

\* A member the published roster does not name leaves.
LeaveRemoved(p) ==
  /\ join[p].st = "joined" /\ p \notin Seated(record)
  /\ join' = [join EXCEPT ![p] = NotJoining]
  /\ UNCHANGED <<joiner, task, faults, joins>>

-----------------------------------------------------------------------------

Init ==
  /\ admins \in AdminSets
  /\ live = [c \in Coordinators |-> EmptyRoster]
  /\ file = live /\ disk = live
  /\ sure = [c \in Coordinators |-> "yes"]
  /\ owed = [c \in Coordinators |-> {}]
  /\ lock = [c \in Coordinators |-> Nobody]
  /\ ledger = [c \in Coordinators |-> [i \in Invites |-> Entry("absent", Nobody, NoName)]]
  /\ queue = [c \in Coordinators |-> <<>>]
  /\ denied = [c \in Coordinators |-> {}]
  /\ task = [c \in Coordinators |-> [l \in Lanes |-> Idle]]
  /\ join = [p \in Peers |-> NotJoining]
  /\ gossip = {} /\ expired = {}
  /\ record = EmptyRoster /\ behind = {}
  /\ kicks = 0 /\ faults = 0 /\ joins = 0

Handler(c, l) ==
  \/ Handle(c, l) \/ CommitAdmission(c, l) \/ RollBack(c, l) \/ Retain(c, l)
  \/ Reply(c, l) \/ RestoreInvite(c, l) \/ Rename(c, l)

Ledgers ==
  \/ \E c \in admins, i \in Invites : InviteCreate(c, i) \/ InviteRevoke(c, i)
  \/ \E m \in gossip : HandleGossip(m)
  \/ \E i \in Secrets : Expire(i)
  \/ \E c \in admins, k \in Keys : ReusableKeyCreate(c, k) \/ RevokeReusable(c, k)

Operator(c) ==
  \/ \E p \in Peers : AcceptRequest(c, p) \/ DenyRequest(c, p) \/ KickMember(c, p)
  \/ SaveOwed(c) \/ RetryDurable(c) \/ Reconverge(c) \/ Restart(c)

Joiner(p) ==
  \/ \E s \in Presents[p] : JoinNetwork(p, s)
  \/ \E c \in admins : Ask(p, c)
  \/ AnswerTimesOut(p) \/ EndRound(p) \/ LeaveRemoved(p)

Next ==
  /\ UNCHANGED admins
  /\ \/ \E c \in admins, l \in Lanes : Handler(c, l)
     \/ Ledgers
     \/ \E c \in admins : Operator(c)
     \/ \E p \in Peers : Joiner(p)

Spec == Init /\ [][Next]_vars

\* A handler runs to its end, the joiner goes on and repeats its request, the
\* publisher retries a save, and operators answer the requests they see.  The
\* commit lock is fair; a request may be evicted before its operator answers.
Here(A) == A /\ UNCHANGED admins
Fairness ==
  /\ \A c \in Coordinators, l \in Lanes :
       /\ WF_vars(Here(Handle(c, l) \/ RollBack(c, l) \/ Retain(c, l)
                       \/ Reply(c, l) \/ RestoreInvite(c, l)))
       /\ SF_vars(Here(CommitAdmission(c, l) \/ Rename(c, l)))
  /\ \A c \in Coordinators :
       /\ WF_vars(Here(SaveOwed(c))) /\ WF_vars(Here(RetryDurable(c)))
       /\ \A p \in Peers : SF_vars(Here(AcceptRequest(c, p)))
  /\ \A p \in Peers :
       /\ WF_vars(Here(AnswerTimesOut(p))) /\ WF_vars(Here(EndRound(p)))
       /\ \A c \in Coordinators : WF_vars(Here(Ask(p, c)))

LiveSpec == Spec /\ Fairness

-----------------------------------------------------------------------------
(* Properties. *)

\* The values the variables take; pending_requests holds a peer once, and a joiner that
\* waits for an answer waits at a lane of its own.
TypeOK ==
  /\ live \in [Coordinators -> Rosters]
  /\ file \in [Coordinators -> Rosters]
  /\ disk \in [Coordinators -> Rosters]
  /\ record \in Rosters
  /\ sure \in [Coordinators -> {"yes", "no"}]
  /\ owed \in [Coordinators -> SUBSET (Keys \cup {"edit"})]
  /\ lock \in [Coordinators -> Lanes \cup {Nobody}]
  /\ ledger \in [Coordinators -> [Invites -> Entries]]
  /\ denied \in [Coordinators -> SUBSET Peers]
  /\ \A c \in Coordinators : queue[c] \in Seq(Peers) /\ IsInjective(queue[c])
  /\ \A p \in Peers :
       /\ join[p].st \in {"off", "round", "asking", "joined", "denied"}
       /\ join[p].todo \subseteq admins /\ join[p].secret \in Secrets \cup {NoInvite}
       /\ IF join[p].st = "asking" THEN PeerOf[join[p].at[2]] = p ELSE join[p].at = NotJoining.at
  /\ behind \subseteq Coordinators

\* Every roster that is live, is on a disk, or may be recovered from one.
Held == {live[d] : d \in Coordinators} \cup {file[d] : d \in Coordinators}
        \cup {disk[d] : d \in Coordinators} \cup {record}
Seats(c, i) == {p \in Peers : \E g \in Held : g.via[p] = <<c, i>>}

Ledger == INSTANCE InviteUse WITH
  Invites <- Coordinators \X Invites,
  status <- [ci \in Coordinators \X Invites |-> ledger[ci[1]][ci[2]].st],
  by <- [ci \in Coordinators \X Invites |-> ledger[ci[1]][ci[2]].by],
  seats <- [ci \in Coordinators \X Invites |-> Seats(ci[1], ci[2])]

\* Each coordinator's ledger, with the rosters its redemptions led to, is an
\* InviteUse: an invite redeemed at a coordinator seats its redeemer and nobody
\* else, and redeem_invite_and_admit gives it back only when no roster, live,
\* saved or possibly on disk, holds a seat for it.
LedgersImplement == Ledger!Spec

\* commit_admission answers Denied only when the peer has, in memory and on
\* disk, exactly the seat it had before; "denying while disk might recover H2
\* would later grant a supposedly denied peer".
DenialIsDurable ==
  [][\A c \in Coordinators, l \in Lanes :
       task[c][l].st = "rollback" /\ task'[c][l].st = "undone" =>
         \A g \in {live'[c], file'[c], disk'[c]} :
           g.name[PeerOf[l]] \in {Out, task[c][l].undo.name}]_vars

\* A handler goes on to send Welcome, for an admission or a repeated request,
\* only when the disk holds a roster that seats the peer.  The one exception is
\* a peer that kick_member took out of the roster between the saves of its
\* admission: commit_admission saves what it finds, the removal included.
WelcomeIsDurable ==
  [][\A c \in Coordinators, l \in Lanes :
       task[c][l].st # task'[c][l].st /\ task'[c][l].st \in {"hello", "welcome"}
         => \/ PeerOf[l] \in Seated(disk'[c])
            \/ PeerOf[l] \notin Seated(live'[c]) /\ "edit" \in owed[c]]_vars

\* No request of a member or of an approved peer waits for an operator, and
\* the queue never outgrows MAX_PENDING_JOINS.
NoGhostRequests ==
  \A c \in Coordinators :
    /\ Len(queue[c]) <= MaxPending
    /\ Range(queue[c]) \cap (Seated(live[c]) \cup live[c].appr) = {}
    /\ denied[c] \subseteq Range(queue[c])

-----------------------------------------------------------------------------
(* Not true of the code; the README gives the instances.                     *)

\* "retries cannot turn an admitted peer into a denied one": a coordinator does
\* not answer JoinDenied to a peer that a coordinator has seated for the secret
\* it presents.
AdmittedNotDenied ==
  [][\A p \in Peers :
       join[p].st = "asking" /\ join'[p].st = "denied" =>
         \A c \in Coordinators : join[p].secret \in Invites =>
           disk[c].via[p] # <<c, join[p].secret>>]_vars

\* Two members never have the same hostname.
HostnamesUnique ==
  \A c \in Coordinators : \A p, q \in Seated(disk[c]) :
    disk[c].name[p] = disk[c].name[q] => p = q

\* A join that is not given up at once, because no coordinator was reached,
\* ends with the peer joined or denied: the request survives lost answers,
\* slow handlers, evictions, restarts and failed saves.
JoinSettles ==
  \A p \in Peers :
    join[p].st \in {"round", "asking"} ~> join[p].st \in {"joined", "denied", "off"}
====
