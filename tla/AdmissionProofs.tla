--------------------------- MODULE AdmissionProofs ---------------------------
(***************************************************************************)
(* Proofs about Admission, for any coordinators, peers, connections and    *)
(* invites, and any number of joins, removals and faults: an answer to a   *)
(* joiner agrees with the disk, and the ledgers implement InviteUse.       *)
(***************************************************************************)
EXTENDS Admission, TLAPS

USE ZenonT(30)

-----------------------------------------------------------------------------
(* The inductive invariant. *)

IsRoster(g) ==
  /\ DOMAIN g = {"name", "via", "appr", "keys"}
  /\ DOMAIN g.name = Peers /\ DOMAIN g.via = Peers

IsTask(t) ==
  /\ DOMAIN t = {"st", "secret", "paid", "name", "appr", "undo"}
  /\ t.paid \in Invites \cup {NoInvite}
  /\ t.st \in Replying \cup {"idle", "asked", "valid", "rollback", "retain",
                             "restore", "rename"}
  /\ t.st \in {"valid", "rollback", "retain"} => t.name # Out
  /\ t.st = "restore" => t.paid # NoInvite

IsEntry(e) ==
  /\ DOMAIN e = {"st", "by", "host"}
  /\ e.st \in {"absent", "pending", "redeemed", "revoked"}

RostersOK ==
  /\ DOMAIN live = Coordinators /\ DOMAIN file = Coordinators /\ DOMAIN disk = Coordinators
  /\ \A c \in Coordinators : IsRoster(live[c]) /\ IsRoster(file[c]) /\ IsRoster(disk[c])
  /\ IsRoster(record)

TasksOK ==
  /\ DOMAIN task = Coordinators
  /\ \A c \in Coordinators :
       DOMAIN task[c] = Lanes /\ \A l \in Lanes : IsTask(task[c][l])

LedgersOK ==
  /\ DOMAIN ledger = Coordinators
  /\ \A c \in Coordinators :
       DOMAIN ledger[c] = Invites /\ \A i \in Invites : IsEntry(ledger[c][i])
  /\ \A m \in gossip : m.to \in Coordinators /\ m.inv \in Invites

FlagsOK ==
  /\ admins \subseteq Coordinators
  /\ sure \in [Coordinators -> {"yes", "no"}]
  /\ DOMAIN lock = Coordinators /\ DOMAIN owed = Coordinators

Shapes == RostersOK /\ TasksOK /\ LedgersOK /\ FlagsOK

\* Some roster seats p for the invite v, or a rollback would seat it again.
Shown(p, v) ==
  \/ \E d \in Coordinators :
       live[d].via[p] = v \/ file[d].via[p] = v \/ disk[d].via[p] = v
  \/ record.via[p] = v
Kept(p, v) ==
  \E d \in Coordinators, l \in Lanes : PeerOf[l] = p /\ task[d][l].undo.via = v

\* Who a seat belongs to, in the ledger that gave it.
SpentBy(c, i, p) == ledger[c][i].st = "redeemed" /\ ledger[c][i].by = p

\* A seat given for an invite belongs to the peer that redeemed it.
SeatsPaid ==
  \A c \in Coordinators, i \in Invites, p \in Peers :
    Shown(p, <<c, i>>) \/ Kept(p, <<c, i>>) => SpentBy(c, i, p)

\* An admission under way holds the invite it burned, alone.
HandlersPaid ==
  \A c \in Coordinators, l \in Lanes :
    task[c][l].paid # NoInvite => SpentBy(c, task[c][l].paid, PeerOf[l])
PaidApart ==
  \A c \in Coordinators, l, m \in Lanes :
    task[c][l].paid = task[c][m].paid /\ task[c][l].paid # NoInvite => l = m

\* Until it is committed, no roster has a seat for that invite.
Seating == {"rollback", "retain", "retained", "welcome"}
NotSeatedYet ==
  \A c \in Coordinators, l \in Lanes :
    task[c][l].paid # NoInvite /\ task[c][l].st \notin Seating =>
      \A p \in Peers : ~Shown(p, <<c, task[c][l].paid>>) /\ ~Kept(p, <<c, task[c][l].paid>>)

\* A commit that has not ended holds the lock ...
LockHeld ==
  \A c \in Coordinators, l \in Lanes :
    task[c][l].st \in {"rollback", "retain"} => lock[c] = l

\* ... and the seat it tries to save is in memory, unless the peer was removed,
\* and perhaps in the file, and nowhere else.
Tentative(c, l) ==
  LET t == task[c][l] p == PeerOf[l] v == <<c, t.paid>> IN
  /\ \/ live[c].name[p] = t.name /\ live[c].via[p] = ViaOf(c, t)
     \/ live[c].name[p] = Out /\ live[c].via[p] = NoVia
  /\ t.paid # NoInvite =>
       /\ \A q \in Peers : ~Kept(q, v) /\ record.via[q] # v
       /\ \A d \in Coordinators, q \in Peers :
            /\ disk[d].via[q] # v
            /\ d # c => live[d].via[q] # v /\ file[d].via[q] # v
TentativeAlone ==
  \A c \in Coordinators, l \in Lanes : task[c][l].st = "rollback" => Tentative(c, l)

\* A retained seat is in memory until an operator's edit.
Retained ==
  \A c \in Coordinators, l \in Lanes : task[c][l].st = "retain" =>
    PeerOf[l] \in Seated(live[c]) \/ "edit" \in owed[c]

\* A roster known to be saved seats no fewer peers on disk than in memory.
SureSaved ==
  \A c \in Coordinators : sure[c] = "yes" => Seated(live[c]) \subseteq Seated(disk[c])

Uses == SeatsPaid /\ HandlersPaid /\ PaidApart /\ NotSeatedYet
Commits == LockHeld /\ TentativeAlone
Saves == Retained /\ SureSaved
AdmissionInv == Shapes /\ Uses /\ Commits /\ Saves

-----------------------------------------------------------------------------
(* What the updates do. *)

\* Step moves one handler.
LEMMA StepFacts ==
  ASSUME TasksOK, NEW c \in Coordinators, NEW l \in Lanes, NEW t, Step(c, l, t), IsTask(t)
  PROVE  /\ TasksOK' /\ task'[c][l] = t
         /\ \A d \in Coordinators, m \in Lanes : d # c \/ m # l => task'[d][m] = task[d][m]
<1>1. /\ DOMAIN task' = Coordinators
      /\ \A d \in Coordinators : DOMAIN task'[d] = Lanes
  BY DEF Step, TasksOK
<1>2. task'[c][l] = t
  BY DEF Step, TasksOK
<1>3. \A d \in Coordinators, m \in Lanes : d # c \/ m # l => task'[d][m] = task[d][m]
  BY DEF Step, TasksOK
<1>4. \A d \in Coordinators, m \in Lanes : IsTask(task'[d][m])
  BY <1>2, <1>3 DEF TasksOK
<1> QED
  BY <1>1, <1>2, <1>3, <1>4 DEF TasksOK

\* A peer is given a seat.
LEMMA SeatFacts ==
  ASSUME NEW g, IsRoster(g), NEW p \in Peers, NEW n, NEW v, NEW h, h = SeatIn(g, p, n, v)
  PROVE  /\ IsRoster(h) /\ h.name[p] = n /\ h.via[p] = v /\ h.appr = g.appr
         /\ \A q \in Peers \ {p} : h.name[q] = g.name[q] /\ h.via[q] = g.via[q]
  BY DEF IsRoster, SeatIn

\* The approvals and the keys are apart from the seats.
LEMMA SidesApart ==
  ASSUME NEW g, IsRoster(g), NEW a
  PROVE  /\ IsRoster([g EXCEPT !.appr = a]) /\ IsRoster([g EXCEPT !.keys = a])
         /\ [g EXCEPT !.appr = a].name = g.name /\ [g EXCEPT !.appr = a].via = g.via
         /\ [g EXCEPT !.keys = a].name = g.name /\ [g EXCEPT !.keys = a].via = g.via
  BY DEF IsRoster

\* A step of coordinator c on the rosters: w may be written, g is in memory.
Took(c, w, g) ==
  /\ DOMAIN live' = Coordinators /\ DOMAIN file' = Coordinators /\ DOMAIN disk' = Coordinators
  /\ live'[c] = g /\ file'[c] \in {file[c], w} /\ disk'[c] \in {disk[c], w}
  /\ record' \in {record, w}
  /\ \A d \in Coordinators \ {c} :
       /\ live'[d] = live[d] /\ file'[d] = file[d] /\ disk'[d] = disk[d] /\ sure'[d] = sure[d]
  /\ sure' \in [Coordinators -> {"yes", "no"}]
  /\ sure'[c] = "yes" => Seated(g) \subseteq Seated(disk'[c])

LEMMA SaveOKTakes ==
  ASSUME RostersOK, FlagsOK, NEW c \in Coordinators, NEW g, SaveOK(c, g)
  PROVE  Took(c, g, g) /\ file'[c] = g /\ disk'[c] = g /\ record' = g /\ sure'[c] = "yes"
  BY DEF RostersOK, FlagsOK, SaveOK, Took

LEMMA SaveFailsTakes ==
  ASSUME RostersOK, FlagsOK, NEW c \in Coordinators, NEW w, NEW g, SaveFails(c, w, g)
  PROVE  Took(c, w, g) /\ disk' = disk /\ record' = record /\ sure'[c] = "no"
  BY DEF RostersOK, FlagsOK, SaveFails, Took

LEMMA TookRosters ==
  ASSUME RostersOK, NEW c \in Coordinators, NEW w, NEW g, Took(c, w, g), IsRoster(w), IsRoster(g)
  PROVE  RostersOK'
<1>1. IsRoster(live'[c]) /\ IsRoster(file'[c]) /\ IsRoster(disk'[c]) /\ IsRoster(record')
  BY DEF Took, RostersOK
<1>2. \A d \in Coordinators \ {c} : IsRoster(live'[d]) /\ IsRoster(file'[d]) /\ IsRoster(disk'[d])
  BY DEF Took, RostersOK
<1> QED
  BY <1>1, <1>2 DEF Took, RostersOK

LEMMA TookSure ==
  ASSUME SureSaved, NEW c \in Coordinators, NEW w, NEW g, Took(c, w, g)
  PROVE  SureSaved'
<1> SUFFICES ASSUME NEW d \in Coordinators, sure'[d] = "yes"
             PROVE  Seated(live'[d]) \subseteq Seated(disk'[d])
  BY DEF SureSaved, Seated
<1>1. CASE d = c
  BY <1>1 DEF Took
<1>2. CASE d # c
  BY <1>2 DEF Took, SureSaved
<1> QED
  BY <1>1, <1>2

LEMMA TookShows ==
  ASSUME NEW c \in Coordinators, NEW w, NEW g, Took(c, w, g), NEW p \in Peers, NEW v, Shown(p, v)'
  PROVE  Shown(p, v) \/ g.via[p] = v \/ w.via[p] = v
<1>1. CASE record'.via[p] = v
  BY <1>1 DEF Took, Shown
<1>2. CASE \E d \in Coordinators :
             live'[d].via[p] = v \/ file'[d].via[p] = v \/ disk'[d].via[p] = v
  <2> PICK d \in Coordinators :
             live'[d].via[p] = v \/ file'[d].via[p] = v \/ disk'[d].via[p] = v
    BY <1>2
  <2>1. CASE d = c
    BY <2>1 DEF Took, Shown
  <2>2. CASE d # c
    BY <2>2 DEF Took, Shown
  <2> QED
    BY <2>1, <2>2
<1> QED
  BY <1>1, <1>2 DEF Shown

-----------------------------------------------------------------------------
(* How the invariant is kept. *)

\* A seat in a handler's own ledger that a step may add, and none else; the
\* handler of lane l of coordinator c may keep its invite or drop it.
AddsOnly(c, l) ==
  \A d \in Coordinators, i \in Invites, p \in Peers :
    Shown(p, <<d, i>>)' \/ Kept(p, <<d, i>>)' =>
      \/ Shown(p, <<d, i>>) \/ Kept(p, <<d, i>>)
      \/ /\ l \in Lanes /\ p = PeerOf[l] /\ d = c /\ i = task[c][l].paid
         /\ task'[c][l].paid = i /\ task'[c][l].st \in Seating

\* No roster and no rollback has the seat.
Nowhere(c, i) == \A p \in Peers : ~Shown(p, <<c, i>>) /\ ~Kept(p, <<c, i>>)

LEMMA UsesKept ==
  ASSUME TasksOK, LedgersOK, Uses, NEW c \in Coordinators, NEW l,
         \A d \in Coordinators, i \in Invites, p \in Peers : SpentBy(d, i, p) => SpentBy(d, i, p)',
         \A d \in Coordinators, m \in Lanes : d # c \/ m # l =>
           task'[d][m] = task[d][m] \/ task'[d][m].paid = NoInvite,
         l \in Lanes => task'[c][l].paid \in {task[c][l].paid, NoInvite},
         l \in Lanes /\ task'[c][l].paid # NoInvite /\ task'[c][l].st \notin Seating =>
           task[c][l].st \notin Seating \/ Nowhere(c, task[c][l].paid)',
         AddsOnly(c, l)
  PROVE  Uses'
<1>0. \A d \in Coordinators, m \in Lanes : task[d][m].paid # NoInvite => task[d][m].paid \in Invites
  BY DEF TasksOK, IsTask
<1>1. SeatsPaid'
  <2> SUFFICES ASSUME NEW d \in Coordinators, NEW i \in Invites, NEW p \in Peers,
                      Shown(p, <<d, i>>)' \/ Kept(p, <<d, i>>)'
               PROVE  SpentBy(d, i, p)'
    BY DEF SeatsPaid
  <2>1. CASE Shown(p, <<d, i>>) \/ Kept(p, <<d, i>>)
    BY <2>1 DEF Uses, SeatsPaid
  <2>2. CASE l \in Lanes /\ p = PeerOf[l] /\ d = c /\ i = task[c][l].paid
    BY <2>2, NoInviteIsNone DEF Uses, HandlersPaid
  <2> QED
    BY <2>1, <2>2 DEF AddsOnly
<1>p. \A d \in Coordinators, m \in Lanes :
        task'[d][m].paid # NoInvite => task'[d][m].paid = task[d][m].paid
  <2> TAKE d \in Coordinators, m \in Lanes
  <2> QED
    OBVIOUS
<1>2. HandlersPaid'
  <2> SUFFICES ASSUME NEW d \in Coordinators, NEW m \in Lanes, task'[d][m].paid # NoInvite
               PROVE  SpentBy(d, task[d][m].paid, PeerOf[m])'
    BY DEF HandlersPaid
  <2>1. task'[d][m].paid = task[d][m].paid
    BY <1>p
  <2>2. SpentBy(d, task[d][m].paid, PeerOf[m]) /\ task[d][m].paid \in Invites
    BY <2>1, <1>0 DEF Uses, HandlersPaid
  <2> PICK i \in Invites : i = task[d][m].paid
    BY <2>2
  <2>3. SpentBy(d, i, PeerOf[m])'
    BY <2>2, LanesHavePeers
  <2> QED
    BY <2>1, <2>3 DEF SpentBy
<1>3. PaidApart'
  <2> SUFFICES ASSUME NEW d \in Coordinators, NEW m \in Lanes, NEW n \in Lanes,
                      task'[d][m].paid = task'[d][n].paid, task'[d][m].paid # NoInvite
               PROVE  m = n
    BY DEF PaidApart
  <2> QED
    BY <1>p DEF Uses, PaidApart
<1>4. NotSeatedYet'
  <2> SUFFICES ASSUME NEW d \in Coordinators, NEW m \in Lanes, task'[d][m].paid # NoInvite,
                      task'[d][m].st \notin Seating, NEW p \in Peers,
                      \/ Shown(p, <<d, task[d][m].paid>>)'
                      \/ Kept(p, <<d, task[d][m].paid>>)'
               PROVE  FALSE
    BY DEF NotSeatedYet
  <2> PICK i \in Invites : i = task[d][m].paid
    BY <1>p, <1>0
  <2>0. task'[d][m].paid = i
    BY <1>p
  <2>1. Shown(p, <<d, i>>)' \/ Kept(p, <<d, i>>)'
    BY <2>0 DEF Shown, Kept
  <2>2. CASE d # c \/ m # l
    <3>1. task'[d][m] = task[d][m]
      BY <2>2
    <3>2. ~Shown(p, <<d, i>>) /\ ~Kept(p, <<d, i>>)
      BY <3>1 DEF Uses, NotSeatedYet
    <3>3. l \in Lanes /\ d = c /\ i = task[c][l].paid
      BY <2>1, <3>2 DEF AddsOnly
    <3> QED
      BY <3>3, <2>2, <3>1 DEF Uses, PaidApart
  <2>3. CASE d = c /\ m = l
    <3>1. CASE task[c][l].st \notin Seating
      BY <2>1, <2>3, <3>1, <1>p DEF AddsOnly, Uses, NotSeatedYet
    <3>2. CASE Nowhere(c, task[c][l].paid)'
      <4>1. task'[c][l].paid = i
        BY <1>p, <2>3
      <4> QED
        BY <3>2, <4>1, <2>1, <2>3 DEF Nowhere, Shown, Kept
    <3> QED
      BY <2>3, <3>1, <3>2
  <2> QED
    BY <2>2, <2>3
<1> QED
  BY <1>1, <1>2, <1>3, <1>4 DEF Uses

LEMMA KeptStep ==
  ASSUME TasksOK, NEW c \in Coordinators, NEW l \in Lanes, NEW t, Step(c, l, t), IsTask(t),
         NEW p, NEW v, Kept(p, v)'
  PROVE  Kept(p, v) \/ (p = PeerOf[l] /\ t.undo.via = v)
<1> PICK d \in Coordinators, m \in Lanes : PeerOf[m] = p /\ task'[d][m].undo.via = v
  BY DEF Kept
<1>0. /\ task'[c][l] = t
      /\ \A e \in Coordinators, n \in Lanes : e # c \/ n # l => task'[e][n] = task[e][n]
  BY StepFacts
<1>1. CASE d = c /\ m = l
  BY <1>1, <1>0
<1>2. CASE d # c \/ m # l
  BY <1>2, <1>0 DEF Kept
<1> QED
  BY <1>1, <1>2

\* One commit at a time.
LEMMA OneCommit ==
  ASSUME LockHeld, NEW c \in Coordinators, NEW m \in Lanes,
         task[c][m].st \in {"rollback", "retain"}
  PROVE  lock[c] # Nobody /\ \A l \in Lanes : task[c][l].st \in {"rollback", "retain"} => l = m
  BY LanesHavePeers DEF LockHeld

\* A roster made from what coordinator c has.
From(c, g) ==
  \A q \in Peers :
    \/ g.via[q] \in {live[c].via[q], file[c].via[q], disk[c].via[q], record.via[q], NoVia}
    \/ g.via[q] \in {c} \X Invites
    \/ Kept(q, g.via[q])

\* A rollback keeps what was in a roster of c.
UndoFrom(c) ==
  \A q \in Peers, d \in Coordinators, i \in Invites :
    Kept(q, <<d, i>>)' => Kept(q, <<d, i>>) \/ live[c].via[q] = <<d, i>>

\* A commit at another coordinator is not disturbed.
LEMMA TentativeElsewhere ==
  ASSUME TasksOK, TentativeAlone, NEW c \in Coordinators, NEW w, NEW g, Took(c, w, g),
         From(c, w), From(c, g),
         \A d \in Coordinators \ {c}, m \in Lanes : task'[d][m] = task[d][m],
         UndoFrom(c),
         NEW d \in Coordinators \ {c}, NEW m \in Lanes, task'[d][m].st = "rollback"
  PROVE  Tentative(d, m)'
<1>0. PICK v : v = <<d, task[d][m].paid>>
  OBVIOUS
<1>1. task'[d][m] = task[d][m] /\ Tentative(d, m)
  BY DEF TentativeAlone
<1>2. live'[d] = live[d] /\ file'[d] = file[d] /\ disk'[d] = disk[d]
  BY DEF Took
<1>a. \/ live'[d].name[PeerOf[m]] = task'[d][m].name /\ live'[d].via[PeerOf[m]] = ViaOf(d, task'[d][m])
      \/ live'[d].name[PeerOf[m]] = Out /\ live'[d].via[PeerOf[m]] = NoVia
  BY <1>1, <1>2 DEF Tentative, ViaOf
<1>3. SUFFICES ASSUME task[d][m].paid # NoInvite
               PROVE  /\ \A q \in Peers : ~Kept(q, v)' /\ record'.via[q] # v
                      /\ \A e \in Coordinators, q \in Peers :
                           /\ disk'[e].via[q] # v
                           /\ e # d => live'[e].via[q] # v /\ file'[e].via[q] # v
  <2>1. v = <<d, task'[d][m].paid>> /\ task'[d][m].paid = task[d][m].paid
    BY <1>0, <1>1
  <2> QED
    BY <1>a, <2>1 DEF Tentative
<1>4. /\ \A q \in Peers : ~Kept(q, v) /\ record.via[q] # v
      /\ \A e \in Coordinators, q \in Peers :
           /\ disk[e].via[q] # v
           /\ e # d => live[e].via[q] # v /\ file[e].via[q] # v
  BY <1>0, <1>1, <1>3 DEF Tentative
<1>5. v # NoVia /\ v \notin {c} \X Invites
  BY <1>0, <1>3 DEF NoVia
<1>6. \A q \in Peers : w.via[q] # v /\ g.via[q] # v
  BY <1>4, <1>5 DEF From
<1>7. \A q \in Peers : ~Kept(q, v)' /\ record'.via[q] # v
  <2> TAKE q \in Peers
  <2>1. record'.via[q] # v
    BY <1>4, <1>6 DEF Took
  <2>2. ~Kept(q, v)'
    <3>1. PICK i \in Invites : v = <<d, i>>
      BY <1>0, <1>3 DEF TasksOK, IsTask
    <3>2. ~Kept(q, <<d, i>>) /\ live[c].via[q] # <<d, i>>
      BY <1>4, <3>1
    <3>3. ~Kept(q, <<d, i>>)'
      BY <3>2 DEF UndoFrom
    <3> QED
      BY <3>1, <3>3
  <2> QED
    BY <2>1, <2>2
<1>8. \A e \in Coordinators, q \in Peers :
        /\ disk'[e].via[q] # v
        /\ e # d => live'[e].via[q] # v /\ file'[e].via[q] # v
  <2> TAKE e \in Coordinators, q \in Peers
  <2>1. CASE e = c
    BY <2>1, <1>4, <1>6 DEF Took
  <2>2. CASE e # c
    BY <2>2, <1>4, SMTT(30) DEF Took
  <2> QED
    BY <2>1, <2>2
<1> QED
  BY <1>7, <1>8

-----------------------------------------------------------------------------
(* The kinds of steps. *)

\* The rosters stay.
LEMMA ShownFrame ==
  ASSUME UNCHANGED <<live, file, disk, record>>, NEW p, NEW v
  PROVE  Shown(p, v)' <=> Shown(p, v)
  BY DEF Shown

\* Steps that touch neither rosters nor handlers.
LEMMA StepLedger ==
  ASSUME AdmissionInv, UNCHANGED <<admins, rosters, owed, lock, task, record>>, LedgersOK',
         \A c \in Coordinators, i \in Invites, p \in Peers : SpentBy(c, i, p) => SpentBy(c, i, p)'
  PROVE  AdmissionInv'
<1> USE DEF rosters
<1>1. Shapes'
  BY DEF AdmissionInv, Shapes, RostersOK, TasksOK, FlagsOK
<1>s. \A p, v : (Shown(p, v)' <=> Shown(p, v)) /\ (Kept(p, v)' <=> Kept(p, v))
  BY DEF Shown, Kept
<1>2. SeatsPaid'
  BY <1>s DEF AdmissionInv, Uses, SeatsPaid
<1>3. HandlersPaid'
  <2> SUFFICES ASSUME NEW c \in Coordinators, NEW l \in Lanes, task'[c][l].paid # NoInvite
               PROVE  SpentBy(c, task[c][l].paid, PeerOf[l])'
    BY DEF HandlersPaid
  <2>1. SpentBy(c, task[c][l].paid, PeerOf[l]) /\ task[c][l].paid \in Invites
    BY DEF AdmissionInv, Uses, HandlersPaid, Shapes, TasksOK, IsTask
  <2>2. PICK i \in Invites : i = task[c][l].paid
    BY <2>1
  <2>3. SpentBy(c, i, PeerOf[l])'
    BY <2>1, <2>2, LanesHavePeers
  <2> QED
    BY <2>2, <2>3 DEF SpentBy
<1>4. PaidApart'
  BY DEF AdmissionInv, Uses, PaidApart
<1>5. NotSeatedYet'
  <2> SUFFICES ASSUME NEW c \in Coordinators, NEW l \in Lanes, task'[c][l].paid # NoInvite,
                      task'[c][l].st \notin Seating, NEW p \in Peers
               PROVE  /\ ~Shown(p, <<c, task[c][l].paid>>)'
                      /\ ~Kept(p, <<c, task[c][l].paid>>)'
    BY DEF NotSeatedYet
  <2>1. PICK v : v = <<c, task[c][l].paid>>
    OBVIOUS
  <2>2. ~Shown(p, v)' /\ ~Kept(p, v)'
    BY <1>s, <2>1 DEF AdmissionInv, Uses, NotSeatedYet
  <2> QED
    BY <2>1, <2>2 DEF Shown, Kept
<1>6. LockHeld'
  BY DEF AdmissionInv, Commits, LockHeld
<1>7. TentativeAlone'
  <2> SUFFICES ASSUME NEW c \in Coordinators, NEW l \in Lanes, task'[c][l].st = "rollback"
               PROVE  Tentative(c, l)'
    BY DEF TentativeAlone
  <2>1. Tentative(c, l)
    BY DEF AdmissionInv, Commits, TentativeAlone
  <2> QED
    BY <2>1 DEF Tentative, Kept, ViaOf
<1>8. Saves'
  BY DEF AdmissionInv, Saves, Retained, SureSaved, Seated
<1> QED
  BY <1>1, <1>2, <1>3, <1>4, <1>5, <1>6, <1>7, <1>8 DEF AdmissionInv, Uses, Commits

\* Steps of a handler outside its commit.
LEMMA StepTask ==
  ASSUME AdmissionInv, UNCHANGED <<admins, rosters, owed, lock, record>>, LedgersOK',
         NEW c \in Coordinators, NEW l \in Lanes, NEW t, Step(c, l, t), IsTask(t),
         task[c][l].st \notin {"rollback", "retain"}, t.st \notin {"rollback", "retain"},
         t.undo \in {task[c][l].undo, NoUndo}
  PROVE  Shapes' /\ Commits' /\ Saves' /\ AddsOnly(c, l)
<1> USE DEF rosters
<1>0. TasksOK /\ TasksOK'
  BY StepFacts DEF AdmissionInv, Shapes
<1>1. Shapes'
  BY <1>0 DEF AdmissionInv, Shapes, RostersOK, FlagsOK
<1>2. /\ task'[c][l] = t
      /\ \A d \in Coordinators, m \in Lanes : d # c \/ m # l => task'[d][m] = task[d][m]
  BY <1>0, StepFacts
<1>3. \A d \in Coordinators, m \in Lanes :
        task'[d][m].st \in {"rollback", "retain"} => task'[d][m] = task[d][m]
  BY <1>2
<1>k. \A i \in Invites, d \in Coordinators, p \in Peers :
        Kept(p, <<d, i>>)' => Kept(p, <<d, i>>)
  <2> SUFFICES ASSUME NEW i \in Invites, NEW d \in Coordinators, NEW p \in Peers,
                      Kept(p, <<d, i>>)', ~Kept(p, <<d, i>>)
               PROVE  FALSE
    OBVIOUS
  <2>1. p = PeerOf[l] /\ t.undo.via = <<d, i>>
    BY <1>0, KeptStep
  <2>2. CASE t.undo = task[c][l].undo
    BY <2>1, <2>2 DEF Kept
  <2>3. CASE t.undo = NoUndo
    BY <2>1, <2>3, NoInviteIsNone, SMTT(30) DEF NoUndo, NoVia
  <2> QED
    BY <2>2, <2>3
<1>4. LockHeld'
  BY <1>3 DEF AdmissionInv, Commits, LockHeld
<1>5. TentativeAlone'
  <2> SUFFICES ASSUME NEW d \in Coordinators, NEW m \in Lanes, task'[d][m].st = "rollback"
               PROVE  Tentative(d, m)'
    BY DEF TentativeAlone
  <2>1. task'[d][m] = task[d][m] /\ Tentative(d, m)
    BY <1>3 DEF AdmissionInv, Commits, TentativeAlone
  <2>2. task[d][m].paid # NoInvite =>
          \A q \in Peers : ~Kept(q, <<d, task[d][m].paid>>)'
    <3> SUFFICES ASSUME task[d][m].paid # NoInvite, NEW q \in Peers
                 PROVE  ~Kept(q, <<d, task[d][m].paid>>)'
      OBVIOUS
    <3>1. PICK i \in Invites : i = task[d][m].paid
      BY <1>0 DEF TasksOK, IsTask
    <3>2. ~Kept(q, <<d, i>>)'
      BY <2>1, <3>1, <1>k DEF Tentative
    <3> QED
      BY <2>1, <3>1, <3>2 DEF Kept
  <2> QED
    BY <2>1, <2>2 DEF Tentative, ViaOf
<1>6. Saves'
  BY <1>3 DEF AdmissionInv, Saves, Retained, SureSaved, Seated
<1>7. AddsOnly(c, l)
  BY <1>k, ShownFrame DEF AddsOnly
<1> QED
  BY <1>1, <1>4, <1>5, <1>6, <1>7 DEF Commits

\* No roster shows a seat for an invite that none showed before.
NothingNew ==
  \A d \in Coordinators, i \in Invites, p \in Peers : Shown(p, <<d, i>>)' => Shown(p, <<d, i>>)

\* Edits of the roster in memory: seats are kept or taken away.
LEMMA StepLive ==
  ASSUME AdmissionInv, NEW c \in Coordinators, NEW g, IsRoster(g),
         live' = [live EXCEPT ![c] = g],
         UNCHANGED <<admins, file, disk, sure, lock, ledger, task, record, gossip>>,
         DOMAIN owed' = Coordinators, \A d \in Coordinators : owed[d] \subseteq owed'[d],
         \A p \in Peers : \/ g.name[p] = live[c].name[p] /\ g.via[p] = live[c].via[p]
                          \/ g.name[p] = Out /\ g.via[p] = NoVia /\ "edit" \in owed'[c]
  PROVE  AdmissionInv' /\ NothingNew
<1>0. /\ DOMAIN live' = Coordinators /\ live'[c] = g
      /\ \A d \in Coordinators \ {c} : live'[d] = live[d]
  BY DEF AdmissionInv, Shapes, RostersOK
<1>s. Seated(g) \subseteq Seated(live[c])
  BY DEF Seated
<1>c. sure[c] = "yes" => Seated(g) \subseteq Seated(disk[c])
  BY <1>s DEF AdmissionInv, Saves, SureSaved
<1>t. Took(c, g, g)
  BY <1>0, <1>c DEF AdmissionInv, Shapes, FlagsOK, Took, RostersOK
<1>1. RostersOK'
  BY <1>t, TookRosters DEF AdmissionInv, Shapes
<1>2. Shapes'
  BY <1>1 DEF AdmissionInv, Shapes, TasksOK, LedgersOK, FlagsOK
<1>3. NothingNew
  <2> SUFFICES ASSUME NEW d \in Coordinators, NEW i \in Invites, NEW p \in Peers,
                      Shown(p, <<d, i>>)', ~Shown(p, <<d, i>>)
               PROVE  FALSE
    BY DEF NothingNew
  <2>1. g.via[p] = <<d, i>>
    <3> PICK v : v = <<d, i>>
      OBVIOUS
    <3>1. Shown(p, v)'
      OBVIOUS
    <3> PICK w : w = g
      OBVIOUS
    <3>2. Took(c, w, g)
      BY <1>t
    <3>3. Shown(p, v) \/ g.via[p] = v \/ w.via[p] = v
      BY <3>1, <3>2, TookShows
    <3> QED
      BY <3>3
  <2>2. g.via[p] # NoVia
    BY <2>1, NoInviteIsNone, SMTT(30) DEF NoVia
  <2>3. live[c].via[p] = <<d, i>>
    BY <2>1, <2>2
  <2> QED
    BY <2>3 DEF Shown
<1>k. \A p, v : Kept(p, v)' <=> Kept(p, v)
  BY DEF Kept
<1>n. \A p \in Peers, d \in Coordinators, i \in Invites :
        Shown(p, <<d, i>>)' \/ Kept(p, <<d, i>>)' => Shown(p, <<d, i>>) \/ Kept(p, <<d, i>>)
  BY <1>3, <1>k DEF NothingNew
<1>4. Uses'
  <2>1. SeatsPaid'
    <3> SUFFICES ASSUME NEW d \in Coordinators, NEW i \in Invites, NEW p \in Peers,
                        Shown(p, <<d, i>>)' \/ Kept(p, <<d, i>>)'
                 PROVE  SpentBy(d, i, p)'
      BY DEF SeatsPaid
    <3>1. SpentBy(d, i, p)
      BY <1>n DEF AdmissionInv, Uses, SeatsPaid
    <3> QED
      BY <3>1 DEF SpentBy
  <2>2. PaidApart'
    BY DEF AdmissionInv, Uses, PaidApart
  <2>h. HandlersPaid'
    <3> SUFFICES ASSUME NEW d \in Coordinators, NEW l \in Lanes, task'[d][l].paid # NoInvite
                 PROVE  SpentBy(d, task[d][l].paid, PeerOf[l])'
      BY DEF HandlersPaid
    <3>1. SpentBy(d, task[d][l].paid, PeerOf[l])
      BY DEF AdmissionInv, Uses, HandlersPaid
    <3> QED
      BY <3>1 DEF SpentBy
  <2>3. NotSeatedYet'
    <3> SUFFICES ASSUME NEW d \in Coordinators, NEW l \in Lanes, task'[d][l].paid # NoInvite,
                        task'[d][l].st \notin Seating, NEW p \in Peers
                 PROVE  /\ ~Shown(p, <<d, task[d][l].paid>>)'
                        /\ ~Kept(p, <<d, task[d][l].paid>>)'
      BY DEF NotSeatedYet
    <3>1. PICK i \in Invites : i = task[d][l].paid
      BY DEF AdmissionInv, Shapes, TasksOK, IsTask
    <3>2. ~Shown(p, <<d, i>>)' /\ ~Kept(p, <<d, i>>)'
      BY <1>n, <3>1 DEF AdmissionInv, Uses, NotSeatedYet
    <3> QED
      BY <3>1, <3>2 DEF Shown, Kept
  <2> QED
    BY <2>1, <2>2, <2>h, <2>3 DEF Uses
<1>5. LockHeld'
  BY DEF AdmissionInv, Commits, LockHeld
<1>6. TentativeAlone'
  <2> SUFFICES ASSUME NEW d \in Coordinators, NEW l \in Lanes, task'[d][l].st = "rollback"
               PROVE  Tentative(d, l)'
    BY DEF TentativeAlone
  <2>1. Tentative(d, l) /\ PeerOf[l] \in Peers
    BY LanesHavePeers DEF AdmissionInv, Commits, TentativeAlone
  <2>2. \/ live'[d].name[PeerOf[l]] = task[d][l].name /\ live'[d].via[PeerOf[l]] = ViaOf(d, task[d][l])
        \/ live'[d].name[PeerOf[l]] = Out /\ live'[d].via[PeerOf[l]] = NoVia
    <3>1. CASE d = c
      BY <3>1, <2>1, <1>0 DEF Tentative, ViaOf
    <3>2. CASE d # c
      BY <3>2, <2>1, <1>0 DEF Tentative
    <3> QED
      BY <3>1, <3>2
  <2>3. task[d][l].paid # NoInvite => \A e \in Coordinators, q \in Peers :
          e # d => live'[e].via[q] # <<d, task[d][l].paid>>
    <3> SUFFICES ASSUME task[d][l].paid # NoInvite, NEW e \in Coordinators, NEW q \in Peers, e # d
                 PROVE  live'[e].via[q] # <<d, task[d][l].paid>>
      OBVIOUS
    <3>1. live[e].via[q] # <<d, task[d][l].paid>>
      BY <2>1 DEF Tentative
    <3>2. NoVia # <<d, task[d][l].paid>>
      BY DEF NoVia
    <3>3. CASE e = c
      BY <1>0, <3>1, <3>2, <3>3
    <3>4. CASE e # c
      BY <1>0, <3>1, <3>4
    <3> QED
      BY <3>3, <3>4
  <2>4. \A q \in Peers : Kept(q, <<d, task[d][l].paid>>)' => Kept(q, <<d, task[d][l].paid>>)
    BY DEF Kept
  <2> QED
    BY <2>1, <2>2, <2>3, <2>4 DEF Tentative, ViaOf
<1>7. Retained'
  <2> SUFFICES ASSUME NEW d \in Coordinators, NEW l \in Lanes, task'[d][l].st = "retain"
               PROVE  PeerOf[l] \in Seated(live'[d]) \/ "edit" \in owed'[d]
    BY DEF Retained, Seated
  <2>1. PeerOf[l] \in Seated(live[d]) \/ "edit" \in owed[d]
    BY DEF AdmissionInv, Saves, Retained
  <2>2. CASE d = c
    BY <2>1, <2>2, <1>0, LanesHavePeers DEF Seated
  <2>3. CASE d # c
    BY <2>1, <2>3, <1>0
  <2> QED
    BY <2>2, <2>3
<1>8. SureSaved'
  BY <1>t, TookSure DEF AdmissionInv, Saves
<1> QED
  BY <1>2, <1>3, <1>4, <1>5, <1>6, <1>7, <1>8 DEF AdmissionInv, Commits, Saves

\* Steps that save, adopt or recover a roster.
LEMMA StepSave ==
  ASSUME AdmissionInv, UNCHANGED <<admins, ledger, gossip>>, TasksOK',
         NEW c \in Coordinators, NEW w, NEW g, Took(c, w, g), IsRoster(w), IsRoster(g),
         From(c, w), From(c, g),
         \A d \in Coordinators \ {c}, m \in Lanes : task'[d][m] = task[d][m],
         DOMAIN lock' = Coordinators, DOMAIN owed' = Coordinators,
         \A d \in Coordinators \ {c} : lock'[d] = lock[d] /\ owed'[d] = owed[d],
         UndoFrom(c),
         \A m \in Lanes :
           /\ task'[c][m].st \in {"rollback", "retain"} => lock'[c] = m
           /\ task'[c][m].st = "rollback" => Tentative(c, m)'
           /\ task'[c][m].st = "retain" => PeerOf[m] \in Seated(g) \/ "edit" \in owed'[c]
  PROVE  Shapes' /\ Commits' /\ Saves'
<1>1. RostersOK'
  BY TookRosters DEF AdmissionInv, Shapes
<1>2. Shapes'
  <2>1. LedgersOK'
    BY DEF AdmissionInv, Shapes, LedgersOK
  <2>2. FlagsOK'
    BY DEF AdmissionInv, Shapes, FlagsOK, Took
  <2> QED
    BY <1>1, <2>1, <2>2 DEF Shapes
<1>3. LockHeld'
  <2> SUFFICES ASSUME NEW d \in Coordinators, NEW m \in Lanes,
                      task'[d][m].st \in {"rollback", "retain"}
               PROVE  lock'[d] = m
    BY DEF LockHeld
  <2>1. CASE d = c
    BY <2>1
  <2>2. CASE d # c
    <3>1. task'[d][m] = task[d][m] /\ lock'[d] = lock[d]
      BY <2>2
    <3> QED BY <3>1 DEF AdmissionInv, Commits, LockHeld
  <2> QED
    BY <2>1, <2>2
<1>4. TentativeAlone'
  <2> SUFFICES ASSUME NEW d \in Coordinators, NEW m \in Lanes, task'[d][m].st = "rollback"
               PROVE  Tentative(d, m)'
    BY DEF TentativeAlone
  <2>1. CASE d = c
    BY <2>1
  <2>2. CASE d # c
    <3>1. TasksOK /\ TentativeAlone
      BY DEF AdmissionInv, Shapes, Commits
    <3>2. d \in Coordinators \ {c}
      BY <2>2
    <3> QED
      BY <3>1, <3>2, TentativeElsewhere
  <2> QED
    BY <2>1, <2>2
<1>5. Retained'
  <2> SUFFICES ASSUME NEW d \in Coordinators, NEW m \in Lanes, task'[d][m].st = "retain"
               PROVE  PeerOf[m] \in Seated(live'[d]) \/ "edit" \in owed'[d]
    BY DEF Retained, Seated
  <2>1. CASE d = c
    BY <2>1 DEF Took
  <2>2. CASE d # c
    <3>1. task'[d][m] = task[d][m] /\ live'[d] = live[d] /\ owed'[d] = owed[d]
      BY <2>2 DEF Took
    <3> QED
      BY <3>1 DEF AdmissionInv, Saves, Retained
  <2> QED
    BY <2>1, <2>2
<1>6. SureSaved'
  BY TookSure DEF AdmissionInv, Saves
<1> QED
  BY <1>2, <1>3, <1>4, <1>5, <1>6 DEF Commits, Saves

\* Saves of what the coordinator has show nothing new.
Own(c, g) ==
  \A q \in Peers :
    g.via[q] \in {live[c].via[q], file[c].via[q], disk[c].via[q], record.via[q], NoVia}

LEMMA OwnShows ==
  ASSUME NEW c \in Coordinators, NEW w, NEW g, Took(c, w, g), Own(c, w), Own(c, g)
  PROVE  NothingNew
<1> SUFFICES ASSUME NEW d \in Coordinators, NEW i \in Invites, NEW p \in Peers,
                    Shown(p, <<d, i>>)', ~Shown(p, <<d, i>>)
             PROVE  FALSE
  BY DEF NothingNew
<1>1. PICK v : v = <<d, i>>
  OBVIOUS
<1>2. v # NoVia
  BY <1>1, NoInviteIsNone DEF NoVia
<1>3. Shown(p, v)' /\ ~Shown(p, v)
  BY <1>1
<1>4. g.via[p] = v \/ w.via[p] = v
  BY <1>3, TookShows
<1>5. v \in {live[c].via[p], file[c].via[p], disk[c].via[p], record.via[p]}
  BY <1>2, <1>4 DEF Own
<1> QED
  BY <1>3, <1>5 DEF Shown

LEMMA OwnFrom ==
  ASSUME NEW c, NEW g, Own(c, g)
  PROVE  From(c, g)
  BY DEF Own, From

-----------------------------------------------------------------------------
(* The ledgers. *)

LedgerShape ==
  /\ DOMAIN ledger = Coordinators
  /\ \A c \in Coordinators :
       DOMAIN ledger[c] = Invites /\ \A i \in Invites : IsEntry(ledger[c][i])

Writes(c, i, e) == ledger' = [ledger EXCEPT ![c][i] = e]

LEMMA LedgerUpdate ==
  ASSUME LedgersOK, NEW c \in Coordinators, NEW i \in Invites, NEW e, IsEntry(e), Writes(c, i, e)
  PROVE  /\ LedgerShape' /\ ledger'[c][i] = e
         /\ \A d \in Coordinators, j \in Invites : d # c \/ j # i => ledger'[d][j] = ledger[d][j]
<1>1. /\ DOMAIN ledger' = Coordinators
      /\ \A d \in Coordinators : DOMAIN ledger'[d] = Invites
  BY DEF LedgersOK, Writes
<1>2. ledger'[c][i] = e
  BY DEF LedgersOK, Writes
<1>3. \A d \in Coordinators, j \in Invites : d # c \/ j # i => ledger'[d][j] = ledger[d][j]
  BY DEF LedgersOK, Writes
<1>4. \A d \in Coordinators, j \in Invites : IsEntry(ledger'[d][j])
  BY <1>2, <1>3 DEF LedgersOK
<1> QED
  BY <1>1, <1>2, <1>3, <1>4 DEF LedgerShape

LEMMA EntryFacts ==
  ASSUME NEW s \in {"absent", "pending", "redeemed", "revoked"}, NEW p, NEW h
  PROVE  IsEntry(Entry(s, p, h)) /\ Entry(s, p, h).st = s /\ Entry(s, p, h).by = p
  BY DEF IsEntry, Entry

\* An entry that is not redeemed is nobody's.
LEMMA SpentKept ==
  ASSUME NEW c \in Coordinators, NEW i \in Invites, ledger[c][i].st # "redeemed",
         \A d \in Coordinators, j \in Invites : d # c \/ j # i => ledger'[d][j] = ledger[d][j]
  PROVE  \A d \in Coordinators, j \in Invites, p \in Peers : SpentBy(d, j, p) => SpentBy(d, j, p)'
<1> TAKE d \in Coordinators, j \in Invites, p \in Peers
<1>1. CASE d = c /\ j = i
  BY <1>1 DEF SpentBy
<1>2. CASE d # c \/ j # i
  BY <1>2 DEF SpentBy
<1> QED
  BY <1>1, <1>2

LEMMA LedgerSame ==
  ASSUME ledger' = ledger
  PROVE  \A d \in Coordinators, j \in Invites, p \in Peers : SpentBy(d, j, p) => SpentBy(d, j, p)'
  BY DEF SpentBy

LEMMA CreateKeeps ==
  ASSUME AdmissionInv, UNCHANGED admins, NEW c \in admins, NEW i \in Invites, InviteCreate(c, i)
  PROVE  AdmissionInv'
<1>0. c \in Coordinators /\ admins \subseteq Coordinators /\ LedgersOK
  BY DEF AdmissionInv, Shapes, FlagsOK
<1>1. PICK e : e = Entry("pending", Nobody, Bound[i])
  OBVIOUS
<1>2. IsEntry(e) /\ Writes(c, i, e)
  BY <1>1, EntryFacts DEF Writes, InviteCreate
<1>3. /\ LedgerShape' /\ ledger'[c][i] = e
      /\ \A d \in Coordinators, j \in Invites : d # c \/ j # i => ledger'[d][j] = ledger[d][j]
  BY <1>0, <1>2, LedgerUpdate
<1>4. \A m \in gossip' : m.to \in Coordinators /\ m.inv \in Invites
  BY <1>0, SMTT(30) DEF InviteCreate, LedgersOK
<1>5. LedgersOK'
  BY <1>3, <1>4 DEF LedgersOK, LedgerShape
<1>6. ledger[c][i].st # "redeemed"
  BY <1>0 DEF InviteCreate
<1>7. UNCHANGED <<admins, rosters, owed, lock, task, record>>
  BY DEF InviteCreate, others
<1> QED
  BY <1>0, <1>3, <1>5, <1>6, <1>7, SpentKept, StepLedger

LEMMA RevokeKeeps ==
  ASSUME AdmissionInv, UNCHANGED admins, NEW c \in admins, NEW i \in Invites, InviteRevoke(c, i)
  PROVE  AdmissionInv'
<1>0. c \in Coordinators /\ LedgersOK
  BY DEF AdmissionInv, Shapes, FlagsOK
<1>1. PICK e : e = Entry("revoked", Nobody, ledger[c][i].host)
  OBVIOUS
<1>2. IsEntry(e) /\ Writes(c, i, e)
  BY <1>1, EntryFacts DEF Writes, InviteRevoke
<1>3. /\ LedgerShape' /\ ledger'[c][i] = e
      /\ \A d \in Coordinators, j \in Invites : d # c \/ j # i => ledger'[d][j] = ledger[d][j]
  BY <1>0, <1>2, LedgerUpdate
<1>5. LedgersOK'
  BY <1>0, <1>3 DEF LedgersOK, LedgerShape, InviteRevoke
<1>6. ledger[c][i].st # "redeemed"
  BY DEF InviteRevoke
<1>7. UNCHANGED <<admins, rosters, owed, lock, task, record>>
  BY DEF InviteRevoke, others
<1> QED
  BY <1>0, <1>3, <1>5, <1>6, <1>7, SpentKept, StepLedger

LEMMA GossipKeeps ==
  ASSUME AdmissionInv, UNCHANGED admins, NEW m \in gossip, HandleGossip(m)
  PROVE  AdmissionInv'
<1>0. m.to \in Coordinators /\ m.inv \in Invites /\ LedgersOK
  BY DEF AdmissionInv, Shapes, LedgersOK
<1>c. PICK c \in Coordinators, i \in Invites : c = m.to /\ i = m.inv
  BY <1>0
<1>1. PICK e :
        e = CASE m.kind = "share" /\ ledger[c][i].st = "absent" -> Entry("pending", Nobody, NoName)
              [] m.kind = "used" /\ ledger[c][i].st = "pending" ->
                   Entry("redeemed", Nobody, ledger[c][i].host)
              [] OTHER -> ledger[c][i]
  OBVIOUS
<1>i. IsEntry(ledger[c][i])
  BY <1>0 DEF LedgersOK
<1>2. IsEntry(e) /\ (ledger[c][i].st = "redeemed" => e = ledger[c][i])
  BY <1>1, <1>i, EntryFacts
<1>l. Writes(c, i, e)
  BY <1>1, <1>c DEF HandleGossip, Writes
<1>3. /\ LedgerShape' /\ ledger'[c][i] = e
      /\ \A d \in Coordinators, j \in Invites : d # c \/ j # i => ledger'[d][j] = ledger[d][j]
  BY <1>0, <1>2, <1>l, LedgerUpdate
<1>5. LedgersOK'
  BY <1>0, <1>3 DEF LedgersOK, LedgerShape, HandleGossip
<1>6. \A d \in Coordinators, j \in Invites, p \in Peers : SpentBy(d, j, p) => SpentBy(d, j, p)'
  <2>1. CASE ledger[c][i].st # "redeemed"
    BY <2>1, <1>3, SpentKept
  <2>2. CASE ledger[c][i].st = "redeemed"
    <3>1. \A d \in Coordinators, j \in Invites : ledger'[d][j] = ledger[d][j]
      BY <2>2, <1>2, <1>3
    <3> QED
      BY <3>1 DEF SpentBy
  <2> QED
    BY <2>1, <2>2
<1>7. UNCHANGED <<admins, rosters, owed, lock, task, record>>
  BY DEF HandleGossip, others
<1> QED
  BY <1>5, <1>6, <1>7, StepLedger

LEMMA LedgersStay ==
  ASSUME LedgersOK, UNCHANGED <<ledger, gossip>>
  PROVE  LedgersOK'
  BY DEF LedgersOK

\* Everything that the invariant is about stays.
LEMMA QuietKeeps ==
  ASSUME AdmissionInv, UNCHANGED <<admins, rosters, owed, lock, task, record, ledger, gossip>>
  PROVE  AdmissionInv'
<1>1. LedgersOK'
  BY LedgersStay DEF AdmissionInv, Shapes
<1>2. \A d \in Coordinators, j \in Invites, p \in Peers : SpentBy(d, j, p) => SpentBy(d, j, p)'
  BY LedgerSame
<1> QED
  BY <1>1, <1>2, StepLedger

-----------------------------------------------------------------------------
(* Edits in memory. *)

LEMMA OwedGrows ==
  ASSUME AdmissionInv, NEW c \in Coordinators, NEW x, owed' = [owed EXCEPT ![c] = @ \cup {x}]
  PROVE  /\ DOMAIN owed' = Coordinators /\ x \in owed'[c]
         /\ \A d \in Coordinators : owed[d] \subseteq owed'[d]
  BY DEF AdmissionInv, Shapes, FlagsOK

LEMMA KeyEditKeeps ==
  ASSUME AdmissionInv, UNCHANGED admins, NEW c \in admins, NEW k \in Keys,
         ReusableKeyCreate(c, k) \/ RevokeReusable(c, k)
  PROVE  AdmissionInv' /\ NothingNew
<1>0. c \in Coordinators /\ IsRoster(live[c])
  BY DEF AdmissionInv, Shapes, FlagsOK, RostersOK
<1>1. PICK s : live' = [live EXCEPT ![c] = WithKey(live[c], k, s)]
  BY DEF ReusableKeyCreate, RevokeReusable
<1>2. PICK g : g = WithKey(live[c], k, s)
  OBVIOUS
<1>3. IsRoster(g) /\ g.name = live[c].name /\ g.via = live[c].via
  BY <1>0, <1>2, SidesApart DEF WithKey
<1>4. DOMAIN owed' = Coordinators /\ \A d \in Coordinators : owed[d] \subseteq owed'[d]
  BY <1>0, OwedGrows DEF ReusableKeyCreate, RevokeReusable
<1>5. UNCHANGED <<admins, file, disk, sure, lock, ledger, task, record, gossip>>
  BY DEF ReusableKeyCreate, RevokeReusable, others
<1>6. live' = [live EXCEPT ![c] = g]
  BY <1>1, <1>2
<1>7. \A p \in Peers : \/ g.name[p] = live[c].name[p] /\ g.via[p] = live[c].via[p]
                       \/ g.name[p] = Out /\ g.via[p] = NoVia /\ "edit" \in owed'[c]
  BY <1>3
<1> QED
  BY <1>0, <1>3, <1>4, <1>5, <1>6, <1>7, StepLive

LEMMA AcceptKeeps ==
  ASSUME AdmissionInv, UNCHANGED admins, NEW c \in admins, NEW p \in Peers, AcceptRequest(c, p)
  PROVE  AdmissionInv' /\ NothingNew
<1>0. c \in Coordinators /\ IsRoster(live[c])
  BY DEF AdmissionInv, Shapes, FlagsOK, RostersOK
<1>2. PICK g : g = [live[c] EXCEPT !.appr = live[c].appr \cup {p}]
  OBVIOUS
<1>3. IsRoster(g) /\ g.name = live[c].name /\ g.via = live[c].via
  BY <1>0, <1>2, SidesApart
<1>4. DOMAIN owed' = Coordinators /\ \A d \in Coordinators : owed[d] \subseteq owed'[d]
  BY <1>0, OwedGrows DEF AcceptRequest
<1>5. UNCHANGED <<admins, file, disk, sure, lock, ledger, task, record, gossip>>
  BY DEF AcceptRequest
<1>6. live' = [live EXCEPT ![c] = g]
  BY <1>2 DEF AcceptRequest
<1>7. \A q \in Peers : \/ g.name[q] = live[c].name[q] /\ g.via[q] = live[c].via[q]
                       \/ g.name[q] = Out /\ g.via[q] = NoVia /\ "edit" \in owed'[c]
  BY <1>3
<1> QED
  BY <1>0, <1>3, <1>4, <1>5, <1>6, <1>7, StepLive

LEMMA KickKeeps ==
  ASSUME AdmissionInv, UNCHANGED admins, NEW c \in admins, NEW p \in Peers, KickMember(c, p)
  PROVE  AdmissionInv' /\ NothingNew
<1>0. c \in Coordinators /\ IsRoster(live[c])
  BY DEF AdmissionInv, Shapes, FlagsOK, RostersOK
<1>1. PICK h : h = SeatIn(live[c], p, Out, NoVia)
  OBVIOUS
<1>2. /\ IsRoster(h) /\ h.name[p] = Out /\ h.via[p] = NoVia
      /\ \A q \in Peers \ {p} : h.name[q] = live[c].name[q] /\ h.via[q] = live[c].via[q]
  BY <1>0, <1>1, SeatFacts, SMTT(30)
<1>3. PICK g : g = [h EXCEPT !.appr = h.appr \ {p}]
  OBVIOUS
<1>4. IsRoster(g) /\ g.name = h.name /\ g.via = h.via
  BY <1>2, <1>3, SidesApart
<1>5. /\ DOMAIN owed' = Coordinators /\ "edit" \in owed'[c]
      /\ \A d \in Coordinators : owed[d] \subseteq owed'[d]
  BY <1>0, OwedGrows DEF KickMember
<1>6. UNCHANGED <<admins, file, disk, sure, lock, ledger, task, record, gossip>>
  BY DEF KickMember
<1>7. live' = [live EXCEPT ![c] = g]
  BY <1>1, <1>3 DEF KickMember, RemovedFrom
<1>8. \A q \in Peers : \/ g.name[q] = live[c].name[q] /\ g.via[q] = live[c].via[q]
                       \/ g.name[q] = Out /\ g.via[q] = NoVia /\ "edit" \in owed'[c]
  BY <1>2, <1>4, <1>5
<1> QED
  BY <1>0, <1>4, <1>5, <1>6, <1>7, <1>8, StepLive

-----------------------------------------------------------------------------
(* The handler of a request. *)

Plain == Replying \cup {"idle", "asked", "rename"}

LEMMA TaskMoved ==
  ASSUME NEW t, IsTask(t), NEW s \in Plain, NEW u, u = [t EXCEPT !.st = s]
  PROVE  IsTask(u) /\ u.st = s /\ u.paid = t.paid /\ u.undo = t.undo
  BY DEF IsTask, Plain, Replying

LEMMA TaskValid ==
  ASSUME NEW t, IsTask(t), NEW n, n # Out, NEW u, u = Validated(t, n)
  PROVE  IsTask(u) /\ u.st = "valid" /\ u.paid = t.paid /\ u.undo = t.undo
  BY DEF IsTask, Validated, Replying

LEMMA TaskIdle ==
  ASSUME NEW s \in Plain, NEW u, u = [Idle EXCEPT !.st = s]
  PROVE  IsTask(u) /\ u.st = s /\ u.paid = NoInvite /\ u.undo = NoUndo
  BY DEF IsTask, Plain, Replying, Idle

LEMMA ChosenIsName ==
  ASSUME NEW c, NEW p \in Peers
  PROVE  Chosen(c, p) # Out
  BY WantsAreNames DEF Chosen, ResolveCollision, Out

LEMMA TaskOK ==
  ASSUME AdmissionInv, NEW c \in Coordinators, NEW l \in Lanes
  PROVE  IsTask(task[c][l])
  BY DEF AdmissionInv, Shapes, TasksOK

LEMMA HandlerMoves ==
  ASSUME AdmissionInv, UNCHANGED <<admins, rosters, owed, lock, record>>, LedgersOK',
         \A d \in Coordinators, i \in Invites, p \in Peers : SpentBy(d, i, p) => SpentBy(d, i, p)',
         NEW c \in Coordinators, NEW l \in Lanes, NEW t, Step(c, l, t), IsTask(t),
         task[c][l].st \notin {"rollback", "retain"}, t.st \notin {"rollback", "retain"},
         t.undo \in {task[c][l].undo, NoUndo}, t.paid \in {task[c][l].paid, NoInvite},
         t.paid # NoInvite /\ t.st \notin Seating => task[c][l].st \notin Seating
  PROVE  AdmissionInv'
<1>1. Shapes' /\ Commits' /\ Saves' /\ AddsOnly(c, l)
  BY StepTask
<1>2. TasksOK /\ LedgersOK /\ Uses
  BY DEF AdmissionInv, Shapes
<1>3. /\ task'[c][l] = t
      /\ \A d \in Coordinators, m \in Lanes : d # c \/ m # l => task'[d][m] = task[d][m]
  BY <1>2, StepFacts
<1>4. /\ l \in Lanes => task'[c][l].paid \in {task[c][l].paid, NoInvite}
      /\ l \in Lanes /\ task'[c][l].paid # NoInvite /\ task'[c][l].st \notin Seating =>
           task[c][l].st \notin Seating \/ Nowhere(c, task[c][l].paid)'
  BY <1>3
<1>5. \A d \in Coordinators, m \in Lanes : d # c \/ m # l =>
        task'[d][m] = task[d][m] \/ task'[d][m].paid = NoInvite
  BY <1>3
<1>6. Uses'
  BY <1>1, <1>2, <1>4, <1>5, UsesKept
<1> QED
  BY <1>1, <1>6 DEF AdmissionInv

\* A handler that has not begun its commit.
LEMMA AskedMoves ==
  ASSUME AdmissionInv, UNCHANGED <<admins, rosters, owed, lock, record>>, LedgersOK',
         \A d \in Coordinators, i \in Invites, p \in Peers : SpentBy(d, i, p) => SpentBy(d, i, p)',
         NEW c \in Coordinators, NEW l \in Lanes, task[c][l].st = "asked",
         NEW t, Step(c, l, t), IsTask(t), t.st \in {"valid", "deny", "hello", "sayPending", "refuse"},
         t.undo = task[c][l].undo, t.paid = task[c][l].paid
  PROVE  AdmissionInv'
<1>1. /\ task[c][l].st \notin {"rollback", "retain"} /\ t.st \notin {"rollback", "retain"}
      /\ t.undo \in {task[c][l].undo, NoUndo} /\ t.paid \in {task[c][l].paid, NoInvite}
      /\ t.paid # NoInvite /\ t.st \notin Seating => task[c][l].st \notin Seating
  BY DEF Seating
<1> QED
  BY <1>1, HandlerMoves

\* The cases of Handle that leave the ledger alone.
LEMMA HandlePlain ==
  ASSUME AdmissionInv, NEW c \in Coordinators, NEW l \in Lanes,
         \/ HandleMember(c, l) \/ HandleApproved(c, l) \/ RedeemKey(c, l)
         \/ AdmitDirectly(c, l) \/ HandleUnknown(c, l)
  PROVE  \E t : /\ task[c][l].st = "asked" /\ Step(c, l, t) /\ IsTask(t)
                /\ t.st \in {"valid", "deny", "hello", "sayPending", "refuse"}
                /\ t.undo = task[c][l].undo /\ t.paid = task[c][l].paid
<1>0. IsTask(task[c][l]) /\ PeerOf[l] \in Peers
  BY TaskOK, LanesHavePeers
<1>n. PICK n : n = Chosen(c, PeerOf[l]) /\ n # Out
  BY <1>0, ChosenIsName
<1>v. PICK u : u = Validated(task[c][l], n)
  OBVIOUS
<1>w. IsTask(u) /\ u.st = "valid" /\ u.paid = task[c][l].paid /\ u.undo = task[c][l].undo
  BY <1>0, <1>n, <1>v, TaskValid
<1>s. \A s \in {"deny", "hello", "sayPending", "refuse"} :
        /\ IsTask([task[c][l] EXCEPT !.st = s]) /\ [task[c][l] EXCEPT !.st = s].st = s
        /\ [task[c][l] EXCEPT !.st = s].paid = task[c][l].paid
        /\ [task[c][l] EXCEPT !.st = s].undo = task[c][l].undo
  BY <1>0 DEF IsTask, Replying
<1>1. CASE HandleMember(c, l)
  <2>1. PICK s \in {"hello", "sayPending"} : Step(c, l, [task[c][l] EXCEPT !.st = s])
    BY <1>1 DEF HandleMember
  <2> WITNESS [task[c][l] EXCEPT !.st = s]
  <2> QED
    BY <1>1, <1>s, <2>1 DEF HandleMember
<1>2. CASE HandleApproved(c, l)
  <2>1. PICK t : t = [u EXCEPT !.appr = {PeerOf[l]}]
    OBVIOUS
  <2>2. IsTask(t) /\ t.st = "valid" /\ t.paid = u.paid /\ t.undo = u.undo
    BY <2>1, <1>w DEF IsTask
  <2>3. task[c][l].st = "asked" /\ Step(c, l, t)
    BY <1>2, <1>n, <1>v, <2>1 DEF HandleApproved
  <2> QED
    BY <2>2, <2>3, <1>w
<1>3. CASE RedeemKey(c, l)
  <2>1. task[c][l].st = "asked"
    BY <1>3 DEF RedeemKey, Stranger
  <2>2. Step(c, l, u) \/ Step(c, l, [task[c][l] EXCEPT !.st = "deny"])
    BY <1>3, <1>n, <1>v DEF RedeemKey
  <2>3. CASE Step(c, l, u)
    BY <2>1, <2>3, <1>w
  <2>4. CASE Step(c, l, [task[c][l] EXCEPT !.st = "deny"])
    <3> WITNESS [task[c][l] EXCEPT !.st = "deny"]
    <3> QED
      BY <2>1, <2>4, <1>s
  <2> QED
    BY <2>2, <2>3, <2>4
<1>4. CASE AdmitDirectly(c, l)
  <2>1. task[c][l].st = "asked" /\ Step(c, l, u)
    BY <1>4, <1>n, <1>v DEF AdmitDirectly, Stranger
  <2> QED
    BY <2>1, <1>w
<1>5. CASE HandleUnknown(c, l)
  <2>1. task[c][l].st = "asked"
    BY <1>5 DEF HandleUnknown, Stranger
  <2>2. PICK s \in {"refuse", "sayPending"} : Step(c, l, [task[c][l] EXCEPT !.st = s])
    BY <1>5 DEF HandleUnknown
  <2> WITNESS [task[c][l] EXCEPT !.st = s]
  <2> QED
    BY <1>s, <2>1, <2>2
<1> QED
  BY <1>1, <1>2, <1>3, <1>4, <1>5

\* The name for an invite, or its refusal.
LEMMA AssignedFacts ==
  ASSUME NEW c, NEW i, NEW p \in Peers, NEW t, IsTask(t), NEW u, u = Assigned(c, i, p, t)
  PROVE  IsTask(u) /\ u.st \in {"valid", "deny"} /\ u.paid = t.paid /\ u.undo = t.undo
<1>1. CASE u = Validated(t, Chosen(c, p))
  BY <1>1, ChosenIsName, TaskValid, SMTT(30)
<1>2. CASE u = [t EXCEPT !.st = "deny"]
  BY <1>2 DEF IsTask, Replying
<1>3. CASE \E h : h # NoName /\ u = Validated(t, <<h, 0>>)
  <2> PICK h : h # NoName /\ u = Validated(t, <<h, 0>>)
    BY <1>3
  <2>1. <<h, 0>> # Out
    BY DEF Out
  <2> QED
    BY <2>1, TaskValid, SMTT(30)
<1> QED
  BY <1>1, <1>2, <1>3 DEF Assigned

\* An invite burned for a peer: nobody had it.
LEMMA RedeemUses ==
  ASSUME AdmissionInv, TasksOK', NEW c \in Coordinators, NEW l \in Lanes, NEW i \in Invites,
         ledger[c][i].st = "pending", SpentBy(c, i, PeerOf[l])',
         \A d \in Coordinators, j \in Invites, p \in Peers : SpentBy(d, j, p) => SpentBy(d, j, p)',
         \A d \in Coordinators, m \in Lanes : d # c \/ m # l => task'[d][m] = task[d][m],
         task'[c][l].paid = i, task'[c][l].st \notin Seating, AddsOnly(c, l)
  PROVE  Uses'
<1>0. \A d \in Coordinators, m \in Lanes : task[d][m].paid # NoInvite => task[d][m].paid \in Invites
  <2> TAKE d \in Coordinators, m \in Lanes
  <2>1. IsTask(task[d][m])
    BY TaskOK
  <2> QED
    BY <2>1 DEF IsTask
<1>1. \A p : ~SpentBy(c, i, p)
  BY DEF SpentBy
<1>2. Nowhere(c, i)
  BY <1>1 DEF Nowhere, AdmissionInv, Uses, SeatsPaid
<1>3. \A m \in Lanes : task[c][m].paid # i
  BY <1>1, NoInviteIsNone DEF AdmissionInv, Uses, HandlersPaid
<1>4. \A d \in Coordinators, j \in Invites, p \in Peers :
        Shown(p, <<d, j>>)' \/ Kept(p, <<d, j>>)' => Shown(p, <<d, j>>) \/ Kept(p, <<d, j>>)
  BY DEF AddsOnly
<1>5. SeatsPaid'
  BY <1>4 DEF AdmissionInv, Uses, SeatsPaid
<1>6. HandlersPaid'
  <2> SUFFICES ASSUME NEW d \in Coordinators, NEW m \in Lanes, task'[d][m].paid # NoInvite
               PROVE  SpentBy(d, task[d][m].paid, PeerOf[m])'
    BY DEF HandlersPaid
  <2>1. CASE d = c /\ m = l
    BY <2>1 DEF SpentBy
  <2>2. CASE d # c \/ m # l
    <3>1. task'[d][m] = task[d][m]
      BY <2>2
    <3>2. PICK j \in Invites : j = task[d][m].paid
      BY <3>1, <1>0
    <3>3. SpentBy(d, j, PeerOf[m])'
      BY <3>1, <3>2, LanesHavePeers DEF AdmissionInv, Uses, HandlersPaid
    <3> QED
      BY <3>1, <3>2, <3>3 DEF SpentBy
  <2> QED
    BY <2>1, <2>2
<1>7. PaidApart'
  <2> SUFFICES ASSUME NEW d \in Coordinators, NEW m \in Lanes, NEW n \in Lanes,
                      task'[d][m].paid = task'[d][n].paid, task'[d][m].paid # NoInvite, m # n
               PROVE  FALSE
    BY DEF PaidApart
  <2>1. CASE d = c /\ (m = l \/ n = l)
    BY <2>1, <1>3
  <2>2. CASE d # c \/ (m # l /\ n # l)
    <3>1. task'[d][m] = task[d][m] /\ task'[d][n] = task[d][n]
      BY <2>2
    <3>2. task[d][m].paid = task[d][n].paid /\ task[d][m].paid # NoInvite
      BY <3>1
    <3> QED
      BY <3>2 DEF AdmissionInv, Uses, PaidApart
  <2> QED
    BY <2>1, <2>2
<1>8. NotSeatedYet'
  <2> SUFFICES ASSUME NEW d \in Coordinators, NEW m \in Lanes, task'[d][m].paid # NoInvite,
                      task'[d][m].st \notin Seating, NEW p \in Peers
               PROVE  /\ ~Shown(p, <<d, task[d][m].paid>>)'
                      /\ ~Kept(p, <<d, task[d][m].paid>>)'
    BY DEF NotSeatedYet
  <2>1. PICK j \in Invites : task'[d][m].paid = j
    <3>1. IsTask(task'[d][m])
      BY DEF TasksOK
    <3> QED
      BY <3>1 DEF IsTask
  <2>2. ~Shown(p, <<d, j>>) /\ ~Kept(p, <<d, j>>)
    <3>1. CASE d = c /\ m = l
      BY <3>1, <2>1, <1>2 DEF Nowhere
    <3>2. CASE d # c \/ m # l
      BY <3>2, <2>1 DEF AdmissionInv, Uses, NotSeatedYet
    <3> QED
      BY <3>1, <3>2
  <2>3. ~Shown(p, <<d, j>>)' /\ ~Kept(p, <<d, j>>)'
    BY <2>2, <1>4
  <2> QED
    BY <2>1, <2>3 DEF Shown, Kept
<1> QED
  BY <1>5, <1>6, <1>7, <1>8 DEF Uses

\* An invite given back: no seat was given for it, and no other handler has it.
LEMMA RestoreUses ==
  ASSUME AdmissionInv, TasksOK', NEW c \in Coordinators, NEW l \in Lanes, NEW i \in Invites,
         task[c][l].paid = i, task[c][l].st = "restore", task'[c][l].paid = NoInvite,
         \A d \in Coordinators, j \in Invites : d # c \/ j # i => ledger'[d][j] = ledger[d][j],
         \A d \in Coordinators, m \in Lanes : d # c \/ m # l => task'[d][m] = task[d][m],
         AddsOnly(c, l)
  PROVE  Uses'
<1>0. \A d \in Coordinators, m \in Lanes : task[d][m].paid # NoInvite => task[d][m].paid \in Invites
  BY TaskOK DEF IsTask
<1>i. i # NoInvite
  BY NoInviteIsNone
<1>1. \A m \in Lanes \ {l} : task[c][m].paid # i
  BY <1>i DEF AdmissionInv, Uses, PaidApart
<1>2. Nowhere(c, i)
  BY <1>i DEF Nowhere, AdmissionInv, Uses, NotSeatedYet, Seating
<1>4. \A d \in Coordinators, j \in Invites, p \in Peers :
        Shown(p, <<d, j>>)' \/ Kept(p, <<d, j>>)' => Shown(p, <<d, j>>) \/ Kept(p, <<d, j>>)
  BY NoInviteIsNone DEF AddsOnly
<1>s. \A d \in Coordinators, j \in Invites, p \in Peers :
        d # c \/ j # i => (SpentBy(d, j, p) => SpentBy(d, j, p)')
  BY DEF SpentBy
<1>5. SeatsPaid'
  <2> SUFFICES ASSUME NEW d \in Coordinators, NEW j \in Invites, NEW p \in Peers,
                      Shown(p, <<d, j>>)' \/ Kept(p, <<d, j>>)'
               PROVE  SpentBy(d, j, p)'
    BY DEF SeatsPaid
  <2>1. Shown(p, <<d, j>>) \/ Kept(p, <<d, j>>)
    BY <1>4
  <2>2. d # c \/ j # i
    BY <2>1, <1>2 DEF Nowhere
  <2> QED
    BY <2>1, <2>2, <1>s DEF AdmissionInv, Uses, SeatsPaid
<1>6. HandlersPaid'
  <2> SUFFICES ASSUME NEW d \in Coordinators, NEW m \in Lanes, task'[d][m].paid # NoInvite
               PROVE  SpentBy(d, task[d][m].paid, PeerOf[m])'
    BY DEF HandlersPaid
  <2>1. task'[d][m] = task[d][m] /\ (d # c \/ m # l)
    OBVIOUS
  <2>2. PICK j \in Invites : j = task[d][m].paid
    BY <2>1, <1>0
  <2>3. d # c \/ j # i
    BY <2>1, <2>2, <1>1
  <2>4. SpentBy(d, j, PeerOf[m])'
    BY <2>1, <2>2, <2>3, <1>s, LanesHavePeers DEF AdmissionInv, Uses, HandlersPaid
  <2> QED
    BY <2>1, <2>2, <2>4 DEF SpentBy
<1>7. PaidApart'
  <2> SUFFICES ASSUME NEW d \in Coordinators, NEW m \in Lanes, NEW n \in Lanes,
                      task'[d][m].paid = task'[d][n].paid, task'[d][m].paid # NoInvite
               PROVE  m = n
    BY DEF PaidApart
  <2>1. task'[d][m] = task[d][m] /\ task'[d][n] = task[d][n]
    OBVIOUS
  <2>2. task[d][m].paid = task[d][n].paid /\ task[d][m].paid # NoInvite
    BY <2>1
  <2> QED
    BY <2>2 DEF AdmissionInv, Uses, PaidApart
<1>8. NotSeatedYet'
  <2> SUFFICES ASSUME NEW d \in Coordinators, NEW m \in Lanes, task'[d][m].paid # NoInvite,
                      task'[d][m].st \notin Seating, NEW p \in Peers
               PROVE  /\ ~Shown(p, <<d, task[d][m].paid>>)'
                      /\ ~Kept(p, <<d, task[d][m].paid>>)'
    BY DEF NotSeatedYet
  <2>0. task'[d][m] = task[d][m]
    OBVIOUS
  <2>1. PICK j \in Invites : task'[d][m].paid = j
    <3>1. IsTask(task'[d][m])
      BY DEF TasksOK
    <3> QED
      BY <3>1 DEF IsTask
  <2>2. ~Shown(p, <<d, j>>) /\ ~Kept(p, <<d, j>>)
    BY <2>0, <2>1 DEF AdmissionInv, Uses, NotSeatedYet
  <2>3. ~Shown(p, <<d, j>>)' /\ ~Kept(p, <<d, j>>)'
    BY <2>2, <1>4
  <2> QED
    BY <2>1, <2>3 DEF Shown, Kept
<1> QED
  BY <1>5, <1>6, <1>7, <1>8 DEF Uses

LEMMA RedeemKeeps ==
  ASSUME AdmissionInv, UNCHANGED <<admins, rosters, owed, lock, record, gossip>>,
         NEW c \in Coordinators, NEW l \in Lanes, RedeemInvite(c, l)
  PROVE  AdmissionInv'
<1>0. PICK i \in Invites :
        i = task[c][l].secret /\ task[c][l].st = "asked" /\ ledger[c][i].st = "pending"
  BY DEF RedeemInvite, Stranger, Redeemable
<1>a. PICK e : e = Entry("redeemed", PeerOf[l], ledger[c][i].host)
  OBVIOUS
<1>p. PeerOf[l] \in Peers /\ IsTask(task[c][l]) /\ LedgersOK
  BY TaskOK, LanesHavePeers DEF AdmissionInv, Shapes
<1>e. IsEntry(e) /\ e.st = "redeemed" /\ e.by = PeerOf[l]
  BY <1>a, EntryFacts, SMTT(30)
<1>n. ledger[c][i].st # "redeemed"
  BY <1>0
<1>u. Writes(c, i, e) =>
        /\ LedgerShape' /\ ledger'[c][i] = e
        /\ \A d \in Coordinators, j \in Invites : d # c \/ j # i => ledger'[d][j] = ledger[d][j]
  BY <1>p, <1>e, LedgerUpdate
<1>l. ASSUME Writes(c, i, e) \/ ledger' = ledger
      PROVE  /\ LedgersOK'
             /\ \A d \in Coordinators, j \in Invites, p \in Peers :
                  SpentBy(d, j, p) => SpentBy(d, j, p)'
  <2>1. CASE Writes(c, i, e)
    <3>1. LedgersOK'
      BY <2>1, <1>u, <1>p DEF LedgersOK, LedgerShape
    <3> QED
      BY <2>1, <3>1, <1>u, <1>n, SpentKept
  <2>2. CASE ledger' = ledger
    BY <2>2, <1>p, LedgersStay, LedgerSame
  <2> QED
    BY <1>l, <2>1, <2>2
<1>1. \/ Writes(c, i, e) /\ Step(c, l, Assigned(c, i, PeerOf[l], [task[c][l] EXCEPT !.paid = i]))
      \/ /\ Writes(c, i, e) \/ ledger' = ledger
         /\ Step(c, l, [task[c][l] EXCEPT !.st = "deny"])
  BY <1>0, <1>a DEF RedeemInvite, Writes
<1>2. CASE Writes(c, i, e) /\ Step(c, l, Assigned(c, i, PeerOf[l], [task[c][l] EXCEPT !.paid = i]))
  <2>1. PICK t : t = [task[c][l] EXCEPT !.paid = i]
    OBVIOUS
  <2>2. IsTask(t) /\ t.undo = task[c][l].undo /\ t.paid = i
    BY <2>1, <1>0, <1>p, NoInviteIsNone DEF IsTask
  <2>3. PICK u : u = Assigned(c, i, PeerOf[l], t)
    OBVIOUS
  <2>4. IsTask(u) /\ u.st \in {"valid", "deny"} /\ u.paid = i /\ u.undo = task[c][l].undo
    BY <2>2, <2>3, <1>p, AssignedFacts, SMTT(30)
  <2>5. Step(c, l, u)
    BY <1>2, <2>1, <2>3
  <2>6. LedgersOK'
    BY <1>2, <1>l
  <2>7. /\ task[c][l].st \notin {"rollback", "retain"} /\ u.st \notin {"rollback", "retain"}
        /\ u.undo \in {task[c][l].undo, NoUndo} /\ u.st \notin Seating
    BY <1>0, <2>4 DEF Seating
  <2>8. Shapes' /\ Commits' /\ Saves' /\ AddsOnly(c, l)
    BY <2>4, <2>5, <2>6, <2>7, StepTask
  <2>9. /\ TasksOK' /\ task'[c][l] = u
        /\ \A d \in Coordinators, m \in Lanes : d # c \/ m # l => task'[d][m] = task[d][m]
    BY <2>4, <2>5, StepFacts DEF AdmissionInv, Shapes
  <2>10. SpentBy(c, i, PeerOf[l])'
    BY <1>2, <1>u, <1>e DEF SpentBy
  <2>11. task'[c][l].paid = i /\ task'[c][l].st \notin Seating
    BY <2>4, <2>7, <2>9
  <2>12. Uses'
    BY <1>0, <1>2, <1>l, <2>8, <2>9, <2>10, <2>11, RedeemUses
  <2> QED
    BY <2>8, <2>12 DEF AdmissionInv
<1>3. CASE /\ Writes(c, i, e) \/ ledger' = ledger
           /\ Step(c, l, [task[c][l] EXCEPT !.st = "deny"])
  <2>1. PICK t : t = [task[c][l] EXCEPT !.st = "deny"]
    OBVIOUS
  <2>2. IsTask(t) /\ t.st = "deny" /\ t.paid = task[c][l].paid /\ t.undo = task[c][l].undo
    BY <2>1, <1>p DEF IsTask, Replying
  <2>3. Step(c, l, t) /\ t.st \in {"valid", "deny", "hello", "sayPending", "refuse"}
    BY <1>3, <2>1, <2>2
  <2> QED
    BY <1>0, <1>3, <1>l, <2>2, <2>3, AskedMoves
<1> QED
  BY <1>1, <1>2, <1>3

LEMMA HandleKeeps ==
  ASSUME AdmissionInv, UNCHANGED admins, NEW c \in Coordinators, NEW l \in Lanes, Handle(c, l)
  PROVE  AdmissionInv'
<1>1. UNCHANGED <<admins, rosters, owed, lock, record, gossip>>
  BY DEF Handle
<1>2. CASE RedeemInvite(c, l)
  BY <1>1, <1>2, RedeemKeeps
<1>3. CASE /\ \/ HandleMember(c, l) \/ HandleApproved(c, l) \/ RedeemKey(c, l)
              \/ AdmitDirectly(c, l) \/ HandleUnknown(c, l)
           /\ ledger' = ledger
  <2>1. ledger' = ledger
    BY <1>3
  <2>2. LedgersOK'
    BY <1>1, <2>1, LedgersStay DEF AdmissionInv, Shapes
  <2>3. \A d \in Coordinators, j \in Invites, p \in Peers : SpentBy(d, j, p) => SpentBy(d, j, p)'
    BY <2>1, LedgerSame
  <2>4. PICK t : /\ task[c][l].st = "asked" /\ Step(c, l, t) /\ IsTask(t)
                 /\ t.st \in {"valid", "deny", "hello", "sayPending", "refuse"}
                 /\ t.undo = task[c][l].undo /\ t.paid = task[c][l].paid
    BY <1>3, HandlePlain
  <2> QED
    BY <1>1, <2>2, <2>3, <2>4, AskedMoves
<1> QED
  BY <1>2, <1>3 DEF Handle, HandleMember, HandleApproved, RedeemKey, AdmitDirectly

LEMMA AfterFacts ==
  ASSUME NEW t, IsTask(t), NEW u, u = After(t)
  PROVE  /\ IsTask(u) /\ u.st \in {"rename", "restore", "idle"} /\ u.undo = NoUndo
         /\ u.paid \in {t.paid, NoInvite}
         /\ u.paid # NoInvite => t.st \in {"deny", "undone"}
<1>1. CASE u = Idle \/ u = [Idle EXCEPT !.st = "rename"]
  BY <1>1, SMTT(30) DEF IsTask, Idle, Replying
<1>2. CASE /\ u = [Idle EXCEPT !.st = "restore", !.paid = t.paid]
           /\ t.st \in {"deny", "undone"} /\ t.paid # NoInvite
  BY <1>2 DEF IsTask, Idle, Replying
<1> QED
  BY <1>1, <1>2 DEF After

LEMMA ReplyKeeps ==
  ASSUME AdmissionInv, UNCHANGED admins, NEW c \in Coordinators, NEW l \in Lanes, Reply(c, l)
  PROVE  AdmissionInv'
<1>0. IsTask(task[c][l]) /\ admins \subseteq Coordinators /\ LedgersOK
  BY TaskOK DEF AdmissionInv, Shapes, FlagsOK
<1>1. UNCHANGED <<admins, rosters, owed, lock, record, ledger>>
  BY DEF Reply
<1>2. \A m \in gossip' : m.to \in Coordinators /\ m.inv \in Invites
  <2>1. CASE gossip' = gossip
    BY <2>1, <1>0 DEF LedgersOK
  <2>2. CASE gossip' = gossip \cup Used(c, task[c][l].paid) /\ task[c][l].paid # NoInvite
    <3>1. task[c][l].paid \in Invites
      BY <2>2, <1>0 DEF IsTask
    <3>2. \A m \in Used(c, task[c][l].paid) : m.to \in admins /\ m.inv = task[c][l].paid
      BY SMTT(30) DEF Used
    <3> QED
      BY <2>2, <3>1, <3>2, <1>0 DEF LedgersOK
  <2> QED
    BY <2>1, <2>2 DEF Reply
<1>3. LedgersOK'
  BY <1>0, <1>1, <1>2 DEF LedgersOK
<1>4. \A d \in Coordinators, j \in Invites, p \in Peers : SpentBy(d, j, p) => SpentBy(d, j, p)'
  BY <1>1, LedgerSame
<1>5. PICK u : u = After(task[c][l])
  OBVIOUS
<1>6. /\ IsTask(u) /\ u.st \in {"rename", "restore", "idle"} /\ u.undo = NoUndo
      /\ u.paid \in {task[c][l].paid, NoInvite}
      /\ u.paid # NoInvite => task[c][l].st \in {"deny", "undone"}
  BY <1>0, <1>5, AfterFacts
<1>7. Step(c, l, u) /\ task[c][l].st \in Replying
  BY <1>5 DEF Reply
<1>8. /\ task[c][l].st \notin {"rollback", "retain"} /\ u.st \notin {"rollback", "retain"}
      /\ u.undo \in {task[c][l].undo, NoUndo} /\ u.paid \in {task[c][l].paid, NoInvite}
      /\ u.paid # NoInvite /\ u.st \notin Seating => task[c][l].st \notin Seating
  BY <1>6, <1>7 DEF Replying, Seating
<1> QED
  BY <1>1, <1>3, <1>4, <1>6, <1>7, <1>8, HandlerMoves

LEMMA RestoreKeeps ==
  ASSUME AdmissionInv, UNCHANGED admins, NEW c \in Coordinators, NEW l \in Lanes, RestoreInvite(c, l)
  PROVE  AdmissionInv'
<1>0. IsTask(task[c][l]) /\ LedgersOK /\ task[c][l].st = "restore"
  BY TaskOK DEF AdmissionInv, Shapes, RestoreInvite
<1>i. PICK i \in Invites : task[c][l].paid = i
  BY <1>0 DEF IsTask
<1>1. UNCHANGED <<admins, rosters, owed, lock, record, gossip>>
  BY DEF RestoreInvite
<1>2. PICK e : e = Entry("pending", Nobody, ledger[c][i].host)
  OBVIOUS
<1>3. IsEntry(e)
  BY <1>2, EntryFacts
<1>4. Writes(c, i, e) \/ ledger' = ledger
  BY <1>2, <1>i DEF RestoreInvite, Writes
<1>5. /\ LedgersOK'
      /\ \A d \in Coordinators, j \in Invites : d # c \/ j # i => ledger'[d][j] = ledger[d][j]
  <2>1. CASE ledger' = ledger
    BY <2>1, <1>0, <1>1, LedgersStay
  <2>2. CASE Writes(c, i, e)
    <3>1. /\ LedgerShape' /\ ledger'[c][i] = e
          /\ \A d \in Coordinators, j \in Invites : d # c \/ j # i => ledger'[d][j] = ledger[d][j]
      BY <2>2, <1>0, <1>3, LedgerUpdate
    <3> QED
      BY <3>1, <1>0, <1>1 DEF LedgersOK, LedgerShape
  <2> QED
    BY <1>4, <2>1, <2>2
<1>6. PICK u : u = Idle
  OBVIOUS
<1>7. IsTask(u) /\ u.st = "idle" /\ u.paid = NoInvite /\ u.undo = NoUndo
  BY <1>6 DEF IsTask, Idle, Replying
<1>8. Step(c, l, u)
  BY <1>6 DEF RestoreInvite
<1>9. /\ task[c][l].st \notin {"rollback", "retain"} /\ u.st \notin {"rollback", "retain"}
      /\ u.undo \in {task[c][l].undo, NoUndo}
  BY <1>0, <1>7
<1>10. Shapes' /\ Commits' /\ Saves' /\ AddsOnly(c, l)
  BY <1>1, <1>5, <1>7, <1>8, <1>9, StepTask
<1>11. /\ TasksOK' /\ task'[c][l] = u
       /\ \A d \in Coordinators, m \in Lanes : d # c \/ m # l => task'[d][m] = task[d][m]
  BY <1>7, <1>8, StepFacts DEF AdmissionInv, Shapes
<1>12. task'[c][l].paid = NoInvite
  BY <1>7, <1>11
<1>13. Uses'
  BY <1>0, <1>i, <1>5, <1>10, <1>11, <1>12, RestoreUses
<1> QED
  BY <1>10, <1>13 DEF AdmissionInv

LEMMA AskKeeps ==
  ASSUME AdmissionInv, UNCHANGED admins, NEW p \in Peers, NEW c \in admins, Ask(p, c)
  PROVE  AdmissionInv'
<1>0. c \in Coordinators
  BY DEF AdmissionInv, Shapes, FlagsOK
<1>1. UNCHANGED <<admins, rosters, owed, lock, record, ledger, gossip>>
  BY DEF Ask, joiner
<1>2. CASE task' = task
  BY <1>1, <1>2, QuietKeeps
<1>3. CASE \E l \in Lanes :
             /\ task[c][l].st = "idle"
             /\ Step(c, l, [Idle EXCEPT !.st = "asked", !.secret = join[p].secret])
  <2>1. PICK l \in Lanes : /\ task[c][l].st = "idle"
                           /\ Step(c, l, [Idle EXCEPT !.st = "asked", !.secret = join[p].secret])
    BY <1>3
  <2>2. PICK t : t = [Idle EXCEPT !.st = "asked", !.secret = join[p].secret]
    OBVIOUS
  <2>3. IsTask(t) /\ t.st = "asked" /\ t.paid = NoInvite /\ t.undo = NoUndo
    BY <2>2 DEF IsTask, Idle, Replying
  <2>4. /\ task[c][l].st \notin {"rollback", "retain"} /\ t.st \notin {"rollback", "retain"}
        /\ t.undo \in {task[c][l].undo, NoUndo} /\ t.paid \in {task[c][l].paid, NoInvite}
        /\ t.paid # NoInvite /\ t.st \notin Seating => task[c][l].st \notin Seating
    BY <2>1, <2>3
  <2>5. Step(c, l, t)
    BY <2>1, <2>2
  <2>6. LedgersOK'
    BY <1>1, LedgersStay DEF AdmissionInv, Shapes
  <2>7. \A d \in Coordinators, j \in Invites, q \in Peers : SpentBy(d, j, q) => SpentBy(d, j, q)'
    BY <1>1, LedgerSame
  <2> QED
    BY <1>0, <1>1, <2>3, <2>4, <2>5, <2>6, <2>7, HandlerMoves
<1> QED
  BY <1>2, <1>3 DEF Ask

-----------------------------------------------------------------------------
(* Saves outside an admission. *)

LEMMA OwnSaveKeeps ==
  ASSUME AdmissionInv, UNCHANGED <<admins, ledger, gossip>>, TasksOK',
         NEW c \in Coordinators, NEW w, NEW g, Took(c, w, g), IsRoster(w), IsRoster(g),
         Own(c, w), Own(c, g),
         \A d \in Coordinators \ {c}, m \in Lanes : task'[d][m] = task[d][m],
         \A m \in Lanes : \/ task'[c][m] = Idle
                          \/ /\ task'[c][m] = task[c][m]
                             /\ task[c][m].st \notin {"rollback", "retain"},
         DOMAIN lock' = Coordinators, DOMAIN owed' = Coordinators,
         \A d \in Coordinators \ {c} : lock'[d] = lock[d] /\ owed'[d] = owed[d]
  PROVE  AdmissionInv' /\ NothingNew
<1>0. From(c, w) /\ From(c, g) /\ NothingNew
  BY OwnFrom, OwnShows
<1>i. Idle.st = "idle" /\ Idle.paid = NoInvite /\ Idle.undo.via = NoVia
  BY DEF Idle, NoUndo
<1>1. UndoFrom(c)
  <2> SUFFICES ASSUME NEW q \in Peers, NEW d \in Coordinators, NEW i \in Invites, Kept(q, <<d, i>>)'
               PROVE  Kept(q, <<d, i>>)
    BY DEF UndoFrom
  <2>1. PICK e \in Coordinators, m \in Lanes : PeerOf[m] = q /\ task'[e][m].undo.via = <<d, i>>
    BY DEF Kept
  <2>2. <<d, i>> # NoVia
    BY NoInviteIsNone DEF NoVia
  <2>3. task'[e][m] = task[e][m]
    BY <1>i, <2>1, <2>2
  <2> QED
    BY <2>1, <2>3 DEF Kept
<1>2. \A m \in Lanes : task'[c][m].st \notin {"rollback", "retain"}
  BY <1>i
<1>3. Shapes' /\ Commits' /\ Saves'
  BY <1>0, <1>1, <1>2, StepSave
<1>4. AddsOnly(c, Nobody)
  <2> SUFFICES ASSUME NEW d \in Coordinators, NEW i \in Invites, NEW p \in Peers,
                      Shown(p, <<d, i>>)' \/ Kept(p, <<d, i>>)'
               PROVE  Shown(p, <<d, i>>) \/ Kept(p, <<d, i>>)
    BY DEF AddsOnly
  <2>1. live[c].via[p] = <<d, i>> => Shown(p, <<d, i>>)
    BY DEF Shown
  <2> QED
    BY <1>0, <1>1, <2>1 DEF NothingNew, UndoFrom
<1>5. \A d \in Coordinators, m \in Lanes :
        task'[d][m] = task[d][m] \/ task'[d][m].paid = NoInvite
  BY <1>i
<1>6. \A d \in Coordinators, i \in Invites, p \in Peers : SpentBy(d, i, p) => SpentBy(d, i, p)'
  BY LedgerSame
<1>7. Uses'
  <2>1. TasksOK /\ LedgersOK /\ Uses /\ Nobody \notin Lanes
    BY LanesHavePeers DEF AdmissionInv, Shapes
  <2> QED
    BY <1>4, <1>5, <1>6, <2>1, UsesKept
<1> QED
  BY <1>0, <1>3, <1>7 DEF AdmissionInv

\* No commit is under way at a coordinator whose lock is free.
LEMMA NoCommit ==
  ASSUME AdmissionInv, NEW c \in Coordinators, lock[c] = Nobody
  PROVE  \A m \in Lanes : task[c][m].st \notin {"rollback", "retain"}
  BY LanesHavePeers DEF AdmissionInv, Commits, LockHeld

\* The same, of a step that leaves handlers and locks alone.
LEMMA SaveAlone ==
  ASSUME AdmissionInv, UNCHANGED <<admins, ledger, gossip, task, lock>>,
         NEW c \in Coordinators, lock[c] = Nobody, NEW w, NEW g, Took(c, w, g),
         IsRoster(w), IsRoster(g), Own(c, w), Own(c, g), DOMAIN owed' = Coordinators,
         \A d \in Coordinators \ {c} : owed'[d] = owed[d]
  PROVE  AdmissionInv' /\ NothingNew
<1>1. TasksOK'
  BY DEF AdmissionInv, Shapes, TasksOK
<1>2. \A d \in Coordinators \ {c}, m \in Lanes : task'[d][m] = task[d][m]
  OBVIOUS
<1>3. \A m \in Lanes : task'[c][m] = task[c][m] /\ task[c][m].st \notin {"rollback", "retain"}
  BY NoCommit
<1>4. DOMAIN lock' = Coordinators /\ \A d \in Coordinators \ {c} : lock'[d] = lock[d]
  BY DEF AdmissionInv, Shapes, FlagsOK
<1> QED
  BY <1>1, <1>2, <1>3, <1>4, OwnSaveKeeps

LEMMA OwedSet ==
  ASSUME AdmissionInv, NEW c \in Coordinators, NEW x, owed' = [owed EXCEPT ![c] = x]
  PROVE  DOMAIN owed' = Coordinators /\ \A d \in Coordinators \ {c} : owed'[d] = owed[d]
  BY DEF AdmissionInv, Shapes, FlagsOK

LEMMA OwedStays ==
  ASSUME AdmissionInv, owed' = owed
  PROVE  DOMAIN owed' = Coordinators /\ \A d \in Coordinators : owed'[d] = owed[d]
  BY DEF AdmissionInv, Shapes, FlagsOK

LEMMA Here1 ==
  ASSUME AdmissionInv, NEW c \in admins
  PROVE  /\ c \in Coordinators /\ RostersOK /\ FlagsOK
         /\ IsRoster(live[c]) /\ IsRoster(file[c]) /\ IsRoster(disk[c]) /\ IsRoster(record)
         /\ Own(c, live[c]) /\ Own(c, file[c]) /\ Own(c, disk[c]) /\ Own(c, record)
  BY DEF AdmissionInv, Shapes, FlagsOK, RostersOK, Own

LEMMA SaveOwedKeeps ==
  ASSUME AdmissionInv, UNCHANGED admins, NEW c \in admins, SaveOwed(c)
  PROVE  AdmissionInv' /\ NothingNew
<1>0. /\ c \in Coordinators /\ RostersOK /\ FlagsOK
      /\ IsRoster(live[c]) /\ Own(c, live[c])
  BY Here1
<1>1. lock[c] = Nobody /\ UNCHANGED <<admins, ledger, gossip, task, lock>>
  BY DEF SaveOwed
<1>2. DOMAIN owed' = Coordinators /\ \A d \in Coordinators \ {c} : owed'[d] = owed[d]
  BY <1>0, OwedSet DEF SaveOwed
<1>3. PICK k : k = [live[c] EXCEPT !.keys =
          [x \in Keys |-> IF x \in owed[c] \cap Keys THEN "none" ELSE live[c].keys[x]]]
  OBVIOUS
<1>4. IsRoster(k) /\ k.via = live[c].via
  BY <1>0, <1>3, SidesApart
<1>5. Own(c, k)
  BY <1>4 DEF Own
<1>6. SaveOK(c, live[c]) \/ SaveFails(c, live[c], k)
  BY <1>3 DEF SaveOwed
<1>7. CASE SaveOK(c, live[c])
  <2>1. Took(c, live[c], live[c])
    BY <1>0, <1>7, SaveOKTakes
  <2> QED
    BY <1>0, <1>1, <1>2, <2>1, SaveAlone
<1>8. CASE SaveFails(c, live[c], k)
  <2>1. Took(c, live[c], k)
    BY <1>0, <1>8, SaveFailsTakes
  <2> QED
    BY <1>0, <1>1, <1>2, <1>4, <1>5, <2>1, SaveAlone
<1> QED
  BY <1>6, <1>7, <1>8

LEMMA RetryKeeps ==
  ASSUME AdmissionInv, UNCHANGED admins, NEW c \in admins, RetryDurable(c)
  PROVE  AdmissionInv' /\ NothingNew
<1>0. /\ c \in Coordinators /\ RostersOK /\ FlagsOK
      /\ IsRoster(live[c]) /\ Own(c, live[c])
  BY Here1
<1>1. lock[c] = Nobody /\ UNCHANGED <<admins, ledger, gossip, task, lock>>
  BY DEF RetryDurable
<1>2. DOMAIN owed' = Coordinators /\ \A d \in Coordinators \ {c} : owed'[d] = owed[d]
  BY OwedStays DEF RetryDurable
<1>3. Took(c, live[c], live[c])
  BY <1>0, SaveOKTakes, SaveFailsTakes DEF RetryDurable
<1> QED
  BY <1>0, <1>1, <1>2, <1>3, SaveAlone

LEMMA ReconvergeKeeps ==
  ASSUME AdmissionInv, UNCHANGED admins, NEW c \in admins, Reconverge(c)
  PROVE  AdmissionInv' /\ NothingNew
<1>0. c \in Coordinators /\ RostersOK /\ FlagsOK /\ IsRoster(record) /\ Own(c, record)
  BY Here1
<1>1. lock[c] = Nobody /\ UNCHANGED <<admins, ledger, gossip, task, lock>>
  BY DEF Reconverge
<1>2. DOMAIN owed' = Coordinators /\ \A d \in Coordinators \ {c} : owed'[d] = owed[d]
  BY OwedStays DEF Reconverge
<1>3. Took(c, record, record)
  BY <1>0 DEF Reconverge, Took, RostersOK, FlagsOK
<1> QED
  BY <1>0, <1>1, <1>2, <1>3, SaveAlone

LEMMA RestartKeeps ==
  ASSUME AdmissionInv, UNCHANGED admins, NEW c \in admins, Restart(c)
  PROVE  AdmissionInv' /\ NothingNew
<1>0. /\ c \in Coordinators /\ RostersOK /\ FlagsOK /\ TasksOK
      /\ IsRoster(file[c]) /\ IsRoster(disk[c]) /\ Own(c, file[c]) /\ Own(c, disk[c])
  BY Here1 DEF AdmissionInv, Shapes
<1>1. PICK g \in {file[c], disk[c]} :
        /\ live' = [live EXCEPT ![c] = g] /\ file' = [file EXCEPT ![c] = g]
        /\ disk' = [disk EXCEPT ![c] = g]
  BY DEF Restart
<1>2. IsRoster(g) /\ Own(c, g)
  BY <1>0
<1>3. sure' = [sure EXCEPT ![c] = "yes"] /\ record' = record
  BY DEF Restart
<1>4. Took(c, g, g)
  BY <1>0, <1>1, <1>3 DEF Took, RostersOK, FlagsOK
<1>5. task' = [task EXCEPT ![c] = [l \in Lanes |-> Idle]]
  BY DEF Restart
<1>6. /\ \A m \in Lanes : task'[c][m] = Idle
      /\ \A d \in Coordinators \ {c} : task'[d] = task[d]
      /\ DOMAIN task' = Coordinators /\ DOMAIN task'[c] = Lanes
  BY <1>0, <1>5 DEF TasksOK
<1>7. TasksOK'
  <2>1. IsTask(Idle)
    BY DEF IsTask, Idle, Replying
  <2>2. \A d \in Coordinators :
          DOMAIN task'[d] = Lanes /\ \A l \in Lanes : IsTask(task'[d][l])
    <3> TAKE d \in Coordinators
    <3>1. CASE d = c
      BY <3>1, <1>6, <2>1
    <3>2. CASE d # c
      BY <3>2, <1>6, <1>0 DEF TasksOK
    <3> QED
      BY <3>1, <3>2
  <2> QED
    BY <1>6, <2>2 DEF TasksOK
<1>8. /\ DOMAIN lock' = Coordinators /\ DOMAIN owed' = Coordinators
      /\ \A d \in Coordinators \ {c} : lock'[d] = lock[d] /\ owed'[d] = owed[d]
  BY <1>0 DEF Restart, FlagsOK
<1>9. UNCHANGED <<admins, ledger, gossip>>
  BY DEF Restart
<1>10. \A d \in Coordinators \ {c}, m \in Lanes : task'[d][m] = task[d][m]
  BY <1>6
<1> QED
  BY <1>0, <1>2, <1>4, <1>6, <1>7, <1>8, <1>9, <1>10, OwnSaveKeeps

LEMMA RenameKeeps ==
  ASSUME AdmissionInv, UNCHANGED admins, NEW c \in admins, NEW l \in Lanes, Rename(c, l)
  PROVE  AdmissionInv' /\ NothingNew
<1>0. /\ c \in Coordinators /\ RostersOK /\ FlagsOK /\ TasksOK /\ PeerOf[l] \in Peers
      /\ IsRoster(live[c]) /\ Own(c, live[c])
  BY Here1, LanesHavePeers DEF AdmissionInv, Shapes
<1>1. PICK t : t = Idle
  OBVIOUS
<1>2. IsTask(t) /\ Step(c, l, t)
  BY <1>1 DEF IsTask, Idle, Replying, Rename
<1>3. /\ TasksOK' /\ task'[c][l] = t
      /\ \A d \in Coordinators, m \in Lanes : d # c \/ m # l => task'[d][m] = task[d][m]
  BY <1>0, <1>2, StepFacts
<1>4. lock[c] = Nobody /\ UNCHANGED <<admins, ledger, gossip, owed, lock>>
  BY DEF Rename
<1>5. /\ \A d \in Coordinators \ {c}, m \in Lanes : task'[d][m] = task[d][m]
      /\ \A m \in Lanes : \/ task'[c][m] = Idle
                          \/ /\ task'[c][m] = task[c][m]
                             /\ task[c][m].st \notin {"rollback", "retain"}
  BY <1>0, <1>1, <1>3, <1>4, NoCommit
<1>6. /\ DOMAIN lock' = Coordinators /\ DOMAIN owed' = Coordinators
      /\ \A d \in Coordinators \ {c} : lock'[d] = lock[d] /\ owed'[d] = owed[d]
  BY <1>0, <1>4 DEF FlagsOK
<1>7. PICK g : g = SeatIn(live[c], PeerOf[l], Chosen(c, PeerOf[l]), live[c].via[PeerOf[l]])
  OBVIOUS
<1>8. /\ IsRoster(g) /\ g.via[PeerOf[l]] = live[c].via[PeerOf[l]]
      /\ \A q \in Peers \ {PeerOf[l]} : g.via[q] = live[c].via[q]
  BY <1>0, <1>7, SeatFacts, SMTT(30)
<1>9. Own(c, g)
  BY <1>8 DEF Own
<1>10. \/ SaveOK(c, g) \/ SaveFails(c, g, g)
       \/ UNCHANGED <<rosters, record>>
  BY <1>7 DEF Rename
<1>11. CASE SaveOK(c, g) \/ SaveFails(c, g, g)
  <2>1. Took(c, g, g)
    BY <1>0, <1>11, SaveOKTakes, SaveFailsTakes
  <2> QED
    BY <1>0, <1>3, <1>4, <1>5, <1>6, <1>8, <1>9, <2>1, OwnSaveKeeps
<1>12. CASE UNCHANGED <<rosters, record>>
  <2>1. Took(c, live[c], live[c])
    BY <1>0, <1>12 DEF rosters, Took, RostersOK, FlagsOK, AdmissionInv, Saves, SureSaved
  <2> QED
    BY <1>0, <1>3, <1>4, <1>5, <1>6, <2>1, OwnSaveKeeps
<1> QED
  BY <1>10, <1>11, <1>12

-----------------------------------------------------------------------------
(* The commit of an admission. *)

\* At most one seat appears that no roster showed.
AddsAt(p0, v0) ==
  \A d \in Coordinators, i \in Invites, p \in Peers :
    Shown(p, <<d, i>>)' => Shown(p, <<d, i>>) \/ (p = p0 /\ <<d, i>> = v0)

\* The roster g differs from h in the seat of p only.
Reseats(g, h, p) == \A q \in Peers \ {p} : g.name[q] = h.name[q] /\ g.via[q] = h.via[q]

Reseated(h, p, n, v, a) == [SeatIn(h, p, n, v) EXCEPT !.appr = a]

LEMMA SeatAndApprove ==
  ASSUME NEW h, IsRoster(h), NEW p \in Peers, NEW n, NEW v, NEW a, NEW g,
         g = Reseated(h, p, n, v, a)
  PROVE  IsRoster(g) /\ g.name[p] = n /\ g.via[p] = v /\ Reseats(g, h, p)
<1>1. PICK k : k = SeatIn(h, p, n, v)
  OBVIOUS
<1>2. /\ IsRoster(k) /\ k.name[p] = n /\ k.via[p] = v
      /\ \A q \in Peers \ {p} : k.name[q] = h.name[q] /\ k.via[q] = h.via[q]
  BY <1>1, SeatFacts, SMTT(30)
<1>3. g = [k EXCEPT !.appr = a]
  BY <1>1 DEF Reseated
<1>4. IsRoster(g) /\ g.name = k.name /\ g.via = k.via
  BY <1>2, <1>3 DEF IsRoster
<1> QED
  BY <1>2, <1>4 DEF Reseats

\* Such a roster, taken by c, shows what was shown and the seat of p.
LEMMA ReseatShows ==
  ASSUME NEW c \in Coordinators, NEW w, NEW g, Took(c, w, g), NEW p \in Peers,
         Reseats(w, live[c], p), Reseats(g, live[c], p),
         NEW q \in Peers, NEW v, Shown(q, v)', ~Shown(q, v)
  PROVE  q = p /\ (g.via[p] = v \/ w.via[p] = v)
<1>1. g.via[q] = v \/ w.via[q] = v
  BY TookShows
<1>2. live[c].via[q] # v
  BY DEF Shown
<1>3. q = p
  BY <1>1, <1>2 DEF Reseats
<1> QED
  BY <1>1, <1>3

LEMMA ReseatFrom ==
  ASSUME NEW c, NEW g, NEW p \in Peers, Reseats(g, live[c], p),
         \/ g.via[p] \in {live[c].via[p], NoVia}
         \/ g.via[p] \in {c} \X Invites
         \/ Kept(p, g.via[p])
  PROVE  From(c, g)
<1> SUFFICES ASSUME NEW q \in Peers
             PROVE  \/ g.via[q] \in {live[c].via[q], file[c].via[q], disk[c].via[q], record.via[q], NoVia}
                    \/ g.via[q] \in {c} \X Invites
                    \/ Kept(q, g.via[q])
  BY DEF From
<1>1. CASE q = p
  BY <1>1
<1>2. CASE q # p
  BY <1>2 DEF Reseats
<1> QED
  BY <1>1, <1>2

LEMMA ViaFacts ==
  ASSUME NEW c \in Coordinators, NEW t, IsTask(t)
  PROVE  /\ ViaOf(c, t) = NoVia \/ ViaOf(c, t) \in {c} \X Invites
         /\ \A d \in Coordinators, i \in Invites :
              ViaOf(c, t) = <<d, i>> => d = c /\ i = t.paid /\ t.paid # NoInvite
<1>1. NoVia \notin Coordinators \X Invites
  BY NoInviteIsNone DEF NoVia
<1>2. t.paid # NoInvite => t.paid \in Invites
  BY DEF IsTask
<1>3. CASE t.paid = NoInvite
  BY <1>1, <1>3, SMTT(30) DEF ViaOf
<1>4. CASE t.paid # NoInvite
  BY <1>2, <1>4 DEF ViaOf
<1> QED
  BY <1>3, <1>4

\* What a handler's step adds to the rollbacks.
LEMMA UndoStep ==
  ASSUME TasksOK, NEW c \in Coordinators, NEW l \in Lanes, NEW t, Step(c, l, t), IsTask(t),
         \/ t.undo = task[c][l].undo \/ t.undo.via = NoVia
         \/ t.undo.via = live[c].via[PeerOf[l]]
  PROVE  UndoFrom(c)
<1> SUFFICES ASSUME NEW q \in Peers, NEW d \in Coordinators, NEW i \in Invites,
                    Kept(q, <<d, i>>)', ~Kept(q, <<d, i>>)
             PROVE  live[c].via[q] = <<d, i>>
  BY DEF UndoFrom
<1>1. q = PeerOf[l] /\ t.undo.via = <<d, i>>
  BY KeptStep
<1>2. NoVia # <<d, i>>
  BY NoInviteIsNone DEF NoVia
<1>3. t.undo # task[c][l].undo
  BY <1>1 DEF Kept
<1> QED
  BY <1>1, <1>2, <1>3

\* One step of the handler that holds or takes the commit lock.
LEMMA CommitStep ==
  ASSUME AdmissionInv, UNCHANGED <<admins, ledger, gossip, owed>>,
         NEW c \in Coordinators, NEW l \in Lanes, NEW t, Step(c, l, t), IsTask(t),
         NEW w, NEW g, Took(c, w, g), IsRoster(w), IsRoster(g), From(c, w), From(c, g),
         \A m \in Lanes \ {l} : task[c][m].st \notin {"rollback", "retain"},
         DOMAIN lock' = Coordinators, \A d \in Coordinators \ {c} : lock'[d] = lock[d],
         \/ t.undo = task[c][l].undo \/ t.undo.via = NoVia
         \/ t.undo.via = live[c].via[PeerOf[l]],
         t.st \in {"rollback", "retain"} => lock'[c] = l,
         t.st = "rollback" => Tentative(c, l)',
         t.st = "retain" => PeerOf[l] \in Seated(g)
  PROVE  Shapes' /\ Commits' /\ Saves' /\ UndoFrom(c)
<1>0. TasksOK
  BY DEF AdmissionInv, Shapes
<1>1. /\ TasksOK' /\ task'[c][l] = t
      /\ \A d \in Coordinators, m \in Lanes : d # c \/ m # l => task'[d][m] = task[d][m]
  BY <1>0, StepFacts
<1>2. UndoFrom(c)
  BY <1>0, UndoStep
<1>3. DOMAIN owed' = Coordinators /\ \A d \in Coordinators : owed'[d] = owed[d]
  BY OwedStays
<1>4. \A d \in Coordinators \ {c}, m \in Lanes : task'[d][m] = task[d][m]
  BY <1>1
<1>5. ASSUME NEW m \in Lanes
      PROVE  /\ task'[c][m].st \in {"rollback", "retain"} => lock'[c] = m
             /\ task'[c][m].st = "rollback" => Tentative(c, m)'
             /\ task'[c][m].st = "retain" => PeerOf[m] \in Seated(g) \/ "edit" \in owed'[c]
  <2>1. CASE m = l
    BY <2>1, <1>1
  <2>2. CASE m # l
    <3>1. task'[c][m].st \notin {"rollback", "retain"}
      BY <2>2, <1>1
    <3> QED
      BY <3>1
  <2> QED
    BY <2>1, <2>2
<1>6. \A d \in Coordinators \ {c} : lock'[d] = lock[d] /\ owed'[d] = owed[d]
  BY <1>3
<1>7. Shapes' /\ Commits' /\ Saves'
  BY <1>1, <1>2, <1>3, <1>4, <1>5, <1>6, StepSave
<1> QED
  BY <1>2, <1>7

\* The uses after such a step.
LEMMA CommitUses ==
  ASSUME AdmissionInv, UNCHANGED ledger, NEW c \in Coordinators, NEW l \in Lanes,
         NEW t, Step(c, l, t), IsTask(t), t.paid = task[c][l].paid,
         t.paid # NoInvite /\ t.st \notin Seating => Nowhere(c, t.paid)',
         AddsOnly(c, l)
  PROVE  Uses'
<1>0. TasksOK /\ LedgersOK /\ Uses
  BY DEF AdmissionInv, Shapes
<1>1. /\ task'[c][l] = t
      /\ \A d \in Coordinators, m \in Lanes : d # c \/ m # l => task'[d][m] = task[d][m]
  BY <1>0, StepFacts
<1>2. \A d \in Coordinators, i \in Invites, p \in Peers : SpentBy(d, i, p) => SpentBy(d, i, p)'
  BY LedgerSame
<1>3. /\ l \in Lanes => task'[c][l].paid \in {task[c][l].paid, NoInvite}
      /\ \A d \in Coordinators, m \in Lanes : d # c \/ m # l =>
           task'[d][m] = task[d][m] \/ task'[d][m].paid = NoInvite
  BY <1>1
<1>4. l \in Lanes /\ task'[c][l].paid # NoInvite /\ task'[c][l].st \notin Seating =>
        task[c][l].st \notin Seating \/ Nowhere(c, task[c][l].paid)'
  <2>1. task'[c][l].paid = t.paid /\ task'[c][l].st = t.st
    BY <1>1
  <2> QED
    BY <2>1 DEF Nowhere, Shown, Kept
<1> QED
  BY <1>0, <1>2, <1>3, <1>4, UsesKept

\* The seat that a commit tries to save is shown nowhere before it.
LEMMA FirstSaveTentative ==
  ASSUME AdmissionInv, NEW c \in Coordinators, NEW l \in Lanes, task[c][l].st = "valid",
         NEW t, task'[c][l] = t, IsTask(t), t.paid = task[c][l].paid,
         NEW g, Took(c, g, g), disk' = disk, record' = record,
         g.name[PeerOf[l]] = t.name, g.via[PeerOf[l]] = ViaOf(c, t), UndoFrom(c)
  PROVE  Tentative(c, l)'
<1>1. live'[c] = g /\ \A d \in Coordinators \ {c} : live'[d] = live[d] /\ file'[d] = file[d]
  BY DEF Took
<1>2. SUFFICES ASSUME t.paid # NoInvite
               PROVE  /\ \A q \in Peers : ~Kept(q, <<c, t.paid>>)' /\ record'.via[q] # <<c, t.paid>>
                      /\ \A d \in Coordinators, q \in Peers :
                           /\ disk'[d].via[q] # <<c, t.paid>>
                           /\ d # c => /\ live'[d].via[q] # <<c, t.paid>>
                                       /\ file'[d].via[q] # <<c, t.paid>>
  BY <1>1 DEF Tentative
<1>3. PICK i \in Invites : t.paid = i
  BY <1>2 DEF IsTask
<1>4. \A q \in Peers : ~Shown(q, <<c, i>>) /\ ~Kept(q, <<c, i>>)
  BY <1>2, <1>3 DEF AdmissionInv, Uses, NotSeatedYet, Seating
<1>5. \A q \in Peers : ~Kept(q, <<c, i>>)'
  BY <1>4 DEF UndoFrom, Shown
<1> QED
  BY <1>1, <1>3, <1>4, <1>5 DEF Shown

LEMMA CommitKeeps ==
  ASSUME AdmissionInv, UNCHANGED admins, NEW c \in admins, NEW l \in Lanes, CommitAdmission(c, l)
  PROVE  AdmissionInv' /\ AddsAt(PeerOf[l], ViaOf(c, task[c][l]))
<1>0. /\ c \in Coordinators /\ RostersOK /\ FlagsOK /\ TasksOK /\ PeerOf[l] \in Peers
      /\ IsRoster(live[c]) /\ IsTask(task[c][l])
  BY Here1, TaskOK, LanesHavePeers DEF AdmissionInv, Shapes
<1>p. PICK p \in Peers : p = PeerOf[l]
  BY <1>0
<1>1. /\ task[c][l].st = "valid" /\ lock[c] = Nobody
      /\ UNCHANGED <<admins, ledger, gossip, owed>>
  BY DEF CommitAdmission
<1>2. PICK g : g = Reseated(live[c], p, task[c][l].name, ViaOf(c, task[c][l]),
          SeatIn(live[c], p, task[c][l].name, ViaOf(c, task[c][l])).appr \ task[c][l].appr)
  OBVIOUS
<1>3. /\ IsRoster(g) /\ g.name[p] = task[c][l].name /\ g.via[p] = ViaOf(c, task[c][l])
      /\ Reseats(g, live[c], p)
  <2>1. PICK h, n, v, a : /\ h = live[c] /\ n = task[c][l].name /\ v = ViaOf(c, task[c][l])
                          /\ a = SeatIn(h, p, n, v).appr \ task[c][l].appr
    OBVIOUS
  <2>2. g = Reseated(h, p, n, v, a)
    BY <1>2, <2>1
  <2>3. IsRoster(h)
    BY <1>0, <2>1
  <2>4. IsRoster(g) /\ g.name[p] = n /\ g.via[p] = v /\ Reseats(g, h, p)
    BY <1>p, <2>2, <2>3, SeatAndApprove, SMTT(30)
  <2> QED
    BY <2>1, <2>4
<1>v. /\ ViaOf(c, task[c][l]) = NoVia \/ ViaOf(c, task[c][l]) \in {c} \X Invites
      /\ \A d \in Coordinators, i \in Invites :
           ViaOf(c, task[c][l]) = <<d, i>> =>
             d = c /\ i = task[c][l].paid /\ task[c][l].paid # NoInvite
  <2>1. PICK t : t = task[c][l]
    OBVIOUS
  <2>2. IsTask(t)
    BY <1>0, <2>1
  <2>3. /\ ViaOf(c, t) = NoVia \/ ViaOf(c, t) \in {c} \X Invites
        /\ \A d \in Coordinators, i \in Invites :
             ViaOf(c, t) = <<d, i>> => d = c /\ i = t.paid /\ t.paid # NoInvite
    BY <1>0, <2>2, ViaFacts
  <2> QED
    BY <2>1, <2>3
<1>4. From(c, g)
  <2>1. g.via[p] \in {live[c].via[p], NoVia} \/ g.via[p] \in {c} \X Invites
    BY <1>3, <1>v
  <2> QED
    BY <1>3, <2>1, ReseatFrom
<1>5. \A m \in Lanes \ {l} : task[c][m].st \notin {"rollback", "retain"}
  BY <1>0, <1>1, NoCommit
<1>6. ASSUME Took(c, g, g)
      PROVE  AddsAt(p, ViaOf(c, task[c][l]))
  <2> SUFFICES ASSUME NEW d \in Coordinators, NEW i \in Invites, NEW q \in Peers,
                      Shown(q, <<d, i>>)', ~Shown(q, <<d, i>>)
               PROVE  q = p /\ <<d, i>> = ViaOf(c, task[c][l])
    BY DEF AddsAt
  <2>1. PICK v : v = <<d, i>>
    OBVIOUS
  <2>2. Shown(q, v)' /\ ~Shown(q, v)
    BY <2>1
  <2>3. q = p /\ (g.via[p] = v \/ g.via[p] = v)
    BY <1>0, <1>3, <1>6, <2>2, ReseatShows, SMTT(30)
  <2> QED
    BY <1>3, <2>1, <2>3
<1>7. ASSUME NEW t, Step(c, l, t), IsTask(t), t.paid = task[c][l].paid, t.st \in Seating,
             Took(c, g, g), UndoFrom(c)
      PROVE  Uses'
  <2>0. task'[c][l] = t
    BY <1>0, <1>7, StepFacts
  <2>1. AddsOnly(c, l)
    <3> SUFFICES ASSUME NEW d \in Coordinators, NEW i \in Invites, NEW q \in Peers,
                        Shown(q, <<d, i>>)' \/ Kept(q, <<d, i>>)',
                        ~Shown(q, <<d, i>>), ~Kept(q, <<d, i>>)
                 PROVE  q = p /\ d = c /\ i = task[c][l].paid
      BY <1>p, <1>7, <2>0 DEF AddsOnly
    <3>1. live[c].via[q] # <<d, i>>
      BY <1>0 DEF Shown
    <3>2. Shown(q, <<d, i>>)'
      BY <3>1, <1>7 DEF UndoFrom
    <3>3. q = p /\ <<d, i>> = ViaOf(c, task[c][l])
      BY <3>2, <1>6, <1>7 DEF AddsAt
    <3> QED
      BY <3>3, <1>v
  <2> QED
    BY <1>0, <1>1, <1>7, <2>1, CommitUses
<1>8. CASE SaveOK(c, g) /\ Step(c, l, [task[c][l] EXCEPT !.st = "welcome"]) /\ UNCHANGED lock
  <2>1. PICK t : t = [task[c][l] EXCEPT !.st = "welcome"]
    OBVIOUS
  <2>2. IsTask(t) /\ t.st = "welcome" /\ t.paid = task[c][l].paid /\ t.undo = task[c][l].undo
    BY <2>1, <1>0 DEF IsTask, Replying
  <2>3. Step(c, l, t) /\ Took(c, g, g)
    BY <1>0, <1>8, <2>1, SaveOKTakes
  <2>4. DOMAIN lock' = Coordinators /\ \A d \in Coordinators \ {c} : lock'[d] = lock[d]
    BY <1>0, <1>8 DEF FlagsOK
  <2>5. t.st \notin {"rollback", "retain"} /\ t.st \in Seating
    BY <2>2 DEF Seating
  <2>6. Shapes' /\ Commits' /\ Saves' /\ UndoFrom(c)
    BY <1>0, <1>1, <1>3, <1>4, <1>5, <2>2, <2>3, <2>4, <2>5, CommitStep
  <2>7. Uses'
    BY <1>7, <2>2, <2>3, <2>5, <2>6
  <2> QED
    BY <1>p, <1>6, <2>3, <2>6, <2>7 DEF AdmissionInv
<1>9. CASE /\ SaveFails(c, g, g)
           /\ \E u : /\ u.via = live[c].via[p]
                     /\ Step(c, l, [task[c][l] EXCEPT !.st = "rollback", !.undo = u])
           /\ lock' = [lock EXCEPT ![c] = l]
  <2>u. PICK u : /\ u.via = live[c].via[p]
                 /\ Step(c, l, [task[c][l] EXCEPT !.st = "rollback", !.undo = u])
    BY <1>9
  <2>1. PICK t : t = [task[c][l] EXCEPT !.st = "rollback", !.undo = u]
    OBVIOUS
  <2>2. /\ IsTask(t) /\ t.st = "rollback" /\ t.paid = task[c][l].paid /\ t.undo = u
        /\ t.name = task[c][l].name
    BY <2>1, <1>0, <1>1 DEF IsTask, Replying
  <2>3. Step(c, l, t) /\ Took(c, g, g) /\ disk' = disk /\ record' = record
    BY <1>0, <1>9, <2>u, <2>1, SaveFailsTakes
  <2>4. /\ DOMAIN lock' = Coordinators /\ lock'[c] = l
        /\ \A d \in Coordinators \ {c} : lock'[d] = lock[d]
    BY <1>0, <1>9 DEF FlagsOK
  <2>5. t.undo.via = live[c].via[PeerOf[l]] /\ t.st \in Seating /\ t.st # "retain"
    BY <1>p, <2>2, <2>u DEF Seating
  <2>6. UndoFrom(c)
    BY <1>0, <2>2, <2>3, <2>5, UndoStep
  <2>7. task'[c][l] = t
    BY <1>0, <2>2, <2>3, StepFacts
  <2>8. ViaOf(c, t) = ViaOf(c, task[c][l])
    BY <2>2 DEF ViaOf
  <2>9. Tentative(c, l)'
    BY <1>0, <1>1, <1>p, <1>3, <2>2, <2>3, <2>6, <2>7, <2>8, FirstSaveTentative
  <2>10. Shapes' /\ Commits' /\ Saves'
    BY <1>0, <1>1, <1>3, <1>4, <1>5, <2>2, <2>3, <2>4, <2>5, <2>9, CommitStep
  <2>11. Uses'
    BY <1>7, <2>2, <2>3, <2>5, <2>6
  <2> QED
    BY <1>p, <1>6, <2>3, <2>10, <2>11 DEF AdmissionInv
<1>10. \/ SaveOK(c, g) /\ Step(c, l, [task[c][l] EXCEPT !.st = "welcome"]) /\ UNCHANGED lock
       \/ /\ SaveFails(c, g, g)
          /\ \E u : /\ u.via = live[c].via[p]
                    /\ Step(c, l, [task[c][l] EXCEPT !.st = "rollback", !.undo = u])
          /\ lock' = [lock EXCEPT ![c] = l]
  <2>1. PICK u : u = [name |-> live[c].name[p], via |-> live[c].via[p],
               appr |-> task[c][l].appr \cap live[c].appr, queued |-> {p} \cap Range(queue[c]),
               denied |-> {p} \cap denied[c], ahead |-> Before(queue[c], p)]
    OBVIOUS
  <2>2. u.via = live[c].via[p]
    BY <2>1
  <2>3. \/ SaveOK(c, g) /\ Step(c, l, [task[c][l] EXCEPT !.st = "welcome"]) /\ UNCHANGED lock
        \/ /\ SaveFails(c, g, g)
           /\ Step(c, l, [task[c][l] EXCEPT !.st = "rollback", !.undo = u])
           /\ lock' = [lock EXCEPT ![c] = l]
    BY <1>p, <1>2, <2>1 DEF CommitAdmission, Reseated
  <2> QED
    BY <2>2, <2>3
<1> QED
  BY <1>8, <1>9, <1>10

LEMMA RetainKeeps ==
  ASSUME AdmissionInv, UNCHANGED admins, NEW c \in admins, NEW l \in Lanes, Retain(c, l)
  PROVE  AdmissionInv' /\ NothingNew
<1>0. /\ c \in Coordinators /\ RostersOK /\ FlagsOK /\ TasksOK /\ LockHeld
      /\ IsRoster(live[c]) /\ Own(c, live[c]) /\ IsTask(task[c][l])
  BY Here1, TaskOK DEF AdmissionInv, Shapes, Commits
<1>1. /\ task[c][l].st = "retain" /\ UNCHANGED <<admins, ledger, gossip, owed>>
      /\ lock' = [lock EXCEPT ![c] = Nobody]
  BY DEF Retain
<1>2. PICK s \in {"welcome", "retained"} :
        /\ SaveOK(c, live[c]) \/ SaveFails(c, live[c], live[c])
        /\ Step(c, l, [task[c][l] EXCEPT !.st = s])
  BY DEF Retain
<1>3. Took(c, live[c], live[c])
  BY <1>0, <1>2, SaveOKTakes, SaveFailsTakes
<1>4. From(c, live[c]) /\ NothingNew
  BY <1>0, <1>3, OwnFrom, OwnShows
<1>5. PICK t : t = [task[c][l] EXCEPT !.st = s]
  OBVIOUS
<1>6. /\ IsTask(t) /\ t.st \in {"welcome", "retained"} /\ t.paid = task[c][l].paid
      /\ t.undo = task[c][l].undo
  BY <1>0, <1>5 DEF IsTask, Replying
<1>7. Step(c, l, t)
  BY <1>2, <1>5
<1>8. DOMAIN lock' = Coordinators /\ \A d \in Coordinators \ {c} : lock'[d] = lock[d]
  BY <1>0, <1>1 DEF FlagsOK
<1>9. \A m \in Lanes \ {l} : task[c][m].st \notin {"rollback", "retain"}
  BY <1>0, <1>1, OneCommit
<1>10. t.st \notin {"rollback", "retain"} /\ t.st \in Seating
  BY <1>6 DEF Seating
<1>11. Shapes' /\ Commits' /\ Saves' /\ UndoFrom(c)
  BY <1>0, <1>1, <1>3, <1>4, <1>6, <1>7, <1>8, <1>9, <1>10, CommitStep
<1>12. AddsOnly(c, l)
  <2> SUFFICES ASSUME NEW d \in Coordinators, NEW i \in Invites, NEW q \in Peers,
                      Shown(q, <<d, i>>)' \/ Kept(q, <<d, i>>)'
               PROVE  Shown(q, <<d, i>>) \/ Kept(q, <<d, i>>)
    BY DEF AddsOnly
  <2>1. live[c].via[q] = <<d, i>> => Shown(q, <<d, i>>)
    BY <1>0 DEF Shown
  <2> QED
    BY <1>4, <1>11, <2>1 DEF NothingNew, UndoFrom
<1>13. Uses'
  BY <1>0, <1>1, <1>6, <1>7, <1>10, <1>12, CommitUses
<1> QED
  BY <1>4, <1>11, <1>13 DEF AdmissionInv

\* What a rollback puts in place of the seat, and what it finds.
Mine(c, l) ==
  /\ live[c].name[PeerOf[l]] = task[c][l].name
  /\ live[c].via[PeerOf[l]] = ViaOf(c, task[c][l])

RolledTo(c, l, g) ==
  /\ IsRoster(g) /\ Reseats(g, live[c], PeerOf[l])
  /\ Mine(c, l) => /\ g.name[PeerOf[l]] = task[c][l].undo.name
                   /\ g.via[PeerOf[l]] = task[c][l].undo.via
  /\ ~Mine(c, l) => g.name[PeerOf[l]] = Out /\ g.via[PeerOf[l]] = NoVia

SeatedAgain(c, l, g) ==
  /\ IsRoster(g) /\ Reseats(g, live[c], PeerOf[l])
  /\ g.name[PeerOf[l]] = task[c][l].name /\ g.via[PeerOf[l]] = ViaOf(c, task[c][l])

\* The two ways a rollback ends.
LEMMA RollBackCases ==
  ASSUME AdmissionInv, NEW c \in Coordinators, NEW l \in Lanes, RollBack(c, l)
  PROVE  \E g, h :
           /\ RolledTo(c, l, g) /\ SeatedAgain(c, l, h)
           /\ \/ /\ SaveOK(c, g) /\ lock' = [lock EXCEPT ![c] = Nobody]
                 /\ Step(c, l, [task[c][l] EXCEPT !.st = "undone", !.undo = NoUndo])
              \/ /\ SaveFails(c, g, h) /\ UNCHANGED lock
                 /\ Step(c, l, [task[c][l] EXCEPT !.st = "retain", !.undo = NoUndo])
<1>0. /\ IsRoster(live[c]) /\ IsTask(task[c][l]) /\ PeerOf[l] \in Peers
      /\ task[c][l].st = "rollback" /\ Tentative(c, l)
  BY TaskOK, LanesHavePeers DEF AdmissionInv, Shapes, RostersOK, Commits, TentativeAlone, RollBack
<1>p. PICK p \in Peers : p = PeerOf[l]
  BY <1>0
<1>1. PICK g0, t, v : p = PeerOf[l] /\ g0 = live[c] /\ t = task[c][l] /\ v = ViaOf(c, t)
  BY <1>p
<1>2. PICK k : k = Reseated(g0, p, t.undo.name, t.undo.via,
                            SeatIn(g0, p, t.undo.name, t.undo.via).appr \cup t.undo.appr)
  OBVIOUS
<1>3. IsRoster(k) /\ k.name[p] = t.undo.name /\ k.via[p] = t.undo.via /\ Reseats(k, g0, p)
  <2>1. PICK n, w, a : /\ n = t.undo.name /\ w = t.undo.via
                       /\ a = SeatIn(g0, p, n, w).appr \cup t.undo.appr
    OBVIOUS
  <2>2. k = Reseated(g0, p, n, w, a) /\ IsRoster(g0)
    BY <1>0, <1>1, <1>2, <2>1
  <2>3. IsRoster(k) /\ k.name[p] = n /\ k.via[p] = w /\ Reseats(k, g0, p)
    BY <1>p, <2>2, SeatAndApprove, SMTT(30)
  <2> QED
    BY <2>1, <2>3
<1>4. PICK g : g = IF Mine(c, l) THEN k ELSE g0
  OBVIOUS
<1>5. RolledTo(c, l, g)
  <2>1. CASE Mine(c, l)
    BY <1>1, <1>3, <1>4, <2>1 DEF RolledTo
  <2>2. CASE ~Mine(c, l)
    <3>1. g = g0
      BY <1>4, <2>2
    <3>2. g0.name[p] = Out /\ g0.via[p] = NoVia
      BY <1>0, <1>1, <2>2 DEF Tentative, Mine
    <3>3. IsRoster(g0) /\ Reseats(g0, g0, p)
      BY <1>0, <1>1 DEF Reseats
    <3> QED
      BY <1>1, <2>2, <3>1, <3>2, <3>3 DEF RolledTo
  <2> QED
    BY <2>1, <2>2
<1>6. PICK h : h = Reseated(g, p, t.name, v, SeatIn(g, p, t.name, v).appr \ {p})
  OBVIOUS
<1>7. IsRoster(h) /\ h.name[p] = t.name /\ h.via[p] = v /\ Reseats(h, g, p)
  <2>1. PICK n, a : n = t.name /\ a = SeatIn(g, p, n, v).appr \ {p}
    OBVIOUS
  <2>2. h = Reseated(g, p, n, v, a) /\ IsRoster(g)
    BY <1>5, <1>6, <2>1 DEF RolledTo
  <2>3. IsRoster(h) /\ h.name[p] = n /\ h.via[p] = v /\ Reseats(h, g, p)
    BY <1>p, <2>2, SeatAndApprove, SMTT(30)
  <2> QED
    BY <2>1, <2>3
<1>8. SeatedAgain(c, l, h)
  <2>1. Reseats(h, g0, p)
    BY <1>1, <1>5, <1>7 DEF Reseats, RolledTo
  <2> QED
    BY <1>1, <1>7, <2>1 DEF SeatedAgain
<1>9. \/ /\ SaveOK(c, g) /\ lock' = [lock EXCEPT ![c] = Nobody]
         /\ Step(c, l, [task[c][l] EXCEPT !.st = "undone", !.undo = NoUndo])
      \/ /\ SaveFails(c, g, h) /\ UNCHANGED lock
         /\ Step(c, l, [task[c][l] EXCEPT !.st = "retain", !.undo = NoUndo])
  BY <1>1, <1>2, <1>4, <1>6 DEF RollBack, Mine, Reseated
<1> QED
  BY <1>5, <1>8, <1>9

\* What a rollback shows that was not shown: what it puts back, or, when that save
\* fails for a peer that was removed meanwhile, the seat it retains.
RollShows(c, l, p, g, k) ==
  \A q \in Peers, d \in Coordinators, i \in Invites :
    Shown(q, <<d, i>>)' /\ ~Shown(q, <<d, i>>) =>
      /\ q = p
      /\ \/ Mine(c, l) /\ <<d, i>> = task[c][l].undo.via
         \/ ~Mine(c, l) /\ k # g /\ <<d, i>> = ViaOf(c, task[c][l])

LEMMA RollBackShows ==
  ASSUME NEW c \in Coordinators, NEW l \in Lanes, NEW p \in Peers, p = PeerOf[l],
         NEW g, NEW k, RolledTo(c, l, g), SeatedAgain(c, l, k) \/ k = g, Took(c, g, k)
  PROVE  RollShows(c, l, p, g, k)
<1> SUFFICES ASSUME NEW q \in Peers, NEW d \in Coordinators, NEW i \in Invites,
                    Shown(q, <<d, i>>)', ~Shown(q, <<d, i>>)
             PROVE  /\ q = p
                    /\ \/ Mine(c, l) /\ <<d, i>> = task[c][l].undo.via
                       \/ ~Mine(c, l) /\ k # g /\ <<d, i>> = ViaOf(c, task[c][l])
  BY DEF RollShows
<1>0. NoVia # <<d, i>> /\ live[c].via[p] = live[c].via[PeerOf[l]]
  BY NoInviteIsNone DEF NoVia
<1>1. PICK v : v = <<d, i>>
  OBVIOUS
<1>2. Reseats(g, live[c], p) /\ Reseats(k, live[c], p)
  BY DEF RolledTo, SeatedAgain
<1>3. Shown(q, v)' /\ ~Shown(q, v) /\ live[c].via[q] # v /\ v # NoVia
  BY <1>0, <1>1 DEF Shown
<1>4. q = p /\ (k.via[p] = v \/ g.via[p] = v)
  BY <1>2, <1>3, ReseatShows, SMTT(30)
<1>5. CASE Mine(c, l)
  <2>1. live[c].via[p] = ViaOf(c, task[c][l])
    BY <1>5 DEF Mine
  <2>2. g.via[p] = task[c][l].undo.via
    BY <1>5 DEF RolledTo
  <2>3. k.via[p] \in {g.via[p], live[c].via[p]}
    BY <2>1 DEF SeatedAgain
  <2> QED
    BY <1>1, <1>3, <1>4, <1>5, <2>2, <2>3
<1>6. CASE ~Mine(c, l)
  <2>1. g.via[p] = NoVia
    BY <1>6 DEF RolledTo
  <2>2. k.via[p] = v /\ k # g
    BY <1>3, <1>4, <2>1
  <2>3. k.via[p] = ViaOf(c, task[c][l])
    BY <2>2 DEF SeatedAgain
  <2> QED
    BY <1>1, <1>4, <1>6, <2>2, <2>3
<1> QED
  BY <1>5, <1>6

\* A saved rollback leaves no trace of the invite that the handler burned.
LEMMA UndoneNowhere ==
  ASSUME AdmissionInv, NEW c \in Coordinators, NEW l \in Lanes, NEW t, Step(c, l, t), IsTask(t),
         task[c][l].st = "rollback", t.paid = task[c][l].paid, t.paid # NoInvite,
         t.undo.via = NoVia,
         NEW g, RolledTo(c, l, g), Took(c, g, g), file'[c] = g, disk'[c] = g, record' = g
  PROVE  Nowhere(c, t.paid)'
<1>0. TasksOK /\ PeerOf[l] \in Peers /\ Tentative(c, l)
  BY LanesHavePeers DEF AdmissionInv, Shapes, Commits, TentativeAlone
<1>1. PICK i \in Invites : i = t.paid
  BY DEF IsTask
<1>2. task'[c][l] = t
  BY <1>0, StepFacts
<1>3. SpentBy(c, i, PeerOf[l])
  BY <1>1 DEF AdmissionInv, Uses, HandlersPaid
<1>4. NoVia # <<c, i>>
  BY NoInviteIsNone DEF NoVia
<1>5. /\ \A q \in Peers : ~Kept(q, <<c, i>>)
      /\ \A d \in Coordinators, q \in Peers :
           /\ disk[d].via[q] # <<c, i>>
           /\ d # c => live[d].via[q] # <<c, i>> /\ file[d].via[q] # <<c, i>>
  BY <1>0, <1>1 DEF Tentative
<1>6. \A q \in Peers : g.via[q] # <<c, i>>
  <2> SUFFICES ASSUME NEW q \in Peers, g.via[q] = <<c, i>>
               PROVE  FALSE
    OBVIOUS
  <2>1. CASE q = PeerOf[l]
    <3>1. CASE Mine(c, l)
      <4>1. task[c][l].undo.via = <<c, i>>
        BY <2>1, <3>1 DEF RolledTo
      <4> QED
        BY <1>0, <1>5, <4>1 DEF Kept
    <3>2. CASE ~Mine(c, l)
      BY <1>4, <2>1, <3>2 DEF RolledTo
    <3> QED
      BY <3>1, <3>2
  <2>2. CASE q # PeerOf[l]
    <3>1. live[c].via[q] = <<c, i>>
      BY <2>2 DEF RolledTo, Reseats
    <3>2. Shown(q, <<c, i>>)
      BY <3>1 DEF Shown
    <3>3. SpentBy(c, i, q)
      BY <3>2 DEF AdmissionInv, Uses, SeatsPaid
    <3> QED
      BY <1>3, <2>2, <3>3 DEF SpentBy
  <2> QED
    BY <2>1, <2>2
<1>7. \A q \in Peers : ~Shown(q, <<c, i>>)'
  BY <1>5, <1>6 DEF Shown, Took
<1>8. \A q \in Peers : ~Kept(q, <<c, i>>)'
  <2> SUFFICES ASSUME NEW q \in Peers, Kept(q, <<c, i>>)'
               PROVE  FALSE
    OBVIOUS
  <2>1. PICK v : v = <<c, i>>
    OBVIOUS
  <2>2. Kept(q, v)'
    BY <2>1
  <2>3. Kept(q, v) \/ (q = PeerOf[l] /\ t.undo.via = v)
    BY <1>0, <2>2, KeptStep
  <2> QED
    BY <1>4, <1>5, <2>1, <2>3
<1>9. Nowhere(c, i)'
  BY <1>7, <1>8 DEF Nowhere
<1> QED
  BY <1>1, <1>9

\* A handler that forgets what it would put back keeps nothing new.
LEMMA UndoForgotten ==
  ASSUME TasksOK, NEW c \in Coordinators, NEW l \in Lanes, NEW t, Step(c, l, t), IsTask(t),
         t.undo.via = NoVia, NEW q \in Peers, NEW d \in Coordinators, NEW i \in Invites,
         Kept(q, <<d, i>>)'
  PROVE  Kept(q, <<d, i>>)
<1>0. NoVia # <<d, i>>
  BY NoInviteIsNone DEF NoVia
<1>1. PICK v : v = <<d, i>>
  OBVIOUS
<1>2. Kept(q, v)'
  BY <1>1
<1>3. Kept(q, v) \/ (q = PeerOf[l] /\ t.undo.via = v)
  BY <1>2, KeptStep
<1> QED
  BY <1>0, <1>1, <1>3

LEMMA RollBackKeeps ==
  ASSUME AdmissionInv, UNCHANGED admins, NEW c \in admins, NEW l \in Lanes, RollBack(c, l)
  PROVE  AdmissionInv' /\ \E v : AddsAt(PeerOf[l], v)
<1>0. /\ c \in Coordinators /\ RostersOK /\ FlagsOK /\ TasksOK /\ LockHeld
      /\ IsRoster(live[c]) /\ IsTask(task[c][l]) /\ PeerOf[l] \in Peers
  BY Here1, TaskOK, LanesHavePeers DEF AdmissionInv, Shapes, Commits
<1>p. PICK p \in Peers : p = PeerOf[l]
  BY <1>0
<1>1. task[c][l].st = "rollback" /\ UNCHANGED <<admins, ledger, gossip, owed>>
  BY DEF RollBack
<1>2. PICK g, h :
        /\ RolledTo(c, l, g) /\ SeatedAgain(c, l, h)
        /\ \/ /\ SaveOK(c, g) /\ lock' = [lock EXCEPT ![c] = Nobody]
              /\ Step(c, l, [task[c][l] EXCEPT !.st = "undone", !.undo = NoUndo])
           \/ /\ SaveFails(c, g, h) /\ UNCHANGED lock
              /\ Step(c, l, [task[c][l] EXCEPT !.st = "retain", !.undo = NoUndo])
  BY <1>0, RollBackCases
<1>r. /\ c \in Coordinators /\ l \in Lanes /\ p \in Peers /\ p = PeerOf[l]
      /\ RolledTo(c, l, g) /\ SeatedAgain(c, l, h)
  BY <1>0, <1>p, <1>2
<1>3. IsRoster(g) /\ IsRoster(h)
  BY <1>2 DEF RolledTo, SeatedAgain
<1>4. From(c, g)
  <2>1. Reseats(g, live[c], p)
    BY <1>p, <1>2 DEF RolledTo
  <2>2. \/ g.via[p] \in {live[c].via[p], NoVia} \/ Kept(p, g.via[p])
    <3>1. Kept(p, task[c][l].undo.via)
      BY <1>0, <1>p DEF Kept
    <3> QED
      BY <1>p, <1>2, <3>1 DEF RolledTo
  <2> QED
    BY <2>1, <2>2, ReseatFrom
<1>v. /\ ViaOf(c, task[c][l]) = NoVia \/ ViaOf(c, task[c][l]) \in {c} \X Invites
      /\ \A d \in Coordinators, i \in Invites :
           ViaOf(c, task[c][l]) = <<d, i>> =>
             d = c /\ i = task[c][l].paid /\ task[c][l].paid # NoInvite
  <2>1. PICK t : t = task[c][l]
    OBVIOUS
  <2>2. IsTask(t)
    BY <1>0, <2>1
  <2>3. /\ ViaOf(c, t) = NoVia \/ ViaOf(c, t) \in {c} \X Invites
        /\ \A d \in Coordinators, i \in Invites :
             ViaOf(c, t) = <<d, i>> => d = c /\ i = t.paid /\ t.paid # NoInvite
    BY <1>0, <2>2, ViaFacts
  <2> QED
    BY <2>1, <2>3
<1>5. From(c, h)
  <2>1. Reseats(h, live[c], p)
    BY <1>p, <1>2 DEF SeatedAgain
  <2>2. h.via[p] \in {live[c].via[p], NoVia} \/ h.via[p] \in {c} \X Invites
    BY <1>p, <1>2, <1>v DEF SeatedAgain
  <2> QED
    BY <2>1, <2>2, ReseatFrom
<1>6. \A m \in Lanes \ {l} : task[c][m].st \notin {"rollback", "retain"}
  BY <1>0, <1>1, OneCommit
<1>7. ASSUME NEW k, Took(c, g, k), k = g \/ SeatedAgain(c, l, k)
      PROVE  \E v : AddsAt(p, v)
  <2>1. PICK v : /\ Mine(c, l) => v = task[c][l].undo.via
                 /\ ~Mine(c, l) => v = ViaOf(c, task[c][l])
    OBVIOUS
  <2>2. AddsAt(p, v)
    <3> SUFFICES ASSUME NEW d \in Coordinators, NEW i \in Invites, NEW q \in Peers,
                        Shown(q, <<d, i>>)', ~Shown(q, <<d, i>>)
                 PROVE  q = p /\ <<d, i>> = v
      BY DEF AddsAt
    <3>1. /\ q = p
          /\ \/ Mine(c, l) /\ <<d, i>> = task[c][l].undo.via
             \/ ~Mine(c, l) /\ k # g /\ <<d, i>> = ViaOf(c, task[c][l])
      <4>1. RollShows(c, l, p, g, k)
        BY <1>r, <1>7, RollBackShows
      <4> QED
        BY <4>1 DEF RollShows
    <3> QED
      BY <2>1, <3>1
  <2> QED
    BY <2>2
<1>8. CASE /\ SaveOK(c, g) /\ lock' = [lock EXCEPT ![c] = Nobody]
           /\ Step(c, l, [task[c][l] EXCEPT !.st = "undone", !.undo = NoUndo])
  <2>1. PICK t : t = [task[c][l] EXCEPT !.st = "undone", !.undo = NoUndo]
    OBVIOUS
  <2>2. /\ IsTask(t) /\ t.st = "undone" /\ t.paid = task[c][l].paid /\ t.undo = NoUndo
        /\ t.undo.via = NoVia
    BY <2>1, <1>0 DEF IsTask, Replying, NoUndo
  <2>3. /\ Step(c, l, t) /\ Took(c, g, g)
        /\ file'[c] = g /\ disk'[c] = g /\ record' = g
    BY <1>0, <1>8, <2>1, SaveOKTakes
  <2>4. DOMAIN lock' = Coordinators /\ \A d \in Coordinators \ {c} : lock'[d] = lock[d]
    BY <1>0, <1>8 DEF FlagsOK
  <2>5. t.st \notin {"rollback", "retain"}
    BY <2>2
  <2>6. Shapes' /\ Commits' /\ Saves'
    BY <1>0, <1>1, <1>3, <1>4, <1>6, <2>2, <2>3, <2>4, <2>5, CommitStep
  <2>7. AddsOnly(c, l)
    <3> SUFFICES ASSUME NEW d \in Coordinators, NEW i \in Invites, NEW q \in Peers,
                        Shown(q, <<d, i>>)' \/ Kept(q, <<d, i>>)'
                 PROVE  Shown(q, <<d, i>>) \/ Kept(q, <<d, i>>)
      BY DEF AddsOnly
    <3>1. CASE Shown(q, <<d, i>>)' /\ ~Shown(q, <<d, i>>)
      <4>1. /\ q = p
            /\ \/ Mine(c, l) /\ <<d, i>> = task[c][l].undo.via
               \/ ~Mine(c, l) /\ g # g /\ <<d, i>> = ViaOf(c, task[c][l])
        <5>1. RollShows(c, l, p, g, g)
          BY <1>r, <2>3, RollBackShows
        <5> QED
          BY <3>1, <5>1 DEF RollShows
      <4> QED
        BY <1>0, <1>p, <4>1 DEF Kept
    <3>2. CASE Kept(q, <<d, i>>)'
      <4>1. Step(c, l, t) /\ IsTask(t) /\ t.undo.via = NoVia /\ TasksOK
        BY <1>0, <2>2, <2>3
      <4> QED
        BY <1>0, <3>2, <4>1, UndoForgotten
    <3> QED
      BY <3>1, <3>2
  <2>8. t.paid # NoInvite => Nowhere(c, t.paid)'
    BY <1>0, <1>1, <1>2, <2>2, <2>3, UndoneNowhere
  <2>9. Uses'
    BY <1>0, <1>1, <2>2, <2>3, <2>7, <2>8, CommitUses
  <2>10. \E v : AddsAt(p, v)
    BY <1>7, <2>3
  <2> QED
    BY <1>p, <2>6, <2>9, <2>10 DEF AdmissionInv
<1>9. CASE /\ SaveFails(c, g, h) /\ UNCHANGED lock
           /\ Step(c, l, [task[c][l] EXCEPT !.st = "retain", !.undo = NoUndo])
  <2>1. PICK t : t = [task[c][l] EXCEPT !.st = "retain", !.undo = NoUndo]
    OBVIOUS
  <2>2. /\ IsTask(t) /\ t.st = "retain" /\ t.paid = task[c][l].paid /\ t.undo = NoUndo
        /\ t.undo.via = NoVia /\ t.name = task[c][l].name /\ t.name # Out
    BY <2>1, <1>0, <1>1 DEF IsTask, Replying, NoUndo
  <2>3. Step(c, l, t) /\ Took(c, g, h)
    BY <1>0, <1>9, <2>1, SaveFailsTakes
  <2>4. /\ DOMAIN lock' = Coordinators /\ \A d \in Coordinators \ {c} : lock'[d] = lock[d]
        /\ lock'[c] = l
    BY <1>0, <1>1, <1>9 DEF FlagsOK, LockHeld
  <2>5. t.st # "rollback" /\ t.st \in Seating /\ PeerOf[l] \in Seated(h)
    BY <1>0, <1>2, <2>2 DEF Seating, Seated, SeatedAgain
  <2>6. Shapes' /\ Commits' /\ Saves'
    BY <1>0, <1>1, <1>3, <1>4, <1>5, <1>6, <2>2, <2>3, <2>4, <2>5, CommitStep
  <2>7. AddsOnly(c, l)
    <3>0. task'[c][l] = t
      BY <1>0, <2>2, <2>3, StepFacts
    <3> SUFFICES ASSUME NEW d \in Coordinators, NEW i \in Invites, NEW q \in Peers,
                        Shown(q, <<d, i>>)' \/ Kept(q, <<d, i>>)',
                        ~Shown(q, <<d, i>>), ~Kept(q, <<d, i>>)
                 PROVE  q = p /\ d = c /\ i = task[c][l].paid
      BY <1>p, <2>2, <2>5, <3>0 DEF AddsOnly
    <3>1. Shown(q, <<d, i>>)'
      <4>1. Step(c, l, t) /\ IsTask(t) /\ t.undo.via = NoVia /\ TasksOK
        BY <1>0, <2>2, <2>3
      <4> QED
        BY <1>0, <4>1, UndoForgotten
    <3>2. /\ q = p
          /\ \/ Mine(c, l) /\ <<d, i>> = task[c][l].undo.via
             \/ ~Mine(c, l) /\ h # g /\ <<d, i>> = ViaOf(c, task[c][l])
      <4>1. RollShows(c, l, p, g, h)
        BY <1>r, <2>3, RollBackShows
      <4> QED
        BY <3>1, <4>1 DEF RollShows
    <3>3. <<d, i>> # task[c][l].undo.via
      BY <1>0, <1>p, <3>2 DEF Kept
    <3> QED
      BY <1>v, <3>2, <3>3
  <2>8. Uses'
    BY <1>0, <1>1, <2>2, <2>3, <2>5, <2>7, CommitUses
  <2>9. \E v : AddsAt(p, v)
    BY <1>2, <1>7, <2>3
  <2> QED
    BY <1>p, <2>6, <2>8, <2>9 DEF AdmissionInv
<1> QED
  BY <1>2, <1>8, <1>9

-----------------------------------------------------------------------------
(* A step of the system writes at most one entry of a ledger, or seats at   *)
(* most one peer, and never both.                                            *)

MovesEntry(c, i, e) ==
  \/ e.st = ledger[c][i].st /\ e.by = ledger[c][i].by
  \/ ledger[c][i].st = "absent" /\ e.st = "pending" /\ e.by = Nobody
  \/ ledger[c][i].st = "pending" /\ e.st = "redeemed" /\ e.by \in Peers \cup {Nobody}
  \/ ledger[c][i].st = "pending" /\ e.st = "revoked" /\ e.by = Nobody
  \/ ledger[c][i].st = "redeemed" /\ e.st = "pending" /\ e.by = Nobody /\ Nowhere(c, i)

LedgerMoves ==
  /\ UNCHANGED <<live, file, disk, record>>
  /\ \E c \in Coordinators, i \in Invites :
       \E e : IsEntry(e) /\ Writes(c, i, e) /\ MovesEntry(c, i, e)

SeatMoves == UNCHANGED ledger /\ (NothingNew \/ \E p \in Peers : \E v : AddsAt(p, v))

LEMMA QuietMoves ==
  ASSUME UNCHANGED <<rosters, record, ledger>>
  PROVE  SeatMoves
<1>1. NothingNew
  BY DEF rosters, NothingNew, Shown
<1> QED
  BY <1>1 DEF SeatMoves

LEMMA CreateMoves ==
  ASSUME AdmissionInv, NEW c \in admins, NEW i \in Invites, InviteCreate(c, i)
  PROVE  LedgerMoves
<1>0. c \in Coordinators
  BY DEF AdmissionInv, Shapes, FlagsOK
<1>1. PICK e : e = Entry("pending", Nobody, Bound[i])
  OBVIOUS
<1>2. IsEntry(e) /\ e.st = "pending" /\ e.by = Nobody
  BY <1>1, EntryFacts, SMTT(30)
<1>3. Writes(c, i, e) /\ UNCHANGED <<live, file, disk, record>>
  BY <1>1 DEF Writes, InviteCreate, rosters, others
<1>4. MovesEntry(c, i, e)
  BY <1>0, <1>2 DEF MovesEntry, InviteCreate
<1> QED
  BY <1>0, <1>2, <1>3, <1>4 DEF LedgerMoves

LEMMA RevokeMoves ==
  ASSUME AdmissionInv, NEW c \in admins, NEW i \in Invites, InviteRevoke(c, i)
  PROVE  LedgerMoves
<1>0. c \in Coordinators
  BY DEF AdmissionInv, Shapes, FlagsOK
<1>1. PICK e : e = Entry("revoked", Nobody, ledger[c][i].host)
  OBVIOUS
<1>2. IsEntry(e) /\ e.st = "revoked" /\ e.by = Nobody
  BY <1>1, EntryFacts, SMTT(30)
<1>3. Writes(c, i, e) /\ UNCHANGED <<live, file, disk, record>>
  BY <1>1 DEF Writes, InviteRevoke, rosters, others
<1>4. MovesEntry(c, i, e)
  BY <1>2 DEF MovesEntry, InviteRevoke
<1> QED
  BY <1>0, <1>2, <1>3, <1>4 DEF LedgerMoves

LEMMA GossipMoves ==
  ASSUME AdmissionInv, NEW m \in gossip, HandleGossip(m)
  PROVE  LedgerMoves
<1>0. m.to \in Coordinators /\ m.inv \in Invites /\ LedgersOK
  BY DEF AdmissionInv, Shapes, LedgersOK
<1>c. PICK c \in Coordinators, i \in Invites : c = m.to /\ i = m.inv
  BY <1>0
<1>1. PICK e :
        e = CASE m.kind = "share" /\ ledger[c][i].st = "absent" -> Entry("pending", Nobody, NoName)
              [] m.kind = "used" /\ ledger[c][i].st = "pending" ->
                   Entry("redeemed", Nobody, ledger[c][i].host)
              [] OTHER -> ledger[c][i]
  OBVIOUS
<1>i. IsEntry(ledger[c][i])
  BY <1>0 DEF LedgersOK
<1>2. \/ e = ledger[c][i]
      \/ ledger[c][i].st = "absent" /\ e = Entry("pending", Nobody, NoName)
      \/ ledger[c][i].st = "pending" /\ e = Entry("redeemed", Nobody, ledger[c][i].host)
  BY <1>1
<1>3. IsEntry(e) /\ MovesEntry(c, i, e)
  <2>1. CASE e = ledger[c][i]
    BY <2>1, <1>i DEF MovesEntry
  <2>2. CASE ledger[c][i].st = "absent" /\ e = Entry("pending", Nobody, NoName)
    <3>1. IsEntry(e) /\ e.st = "pending" /\ e.by = Nobody
      BY <2>2, EntryFacts, SMTT(30)
    <3> QED
      BY <2>2, <3>1 DEF MovesEntry
  <2>3. CASE ledger[c][i].st = "pending" /\ e = Entry("redeemed", Nobody, ledger[c][i].host)
    <3>1. IsEntry(e) /\ e.st = "redeemed" /\ e.by = Nobody
      BY <2>3, EntryFacts, SMTT(30)
    <3> QED
      BY <2>3, <3>1 DEF MovesEntry
  <2> QED
    BY <1>2, <2>1, <2>2, <2>3
<1>4. Writes(c, i, e) /\ UNCHANGED <<live, file, disk, record>>
  BY <1>1, <1>c DEF HandleGossip, Writes, rosters, others
<1> QED
  BY <1>3, <1>4 DEF LedgerMoves

LEMMA RedeemMoves ==
  ASSUME AdmissionInv, UNCHANGED <<rosters, record>>,
         NEW c \in Coordinators, NEW l \in Lanes, RedeemInvite(c, l)
  PROVE  LedgerMoves \/ SeatMoves
<1>0. PICK i \in Invites : i = task[c][l].secret /\ ledger[c][i].st = "pending"
  BY DEF RedeemInvite, Redeemable
<1>1. PICK e : e = Entry("redeemed", PeerOf[l], ledger[c][i].host)
  OBVIOUS
<1>2. IsEntry(e) /\ e.st = "redeemed" /\ e.by = PeerOf[l] /\ PeerOf[l] \in Peers
  BY <1>1, EntryFacts, LanesHavePeers, SMTT(30)
<1>3. Writes(c, i, e) \/ ledger' = ledger
  BY <1>0, <1>1 DEF RedeemInvite, Writes
<1>4. MovesEntry(c, i, e)
  BY <1>0, <1>2 DEF MovesEntry
<1>5. CASE Writes(c, i, e)
  BY <1>2, <1>4, <1>5 DEF LedgerMoves, rosters
<1>6. CASE ledger' = ledger
  BY <1>6, QuietMoves
<1> QED
  BY <1>3, <1>5, <1>6

LEMMA RestoreMoves ==
  ASSUME AdmissionInv, NEW c \in Coordinators, NEW l \in Lanes, RestoreInvite(c, l)
  PROVE  LedgerMoves \/ SeatMoves
<1>0. IsTask(task[c][l]) /\ task[c][l].st = "restore"
  BY TaskOK DEF RestoreInvite
<1>i. PICK i \in Invites : task[c][l].paid = i /\ i # NoInvite
  BY <1>0 DEF IsTask
<1>1. UNCHANGED <<rosters, record>>
  BY DEF RestoreInvite
<1>2. PICK e : e = Entry("pending", Nobody, ledger[c][i].host)
  OBVIOUS
<1>3. IsEntry(e) /\ e.st = "pending" /\ e.by = Nobody
  BY <1>2, EntryFacts, SMTT(30)
<1>4. \/ Writes(c, i, e) /\ ledger[c][i].st = "redeemed"
      \/ ledger' = ledger
  BY <1>2, <1>i DEF RestoreInvite, Writes
<1>5. Nowhere(c, i)
  BY <1>0, <1>i DEF AdmissionInv, Uses, NotSeatedYet, Seating, Nowhere
<1>6. CASE Writes(c, i, e) /\ ledger[c][i].st = "redeemed"
  <2>1. MovesEntry(c, i, e)
    BY <1>3, <1>5, <1>6 DEF MovesEntry
  <2> QED
    BY <1>1, <1>3, <1>6, <2>1 DEF LedgerMoves, rosters
<1>7. CASE ledger' = ledger
  BY <1>1, <1>7, QuietMoves
<1> QED
  BY <1>4, <1>6, <1>7

LEMMA HandlerStep ==
  ASSUME AdmissionInv, UNCHANGED admins, NEW c \in admins, NEW l \in Lanes, Handler(c, l)
  PROVE  AdmissionInv' /\ (LedgerMoves \/ SeatMoves)
<1>0. c \in Coordinators /\ PeerOf[l] \in Peers
  BY LanesHavePeers DEF AdmissionInv, Shapes, FlagsOK
<1>1. CASE Handle(c, l)
  <2>1. AdmissionInv'
    BY <1>0, <1>1, HandleKeeps
  <2>2. UNCHANGED <<rosters, record>>
    BY <1>1 DEF Handle
  <2>3. RedeemInvite(c, l) \/ UNCHANGED ledger
    BY <1>1 DEF Handle, HandleMember, HandleApproved, RedeemKey, AdmitDirectly
  <2> QED
    BY <1>0, <2>1, <2>2, <2>3, RedeemMoves, QuietMoves
<1>2. CASE CommitAdmission(c, l)
  <2>1. AdmissionInv' /\ AddsAt(PeerOf[l], ViaOf(c, task[c][l]))
    BY <1>2, CommitKeeps
  <2>2. UNCHANGED ledger
    BY <1>2 DEF CommitAdmission
  <2> QED
    BY <1>0, <2>1, <2>2 DEF SeatMoves
<1>3. CASE RollBack(c, l)
  <2>1. AdmissionInv' /\ \E v : AddsAt(PeerOf[l], v)
    BY <1>3, RollBackKeeps
  <2>2. UNCHANGED ledger
    BY <1>3 DEF RollBack
  <2> QED
    BY <1>0, <2>1, <2>2 DEF SeatMoves
<1>4. CASE Retain(c, l)
  <2>1. AdmissionInv' /\ NothingNew
    BY <1>4, RetainKeeps
  <2>2. UNCHANGED ledger
    BY <1>4 DEF Retain
  <2> QED
    BY <2>1, <2>2 DEF SeatMoves
<1>5. CASE Reply(c, l)
  <2>1. AdmissionInv'
    BY <1>0, <1>5, ReplyKeeps
  <2>2. UNCHANGED <<rosters, record, ledger>>
    BY <1>5 DEF Reply
  <2> QED
    BY <2>1, <2>2, QuietMoves
<1>6. CASE RestoreInvite(c, l)
  BY <1>0, <1>6, RestoreKeeps, RestoreMoves
<1>7. CASE Rename(c, l)
  <2>1. AdmissionInv' /\ NothingNew
    BY <1>7, RenameKeeps
  <2>2. UNCHANGED ledger
    BY <1>7 DEF Rename
  <2> QED
    BY <2>1, <2>2 DEF SeatMoves
<1> QED
  BY <1>1, <1>2, <1>3, <1>4, <1>5, <1>6, <1>7 DEF Handler

LEMMA LedgersStep ==
  ASSUME AdmissionInv, UNCHANGED admins, Ledgers
  PROVE  AdmissionInv' /\ (LedgerMoves \/ SeatMoves)
<1>1. CASE \E c \in admins, i \in Invites : InviteCreate(c, i) \/ InviteRevoke(c, i)
  BY <1>1, CreateKeeps, RevokeKeeps, CreateMoves, RevokeMoves
<1>2. CASE \E m \in gossip : HandleGossip(m)
  BY <1>2, GossipKeeps, GossipMoves
<1>3. CASE \E i \in Secrets : Expire(i)
  <2>1. UNCHANGED <<rosters, owed, lock, task, record, ledger, gossip>>
    BY <1>3 DEF Expire, others
  <2> QED
    BY <2>1, QuietKeeps, QuietMoves
<1>4. CASE \E c \in admins, k \in Keys : ReusableKeyCreate(c, k) \/ RevokeReusable(c, k)
  <2>1. AdmissionInv' /\ NothingNew
    BY <1>4, KeyEditKeeps
  <2>2. UNCHANGED ledger
    BY <1>4 DEF ReusableKeyCreate, RevokeReusable
  <2> QED
    BY <2>1, <2>2 DEF SeatMoves
<1> QED
  BY <1>1, <1>2, <1>3, <1>4 DEF Ledgers

LEMMA OperatorStep ==
  ASSUME AdmissionInv, UNCHANGED admins, NEW c \in admins, Operator(c)
  PROVE  AdmissionInv' /\ (LedgerMoves \/ SeatMoves)
<1>1. CASE \E p \in Peers : DenyRequest(c, p)
  <2>1. UNCHANGED <<rosters, owed, lock, task, record, ledger, gossip>>
    BY <1>1 DEF DenyRequest
  <2> QED
    BY <2>1, QuietKeeps, QuietMoves
<1>2. CASE \/ \E p \in Peers : AcceptRequest(c, p) \/ KickMember(c, p)
           \/ SaveOwed(c) \/ RetryDurable(c) \/ Reconverge(c) \/ Restart(c)
  <2>1. AdmissionInv' /\ NothingNew
    BY <1>2, AcceptKeeps, KickKeeps, SaveOwedKeeps, RetryKeeps, ReconvergeKeeps, RestartKeeps
  <2>2. UNCHANGED ledger
    BY <1>2 DEF AcceptRequest, KickMember, SaveOwed, RetryDurable, Reconverge, Restart
  <2> QED
    BY <2>1, <2>2 DEF SeatMoves
<1> QED
  BY <1>1, <1>2 DEF Operator

LEMMA JoinerStep ==
  ASSUME AdmissionInv, UNCHANGED admins, NEW p \in Peers, Joiner(p)
  PROVE  AdmissionInv' /\ (LedgerMoves \/ SeatMoves)
<1>1. UNCHANGED <<rosters, owed, lock, record, ledger, gossip>>
  BY DEF Joiner, JoinNetwork, Ask, AnswerTimesOut, EndRound, LeaveRemoved, joiner
<1>2. SeatMoves
  BY <1>1, QuietMoves
<1>3. CASE \E c \in admins : Ask(p, c)
  BY <1>2, <1>3, AskKeeps
<1>4. CASE UNCHANGED task
  BY <1>1, <1>2, <1>4, QuietKeeps
<1> QED
  BY <1>3, <1>4 DEF Joiner, JoinNetwork, AnswerTimesOut, EndRound, LeaveRemoved

LEMMA SystemStep ==
  ASSUME AdmissionInv, [Next]_vars
  PROVE  AdmissionInv' /\ (LedgerMoves \/ SeatMoves)
<1>1. CASE UNCHANGED vars
  <2>1. UNCHANGED <<admins, rosters, owed, lock, task, record, ledger, gossip>>
    BY <1>1 DEF vars, rosters
  <2> QED
    BY <2>1, QuietKeeps, QuietMoves
<1>2. CASE Next
  BY <1>2, HandlerStep, LedgersStep, OperatorStep, JoinerStep DEF Next
<1> QED
  BY <1>1, <1>2

LEMMA InitKeeps ==
  ASSUME Init
  PROVE  AdmissionInv
<1>1. IsRoster(EmptyRoster) /\ \A p \in Peers : EmptyRoster.via[p] = NoVia
  BY DEF IsRoster, EmptyRoster
<1>2. /\ IsTask(Idle) /\ Idle.st = "idle" /\ Idle.paid = NoInvite /\ Idle.undo.via = NoVia
  <2>1. IsTask(Idle) /\ Idle.st = "idle" /\ Idle.paid = NoInvite /\ Idle.undo = NoUndo
    BY DEF IsTask, Idle, Replying
  <2>2. NoUndo.via = NoVia
    BY DEF NoUndo
  <2> QED
    BY <2>1, <2>2
<1>3. IsEntry(Entry("absent", Nobody, NoName))
  BY EntryFacts
<1>4. RostersOK
  BY <1>1 DEF Init, RostersOK
<1>5. TasksOK /\ \A c \in Coordinators, l \in Lanes : task[c][l] = Idle
  BY <1>2 DEF Init, TasksOK
<1>6. LedgersOK
  BY <1>3 DEF Init, LedgersOK
<1>7. FlagsOK
  BY AdminsAreCoordinators DEF Init, FlagsOK
<1>8. \A c \in Coordinators, i \in Invites, p \in Peers :
        ~Shown(p, <<c, i>>) /\ ~Kept(p, <<c, i>>)
  <2> TAKE c \in Coordinators, i \in Invites, p \in Peers
  <2>1. NoVia # <<c, i>>
    BY NoInviteIsNone DEF NoVia
  <2>2. ~Shown(p, <<c, i>>)
    <3>1. /\ \A d \in Coordinators :
               live[d] = EmptyRoster /\ file[d] = EmptyRoster /\ disk[d] = EmptyRoster
          /\ record = EmptyRoster
      BY DEF Init
    <3>2. /\ \A d \in Coordinators :
               live[d].via[p] = NoVia /\ file[d].via[p] = NoVia /\ disk[d].via[p] = NoVia
          /\ record.via[p] = NoVia
      BY <1>1, <3>1
    <3> QED
      BY <2>1, <3>2 DEF Shown
  <2>3. ~Kept(p, <<c, i>>)
    BY <1>2, <1>5, <2>1 DEF Kept
  <2> QED
    BY <2>2, <2>3
<1>9. \A c \in Coordinators, l \in Lanes : task[c][l].st = "idle" /\ task[c][l].paid = NoInvite
  BY <1>2, <1>5
<1>10. Uses
  BY <1>8, <1>9 DEF Uses, SeatsPaid, HandlersPaid, PaidApart, NotSeatedYet
<1>11. Commits
  BY <1>9 DEF Commits, LockHeld, TentativeAlone
<1>12. Saves
  BY <1>9 DEF Saves, Retained, SureSaved, Init
<1> QED
  BY <1>4, <1>5, <1>6, <1>7, <1>10, <1>11, <1>12 DEF AdmissionInv, Shapes

\* Of every reachable state: an invite seats only who redeemed it, an admission under
\* way alone holds the invite it burned, what an unfinished commit_admission tries to
\* save is in no roster but the one it is saving, and a roster known to be saved is on
\* disk.
THEOREM AdmissionSafe == Spec => []AdmissionInv
<1>1. Init => AdmissionInv
  BY InitKeeps
<1>2. AdmissionInv /\ [Next]_vars => AdmissionInv'
  BY SystemStep
<1> QED
  BY <1>1, <1>2, PTL DEF Spec

-----------------------------------------------------------------------------
(* The refinement of InviteUse. *)

LedgerStatus == [ci \in Coordinators \X Invites |-> ledger[ci[1]][ci[2]].st]
LedgerBy == [ci \in Coordinators \X Invites |-> ledger[ci[1]][ci[2]].by]
LedgerSeats == [ci \in Coordinators \X Invites |-> Seats(ci[1], ci[2])]

\* A peer has a seat for an invite when a roster shows it.
LEMMA SeatsAreShown ==
  ASSUME NEW c \in Coordinators, NEW i \in Invites
  PROVE  /\ LedgerSeats[<<c, i>>] = {p \in Peers : Shown(p, <<c, i>>)}
         /\ LedgerStatus[<<c, i>>] = ledger[c][i].st /\ LedgerBy[<<c, i>>] = ledger[c][i].by
<1>1. /\ LedgerSeats[<<c, i>>] = Seats(c, i)
      /\ LedgerStatus[<<c, i>>] = ledger[c][i].st /\ LedgerBy[<<c, i>>] = ledger[c][i].by
  BY DEF LedgerSeats, LedgerStatus, LedgerBy
<1>2. \A p, v : (\E g \in Held : g.via[p] = v) <=> Shown(p, v)
  BY DEF Held, Shown
<1>3. Seats(c, i) = {p \in Peers : Shown(p, <<c, i>>)}
  BY <1>2 DEF Seats
<1> QED
  BY <1>1, <1>3

LEMMA SeatsAreShownAfter ==
  ASSUME NEW c \in Coordinators, NEW i \in Invites
  PROVE  LedgerSeats'[<<c, i>>] = {p \in Peers : Shown(p, <<c, i>>)'}
<1>1. LedgerSeats'[<<c, i>>] = Seats(c, i)'
  BY DEF LedgerSeats
<1>2. \A p, v : (\E g \in Held' : g.via[p] = v) <=> Shown(p, v)'
  BY DEF Held, Shown
<1>3. Seats(c, i)' = {p \in Peers : Shown(p, <<c, i>>)'}
  BY <1>2 DEF Seats
<1> QED
  BY <1>1, <1>3

LEMMA Pairs ==
  ASSUME NEW x \in Coordinators \X Invites
  PROVE  x = <<x[1], x[2]>> /\ x[1] \in Coordinators /\ x[2] \in Invites
  BY SMTT(30)

LEMMA InitRefines ==
  ASSUME Init
  PROVE  Ledger!Init
<1>0. AdmissionInv
  BY InitKeeps
<1>1. LedgerStatus = [x \in Coordinators \X Invites |-> "absent"]
  BY DEF LedgerStatus, Init, Entry
<1>2. LedgerBy = [x \in Coordinators \X Invites |-> Nobody]
  BY DEF LedgerBy, Init, Entry
<1>3. LedgerSeats = [x \in Coordinators \X Invites |-> {}]
  <2>1. ASSUME NEW x \in Coordinators \X Invites
        PROVE  Seats(x[1], x[2]) = {}
    <3>1. PICK c \in Coordinators, i \in Invites : c = x[1] /\ i = x[2]
      BY Pairs
    <3>2. LedgerSeats[<<c, i>>] = {p \in Peers : Shown(p, <<c, i>>)}
      BY SeatsAreShown
    <3>3. ledger[c][i].st = "absent"
      BY DEF Init, Entry
    <3>4. \A p \in Peers : ~Shown(p, <<c, i>>)
      BY <1>0, <3>3 DEF AdmissionInv, Uses, SeatsPaid, SpentBy
    <3>5. LedgerSeats[<<c, i>>] = Seats(c, i)
      BY DEF LedgerSeats
    <3> QED
      BY <3>1, <3>2, <3>4, <3>5
  <2> QED
    BY <2>1 DEF LedgerSeats
<1> QED
  BY <1>1, <1>2, <1>3 DEF Ledger!Init, LedgerStatus, LedgerBy, LedgerSeats

\* Steps on the rosters.
LEMMA SeatRefines ==
  ASSUME AdmissionInv, AdmissionInv', SeatMoves
  PROVE  Ledger!Next
<1>0. LedgerStatus' = LedgerStatus /\ LedgerBy' = LedgerBy
  BY DEF SeatMoves, LedgerStatus, LedgerBy
<1>1. LedgerSeats' \in [Coordinators \X Invites -> SUBSET Peers]
  BY DEF LedgerSeats, Seats
<1>2. CASE NothingNew
  <2>1. ASSUME NEW x \in Coordinators \X Invites
        PROVE  LedgerSeats'[x] \subseteq LedgerSeats[x]
    <3>1. PICK c \in Coordinators, i \in Invites : x = <<c, i>>
      BY Pairs
    <3>2. \A p \in Peers : Shown(p, <<c, i>>)' => Shown(p, <<c, i>>)
      BY <1>2 DEF NothingNew
    <3> QED
      BY <3>1, <3>2, SeatsAreShown, SeatsAreShownAfter
  <2>2. \E f \in [Coordinators \X Invites -> SUBSET Peers] :
          /\ \A x \in Coordinators \X Invites : f[x] \subseteq LedgerSeats[x]
          /\ LedgerSeats' = f
    BY <1>1, <2>1
  <2>3. Ledger!Unseat
    BY <1>0, <2>2 DEF Ledger!Unseat, LedgerStatus, LedgerBy, LedgerSeats
  <2> QED
    BY <2>3 DEF Ledger!Next
<1>3. CASE ~NothingNew
  <2>1. PICK p \in Peers : \E w : AddsAt(p, w)
    BY <1>3 DEF SeatMoves
  <2>2. PICK w : AddsAt(p, w)
    BY <2>1
  <2>3. PICK c \in Coordinators, i \in Invites, q \in Peers :
          Shown(q, <<c, i>>)' /\ ~Shown(q, <<c, i>>)
    BY <1>3 DEF NothingNew
  <2>4. q = p /\ w = <<c, i>>
    BY <2>2, <2>3 DEF AddsAt
  <2>5. SpentBy(c, i, p)'
    BY <2>3, <2>4 DEF AdmissionInv, Uses, SeatsPaid
  <2>6. ledger[c][i].st = "redeemed" /\ ledger[c][i].by = p
    BY <2>5 DEF SpentBy, SeatMoves
  <2>7. LedgerStatus[<<c, i>>] = "redeemed" /\ LedgerBy[<<c, i>>] = p
    BY <2>6, SeatsAreShown
  <2>8. p # Nobody
    BY NobodyIsNoPeer
  <2>9. LedgerSeats'[<<c, i>>] \subseteq LedgerSeats[<<c, i>>] \cup {p}
    <3>1. \A r \in Peers : Shown(r, <<c, i>>)' => Shown(r, <<c, i>>) \/ r = p
      BY <2>2 DEF AddsAt
    <3> QED
      BY <3>1, SeatsAreShown, SeatsAreShownAfter
  <2>10. ASSUME NEW x \in (Coordinators \X Invites) \ {<<c, i>>}
         PROVE  LedgerSeats'[x] \subseteq LedgerSeats[x]
    <3>1. PICK d \in Coordinators, j \in Invites : x = <<d, j>>
      BY Pairs
    <3>2. \A r \in Peers : Shown(r, <<d, j>>)' => Shown(r, <<d, j>>)
      BY <2>2, <2>4, <3>1 DEF AddsAt
    <3> QED
      BY <3>1, <3>2, SeatsAreShown, SeatsAreShownAfter
  <2>11. PICK z : z = <<c, i>>
    OBVIOUS
  <2>12. z \in Coordinators \X Invites
    BY <2>11
  <2>13. \E f \in [Coordinators \X Invites -> SUBSET Peers] :
           /\ f[z] \subseteq LedgerSeats[z] \cup {LedgerBy[z]}
           /\ \A x \in (Coordinators \X Invites) \ {z} : f[x] \subseteq LedgerSeats[x]
           /\ LedgerSeats' = f
    BY <1>1, <2>7, <2>9, <2>10, <2>11
  <2>14. LedgerStatus[z] = "redeemed" /\ LedgerBy[z] # Nobody
    BY <2>7, <2>8, <2>11
  <2>15. Ledger!Seat(z)
    BY <1>0, <2>13, <2>14 DEF Ledger!Seat, LedgerStatus, LedgerBy, LedgerSeats
  <2> QED
    BY <2>12, <2>15 DEF Ledger!Next
<1> QED
  BY <1>2, <1>3

\* Steps on the ledgers.
LEMMA LedgerRefines ==
  ASSUME AdmissionInv, LedgerMoves
  PROVE  Ledger!Next \/ UNCHANGED <<LedgerStatus, LedgerBy, LedgerSeats>>
<1>0. PICK c \in Coordinators, i \in Invites :
        \E e : IsEntry(e) /\ Writes(c, i, e) /\ MovesEntry(c, i, e)
  BY DEF LedgerMoves
<1>1. PICK e : IsEntry(e) /\ Writes(c, i, e) /\ MovesEntry(c, i, e)
  BY <1>0
<1>2. LedgersOK
  BY DEF AdmissionInv, Shapes
<1>3. /\ ledger'[c][i] = e
      /\ \A d \in Coordinators, j \in Invites : d # c \/ j # i => ledger'[d][j] = ledger[d][j]
  BY <1>1, <1>2, LedgerUpdate
<1>z. PICK z : z = <<c, i>>
  OBVIOUS
<1>4. /\ z \in Coordinators \X Invites
      /\ LedgerStatus[z] = ledger[c][i].st /\ LedgerBy[z] = ledger[c][i].by
      /\ LedgerSeats[z] = {p \in Peers : Shown(p, <<c, i>>)}
  BY <1>z, SeatsAreShown
<1>x. ASSUME NEW x \in Coordinators \X Invites
      PROVE  ledger'[x[1]][x[2]] = IF x = z THEN e ELSE ledger[x[1]][x[2]]
  BY <1>3, <1>z, SMTT(30)
<1>5. LedgerStatus' = [LedgerStatus EXCEPT ![z] = e.st]
  <2>1. ASSUME NEW x \in Coordinators \X Invites
        PROVE  ledger'[x[1]][x[2]].st = [LedgerStatus EXCEPT ![z] = e.st][x]
    <3>1. CASE x = z
      BY <1>x, <3>1 DEF LedgerStatus
    <3>2. CASE x # z
      BY <1>x, <3>2 DEF LedgerStatus
    <3> QED
      BY <3>1, <3>2
  <2> QED
    BY <2>1 DEF LedgerStatus
<1>6. LedgerBy' = [LedgerBy EXCEPT ![z] = e.by]
  <2>1. ASSUME NEW x \in Coordinators \X Invites
        PROVE  ledger'[x[1]][x[2]].by = [LedgerBy EXCEPT ![z] = e.by][x]
    <3>1. CASE x = z
      BY <1>x, <3>1 DEF LedgerBy
    <3>2. CASE x # z
      BY <1>x, <3>2 DEF LedgerBy
    <3> QED
      BY <3>1, <3>2
  <2> QED
    BY <2>1 DEF LedgerBy
<1>7. LedgerSeats' = LedgerSeats
  <2>1. Held' = Held
    BY DEF LedgerMoves, Held
  <2>2. \A d, j : Seats(d, j)' = Seats(d, j)
    BY <2>1 DEF Seats
  <2> QED
    BY <2>2 DEF LedgerSeats
<1>8. ASSUME NEW s, NEW t, NEW b, ledger[c][i].st = s, e.st = t, e.by = b
      PROVE  Ledger!Moves(z, s, t, b)
  <2>1. LedgerStatus[z] = s /\ LedgerStatus' = [LedgerStatus EXCEPT ![z] = t]
    BY <1>4, <1>5, <1>8
  <2>2. LedgerBy' = [LedgerBy EXCEPT ![z] = b]
    BY <1>6, <1>8
  <2> QED
    BY <1>7, <2>1, <2>2 DEF Ledger!Moves, LedgerStatus, LedgerBy, LedgerSeats
<1>9. CASE e.st = ledger[c][i].st /\ e.by = ledger[c][i].by
  <2>1. LedgerStatus' = LedgerStatus /\ LedgerBy' = LedgerBy
    <3>1. LedgerStatus' = [LedgerStatus EXCEPT ![z] = @] /\ LedgerBy' = [LedgerBy EXCEPT ![z] = @]
      BY <1>4, <1>5, <1>6, <1>9
    <3> QED
      BY <3>1 DEF LedgerStatus, LedgerBy
  <2> QED
    BY <1>7, <2>1
<1>10. CASE ledger[c][i].st = "absent" /\ e.st = "pending" /\ e.by = Nobody
  <2>1. Ledger!Learn(z)
    BY <1>8, <1>10 DEF Ledger!Learn
  <2> QED
    BY <1>4, <2>1 DEF Ledger!Next
<1>11. CASE ledger[c][i].st = "pending" /\ e.st = "redeemed" /\ e.by \in Peers \cup {Nobody}
  <2>1. Ledger!Spend(z)
    BY <1>8, <1>11 DEF Ledger!Spend
  <2> QED
    BY <1>4, <2>1 DEF Ledger!Next
<1>12. CASE ledger[c][i].st = "pending" /\ e.st = "revoked" /\ e.by = Nobody
  <2>1. Ledger!Revoke(z)
    BY <1>8, <1>12 DEF Ledger!Revoke
  <2> QED
    BY <1>4, <2>1 DEF Ledger!Next
<1>13. CASE /\ ledger[c][i].st = "redeemed" /\ e.st = "pending" /\ e.by = Nobody
            /\ Nowhere(c, i)
  <2>1. LedgerSeats[z] = {}
    BY <1>4, <1>13 DEF Nowhere
  <2>2. Ledger!Moves(z, "redeemed", "pending", Nobody)
    BY <1>8, <1>13
  <2>3. Ledger!GiveBack(z)
    BY <2>1, <2>2 DEF Ledger!GiveBack, LedgerSeats
  <2> QED
    BY <1>4, <2>3 DEF Ledger!Next
<1> QED
  BY <1>1, <1>9, <1>10, <1>11, <1>12, <1>13 DEF MovesEntry

\* The ledgers, with the rosters their redemptions led to, implement InviteUse: across
\* coordinators, lost and late gossip, failed saves, rollbacks and restarts, an invite
\* seats its redeemer and nobody else, and restore_invite gives back only an invite that
\* no roster shows a seat for.
THEOREM LedgersSafe == Spec => LedgersImplement
<1>1. Init => Ledger!Init
  BY InitRefines
<1>2. AdmissionInv /\ AdmissionInv' /\ [Next]_vars =>
        [Ledger!Next]_<<LedgerStatus, LedgerBy, LedgerSeats>>
  BY SystemStep, SeatRefines, LedgerRefines
<1>3. AdmissionInv /\ AdmissionInv' /\ [Next]_vars =>
        [Ledger!Next]_<<[ci \in Coordinators \X Invites |-> ledger[ci[1]][ci[2]].st],
                        [ci \in Coordinators \X Invites |-> ledger[ci[1]][ci[2]].by],
                        [ci \in Coordinators \X Invites |-> Seats(ci[1], ci[2])]>>
  BY <1>2 DEF LedgerStatus, LedgerBy, LedgerSeats
<1> QED
  BY <1>1, <1>3, AdmissionSafe, PTL DEF Spec, LedgersImplement, Ledger!Spec

-----------------------------------------------------------------------------
(* The answers. *)

LEMMA StepElsewhere ==
  ASSUME TasksOK, NEW d \in Coordinators, NEW m \in Lanes, NEW t, Step(d, m, t),
         NEW c \in Coordinators, NEW l \in Lanes, c # d \/ l # m
  PROVE  task'[c][l] = task[c][l]
  BY DEF Step, TasksOK

LEMMA StepHere ==
  ASSUME TasksOK, NEW c \in Coordinators, NEW l \in Lanes, NEW t, Step(c, l, t)
  PROVE  task'[c][l] = t
  BY DEF Step, TasksOK

LEMMA HandlerIsStep ==
  ASSUME NEW c, NEW l, Handler(c, l)
  PROVE  \E t : Step(c, l, t)
<1>1. CASE Handle(c, l)
  BY <1>1 DEF Handle, HandleMember, HandleApproved, RedeemInvite, RedeemKey, AdmitDirectly,
              HandleUnknown
<1>2. CASE \/ CommitAdmission(c, l) \/ RollBack(c, l) \/ Retain(c, l) \/ Reply(c, l)
           \/ RestoreInvite(c, l) \/ Rename(c, l)
  BY <1>2 DEF CommitAdmission, RollBack, Retain, Reply, RestoreInvite, Rename
<1> QED
  BY <1>1, <1>2 DEF Handler

\* A handler's state is its own, until the daemon restarts or a new frame comes.
LEMMA OwnTask ==
  ASSUME AdmissionInv, [Next]_vars, NEW c \in Coordinators, NEW l \in Lanes,
         task'[c][l].st # task[c][l].st, task'[c][l].st \notin {"idle", "asked"}
  PROVE  Handler(c, l) /\ c \in admins /\ UNCHANGED admins
<1>0. TasksOK /\ admins \subseteq Coordinators
  BY DEF AdmissionInv, Shapes, FlagsOK
<1>1. task' # task /\ Next
  BY DEF vars
<1>2. CASE \E d \in admins, m \in Lanes : Handler(d, m)
  <2>1. PICK d \in admins, m \in Lanes : Handler(d, m)
    BY <1>2
  <2>2. PICK t : Step(d, m, t)
    BY <2>1, HandlerIsStep
  <2>3. d = c /\ m = l
    BY <1>0, <2>2, StepElsewhere
  <2> QED
    BY <1>1, <2>1, <2>3 DEF Next
<1>3. CASE Ledgers
  BY <1>1, <1>3 DEF Ledgers, InviteCreate, InviteRevoke, HandleGossip, Expire,
                    ReusableKeyCreate, RevokeReusable, others
<1>4. CASE \E d \in admins : Operator(d)
  <2>1. PICK d \in admins : Operator(d)
    BY <1>4
  <2>2. Restart(d)
    BY <1>1, <2>1 DEF Operator, AcceptRequest, DenyRequest, KickMember, SaveOwed, RetryDurable,
                      Reconverge
  <2>3. task' = [task EXCEPT ![d] = [k \in Lanes |-> Idle]]
    BY <2>2 DEF Restart
  <2>4. CASE d = c
    <3>1. task'[c][l] = Idle
      BY <1>0, <2>3, <2>4 DEF TasksOK
    <3> QED
      BY <3>1, SMTT(30) DEF Idle
  <2>5. CASE d # c
    BY <1>0, <2>3, <2>5 DEF TasksOK
  <2> QED
    BY <2>4, <2>5
<1>5. CASE \E p \in Peers : Joiner(p)
  <2>1. PICK d \in admins, m \in Lanes, p \in Peers :
          Step(d, m, [Idle EXCEPT !.st = "asked", !.secret = join[p].secret])
    BY <1>1, <1>5 DEF Joiner, JoinNetwork, Ask, AnswerTimesOut, EndRound, LeaveRemoved
  <2>2. PICK t : t = [Idle EXCEPT !.st = "asked", !.secret = join[p].secret]
    OBVIOUS
  <2>3. Step(d, m, t) /\ d \in Coordinators
    BY <1>0, <2>1, <2>2
  <2>4. t.st = "asked"
    BY <2>2 DEF Idle
  <2>5. CASE d = c /\ m = l
    <3>1. task'[c][l] = t
      BY <1>0, <2>3, <2>5, StepHere
    <3> QED
      BY <2>4, <3>1
  <2>6. CASE d # c \/ m # l
    BY <1>0, <2>3, <2>6, StepElsewhere
  <2> QED
    BY <2>5, <2>6
<1> QED
  BY <1>1, <1>2, <1>3, <1>4, <1>5 DEF Next

\* commit_admission answers Denied only when the peer has, in memory and on disk, the
\* seat it had before, or none.
THEOREM DenialSafe == Spec => DenialIsDurable
<1>1. ASSUME AdmissionInv, [Next]_vars, NEW c \in Coordinators, NEW l \in Lanes,
             task[c][l].st = "rollback", task'[c][l].st = "undone",
             NEW g \in {live'[c], file'[c], disk'[c]}
      PROVE  g.name[PeerOf[l]] \in {Out, task[c][l].undo.name}
  <2>0. TasksOK /\ RostersOK /\ FlagsOK /\ IsTask(task[c][l])
    BY <1>1, TaskOK DEF AdmissionInv, Shapes
  <2>1. Handler(c, l)
    BY <1>1, OwnTask
  <2>2. RollBack(c, l)
    BY <1>1, <2>1 DEF Handler, Handle, HandleMember, HandleApproved, RedeemInvite, RedeemKey,
       AdmitDirectly, HandleUnknown, Stranger, CommitAdmission, Retain, Reply, Replying,
       RestoreInvite, Rename
  <2>3. PICK k :
          /\ RolledTo(c, l, k)
          /\ \/ SaveOK(c, k)
             \/ Step(c, l, [task[c][l] EXCEPT !.st = "retain", !.undo = NoUndo])
    BY <1>1, <2>2, RollBackCases
  <2>4. ~Step(c, l, [task[c][l] EXCEPT !.st = "retain", !.undo = NoUndo])
    <3> SUFFICES ASSUME Step(c, l, [task[c][l] EXCEPT !.st = "retain", !.undo = NoUndo])
                 PROVE  FALSE
      OBVIOUS
    <3>1. task'[c][l] = [task[c][l] EXCEPT !.st = "retain", !.undo = NoUndo]
      BY <2>0, StepHere
    <3> QED
      BY <1>1, <2>0, <3>1 DEF IsTask
  <2>5. Took(c, k, k) /\ file'[c] = k /\ disk'[c] = k
    BY <2>0, <2>3, <2>4, SaveOKTakes
  <2>6. g = k
    BY <1>1, <2>5 DEF Took
  <2> QED
    BY <2>3, <2>6 DEF RolledTo
<1>2. AdmissionInv /\ [Next]_vars =>
        [\A c \in Coordinators, l \in Lanes :
           task[c][l].st = "rollback" /\ task'[c][l].st = "undone" =>
             \A g \in {live'[c], file'[c], disk'[c]} :
               g.name[PeerOf[l]] \in {Out, task[c][l].undo.name}]_vars
  BY <1>1
<1> QED
  BY <1>2, AdmissionSafe, PTL DEF Spec, DenialIsDurable

LEMMA StateSet ==
  ASSUME NEW t, "st" \in DOMAIN t, NEW s, NEW u, u = [t EXCEPT !.st = s]
  PROVE  u.st = s
  OBVIOUS

LEMMA StateValid ==
  ASSUME NEW t, "st" \in DOMAIN t, NEW n, NEW u, u = Validated(t, n)
  PROVE  u.st = "valid"
  BY DEF Validated

\* The answers a handler's steps lead to.
LEMMA OtherAnswers ==
  ASSUME AdmissionInv, NEW c \in Coordinators, NEW l \in Lanes,
         \/ HandleApproved(c, l) \/ RedeemInvite(c, l) \/ RedeemKey(c, l)
         \/ AdmitDirectly(c, l) \/ HandleUnknown(c, l)
         \/ RollBack(c, l) \/ Reply(c, l) \/ RestoreInvite(c, l) \/ Rename(c, l)
  PROVE  task'[c][l].st \notin {"hello", "welcome"}
<1>0. TasksOK /\ PeerOf[l] \in Peers
  BY LanesHavePeers DEF AdmissionInv, Shapes
<1>1. PICK t : t = task[c][l]
  OBVIOUS
<1>2. IsTask(t)
  BY <1>1, TaskOK
<1>d. DOMAIN t = {"st", "secret", "paid", "name", "appr", "undo"}
  BY <1>2 DEF IsTask
<1>3. CASE HandleApproved(c, l)
  <2>1. task'[c][l] = [Validated(t, Chosen(c, PeerOf[l])) EXCEPT !.appr = {PeerOf[l]}]
    BY <1>0, <1>1, <1>3, StepHere DEF HandleApproved
  <2> QED
    BY <1>d, <2>1 DEF Validated
<1>4. CASE RedeemInvite(c, l)
  <2>1. PICK i, u : /\ u = [t EXCEPT !.paid = i]
                    /\ \/ task'[c][l] = Assigned(c, i, PeerOf[l], u)
                       \/ task'[c][l] = [t EXCEPT !.st = "deny"]
    BY <1>0, <1>1, <1>4, StepHere DEF RedeemInvite
  <2>2. DOMAIN u = {"st", "secret", "paid", "name", "appr", "undo"}
    BY <1>d, <2>1
  <2>3. \/ \E n : task'[c][l] = Validated(u, n)
        \/ task'[c][l] = [u EXCEPT !.st = "deny"]
        \/ task'[c][l] = [t EXCEPT !.st = "deny"]
    BY <2>1 DEF Assigned
  <2>4. PICK k : k = task'[c][l]
    OBVIOUS
  <2>5. "st" \in DOMAIN t /\ "st" \in DOMAIN u
    BY <1>d, <2>2
  <2>6. k.st = "valid" \/ k.st = "deny"
    BY <2>3, <2>4, <2>5, StateSet, StateValid, SMTT(30)
  <2> QED
    BY <2>4, <2>6
<1>5. CASE RedeemKey(c, l) \/ AdmitDirectly(c, l) \/ HandleUnknown(c, l)
  <2>1. \/ task'[c][l] = Validated(t, Chosen(c, PeerOf[l]))
        \/ \E s \in {"deny", "refuse", "sayPending"} : task'[c][l] = [t EXCEPT !.st = s]
    <3>1. PICK u : /\ Step(c, l, u)
                   /\ \/ u = Validated(t, Chosen(c, PeerOf[l]))
                      \/ \E s \in {"deny", "refuse", "sayPending"} : u = [t EXCEPT !.st = s]
      BY <1>1, <1>5 DEF RedeemKey, AdmitDirectly, HandleUnknown
    <3> QED
      BY <1>0, <3>1, StepHere
  <2>2. PICK k : k = task'[c][l]
    OBVIOUS
  <2>3. "st" \in DOMAIN t
    BY <1>d
  <2>4. k.st = "valid" \/ \E s \in {"deny", "refuse", "sayPending"} : k.st = s
    BY <2>1, <2>2, <2>3, StateSet, StateValid, SMTT(30)
  <2> QED
    BY <2>2, <2>4
<1>6. CASE RollBack(c, l)
  <2>1. \E s \in {"undone", "retain"} : task'[c][l] = [t EXCEPT !.st = s, !.undo = NoUndo]
    <3>1. PICK s \in {"undone", "retain"} : Step(c, l, [t EXCEPT !.st = s, !.undo = NoUndo])
      BY <1>1, <1>6 DEF RollBack
    <3> QED
      BY <1>0, <3>1, StepHere
  <2> QED
    BY <1>d, <2>1
<1>7. CASE Reply(c, l)
  <2>1. PICK u : u = After(t) /\ task'[c][l] = u
    BY <1>0, <1>1, <1>7, StepHere DEF Reply
  <2>2. u.st \in {"rename", "restore", "idle"}
    BY <1>2, <2>1, AfterFacts
  <2> QED
    BY <2>1, <2>2
<1>8. CASE RestoreInvite(c, l) \/ Rename(c, l)
  <2>1. task'[c][l] = Idle
    BY <1>0, <1>8, StepHere DEF RestoreInvite, Rename
  <2> QED
    BY <2>1, SMTT(30) DEF Idle
<1> QED
  BY <1>3, <1>4, <1>5, <1>6, <1>7, <1>8

\* A handler goes on to send Welcome only when the disk holds a roster that seats the
\* peer, unless kick_member took the peer out between the saves of its admission.
THEOREM WelcomeSafe == Spec => WelcomeIsDurable
<1>1. ASSUME AdmissionInv, [Next]_vars, NEW c \in Coordinators, NEW l \in Lanes,
             task[c][l].st # task'[c][l].st, task'[c][l].st \in {"hello", "welcome"}
      PROVE  \/ PeerOf[l] \in Seated(disk'[c])
             \/ PeerOf[l] \notin Seated(live'[c]) /\ "edit" \in owed[c]
  <2>0. /\ TasksOK /\ RostersOK /\ FlagsOK /\ Saves /\ IsTask(task[c][l]) /\ IsRoster(live[c])
        /\ PeerOf[l] \in Peers
    BY <1>1, TaskOK, LanesHavePeers DEF AdmissionInv, Shapes, RostersOK
  <2>1. Handler(c, l)
    BY <1>1, OwnTask
  <2>2. \/ HandleMember(c, l) /\ UNCHANGED <<rosters, lock>>
        \/ CommitAdmission(c, l) \/ Retain(c, l)
    BY <1>1, <2>1, OtherAnswers DEF Handler, Handle
  <2>3. CASE HandleMember(c, l) /\ UNCHANGED <<rosters, lock>>
    <3>1. /\ PeerOf[l] \in Seated(live[c])
          /\ task'[c][l] = [task[c][l] EXCEPT !.st = IF sure[c] = "no" THEN "sayPending" ELSE "hello"]
      BY <2>0, <2>3, StepHere DEF HandleMember
    <3>2. sure[c] # "no"
      BY <1>1, <2>0, <3>1 DEF IsTask
    <3>3. sure[c] = "yes"
      BY <2>0, <3>2 DEF FlagsOK
    <3>4. PeerOf[l] \in Seated(disk[c])
      BY <2>0, <3>1, <3>3 DEF Saves, SureSaved
    <3> QED
      BY <2>3, <3>4 DEF rosters
  <2>4. CASE CommitAdmission(c, l)
    <3>1. PICK p \in Peers : p = PeerOf[l]
      BY <2>0
    <3>2. PICK n, v, a, g :
            /\ n = task[c][l].name /\ v = ViaOf(c, task[c][l])
            /\ a = SeatIn(live[c], p, n, v).appr \ task[c][l].appr
            /\ g = Reseated(live[c], p, n, v, a)
      OBVIOUS
    <3>3. \/ SaveOK(c, g)
          \/ \E u : Step(c, l, [task[c][l] EXCEPT !.st = "rollback", !.undo = u])
      BY <2>4, <3>1, <3>2 DEF CommitAdmission, Reseated
    <3>4. ~\E u : Step(c, l, [task[c][l] EXCEPT !.st = "rollback", !.undo = u])
      <4> SUFFICES ASSUME NEW u, Step(c, l, [task[c][l] EXCEPT !.st = "rollback", !.undo = u])
                   PROVE  FALSE
        OBVIOUS
      <4>1. task'[c][l] = [task[c][l] EXCEPT !.st = "rollback", !.undo = u]
        BY <2>0, StepHere
      <4> QED
        BY <1>1, <2>0, <4>1 DEF IsTask
    <3>5. disk'[c] = g
      BY <2>0, <3>3, <3>4, SaveOKTakes
    <3>6. PICK h : h = live[c]
      OBVIOUS
    <3>7. IsRoster(h) /\ g = Reseated(h, p, n, v, a)
      BY <2>0, <3>2, <3>6
    <3>8. g.name[p] = n
      BY <3>1, <3>7, SeatAndApprove, SMTT(30)
    <3>9. n # Out
      BY <2>0, <2>4, <3>2 DEF CommitAdmission, IsTask
    <3> QED
      BY <3>1, <3>5, <3>8, <3>9 DEF Seated
  <2>5. CASE Retain(c, l)
    <3>1. \/ SaveOK(c, live[c])
          \/ Step(c, l, [task[c][l] EXCEPT !.st = "retained"])
      BY <2>5 DEF Retain
    <3>2. ~Step(c, l, [task[c][l] EXCEPT !.st = "retained"])
      <4> SUFFICES ASSUME Step(c, l, [task[c][l] EXCEPT !.st = "retained"])
                   PROVE  FALSE
        OBVIOUS
      <4>1. task'[c][l] = [task[c][l] EXCEPT !.st = "retained"]
        BY <2>0, StepHere
      <4> QED
        BY <1>1, <2>0, <4>1 DEF IsTask
    <3>3. Took(c, live[c], live[c]) /\ disk'[c] = live[c]
      BY <2>0, <3>1, <3>2, SaveOKTakes
    <3>4. live'[c] = live[c]
      BY <3>3 DEF Took
    <3>5. PeerOf[l] \in Seated(live[c]) \/ "edit" \in owed[c]
      BY <2>0, <2>5 DEF Saves, Retained, Retain
    <3> QED
      BY <3>3, <3>4, <3>5
  <2> QED
    BY <2>2, <2>3, <2>4, <2>5
<1>2. AdmissionInv /\ [Next]_vars =>
        [\A c \in Coordinators, l \in Lanes :
           task[c][l].st # task'[c][l].st /\ task'[c][l].st \in {"hello", "welcome"}
             => \/ PeerOf[l] \in Seated(disk'[c])
                \/ PeerOf[l] \notin Seated(live'[c]) /\ "edit" \in owed[c]]_vars
  BY <1>1
<1> QED
  BY <1>2, AdmissionSafe, PTL DEF Spec, WelcomeIsDurable
====
