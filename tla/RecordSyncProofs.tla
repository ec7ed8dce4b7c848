-------------------------- MODULE RecordSyncProofs --------------------------
(***************************************************************************)
(* What RecordSync keeps for any number of coordinators, members and       *)
(* edits: types, the floors within what the relay has, and no signature    *)
(* before its roster is saved.                                             *)
(***************************************************************************)
EXTENDS RecordSync, TLAPS

\* Most steps are first-order; the ones that need arithmetic or sequences cite SMT.
USE ZenonT(30)

\* ts is not above every record of T.
Within(T, ts) == \E r \in T : ts <= r.ts

\* The relay has a newest record.
HasNewest == \E r \in taken : \A q \in taken : q.ts <= r.ts

\* Every timestamp a floor may be raised to is one the relay had, or below it.
FloorSources ==
  /\ \A n \in Nodes :
       /\ Within(taken, live[n].floor) /\ Within(taken, live[n].last.ts)
       /\ Within(taken, file[n].floor) /\ Within(taken, disk[n].floor)
       /\ \A t \in tasks[n] : Within(taken, t.rec.ts)
  /\ \A c \in Coordinators :
       pub[c].st = "answered" => Within(taken, pub[c].rec.ts)

\* Unless a write is unconfirmed, a crash leaves the pointer that reads back.
PointerDurable ==
  \A n \in Nodes : phase[n] \in {"up", "restoring"} /\ live[n].pend = {} =>
                     disk[n].hash = file[n].hash

IInv == TypeOK /\ HasNewest /\ FloorSources /\ PointerDurable

-----------------------------------------------------------------------------
(* The parts of a step. *)

\* What a write of node n's config leaves true of every file.
Files(n) ==
  /\ file' \in [Nodes -> Saved] /\ disk' \in [Nodes -> Saved]
  /\ owed' \in [Nodes -> SUBSET Hashes] /\ faults' \in 0..MaxFaults
  /\ \A k \in Nodes : Within(taken, file'[k].floor) /\ Within(taken, disk'[k].floor)
  /\ \A k \in Nodes \ {n} : file'[k] = file[k] /\ disk'[k] = disk[k]

\* What a change of node n's live state leaves true of every live state.
Lives(n) ==
  /\ live' \in [Nodes -> Live]
  /\ \A k \in Nodes : Within(taken, live'[k].floor) /\ Within(taken, live'[k].last.ts)
  /\ \A k \in Nodes \ {n} : live'[k] = live[k]

LEMMA HigherWithin ==
  ASSUME NEW T, NEW a \in 0..MaxClock, NEW b \in 0..MaxClock,
         Within(T, a), Within(T, b)
  PROVE  Higher(a, b) \in 0..MaxClock /\ Within(T, Higher(a, b))
BY DEF Higher, Within

\* A fault stays within the budget.
LEMMA FaultType ==
  ASSUME faults \in 0..MaxFaults, Fault
  PROVE  faults' \in 0..MaxFaults
BY SMTT(30), RecordSyncAssumption DEF Fault

\* A write that lands is read back and survives a crash.
LEMMA OnDiskStep ==
  ASSUME IInv, NEW n \in Nodes, NEW s \in Saved, NEW made \in SUBSET Hashes,
         Within(taken, s.floor), OnDisk(n, s, made), faults' \in 0..MaxFaults
  PROVE  Files(n) /\ file'[n] = s /\ disk'[n] = s
<1>1. s.hash \in Hashes BY DEF Saved
<1>2. owed' \in [Nodes -> SUBSET Hashes]
  BY <1>1, SMT DEF OnDisk, IInv, TypeOK
<1> QED BY <1>2, SMT DEF OnDisk, IInv, TypeOK, FloorSources, Files

LEMMA SaveOKStep ==
  ASSUME IInv, NEW n \in Nodes, NEW s \in Saved, NEW made \in SUBSET Hashes,
         Within(taken, s.floor), SaveOK(n, s, made)
  PROVE  Files(n) /\ file'[n] = s /\ disk'[n] = s
BY OnDiskStep DEF SaveOK, IInv, TypeOK

\* A write that fails reads back as before or after it; a crash may undo it.
LEMMA SaveFailsStep ==
  ASSUME IInv, NEW n \in Nodes, NEW s \in Saved,
         Within(taken, s.floor), SaveFails(n, s)
  PROVE  Files(n) /\ file'[n] \in {file[n], s} /\ disk'[n] = disk[n]
BY FaultType, SMT DEF SaveFails, IInv, TypeOK, FloorSources, Files

LEMMA MarkedType ==
  ASSUME NEW l \in Live, NEW h \in Hashes, NEW prov \in Provenance
  PROVE  /\ Marked(l, h, prov) \in Live /\ Marked(l, h, prov).pend # {}
         /\ Marked(l, h, prov).floor = l.floor
         /\ Marked(l, h, prov).last = l.last
<1> DEFINE v == IF [hash |-> h, prov |-> "published"] \in l.pend
                THEN "published" ELSE prov
           p == [hash |-> h, prov |-> v]
<1>1. p \in Unconfirmed BY DEF Unconfirmed, Provenance
<1>2. Marked(l, h, prov) = [l EXCEPT !.pend = {p}] BY DEF Marked
<1> HIDE DEF p
<1> QED BY <1>1, <1>2, SMT DEF Live

LEMMA PointerType ==
  ASSUME IInv, NEW n \in Nodes, NEW h \in Hashes, NEW prov \in Provenance,
         NEW f \in 0..MaxClock, Within(taken, f)
  PROVE  /\ Pointer(n, h, prov, f) \in Saved
         /\ Within(taken, Pointer(n, h, prov, f).floor)
         /\ Pointer(n, h, prov, f).hash = h
<1>1. file[n].floor \in 0..MaxClock /\ Within(taken, file[n].floor)
  BY DEF IInv, TypeOK, FloorSources, Saved
<1> QED BY <1>1, HigherWithin, SMT DEF Pointer, Saved

\* A live state l about to be node n's, within the relay's records.
Sound(l) == l \in Live /\ Within(taken, l.floor) /\ Within(taken, l.last.ts)

LEMMA LivesStep ==
  ASSUME IInv, NEW n \in Nodes, NEW l, Sound(l), live' = [live EXCEPT ![n] = l]
  PROVE  Lives(n) /\ live'[n] = l
BY SMT DEF IInv, TypeOK, FloorSources, Lives, Sound

\* Whatever becomes of a pointer write, an unconfirmed one is marked.
LEMMA WritePointerStep ==
  ASSUME IInv, NEW n \in Nodes, NEW l, Sound(l), NEW h \in Hashes,
         NEW prov \in Provenance, WritePointer(n, l, h, prov)
  PROVE  Files(n) /\ Lives(n) /\ (live'[n].pend = {} => disk'[n].hash = file'[n].hash)
<1>1. l.floor \in 0..MaxClock /\ l.made \in SUBSET Hashes BY DEF Sound, Live
<1>2. /\ Pointer(n, h, prov, l.floor) \in Saved
      /\ Within(taken, Pointer(n, h, prov, l.floor).floor)
  BY <1>1, PointerType DEF Sound
<1>3. CASE /\ SaveOK(n, Pointer(n, h, prov, l.floor), l.made)
           /\ live' = [live EXCEPT ![n] = [l EXCEPT !.pend = {}]]
  <2>1. Sound([l EXCEPT !.pend = {}]) BY SMT DEF Sound, Live
  <2>2. Lives(n) BY <1>3, <2>1, LivesStep
  <2>3. Files(n) /\ disk'[n] = file'[n] BY <1>1, <1>2, <1>3, SaveOKStep
  <2> QED BY <2>2, <2>3
<1>4. CASE /\ SaveFails(n, Pointer(n, h, prov, l.floor))
           /\ live' = [live EXCEPT ![n] = Marked(l, h, prov)]
  <2>1. Sound(Marked(l, h, prov)) /\ Marked(l, h, prov).pend # {}
    BY MarkedType DEF Sound
  <2>2. Lives(n) /\ live'[n] = Marked(l, h, prov) BY <1>4, <2>1, LivesStep
  <2>3. Files(n) BY <1>2, <1>4, SaveFailsStep
  <2> QED BY <2>1, <2>2, <2>3
<1> QED BY <1>3, <1>4 DEF WritePointer

\* The same for a roster that is stored first.
LEMMA PersistStep ==
  ASSUME IInv, NEW n \in Nodes, NEW l, Sound(l), NEW h \in Hashes,
         NEW prov \in Provenance, Persist(n, l, h, prov)
  PROVE  /\ Files(n) /\ Lives(n) /\ blobs' \in [Nodes -> SUBSET Hashes]
         /\ live'[n].pend = {} => disk'[n].hash = file'[n].hash
<1>1. CASE /\ blobs' = [blobs EXCEPT ![n] = @ \cup {h}]
           /\ WritePointer(n, l, h, prov)
  <2>1. blobs' \in [Nodes -> SUBSET Hashes] BY <1>1, SMT DEF IInv, TypeOK
  <2> QED BY <1>1, <2>1, WritePointerStep
<1>2. CASE StoreFails(n, l, h, prov)
  <2>1. Sound(Marked(l, h, prov)) /\ Marked(l, h, prov).pend # {}
    BY MarkedType DEF Sound
  <2>2. Lives(n) /\ live'[n] = Marked(l, h, prov)
    BY <1>2, <2>1, LivesStep DEF StoreFails
  <2>3. Files(n) /\ blobs' \in [Nodes -> SUBSET Hashes]
    BY <1>2, FaultType DEF StoreFails, Files, IInv, TypeOK, FloorSources
  <2> QED BY <2>1, <2>2, <2>3
<1> QED BY <1>1, <1>2 DEF Persist

\* What a change of the tasks and publishers leaves true of all of them.
Moves ==
  /\ tasks' \in [Nodes -> SUBSET Tasks] /\ pub' \in [Coordinators -> Publisher]
  /\ \A k \in Nodes : \A t \in tasks'[k] : Within(taken, t.rec.ts)
  /\ \A c \in Coordinators :
       pub'[c].st = "answered" => Within(taken, pub'[c].rec.ts)

LEMMA MovesSame ==
  ASSUME IInv, UNCHANGED <<tasks, pub>> PROVE Moves
BY DEF IInv, TypeOK, FloorSources, Moves

LEMMA FilesSame ==
  ASSUME IInv, NEW n, UNCHANGED <<file, disk, owed>>, faults' \in 0..MaxFaults
  PROVE  Files(n)
BY DEF IInv, TypeOK, FloorSources, Files

LEMMA LivesSame ==
  ASSUME IInv, NEW n, UNCHANGED live PROVE Lives(n)
BY DEF IInv, TypeOK, FloorSources, Lives

LEMMA DoneStep ==
  ASSUME IInv, NEW n \in Nodes, NEW t \in tasks[n], NEW o, Done(n, t, o)
  PROVE  Moves
<1>1. AfterSync(n, o) \in {"ready", "idle"} BY DEF AfterSync
<1>2. tasks' \in [Nodes -> SUBSET Tasks]
  BY SMT DEF Done, IInv, TypeOK
<1>3. \A k \in Nodes : tasks'[k] \subseteq tasks[k]
  BY SMT DEF Done, IInv, TypeOK
<1>4. /\ pub' \in [Coordinators -> Publisher]
      /\ \A c \in Coordinators : pub'[c].st = "answered" => pub'[c] = pub[c]
  <2> DEFINE st == AfterSync(n, o)
  <2>1. st \in {"ready", "idle"} BY <1>1
  <2>2. \/ pub' = pub \/ pub' = [pub EXCEPT ![n].st = st] BY DEF Done
  <2> HIDE DEF st
  <2> QED BY <2>1, <2>2, SMT DEF IInv, TypeOK, Publisher
<1> QED BY <1>2, <1>3, <1>4 DEF Moves, IInv, FloorSources

\* A step of node n that the relay does not see keeps the invariant if its
\* parts do.
LEMMA NodeStep ==
  ASSUME IInv, NEW n \in Nodes, UNCHANGED taken, Files(n), Lives(n), Moves,
         clock' \in 2..MaxClock,
         phase' \in [Nodes -> {"down", "resolved", "restoring", "up", "gone"}],
         \A k \in Nodes \ {n} : phase'[k] = phase[k],
         blobs' \in [Nodes -> SUBSET Hashes],
         editing' \subseteq Coordinators, edits' \in [Edits -> Nat],
         phase'[n] \in {"up", "restoring"} /\ live'[n].pend = {} =>
           disk'[n].hash = file'[n].hash
  PROVE  IInv'
<1>1. TypeOK' BY DEF IInv, TypeOK, Files, Lives, Moves
<1>2. HasNewest' BY DEF IInv, HasNewest
<1>3. FloorSources' BY DEF FloorSources, Files, Lives, Moves, Within
<1>4. PointerDurable' BY DEF IInv, PointerDurable, Files, Lives
<1> QED BY <1>1, <1>2, <1>3, <1>4 DEF IInv

LEMMA NewestRead ==
  ASSUME IInv, NEW r \in Reads PROVE r \in taken /\ r \in Records
<1>1. Newest \in taken BY DEF IInv, HasNewest, Newest
<1> QED BY <1>1 DEF Reads, IInv, TypeOK

LEMMA SoundNow ==
  ASSUME IInv, NEW n \in Nodes
  PROVE  /\ Sound(live[n]) /\ live[n].group \in Hashes /\ live[n].conv \in Hashes
         /\ live[n].made \subseteq Hashes /\ live[n].pend \subseteq Unconfirmed
BY DEF IInv, TypeOK, FloorSources, Sound, Live

Keeps(A) == IInv /\ A => IInv'

-----------------------------------------------------------------------------
(* The edits. *)

LEMMA MadeType ==
  ASSUME NEW l \in Live, NEW g \in Hashes PROVE Made(l, g) \subseteq Hashes
BY DEF Made, Live

LEMMA ToggledType ==
  ASSUME NEW g \in Hashes, NEW e \in Edits PROVE Toggled(g, e) \in Hashes
BY DEF Toggled, Hashes

LEMMA RosterSound ==
  ASSUME NEW l, Sound(l), NEW g \in Hashes, NEW v \in Hashes
  PROVE  Sound(WithRoster(l, g, v)) /\ WithRoster(l, g, v).pend = l.pend
<1> DEFINE m == Made(l, v)
           r == [l EXCEPT !.group = g, !.conv = v, !.made = m]
<1>1. l \in Live /\ m \in SUBSET Hashes BY MadeType DEF Sound
<1>2. WithRoster(l, g, v) = r BY DEF WithRoster
<1> HIDE DEF m
<1>3. /\ r.group = g /\ r.conv = v /\ r.made = m /\ r.pend = l.pend
      /\ r.floor = l.floor /\ r.last = l.last
  BY <1>1 DEF Live
<1>4. r \in Live BY <1>1, <1>3 DEF Live
<1> QED BY <1>2, <1>3, <1>4 DEF Sound

LEMMA CommitRosterStep ==
  ASSUME IInv, NEW n \in Nodes, NEW g \in Hashes, CommitRoster(n, g)
  PROVE  /\ Files(n) /\ Lives(n) /\ blobs' \in [Nodes -> SUBSET Hashes]
         /\ live'[n].pend = {} => disk'[n].hash = file'[n].hash
<1>1. Sound(WithRoster(live[n], g, g)) BY SoundNow, RosterSound
<1> QED BY <1>1, PersistStep DEF CommitRoster, Provenance

LEMMA EditLockedKeeps ==
  ASSUME NEW c \in Coordinators, NEW e \in EditsOf[c]
  PROVE  Keeps(EditLocked(c, e))
<1> SUFFICES ASSUME IInv, EditLocked(c, e) PROVE IInv' BY DEF Keeps
<1>1. c \in Nodes /\ e \in Edits BY DEF Nodes, Edits
<1>2. Toggled(live[c].group, e) \in Hashes BY <1>1, SoundNow, ToggledType
<1>3. /\ Files(c) /\ Lives(c) /\ blobs' \in [Nodes -> SUBSET Hashes]
      /\ live'[c].pend = {} => disk'[c].hash = file'[c].hash
  BY <1>1, <1>2, CommitRosterStep DEF EditLocked
<1>4. edits' \in [Edits -> Nat] BY <1>1, SMT DEF EditLocked, MayEdit, IInv, TypeOK
<1>5. Moves BY MovesSame DEF EditLocked
<1> QED BY <1>1, <1>3, <1>4, <1>5, NodeStep DEF EditLocked, IInv, TypeOK

LEMMA MutateKeeps ==
  ASSUME NEW c \in Coordinators, NEW e \in EditsOf[c]
  PROVE  Keeps(Mutate(c, e))
<1> SUFFICES ASSUME IInv, Mutate(c, e) PROVE IInv' BY DEF Keeps
<1> DEFINE g == Toggled(live[c].group, e)
<1>1. c \in Nodes /\ e \in Edits BY DEF Nodes, Edits
<1>2. g \in Hashes BY <1>1, SoundNow, ToggledType
<1>3. PICK v \in {live[c].conv, g} :
        live' = [live EXCEPT ![c] = WithRoster(live[c], g, v)]
  BY DEF Mutate
<1>4. v \in Hashes BY <1>1, <1>2, SoundNow
<1> HIDE DEF g
<1>5. Lives(c) /\ live'[c].pend = live[c].pend
  <2>1. /\ Sound(WithRoster(live[c], g, v))
        /\ WithRoster(live[c], g, v).pend = live[c].pend
    BY <1>1, <1>2, <1>4, SoundNow, RosterSound
  <2>2. Lives(c) /\ live'[c] = WithRoster(live[c], g, v)
    BY <1>1, <1>3, <2>1, LivesStep
  <2> QED BY <2>1, <2>2
<1>6. edits' \in [Edits -> Nat] BY <1>1, SMT DEF Mutate, MayEdit, IInv, TypeOK
<1>7. Files(c) /\ Moves BY MovesSame, FilesSame DEF Mutate, IInv, TypeOK
<1>8. editing' \subseteq Coordinators BY DEF Mutate, IInv, TypeOK
<1> QED BY <1>1, <1>5, <1>6, <1>7, <1>8, NodeStep
        DEF Mutate, IInv, TypeOK, PointerDurable

LEMMA UpdateSnapshotKeeps ==
  ASSUME NEW c \in Coordinators PROVE Keeps(UpdateSnapshot(c))
<1> SUFFICES ASSUME IInv, UpdateSnapshot(c) PROVE IInv' BY DEF Keeps
<1>1. c \in Nodes BY DEF Nodes
<1>2. live[c].group \in Hashes BY <1>1, SoundNow
<1>3. /\ Files(c) /\ Lives(c) /\ blobs' \in [Nodes -> SUBSET Hashes]
      /\ live'[c].pend = {} => disk'[c].hash = file'[c].hash
  BY <1>1, <1>2, CommitRosterStep DEF UpdateSnapshot
<1>4. Moves BY MovesSame DEF UpdateSnapshot
<1> QED BY <1>1, <1>3, <1>4, NodeStep DEF UpdateSnapshot, IInv, TypeOK

-----------------------------------------------------------------------------
(* Applying a record. *)

LEMMA TaskFacts ==
  ASSUME IInv, NEW n \in Nodes, NEW t \in tasks[n]
  PROVE  /\ t \in Tasks /\ t.rec \in Records /\ t.rec.hash \in Hashes
         /\ t.rec.ts \in 0..MaxClock /\ Within(taken, t.rec.ts)
<1>1. t \in Tasks /\ Within(taken, t.rec.ts) BY DEF IInv, TypeOK, FloorSources
<1> QED BY <1>1 DEF Tasks, Records

LEMMA BeginStep ==
  ASSUME IInv, NEW n \in Nodes, NEW t \in Tasks, Within(taken, t.rec.ts),
         Begin(n, t)
  PROVE  /\ tasks' \in [Nodes -> SUBSET Tasks]
         /\ \A k \in Nodes : \A u \in tasks'[k] : Within(taken, u.rec.ts)
<1>1. tasks' \in [Nodes -> SUBSET Tasks] BY SMT DEF Begin, IInv, TypeOK
<1>2. \A k \in Nodes : tasks'[k] \subseteq tasks[k] \cup {t}
  BY SMT DEF Begin, IInv, TypeOK
<1> QED BY <1>1, <1>2 DEF IInv, FloorSources

LEMMA TaskType ==
  ASSUME NEW r \in Records, NEW src \in Sources
  PROVE  Task(src, r) \in Tasks /\ Task(src, r).rec = r
<1>1. {} \in Hashes BY DEF Hashes
<1> QED BY <1>1 DEF Task, Tasks

LEMMA PollKeeps ==
  ASSUME NEW n \in Nodes PROVE Keeps(Poll(n))
<1> SUFFICES ASSUME IInv, Poll(n) PROVE IInv' BY DEF Keeps
<1>1. PICK r \in Reads : Begin(n, Task("poll", r)) BY DEF Poll
<1>2. r \in taken /\ r \in Records /\ r.ts <= r.ts BY SMTT(30), NewestRead DEF Records
<1>3. Task("poll", r) \in Tasks /\ Within(taken, Task("poll", r).rec.ts)
  BY <1>2, TaskType DEF Within, Sources
<1>4. Moves BY <1>1, <1>3, BeginStep DEF Poll, Moves, IInv, TypeOK, FloorSources
<1>5. Files(n) /\ Lives(n) BY FilesSame, LivesSame DEF Poll, IInv, TypeOK
<1> QED BY <1>4, <1>5, NodeStep DEF Poll, IInv, TypeOK, PointerDurable

LEMMA HandRecordKeeps ==
  ASSUME NEW n \in Nodes, NEW c \in Coordinators PROVE Keeps(HandRecord(c, n))
<1> SUFFICES ASSUME IInv, HandRecord(c, n) PROVE IInv' BY DEF Keeps
<1>1. live[c].last \in Records /\ Within(taken, live[c].last.ts)
  BY DEF IInv, TypeOK, FloorSources, Live, Nodes
<1>2. Task("mesh", live[c].last) \in Tasks
      /\ Within(taken, Task("mesh", live[c].last).rec.ts)
  BY <1>1, TaskType DEF Sources
<1>3. Moves
  BY <1>2, BeginStep DEF HandRecord, Moves, IInv, TypeOK, FloorSources
<1>4. Files(n) /\ Lives(n) BY FilesSame, LivesSame DEF HandRecord, IInv, TypeOK
<1> QED BY <1>3, <1>4, NodeStep DEF HandRecord, IInv, TypeOK, PointerDurable

LEMMA PersistOKPersists ==
  ASSUME NEW n, NEW l, NEW h, NEW prov, PersistOK(n, l, h, prov)
  PROVE  Persist(n, l, h, prov)
BY DEF PersistOK, Persist, WritePointer

LEMMA ConfirmDurabilityKeeps ==
  ASSUME NEW n \in Nodes, NEW t \in tasks[n] PROVE Keeps(ConfirmDurability(n, t))
<1> SUFFICES ASSUME IInv, ConfirmDurability(n, t) PROVE IInv' BY DEF Keeps
<1>1. PICK p \in live[n].pend :
       \/ PersistOK(n, live[n], p.hash, p.prov) /\ UNCHANGED <<tasks, pub>>
       \/ PersistFails(n, live[n], p.hash, p.prov) /\ Done(n, t, "Superseded")
       \/ /\ Done(n, t, "Superseded")
          /\ UNCHANGED <<live, file, disk, blobs, faults, owed>>
  BY DEF ConfirmDurability
<1>2. p.hash \in Hashes /\ p.prov \in Provenance BY SoundNow DEF Unconfirmed
<1>3. Moves BY <1>1, DoneStep, MovesSame
<1>4. CASE Persist(n, live[n], p.hash, p.prov)
  BY <1>2, <1>3, <1>4, SoundNow, PersistStep, NodeStep
     DEF ConfirmDurability, IInv, TypeOK
<1>5. CASE UNCHANGED <<live, file, disk, blobs, faults, owed>>
  BY <1>3, <1>5, FilesSame, LivesSame, NodeStep
     DEF ConfirmDurability, IInv, TypeOK, PointerDurable
<1> QED BY <1>1, <1>4, <1>5, PersistOKPersists DEF PersistFails

LEMMA FetchFailsKeeps ==
  ASSUME NEW n \in Nodes, NEW t \in tasks[n] PROVE Keeps(FetchFails(n, t))
<1> SUFFICES ASSUME IInv, FetchFails(n, t) PROVE IInv' BY DEF Keeps
<1>1. faults' \in 0..MaxFaults BY FaultType DEF FetchFails, IInv, TypeOK
<1>2. Moves BY DoneStep DEF FetchFails
<1>3. Files(n) /\ Lives(n) BY <1>1, FilesSame, LivesSame DEF FetchFails
<1> QED BY <1>2, <1>3, NodeStep DEF FetchFails, IInv, TypeOK, PointerDurable

LEMMA FloorSound ==
  ASSUME NEW l, Sound(l), NEW ts \in 0..MaxClock, Within(taken, ts), NEW r,
         r = [l EXCEPT !.floor = Higher(@, ts)]
  PROVE  Sound(r) /\ r.pend = l.pend
<1> DEFINE f == Higher(l.floor, ts)
<1>1. l \in Live /\ l.floor \in 0..MaxClock BY DEF Sound, Live
<1>2. f \in 0..MaxClock /\ Within(taken, f) BY <1>1, HigherWithin DEF Sound
<1>3. r = [l EXCEPT !.floor = f] BY <1>1 DEF Live
<1> HIDE DEF f
<1>4. r.floor = f /\ r.last = l.last /\ r.pend = l.pend /\ r \in Live
  BY <1>1, <1>2, <1>3 DEF Live
<1> QED BY <1>2, <1>4 DEF Sound

LEMMA ObserveCurrentStep ==
  ASSUME IInv, NEW n \in Nodes, NEW t \in tasks[n], ObserveCurrent(n, t),
         live[n].pend = {}
  PROVE  /\ Files(n) /\ Lives(n) /\ Moves /\ blobs' \in [Nodes -> SUBSET Hashes]
         /\ phase[n] \in {"up", "restoring"} /\ live'[n].pend = {} =>
              disk'[n].hash = file'[n].hash
<1> DEFINE l == [live[n] EXCEPT !.floor = Higher(@, t.rec.ts)]
           s == Pointer(n, t.rec.hash, "published", t.rec.ts)
<1>1. Moves BY DoneStep DEF ObserveCurrent
<1>2. Sound(l) /\ l.pend = {} BY TaskFacts, SoundNow, FloorSound
<1>3. s \in Saved /\ Within(taken, s.floor) /\ s.hash = t.rec.hash
  BY SMTT(30), TaskFacts, PointerType DEF Provenance
<1>4. phase[n] \in {"up", "restoring"} => disk[n].hash = file[n].hash
  BY DEF IInv, PointerDurable
<1>5. CASE /\ file[n].hash = t.rec.hash
           /\ live' = [live EXCEPT ![n] = l]
           /\ IF RecordIsNewer(t.rec.ts, live[n].floor)
              THEN SaveOK(n, s, {}) \/ SaveFails(n, s)
              ELSE UNCHANGED <<file, disk, faults, owed>>
           /\ UNCHANGED blobs
  <2> HIDE DEF l, s
  <2>1. Lives(n) BY <1>2, <1>5, LivesStep
  <2>2. CASE SaveOK(n, s, {}) BY <1>1, <1>3, <1>5, <2>1, <2>2, SaveOKStep DEF IInv, TypeOK
  <2>3. CASE SaveFails(n, s)
    BY <1>1, <1>3, <1>4, <1>5, <2>1, <2>3, SaveFailsStep DEF IInv, TypeOK
  <2>4. CASE UNCHANGED <<file, disk, faults, owed>>
    BY <1>1, <1>4, <1>5, <2>1, <2>4, FilesSame DEF IInv, TypeOK
  <2> QED BY <1>5, <2>2, <2>3, <2>4
<1>6. CASE Persist(n, l, t.rec.hash, "published")
  <2> HIDE DEF l, s
  <2> QED BY <1>1, <1>2, <1>6, TaskFacts, PersistStep DEF Provenance
<1> QED BY <1>5, <1>6 DEF ObserveCurrent

LEMMA ApplyRecordKeeps ==
  ASSUME NEW n \in Nodes, NEW t \in tasks[n] PROVE Keeps(ApplyRecord(n, t))
<1> SUFFICES ASSUME IInv, ApplyRecord(n, t) PROVE IInv' BY DEF Keeps
<1>1. CASE ObserveCurrent(n, t)
  BY <1>1, ObserveCurrentStep, NodeStep DEF ApplyRecord, IInv, TypeOK
<1>2. ASSUME UNCHANGED <<live, file, disk, blobs, faults, owed>>, Moves
      PROVE  IInv'
  BY <1>2, FilesSame, LivesSame, NodeStep
     DEF ApplyRecord, IInv, TypeOK, PointerDurable
<1>3. ASSUME NEW o, Done(n, t, o) PROVE Moves BY <1>3, DoneStep
<1>4. ASSUME tasks' = [tasks EXCEPT ![n] = (@ \ {t}) \cup
               {[t EXCEPT !.st = "fetching", !.gen = live[n].group]}],
             UNCHANGED pub
      PROVE  Moves
  <2> DEFINE u == [t EXCEPT !.st = "fetching", !.gen = live[n].group]
  <2>1. t \in Tasks /\ live[n].group \in Hashes BY TaskFacts, SoundNow
  <2>2. u \in Tasks /\ u.rec = t.rec BY <2>1 DEF Tasks
  <2> HIDE DEF u
  <2>3. tasks' = [tasks EXCEPT ![n] = (@ \ {t}) \cup {u}] BY <1>4 DEF u
  <2>4. tasks' \in [Nodes -> SUBSET Tasks] BY <2>2, <2>3, SMT DEF IInv, TypeOK
  <2>5. \A k \in Nodes : tasks'[k] \subseteq tasks[k] \cup {u} /\ (k # n => tasks'[k] = tasks[k])
    BY <2>3, SMT DEF IInv, TypeOK
  <2>6. Within(taken, u.rec.ts) BY <2>2, TaskFacts
  <2> QED BY <1>4, <2>4, <2>5, <2>6 DEF Moves, IInv, TypeOK, FloorSources
<1> QED BY <1>1, <1>2, <1>3, <1>4 DEF ApplyRecord

LEMMA LeaveStep ==
  ASSUME IInv, NEW n \in Nodes, Leave(n)
  PROVE  /\ Moves /\ editing' \subseteq Coordinators
         /\ phase' \in [Nodes -> {"down", "resolved", "restoring", "up", "gone"}]
         /\ phase'[n] = "gone" /\ \A k \in Nodes \ {n} : phase'[k] = phase[k]
<1>1. NoRecord \in Records
  BY SMTT(30), RecordSyncAssumption DEF NoRecord, Records, Hashes
<1>2. [st |-> "idle", rec |-> NoRecord] \in Publisher BY <1>1 DEF Publisher
<1>3. /\ pub' \in [Coordinators -> Publisher]
      /\ \A c \in Coordinators : pub'[c].st = "answered" => pub'[c] = pub[c]
  <2> DEFINE idle == [st |-> "idle", rec |-> NoRecord]
  <2>1. idle \in Publisher /\ idle.st = "idle" BY <1>2
  <2>2. pub' = pub \/ pub' = [pub EXCEPT ![n] = idle] BY DEF Leave
  <2> HIDE DEF idle
  <2> QED BY <2>1, <2>2, SMT DEF IInv, TypeOK
<1>4. /\ tasks' \in [Nodes -> SUBSET Tasks]
      /\ \A k \in Nodes : tasks'[k] \subseteq tasks[k]
  BY SMT DEF Leave, IInv, TypeOK
<1>5. Moves BY <1>3, <1>4 DEF Moves, IInv, FloorSources
<1>6. /\ phase' \in [Nodes -> {"down", "resolved", "restoring", "up", "gone"}]
      /\ phase'[n] = "gone" /\ \A k \in Nodes \ {n} : phase'[k] = phase[k]
  BY SMT DEF Leave, IInv, TypeOK
<1> QED BY <1>5, <1>6 DEF Leave, IInv, TypeOK

LEMMA CommitGroupBlobKeeps ==
  ASSUME NEW n \in Nodes, NEW t \in tasks[n] PROVE Keeps(CommitGroupBlob(n, t))
<1> SUFFICES ASSUME IInv, CommitGroupBlob(n, t) PROVE IInv' BY DEF Keeps
<1> DEFINE h == t.rec.hash
           l == [live[n] EXCEPT !.group = h, !.conv = h, !.floor = t.rec.ts,
                                !.made = {}]
<1>1. h \in Hashes /\ t.rec.ts \in 0..MaxClock /\ Within(taken, t.rec.ts)
  BY TaskFacts
<1>2. ASSUME blobs' = [blobs EXCEPT ![n] = @ \cup {h}]
      PROVE  blobs' \in [Nodes -> SUBSET Hashes]
  <2> HIDE DEF h
  <2> QED BY <1>1, <1>2, SMT DEF IInv, TypeOK
<1>3. ASSUME NEW o, Done(n, t, o), blobs' = [blobs EXCEPT ![n] = @ \cup {h}],
             UNCHANGED <<phase, live, file, disk, editing, faults, owed>>
      PROVE  IInv'
  BY <1>2, <1>3, DoneStep, FilesSame, LivesSame, NodeStep
     DEF CommitGroupBlob, IInv, TypeOK, PointerDurable
<1>4. ASSUME Leave(n), UNCHANGED <<live, file, disk, blobs, faults, owed>>
      PROVE  IInv'
  BY <1>4, LeaveStep, FilesSame, LivesSame, NodeStep
     DEF CommitGroupBlob, IInv, TypeOK
<1>5. ASSUME blobs' = [blobs EXCEPT ![n] = @ \cup {h}],
             WritePointer(n, l, h, "published"), Done(n, t, "Applied"),
             UNCHANGED <<phase, editing>>
      PROVE  IInv'
  <2>1. Sound(l)
    <3>1. live[n] \in Live BY SoundNow DEF Sound
    <3>2. l.floor = t.rec.ts /\ l.last = live[n].last BY <3>1 DEF Live
    <3>3. l \in Live BY <1>1, <3>1 DEF Live
    <3> QED BY <1>1, <3>2, <3>3, SoundNow DEF Sound
  <2> HIDE DEF l, h
  <2>2. Files(n) /\ Lives(n) /\ (live'[n].pend = {} => disk'[n].hash = file'[n].hash)
    BY <1>1, <1>5, <2>1, WritePointerStep DEF Provenance
  <2> QED BY <1>2, <1>5, <2>2, DoneStep, NodeStep DEF CommitGroupBlob, IInv, TypeOK
<1> QED BY <1>3, <1>4, <1>5 DEF CommitGroupBlob

-----------------------------------------------------------------------------
(* The publisher, the restart, and the theorems. *)

LEMMA IdleType == Idle \in Publisher /\ Idle.st = "idle"
<1>1. NoRecord \in Records
  BY SMTT(30), RecordSyncAssumption DEF NoRecord, Records, Hashes
<1> QED BY <1>1 DEF Idle, Publisher

\* A publisher that is idle or at work on no answered record.
LEMMA PubStep ==
  ASSUME IInv, NEW c \in Coordinators, NEW p \in Publisher, p.st # "answered",
         pub' = [pub EXCEPT ![c] = p]
  PROVE  /\ pub' \in [Coordinators -> Publisher]
         /\ \A k \in Coordinators :
              pub'[k].st = "answered" => Within(taken, pub'[k].rec.ts)
<1>1. pub \in [Coordinators -> Publisher] BY DEF IInv, TypeOK
<1>2. pub' \in [Coordinators -> Publisher] BY <1>1, SMT
<1>3. pub'[c] = p /\ \A k \in Coordinators \ {c} : pub'[k] = pub[k] BY <1>1, SMT
<1> QED BY <1>2, <1>3 DEF IInv, FloorSources

\* The same for its state alone.
LEMMA PubStStep ==
  ASSUME IInv, NEW c \in Coordinators, NEW st \in {"idle", "syncing", "ready"},
         pub' = [pub EXCEPT ![c].st = st]
  PROVE  /\ pub' \in [Coordinators -> Publisher]
         /\ \A k \in Coordinators :
              pub'[k].st = "answered" => Within(taken, pub'[k].rec.ts)
<1> DEFINE p == [pub[c] EXCEPT !.st = st]
<1>1. pub \in [Coordinators -> Publisher] BY DEF IInv, TypeOK
<1>2. p \in Publisher /\ p.st # "answered" BY <1>1, SMT DEF Publisher
<1>3. pub' = [pub EXCEPT ![c] = p] BY <1>1, SMT
<1> HIDE DEF p
<1> QED BY <1>2, <1>3, PubStep

LEMMA PublisherWakesKeeps ==
  ASSUME NEW c \in Coordinators PROVE Keeps(PublisherWakes(c))
<1> SUFFICES ASSUME IInv, PublisherWakes(c) PROVE IInv' BY DEF Keeps
<1>1. c \in Nodes BY DEF Nodes
<1>2. Moves
  <2>1. CASE pub' = [pub EXCEPT ![c].st = "ready"] /\ UNCHANGED tasks
    BY <2>1, PubStStep DEF Moves, IInv, TypeOK, FloorSources
  <2>2. CASE /\ \E r \in Reads : Begin(c, Task("renewal", r))
             /\ pub' = [pub EXCEPT ![c].st = "syncing"]
    <3>1. PICK r \in Reads : Begin(c, Task("renewal", r)) BY <2>2
    <3>2. r \in taken /\ r \in Records /\ r.ts <= r.ts BY SMTT(30), NewestRead DEF Records
    <3>3. Task("renewal", r) \in Tasks /\ Within(taken, Task("renewal", r).rec.ts)
      BY <3>2, TaskType DEF Within, Sources
    <3> QED BY <1>1, <2>2, <3>1, <3>3, BeginStep, PubStStep DEF Moves
  <2> QED BY <2>1, <2>2 DEF PublisherWakes
<1>3. Files(c) /\ Lives(c) BY FilesSame, LivesSame DEF PublisherWakes, IInv, TypeOK
<1> QED BY <1>1, <1>2, <1>3, NodeStep DEF PublisherWakes, IInv, TypeOK, PointerDurable

\* A record is stamped within the bound, and its publisher has no answer yet.
LEMMA SignRecordStep ==
  ASSUME IInv, NEW c \in Coordinators, NEW h \in Hashes, SignRecord(c, h)
  PROVE  /\ clock' \in 2..MaxClock /\ pub' \in [Coordinators -> Publisher]
         /\ \A k \in Coordinators :
              pub'[k].st = "answered" => Within(taken, pub'[k].rec.ts)
<1> DEFINE p == [st |-> "signed", rec |-> [hash |-> h, ts |-> clock + 1]]
<1>1. clock \in 2..MaxClock /\ clock < MaxClock BY DEF SignRecord, IInv, TypeOK
<1>2. clock + 1 \in 2..MaxClock /\ clock + 1 \in 0..MaxClock
  BY SMTT(30), <1>1, RecordSyncAssumption
<1>3. p \in Publisher /\ p.st = "signed" BY <1>2 DEF Publisher, Records
<1>4. pub' = [pub EXCEPT ![c] = p] BY DEF SignRecord
<1> HIDE DEF p
<1> QED BY <1>2, <1>3, <1>4, PubStep DEF SignRecord

LEMMA RetryType ==
  ASSUME IInv, NEW n \in Nodes, NEW h, NEW prov \in Provenance
  PROVE  RetryProvenance(n, h, prov) \in Provenance
<1>1. live[n].pend \subseteq Unconfirmed BY SoundNow
<1>2. CASE \E p \in live[n].pend : p.hash = h
  <2> DEFINE q == CHOOSE p \in live[n].pend : p.hash = h
  <2>1. q \in live[n].pend BY <1>2
  <2> QED BY <1>1, <1>2, <2>1 DEF RetryProvenance, Unconfirmed
<1> QED BY <1>2 DEF RetryProvenance

LEMMA SignKeeps ==
  ASSUME NEW c \in Coordinators PROVE Keeps(Sign(c))
<1> SUFFICES ASSUME IInv, Sign(c) PROVE IInv' BY DEF Keeps
<1> DEFINE h == live[c].conv
           prov == RetryProvenance(c, h, "authored")
<1>1. c \in Nodes /\ h \in Hashes /\ prov \in Provenance
  BY SoundNow, RetryType DEF Nodes, Provenance
<1>2. ASSUME SignRecord(c, h)
      PROVE  Moves /\ clock' \in 2..MaxClock
  BY <1>1, <1>2, SignRecordStep DEF Sign, Moves, IInv, TypeOK, FloorSources
<1>3. ASSUME pub' = [pub EXCEPT ![c] = Idle], UNCHANGED clock
      PROVE  Moves /\ clock' \in 2..MaxClock
  BY <1>3, IdleType, PubStep DEF Sign, Moves, IInv, TypeOK, FloorSources
<1>4. Moves /\ clock' \in 2..MaxClock BY <1>2, <1>3 DEF Sign
<1>5. CASE Persist(c, live[c], h, prov)
  <2> HIDE DEF h, prov
  <2> QED BY <1>1, <1>4, <1>5, SoundNow, PersistStep, NodeStep DEF Sign, IInv, TypeOK
<1>6. CASE UNCHANGED <<live, file, disk, blobs, faults, owed>>
  BY <1>1, <1>4, <1>6, FilesSame, LivesSame, NodeStep
     DEF Sign, IInv, TypeOK, PointerDurable
<1> QED BY <1>5, <1>6, PersistOKPersists DEF Sign, PersistFails

-----------------------------------------------------------------------------
(* The relay. *)

\* The relay keeps what it had, has a newest record still, and has one at least
\* as new as r.  Only the history of the live states changes.
LEMMA RelayTakesStep ==
  ASSUME IInv, NEW r \in Records, RelayTakes(r)
  PROVE  /\ taken' \subseteq Records /\ taken' # {} /\ taken \subseteq taken'
         /\ HasNewest' /\ Within(taken', r.ts)
         /\ live' \in [Nodes -> Live] /\ owed' \in [Nodes -> SUBSET Hashes]
         /\ \A k \in Nodes : /\ live'[k].floor = live[k].floor
                             /\ live'[k].last = live[k].last
                             /\ live'[k].pend = live[k].pend
<1>1. r.ts \in Nat /\ \A q \in taken : q.ts \in Nat
  BY SMTT(30) DEF IInv, TypeOK, Records
<1>2. taken' \subseteq Records /\ taken' # {} /\ taken \subseteq taken'
  BY DEF RelayTakes, IInv, TypeOK
<1>3. ASSUME \A q \in taken : q.ts < r.ts
      PROVE  HasNewest' /\ Within(taken', r.ts)
  <2>1. taken' = taken \cup {r} BY <1>3 DEF RelayTakes
  <2> QED BY SMTT(30), <1>1, <1>3, <2>1 DEF HasNewest, Within
<1>4. ASSUME ~\A q \in taken : q.ts < r.ts
      PROVE  HasNewest' /\ Within(taken', r.ts)
  <2>1. taken' = taken BY <1>4 DEF RelayTakes
  <2>2. \E q \in taken : r.ts <= q.ts BY SMTT(30), <1>1, <1>4
  <2> QED BY <2>1, <2>2 DEF IInv, HasNewest, Within
<1>5. HasNewest' /\ Within(taken', r.ts) BY <1>3, <1>4
<1>6. ASSUME NEW k \in Nodes
      PROVE  /\ live'[k] \in Live /\ live'[k].floor = live[k].floor
             /\ live'[k].last = live[k].last /\ live'[k].pend = live[k].pend
  <2>1. live[k] \in Live BY DEF IInv, TypeOK
  <2>2. live'[k] = [live[k] EXCEPT !.made = @ \ {r.hash}] BY DEF RelayTakes
  <2> QED BY <2>1, <2>2, SMT DEF Live
<1>7. live' \in [Nodes -> Live]
  <2>1. live' = [k \in Nodes |-> live'[k]] BY DEF RelayTakes
  <2> QED BY <1>6, <2>1
<1>8. owed' \in [Nodes -> SUBSET Hashes] BY DEF RelayTakes, IInv, TypeOK
<1> QED BY <1>2, <1>5, <1>6, <1>7, <1>8

LEMMA WithinGrows ==
  ASSUME NEW T, NEW U, T \subseteq U, NEW ts, Within(T, ts) PROVE Within(U, ts)
BY DEF Within

\* A step in which only the relay and the publishers change.
LEMMA RelayStep ==
  ASSUME IInv, NEW r \in Records, RelayTakes(r),
         pub' \in [Coordinators -> Publisher],
         \A c \in Coordinators : pub'[c].st = "answered" =>
           pub'[c] = pub[c] \/ pub'[c].rec = r,
         \A c \in Coordinators : pub'[c].st = "answered" /\ pub'[c] = pub[c] =>
           pub[c].st = "answered",
         faults' \in 0..MaxFaults,
         UNCHANGED <<clock, phase, file, disk, blobs, tasks, editing, edits>>
  PROVE  IInv'
<1>1. TypeOK' BY RelayTakesStep DEF IInv, TypeOK
<1>2. PointerDurable' BY RelayTakesStep DEF IInv, PointerDurable
<1>3. ASSUME NEW n \in Nodes
      PROVE  /\ Within(taken', live'[n].floor) /\ Within(taken', live'[n].last.ts)
             /\ Within(taken', file'[n].floor) /\ Within(taken', disk'[n].floor)
             /\ \A t \in tasks'[n] : Within(taken', t.rec.ts)
  BY SMTT(30), <1>3, RelayTakesStep, WithinGrows DEF IInv, FloorSources
<1>4. ASSUME NEW c \in Coordinators, pub'[c].st = "answered"
      PROVE  Within(taken', pub'[c].rec.ts)
  BY SMTT(30), <1>4, RelayTakesStep, WithinGrows DEF IInv, FloorSources
<1>5. FloorSources' BY <1>3, <1>4 DEF FloorSources
<1> QED BY <1>1, <1>2, <1>5, RelayTakesStep DEF IInv

LEMMA RelayAnswersKeeps ==
  ASSUME NEW c \in Coordinators PROVE Keeps(RelayAnswers(c))
<1> SUFFICES ASSUME IInv, RelayAnswers(c) PROVE IInv' BY DEF Keeps
<1>1. pub \in [Coordinators -> Publisher] /\ pub[c].rec \in Records
  BY DEF IInv, TypeOK, Publisher
<1> DEFINE p == [pub[c] EXCEPT !.st = "answered"]
<1>2. p \in Publisher /\ p.rec = pub[c].rec BY <1>1, SMT DEF Publisher
<1>3. pub' = [pub EXCEPT ![c] = p] BY <1>1, SMT DEF RelayAnswers
<1> HIDE DEF p
<1>4. /\ pub' \in [Coordinators -> Publisher] /\ pub'[c] = p
      /\ \A k \in Coordinators \ {c} : pub'[k] = pub[k]
  BY <1>1, <1>2, <1>3, SMT
<1>5. pub[c].st = "signed" BY DEF RelayAnswers
<1> QED BY <1>1, <1>2, <1>4, <1>5, RelayStep DEF RelayAnswers, IInv, TypeOK

LEMMA PublishFailsKeeps ==
  ASSUME NEW c \in Coordinators PROVE Keeps(PublishFails(c))
<1> SUFFICES ASSUME IInv, PublishFails(c) PROVE IInv' BY DEF Keeps
<1>1. /\ pub \in [Coordinators -> Publisher] /\ pub[c].rec \in Records
      /\ faults' \in 0..MaxFaults
  BY FaultType DEF IInv, TypeOK, Publisher, PublishFails
<1>2. /\ pub' \in [Coordinators -> Publisher] /\ pub'[c] = Idle
      /\ \A k \in Coordinators \ {c} : pub'[k] = pub[k]
  BY <1>1, IdleType, SMT DEF PublishFails
<1>3. CASE RelayTakes(pub[c].rec)
  BY <1>1, <1>2, <1>3, IdleType, RelayStep DEF PublishFails
<1>4. CASE UNCHANGED <<taken, owed, live>>
  <2>1. Moves
    BY <1>2, IdleType DEF Moves, PublishFails, IInv, TypeOK, FloorSources
  <2>2. c \in Nodes BY DEF Nodes
  <2>3. Files(c) /\ Lives(c) BY <1>1, <1>4, FilesSame, LivesSame DEF PublishFails
  <2> QED BY <1>4, <2>1, <2>2, <2>3, NodeStep
          DEF PublishFails, IInv, TypeOK, PointerDurable
<1> QED BY <1>3, <1>4 DEF PublishFails

LEMMA MarkPublishedKeeps ==
  ASSUME NEW c \in Coordinators PROVE Keeps(MarkPublished(c))
<1> SUFFICES ASSUME IInv, MarkPublished(c) PROVE IInv' BY DEF Keeps
<1> DEFINE r == pub[c].rec
           f == Higher(live[c].floor, r.ts)
           g == Higher(file[c].floor, r.ts)
           last == IF live[c].last.ts < r.ts THEN r ELSE live[c].last
           prov == IF file[c].hash = r.hash THEN "published" ELSE file[c].prov
           s == [hash |-> file[c].hash, prov |-> prov, floor |-> g]
           l == [live[c] EXCEPT !.floor = f, !.last = last]
<1>1. /\ c \in Nodes /\ r \in Records /\ r.ts \in 0..MaxClock /\ Within(taken, r.ts)
      /\ pub \in [Coordinators -> Publisher]
  BY DEF MarkPublished, IInv, TypeOK, FloorSources, Publisher, Records, Nodes
<1>2. /\ live[c] \in Live /\ live[c].floor \in 0..MaxClock
      /\ Within(taken, live[c].floor) /\ Within(taken, live[c].last.ts)
      /\ live[c].last \in Records /\ live[c].made \in SUBSET Hashes
  BY <1>1, SoundNow DEF Sound, Live
<1>3. /\ file[c].hash \in Hashes /\ file[c].prov \in Provenance
      /\ file[c].floor \in 0..MaxClock /\ Within(taken, file[c].floor)
  BY <1>1 DEF IInv, TypeOK, FloorSources, Saved
<1>4. /\ f \in 0..MaxClock /\ Within(taken, f)
      /\ g \in 0..MaxClock /\ Within(taken, g)
      /\ last \in Records /\ Within(taken, last.ts) /\ prov \in Provenance
  BY <1>1, <1>2, <1>3, HigherWithin DEF Provenance
<1>5. live' = [live EXCEPT ![c] = l]
  <2>1. live \in [Nodes -> Live] BY DEF IInv, TypeOK
  <2>2. live' = [live EXCEPT ![c].floor = Higher(@, r.ts),
                             ![c].last = IF @.ts < r.ts THEN r ELSE @]
    BY DEF MarkPublished
  <2> QED BY <1>1, <1>2, <2>1, <2>2 DEF Live
<1>6. SaveOK(c, s, live[c].made) \/ SaveFails(c, s) BY DEF MarkPublished
<1> HIDE DEF r, f, g, last, prov
<1>7. Sound(l) /\ l.pend = live[c].pend
  <2>1. /\ l.floor = f /\ l.last = last /\ l.pend = live[c].pend /\ l \in Live
    BY <1>2, <1>4 DEF Live
  <2> QED BY <1>4, <2>1 DEF Sound
<1>8. s \in Saved /\ s.hash = file[c].hash /\ Within(taken, s.floor)
  BY <1>3, <1>4 DEF Saved
<1> HIDE DEF l, s
<1>9. Lives(c) /\ live'[c].pend = live[c].pend
  BY <1>1, <1>5, <1>7, LivesStep
<1>10. /\ Files(c) /\ file'[c].hash = file[c].hash
       /\ disk'[c].hash = disk[c].hash \/ disk'[c].hash = file[c].hash
  BY <1>1, <1>2, <1>6, <1>8, SaveOKStep, SaveFailsStep
<1>11. Moves
  BY <1>1, IdleType, PubStep DEF Moves, MarkPublished, IInv, TypeOK, FloorSources
<1> QED BY <1>1, <1>9, <1>10, <1>11, NodeStep
        DEF MarkPublished, IInv, TypeOK, PointerDurable

-----------------------------------------------------------------------------
(* Crash and restart. *)

LEMMA EmptySound ==
  ASSUME IInv PROVE Sound(EmptyLive) /\ Within(taken, 0)
<1>1. PICK r \in taken : r \in Records BY DEF IInv, TypeOK
<1>2. Within(taken, 0) BY SMTT(30), <1>1 DEF Within, Records
<1>3. NoRecord \in Records /\ NoRecord.ts = 0
  BY SMTT(30), RecordSyncAssumption DEF NoRecord, Records, Hashes
<1>4. EmptyLive \in Live /\ EmptyLive.floor = 0 /\ EmptyLive.last = NoRecord
  <2>1. {} \in Hashes /\ 0 \in 0..MaxClock BY SMTT(30), RecordSyncAssumption DEF Hashes
  <2> QED BY <1>3, <2>1 DEF EmptyLive, Live
<1> QED BY <1>2, <1>3, <1>4 DEF Sound

LEMMA PhaseStep ==
  ASSUME IInv, NEW n \in Nodes,
         NEW p \in {"down", "resolved", "restoring", "up", "gone"},
         phase' = [phase EXCEPT ![n] = p]
  PROVE  /\ phase' \in [Nodes -> {"down", "resolved", "restoring", "up", "gone"}]
         /\ phase'[n] = p /\ \A k \in Nodes \ {n} : phase'[k] = phase[k]
BY SMT DEF IInv, TypeOK

LEMMA CrashKeeps ==
  ASSUME NEW n \in Nodes PROVE Keeps(Crash(n))
<1> SUFFICES ASSUME IInv, Crash(n) PROVE IInv' BY DEF Keeps
<1>1. PICK s \in {file[n], disk[n]} : OnDisk(n, s, live[n].made) BY DEF Crash
<1>2. s \in Saved /\ Within(taken, s.floor) BY DEF IInv, TypeOK, FloorSources
<1>3. faults' \in 0..MaxFaults BY FaultType DEF Crash, IInv, TypeOK
<1>4. Files(n) BY <1>1, <1>2, <1>3, OnDiskStep, SoundNow
<1>5. Lives(n) BY EmptySound, LivesStep DEF Crash
<1>6. /\ tasks' \in [Nodes -> SUBSET Tasks]
      /\ \A k \in Nodes : tasks'[k] \subseteq tasks[k]
  BY SMT DEF Crash, IInv, TypeOK
<1>7. /\ pub' \in [Coordinators -> Publisher]
      /\ \A k \in Coordinators : pub'[k].st = "answered" => Within(taken, pub'[k].rec.ts)
  BY IdleType, PubStep DEF Crash, IInv, TypeOK, FloorSources
<1>8. Moves BY <1>6, <1>7 DEF Moves, IInv, FloorSources
<1>9. phase' = [phase EXCEPT ![n] = "down"] BY DEF Crash
<1>10. editing' \subseteq Coordinators BY DEF Crash, IInv, TypeOK
<1> QED BY <1>4, <1>5, <1>8, <1>9, <1>10, PhaseStep, NodeStep DEF Crash, IInv, TypeOK

LEMMA TargetType ==
  ASSUME IInv, NEW n \in Nodes, NEW target \in RestoreTargets(n)
  PROVE  target \in Unconfirmed /\ target.hash \in Hashes
<1>1. file[n].hash \in Hashes BY DEF IInv, TypeOK, Saved
<1>2. \A r \in Reads : r.hash \in Hashes BY NewestRead DEF Records
<1> QED BY SMTT(30), <1>1, <1>2 DEF RestoreTargets, Unconfirmed, Provenance

LEMMA BlobsStep ==
  ASSUME IInv, NEW n \in Nodes, NEW h \in Hashes,
         blobs' = [blobs EXCEPT ![n] = @ \cup {h}]
  PROVE  blobs' \in [Nodes -> SUBSET Hashes]
BY SMT DEF IInv, TypeOK

LEMMA ResolveRestoreKeeps ==
  ASSUME NEW n \in Nodes PROVE Keeps(ResolveRestore(n))
<1> SUFFICES ASSUME IInv, ResolveRestore(n) PROVE IInv' BY DEF Keeps
<1>1. PICK target \in RestoreTargets(n) :
        /\ blobs' = [blobs EXCEPT ![n] = @ \cup {target.hash}]
        /\ live' = [live EXCEPT ![n] =
             [EmptyLive EXCEPT !.group = target.hash \ {n}, !.conv = target.hash,
                               !.pend = {target}, !.floor = file[n].floor]]
  BY DEF ResolveRestore
<1>2. /\ target \in Unconfirmed /\ target.hash \in Hashes
      /\ target.hash \ {n} \in Hashes
  BY TargetType DEF Hashes
<1>3. Lives(n)
  <2> DEFINE g == target.hash \ {n}
             h == target.hash
             q == {target}
             l == [EmptyLive EXCEPT !.group = g, !.conv = h, !.pend = q,
                                    !.floor = file[n].floor]
  <2>1. g \in Hashes /\ h \in Hashes /\ q \in SUBSET Unconfirmed BY <1>2
  <2>2. live' = [live EXCEPT ![n] = l] BY <1>1
  <2> HIDE DEF g, h, q
  <2>3. EmptyLive \in Live BY EmptySound DEF Sound
  <2>4. file[n].floor \in 0..MaxClock /\ Within(taken, file[n].floor)
    BY DEF IInv, TypeOK, FloorSources, Saved
  <2>5. l.floor = file[n].floor /\ l.last = EmptyLive.last /\ l \in Live
    BY <2>1, <2>3, <2>4 DEF Live
  <2>6. Sound(l) BY <2>4, <2>5, EmptySound DEF Sound
  <2> HIDE DEF l
  <2> QED BY <2>2, <2>6, LivesStep
<1>4. blobs' \in [Nodes -> SUBSET Hashes] BY <1>1, <1>2, BlobsStep
<1>5. phase' = [phase EXCEPT ![n] = "resolved"] BY DEF ResolveRestore
<1>6. Moves /\ Files(n) BY MovesSame, FilesSame DEF ResolveRestore, IInv, TypeOK
<1> QED BY <1>3, <1>4, <1>5, <1>6, PhaseStep, NodeStep DEF ResolveRestore, IInv, TypeOK

LEMMA SealRestoredKeeps ==
  ASSUME NEW n \in Nodes PROVE Keeps(SealRestored(n))
<1> SUFFICES ASSUME IInv, SealRestored(n) PROVE IInv' BY DEF Keeps
<1> DEFINE g == live[n].group
<1>1. PICK target \in live[n].pend, prov \in Provenance :
        LET s == [hash |-> g, prov |-> prov, floor |-> file[n].floor]
        IN  /\ blobs' = [blobs EXCEPT ![n] = @ \cup {g}]
            /\ \/ /\ SaveOK(n, s, IF g = target.hash THEN {} ELSE {g})
                  /\ SignRecord(n, g)
                  /\ phase' = [phase EXCEPT ![n] = "restoring"]
                  /\ live' = [live EXCEPT ![n].conv = g, ![n].pend = {}]
               \/ /\ SaveFails(n, s)
                  /\ phase' = [phase EXCEPT ![n] = "down"]
                  /\ live' = [live EXCEPT ![n] = EmptyLive]
                  /\ UNCHANGED <<clock, pub>>
  BY DEF SealRestored, Provenance
<1> DEFINE s == [hash |-> g, prov |-> prov, floor |-> file[n].floor]
           made == IF g = target.hash THEN {} ELSE {g}
<1>2. /\ g \in Hashes /\ n \in Coordinators /\ target.hash \in Hashes
      /\ file[n].floor \in 0..MaxClock /\ Within(taken, file[n].floor)
  BY SMTT(30), SoundNow DEF SealRestored, Unconfirmed, IInv, TypeOK, FloorSources, Saved
<1>3. s \in Saved /\ s.floor = file[n].floor /\ made \in SUBSET Hashes
  BY <1>2 DEF Saved
<1>4. blobs' \in [Nodes -> SUBSET Hashes] BY <1>1, <1>2, BlobsStep
<1>5. CASE /\ SaveOK(n, s, made) /\ SignRecord(n, g)
           /\ phase' = [phase EXCEPT ![n] = "restoring"]
           /\ live' = [live EXCEPT ![n].conv = g, ![n].pend = {}]
  <2> DEFINE l == [live[n] EXCEPT !.conv = g, !.pend = {}]
  <2>1. live \in [Nodes -> Live] /\ live[n] \in Live BY DEF IInv, TypeOK
  <2> HIDE DEF g, s, made
  <2>2. live' = [live EXCEPT ![n] = l] BY <1>5, <2>1
  <2>3. l \in Live /\ l.floor = live[n].floor /\ l.last = live[n].last
    BY <1>2, <2>1 DEF Live
  <2>4. Sound(l) BY <2>3, SoundNow DEF Sound
  <2> HIDE DEF l
  <2>5. Lives(n) BY <2>2, <2>4, LivesStep
  <2>6. Files(n) /\ file'[n] = disk'[n] BY <1>2, <1>3, <1>5, SaveOKStep
  <2>7. Moves /\ clock' \in 2..MaxClock
    BY <1>2, <1>5, SignRecordStep DEF SealRestored, Moves, IInv, TypeOK, FloorSources
  <2> QED BY <1>4, <1>5, <2>5, <2>6, <2>7, PhaseStep, NodeStep
          DEF SealRestored, IInv, TypeOK
<1>6. CASE /\ SaveFails(n, s) /\ phase' = [phase EXCEPT ![n] = "down"]
           /\ live' = [live EXCEPT ![n] = EmptyLive] /\ UNCHANGED <<clock, pub>>
  <2> HIDE DEF g, s, made
  <2>1. Lives(n) BY <1>6, EmptySound, LivesStep
  <2>2. Files(n) BY <1>2, <1>3, <1>6, SaveFailsStep
  <2>3. Moves BY <1>6, MovesSame DEF SealRestored
  <2> QED BY <1>4, <1>6, <2>1, <2>2, <2>3, PhaseStep, NodeStep
          DEF SealRestored, IInv, TypeOK
<1> QED BY <1>1, <1>5, <1>6

LEMMA InstallKeeps ==
  ASSUME NEW n \in Nodes PROVE Keeps(Install(n))
<1> SUFFICES ASSUME IInv, Install(n) PROVE IInv' BY DEF Keeps
<1>1. phase' = [phase EXCEPT ![n] = "up"] BY DEF Install
<1>2. Files(n) /\ Lives(n) /\ Moves
  BY FilesSame, LivesSame, MovesSame DEF Install, IInv, TypeOK
<1> QED BY <1>1, <1>2, PhaseStep, NodeStep DEF Install, IInv, TypeOK, PointerDurable

LEMMA MemberStateSound ==
  ASSUME IInv, NEW n \in Nodes, NEW h \in Hashes
  PROVE  Sound(MemberState(n, h))
<1> DEFINE l == MemberState(n, h)
<1>1. EmptyLive \in Live BY EmptySound DEF Sound
<1>2. file[n].floor \in 0..MaxClock /\ Within(taken, file[n].floor)
  BY DEF IInv, TypeOK, FloorSources, Saved
<1>3. l.floor = file[n].floor /\ l.last = EmptyLive.last /\ l \in Live
  BY <1>1, <1>2 DEF Live, MemberState
<1> QED BY <1>2, <1>3, EmptySound DEF Sound

LEMMA WarmResumeKeeps ==
  ASSUME NEW n \in Nodes PROVE Keeps(WarmResume(n))
<1> SUFFICES ASSUME IInv, WarmResume(n) PROVE IInv' BY DEF Keeps
<1>1. /\ file[n] \in Saved /\ file[n].hash \in Hashes
      /\ Within(taken, file[n].floor)
  BY DEF IInv, TypeOK, FloorSources, Saved
<1>2. Lives(n) BY <1>1, MemberStateSound, LivesStep DEF WarmResume
<1>3. Files(n) /\ file'[n] = disk'[n] BY SMTT(30), <1>1, SaveOKStep DEF WarmResume
<1>4. phase' = [phase EXCEPT ![n] = "up"] BY DEF WarmResume
<1>5. Moves BY MovesSame DEF WarmResume
<1> QED BY <1>2, <1>3, <1>4, <1>5, PhaseStep, NodeStep DEF WarmResume, IInv, TypeOK

LEMMA ColdResumeKeeps ==
  ASSUME NEW n \in Nodes PROVE Keeps(ColdResume(n))
<1> SUFFICES ASSUME IInv, ColdResume(n) PROVE IInv' BY DEF Keeps
<1>1. PICK r \in Reads :
        /\ blobs' = [blobs EXCEPT ![n] = @ \cup {r.hash}]
        /\ live' = [live EXCEPT ![n] = MemberState(n, r.hash)]
        /\ SaveOK(n, Pointer(n, r.hash, "published", 0), {})
  BY DEF ColdResume
<1>2. r.hash \in Hashes /\ 0 \in 0..MaxClock
  BY SMTT(30), NewestRead, RecordSyncAssumption DEF Records
<1>3. blobs' \in [Nodes -> SUBSET Hashes] BY <1>1, <1>2, BlobsStep
<1>4. Lives(n) BY <1>1, <1>2, MemberStateSound, LivesStep
<1>5. /\ Pointer(n, r.hash, "published", 0) \in Saved
      /\ Within(taken, Pointer(n, r.hash, "published", 0).floor)
  BY <1>2, EmptySound, PointerType DEF Provenance
<1>6. Files(n) /\ file'[n] = disk'[n] BY SMTT(30), <1>1, <1>5, SaveOKStep
<1>7. phase' = [phase EXCEPT ![n] = "up"] BY DEF ColdResume
<1>8. Moves BY MovesSame DEF ColdResume
<1> QED BY <1>3, <1>4, <1>6, <1>7, <1>8, PhaseStep, NodeStep
        DEF ColdResume, IInv, TypeOK

-----------------------------------------------------------------------------
(* The theorems. *)

LEMMA InitIInv == Init => IInv
<1> SUFFICES ASSUME Init PROVE IInv OBVIOUS
<1>1. MaxClock \in Nat /\ MaxClock >= 2 BY RecordSyncAssumption
<1>2. Members \in Hashes /\ {} \in Hashes BY DEF Hashes, Edits
<1>3. /\ Before \in Records /\ Genesis \in Records /\ taken = {Before, Genesis}
      /\ Before.ts = 1 /\ Genesis.ts = 2
  BY SMTT(30), <1>1, <1>2 DEF Init, Before, Genesis, Records
<1>4. HasNewest BY SMTT(30), <1>3 DEF HasNewest
<1>5. Within(taken, 0) /\ Within(taken, 2) BY SMTT(30), <1>3 DEF Within
<1>6. NoRecord \in Records /\ NoRecord.ts = 0 BY SMTT(30), <1>1, <1>2 DEF NoRecord, Records
<1>7. EmptyLive \in Live /\ EmptyLive.last = NoRecord
  BY SMTT(30), <1>1, <1>2, <1>6 DEF EmptyLive, Live
<1>8. PICK floor \in [Members -> Floors] :
        LET f(n) == IF n \in Members THEN floor[n] ELSE 2
        IN  /\ live = [n \in Nodes |-> [EmptyLive EXCEPT !.floor = f(n)]]
            /\ file = [n \in Nodes |-> [hash |-> {}, prov |-> "published",
                                        floor |-> f(n)]]
            /\ disk = file
  BY DEF Init
<1> DEFINE f(n) == IF n \in Members THEN floor[n] ELSE 2
<1>9. \A n \in Nodes : f(n) \in {0, 2} BY RecordSyncAssumption
<1>10. ASSUME NEW n \in Nodes
       PROVE  /\ live[n] \in Live /\ live[n].floor = f(n) /\ live[n].last = NoRecord
              /\ file[n] \in Saved /\ file[n].floor = f(n) /\ disk[n] = file[n]
  <2>1. live[n] = [EmptyLive EXCEPT !.floor = f(n)] BY <1>8
  <2>2. file[n] = [hash |-> {}, prov |-> "published", floor |-> f(n)] BY <1>8
  <2>3. f(n) \in 0..MaxClock BY SMTT(30), <1>1, <1>9
  <2> HIDE DEF f
  <2>4. live[n] \in Live /\ live[n].floor = f(n) /\ live[n].last = NoRecord
    BY <1>7, <2>1, <2>3 DEF Live
  <2>5. file[n] \in Saved /\ file[n].floor = f(n)
    BY SMTT(30), <1>2, <2>2, <2>3 DEF Saved, Provenance
  <2> QED BY <1>8, <2>4, <2>5
<1>11. live \in [Nodes -> Live] /\ file \in [Nodes -> Saved] /\ disk \in [Nodes -> Saved]
  <2>1. live = [n \in Nodes |-> live[n]] /\ file = [n \in Nodes |-> file[n]] /\ disk = file
    BY <1>8
  <2> QED BY <1>10, <2>1
<1>12. pub \in [Coordinators -> Publisher] /\ \A c \in Coordinators : pub[c].st = "idle"
  BY IdleType DEF Init
<1>13. blobs \in [Nodes -> SUBSET Hashes] BY <1>2 DEF Init
<1>14. TypeOK BY SMTT(30), <1>1, <1>3, <1>11, <1>12, <1>13, RecordSyncAssumption DEF Init, TypeOK
<1>15. FloorSources
  <2> HIDE DEF f
  <2>1. \A n \in Nodes : Within(taken, f(n)) BY <1>5, <1>9 
  <2>2. \A n \in Nodes : tasks[n] = {} BY DEF Init
  <2>3. \A c \in Coordinators : pub[c].st # "answered" BY <1>12
  <2>4. ASSUME NEW n \in Nodes
        PROVE  /\ Within(taken, live[n].floor) /\ Within(taken, live[n].last.ts)
               /\ Within(taken, file[n].floor) /\ Within(taken, disk[n].floor)
    BY <1>5, <1>6, <1>10, <2>1
  <2> QED BY <2>2, <2>3, <2>4 DEF FloorSources
<1>16. PointerDurable BY <1>10 DEF PointerDurable
<1> QED BY <1>4, <1>14, <1>15, <1>16 DEF IInv

LEMMA StepIInv == IInv /\ [Next]_vars => IInv'
<1> SUFFICES ASSUME IInv, [Next]_vars PROVE IInv' OBVIOUS
<1>1. CASE Editor
  BY <1>1, EditLockedKeeps, MutateKeeps, UpdateSnapshotKeeps DEF Editor, Keeps
<1>2. CASE Applier
  BY <1>2, PollKeeps, HandRecordKeeps, ConfirmDurabilityKeeps, ApplyRecordKeeps,
     FetchFailsKeeps, CommitGroupBlobKeeps DEF Applier, Keeps
<1>3. CASE PublisherTask
  BY <1>3, PublisherWakesKeeps, SignKeeps, RelayAnswersKeeps, PublishFailsKeeps,
     MarkPublishedKeeps DEF PublisherTask, Keeps
<1>4. CASE Restarter
  BY <1>4, CrashKeeps, ResolveRestoreKeeps, SealRestoredKeeps, InstallKeeps,
     WarmResumeKeeps, ColdResumeKeeps DEF Restarter, Keeps
<1>5. CASE UNCHANGED vars
  BY <1>5 DEF vars, IInv, TypeOK, HasNewest, FloorSources, PointerDurable, Within
<1> QED BY <1>1, <1>2, <1>3, <1>4, <1>5 DEF Next

LEMMA Invariance == Spec => []IInv
<1>1. Init => IInv BY InitIInv
<1>2. IInv /\ [Next]_vars => IInv' BY StepIInv
<1> QED BY <1>1, <1>2, PTL DEF Spec

\* Every variable keeps its type, for any nodes, edits and bounds.
THEOREM TypeCorrect == Spec => []TypeOK
<1>1. IInv => TypeOK BY DEF IInv
<1> QED BY <1>1, Invariance, PTL

\* No floor, live or saved, is above every record the relay took: no publication
\* that failed and no record still on its way raised one.
THEOREM FloorsSafe == Spec => []FloorWithinRelay
<1>1. IInv => FloorWithinRelay
  <2> SUFFICES ASSUME IInv, NEW n \in Nodes
      PROVE \E r \in taken : live[n].floor <= r.ts /\ file[n].floor <= r.ts
    BY DEF FloorWithinRelay
  <2>1. PICK r \in taken : \A q \in taken : q.ts <= r.ts BY DEF IInv, HasNewest
  <2>2. live[n].floor \in Nat /\ file[n].floor \in Nat /\ \A q \in taken : q.ts \in Nat
    BY SMTT(30) DEF IInv, TypeOK, Live, Saved, Records
  <2>3. /\ \E q \in taken : live[n].floor <= q.ts
        /\ \E q \in taken : file[n].floor <= q.ts
    BY DEF IInv, FloorSources, Within
  <2> QED BY SMTT(30), <2>1, <2>2, <2>3
<1> QED BY <1>1, Invariance, PTL

\* No record newly signed at c in this step.
Unsigned(c) == pub'[c].st = "signed" => pub[c].st = "signed"

\* What the roster of a record just signed at c is: saved, and in c's own store.
Safe(c) == disk'[c].hash = pub'[c].rec.hash /\ disk'[c].hash \in blobs'[c]

LEMMA DoneSignsNothing ==
  ASSUME IInv, NEW n, NEW t, NEW o, Done(n, t, o), NEW c \in Coordinators
  PROVE  Unsigned(c)
<1> DEFINE st == AfterSync(n, o)
<1>1. st \in {"ready", "idle"} BY DEF AfterSync
<1>2. pub' = pub \/ pub' = [pub EXCEPT ![n].st = st] BY DEF Done
<1>3. pub \in [Coordinators -> Publisher] BY DEF IInv, TypeOK
<1> HIDE DEF st
<1> QED BY <1>1, <1>2, <1>3, SMT DEF Unsigned, Publisher

LEMMA IdleSignsNothing ==
  ASSUME IInv, NEW n, pub' = pub \/ pub' = [pub EXCEPT ![n] = Idle],
         NEW c \in Coordinators
  PROVE  Unsigned(c)
BY IdleType DEF Unsigned, IInv, TypeOK

\* The signature of a saved roster.
LEMMA SignRecordSafe ==
  ASSUME IInv, NEW n \in Coordinators, NEW h, SignRecord(n, h),
         disk'[n].hash = h, h \in blobs'[n], NEW c \in Coordinators
  PROVE  Unsigned(c) \/ Safe(c)
<1> DEFINE p == [st |-> "signed", rec |-> [hash |-> h, ts |-> clock + 1]]
<1>1. pub' = [pub EXCEPT ![n] = p] BY DEF SignRecord
<1>2. pub \in [Coordinators -> Publisher] BY DEF IInv, TypeOK
<1>3. pub'[n] = p /\ \A k \in Coordinators \ {n} : pub'[k] = pub[k]
  BY <1>1, <1>2
<1>4. p.rec.hash = h OBVIOUS
<1> HIDE DEF p
<1> QED BY <1>3, <1>4 DEF Unsigned, Safe

LEMMA SignSafe ==
  ASSUME IInv, NEW n \in Coordinators, Sign(n), NEW c \in Coordinators
  PROVE  Unsigned(c) \/ Safe(c)
<1> DEFINE h == live[n].conv
           prov == RetryProvenance(n, h, "authored")
<1>1. n \in Nodes /\ h \in Hashes /\ prov \in Provenance
  BY SoundNow, RetryType DEF Nodes, Provenance
<1>2. CASE PersistOK(n, live[n], h, prov) /\ SignRecord(n, h)
  <2> HIDE DEF h, prov
  <2>1. live[n].floor \in 0..MaxClock /\ Within(taken, live[n].floor)
        /\ live[n].made \in SUBSET Hashes
    BY <1>1, SoundNow DEF Sound, Live
  <2>2. disk'[n].hash = h
    BY SMTT(30), <1>1, <1>2, <2>1, PointerType, SaveOKStep DEF PersistOK
  <2>3. h \in blobs'[n] BY <1>1, <1>2 DEF PersistOK, IInv, TypeOK
  <2> QED BY <1>2, <2>2, <2>3, SignRecordSafe
<1>3. CASE pub' = [pub EXCEPT ![n] = Idle] BY <1>3, IdleSignsNothing
<1>4. CASE /\ ~NeedsPersistence(n) /\ h \in blobs[n] /\ SignRecord(n, h)
           /\ UNCHANGED <<live, file, disk, blobs, faults, owed>>
  <2>1. live[n].pend = {} /\ file[n].hash = h BY <1>4 DEF NeedsPersistence
  <2>2. disk[n].hash = h BY <1>1, <2>1 DEF Sign, IInv, PointerDurable
  <2> QED BY <1>4, <2>2, SignRecordSafe
<1> QED BY <1>2, <1>3, <1>4 DEF Sign

LEMMA SealSafe ==
  ASSUME IInv, NEW n \in Nodes, SealRestored(n), NEW c \in Coordinators
  PROVE  Unsigned(c) \/ Safe(c)
<1> DEFINE g == live[n].group
<1>1. g \in Hashes /\ n \in Coordinators BY SoundNow DEF SealRestored
<1>2. CASE UNCHANGED pub BY <1>2 DEF Unsigned
<1>3. ASSUME SignRecord(n, g), NEW prov, NEW made,
             SaveOK(n, [hash |-> g, prov |-> prov, floor |-> file[n].floor], made),
             blobs' = [blobs EXCEPT ![n] = @ \cup {g}]
      PROVE  Unsigned(c) \/ Safe(c)
  <2> HIDE DEF g
  <2>1. disk'[n].hash = g BY <1>3 DEF SaveOK, OnDisk, IInv, TypeOK
  <2>2. g \in blobs'[n] BY <1>3 DEF IInv, TypeOK
  <2> QED BY <1>1, <1>3, <2>1, <2>2, SignRecordSafe
<1> QED BY <1>2, <1>3 DEF SealRestored

\* A record is signed only when the pointer a crash leaves names its roster and
\* the node's own store holds it, whatever writes failed before.
THEOREM SignedSafe == Spec => SignedIsSaved
<1> DEFINE A == \A c \in Coordinators :
       pub'[c].st = "signed" /\ pub[c].st # "signed" =>
         disk'[c].hash = pub'[c].rec.hash /\ disk'[c].hash \in blobs'[c]
<1>1. IInv /\ [Next]_vars => [A]_vars
  <2> SUFFICES ASSUME IInv, Next, NEW c \in Coordinators PROVE Unsigned(c) \/ Safe(c)
    BY DEF Unsigned, Safe
  <2>1. CASE UNCHANGED pub BY <2>1 DEF Unsigned
  <2>2. CASE Editor BY <2>1, <2>2 DEF Editor, EditLocked, Mutate, UpdateSnapshot
  <2>3. CASE Applier
    <3>1. ASSUME NEW n, NEW k, Poll(n) \/ HandRecord(k, n) PROVE Unsigned(c)
      BY <3>1 DEF Poll, HandRecord, Unsigned
    <3>2. ASSUME NEW n, NEW t, ConfirmDurability(n, t) PROVE Unsigned(c)
      BY <3>2, DoneSignsNothing DEF ConfirmDurability, Unsigned
    <3>3. ASSUME NEW n, NEW t, ApplyRecord(n, t) PROVE Unsigned(c)
      BY <3>3, DoneSignsNothing DEF ApplyRecord, ObserveCurrent, Unsigned
    <3>4. ASSUME NEW n, NEW t, FetchFails(n, t) PROVE Unsigned(c)
      BY <3>4, DoneSignsNothing DEF FetchFails
    <3>5. ASSUME NEW n, NEW t, CommitGroupBlob(n, t) PROVE Unsigned(c)
      BY <3>5, DoneSignsNothing, IdleSignsNothing DEF CommitGroupBlob, Leave, Idle
    <3> QED BY <2>3, <3>1, <3>2, <3>3, <3>4, <3>5 DEF Applier
  <2>4. CASE PublisherTask
    <3>1. ASSUME NEW n \in Coordinators, PublisherWakes(n) \/ RelayAnswers(n)
          PROVE  Unsigned(c)
      <4>1. pub \in [Coordinators -> Publisher] BY DEF IInv, TypeOK
      <4>2. PICK st \in {"ready", "syncing", "answered"} :
              pub' = [pub EXCEPT ![n].st = st]
        BY <3>1 DEF PublisherWakes, RelayAnswers
      <4> QED BY <4>1, <4>2, SMT DEF Unsigned, Publisher
    <3>2. ASSUME NEW n \in Coordinators, PublishFails(n) \/ MarkPublished(n)
          PROVE  Unsigned(c)
      BY <3>2, IdleSignsNothing DEF PublishFails, MarkPublished
    <3> QED BY <2>4, <3>1, <3>2, SignSafe DEF PublisherTask
  <2>5. CASE Restarter
    BY <2>1, <2>5, IdleSignsNothing, SealSafe
       DEF Restarter, Crash, ResolveRestore, Install, WarmResume, ColdResume
  <2> QED BY <2>2, <2>3, <2>4, <2>5 DEF Next
<1> QED BY <1>1, Invariance, PTL DEF Spec, SignedIsSaved
=============================================================================
