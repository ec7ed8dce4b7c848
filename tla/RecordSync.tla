----------------------------- MODULE RecordSync -----------------------------
(***************************************************************************)
(* How the signed record of one network is kept: every coordinator (a      *)
(* holder of the network key) edits its roster, saves it, signs a record   *)
(* that names its hash and publishes it at the relay; every node polls the *)
(* relay and adopts a newer roster.                                        *)
(*                                                                         *)
(* A roster is the set of edits in it and stands for its own hash.  An     *)
(* edit that is a node's name takes that node out of the roster.           *)
(***************************************************************************)
EXTENDS Naturals, FiniteSets

CONSTANTS
  Coordinators,  \* nodes that hold the network key
  Members,       \* plain members
  EditsOf,       \* what each coordinator may change in the roster
  Undoable,      \* edits that may be taken back and made again
  Unlocked,      \* edits made before snapshot_commit is taken
  Restartable,   \* nodes that may crash
  StaleReads,    \* records the relay may serve: "newest" or "any"
  Floors,        \* replay floors a member may start with (0: none yet)
  MaxEdits, MaxClock, MaxRenewed, MaxFaults, MaxTasks

Nodes == Coordinators \cup Members
Edits == Members \cup UNION {EditsOf[c] : c \in Coordinators}

ASSUME RecordSyncAssumption ==
  /\ Coordinators # {} /\ Coordinators \cap Members = {}
  /\ Undoable \subseteq Edits /\ Unlocked \subseteq Edits
  /\ Restartable \subseteq Nodes
  /\ StaleReads \in {"newest", "any"}
  /\ Floors \subseteq {0, 2}
  /\ MaxEdits \in Nat /\ MaxClock \in Nat /\ MaxClock >= 2 /\ MaxFaults \in Nat
  /\ MaxTasks \in Nat /\ MaxRenewed \in Nat

VARIABLES
  taken,   \* records the relay took; it keeps the newest
  clock,   \* last timestamp signed
  phase,   \* per node: "down", "resolved", "restoring", "up" or "gone"
  live,    \* NetworkState of each node
  file,    \* recovery pointer and floor as the config file reads
  disk,    \* the same, as a crash is sure to leave it
  blobs,   \* rosters in each node's blob store
  tasks,   \* records being applied at each node
  pub,     \* the publisher of each coordinator, or its restore
  editing, \* coordinators whose edit is live and waits for snapshot_commit
  edits, faults,  \* how often each edit, and any fault, happened
  owed     \* history: the saved roster of each node no relay answered for

vars == <<taken, clock, phase, live, file, disk, blobs, tasks, pub, editing,
          edits, faults, owed>>

-----------------------------------------------------------------------------
(* The data. *)

Hashes == SUBSET Edits
Provenance == {"authored", "published"}
NoRecord == [hash |-> {}, ts |-> 0]
Records == [hash : Hashes, ts : 0..MaxClock]

\* PendingSnapshotDurability: a pointer write that may or may not have landed.
Unconfirmed == [hash : Hashes, prov : Provenance]
Saved == [hash : Hashes, prov : Provenance, floor : 0..MaxClock]
Sources == {"poll", "mesh", "renewal"}
Tasks == [st : {"got", "fetching"}, src : Sources, rec : Records, gen : Hashes]
\* made is history: the roster a local edit made live, until a relay takes it.
Live == [group : Hashes, conv : Hashes, pend : SUBSET Unconfirmed,
         floor : 0..MaxClock, last : Records, made : SUBSET Hashes]
Publisher == [st : {"idle", "syncing", "ready", "signed", "answered"},
              rec : Records]

Newest == CHOOSE r \in taken : \A q \in taken : q.ts <= r.ts

\* What a resolve may return.
Reads == IF StaleReads = "any" THEN taken ELSE {Newest}

\* Mutant: the floor is one past the record it was raised for.
HigherPast(a, b) == IF a > b THEN a ELSE b + 1

Higher(a, b) == IF a >= b THEN a ELSE b

\* Mutant: any record with another timestamp is acceptable.
RecordDiffers(ts, floor) == ts # floor

\* record_is_newer: strictly above the floor; 0 is no floor.
RecordIsNewer(ts, floor) == ts > floor

\* Mutant: a roster is unpublished only while its write is unconfirmed.
NeverPendingAuthored(n) == FALSE

\* pending_authored_group_hash: the saved pointer names the live roster and no
\* relay has answered for it.
PendingAuthored(n) ==
  n \in Coordinators /\ file[n].hash = live[n].conv /\ file[n].prov = "authored"

HasAuthoredSnapshot(n) == live[n].pend # {} \/ PendingAuthored(n)

\* Mutant: a pointer that reads back is taken for a durable one.
NeedsOtherPointer(n) == file[n].hash # live[n].conv

\* group_hash_needing_persistence.
NeedsPersistence(n) == live[n].pend # {} \/ file[n].hash # live[n].conv

\* An exact retry keeps the provenance of the write that failed.
RetryProvenance(n, h, prov) ==
  IF \E p \in live[n].pend : p.hash = h
  THEN (CHOOSE p \in live[n].pend : p.hash = h).prov ELSE prov

\* mark_group_hash_durability_pending.
Marked(l, h, prov) ==
  [l EXCEPT !.pend =
     {[hash |-> h,
       prov |-> IF [hash |-> h, prov |-> "published"] \in l.pend
                THEN "published" ELSE prov]}]

-----------------------------------------------------------------------------
(* Saving. *)

Fault == faults < MaxFaults /\ faults' = faults + 1

\* s is on disk.  A roster a local edit made is owed to the relay from then on.
OnDisk(n, s, made) ==
  /\ file' = [file EXCEPT ![n] = s]
  /\ disk' = [disk EXCEPT ![n] = s]
  /\ owed' = IF s.prov = "authored"
             THEN [owed EXCEPT ![n] = (@ \cup made) \cap {s.hash}] ELSE owed

\* update_network succeeds: rename and directory sync done.
SaveOK(n, s, made) == OnDisk(n, s, made) /\ UNCHANGED faults

\* update_network fails: the rename may have landed, its sync did not.
SaveFails(n, s) ==
  /\ Fault
  /\ \E seen \in {file[n], s} : file' = [file EXCEPT ![n] = seen]
  /\ UNCHANGED <<disk, owed>>

Pointer(n, h, prov, floor) ==
  [hash |-> h, prov |-> prov, floor |-> Higher(file[n].floor, floor)]

\* write_group_hash_pointer, and the durability marker it settles, for the
\* live state l that is about to be node n's.
WritePointer(n, l, h, prov) ==
  \/ /\ SaveOK(n, Pointer(n, h, prov, l.floor), l.made)
     /\ live' = [live EXCEPT ![n] = [l EXCEPT !.pend = {}]]
  \/ /\ SaveFails(n, Pointer(n, h, prov, l.floor))
     /\ live' = [live EXCEPT ![n] = Marked(l, h, prov)]

\* The blob cannot be stored: the pointer is not written at all.
StoreFails(n, l, h, prov) ==
  /\ Fault /\ h \notin blobs[n]
  /\ live' = [live EXCEPT ![n] = Marked(l, h, prov)]
  /\ UNCHANGED <<file, disk, owed, blobs>>

\* Store the roster, then write the pointer: persist_group_hash_locked and the
\* body of commit_current_snapshot.
Persist(n, l, h, prov) ==
  \/ /\ blobs' = [blobs EXCEPT ![n] = @ \cup {h}]
     /\ WritePointer(n, l, h, prov)
  \/ StoreFails(n, l, h, prov)

\* Persist, and whether it succeeded (persist_group_hash_locked's result).
PersistOK(n, l, h, prov) ==
  /\ blobs' = [blobs EXCEPT ![n] = @ \cup {h}]
  /\ SaveOK(n, Pointer(n, h, prov, l.floor), l.made)
  /\ live' = [live EXCEPT ![n] = [l EXCEPT !.pend = {}]]

PersistFails(n, l, h, prov) ==
  /\ Persist(n, l, h, prov)
  /\ faults' # faults

-----------------------------------------------------------------------------
(* Edits of a coordinator. *)

Toggled(g, e) == IF e \in g THEN g \ {e} ELSE g \cup {e}

\* The roster a local edit makes live, unless the relay has that one already.
Made(l, g) == IF g = l.conv THEN l.made
              ELSE IF g = Newest.hash THEN {} ELSE {g}

\* The live state with roster g and snapshot c of a local edit.
WithRoster(l, g, c) ==
  [l EXCEPT !.group = g, !.conv = c, !.made = Made(l, c)]

MayEdit(n, e) ==
  /\ phase[n] = "up"
  /\ edits[e] < IF e \in Undoable THEN MaxEdits ELSE 1
  /\ edits' = [edits EXCEPT ![e] = @ + 1]

\* commit_current_snapshot under snapshot_commit, for the live roster g.
CommitRoster(n, g) == Persist(n, WithRoster(live[n], g, g), g, "authored")

\* An edit made while snapshot_commit is held, and committed at once.
EditLocked(n, e) ==
  /\ MayEdit(n, e) /\ e \notin Unlocked
  /\ CommitRoster(n, Toggled(live[n].group, e))
  /\ UNCHANGED <<taken, clock, phase, tasks, pub, editing>>

\* An edit of the live roster before snapshot_commit is taken; some of them
\* refresh the snapshot at once, others leave that to the commit.
Mutate(n, e) ==
  /\ MayEdit(n, e) /\ e \in Unlocked /\ n \notin editing
  /\ editing' = editing \cup {n}
  /\ LET g == Toggled(live[n].group, e)
     IN  \E c \in {live[n].conv, g} :
           live' = [live EXCEPT ![n] = WithRoster(live[n], g, c)]
  /\ UNCHANGED <<taken, clock, phase, file, disk, blobs, tasks, pub, faults,
                 owed>>

\* update_snapshot_and_publish once the lock is its own.
UpdateSnapshot(n) ==
  /\ phase[n] = "up" /\ n \in editing
  /\ editing' = editing \ {n}
  /\ CommitRoster(n, live[n].group)
  /\ UNCHANGED <<taken, clock, phase, tasks, pub, edits>>

-----------------------------------------------------------------------------
(* Applying a record. *)

Task(src, r) == [st |-> "got", src |-> src, rec |-> r, gen |-> {}]

\* What the renewal that waits for the task does with its outcome.
AfterSync(n, o) ==
  IF \/ o \in {"Applied", "Current", "Stale"}
     \/ o = "Superseded" /\ HasAuthoredSnapshot(n)
  THEN "ready" ELSE "idle"

\* The task ends with outcome o.
Done(n, t, o) ==
  /\ tasks' = [tasks EXCEPT ![n] = @ \ {t}]
  /\ pub' = IF t.src = "renewal"
            THEN [pub EXCEPT ![n].st = AfterSync(n, o)] ELSE pub

Begin(n, t) ==
  /\ phase[n] = "up" /\ t \notin tasks[n]
  /\ Cardinality(tasks[n]) < MaxTasks
  /\ tasks' = [tasks EXCEPT ![n] = @ \cup {t}]

\* The group poller, or a MemberSync or BlobUpdated hint, resolves the record.
Poll(n) ==
  /\ \E r \in Reads : Begin(n, Task("poll", r))
  /\ UNCHANGED <<taken, clock, phase, live, file, disk, blobs, pub, editing,
                 edits, faults, owed>>

\* current_signed_record: a coordinator hands a reconnecting node the record it
\* last published, if that still names its saved roster.
HandRecord(c, n) ==
  /\ c # n /\ phase[c] = "up" /\ ~NeedsPersistence(c)
  /\ file[c].hash \in blobs[c]
  /\ live[c].last # NoRecord /\ live[c].last.hash = file[c].hash
  /\ live[c].last.ts >= live[c].floor
  /\ Begin(n, Task("mesh", live[c].last))
  /\ UNCHANGED <<taken, clock, phase, live, file, disk, blobs, pub, editing,
                 edits, faults, owed>>

\* apply_group_record first retries an unconfirmed pointer write.
ConfirmDurability(n, t) ==
  /\ t \in tasks[n] /\ t.st = "got"
  /\ \E p \in live[n].pend :
       \/ /\ p.hash = live[n].conv
          /\ \/ PersistOK(n, live[n], p.hash, p.prov) /\ UNCHANGED <<tasks, pub>>
             \/ PersistFails(n, live[n], p.hash, p.prov) /\ Done(n, t, "Superseded")
       \/ /\ p.hash # live[n].conv
          /\ Done(n, t, "Superseded")
          /\ UNCHANGED <<live, file, disk, blobs, faults, owed>>
  /\ UNCHANGED <<taken, clock, phase, editing, edits>>

\* The record names the roster held: raise the floor, live and saved, and
\* record that the roster is published.
ObserveCurrent(n, t) ==
  LET l == [live[n] EXCEPT !.floor = Higher(@, t.rec.ts)]
      s == Pointer(n, t.rec.hash, "published", t.rec.ts)
  IN  /\ t.rec.hash = live[n].conv
      /\ \/ /\ file[n].hash = t.rec.hash /\ file[n].prov = "published"
            /\ live' = [live EXCEPT ![n] = l]
            /\ IF RecordIsNewer(t.rec.ts, live[n].floor)
               THEN SaveOK(n, s, {}) \/ SaveFails(n, s)
               ELSE UNCHANGED <<file, disk, faults, owed>>
            /\ UNCHANGED blobs
         \/ /\ file[n].hash # t.rec.hash \/ file[n].prov # "published"
            /\ Persist(n, l, t.rec.hash, "published")
      /\ Done(n, t, "Current")

\* apply_group_record_from up to the fetch.
ApplyRecord(n, t) ==
  /\ t \in tasks[n] /\ t.st = "got" /\ live[n].pend = {}
  /\ \/ /\ PendingAuthored(n) /\ live[n].conv # t.rec.hash
        /\ Done(n, t, "Superseded")
        /\ UNCHANGED <<live, file, disk, blobs, faults, owed>>
     \/ ObserveCurrent(n, t)
     \/ /\ ~PendingAuthored(n) /\ t.rec.hash # live[n].conv
        /\ IF RecordIsNewer(t.rec.ts, live[n].floor)
           THEN /\ tasks' = [tasks EXCEPT ![n] =
                     (@ \ {t}) \cup {[t EXCEPT !.st = "fetching",
                                               !.gen = live[n].group]}]
                /\ UNCHANGED pub
           ELSE Done(n, t, "Stale")
        /\ UNCHANGED <<live, file, disk, blobs, faults, owed>>
  /\ UNCHANGED <<taken, clock, phase, editing, edits>>

\* A node that runs and holds the roster serves it.
Fetchable(n, h) ==
  h \in blobs[n] \/ \E m \in Nodes \ {n} : phase[m] = "up" /\ h \in blobs[m]

\* Mutant: the floor is raised for a record whose roster was not fetched.
FetchFailsRaises(n, t) ==
  /\ t \in tasks[n] /\ t.st = "fetching"
  /\ Fault /\ Done(n, t, "Unfetched")
  /\ live' = [live EXCEPT ![n].floor = Higher(@, t.rec.ts)]
  /\ UNCHANGED <<taken, clock, phase, file, disk, blobs, editing, edits, owed>>

\* fetch_verified_blob finds no peer that serves the roster in time.
FetchFails(n, t) ==
  /\ t \in tasks[n] /\ t.st = "fetching"
  /\ Fault \/ (~Fetchable(n, t.rec.hash) /\ UNCHANGED faults)
  /\ Done(n, t, "Unfetched")
  /\ UNCHANGED <<taken, clock, phase, live, file, disk, blobs, editing, edits,
                 owed>>

SupersededByEdits(n, t) ==
  \/ live[n].pend # {}
  \/ PendingAuthored(n) /\ live[n].conv # t.rec.hash

\* A fetched roster that may not be taken: the four checks commit_group_blob
\* makes under snapshot_commit.
Superseded(n, t) ==
  \/ live[n].pend # {}
  \/ PendingAuthored(n) /\ live[n].conv # t.rec.hash
  \/ live[n].group # t.gen
  \/ ~RecordIsNewer(t.rec.ts, live[n].floor)

Leave(n) ==
  /\ phase' = [phase EXCEPT ![n] = "gone"]
  /\ tasks' = [tasks EXCEPT ![n] = {}]
  /\ pub' = IF n \in Coordinators
            THEN [pub EXCEPT ![n] = [st |-> "idle", rec |-> NoRecord]] ELSE pub
  /\ editing' = editing \ {n}

\* A roster fetched: discard it, leave on it, or adopt it.
CommitGroupBlob(n, t) ==
  LET h == t.rec.hash
      unconfirmed == t.src = "mesh" /\ live[n].floor = 0 /\ n \in h
      l == [live[n] EXCEPT !.group = h, !.conv = h, !.floor = t.rec.ts,
                          !.made = {}]
  IN  /\ t \in tasks[n] /\ t.st = "fetching" /\ Fetchable(n, h)
      /\ \/ /\ unconfirmed \/ Superseded(n, t)
            /\ Done(n, t, IF unconfirmed THEN "Unconfirmed" ELSE "Superseded")
            /\ blobs' = [blobs EXCEPT ![n] = @ \cup {h}]
            /\ UNCHANGED <<phase, live, file, disk, editing, faults, owed>>
         \/ /\ ~unconfirmed /\ ~Superseded(n, t) /\ n \in h
            /\ Leave(n)
            /\ UNCHANGED <<live, file, disk, blobs, faults, owed>>
         \/ /\ ~unconfirmed /\ ~Superseded(n, t) /\ n \notin h
            /\ blobs' = [blobs EXCEPT ![n] = @ \cup {h}]
            /\ WritePointer(n, l, h, "published")
            /\ Done(n, t, "Applied")
            /\ UNCHANGED <<phase, editing>>
      /\ UNCHANGED <<taken, clock, edits>>

-----------------------------------------------------------------------------
(* The publisher of a coordinator. *)

Idle == [st |-> "idle", rec |-> NoRecord]

\* Unpublished edits go first; a renewal reads the canonical record before it.
PublisherWakes(n) ==
  /\ phase[n] = "up" /\ pub[n].st = "idle"
  /\ \/ /\ HasAuthoredSnapshot(n) \/ NeedsPersistence(n)
        /\ pub' = [pub EXCEPT ![n].st = "ready"]
        /\ UNCHANGED tasks
     \/ /\ ~HasAuthoredSnapshot(n)
        /\ clock < MaxRenewed
        /\ \E r \in Reads : Begin(n, Task("renewal", r))
        /\ pub' = [pub EXCEPT ![n].st = "syncing"]
  /\ UNCHANGED <<taken, clock, phase, live, file, disk, blobs, editing, edits,
                 faults, owed>>

\* encode_network_record stamps the record when it signs it.
SignRecord(n, h) ==
  /\ clock < MaxClock
  /\ clock' = clock + 1
  /\ pub' = [pub EXCEPT ![n] = [st |-> "signed",
                                rec |-> [hash |-> h, ts |-> clock + 1]]]

\* Under snapshot_commit: finish an unfinished save, then sign what is saved.
\* snapshot_is_publishable refuses a roster its own store does not hold.
Sign(n) ==
  LET h == live[n].conv
      prov == RetryProvenance(n, h, "authored")
  IN  /\ phase[n] = "up" /\ pub[n].st = "ready"
      /\ \/ /\ NeedsPersistence(n)
            /\ PersistOK(n, live[n], h, prov)
            /\ SignRecord(n, h)
         \/ /\ NeedsPersistence(n)
            /\ PersistFails(n, live[n], h, prov)
            /\ pub' = [pub EXCEPT ![n] = Idle]
            /\ UNCHANGED clock
         \/ /\ ~NeedsPersistence(n) /\ h \in blobs[n]
            /\ SignRecord(n, h)
            /\ UNCHANGED <<live, file, disk, blobs, faults, owed>>
      /\ UNCHANGED <<taken, phase, tasks, editing, edits>>

\* The relay keeps the newest record: it drops one signed before that.
RelayTakes(r) ==
  /\ taken' = IF \A q \in taken : q.ts < r.ts THEN taken \cup {r} ELSE taken
  /\ owed' = [n \in Nodes |-> owed[n] \ {r.hash}]
  /\ live' = [n \in Nodes |-> [live[n] EXCEPT !.made = @ \ {r.hash}]]

RelayAnswers(n) ==
  /\ pub[n].st = "signed"
  /\ RelayTakes(pub[n].rec)
  /\ pub' = [pub EXCEPT ![n].st = "answered"]
  /\ UNCHANGED <<clock, phase, file, disk, blobs, tasks, editing, edits, faults>>

\* publish_record fails or times out; the relay may have taken the record.
PublishFails(n) ==
  /\ pub[n].st = "signed"
  /\ Fault
  /\ RelayTakes(pub[n].rec) \/ UNCHANGED <<taken, owed, live>>
  /\ pub' = [pub EXCEPT ![n] = Idle]
  /\ UNCHANGED <<clock, phase, file, disk, blobs, tasks, editing, edits>>

\* publish_signed_record after the answer, under snapshot_commit again: raise
\* the floor, keep the record to hand out, and mark the pointer published if a
\* later commit has not moved it.
MarkPublished(n) ==
  LET r == pub[n].rec
      s == [hash |-> file[n].hash,
            prov |-> IF file[n].hash = r.hash THEN "published" ELSE file[n].prov,
            floor |-> Higher(file[n].floor, r.ts)]
  IN  /\ pub[n].st = "answered"
      /\ live' = [live EXCEPT ![n].floor = Higher(@, r.ts),
                              ![n].last = IF @.ts < r.ts THEN r ELSE @]
      /\ SaveOK(n, s, live[n].made) \/ SaveFails(n, s)
      /\ pub' = [pub EXCEPT ![n] = Idle]
      /\ UNCHANGED <<taken, clock, phase, blobs, tasks, editing, edits>>

-----------------------------------------------------------------------------
(* Crash and restart. *)

EmptyLive == [group |-> {}, conv |-> {}, pend |-> {}, floor |-> 0,
              last |-> NoRecord, made |-> {}]

\* The process stops.  A rename that was never synced may be there or not.
Crash(n) ==
  /\ n \in Restartable /\ phase[n] \notin {"down", "gone"}
  /\ Fault
  /\ phase' = [phase EXCEPT ![n] = "down"]
  /\ live' = [live EXCEPT ![n] = EmptyLive]
  /\ tasks' = [tasks EXCEPT ![n] = {}]
  /\ pub' = IF n \in Coordinators THEN [pub EXCEPT ![n] = Idle] ELSE pub
  /\ editing' = editing \ {n}
  /\ \E s \in {file[n], disk[n]} : OnDisk(n, s, live[n].made)
  /\ UNCHANGED <<taken, clock, blobs, edits>>

\* Mutant: a restore takes the relay's record over an unpublished roster.
RestoreFromRelay(n) ==
  {[hash |-> h, prov |-> "published"] :
     h \in {r.hash : r \in Reads} \cup {file[n].hash}}

\* select_restore_target: an unpublished roster of our own, else the record
\* the relay has, else, when it cannot be resolved, the saved pointer.
RestoreTargets(n) ==
  IF file[n].prov = "authored"
  THEN {[hash |-> file[n].hash, prov |-> "authored"]}
  ELSE {[hash |-> h, prov |-> "published"] :
          h \in {r.hash : r \in Reads} \cup {file[n].hash}}

\* restore_roster_from_blob for a coordinator.  live.pend holds the choice.
ResolveRestore(n) ==
  /\ n \in Coordinators /\ phase[n] = "down"
  /\ \E target \in RestoreTargets(n) :
       /\ Fetchable(n, target.hash)
       /\ blobs' = [blobs EXCEPT ![n] = @ \cup {target.hash}]
       /\ live' = [live EXCEPT ![n] =
            [EmptyLive EXCEPT !.group = target.hash \ {n}, !.conv = target.hash,
                              !.pend = {target}, !.floor = file[n].floor]]
  /\ phase' = [phase EXCEPT ![n] = "resolved"]
  /\ UNCHANGED <<taken, clock, file, disk, tasks, pub, editing, edits, faults,
                 owed>>

\* restore_coordinator_network: seal the roster, save its pointer, then sign
\* and publish it whatever the relay has by now.
SealRestored(n) ==
  /\ n \in Coordinators /\ phase[n] = "resolved"
  /\ \E target \in live[n].pend :
       LET g == live[n].group
           prov == IF target.prov = "published" /\ g = target.hash
                   THEN "published" ELSE "authored"
           s == [hash |-> g, prov |-> prov, floor |-> file[n].floor]
       IN  /\ blobs' = [blobs EXCEPT ![n] = @ \cup {g}]
           /\ \/ /\ SaveOK(n, s, IF g = target.hash THEN {} ELSE {g})
                 /\ SignRecord(n, g)
                 /\ phase' = [phase EXCEPT ![n] = "restoring"]
                 /\ live' = [live EXCEPT ![n].conv = g, ![n].pend = {}]
              \/ /\ SaveFails(n, s)
                 /\ phase' = [phase EXCEPT ![n] = "down"]
                 /\ live' = [live EXCEPT ![n] = EmptyLive]
                 /\ UNCHANGED <<clock, pub>>
  /\ UNCHANGED <<taken, tasks, editing, edits>>

\* install_network, after the publication was tried.
Install(n) ==
  /\ n \in Coordinators /\ phase[n] = "restoring" /\ pub[n].st = "idle"
  /\ phase' = [phase EXCEPT ![n] = "up"]
  /\ UNCHANGED <<taken, clock, live, file, disk, blobs, tasks, pub, editing,
                 edits, faults, owed>>

\* member_state_from_blob: the live state of a member registered from roster h.
MemberState(n, h) ==
  [EmptyLive EXCEPT !.group = h, !.conv = h, !.floor = file[n].floor]

\* warm_resume_member_network: from the saved pointer, without the relay.
WarmResume(n) ==
  /\ n \in Members /\ phase[n] = "down"
  /\ file[n].prov = "published" /\ file[n].hash \in blobs[n]
  /\ n \notin file[n].hash
  /\ live' = [live EXCEPT ![n] = MemberState(n, file[n].hash)]
  /\ phase' = [phase EXCEPT ![n] = "up"]
  /\ SaveOK(n, file[n], {})
  /\ UNCHANGED <<taken, clock, blobs, tasks, pub, editing, edits>>

\* join_network_inner on a restore: from the record, whose timestamp does not
\* become the floor.
ColdResume(n) ==
  /\ n \in Members /\ phase[n] = "down"
  /\ \E r \in Reads :
       /\ Fetchable(n, r.hash) /\ n \notin r.hash
       /\ blobs' = [blobs EXCEPT ![n] = @ \cup {r.hash}]
       /\ live' = [live EXCEPT ![n] = MemberState(n, r.hash)]
       /\ SaveOK(n, Pointer(n, r.hash, "published", 0), {})
  /\ phase' = [phase EXCEPT ![n] = "up"]
  /\ UNCHANGED <<taken, clock, tasks, pub, editing, edits>>

-----------------------------------------------------------------------------
(* A network whose members joined under its second record: the first, which  *)
(* does not list them, is still around.                                      *)

Before == [hash |-> Members, ts |-> 1]
Genesis == [hash |-> {}, ts |-> 2]

Init ==
  /\ taken = {Before, Genesis}
  /\ clock = 2
  /\ phase = [n \in Nodes |-> "up"]
  /\ \E floor \in [Members -> Floors] :
       LET f(n) == IF n \in Members THEN floor[n] ELSE 2
       IN  /\ live = [n \in Nodes |-> [EmptyLive EXCEPT !.floor = f(n)]]
           /\ file = [n \in Nodes |-> [hash |-> {}, prov |-> "published",
                                       floor |-> f(n)]]
           /\ disk = file
  /\ blobs = [n \in Nodes |-> IF n \in Members THEN {{}} ELSE {{}, Members}]
  /\ tasks = [n \in Nodes |-> {}]
  /\ pub = [c \in Coordinators |-> Idle]
  /\ editing = {} /\ edits = [e \in Edits |-> 0] /\ faults = 0
  /\ owed = [n \in Nodes |-> {}]

Editor == \E c \in Coordinators :
  (\E e \in EditsOf[c] : EditLocked(c, e) \/ Mutate(c, e)) \/ UpdateSnapshot(c)

Applier == \E n \in Nodes :
  \/ Poll(n) \/ \E c \in Coordinators : HandRecord(c, n)
  \/ \E t \in tasks[n] : \/ ConfirmDurability(n, t) \/ ApplyRecord(n, t)
                         \/ FetchFails(n, t) \/ CommitGroupBlob(n, t)

PublisherTask == \E c \in Coordinators :
  \/ PublisherWakes(c) \/ Sign(c) \/ RelayAnswers(c) \/ PublishFails(c)
  \/ MarkPublished(c)

Restarter == \E n \in Nodes :
  \/ Crash(n) \/ ResolveRestore(n) \/ SealRestored(n) \/ Install(n)
  \/ WarmResume(n) \/ ColdResume(n)

Next == Editor \/ Applier \/ PublisherTask \/ Restarter

Spec == Init /\ [][Next]_vars

\* A task goes on; it gives up a fetch nobody can serve.
TaskAdvances(n) == \E t \in tasks[n] :
  \/ ConfirmDurability(n, t) \/ ApplyRecord(n, t) \/ CommitGroupBlob(n, t)
  \/ (~Fetchable(n, t.rec.hash) /\ FetchFails(n, t))

\* The poller ticks for ever and does not queue behind other appliers, the
\* publisher and the restore supervisor retry, and the relay answers.
Fairness ==
  /\ \A n \in Nodes :
       /\ SF_vars(Poll(n))
       /\ WF_vars(TaskAdvances(n))
       /\ WF_vars(ResolveRestore(n)) /\ WF_vars(SealRestored(n))
       /\ WF_vars(Install(n)) /\ WF_vars(WarmResume(n) \/ ColdResume(n))
  /\ \A c \in Coordinators :
       /\ WF_vars(UpdateSnapshot(c)) /\ WF_vars(PublisherWakes(c))
       /\ WF_vars(Sign(c)) /\ WF_vars(RelayAnswers(c))
       /\ WF_vars(MarkPublished(c))

FairSpec == Spec /\ Fairness

-----------------------------------------------------------------------------
(* Properties. *)

\* Every variable has the shape NetworkState, the saved config and the relay
\* give it.
TypeOK ==
  /\ taken \subseteq Records /\ taken # {} /\ clock \in 2..MaxClock
  /\ phase \in [Nodes -> {"down", "resolved", "restoring", "up", "gone"}]
  /\ live \in [Nodes -> Live]
  /\ file \in [Nodes -> Saved] /\ disk \in [Nodes -> Saved]
  /\ blobs \in [Nodes -> SUBSET Hashes]
  /\ tasks \in [Nodes -> SUBSET Tasks]
  /\ pub \in [Coordinators -> Publisher]
  /\ editing \subseteq Coordinators /\ edits \in [Edits -> Nat]
  /\ faults \in 0..MaxFaults
  /\ owed \in [Nodes -> SUBSET Hashes]

\* A record is only signed once its roster is in the node's own store and the
\* pointer a crash leaves names it, so a crash never leaves the relay newer than
\* the recovery pointer on disk.
SignedIsSaved ==
  [][\A c \in Coordinators :
       pub'[c].st = "signed" /\ pub[c].st # "signed" =>
         disk'[c].hash = pub'[c].rec.hash /\ disk'[c].hash \in blobs'[c]]_vars

\* A saved roster of a coordinator's own stays the one a restart restores and
\* publishes until a relay took it: nothing a poll, a renewal or a late answer
\* does marks it published or replaces it earlier.
OwedKept ==
  \A c \in Coordinators : disk[c].prov = "published" => owed[c] = {}

\* No node refuses what the relay has yet to serve: a floor, live or saved, is
\* the timestamp of a record the relay took or an earlier one.
FloorWithinRelay ==
  \A n \in Nodes : \E r \in taken :
    live[n].floor <= r.ts /\ file[n].floor <= r.ts

\* With one coordinator that takes nothing back, the roster a running member
\* holds never loses an edit, whatever old record it is served.
NoRollback ==
  [][\A n \in Members :
       phase[n] = "up" /\ phase'[n] = "up" => live[n].group \subseteq live'[n].group]_vars

\* A member leaves only when a record published after it joined removes it.
StaysUnlessRemoved ==
  \A n \in Members :
    phase[n] = "gone" => \E r \in taken : n \in r.hash /\ r.ts > Genesis.ts

\* A saved roster of a coordinator's own is published in the end, through failed
\* writes, failed publications and a restart, whatever another one publishes.
EditsPublished == \A c \in Coordinators : owed[c] # {} ~> owed[c] = {}

\* With one coordinator, once edits and faults are over, every node ends on the
\* roster of the newest record the relay has.
Converges ==
  <>[](\A n \in Nodes : phase[n] # "gone" =>
         phase[n] = "up" /\ live[n].group = Newest.hash)

-----------------------------------------------------------------------------
(* What the comments of the code say and the code does not guarantee. *)

\* A coordinator with nothing unpublished restores the newest record's roster,
\* or fails and tries again: it publishes no stale local roster.
RestoresNewest ==
  [][\A c \in Coordinators :
       phase[c] = "down" /\ phase'[c] = "resolved" /\ file[c].prov = "published"
         => live'[c].conv = Newest.hash]_vars

\* A renewal does not publish over another coordinator's edit.
RenewalKeepsNewer ==
  [][\A c \in Coordinators :
       /\ pub[c].st = "signed" /\ pub'[c].st = "answered" /\ taken' # taken
       /\ file[c].hash = pub[c].rec.hash /\ file[c].prov = "published"
       => pub[c].rec.hash = Newest.hash]_vars

\* An edit that is live and not yet published keeps its priority over a record.
UnpublishedEditKept ==
  [][\A c \in editing \cap editing' : live'[c].group = live[c].group]_vars
====
