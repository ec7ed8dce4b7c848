------------------------------ MODULE Pairing ------------------------------
(***************************************************************************)
(* Pairing a device with a primary, and ending that pairing from either    *)
(* side.  One device and the primaries it pairs with; each primary         *)
(* coordinates some networks whose signed record carries a nullifier set.  *)
(*                                                                         *)
(* A primary numbers the pairings of the device (generations), so that a   *)
(* notice or a request that is acted on late cannot end a newer pairing.   *)
(* Each side saves what is left to do before doing it, so either can crash *)
(* between any two steps.                                                  *)
(*                                                                         *)
(* Left out: the older protocol versions (the bare Unpaired notice and     *)
(* RequestUnpair), and every other device of a primary: what a primary     *)
(* saves is keyed by device, and only revocation_lock is shared.           *)
(***************************************************************************)
EXTENDS Naturals, FiniteSets

CONSTANTS
  Primaries,    \* the primaries the device may pair with
  Networks,     \* the networks those primaries coordinate
  Coord,        \* Coord[n]: the primary that holds network n's key
  Independent,  \* networks the device is a member of in its own right
  MaxTickets,   \* bound: pairing sessions opened
  MaxFaults     \* bound: restarts, and revocations that cannot be put back

ASSUME PairingAssumption ==
  /\ Coord \in [Networks -> Primaries]
  /\ Independent \subseteq Networks
  /\ MaxTickets \in Nat
  /\ MaxFaults \in Nat

VARIABLES
  cert,       \* device, saved: the stored certificate, {} or a singleton
  pending,    \* device, saved: pending_unpairs
  joined,     \* device, saved: networks first joined with a certificate
  dop,        \* device: what the holder of unpair_lock is doing
  nullTasks,  \* device: spawned unpair_nullified tasks, by certificate
  resolved,   \* device: a record read for a network and not yet checked
  joining,    \* device: the certificate a join under way presented
  revoked,    \* primaries, saved: the device is in revoked_devices
  notices,    \* primary, saved: generation of the device's pending notice
  issued,     \* primary, saved: latest generation signed for the device
  confirmed,  \* primary, saved: latest one the device confirmed, 0 if none
  nulled,     \* networks, saved: the group nullifies the device
  stale,      \* networks, saved: group hash # last_group_hash_published
  listed,     \* networks, saved: the roster lists the device by certificate
  pop,        \* primary: what the holder of revocation_lock is doing
  session,    \* primary: a pairing session is open, or its secret was taken
  awaiting,   \* primary: generation whose CertificateSaved is awaited
  unpairing,  \* primary: `ray unpair` found the device and waits to revoke
  phase,      \* network on its coordinator: stopped, sealed or running
  record,     \* networks: the published record nullifies the device
  link,       \* the pairing connection to each primary
  reqs,       \* unpair requests sent and not yet handled
  told,       \* PairingRevoked notices in flight
  tickets, faults,  \* bounds
  ended,      \* history: generations `ray unpair` was run at
  recorded,   \* history: certificates whose unpair a primary recorded
  disowned    \* history: certificates confirmed while revoked or nullified

devDisk == <<cert, pending, joined>>
devMem  == <<dop, nullTasks, resolved, joining>>
priSets == <<revoked, notices, issued, confirmed>>
priNets == <<nulled, stale, listed, phase, record>>
priMem  == <<pop, session, awaiting, unpairing>>
wire    == <<link, reqs, told>>
bounds  == <<tickets, faults>>
history == <<ended, recorded, disowned>>
vars    == <<devDisk, devMem, priSets, priNets, priMem, wire, bounds, history>>

-----------------------------------------------------------------------------
Cert == [by : Primaries, gen : Nat]
PendingUnpair == [by : Primaries, gen : Nat, phase : {"cleanup", "request"}]

CertOf(e) == [by |-> e.by, gen |-> e.gen]
Entry(c, ph) == [by |-> c.by, gen |-> c.gen, phase |-> ph]
CertFrom(p) == {c \in cert : c.by = p}
Coordinated(p) == {n \in Networks : Coord[n] = p}

Idle == [kind |-> "idle"]
Op(kind, c) == [kind |-> kind, by |-> c.by, gen |-> c.gen]
DeviceOps == {Idle} \cup
  [kind : {"cleanup", "swept", "pairing", "stored", "request", "recorded"},
   by : Primaries, gen : Nat]

Free == [kind |-> "free"]
PrimaryOps == {Free}
  \cup [kind : {"revoking"}, nets : SUBSET Networks, gen : Nat]
  \cup [kind : {"lifting", "waiting"}, undo : {"revoke", "nothing"},
          changed : SUBSET Networks]

NoLink == [state |-> "none", gen |-> 0]
Links == [state : {"none", "dialed", "taken", "accepted", "answered", "saved"},
          gen : Nat]

DeviceTypes ==
  /\ cert \subseteq Cert /\ \A c, d \in cert : c = d
  /\ pending \subseteq PendingUnpair
  /\ \A e, f \in pending : e.by = f.by => e = f
  /\ joined \subseteq Networks
  /\ dop \in DeviceOps /\ nullTasks \subseteq Cert
  /\ resolved \in [Networks -> {"none", "clean", "nullified"}]
  /\ joining \in [Networks -> SUBSET Cert]

PrimaryTypes ==
  /\ revoked \subseteq Primaries /\ notices \in [Primaries -> SUBSET Nat]
  /\ issued \in [Primaries -> Nat] /\ confirmed \in [Primaries -> Nat]
  /\ pop \in [Primaries -> PrimaryOps]
  /\ session \in [Primaries -> SUBSET {"open", "taken"}]
  /\ awaiting \in [Primaries -> SUBSET Nat] /\ unpairing \subseteq Primaries

NetworkTypes ==
  /\ nulled \subseteq Networks /\ stale \subseteq Networks
  /\ listed \subseteq Networks /\ record \subseteq Networks
  /\ phase \in [Networks -> {"stopped", "sealed", "running"}]

WireTypes ==
  /\ link \in [Primaries -> Links]
  /\ reqs \subseteq [by : Primaries, gen : Nat, conn : {"live", "gone"}]
  /\ told \subseteq Cert

OtherTypes ==
  /\ tickets \in 0..MaxTickets /\ faults \in 0..MaxFaults
  /\ ended \subseteq Cert /\ recorded \subseteq Cert /\ disowned \subseteq Cert

\* One certificate is stored, one unpair is saved for each primary, and every
\* variable has its type.
TypeOK ==
  DeviceTypes /\ PrimaryTypes /\ NetworkTypes /\ WireTypes /\ OtherTypes

Init ==
  /\ cert = {} /\ pending = {} /\ joined = {}
  /\ dop = Idle /\ nullTasks = {}
  /\ resolved = [n \in Networks |-> "none"]
  /\ joining = [n \in Networks |-> {}]
  /\ revoked = {} /\ notices = [p \in Primaries |-> {}]
  /\ issued = [p \in Primaries |-> 0] /\ confirmed = [p \in Primaries |-> 0]
  /\ nulled = {} /\ stale = {} /\ listed = {} /\ record = {}
  /\ pop = [p \in Primaries |-> Free] /\ session = [p \in Primaries |-> {}]
  /\ awaiting = [p \in Primaries |-> {}] /\ unpairing = {}
  /\ phase = [n \in Networks |-> "running"]
  /\ link = [p \in Primaries |-> NoLink] /\ reqs = {} /\ told = {}
  /\ tickets = 0 /\ faults = 0
  /\ ended = {} /\ recorded = {} /\ disowned = {}

-----------------------------------------------------------------------------
(* The device unpairs itself. *)

\* Mutant: the cleanup is taken for done.
SaveUnpairAsRequest(c) ==
  /\ pending' = {e \in pending : e.by # c.by} \cup {Entry(c, "request")}
  /\ dop' = Op("cleanup", c)

\* The first write of unpair_self_locked: everything after it can be redone.
SaveUnpair(c) ==
  /\ pending' = {e \in pending : e.by # c.by} \cup {Entry(c, "cleanup")}
  /\ dop' = Op("cleanup", c)

UnpairSelf ==
  /\ dop = Idle
  /\ \E c \in cert : SaveUnpair(c)
  /\ UNCHANGED <<cert, joined, nullTasks, resolved, joining, priSets, priNets,
                 priMem, wire, bounds, ended, recorded, disowned>>

\* Judged under unpair_lock against the certificate stored now.
OnUnpairedNotice ==
  /\ dop = Idle
  /\ \E m \in told :
       /\ told' = told \ {m}
       /\ \/ /\ \E c \in CertFrom(m.by) : c.gen <= m.gen /\ SaveUnpair(c)
          \/ /\ \A c \in CertFrom(m.by) : c.gen > m.gen
             /\ UNCHANGED <<pending, dop>>
  /\ UNCHANGED <<cert, joined, nullTasks, resolved, joining, priSets, priNets,
                 priMem, link, reqs, bounds, ended, recorded, disowned>>

\* The blob was checked earlier, for certificate c: a newer one stays.
UnpairNullified ==
  /\ dop = Idle
  /\ \E c \in nullTasks :
       /\ nullTasks' = nullTasks \ {c}
       /\ \/ c \in cert /\ SaveUnpair(c)
          \/ c \notin cert /\ UNCHANGED <<pending, dop>>
  /\ UNCHANGED <<cert, joined, resolved, joining, priSets, priNets, priMem,
                 wire, bounds, ended, recorded, disowned>>

\* A cleanup that an earlier attempt or the start could not finish.
ResumeCleanup ==
  /\ dop = Idle
  /\ \E e \in pending : e.phase = "cleanup" /\ dop' = Op("cleanup", CertOf(e))
  /\ UNCHANGED <<devDisk, nullTasks, resolved, joining, priSets, priNets,
                 priMem, wire, bounds, history>>

\* leave_certificate_networks: leave each network first joined with the
\* certificate, the coordinator hearing of it or not ...
LeaveNetwork(n) ==
  /\ dop.kind = "cleanup"
  /\ n \in joined /\ Coord[n] = dop.by
  /\ joined' = joined \ {n}
  /\ \/ /\ phase[n] = "running"
        /\ listed' = listed \ {n}
        /\ stale' = stale \cup ({n} \cap listed)
     \/ UNCHANGED <<listed, stale>>
  /\ UNCHANGED <<cert, pending, dop, nullTasks, resolved, joining, priSets,
                 nulled, phase, record, priMem, wire, bounds, history>>

\* ... then delete whatever certificate is stored.
DeleteCert ==
  /\ dop.kind = "cleanup"
  /\ joined \cap Coordinated(dop.by) = {}
  /\ cert' = {}
  /\ dop' = Op("swept", dop)
  /\ UNCHANGED <<pending, joined, nullTasks, resolved, joining, priSets, priNets,
                 priMem, wire, bounds, history>>

\* The deletions are synced, then the entry moves on to its request.
Requested(e, c) == IF CertOf(e) = c THEN Entry(c, "request") ELSE e

CompleteCleanup ==
  /\ dop.kind = "swept"
  /\ pending' = {Requested(e, CertOf(dop)) : e \in pending}
  /\ dop' = Idle
  /\ UNCHANGED <<cert, joined, nullTasks, resolved, joining, priSets, priNets,
                 priMem, wire, bounds, history>>

\* A write or a deletion failed; the entry stays in its cleanup phase.
CleanupFails ==
  /\ dop.kind \in {"cleanup", "swept"}
  /\ dop' = Idle
  /\ UNCHANGED <<devDisk, nullTasks, resolved, joining, priSets, priNets,
                 priMem, wire, bounds, history>>

-----------------------------------------------------------------------------
(* The device asks its primary to record the unpair. *)

\* A stored certificate of the same primary is a newer pairing.
CancelRequest ==
  /\ dop = Idle
  /\ \E e \in pending : /\ e.phase = "request"
                        /\ CertFrom(e.by) # {}
                        /\ pending' = pending \ {e}
  /\ UNCHANGED <<cert, joined, devMem, priSets, priNets, priMem, wire, bounds,
                 history>>

SendUnpairRequest ==
  /\ dop = Idle
  /\ \E e \in pending :
       /\ e.phase = "request"
       /\ CertFrom(e.by) = {}
       /\ dop' = Op("request", CertOf(e))
       /\ reqs' = reqs \cup {[by |-> e.by, gen |-> e.gen, conn |-> "live"]}
  /\ UNCHANGED <<devDisk, nullTasks, resolved, joining, priSets, priNets,
                 priMem, link, told, bounds, history>>

\* The connection is gone for the device, not for a primary that has the request.
Abandoned(rs) == {[r EXCEPT !.conn = "gone"] : r \in rs}

\* Mutants: the answer does not end the saved unpair; a missing one does.
ReceiveRecordedKeeps ==
  /\ dop.kind = "recorded"
  /\ dop' = Idle
  /\ UNCHANGED <<devDisk, nullTasks, resolved, joining, priSets, priNets,
                 priMem, wire, bounds, history>>
RequestFailsForgets ==
  /\ dop.kind \in {"request", "recorded"}
  /\ pending' = {e \in pending : CertOf(e) # CertOf(dop)}
  /\ dop' = Idle
  /\ reqs' = Abandoned(reqs)
  /\ UNCHANGED <<cert, joined, nullTasks, resolved, joining, priSets, priNets,
                 priMem, link, told, bounds, history>>

ReceiveRecorded ==
  /\ dop.kind = "recorded"
  /\ pending' = {e \in pending : CertOf(e) # CertOf(dop)}
  /\ dop' = Idle
  /\ UNCHANGED <<cert, joined, nullTasks, resolved, joining, priSets, priNets,
                 priMem, wire, bounds, history>>

\* Timed out, failed, or the removal could not be saved: retried later.
RequestFails ==
  /\ dop.kind \in {"request", "recorded"}
  /\ dop' = Idle
  /\ reqs' = Abandoned(reqs)
  /\ UNCHANGED <<devDisk, nullTasks, resolved, joining, priSets, priNets,
                 priMem, link, told, bounds, history>>

-----------------------------------------------------------------------------
(* The device pairs, holding unpair_lock until the pairing is complete. *)

\* Mutant: pairing starts under an unpair whose cleanup is not finished.
PairDialEarly(p) ==
  /\ dop = Idle
  /\ "open" \in session[p]
  /\ dop' = Op("pairing", [by |-> p, gen |-> 0])
  /\ link' = [link EXCEPT ![p] = [state |-> "dialed", gen |-> 0]]
  /\ UNCHANGED <<devDisk, nullTasks, resolved, joining, priSets, priNets,
                 priMem, reqs, told, bounds, history>>

PairDial(p) ==
  /\ dop = Idle
  /\ \A e \in pending : e.phase # "cleanup"
  /\ "open" \in session[p]
  /\ dop' = Op("pairing", [by |-> p, gen |-> 0])
  /\ link' = [link EXCEPT ![p] = [state |-> "dialed", gen |-> 0]]
  /\ UNCHANGED <<devDisk, nullTasks, resolved, joining, priSets, priNets,
                 priMem, reqs, told, bounds, history>>

PairFails ==
  /\ dop.kind = "pairing"
  /\ dop' = Idle
  /\ link' = [link EXCEPT ![dop.by] = NoLink]
  /\ UNCHANGED <<devDisk, nullTasks, resolved, joining, priSets, priNets,
                 priMem, reqs, told, bounds, history>>

\* The stored certificate is replaced, whichever primary signed it.
StoreCert ==
  /\ dop.kind = "pairing"
  /\ link[dop.by].state = "answered"
  /\ LET c == [by |-> dop.by, gen |-> link[dop.by].gen]
     IN cert' = {c} /\ dop' = Op("stored", c)
  /\ UNCHANGED <<pending, joined, nullTasks, resolved, joining, priSets,
                 priNets, priMem, wire, bounds, history>>

\* Cancel the requests to this primary, unless that cannot be saved, and
\* confirm that the certificate is saved.
FinishPairing ==
  /\ dop.kind = "stored"
  /\ \/ pending' = {e \in pending : e.by # dop.by}
     \/ UNCHANGED pending
  /\ link' = [link EXCEPT ![dop.by] = IF @.state = "answered"
                                        THEN [@ EXCEPT !.state = "saved"] ELSE @]
  /\ dop' = Idle
  /\ UNCHANGED <<cert, joined, nullTasks, resolved, joining, priSets, priNets,
                 priMem, reqs, told, bounds, history>>

-----------------------------------------------------------------------------
(* The device reads the record of a network: a restore, a join or a poll.  The
   certificate it judges the blob with is read after the record was resolved.  A
   clean record of a network the device is in changes nothing here. *)

ReadRecord(n) ==
  /\ resolved[n] = "none"
  /\ n \in Independent \cup joined \/ CertFrom(Coord[n]) # {}
  /\ n \in record \/ n \notin Independent \cup joined
  /\ resolved' = [resolved EXCEPT
                    ![n] = IF n \in record THEN "nullified" ELSE "clean"]
  /\ UNCHANGED <<devDisk, dop, nullTasks, joining, priSets, priNets, priMem,
                 wire, bounds, history>>

CheckRecord(n) ==
  /\ resolved[n] # "none"
  /\ resolved' = [resolved EXCEPT ![n] = "none"]
  /\ \/ /\ resolved[n] = "nullified"
        /\ nullTasks' = nullTasks \cup CertFrom(Coord[n])
        /\ UNCHANGED joining
     \/ /\ resolved[n] = "clean"
        /\ joining' = [joining EXCEPT
                         ![n] = IF n \in Independent \cup joined THEN @
                                ELSE CertFrom(Coord[n])]
        /\ UNCHANGED nullTasks
  /\ UNCHANGED <<devDisk, dop, priSets, priNets, priMem, wire, bounds, history>>

\* The coordinator admits a certificate it has not nullified; the device then
\* saves the network with the certificate's issuer.
Join(n) ==
  /\ joining[n] # {}
  /\ joining' = [joining EXCEPT ![n] = {}]
  /\ IF phase[n] = "running" /\ n \notin nulled
       THEN /\ joined' = joined \cup {n}
            /\ listed' = listed \cup {n}
            /\ stale' = stale \cup ({n} \ listed)
       ELSE UNCHANGED <<joined, listed, stale>>
  /\ UNCHANGED <<cert, pending, dop, nullTasks, resolved, priSets, nulled,
                 phase, record, priMem, wire, bounds, history>>

-----------------------------------------------------------------------------
(* The device faults and starts again: finish_interrupted_unpair runs before
   anything reads the certificate.  Each interrupted cleanup may fail before its
   deletions (not in swept) or before they are recorded (not in done). *)

DeviceRestart ==
  /\ faults < MaxFaults
  /\ faults' = faults + 1
  /\ \E swept \in SUBSET {e \in pending : e.phase = "cleanup"} :
       /\ joined' = {n \in joined : \A e \in swept : Coord[n] # e.by}
       /\ cert' = {c \in cert : \A e \in swept : c # CertOf(e)}
       /\ \E done \in SUBSET swept :
            pending' = (pending \ done) \cup
                         {Entry(CertOf(e), "request") : e \in done}
  /\ dop' = Idle /\ nullTasks' = {}
  /\ resolved' = [n \in Networks |-> "none"]
  /\ joining' = [n \in Networks |-> {}]
  /\ link' = [p \in Primaries |-> NoLink]
  /\ reqs' = Abandoned(reqs)
  /\ UNCHANGED <<priSets, priNets, priMem, told, tickets, history>>

-----------------------------------------------------------------------------
(* A primary pairs the device.  revocation_lock is held from Reauthorize to
   SavePairing or to the revocation that a refused pairing puts back. *)

StartPairing(p) ==
  /\ tickets < MaxTickets
  /\ tickets' = tickets + 1
  /\ session' = [session EXCEPT ![p] = @ \cup {"open"}]
  /\ UNCHANGED <<devDisk, devMem, priSets, priNets, pop, awaiting, unpairing,
                 wire, faults, history>>

\* accept_pair_request: the secret is used up, then revocation_lock awaited.
AcceptPair(p) ==
  /\ link[p].state = "dialed" /\ session[p] = {"open"}
  /\ session' = [session EXCEPT ![p] = {"taken"}]
  /\ link' = [link EXCEPT ![p].state = "taken"]
  /\ UNCHANGED <<devDisk, devMem, priSets, priNets, pop, awaiting, unpairing,
                 reqs, told, bounds, history>>

\* reauth_device_locked up to its first write: the seed no longer lists the
\* device, unless a coordinated network does not run.
Reauthorize(p) ==
  /\ "taken" \in session[p] /\ pop[p] = Free
  /\ session' = [session EXCEPT ![p] = @ \ {"taken"}]
  /\ LET refused == p \in revoked /\ \E n \in Coordinated(p) : phase[n] # "running"
     IN /\ link' = [link EXCEPT ![p] =
                      IF @.state # "taken" THEN @
                      ELSE IF refused THEN NoLink
                      ELSE [@ EXCEPT !.state = "accepted"]]
        /\ revoked' = IF refused THEN revoked ELSE revoked \ {p}
        /\ pop' = [pop EXCEPT ![p] =
                     IF refused THEN Free
                     ELSE [kind |-> "lifting", changed |-> {},
                           undo |-> IF p \in revoked THEN "revoke"
                                                     ELSE "nothing"]]
  /\ UNCHANGED <<devDisk, devMem, notices, issued, confirmed, priNets, awaiting,
                 unpairing, reqs, told, bounds, history>>

LiftNullifiers(p) ==
  /\ pop[p].kind = "lifting"
  /\ LET changed == {n \in Coordinated(p) : phase[n] = "running" /\ n \in nulled}
     IN /\ nulled' = nulled \ changed
        /\ stale' = stale \cup changed
        /\ pop' = [pop EXCEPT ![p] =
             [kind |-> "waiting", changed |-> changed,
              undo |-> IF changed # {} THEN "revoke" ELSE pop[p].undo]]
  /\ UNCHANGED <<devDisk, devMem, priSets, listed, phase, record, session,
                 awaiting, unpairing, wire, bounds, history>>

\* save_pairing_generation, then the reply, lost if the device has hung up.
SavePairing(p) ==
  /\ pop[p].kind = "waiting"
  /\ pop[p].changed \cap stale = {}
  /\ issued' = [issued EXCEPT ![p] = @ + 1]
  /\ notices' = [notices EXCEPT ![p] = {}]
  /\ IF link[p].state = "accepted"
       THEN /\ link' = [link EXCEPT ![p] = [state |-> "answered",
                                            gen |-> issued[p] + 1]]
            /\ awaiting' = [awaiting EXCEPT ![p] = {issued[p] + 1}]
       ELSE UNCHANGED <<link, awaiting>>
  /\ pop' = [pop EXCEPT ![p] = Free]
  /\ UNCHANGED <<devDisk, devMem, revoked, confirmed, priNets, session,
                 unpairing, reqs, told, bounds, history>>

\* The networks revoke_device_locked works on, listed before its first write.
Running(p) == {n \in Coordinated(p) : phase[n] = "running"}
Revoking(p, g) == [kind |-> "revoking", nets |-> Running(p), gen |-> g]

\* Not published in time, or the generation could not be saved: the pairing is
\* refused and a lifted revocation put back.
RefusePairing(p) ==
  /\ pop[p].kind = "waiting"
  /\ IF pop[p].undo = "revoke"
       THEN /\ revoked' = revoked \cup {p}
            /\ pop' = [pop EXCEPT ![p] = Revoking(p, 0)]
       ELSE UNCHANGED revoked /\ pop' = [pop EXCEPT ![p] = Free]
  /\ link' = [link EXCEPT ![p] = IF @.state = "accepted" THEN NoLink ELSE @]
  /\ UNCHANGED <<devDisk, devMem, notices, issued, confirmed, priNets, session,
                 awaiting, unpairing, reqs, told, bounds, history>>

\* The write that puts it back fails too, which is only logged.
PutBackFails(p) ==
  /\ pop[p].kind = "waiting" /\ pop[p].undo = "revoke"
  /\ faults < MaxFaults
  /\ faults' = faults + 1
  /\ pop' = [pop EXCEPT ![p] = Free]
  /\ link' = [link EXCEPT ![p] = IF @.state = "accepted" THEN NoLink ELSE @]
  /\ UNCHANGED <<devDisk, devMem, priSets, priNets, session, awaiting,
                 unpairing, reqs, told, tickets, history>>

\* await_certificate_saved: the confirmation counts while it is awaited.
SaveConfirmed(p) ==
  /\ link[p].state = "saved" /\ link[p].gen \in awaiting[p]
  /\ confirmed' = [confirmed EXCEPT ![p] = IF @ < link[p].gen THEN link[p].gen
                                                              ELSE @]
  /\ awaiting' = [awaiting EXCEPT ![p] = {}]
  /\ link' = [link EXCEPT ![p] = NoLink]
  /\ disowned' = IF p \in revoked \/ nulled \cap Coordinated(p) # {}
                   THEN disowned \cup {[by |-> p, gen |-> link[p].gen]}
                   ELSE disowned
  /\ UNCHANGED <<devDisk, devMem, revoked, notices, issued, priNets, pop,
                 session, unpairing, reqs, told, bounds, ended, recorded>>

ConfirmationTimesOut(p) ==
  /\ awaiting[p] # {}
  /\ awaiting' = [awaiting EXCEPT ![p] = {}]
  /\ UNCHANGED <<devDisk, devMem, priSets, priNets, pop, session, unpairing,
                 wire, bounds, history>>

-----------------------------------------------------------------------------
(* A primary revokes the device. *)

\* nullify_device: the rosters say the device is paired, then it waits for
\* revocation_lock.
FindPaired(p) ==
  /\ p \notin unpairing
  /\ listed \cap Running(p) # {}
  /\ unpairing' = unpairing \cup {p}
  /\ UNCHANGED <<devDisk, devMem, priSets, priNets, pop, session, awaiting,
                 wire, bounds, history>>

\* The seed and the notice, naming the latest generation, are one write.
UnpairDevice(p) ==
  /\ p \in unpairing /\ pop[p] = Free
  /\ unpairing' = unpairing \ {p}
  /\ revoked' = revoked \cup {p}
  /\ notices' = [notices EXCEPT ![p] = {issued[p]}]
  /\ pop' = [pop EXCEPT ![p] = Revoking(p, 0)]
  /\ ended' = ended \cup {[by |-> p, gen |-> issued[p]]}
  /\ UNCHANGED <<devDisk, devMem, issued, confirmed, priNets, session, awaiting,
                 wire, bounds, recorded, disowned>>

\* UnpairRecorded reaches the device if it still waits on that connection.
Answer(r) ==
  /\ reqs' = reqs \ {r}
  /\ dop' = IF r.conn = "live" THEN Op("recorded", dop) ELSE dop

\* Mutant: the request is not compared with the confirmed pairing.
RecordUnpairAny(p, r) ==
  /\ pop[p] = Free /\ r.by = p
  /\ recorded' = recorded \cup {CertOf(r)}
  /\ revoked' = revoked \cup {p}
  /\ notices' = [notices EXCEPT ![p] = {}]
  /\ pop' = [pop EXCEPT ![p] = Revoking(p, r.gen)]
  /\ UNCHANGED <<devDisk, devMem, issued, confirmed, priNets, session, awaiting,
                 unpairing, link, reqs, told, bounds, ended, disowned>>

\* record_unpair: a certificate older than the latest confirmed one revokes
\* nothing.
RecordUnpair(p, r) ==
  /\ pop[p] = Free /\ r.by = p
  /\ recorded' = recorded \cup {CertOf(r)}
  /\ \/ /\ confirmed[p] > r.gen
        /\ Answer(r)
        /\ UNCHANGED <<revoked, notices, pop>>
     \/ /\ confirmed[p] <= r.gen
        /\ revoked' = revoked \cup {p}
        /\ notices' = [notices EXCEPT ![p] = {}]
        /\ pop' = [pop EXCEPT ![p] = Revoking(p, r.gen)]
        /\ UNCHANGED <<reqs, dop>>
  /\ UNCHANGED <<devDisk, nullTasks, resolved, joining, issued, confirmed,
                 priNets, session, awaiting, unpairing, link, told, bounds,
                 ended, disowned>>

\* The rest of revoke_device_locked, on the networks that ran when it started;
\* then the request it came from, if any, is answered.
NullifyNetworks(p) ==
  /\ pop[p].kind = "revoking"
  /\ LET nets == pop[p].nets
     IN /\ nulled' = nulled \cup nets
        /\ stale' = stale \cup {n \in nets : n \notin nulled \/ n \in listed}
        /\ listed' = listed \ nets
  /\ \/ \E r \in reqs : r.by = p /\ r.gen = pop[p].gen /\ Answer(r)
     \/ /\ \A r \in reqs : r.by # p \/ r.gen # pop[p].gen
        /\ UNCHANGED <<reqs, dop>>
  /\ pop' = [pop EXCEPT ![p] = Free]
  /\ UNCHANGED <<devDisk, nullTasks, resolved, joining, priSets, phase, record,
                 session, awaiting, unpairing, link, told, bounds, history>>

TellDevice(p) ==
  /\ \E g \in notices[p] : told' = told \cup {[by |-> p, gen |-> g]}
  /\ UNCHANGED <<devDisk, devMem, priSets, priNets, priMem, link, reqs, bounds,
                 history>>

-----------------------------------------------------------------------------
(* The publisher, restores and the environment. *)

Publish(n) ==
  /\ phase[n] = "running" /\ n \in stale
  /\ record' = (record \ {n}) \cup (nulled \cap {n})
  /\ stale' = stale \ {n}
  /\ UNCHANGED <<devDisk, devMem, priSets, nulled, listed, phase, priMem, wire,
                 bounds, history>>

\* seal_group_snapshot on a restore, which does not take revocation_lock.
Seal(n) ==
  /\ phase[n] = "stopped"
  /\ phase' = [phase EXCEPT ![n] = "sealed"]
  /\ IF Coord[n] \in revoked
       THEN nulled' = nulled \cup {n} /\ stale' = stale \cup ({n} \ nulled)
       ELSE UNCHANGED <<nulled, stale>>
  /\ UNCHANGED <<devDisk, devMem, priSets, listed, record, priMem, wire, bounds,
                 history>>

\* The restore tries to publish, then installs the network either way.
Install(n) ==
  /\ phase[n] = "sealed"
  /\ phase' = [phase EXCEPT ![n] = "running"]
  /\ \/ /\ record' = (record \ {n}) \cup (nulled \cap {n})
        /\ stale' = stale \ {n}
     \/ UNCHANGED <<record, stale>>
  /\ UNCHANGED <<devDisk, devMem, priSets, nulled, listed, priMem, wire, bounds,
                 history>>

PrimaryRestart(p) ==
  /\ faults < MaxFaults
  /\ faults' = faults + 1
  /\ pop' = [pop EXCEPT ![p] = Free]
  /\ session' = [session EXCEPT ![p] = {}]
  /\ awaiting' = [awaiting EXCEPT ![p] = {}]
  /\ unpairing' = unpairing \ {p}
  /\ phase' = [n \in Networks |-> IF Coord[n] = p THEN "stopped" ELSE phase[n]]
  /\ link' = [link EXCEPT ![p] = IF @.state = "answered" THEN @ ELSE NoLink]
  /\ reqs' = {r \in reqs : r.by # p}
  /\ UNCHANGED <<devDisk, devMem, priSets, nulled, stale, listed, record, told,
                 tickets, history>>

-----------------------------------------------------------------------------
Device ==
  \/ UnpairSelf \/ OnUnpairedNotice \/ UnpairNullified \/ ResumeCleanup
  \/ DeleteCert \/ CompleteCleanup \/ CleanupFails
  \/ CancelRequest \/ SendUnpairRequest \/ ReceiveRecorded \/ RequestFails
  \/ \E p \in Primaries : PairDial(p)
  \/ PairFails \/ StoreCert \/ FinishPairing \/ DeviceRestart
  \/ \E n \in Networks : LeaveNetwork(n) \/ ReadRecord(n) \/ CheckRecord(n) \/ Join(n)

Primary ==
  \/ \E p \in Primaries :
       \/ StartPairing(p) \/ AcceptPair(p) \/ Reauthorize(p)
       \/ LiftNullifiers(p)
       \/ SavePairing(p) \/ RefusePairing(p) \/ PutBackFails(p)
       \/ SaveConfirmed(p) \/ ConfirmationTimesOut(p)
       \/ FindPaired(p) \/ UnpairDevice(p)
       \/ \E r \in reqs : RecordUnpair(p, r)
       \/ NullifyNetworks(p) \/ TellDevice(p) \/ PrimaryRestart(p)
  \/ \E n \in Networks : Publish(n) \/ Seal(n) \/ Install(n)

Next == Device \/ Primary

Spec == Init /\ [][Next]_vars

\* unpair_lock and revocation_lock are queued fairly, so an operation waiting for
\* one gets it; run_unpair_requests retries for good, so a write that can
\* succeed, and an answer that can arrive within UNPAIR_REQUEST_TIMEOUT, does in
\* the end.  Nothing is assumed of pairings, restarts or reads of a record.
Fairness ==
  /\ WF_vars(StoreCert \/ PairFails) /\ WF_vars(FinishPairing)
  /\ SF_vars(ResumeCleanup) /\ SF_vars(DeleteCert)
  /\ \A n \in Networks : SF_vars(LeaveNetwork(n))
  /\ SF_vars(CompleteCleanup) /\ SF_vars(CancelRequest)
  /\ SF_vars(SendUnpairRequest) /\ SF_vars(ReceiveRecorded)
  /\ WF_vars(ReceiveRecorded \/ RequestFails)
  /\ \A p \in Primaries :
       /\ WF_vars(LiftNullifiers(p))
       /\ WF_vars(SavePairing(p) \/ RefusePairing(p))
       /\ WF_vars(NullifyNetworks(p))
       /\ SF_vars(\E r \in reqs : r.conn = "live" /\ RecordUnpair(p, r))
       /\ SF_vars(NullifyNetworks(p) /\ dop'.kind = "recorded")

-----------------------------------------------------------------------------
(* Safety. *)

\* An unpair still in its cleanup phase is about the stored certificate, or none
\* is stored: leave_certificate_networks deletes the stored certificate without
\* comparing, so with any other one it would delete a newer pairing.
CleanupOwnsCert ==
  \A e \in pending : e.phase = "cleanup" => cert \subseteq {CertOf(e)}

\* The device asks a primary to record an unpair only for a certificate it no
\* longer holds: no crash or failed write in unpair_self_locked lets a request,
\* saved or on the wire, name the stored certificate.
RequestAfterCleanup ==
  /\ \A e \in pending : e.phase = "request" => CertOf(e) \notin cert
  /\ \A r \in reqs : CertOf(r) \notin cert

\* A pairing the device confirmed and still holds is revoked at its primary only
\* by `ray unpair` there: record_unpair never lets a late request about an earlier
\* one revoke it. Left out are pairings already revoked when they were confirmed,
\* and those confirmed while a network still nullified the device, as a crash
\* inside reauth_device_locked leaves it: a later pairing that finds the nullifier
\* and is refused puts the revocation back.
ConfirmedPairingStands ==
  \A c \in cert :
    c.by \in revoked /\ confirmed[c.by] = c.gen
      => c \in disowned \/ \E u \in ended : u.by = c.by /\ u.gen >= c.gen

\* Pairing generations are never reused: a certificate the device holds, a notice
\* on the way and a confirmed pairing are no newer than the latest one its primary
\* saved as issued.
IssuedBoundsAll ==
  /\ \A c \in cert \cup told : c.gen <= issued[c.by]
  /\ \A p \in Primaries : confirmed[p] <= issued[p]

\* What CleanupOwnsCert, RequestAfterCleanup and IssuedBoundsAll need to be
\* inductive.  While the device pairs no cleanup is unfinished, a certificate in
\* the reply is newer than anything saved or asked for, and a request that is
\* waited for is the one the device is making.
PairingClean ==
  /\ dop.kind \in {"pairing", "stored"} =>
       \A e \in pending : e.phase # "cleanup"
  /\ dop.kind = "swept" => cert = {}
  /\ dop.kind = "pairing" /\ link[dop.by].state = "answered" =>
       \A x \in pending \cup reqs : x.by = dop.by => x.gen < link[dop.by].gen

LinkHeld ==
  /\ \A p \in Primaries : link[p].state \in {"dialed", "taken", "accepted"} =>
       dop.kind = "pairing" /\ dop.by = p
  /\ \A r \in reqs : r.conn = "live" =>
       dop.kind = "request" /\ dop.by = r.by /\ dop.gen = r.gen

AllIssued ==
  /\ \A x \in pending \cup reqs : x.gen <= issued[x.by]
  /\ \A p \in Primaries :
       /\ link[p].state \in {"answered", "saved"} => link[p].gen <= issued[p]
       /\ \A g \in notices[p] : g <= issued[p]

Safe ==
  /\ CleanupOwnsCert /\ RequestAfterCleanup /\ IssuedBoundsAll
  /\ PairingClean /\ LinkHeld /\ AllIssued

IInv == TypeOK /\ Safe

\* A saved unpair goes away only once its primary has recorded it, or while the
\* device holds a newer certificate of that primary (which cancels it).
UnpairNotLost ==
  [][\A e \in pending :
       (\A f \in pending' : CertOf(f) # CertOf(e))
         => \/ CertOf(e) \in recorded
            \/ \E c \in cert' : c.by = e.by /\ c.gen > e.gen]_vars

-----------------------------------------------------------------------------
(* Liveness. *)

\* Every unpair the device saved is finished: cleaned up, then recorded by its
\* primary or cancelled by a newer pairing.
UnpairCompletes == pending # {} ~> pending = {}

-----------------------------------------------------------------------------
(* What the comments of the code say and the code does not guarantee. *)

\* A primary signs a certificate only while no running network it coordinates
\* publishes a record nullifying the device: save_new_pairing waits for the
\* records that lift the revocation.
LiftedBeforeSigned ==
  [][\A p \in Primaries : issued'[p] > issued[p] =>
       \A n \in Coordinated(p) : phase[n] = "running" => n \notin record]_vars

\* A record makes the device end its pairing only if its primary revoked a
\* pairing at least that new: one stored since the blob was read stays.
RecordEndsRevokedOnly ==
  \A c \in nullTasks :
    \/ c.by \in revoked
    \/ \E u \in ended \cup recorded : u.by = c.by /\ u.gen >= c.gen

\* A revocation that is done has reached every running network its primary
\* coordinates (revoke_device_locked).
RevokedEverywhere ==
  \A p \in Primaries :
    p \in revoked /\ pop[p].kind # "revoking" => Running(p) \subseteq nulled
====
