--------------------------- MODULE PairingProofs ---------------------------
(***************************************************************************)
(* Pairing, for any set of primaries and networks and any bounds.  The     *)
(* invariant IInv is inductive, so TypeOK, CleanupOwnsCert,                *)
(* RequestAfterCleanup and IssuedBoundsAll hold in every reachable state:  *)
(* there is a lemma for each action, the device's first, and the actions   *)
(* that change sets of records element by element are split by the         *)
(* conjuncts of IInv.                                                      *)
(***************************************************************************)
EXTENDS Pairing, TLAPS

USE PairingAssumption, ZenonT(30)
USE DEF devDisk, devMem, priSets, priNets, priMem, wire, bounds, history,
  Cert, CertOf, Entry, Op, Idle, Free, NoLink

\* The action A preserves the inductive invariant.
Keeps(A) == IInv /\ A => IInv'

\* The variables the safety invariants are about.
core == <<cert, pending, dop, link, reqs, told, issued, confirmed, notices>>

\* A step that leaves them alone keeps those invariants.
LEMMA SafeFrame == Safe /\ UNCHANGED core => Safe'
BY DEF core, Safe, CleanupOwnsCert, RequestAfterCleanup, IssuedBoundsAll,
  PairingClean, LinkHeld, AllIssued

\* Abandoned requests are the same requests, waited for by nobody.
LEMMA AbandonedReqs ==
  ASSUME WireTypes
  PROVE  /\ Abandoned(reqs) \subseteq
              [by : Primaries, gen : Nat, conn : {"live", "gone"}]
         /\ \A q \in Abandoned(reqs) :
              q.conn = "gone" /\ \E r \in reqs : q.by = r.by /\ q.gen = r.gen
<1>1. \A r \in reqs :
        LET q == [r EXCEPT !.conn = "gone"]
        IN /\ q \in [by : Primaries, gen : Nat, conn : {"live", "gone"}]
           /\ q.conn = "gone" /\ q.by = r.by /\ q.gen = r.gen
  BY DEF WireTypes
<1> QED BY <1>1 DEF Abandoned

-----------------------------------------------------------------------------
\* The steps of the device preserve IInv, each in a lemma.

\* UnpairSelf preserves IInv: the saved entry is about the stored certificate.
LEMMA UnpairSelfStep == Keeps(UnpairSelf)
<1> SUFFICES ASSUME TypeOK, Safe, UnpairSelf PROVE TypeOK' /\ Safe'
  BY DEF Keeps, IInv
<1>1. TypeOK'
  BY SMTT(60) DEF UnpairSelf, SaveUnpair, TypeOK, DeviceTypes, PrimaryTypes,
    NetworkTypes, WireTypes, OtherTypes, PendingUnpair, DeviceOps, Links,
    PrimaryOps
<1>2. Safe'
  BY SMTT(60) DEF UnpairSelf, SaveUnpair, Safe, CleanupOwnsCert, RequestAfterCleanup,
    IssuedBoundsAll, PairingClean, LinkHeld, AllIssued, TypeOK, DeviceTypes,
    WireTypes, PrimaryTypes, PendingUnpair, DeviceOps, Links, PrimaryOps
<1> QED BY <1>1, <1>2

\* OnUnpairedNotice preserves IInv, whether the notice counts or is too old.
LEMMA OnUnpairedNoticeStep == Keeps(OnUnpairedNotice)
<1> SUFFICES ASSUME TypeOK, Safe, OnUnpairedNotice PROVE TypeOK' /\ Safe'
  BY DEF Keeps, IInv
<1>1. PrimaryTypes' /\ NetworkTypes' /\ OtherTypes'
  BY DEF OnUnpairedNotice, TypeOK, PrimaryTypes, NetworkTypes, OtherTypes
<1>2. DeviceTypes'
  BY SMTT(60) DEF OnUnpairedNotice, SaveUnpair, CertFrom, TypeOK, DeviceTypes,
    WireTypes, PrimaryTypes, PendingUnpair, DeviceOps, Links, PrimaryOps
<1>3. WireTypes'
  BY DEF OnUnpairedNotice, SaveUnpair, CertFrom, TypeOK, WireTypes,
    PrimaryTypes, DeviceTypes, Links, PrimaryOps, PendingUnpair, DeviceOps
<1>4. TypeOK'
  BY <1>1, <1>2, <1>3 DEF TypeOK
<1>5. CleanupOwnsCert' /\ RequestAfterCleanup' /\ IssuedBoundsAll'
  BY SMTT(60) DEF OnUnpairedNotice, SaveUnpair, CertFrom, TypeOK, Safe,
    CleanupOwnsCert, DeviceTypes, PairingClean, RequestAfterCleanup,
    WireTypes, LinkHeld, IssuedBoundsAll, PrimaryTypes, AllIssued,
    PendingUnpair, DeviceOps, Links, PrimaryOps
<1>6. PairingClean' /\ LinkHeld' /\ AllIssued'
  BY SMTT(60) DEF OnUnpairedNotice, SaveUnpair, CertFrom, TypeOK, Safe, PairingClean,
    DeviceTypes, WireTypes, LinkHeld, AllIssued, PrimaryTypes,
    IssuedBoundsAll, PendingUnpair, DeviceOps, Links, PrimaryOps
<1>7. Safe'
  BY <1>5, <1>6 DEF Safe
<1> QED BY <1>4, <1>7

\* UnpairNullified preserves IInv: it saves an unpair only of the stored
\* certificate.
LEMMA UnpairNullifiedStep == Keeps(UnpairNullified)
<1> SUFFICES ASSUME TypeOK, Safe, UnpairNullified PROVE TypeOK' /\ Safe'
  BY DEF Keeps, IInv
<1>1. PrimaryTypes' /\ NetworkTypes' /\ WireTypes' /\ OtherTypes'
  BY DEF UnpairNullified, TypeOK, PrimaryTypes, NetworkTypes, WireTypes,
    OtherTypes
<1>2. DeviceTypes'
  BY SMTT(60) DEF UnpairNullified, SaveUnpair, TypeOK, DeviceTypes, WireTypes,
    PrimaryTypes, PendingUnpair, DeviceOps, Links, PrimaryOps
<1>3. TypeOK'
  BY <1>1, <1>2 DEF TypeOK
<1>4. CleanupOwnsCert' /\ RequestAfterCleanup' /\ IssuedBoundsAll'
  BY SMTT(60) DEF UnpairNullified, SaveUnpair, TypeOK, Safe, CleanupOwnsCert,
    DeviceTypes, PairingClean, RequestAfterCleanup, WireTypes, LinkHeld,
    IssuedBoundsAll, PrimaryTypes, AllIssued, PendingUnpair, DeviceOps, Links,
    PrimaryOps
<1>5. PairingClean' /\ LinkHeld' /\ AllIssued'
  BY SMTT(60) DEF UnpairNullified, SaveUnpair, TypeOK, Safe, PairingClean, DeviceTypes,
    WireTypes, LinkHeld, AllIssued, PrimaryTypes, IssuedBoundsAll,
    PendingUnpair, DeviceOps, Links, PrimaryOps
<1>6. Safe'
  BY <1>4, <1>5 DEF Safe
<1> QED BY <1>3, <1>6

\* ResumeCleanup preserves IInv: it only takes the lock.
LEMMA ResumeCleanupStep == Keeps(ResumeCleanup)
<1> SUFFICES ASSUME TypeOK, Safe, ResumeCleanup PROVE TypeOK' /\ Safe'
  BY DEF Keeps, IInv
<1>1. TypeOK'
  BY SMTT(60) DEF ResumeCleanup, TypeOK, DeviceTypes, PrimaryTypes, NetworkTypes,
    WireTypes, OtherTypes, PendingUnpair, DeviceOps, Links, PrimaryOps
<1>2. Safe'
  BY SMTT(60) DEF ResumeCleanup, Safe, CleanupOwnsCert, RequestAfterCleanup,
    IssuedBoundsAll, PairingClean, LinkHeld, AllIssued, TypeOK, DeviceTypes,
    WireTypes, PendingUnpair, DeviceOps, Links
<1> QED BY <1>1, <1>2

\* LeaveNetwork preserves IInv: it touches no certificate and no entry.
LEMMA LeaveNetworkStep == \A n \in Networks : Keeps(LeaveNetwork(n))
<1> SUFFICES ASSUME NEW n \in Networks, TypeOK, Safe, LeaveNetwork(n)
             PROVE  TypeOK' /\ Safe'
  BY DEF Keeps, IInv
<1>1. TypeOK'
  BY DEF LeaveNetwork, TypeOK, DeviceTypes, PrimaryTypes, NetworkTypes,
    WireTypes, OtherTypes, PendingUnpair, DeviceOps, Links, PrimaryOps
<1>2. Safe'
  BY SafeFrame DEF LeaveNetwork, core
<1> QED BY <1>1, <1>2

\* DeleteCert preserves IInv: with no certificate stored every entry agrees.
LEMMA DeleteCertStep == Keeps(DeleteCert)
<1> SUFFICES ASSUME TypeOK, Safe, DeleteCert PROVE TypeOK' /\ Safe'
  BY DEF Keeps, IInv
<1>1. TypeOK'
  BY SMTT(60) DEF DeleteCert, TypeOK, DeviceTypes, PrimaryTypes, NetworkTypes,
    WireTypes, OtherTypes, PendingUnpair, DeviceOps, Links, PrimaryOps
<1>2. Safe'
  BY DEF DeleteCert, Safe, CleanupOwnsCert, RequestAfterCleanup,
    IssuedBoundsAll, PairingClean, LinkHeld, AllIssued, TypeOK, DeviceTypes,
    WireTypes, PrimaryTypes, PendingUnpair, DeviceOps, Links, PrimaryOps
<1> QED BY <1>1, <1>2

\* CompleteCleanup preserves IInv: an entry keeps its primary and generation.
LEMMA CompleteCleanupStep == Keeps(CompleteCleanup)
<1> SUFFICES ASSUME IInv, CompleteCleanup PROVE IInv'
  BY DEF Keeps
<1> USE DEF IInv, TypeOK, Safe, CompleteCleanup
<1>1. /\ dop.by \in Primaries /\ dop.gen \in Nat
      /\ \A e \in pending : LET f == Requested(e, CertOf(dop))
                            IN /\ f \in PendingUnpair
                               /\ f.by = e.by /\ f.gen = e.gen
  BY SMTT(60) DEF DeviceTypes, DeviceOps, PendingUnpair, Requested
<1>2. /\ pending' \subseteq PendingUnpair
      /\ \A e, f \in pending' : e.by = f.by => e = f
  BY SMTT(60), <1>1 DEF DeviceTypes
<1>3. DeviceTypes'
  BY <1>2 DEF DeviceTypes, DeviceOps
<1>4. AllIssued'
  BY SMTT(60), <1>1 DEF AllIssued
<1>5. CleanupOwnsCert' /\ RequestAfterCleanup'
  BY DEF DeviceTypes, DeviceOps, PendingUnpair, Requested, CleanupOwnsCert,
    RequestAfterCleanup, PairingClean
<1>6. PairingClean' /\ LinkHeld'
  BY DEF PairingClean, LinkHeld
<1>7. PrimaryTypes' /\ NetworkTypes' /\ WireTypes' /\ OtherTypes'
      /\ IssuedBoundsAll'
  BY DEF PrimaryTypes, NetworkTypes, WireTypes, OtherTypes, IssuedBoundsAll
<1> QED BY <1>3, <1>4, <1>5, <1>6, <1>7

\* CleanupFails preserves IInv: it only gives up the lock.
LEMMA CleanupFailsStep == Keeps(CleanupFails)
<1> SUFFICES ASSUME TypeOK, Safe, CleanupFails PROVE TypeOK' /\ Safe'
  BY DEF Keeps, IInv
<1>1. TypeOK'
  BY DEF CleanupFails, TypeOK, DeviceTypes, PrimaryTypes, NetworkTypes,
    WireTypes, OtherTypes, PendingUnpair, DeviceOps, Links, PrimaryOps
<1>2. Safe'
  BY DEF CleanupFails, Safe, CleanupOwnsCert, RequestAfterCleanup,
    IssuedBoundsAll, PairingClean, LinkHeld, AllIssued, TypeOK, DeviceTypes,
    WireTypes, PendingUnpair, DeviceOps, Links
<1> QED BY <1>1, <1>2

\* CancelRequest preserves IInv: an entry goes.
LEMMA CancelRequestStep == Keeps(CancelRequest)
<1> SUFFICES ASSUME TypeOK, Safe, CancelRequest PROVE TypeOK' /\ Safe'
  BY DEF Keeps, IInv
<1>1. TypeOK'
  BY DEF CancelRequest, CertFrom, TypeOK, DeviceTypes, PrimaryTypes,
    NetworkTypes, WireTypes, OtherTypes, PendingUnpair, DeviceOps, Links,
    PrimaryOps
<1>2. Safe'
  BY DEF CancelRequest, CertFrom, Safe, CleanupOwnsCert, RequestAfterCleanup,
    IssuedBoundsAll, PairingClean, LinkHeld, AllIssued, TypeOK, DeviceTypes,
    WireTypes, PrimaryTypes, PendingUnpair, DeviceOps, Links, PrimaryOps
<1> QED BY <1>1, <1>2

\* SendUnpairRequest preserves IInv: the request is the saved one, with no
\* certificate of that primary stored.
LEMMA SendUnpairRequestStep == Keeps(SendUnpairRequest)
<1> SUFFICES ASSUME TypeOK, Safe, SendUnpairRequest PROVE TypeOK' /\ Safe'
  BY DEF Keeps, IInv
<1>1. TypeOK'
  BY SMTT(60) DEF SendUnpairRequest, CertFrom, TypeOK, DeviceTypes, PrimaryTypes,
    NetworkTypes, WireTypes, OtherTypes, PendingUnpair, DeviceOps, Links,
    PrimaryOps
<1>2. Safe'
  BY SMTT(60) DEF SendUnpairRequest, CertFrom, Safe, CleanupOwnsCert,
    RequestAfterCleanup, IssuedBoundsAll, PairingClean, LinkHeld, AllIssued,
    TypeOK, DeviceTypes, WireTypes, PrimaryTypes, PendingUnpair, DeviceOps,
    Links, PrimaryOps
<1> QED BY <1>1, <1>2

\* ReceiveRecorded preserves IInv: the entry goes.
LEMMA ReceiveRecordedStep == Keeps(ReceiveRecorded)
<1> SUFFICES ASSUME TypeOK, Safe, ReceiveRecorded PROVE TypeOK' /\ Safe'
  BY DEF Keeps, IInv
<1>1. TypeOK'
  BY DEF ReceiveRecorded, TypeOK, DeviceTypes, PrimaryTypes, NetworkTypes,
    WireTypes, OtherTypes, PendingUnpair, DeviceOps, Links, PrimaryOps
<1>2. Safe'
  BY DEF ReceiveRecorded, Safe, CleanupOwnsCert, RequestAfterCleanup,
    IssuedBoundsAll, PairingClean, LinkHeld, AllIssued, TypeOK, DeviceTypes,
    WireTypes, PrimaryTypes, PendingUnpair, DeviceOps, Links, PrimaryOps
<1> QED BY <1>1, <1>2

\* RequestFails preserves IInv.
LEMMA RequestFailsStep == Keeps(RequestFails)
<1> SUFFICES ASSUME IInv, RequestFails PROVE IInv'
  BY DEF Keeps
<1> USE DEF IInv, TypeOK, Safe, RequestFails
<1>1. WireTypes'
  BY AbandonedReqs DEF WireTypes
<1>2. RequestAfterCleanup' /\ PairingClean' /\ LinkHeld' /\ AllIssued'
  BY AbandonedReqs DEF RequestAfterCleanup, PairingClean, LinkHeld, AllIssued,
    WireTypes, Links
<1>3. DeviceTypes' /\ PrimaryTypes' /\ NetworkTypes' /\ OtherTypes'
      /\ CleanupOwnsCert' /\ IssuedBoundsAll'
  BY DEF DeviceTypes, DeviceOps, PrimaryTypes, NetworkTypes, OtherTypes,
    CleanupOwnsCert, IssuedBoundsAll
<1> QED BY <1>1, <1>2, <1>3

\* PairDial preserves IInv: no cleanup is left when it starts.
LEMMA PairDialStep ==
  ASSUME NEW p \in Primaries PROVE Keeps(PairDial(p))
<1> SUFFICES ASSUME TypeOK, Safe, PairDial(p) PROVE TypeOK' /\ Safe'
  BY DEF Keeps, IInv
<1>1. TypeOK'
  BY DEF PairDial, TypeOK, DeviceTypes, PrimaryTypes, NetworkTypes, WireTypes,
    OtherTypes, PendingUnpair, DeviceOps, Links, PrimaryOps
<1>2. Safe'
  BY DEF PairDial, Safe, CleanupOwnsCert, RequestAfterCleanup,
    IssuedBoundsAll, PairingClean, LinkHeld, AllIssued, TypeOK, DeviceTypes,
    WireTypes, PrimaryTypes, PendingUnpair, DeviceOps, Links, PrimaryOps
<1> QED BY <1>1, <1>2

\* PairFails preserves IInv: the connection goes with the lock.
LEMMA PairFailsStep == Keeps(PairFails)
<1> SUFFICES ASSUME TypeOK, Safe, PairFails PROVE TypeOK' /\ Safe'
  BY DEF Keeps, IInv
<1>1. TypeOK'
  BY DEF PairFails, TypeOK, DeviceTypes, PrimaryTypes, NetworkTypes,
    WireTypes, OtherTypes, PendingUnpair, DeviceOps, Links, PrimaryOps
<1>2. Safe'
  BY SMTT(60) DEF PairFails, Safe, CleanupOwnsCert, RequestAfterCleanup,
    IssuedBoundsAll, PairingClean, LinkHeld, AllIssued, TypeOK, DeviceTypes,
    WireTypes, PrimaryTypes, PendingUnpair, DeviceOps, Links, PrimaryOps
<1> QED BY <1>1, <1>2

\* StoreCert preserves IInv: the new certificate is newer than every request.
LEMMA StoreCertStep == Keeps(StoreCert)
<1> SUFFICES ASSUME TypeOK, Safe, StoreCert PROVE TypeOK' /\ Safe'
  BY DEF Keeps, IInv
<1>1. TypeOK'
  BY SMTT(60) DEF StoreCert, TypeOK, DeviceTypes, PrimaryTypes, NetworkTypes,
    WireTypes, OtherTypes, PendingUnpair, DeviceOps, Links, PrimaryOps
<1>2. Safe'
  BY SMTT(60) DEF StoreCert, Safe, CleanupOwnsCert, RequestAfterCleanup,
    IssuedBoundsAll, PairingClean, LinkHeld, AllIssued, TypeOK, DeviceTypes,
    WireTypes, PrimaryTypes, PendingUnpair, DeviceOps, Links, PrimaryOps
<1> QED BY <1>1, <1>2

\* FinishPairing preserves IInv.
LEMMA FinishPairingStep == Keeps(FinishPairing)
<1> SUFFICES ASSUME IInv, FinishPairing PROVE IInv'
  BY DEF Keeps
<1> USE DEF IInv, TypeOK, Safe
<1>1. /\ dop.by \in Primaries /\ dop.kind = "stored"
      /\ link[dop.by] \in Links /\ [link[dop.by] EXCEPT !.state = "saved"] \in Links
      /\ [link[dop.by] EXCEPT !.state = "saved"].gen = link[dop.by].gen
  BY SMTT(60) DEF FinishPairing, DeviceTypes, DeviceOps, WireTypes, Links
<1>2. WireTypes' /\ PrimaryTypes' /\ NetworkTypes' /\ OtherTypes'
  BY <1>1 DEF FinishPairing, WireTypes, PrimaryTypes, NetworkTypes, OtherTypes
<1>3. DeviceTypes'
  BY DEF FinishPairing, DeviceTypes, DeviceOps
<1>4. CleanupOwnsCert' /\ RequestAfterCleanup' /\ IssuedBoundsAll'
  BY DEF FinishPairing, CleanupOwnsCert, RequestAfterCleanup, IssuedBoundsAll
<1>5. PairingClean' /\ LinkHeld' /\ AllIssued'
  BY SMTT(60), <1>1 DEF FinishPairing, PairingClean, LinkHeld, AllIssued, WireTypes
<1> QED BY <1>2, <1>3, <1>4, <1>5

\* DeviceRestart preserves IInv: whichever cleanups finish, no entry changes its
\* certificate and none is left in its cleanup phase for a certificate other than
\* the stored one.
LEMMA DeviceRestartStep == Keeps(DeviceRestart)
<1> SUFFICES ASSUME IInv, DeviceRestart PROVE IInv'
  BY DEF Keeps
<1>a. /\ DeviceTypes /\ PrimaryTypes /\ NetworkTypes /\ WireTypes /\ OtherTypes
      /\ CleanupOwnsCert /\ RequestAfterCleanup /\ IssuedBoundsAll /\ AllIssued
  BY DEF IInv, TypeOK, Safe
<1>b. /\ dop' = Idle /\ nullTasks' = {}
      /\ resolved' = [n \in Networks |-> "none"]
      /\ joining' = [n \in Networks |-> {}]
      /\ link' = [p \in Primaries |-> NoLink]
      /\ reqs' = Abandoned(reqs)
      /\ faults < MaxFaults /\ faults' = faults + 1
      /\ UNCHANGED <<priSets, priNets, priMem, told, tickets, history>>
  BY DEF DeviceRestart
<1>1. PICK swept \in SUBSET {e \in pending : e.phase = "cleanup"} :
        /\ joined' = {n \in joined : \A e \in swept : Coord[n] # e.by}
        /\ cert' = {c \in cert : \A e \in swept : c # CertOf(e)}
        /\ \E done \in SUBSET swept :
             pending' = (pending \ done) \cup
                          {Entry(CertOf(e), "request") : e \in done}
  BY Zenon DEF DeviceRestart
<1>2. PICK done \in SUBSET swept :
        pending' = (pending \ done) \cup
                     {Entry(CertOf(e), "request") : e \in done}
  BY <1>1
<1>3. \A f \in pending' : f \in PendingUnpair /\
        \/ f \in pending \ done
        \/ \E e \in done : f.phase = "request" /\ f.by = e.by /\ f.gen = e.gen
  <2>1. \A e \in done : LET f == Entry(CertOf(e), "request")
                        IN /\ f \in PendingUnpair /\ f.phase = "request"
                           /\ f.by = e.by /\ f.gen = e.gen
    BY SMTT(60), <1>a DEF DeviceTypes, PendingUnpair
  <2>2. pending \subseteq PendingUnpair
    BY <1>a DEF DeviceTypes
  <2> QED BY SMTT(60), <1>2, <2>1, <2>2
<1>4. \A f, h \in pending' : f.by = h.by => f = h
  BY SMTT(60), <1>a, <1>3 DEF DeviceTypes, PendingUnpair
<1>5. DeviceTypes'
  <2>1. /\ dop' \in DeviceOps /\ nullTasks' \subseteq Cert
        /\ resolved' \in [Networks -> {"none", "clean", "nullified"}]
        /\ joining' \in [Networks -> SUBSET Cert]
    BY <1>b DEF DeviceOps
  <2> QED BY <1>a, <1>1, <1>3, <1>4, <2>1 DEF DeviceTypes
<1>6. link' \in [Primaries -> Links] /\ \A p \in Primaries : link'[p] = NoLink
  BY <1>b DEF Links
<1>7. /\ reqs' \subseteq [by : Primaries, gen : Nat, conn : {"live", "gone"}]
      /\ \A q \in reqs' :
           q.conn = "gone" /\ \E r \in reqs : q.by = r.by /\ q.gen = r.gen
  BY <1>a, <1>b, AbandonedReqs
<1>8. WireTypes' /\ LinkHeld'
  BY <1>a, <1>b, <1>6, <1>7 DEF WireTypes, LinkHeld
<1>9. CleanupOwnsCert' /\ RequestAfterCleanup'
  BY <1>a, <1>1, <1>3, <1>7 DEF CleanupOwnsCert, RequestAfterCleanup, DeviceTypes
<1>10. IssuedBoundsAll' /\ PairingClean'
  BY <1>a, <1>b, <1>1 DEF IssuedBoundsAll, PairingClean
<1>11. AllIssued'
  BY <1>a, <1>b, <1>3, <1>6, <1>7 DEF AllIssued
<1>12. OtherTypes'
  BY SMTT(60), <1>a, <1>b DEF OtherTypes
<1>13. PrimaryTypes' /\ NetworkTypes'
  BY <1>a, <1>b DEF PrimaryTypes, NetworkTypes
<1> QED BY <1>5, <1>8, <1>9, <1>10, <1>11, <1>12, <1>13 DEF IInv, TypeOK, Safe

\* ReadRecord preserves IInv: it reads only.
LEMMA ReadRecordStep ==
  ASSUME NEW n \in Networks PROVE Keeps(ReadRecord(n))
<1> SUFFICES ASSUME TypeOK, Safe, ReadRecord(n) PROVE TypeOK' /\ Safe'
  BY DEF Keeps, IInv
<1>1. PrimaryTypes' /\ NetworkTypes' /\ WireTypes' /\ OtherTypes'
  BY DEF ReadRecord, TypeOK, PrimaryTypes, NetworkTypes, WireTypes,
    OtherTypes
<1>2. resolved' \in [Networks -> {"none", "clean", "nullified"}]
  BY DEF ReadRecord, TypeOK, DeviceTypes
<1>3. DeviceTypes'
  BY <1>2 DEF ReadRecord, TypeOK, DeviceTypes, devDisk
<1>4. TypeOK'
  BY <1>1, <1>3 DEF TypeOK
<1>5. Safe'
  BY SafeFrame, Zenon DEF ReadRecord, core
<1> QED BY <1>4, <1>5

\* CheckRecord preserves IInv: it starts a task or a join.
LEMMA CheckRecordStep ==
  ASSUME NEW n \in Networks PROVE Keeps(CheckRecord(n))
<1> SUFFICES ASSUME TypeOK, Safe, CheckRecord(n) PROVE TypeOK' /\ Safe'
  BY DEF Keeps, IInv
<1>1. PrimaryTypes' /\ NetworkTypes' /\ WireTypes' /\ OtherTypes'
  BY DEF CheckRecord, TypeOK, PrimaryTypes, NetworkTypes, WireTypes,
    OtherTypes
<1>2. DeviceTypes'
  BY SMTT(60) DEF CheckRecord, CertFrom, TypeOK, DeviceTypes, WireTypes, PrimaryTypes,
    PendingUnpair, DeviceOps, Links, PrimaryOps
<1>3. TypeOK'
  BY <1>1, <1>2 DEF TypeOK
<1>4. Safe'
  BY SafeFrame, Zenon DEF CheckRecord, core
<1> QED BY <1>3, <1>4

\* Join preserves IInv: rosters are not part of it.
LEMMA JoinStep ==
  ASSUME NEW n \in Networks PROVE Keeps(Join(n))
<1> SUFFICES ASSUME TypeOK, Safe, Join(n) PROVE TypeOK' /\ Safe'
  BY DEF Keeps, IInv
<1>1. PrimaryTypes' /\ WireTypes' /\ OtherTypes'
  BY Zenon DEF Join, TypeOK, PrimaryTypes, WireTypes, OtherTypes
<1>2. DeviceTypes'
  BY SMTT(60) DEF Join, TypeOK, DeviceTypes, WireTypes, PrimaryTypes, PendingUnpair,
    DeviceOps, Links, PrimaryOps
<1>3. NetworkTypes'
  BY DEF Join, TypeOK, NetworkTypes, PrimaryTypes, PrimaryOps
<1>4. TypeOK'
  BY <1>1, <1>2, <1>3 DEF TypeOK
<1>5. Safe'
  BY SafeFrame, Zenon DEF Join, core
<1> QED BY <1>4, <1>5

\* Every step of the device preserves IInv.
LEMMA DeviceStep == Keeps(Device)
BY UnpairSelfStep, OnUnpairedNoticeStep, UnpairNullifiedStep,
  ResumeCleanupStep, DeleteCertStep, LeaveNetworkStep, CompleteCleanupStep,
  CleanupFailsStep, CancelRequestStep, SendUnpairRequestStep,
  ReceiveRecordedStep, RequestFailsStep, PairDialStep, PairFailsStep,
  StoreCertStep, FinishPairingStep, DeviceRestartStep, ReadRecordStep,
  CheckRecordStep, JoinStep
  DEF Device, Keeps

-----------------------------------------------------------------------------
(* The primary and the network, and the theorems. *)

\* An answered request leaves the device's operation alone, or is the request
\* the device waits for; no other request is waited for.
LEMMA AnswerStep ==
  ASSUME DeviceTypes, WireTypes, LinkHeld, NEW r \in reqs, Answer(r)
  PROVE  /\ dop' \in DeviceOps /\ reqs' \subseteq reqs
         /\ dop' = dop \/ (dop.kind = "request" /\ dop'.kind = "recorded")
         /\ \A q \in reqs' : q.conn = "live" => dop' = dop
<1>1. r.conn = "live" =>
        dop.kind = "request" /\ dop.by \in Primaries /\ dop.gen \in Nat
  BY SMTT(60) DEF LinkHeld, DeviceTypes, DeviceOps
<1>2. dop' \in DeviceOps
  BY <1>1 DEF DeviceTypes, DeviceOps, Answer
<1>3. \A q \in reqs : q.conn = "live" /\ r.conn = "live" => q = r
  BY SMTT(60) DEF LinkHeld, WireTypes
<1> QED BY <1>1, <1>2, <1>3 DEF WireTypes, Answer

\* A revocation under way is a well-typed operation of its primary.
LEMMA RevokingType ==
  ASSUME PrimaryTypes, NEW p \in Primaries, NEW g \in Nat
  PROVE  [pop EXCEPT ![p] = Revoking(p, g)] \in [Primaries -> PrimaryOps]
<1>1. Revoking(p, g) \in PrimaryOps
  BY DEF PrimaryOps, Revoking, Running, Coordinated
<1> QED BY <1>1 DEF PrimaryTypes

-----------------------------------------------------------------------------
\* The steps of a primary and of its networks preserve IInv, each in a lemma.

\* StartPairing preserves IInv: it opens a session.
LEMMA StartPairingStep ==
  ASSUME NEW p \in Primaries PROVE Keeps(StartPairing(p))
<1> SUFFICES ASSUME TypeOK, Safe, StartPairing(p) PROVE TypeOK' /\ Safe'
  BY DEF Keeps, IInv
<1>1. TypeOK'
  BY SMTT(60) DEF StartPairing, TypeOK, DeviceTypes, PrimaryTypes, NetworkTypes,
    WireTypes, OtherTypes, PrimaryOps, Links, PendingUnpair, DeviceOps
<1>2. Safe'
  BY SafeFrame, Zenon DEF StartPairing, core
<1> QED BY <1>1, <1>2

\* AcceptPair preserves IInv: the device still pairs with this primary.
LEMMA AcceptPairStep ==
  ASSUME NEW p \in Primaries PROVE Keeps(AcceptPair(p))
<1> SUFFICES ASSUME TypeOK, Safe, AcceptPair(p) PROVE TypeOK' /\ Safe'
  BY DEF Keeps, IInv
<1>1. TypeOK'
  BY SMTT(60) DEF AcceptPair, TypeOK, DeviceTypes, PrimaryTypes, NetworkTypes,
    WireTypes, OtherTypes, PrimaryOps, Links, PendingUnpair, DeviceOps
<1>2. Safe'
  BY SMTT(60) DEF AcceptPair, Safe, CleanupOwnsCert, RequestAfterCleanup,
    IssuedBoundsAll, PairingClean, LinkHeld, AllIssued, TypeOK, DeviceTypes,
    WireTypes, PrimaryTypes, PendingUnpair, DeviceOps, Links, PrimaryOps
<1> QED BY <1>1, <1>2

\* Reauthorize preserves IInv: the seed is not part of it.
LEMMA ReauthorizeStep ==
  ASSUME NEW p \in Primaries PROVE Keeps(Reauthorize(p))
<1> SUFFICES ASSUME TypeOK, Safe, Reauthorize(p) PROVE TypeOK' /\ Safe'
  BY DEF Keeps, IInv
<1>1. DeviceTypes' /\ NetworkTypes' /\ OtherTypes'
  BY DEF Reauthorize, TypeOK, DeviceTypes, NetworkTypes, OtherTypes
<1>2. PrimaryTypes'
  BY DEF Reauthorize, Coordinated, TypeOK, PrimaryTypes, WireTypes,
    PrimaryOps, Links
<1>3. WireTypes'
  BY SMTT(60) DEF Reauthorize, Coordinated, TypeOK, WireTypes, PrimaryTypes,
    DeviceTypes, Links, PrimaryOps, PendingUnpair, DeviceOps
<1>4. TypeOK'
  BY <1>1, <1>2, <1>3 DEF TypeOK
<1>5. Safe'
  BY SMTT(60) DEF Reauthorize, Coordinated, Safe, CleanupOwnsCert, RequestAfterCleanup,
    IssuedBoundsAll, PairingClean, LinkHeld, AllIssued, TypeOK, DeviceTypes,
    WireTypes, PrimaryTypes, PendingUnpair, DeviceOps, Links, PrimaryOps
<1> QED BY <1>4, <1>5

\* LiftNullifiers preserves IInv: nullifiers are not part of it.
LEMMA LiftNullifiersStep ==
  ASSUME NEW p \in Primaries PROVE Keeps(LiftNullifiers(p))
<1> SUFFICES ASSUME TypeOK, Safe, LiftNullifiers(p) PROVE TypeOK' /\ Safe'
  BY DEF Keeps, IInv
<1>1. DeviceTypes' /\ WireTypes' /\ OtherTypes'
  BY DEF LiftNullifiers, TypeOK, DeviceTypes, WireTypes, OtherTypes
<1>2. PrimaryTypes'
  <2> PICK changed, undo :
        /\ changed \subseteq Networks /\ undo \in {"revoke", "nothing"}
        /\ pop' = [pop EXCEPT ![p] = [kind |-> "waiting", changed |-> changed, undo |-> undo]]
    <3>1. Coordinated(p) \subseteq Networks
      BY DEF Coordinated
    <3>2. pop[p].undo \in {"revoke", "nothing"}
      BY SMTT(30) DEF LiftNullifiers, TypeOK, PrimaryTypes, PrimaryOps
    <3> QED BY <3>1, <3>2 DEF LiftNullifiers
  <2>1. [kind |-> "waiting", changed |-> changed, undo |-> undo] \in PrimaryOps
    BY SMTT(30) DEF PrimaryOps
  <2>2. pop' \in [Primaries -> PrimaryOps]
    BY <2>1 DEF TypeOK, PrimaryTypes
  <2> QED BY <2>2 DEF LiftNullifiers, TypeOK, PrimaryTypes
<1>3. NetworkTypes'
  BY DEF LiftNullifiers, Coordinated, TypeOK, NetworkTypes, PrimaryTypes,
    PrimaryOps
<1>4. TypeOK'
  BY <1>1, <1>2, <1>3 DEF TypeOK
<1>5. Safe'
  BY SafeFrame, Zenon DEF LiftNullifiers, core
<1> QED BY <1>4, <1>5

\* SavePairing preserves IInv: the new generation is newer than all it meets.
LEMMA SavePairingStep ==
  ASSUME NEW p \in Primaries
  PROVE  Keeps(SavePairing(p))
<1> SUFFICES ASSUME IInv, SavePairing(p) PROVE IInv'
  BY DEF Keeps
<1> USE DEF IInv, TypeOK, Safe, SavePairing
<1>1. DeviceTypes' /\ NetworkTypes' /\ OtherTypes' /\ CleanupOwnsCert'
      /\ RequestAfterCleanup'
  BY DEF DeviceTypes, NetworkTypes, OtherTypes, CleanupOwnsCert,
    RequestAfterCleanup
<1>2. PrimaryTypes'
  BY SMTT(60) DEF PrimaryTypes, PrimaryOps
<1>3. WireTypes'
  BY SMTT(60) DEF PrimaryTypes, WireTypes, Links
<1>4. IssuedBoundsAll'
  <2>1. \A q \in Primaries : issued[q] \in Nat /\ issued[q] <= issued'[q]
    BY SMTT(60) DEF PrimaryTypes
  <2>2. /\ \A c \in cert \cup told : c.by \in Primaries /\ c.gen \in Nat
        /\ \A q \in Primaries : confirmed[q] \in Nat
        /\ issued' \in [Primaries -> Nat]
    BY SMTT(60) DEF DeviceTypes, WireTypes, PrimaryTypes
  <2> QED BY SMTT(60), <2>1, <2>2 DEF IssuedBoundsAll
<1>5. PairingClean' /\ LinkHeld' /\ AllIssued'
  BY SMTT(60) DEF DeviceTypes, DeviceOps, PendingUnpair, PrimaryTypes, WireTypes, Links,
    PairingClean, LinkHeld, AllIssued
<1> QED BY <1>1, <1>2, <1>3, <1>4, <1>5

\* RefusePairing preserves IInv: the device is refused, the revocation put back.
LEMMA RefusePairingStep ==
  ASSUME NEW p \in Primaries PROVE Keeps(RefusePairing(p))
<1> SUFFICES ASSUME TypeOK, Safe, RefusePairing(p) PROVE TypeOK' /\ Safe'
  BY DEF Keeps, IInv
<1>1. DeviceTypes' /\ NetworkTypes' /\ OtherTypes'
  BY DEF RefusePairing, TypeOK, DeviceTypes, NetworkTypes, OtherTypes
<1>2. PrimaryTypes'
  BY SMTT(60) DEF RefusePairing, Revoking, Running, Coordinated, TypeOK, PrimaryTypes,
    WireTypes, PrimaryOps, Links
<1>3. WireTypes'
  BY DEF RefusePairing, Revoking, Running, Coordinated, TypeOK, WireTypes,
    PrimaryTypes, DeviceTypes, Links, PrimaryOps, PendingUnpair, DeviceOps
<1>4. TypeOK'
  BY <1>1, <1>2, <1>3 DEF TypeOK
<1>5. Safe'
  BY DEF RefusePairing, Revoking, Running, Coordinated, Safe, CleanupOwnsCert,
    RequestAfterCleanup, IssuedBoundsAll, PairingClean, LinkHeld, AllIssued,
    TypeOK, DeviceTypes, WireTypes, PrimaryTypes, PendingUnpair, DeviceOps,
    Links, PrimaryOps
<1> QED BY <1>4, <1>5

\* PutBackFails preserves IInv: the device is refused.
LEMMA PutBackFailsStep ==
  ASSUME NEW p \in Primaries PROVE Keeps(PutBackFails(p))
<1> SUFFICES ASSUME TypeOK, Safe, PutBackFails(p) PROVE TypeOK' /\ Safe'
  BY DEF Keeps, IInv
<1>1. TypeOK'
  BY SMTT(60) DEF PutBackFails, TypeOK, DeviceTypes, PrimaryTypes, NetworkTypes,
    WireTypes, OtherTypes, PrimaryOps, Links, PendingUnpair, DeviceOps
<1>2. Safe'
  BY DEF PutBackFails, Safe, CleanupOwnsCert, RequestAfterCleanup,
    IssuedBoundsAll, PairingClean, LinkHeld, AllIssued, TypeOK, DeviceTypes,
    WireTypes, PrimaryTypes, PendingUnpair, DeviceOps, Links, PrimaryOps
<1> QED BY <1>1, <1>2

\* SaveConfirmed preserves IInv: what is confirmed was issued.
LEMMA SaveConfirmedStep ==
  ASSUME NEW p \in Primaries PROVE Keeps(SaveConfirmed(p))
<1> SUFFICES ASSUME TypeOK, Safe, SaveConfirmed(p) PROVE TypeOK' /\ Safe'
  BY DEF Keeps, IInv
<1>1. DeviceTypes' /\ NetworkTypes'
  BY DEF SaveConfirmed, TypeOK, DeviceTypes, NetworkTypes
<1>2. PrimaryTypes'
  BY DEF SaveConfirmed, TypeOK, PrimaryTypes, WireTypes, PrimaryOps, Links
<1>3. WireTypes'
  BY DEF SaveConfirmed, TypeOK, WireTypes, PrimaryTypes, DeviceTypes, Links,
    PrimaryOps, PendingUnpair, DeviceOps
<1>4. OtherTypes'
  BY SMTT(60) DEF SaveConfirmed, TypeOK, OtherTypes, DeviceTypes, PrimaryTypes,
    WireTypes, PendingUnpair, DeviceOps, PrimaryOps, Links
<1>5. TypeOK'
  BY <1>1, <1>2, <1>3, <1>4 DEF TypeOK
<1>6. Safe'
  BY DEF SaveConfirmed, Safe, CleanupOwnsCert, RequestAfterCleanup,
    IssuedBoundsAll, PairingClean, LinkHeld, AllIssued, TypeOK, DeviceTypes,
    WireTypes, PrimaryTypes, PendingUnpair, DeviceOps, Links, PrimaryOps
<1> QED BY <1>5, <1>6

\* ConfirmationTimesOut preserves IInv: nothing is saved.
LEMMA ConfirmationTimesOutStep ==
  ASSUME NEW p \in Primaries PROVE Keeps(ConfirmationTimesOut(p))
<1> SUFFICES ASSUME TypeOK, Safe, ConfirmationTimesOut(p) PROVE TypeOK' /\ Safe'
  BY DEF Keeps, IInv
<1>1. TypeOK'
  BY DEF ConfirmationTimesOut, TypeOK, DeviceTypes, PrimaryTypes,
    NetworkTypes, WireTypes, OtherTypes, PrimaryOps, Links
<1>2. Safe'
  BY SafeFrame, Zenon DEF ConfirmationTimesOut, core
<1> QED BY <1>1, <1>2

\* FindPaired preserves IInv: it reads only.
LEMMA FindPairedStep ==
  ASSUME NEW p \in Primaries PROVE Keeps(FindPaired(p))
<1> SUFFICES ASSUME TypeOK, Safe, FindPaired(p) PROVE TypeOK' /\ Safe'
  BY DEF Keeps, IInv
<1>1. TypeOK'
  BY DEF FindPaired, TypeOK, DeviceTypes, PrimaryTypes, NetworkTypes,
    WireTypes, OtherTypes, PrimaryOps, Links
<1>2. Safe'
  BY SafeFrame, Zenon DEF FindPaired, core
<1> QED BY <1>1, <1>2

\* UnpairDevice preserves IInv: the notice names an issued generation.
LEMMA UnpairDeviceStep ==
  ASSUME NEW p \in Primaries PROVE Keeps(UnpairDevice(p))
<1> SUFFICES ASSUME TypeOK, Safe, UnpairDevice(p) PROVE TypeOK' /\ Safe'
  BY DEF Keeps, IInv
<1>1. TypeOK'
  BY SMTT(60) DEF UnpairDevice, Revoking, Running, Coordinated, TypeOK, DeviceTypes,
    PrimaryTypes, NetworkTypes, WireTypes, OtherTypes, PrimaryOps, Links,
    PendingUnpair, DeviceOps
<1>2. Safe'
  BY SMTT(60) DEF UnpairDevice, Revoking, Running, Coordinated, Safe, CleanupOwnsCert,
    RequestAfterCleanup, IssuedBoundsAll, PairingClean, LinkHeld, AllIssued,
    TypeOK, DeviceTypes, WireTypes, PrimaryTypes, PendingUnpair, DeviceOps,
    Links, PrimaryOps
<1> QED BY <1>1, <1>2

\* RecordUnpair preserves IInv, whichever way the request is judged.
LEMMA RecordUnpairStep ==
  ASSUME NEW p \in Primaries, NEW r \in reqs
  PROVE  Keeps(RecordUnpair(p, r))
<1> SUFFICES ASSUME IInv, RecordUnpair(p, r) PROVE IInv'
  BY DEF Keeps
<1> USE DEF IInv, TypeOK, Safe
<1>1. /\ dop' \in DeviceOps /\ reqs' \subseteq reqs
      /\ dop' = dop \/ (dop.kind = "request" /\ dop'.kind = "recorded")
      /\ \A q \in reqs' : q.conn = "live" => dop' = dop
  BY AnswerStep DEF RecordUnpair, DeviceTypes
<1>2. /\ notices' = notices \/ notices' = [notices EXCEPT ![p] = {}]
      /\ pop' = pop \/ pop' = [pop EXCEPT ![p] = Revoking(p, r.gen)]
      /\ revoked' = revoked \/ revoked' = revoked \cup {p}
      /\ recorded' = recorded \cup {CertOf(r)}
      /\ UNCHANGED <<devDisk, nullTasks, resolved, joining, issued, confirmed,
                     priNets, session, awaiting, unpairing, link, told, bounds,
                     ended, disowned>>
  BY DEF RecordUnpair
<1>3. r.by \in Primaries /\ r.gen \in Nat
  BY DEF WireTypes
<1>4. PrimaryTypes'
  <2>1. pop' \in [Primaries -> PrimaryOps]
    BY SMTT(60), <1>2, <1>3, RevokingType DEF PrimaryTypes
  <2> QED BY <1>2, <2>1 DEF PrimaryTypes
<1>5. DeviceTypes' /\ WireTypes' /\ NetworkTypes' /\ OtherTypes'
  BY SMTT(60), <1>1, <1>2, <1>3 DEF DeviceTypes, WireTypes, NetworkTypes, OtherTypes
<1>6. CleanupOwnsCert' /\ RequestAfterCleanup' /\ IssuedBoundsAll'
  BY <1>1, <1>2, Zenon DEF CleanupOwnsCert, RequestAfterCleanup,
    IssuedBoundsAll
<1>7. PairingClean' /\ LinkHeld'
  BY <1>1, <1>2 DEF PairingClean, LinkHeld
<1>8. AllIssued'
  BY <1>1, <1>2 DEF AllIssued, PrimaryTypes
<1> QED BY <1>4, <1>5, <1>6, <1>7, <1>8

\* NullifyNetworks preserves IInv.
LEMMA NullifyNetworksStep ==
  ASSUME NEW p \in Primaries
  PROVE  Keeps(NullifyNetworks(p))
<1> SUFFICES ASSUME IInv, NullifyNetworks(p) PROVE IInv'
  BY DEF Keeps
<1> USE DEF IInv, TypeOK, Safe
<1>1. /\ dop' \in DeviceOps /\ reqs' \subseteq reqs
      /\ dop' = dop \/ (dop.kind = "request" /\ dop'.kind = "recorded")
      /\ \A q \in reqs' : q.conn = "live" => dop' = dop
  BY AnswerStep DEF NullifyNetworks, DeviceTypes, LinkHeld
<1>2. /\ pop' = [pop EXCEPT ![p] = Free]
      /\ UNCHANGED <<devDisk, nullTasks, resolved, joining, priSets, phase,
                     record, session, awaiting, unpairing, link, told, bounds,
                     history>>
  BY DEF NullifyNetworks
<1>3. PrimaryTypes' /\ OtherTypes'
  BY <1>2 DEF PrimaryTypes, PrimaryOps, OtherTypes
<1>4. NetworkTypes'
  BY SMTT(60) DEF NullifyNetworks, NetworkTypes, PrimaryTypes, PrimaryOps
<1>5. DeviceTypes' /\ WireTypes'
  BY <1>1, <1>2 DEF DeviceTypes, WireTypes
<1>6. CleanupOwnsCert' /\ RequestAfterCleanup' /\ IssuedBoundsAll'
  BY <1>1, <1>2, Zenon DEF CleanupOwnsCert, RequestAfterCleanup,
    IssuedBoundsAll
<1>7. PairingClean' /\ LinkHeld' /\ AllIssued'
  BY <1>1, <1>2, Zenon DEF PairingClean, LinkHeld, AllIssued
<1> QED BY <1>3, <1>4, <1>5, <1>6, <1>7

\* TellDevice preserves IInv: the notice names an issued generation.
LEMMA TellDeviceStep ==
  ASSUME NEW p \in Primaries PROVE Keeps(TellDevice(p))
<1> SUFFICES ASSUME TypeOK, Safe, TellDevice(p) PROVE TypeOK' /\ Safe'
  BY DEF Keeps, IInv
<1>1. TypeOK'
  BY SMTT(60) DEF TellDevice, TypeOK, DeviceTypes, PrimaryTypes, NetworkTypes,
    WireTypes, OtherTypes, Links, PrimaryOps, PendingUnpair, DeviceOps
<1>2. Safe'
  BY SMTT(60) DEF TellDevice, Safe, CleanupOwnsCert, RequestAfterCleanup,
    IssuedBoundsAll, PairingClean, LinkHeld, AllIssued, TypeOK, DeviceTypes,
    WireTypes, PrimaryTypes, PendingUnpair, DeviceOps, Links, PrimaryOps
<1> QED BY <1>1, <1>2

\* PrimaryRestart preserves IInv: what it saved stands, its connections go.
LEMMA PrimaryRestartStep ==
  ASSUME NEW p \in Primaries PROVE Keeps(PrimaryRestart(p))
<1> SUFFICES ASSUME TypeOK, Safe, PrimaryRestart(p) PROVE TypeOK' /\ Safe'
  BY DEF Keeps, IInv
<1>1. DeviceTypes'
  BY DEF PrimaryRestart, TypeOK, DeviceTypes
<1>2. PrimaryTypes'
  BY DEF PrimaryRestart, TypeOK, PrimaryTypes, WireTypes, PrimaryOps, Links
<1>3. NetworkTypes'
  BY DEF PrimaryRestart, TypeOK, NetworkTypes, PrimaryTypes, PrimaryOps
<1>4. WireTypes'
  BY DEF PrimaryRestart, TypeOK, WireTypes, PrimaryTypes, DeviceTypes, Links,
    PrimaryOps, PendingUnpair, DeviceOps
<1>5. OtherTypes'
  BY SMTT(60) DEF PrimaryRestart, TypeOK, OtherTypes, DeviceTypes, PrimaryTypes,
    WireTypes, PendingUnpair, DeviceOps, PrimaryOps, Links
<1>6. TypeOK'
  BY <1>1, <1>2, <1>3, <1>4, <1>5 DEF TypeOK
<1>7. Safe'
  BY DEF PrimaryRestart, Safe, CleanupOwnsCert, RequestAfterCleanup,
    IssuedBoundsAll, PairingClean, LinkHeld, AllIssued, TypeOK, DeviceTypes,
    WireTypes, PrimaryTypes, PendingUnpair, DeviceOps, Links, PrimaryOps
<1> QED BY <1>6, <1>7

\* Publish preserves IInv: records are not part of it.
LEMMA PublishStep ==
  ASSUME NEW n \in Networks PROVE Keeps(Publish(n))
<1> SUFFICES ASSUME TypeOK, Safe, Publish(n) PROVE TypeOK' /\ Safe'
  BY DEF Keeps, IInv
<1>1. TypeOK'
  BY DEF Publish, TypeOK, DeviceTypes, PrimaryTypes, NetworkTypes, WireTypes,
    OtherTypes, PrimaryOps
<1>2. Safe'
  BY SafeFrame, Zenon DEF Publish, core
<1> QED BY <1>1, <1>2

\* Seal preserves IInv: groups are not part of it.
LEMMA SealStep ==
  ASSUME NEW n \in Networks PROVE Keeps(Seal(n))
<1> SUFFICES ASSUME TypeOK, Safe, Seal(n) PROVE TypeOK' /\ Safe'
  BY DEF Keeps, IInv
<1>1. TypeOK'
  BY DEF Seal, TypeOK, DeviceTypes, PrimaryTypes, NetworkTypes, WireTypes,
    OtherTypes, PrimaryOps
<1>2. Safe'
  BY SafeFrame, Zenon DEF Seal, core
<1> QED BY <1>1, <1>2

\* Install preserves IInv: groups and records are not part of it.
LEMMA InstallStep ==
  ASSUME NEW n \in Networks PROVE Keeps(Install(n))
<1> SUFFICES ASSUME TypeOK, Safe, Install(n) PROVE TypeOK' /\ Safe'
  BY DEF Keeps, IInv
<1>1. TypeOK'
  BY DEF Install, TypeOK, DeviceTypes, PrimaryTypes, NetworkTypes, WireTypes,
    OtherTypes, PrimaryOps
<1>2. Safe'
  BY SafeFrame, Zenon DEF Install, core
<1> QED BY <1>1, <1>2

\* Every step of a primary or of its networks preserves IInv.
LEMMA PrimaryStep == Keeps(Primary)
BY StartPairingStep, AcceptPairStep, ReauthorizeStep, LiftNullifiersStep,
  SavePairingStep, RefusePairingStep, PutBackFailsStep, SaveConfirmedStep,
  ConfirmationTimesOutStep, FindPairedStep, UnpairDeviceStep,
  RecordUnpairStep, NullifyNetworksStep, TellDeviceStep, PrimaryRestartStep,
  PublishStep, SealStep, InstallStep
  DEF Primary, Keeps

-----------------------------------------------------------------------------
\* The initial states satisfy IInv.
LEMMA InitInv == Init => IInv
BY SMTT(60) DEF Init, IInv, TypeOK, Safe, DeviceTypes, PrimaryTypes, NetworkTypes, WireTypes,
  OtherTypes, CleanupOwnsCert, RequestAfterCleanup, IssuedBoundsAll,
  PairingClean, LinkHeld, AllIssued, DeviceOps, PrimaryOps, Links

\* Every step preserves IInv.
LEMMA StepInv == IInv /\ [Next]_vars => IInv'
<1> SUFFICES ASSUME IInv, [Next]_vars PROVE IInv'
  OBVIOUS
<1>1. CASE UNCHANGED vars
  BY <1>1, Zenon DEF vars, IInv, Safe, TypeOK, DeviceTypes, PrimaryTypes, NetworkTypes,
    WireTypes, OtherTypes, CleanupOwnsCert, RequestAfterCleanup,
    IssuedBoundsAll, PairingClean, LinkHeld, AllIssued
<1> QED BY <1>1, DeviceStep, PrimaryStep DEF Next, Keeps

\* Every reachable state satisfies the inductive invariant.
THEOREM Invariance == Spec => []IInv
<1>1. Init => IInv
  BY InitInv
<1>2. IInv /\ [Next]_vars => IInv'
  BY StepInv
<1> QED BY <1>1, <1>2, PTL DEF Spec

\* Every variable has its type; one certificate is stored and one unpair is saved
\* for each primary.
THEOREM TypeCorrect == Spec => []TypeOK
BY Invariance, PTL DEF IInv, Safe

\* An unfinished cleanup (leave_certificate_networks) never meets a certificate
\* other than the one it gives up.
THEOREM CleanupSafe == Spec => []CleanupOwnsCert
BY Invariance, PTL DEF IInv, Safe

\* No unpair request, saved or on the wire, names the stored certificate.
THEOREM RequestsSafe == Spec => []RequestAfterCleanup
BY Invariance, PTL DEF IInv, Safe

\* Generations are never reused (save_pairing_generation).
THEOREM GenerationsSafe == Spec => []IssuedBoundsAll
BY Invariance, PTL DEF IInv, Safe
=============================================================================
