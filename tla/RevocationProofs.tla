-------------------------- MODULE RevocationProofs --------------------------
(***************************************************************************)
(* Pairing, for any set of primaries and networks and any bounds: what     *)
(* ends a pairing and what ends an unpair.  With six invariants besides    *)
(* IInv, one lemma each with a step for every action that can disturb it,  *)
(* ConfirmedPairingStands and UnpairNotLost follow.                        *)
(***************************************************************************)
EXTENDS PairingProofs

USE PairingAssumption, ZenonT(30)
USE DEF devDisk, devMem, priSets, priNets, priMem, wire, bounds, history,
  Cert, CertOf, Entry, Op, Idle, Free, NoLink

\* The stored certificate is newer than every request to its primary and no older
\* than the unpair saved for it; one in a reply is not yet confirmed.
Newer ==
  /\ \A e \in pending, c \in cert : e.by = c.by => e.gen <= c.gen
  /\ \A r \in reqs, c \in cert : r.by = c.by => r.gen < c.gen
  /\ \A p \in Primaries :
       link[p].state = "answered" => confirmed[p] < link[p].gen

\* Generations count from 1, so the 0 of a revocation that answers no request is
\* nobody's.
Numbered ==
  /\ \A x \in cert \cup pending \cup reqs : x.gen # 0
  /\ \A p \in Primaries :
       link[p].state \in {"answered", "saved"} => link[p].gen # 0

\* A pairing about to be confirmed is stored, an answered unpair is recorded.
Lasting ==
  /\ dop.kind = "stored" => CertOf(dop) \in cert
  /\ dop.kind = "recorded" => CertOf(dop) \in recorded

\* A revocation under way is saved, is about networks of its primary, and if it
\* answers a request has recorded it.
Revocations ==
  \A p \in Primaries : pop[p].kind = "revoking" =>
    /\ p \in revoked /\ pop[p].nets \subseteq Coordinated(p)
    /\ pop[p].gen = 0 \/ [by |-> p, gen |-> pop[p].gen] \in recorded

\* One pairing at a time: while one is being answered no other session is taken,
\* and once it is answered nothing is lifted any more.
Sessions ==
  \A p \in Primaries :
    /\ link[p].state \in {"accepted", "answered", "saved"} =>
         "taken" \notin session[p]
    /\ link[p].state \in {"answered", "saved"} =>
         pop[p].kind \notin {"lifting", "waiting"}

\* The primary p neither revokes the device nor would put a revocation back.
Clear(p) ==
  /\ p \notin revoked /\ nulled \cap Coordinated(p) = {}
  /\ pop[p].kind \in {"lifting", "waiting"} => pop[p].undo = "nothing"

\* ConfirmedPairingStands, made inductive: a refused pairing puts back what it
\* found, so there must be nothing to find.
Stands ==
  \A c \in cert : confirmed[c.by] = c.gen =>
    \/ c \in disowned
    \/ \E u \in ended : u.by = c.by /\ u.gen >= c.gen
    \/ Clear(c.by)

\* The certificates, the saved unpairs and the requests of a device that starts
\* again are ones it had.
LEMMA RestartKeeps ==
  ASSUME TypeOK, DeviceRestart
  PROVE  /\ cert' \subseteq cert
         /\ \A f \in pending' : \E e \in pending : f.by = e.by /\ f.gen = e.gen
         /\ \A e \in pending : \E f \in pending' : f.by = e.by /\ f.gen = e.gen
         /\ \A q \in reqs' : \E r \in reqs : q.by = r.by /\ q.gen = r.gen
<1>1. cert' \subseteq cert /\ reqs' = Abandoned(reqs)
  BY DEF DeviceRestart
<1>2. PICK swept \in SUBSET {e \in pending : e.phase = "cleanup"} :
        \E done \in SUBSET swept :
          pending' = (pending \ done) \cup
                       {Entry(CertOf(e), "request") : e \in done}
  BY DEF DeviceRestart
<1>3. PICK done \in SUBSET swept :
        pending' = (pending \ done) \cup
                     {Entry(CertOf(e), "request") : e \in done}
  BY <1>2
<1>4. \A e \in pending : LET f == Entry(CertOf(e), "request")
                         IN f.by = e.by /\ f.gen = e.gen
  BY SMTT(30) DEF PendingUnpair
<1> HIDE DEF CertOf, Entry
<1>5. \A f \in pending' : \E e \in pending : f.by = e.by /\ f.gen = e.gen
  BY <1>3, <1>4
<1>6. \A e \in pending : \E f \in pending' : f.by = e.by /\ f.gen = e.gen
  BY <1>3, <1>4
<1> QED BY <1>1, <1>5, <1>6, AbandonedReqs DEF TypeOK

\* Every step keeps the stored certificate newer than the requests about its
\* primary, and no older than the saved unpairs.
LEMMA NewerStep ==
  ASSUME IInv, Newer, [Next]_vars
  PROVE  Newer'
<1>1. ASSUME UNCHANGED <<pending, cert, reqs, link, confirmed>> PROVE Newer'
  BY <1>1 DEF Newer
<1>2. CASE UnpairSelf
  BY <1>2, SMTT(30) DEF UnpairSelf, SaveUnpair, IInv, TypeOK, DeviceTypes, Newer
<1>3. CASE OnUnpairedNotice
  BY <1>3, SMTT(30) DEF OnUnpairedNotice, SaveUnpair, CertFrom, IInv, TypeOK,
    DeviceTypes, Newer
<1>4. CASE UnpairNullified
  BY <1>4, SMTT(30) DEF UnpairNullified, SaveUnpair, IInv, TypeOK, DeviceTypes, Newer
<1>5. CASE DeleteCert
  BY <1>5 DEF DeleteCert, Coordinated, Newer
<1>6. CASE CompleteCleanup
  BY <1>6 DEF CompleteCleanup, Requested, IInv, Safe, PairingClean,
    RequestAfterCleanup, CleanupOwnsCert, AllIssued, IssuedBoundsAll, Newer
<1>7. CASE CancelRequest
  BY <1>7 DEF CancelRequest, CertFrom, Newer
<1>8. CASE SendUnpairRequest
  BY <1>8, SMTT(30) DEF SendUnpairRequest, CertFrom, Newer
<1>9. CASE ReceiveRecorded
  BY <1>9 DEF ReceiveRecorded, Newer
<1>10. CASE RequestFails
  BY <1>10, SMTT(30) DEF RequestFails, Abandoned, IInv, TypeOK, WireTypes, Newer
<1>11. ASSUME NEW p \in Primaries, PairDial(p) PROVE Newer'
  BY <1>11, SMTT(30) DEF PairDial, Newer
<1>12. CASE PairFails
  BY <1>12, SMTT(30) DEF PairFails, Newer
<1>13. CASE StoreCert
  BY <1>13, SMTT(30) DEF StoreCert, IInv, TypeOK, Safe, DeviceTypes, WireTypes,
    PendingUnpair, Links, Newer, PairingClean
<1>14. CASE FinishPairing
  BY <1>14, SMTT(30) DEF FinishPairing, Newer
<1>15. CASE DeviceRestart
  <2>1. /\ cert' \subseteq cert
        /\ \A f \in pending' : \E e \in pending : f.by = e.by /\ f.gen = e.gen
        /\ \A q \in reqs' : \E r \in reqs : q.by = r.by /\ q.gen = r.gen
    BY <1>15, RestartKeeps DEF IInv
  <2>2. \A p \in Primaries : link'[p].state = "none"
    BY <1>15 DEF DeviceRestart
  <2>3. \A f \in pending', c \in cert' : f.by = c.by => f.gen <= c.gen
    BY <2>1 DEF Newer
  <2>4. \A q \in reqs', c \in cert' : q.by = c.by => q.gen < c.gen
    BY <2>1 DEF Newer
  <2> QED BY <2>2, <2>3, <2>4 DEF Newer
<1>16. ASSUME NEW p \in Primaries, AcceptPair(p) PROVE Newer'
  BY <1>16, SMTT(30) DEF AcceptPair, Newer
<1>17. ASSUME NEW p \in Primaries, Reauthorize(p) PROVE Newer'
  BY <1>17, SMTT(30) DEF Reauthorize, Newer
<1>18. ASSUME NEW p \in Primaries, SavePairing(p) PROVE Newer'
  BY <1>18, SMTT(30) DEF SavePairing, IInv, TypeOK, PrimaryTypes, WireTypes, Safe,
    IssuedBoundsAll, Newer
<1>19. ASSUME NEW p \in Primaries, RefusePairing(p) PROVE Newer'
  BY <1>19, SMTT(30) DEF RefusePairing, Newer
<1>20. ASSUME NEW p \in Primaries, PutBackFails(p) PROVE Newer'
  BY <1>20, SMTT(30) DEF PutBackFails, Newer
<1>21. ASSUME NEW p \in Primaries, SaveConfirmed(p) PROVE Newer'
  BY <1>21, SMTT(30) DEF SaveConfirmed, Newer
<1>22. ASSUME NEW p \in Primaries, NEW r \in reqs, RecordUnpair(p, r) PROVE Newer'
  BY <1>22 DEF RecordUnpair, Answer, Revoking, Running, Coordinated, Newer
<1>23. ASSUME NEW p \in Primaries, NullifyNetworks(p) PROVE Newer'
  BY <1>23 DEF NullifyNetworks, Answer, Newer
<1>24. ASSUME NEW p \in Primaries, PrimaryRestart(p) PROVE Newer'
  BY <1>24, SMTT(30) DEF PrimaryRestart, Newer
<1>25. QED
  BY <1>1, <1>2, <1>3, <1>4, <1>5, <1>6, <1>7, <1>8, <1>9, <1>10, <1>11, <1>12,
    <1>13, <1>14, <1>15, <1>16, <1>17, <1>18, <1>19, <1>20, <1>21, <1>22, <1>23,
    <1>24 DEF Next, Device, Primary, vars, ResumeCleanup, CleanupFails, LeaveNetwork,
    ReadRecord, CheckRecord, Join, StartPairing, LiftNullifiers,
    ConfirmationTimesOut, FindPaired, UnpairDevice, TellDevice, Publish, Seal,
    Install

\* Every step keeps generations from 1 on.
LEMMA NumberedStep ==
  ASSUME IInv, Numbered, [Next]_vars
  PROVE  Numbered'
<1>1. ASSUME UNCHANGED <<cert, pending, reqs, link>> PROVE Numbered'
  BY <1>1 DEF Numbered
<1>2. CASE UnpairSelf
  BY <1>2, SMTT(30) DEF UnpairSelf, SaveUnpair, Numbered
<1>3. CASE OnUnpairedNotice
  BY <1>3, SMTT(30) DEF OnUnpairedNotice, SaveUnpair, CertFrom, Numbered
<1>4. CASE UnpairNullified
  BY <1>4, SMTT(30) DEF UnpairNullified, SaveUnpair, Numbered
<1>5. CASE DeleteCert
  BY <1>5 DEF DeleteCert, Coordinated, Numbered
<1>6. CASE CompleteCleanup
  <2>1. \A e \in pending : Requested(e, CertOf(dop)).gen = e.gen
    BY SMTT(30) DEF Requested
  <2>2. UNCHANGED <<cert, reqs, link>>
    BY <1>6 DEF CompleteCleanup
  <2>3. ASSUME NEW f \in pending' PROVE f.gen # 0
    <3>1. PICK e \in pending : f = Requested(e, CertOf(dop))
      BY <1>6 DEF CompleteCleanup
    <3>2. e.gen # 0
      BY DEF Numbered
    <3>3. f.gen = e.gen
      BY <2>1, <3>1
    <3> QED BY <3>2, <3>3
  <2> QED BY <2>2, <2>3 DEF Numbered
<1>7. CASE CancelRequest
  BY <1>7 DEF CancelRequest, CertFrom, Numbered
<1>8. CASE SendUnpairRequest
  BY <1>8, SMTT(30) DEF SendUnpairRequest, Numbered
<1>9. CASE ReceiveRecorded
  BY <1>9 DEF ReceiveRecorded, Numbered
<1>10. CASE RequestFails
  BY <1>10, SMTT(30) DEF RequestFails, Abandoned, IInv, TypeOK, WireTypes, Numbered
<1>11. ASSUME NEW p \in Primaries, PairDial(p) PROVE Numbered'
  BY <1>11, SMTT(30) DEF PairDial, Numbered
<1>12. CASE PairFails
  BY <1>12, SMTT(30) DEF PairFails, Numbered
<1>13. CASE StoreCert
  BY <1>13, SMTT(30) DEF StoreCert, IInv, TypeOK, DeviceTypes, DeviceOps, Numbered
<1>14. CASE FinishPairing
  BY <1>14, SMTT(30) DEF FinishPairing, Numbered
<1>15. CASE DeviceRestart
  BY <1>15, SMTT(30) DEF DeviceRestart, Abandoned, IInv, TypeOK, WireTypes, Numbered
<1>16. ASSUME NEW p \in Primaries, AcceptPair(p) PROVE Numbered'
  BY <1>16, SMTT(30) DEF AcceptPair, Numbered
<1>17. ASSUME NEW p \in Primaries, Reauthorize(p) PROVE Numbered'
  BY <1>17, SMTT(30) DEF Reauthorize, Numbered
<1>18. ASSUME NEW p \in Primaries, SavePairing(p) PROVE Numbered'
  <2>1. UNCHANGED <<cert, pending, reqs>>
    BY <1>18 DEF SavePairing
  <2>2. issued[p] + 1 # 0
    BY SMTT(30) DEF IInv, TypeOK, PrimaryTypes
  <2>3. \/ link' = link
        \/ link' = [link EXCEPT ![p] = [state |-> "answered",
                                       gen |-> issued[p] + 1]]
    BY <1>18 DEF SavePairing
  <2>4. \A q \in Primaries : link'[q] = link[q] \/ link'[q].gen = issued[p] + 1
    BY <2>3, SMTT(30) DEF IInv, TypeOK, WireTypes
  <2>5. \A q \in Primaries : link'[q] = link[q] \/ link'[q].gen # 0
    BY <2>2, <2>4
  <2> QED BY <2>1, <2>5 DEF Numbered
<1>19. ASSUME NEW p \in Primaries, RefusePairing(p) PROVE Numbered'
  BY <1>19, SMTT(30) DEF RefusePairing, Numbered
<1>20. ASSUME NEW p \in Primaries, PutBackFails(p) PROVE Numbered'
  BY <1>20, SMTT(30) DEF PutBackFails, Numbered
<1>21. ASSUME NEW p \in Primaries, SaveConfirmed(p) PROVE Numbered'
  BY <1>21, SMTT(30) DEF SaveConfirmed, Numbered
<1>22. ASSUME NEW p \in Primaries, NEW r \in reqs, RecordUnpair(p, r) PROVE Numbered'
  BY <1>22 DEF RecordUnpair, Answer, Revoking, Running, Coordinated, Numbered
<1>23. ASSUME NEW p \in Primaries, NullifyNetworks(p) PROVE Numbered'
  BY <1>23 DEF NullifyNetworks, Answer, Numbered
<1>24. ASSUME NEW p \in Primaries, PrimaryRestart(p) PROVE Numbered'
  BY <1>24, SMTT(30) DEF PrimaryRestart, Numbered
<1>25. QED
  BY <1>1, <1>2, <1>3, <1>4, <1>5, <1>6, <1>7, <1>8, <1>9, <1>10, <1>11, <1>12,
    <1>13, <1>14, <1>15, <1>16, <1>17, <1>18, <1>19, <1>20, <1>21, <1>22, <1>23,
    <1>24 DEF Next, Device, Primary, vars, ResumeCleanup, CleanupFails, LeaveNetwork,
    ReadRecord, CheckRecord, Join, StartPairing, LiftNullifiers,
    ConfirmationTimesOut, FindPaired, UnpairDevice, TellDevice, Publish, Seal,
    Install

\* Every step keeps what an operation of the device rests on.
LEMMA LastingStep ==
  ASSUME IInv, Lasting, Revocations, Numbered, [Next]_vars
  PROVE  Lasting'
<1>1. ASSUME UNCHANGED <<dop, cert, recorded>> PROVE Lasting'
  BY <1>1 DEF Lasting
<1>2. CASE UnpairSelf
  BY <1>2, SMTT(30) DEF UnpairSelf, SaveUnpair, Lasting
<1>3. CASE OnUnpairedNotice
  BY <1>3, SMTT(30) DEF OnUnpairedNotice, SaveUnpair, Lasting
<1>4. CASE UnpairNullified
  BY <1>4, SMTT(30) DEF UnpairNullified, SaveUnpair, Lasting
<1>5. CASE ResumeCleanup
  BY <1>5, SMTT(30) DEF ResumeCleanup, Lasting
<1>6. CASE DeleteCert
  BY <1>6 DEF DeleteCert, Coordinated, Lasting, Revocations, Numbered
<1>7. CASE CompleteCleanup
  BY <1>7 DEF CompleteCleanup, Requested, Lasting, Revocations, Numbered
<1>8. CASE CleanupFails
  BY <1>8 DEF CleanupFails, Lasting, Revocations, Numbered
<1>9. CASE SendUnpairRequest
  BY <1>9, SMTT(30) DEF SendUnpairRequest, Lasting
<1>10. CASE ReceiveRecorded
  BY <1>10 DEF ReceiveRecorded, Lasting, Revocations, Numbered
<1>11. CASE RequestFails
  BY <1>11 DEF RequestFails, Abandoned, Lasting, Revocations, Numbered
<1>12. ASSUME NEW p \in Primaries, PairDial(p) PROVE Lasting'
  BY <1>12 DEF PairDial, Lasting, Revocations, Numbered
<1>13. CASE PairFails
  BY <1>13 DEF PairFails, Lasting, Revocations, Numbered
<1>14. CASE StoreCert
  BY <1>14 DEF StoreCert, Lasting, Revocations, Numbered
<1>15. CASE FinishPairing
  BY <1>15 DEF FinishPairing, Lasting, Revocations, Numbered
<1>16. CASE DeviceRestart
  BY <1>16 DEF DeviceRestart, Abandoned, Lasting, Revocations, Numbered
<1>17. ASSUME NEW p \in Primaries, NEW r \in reqs, RecordUnpair(p, r) PROVE Lasting'
  BY <1>17, SMTT(30) DEF RecordUnpair, Answer, IInv, Safe, LinkHeld, Lasting
<1>18. ASSUME NEW p \in Primaries, NullifyNetworks(p) PROVE Lasting'
  BY <1>18, SMTT(30) DEF NullifyNetworks, Answer, IInv, Safe, LinkHeld, Lasting,
    Revocations, Numbered
<1>19. QED
  BY <1>1, <1>2, <1>3, <1>4, <1>5, <1>6, <1>7, <1>8, <1>9, <1>10, <1>11, <1>12,
    <1>13, <1>14, <1>15, <1>16, <1>17, <1>18 DEF Next, Device, Primary, vars,
    CancelRequest, LeaveNetwork, ReadRecord, CheckRecord, Join, StartPairing,
    AcceptPair, Reauthorize, LiftNullifiers, SavePairing, RefusePairing,
    PutBackFails, SaveConfirmed, ConfirmationTimesOut, FindPaired, UnpairDevice,
    TellDevice, PrimaryRestart, Publish, Seal, Install

\* Every step keeps a revocation under way a saved one.
LEMMA RevocationsStep ==
  ASSUME IInv, Revocations, [Next]_vars
  PROVE  Revocations'
<1>1. ASSUME UNCHANGED <<pop, revoked, recorded>> PROVE Revocations'
  BY <1>1 DEF Revocations, Coordinated
<1>2. ASSUME NEW p \in Primaries, Reauthorize(p) PROVE Revocations'
  BY <1>2, SMTT(30) DEF Reauthorize, Revocations
<1>3. ASSUME NEW p \in Primaries, LiftNullifiers(p) PROVE Revocations'
  BY <1>3, SMTT(30) DEF LiftNullifiers, Revocations
<1>4. ASSUME NEW p \in Primaries, SavePairing(p) PROVE Revocations'
  BY <1>4, SMTT(30) DEF SavePairing, Revocations
<1>5. ASSUME NEW p \in Primaries, RefusePairing(p) PROVE Revocations'
  BY <1>5, SMTT(30) DEF RefusePairing, Revoking, Running, IInv, TypeOK, PrimaryTypes,
    Revocations
<1>6. ASSUME NEW p \in Primaries, PutBackFails(p) PROVE Revocations'
  BY <1>6, SMTT(30) DEF PutBackFails, Revocations
<1>7. ASSUME NEW p \in Primaries, UnpairDevice(p) PROVE Revocations'
  BY <1>7, SMTT(30) DEF UnpairDevice, Revoking, Running, Revocations
<1>8. ASSUME NEW p \in Primaries, NEW r \in reqs, RecordUnpair(p, r) PROVE Revocations'
  BY <1>8, SMTT(30) DEF RecordUnpair, Revoking, Running, IInv, TypeOK, PrimaryTypes,
    Revocations
<1>9. ASSUME NEW p \in Primaries, NullifyNetworks(p) PROVE Revocations'
  BY <1>9, SMTT(30) DEF NullifyNetworks, Revocations
<1>10. ASSUME NEW p \in Primaries, PrimaryRestart(p) PROVE Revocations'
  BY <1>10, SMTT(30) DEF PrimaryRestart, Revocations
<1>11. QED
  BY <1>1, <1>2, <1>3, <1>4, <1>5, <1>6, <1>7, <1>8, <1>9, <1>10 DEF Next, Device,
    Primary, vars, UnpairSelf, OnUnpairedNotice, UnpairNullified, ResumeCleanup,
    DeleteCert, CompleteCleanup, CleanupFails, CancelRequest, SendUnpairRequest,
    ReceiveRecorded, RequestFails, PairDial, PairFails, StoreCert, FinishPairing,
    DeviceRestart, LeaveNetwork, ReadRecord, CheckRecord, Join, StartPairing,
    AcceptPair, SaveConfirmed, ConfirmationTimesOut, FindPaired, TellDevice, Publish,
    Seal, Install

\* Every step keeps one pairing at a time on a primary.
LEMMA SessionsStep ==
  ASSUME IInv, Sessions, [Next]_vars
  PROVE  Sessions'
<1>1. ASSUME UNCHANGED <<link, session, pop>> PROVE Sessions'
  BY <1>1 DEF Sessions
<1>2. ASSUME NEW p \in Primaries, PairDial(p) PROVE Sessions'
  BY <1>2, SMTT(30) DEF PairDial, Sessions
<1>3. CASE PairFails
  BY <1>3, SMTT(30) DEF PairFails, Sessions
<1>4. CASE FinishPairing
  BY <1>4, SMTT(30) DEF FinishPairing, Sessions
<1>5. CASE DeviceRestart
  BY <1>5 DEF DeviceRestart, Abandoned, Sessions
<1>6. ASSUME NEW p \in Primaries, StartPairing(p) PROVE Sessions'
  BY <1>6, SMTT(30) DEF StartPairing, Sessions
<1>7. ASSUME NEW p \in Primaries, AcceptPair(p) PROVE Sessions'
  BY <1>7, SMTT(30) DEF AcceptPair, Sessions
<1>8. ASSUME NEW p \in Primaries, Reauthorize(p) PROVE Sessions'
  BY <1>8, SMTT(30) DEF Reauthorize, IInv, TypeOK, PrimaryTypes, Sessions
<1>9. ASSUME NEW p \in Primaries, LiftNullifiers(p) PROVE Sessions'
  BY <1>9, SMTT(30) DEF LiftNullifiers, Sessions
<1>10. ASSUME NEW p \in Primaries, SavePairing(p) PROVE Sessions'
  BY <1>10 DEF SavePairing, IInv, TypeOK, DeviceTypes, PrimaryTypes, WireTypes,
    Sessions
<1>11. ASSUME NEW p \in Primaries, RefusePairing(p) PROVE Sessions'
  BY <1>11 DEF RefusePairing, Revoking, Running, Coordinated, IInv, TypeOK,
    DeviceTypes, PrimaryTypes, WireTypes, Sessions
<1>12. ASSUME NEW p \in Primaries, PutBackFails(p) PROVE Sessions'
  BY <1>12, SMTT(30) DEF PutBackFails, Sessions
<1>13. ASSUME NEW p \in Primaries, SaveConfirmed(p) PROVE Sessions'
  BY <1>13, SMTT(30) DEF SaveConfirmed, Sessions
<1>14. ASSUME NEW p \in Primaries, UnpairDevice(p) PROVE Sessions'
  BY <1>14, SMTT(30) DEF UnpairDevice, Revoking, Sessions
<1>15. ASSUME NEW p \in Primaries, NEW r \in reqs, RecordUnpair(p, r) PROVE Sessions'
  BY <1>15, SMTT(30) DEF RecordUnpair, Revoking, IInv, TypeOK, PrimaryTypes, Sessions
<1>16. ASSUME NEW p \in Primaries, NullifyNetworks(p) PROVE Sessions'
  BY <1>16, SMTT(30) DEF NullifyNetworks, Sessions
<1>17. ASSUME NEW p \in Primaries, PrimaryRestart(p) PROVE Sessions'
  BY <1>17, SMTT(30) DEF PrimaryRestart, Sessions
<1>18. QED
  BY <1>1, <1>2, <1>3, <1>4, <1>5, <1>6, <1>7, <1>8, <1>9, <1>10, <1>11, <1>12,
    <1>13, <1>14, <1>15, <1>16, <1>17 DEF Next, Device, Primary, vars, UnpairSelf,
    OnUnpairedNotice, UnpairNullified, ResumeCleanup, DeleteCert, CompleteCleanup,
    CleanupFails, CancelRequest, SendUnpairRequest, ReceiveRecorded, RequestFails,
    StoreCert, LeaveNetwork, ReadRecord, CheckRecord, Join, ConfirmationTimesOut,
    FindPaired, TellDevice, Publish, Seal, Install

\* A step that leaves the pairings and the unpairs alone, and every clear primary
\* clear, keeps Stands.
LEMMA ClearStands ==
  ASSUME IInv, Stands, UNCHANGED <<cert, confirmed, disowned, ended>>,
         \A q \in Primaries : Clear(q) => Clear(q)'
  PROVE  Stands'
<1>1. \A c \in cert : c.by \in Primaries
  BY DEF IInv, TypeOK, DeviceTypes
<1> QED BY <1>1 DEF Stands

\* A primary's operation that ends with nothing else changed keeps Stands.
LEMMA FreedStands ==
  ASSUME IInv, Stands, NEW p \in Primaries, pop' = [pop EXCEPT ![p] = Free],
         UNCHANGED <<cert, confirmed, disowned, ended, revoked, nulled>>
  PROVE  Stands'
<1>1. \A q \in Primaries : pop'[q] = (IF q = p THEN Free ELSE pop[q])
  BY DEF IInv, TypeOK, PrimaryTypes
<1>2. Free.kind = "free"
  OBVIOUS
<1>3. \A q \in Primaries : Clear(q) => Clear(q)'
  BY <1>1, <1>2 DEF Clear, Coordinated
<1> QED BY <1>3, ClearStands

\* Every step keeps a confirmed pairing clear of revocations, or excused.
LEMMA StandsStep ==
  ASSUME IInv, Stands, Newer, Sessions, Revocations, [Next]_vars
  PROVE  Stands'
<1>1. ASSUME UNCHANGED <<cert, confirmed, disowned, ended, revoked, nulled, pop>> PROVE Stands'
  BY <1>1 DEF Stands, Clear, Coordinated
<1>2. CASE DeleteCert
  BY <1>2 DEF DeleteCert, Coordinated, Stands, Clear
<1>3. CASE StoreCert
  BY <1>3, SMTT(30) DEF StoreCert, IInv, TypeOK, DeviceTypes, WireTypes, DeviceOps,
    Links, Stands, Newer
<1>4. CASE DeviceRestart
  BY <1>4 DEF DeviceRestart, Stands, Clear
<1>5. ASSUME NEW p \in Primaries, Reauthorize(p) PROVE Stands'
  <2>1. UNCHANGED <<cert, confirmed, disowned, ended, nulled>> /\ revoked' \subseteq revoked
    BY <1>5 DEF Reauthorize
  <2>2. /\ \A q \in Primaries : q # p => pop'[q] = pop[q]
        /\ p \notin revoked /\ pop'[p].kind \in {"lifting", "waiting"} =>
             pop'[p].undo = "nothing"
    BY <1>5 DEF Reauthorize, IInv, TypeOK, PrimaryTypes
  <2>3. \A q \in Primaries : Clear(q) => Clear(q)'
    BY <2>1, <2>2 DEF Clear, Coordinated
  <2> QED BY <2>1, <2>3, ClearStands
<1>6. ASSUME NEW p \in Primaries, LiftNullifiers(p) PROVE Stands'
  <2>1. UNCHANGED <<cert, confirmed, disowned, ended, revoked>> /\ nulled' \subseteq nulled
    BY <1>6 DEF LiftNullifiers
  <2>2. /\ \A q \in Primaries : q # p => pop'[q] = pop[q]
        /\ nulled \cap Coordinated(p) = {} => pop'[p].undo = pop[p].undo
    BY <1>6 DEF LiftNullifiers, IInv, TypeOK, PrimaryTypes
  <2>3. pop[p].kind = "lifting"
    BY <1>6 DEF LiftNullifiers
  <2>4. \A q \in Primaries : Clear(q) => Clear(q)'
    BY <2>1, <2>2, <2>3 DEF Clear, Coordinated
  <2> QED BY <2>1, <2>4, ClearStands
<1>7. ASSUME NEW p \in Primaries, SavePairing(p) PROVE Stands'
  BY <1>7, FreedStands DEF SavePairing
<1>8. ASSUME NEW p \in Primaries, RefusePairing(p) PROVE Stands'
  <2>1. UNCHANGED <<cert, confirmed, disowned, ended, nulled>>
    BY <1>8 DEF RefusePairing
  <2>2. CASE pop[p].undo = "revoke"
    <3>1. /\ pop[p].kind = "waiting" /\ revoked' = revoked \cup {p}
          /\ \A q \in Primaries : q # p => pop'[q] = pop[q]
      BY <1>8, <2>2 DEF RefusePairing, IInv, TypeOK, PrimaryTypes
    <3>2. \A q \in Primaries : Clear(q) => Clear(q)'
      BY <2>1, <2>2, <3>1 DEF Clear, Coordinated
    <3> QED BY <2>1, <3>2, ClearStands
  <2>3. CASE pop[p].undo # "revoke"
    BY <1>8, <2>1, <2>3, FreedStands DEF RefusePairing
  <2> QED BY <2>2, <2>3
<1>9. ASSUME NEW p \in Primaries, PutBackFails(p) PROVE Stands'
  BY <1>9, FreedStands DEF PutBackFails
<1>10. ASSUME NEW p \in Primaries, SaveConfirmed(p) PROVE Stands'
  BY <1>10, SMTT(30) DEF SaveConfirmed, IInv, TypeOK, DeviceTypes, Stands, Sessions,
    Clear
<1>11. ASSUME NEW p \in Primaries, UnpairDevice(p) PROVE Stands'
  <2>1. /\ UNCHANGED <<cert, confirmed, disowned, nulled>>
        /\ [by |-> p, gen |-> issued[p]] \in ended' /\ ended \subseteq ended'
        /\ \A q \in Primaries : q # p =>
             (q \in revoked' <=> q \in revoked) /\ pop'[q] = pop[q]
    BY <1>11 DEF UnpairDevice, IInv, TypeOK, PrimaryTypes
  <2> SUFFICES ASSUME NEW c \in cert, confirmed[c.by] = c.gen
               PROVE  \/ c \in disowned
                      \/ \E u \in ended' : u.by = c.by /\ u.gen >= c.gen
                      \/ Clear(c.by)'
    BY <2>1 DEF Stands
  <2>2. c.by \in Primaries
    BY DEF IInv, TypeOK, DeviceTypes
  <2>3. CASE c.by = p
    <3>1. issued[p] >= c.gen
      BY <2>2, <2>3, SMTT(30) DEF IInv, Safe, IssuedBoundsAll
    <3> QED BY <2>1, <2>3, <3>1
  <2>4. CASE c.by # p
    BY <2>1, <2>2, <2>4 DEF Stands, Clear, Coordinated
  <2> QED BY <2>3, <2>4
<1>12. ASSUME NEW p \in Primaries, NEW r \in reqs, RecordUnpair(p, r) PROVE Stands'
  BY <1>12, SMTT(30) DEF RecordUnpair, IInv, TypeOK, DeviceTypes, PrimaryTypes,
    WireTypes, Stands, Newer, Clear
<1>13. ASSUME NEW p \in Primaries, NullifyNetworks(p) PROVE Stands'
  <2>1. /\ UNCHANGED <<cert, confirmed, disowned, ended, revoked>>
        /\ nulled' = nulled \cup pop[p].nets
        /\ \A q \in Primaries : q # p => pop'[q] = pop[q]
    BY <1>13 DEF NullifyNetworks, IInv, TypeOK, PrimaryTypes
  <2>2. p \in revoked /\ pop[p].nets \subseteq Coordinated(p)
    BY <1>13 DEF NullifyNetworks, Revocations
  <2> SUFFICES ASSUME NEW c \in cert, Clear(c.by) PROVE Clear(c.by)'
    BY <2>1 DEF Stands
  <2>3. c.by \in Primaries /\ c.by # p
    BY <2>2 DEF Clear, IInv, TypeOK, DeviceTypes
  <2> QED BY <2>1, <2>2, <2>3 DEF Clear, Coordinated
<1>14. ASSUME NEW p \in Primaries, PrimaryRestart(p) PROVE Stands'
  BY <1>14, FreedStands DEF PrimaryRestart
<1>15. ASSUME NEW n \in Networks, Seal(n) PROVE Stands'
  <2>1. UNCHANGED <<cert, confirmed, disowned, ended, revoked, pop>>
    BY <1>15 DEF Seal, devDisk, priSets, priMem, history
  <2>2. nulled' = nulled \/ (nulled' = nulled \cup {n} /\ Coord[n] \in revoked)
    BY <1>15 DEF Seal
  <2> SUFFICES ASSUME NEW c \in cert, Clear(c.by) PROVE Clear(c.by)'
    BY <2>1 DEF Stands
  <2> QED BY <2>1, <2>2 DEF Clear, Coordinated
<1>16. QED
  BY <1>1, <1>2, <1>3, <1>4, <1>5, <1>6, <1>7, <1>8, <1>9, <1>10, <1>11, <1>12,
    <1>13, <1>14, <1>15 DEF Next, Device, Primary, vars, UnpairSelf,
    OnUnpairedNotice, UnpairNullified, ResumeCleanup, CompleteCleanup, CleanupFails,
    CancelRequest, SendUnpairRequest, ReceiveRecorded, RequestFails, PairDial,
    PairFails, FinishPairing, LeaveNetwork, ReadRecord, CheckRecord, Join,
    StartPairing, AcceptPair, ConfirmationTimesOut, FindPaired, TellDevice, Publish,
    Install

\* What the two results below need besides IInv.
Strong == Newer /\ Numbered /\ Lasting /\ Revocations /\ Sessions /\ Stands

\* The initial states satisfy it.
LEMMA InitStrong == Init => Strong
<1> SUFFICES ASSUME Init PROVE Strong
  OBVIOUS
<1>1. Newer /\ Numbered /\ Lasting /\ Stands
  BY DEF Init, Newer, Numbered, Lasting, Stands
<1>2. Revocations /\ Sessions
  BY DEF Init, Revocations, Sessions
<1> QED BY <1>1, <1>2 DEF Strong

\* Every step preserves it, given IInv.
LEMMA StepStrong == IInv /\ Strong /\ [Next]_vars => Strong'
BY NewerStep, NumberedStep, LastingStep, RevocationsStep, SessionsStep,
  StandsStep
  DEF Strong

\* Every reachable state satisfies both.
LEMMA Strengthened == Spec => [](IInv /\ Strong)
<1>1. Init => IInv /\ Strong
  BY InitInv, InitStrong
<1>2. (IInv /\ Strong) /\ [Next]_vars => (IInv /\ Strong)'
  BY StepInv, StepStrong
<1> QED BY <1>1, <1>2, PTL DEF Spec

\* A pairing the device confirmed and still holds is revoked at its primary only
\* by `ray unpair` there, or because the device was still revoked or nullified
\* when it was confirmed (record_unpair, reauth_device_locked).
THEOREM PairingStands == Spec => []ConfirmedPairingStands
<1>1. Strong => ConfirmedPairingStands
  BY DEF Strong, Stands, Clear, ConfirmedPairingStands
<1> QED BY <1>1, Strengthened, PTL

\* A saved unpair about another certificate than the stored one of its primary
\* is about an older one.
LEMMA OlderEntry ==
  ASSUME IInv, Newer, NEW e \in pending, NEW c \in cert, e.by = c.by,
         CertOf(e) # c
  PROVE  c.gen > e.gen
<1>1. e.gen <= c.gen /\ e.gen \in Nat /\ c.gen \in Nat
  BY DEF Newer, IInv, TypeOK, DeviceTypes, PendingUnpair
<1>2. c = [by |-> c.by, gen |-> c.gen]
  BY SMTT(30) DEF IInv, TypeOK, DeviceTypes
<1>3. e.gen # c.gen
  BY <1>2
<1> QED BY <1>1, <1>3, SMTT(30)

\* Its entry is gone: recorded, or a newer certificate of its primary is stored.
Replaced(e) ==
  \/ CertOf(e) \in recorded
  \/ \E c \in cert' : c.by = e.by /\ c.gen > e.gen

\* Saving an unpair replaces at most an older one.
LEMMA SaveReplaces ==
  ASSUME IInv, Newer, NEW c \in cert, SaveUnpair(c), UNCHANGED cert,
         NEW e \in pending, \A f \in pending' : CertOf(f) # CertOf(e)
  PROVE  Replaced(e)
<1>1. c \in Cert /\ Entry(c, "cleanup") \in pending'
  BY DEF SaveUnpair, IInv, TypeOK, DeviceTypes
<1>2. CertOf(Entry(c, "cleanup")) = c
  BY <1>1, SMTT(30)
<1>3. CertOf(e) # c
  BY <1>1, <1>2
<1>4. e.by = c.by
  BY DEF SaveUnpair
<1>5. c.gen > e.gen
  BY <1>3, <1>4, OlderEntry
<1> QED BY <1>4, <1>5 DEF Replaced

\* The unpairs a device saves are no primary's to change.
LEMMA PrimaryKeepsPending == Primary => UNCHANGED pending
BY DEF Primary, StartPairing, AcceptPair, Reauthorize, LiftNullifiers, SavePairing,
  RefusePairing, PutBackFails, SaveConfirmed, ConfirmationTimesOut, FindPaired,
  UnpairDevice, RecordUnpair, NullifyNetworks, TellDevice, PrimaryRestart, Publish,
  Seal, Install

\* Every step that ends a saved unpair does so because the primary recorded it or
\* a newer certificate of that primary is stored.
LEMMA EntriesStep ==
  ASSUME IInv, Strong, [Next]_vars,
         NEW e \in pending, \A f \in pending' : CertOf(f) # CertOf(e)
  PROVE  Replaced(e)
<1>1. CASE UNCHANGED pending
  BY <1>1
<1>2. CASE UnpairSelf
  BY <1>2, SaveReplaces DEF UnpairSelf, Strong
<1>3. CASE OnUnpairedNotice
  <2>1. PICK c \in cert : SaveUnpair(c)
    BY <1>1, <1>3 DEF OnUnpairedNotice, CertFrom
  <2> QED BY <1>3, <2>1, SaveReplaces DEF OnUnpairedNotice, Strong
<1>4. CASE UnpairNullified
  BY <1>1, <1>4, SaveReplaces DEF UnpairNullified, Strong
<1>5. CASE CompleteCleanup
  <2>1. CertOf(Requested(e, CertOf(dop))) = CertOf(e)
    BY SMTT(30) DEF Requested
  <2> QED BY <1>5, <2>1 DEF CompleteCleanup
<1>6. CASE CancelRequest
  <2>1. /\ e.phase = "request" /\ CertFrom(e.by) # {} /\ cert' = cert
    BY <1>6 DEF CancelRequest
  <2>2. PICK c \in cert : c.by = e.by
    BY <2>1 DEF CertFrom
  <2>3. CertOf(e) # c
    BY <2>1 DEF IInv, Safe, RequestAfterCleanup
  <2>4. c.gen > e.gen
    BY <2>2, <2>3, OlderEntry DEF Strong
  <2> QED BY <2>1, <2>2, <2>4 DEF Replaced
<1>7. CASE ReceiveRecorded
  BY <1>7 DEF ReceiveRecorded, Strong, Lasting, Replaced
<1>8. CASE FinishPairing
  <2>1. dop.kind = "stored" /\ e.by = dop.by /\ cert' = cert
    BY <1>1, <1>8 DEF FinishPairing
  <2>2. PICK c \in cert : c = CertOf(dop)
    BY <2>1 DEF Strong, Lasting
  <2>3. e.by = c.by
    BY <2>1, <2>2, SMTT(30)
  <2>4. CertOf(e) # c
    BY <2>1 DEF IInv, TypeOK, Safe, DeviceTypes, PendingUnpair, PairingClean,
      RequestAfterCleanup
  <2>5. c.gen > e.gen
    BY <2>3, <2>4, OlderEntry DEF Strong
  <2> QED BY <2>1, <2>3, <2>5 DEF Replaced
<1>9. CASE DeviceRestart
  BY <1>9, RestartKeeps DEF IInv
<1>10. CASE Device
  BY <1>1, <1>2, <1>3, <1>4, <1>5, <1>6, <1>7, <1>8, <1>9, <1>10
  DEF Device, ResumeCleanup, DeleteCert, CleanupFails, SendUnpairRequest,
    RequestFails, PairDial, PairFails, StoreCert, LeaveNetwork, ReadRecord,
    CheckRecord, Join
<1> QED BY <1>1, <1>10, PrimaryKeepsPending DEF Next, vars

\* A saved unpair goes away only once its primary recorded it, or while the
\* device holds a newer certificate of that primary: no failed write, lost answer
\* or restart forgets one (unpair_self_locked, cancel_pending_requests).
THEOREM UnpairSafe == Spec => UnpairNotLost
<1>1. IInv /\ Strong /\ [Next]_vars =>
        [\A e \in pending :
           (\A f \in pending' : CertOf(f) # CertOf(e))
             => \/ CertOf(e) \in recorded
                \/ \E c \in cert' : c.by = e.by /\ c.gen > e.gen]_vars
  <2> HIDE DEF CertOf
  <2> QED BY EntriesStep DEF Replaced
<1> QED BY <1>1, Strengthened, PTL DEF Spec, UnpairNotLost
=============================================================================
