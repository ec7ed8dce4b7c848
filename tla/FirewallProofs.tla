--------------------------- MODULE FirewallProofs ---------------------------
(***************************************************************************)
(* Policy and Conntrack, for any editors, directions and limits: no edit   *)
(* of the firewall's rules is lost, and a later fragment of a packet       *)
(* passes only on the verdict of its first one.                            *)
(***************************************************************************)
EXTENDS Policy, Conntrack, FiniteSetTheorems, SequenceTheorems, TLAPS

\* Most steps are first-order; the ones that need arithmetic or sequences cite SMT.
USE ZenonT(30)

-----------------------------------------------------------------------------
(* Policy. EditsLand rests on the lock: the edit that holds it has read what  *)
(* is stored now, and no one holds it while the daemon starts.               *)

\* The step of a rename says who may run it and who holds the lock.
RenameAt ==
  /\ DOMAIN rename = {"at", "boot", "from", "to"}
  /\ rename.boot \in BOOLEAN
  /\ rename.at = "persist" => editLock = "rename"
  /\ rename.at = "down" \/ rename.boot => editLock = NoEntry
  /\ rename.at \in {"rules", "persist", "down"} => ~rename.boot
  /\ rename.at = "saved" => rename.boot

\* An edit beyond its first step holds the lock and has read the live rules.
EditAt ==
  /\ DOMAIN edit = Editors
  /\ \A e \in Editors :
       /\ DOMAIN edit[e] = {"at", "change", "read"}
       /\ edit[e].at # "idle" => editLock = e
       /\ edit[e].at = "loaded" => edit[e].read = rules

PolicyInv ==
  /\ RenameAt /\ EditAt /\ EditsLand
  /\ rename.boot => ruleFile = rules

\* A step that leaves the rules, their file and the lock alone, and moves no
\* rename across the lock, keeps the invariant.
LEMMA PolicyQuiet ==
  ASSUME PolicyInv, UNCHANGED <<rules, landed, ruleFile, unsaved, editLock, edit>>,
         DOMAIN rename' = {"at", "boot", "from", "to"}, rename'.boot \in BOOLEAN,
         rename.at # "down", rename'.at \notin {"persist", "down"},
         rename'.boot => rename.boot,
         rename'.at = "rules" => ~rename'.boot,
         rename'.at = "saved" => rename'.boot
  PROVE  PolicyInv'
BY DEF PolicyInv, RenameAt, EditAt, EditsLand, Up

\* Where a rename is after a step of it that goes on, and after one that gives up.
LEMMA GoneTo ==
  ASSUME PolicyInv, NEW at, rename' = [rename EXCEPT !.at = at]
  PROVE  /\ DOMAIN rename' = {"at", "boot", "from", "to"}
         /\ rename'.at = at /\ rename'.boot = rename.boot /\ rename'.boot \in BOOLEAN
BY DEF PolicyInv, RenameAt

LEMMA GivenUp ==
  ASSUME rename' = IdleRename
  PROVE  /\ DOMAIN rename' = {"at", "boot", "from", "to"}
         /\ rename'.at = "idle" /\ rename'.boot = FALSE
BY DEF IdleRename

LEMMA PolicyInit_Inv == PlInit => PolicyInv
<1> SUFFICES ASSUME PlInit PROVE PolicyInv
  OBVIOUS
<1>1. RenameAt
  BY HoldersApart DEF PlInit, RenameAt, IdleRename
<1>2. EditAt
  BY DEF PlInit, EditAt, IdleEdit
<1>3. EditsLand /\ (rename.boot => ruleFile = rules)
  BY DEF PlInit, EditsLand, IdleRename
<1> QED BY <1>1, <1>2, <1>3 DEF PolicyInv

\* The three steps of an edit.
LEMMA EditSteps ==
  ASSUME PolicyInv, NEW e \in Editors,
         (\E c : EditLoad(e, c)) \/ EditStore(e) \/ (\E f \in BOOLEAN : EditPersist(e, f))
  PROVE  PolicyInv'
<1>1. CASE \E c : EditLoad(e, c)
  <2> PICK c : EditLoad(e, c)
    BY <1>1
  <2>1. edit'[e] = [at |-> "loaded", change |-> c, read |-> rules]
    BY DEF EditLoad, PolicyInv, EditAt
  <2>2. \A o \in Editors : o # e => edit'[o] = edit[o] /\ edit[o].at = "idle"
    BY HoldersApart DEF EditLoad, PolicyInv, EditAt
  <2>3. EditAt'
    BY <2>1, <2>2 DEF EditLoad, PolicyInv, EditAt
  <2>4. RenameAt'
    BY HoldersApart DEF EditLoad, PolicyInv, RenameAt, Up
  <2> QED BY <2>3, <2>4, HoldersApart DEF EditLoad, PolicyInv, EditsLand, Up
<1>2. CASE EditStore(e)
  <2>1. editLock = e /\ edit[e].read = rules /\ rules = landed
    BY <1>2 DEF EditStore, PolicyInv, EditAt, EditsLand
  <2>2. rules' = landed'
    BY <1>2, <2>1 DEF EditStore
  <2>3. edit'[e].at = "stored" /\ DOMAIN edit'[e] = {"at", "change", "read"}
    BY <1>2 DEF EditStore, PolicyInv, EditAt
  <2>4. \A o \in Editors : o # e => edit'[o] = edit[o] /\ edit[o].at = "idle"
    BY <1>2, <2>1 DEF EditStore, PolicyInv, EditAt
  <2>5. EditAt'
    BY <1>2, <2>1, <2>3, <2>4 DEF EditStore, PolicyInv, EditAt
  <2>6. RenameAt' /\ ~rename'.boot
    BY <1>2, <2>1, HoldersApart DEF EditStore, PolicyInv, RenameAt
  <2> QED BY <1>2, <2>1, <2>2, <2>5, <2>6, HoldersApart DEF EditStore, PolicyInv, EditsLand
<1>3. CASE \E f \in BOOLEAN : EditPersist(e, f)
  <2> PICK f \in BOOLEAN : EditPersist(e, f)
    BY <1>3
  <2>1. editLock = e /\ edit'[e] = IdleEdit
    BY DEF EditPersist, PolicyInv, EditAt
  <2>2. \A o \in Editors : o # e => edit'[o] = edit[o] /\ edit[o].at = "idle"
    BY <2>1 DEF EditPersist, PolicyInv, EditAt
  <2>3. EditAt'
    BY <2>1, <2>2 DEF EditPersist, PolicyInv, EditAt, IdleEdit
  <2>4. RenameAt' /\ ~rename'.boot
    BY <2>1, HoldersApart DEF EditPersist, PolicyInv, RenameAt
  <2> QED BY <2>3, <2>4 DEF EditPersist, PolicyInv, EditsLand
<1> QED BY <1>1, <1>2, <1>3

\* The steps of a rename that move files, and those that do not concern it.
LEMMA FileSteps ==
  ASSUME PolicyInv,
         \/ \E n, m : RenameCheck(n, m)
         \/ \E f \in BOOLEAN : SaveIntent(f) \/ MoveFile(f) \/ MoveLedger(f) \/ RewriteName(f) \/ ClearIntent(f)
         \/ \E net, n : CreateNetwork(net, n)
  PROVE  PolicyInv'
<1>t. DOMAIN rename = {"at", "boot", "from", "to"} /\ rename.boot \in BOOLEAN
  BY DEF PolicyInv, RenameAt
<1>1. CASE \E n, m : RenameCheck(n, m)
  BY SMTT(30), <1>1, <1>t, PolicyQuiet DEF RenameCheck
<1>2. ASSUME NEW f \in BOOLEAN, SaveIntent(f) PROVE PolicyInv'
  <2>1. rename' = IdleRename \/ rename' = [rename EXCEPT !.at = "move"]
    BY <1>2 DEF SaveIntent, Goto, GiveUp
  <2>2. rename.at = "intent" /\ UNCHANGED <<rules, landed, ruleFile, unsaved, editLock, edit>>
    BY <1>2 DEF SaveIntent
  <2> QED BY <2>1, <2>2, GoneTo, GivenUp, PolicyQuiet
<1>3. ASSUME NEW f \in BOOLEAN, MoveFile(f) PROVE PolicyInv'
  <2>1. rename' = IdleRename \/ rename' = [rename EXCEPT !.at = "clear"] \/ rename' = [rename EXCEPT !.at = "ledger"]
    BY <1>3 DEF MoveFile, Goto, GiveUp
  <2>2. rename.at = "move" /\ UNCHANGED <<rules, landed, ruleFile, unsaved, editLock, edit>>
    BY <1>3 DEF MoveFile
  <2> QED BY <2>1, <2>2, GoneTo, GivenUp, PolicyQuiet
<1>4. ASSUME NEW f \in BOOLEAN, MoveLedger(f) PROVE PolicyInv'
  <2>1. rename' = IdleRename \/ rename' = [rename EXCEPT !.at = "name"]
    BY <1>4 DEF MoveLedger, Goto, GiveUp
  <2>2. rename.at = "ledger" /\ UNCHANGED <<rules, landed, ruleFile, unsaved, editLock, edit>>
    BY <1>4 DEF MoveLedger
  <2> QED BY <2>1, <2>2, GoneTo, GivenUp, PolicyQuiet
<1>5. ASSUME NEW f \in BOOLEAN, RewriteName(f) PROVE PolicyInv'
  <2>1. \/ rename' = IdleRename
        \/ (rename.boot /\ rename' = [rename EXCEPT !.at = "saved"])
        \/ (~rename.boot /\ rename' = [rename EXCEPT !.at = "rules"])
    BY <1>5 DEF RewriteName, Goto, GiveUp
  <2>2. rename.at = "name" /\ UNCHANGED <<rules, landed, ruleFile, unsaved, editLock, edit>>
    BY <1>5 DEF RewriteName
  <2> QED BY <2>1, <2>2, GoneTo, GivenUp, PolicyQuiet
<1>6. ASSUME NEW f \in BOOLEAN, ClearIntent(f) PROVE PolicyInv'
  BY <1>6, <1>t, PolicyQuiet DEF ClearIntent, GiveUp, IdleRename
<1>7. CASE \E net, n : CreateNetwork(net, n)
  BY SMTT(30), <1>7 DEF CreateNetwork, PolicyInv, RenameAt, EditAt, EditsLand, Up
<1> QED BY <1>1, <1>2, <1>3, <1>4, <1>5, <1>6, <1>7

\* The steps by which the rules follow a rename, and the daemon's end and start.
LEMMA RuleSteps ==
  ASSUME PolicyInv,
         \/ FollowRules
         \/ \E f \in BOOLEAN : FollowPersist(f) \/ FinishRules(f)
         \/ Die \/ PlBoot
  PROVE  PolicyInv'
<1>t. DOMAIN rename = {"at", "boot", "from", "to"} /\ rename.boot \in BOOLEAN
  BY DEF PolicyInv, RenameAt
<1>1. CASE FollowRules
  <2>1. rules' = landed' /\ ~rename.boot /\ \A e \in Editors : edit[e].at = "idle"
    BY <1>1, HoldersApart DEF FollowRules, PolicyInv, RenameAt, EditAt, EditsLand
  <2>2. EditAt'
    BY <1>1, <2>1 DEF FollowRules, PolicyInv, EditAt
  <2>3. RenameAt' /\ ~rename'.boot
    <3>1. \/ rename' = [rename EXCEPT !.at = "clear"] /\ editLock' = editLock
          \/ rename' = [rename EXCEPT !.at = "persist"] /\ editLock' = "rename"
      BY <1>1 DEF FollowRules, Goto
    <3> QED BY <1>1, <2>1, <3>1, GoneTo DEF RenameAt
  <2> QED BY <1>1, <2>1, <2>2, <2>3, HoldersApart DEF FollowRules, PolicyInv, EditsLand, Up, Goto
<1>2. ASSUME NEW f \in BOOLEAN, FollowPersist(f) PROVE PolicyInv'
  <2>1. ~rename.boot /\ editLock = "rename" /\ \A e \in Editors : edit[e].at = "idle"
    BY <1>2, HoldersApart DEF FollowPersist, PolicyInv, RenameAt, EditAt
  <2>2. EditAt'
    BY <1>2, <2>1 DEF FollowPersist, PolicyInv, EditAt
  <2>3. RenameAt' /\ ~rename'.boot
    <3>1. rename' = IdleRename \/ rename' = [rename EXCEPT !.at = "clear"]
      BY <1>2 DEF FollowPersist, Goto, GiveUp
    <3> QED BY <2>1, <3>1, GoneTo, GivenUp DEF RenameAt
  <2> QED BY <1>2, <2>2, <2>3 DEF FollowPersist, PolicyInv, EditsLand
<1>3. ASSUME NEW f \in BOOLEAN, FinishRules(f) PROVE PolicyInv'
  <2>1. rename.boot /\ editLock = NoEntry /\ \A e \in Editors : edit[e].at = "idle"
    BY <1>3, HoldersApart DEF FinishRules, PolicyInv, RenameAt, EditAt
  <2>2. EditAt'
    BY <1>3, <2>1 DEF FinishRules, PolicyInv, EditAt
  <2>3. RenameAt'
    <3>1. (rename' = IdleRename \/ rename' = [rename EXCEPT !.at = "clear"]) /\ editLock' = NoEntry
      BY <1>3, <2>1 DEF FinishRules, Goto, GiveUp
    <3> QED BY <3>1, GoneTo, GivenUp DEF RenameAt
  <2> QED BY <1>3, <2>2, <2>3 DEF FinishRules, PolicyInv, EditsLand
<1>4. CASE Die
  <2>1. RenameAt' /\ ~rename'.boot /\ rename'.at = "down"
    BY <1>4, HoldersApart DEF Die, RenameAt, IdleRename
  <2>2. EditAt'
    BY <1>4 DEF Die, EditAt, IdleEdit
  <2> QED BY <1>4, <2>1, <2>2 DEF Die, PolicyInv, EditsLand, Up
<1>5. CASE PlBoot
  <2>1. editLock = NoEntry /\ \A e \in Editors : edit[e].at = "idle"
    BY <1>5, HoldersApart DEF PlBoot, PolicyInv, RenameAt, EditAt, Up
  <2>2. EditAt'
    BY <1>5, <2>1 DEF PlBoot, PolicyInv, EditAt
  <2>3. RenameAt'
    BY <1>5, <2>1 DEF PlBoot, RenameAt, IdleRename
  <2> QED BY <1>5, <2>2, <2>3 DEF PlBoot, PolicyInv, EditsLand
<1> QED BY <1>1, <1>2, <1>3, <1>4, <1>5

LEMMA PolicyStep == PolicyInv /\ [PlNext]_plVars => PolicyInv'
<1> SUFFICES ASSUME PolicyInv, [PlNext]_plVars PROVE PolicyInv'
  OBVIOUS
<1>1. CASE UNCHANGED plVars
  BY <1>1 DEF plVars, PolicyInv, RenameAt, EditAt, EditsLand, Up
<1>2. CASE PlNext
  BY <1>2, EditSteps, FileSteps, RuleSteps DEF PlNext
<1> QED BY <1>1, <1>2

\* No edit of the firewall is lost to another or to a rename, and the saved file
\* agrees with the live rules once the last edit is done (SharedFirewall::try_edit,
\* follow_rename), for every number of editors, networks, names and failures.
THEOREM EditsSafe == PlSpec => []EditsLand
<1>1. PolicyInv => EditsLand
  BY DEF PolicyInv
<1> QED BY <1>1, PolicyInit_Inv, PolicyStep, PTL DEF PlSpec

-----------------------------------------------------------------------------
(* Conntrack. A later fragment passes on what the verdicts of its direction   *)
(* list; the invariant ties every listed key to the first fragment heard.     *)

\* A sequence, whatever its elements.
IsSeq(s) == s \in Seq({s[i] : i \in DOMAIN s})

\* The i-th packet of h is the first fragment of key, let through in direction d.
FirstOf(h, i, d, key) == h[i].shape = "first" /\ h[i].dir = d /\ h[i].key = key

\* The verdicts v of a direction speak for first fragments in h, in the order in
\* which they pass their time.
Speaks(d, v, h, now) ==
  /\ IsFiniteSet(v.allowed)
  /\ IsSeq(v.order)
  /\ \A key \in v.allowed : \E i \in 1..Len(v.order) : v.order[i].key = key
  /\ \A i \in 1..Len(v.order) :
       /\ v.order[i].until \in Int /\ v.order[i].until <= now + VerdictTtl
       /\ \E j \in 1..Len(h) :
            FirstOf(h, j, d, v.order[i].key) /\ v.order[i].until = h[j].at + VerdictTtl
  /\ \A i, j \in 1..Len(v.order) : i <= j => v.order[i].until <= v.order[j].until

CtInv ==
  /\ ctScene \in CtScenes
  /\ ctNow \in Nat
  /\ IsSeq(heard)
  /\ \A i \in 1..Len(heard) : heard[i].at \in Int
  /\ DOMAIN verdicts = Dirs
  /\ \A d \in Dirs : Speaks(d, verdicts[d], heard, ctNow)
  /\ LaterFollowsFirst

\* A set of indices closed downwards is the interval its cardinality names.
LEMMA Prefix ==
  ASSUME NEW L \in Nat, NEW G \in SUBSET (1..L), \A i \in G : 1..i \subseteq G
  PROVE  Cardinality(G) \in Nat /\ G = 1..Cardinality(G)
<1> DEFINE n == Cardinality(G)
<1>1. IsFiniteSet(1..L)
  BY SMTT(30), FS_Interval
<1>2. IsFiniteSet(G) /\ n \in Nat
  BY <1>1, FS_Subset, FS_CardinalityType
<1>3. n + 1 \notin G
  <2> SUFFICES ASSUME n + 1 \in G PROVE FALSE
    OBVIOUS
  <2>1. 1..(n + 1) \in SUBSET G
    OBVIOUS
  <2>2. Cardinality(1..(n + 1)) = n + 1
    BY SMTT(30), <1>2, FS_Interval
  <2> QED BY SMTT(30), <1>2, <2>1, <2>2, FS_Subset
<1>4. G \in SUBSET (1..n)
  BY SMTT(30), <1>2, <1>3
<1>5. IsFiniteSet(1..n) /\ Cardinality(1..n) = n
  BY SMTT(30), <1>2, FS_Interval
<1> QED BY <1>2, <1>4, <1>5, FS_Subset

\* A sequence is one over its own elements.
LEMMA OwnSeq ==
  ASSUME NEW S, NEW s \in Seq(S) PROVE IsSeq(s)
BY SMTT(30) DEF IsSeq

LEMMA SeqLen ==
  ASSUME NEW s, IsSeq(s) PROVE Len(s) \in Nat /\ DOMAIN s = 1..Len(s)
BY SMTT(30) DEF IsSeq

\* What is left of a sequence without its first n elements.
LEMMA Rest ==
  ASSUME NEW s, IsSeq(s), NEW n \in Nat,
         NEW t, t = SubSeq(s, n + 1, Len(s))
  PROVE  /\ IsSeq(t)
         /\ \A i \in 1..Len(t) : i + n \in 1..Len(s) /\ t[i] = s[i + n]
         /\ \A j \in 1..Len(s) : j > n => j - n \in 1..Len(t)
<1> DEFINE S == {s[i] : i \in DOMAIN s}
<1>1. Len(s) \in Nat /\ DOMAIN s = 1..Len(s)
  BY SeqLen
<1>2. \A i \in (n + 1)..Len(s) : s[i] \in S
  BY SMTT(30), <1>1
<1>3. /\ t \in Seq(S)
      /\ Len(t) = IF n + 1 <= Len(s) THEN Len(s) - n ELSE 0
      /\ \A i \in 1..(Len(s) - n) : t[i] = s[n + i]
  <2> HIDE DEF S
  <2>1. /\ SubSeq(s, n + 1, Len(s)) \in Seq(S)
        /\ Len(SubSeq(s, n + 1, Len(s))) = IF n + 1 <= Len(s) THEN Len(s) - (n + 1) + 1 ELSE 0
        /\ \A i \in 1..(Len(s) - (n + 1) + 1) : SubSeq(s, n + 1, Len(s))[i] = s[(n + 1) + i - 1]
    BY SMTT(30), <1>1, <1>2, SubSeqProperties
  <2> QED BY SMTT(30), <1>1, <2>1
<1>4. IsSeq(t)
  <2> HIDE DEF S
  <2> QED BY <1>3, OwnSeq
<1> QED BY SMTT(30), <1>1, <1>3, <1>4

\* A sequence and one element more.
LEMMA Longer ==
  ASSUME NEW s, IsSeq(s), NEW x, NEW t, t = Append(s, x)
  PROVE  /\ IsSeq(t)
         /\ Len(s) \in Nat /\ Len(t) = Len(s) + 1
         /\ \A i \in 1..Len(s) : t[i] = s[i]
         /\ t[Len(s) + 1] = x
<1> DEFINE S == {s[i] : i \in DOMAIN s} \cup {x}
<1>1. s \in Seq(S) /\ x \in S /\ Len(s) \in Nat
  BY SMTT(30), SeqLen DEF IsSeq
<1>2. /\ t \in Seq(S) /\ Len(t) = Len(s) + 1
      /\ \A i \in 1..Len(s) : t[i] = s[i]
      /\ t[Len(s) + 1] = x
  <2> HIDE DEF S
  <2> QED BY SMTT(30), <1>1, AppendProperties
<1>3. IsSeq(t)
  BY <1>2, OwnSeq
<1> QED BY <1>1, <1>2, <1>3

\* Expired drops the front of the queue, keeps what the verdicts speak for, and
\* leaves no key whose first fragment is VerdictTtl old.
LEMMA ExpiredSpeaks ==
  ASSUME ctNow \in Nat, \A i \in 1..Len(heard) : heard[i].at \in Int,
         NEW d, NEW v, Speaks(d, v, heard, ctNow)
  PROVE  /\ Speaks(d, Expired(v), heard, ctNow)
         /\ \A key \in Expired(v).allowed :
              \E j \in 1..Len(heard) : FirstOf(heard, j, d, key) /\ ctNow - heard[j].at < VerdictTtl
<1> DEFINE q == v.order
           gone == {i \in DOMAIN q : \A j \in 1..i : q[j].until <= ctNow}
           n == Cardinality(gone)
           t == SubSeq(q, n + 1, Len(q))
           left == v.allowed \ {q[i].key : i \in gone}
<1>e. Expired(v).allowed = left /\ Expired(v).order = t
  <2>1. Expired(v) = [allowed |-> left, order |-> t]
    BY Zenon DEF Expired
  <2> HIDE DEF left, t
  <2> QED BY SMTT(30), <2>1
<1>a. \A key \in v.allowed : \E i \in 1..Len(q) : q[i].key = key
  BY DEF Speaks
<1>b. \A i \in 1..Len(q) :
        /\ q[i].until \in Int /\ q[i].until <= ctNow + VerdictTtl
        /\ \E j \in 1..Len(heard) :
             FirstOf(heard, j, d, q[i].key) /\ q[i].until = heard[j].at + VerdictTtl
  BY DEF Speaks
<1>c. \A i, j \in 1..Len(q) : i <= j => q[i].until <= q[j].until
  BY DEF Speaks
<1>d. IsSeq(q)
  BY DEF Speaks
<1>5. IsFiniteSet(left)
  BY FS_Subset DEF Speaks
<1> HIDE DEF q
<1>o. Len(q) \in Nat /\ DOMAIN q = 1..Len(q)
  BY <1>d, SeqLen
<1>1. n \in Nat /\ gone = 1..n
  <2>1. gone \in SUBSET (1..Len(q))
    BY <1>o
  <2>2. \A i \in gone : 1..i \subseteq gone
    BY SMTT(30), <1>o
  <2> HIDE DEF gone
  <2> QED BY <1>o, <2>1, <2>2, Prefix
<1>g. \A i \in 1..Len(q) : i \in gone <=> \A j \in 1..i : q[j].until <= ctNow
  BY <1>o
<1> HIDE DEF n
<1>3. /\ IsSeq(t)
      /\ \A i \in 1..Len(t) : i + n \in 1..Len(q) /\ t[i] = q[i + n]
      /\ \A j \in 1..Len(q) : j > n => j - n \in 1..Len(t)
  BY <1>1, <1>d, Rest
<1> HIDE DEF t
<1>4. \A key \in left : \E i \in 1..Len(q) : i > n /\ q[i].key = key
  <2> SUFFICES ASSUME NEW key \in left PROVE \E i \in 1..Len(q) : i > n /\ q[i].key = key
    OBVIOUS
  <2> PICK i \in 1..Len(q) : q[i].key = key
    BY <1>a
  <2>1. i \notin gone
    OBVIOUS
  <2> QED BY SMTT(30), <1>1, <1>o, <2>1
<1> HIDE DEF gone, left
<1>2. \A i \in 1..Len(q) : i > n => q[i].until > ctNow
  <2> SUFFICES ASSUME NEW i \in 1..Len(q), i > n PROVE q[i].until > ctNow
    OBVIOUS
  <2>1. n + 1 \in 1..Len(q) /\ n + 1 \notin gone /\ n + 1 <= i
    BY SMTT(30), <1>1, <1>o
  <2>2. \A j \in 1..n : q[j].until <= ctNow
    <3> SUFFICES ASSUME NEW j \in 1..n PROVE q[j].until <= ctNow
      OBVIOUS
    <3>1. j \in gone /\ j \in 1..Len(q) /\ j \in 1..j
      BY SMTT(30), <1>1, <1>o, <2>1
    <3> QED BY <1>g, <3>1
  <2>3. ~(q[n + 1].until <= ctNow)
    BY SMTT(30), <1>1, <1>g, <2>1, <2>2
  <2>4. q[n + 1].until \in Int /\ q[i].until \in Int /\ q[n + 1].until <= q[i].until
    BY <1>b, <1>c, <2>1
  <2> QED BY SMTT(30), <2>3, <2>4
<1>6. \A key \in left : \E i \in 1..Len(t) : t[i].key = key
  <2> SUFFICES ASSUME NEW key \in left PROVE \E i \in 1..Len(t) : t[i].key = key
    OBVIOUS
  <2> PICK j \in 1..Len(q) : j > n /\ q[j].key = key
    BY <1>4
  <2>1. j - n \in 1..Len(t) /\ (j - n) + n = j
    BY SMTT(30), <1>1, <1>3, <1>o
  <2>2. t[j - n] = q[j]
    BY <1>3, <2>1
  <2> QED BY <2>1, <2>2
<1>7. \A i \in 1..Len(t) :
        /\ t[i].until \in Int /\ t[i].until <= ctNow + VerdictTtl
        /\ \E j \in 1..Len(heard) :
             FirstOf(heard, j, d, t[i].key) /\ t[i].until = heard[j].at + VerdictTtl
  <2> SUFFICES ASSUME NEW i \in 1..Len(t)
               PROVE  /\ t[i].until \in Int /\ t[i].until <= ctNow + VerdictTtl
                      /\ \E j \in 1..Len(heard) :
                           FirstOf(heard, j, d, t[i].key) /\ t[i].until = heard[j].at + VerdictTtl
    OBVIOUS
  <2>1. i + n \in 1..Len(q) /\ t[i] = q[i + n]
    BY <1>3
  <2> QED BY <1>b, <2>1
<1>8. \A i, j \in 1..Len(t) : i <= j => t[i].until <= t[j].until
  <2> SUFFICES ASSUME NEW i \in 1..Len(t), NEW j \in 1..Len(t), i <= j PROVE t[i].until <= t[j].until
    OBVIOUS
  <2>1. i + n \in 1..Len(q) /\ t[i] = q[i + n] /\ j + n \in 1..Len(q) /\ t[j] = q[j + n]
    BY <1>3
  <2>2. i + n <= j + n
    BY SMTT(30), <1>1, <1>3
  <2> QED BY <1>c, <2>1, <2>2
<1>9. Speaks(d, Expired(v), heard, ctNow)
  BY <1>e, <1>3, <1>5, <1>6, <1>7, <1>8 DEF Speaks
<1>10. ASSUME NEW key \in left
       PROVE  \E j \in 1..Len(heard) : FirstOf(heard, j, d, key) /\ ctNow - heard[j].at < VerdictTtl
  <2> PICK i \in 1..Len(q) : i > n /\ q[i].key = key
    BY <1>4
  <2> PICK j \in 1..Len(heard) : FirstOf(heard, j, d, key) /\ q[i].until = heard[j].at + VerdictTtl
    BY <1>b
  <2>1. q[i].until > ctNow /\ q[i].until \in Int /\ heard[j].at \in Int
    BY <1>2, <1>b
  <2> QED BY SMTT(30), <2>1, CtAssumption
<1> QED BY <1>e, <1>9, <1>10

\* What verdicts speak for is not undone by time or by packets heard.
LEMMA StillSpeaks ==
  ASSUME NEW d, NEW v, NEW h, NEW g, NEW now \in Int, NEW later \in Int, Speaks(d, v, h, now), now <= later,
         Len(h) \in Nat, Len(g) \in Nat, Len(h) <= Len(g), \A i \in 1..Len(h) : g[i] = h[i]
  PROVE  Speaks(d, v, g, later)
<1>1. ASSUME NEW i \in 1..Len(v.order)
      PROVE  /\ v.order[i].until \in Int /\ v.order[i].until <= later + VerdictTtl
             /\ \E j \in 1..Len(g) :
                  FirstOf(g, j, d, v.order[i].key) /\ v.order[i].until = g[j].at + VerdictTtl
  <2> PICK j \in 1..Len(h) : FirstOf(h, j, d, v.order[i].key) /\ v.order[i].until = h[j].at + VerdictTtl
    BY DEF Speaks
  <2>1. j \in 1..Len(g) /\ FirstOf(g, j, d, v.order[i].key) /\ v.order[i].until = g[j].at + VerdictTtl
    BY SMTT(30) DEF FirstOf
  <2>2. v.order[i].until \in Int /\ v.order[i].until <= now + VerdictTtl
    BY DEF Speaks
  <2> QED BY SMTT(30), <2>1, <2>2, CtAssumption
<1> QED BY <1>1 DEF Speaks

\* Allow lists the first fragment just heard, as the last of the queue to pass.
LEMMA AllowSpeaks ==
  ASSUME ctNow \in Nat, \A i \in 1..Len(heard) : heard[i].at \in Int,
         NEW d, NEW v, Speaks(d, v, heard, ctNow), NEW key,
         NEW g, Len(heard) \in Nat, Len(g) = Len(heard) + 1, \A i \in 1..Len(heard) : g[i] = heard[i],
         FirstOf(g, Len(g), d, key), g[Len(g)].at = ctNow
  PROVE  Speaks(d, Allow(v, key), g, ctNow)
<1> DEFINE e == Expired(v)
           q == e.order
           over == Cardinality(e.allowed) - VerdictCapacity + 1
           n == IF over > 0 THEN over ELSE 0
           r == SubSeq(q, n + 1, Len(q))
           x == [key |-> key, until |-> ctNow + VerdictTtl]
           t == Append(r, x)
           listed == (e.allowed \ {q[i].key : i \in 1..n}) \cup {key}
<1>1. Speaks(d, e, g, ctNow)
  <2>1. Speaks(d, e, heard, ctNow)
    BY ExpiredSpeaks
  <2> HIDE DEF e
  <2> QED BY SMTT(30), <2>1, StillSpeaks
<1>2. CASE key \in e.allowed
  BY <1>1, <1>2 DEF Allow
<1>3. CASE key \notin e.allowed
  <2>e. Allow(v, key).allowed = listed /\ Allow(v, key).order = t
    <3>1. Allow(v, key) = [allowed |-> listed, order |-> t]
      BY <1>3, Zenon DEF Allow
    <3> HIDE DEF listed, t
    <3> QED BY SMTT(30), <3>1
  <2>a. \A k \in e.allowed : \E i \in 1..Len(q) : q[i].key = k
    BY <1>1 DEF Speaks
  <2>b. \A i \in 1..Len(q) :
          /\ q[i].until \in Int /\ q[i].until <= ctNow + VerdictTtl
          /\ \E j \in 1..Len(g) :
               FirstOf(g, j, d, q[i].key) /\ q[i].until = g[j].at + VerdictTtl
    BY <1>1 DEF Speaks
  <2>c. \A i, j \in 1..Len(q) : i <= j => q[i].until <= q[j].until
    BY <1>1 DEF Speaks
  <2>d. IsSeq(q)
    BY <1>1 DEF Speaks
  <2>f. IsFiniteSet(e.allowed)
    BY <1>1 DEF Speaks
  <2>g. IsFiniteSet(listed)
    <3>1. IsFiniteSet(e.allowed \ {q[i].key : i \in 1..n})
      BY <2>f, FS_Subset
    <3> HIDE DEF e, q, n
    <3> QED BY <3>1, FS_AddElement
  <2>n. n \in Nat
    BY SMTT(30), <2>f, FS_CardinalityType, CtAssumption
  <2> HIDE DEF q, n
  <2>o. Len(q) \in Nat
    BY <2>d, SeqLen
  <2>1. /\ IsSeq(r)
        /\ \A i \in 1..Len(r) : i + n \in 1..Len(q) /\ r[i] = q[i + n]
        /\ \A j \in 1..Len(q) : j > n => j - n \in 1..Len(r)
    BY <2>d, <2>n, Rest
  <2> HIDE DEF r, x
  <2>2. /\ IsSeq(t)
        /\ Len(r) \in Nat /\ Len(t) = Len(r) + 1
        /\ \A i \in 1..Len(r) : t[i] = r[i]
        /\ t[Len(r) + 1] = x
    <3>1. IsSeq(r) /\ t = Append(r, x)
      BY <2>1
    <3> HIDE DEF t
    <3>2. IsSeq(t)
      BY <3>1, Longer
    <3>3. Len(r) \in Nat /\ Len(t) = Len(r) + 1
      BY <3>1, Longer
    <3>4. \A i \in 1..Len(r) : t[i] = r[i]
      BY SMTT(30), <3>1, Longer
    <3>5. t[Len(r) + 1] = x
      BY SMTT(30), <3>1, Longer
    <3> QED BY <3>2, <3>3, <3>4, <3>5
  <2> HIDE DEF t
  <2>x. x.key = key /\ x.until = ctNow + VerdictTtl /\ x.until \in Int
    BY SMTT(30), CtAssumption DEF x
  <2>3. \A k \in listed : \E i \in 1..Len(t) : t[i].key = k
    <3> SUFFICES ASSUME NEW k \in listed PROVE \E i \in 1..Len(t) : t[i].key = k
      OBVIOUS
    <3>1. CASE k = key
      BY SMTT(30), <3>1, <2>2, <2>x
    <3>2. CASE k # key
      <4>1. k \in e.allowed /\ \A i \in 1..n : q[i].key # k
        BY <3>2
      <4> PICK j \in 1..Len(q) : q[j].key = k
        BY <2>a, <4>1
      <4>2. j > n /\ j - n \in 1..Len(r) /\ (j - n) + n = j
        BY SMTT(30), <2>1, <2>n, <2>o, <4>1
      <4>3. r[j - n] = q[j] /\ t[j - n] = r[j - n] /\ j - n \in 1..Len(t)
        BY SMTT(30), <2>1, <2>2, <4>2
      <4> QED BY <4>3
    <3> QED BY <3>1, <3>2
  <2>4. \A i \in 1..Len(t) :
          \/ i = Len(r) + 1 /\ t[i] = x
          \/ i \in 1..Len(r) /\ i + n \in 1..Len(q) /\ t[i] = q[i + n]
    <3> TAKE i \in 1..Len(t)
    <3>1. i = Len(r) + 1 \/ i \in 1..Len(r)
      BY SMTT(30), <2>2
    <3> QED BY <2>1, <2>2, <3>1
  <2>5. ASSUME NEW i \in 1..Len(t)
        PROVE  /\ t[i].until \in Int /\ t[i].until <= ctNow + VerdictTtl
               /\ \E j \in 1..Len(g) :
                    FirstOf(g, j, d, t[i].key) /\ t[i].until = g[j].at + VerdictTtl
    <3>1. CASE t[i] = x
      BY SMTT(30), <3>1, <2>x
    <3>2. CASE i + n \in 1..Len(q) /\ t[i] = q[i + n]
      BY <3>2, <2>b
    <3> QED BY <2>4, <3>1, <3>2
  <2>6. ASSUME NEW i \in 1..Len(t), NEW j \in 1..Len(t), i <= j PROVE t[i].until <= t[j].until
    <3>1. CASE t[j] = x
      BY <3>1, <2>x, <2>5
    <3>2. CASE j \in 1..Len(r) /\ j + n \in 1..Len(q) /\ t[j] = q[j + n]
      <4>1. i \in 1..Len(r) /\ i + n \in 1..Len(q) /\ t[i] = q[i + n]
        BY SMTT(30), <2>1, <2>2, <2>6, <3>2
      <4>2. i + n <= j + n
        BY SMTT(30), <2>6, <2>n, <2>2
      <4> QED BY <2>c, <3>2, <4>1, <4>2
    <3> QED BY <2>4, <3>1, <3>2
  <2> HIDE DEF listed
  <2> QED BY <2>e, <2>g, <2>2, <2>3, <2>5, <2>6 DEF Speaks
<1> QED BY <1>2, <1>3

\* A packet that is heard, unless by says it is not, is the last one heard.
LEMMA Noted ==
  ASSUME CtInv, NEW dir, NEW k, NEW shape, NEW key, NEW by, Note(dir, k, shape, key, by)
  PROVE  /\ IsSeq(heard') /\ Len(heard) \in Nat
         /\ \A i \in 1..Len(heard) : heard'[i] = heard[i]
         /\ by = "no" => heard' = heard
         /\ by # "no" => /\ Len(heard') = Len(heard) + 1
                         /\ heard'[Len(heard')].dir = dir /\ heard'[Len(heard')].shape = shape
                         /\ heard'[Len(heard')].key = key /\ heard'[Len(heard')].at = ctNow
<1>1. IsSeq(heard) /\ Len(heard) \in Nat
  BY SeqLen DEF CtInv
<1>2. CASE by = "no"
  BY <1>1, <1>2 DEF Note
<1>3. CASE by # "no"
  <2> DEFINE x == [dir |-> dir, k |-> k, at |-> ctNow, shape |-> shape, key |-> key, by |-> by]
  <2>1. heard' = Append(heard, x)
    BY <1>3 DEF Note
  <2>2. x.dir = dir /\ x.shape = shape /\ x.key = key /\ x.at = ctNow
    OBVIOUS
  <2> HIDE DEF x
  <2>3. IsSeq(heard')
    BY <1>1, <2>1, Longer
  <2>4. Len(heard') = Len(heard) + 1
    BY <1>1, <2>1, Longer
  <2>5. \A i \in 1..Len(heard) : heard'[i] = heard[i]
    BY SMTT(30), <1>1, <2>1, Longer
  <2>6. heard'[Len(heard) + 1] = x
    BY <1>1, <2>1, Longer
  <2> QED BY <1>1, <1>3, <2>2, <2>3, <2>4, <2>5, <2>6
<1> QED BY <1>2, <1>3

\* Indices of a sequence of length n and of one that is longer by one.
LEMMA Indices ==
  ASSUME NEW n \in Nat
  PROVE  /\ \A i \in 1..(n + 1) : i \in 1..n \/ i = n + 1
         /\ \A i \in 1..n : \A j \in 1..(i - 1) : j \in 1..n
         /\ \A i \in 1..n : i \in 1..((n + 1) - 1)
BY SMTT(30)

\* A packet heard now keeps the invariant if the verdicts speak for what is heard
\* with it and, when it is a later fragment, its first one was heard in time.
LEMMA HeardKeeps ==
  ASSUME CtInv, ctScene' = ctScene, ctNow' = ctNow,
         IsSeq(heard'), \A i \in 1..Len(heard) : heard'[i] = heard[i],
         \/ heard' = heard
         \/ /\ Len(heard') = Len(heard) + 1 /\ heard'[Len(heard')].at = ctNow
            /\ heard'[Len(heard')].shape = "later" =>
                 \E j \in 1..Len(heard) :
                   /\ FirstOf(heard, j, heard'[Len(heard')].dir, heard'[Len(heard')].key)
                   /\ ctNow - heard[j].at < VerdictTtl,
         DOMAIN verdicts' = Dirs,
         \A d \in Dirs : Speaks(d, verdicts'[d], heard', ctNow)
  PROVE  CtInv'
<1>1. Len(heard) \in Nat /\ DOMAIN heard = 1..Len(heard) /\ Len(heard') \in Nat /\ DOMAIN heard' = 1..Len(heard')
  BY SeqLen DEF CtInv
<1>2. CASE heard' = heard
  <2>1. LaterFollowsFirst'
    BY <1>2 DEF CtInv, LaterFollowsFirst
  <2> QED BY <1>2, <2>1 DEF CtInv
<1>3. CASE heard' # heard
  <2> DEFINE m == Len(heard) + 1
  <2>1. Len(heard') = m /\ heard'[m].at = ctNow
    BY <1>3
  <2>2. \A i \in 1..m : i \in 1..Len(heard) \/ i = m
    BY <1>1, Indices
  <2>3. \A i \in 1..m : heard'[i].at \in Int
    BY SMTT(30), <2>1, <2>2 DEF CtInv
  <2>4. ASSUME NEW n \in 1..m, heard'[n].shape = "later"
        PROVE  \E i \in 1..(n - 1) :
                 /\ heard'[i].shape = "first" /\ heard'[i].dir = heard'[n].dir /\ heard'[i].key = heard'[n].key
                 /\ heard'[n].at - heard'[i].at < VerdictTtl
    <3>1. CASE n \in 1..Len(heard)
      <4>1. heard'[n] = heard[n] /\ n \in DOMAIN heard
        BY <1>1, <3>1
      <4> PICK i \in 1..(n - 1) :
            /\ heard[i].shape = "first" /\ heard[i].dir = heard[n].dir /\ heard[i].key = heard[n].key
            /\ heard[n].at - heard[i].at < VerdictTtl
        BY <2>4, <4>1 DEF CtInv, LaterFollowsFirst
      <4>2. i \in 1..Len(heard)
        BY <1>1, <3>1, Indices
      <4>3. heard'[i] = heard[i]
        BY <4>2
      <4> QED BY <4>1, <4>3
    <3>2. CASE n = m
      <4> PICK j \in 1..Len(heard) : FirstOf(heard, j, heard'[n].dir, heard'[n].key)
                                      /\ ctNow - heard[j].at < VerdictTtl
        BY <1>3, <2>1, <2>4, <3>2
      <4>1. j \in 1..(n - 1)
        BY <1>1, <3>2, Indices
      <4>2. heard'[j] = heard[j] /\ heard'[n].at = ctNow
        BY <2>1, <3>2
      <4> QED BY <4>1, <4>2 DEF FirstOf
    <3> QED BY <2>2, <3>1, <3>2
  <2>5. LaterFollowsFirst'
    BY <1>1, <2>1, <2>4 DEF LaterFollowsFirst
  <2> QED BY <2>1, <2>3, <2>5 DEF CtInv
<1> QED BY <1>2, <1>3

\* A packet with ports, whichever way it goes: what it does to the flow is not
\* asked, only that a first fragment is listed if and only if it is heard.
LEMMA PortsKeep ==
  ASSUME CtInv, ctScene' = ctScene, ctNow' = ctNow, NEW dir \in Dirs,
         NEW k, NEW shape, shape \in {"whole", "first", "unsent"}, NEW key, NEW by,
         Note(dir, k, shape, key, by),
         verdicts' = IF shape = "first" /\ by # "no"
                     THEN [verdicts EXCEPT ![dir] = Allow(@, key)] ELSE verdicts
  PROVE  CtInv'
<1>1. /\ IsSeq(heard') /\ Len(heard) \in Nat
      /\ \A i \in 1..Len(heard) : heard'[i] = heard[i]
      /\ by = "no" => heard' = heard
      /\ by # "no" => /\ Len(heard') = Len(heard) + 1
                      /\ heard'[Len(heard')].dir = dir /\ heard'[Len(heard')].shape = shape
                      /\ heard'[Len(heard')].key = key /\ heard'[Len(heard')].at = ctNow
  BY Noted
<1>2. ctNow \in Nat /\ DOMAIN verdicts = Dirs /\ \A i \in 1..Len(heard) : heard[i].at \in Int
  BY DEF CtInv
<1>3. DOMAIN verdicts' = Dirs
  BY <1>2
<1>4. ASSUME NEW d \in Dirs PROVE Speaks(d, verdicts'[d], heard', ctNow)
  <2>1. Speaks(d, verdicts[d], heard, ctNow)
    BY DEF CtInv
  <2>2. Len(heard') \in Nat /\ Len(heard) <= Len(heard')
    BY SMTT(30), <1>1
  <2>3. Speaks(d, verdicts[d], heard', ctNow)
    BY SMTT(30), <1>1, <1>2, <2>1, <2>2, StillSpeaks
  <2>4. CASE d = dir /\ shape = "first" /\ by # "no"
    <3>1. verdicts'[d] = Allow(verdicts[d], key)
      BY <1>2, <2>4
    <3>2. FirstOf(heard', Len(heard'), d, key) /\ heard'[Len(heard')].at = ctNow
      BY <1>1, <2>4 DEF FirstOf
    <3>3. Speaks(d, Allow(verdicts[d], key), heard', ctNow)
      BY <1>1, <1>2, <2>1, <2>4, <3>2, AllowSpeaks
    <3> QED BY <3>1, <3>3
  <2>5. CASE ~(d = dir /\ shape = "first" /\ by # "no")
    <3>1. verdicts'[d] = verdicts[d]
      BY <1>2, <2>5
    <3> QED BY <2>3, <3>1
  <2> QED BY <2>4, <2>5
<1> QED BY <1>1, <1>3, <1>4, HeardKeeps

\* A later fragment is heard only if its first one is listed.
LEMMA LaterKeeps ==
  ASSUME CtInv, NEW dir \in Dirs, NEW key, LaterFragment(dir, key)
  PROVE  CtInv'
<1> DEFINE by == IF Admits(verdicts[dir], key) THEN "first" ELSE "no"
<1>0. Note(dir, "later", "later", key, by) /\ verdicts' = [verdicts EXCEPT ![dir] = Expired(@)]
      /\ ctScene' = ctScene /\ ctNow' = ctNow
  BY DEF LaterFragment
<1>a. by # "no" => key \in Expired(verdicts[dir]).allowed
  BY DEF Admits
<1> HIDE DEF by
<1>1. /\ IsSeq(heard') /\ Len(heard) \in Nat
      /\ \A i \in 1..Len(heard) : heard'[i] = heard[i]
      /\ by = "no" => heard' = heard
      /\ by # "no" => /\ Len(heard') = Len(heard) + 1
                      /\ heard'[Len(heard')].dir = dir /\ heard'[Len(heard')].shape = "later"
                      /\ heard'[Len(heard')].key = key /\ heard'[Len(heard')].at = ctNow
  BY SMTT(30), <1>0, Noted
<1>2. ctNow \in Nat /\ DOMAIN verdicts = Dirs /\ \A i \in 1..Len(heard) : heard[i].at \in Int
  BY DEF CtInv
<1>3. DOMAIN verdicts' = Dirs
  BY <1>0, <1>2
<1>4. ASSUME NEW d \in Dirs PROVE Speaks(d, verdicts'[d], heard', ctNow)
  <2>1. Speaks(d, verdicts[d], heard, ctNow)
    BY DEF CtInv
  <2>2. Speaks(d, Expired(verdicts[d]), heard, ctNow)
    BY <1>2, <2>1, ExpiredSpeaks
  <2>3. verdicts'[d] = verdicts[d] \/ verdicts'[d] = Expired(verdicts[d])
    BY <1>0, <1>2
  <2>4. Len(heard') \in Nat /\ Len(heard) <= Len(heard')
    BY SMTT(30), <1>1
  <2>5. Speaks(d, verdicts[d], heard', ctNow) /\ Speaks(d, Expired(verdicts[d]), heard', ctNow)
    BY SMTT(30), <1>1, <1>2, <2>1, <2>2, <2>4, StillSpeaks
  <2> QED BY <2>3, <2>5
<1>5. by # "no" => \E j \in 1..Len(heard) : FirstOf(heard, j, dir, key) /\ ctNow - heard[j].at < VerdictTtl
  <2>1. Speaks(dir, verdicts[dir], heard, ctNow)
    BY DEF CtInv
  <2> QED BY <1>a, <1>2, <2>1, ExpiredSpeaks
<1> QED BY <1>0, <1>1, <1>3, <1>4, <1>5, HeardKeeps

LEMMA CtInit_Inv == CtInit => CtInv
<1> SUFFICES ASSUME CtInit PROVE CtInv
  OBVIOUS
<1>1. IsSeq(<<>>) /\ Len(<<>>) = 0
  BY SMTT(30) DEF IsSeq
<1>2. ASSUME NEW d \in Dirs PROVE Speaks(d, verdicts[d], heard, ctNow)
  <2>1. verdicts[d] = NoVerdicts
    BY DEF CtInit
  <2>2. NoVerdicts.allowed = {} /\ NoVerdicts.order = <<>>
    BY DEF NoVerdicts
  <2> QED BY SMTT(30), <1>1, <2>1, <2>2, FS_EmptySet DEF Speaks
<1> QED BY SMTT(30), <1>1, <1>2 DEF CtInit, CtInv, LaterFollowsFirst

LEMMA CtStep == CtInv /\ [CtNext]_ctVars => CtInv'
<1> SUFFICES ASSUME CtInv, [CtNext]_ctVars PROVE CtInv'
  OBVIOUS
<1>s. ctScene \in CtScenes /\ ctNow \in Nat /\ IsSeq(heard) /\ DOMAIN verdicts = Dirs
  BY DEF CtInv
<1>l. Len(heard) \in Nat
  BY <1>s, SeqLen
<1>1. ASSUME NEW k, NEW shape \in ctScene.shapes, NEW key, NEW fits, Outgoing(k, shape, key, fits)
      PROVE  CtInv'
  <2> DEFINE by == EvaluatePacket("out", k).by
             leaves == by # "no" /\ fits
             as == IF leaves THEN shape ELSE "unsent"
  <2>1. /\ Note("out", k, as, key, by) /\ ctScene' = ctScene /\ ctNow' = ctNow
        /\ verdicts' = IF shape = "first" /\ leaves THEN [verdicts EXCEPT !["out"] = Allow(@, key)] ELSE verdicts
    BY <1>1 DEF Outgoing
  <2>2. as \in {"whole", "first", "unsent"}
    BY <1>s, CtAssumption
  <2>3. verdicts' = IF as = "first" /\ by # "no" THEN [verdicts EXCEPT !["out"] = Allow(@, key)] ELSE verdicts
    BY <2>1
  <2> HIDE DEF by, as
  <2> QED BY <2>1, <2>2, <2>3, PortsKeep DEF Dirs
<1>2. ASSUME NEW k, NEW shape \in ctScene.shapes, NEW key, Incoming(k, shape, key)
      PROVE  CtInv'
  <2>1. CASE shape = "first" /\ ctScene.ssh
    BY <1>2, <2>1, <1>s, HeardKeeps DEF Incoming, CtInv
  <2>2. CASE ~(shape = "first" /\ ctScene.ssh)
    <3> DEFINE by == (IF ctScene.exit THEN AdmitsReply(k) ELSE EvaluatePacket("in", k)).by
    <3>1. /\ Note("in", k, shape, key, by) /\ ctScene' = ctScene /\ ctNow' = ctNow
          /\ verdicts' = IF shape = "first" /\ by # "no"
                         THEN [verdicts EXCEPT !["in"] = Allow(@, key)] ELSE verdicts
      BY <1>2, <2>2 DEF Incoming
    <3>2. shape \in {"whole", "first", "unsent"}
      BY <1>s, CtAssumption
    <3> HIDE DEF by
    <3> QED BY <3>1, <3>2, PortsKeep DEF Dirs
  <2> QED BY <2>1, <2>2
<1>3. CASE \E dir \in Dirs, key \in ctScene.keys : LaterFragment(dir, key)
  BY <1>3, LaterKeeps
<1>4. CASE EvictIdle \/ (\E c \in ctScene.configs : SwapConfig(c)) \/ UNCHANGED ctVars
  BY <1>4, <1>s, HeardKeeps DEF EvictIdle, SwapConfig, ctVars, CtInv
<1>5. CASE CtTick
  <2>1. heard' = heard /\ verdicts' = verdicts /\ ctScene' = ctScene /\ ctNow' = ctNow + 1
    BY <1>5 DEF CtTick
  <2>2. ASSUME NEW d \in Dirs PROVE Speaks(d, verdicts[d], heard, ctNow')
    <3>1. Speaks(d, verdicts[d], heard, ctNow) /\ ctNow <= ctNow' /\ ctNow' \in Nat
      BY SMTT(30), <1>s, <2>1 DEF CtInv
    <3> QED BY SMTT(30), <1>s, <1>l, <3>1, StillSpeaks
  <2>3. LaterFollowsFirst'
    BY <2>1 DEF CtInv, LaterFollowsFirst
  <2> QED BY SMTT(30), <1>s, <2>1, <2>2, <2>3 DEF CtInv
<1> QED BY <1>1, <1>2, <1>3, <1>4, <1>5 DEF CtNext

\* A later fragment never passes without the first fragment of its packet, heard
\* the same way less than VerdictTtl before (FragmentVerdicts::admits), whatever
\* the rules, the flow, the time-outs and the table's capacity are.
THEOREM FragmentsSafe == CtSpec => []LaterFollowsFirst
<1>1. CtInv => LaterFollowsFirst
  BY DEF CtInv
<1> QED BY <1>1, CtInit_Inv, CtStep, PTL DEF CtSpec

-----------------------------------------------------------------------------
(* Conntrack. What arrives as return traffic: the invariant says what the     *)
(* one entry of the flow knows of the packets heard.                          *)

\* g is h and the packet p.
Extends(h, g, p) ==
  /\ Len(h) \in Nat /\ Len(g) = Len(h) + 1
  /\ \A i \in 1..Len(h) : g[i] = h[i]
  /\ g[Len(h) + 1] = p

\* From packet i on h shows a flow this node opened, alive at each packet the
\* filter judged, unless that came when the entry s was already idle.
Alive(h, i, s) ==
  /\ Opener(h[i])
  /\ \A j \in i..Len(h) : Judged(h[j]) => h[j].k # "rst"
  /\ \A j \in (i + 1)..Len(h) : Judged(h[j]) =>
       \/ \E l \in i..(j - 1) : Judged(h[l]) /\ h[j].at - h[l].at < IdleLimit
       \/ h[j].at - s.at >= FlowTimeout(s)

\* An entry stands for such a flow, and was last written by one of its packets.
Fresh(h, s) ==
  s # NoFlow => \E i \in 1..Len(h) :
    /\ Alive(h, i, s)
    /\ \E m \in i..Len(h) : Judged(h[m]) /\ h[m].at = s.at

\* No FIN of this node among the first n packets follows its last SYN among the
\* first j.
FinsOver(h, n, j) ==
  \A i \in 1..n : Ours(h[i]) /\ h[i].k = "fin" =>
    \E m \in (i + 1)..j : Ours(h[m]) /\ h[m].k = "syn"

\* Only a FIN of this node closes its half of the entry.
OwnHalf(h, s) == FinsOver(h, Len(h), Len(h)) => s.st # "closing" /\ s.fin # "out"

\* The j-th packet is the peer's FIN on a flow open at both ends, with nothing
\* since that ends or renews the flow.
PeerFin(h, j) ==
  /\ h[j].by = "return" /\ h[j].k = "fin"
  /\ \A i \in (j + 1)..Len(h) : h[i].k \notin {"syn", "rst"}
  /\ FinsOver(h, Len(h), j - 1)

\* Until the flow may be idle, its entry is half closed then.
PeerHalf(h, s) ==
  \A j \in 1..Len(h) : PeerFin(h, j) /\ ctNow - h[j].at < IdleLimit =>
    s.st = "half" /\ s.fin = "in" /\ s.at >= h[j].at

\* The flow closed by the l-th packet was reset or opened again since.
Over(h, l, n) ==
  \E i \in (l + 1)..n :
    \/ h[i].k = "rst"
    \/ Opener(h[i]) /\ (h[i].k = "syn" \/ h[i].at - h[l].at >= TcpClosingTimeout)

\* After both FINs the entry counts from the second one, or is gone in time.
BothHalves(h, s) ==
  \A l \in 1..Len(h) : SecondFin(h, l) =>
    \/ Over(h, l, Len(h))
    \/ s.st = "closing" /\ s.at = h[l].at
    \/ s = NoFlow /\ ctNow - h[l].at >= TcpClosingTimeout

\* The entries a flow can have; the half that is closed is named.
Entries ==
  {s \in [st : {"none", "active", "half", "closing"}, at : Nat, fin : {"none", "out", "in"}] :
     (s.st = "none" => s = NoFlow) /\ (s.st = "half" => s.fin # "none")}

FlowInv ==
  /\ conntrack \in Entries
  /\ \A i \in 1..Len(heard) : heard[i].at \in Nat /\ heard[i].at <= ctNow
  /\ Fresh(heard, conntrack)
  /\ OwnHalf(heard, conntrack)
  /\ PeerHalf(heard, conntrack)
  /\ BothHalves(heard, conntrack)
  /\ ReturnSolicited

\* What a packet of kind k, let through by `by' or not at all, makes of the
\* entry s.
Moves(dir, k, by, s, t) ==
  \/ by \in {"no", "off", "first"} /\ t = s
  \/ by = "no" /\ k = "rst" /\ t = NoFlow /\ (s # NoFlow => ~FlowActive(s))
  \/ by \in {"rule", "default", "return"} /\ k = "rst" /\ t = NoFlow
     /\ (by = "return" => dir = "in" /\ s # NoFlow /\ FlowActive(s))
  \/ by \in {"rule", "default"} /\ dir = "out" /\ t = s
     /\ (k \in {"reply", "error"} \/ (k = "fin" /\ (s = NoFlow \/ ~FlowActive(s))))
  \/ by \in {"rule", "default"} /\ dir = "out" /\ k = "fin" /\ s # NoFlow /\ FlowActive(s)
     /\ t = RecordPacket(s, "out", k)
  \/ by \in {"rule", "default"} /\ dir = "out" /\ k \in {"syn", "data", "request"}
     /\ t = IF s = NoFlow THEN FlowOpened ELSE RecordPacket(s, "out", k)
  \/ by \in {"rule", "default"} /\ dir = "in" /\ k # "rst" /\ t = s
  \/ by \in {"rule", "return"} /\ dir = "in" /\ k # "rst" /\ s # NoFlow /\ FlowActive(s)
     /\ ~(s.st = "closing" /\ k = "syn") /\ t = RecordPacket(s, "in", k)

\* The kinds of packets of a scene fit its protocol.
LEMMA KindsFit ==
  ASSUME ctScene \in CtScenes, NEW k \in ctScene.kinds
  PROVE  IF ctScene.proto = "icmp" THEN k \in {"request", "reply", "error"}
         ELSE k \in {"syn", "data", "fin", "rst"}
BY CtAssumption

\* track_packet, by the direction.
LEMMA TrackIn ==
  ASSUME ctScene \in CtScenes, NEW k \in ctScene.kinds, NEW t, t = TrackPacket("in", k)
  PROVE  \/ ~t.ok /\ t.flow = conntrack /\ k # "rst"
         \/ k = "rst" /\ t.flow = NoFlow
            /\ (t.ok => conntrack # NoFlow /\ FlowActive(conntrack))
            /\ (~t.ok => (conntrack # NoFlow => ~FlowActive(conntrack)))
         \/ t.ok /\ k # "rst" /\ conntrack # NoFlow /\ FlowActive(conntrack)
            /\ ~(conntrack.st = "closing" /\ k = "syn")
            /\ t.flow = RecordPacket(conntrack, "in", k)
<1>1. CASE Untracked("in", k)
  <2>1. t = [ok |-> FALSE, flow |-> conntrack]
    BY <1>1 DEF TrackPacket
  <2>2. k # "rst"
    BY <1>1, KindsFit DEF Untracked, Eligible
  <2> QED BY SMTT(30), <2>1, <2>2
<1>2. CASE ~Untracked("in", k) /\ conntrack = NoFlow
  <2>1. t = [ok |-> FALSE, flow |-> NoFlow]
    BY <1>2 DEF TrackPacket, Vacant
  <2> QED BY SMTT(30), <1>2, <2>1
<1>3. CASE ~Untracked("in", k) /\ conntrack # NoFlow
  <2>1. t = Occupied("in", k)
    BY <1>3 DEF TrackPacket
  <2>2. CASE k = "rst"
    <3>1. t = [ok |-> "in" = "out" \/ FlowActive(conntrack), flow |-> NoFlow]
      BY <2>1, <2>2 DEF Occupied
    <3> PICK b : b = ("in" = "out" \/ FlowActive(conntrack))
      OBVIOUS
    <3>2. t = [ok |-> b, flow |-> NoFlow]
      BY <3>1
    <3>3. t.flow = NoFlow /\ t.ok = b
      BY <3>2, SMTT(30)
    <3> QED BY <1>3, <2>2, <3>3
  <2>3. CASE k # "rst" /\ (~FlowActive(conntrack) \/ (conntrack.st = "closing" /\ k = "syn"))
    <3>1. t = [ok |-> FALSE, flow |-> conntrack]
      BY <2>1, <2>3 DEF Occupied
    <3> QED BY SMTT(30), <2>3, <3>1
  <2>4. CASE k # "rst" /\ FlowActive(conntrack) /\ ~(conntrack.st = "closing" /\ k = "syn")
    <3>1. t = [ok |-> TRUE, flow |-> RecordPacket(conntrack, "in", k)]
      BY <2>1, <2>4 DEF Occupied
    <3> QED BY SMTT(30), <1>3, <2>4, <3>1
  <2> QED BY <2>2, <2>3, <2>4
<1> QED BY <1>1, <1>2, <1>3

LEMMA TrackOut ==
  ASSUME ctScene \in CtScenes, NEW k \in ctScene.kinds, NEW t, t = TrackPacket("out", k)
  PROVE  \/ k = "rst" /\ t.flow = NoFlow
         \/ t.flow = conntrack
            /\ (k \in {"reply", "error"}
                  \/ (k = "fin" /\ (conntrack = NoFlow \/ ~FlowActive(conntrack))))
         \/ k = "fin" /\ conntrack # NoFlow /\ FlowActive(conntrack)
            /\ t.flow = RecordPacket(conntrack, "out", k)
         \/ k \in {"syn", "data", "request"}
            /\ t.flow = IF conntrack = NoFlow THEN FlowOpened
                        ELSE RecordPacket(conntrack, "out", k)
BY KindsFit, SMTT(30) DEF TrackPacket, Untracked, Eligible, Occupied, Vacant

\* evaluate_packet and admits_reply.
LEMMA OutMoves ==
  ASSUME ctScene \in CtScenes, NEW k \in ctScene.kinds,
         NEW e, e = EvaluatePacket("out", k)
  PROVE  Moves("out", k, e.by, conntrack, e.flow)
<1> PICK t : t = TrackPacket("out", k)
  OBVIOUS
<1>1. \/ e \in {[by |-> "off", flow |-> conntrack], [by |-> "no", flow |-> conntrack]}
      \/ e \in {[by |-> "rule", flow |-> t.flow], [by |-> "default", flow |-> t.flow]}
  BY SMTT(30) DEF EvaluatePacket, DefaultFor
<1>2. \/ e.by \in {"off", "no"} /\ e.flow = conntrack
      \/ e.by \in {"rule", "default"} /\ e.flow = t.flow
  BY <1>1, SMTT(30)
<1> QED BY <1>2, TrackOut DEF Moves

LEMMA InMoves ==
  ASSUME ctScene \in CtScenes, NEW k \in ctScene.kinds,
         NEW e, e = EvaluatePacket("in", k) \/ e = AdmitsReply(k)
  PROVE  Moves("in", k, e.by, conntrack, e.flow)
<1> PICK t : t = TrackPacket("in", k)
  OBVIOUS
<1>1. \/ e \in {[by |-> "off", flow |-> conntrack], [by |-> "no", flow |-> conntrack]}
      \/ e = [by |-> "rule", flow |-> t.flow]
      \/ t.ok /\ e = [by |-> "return", flow |-> t.flow]
      \/ ~t.ok /\ e \in {[by |-> "default", flow |-> t.flow], [by |-> "no", flow |-> t.flow]}
  BY SMTT(30) DEF EvaluatePacket, AdmitsReply, DefaultFor
<1>2. \/ e.by \in {"off", "no"} /\ e.flow = conntrack
      \/ e.by = "rule" /\ e.flow = t.flow
      \/ t.ok /\ e.by = "return" /\ e.flow = t.flow
      \/ ~t.ok /\ e.by \in {"default", "no"} /\ e.flow = t.flow
  BY <1>1, SMTT(30)
<1>3. \/ ~t.ok /\ t.flow = conntrack /\ k # "rst"
      \/ k = "rst" /\ t.flow = NoFlow
         /\ (t.ok => conntrack # NoFlow /\ FlowActive(conntrack))
         /\ (~t.ok => (conntrack # NoFlow => ~FlowActive(conntrack)))
      \/ t.ok /\ k # "rst" /\ conntrack # NoFlow /\ FlowActive(conntrack)
         /\ ~(conntrack.st = "closing" /\ k = "syn")
         /\ t.flow = RecordPacket(conntrack, "in", k)
  BY TrackIn
<1> QED BY <1>2, <1>3, SMTT(30) DEF Moves

\* The timeouts are numbers, and the idle limit is the longest.
LEMMA Timeouts ==
  ASSUME NEW s
  PROVE  /\ IdleLimit \in Nat /\ FlowTimeout(s) \in Nat /\ FlowTimeout(s) <= IdleLimit
         /\ s.st # "closing" => FlowTimeout(s) = IdleLimit
         /\ s.st = "closing" => FlowTimeout(s) = TcpClosingTimeout
BY CtAssumption, SMTT(30) DEF IdleLimit, FlowTimeout

\* The entry stays and the packet is no RST: it was alive, or idle already.
LEMMA FreshStays ==
  ASSUME ctNow \in Nat, NEW h, NEW g, NEW p, Extends(h, g, p), p.at = ctNow,
         NEW s, s.at \in Nat, Fresh(h, s), s # NoFlow, Judged(p) => p.k # "rst"
  PROVE  Fresh(g, s)
<1>t. FlowTimeout(s) \in Nat /\ IdleLimit \in Nat /\ FlowTimeout(s) <= IdleLimit
  BY Timeouts
<1>n. Len(h) \in Nat /\ Len(g) = Len(h) + 1 /\ g[Len(h) + 1] = p
      /\ \A i \in 1..Len(h) : g[i] = h[i]
  BY DEF Extends
<1>1. PICK i \in 1..Len(h) : Alive(h, i, s) /\ \E m \in i..Len(h) : Judged(h[m]) /\ h[m].at = s.at
  BY DEF Fresh
<1>2. PICK m \in i..Len(h) : Judged(h[m]) /\ h[m].at = s.at
  BY <1>1
<1>3. i \in 1..Len(g) /\ m \in i..Len(g) /\ g[i] = h[i] /\ g[m] = h[m]
  BY <1>n, SMTT(30)
<1>4. Opener(g[i])
  BY <1>1, <1>3 DEF Alive
<1>5. ASSUME NEW j \in i..Len(g), Judged(g[j]) PROVE g[j].k # "rst"
  <2>1. j = Len(h) + 1 \/ j \in i..Len(h)
    BY <1>n, SMTT(30)
  <2>2. j \in i..Len(h) => g[j] = h[j]
    BY <1>n, SMTT(30)
  <2> QED BY <1>1, <1>5, <1>n, <2>1, <2>2 DEF Alive
<1>6. ASSUME NEW j \in (i + 1)..Len(g), Judged(g[j])
      PROVE  \/ \E l \in i..(j - 1) : Judged(g[l]) /\ g[j].at - g[l].at < IdleLimit
             \/ g[j].at - s.at >= FlowTimeout(s)
  <2>1. CASE j = Len(h) + 1
    <3>1. g[j].at = ctNow /\ m \in i..(j - 1) /\ Judged(g[m]) /\ g[m].at = s.at
      BY <2>1, <1>2, <1>3, <1>n, SMTT(30)
    <3>2. ctNow - s.at < IdleLimit \/ ctNow - s.at >= FlowTimeout(s)
      BY <1>t, SMTT(30)
    <3> QED BY <3>1, <3>2
  <2>2. CASE j # Len(h) + 1
    <3>1. j \in (i + 1)..Len(h) /\ g[j] = h[j] /\ \A l \in i..(j - 1) : g[l] = h[l]
      BY <2>2, <1>n, SMTT(30)
    <3> QED BY <1>1, <1>6, <3>1 DEF Alive
  <2> QED BY <2>1, <2>2
<1>7. Alive(g, i, s)
  BY <1>4, <1>5, <1>6 DEF Alive
<1> QED BY <1>2, <1>3, <1>7 DEF Fresh

\* The packet writes the entry: it opens the flow, or the flow was alive.
LEMMA FreshOpens ==
  ASSUME ctNow \in Nat, NEW h, NEW g, NEW p, Extends(h, g, p), p.at = ctNow,
         NEW t, t.at = ctNow, Opener(p)
  PROVE  Fresh(g, t)
<1> DEFINE i == Len(h) + 1
<1>1. i \in 1..Len(g) /\ i \in i..Len(g) /\ Len(g) = i /\ g[i] = p
      /\ i..Len(g) = {i} /\ (i + 1)..Len(g) = {}
  BY SMTT(30) DEF Extends
<1>2. Judged(p) /\ p.k # "rst"
  BY DEF Opener, Ours
<1> HIDE DEF i
<1>3. Alive(g, i, t)
  BY <1>1, <1>2 DEF Alive
<1> QED BY <1>1, <1>2, <1>3 DEF Fresh

LEMMA FreshGoesOn ==
  ASSUME ctNow \in Nat, NEW h, NEW g, NEW p, Extends(h, g, p), p.at = ctNow,
         \A i \in 1..Len(h) : h[i].at \in Nat /\ h[i].at <= ctNow,
         NEW s, s.at \in Nat, Fresh(h, s), s # NoFlow, FlowActive(s),
         NEW t, t.at = ctNow, Judged(p), p.k # "rst"
  PROVE  Fresh(g, t)
<1>t. FlowTimeout(s) \in Nat /\ IdleLimit \in Nat /\ FlowTimeout(s) <= IdleLimit
  BY Timeouts
<1>n. Len(h) \in Nat /\ Len(g) = Len(h) + 1 /\ g[Len(h) + 1] = p
      /\ \A i \in 1..Len(h) : g[i] = h[i]
  BY DEF Extends
<1>1. PICK i \in 1..Len(h) : Alive(h, i, s) /\ \E m \in i..Len(h) : Judged(h[m]) /\ h[m].at = s.at
  BY DEF Fresh
<1>2. PICK m \in i..Len(h) : Judged(h[m]) /\ h[m].at = s.at
  BY <1>1
<1>3. i \in 1..Len(g) /\ g[i] = h[i] /\ g[m] = h[m] /\ Len(h) + 1 \in i..Len(g)
  BY <1>n, SMTT(30)
<1>4. Opener(g[i])
  BY <1>1, <1>3 DEF Alive
<1>5. ASSUME NEW j \in i..Len(g), Judged(g[j]) PROVE g[j].k # "rst"
  <2>1. j = Len(h) + 1 \/ j \in i..Len(h)
    BY <1>n, SMTT(30)
  <2>2. j \in i..Len(h) => g[j] = h[j]
    BY <1>n, SMTT(30)
  <2> QED BY <1>1, <1>5, <1>n, <2>1, <2>2 DEF Alive
<1>6. ASSUME NEW j \in (i + 1)..Len(g), Judged(g[j])
      PROVE  \E l \in i..(j - 1) : Judged(g[l]) /\ g[j].at - g[l].at < IdleLimit
  <2>1. CASE j = Len(h) + 1
    <3>1. g[j].at = ctNow /\ m \in i..(j - 1) /\ Judged(g[m]) /\ g[m].at = s.at
      BY <2>1, <1>2, <1>3, <1>n, SMTT(30)
    <3>2. ctNow - s.at < IdleLimit
      BY <1>t, SMTT(30) DEF FlowActive
    <3> QED BY <3>1, <3>2
  <2>2. CASE j # Len(h) + 1
    <3>1. j \in (i + 1)..Len(h) /\ j \in 1..Len(h) /\ g[j] = h[j] /\ \A l \in i..(j - 1) : g[l] = h[l]
      BY <2>2, <1>n, SMTT(30)
    <3>2. ~(h[j].at - s.at >= FlowTimeout(s))
      BY <1>t, <3>1, SMTT(30) DEF FlowActive
    <3> QED BY <1>1, <1>6, <3>1, <3>2 DEF Alive
  <2> QED BY <2>1, <2>2
<1>7. Alive(g, i, t)
  BY <1>4, <1>5, <1>6 DEF Alive
<1>8. Judged(g[Len(h) + 1]) /\ g[Len(h) + 1].at = t.at
  BY <1>n
<1> QED BY <1>3, <1>7, <1>8 DEF Fresh

\* FlowState::record, field by field.
LEMMA Recorded ==
  ASSUME ctNow \in Nat, NEW s \in Entries, s.st # "none", NEW dir \in {"out", "in"}, NEW k,
         NEW t, t = RecordPacket(s, dir, k)
  PROVE  /\ t \in Entries /\ t.st # "none" /\ (t = s \/ t.at = ctNow)
         /\ k = "syn" /\ dir = "out" => t = FlowOpened
         /\ ~(k = "syn" /\ dir = "out") =>
              /\ s.st = "closing" => t = s
              /\ k = "fin" /\ s.st = "active" => t.st = "half" /\ t.fin = dir /\ t.at = ctNow
              /\ k = "fin" /\ s.st = "half" /\ s.fin # dir => t.st = "closing" /\ t.at = ctNow
              /\ s.st # "closing" /\ (k # "fin" \/ (s.st = "half" /\ s.fin = dir)) =>
                   t.st = s.st /\ t.fin = s.fin /\ t.at = ctNow
BY SMTT(30) DEF Entries, RecordPacket, FlowOpened

\* The entry of a flow just opened, and none.
LEMMA Plain ==
  ASSUME ctNow \in Nat
  PROVE  /\ FlowOpened \in Entries /\ FlowOpened.st = "active" /\ FlowOpened.at = ctNow
         /\ FlowOpened.fin = "none"
         /\ NoFlow \in Entries /\ NoFlow.st = "none" /\ NoFlow.at = 0 /\ NoFlow.fin = "none"
BY SMTT(30) DEF Entries, FlowOpened, NoFlow

\* What a longer history says of the FINs in it.
LEMMA FinsBefore ==
  ASSUME NEW h, NEW g, NEW p, Extends(h, g, p),
         FinsOver(g, Len(g), Len(g)), ~(Ours(p) /\ p.k = "syn")
  PROVE  ~(Ours(p) /\ p.k = "fin") /\ FinsOver(h, Len(h), Len(h))
<1> DEFINE n == Len(h)
<1>n. n \in Nat /\ Len(g) = n + 1 /\ g[n + 1] = p /\ \A i \in 1..n : g[i] = h[i]
  BY DEF Extends
<1> HIDE DEF n
<1>1. n + 1 \in 1..(n + 1) /\ ((n + 1) + 1)..(n + 1) = {}
  BY <1>n, SMTT(30)
<1>2. ~(Ours(p) /\ p.k = "fin")
  BY <1>1, <1>n DEF FinsOver
<1>3. ASSUME NEW i \in 1..n, Ours(h[i]), h[i].k = "fin"
      PROVE  \E m \in (i + 1)..n : Ours(h[m]) /\ h[m].k = "syn"
  <2>1. i \in 1..(n + 1) /\ g[i] = h[i]
    BY <1>n, SMTT(30)
  <2>2. PICK m \in (i + 1)..(n + 1) : Ours(g[m]) /\ g[m].k = "syn"
    BY <1>3, <1>n, <2>1 DEF FinsOver
  <2>3. m # n + 1
    BY <1>n, <2>2
  <2>4. m \in (i + 1)..n /\ m \in 1..n
    BY <1>n, <2>3, SMTT(30)
  <2> QED BY <1>n, <2>2, <2>4
<1> QED BY <1>2, <1>3 DEF FinsOver, n

\* A FIN of the peer in the longer history was one in the shorter, or is last.
LEMMA PeerFinBefore ==
  ASSUME NEW h, NEW g, NEW p, Extends(h, g, p), NEW j \in 1..Len(g), PeerFin(g, j)
  PROVE  \/ /\ j \in 1..Len(h) /\ g[j] = h[j] /\ PeerFin(h, j)
            /\ p.k \notin {"syn", "rst"} /\ ~(Ours(p) /\ p.k = "fin")
         \/ /\ j = Len(h) + 1 /\ g[j] = p
            /\ p.by = "return" /\ p.k = "fin" /\ FinsOver(h, Len(h), Len(h))
<1> DEFINE n == Len(h)
<1>n. n \in Nat /\ Len(g) = n + 1 /\ g[n + 1] = p /\ \A i \in 1..n : g[i] = h[i]
  BY DEF Extends
<1> HIDE DEF n
<1>1. ASSUME NEW i \in 1..n, Ours(h[i]), h[i].k = "fin"
      PROVE  \E m \in (i + 1)..(j - 1) : Ours(h[m]) /\ h[m].k = "syn"
  <2>1. i \in 1..(n + 1) /\ g[i] = h[i]
    BY <1>n, SMTT(30)
  <2>2. PICK m \in (i + 1)..(j - 1) : Ours(g[m]) /\ g[m].k = "syn"
    BY <1>1, <1>n, <2>1 DEF PeerFin, FinsOver
  <2>3. m \in 1..n
    BY <1>n, SMTT(30)
  <2> QED BY <1>n, <2>2, <2>3
<1>2. CASE j = n + 1
  <2>1. j - 1 = n
    BY <1>2, <1>n, SMTT(30)
  <2>2. \A i \in 1..n : Ours(h[i]) /\ h[i].k = "fin" =>
          \E m \in (i + 1)..n : Ours(h[m]) /\ h[m].k = "syn"
    BY <1>1, <2>1
  <2>3. g[j] = p /\ p.by = "return" /\ p.k = "fin"
    BY <1>n, <1>2 DEF PeerFin
  <2> QED BY <1>2, <2>2, <2>3 DEF FinsOver, n
<1>3. CASE j # n + 1
  <2>1. /\ j \in 1..n /\ g[j] = h[j] /\ n + 1 \in (j + 1)..(n + 1) /\ n + 1 \in 1..(n + 1)
        /\ ((n + 1) + 1)..(j - 1) = {}
        /\ \A i \in (j + 1)..n : i \in (j + 1)..(n + 1) /\ g[i] = h[i]
    BY <1>3, <1>n, SMTT(30)
  <2>2. p.k \notin {"syn", "rst"} /\ ~(Ours(p) /\ p.k = "fin")
    BY <1>n, <2>1 DEF PeerFin, FinsOver
  <2>3. FinsOver(h, n, j - 1)
    BY <1>1 DEF FinsOver
  <2>4. h[j].by = "return" /\ h[j].k = "fin" /\ \A i \in (j + 1)..n : h[i].k \notin {"syn", "rst"}
    BY <1>n, <2>1 DEF PeerFin
  <2>5. PeerFin(h, j)
    BY <2>3, <2>4 DEF PeerFin, n
  <2> QED BY <2>1, <2>2, <2>5 DEF n
<1> QED BY <1>2, <1>3

\* So for the FIN of this node that is the second one.
LEMMA SecondFinBefore ==
  ASSUME NEW h, NEW g, NEW p, Extends(h, g, p), NEW l \in 1..Len(h), SecondFin(g, l)
  PROVE  SecondFin(h, l)
<1> DEFINE n == Len(h)
<1>n. n \in Nat /\ \A i \in 1..n : g[i] = h[i]
  BY DEF Extends
<1> HIDE DEF n
<1>l. l \in 1..n
  BY DEF n
<1>1. PICK j \in 1..(l - 1) :
        /\ g[j].by = "return" /\ g[j].k = "fin" /\ g[l].at - g[j].at < IdleLimit
        /\ \A i \in (j + 1)..l : g[i].k \notin {"syn", "rst"}
        /\ \A i \in 1..(l - 1) : Ours(g[i]) /\ g[i].k = "fin" =>
             \E m \in (i + 1)..(j - 1) : Ours(g[m]) /\ g[m].k = "syn"
  BY DEF SecondFin
<1>i. /\ j \in 1..n
      /\ \A i \in (j + 1)..l : i \in 1..n
      /\ \A i \in 1..(l - 1) : i \in 1..n /\ \A m \in (i + 1)..(j - 1) : m \in 1..n
  <2> HIDE <1>1
  <2> QED BY <1>n, <1>l, SMTT(30)
<1>2. /\ g[l] = h[l] /\ g[j] = h[j]
      /\ \A i \in (j + 1)..l : g[i] = h[i]
      /\ \A i \in 1..(l - 1) : g[i] = h[i] /\ \A m \in (i + 1)..(j - 1) : g[m] = h[m]
  BY <1>n, <1>l, <1>i
<1>3. Ours(h[l]) /\ h[l].k = "fin"
  BY <1>2 DEF SecondFin
<1>4. /\ h[j].by = "return" /\ h[j].k = "fin" /\ h[l].at - h[j].at < IdleLimit
      /\ \A i \in (j + 1)..l : h[i].k \notin {"syn", "rst"}
  BY <1>1, <1>2
<1>5. ASSUME NEW i \in 1..(l - 1), Ours(h[i]), h[i].k = "fin"
      PROVE  \E m \in (i + 1)..(j - 1) : Ours(h[m]) /\ h[m].k = "syn"
  <2>1. PICK m \in (i + 1)..(j - 1) : Ours(g[m]) /\ g[m].k = "syn"
    BY <1>1, <1>2, <1>5
  <2> QED BY <1>2, <2>1
<1> QED BY <1>3, <1>4, <1>5 DEF SecondFin

LEMMA SecondFinNow ==
  ASSUME NEW h, NEW g, NEW p, Extends(h, g, p), SecondFin(g, Len(h) + 1)
  PROVE  /\ Ours(p) /\ p.k = "fin"
         /\ \E j \in 1..Len(h) : PeerFin(h, j) /\ p.at - h[j].at < IdleLimit
<1> DEFINE n == Len(h) l == n + 1
<1>n. n \in Nat /\ g[n + 1] = p /\ \A i \in 1..n : g[i] = h[i]
  BY DEF Extends
<1>s. SecondFin(g, l)
  OBVIOUS
<1> HIDE DEF n
<1>1. PICK j \in 1..(l - 1) :
        /\ g[j].by = "return" /\ g[j].k = "fin" /\ g[l].at - g[j].at < IdleLimit
        /\ \A i \in (j + 1)..l : g[i].k \notin {"syn", "rst"}
        /\ \A i \in 1..(l - 1) : Ours(g[i]) /\ g[i].k = "fin" =>
             \E m \in (i + 1)..(j - 1) : Ours(g[m]) /\ g[m].k = "syn"
  BY <1>s DEF SecondFin
<1>2. /\ l - 1 = n /\ j \in 1..n /\ g[l] = p /\ g[j] = h[j]
      /\ \A i \in (j + 1)..n : i \in (j + 1)..l /\ g[i] = h[i]
      /\ \A i \in 1..n : g[i] = h[i] /\ \A m \in (i + 1)..(j - 1) : g[m] = h[m]
  BY <1>n, SMTT(30)
<1> HIDE DEF l
<1>3. FinsOver(h, n, j - 1)
  <2>1. ASSUME NEW i \in 1..n, Ours(h[i]), h[i].k = "fin"
        PROVE  \E m \in (i + 1)..(j - 1) : Ours(h[m]) /\ h[m].k = "syn"
    <3>1. PICK m \in (i + 1)..(j - 1) : Ours(g[m]) /\ g[m].k = "syn"
      BY <1>1, <1>2, <2>1
    <3> QED BY <1>2, <3>1
  <2> QED BY <2>1 DEF FinsOver
<1>4. PeerFin(h, j)
  BY <1>1, <1>2, <1>3 DEF PeerFin, n
<1>5. Ours(p) /\ p.k = "fin"
  BY <1>s, <1>2 DEF SecondFin
<1> QED BY <1>1, <1>2, <1>4, <1>5 DEF n

\* What was over stays over, and the last packet may end it.
LEMMA OverBy ==
  ASSUME NEW h, NEW g, NEW p, Extends(h, g, p), NEW l \in 1..Len(h)
  PROVE  /\ Over(h, l, Len(h)) => Over(g, l, Len(g))
         /\ p.k = "rst" => Over(g, l, Len(g))
         /\ Opener(p) /\ (p.k = "syn" \/ p.at - h[l].at >= TcpClosingTimeout)
              => Over(g, l, Len(g))
<1> DEFINE n == Len(h)
<1>n. n \in Nat /\ Len(g) = n + 1 /\ g[n + 1] = p /\ \A i \in 1..n : g[i] = h[i]
  BY DEF Extends
<1> HIDE DEF n
<1>1. l \in 1..n /\ g[l] = h[l] /\ n + 1 \in (l + 1)..(n + 1)
      /\ \A i \in (l + 1)..n : i \in (l + 1)..(n + 1) /\ g[i] = h[i]
  BY <1>n, SMTT(30) DEF n
<1>2. Over(h, l, n) => Over(g, l, n + 1)
  BY <1>1 DEF Over
<1>3. p.k = "rst" => Over(g, l, n + 1)
  BY <1>n, <1>1 DEF Over
<1>4. Opener(p) /\ (p.k = "syn" \/ p.at - h[l].at >= TcpClosingTimeout) => Over(g, l, n + 1)
  BY <1>n, <1>1 DEF Over
<1> QED BY <1>n, <1>2, <1>3, <1>4 DEF n

\* An entry that is idle may go, whether the evictor or a stray RST removes it.
LEMMA GoneInTime ==
  ASSUME ctNow \in Nat, NEW h, \A i \in 1..Len(h) : h[i].at \in Nat,
         NEW s \in Entries, s # NoFlow => ~FlowActive(s),
         OwnHalf(h, s), PeerHalf(h, s), BothHalves(h, s)
  PROVE  Fresh(h, NoFlow) /\ OwnHalf(h, NoFlow) /\ PeerHalf(h, NoFlow) /\ BothHalves(h, NoFlow)
<1>n. NoFlow.st = "none" /\ NoFlow.fin = "none"
  BY Plain
<1>1. Fresh(h, NoFlow) /\ OwnHalf(h, NoFlow)
  BY <1>n DEF Fresh, OwnHalf
<1>2. PeerHalf(h, NoFlow)
  <2> SUFFICES ASSUME NEW j \in 1..Len(h), PeerFin(h, j), ctNow - h[j].at < IdleLimit PROVE FALSE
    BY DEF PeerHalf
  <2>1. s.st = "half" /\ s.at >= h[j].at /\ s # NoFlow
    BY <1>n DEF PeerHalf
  <2>2. ~(ctNow - s.at < IdleLimit)
    BY <2>1, Timeouts DEF FlowActive
  <2> QED BY <2>1, <2>2, Timeouts, SMTT(30) DEF Entries
<1>3. BothHalves(h, NoFlow)
  <2> SUFFICES ASSUME NEW l \in 1..Len(h), s.st = "closing", s.at = h[l].at
               PROVE  ctNow - h[l].at >= TcpClosingTimeout
    BY DEF BothHalves
  <2>1. s # NoFlow
    BY <1>n
  <2>2. ~(ctNow - s.at < TcpClosingTimeout)
    BY <2>1, Timeouts DEF FlowActive
  <2> QED BY <2>2, CtAssumption, SMTT(30) DEF Entries
<1> QED BY <1>1, <1>2, <1>3

\* A packet that is heard keeps what the entry knows.
LEMMA FreshStep ==
  ASSUME ctNow \in Nat, NEW h, NEW g, NEW p, Extends(h, g, p), p.at = ctNow,
         \A i \in 1..Len(h) : h[i].at \in Nat /\ h[i].at <= ctNow,
         NEW s \in Entries, Fresh(h, s), NEW t,
         p.dir \in {"out", "in"}, p.by # "no", Moves(p.dir, p.k, p.by, s, t)
  PROVE  Fresh(g, t)
<1>1. CASE t = NoFlow
  BY <1>1 DEF Fresh
<1>2. CASE t = s /\ t # NoFlow /\ (Judged(p) => p.k # "rst")
  <2>1. s.at \in Nat
    BY DEF Entries
  <2> QED BY <1>2, <2>1, FreshStays
<1>3. CASE Opener(p) /\ t.at = ctNow
  BY <1>3, FreshOpens
<1>4. CASE s # NoFlow /\ FlowActive(s) /\ Judged(p) /\ p.k # "rst" /\ t.at = ctNow
  <2>1. s.at \in Nat
    BY DEF Entries
  <2> QED BY <1>4, <2>1, FreshGoesOn
<1>5. ASSUME p.by \in {"rule", "default", "return"} PROVE Judged(p)
  BY <1>5 DEF Judged
<1>6. ASSUME p.by \in {"rule", "default"}, p.dir = "out", p.k \in {"syn", "data", "request"}
      PROVE  Opener(p)
  BY <1>6 DEF Opener, Ours, Judged
<1>7. ASSUME s # NoFlow, t = RecordPacket(s, p.dir, p.k) PROVE t = s \/ t.at = ctNow
  <2>1. s.st # "none"
    BY <1>7 DEF Entries
  <2> QED BY <1>7, <2>1, Recorded, SMTT(30)
<1>8. FlowOpened.at = ctNow
  BY Plain
<1>9. CASE p.by \in {"off", "first"} /\ t = s
  BY <1>9, <1>1, <1>2 DEF Judged
<1> QED BY <1>1, <1>2, <1>3, <1>4, <1>5, <1>6, <1>7, <1>8, <1>9 DEF Moves

LEMMA OwnHalfStep ==
  ASSUME ctNow \in Nat, NEW h, NEW g, NEW p, Extends(h, g, p),
         NEW s \in Entries, OwnHalf(h, s), NEW t,
         p.dir \in {"out", "in"}, p.by # "no", Moves(p.dir, p.k, p.by, s, t)
  PROVE  OwnHalf(g, t)
<1>n. /\ NoFlow.st = "none" /\ NoFlow.fin = "none"
      /\ FlowOpened.st = "active" /\ FlowOpened.fin = "none"
  BY Plain
<1> SUFFICES ASSUME FinsOver(g, Len(g), Len(g)) PROVE t.st # "closing" /\ t.fin # "out"
  BY DEF OwnHalf
<1>1. CASE t = NoFlow \/ t = FlowOpened
  BY <1>n, <1>1
<1>2. CASE t # NoFlow /\ t # FlowOpened
  <2>1. ~(Ours(p) /\ p.k = "syn")
    <3> SUFFICES ASSUME Ours(p), p.k = "syn" PROVE FALSE
      OBVIOUS
    <3>1. p.by \notin {"off", "first"} /\ p.dir = "out"
      BY DEF Ours, Judged
    <3>2. s # NoFlow /\ t = RecordPacket(s, p.dir, p.k)
      BY <1>2, <3>1 DEF Moves
    <3>3. s.st # "none"
      BY <3>2 DEF Entries
    <3> QED BY <1>2, <3>1, <3>2, <3>3, Recorded, SMTT(30)
  <2>2. ~(Ours(p) /\ p.k = "fin") /\ s.st # "closing" /\ s.fin # "out"
    BY <2>1, FinsBefore DEF OwnHalf
  <2>3. CASE t = s
    BY <2>2, <2>3
  <2>4. CASE s # NoFlow /\ t = RecordPacket(s, p.dir, p.k)
                        /\ (p.dir = "in" \/ p.k \in {"syn", "data", "request"})
    <3>1. s.st \in {"active", "half"} /\ (s.st = "half" => s.fin = "in")
      BY <2>2, <2>4, SMTT(30) DEF Entries
    <3>2. ~(p.k = "syn" /\ p.dir = "out")
      BY <1>2, <2>4, <3>1, Recorded, SMTT(30)
    <3>3. CASE p.k = "fin"
      BY <2>4, <3>1, <3>3, Recorded, SMTT(30)
    <3>4. CASE p.k # "fin"
      BY <2>2, <2>4, <3>1, <3>2, <3>4, Recorded, SMTT(30)
    <3> QED BY <3>3, <3>4
  <2>5. CASE p.dir = "out" /\ p.k = "fin" /\ p.by \in {"rule", "default"}
    BY <2>2, <2>5 DEF Ours, Judged
  <2> QED BY <1>2, <2>3, <2>4, <2>5 DEF Moves
<1> QED BY <1>1, <1>2

LEMMA PeerHalfStep ==
  ASSUME ctNow \in Nat, NEW h, NEW g, NEW p, Extends(h, g, p), p.at = ctNow,
         \A i \in 1..Len(h) : h[i].at \in Nat /\ h[i].at <= ctNow,
         NEW s \in Entries,
         OwnHalf(h, s), PeerHalf(h, s), NEW t,
         p.dir \in {"out", "in"}, p.by # "no", Moves(p.dir, p.k, p.by, s, t)
  PROVE  PeerHalf(g, t)
<1> SUFFICES ASSUME NEW j \in 1..Len(g), PeerFin(g, j), ctNow - g[j].at < IdleLimit
             PROVE  t.st = "half" /\ t.fin = "in" /\ t.at >= g[j].at
  BY DEF PeerHalf
<1>n. NoFlow.st = "none" /\ (s.st = "none" => s = NoFlow)
  BY Plain DEF Entries
<1>1. CASE j \in 1..Len(h) /\ g[j] = h[j] /\ PeerFin(h, j)
           /\ p.k \notin {"syn", "rst"} /\ ~(Ours(p) /\ p.k = "fin")
  <2>1. s.st = "half" /\ s.fin = "in" /\ s.at >= h[j].at
    BY <1>1 DEF PeerHalf
  <2>2. s # NoFlow /\ s.st # "none"
    BY <1>n, <2>1
  <2>3. CASE t = s
    BY <1>1, <2>1, <2>3
  <2>4. CASE t = RecordPacket(s, p.dir, p.k) /\ (p.k = "fin" => p.dir = "in")
    <3>1. t.st = "half" /\ t.fin = "in" /\ t.at = ctNow
      BY <1>1, <2>1, <2>2, <2>4, Recorded, SMTT(30)
    <3>2. ctNow >= h[j].at
      BY <1>1, SMTT(30)
    <3> QED BY <1>1, <3>1, <3>2
  <2>5. CASE p.dir = "out" /\ p.k = "fin" /\ p.by \in {"rule", "default"}
    BY <1>1, <2>5 DEF Ours, Judged
  <2> QED BY <1>1, <2>2, <2>3, <2>4, <2>5 DEF Moves
<1>2. CASE j = Len(h) + 1 /\ g[j] = p
           /\ p.by = "return" /\ p.k = "fin" /\ FinsOver(h, Len(h), Len(h))
  <2>1. s.st # "closing" /\ s.fin # "out"
    BY <1>2 DEF OwnHalf
  <2>2. s # NoFlow /\ t = RecordPacket(s, "in", "fin")
    BY <1>2 DEF Moves
  <2>3. s.st \in {"active", "half"} /\ (s.st = "half" => s.fin = "in")
    BY <2>1, <2>2, SMTT(30) DEF Entries
  <2>4. t.st = "half" /\ t.fin = "in" /\ t.at = ctNow
    BY <2>2, <2>3, Recorded, SMTT(30)
  <2>5. g[j].at = ctNow /\ ctNow >= ctNow
    BY <1>2, SMTT(30)
  <2> QED BY <2>4, <2>5
<1>3. \/ /\ j \in 1..Len(h) /\ g[j] = h[j] /\ PeerFin(h, j)
         /\ p.k \notin {"syn", "rst"} /\ ~(Ours(p) /\ p.k = "fin")
      \/ /\ j = Len(h) + 1 /\ g[j] = p
         /\ p.by = "return" /\ p.k = "fin" /\ FinsOver(h, Len(h), Len(h))
  BY PeerFinBefore
<1> QED BY <1>1, <1>2, <1>3

LEMMA BothHalvesStep ==
  ASSUME ctNow \in Nat, NEW h, NEW g, NEW p, Extends(h, g, p), p.at = ctNow,
         \A i \in 1..Len(h) : h[i].at \in Nat /\ h[i].at <= ctNow,
         NEW s \in Entries, PeerHalf(h, s), BothHalves(h, s), NEW t,
         p.dir \in {"out", "in"}, p.by # "no", Moves(p.dir, p.k, p.by, s, t)
  PROVE  BothHalves(g, t)
<1>n. NoFlow.st = "none" /\ (s.st = "none" => s = NoFlow)
  BY Plain DEF Entries
<1>1. ASSUME NEW l \in 1..Len(h), SecondFin(g, l), ~Over(g, l, Len(g))
      PROVE  \/ t.st = "closing" /\ t.at = h[l].at
             \/ t = NoFlow /\ ctNow - h[l].at >= TcpClosingTimeout
  <2>1. \/ s.st = "closing" /\ s.at = h[l].at
        \/ s = NoFlow /\ ctNow - h[l].at >= TcpClosingTimeout
    BY <1>1, SecondFinBefore, OverBy DEF BothHalves
  <2>2. p.k # "rst" /\ ~(Opener(p) /\ (p.k = "syn" \/ ctNow - h[l].at >= TcpClosingTimeout))
    BY <1>1, OverBy
  <2>3. CASE t = s
    BY <2>1, <2>3
  <2>4. CASE p.by \in {"rule", "default"} /\ p.dir = "out" /\ p.k \in {"syn", "data", "request"}
             /\ t = IF s = NoFlow THEN FlowOpened ELSE RecordPacket(s, "out", p.k)
    <3>1. Opener(p)
      BY <2>4 DEF Opener, Ours, Judged
    <3>2. s.st = "closing" /\ s # NoFlow /\ p.k # "syn"
      BY <1>n, <2>1, <2>2, <3>1
    <3>3. t = s
      BY <2>4, <3>2, Recorded, SMTT(30)
    <3> QED BY <2>1, <3>3
  <2>5. CASE s # NoFlow /\ t = RecordPacket(s, p.dir, p.k) /\ ~(p.k = "syn" /\ p.dir = "out")
    <3>1. s.st = "closing"
      BY <2>1, <2>5
    <3>2. t = s
      BY <2>5, <3>1, Recorded, SMTT(30)
    <3> QED BY <2>1, <3>2
  <2> QED BY <2>2, <2>3, <2>4, <2>5 DEF Moves
<1>2. ASSUME SecondFin(g, Len(h) + 1) PROVE t.st = "closing" /\ t.at = ctNow
  <2>1. Ours(p) /\ p.k = "fin" /\ \E j \in 1..Len(h) : PeerFin(h, j) /\ p.at - h[j].at < IdleLimit
    BY <1>2, SecondFinNow
  <2>2. PICK j \in 1..Len(h) : PeerFin(h, j) /\ ctNow - h[j].at < IdleLimit
    BY <2>1
  <2>3. s.st = "half" /\ s.fin = "in" /\ s.at >= h[j].at /\ s # NoFlow
    BY <1>n, <2>2 DEF PeerHalf
  <2>4. FlowActive(s)
    <3>1. ctNow - s.at < IdleLimit
      BY <2>2, <2>3, Timeouts, SMTT(30) DEF Entries
    <3> QED BY <2>3, <3>1, Timeouts DEF FlowActive
  <2>5. p.by \notin {"off", "first"} /\ p.dir = "out"
    BY <2>1 DEF Ours, Judged
  <2>6. t = RecordPacket(s, "out", "fin")
    BY <2>1, <2>3, <2>4, <2>5 DEF Moves
  <2> QED BY <2>3, <2>6, Recorded, SMTT(30)
<1>3. /\ Len(g) = Len(h) + 1 /\ g[Len(h) + 1].at = ctNow
      /\ \A l \in 1..Len(g) : l = Len(h) + 1 \/ (l \in 1..Len(h) /\ g[l] = h[l])
  BY SMTT(30) DEF Extends
<1> QED BY <1>1, <1>2, <1>3 DEF BothHalves

\* What ReturnSolicited says of the n-th packet.
Solicited(h, n) ==
  /\ \E i \in 1..(n - 1) :
       /\ Opener(h[i])
       /\ \A j \in i..(n - 1) : Judged(h[j]) => h[j].k # "rst"
       /\ \A j \in (i + 1)..n : Judged(h[j]) =>
            \E l \in i..(j - 1) : Judged(h[l]) /\ h[j].at - h[l].at < IdleLimit
  /\ \A l \in 1..(n - 1) : SecondFin(h, l) =>
       h[n].at - h[l].at < TcpClosingTimeout \/ Over(h, l, n - 1)

\* Return traffic that is heard now is solicited.
LEMMA ReturnStep ==
  ASSUME ctNow \in Nat, NEW h, NEW g, NEW p, Extends(h, g, p), p.at = ctNow,
         \A i \in 1..Len(h) : h[i].at \in Nat /\ h[i].at <= ctNow,
         NEW s \in Entries, Fresh(h, s), BothHalves(h, s), s # NoFlow, FlowActive(s),
         NEW n, n = Len(h) + 1
  PROVE  Solicited(g, n)
<1>t. FlowTimeout(s) \in Nat /\ IdleLimit \in Nat /\ FlowTimeout(s) <= IdleLimit /\ s.at \in Nat
      /\ (s.st = "closing" => FlowTimeout(s) = TcpClosingTimeout)
  BY Timeouts DEF Entries
<1>n. Len(h) \in Nat /\ g[n] = p /\ n - 1 = Len(h) /\ \A i \in 1..Len(h) : g[i] = h[i]
  BY SMTT(30) DEF Extends
<1>1. PICK i \in 1..Len(h) : Alive(h, i, s) /\ \E m \in i..Len(h) : Judged(h[m]) /\ h[m].at = s.at
  BY DEF Fresh
<1>2. PICK m \in i..Len(h) : Judged(h[m]) /\ h[m].at = s.at
  BY <1>1
<1>3. m \in 1..Len(h) /\ g[i] = h[i] /\ \A j \in i..Len(h) : g[j] = h[j]
  BY <1>n, SMTT(30)
<1>4. Opener(g[i]) /\ \A j \in i..Len(h) : Judged(g[j]) => g[j].k # "rst"
  BY <1>1, <1>3 DEF Alive
<1>5. ASSUME NEW j \in (i + 1)..n, Judged(g[j])
      PROVE  \E l \in i..(j - 1) : Judged(g[l]) /\ g[j].at - g[l].at < IdleLimit
  <2>1. CASE j = n
    <3>1. g[j].at = ctNow /\ m \in i..(j - 1) /\ Judged(g[m]) /\ g[m].at = s.at
      BY <2>1, <1>2, <1>3, <1>n
    <3>2. ctNow - s.at < IdleLimit
      BY <1>t, SMTT(30) DEF FlowActive
    <3> QED BY <3>1, <3>2
  <2>2. CASE j # n
    <3>1. j \in (i + 1)..Len(h) /\ j \in 1..Len(h) /\ g[j] = h[j] /\ \A l \in i..(j - 1) : g[l] = h[l]
      BY <2>2, <1>n, SMTT(30)
    <3>2. ~(h[j].at - s.at >= FlowTimeout(s))
      BY <1>t, <3>1, SMTT(30) DEF FlowActive
    <3> QED BY <1>1, <1>5, <3>1, <3>2 DEF Alive
  <2> QED BY <2>1, <2>2
<1>6. ASSUME NEW l \in 1..Len(h), SecondFin(g, l)
      PROVE  ctNow - g[l].at < TcpClosingTimeout \/ Over(g, l, Len(h))
  <2>1. Over(h, l, Len(h)) \/ (s.st = "closing" /\ s.at = h[l].at)
    BY <1>6, SecondFinBefore DEF BothHalves
  <2>2. CASE s.st = "closing" /\ s.at = h[l].at
    BY <1>n, <1>t, <2>2 DEF FlowActive
  <2>3. CASE Over(h, l, Len(h))
    <3>1. g[l] = h[l] /\ \A j \in (l + 1)..Len(h) : g[j] = h[j]
      BY <1>n, SMTT(30)
    <3> QED BY <2>3, <3>1 DEF Over
  <2> QED BY <2>1, <2>2, <2>3
<1> QED BY <1>n, <1>4, <1>5, <1>6 DEF Solicited

\* And stays so when more is heard.
LEMMA SolicitedStays ==
  ASSUME NEW h, NEW g, NEW p, Extends(h, g, p), NEW n \in 1..Len(h), Solicited(h, n)
  PROVE  Solicited(g, n)
<1>n. /\ Len(h) \in Nat /\ g[n] = h[n] /\ \A i \in 1..Len(h) : g[i] = h[i]
      /\ \A i \in 1..(n - 1) : i \in 1..Len(h)
      /\ \A i \in 1..(n - 1) : \A j \in i..n : j \in 1..Len(h)
      /\ \A i \in 1..(n - 1) : \A j \in i..(n - 1) : j \in 1..Len(h)
      /\ \A i \in 1..(n - 1) : \A j \in (i + 1)..n : j \in 1..Len(h)
      /\ \A i \in 1..(n - 1) : \A j \in (i + 1)..(n - 1) : j \in 1..Len(h)
      /\ \A i \in 1..(n - 1) : \A j \in (i + 1)..n : \A l \in i..(j - 1) : l \in 1..Len(h)
  BY SMTT(30) DEF Extends
<1>1. PICK i \in 1..(n - 1) :
        /\ Opener(h[i])
        /\ \A j \in i..(n - 1) : Judged(h[j]) => h[j].k # "rst"
        /\ \A j \in (i + 1)..n : Judged(h[j]) =>
             \E l \in i..(j - 1) : Judged(h[l]) /\ h[j].at - h[l].at < IdleLimit
  BY DEF Solicited
<1>2. Opener(g[i]) /\ \A j \in i..(n - 1) : Judged(g[j]) => g[j].k # "rst"
  BY <1>n, <1>1
<1>3. ASSUME NEW j \in (i + 1)..n, Judged(g[j])
      PROVE  \E l \in i..(j - 1) : Judged(g[l]) /\ g[j].at - g[l].at < IdleLimit
  <2>1. g[j] = h[j]
    BY <1>n
  <2>2. PICK l \in i..(j - 1) : Judged(h[l]) /\ h[j].at - h[l].at < IdleLimit
    BY <1>1, <1>3, <2>1
  <2>3. g[l] = h[l]
    BY <1>n
  <2> QED BY <2>1, <2>2, <2>3
<1>4. ASSUME NEW l \in 1..(n - 1), SecondFin(g, l)
      PROVE  g[n].at - g[l].at < TcpClosingTimeout \/ Over(g, l, n - 1)
  <2>1. l \in 1..Len(h) /\ g[l] = h[l] /\ \A j \in (l + 1)..(n - 1) : g[j] = h[j]
    BY <1>n
  <2>2. SecondFin(h, l)
    BY <1>4, <2>1, SecondFinBefore
  <2>3. h[n].at - h[l].at < TcpClosingTimeout \/ Over(h, l, n - 1)
    BY <2>2 DEF Solicited
  <2> QED BY <1>n, <2>1, <2>3 DEF Over
<1> QED BY <1>2, <1>3, <1>4 DEF Solicited

\* The second FIN of a history is the same one before and after a step.
LEMMA SameSecondFin ==
  ASSUME ctScene' = ctScene, NEW g, heard' = g, NEW l
  PROVE  SecondFin(heard, l)' <=> SecondFin(g, l)
<1> DEFINE Second(h, lim) ==
      /\ Ours(h[l]) /\ h[l].k = "fin"
      /\ \E j \in 1..(l - 1) :
           /\ h[j].by = "return" /\ h[j].k = "fin" /\ h[l].at - h[j].at < lim
           /\ \A i \in (j + 1)..l : h[i].k \notin {"syn", "rst"}
           /\ \A i \in 1..(l - 1) : Ours(h[i]) /\ h[i].k = "fin" =>
                \E m \in (i + 1)..(j - 1) : Ours(h[m]) /\ h[m].k = "syn"
<1>1. IdleLimit' = IdleLimit
  BY DEF IdleLimit
<1>2. (SecondFin(heard, l)' <=> Second(heard', IdleLimit')) /\ (SecondFin(g, l) <=> Second(g, IdleLimit))
  BY DEF SecondFin
<1> HIDE DEF Second
<1> QED BY <1>1, <1>2

\* The invariant after a step, from what the step leaves behind.
LEMMA FlowKeeps ==
  ASSUME ctScene' = ctScene, ctNow' = ctNow, NEW g, heard' = g, IsSeq(g), NEW t \in Entries, conntrack' = t,
         \A i \in 1..Len(g) : g[i].at \in Nat /\ g[i].at <= ctNow,
         Fresh(g, t), OwnHalf(g, t), PeerHalf(g, t), BothHalves(g, t),
         \A n \in 1..Len(g) : g[n].by = "return" => Solicited(g, n)
  PROVE  FlowInv'
<1>1. (conntrack \in Entries)'
  BY DEF Entries
<1>2. Fresh(heard, conntrack)'
  BY DEF Fresh, Alive, FlowTimeout, IdleLimit
<1>3. OwnHalf(heard, conntrack)'
  BY DEF OwnHalf
<1>4. PeerHalf(heard, conntrack)'
  BY DEF PeerHalf, IdleLimit
<1>5. IdleLimit' = IdleLimit
  BY DEF IdleLimit
<1>6. ASSUME NEW l PROVE SecondFin(heard, l)' <=> SecondFin(g, l)
  BY SameSecondFin
<1>7. BothHalves(heard, conntrack)'
  BY <1>6 DEF BothHalves
<1>8. ReturnSolicited'
  <2>1. DOMAIN g = 1..Len(g)
    BY SeqLen
  <2> QED BY <1>5, <1>6, <2>1 DEF ReturnSolicited, Solicited, Over
<1> QED BY <1>1, <1>2, <1>3, <1>4, <1>7, <1>8 DEF FlowInv

\* A packet that is heard, or refused.
LEMMA PacketFlows ==
  ASSUME CtInv, FlowInv, ctScene' = ctScene, ctNow' = ctNow,
         NEW dir \in {"out", "in"}, NEW k, NEW shape, NEW key, NEW by,
         Note(dir, k, shape, key, by), IsSeq(heard'),
         Moves(dir, k, by, conntrack, conntrack')
  PROVE  FlowInv'
<1>0. \A n \in DOMAIN heard : heard[n].by = "return" => Solicited(heard, n)
  BY DEF FlowInv, ReturnSolicited, Solicited, Over
<1> PICK s \in Entries : s = conntrack
  BY DEF FlowInv
<1> PICK t, h, g : t = conntrack' /\ h = heard /\ g = heard'
  OBVIOUS
<1>i. /\ ctNow \in Nat /\ IsSeq(h) /\ IsSeq(g) /\ DOMAIN h = 1..Len(h)
      /\ \A i \in 1..Len(h) : h[i].at \in Nat /\ h[i].at <= ctNow
      /\ Fresh(h, s) /\ OwnHalf(h, s) /\ PeerHalf(h, s) /\ BothHalves(h, s)
  BY SeqLen DEF CtInv, FlowInv
<1>r. \A n \in 1..Len(h) : h[n].by = "return" => Solicited(h, n)
  BY <1>i, <1>0
<1>m. Moves(dir, k, by, s, t)
  OBVIOUS
<1>1. CASE by = "no"
  <2>1. g = h
    BY <1>1 DEF Note
  <2>2. t = s \/ (t = NoFlow /\ (s # NoFlow => ~FlowActive(s)))
    BY <1>1, <1>m DEF Moves
  <2>3. t \in Entries /\ Fresh(h, t) /\ OwnHalf(h, t) /\ PeerHalf(h, t) /\ BothHalves(h, t)
    BY <1>i, <2>2, GoneInTime, Plain
  <2> QED BY <1>i, <1>r, <2>1, <2>3, FlowKeeps
<1>2. CASE by # "no"
  <2> PICK p : p = [dir |-> dir, k |-> k, at |-> ctNow, shape |-> shape, key |-> key, by |-> by]
    OBVIOUS
  <2>1. p.dir = dir /\ p.k = k /\ p.at = ctNow /\ p.by = by
    BY SMTT(30)
  <2>2. g = Append(h, p)
    BY <1>2 DEF Note
  <2>3. Extends(h, g, p)
    <3>1. /\ Len(h) \in Nat /\ Len(g) = Len(h) + 1
          /\ \A i \in 1..Len(h) : g[i] = h[i]
          /\ g[Len(h) + 1] = p
      BY <1>i, <2>2, Longer, SMTT(30)
    <3> QED BY <3>1 DEF Extends
  <2>4. Moves(p.dir, p.k, p.by, s, t) /\ p.by # "no" /\ p.dir \in {"out", "in"}
    BY <1>m, <1>2, <2>1
  <2>5. Fresh(g, t) /\ OwnHalf(g, t) /\ PeerHalf(g, t) /\ BothHalves(g, t)
    <3>a. ctNow \in Nat /\ p.at = ctNow
      BY <1>i, <2>1
    <3>b. \A i \in 1..Len(h) : h[i].at \in Nat /\ h[i].at <= ctNow
      BY <1>i
    <3>1. Fresh(g, t)
      <4>1. Fresh(h, s)
        BY <1>i
      <4> QED BY ONLY <3>a, <3>b, <2>3, <2>4, <4>1, s \in Entries, FreshStep, SMTT(30)
    <3>2. OwnHalf(g, t)
      <4>1. OwnHalf(h, s)
        BY <1>i
      <4> QED BY ONLY <3>a, <2>3, <2>4, <4>1, s \in Entries, OwnHalfStep, SMTT(30)
    <3>3. PeerHalf(g, t)
      <4>1. OwnHalf(h, s) /\ PeerHalf(h, s)
        BY <1>i
      <4> QED BY ONLY <3>a, <3>b, <2>3, <2>4, <4>1, s \in Entries, PeerHalfStep, SMTT(30)
    <3>4. BothHalves(g, t)
      <4>1. PeerHalf(h, s) /\ BothHalves(h, s)
        BY <1>i
      <4> QED BY ONLY <3>a, <3>b, <2>3, <2>4, <4>1, s \in Entries, BothHalvesStep, SMTT(30)
    <3> QED BY <3>1, <3>2, <3>3, <3>4
  <2>6. t \in Entries
    <3>1. CASE t \in {s, NoFlow, FlowOpened}
      BY <1>i, <3>1, Plain
    <3>2. CASE s # NoFlow /\ t = RecordPacket(s, dir, k)
      <4>1. s.st # "none"
        BY <3>2 DEF Entries
      <4> QED BY <1>i, <3>2, <4>1, Recorded, SMTT(30)
    <3> QED BY <1>m, <3>1, <3>2 DEF Moves
  <2>7. \A i \in 1..Len(g) : g[i].at \in Nat /\ g[i].at <= ctNow
    BY <1>i, <2>1, <2>3, SMTT(30) DEF Extends
  <2>8. ASSUME NEW n \in 1..Len(g), g[n].by = "return" PROVE Solicited(g, n)
    <3>1. CASE n \in 1..Len(h)
      <4>1. g[n] = h[n]
        BY <2>3, <3>1 DEF Extends
      <4> QED BY <1>r, <2>3, <2>8, <3>1, <4>1, SolicitedStays
    <3>2. CASE n = Len(h) + 1
      <4>1. by = "return"
        BY <2>1, <2>3, <2>8, <3>2 DEF Extends
      <4>2. s # NoFlow /\ FlowActive(s)
        BY <1>m, <4>1 DEF Moves
      <4> QED BY <1>i, <2>1, <2>3, <3>2, <4>2, ReturnStep
    <3>3. n \in 1..Len(h) \/ n = Len(h) + 1
      BY <2>3, SMTT(30) DEF Extends
    <3> QED BY <3>1, <3>2, <3>3
  <2> QED BY <1>i, <2>5, <2>6, <2>7, <2>8, FlowKeeps
<1> QED BY <1>1, <1>2

\* Time passes: what must still be so is asked of fewer packets.
LEMMA TickFlows ==
  ASSUME CtInv, FlowInv, CtTick
  PROVE  FlowInv'
<1>1. ctNow \in Nat /\ ctNow' = ctNow + 1 /\ heard' = heard /\ conntrack' = conntrack /\ ctScene' = ctScene
  BY DEF CtInv, CtTick
<1>2. \A i \in 1..Len(heard) : heard[i].at \in Nat /\ heard[i].at <= ctNow
  BY DEF FlowInv
<1>3. (\A i \in 1..Len(heard) : heard[i].at \in Nat /\ heard[i].at <= ctNow)'
  BY <1>1, <1>2, SMTT(30)
<1>4. (conntrack \in Entries)' /\ OwnHalf(heard, conntrack)'
  BY <1>1 DEF FlowInv, Entries, OwnHalf
<1>5. Fresh(heard, conntrack)'
  BY <1>1 DEF FlowInv, Fresh, Alive, FlowTimeout, IdleLimit
<1>6. IdleLimit' = IdleLimit /\ IdleLimit \in Nat /\ TcpClosingTimeout \in Nat
  BY <1>1, CtAssumption DEF IdleLimit
<1>7. PeerHalf(heard, conntrack)'
  <2> SUFFICES ASSUME NEW j \in 1..Len(heard), PeerFin(heard, j), ctNow' - heard[j].at < IdleLimit
               PROVE  conntrack.st = "half" /\ conntrack.fin = "in" /\ conntrack.at >= heard[j].at
    BY <1>1, <1>6 DEF PeerHalf
  <2>1. ctNow - heard[j].at < IdleLimit
    BY <1>1, <1>2, <1>6, SMTT(30)
  <2> QED BY <2>1 DEF FlowInv, PeerHalf
<1>l. ASSUME NEW l PROVE SecondFin(heard, l)' <=> SecondFin(heard, l)
  BY <1>1, SameSecondFin
<1>8. BothHalves(heard, conntrack)'
  <2> SUFFICES ASSUME NEW l \in 1..Len(heard), SecondFin(heard, l)'
               PROVE  \/ Over(heard, l, Len(heard))
                      \/ conntrack.st = "closing" /\ conntrack.at = heard[l].at
                      \/ conntrack = NoFlow /\ ctNow' - heard[l].at >= TcpClosingTimeout
    BY <1>1 DEF BothHalves
  <2>2. \/ Over(heard, l, Len(heard))
        \/ conntrack.st = "closing" /\ conntrack.at = heard[l].at
        \/ conntrack = NoFlow /\ ctNow - heard[l].at >= TcpClosingTimeout
    BY <1>l DEF FlowInv, BothHalves
  <2>3. ctNow - heard[l].at >= TcpClosingTimeout => ctNow' - heard[l].at >= TcpClosingTimeout
    BY <1>1, <1>2, <1>6, SMTT(30)
  <2> QED BY <2>2, <2>3
<1>9. ReturnSolicited'
  BY <1>1, <1>6, <1>l DEF FlowInv, ReturnSolicited
<1> QED BY <1>3, <1>4, <1>5, <1>7, <1>8, <1>9 DEF FlowInv

LEMMA CtInit_Flow == CtInit => FlowInv
<1> SUFFICES ASSUME CtInit PROVE FlowInv
  OBVIOUS
<1>1. heard = <<>> /\ conntrack = NoFlow /\ ctNow \in Nat
  BY DEF CtInit
<1>2. Len(heard) = 0 /\ 1..0 = {} /\ DOMAIN heard = {}
  BY <1>1, SMTT(30)
<1>3. conntrack \in Entries /\ OwnHalf(heard, conntrack)
  BY <1>1, Plain DEF OwnHalf
<1> QED BY <1>1, <1>2, <1>3 DEF FlowInv, Fresh, PeerHalf, BothHalves, ReturnSolicited

LEMMA FlowStep == CtInv /\ FlowInv /\ [CtNext]_ctVars => FlowInv'
<1> SUFFICES ASSUME CtInv, FlowInv, [CtNext]_ctVars PROVE FlowInv'
  OBVIOUS
<1>c. CtInv'
  BY CtStep
<1>s. ctScene \in CtScenes /\ ctNow \in Nat /\ IsSeq(heard')
  BY <1>c DEF CtInv
<1>1. ASSUME NEW k \in ctScene.kinds, NEW shape, NEW key, NEW fits, Outgoing(k, shape, key, fits)
      PROVE  FlowInv'
  <2> PICK e : e = EvaluatePacket("out", k)
    OBVIOUS
  <2>1. /\ Note("out", k, IF e.by # "no" /\ fits THEN shape ELSE "unsent", key, e.by)
        /\ ctScene' = ctScene /\ ctNow' = ctNow /\ conntrack' = e.flow
    BY <1>1 DEF Outgoing
  <2>2. Moves("out", k, e.by, conntrack, conntrack')
    BY <1>s, <2>1, OutMoves
  <2> QED BY <1>s, <2>1, <2>2, PacketFlows
<1>2. ASSUME NEW k \in ctScene.kinds, NEW shape, NEW key, Incoming(k, shape, key)
      PROVE  FlowInv'
  <2>1. CASE shape = "first" /\ ctScene.ssh
    <3>1. Note("in", k, shape, key, "no") /\ Moves("in", k, "no", conntrack, conntrack')
          /\ ctScene' = ctScene /\ ctNow' = ctNow
      BY <1>2, <2>1 DEF Incoming, Note, Moves
    <3> QED BY <1>s, <3>1, PacketFlows
  <2>2. CASE ~(shape = "first" /\ ctScene.ssh)
    <3> PICK e : e = IF ctScene.exit THEN AdmitsReply(k) ELSE EvaluatePacket("in", k)
      OBVIOUS
    <3>1. /\ Note("in", k, shape, key, e.by)
          /\ ctScene' = ctScene /\ ctNow' = ctNow /\ conntrack' = e.flow
      BY <1>2, <2>2 DEF Incoming
    <3>2. Moves("in", k, e.by, conntrack, conntrack')
      BY <1>s, <3>1, InMoves
    <3> QED BY <1>s, <3>1, <3>2, PacketFlows
  <2> QED BY <2>1, <2>2
<1>3. ASSUME NEW dir \in Dirs, NEW key, LaterFragment(dir, key) PROVE FlowInv'
  <2> PICK by : by = IF Admits(verdicts[dir], key) THEN "first" ELSE "no"
    OBVIOUS
  <2>1. /\ Note(dir, "later", "later", key, by) /\ by \in {"first", "no"}
        /\ ctScene' = ctScene /\ ctNow' = ctNow /\ conntrack' = conntrack
    BY <1>3 DEF LaterFragment
  <2>2. Moves(dir, "later", by, conntrack, conntrack') /\ dir \in {"out", "in"}
    BY <2>1 DEF Moves, Dirs
  <2> QED BY <1>s, <2>1, <2>2, PacketFlows
<1>4. CASE EvictIdle
  <2>1. /\ conntrack # NoFlow => ~FlowActive(conntrack)
        /\ conntrack' = NoFlow /\ heard' = heard /\ ctScene' = ctScene /\ ctNow' = ctNow
    BY <1>4 DEF EvictIdle
  <2>2. Note("in", "rst", "whole", 0, "no") /\ Moves("in", "rst", "no", conntrack, conntrack')
    BY <2>1 DEF Note, Moves
  <2> QED BY <1>s, <2>1, <2>2, PacketFlows
<1>5. CASE (\E c \in ctScene.configs : SwapConfig(c)) \/ UNCHANGED ctVars
  <2>1. conntrack' = conntrack /\ heard' = heard /\ ctScene' = ctScene /\ ctNow' = ctNow
    BY <1>5 DEF SwapConfig, ctVars
  <2>2. Note("in", "data", "whole", 0, "no") /\ Moves("in", "data", "no", conntrack, conntrack')
    BY <2>1 DEF Note, Moves
  <2> QED BY <1>s, <2>1, <2>2, PacketFlows
<1>6. CASE CtTick
  BY <1>6, TickFlows
<1> QED BY <1>1, <1>2, <1>3, <1>4, <1>5, <1>6 DEF CtNext

\* Return traffic is solicited: it answers a flow this node opened, not reset
\* since and never idle for the timeout, and after both FINs it passes for the
\* closing window only (SharedFirewall::track_packet, FlowState::record), in any
\* order of packets, evictions and edits of the configuration, for any timeouts
\* of which the closing window is the shortest.
THEOREM ReturnSafe == CtSpec => []ReturnSolicited
<1>1. FlowInv => ReturnSolicited
  BY DEF FlowInv
<1> QED BY <1>1, CtInit_Inv, CtStep, CtInit_Flow, FlowStep, PTL DEF CtSpec
=============================================================================
