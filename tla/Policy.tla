------------------------------- MODULE Policy -------------------------------
(* A node's saved networks, their invite ledgers and the firewall rules that   *)
(* name them, while rules are edited and a network is renamed: the rename's    *)
(* intent file, the steps behind it, failed saves, crashes and the start that  *)
(* finishes what a crash interrupted.                                          *)
EXTENDS Integers, FiniteSets

CONSTANTS
  Editors,   \* firewall edits that may run at the same time
  NetNames,  \* local network names
  NetKeys,   \* networks; the first one saved is FirstNet under FirstName
  FirstNet, FirstName,
  PlScenes,  \* bounds of a behaviour, see PlInit
  NoEntry     \* no network, ledger or intent

\* Who holds SharedFirewall::edits is told apart: an edit, a rename or no one.
ASSUME HoldersApart == NoEntry # "rename" /\ NoEntry \notin Editors /\ "rename" \notin Editors

VARIABLES
  plScene,   \* the bounds chosen for this behaviour
  netFile,   \* networks/<name>.toml: the network and the name inside
  ledgerOf,  \* invites/<name>.toml: whose invites it holds
  intent,    \* rename-intent.toml
  ruleFile,  \* firewall.toml: rules, each meant for a network and naming one
  rules,     \* SharedFirewall::inner
  landed,    \* what the edits made so far amount to
  unsaved,   \* the last save of the rules failed, perhaps before a restart
  editLock,  \* who holds SharedFirewall::edits
  edit,    \* the firewall edits under way
  rename,    \* the rename under way, of a command or of the start
  moved,     \* networks whose rename was committed
  plLeft     \* what the bounds leave

plVars == <<plScene, netFile, ledgerOf, intent, ruleFile, rules, landed, unsaved, editLock,
            edit, rename, moved, plLeft>>

-----------------------------------------------------------------------------
Rules == [net : NetKeys, name : NetNames]
IdleEdit == [at |-> "idle", change |-> NoEntry, read |-> {}]
IdleRename == [at |-> "idle", boot |-> FALSE, from |-> NoEntry, to |-> NoEntry]

\* A saved network is restored only under the name its file has inside.
Loads(n) == netFile[n] # NoEntry /\ netFile[n].name = n

Up == rename.at # "down"

\* NETWORK_CONFIG_LOCK is held across the config half of a rename.
ConfigLocked == rename.at \in {"move", "ledger", "name"}

Take(field) == plLeft[field] > 0 /\ plLeft' = [plLeft EXCEPT ![field] = @ - 1]

\* FirewallConfig::rename_network.
Renamed(s, from, to) == {IF r.name = from THEN [r EXCEPT !.name = to] ELSE r : r \in s}

\* What an edit makes of the rules.
Edited(s, c) ==
  CASE c.op = "add" -> s \cup {c.rule}
    [] c.op = "remove" -> s \ {c.rule}

PlInit ==
  /\ plScene \in PlScenes
  /\ netFile = [n \in NetNames |-> IF n = FirstName THEN [net |-> FirstNet, name |-> n] ELSE NoEntry]
  /\ ledgerOf = [n \in NetNames |-> IF n = FirstName THEN FirstNet ELSE NoEntry]
  /\ intent = NoEntry
  /\ ruleFile = {[net |-> FirstNet, name |-> FirstName]} /\ rules = ruleFile /\ landed = ruleFile
  /\ unsaved = FALSE
  /\ editLock = NoEntry
  /\ edit = [e \in Editors |-> IdleEdit]
  /\ rename = IdleRename
  /\ moved = {}
  /\ plLeft = plScene

-----------------------------------------------------------------------------
(* try_edit *)

\* A mutant: the edit starts from a snapshot taken before the lock.
EditLoad_unlocked(e, c) ==
  /\ Up /\ ~rename.boot /\ edit[e].at = "idle"
  /\ Take("edits")
  /\ edit' = [edit EXCEPT ![e] = [at |-> "loaded", change |-> c, read |-> rules]]
  /\ UNCHANGED <<plScene, netFile, ledgerOf, intent, ruleFile, rules, landed, unsaved, editLock,
                 rename, moved>>

\* An edit (firewall_add, firewall_remove) takes the lock and reads the rules.
EditLoad(e, c) ==
  /\ Up /\ ~rename.boot /\ edit[e].at = "idle" /\ editLock = NoEntry
  /\ Take("edits")
  /\ editLock' = e
  /\ edit' = [edit EXCEPT ![e] = [at |-> "loaded", change |-> c, read |-> rules]]
  /\ UNCHANGED <<plScene, netFile, ledgerOf, intent, ruleFile, rules, landed, unsaved, rename, moved>>

\* It stores what it made of them.
EditStore(e) ==
  /\ edit[e].at = "loaded"
  /\ rules' = Edited(edit[e].read, edit[e].change)
  /\ landed' = Edited(landed, edit[e].change)
  /\ edit' = [edit EXCEPT ![e].at = "stored"]
  /\ UNCHANGED <<plScene, netFile, ledgerOf, intent, ruleFile, unsaved, editLock, rename, moved, plLeft>>

\* It saves them, or only warns that it could not, and gives the lock back.
EditPersist(e, fails) ==
  /\ edit[e].at = "stored"
  /\ IF fails THEN Take("unsaves") ELSE UNCHANGED plLeft
  /\ ruleFile' = IF fails THEN ruleFile ELSE rules
  /\ unsaved' = fails
  /\ editLock' = NoEntry
  /\ edit' = [edit EXCEPT ![e] = IdleEdit]
  /\ UNCHANGED <<plScene, netFile, ledgerOf, intent, rules, landed, rename, moved>>

\* What a user edits: rules of networks this node is on.
Changes ==
  {[op |-> "add", rule |-> [net |-> netFile[n].net, name |-> n]] : n \in {m \in NetNames : Loads(m)}}
    \cup {[op |-> "remove", rule |-> r] : r \in rules}

-----------------------------------------------------------------------------
(* rename *)

Goto(at) == rename' = [rename EXCEPT !.at = at]

\* The config half failed or found nothing: a command ends with an error, the
\* start goes on without it. The intent stands.
GiveUp == rename' = IdleRename

\* rename_network's checks. The network is taken down for the rename.
RenameCheck(from, to) ==
  /\ rename.at = "idle" /\ Loads(from) /\ netFile[to] = NoEntry /\ intent = NoEntry
  /\ Take("renames")
  /\ rename' = [at |-> "intent", boot |-> FALSE, from |-> from, to |-> to]
  /\ UNCHANGED <<plScene, netFile, ledgerOf, intent, ruleFile, rules, landed, unsaved, editLock,
                 edit, moved>>

\* config::rename_network checks again under the lock and saves the intent: from
\* here the rename is committed.
SaveIntent(fails) ==
  /\ rename.at = "intent"
  /\ LET ok == Loads(rename.from) /\ netFile[rename.to] = NoEntry /\ intent = NoEntry
     IN IF ok /\ ~fails
        THEN /\ intent' = [from |-> rename.from, to |-> rename.to]
             /\ moved' = moved \cup {netFile[rename.from].net}
             /\ Goto("move")
        ELSE GiveUp /\ UNCHANGED <<intent, moved>>
  /\ IF fails THEN Take("fails") ELSE UNCHANGED plLeft
  /\ UNCHANGED <<plScene, netFile, ledgerOf, ruleFile, rules, landed, unsaved, editLock, edit>>

\* finish_rename, first the network's file. A start that finds a file under each
\* name, or under neither, drops the rename.
MoveFile(fails) ==
  /\ rename.at = "move"
  /\ LET source == netFile[rename.from]  target == netFile[rename.to]
         move == source # NoEntry /\ target = NoEntry
     IN /\ fails => move
        /\ netFile' = IF move /\ ~fails
                      THEN [netFile EXCEPT ![rename.to] = source, ![rename.from] = NoEntry]
                      ELSE netFile
        /\ IF fails THEN GiveUp
           ELSE IF (source # NoEntry /\ target # NoEntry) \/ (source = NoEntry /\ target = NoEntry)
           THEN IF rename.boot THEN Goto("clear") ELSE GiveUp
           ELSE Goto("ledger")
  /\ IF fails THEN Take("fails") ELSE UNCHANGED plLeft
  /\ UNCHANGED <<plScene, ledgerOf, intent, ruleFile, rules, landed, unsaved, editLock, edit, moved>>

\* Then its invite ledger, over one left under the new name.
MoveLedger(fails) ==
  /\ rename.at = "ledger"
  /\ fails => ledgerOf[rename.from] # NoEntry
  /\ ledgerOf' = IF fails \/ ledgerOf[rename.from] = NoEntry THEN ledgerOf
                 ELSE [ledgerOf EXCEPT ![rename.to] = ledgerOf[rename.from], ![rename.from] = NoEntry]
  /\ IF fails THEN GiveUp ELSE Goto("name")
  /\ IF fails THEN Take("fails") ELSE UNCHANGED plLeft
  /\ UNCHANGED <<plScene, netFile, intent, ruleFile, rules, landed, unsaved, editLock, edit, moved>>

\* Then the name inside the file.
RewriteName(fails) ==
  /\ rename.at = "name"
  /\ netFile' = IF fails THEN netFile ELSE [netFile EXCEPT ![rename.to].name = rename.to]
  /\ IF fails THEN GiveUp ELSE Goto(IF rename.boot THEN "saved" ELSE "rules")
  /\ IF fails THEN Take("fails") ELSE UNCHANGED plLeft
  /\ UNCHANGED <<plScene, ledgerOf, intent, ruleFile, rules, landed, unsaved, editLock, edit, moved>>

\* A mutant: the intent is cleared before the rules are saved.
FollowRules_early ==
  /\ rename.at = "rules" /\ editLock = NoEntry
  /\ intent' = NoEntry
  /\ rules' = Renamed(rules, rename.from, rename.to)
  /\ landed' = Renamed(landed, rename.from, rename.to)
  /\ editLock' = "rename"
  /\ Goto("persist")
  /\ UNCHANGED <<plScene, netFile, ledgerOf, ruleFile, unsaved, edit, moved, plLeft>>

\* follow_rename: the live rules follow the name, under the edit lock. With no
\* rule naming the network nothing is saved.
FollowRules ==
  /\ rename.at = "rules" /\ editLock = NoEntry
  /\ rules' = Renamed(rules, rename.from, rename.to)
  /\ landed' = Renamed(landed, rename.from, rename.to)
  /\ IF rules' = rules THEN Goto("clear") /\ UNCHANGED editLock
     ELSE Goto("persist") /\ editLock' = "rename"
  /\ UNCHANGED <<plScene, netFile, ledgerOf, intent, ruleFile, unsaved, edit, moved, plLeft>>

\* The rules are saved; if they could not be, the intent stays.
FollowPersist(fails) ==
  /\ rename.at = "persist"
  /\ ruleFile' = IF fails THEN ruleFile ELSE rules
  /\ unsaved' = fails
  /\ editLock' = NoEntry
  /\ IF fails THEN GiveUp ELSE Goto("clear")
  /\ IF fails THEN Take("fails") ELSE UNCHANGED plLeft
  /\ UNCHANGED <<plScene, netFile, ledgerOf, intent, rules, landed, edit, moved>>

\* finish_interrupted_rename on the saved rules, before anything reads them.
FinishRules(fails) ==
  /\ rename.at = "saved"
  /\ LET s == Renamed(ruleFile, rename.from, rename.to)
     IN /\ fails => s # ruleFile
        /\ ruleFile' = IF fails THEN ruleFile ELSE s
        /\ rules' = ruleFile' /\ landed' = ruleFile'
  /\ IF fails THEN GiveUp ELSE Goto("clear")
  /\ IF fails THEN Take("fails") ELSE UNCHANGED plLeft
  /\ UNCHANGED <<plScene, netFile, ledgerOf, intent, unsaved, editLock, edit, moved>>

\* The intent is cleared.
ClearIntent(fails) ==
  /\ rename.at = "clear"
  /\ intent' = IF fails THEN intent ELSE NoEntry
  /\ GiveUp
  /\ IF fails THEN Take("fails") ELSE UNCHANGED plLeft
  /\ UNCHANGED <<plScene, netFile, ledgerOf, ruleFile, rules, landed, unsaved, editLock, edit, moved>>

-----------------------------------------------------------------------------
\* A network is created, or joined, under a name no network holds. Its config
\* is saved; the intent file is not consulted.
CreateNetwork(net, n) ==
  /\ Up /\ ~rename.boot /\ ~ConfigLocked /\ netFile[n] = NoEntry
  /\ \A m \in NetNames : netFile[m] # NoEntry => netFile[m].net # net
  /\ Take("creates")
  /\ netFile' = [netFile EXCEPT ![n] = [net |-> net, name |-> n]]
  /\ UNCHANGED <<plScene, ledgerOf, intent, ruleFile, rules, landed, unsaved, editLock, edit, rename, moved>>

\* The daemon dies, in the middle of whatever it was doing.
Die ==
  /\ Up
  /\ Take("crashes")
  /\ rename' = [IdleRename EXCEPT !.at = "down"]
  /\ edit' = [e \in Editors |-> IdleEdit]
  /\ editLock' = NoEntry
  /\ UNCHANGED <<plScene, netFile, ledgerOf, intent, ruleFile, rules, landed, unsaved, moved>>

\* It starts: an intent is finished first, then the rules are read.
PlBoot ==
  /\ ~Up
  /\ rename' = IF intent = NoEntry THEN IdleRename
               ELSE [at |-> "move", boot |-> TRUE, from |-> intent.from, to |-> intent.to]
  /\ rules' = ruleFile /\ landed' = ruleFile /\ unsaved' = FALSE
  /\ UNCHANGED <<plScene, netFile, ledgerOf, intent, ruleFile, editLock, edit, moved, plLeft>>

PlNext ==
  \/ \E e \in Editors, c \in Changes : EditLoad(e, c)
  \/ \E e \in Editors : EditStore(e)
  \/ \E e \in Editors, f \in BOOLEAN : EditPersist(e, f)
  \/ \E n \in NetNames, m \in NetNames : RenameCheck(n, m)
  \/ \E f \in BOOLEAN :
       \/ SaveIntent(f) \/ MoveFile(f) \/ MoveLedger(f) \/ RewriteName(f)
       \/ FollowPersist(f) \/ FinishRules(f) \/ ClearIntent(f)
  \/ FollowRules
  \/ \E net \in NetKeys, n \in NetNames : CreateNetwork(net, n)
  \/ Die \/ PlBoot

PlSpec == PlInit /\ [][PlNext]_plVars

-----------------------------------------------------------------------------
\* Types of the files, the rules and what is under way.
PlTypeOK ==
  /\ \A n \in NetNames : netFile[n] # NoEntry => netFile[n] \in [net : NetKeys, name : NetNames]
  /\ \A n \in NetNames : ledgerOf[n] \in NetKeys \cup {NoEntry}
  /\ ruleFile \subseteq Rules /\ rules \subseteq Rules
  /\ editLock \in Editors \cup {NoEntry, "rename"}
  /\ \A e \in Editors : edit[e].at \in {"idle", "loaded", "stored"}

\* SharedFirewall::try_edit: no edit is lost to one that ran at the same time, a
\* rename's included, and once the last one is done the saved file holds what
\* the live rules hold, unless that last save failed.
EditsLand ==
  /\ rules = landed
  /\ (Up /\ ~rename.boot /\ editLock = NoEntry /\ ~unsaved) => ruleFile = rules

\* A rename, once committed, is finished by the command or by the next start:
\* whenever no rename is under way and no intent stands, the renamed network is
\* saved once, loads under its name, and its invites and rules go by that name.
RenameFollows ==
  rename = IdleRename /\ intent = NoEntry =>
    \A net \in moved : \E n \in NetNames :
      /\ Loads(n) /\ netFile[n].net = net
      /\ \A m \in NetNames : netFile[m] # NoEntry /\ netFile[m].net = net => m = n
      /\ \A m \in NetNames : ledgerOf[m] = net => m = n
      /\ \A r \in rules : r.net = net => r.name = n
=============================================================================
