------------------------------ MODULE HostDns ------------------------------
(* Magic DNS on a Linux host without a DNS manager: the daemon takes over    *)
(* /etc/resolv.conf, keeps the host's own file as a backup, mutes            *)
(* NetworkManager, and watches the file. Nothing locks the file: the command *)
(* being served, retries, watchers, NetworkManager and another VPN all       *)
(* write it, and a task reads it in one step and writes it in a later one.   *)
(*                                                                           *)
(* A file is its author and the servers it names besides ours. The steps of  *)
(* a task run from one await to the next.                                    *)
EXTENDS Integers, FiniteSets

CONSTANTS DnsScenes  \* what each behaviour may meet: whether NetworkManager
                     \* runs, whether the host's server is NetworkManager's own
                     \* forwarder, whether another VPN comes and goes, and how
                     \* many commands, outside events, failed writes and crashes

Servers == {"host", "vpn"}       \* "vpn" is in the range of mesh addresses
NoFile == [text |-> "none", ns |-> {}]
HostFile == [text |-> "host", ns |-> {"host"}]
Retries == {"r1", "r2"}
Watchers == {"w1", "w2"}
Tasks == {"call"} \cup Retries \cup Watchers
Nobody == "nobody"

VARIABLES
  scene,     \* the member of DnsScenes of this behaviour
  file,      \* /etc/resolv.conf
  backup,    \* resolv.conf.before-rayfish
  dropin,    \* the dns=none snippet is installed
  answers,   \* servers that answer
  vpnSaved,  \* what the other VPN will put back, while it runs
  alive, active,
  held,      \* the configurator: the servers it forwards to, or {} for none
  retry,     \* the task whose token is in configure_retry
  reassert,  \* the task whose token is in reassert_token
  task,      \* [Tasks -> where the task is and what it has read]
  aborts,    \* NM_ABORTS, and NM_TAKEOVER_UNSAFE from two on
  used,      \* how much of the scene's budget is spent
  touched,   \* history: somebody else wrote the file
  late,      \* history: a task wrote after it was cancelled ("write") or adopted its
             \* backend ("adopted"), a sweep met a takeover ("sweep"), a backend was
             \* dropped under our file ("dropped"), or the other VPN put our file
             \* back ("vpn")
  gone       \* history: the resolver the file was shared with stopped answering

dnsVars == <<scene, file, backup, dropin, answers, vpnSaved, alive, active, held, retry,
             reassert, task, aborts, used, touched, late, gone>>

NoJob == [pc |-> "none", off |-> FALSE, ups |-> {}, seen |-> NoFile, goal |-> "none"]

DnsInit ==
  /\ scene \in DnsScenes
  /\ file = HostFile /\ backup = NoFile /\ dropin = FALSE
  /\ answers = {"host"} /\ vpnSaved = NoFile
  /\ alive = TRUE /\ active = FALSE
  /\ held = {} /\ retry = Nobody /\ reassert = Nobody
  /\ task = [t \in Tasks |-> NoJob]
  /\ aborts = 0
  /\ used = [calls |-> 0, events |-> 0, fails |-> 0, crashes |-> 0]
  /\ touched = FALSE /\ late = {} /\ gone = FALSE

Spend(what) ==
  /\ used[what] < scene[what]
  /\ used' = [used EXCEPT ![what] = @ + 1]

Unless(why, p) == late \cup (IF p THEN {} ELSE {why})

-----------------------------------------------------------------------------
(* The file.                                                                 *)

resolv_conf_is_ours(f) == f.text = "ours"
other_overlay_resolver(f) == "vpn" \in f.ns
render_direct_resolv_conf(ups) == [text |-> "ours", ns |-> ups]
strip_our_resolv_entries(f) ==
  IF resolv_conf_is_ours(f) THEN [text |-> "stripped", ns |-> f.ns] ELSE f

stale_backup_action(f) ==
  CASE other_overlay_resolver(f) -> "StripOurs"
    [] ~other_overlay_resolver(f) /\ resolv_conf_is_ours(f) -> "Restore"
    [] OTHER -> "Discard"

\* What a start, a configure and the panic hook do about a takeover that was
\* not undone.
restore_stale_backups ==
  LET does == stale_backup_action(file) IN
  /\ file' = CASE backup = NoFile -> file
               [] backup # NoFile /\ does = "StripOurs" -> strip_our_resolv_entries(file)
               [] backup # NoFile /\ does = "Restore" -> backup
               [] OTHER -> file
  /\ backup' = NoFile
  /\ dropin' = FALSE

\* What restore_file decides from the file it has read.
restore_file(f) ==
  CASE other_overlay_resolver(f) -> "subtract"
    [] ~other_overlay_resolver(f) /\ backup # NoFile -> "backup"
    [] ~other_overlay_resolver(f) /\ backup = NoFile /\ resolv_conf_is_ours(f) -> "strip"
    [] OTHER -> "leave"

\* Mutant: whatever is there is taken for the host's.
backup_file_any == IF backup # NoFile THEN backup ELSE file
\* Kept from the first takeover on, and never of a file that is ours.
backup_file == IF backup # NoFile \/ resolv_conf_is_ours(file) THEN backup ELSE file

\* Without a backup the panic hook still subtracts.
emergency_restore_resolv_conf ==
  LET does == stale_backup_action(file) IN
  /\ file' = CASE does = "StripOurs" -> strip_our_resolv_entries(file)
               [] does = "Restore" /\ backup # NoFile -> backup
               [] OTHER -> file
  /\ backup' = NoFile
  /\ dropin' = FALSE

\* A server that is NetworkManager's own forwarder stops with it.
Live == answers \ (IF scene.forwarder /\ dropin THEN {"host"} ELSE {})

-----------------------------------------------------------------------------
(* Tasks and their tokens.                                                   *)

At(t, pc) == task[t].pc = pc
Go(t, pc) == [task EXCEPT ![t].pc = pc]
End(t) == [task EXCEPT ![t] = NoJob]
Cancel(tk, t) == IF t = Nobody THEN tk ELSE [tk EXCEPT ![t].off = (@ \/ tk[t].pc # "none")]

\* spawn_configure_retry, after the tasks have become tk.
Spawn(tk) ==
  \E r \in Retries :
    /\ tk[r].pc = "none"
    /\ task' = [Cancel(tk, retry) EXCEPT ![r] = [NoJob EXCEPT !.pc = "wait"]]
    /\ retry' = r

\* A failed detection: the command leaves it to a retry, a retry goes on.
Fail(t) ==
  IF t = "call" THEN Spawn(End(t))
  ELSE task' = [task EXCEPT ![t] = [NoJob EXCEPT !.pc = "wait", !.off = task[t].off]] /\ UNCHANGED retry

\* revert, up to the first await: the background tasks are cancelled and the
\* configurator is taken.
Revert(t, goal) ==
  LET tk == Cancel(Cancel(task, retry), reassert) IN
  /\ task' = [tk EXCEPT ![t].goal = goal, ![t].pc = IF held = {} THEN "unquiet" ELSE "restore"]
  /\ retry' = Nobody /\ reassert' = Nobody /\ held' = {}

-----------------------------------------------------------------------------
(* Commands.                                                                 *)

\* `ray up`, or `ray dns on` when it is up.
configure ==
  /\ alive /\ At("call", "none") /\ Spend("calls")
  /\ active' = TRUE
  /\ IF held # {} THEN Revert("call", "configure")
     ELSE task' = Go("call", "stale") /\ UNCHANGED <<held, retry, reassert>>
  /\ UNCHANGED <<scene, file, backup, dropin, answers, vpnSaved, alive, aborts, touched, late, gone>>

SweepStale ==
  /\ At("call", "stale")
  /\ restore_stale_backups
  /\ task' = [Cancel(task, retry) EXCEPT !["call"] = [NoJob EXCEPT !.pc = "detect"]]
  /\ retry' = Nobody
  /\ late' = Unless("sweep", /\ held = {}
                              /\ \A t \in Retries \cup Watchers : task[t].pc \in {"none", "wait", "watch"})
  /\ UNCHANGED <<scene, answers, vpnSaved, alive, active, held, reassert, aborts, used, touched, gone>>

deactivate ==
  /\ alive /\ active /\ At("call", "none") /\ Spend("calls")
  /\ active' = FALSE
  /\ Revert("call", "down")
  /\ UNCHANGED <<scene, file, backup, dropin, answers, vpnSaved, alive, aborts, touched, late, gone>>

\* A join or a leave: read, then write if the file was ours.
set_search_domains ==
  /\ At("call", "none") /\ held # {} /\ Spend("calls")
  /\ task' = [task EXCEPT !["call"] = [NoJob EXCEPT !.pc = "domains", !.ups = held, !.seen = file]]
  /\ UNCHANGED <<scene, file, backup, dropin, answers, vpnSaved, alive, active, held, retry, reassert, aborts, touched, late, gone>>

WriteDomains ==
  /\ At("call", "domains")
  /\ file' = IF resolv_conf_is_ours(task["call"].seen)
             THEN render_direct_resolv_conf(task["call"].ups) ELSE file
  /\ task' = End("call")
  /\ late' = Unless("write", held # {})
  /\ UNCHANGED <<scene, backup, dropin, answers, vpnSaved, alive, active, held, retry, reassert, aborts, used, touched, gone>>

-----------------------------------------------------------------------------
(* restore_file and nm_quiet_remove, in whichever task reverts.              *)

ReadBack(t) ==
  /\ At(t, "restore")
  /\ task' = [task EXCEPT ![t].seen = file, ![t].pc = "put"]
  /\ UNCHANGED <<scene, file, backup, dropin, answers, vpnSaved, alive, active, held, retry, reassert, aborts, used, touched, late, gone>>

PutBack(t) ==
  LET does == restore_file(task[t].seen) IN
  /\ At(t, "put")
  /\ file' = CASE does \in {"subtract", "strip"} /\ resolv_conf_is_ours(task[t].seen)
                     -> strip_our_resolv_entries(task[t].seen)
               [] does = "backup" -> backup
               [] OTHER -> file
  /\ backup' = IF does \in {"subtract", "backup"} THEN NoFile ELSE backup
  /\ task' = Go(t, "unquiet")
  /\ UNCHANGED <<scene, dropin, answers, vpnSaved, alive, active, held, retry, reassert, aborts, used, touched, late, gone>>

\* The write fails. A cancelled retry gives up there.
PutFails(t) ==
  /\ At(t, "put") /\ Spend("fails")
  /\ task' = IF task[t].goal = "late" THEN End(t) ELSE Go(t, "unquiet")
  /\ UNCHANGED <<scene, file, backup, dropin, answers, vpnSaved, alive, active, held, retry, reassert, aborts, touched, late, gone>>

Unquiet(t) ==
  /\ At(t, "unquiet")
  /\ dropin' = FALSE
  /\ CASE task[t].goal \in {"down", "late"} -> task' = End(t) /\ UNCHANGED retry
       [] task[t].goal = "configure" -> task' = Go(t, "stale") /\ UNCHANGED retry
       [] task[t].goal = "abort" -> Fail(t)
       [] task[t].goal = "gone" ->
            IF task[t].off THEN task' = End(t) /\ UNCHANGED retry ELSE Spawn(End(t))
  /\ UNCHANGED <<scene, file, backup, answers, vpnSaved, alive, active, held, reassert, aborts, used, touched, late, gone>>

-----------------------------------------------------------------------------
(* Detection: DirectResolvConf::new and apply.                               *)

WakeUp(r) ==
  /\ At(r, "wait")
  /\ task' = IF task[r].off THEN End(r) ELSE Go(r, "detect")
  /\ UNCHANGED <<scene, file, backup, dropin, answers, vpnSaved, alive, active, held, retry, reassert, aborts, used, touched, late, gone>>

Capture(t) ==
  /\ At(t, "detect")
  /\ task' = [task EXCEPT ![t].seen = file, ![t].pc = "probe"]
  /\ UNCHANGED <<scene, file, backup, dropin, answers, vpnSaved, alive, active, held, retry, reassert, aborts, used, touched, late, gone>>

\* No takeover without a server that answers, nor once it proved unsafe.
Probe(t) ==
  LET before == task[t].seen.ns \cap Live IN
  /\ At(t, "probe")
  /\ IF before = {} \/ aborts >= 2 THEN Fail(t)
     ELSE task' = [task EXCEPT ![t].ups = before, ![t].pc = "backup"] /\ UNCHANGED retry
  /\ UNCHANGED <<scene, file, backup, dropin, answers, vpnSaved, alive, active, held, reassert, aborts, used, touched, late, gone>>

BackUp(t) ==
  /\ At(t, "backup")
  /\ backup' = backup_file
  /\ task' = Go(t, "quiet")
  /\ UNCHANGED <<scene, file, dropin, answers, vpnSaved, alive, active, held, retry, reassert, aborts, used, touched, late, gone>>

nm_quiet_install(t) ==
  /\ At(t, "quiet")
  /\ dropin' = scene.nm
  /\ task' = Go(t, "reprobe")
  /\ UNCHANGED <<scene, file, backup, answers, vpnSaved, alive, active, held, retry, reassert, aborts, used, touched, late, gone>>

\* nm_quiet_outcome: the servers that died with NetworkManager are dropped; if
\* that is all of them the takeover is undone, for good the second time.
Reprobe(t) ==
  LET after == task[t].ups \cap Live IN
  /\ At(t, "reprobe")
  /\ IF after = {} /\ task[t].ups # {}
     THEN /\ aborts' = IF aborts >= 2 THEN aborts ELSE aborts + 1
          /\ task' = [task EXCEPT ![t].goal = "abort", ![t].pc = "restore"]
     ELSE /\ aborts' = IF aborts >= 2 THEN aborts ELSE 0
          /\ task' = [task EXCEPT ![t].ups = after, ![t].pc = "write"]
  /\ UNCHANGED <<scene, file, backup, dropin, answers, vpnSaved, alive, active, held, retry, reassert, used, touched, late, gone>>

Write(t) ==
  /\ At(t, "write")
  /\ file' = render_direct_resolv_conf(task[t].ups)
  /\ task' = Go(t, "applied")
  /\ UNCHANGED <<scene, backup, dropin, answers, vpnSaved, alive, active, held, retry, reassert, aborts, used, touched, late, gone>>

\* A failed write leaves the host's file: the backup and the snippet go.
WriteFails(t) ==
  /\ At(t, "write") /\ Spend("fails")
  /\ backup' = IF resolv_conf_is_ours(file) THEN backup ELSE NoFile
  /\ dropin' = FALSE
  /\ Fail(t)
  /\ UNCHANGED <<scene, file, answers, vpnSaved, alive, active, held, reassert, aborts, touched, late, gone>>

\* Mutant: a retry that was cancelled while it detected adopts all the same.
Finish_unchecked(t) ==
  /\ At(t, "applied")
  /\ held' = task[t].ups
  /\ task' = [task EXCEPT ![t].seen = file, ![t].pc = "adopting", ![t].off = FALSE]
  /\ UNCHANGED <<scene, file, backup, dropin, answers, vpnSaved, alive, active, retry, reassert, aborts, used, touched, late, gone>>

\* A retry cancelled meanwhile undoes what it applied; otherwise the backend is
\* adopted, and the search domains' read is the next await.
Finish(t) ==
  /\ At(t, "applied")
  /\ IF task[t].off
     THEN /\ task' = [task EXCEPT ![t].goal = "late", ![t].pc = "restore"]
          /\ UNCHANGED held
     ELSE /\ held' = task[t].ups
          /\ task' = [task EXCEPT ![t].seen = file, ![t].pc = "adopting"]
  /\ UNCHANGED <<scene, file, backup, dropin, answers, vpnSaved, alive, active, retry, reassert, aborts, used, touched, late, gone>>

\* The domains are written and a watcher takes over. A retry clears the cell of
\* the tokens, whosever token is in it.
adopt_configurator(t) ==
  /\ At(t, "adopting")
  /\ file' = IF resolv_conf_is_ours(task[t].seen)
             THEN render_direct_resolv_conf(task[t].ups) ELSE file
  /\ \E w \in Watchers :
       /\ task[w].pc = "none"
       /\ reassert' = w
       /\ task' = [Cancel(End(t), reassert) EXCEPT
                     ![w] = [NoJob EXCEPT !.pc = "watch", !.ups = task[t].ups]]
  /\ retry' = IF t \in Retries THEN Nobody ELSE retry
  /\ late' = Unless("adopted", ~task[t].off)
  /\ UNCHANGED <<scene, backup, dropin, answers, vpnSaved, alive, active, held, aborts, used, touched, gone>>

-----------------------------------------------------------------------------
(* run_resolv_reassert and recapture.                                        *)

\* One pass reads the file. A select that finds its token cancelled and an
\* event ready may still take the event.
pass(w) ==
  /\ At(w, "watch") /\ ~resolv_conf_is_ours(file)
  /\ task' = [task EXCEPT ![w].pc =
       IF other_overlay_resolver(file) \/ "vpn" \in task[w].ups THEN "verdict" ELSE "rewrite"]
  /\ UNCHANGED <<scene, file, backup, dropin, answers, vpnSaved, alive, active, held, retry, reassert, aborts, used, touched, late, gone>>

Rewrite(w) ==
  /\ At(w, "rewrite")
  /\ file' = render_direct_resolv_conf(task[w].ups)
  /\ task' = Go(w, "watch")
  /\ late' = Unless("write", ~task[w].off)
  /\ UNCHANGED <<scene, backup, dropin, answers, vpnSaved, alive, active, held, retry, reassert, aborts, used, touched, gone>>

\* The second missed probe of the resolver the file is shared with.
Tick(w) ==
  /\ At(w, "watch") /\ ~task[w].off
  /\ "vpn" \in task[w].ups \ answers
  /\ task' = [task EXCEPT ![w].pc = "verdict", ![w].goal = "gone"]
  /\ UNCHANGED <<scene, file, backup, dropin, answers, vpnSaved, alive, active, held, retry, reassert, aborts, used, touched, late, gone>>

Stop(w) ==
  /\ task[w].off /\ task[w].pc \in {"watch", "verdict"}
  /\ task' = End(w)
  /\ UNCHANGED <<scene, file, backup, dropin, answers, vpnSaved, alive, active, held, retry, reassert, aborts, used, touched, late, gone>>

\* Mutant: the new detection is not started.
recapture_idle(w) ==
  /\ At(w, "verdict") /\ ~task[w].off
  /\ IF task[w].goal = "gone"
     THEN Revert(w, "gone") /\ gone' = TRUE
     ELSE /\ reassert' = Nobody /\ held' = {}
          /\ task' = End(w)
          /\ UNCHANGED <<gone, retry>>
  /\ UNCHANGED <<scene, file, backup, dropin, answers, vpnSaved, alive, active, aborts, used, touched, late>>

\* The backend is dropped, not reverted, and detected again from the file as
\* it stands; with the shared resolver gone it is reverted first.
recapture(w) ==
  /\ At(w, "verdict") /\ ~task[w].off
  /\ IF task[w].goal = "gone"
     THEN Revert(w, "gone") /\ gone' = TRUE /\ UNCHANGED late
     ELSE /\ reassert' = Nobody /\ held' = {}
          /\ Spawn(End(w))
          /\ late' = Unless("dropped", ~resolv_conf_is_ours(file))
          /\ UNCHANGED gone
  /\ UNCHANGED <<scene, file, backup, dropin, answers, vpnSaved, alive, active, aborts, used, touched>>

-----------------------------------------------------------------------------
(* The rest of the host.                                                     *)

\* NetworkManager, unless it is muted, or a DHCP client writes the file.
OtherWrites ==
  /\ ~(scene.nm /\ dropin) /\ Spend("events")
  /\ file' = [text |-> "dhcp", ns |-> {"host"}]
  /\ touched' = TRUE
  /\ UNCHANGED <<scene, backup, dropin, answers, vpnSaved, alive, active, held, retry, reassert, task, aborts, late, gone>>

VpnUp ==
  /\ scene.vpn /\ vpnSaved = NoFile /\ Spend("events")
  /\ vpnSaved' = file
  /\ file' = [text |-> "vpn", ns |-> {"vpn"}]
  /\ answers' = answers \cup {"vpn"}
  /\ touched' = TRUE
  /\ UNCHANGED <<scene, backup, dropin, alive, active, held, retry, reassert, task, aborts, late, gone>>

\* It puts back what it found, over its own file only.
VpnDown ==
  /\ vpnSaved # NoFile /\ Spend("events")
  /\ file' = IF file.text = "vpn" THEN vpnSaved ELSE file
  /\ vpnSaved' = NoFile
  /\ answers' = answers \ {"vpn"}
  /\ late' = Unless("vpn", ~(file.text = "vpn" /\ resolv_conf_is_ours(vpnSaved)))
  /\ UNCHANGED <<scene, backup, dropin, alive, active, held, retry, reassert, task, aborts, touched, gone>>

\* The host's server stops answering, or comes back.
Blip ==
  /\ Spend("events")
  /\ answers' = IF "host" \in answers THEN answers \ {"host"} ELSE answers \cup {"host"}
  /\ UNCHANGED <<scene, file, backup, dropin, vpnSaved, alive, active, held, retry, reassert, task, aborts, touched, late, gone>>

\* The daemon is killed, or panics and cleans up first.
DaemonDies(panic) ==
  /\ alive /\ Spend("crashes")
  /\ alive' = FALSE /\ active' = FALSE
  /\ held' = {} /\ retry' = Nobody /\ reassert' = Nobody
  /\ task' = [t \in Tasks |-> NoJob]
  /\ aborts' = 0
  /\ IF panic THEN emergency_restore_resolv_conf ELSE UNCHANGED <<file, backup, dropin>>
  /\ UNCHANGED <<scene, answers, vpnSaved, touched, late, gone>>

DaemonStarts ==
  /\ ~alive
  /\ alive' = TRUE
  /\ restore_stale_backups
  /\ UNCHANGED <<scene, answers, vpnSaved, active, held, retry, reassert, task, aborts, used, touched, late, gone>>

DnsNext ==
  \/ configure \/ SweepStale \/ deactivate \/ set_search_domains \/ WriteDomains
  \/ \E t \in Tasks : ReadBack(t) \/ PutBack(t) \/ PutFails(t) \/ Unquiet(t)
  \/ \E t \in Tasks \ Watchers :
       \/ Capture(t) \/ Probe(t) \/ BackUp(t) \/ nm_quiet_install(t) \/ Reprobe(t)
       \/ Write(t) \/ WriteFails(t) \/ Finish(t) \/ adopt_configurator(t)
  \/ \E r \in Retries : WakeUp(r)
  \/ \E w \in Watchers : pass(w) \/ Rewrite(w) \/ Tick(w) \/ Stop(w) \/ recapture(w)
  \/ OtherWrites \/ VpnUp \/ VpnDown \/ Blip
  \/ DaemonDies(TRUE) \/ DaemonDies(FALSE) \/ DaemonStarts

DnsSpec == DnsInit /\ [][DnsNext]_dnsVars

-----------------------------------------------------------------------------
Texts == {"none", "host", "dhcp", "vpn", "ours", "stripped"}

\* The values the variables take; a token in a cell belongs to a task that has
\* not ended.
DnsTypeOK ==
  /\ file.text \in Texts /\ backup.text \in Texts /\ vpnSaved.text \in Texts
  /\ file.ns \subseteq Servers /\ held \subseteq Servers /\ answers \subseteq Servers
  /\ retry \in Retries \cup {Nobody} /\ reassert \in Watchers \cup {Nobody}
  /\ retry # Nobody => task[retry].pc # "none"
  /\ reassert # Nobody => task[reassert].pc # "none"
  /\ aborts \in 0 .. 2

\* The backup is never a file of ours, whatever the other VPN puts back: a
\* later `ray down` would restore a resolver nobody answers on.  And no write
\* leaves the host without a server besides ours that answered when the file
\* was taken over.
BackupIsHost == ~resolv_conf_is_ours(backup) /\ file.ns # {}

Quiet(t) == task[t].pc = "none" \/ (task[t].pc = "watch" /\ ~task[t].off)

\* On standby, with no task at work, NetworkManager is not muted, our file is
\* gone, and if nobody else wrote it the host's own file is back. The exceptions
\* are what a task had begun before it was cancelled, and a takeover that met
\* the sweep of another or was given up on a read since outdated.
DownIsClean ==
  alive /\ ~active /\ (\A t \in Tasks : Quiet(t)) /\ used.fails = 0 =>
    /\ "adopted" \in late \/ ~dropin
    /\ late # {} \/ ~resolv_conf_is_ours(file)
    /\ late # {} \/ touched \/ file = HostFile

\* While the data plane is up, a backend is held, or a task is on the way to
\* one; the exception is a shared resolver that stopped answering.
ActiveServed ==
  alive /\ active /\ Quiet("call") =>
    \/ held # {} \/ gone
    \/ \E r \in Retries : ~Quiet(r) /\ ~task[r].off

\* When the shared resolver is gone the takeover is undone, so that the file
\* can be regenerated, and the retry loop takes it over again. It does not:
\* the revert cancels the token that recapture then finds cancelled.
ReleasedIsRetaken ==
  alive /\ active /\ gone /\ Quiet("call") =>
    \/ held # {}
    \/ \E t \in Retries \cup Watchers : task[t].pc \notin {"none", "watch"}
====
