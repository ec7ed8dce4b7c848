--------------------------- MODULE HostDnsProofs ---------------------------
(***************************************************************************)
(* HostDns, for any backends, networks and retries: a backup is the host's *)
(* own configuration, and DNS that is active is served.                    *)
(***************************************************************************)
EXTENDS HostDns, TLAPS

\* Most steps are first-order; the ones that need arithmetic or sequences cite SMT.
USE ZenonT(30)

-----------------------------------------------------------------------------
(* HostDns. What a task writes later comes from what it has read, so the     *)
(* invariant speaks of every copy of a file and of a set of servers.         *)

ResolvFiles == [text : Texts, ns : SUBSET Servers]
Goals == {"none", "down", "late", "configure", "abort", "gone"}
Reading == {"put", "probe"}
Serving == {"backup", "quiet", "reprobe", "write", "applied", "adopting", "domains",
            "watch", "rewrite", "verdict"}
Reverting == {"restore", "put", "unquiet"}
Steps == Reading \cup Serving \cup Reverting \cup {"none", "stale", "detect", "wait"}
Job == [pc : Steps, off : BOOLEAN, ups : SUBSET Servers, seen : ResolvFiles, goal : Goals]

\* A task that will write what it read has read a file with servers, and one that
\* has probed has servers to forward to; one that reverts knows why.
JobSound(j) ==
  /\ j \in Job
  /\ j.pc \in Reading => j.seen.ns # {}
  /\ j.pc \in Serving => j.ups # {}
  /\ j.pc \in Reverting => j.goal # "none"
TasksSound(tk) == tk \in [Tasks -> Job] /\ \A t \in Tasks : JobSound(tk[t])
DnsInv ==
  /\ file \in ResolvFiles /\ file.ns # {}
  /\ backup \in ResolvFiles /\ (backup = NoFile \/ (backup.ns # {} /\ backup.text # "ours"))
  /\ vpnSaved \in ResolvFiles /\ (vpnSaved = NoFile \/ vpnSaved.ns # {})
  /\ held \subseteq Servers
  /\ TasksSound(task)

LEMMA NoJobSound == JobSound(NoJob)
BY DEF JobSound, NoJob, Job, Steps, Reading, Serving, Reverting, Goals, ResolvFiles, NoFile, Texts

LEMMA SetJob ==
  ASSUME NEW tk, TasksSound(tk), NEW t, NEW j, JobSound(j)
  PROVE  TasksSound([tk EXCEPT ![t] = j])
BY DEF TasksSound, JobSound

LEMMA CancelSound ==
  ASSUME NEW tk, TasksSound(tk), NEW t
  PROVE  TasksSound(Cancel(tk, t))
<1>1. CASE t \notin Tasks
  BY <1>1 DEF Cancel, TasksSound
<1>2. CASE t \in Tasks
  <2> DEFINE j == [tk[t] EXCEPT !.off = (@ \/ tk[t].pc # "none")]
  <2>1. JobSound(tk[t]) /\ tk[t] \in Job BY <1>2 DEF TasksSound
  <2>2. j \in Job BY <2>1 DEF Job
  <2>3. JobSound(j) BY <2>1, <2>2 DEF JobSound, Job
  <2>4. Cancel(tk, t) = IF t = Nobody THEN tk ELSE [tk EXCEPT ![t] = j]
    BY <1>2 DEF Cancel, TasksSound
  <2> HIDE DEF j
  <2> QED BY SMTT(30), <2>3, <2>4, SetJob
<1> QED BY <1>1, <1>2

\* A step that changes fields of one task besides its token.
LEMMA SetFields ==
  ASSUME NEW tk, TasksSound(tk), NEW t \in Tasks, NEW pc \in Steps, NEW goal \in Goals,
         NEW seen \in ResolvFiles, NEW ups \in SUBSET Servers,
         pc \in Reading => seen.ns # {}, pc \in Serving => ups # {},
         pc \in Reverting => goal # "none"
  PROVE  TasksSound([tk EXCEPT ![t] = [@ EXCEPT !.pc = pc, !.goal = goal, !.seen = seen,
                                                !.ups = ups]])
<1> DEFINE j == [tk[t] EXCEPT !.pc = pc, !.goal = goal, !.seen = seen, !.ups = ups]
<1>1. tk[t] \in Job BY DEF TasksSound
<1>2. j \in Job BY <1>1 DEF Job
<1>3. JobSound(j) BY <1>1, <1>2 DEF JobSound, Job
<1>4. [tk EXCEPT ![t] = [@ EXCEPT !.pc = pc, !.goal = goal, !.seen = seen, !.ups = ups]]
        = [tk EXCEPT ![t] = j]
  BY DEF TasksSound
<1> HIDE DEF j
<1> QED BY <1>3, <1>4, SetJob

LEMMA EndSound ==
  ASSUME TasksSound(task), NEW t
  PROVE  TasksSound(End(t))
BY SetJob, NoJobSound DEF End

LEMMA SpawnSound ==
  ASSUME NEW tk, TasksSound(tk), Spawn(tk)
  PROVE  TasksSound(task')
<1>1. JobSound([NoJob EXCEPT !.pc = "wait"])
  BY DEF JobSound, NoJob, Job, Steps, Reading, Serving, Reverting, Goals, ResolvFiles, NoFile, Texts
<1>2. PICK r \in Retries : task' = [Cancel(tk, retry) EXCEPT ![r] = [NoJob EXCEPT !.pc = "wait"]]
  BY DEF Spawn
<1>3. TasksSound(Cancel(tk, retry)) BY CancelSound
<1> QED BY <1>1, <1>2, <1>3, SetJob

LEMMA FailSound ==
  ASSUME TasksSound(task), NEW t \in Tasks, Fail(t)
  PROVE  TasksSound(task')
<1>1. CASE t = "call" BY <1>1, EndSound, SpawnSound DEF Fail
<1>2. CASE t # "call"
  <2> DEFINE j == [NoJob EXCEPT !.pc = "wait", !.off = task[t].off]
  <2>1. task[t].off \in BOOLEAN BY DEF TasksSound, Job
  <2>2. JobSound(j)
    BY <2>1 DEF JobSound, NoJob, Job, Steps, Reading, Serving, Reverting, Goals, ResolvFiles, NoFile, Texts
  <2> QED BY SMTT(30), <1>2, <2>2, SetJob DEF Fail
<1> QED BY <1>1, <1>2

LEMMA RevertSound ==
  ASSUME TasksSound(task), NEW t \in Tasks, NEW goal \in Goals \ {"none"}, Revert(t, goal)
  PROVE  TasksSound(task')
<1> DEFINE tk == Cancel(Cancel(task, retry), reassert)
<1>1. TasksSound(tk) BY CancelSound
<1> DEFINE pc == IF held = {} THEN "unquiet" ELSE "restore"
<1>2. pc \in Steps /\ pc \notin Reading /\ pc \notin Serving
  BY DEF Steps, Reading, Serving, Reverting
<1>3. task' = [tk EXCEPT ![t].goal = goal, ![t].pc = pc]
  BY DEF Revert
<1> HIDE DEF tk, pc
<1>4. tk[t] \in Job /\ t \in DOMAIN tk BY <1>1 DEF TasksSound
<1>5. task' = [tk EXCEPT ![t] = [@ EXCEPT !.pc = pc, !.goal = goal, !.seen = tk[t].seen,
                                          !.ups = tk[t].ups]]
  BY <1>1, <1>3, <1>4 DEF Job, TasksSound
<1> QED BY <1>1, <1>2, <1>4, <1>5, SetFields DEF Job

LEMMA DnsFrame ==
  ASSUME DnsInv, UNCHANGED <<file, backup, vpnSaved>>, held' \in SUBSET Servers, TasksSound(task')
  PROVE  DnsInv'
BY DEF DnsInv

\* A step of one task that only moves it on.
LEMMA MovesOn ==
  ASSUME DnsInv, NEW t \in Tasks, NEW pc \in Steps,
         pc \in Reading => task[t].seen.ns # {}, pc \in Serving => task[t].ups # {},
         pc \in Reverting => task[t].goal # "none"
  PROVE  TasksSound(Go(t, pc))
<1>1. task[t] \in Job /\ task \in [Tasks -> Job] BY DEF DnsInv, TasksSound
<1>2. Go(t, pc) = [task EXCEPT ![t] = [@ EXCEPT !.pc = pc, !.goal = task[t].goal,
                                       !.seen = task[t].seen, !.ups = task[t].ups]]
  BY <1>1 DEF Go, Job
<1>3. /\ task[t].goal \in Goals /\ task[t].seen \in ResolvFiles
      /\ task[t].ups \in SUBSET Servers /\ TasksSound(task)
  BY <1>1 DEF Job, DnsInv
<1>4. TasksSound([task EXCEPT ![t] = [@ EXCEPT !.pc = pc, !.goal = task[t].goal,
                                       !.seen = task[t].seen, !.ups = task[t].ups]])
  BY <1>3, SetFields
<1> QED BY <1>2, <1>4

LEMMA FileOps ==
  /\ \A ups \in SUBSET Servers : ups # {} =>
       render_direct_resolv_conf(ups) \in ResolvFiles /\ render_direct_resolv_conf(ups).ns # {}
  /\ \A f \in ResolvFiles : f.ns # {} =>
       strip_our_resolv_entries(f) \in ResolvFiles /\ strip_our_resolv_entries(f).ns # {}
  /\ NoFile \in ResolvFiles
BY DEF render_direct_resolv_conf, strip_our_resolv_entries, ResolvFiles, Texts, NoFile, Servers

\* The commands: configure, its sweep, deactivate and the search domains.
LEMMA CommandsKeepDns ==
  ASSUME DnsInv,
         configure \/ SweepStale \/ deactivate \/ set_search_domains \/ WriteDomains
  PROVE  DnsInv'
<1>t. TasksSound(task) /\ "call" \in Tasks /\ task["call"] \in Job
  BY DEF DnsInv, TasksSound, Tasks
<1>s. "stale" \in Steps \ (Reading \cup Serving \cup Reverting) BY DEF Steps, Reading, Serving, Reverting
<1>1. CASE configure
  <2>1. held' \in SUBSET Servers BY <1>1 DEF configure, Revert, DnsInv
  <2>2. TasksSound(task')
    <3>1. CASE held # {}
      BY <1>1, <1>t, <3>1, RevertSound DEF configure, Goals
    <3>2. CASE held = {}
      BY <1>1, <1>t, <1>s, <3>2, MovesOn DEF configure
    <3> QED BY <3>1, <3>2
  <2> QED BY <1>1, <2>1, <2>2, DnsFrame DEF configure
<1>2. CASE SweepStale
  <2>1. file' \in ResolvFiles /\ file'.ns # {}
    BY <1>2, FileOps DEF SweepStale, restore_stale_backups, DnsInv
  <2>2. backup' = NoFile BY <1>2 DEF SweepStale, restore_stale_backups
  <2>3. JobSound([NoJob EXCEPT !.pc = "detect"])
    BY DEF JobSound, NoJob, Job, Steps, Reading, Serving, Reverting, Goals, ResolvFiles, NoFile, Texts
  <2>4. TasksSound(Cancel(task, retry)) BY <1>t, CancelSound
  <2>5. TasksSound(task') BY <1>2, <2>3, <2>4, SetJob DEF SweepStale
  <2> QED BY <1>2, <2>1, <2>2, <2>5, FileOps DEF SweepStale, DnsInv
<1>3. CASE deactivate
  <2>1. held' \in SUBSET Servers BY <1>3 DEF deactivate, Revert
  <2>2. TasksSound(task') BY <1>3, <1>t, RevertSound DEF deactivate, Goals
  <2> QED BY <1>3, <2>1, <2>2, DnsFrame DEF deactivate
<1>4. CASE set_search_domains
  <2> DEFINE j == [NoJob EXCEPT !.pc = "domains", !.ups = held, !.seen = file]
  <2>1. JobSound(j)
    BY <1>4 DEF set_search_domains, DnsInv, JobSound, NoJob, Job, Steps, Reading, Serving, Reverting, Goals,
      ResolvFiles, NoFile, Texts
  <2>2. TasksSound(task') BY <1>4, <1>t, <2>1, SetJob DEF set_search_domains
  <2> QED BY <1>4, <2>2, DnsFrame DEF set_search_domains, DnsInv
<1>5. CASE WriteDomains
  <2>1. task["call"].ups # {} /\ task["call"].ups \in SUBSET Servers
    BY <1>5, <1>t DEF WriteDomains, At, TasksSound, JobSound, Serving, Job
  <2>2. TasksSound(task') BY <1>5, <1>t, EndSound DEF WriteDomains
  <2>3. file' \in ResolvFiles /\ file'.ns # {} BY <1>5, <2>1, FileOps DEF WriteDomains, DnsInv
  <2> QED BY <1>5, <2>2, <2>3 DEF WriteDomains, DnsInv
<1> QED BY <1>1, <1>2, <1>3, <1>4, <1>5

\* Reverting, in whichever task reverts: restore_file and nm_quiet_remove.
LEMMA RevertingKeepsDns ==
  ASSUME DnsInv, NEW t \in Tasks, ReadBack(t) \/ PutBack(t) \/ PutFails(t) \/ Unquiet(t)
  PROVE  DnsInv'
<1>t. /\ TasksSound(task) /\ task[t] \in Job /\ JobSound(task[t]) /\ task \in [Tasks -> Job]
      /\ task[t].goal \in Goals /\ task[t].seen \in ResolvFiles /\ task[t].ups \in SUBSET Servers
  BY DEF DnsInv, TasksSound, Job
<1>s. /\ "unquiet" \in Steps \ (Reading \cup Serving)
      /\ "stale" \in Steps \ (Reading \cup Serving \cup Reverting)
  BY DEF Steps, Reading, Serving, Reverting
<1>u. task[t].pc \in Reverting => TasksSound(Go(t, "unquiet"))
  BY <1>s, <1>t, MovesOn DEF JobSound
<1>v. TasksSound(Go(t, "stale"))
  BY <1>s, MovesOn
<1>1. CASE ReadBack(t)
  <2>1. task' = [task EXCEPT ![t] = [@ EXCEPT !.pc = "put", !.goal = task[t].goal, !.seen = file,
                                              !.ups = task[t].ups]]
    BY <1>1, <1>t DEF ReadBack, Job
  <2>2. "put" \in Steps \ Serving BY DEF Steps, Reading, Serving, Reverting
  <2>g. task[t].goal # "none" BY <1>1, <1>t DEF ReadBack, At, JobSound, Reverting
  <2>3. TasksSound(task') BY <1>t, <2>1, <2>2, <2>g, SetFields DEF DnsInv
  <2> QED BY <1>1, <2>3, DnsFrame DEF ReadBack, DnsInv
<1>2. CASE PutBack(t)
  <2>1. task[t].seen.ns # {} BY <1>2, <1>t DEF PutBack, At, JobSound, Reading
  <2>2. TasksSound(task') BY <1>2, <1>u DEF PutBack, At, Reverting
  <2>3. file' \in ResolvFiles /\ file'.ns # {}
    BY <1>2, <1>t, <2>1, FileOps DEF PutBack, DnsInv, restore_file
  <2>4. backup' \in {backup, NoFile} BY <1>2 DEF PutBack
  <2> QED BY <1>2, <2>2, <2>3, <2>4, FileOps DEF PutBack, DnsInv
<1>3. CASE PutFails(t)
  <2>1. TasksSound(task') BY <1>3, <1>u, <1>t, EndSound DEF PutFails, At, Reverting
  <2> QED BY <1>3, <2>1, DnsFrame DEF PutFails, DnsInv
<1>4. CASE Unquiet(t)
  <2>1. TasksSound(task')
    <3>1. \/ task' = End(t) \/ task' = Go(t, "stale") \/ Fail(t) \/ Spawn(End(t))
      BY <1>4, <1>t DEF Unquiet, At, JobSound, Reverting, Goals
    <3> QED BY <3>1, <1>v, <1>t, EndSound, FailSound, SpawnSound
  <2> QED BY <1>4, <2>1, DnsFrame DEF Unquiet, DnsInv
<1> QED BY <1>1, <1>2, <1>3, <1>4

\* Detection and adoption: DirectResolvConf::new, apply, adopt_configurator.
LEMMA DetectionKeepsDns ==
  ASSUME DnsInv, NEW t \in Tasks \ Watchers,
         \/ Capture(t) \/ Probe(t) \/ BackUp(t) \/ nm_quiet_install(t) \/ Reprobe(t)
         \/ Write(t) \/ WriteFails(t) \/ Finish(t) \/ adopt_configurator(t)
  PROVE  DnsInv'
<1>t. /\ t \in Tasks /\ TasksSound(task) /\ task[t] \in Job /\ JobSound(task[t])
      /\ task \in [Tasks -> Job] /\ task[t].goal \in Goals /\ task[t].seen \in ResolvFiles
      /\ task[t].ups \in SUBSET Servers
  BY DEF DnsInv, TasksSound, Job
<1>s. /\ {"probe", "backup", "quiet", "reprobe", "write", "applied", "adopting", "restore"} \subseteq Steps
      /\ {"backup", "quiet", "reprobe", "write", "applied", "adopting"} \subseteq Serving \ (Reading \cup Reverting)
      /\ "probe" \in Reading \ (Serving \cup Reverting)
      /\ "restore" \in Reverting \ (Serving \cup Reading)
  BY DEF Steps, Reading, Serving, Reverting
<1>u. task[t].pc \in Serving => task[t].ups # {} BY <1>t DEF JobSound
<1>1. CASE Capture(t)
  <2>1. task' = [task EXCEPT ![t] = [@ EXCEPT !.pc = "probe", !.goal = task[t].goal, !.seen = file,
                                              !.ups = task[t].ups]]
    BY <1>1, <1>t DEF Capture, Job
  <2>2. TasksSound(task') BY <1>t, <1>s, <2>1, SetFields DEF DnsInv
  <2> QED BY <1>1, <2>2, DnsFrame DEF Capture, DnsInv
<1>2. CASE Probe(t)
  <2> DEFINE before == task[t].seen.ns \cap Live
  <2>1. CASE Fail(t)
    BY <1>2, <1>t, <2>1, FailSound, DnsFrame DEF Probe, DnsInv
  <2>2. CASE before # {} /\ task' = [task EXCEPT ![t].ups = before, ![t].pc = "backup"]
    <3>1. before \in SUBSET Servers BY <1>t DEF ResolvFiles
    <3>4. before # {} BY <2>2
    <3> HIDE DEF before
    <3>2. task' = [task EXCEPT ![t] = [@ EXCEPT !.pc = "backup", !.goal = task[t].goal,
                                                !.seen = task[t].seen, !.ups = before]]
      BY <2>2, <1>t DEF Job
    <3>3. TasksSound(task') BY <1>t, <1>s, <3>1, <3>2, <3>4, SetFields
    <3> QED BY <1>2, <3>3, DnsFrame DEF Probe, DnsInv
  <2> QED BY <1>2, <2>1, <2>2 DEF Probe
<1>3. CASE BackUp(t)
  <2>1. TasksSound(task') BY <1>3, <1>t, <1>s, <1>u, MovesOn DEF BackUp, At
  <2>2. /\ backup' \in ResolvFiles
        /\ backup' = NoFile \/ (backup'.ns # {} /\ backup'.text # "ours")
    BY <1>3 DEF BackUp, backup_file, resolv_conf_is_ours, DnsInv
  <2> QED BY <1>3, <2>1, <2>2 DEF BackUp, DnsInv
<1>4. CASE nm_quiet_install(t)
  <2>1. TasksSound(task') BY <1>4, <1>t, <1>s, <1>u, MovesOn DEF nm_quiet_install, At
  <2> QED BY <1>4, <2>1, DnsFrame DEF nm_quiet_install, DnsInv
<1>5. CASE Reprobe(t)
  <2> DEFINE after == task[t].ups \cap Live
  <2>1. CASE task' = [task EXCEPT ![t].goal = "abort", ![t].pc = "restore"]
    <3>2. task' = [task EXCEPT ![t] = [@ EXCEPT !.pc = "restore", !.goal = "abort",
                                                !.seen = task[t].seen, !.ups = task[t].ups]]
      BY <2>1, <1>t DEF Job
    <3>3. TasksSound(task') BY <1>t, <1>s, <3>2, SetFields DEF Goals
    <3> QED BY <1>5, <3>3, DnsFrame DEF Reprobe, DnsInv
  <2>2. CASE after # {} /\ task' = [task EXCEPT ![t].ups = after, ![t].pc = "write"]
    <3>1. after \in SUBSET Servers BY <1>t
    <3>4. after # {} BY <2>2
    <3> HIDE DEF after
    <3>2. task' = [task EXCEPT ![t] = [@ EXCEPT !.pc = "write", !.goal = task[t].goal,
                                                !.seen = task[t].seen, !.ups = after]]
      BY <2>2, <1>t DEF Job
    <3>3. TasksSound(task') BY <1>t, <1>s, <3>1, <3>2, <3>4, SetFields
    <3> QED BY <1>5, <3>3, DnsFrame DEF Reprobe, DnsInv
  <2> QED BY <1>5, <1>s, <1>u, <2>1, <2>2 DEF Reprobe, At
<1>6. CASE Write(t)
  <2>1. TasksSound(task') BY <1>6, <1>t, <1>s, <1>u, MovesOn DEF Write, At
  <2>2. file' \in ResolvFiles /\ file'.ns # {}
    BY <1>6, <1>t, <1>s, <1>u, FileOps DEF Write, At
  <2> QED BY <1>6, <2>1, <2>2 DEF Write, DnsInv
<1>7. CASE WriteFails(t)
  <2>1. TasksSound(task') BY <1>7, <1>t, FailSound DEF WriteFails
  <2>2. backup' \in {backup, NoFile} BY <1>7 DEF WriteFails
  <2> QED BY <1>7, <2>1, <2>2, FileOps DEF WriteFails, DnsInv
<1>8. CASE Finish(t)
  <2>1. held' \in SUBSET Servers BY <1>8, <1>t DEF Finish, DnsInv
  <2>2. CASE task' = [task EXCEPT ![t].goal = "late", ![t].pc = "restore"]
    <3>2. task' = [task EXCEPT ![t] = [@ EXCEPT !.pc = "restore", !.goal = "late",
                                                !.seen = task[t].seen, !.ups = task[t].ups]]
      BY <2>2, <1>t DEF Job
    <3>3. TasksSound(task') BY <1>t, <1>s, <3>2, SetFields DEF Goals
    <3> QED BY <1>8, <2>1, <3>3, DnsFrame DEF Finish
  <2>3. CASE task' = [task EXCEPT ![t].seen = file, ![t].pc = "adopting"]
    <3>2. task' = [task EXCEPT ![t] = [@ EXCEPT !.pc = "adopting", !.goal = task[t].goal,
                                                !.seen = file, !.ups = task[t].ups]]
      BY <2>3, <1>t DEF Job
    <3>3. TasksSound(task') BY <1>8, <1>t, <1>s, <1>u, <3>2, SetFields DEF Finish, At, DnsInv
    <3> QED BY <1>8, <2>1, <3>3, DnsFrame DEF Finish
  <2> QED BY <1>8, <2>2, <2>3 DEF Finish
<1>9. CASE adopt_configurator(t)
  <2>1. task[t].ups # {} BY <1>9, <1>s, <1>u DEF adopt_configurator, At
  <2>2. file' \in ResolvFiles /\ file'.ns # {}
    BY <1>9, <1>t, <2>1, FileOps DEF adopt_configurator, DnsInv
  <2> DEFINE j == [NoJob EXCEPT !.pc = "watch", !.ups = task[t].ups]
  <2>3. JobSound(j)
    BY <1>t, <2>1 DEF JobSound, NoJob, Job, Steps, Reading, Serving, Reverting, Goals,
      ResolvFiles, NoFile, Texts
  <2>4. PICK w \in Watchers : task' = [Cancel(End(t), reassert) EXCEPT ![w] = j]
    BY <1>9 DEF adopt_configurator
  <2>5. TasksSound(Cancel(End(t), reassert)) BY <1>t, EndSound, CancelSound
  <2>6. TasksSound(task') BY <2>3, <2>4, <2>5, SetJob
  <2> QED BY <1>9, <2>2, <2>6 DEF adopt_configurator, DnsInv
<1> QED BY <1>1, <1>2, <1>3, <1>4, <1>5, <1>6, <1>7, <1>8, <1>9

\* The watchers: run_resolv_reassert and recapture.
LEMMA WatchersKeepDns ==
  ASSUME DnsInv, NEW w \in Watchers,
         pass(w) \/ Rewrite(w) \/ Tick(w) \/ Stop(w) \/ recapture(w)
  PROVE  DnsInv'
<1>t. /\ w \in Tasks /\ TasksSound(task) /\ task[w] \in Job /\ JobSound(task[w])
      /\ task \in [Tasks -> Job] /\ task[w].goal \in Goals /\ task[w].seen \in ResolvFiles
      /\ task[w].ups \in SUBSET Servers
  BY DEF DnsInv, TasksSound, Job, Tasks
<1>s. {"verdict", "rewrite", "watch"} \subseteq Serving \ (Reading \cup Reverting) /\ Serving \subseteq Steps
  BY DEF Steps, Reading, Serving, Reverting
<1>u. task[w].pc \in Serving => task[w].ups # {} BY <1>t DEF JobSound
<1>1. CASE pass(w)
  <2>1. task' = Go(w, "verdict") \/ task' = Go(w, "rewrite")
    BY <1>1 DEF pass, Go
  <2>2. task[w].ups # {} BY <1>1, <1>s, <1>u DEF pass, At
  <2>3. TasksSound(task') BY <1>t, <1>s, <2>1, <2>2, MovesOn
  <2> QED BY <1>1, <2>3, DnsFrame DEF pass, DnsInv
<1>2. CASE Rewrite(w)
  <2>1. task[w].ups # {} BY <1>2, <1>s, <1>u DEF Rewrite, At
  <2>2. TasksSound(task') BY <1>2, <1>t, <1>s, <2>1, MovesOn DEF Rewrite
  <2>3. file' \in ResolvFiles /\ file'.ns # {} BY <1>2, <1>t, <2>1, FileOps DEF Rewrite
  <2> QED BY <1>2, <2>2, <2>3 DEF Rewrite, DnsInv
<1>3. CASE Tick(w)
  <2>1. task[w].ups # {} BY <1>3, <1>s, <1>u DEF Tick, At
  <2>2. task' = [task EXCEPT ![w] = [@ EXCEPT !.pc = "verdict", !.goal = "gone",
                                              !.seen = task[w].seen, !.ups = task[w].ups]]
    BY <1>3, <1>t DEF Tick, Job
  <2>3. TasksSound(task') BY <1>t, <1>s, <2>1, <2>2, SetFields DEF Goals
  <2> QED BY <1>3, <2>3, DnsFrame DEF Tick, DnsInv
<1>4. CASE Stop(w)
  <2>1. TasksSound(task') BY <1>4, <1>t, EndSound DEF Stop
  <2> QED BY <1>4, <2>1, DnsFrame DEF Stop, DnsInv
<1>5. CASE recapture(w)
  <2>1. held' = {} BY <1>5 DEF recapture, Revert
  <2>2. TasksSound(End(w)) BY <1>t, EndSound
  <2>3. TasksSound(task') BY <1>5, <1>t, <2>2, RevertSound, SpawnSound DEF recapture, Goals
  <2> QED BY <1>5, <2>1, <2>3, DnsFrame DEF recapture
<1> QED BY <1>1, <1>2, <1>3, <1>4, <1>5

\* The rest of the host, and the daemon's end and start.
LEMMA HostKeepsDns ==
  ASSUME DnsInv,
         \/ OtherWrites \/ VpnUp \/ VpnDown \/ Blip
         \/ DaemonDies(TRUE) \/ DaemonDies(FALSE) \/ DaemonStarts
  PROVE  DnsInv'
<1>1. CASE OtherWrites
  BY <1>1 DEF OtherWrites, DnsInv, ResolvFiles, Texts, Servers
<1>2. CASE VpnUp
  BY <1>2 DEF VpnUp, DnsInv, ResolvFiles, Texts, Servers
<1>3. CASE VpnDown
  BY <1>3, FileOps DEF VpnDown, DnsInv
<1>4. CASE Blip
  BY <1>4 DEF Blip, DnsInv
<1>5. ASSUME NEW panic, DaemonDies(panic) PROVE DnsInv'
  <2>1. TasksSound(task')
    BY <1>5, NoJobSound DEF DaemonDies, TasksSound, JobSound
  <2>2. file' \in ResolvFiles /\ file'.ns # {}
    BY <1>5, FileOps DEF DaemonDies, emergency_restore_resolv_conf, DnsInv
  <2>3. backup' \in {backup, NoFile}
    BY <1>5 DEF DaemonDies, emergency_restore_resolv_conf
  <2> QED BY <1>5, <2>1, <2>2, <2>3, FileOps DEF DaemonDies, DnsInv
<1>6. CASE DaemonStarts
  <2>1. file' \in ResolvFiles /\ file'.ns # {}
    BY <1>6, FileOps DEF DaemonStarts, restore_stale_backups, DnsInv
  <2> QED BY <1>6, <2>1, FileOps DEF DaemonStarts, restore_stale_backups, DnsInv
<1> QED BY <1>1, <1>2, <1>3, <1>4, <1>5, <1>6

LEMMA DnsInit_Inv == DnsInit => DnsInv
BY SMTT(30), NoJobSound, FileOps DEF DnsInit, DnsInv, TasksSound, JobSound, HostFile, ResolvFiles, Texts,
  Servers

LEMMA DnsStep == DnsInv /\ [DnsNext]_dnsVars => DnsInv'
<1> SUFFICES ASSUME DnsInv, [DnsNext]_dnsVars PROVE DnsInv'
  OBVIOUS
<1>1. CASE UNCHANGED dnsVars BY <1>1 DEF dnsVars, DnsInv
<1>2. CASE DnsNext
  <2>1. ASSUME NEW r \in Retries, WakeUp(r) PROVE DnsInv'
    <3>1. r \in Tasks /\ "detect" \in Steps \ (Reading \cup Serving \cup Reverting)
      BY DEF Tasks, Steps, Reading, Serving, Reverting
    <3>2. TasksSound(task') BY <2>1, <3>1, EndSound, MovesOn DEF WakeUp, DnsInv
    <3> QED BY <2>1, <3>2, DnsFrame DEF WakeUp, DnsInv
  <2> QED BY <1>2, <2>1, CommandsKeepDns, RevertingKeepsDns, DetectionKeepsDns, WatchersKeepDns,
    HostKeepsDns DEF DnsNext
<1> QED BY <1>1, <1>2

\* For any scenes: no task, in any order with the others, crashes and other writers,
\* keeps a file of ours as the host's backup, and /etc/resolv.conf always names a
\* server besides ours.
THEOREM BackupSafe == DnsSpec => []BackupIsHost
<1>1. DnsInv => BackupIsHost
  BY SMTT(30) DEF DnsInv, BackupIsHost, resolv_conf_is_ours, NoFile
<1> QED BY <1>1, DnsInit_Inv, DnsStep, PTL DEF DnsSpec

\* A retry that will come to a backend, and what the other tasks may be at.
Works(j) == j.pc \notin {"none", "adopting"} /\ ~j.off
CallFit(j, up) ==
  /\ ~j.off /\ j.pc # "watch"
  /\ j.pc \in Reverting =>
       j.goal \in {"down", "configure", "abort"} /\ (j.goal = "down" => ~up)
RetryFit(j) == j.pc # "watch" /\ (j.pc \in Reverting /\ ~j.off => j.goal = "abort")
JobsFit(tk, up) == CallFit(tk["call"], up) /\ \A r \in Retries : RetryFit(tk[r])
Served == held # {} \/ gone \/ \E r \in Retries : Works(task[r])
ServedInv ==
  /\ retry \in Retries \cup {Nobody} /\ reassert \in Watchers \cup {Nobody}
  /\ JobsFit(task, active)
  /\ active => alive
  /\ active /\ task["call"].pc \in {"none", "domains", "adopting"} => Served

LEMMA Kinds ==
  /\ "call" \in Tasks /\ Retries \subseteq Tasks /\ Watchers \subseteq Tasks
  /\ "call" \notin Retries \cup Watchers /\ Retries \cap Watchers = {} /\ Nobody \notin Tasks
  /\ Tasks = {"call"} \cup Retries \cup Watchers
BY DEF Tasks, Retries, Watchers, Nobody

LEMMA FitSet ==
  ASSUME NEW tk, TasksSound(tk), NEW up, JobsFit(tk, up), NEW t, NEW j,
         t = "call" => CallFit(j, up), t \in Retries => RetryFit(j)
  PROVE  JobsFit([tk EXCEPT ![t] = j], up)
BY Kinds DEF JobsFit, TasksSound

\* Cancelling a task changes its token only.
LEMMA CancelOnly ==
  ASSUME NEW tk, TasksSound(tk), NEW t \in Retries \cup Watchers \cup {Nobody}
  PROVE  /\ Cancel(tk, t)["call"] = tk["call"]
         /\ \A u \in Tasks : /\ u # t => Cancel(tk, t)[u] = tk[u]
                             /\ Cancel(tk, t)[u].pc = tk[u].pc
                             /\ Cancel(tk, t)[u].goal = tk[u].goal
                             /\ tk[u].off => Cancel(tk, t)[u].off
BY Kinds DEF Cancel, TasksSound, Job

LEMMA FitCancel ==
  ASSUME NEW tk, TasksSound(tk), NEW up, JobsFit(tk, up),
         NEW t \in Retries \cup Watchers \cup {Nobody}
  PROVE  JobsFit(Cancel(tk, t), up)
BY SMTT(30), CancelOnly, Kinds DEF JobsFit, RetryFit

LEMMA NoJobFits ==
  /\ \A up : CallFit(NoJob, up)
  /\ \A up, pc : pc \notin Reverting \cup {"watch"} => CallFit([NoJob EXCEPT !.pc = pc], up)
  /\ RetryFit(NoJob)
BY DEF CallFit, RetryFit, NoJob, Reverting

\* spawn_configure_retry leaves a retry at work.
LEMMA SpawnServes ==
  ASSUME NEW tk, TasksSound(tk), NEW up, JobsFit(tk, up), Spawn(tk),
         retry \in Retries \cup {Nobody}
  PROVE  /\ JobsFit(task', up) /\ retry' \in Retries
         /\ \E r \in Retries : Works(task'[r])
         /\ task'["call"] = tk["call"]
<1> DEFINE j == [NoJob EXCEPT !.pc = "wait"]
           ck == Cancel(tk, retry)
<1>1. PICK r \in Retries : task' = [ck EXCEPT ![r] = j] /\ retry' = r
  BY DEF Spawn
<1>2. TasksSound(ck) /\ JobsFit(ck, up) /\ ck["call"] = tk["call"]
  BY CancelSound, FitCancel, CancelOnly
<1>3. RetryFit(j) /\ Works(j) BY DEF RetryFit, Works, NoJob, Reverting
<1> HIDE DEF j, ck
<1>4. JobsFit(task', up) BY <1>1, <1>2, <1>3, FitSet, Kinds
<1>5. task'[r] = j /\ task'["call"] = ck["call"] BY <1>1, <1>2, Kinds DEF TasksSound
<1> QED BY <1>1, <1>2, <1>3, <1>4, <1>5

LEMMA FailServes ==
  ASSUME DnsInv, ServedInv, NEW t \in Tasks \ Watchers, Fail(t), task[t].pc # "adopting"
  PROVE  /\ JobsFit(task', active) /\ retry' \in Retries \cup {Nobody}
         /\ t = "call" => \E r \in Retries : Works(task'[r])
         /\ t # "call" => /\ task'["call"] = task["call"]
                          /\ \A r \in Retries : Works(task[r]) => Works(task'[r])
<1>t. TasksSound(task) /\ task \in [Tasks -> Job] BY DEF DnsInv, TasksSound
<1>1. CASE t = "call"
  <2>1. TasksSound(End(t)) /\ JobsFit(End(t), active)
    BY <1>t, EndSound, FitSet, NoJobFits, Kinds DEF End, ServedInv
  <2> QED BY <1>1, <2>1, SpawnServes DEF Fail, ServedInv
<1>2. CASE t # "call"
  <2> DEFINE j == [NoJob EXCEPT !.pc = "wait", !.off = task[t].off]
  <2>1. task' = [task EXCEPT ![t] = j] /\ retry' = retry /\ t \in Retries
    BY <1>2, Kinds DEF Fail
  <2>2. RetryFit(j) /\ (~task[t].off => Works(j)) BY DEF RetryFit, Works, NoJob, Reverting
  <2> HIDE DEF j
  <2>3. JobsFit(task', active) BY <1>t, <1>2, <2>1, <2>2, FitSet DEF ServedInv
  <2>4. ASSUME NEW r \in Retries, Works(task[r]) PROVE Works(task'[r])
    BY <1>t, <2>1, <2>2, <2>4, Kinds DEF Works
  <2> QED BY <1>t, <1>2, <2>1, <2>3, <2>4, Kinds DEF ServedInv
<1> QED BY <1>1, <1>2

\* A step of one task that takes no backend away and stops no retry.
LEMMA OneTask ==
  ASSUME DnsInv, ServedInv, NEW t \in Tasks, NEW j, task' = [task EXCEPT ![t] = j],
         UNCHANGED <<alive, active, reassert>>, retry' \in Retries \cup {Nobody},
         held # {} => held' # {}, gone => gone',
         t = "call" => CallFit(j, active), t \in Retries => RetryFit(j),
         t \in Retries => (Works(task[t]) => Works(j) \/ held' # {}),
         \/ t # "call" \/ held' # {}
         \/ j.pc \notin {"none", "domains", "adopting"}
         \/ task[t].pc \in {"none", "domains", "adopting"}
         \/ ~active
  PROVE  ServedInv'
<1>t. TasksSound(task) /\ task \in [Tasks -> Job] BY DEF DnsInv, TasksSound
<1>1. JobsFit(task', active') BY <1>t, FitSet DEF ServedInv
<1>2. ASSUME active', task'["call"].pc \in {"none", "domains", "adopting"} PROVE Served'
  <2>1. CASE held' # {} BY <2>1 DEF Served
  <2>2. CASE held' = {}
    <3>1. task["call"].pc \in {"none", "domains", "adopting"}
      BY <1>t, <1>2, <2>2, Kinds
    <3>2. gone \/ \E r \in Retries : Works(task[r])
      BY <1>2, <2>2, <3>1 DEF ServedInv, Served
    <3>3. ASSUME NEW r \in Retries, Works(task[r]) PROVE Works(task'[r])
      BY <1>t, <2>2, <3>3, Kinds
    <3> QED BY <3>2, <3>3 DEF Served
  <2> QED BY <2>1, <2>2
<1> QED BY <1>1, <1>2 DEF ServedInv

LEMMA RevertFits ==
  ASSUME DnsInv, ServedInv, NEW t \in Tasks, NEW goal, Revert(t, goal), NEW up,
         JobsFit(task, up) \/ up = FALSE,
         t = "call" => goal \in {"down", "configure"} /\ (goal = "down" => ~up),
         t \notin Retries
  PROVE  /\ JobsFit(task', up) /\ retry' = Nobody /\ reassert' = Nobody
         /\ t = "call" => task'["call"].pc \in Reverting
<1>t. TasksSound(task) BY DEF DnsInv
<1>0. JobsFit(task, up) BY DEF JobsFit, CallFit, ServedInv
<1> DEFINE ck == Cancel(task, retry)
           tk == Cancel(ck, reassert)
           pc == IF held = {} THEN "unquiet" ELSE "restore"
<1>1. TasksSound(ck) /\ JobsFit(ck, up) BY <1>t, <1>0, CancelSound, FitCancel DEF ServedInv
<1>2. TasksSound(tk) /\ JobsFit(tk, up) BY <1>1, CancelSound, FitCancel DEF ServedInv
<1>3. task' = [tk EXCEPT ![t].goal = goal, ![t].pc = pc] /\ retry' = Nobody /\ reassert' = Nobody
  BY DEF Revert
<1>4. pc \in Reverting /\ pc # "watch" BY DEF Reverting
<1> HIDE DEF ck, tk, pc
<1>5. tk \in [Tasks -> Job] BY <1>2 DEF TasksSound
<1>6. /\ \A u \in Tasks : u # t => task'[u] = tk[u]
      /\ task'[t].pc = pc /\ task'[t].goal = goal /\ task'[t].off = tk[t].off
  BY <1>3, <1>5 DEF Job
<1>7. CallFit(task'["call"], up)
  BY <1>2, <1>4, <1>6, Kinds DEF JobsFit, CallFit
<1>8. ASSUME NEW r \in Retries PROVE RetryFit(task'[r])
  BY <1>2, <1>6, Kinds DEF JobsFit
<1> QED BY <1>3, <1>4, <1>6, <1>7, <1>8 DEF JobsFit

LEMMA CommandsKeepServed ==
  ASSUME DnsInv, ServedInv,
         configure \/ SweepStale \/ deactivate \/ set_search_domains \/ WriteDomains
  PROVE  ServedInv'
<1>t. TasksSound(task) /\ task \in [Tasks -> Job] /\ "call" \in Tasks
  BY Kinds DEF DnsInv, TasksSound
<1>1. CASE configure
  <2>a. active' /\ alive' BY <1>1 DEF configure
  <2>0. JobsFit(task, TRUE)
    BY <1>1 DEF configure, At, ServedInv, JobsFit, CallFit, Reverting
  <2>1. CASE held # {}
    <3>1. Revert("call", "configure") BY <1>1, <2>1 DEF configure
    <3>2. JobsFit(task', TRUE) /\ retry' = Nobody /\ reassert' = Nobody
          /\ task'["call"].pc \in Reverting
      BY <2>0, <3>1, <1>t, Kinds, RevertFits
    <3> QED BY <2>a, <3>2 DEF ServedInv, Reverting
  <2>2. CASE held = {}
    <3>1. task' = [task EXCEPT !["call"].pc = "stale"] /\ UNCHANGED <<retry, reassert>>
      BY <1>1, <2>2 DEF configure, Go
    <3>2. /\ \A u \in Tasks : u # "call" => task'[u] = task[u]
          /\ task'["call"].pc = "stale" /\ task'["call"].off = task["call"].off
      BY <1>t, <3>1 DEF Job
    <3>3. JobsFit(task', TRUE)
      BY <2>0, <3>2, Kinds DEF JobsFit, CallFit, Reverting
    <3> QED BY <2>a, <3>1, <3>2, <3>3 DEF ServedInv
  <2> QED BY <2>1, <2>2
<1>2. CASE SweepStale
  <2> DEFINE ck == Cancel(task, retry)
             j == [NoJob EXCEPT !.pc = "detect"]
  <2>1. TasksSound(ck) /\ JobsFit(ck, active) BY <1>t, CancelSound, FitCancel DEF ServedInv
  <2>2. task' = [ck EXCEPT !["call"] = j] /\ retry' = Nobody BY <1>2 DEF SweepStale
  <2>3. CallFit(j, active) /\ j.pc = "detect" BY DEF CallFit, NoJob, Reverting
  <2> HIDE DEF ck, j
  <2>4. JobsFit(task', active) BY <2>1, <2>2, <2>3, FitSet, Kinds
  <2>5. task'["call"].pc = "detect" BY <2>1, <2>2, <2>3, <1>t DEF TasksSound
  <2> QED BY <1>2, <2>2, <2>4, <2>5 DEF SweepStale, ServedInv
<1>3. CASE deactivate
  <2>1. ~active' /\ Revert("call", "down") BY <1>3 DEF deactivate
  <2>2. JobsFit(task', FALSE) /\ retry' = Nobody /\ reassert' = Nobody
    BY <2>1, <1>t, Kinds, RevertFits
  <2>3. JobsFit(task', active') BY <2>1, <2>2 DEF JobsFit, CallFit
  <2> QED BY <2>1, <2>2, <2>3 DEF ServedInv
<1>4. CASE set_search_domains
  <2> DEFINE j == [NoJob EXCEPT !.pc = "domains", !.ups = held, !.seen = file]
  <2>1. CallFit(j, active) BY DEF CallFit, NoJob, Reverting
  <2> HIDE DEF j
  <2>2. task' = [task EXCEPT !["call"] = j] BY <1>4 DEF set_search_domains, j
  <2>3. /\ UNCHANGED <<alive, active, reassert, retry, held, gone>> /\ task["call"].pc = "none"
    BY <1>4 DEF set_search_domains, At
  <2> QED BY <1>t, <2>1, <2>2, <2>3, OneTask, Kinds DEF ServedInv
<1>5. CASE WriteDomains
  <2>1. task' = [task EXCEPT !["call"] = NoJob] BY <1>5 DEF WriteDomains, End
  <2>3. /\ UNCHANGED <<alive, active, reassert, retry, held, gone>> /\ task["call"].pc = "domains"
    BY <1>5 DEF WriteDomains, At
  <2> QED BY <1>t, <2>1, <2>3, OneTask, Kinds, NoJobFits DEF ServedInv
<1> QED BY <1>1, <1>2, <1>3, <1>4, <1>5

\* A step of one task within its takeover or its revert.
LEMMA StillAtIt ==
  ASSUME DnsInv, ServedInv, NEW t \in Tasks, NEW j, task' = [task EXCEPT ![t] = j],
         UNCHANGED <<alive, active, reassert, retry, gone>>, held' = held \/ held' # {},
         j.off = task[t].off, j.goal = task[t].goal \/ (t \notin Watchers /\ j.goal = "abort"),
         j.pc \notin {"none", "domains", "adopting", "watch"},
         j.pc \in Reverting => task[t].pc \in Reverting \/ j.goal = "abort",
         task[t].pc # "adopting"
  PROVE  ServedInv'
<1>1. t = "call" => CallFit(j, active)
  BY DEF ServedInv, JobsFit, CallFit
<1>2. t \in Retries => RetryFit(j)
  BY DEF ServedInv, JobsFit, RetryFit
<1>3. t \in Retries => (Works(task[t]) => Works(j))
  BY DEF Works
<1> QED BY <1>1, <1>2, <1>3, OneTask DEF ServedInv

LEMMA RevertingKeepsServed ==
  ASSUME DnsInv, ServedInv, NEW t \in Tasks,
         ReadBack(t) \/ PutBack(t) \/ PutFails(t) \/ Unquiet(t)
  PROVE  ServedInv'
<1>t. TasksSound(task) /\ task \in [Tasks -> Job] /\ task[t] \in Job
  BY DEF DnsInv, TasksSound
<1>w. UNCHANGED <<alive, active, reassert, held, gone>>
  BY DEF ReadBack, PutBack, PutFails, Unquiet
<1>1. CASE ReadBack(t)
  <2> DEFINE j == [task[t] EXCEPT !.seen = file, !.pc = "put"]
  <2>1. task' = [task EXCEPT ![t] = j] BY <1>1, <1>t DEF ReadBack, Job
  <2>2. j.off = task[t].off /\ j.goal = task[t].goal /\ j.pc = "put" BY <1>t DEF Job
  <2> HIDE DEF j
  <2>3. retry' = retry /\ task[t].pc = "restore" BY <1>1 DEF ReadBack, At
  <2> QED BY <1>w, <2>1, <2>2, <2>3, StillAtIt DEF Reverting
<1>2. CASE task' = Go(t, "unquiet") /\ task[t].pc = "put" /\ retry' = retry
  <2> DEFINE j == [task[t] EXCEPT !.pc = "unquiet"]
  <2>1. task' = [task EXCEPT ![t] = j] BY <1>2, <1>t DEF Go, Job
  <2>2. j.off = task[t].off /\ j.goal = task[t].goal /\ j.pc = "unquiet" BY <1>t DEF Job
  <2> HIDE DEF j
  <2> QED BY <1>w, <1>2, <2>1, <2>2, StillAtIt DEF Reverting
<1>3. CASE task' = End(t) /\ task[t].pc \in Reverting /\ retry' = retry
           /\ (task[t].goal \in {"down", "late"} \/ t \in Watchers)
  <2>1. t = "call" => ~active
    BY <1>3, Kinds DEF ServedInv, JobsFit, CallFit
  <2>2. t \in Retries => ~Works(task[t])
    BY <1>3, Kinds DEF ServedInv, JobsFit, RetryFit, Works
  <2> QED BY <1>w, <1>3, <2>1, <2>2, OneTask, NoJobFits DEF End, ServedInv
<1>4. CASE PutFails(t)
  <2>1. task[t].pc = "put" /\ retry' = retry BY <1>4 DEF PutFails, At
  <2> QED BY <1>2, <1>3, <1>4, <2>1 DEF PutFails, Reverting
<1>5. CASE Unquiet(t)
  <2>0. task[t].pc = "unquiet" /\ task[t].pc \in Reverting BY <1>5 DEF Unquiet, At, Reverting
  <2>g. task[t].goal \in Goals \ {"none"} BY <1>t, <2>0 DEF DnsInv, TasksSound, JobSound, Job
  <2>1. CASE task[t].goal \in {"down", "late"}
    BY <1>3, <1>5, <2>0, <2>1 DEF Unquiet
  <2>2. CASE task[t].goal = "configure"
    <3> DEFINE j == [task[t] EXCEPT !.pc = "stale"]
    <3>1. task' = [task EXCEPT ![t] = j] /\ retry' = retry
      BY <1>5, <1>t, <2>2 DEF Unquiet, Go, Job
    <3>2. j.off = task[t].off /\ j.goal = task[t].goal /\ j.pc = "stale" BY <1>t DEF Job
    <3> HIDE DEF j
    <3> QED BY <1>w, <2>0, <3>1, <3>2, StillAtIt DEF Reverting
  <2>3. CASE task[t].goal = "abort"
    <3>1. Fail(t) BY <1>5, <2>3 DEF Unquiet
    <3>2. CASE t \in Watchers
      <4> DEFINE j == [NoJob EXCEPT !.pc = "wait", !.off = task[t].off]
      <4>1. task' = [task EXCEPT ![t] = j] /\ retry' = retry
        BY <3>1, <3>2, Kinds DEF Fail
      <4> HIDE DEF j
      <4> QED BY <1>w, <3>2, <4>1, OneTask, Kinds DEF ServedInv
    <3>3. CASE t \notin Watchers
      <4>1. /\ JobsFit(task', active) /\ retry' \in Retries \cup {Nobody}
            /\ t = "call" => \E r \in Retries : Works(task'[r])
            /\ t # "call" => /\ task'["call"] = task["call"]
                             /\ \A r \in Retries : Works(task[r]) => Works(task'[r])
        BY <2>0, <3>1, <3>3, FailServes
      <4> QED BY <1>w, <4>1 DEF ServedInv, Served
    <3> QED BY <3>2, <3>3
  <2>4. CASE task[t].goal = "gone"
    <3>1. t # "call" BY <2>0, <2>4 DEF ServedInv, JobsFit, CallFit
    <3>2. t \in Retries => task[t].off BY <2>0, <2>4 DEF ServedInv, JobsFit, RetryFit
    <3>3. CASE task[t].off
      <4>1. task' = End(t) /\ retry' = retry BY <1>5, <2>4, <3>3 DEF Unquiet
      <4>2. t \in Retries => ~Works(task[t]) BY <3>3 DEF Works
      <4> QED BY <1>w, <3>1, <4>1, <4>2, OneTask, NoJobFits DEF End, ServedInv
    <3>4. CASE ~task[t].off
      <4>1. Spawn(End(t)) BY <1>5, <2>4, <3>4 DEF Unquiet
      <4>2. TasksSound(End(t)) /\ JobsFit(End(t), active)
        BY <1>t, <3>1, EndSound, FitSet, NoJobFits DEF End, ServedInv
      <4>3. JobsFit(task', active) /\ retry' \in Retries /\ \E r \in Retries : Works(task'[r])
        BY <4>1, <4>2, SpawnServes DEF ServedInv
      <4> QED BY <1>w, <4>3 DEF ServedInv, Served
    <3> QED BY <3>3, <3>4
  <2> QED BY <2>g, <2>1, <2>2, <2>3, <2>4 DEF Goals
<1> QED BY <1>1, <1>2, <1>4, <1>5 DEF PutBack, At

LEMMA DetectionKeepsServed ==
  ASSUME DnsInv, ServedInv, NEW t \in Tasks \ Watchers,
         \/ Capture(t) \/ Probe(t) \/ BackUp(t) \/ nm_quiet_install(t) \/ Reprobe(t)
         \/ Write(t) \/ WriteFails(t) \/ Finish(t) \/ adopt_configurator(t)
  PROVE  ServedInv'
<1>t. /\ TasksSound(task) /\ task \in [Tasks -> Job] /\ task[t] \in Job /\ t \in Tasks
      /\ t = "call" \/ t \in Retries
  BY Kinds DEF DnsInv, TasksSound
<1>w. UNCHANGED <<alive, active, gone>>
  BY DEF Capture, Probe, BackUp, nm_quiet_install, Reprobe, Write, WriteFails, Finish,
     adopt_configurator
<1>f. ASSUME Fail(t), task[t].pc # "adopting", UNCHANGED <<reassert, held>> PROVE ServedInv'
  <2>1. /\ JobsFit(task', active) /\ retry' \in Retries \cup {Nobody}
        /\ t = "call" => \E r \in Retries : Works(task'[r])
        /\ t # "call" => /\ task'["call"] = task["call"]
                         /\ \A r \in Retries : Works(task[r]) => Works(task'[r])
    BY <1>f, FailServes
  <2> QED BY <1>w, <1>f, <2>1 DEF ServedInv, Served
<1>m. ASSUME NEW j, task' = [task EXCEPT ![t] = j], UNCHANGED <<reassert, retry>>,
             held' = held \/ held' # {},
             j.off = task[t].off, j.goal = task[t].goal \/ j.goal = "abort",
             j.pc \notin {"none", "domains", "adopting", "watch"},
             j.pc \in Reverting => j.goal = "abort", task[t].pc # "adopting"
      PROVE  ServedInv'
  BY <1>t, <1>w, <1>m, StillAtIt
<1>1. CASE Capture(t)
  <2> DEFINE j == [task[t] EXCEPT !.seen = file, !.pc = "probe"]
  <2>1. task' = [task EXCEPT ![t] = j] BY <1>1, <1>t DEF Capture, Job
  <2>2. j.off = task[t].off /\ j.goal = task[t].goal /\ j.pc = "probe" BY <1>t DEF Job
  <2>3. UNCHANGED <<reassert, retry, held>> /\ task[t].pc = "detect" BY <1>1 DEF Capture, At
  <2> HIDE DEF j
  <2> QED BY <1>m, <2>1, <2>2, <2>3 DEF Reverting
<1>2. CASE Probe(t)
  <2>3. UNCHANGED <<reassert, held>> /\ task[t].pc = "probe" BY <1>2 DEF Probe, At
  <2>4. CASE Fail(t) BY <1>f, <2>3, <2>4
  <2>5. CASE ~Fail(t)
    <3>1. PICK b : task' = [task EXCEPT ![t].ups = b, ![t].pc = "backup"] /\ retry' = retry
      BY <1>2, <2>5 DEF Probe
    <3> DEFINE j == [task[t] EXCEPT !.ups = b, !.pc = "backup"]
    <3>2. task' = [task EXCEPT ![t] = j] BY <3>1, <1>t DEF Job
    <3>3. j.off = task[t].off /\ j.goal = task[t].goal /\ j.pc = "backup" BY <1>t DEF Job
    <3> HIDE DEF j
    <3> QED BY <1>m, <2>3, <3>1, <3>2, <3>3 DEF Reverting
  <2> QED BY <2>4, <2>5
<1>3. CASE BackUp(t) \/ nm_quiet_install(t) \/ Write(t)
  <2>1. PICK pc \in {"quiet", "reprobe", "applied"} : task' = Go(t, pc)
    BY <1>3 DEF BackUp, nm_quiet_install, Write
  <2> DEFINE j == [task[t] EXCEPT !.pc = pc]
  <2>2. task' = [task EXCEPT ![t] = j] BY <2>1, <1>t DEF Go, Job
  <2>3. j.off = task[t].off /\ j.goal = task[t].goal /\ j.pc = pc BY <1>t DEF Job
  <2>4. UNCHANGED <<reassert, retry, held>> /\ task[t].pc # "adopting"
    BY <1>3 DEF BackUp, nm_quiet_install, Write, At
  <2> HIDE DEF j
  <2> QED BY <1>m, <2>1, <2>2, <2>3, <2>4 DEF Reverting
<1>4. CASE Reprobe(t)
  <2>3. UNCHANGED <<reassert, retry, held>> /\ task[t].pc = "reprobe" BY <1>4 DEF Reprobe, At
  <2>4. CASE task' = [task EXCEPT ![t].goal = "abort", ![t].pc = "restore"]
    <3> DEFINE j == [task[t] EXCEPT !.goal = "abort", !.pc = "restore"]
    <3>1. task' = [task EXCEPT ![t] = j] BY <2>4, <1>t DEF Job
    <3>2. j.off = task[t].off /\ j.goal = "abort" /\ j.pc = "restore" BY <1>t DEF Job
    <3> HIDE DEF j
    <3> QED BY <1>m, <2>3, <3>1, <3>2 DEF Reverting
  <2>5. CASE task' # [task EXCEPT ![t].goal = "abort", ![t].pc = "restore"]
    <3>1. PICK a : task' = [task EXCEPT ![t].ups = a, ![t].pc = "write"]
      BY <1>4, <2>5 DEF Reprobe
    <3> DEFINE j == [task[t] EXCEPT !.ups = a, !.pc = "write"]
    <3>2. task' = [task EXCEPT ![t] = j] BY <3>1, <1>t DEF Job
    <3>3. j.off = task[t].off /\ j.goal = task[t].goal /\ j.pc = "write" BY <1>t DEF Job
    <3> HIDE DEF j
    <3> QED BY <1>m, <2>3, <3>2, <3>3 DEF Reverting
  <2> QED BY <2>4, <2>5
<1>5. CASE WriteFails(t)
  BY <1>5, <1>f DEF WriteFails, At
<1>6. CASE Finish(t)
  <2>0. task[t].pc = "applied" /\ UNCHANGED <<reassert, retry>> BY <1>6 DEF Finish, At
  <2>1. CASE task[t].off
    <3> DEFINE j == [task[t] EXCEPT !.goal = "late", !.pc = "restore"]
    <3>1. task' = [task EXCEPT ![t] = j] /\ held' = held BY <1>6, <2>1, <1>t DEF Finish, Job
    <3>2. j.off = task[t].off /\ j.goal = "late" /\ j.pc = "restore" BY <1>t DEF Job
    <3> HIDE DEF j
    <3>3. t \in Retries BY <1>t, <2>1 DEF ServedInv, JobsFit, CallFit
    <3>4. RetryFit(j) /\ ~Works(task[t]) BY <2>1, <3>2 DEF RetryFit, Works
    <3> QED BY <1>t, <1>w, <2>0, <3>1, <3>3, <3>4, OneTask, Kinds DEF ServedInv
  <2>2. CASE ~task[t].off
    <3> DEFINE j == [task[t] EXCEPT !.seen = file, !.pc = "adopting"]
    <3>1. task' = [task EXCEPT ![t] = j] /\ held' = task[t].ups BY <1>6, <2>2, <1>t DEF Finish, Job
    <3>2. j.off = task[t].off /\ j.pc = "adopting" BY <1>t DEF Job
    <3> HIDE DEF j
    <3>3. held' # {} BY <1>t, <2>0, <3>1 DEF TasksSound, JobSound, Serving
    <3>4. t = "call" => CallFit(j, active)
      BY <3>2 DEF ServedInv, JobsFit, CallFit, Reverting
    <3>5. t \in Retries => RetryFit(j) BY <3>2 DEF RetryFit, Reverting
    <3> QED BY <1>t, <1>w, <2>0, <3>1, <3>3, <3>4, <3>5, OneTask DEF ServedInv
  <2> QED BY <2>1, <2>2
<1>7. CASE adopt_configurator(t)
  <2>0. task[t].pc = "adopting" /\ held' = held BY <1>7 DEF adopt_configurator, At
  <2> DEFINE ck == Cancel(End(t), reassert)
             j == [NoJob EXCEPT !.pc = "watch", !.ups = task[t].ups]
  <2>1. PICK w \in Watchers : reassert' = w /\ task' = [ck EXCEPT ![w] = j]
    BY <1>7 DEF adopt_configurator
  <2>2. retry' \in Retries \cup {Nobody} BY <1>7 DEF adopt_configurator, ServedInv
  <2>3. TasksSound(End(t)) /\ JobsFit(End(t), active)
    BY <1>t, EndSound, FitSet, NoJobFits DEF End, ServedInv
  <2>4. /\ TasksSound(ck) /\ JobsFit(ck, active)
        /\ \A u \in Tasks : u \notin Watchers => ck[u] = End(t)[u]
    BY SMTT(30), <2>3, CancelSound, FitCancel, CancelOnly, Kinds DEF ServedInv
  <2> HIDE DEF ck, j
  <2>5. JobsFit(task', active) BY <2>1, <2>4, FitSet, Kinds
  <2>6. \A u \in Tasks \ Watchers : task'[u] = IF u = t THEN NoJob ELSE task[u]
    BY <1>t, <2>1, <2>4, Kinds DEF End, TasksSound
  <2>7. task[t].pc = "adopting" => ~Works(task[t]) BY DEF Works
  <2>8. ASSUME active', task'["call"].pc \in {"none", "domains", "adopting"} PROVE Served'
    <3>1. task["call"].pc \in {"none", "domains", "adopting"}
      BY <2>0, <2>6, <2>8, Kinds
    <3>2. ASSUME NEW r \in Retries, Works(task[r]) PROVE Works(task'[r])
      BY <2>0, <2>6, <2>7, <3>2, Kinds
    <3> QED BY <1>w, <2>0, <2>8, <3>1, <3>2 DEF ServedInv, Served
  <2> QED BY <1>w, <2>1, <2>2, <2>5, <2>8 DEF ServedInv
<1> QED BY <1>1, <1>2, <1>3, <1>4, <1>5, <1>6, <1>7

LEMMA WatchersKeepServed ==
  ASSUME DnsInv, ServedInv, NEW w \in Watchers,
         pass(w) \/ Rewrite(w) \/ Tick(w) \/ Stop(w) \/ recapture(w)
  PROVE  ServedInv'
<1>t. /\ TasksSound(task) /\ task \in [Tasks -> Job] /\ w \in Tasks
      /\ w # "call" /\ w \notin Retries
  BY Kinds DEF DnsInv, TasksSound
<1>1. CASE pass(w) \/ Rewrite(w) \/ Tick(w) \/ Stop(w)
  <2>1. UNCHANGED <<alive, active, reassert, retry, held, gone>>
    BY <1>1 DEF pass, Rewrite, Tick, Stop
  <2>2. \E j : task' = [task EXCEPT ![w] = j]
    BY <1>1, <1>t DEF pass, Rewrite, Tick, Stop, Go, End
  <2> QED BY <1>t, <2>1, <2>2, OneTask DEF ServedInv
<1>2. CASE recapture(w)
  <2>a. UNCHANGED <<alive, active>> BY <1>2 DEF recapture
  <2>1. CASE task[w].goal = "gone"
    <3>1. Revert(w, "gone") /\ gone' = TRUE BY <1>2, <2>1 DEF recapture
    <3>2. JobsFit(task', active) /\ retry' = Nobody /\ reassert' = Nobody
      BY <1>t, <3>1, RevertFits DEF ServedInv
    <3> QED BY <2>a, <3>1, <3>2 DEF ServedInv, Served
  <2>2. CASE task[w].goal # "gone"
    <3>1. Spawn(End(w)) /\ reassert' = Nobody BY <1>2, <2>2 DEF recapture
    <3>2. TasksSound(End(w)) /\ JobsFit(End(w), active)
      BY <1>t, EndSound, FitSet DEF End, ServedInv
    <3>3. JobsFit(task', active) /\ retry' \in Retries /\ \E r \in Retries : Works(task'[r])
      BY <3>1, <3>2, SpawnServes DEF ServedInv
    <3> QED BY <2>a, <3>1, <3>3 DEF ServedInv, Served
  <2> QED BY <2>1, <2>2
<1> QED BY <1>1, <1>2

LEMMA OthersKeepServed ==
  ASSUME DnsInv, ServedInv,
         \/ \E r \in Retries : WakeUp(r)
         \/ OtherWrites \/ VpnUp \/ VpnDown \/ Blip
         \/ DaemonDies(TRUE) \/ DaemonDies(FALSE) \/ DaemonStarts
         \/ UNCHANGED dnsVars
  PROVE  ServedInv'
<1>t. TasksSound(task) /\ task \in [Tasks -> Job] BY DEF DnsInv, TasksSound
<1>1. ASSUME NEW r \in Retries, WakeUp(r) PROVE ServedInv'
  <2>0. UNCHANGED <<alive, active, reassert, retry, held, gone>> /\ task[r].pc = "wait"
    BY <1>1 DEF WakeUp, At
  <2>1. CASE task[r].off
    <3>1. task' = [task EXCEPT ![r] = NoJob] BY <1>1, <2>1 DEF WakeUp, End
    <3> QED BY <2>0, <2>1, <3>1, OneTask, NoJobFits, Kinds DEF Works, ServedInv
  <2>2. CASE ~task[r].off
    <3> DEFINE j == [task[r] EXCEPT !.pc = "detect"]
    <3>1. task' = [task EXCEPT ![r] = j] BY <1>1, <2>2, <1>t, Kinds DEF WakeUp, Go, Job
    <3>2. j.off = task[r].off /\ j.goal = task[r].goal /\ j.pc = "detect"
      BY <1>t, Kinds DEF Job
    <3> HIDE DEF j
    <3> QED BY <2>0, <3>1, <3>2, StillAtIt, Kinds DEF Reverting
  <2> QED BY <2>1, <2>2
<1>2. CASE OtherWrites \/ VpnUp \/ VpnDown \/ Blip \/ UNCHANGED dnsVars
  <2>1. UNCHANGED <<alive, active, reassert, retry, held, gone, task>>
    BY <1>2 DEF OtherWrites, VpnUp, VpnDown, Blip, dnsVars
  <2> QED BY <2>1 DEF ServedInv, Served
<1>3. ASSUME NEW panic, DaemonDies(panic) PROVE ServedInv'
  BY <1>3, NoJobFits, Kinds DEF DaemonDies, ServedInv, JobsFit
<1>4. CASE DaemonStarts
  BY <1>4 DEF DaemonStarts, ServedInv, Served
<1> QED BY <1>1, <1>2, <1>3, <1>4

\* While the node is up and no command is being served, a backend is held or a
\* retry that nobody cancelled is on the way to one, however the commands, the
\* retries and the watchers interleave.
THEOREM ServedSafe == DnsSpec => []ActiveServed
<1>1. DnsInit => ServedInv
  BY NoJobFits, Kinds DEF DnsInit, ServedInv, JobsFit
<1>2. DnsInv /\ ServedInv /\ [DnsNext]_dnsVars => ServedInv'
  BY CommandsKeepServed, RevertingKeepsServed, DetectionKeepsServed, WatchersKeepServed,
    OthersKeepServed DEF DnsNext
<1>3. ServedInv => ActiveServed
  <2> SUFFICES ASSUME ServedInv, active, Quiet("call") PROVE ActiveServed!2
    BY DEF ActiveServed
  <2>1. Served BY DEF Quiet, ServedInv, JobsFit, CallFit
  <2>2. ASSUME NEW r \in Retries, Works(task[r]) PROVE ~Quiet(r) /\ ~task[r].off
    BY <2>2 DEF Works, Quiet, ServedInv, JobsFit, RetryFit
  <2> QED BY <2>1, <2>2 DEF Served
<1> QED BY <1>1, <1>2, <1>3, DnsInit_Inv, DnsStep, PTL DEF DnsSpec
====
