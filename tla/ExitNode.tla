------------------------------ MODULE ExitNode ------------------------------
(* Exit nodes on a Linux host, both roles: the gateway (forwarding sysctls,  *)
(* masquerading table, offer on the signed roster) and the client (policy    *)
(* routing of all traffic into the tunnel). One reconcile at a time holds    *)
(* exit_reconcile; `ray up`, `ray down`, `ray exit-node`, the re-apply       *)
(* listener and the kernel check queue for it. The kernel's state and the    *)
(* snapshot of the host's sysctls outlive the daemon.                        *)
(*                                                                           *)
(* Both address families of the client tunnel are changed together; a claim  *)
(* says whether the gateway can carry anything. The per-interface sysctls go *)
(* with v6.                                                                  *)
EXTENDS Integers, Sequences

CONSTANTS ExitScenes  \* what each behaviour may meet: the roles the operator
                      \* switches, whether this node holds the network key,
                      \* whether the coordinator's build knows the claims, and
                      \* how many commands, outside events, failures and deaths

Holders_of_lock == {"up", "down", "ipc", "listener", "watch"}
Unset == ""
NoShot == [v4 |-> Unset, v6 |-> "absent"]
Untunnelled == [table |-> FALSE, route |-> FALSE, bypass |-> FALSE, catch |-> FALSE]
Tunnelled == [table |-> TRUE, route |-> TRUE, bypass |-> TRUE, catch |-> TRUE]

VARIABLES
  stage,     \* the member of ExitScenes of this behaviour
  settings,  \* the config file: exit_allow is not empty, exit_node_use is set
  wanted,    \* the sysctls as the host's owner wants them
  sysctl,    \* the sysctls as they are
  shot,      \* exit-forward.snapshot
  nat,       \* the gateway's nft table is loaded
  tunnel,    \* what of the client's routing is in the kernel
  daemon,    \* "dead", "runs" or "panics"
  exit,      \* the daemon's memory
  doing,     \* [Holders_of_lock -> "idle", "setup" or "queued"]
  reconcile, \* who waits for exit_reconcile, its holder first
  step,      \* the next step of the holder
  hook,      \* the next step of the panic hook
  nudged,    \* the permit in exit_reapply
  sent,      \* offers under way to the coordinator
  member,    \* our entry in the signed roster
  gateway,   \* what the roster says of the exit peer we use
  uplink,    \* whether the host can reach the internet
  tally,     \* how much of the scene's budget is spent
  excuse,    \* history: what keeps the views from agreeing
  guarded    \* history: the tunnel was installed and nobody gave it up since

exitVars == <<stage, settings, wanted, sysctl, shot, nat, tunnel, daemon, exit, doing,
              reconcile, step, hook, nudged, sent, member, gateway, uplink, tally,
              excuse, guarded>>
kernelVars == <<wanted, sysctl, shot, nat, tunnel>>
rosterVars == <<sent, member>>
outsideVars == <<stage, settings, daemon, hook, gateway, uplink>>

Standby == [active |-> FALSE, sync |-> FALSE, offering |-> FALSE, claim |-> FALSE,
            sel |-> "none", pending |-> FALSE, error |-> FALSE, dns |-> "none"]
Idle_all == [t \in Holders_of_lock |-> "idle"]

ExitInit ==
  /\ stage \in ExitScenes
  /\ settings = [allow |-> FALSE, use |-> FALSE]
  /\ wanted = [v4 |-> "0", v6 |-> "0"] /\ sysctl = wanted /\ shot = NoShot
  /\ nat = FALSE /\ tunnel = Untunnelled
  /\ daemon = "dead" /\ exit = Standby /\ doing = Idle_all
  /\ reconcile = <<>> /\ step = "free" /\ hook = "none" /\ nudged = FALSE
  /\ sent = {} /\ member = [on |-> FALSE, families |-> "Unknown"]
  /\ gateway = "carries" /\ uplink = TRUE
  /\ tally = [commands |-> 0, events |-> 0, failures |-> 0, deaths |-> 0]
  /\ excuse = {} /\ guarded = FALSE

Uses(what) ==
  /\ tally[what] < stage[what]
  /\ tally' = [tally EXCEPT ![what] = @ + 1]

-----------------------------------------------------------------------------
(* The offer on the roster.                                                  *)

claimed_exit_families(e) ==
  IF ~e.offering THEN "Unknown" ELSE IF e.claim THEN "Carries" ELSE "Neither"

offer_disagrees(m, e) ==
  \/ m.on # e.offering
  \/ e.offering /\ m.families # "Unknown" /\ m.families # claimed_exit_families(e)

\* Silence never overwrites a statement. An older coordinator keeps none.
record_exit_offer(m, offer) ==
  [on |-> offer.on,
   families |-> CASE stage.legacy -> "Unknown"
                  [] ~stage.legacy /\ offer.families = "Unknown" -> m.families
                  [] OTHER -> offer.families]

refresh_uplinks(e) == [e EXCEPT !.claim = IF e.offering THEN uplink ELSE @]

Agreed(m, e, ex) == IF offer_disagrees(m, e) THEN ex ELSE ex \ {"lost"}

\* The claim e goes to the roster: at once by a node that holds the key, else
\* to the coordinator, to which there may be no live connection.
sync_exit_offers(e) ==
  LET offer == [on |-> e.offering, families |-> claimed_exit_families(e)] IN
  IF ~e.sync \/ ~offer_disagrees(member, e)
  THEN UNCHANGED rosterVars /\ excuse' = Agreed(member, e, excuse)
  ELSE IF stage.own
       THEN /\ member' = record_exit_offer(member, offer)
            /\ excuse' = Agreed(member', e, excuse)
            /\ UNCHANGED sent
       ELSE \/ sent' = sent \cup {offer} /\ UNCHANGED <<member, excuse>>
            \/ excuse' = excuse \cup {"lost"} /\ UNCHANGED rosterVars

\* A record overtaken by another leaves the roster behind.
HandleOffer(offer) ==
  /\ offer \in sent
  /\ sent' = sent \ {offer}
  /\ member' = record_exit_offer(member, offer)
  /\ excuse' = IF offer_disagrees(member', exit) THEN excuse \cup {"lost"} ELSE excuse \ {"lost"}
  /\ UNCHANGED <<outsideVars, kernelVars, exit, doing, reconcile, step, nudged, tally, guarded>>

LoseOffer(offer) ==
  /\ offer \in sent
  /\ sent' = sent \ {offer}
  /\ excuse' = excuse \cup {"lost"}
  /\ UNCHANGED <<outsideVars, kernelVars, member, exit, doing, reconcile, step, nudged, tally,
                 guarded>>

\* The reconverge worker's tick, which takes no lock.
Backstop ==
  /\ daemon = "runs" /\ exit.sync
  /\ exit' = refresh_uplinks(exit)
  /\ sync_exit_offers(exit')
  /\ exit' # exit \/ sent' # sent \/ member' # member
  /\ UNCHANGED <<outsideVars, kernelVars, doing, reconcile, step, nudged, tally, guarded>>

-----------------------------------------------------------------------------
(* Who asks for a reconcile.                                                 *)

Enqueue(t) ==
  /\ reconcile' = Append(reconcile, t)
  /\ doing' = [doing EXCEPT ![t] = "queued"]
Aside == <<outsideVars, kernelVars, rosterVars, step, excuse, guarded>>

activate ==
  /\ daemon = "runs" /\ ~exit.active /\ doing["up"] = "idle"
  /\ Uses("commands")
  /\ exit' = [exit EXCEPT !.active = TRUE]
  /\ doing' = [doing EXCEPT !["up"] = "setup"]
  /\ UNCHANGED <<Aside, reconcile, nudged>>

\* The link, the routes and DNS are set up in between.
activate_data_plane ==
  /\ daemon = "runs" /\ doing["up"] = "setup"
  /\ exit' = [exit EXCEPT !.sync = TRUE]
  /\ excuse' = excuse \ {"overlap"}
  /\ Enqueue("up")
  /\ UNCHANGED <<outsideVars, kernelVars, rosterVars, step, guarded, nudged, tally>>

\* A required step of the setup fails: the teardown of `ray down` follows.
require_tun_setup ==
  /\ daemon = "runs" /\ doing["up"] = "setup" /\ doing["down"] = "idle"
  /\ Uses("failures")
  /\ exit' = [exit EXCEPT !.active = FALSE]
  /\ doing' = [doing EXCEPT !["up"] = "idle", !["down"] = "setup"]
  /\ UNCHANGED <<Aside, reconcile, nudged>>

ExitDown ==
  /\ daemon = "runs" /\ exit.active /\ doing["down"] = "idle"
  /\ Uses("commands")
  /\ exit' = [exit EXCEPT !.active = FALSE]
  /\ doing' = [doing EXCEPT !["down"] = "setup"]
  /\ UNCHANGED <<Aside, reconcile, nudged>>

\* DNS is reverted and the link taken down before the lock is asked for.
deactivate_data_plane ==
  /\ daemon = "runs" /\ doing["down"] = "setup"
  /\ Enqueue("down")
  /\ UNCHANGED <<Aside, exit, nudged, tally>>

\* A new selection needs a peer that advertises a usable exit.
Configure(s) ==
  /\ daemon = "runs" /\ doing["ipc"] = "idle" /\ s # settings
  /\ s.use /\ ~settings.use => gateway = "carries"
  /\ Uses("commands")
  /\ settings' = s
  /\ IF exit.active THEN Enqueue("ipc") ELSE UNCHANGED <<doing, reconcile>>
  /\ UNCHANGED <<stage, daemon, hook, gateway, uplink, kernelVars, rosterVars, step, excuse,
                 guarded, exit, nudged>>
exit_node_allow == \E b \in BOOLEAN : stage.serves /\ Configure([settings EXCEPT !.allow = b])
exit_node_use == \E b \in BOOLEAN : stage.uses /\ Configure([settings EXCEPT !.use = b])

\* A permit that arrives on standby is dropped.
spawn_exit_reapply_listener ==
  /\ daemon = "runs" /\ nudged /\ doing["listener"] = "idle"
  /\ nudged' = FALSE
  /\ IF exit.active THEN Enqueue("listener") ELSE UNCHANGED <<doing, reconcile>>
  /\ UNCHANGED <<Aside, exit, tally>>

probe_exit_kernel ==
  \/ exit.offering /\ ~(sysctl.v6 = "1" /\ nat)
  \/ exit.sel # "none" /\ ~exit.error /\ tunnel # Tunnelled

\* The first read takes no lock and may see a reconcile half done.
check_exit_kernel_state ==
  /\ daemon = "runs" /\ exit.active /\ doing["watch"] = "idle" /\ probe_exit_kernel
  /\ Enqueue("watch")
  /\ UNCHANGED <<Aside, exit, nudged, tally>>

-----------------------------------------------------------------------------
(* The reconcile, step by step. Its holder is the head of the queue.         *)

Now(s) == daemon # "dead" /\ reconcile # <<>> /\ step = s
Holder == Head(reconcile)
Then(s) == step' = s /\ UNCHANGED <<doing, reconcile>>
Release ==
  /\ reconcile' = Tail(reconcile)
  /\ doing' = [doing EXCEPT ![Holder] = "idle"]
  /\ step' = "free"
Inside == <<outsideVars, nudged>>
After_server == IF Holder = "down" THEN "withdraw" ELSE "client"

\* The kernel check reads again under the lock, and not on standby.
Locked ==
  /\ Now("free") /\ daemon = "runs"
  /\ CASE Holder = "down" -> Then("clear")
       [] Holder = "watch" /\ ~(exit.active /\ probe_exit_kernel) -> Release
       [] OTHER -> Then("reload")
  /\ UNCHANGED <<Inside, kernelVars, rosterVars, exit, tally, excuse, guarded>>

Selection == IF ~settings.use THEN "none" ELSE gateway

\* A selection stands through gaps of the roster; only clearing it ends it.
reload_exit_state ==
  /\ Now("reload")
  /\ exit' = [exit EXCEPT !.offering = settings.allow, !.sel = Selection,
                          !.pending = (Selection = "blocked")]
  /\ excuse' = (excuse \ {"failed", "damaged", "late"}) \cup (IF exit.active THEN {} ELSE {"late"})
  /\ guarded' = (guarded /\ settings.use)
  /\ Then(IF settings.allow THEN "snapshot" ELSE "drop")
  /\ UNCHANGED <<Inside, kernelVars, rosterVars, tally>>

\* The config cannot be read: what is in place is retained.
reload_fails ==
  /\ Now("reload") /\ Uses("failures")
  /\ excuse' = excuse \cup {"failed"}
  /\ Release
  /\ UNCHANGED <<Inside, kernelVars, rosterVars, exit, guarded>>

Server(torn) ==
  /\ excuse' = excuse \cup (IF torn /\ daemon = "panics" THEN {"torn"} ELSE {})
  /\ UNCHANGED <<Inside, rosterVars, wanted, tunnel, guarded>>

\* Mutant: every enable takes the snapshot again.
enable_again ==
  /\ Now("snapshot")
  /\ shot' = [v4 |-> Unset, v6 |-> sysctl.v6]
  /\ exit' = [exit EXCEPT !.claim = uplink]
  /\ Then("forward4")
  /\ Server(TRUE) /\ UNCHANGED <<sysctl, nat, tally>>

\* Taken exactly once: a later enable would find the values we set ourselves.
enable ==
  /\ Now("snapshot")
  /\ shot' = IF shot = NoShot THEN [v4 |-> Unset, v6 |-> sysctl.v6] ELSE shot
  /\ exit' = [exit EXCEPT !.claim = uplink]
  /\ Then("forward4")
  /\ Server(TRUE) /\ UNCHANGED <<sysctl, nat, tally>>

\* IPv4 is carried while there is an uplink and a free pool. Its value is saved
\* when it is turned on, and dropped from the snapshot once put back.
set_v4_forwarding ==
  /\ Now("forward4")
  /\ \E on \in BOOLEAN :
       \/ /\ on /\ Then("write4")
          /\ shot' = [shot EXCEPT !.v4 = IF @ = Unset THEN sysctl.v4 ELSE @]
          /\ UNCHANGED sysctl
       \/ /\ ~on /\ shot.v4 # Unset /\ Then("clear4")
          /\ sysctl' = [sysctl EXCEPT !.v4 = shot.v4]
          /\ UNCHANGED shot
       \/ /\ ~on /\ shot.v4 = Unset /\ Then("forward6")
          /\ UNCHANGED <<sysctl, shot>>
  /\ Server(TRUE) /\ UNCHANGED <<exit, nat, tally>>

write_v4 ==
  /\ Now("write4") /\ Then("forward6")
  /\ sysctl' = [sysctl EXCEPT !.v4 = "1"]
  /\ Server(TRUE) /\ UNCHANGED <<shot, exit, nat, tally>>

clear_v4 ==
  /\ Now("clear4") /\ Then("forward6")
  /\ shot' = [shot EXCEPT !.v4 = Unset]
  /\ Server(TRUE) /\ UNCHANGED <<sysctl, exit, nat, tally>>

write_v6 ==
  /\ Now("forward6") /\ Then("masquerade")
  /\ sysctl' = [sysctl EXCEPT !.v6 = "1"]
  /\ Server(TRUE) /\ UNCHANGED <<shot, exit, nat, tally>>

nft_load ==
  /\ Now("masquerade") /\ Then("client")
  /\ nat' = TRUE
  /\ Server(TRUE) /\ UNCHANGED <<sysctl, shot, exit, tally>>

\* Any step of it may fail; apply_os then undoes the whole and drops the offer.
enable_fails ==
  /\ step \in {"snapshot", "forward4", "write4", "clear4", "forward6", "masquerade"}
  /\ Now(step) /\ Uses("failures")
  /\ Then("drop")
  /\ excuse' = excuse \cup {"failed"}
  /\ UNCHANGED <<Inside, kernelVars, rosterVars, exit, guarded>>

Restored ==
  [v4 |-> IF shot.v4 = Unset THEN sysctl.v4 ELSE shot.v4,
   v6 |-> IF shot.v6 = "absent" THEN sysctl.v6 ELSE shot.v6]
Unoffered == [exit EXCEPT !.offering = FALSE, !.claim = FALSE]

\* A no-op without a snapshot.
disable ==
  /\ Now("drop")
  /\ IF shot = NoShot
     THEN Then(After_server) /\ exit' = Unoffered /\ UNCHANGED nat
     ELSE Then("restore") /\ nat' = FALSE /\ UNCHANGED exit
  /\ Server(FALSE) /\ UNCHANGED <<sysctl, shot, tally>>

restore_sysctls ==
  /\ Now("restore") /\ Then("remove")
  /\ sysctl' = Restored
  /\ Server(FALSE) /\ UNCHANGED <<shot, exit, nat, tally>>

remove_snapshot ==
  /\ Now("remove") /\ Then(After_server)
  /\ shot' = NoShot
  /\ exit' = Unoffered
  /\ Server(FALSE) /\ UNCHANGED <<sysctl, nat, tally>>

Client == UNCHANGED <<Inside, rosterVars, wanted, sysctl, shot, nat>>
Put(t, s) == tunnel' = t /\ Then(s)

apply_exit_client ==
  /\ Now("client")
  /\ Then(CASE exit.sel # "none" -> "table"
            [] exit.sel = "none" /\ tunnel # Untunnelled -> "unrule"
            [] OTHER -> "settle")
  /\ exit' = [exit EXCEPT !.error = (@ /\ exit.sel # "none")]
  /\ Client /\ UNCHANGED <<tunnel, tally, excuse, guarded>>

\* Mutant: the rebuild of the rules takes the catch-all down, too.
install_client_routing_all ==
  /\ \/ Now("table") /\ Put([tunnel EXCEPT !.table = TRUE], "route")
     \/ Now("route") /\ Put([tunnel EXCEPT !.route = TRUE], "sweep")
     \/ Now("sweep") /\ Put([tunnel EXCEPT !.bypass = FALSE, !.catch = FALSE], "bypass")
     \/ Now("bypass") /\ Put([tunnel EXCEPT !.bypass = TRUE], "catch")
  /\ Client /\ UNCHANGED <<exit, tally, excuse, guarded>>

\* The marks first, then the routes behind the rule, then the rules. The
\* catch-all stands while the others are rebuilt.
install_client_routing ==
  /\ \/ Now("table") /\ Put([tunnel EXCEPT !.table = TRUE], "route")
     \/ Now("route") /\ Put([tunnel EXCEPT !.route = TRUE], "sweep")
     \/ Now("sweep") /\ Put([tunnel EXCEPT !.bypass = FALSE], "bypass")
     \/ Now("bypass") /\ Put([tunnel EXCEPT !.bypass = TRUE], "catch")
  /\ Client /\ UNCHANGED <<exit, tally, excuse, guarded>>

install_catch_all ==
  /\ Now("catch") /\ Put([tunnel EXCEPT !.catch = TRUE], "settle")
  /\ exit' = [exit EXCEPT !.error = FALSE]
  /\ guarded' = TRUE
  /\ Client /\ UNCHANGED <<tally, excuse>>

\* What went in before the failure stays in, and the selection stands.
install_fails ==
  /\ step \in {"table", "route", "bypass", "catch"}
  /\ Now(step) /\ Uses("failures")
  /\ Then("settle")
  /\ exit' = [exit EXCEPT !.error = TRUE]
  /\ excuse' = excuse \cup {"failed"}
  /\ Client /\ UNCHANGED <<tunnel, guarded>>

teardown_client_routing ==
  /\ \/ Now("unrule") /\ Put([Untunnelled EXCEPT !.table = tunnel.table], "untable")
     \/ Now("untable") /\ Put(Untunnelled, "settle")
  /\ exit' = [exit EXCEPT !.error = FALSE]
  /\ Client /\ UNCHANGED <<tally, excuse, guarded>>

\* The DNS override follows the selection, and what survived is advertised.
apply_exit_node_locked ==
  /\ Now("settle") /\ Holder # "down"
  /\ exit' = refresh_uplinks([exit EXCEPT !.dns = exit.sel])
  /\ sync_exit_offers(exit')
  /\ Release
  /\ UNCHANGED <<Inside, kernelVars, tally, guarded>>

\* `ray down`: no transit, then the kernel, then the roster, then the tunnel.
clear_offers ==
  /\ Now("clear") /\ Then("drop")
  /\ exit' = [exit EXCEPT !.offering = FALSE]
  /\ excuse' = (excuse \ {"late"}) \cup (IF exit.active THEN {"late"} ELSE {})
  /\ UNCHANGED <<Inside, kernelVars, rosterVars, tally, guarded>>

\* The withdrawal, while syncing is still enabled. Then the selection goes.
withdraw_offer ==
  /\ Now("withdraw") /\ Then("deselect")
  /\ sync_exit_offers(exit)
  /\ UNCHANGED <<Inside, kernelVars, exit, tally, guarded>>

disable_sync ==
  /\ Now("deselect") /\ Then("client")
  /\ exit' = [exit EXCEPT !.sync = FALSE, !.sel = "none"]
  /\ excuse' = IF exit.active THEN excuse \cup {"overlap"} ELSE excuse
  /\ guarded' = FALSE
  /\ UNCHANGED <<Inside, kernelVars, rosterVars, tally>>

down_ends ==
  /\ Now("settle") /\ Holder = "down" /\ Release
  /\ exit' = [exit EXCEPT !.dns = exit.sel]
  /\ UNCHANGED <<Inside, kernelVars, rosterVars, tally, excuse, guarded>>

-----------------------------------------------------------------------------
(* The end of the daemon, and its next start.                                *)

\* The kernel drops the routes of a TUN that is gone. The roster keeps an
\* offer nobody withdrew.
Dies ==
  /\ daemon' = "dead" /\ hook' = "none"
  /\ exit' = Standby /\ doing' = Idle_all /\ reconcile' = <<>> /\ step' = "free"
  /\ nudged' = FALSE /\ guarded' = FALSE
  /\ excuse' = (excuse \cap {"torn", "lost"}) \cup (IF member.on THEN {"lost"} ELSE {})
  /\ tunnel' = [tunnel EXCEPT !.route = FALSE]
  /\ UNCHANGED <<stage, settings, gateway, uplink, wanted, sysctl, shot, nat, rosterVars>>

Killed == daemon = "runs" /\ Uses("deaths") /\ Dies

\* The panic hook takes no lock, and the reconcile under way runs on until the
\* hook aborts.
Panic ==
  /\ daemon = "runs" /\ Uses("deaths")
  /\ daemon' = "panics" /\ hook' = "drop"
  /\ UNCHANGED <<stage, settings, gateway, uplink, kernelVars, rosterVars, exit, doing,
                 reconcile, step, nudged, excuse, guarded>>

restore_host_state ==
  /\ daemon = "panics"
  /\ CASE hook = "drop" -> /\ hook' = IF shot = NoShot THEN "unrule" ELSE "restore"
                           /\ nat' = (nat /\ shot = NoShot)
                           /\ UNCHANGED <<sysctl, shot, tunnel>>
       [] hook = "restore" -> hook' = "remove" /\ sysctl' = Restored /\ UNCHANGED <<shot, nat, tunnel>>
       [] hook = "remove" -> hook' = "unrule" /\ shot' = NoShot /\ UNCHANGED <<sysctl, nat, tunnel>>
       [] hook = "unrule" -> hook' = "abort" /\ tunnel' = Untunnelled /\ UNCHANGED <<sysctl, shot, nat>>
       [] hook = "abort" -> FALSE
  /\ guarded' = FALSE
  /\ UNCHANGED <<stage, settings, daemon, gateway, uplink, wanted, rosterVars, exit, doing,
                 reconcile, step, nudged, tally, excuse>>

Abort == daemon = "panics" /\ hook = "abort" /\ Dies /\ UNCHANGED tally

\* `ray daemon --cleanup`, which the service manager runs after a bad exit.
cleanup_after_exit ==
  /\ daemon = "dead" /\ (shot # NoShot \/ tunnel # Untunnelled)
  /\ sysctl' = Restored /\ shot' = NoShot /\ tunnel' = Untunnelled
  /\ nat' = (nat /\ shot = NoShot)
  /\ UNCHANGED <<outsideVars, wanted, rosterVars, exit, doing, reconcile, step, nudged, tally,
                 excuse, guarded>>

\* The host starts with its own sysctls; the snapshot is a file and stays.
Reboot ==
  /\ daemon = "dead" /\ Uses("events")
  /\ sysctl' = wanted /\ nat' = FALSE /\ tunnel' = Untunnelled
  /\ UNCHANGED <<outsideVars, wanted, shot, rosterVars, exit, doing, reconcile, step, nudged,
                 excuse, guarded>>

run_daemon ==
  /\ daemon = "dead"
  /\ daemon' = "runs"
  /\ exit' = [Standby EXCEPT !.active = TRUE]
  /\ doing' = [Idle_all EXCEPT !["up"] = "setup"]
  /\ UNCHANGED <<stage, settings, hook, gateway, uplink, kernelVars, rosterVars, reconcile, step,
                 nudged, tally, excuse, guarded>>

-----------------------------------------------------------------------------
(* The world around it.                                                      *)

Around == <<stage, settings, daemon, hook, rosterVars, exit, doing, reconcile, step>>

\* Other software of the host turns forwarding on or off for itself, as long
\* as no snapshot holds the value.
HostSets(f) ==
  /\ IF f = "v4" THEN shot.v4 = Unset ELSE shot = NoShot
  /\ Uses("events")
  /\ wanted' = [wanted EXCEPT ![f] = IF @ = "0" THEN "1" ELSE "0"]
  /\ sysctl' = [sysctl EXCEPT ![f] = wanted'[f]]
  /\ UNCHANGED <<Around, shot, nat, tunnel, gateway, uplink, nudged, excuse, guarded>>

\* A firewall reload or a network manager removes what is ours.
Flush ==
  /\ Uses("events")
  /\ \/ nat' = FALSE /\ tunnel' = [tunnel EXCEPT !.table = FALSE]
     \/ tunnel' = [tunnel EXCEPT !.bypass = FALSE, !.catch = FALSE] /\ UNCHANGED nat
  /\ <<nat, tunnel>>' # <<nat, tunnel>>
  /\ excuse' = excuse \cup {"damaged"}
  /\ guarded' = (guarded /\ tunnel'.catch)
  /\ UNCHANGED <<Around, wanted, sysctl, shot, gateway, uplink, nudged>>

\* The TUN lost its link and with it the default route; the watcher repairs
\* the link and nudges.
spawn_repair_watcher ==
  /\ daemon = "runs" /\ exit.active /\ tunnel.route
  /\ Uses("events")
  /\ tunnel' = [tunnel EXCEPT !.route = FALSE]
  /\ excuse' = excuse \cup {"damaged"}
  /\ nudged' = TRUE
  /\ UNCHANGED <<Around, wanted, sysctl, shot, nat, gateway, uplink, guarded>>

\* Mutant: only a pending selection is told of a new roster.
nudge_exit_reapply_pending ==
  nudged' = (nudged \/ exit.pending)
\* An installed tunnel is judged against every new roster, too.
nudge_exit_reapply ==
  nudged' = (nudged \/ exit.pending \/ exit.sel # "none")

\* A reconverge applies a roster in which the exit peer came, went or lost its
\* uplink.
Reconverge ==
  /\ daemon = "runs" /\ stage.uses
  /\ Uses("events")
  /\ gateway' = IF gateway = "carries" THEN "blocked" ELSE "carries"
  /\ nudge_exit_reapply
  /\ UNCHANGED <<Around, kernelVars, uplink, excuse, guarded>>

UplinkChanges ==
  /\ stage.serves /\ Uses("events")
  /\ uplink' = ~uplink
  /\ UNCHANGED <<Around, kernelVars, gateway, nudged, excuse, guarded>>

-----------------------------------------------------------------------------
ExitNext ==
  \/ \E o \in sent : HandleOffer(o) \/ LoseOffer(o)
  \/ Backstop
  \/ activate \/ activate_data_plane \/ require_tun_setup
  \/ ExitDown \/ deactivate_data_plane
  \/ exit_node_allow \/ exit_node_use
  \/ spawn_exit_reapply_listener \/ check_exit_kernel_state
  \/ Locked \/ reload_exit_state \/ reload_fails
  \/ enable \/ set_v4_forwarding \/ write_v4 \/ clear_v4 \/ write_v6 \/ nft_load \/ enable_fails
  \/ disable \/ restore_sysctls \/ remove_snapshot
  \/ apply_exit_client \/ install_client_routing \/ install_catch_all \/ install_fails
  \/ teardown_client_routing \/ apply_exit_node_locked
  \/ clear_offers \/ withdraw_offer \/ disable_sync \/ down_ends
  \/ Killed \/ Panic \/ restore_host_state \/ Abort \/ cleanup_after_exit \/ Reboot \/ run_daemon
  \/ \E f \in {"v4", "v6"} : HostSets(f)
  \/ Flush \/ spawn_repair_watcher \/ Reconverge \/ UplinkChanges

ExitSpec == ExitInit /\ [][ExitNext]_exitVars

-----------------------------------------------------------------------------
Values == {"0", "1"}

\* Every variable keeps its shape, and nobody queues twice.
ExitTypeOK ==
  /\ stage \in ExitScenes
  /\ settings \in [allow : BOOLEAN, use : BOOLEAN]
  /\ wanted \in [v4 : Values, v6 : Values] /\ sysctl \in [v4 : Values, v6 : Values]
  /\ shot \in [v4 : Values \cup {Unset}, v6 : Values \cup {"absent"}]
  /\ nat \in BOOLEAN
  /\ tunnel \in [table : BOOLEAN, route : BOOLEAN, bypass : BOOLEAN, catch : BOOLEAN]
  /\ daemon \in {"dead", "runs", "panics"}
  /\ exit.sel \in {"none", "carries", "blocked"} /\ exit.dns \in {"none", "carries", "blocked"}
  /\ \A f \in {"active", "sync", "offering", "claim", "pending", "error"} : exit[f] \in BOOLEAN
  /\ \A t \in Holders_of_lock :
       (doing[t] = "queued") <=> (\E n \in 1..Len(reconcile) : reconcile[n] = t)
  /\ \A m, n \in 1..Len(reconcile) : reconcile[m] = reconcile[n] => m = n
  /\ step = "free" \/ reconcile # <<>>
  /\ guarded \in BOOLEAN

\* What the host's owner set is never lost: where a sysctl differs from it, the
\* snapshot on disk holds it, whatever step enable, disable or a death stopped
\* at. (Of linux.rs: "a crash can never leave the host acting as an open
\* router".) Not said when the panic hook ran beside an enable.
HostValuesKept ==
  "torn" \in excuse
  \/ \A f \in {"v4", "v6"} : sysctl[f] # wanted[f] => shot[f] = wanted[f]

\* Once the tunnel is installed, the rule that keeps traffic off the uplink
\* stands through every re-apply, failed install, roster gap and unreadable
\* config, until the operator clears the selection or takes the node down, or
\* somebody else removes it.
GuardStands == guarded => tunnel.catch

\* Nothing is under way.
Resting ==
  /\ daemon = "runs" /\ doing = Idle_all /\ ~nudged /\ sent = {}

\* Once nothing is under way the config, the kernel, the memory and the roster
\* agree: up, on both roles and the advertised offer; on standby, on nothing.
\* Excused are a failed step, damage the kernel check has yet to find, an offer
\* that did not arrive, `ray up` overlapping `ray down`, and a panic hook that
\* ran beside an enable.
SettledAgrees ==
  Resting =>
    /\ exit.active /\ excuse \cap {"failed", "damaged", "late", "torn"} = {} =>
         /\ exit.offering = settings.allow /\ nat = settings.allow
         /\ (settings.allow => sysctl.v6 = "1") /\ (~settings.allow => sysctl = wanted)
         /\ tunnel = (IF settings.use THEN Tunnelled ELSE Untunnelled)
         /\ exit.sel = Selection /\ exit.dns = exit.sel
    /\ ~exit.active /\ excuse \cap {"late", "torn"} = {} =>
         /\ ~exit.offering /\ exit.sel = "none" /\ exit.dns = "none"
         /\ ~nat /\ sysctl = wanted /\ shot = NoShot
         /\ tunnel = Untunnelled
    /\ excuse \cap {"failed", "lost", "late", "overlap"} = {} =>
         /\ exit.active => ~offer_disagrees(member, exit)
         /\ ~exit.active => ~member.on
=============================================================================
