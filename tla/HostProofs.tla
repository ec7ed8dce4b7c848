----------------------------- MODULE HostProofs -----------------------------
(***************************************************************************)
(* Destruction and ExitNode, for any nodes, records and faults: a network  *)
(* that is forgotten is proved destroyed, for good, and what an exit node  *)
(* or its client borrows from the host is kept until it is put back.       *)
(***************************************************************************)
EXTENDS Destruction, ExitNode, TLAPS

\* Most steps are first-order; the ones that need arithmetic or sequences cite SMT.
USE ZenonT(30)

-----------------------------------------------------------------------------
(* Destruction. ForgottenIsProved is not inductive: Forget relies on what    *)
(* the earlier steps of destroy_network have left on disk.                   *)

\* The step a node's destroy_network has reached, and the files that step rests on.
DestProved(n) == n \in proof /\ (n \in Holders => n \in index)
DestInv ==
  /\ destroying \in [Nodes -> {"no", "begin", "index", "proof", "told", "forgot"}]
  /\ ForgottenIsProved
  /\ \A n \in Nodes : destroying[n] = "index" => (n \in Holders => n \in index)
  /\ \A n \in Nodes : destroying[n] \in {"proof", "told", "forgot"} => DestProved(n)

\* Starting a destruction leaves every step that has begun where it is.
LEMMA StartKeeps ==
  ASSUME DestInv, NEW n, Start(n)
  PROVE  /\ destroying' \in [Nodes -> {"no", "begin", "index", "proof", "told", "forgot"}]
         /\ \A m \in Nodes : destroying'[m] # destroying[m] => destroying'[m] = "begin"
BY DEF DestInv, Start

\* Files are only added and steps only begun: nothing that was established is lost.
LEMMA DestQuiet ==
  ASSUME DestInv, Holders' = Holders, proof \subseteq proof', index \subseteq index',
         saved \subseteq saved',
         destroying' \in [Nodes -> {"no", "begin", "index", "proof", "told", "forgot"}],
         \A m \in Nodes : destroying'[m] # destroying[m] => destroying'[m] \in {"no", "begin"}
  PROVE  DestInv'
BY DEF DestInv, ForgottenIsProved, DestProved

LEMMA DestInit_Inv == DestInit => DestInv
BY DEF DestInit, DestInv, ForgottenIsProved, DestProved

\* Every step of every node keeps DestInv.
LEMMA DestStep == DestInv /\ [DestNext]_destVars => DestInv'
<1> SUFFICES ASSUME DestInv, [DestNext]_destVars PROVE DestInv'
  OBVIOUS
<1>t. destroying \in [Nodes -> {"no", "begin", "index", "proof", "told", "forgot"}]
  BY DEF DestInv
<1>1. CASE UNCHANGED destVars
  BY <1>1 DEF destVars, DestInv, ForgottenIsProved, DestProved
<1>2. CASE nuke_network
  BY <1>2, StartKeeps, DestQuiet DEF nuke_network
<1>3. ASSUME NEW n \in Nodes,
             \/ SignedRecord(n) \/ Poll(n) \/ forget_destroyed_key(n)
             \/ PublisherCheck(n) \/ check_destruction(n)
      PROVE  DestInv'
  <2>1. Start(n) \/ destroying' = destroying
    BY <1>3 DEF SignedRecord, Poll, forget_destroyed_key, PublisherCheck, check_destruction
  <2>2. Holders' = Holders /\ proof \subseteq proof' /\ index' = index /\ saved' = saved
    BY <1>3 DEF SignedRecord, Poll, forget_destroyed_key, PublisherCheck, check_destruction
  <2> QED BY <1>t, <2>1, <2>2, StartKeeps, DestQuiet
<1>4. ASSUME NEW n \in Nodes,
             \/ republish_destructions(n) \/ PublisherSign(n) \/ load_network(n)
             \/ save_network(n) \/ Boot(n) \/ Install(n) \/ Publish(n) \/ Crash(n)
      PROVE  DestInv'
  <2>1. destroying' = destroying \/ destroying' = [destroying EXCEPT ![n] = "no"]
    BY <1>4 DEF republish_destructions, PublisherSign, load_network, save_network, Boot,
      Install, Publish, Crash
  <2>2. Holders' = Holders /\ proof' = proof /\ index' = index /\ saved \subseteq saved'
    BY <1>4 DEF republish_destructions, PublisherSign, load_network, save_network, Boot,
      Install, Publish, Crash
  <2> QED BY <1>t, <2>1, <2>2, DestQuiet
<1>5. ASSUME NEW n \in Nodes, SaveIndex(n) PROVE DestInv'
  BY <1>5 DEF SaveIndex, DestInv, ForgottenIsProved, DestProved
<1>6. ASSUME NEW n \in Nodes, SaveProof(n) PROVE DestInv'
  BY <1>6 DEF SaveProof, DestInv, ForgottenIsProved, DestProved
<1>7. ASSUME NEW n \in Nodes, Notify(n) PROVE DestInv'
  BY <1>7 DEF Notify, DestInv, ForgottenIsProved, DestProved
<1>8. ASSUME NEW n \in Nodes, Forget(n) PROVE DestInv'
  BY <1>8 DEF Forget, DestInv, ForgottenIsProved, DestProved
<1> QED BY <1>1, <1>2, <1>3, <1>4, <1>5, <1>6, <1>7, <1>8 DEF DestNext

\* For any nodes, holders of the key, number of records and of crashes: a node whose
\* config lacks the network has the destruction on disk, and the index with the key.
THEOREM ForgottenSafe == DestSpec => []ForgottenIsProved
<1>1. DestInv => ForgottenIsProved BY DEF DestInv
<1> QED BY <1>1, DestInit_Inv, DestStep, PTL DEF DestSpec

\* No step saves a forgotten network again: save_network looks at the proof.
THEOREM ForgottenForGood == DestSpec => NotSavedAgain
<1>1. [DestNext]_destVars => [\A n \in Nodes : n \in proof \ saved => n \notin saved']_destVars
  <2> SUFFICES ASSUME DestNext, NEW m \in Nodes, m \in proof \ saved PROVE m \notin saved'
    BY DEF destVars
  <2>1. CASE nuke_network BY <2>1 DEF nuke_network
  <2>2. ASSUME NEW n \in Nodes,
               \/ SignedRecord(n) \/ Poll(n) \/ forget_destroyed_key(n)
               \/ SaveIndex(n) \/ SaveProof(n) \/ Notify(n) \/ Publish(n)
               \/ republish_destructions(n) \/ PublisherCheck(n) \/ PublisherSign(n)
               \/ load_network(n) \/ Crash(n) \/ Boot(n) \/ check_destruction(n) \/ Install(n)
        PROVE  saved' = saved
    BY <2>2 DEF SignedRecord, Poll, forget_destroyed_key, SaveIndex, SaveProof, Notify,
      Publish, republish_destructions, PublisherCheck, PublisherSign, load_network, Crash,
      Boot, check_destruction, Install
  <2>3. ASSUME NEW n \in Nodes, save_network(n) \/ Forget(n) PROVE m \notin saved'
    BY <2>3 DEF save_network, Forget
  <2> QED BY <2>1, <2>2, <2>3 DEF DestNext
<1> QED BY <1>1, PTL DEF DestSpec, NotSavedAgain

-----------------------------------------------------------------------------
(* ExitNode, the sysctls. Where the kernel's value is not the owner's, the   *)
(* snapshot has it; the steps that drop a value from the snapshot come after *)
(* the one that put it back.                                                 *)

SysctlTypes ==
  /\ wanted \in [v4 : Values, v6 : Values] /\ sysctl \in [v4 : Values, v6 : Values]
  /\ shot \in [v4 : Values \cup {Unset}, v6 : Values \cup {"absent"}]
  /\ daemon \in {"dead", "runs", "panics"}
  /\ hook \in {"none", "drop", "restore", "remove", "unrule", "abort"}
  /\ daemon = "dead" => step = "free" /\ hook = "none"
  /\ daemon = "runs" => hook = "none"
  /\ daemon = "panics" => hook # "none"

Snapshot ==
  /\ sysctl.v4 # wanted.v4 => shot.v4 = wanted.v4
  /\ sysctl.v6 # wanted.v6 => shot.v6 = wanted.v6
  /\ shot.v4 \in {Unset, wanted.v4} /\ shot.v6 \in {"absent", wanted.v6}
  /\ shot.v6 = "absent" => shot.v4 = Unset
  /\ daemon = "runs" /\ step \in {"forward4", "write4", "clear4", "forward6"} => shot.v6 # "absent"
  /\ daemon = "runs" /\ step = "write4" => shot.v4 # Unset
  /\ daemon = "runs" /\ step = "clear4" => sysctl.v4 = wanted.v4
  /\ step = "remove" => sysctl = wanted
  /\ hook = "remove" => sysctl = wanted

SysctlInv == SysctlTypes /\ ("torn" \in excuse \/ Snapshot)

\* Steps that leave the sysctls and the snapshot alone, and reach none of the steps
\* that rest on them.
LEMMA SysctlQuiet ==
  ASSUME SysctlInv, UNCHANGED <<wanted, sysctl, shot, daemon, hook>>,
         "torn" \in excuse => "torn" \in excuse',
         step' \in {step, "free"} \/ step' \notin {"forward4", "write4", "clear4", "forward6", "remove"},
         daemon = "dead" => step' = step
  PROVE  SysctlInv'
BY DEF SysctlInv, SysctlTypes, Snapshot

\* What a restore leaves in the kernel is what the owner wants.
LEMMA RestoredWanted ==
  ASSUME SysctlTypes
  PROVE  /\ Restored \in [v4 : Values, v6 : Values]
         /\ Snapshot => Restored = wanted
<1>1. Restored \in [v4 : Values, v6 : Values]
  BY DEF SysctlTypes, Restored
<1>2. ASSUME Snapshot PROVE Restored = wanted
  <2>1. Unset \notin Values /\ "absent" \notin Values BY DEF Unset, Values
  <2>2. Restored.v4 = wanted.v4 /\ Restored.v6 = wanted.v6
    BY <1>2, <2>1 DEF SysctlTypes, Snapshot, Restored
  <2> QED BY SMTT(30), <1>1, <2>2 DEF SysctlTypes
<1> QED BY <1>1, <1>2

LEMMA EnablingKeepsSysctls ==
  ASSUME SysctlInv,
         enable \/ set_v4_forwarding \/ write_v4 \/ clear_v4 \/ write_v6
  PROVE  SysctlInv'
<1> USE DEF Server, Inside, outsideVars, Then, Now
<1>v. /\ Unset \notin Values /\ "absent" \notin Values /\ "1" \in Values
  BY DEF Unset, Values
<1>d. daemon # "dead" /\ daemon' = daemon /\ hook' = hook /\ wanted' = wanted
  BY DEF enable, set_v4_forwarding, write_v4, clear_v4, write_v6
<1>t. "torn" \in excuse \/ daemon = "panics" => "torn" \in excuse'
  BY DEF enable, set_v4_forwarding, write_v4, clear_v4, write_v6
<1>1. CASE enable
  <2>1. SysctlTypes' BY <1>1, <1>d, <1>v DEF enable, SysctlInv, SysctlTypes
  <2>2. ASSUME "torn" \notin excuse, daemon # "panics" PROVE Snapshot'
    BY SMTT(30), <1>1, <1>d, <1>v, <2>2 DEF enable, SysctlInv, SysctlTypes, Snapshot, NoShot
  <2> QED BY <1>t, <2>1, <2>2 DEF SysctlInv
<1>2. CASE set_v4_forwarding
  <2>1. SysctlTypes' BY <1>2, <1>d, <1>v DEF set_v4_forwarding, SysctlInv, SysctlTypes
  <2>2. ASSUME "torn" \notin excuse, daemon # "panics" PROVE Snapshot'
    BY <1>2, <1>d, <1>v, <2>2 DEF set_v4_forwarding, SysctlInv, SysctlTypes, Snapshot
  <2> QED BY <1>t, <2>1, <2>2 DEF SysctlInv
<1>3. CASE write_v4
  <2>1. SysctlTypes' BY <1>3, <1>d, <1>v DEF write_v4, SysctlInv, SysctlTypes
  <2>2. ASSUME "torn" \notin excuse, daemon # "panics" PROVE Snapshot'
    BY <1>3, <1>d, <1>v, <2>2 DEF write_v4, SysctlInv, SysctlTypes, Snapshot
  <2> QED BY <1>t, <2>1, <2>2 DEF SysctlInv
<1>4. CASE clear_v4
  <2>1. SysctlTypes' BY <1>4, <1>d, <1>v DEF clear_v4, SysctlInv, SysctlTypes
  <2>2. ASSUME "torn" \notin excuse, daemon # "panics" PROVE Snapshot'
    BY <1>4, <1>d, <1>v, <2>2 DEF clear_v4, SysctlInv, SysctlTypes, Snapshot
  <2> QED BY <1>t, <2>1, <2>2 DEF SysctlInv
<1>5. CASE write_v6
  <2>1. SysctlTypes' BY <1>5, <1>d, <1>v DEF write_v6, SysctlInv, SysctlTypes
  <2>2. ASSUME "torn" \notin excuse, daemon # "panics" PROVE Snapshot'
    BY <1>5, <1>d, <1>v, <2>2 DEF write_v6, SysctlInv, SysctlTypes, Snapshot
  <2> QED BY <1>t, <2>1, <2>2 DEF SysctlInv
<1> QED BY <1>1, <1>2, <1>3, <1>4, <1>5

LEMMA RestoringKeepsSysctls ==
  ASSUME SysctlInv,
         \/ disable \/ restore_sysctls \/ remove_snapshot
         \/ restore_host_state \/ cleanup_after_exit \/ Reboot
  PROVE  SysctlInv'
<1> USE DEF Server, Inside, outsideVars, Then, Now
<1>v. Unset \notin Values /\ "absent" \notin Values
  BY DEF Unset, Values
<1>r. /\ Restored \in [v4 : Values, v6 : Values]
      /\ "torn" \in excuse \/ Restored = wanted
  BY RestoredWanted DEF SysctlInv
<1>n. NoShot \in [v4 : Values \cup {Unset}, v6 : Values \cup {"absent"}] BY DEF NoShot
<1>t. "torn" \in excuse => "torn" \in excuse'
  BY DEF disable, restore_sysctls, remove_snapshot, restore_host_state, cleanup_after_exit, Reboot
<1>1. CASE disable
  <2>1. UNCHANGED <<wanted, sysctl, shot, daemon, hook>> /\ daemon # "dead"
    BY <1>1 DEF disable
  <2>2. step' \notin {"forward4", "write4", "clear4", "forward6", "remove"}
    BY <1>1 DEF disable, After_server
  <2> QED BY <1>t, <2>1, <2>2, SysctlQuiet
<1>2. CASE restore_sysctls
  <2>1. SysctlTypes' BY <1>2, <1>r DEF restore_sysctls, SysctlInv, SysctlTypes
  <2>2. ASSUME "torn" \notin excuse PROVE Snapshot'
    BY <1>2, <1>r, <1>v, <2>2 DEF restore_sysctls, SysctlInv, SysctlTypes, Snapshot
  <2> QED BY <1>t, <2>1, <2>2 DEF SysctlInv
<1>3. CASE remove_snapshot
  <2>1. SysctlTypes' BY <1>3, <1>n DEF remove_snapshot, SysctlInv, SysctlTypes
  <2>2. ASSUME "torn" \notin excuse PROVE Snapshot'
    BY <1>3, <1>v, <2>2 DEF remove_snapshot, SysctlInv, SysctlTypes, Snapshot, NoShot, After_server
  <2> QED BY <1>t, <2>1, <2>2 DEF SysctlInv
<1>4. CASE restore_host_state
  <2>1. daemon = "panics" /\ UNCHANGED <<wanted, daemon, step>> /\ hook # "abort"
    BY <1>4 DEF restore_host_state
  <2>2. CASE hook = "restore"
    <3>1. sysctl' = Restored /\ shot' = shot /\ hook' = "remove"
      BY <1>4, <2>2 DEF restore_host_state
    <3>2. SysctlTypes' BY <2>1, <3>1, <1>r DEF SysctlInv, SysctlTypes
    <3>3. ASSUME "torn" \notin excuse PROVE Snapshot'
      BY <1>r, <1>v, <2>1, <3>1, <3>3 DEF SysctlInv, SysctlTypes, Snapshot
    <3> QED BY <1>t, <3>2, <3>3 DEF SysctlInv
  <2>3. CASE hook = "remove"
    <3>1. sysctl' = sysctl /\ shot' = NoShot /\ hook' = "unrule"
      BY <1>4, <2>3 DEF restore_host_state
    <3>2. SysctlTypes' BY <2>1, <3>1, <1>n DEF SysctlInv, SysctlTypes
    <3>3. ASSUME "torn" \notin excuse PROVE Snapshot'
      BY <1>v, <2>1, <2>3, <3>1, <3>3 DEF SysctlInv, SysctlTypes, Snapshot, NoShot
    <3> QED BY <1>t, <3>2, <3>3 DEF SysctlInv
  <2>4. CASE hook \notin {"restore", "remove"}
    <3>1. CASE hook = "drop" \/ hook = "unrule"
      <4>1. UNCHANGED <<sysctl, shot>> /\ hook' \in {"unrule", "restore", "abort"}
        BY <1>4, <3>1 DEF restore_host_state
      <4> QED BY <1>t, <2>1, <4>1 DEF SysctlInv, SysctlTypes, Snapshot
    <3> QED BY <2>1, <2>4, <3>1 DEF SysctlInv, SysctlTypes
  <2> QED BY <2>2, <2>3, <2>4
<1>5. CASE cleanup_after_exit
  <2>1. SysctlTypes' BY <1>5, <1>r, <1>n DEF cleanup_after_exit, SysctlInv, SysctlTypes
  <2>2. ASSUME "torn" \notin excuse PROVE Snapshot'
    BY <1>5, <1>r, <1>v, <2>2 DEF cleanup_after_exit, SysctlInv, SysctlTypes, Snapshot, NoShot
  <2> QED BY <1>t, <2>1, <2>2 DEF SysctlInv
<1>6. CASE Reboot
  <2>1. SysctlTypes' BY <1>6 DEF Reboot, SysctlInv, SysctlTypes
  <2>2. ASSUME "torn" \notin excuse PROVE Snapshot'
    BY <1>6, <1>v, <2>2 DEF Reboot, SysctlInv, SysctlTypes, Snapshot
  <2> QED BY <1>t, <2>1, <2>2 DEF SysctlInv
<1> QED BY <1>1, <1>2, <1>3, <1>4, <1>5, <1>6

\* Other software of the host, and the life of the daemon.
LEMMA OthersKeepSysctls ==
  ASSUME SysctlInv,
         Dies \/ Panic \/ run_daemon \/ \E f \in {"v4", "v6"} : HostSets(f)
  PROVE  SysctlInv'
<1>1. CASE Dies
  BY <1>1 DEF Dies, SysctlInv, SysctlTypes, Snapshot
<1>2. CASE Panic
  BY <1>2 DEF Panic, kernelVars, SysctlInv, SysctlTypes, Snapshot
<1>3. CASE run_daemon
  BY <1>3 DEF run_daemon, kernelVars, SysctlInv, SysctlTypes, Snapshot
<1>4. CASE HostSets("v4")
  <2>1. UNCHANGED <<shot, daemon, hook, step, excuse>> /\ shot.v4 = Unset
    BY <1>4 DEF HostSets, Around
  <2>2. PICK x \in Values : /\ wanted' = [wanted EXCEPT !.v4 = x]
                            /\ sysctl' = [sysctl EXCEPT !.v4 = x]
    BY <1>4 DEF HostSets, Values, SysctlInv, SysctlTypes
  <2> QED BY <2>1, <2>2 DEF SysctlInv, SysctlTypes, Snapshot
<1>5. CASE HostSets("v6")
  <2>1. UNCHANGED <<shot, daemon, hook, step, excuse>> /\ shot = NoShot
    BY <1>5 DEF HostSets, Around
  <2>2. PICK x \in Values : /\ wanted' = [wanted EXCEPT !.v6 = x]
                            /\ sysctl' = [sysctl EXCEPT !.v6 = x]
    BY <1>5 DEF HostSets, Values, SysctlInv, SysctlTypes
  <2> QED BY <2>1, <2>2 DEF SysctlInv, SysctlTypes, Snapshot, NoShot
<1> QED BY <1>1, <1>2, <1>3, <1>4, <1>5

LEMMA QuietKeepsSysctls ==
  ASSUME SysctlInv,
         \/ \E o \in sent : HandleOffer(o) \/ LoseOffer(o)
         \/ Backstop \/ activate \/ activate_data_plane \/ require_tun_setup
         \/ ExitDown \/ deactivate_data_plane \/ exit_node_allow \/ exit_node_use
         \/ spawn_exit_reapply_listener \/ check_exit_kernel_state
         \/ Locked \/ reload_exit_state \/ reload_fails \/ nft_load \/ enable_fails
         \/ apply_exit_client \/ install_client_routing \/ install_catch_all \/ install_fails
         \/ teardown_client_routing \/ apply_exit_node_locked
         \/ clear_offers \/ withdraw_offer \/ disable_sync \/ down_ends
         \/ Flush \/ spawn_repair_watcher \/ Reconverge \/ UplinkChanges
  PROVE  SysctlInv'
<1> USE DEF Inside, outsideVars, kernelVars, Aside, Around, Then, Now
<1>1. CASE \/ \E o \in sent : HandleOffer(o) \/ LoseOffer(o)
           \/ Backstop \/ activate \/ activate_data_plane \/ require_tun_setup
           \/ ExitDown \/ deactivate_data_plane \/ exit_node_allow \/ exit_node_use
           \/ spawn_exit_reapply_listener \/ check_exit_kernel_state
  <2>1. UNCHANGED <<wanted, sysctl, shot, daemon, hook, step>>
    BY <1>1 DEF HandleOffer, LoseOffer, Backstop, activate, activate_data_plane,
         require_tun_setup, ExitDown, deactivate_data_plane, exit_node_allow, exit_node_use,
         Configure, spawn_exit_reapply_listener, check_exit_kernel_state
  <2>2. "torn" \in excuse => "torn" \in excuse'
    BY <1>1 DEF HandleOffer, LoseOffer, Backstop, sync_exit_offers, Agreed, rosterVars, activate,
         activate_data_plane, require_tun_setup, ExitDown, deactivate_data_plane, exit_node_allow,
         exit_node_use, Configure, spawn_exit_reapply_listener, check_exit_kernel_state
  <2> QED BY <2>1, <2>2, SysctlQuiet
<1>2. CASE Locked \/ reload_exit_state \/ reload_fails \/ nft_load \/ enable_fails
  <2>1. UNCHANGED <<wanted, sysctl, shot, daemon, hook>> /\ daemon # "dead"
    BY <1>2 DEF Locked, reload_exit_state, reload_fails, nft_load, Server, enable_fails
  <2>2. "torn" \in excuse => "torn" \in excuse'
    BY <1>2 DEF Locked, reload_exit_state, reload_fails, nft_load, Server, enable_fails
  <2>3. step' \notin {"forward4", "write4", "clear4", "forward6", "remove"}
    BY <1>2 DEF Locked, reload_exit_state, reload_fails, nft_load, enable_fails, Release
  <2> QED BY <2>1, <2>2, <2>3, SysctlQuiet
<1>3. CASE \/ apply_exit_client \/ install_client_routing \/ install_catch_all \/ install_fails
           \/ teardown_client_routing
  <2> USE DEF Client, Put
  <2>1. UNCHANGED <<wanted, sysctl, shot, daemon, hook>> /\ daemon # "dead"
    BY <1>3 DEF apply_exit_client, install_client_routing, install_catch_all, install_fails,
         teardown_client_routing
  <2>2. "torn" \in excuse => "torn" \in excuse'
    BY <1>3 DEF apply_exit_client, install_client_routing, install_catch_all, install_fails,
         teardown_client_routing
  <2>3. step' \notin {"forward4", "write4", "clear4", "forward6", "remove"}
    BY <1>3 DEF apply_exit_client, install_client_routing, install_catch_all, install_fails,
         teardown_client_routing
  <2> QED BY <2>1, <2>2, <2>3, SysctlQuiet
<1>4. CASE apply_exit_node_locked \/ clear_offers \/ withdraw_offer \/ disable_sync \/ down_ends
  <2>1. UNCHANGED <<wanted, sysctl, shot, daemon, hook>> /\ daemon # "dead"
    BY <1>4 DEF apply_exit_node_locked, clear_offers, withdraw_offer, disable_sync, down_ends
  <2>2. "torn" \in excuse => "torn" \in excuse'
    BY <1>4 DEF apply_exit_node_locked, clear_offers, withdraw_offer, disable_sync, down_ends,
         sync_exit_offers, Agreed
  <2>3. step' \notin {"forward4", "write4", "clear4", "forward6", "remove"}
    BY <1>4 DEF apply_exit_node_locked, clear_offers, withdraw_offer, disable_sync, down_ends, Release
  <2> QED BY <2>1, <2>2, <2>3, SysctlQuiet
<1>5. CASE Flush \/ spawn_repair_watcher \/ Reconverge \/ UplinkChanges
  BY <1>5, SysctlQuiet DEF Flush, spawn_repair_watcher, Reconverge, UplinkChanges
<1> QED BY <1>1, <1>2, <1>3, <1>4, <1>5

\* Holds at first: the kernel has the owner's values and there is no snapshot.
LEMMA SysctlInit_Inv == ExitInit => SysctlInv
<1> SUFFICES ASSUME ExitInit PROVE SysctlInv
  OBVIOUS
<1>1. SysctlTypes
  BY DEF ExitInit, SysctlTypes, NoShot, Values, Unset
<1>2. Snapshot
  BY DEF ExitInit, Snapshot, NoShot, Unset
<1> QED BY <1>1, <1>2 DEF SysctlInv

\* Every step keeps it.
LEMMA SysctlStep == SysctlInv /\ [ExitNext]_exitVars => SysctlInv'
<1> SUFFICES ASSUME SysctlInv, [ExitNext]_exitVars PROVE SysctlInv'
  OBVIOUS
<1>1. CASE enable \/ set_v4_forwarding \/ write_v4 \/ clear_v4 \/ write_v6
  BY <1>1, EnablingKeepsSysctls
<1>2. CASE \/ disable \/ restore_sysctls \/ remove_snapshot
           \/ restore_host_state \/ cleanup_after_exit \/ Reboot
  BY <1>2, RestoringKeepsSysctls
<1>3. CASE Killed \/ Abort \/ Panic \/ run_daemon \/ \E f \in {"v4", "v6"} : HostSets(f)
  BY <1>3, OthersKeepSysctls DEF Killed, Abort
<1>4. CASE UNCHANGED exitVars
  BY <1>4, SysctlQuiet DEF exitVars
<1> QED BY <1>1, <1>2, <1>3, <1>4, QuietKeepsSysctls DEF ExitNext

\* At every moment of every behaviour, the deaths between two steps of enable and
\* disable included, a sysctl that is not what the host's owner set is saved in
\* exit-forward.snapshot.
THEOREM HostValuesSafe == ExitSpec => []HostValuesKept
<1>1. SysctlInv => HostValuesKept
  BY DEF SysctlInv, Snapshot, HostValuesKept
<1> QED BY <1>1, SysctlInit_Inv, SysctlStep, PTL DEF ExitSpec

-----------------------------------------------------------------------------
(* ExitNode, the client's catch-all rule. It is taken down only on the way   *)
(* that starts without a selection, and the guard is given up before that.   *)

GuardTypes ==
  /\ "catch" \in DOMAIN tunnel /\ "sel" \in DOMAIN exit
  /\ gateway # "none"

GuardInv ==
  /\ GuardTypes
  /\ guarded => tunnel.catch
  /\ guarded => exit.sel # "none"
  /\ step \in {"table", "route", "sweep", "bypass", "catch"} => exit.sel # "none"
  /\ step \in {"unrule", "untable"} => exit.sel = "none"
  /\ daemon = "dead" => ~guarded /\ step = "free"

\* Steps outside the client's routing: the selection and the rules are as they were.
LEMMA GuardQuiet ==
  ASSUME GuardInv, GuardTypes', UNCHANGED <<guarded, daemon>>,
         tunnel'.catch = tunnel.catch, exit'.sel = exit.sel,
         \/ step' = step
         \/ /\ daemon # "dead"
            /\ step' \notin {"table", "route", "sweep", "bypass", "catch", "unrule", "untable"}
  PROVE  GuardInv'
BY DEF GuardInv

LEMMA RefreshKeeps ==
  ASSUME NEW e, "sel" \in DOMAIN e
  PROVE  "sel" \in DOMAIN refresh_uplinks(e) /\ refresh_uplinks(e).sel = e.sel
BY DEF refresh_uplinks

LEMMA AskingKeepsGuard ==
  ASSUME GuardInv,
         \/ \E o \in sent : HandleOffer(o) \/ LoseOffer(o)
         \/ Backstop \/ activate \/ activate_data_plane \/ require_tun_setup
         \/ ExitDown \/ deactivate_data_plane \/ exit_node_allow \/ exit_node_use
         \/ spawn_exit_reapply_listener \/ check_exit_kernel_state
  PROVE  GuardInv'
<1> USE DEF outsideVars, kernelVars, Aside
<1>1. UNCHANGED <<tunnel, guarded, daemon, step, gateway>>
  BY DEF HandleOffer, LoseOffer, Backstop, activate, activate_data_plane, require_tun_setup,
       ExitDown, deactivate_data_plane, exit_node_allow, exit_node_use, Configure,
       spawn_exit_reapply_listener, check_exit_kernel_state
<1>2. GuardTypes' /\ exit'.sel = exit.sel
  <2>1. CASE Backstop
    <3>1. exit' = refresh_uplinks(exit) BY <2>1 DEF Backstop
    <3> QED BY <1>1, <3>1, RefreshKeeps DEF GuardInv, GuardTypes
  <2>2. CASE activate \/ activate_data_plane \/ require_tun_setup \/ ExitDown
    BY <1>1, <2>2 DEF activate, activate_data_plane, require_tun_setup, ExitDown,
         GuardInv, GuardTypes
  <2>3. CASE ~(Backstop \/ activate \/ activate_data_plane \/ require_tun_setup \/ ExitDown)
    <3>1. exit' = exit
      BY <2>3 DEF HandleOffer, LoseOffer, deactivate_data_plane, exit_node_allow, exit_node_use,
           Configure, spawn_exit_reapply_listener, check_exit_kernel_state
    <3> QED BY <1>1, <3>1 DEF GuardInv, GuardTypes
  <2> QED BY <2>1, <2>2, <2>3
<1> QED BY <1>1, <1>2, GuardQuiet

LEMMA ServingKeepsGuard ==
  ASSUME GuardInv,
         \/ Locked \/ reload_fails \/ enable \/ set_v4_forwarding \/ write_v4 \/ clear_v4
         \/ write_v6 \/ nft_load \/ enable_fails \/ disable \/ restore_sysctls \/ remove_snapshot
         \/ apply_exit_node_locked \/ clear_offers \/ withdraw_offer \/ down_ends
  PROVE  GuardInv'
<1> USE DEF Inside, outsideVars, kernelVars, Then, Now, Server
<1>1. UNCHANGED <<tunnel, guarded, daemon, gateway>> /\ daemon # "dead"
  BY DEF Locked, reload_fails, enable, set_v4_forwarding, write_v4, clear_v4, write_v6, nft_load,
       enable_fails, disable, restore_sysctls, remove_snapshot, apply_exit_node_locked,
       clear_offers, withdraw_offer, down_ends
<1>2. step' \notin {"table", "route", "sweep", "bypass", "catch", "unrule", "untable"}
  BY DEF Locked, reload_fails, enable, set_v4_forwarding, write_v4, clear_v4, write_v6, nft_load,
       enable_fails, disable, restore_sysctls, remove_snapshot, apply_exit_node_locked,
       clear_offers, withdraw_offer, down_ends, Release, After_server
<1>3. GuardTypes' /\ exit'.sel = exit.sel
  <2>1. CASE apply_exit_node_locked
    <3>1. exit' = refresh_uplinks([exit EXCEPT !.dns = exit.sel])
      BY <2>1 DEF apply_exit_node_locked
    <3>2. "sel" \in DOMAIN [exit EXCEPT !.dns = exit.sel]
      BY DEF GuardInv, GuardTypes
    <3>3. [exit EXCEPT !.dns = exit.sel].sel = exit.sel
      BY DEF GuardInv, GuardTypes
    <3> QED BY <1>1, <3>1, <3>2, <3>3, RefreshKeeps DEF GuardInv, GuardTypes
  <2>2. CASE enable \/ disable \/ remove_snapshot \/ clear_offers \/ down_ends
    BY <1>1, <2>2 DEF enable, disable, remove_snapshot, clear_offers, down_ends, Unoffered,
         GuardInv, GuardTypes
  <2>3. CASE ~(\/ apply_exit_node_locked \/ enable \/ disable \/ remove_snapshot \/ clear_offers
               \/ down_ends)
    <3>1. exit' = exit
      BY <2>3 DEF Locked, reload_fails, set_v4_forwarding, write_v4, clear_v4, write_v6, nft_load,
           enable_fails, restore_sysctls, withdraw_offer
    <3> QED BY <1>1, <3>1 DEF GuardInv, GuardTypes
  <2> QED BY <2>1, <2>2, <2>3
<1> QED BY <1>1, <1>2, <1>3, GuardQuiet

LEMMA ClientKeepsGuard ==
  ASSUME GuardInv,
         \/ reload_exit_state \/ disable_sync \/ apply_exit_client \/ install_client_routing
         \/ install_catch_all \/ install_fails \/ teardown_client_routing
  PROVE  GuardInv'
<1> USE DEF Inside, outsideVars, kernelVars, Then, Now, Client, Put, GuardInv, GuardTypes
<1>1. CASE reload_exit_state
  BY <1>1 DEF reload_exit_state, Selection
<1>2. CASE disable_sync
  BY <1>2 DEF disable_sync
<1>3. CASE apply_exit_client
  BY <1>3 DEF apply_exit_client
<1>4. CASE install_client_routing
  BY <1>4 DEF install_client_routing
<1>5. CASE install_catch_all
  BY <1>5 DEF install_catch_all
<1>6. CASE install_fails
  BY <1>6 DEF install_fails
<1>7. CASE teardown_client_routing
  BY <1>7 DEF teardown_client_routing, Untunnelled
<1> QED BY <1>1, <1>2, <1>3, <1>4, <1>5, <1>6, <1>7

LEMMA OthersKeepGuard ==
  ASSUME GuardInv, SysctlTypes,
         \/ Dies \/ Panic \/ restore_host_state \/ cleanup_after_exit \/ Reboot \/ run_daemon
         \/ \E f \in {"v4", "v6"} : HostSets(f)
         \/ Flush \/ spawn_repair_watcher \/ Reconverge \/ UplinkChanges
  PROVE  GuardInv'
<1> USE DEF outsideVars, kernelVars, Around, GuardInv, GuardTypes
<1>u. /\ "catch" \in DOMAIN Untunnelled
      /\ "sel" \in DOMAIN Standby /\ Standby.sel = "none"
  BY DEF Untunnelled, Standby
<1>1. CASE Dies
  BY <1>1, <1>u DEF Dies
<1>2. CASE Panic
  BY <1>2 DEF Panic
<1>3. CASE restore_host_state
  <2>1. tunnel' \in {tunnel, Untunnelled}
    <3>1. hook \in {"drop", "restore", "remove", "unrule"}
      BY <1>3 DEF restore_host_state, SysctlTypes
    <3> QED BY <1>3, <3>1 DEF restore_host_state
  <2>2. guarded' = FALSE /\ UNCHANGED <<daemon, gateway, exit, step>>
    BY <1>3 DEF restore_host_state
  <2> QED BY <1>u, <2>1, <2>2
<1>4. CASE cleanup_after_exit \/ Reboot
  BY SMTT(30), <1>4, <1>u DEF cleanup_after_exit, Reboot
<1>5. CASE run_daemon
  BY <1>5, <1>u DEF run_daemon
<1>6. CASE \E f \in {"v4", "v6"} : HostSets(f)
  BY SMTT(30), <1>6 DEF HostSets
<1>7. CASE Flush
  BY <1>7 DEF Flush
<1>8. CASE spawn_repair_watcher
  BY <1>8 DEF spawn_repair_watcher
<1>9. CASE Reconverge \/ UplinkChanges
  BY SMTT(30), <1>9 DEF Reconverge, UplinkChanges
<1> QED BY <1>1, <1>2, <1>3, <1>4, <1>5, <1>6, <1>7, <1>8, <1>9

\* The catch-all rule stands from the step that installs it to the command, death
\* or outside hand that gives the tunnel up: no re-apply, failed install, roster
\* gap or unreadable config takes it down.
THEOREM GuardSafe == ExitSpec => []GuardStands
<1>1. ExitInit => GuardInv
  BY DEF ExitInit, GuardInv, GuardTypes, Standby, Untunnelled
<1>2. GuardInv /\ SysctlInv /\ [ExitNext]_exitVars => GuardInv'
  <2> SUFFICES ASSUME GuardInv, SysctlTypes, [ExitNext]_exitVars PROVE GuardInv'
    BY DEF SysctlInv
  <2>1. CASE UNCHANGED exitVars
    BY <2>1 DEF exitVars, GuardInv, GuardTypes
  <2>2. CASE Killed \/ Abort
    BY <2>2, OthersKeepGuard DEF Killed, Abort
  <2> QED BY <2>1, <2>2, AskingKeepsGuard, ServingKeepsGuard, ClientKeepsGuard, OthersKeepGuard
       DEF ExitNext
<1>3. GuardInv => GuardStands
  BY DEF GuardInv, GuardStands
<1> QED BY <1>1, <1>2, <1>3, SysctlInit_Inv, SysctlStep, PTL DEF ExitSpec
=============================================================================
