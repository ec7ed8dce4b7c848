----------------------------- MODULE MCServices -----------------------------
(* Instances of the services that share no state with each other. A          *)
(* behaviour picks one part and only that part moves; the others stay in one *)
(* of their initial states.                                                  *)
EXTENDS Files, Destruction, HostDns, ExitNode, Conntrack, Reassembly, FairQueue, Policy

CONSTANT Parts
VARIABLE part

-----------------------------------------------------------------------------
FileScene(n, c, t, s, g) ==
  [offers |-> n, cap |-> c, timeouts |-> t, stops |-> s, given |-> g]

\* Two offers the recipient already has, through a restart, or one through two;
\* one offer, its exchange failing and a daemon restarting; one whose exchange
\* fails twice; a queue of one meeting two offers; two offers and no fault.
AllFileScenes ==
  { FileScene(2, 2, 0, 1, TRUE), FileScene(1, 1, 0, 2, TRUE), FileScene(1, 1, 1, 1, FALSE),
    FileScene(1, 1, 2, 0, FALSE), FileScene(2, 1, 0, 0, FALSE), FileScene(2, 2, 0, 0, FALSE) }

DnsScene(nm, fwd, vpn, c, e, f, k) ==
  [nm |-> nm, forwarder |-> fwd, vpn |-> vpn, calls |-> c, events |-> e, fails |-> f, crashes |-> k]

\* A host with NetworkManager, its forwarder, another VPN, or a full disk.
AllDnsScenes ==
  { DnsScene(TRUE, FALSE, FALSE, 3, 1, 0, 1), DnsScene(TRUE, TRUE, FALSE, 2, 1, 0, 1),
    DnsScene(FALSE, FALSE, TRUE, 2, 2, 0, 0), DnsScene(TRUE, FALSE, FALSE, 2, 2, 1, 0),
    DnsScene(FALSE, FALSE, TRUE, 1, 4, 0, 0) }

\* The founder alone holds the network key, or both nodes do.
AllHolderSets == {{"a"}, {"a", "b"}}

ExitScene(roles, own, legacy, c, e, f, d) ==
  [serves |-> "serves" \in roles, uses |-> "uses" \in roles, own |-> own, legacy |-> legacy,
   commands |-> c, events |-> e, failures |-> f, deaths |-> d]

\* A gateway that records its own offer, or sends it to a coordinator; a client;
\* each with commands overlapping, with failures, with deaths.
AllExitScenes ==
  { ExitScene({"serves"}, TRUE, TRUE, 3, 0, 1, 0), ExitScene({"serves"}, TRUE, FALSE, 1, 1, 0, 1),
    ExitScene({"serves"}, TRUE, FALSE, 1, 0, 0, 2), ExitScene({"serves"}, FALSE, FALSE, 2, 1, 0, 0),
    ExitScene({"uses"}, TRUE, FALSE, 3, 1, 0, 0), ExitScene({"uses"}, TRUE, FALSE, 2, 0, 1, 0),
    ExitScene({"uses"}, TRUE, FALSE, 1, 1, 1, 0),
    ExitScene({"uses"}, TRUE, FALSE, 1, 1, 0, 1) }

FwConfig(off, in, default) ==
  [off |-> off, rule |-> [out |-> "none", in |-> in], default |-> [out |-> "allow", in |-> default]]

CtScene(proto, kinds, shapes, n, c, e) ==
  [proto |-> proto, kinds |-> kinds, shapes |-> shapes, packets |-> n, clock |-> c, edits |-> e,
   keys |-> IF "first" \in shapes THEN {1, 2} ELSE {1}, exit |-> FALSE, ssh |-> FALSE,
   configs |-> { FwConfig(TRUE, "none", "deny"), FwConfig(FALSE, "allow", "deny"),
                 FwConfig(FALSE, "none", "deny"), FwConfig(FALSE, "none", "allow"),
                 [off |-> FALSE, rule |-> [out |-> "deny", in |-> "deny"],
                  default |-> [out |-> "deny", in |-> "deny"]] }]

\* A TCP flow that closes; one with every flag; one under changing rules;
\* fragments of two packets; an exit's replies; fragments to the SSH port.
AllCtScenes ==
  { CtScene("tcp", {"data", "fin"}, {"whole"}, 5, 3, 0),
    CtScene("tcp", {"syn", "data", "fin", "rst"}, {"whole"}, 4, 2, 0),
    CtScene("tcp", {"data", "rst"}, {"whole"}, 3, 2, 2),
    CtScene("udp", {"data"}, {"first"}, 4, 2, 0),
    [CtScene("icmp", {"request", "reply", "error"}, {"whole"}, 3, 2, 0) EXCEPT !.exit = TRUE],
    [CtScene("tcp", {"syn"}, {"whole", "first"}, 2, 1, 1) EXCEPT !.ssh = TRUE] }

ReScene(n, lens, paths, f, c) ==
  [packets |-> n, lens |-> lens, paths |-> paths, faults |-> f, clock |-> c]

\* Duplicates and new connections; more packets than there is room for; every
\* way of splitting.
AllReScenes == { ReScene(2, {4}, {4}, 2, 1), ReScene(3, {4}, {4}, 0, 2), ReScene(2, {3, 4}, {3, 4, 5}, 0, 2) }

FqScene(flows, n, sizes, c, g) ==
  [flows |-> flows, packets |-> n, sizes |-> sizes, clock |-> c, gates |-> g]

\* A flow whose packets wait for long, alone and beside another; unequal packets
\* and a standby; an overload.
AllFqScenes ==
  { FqScene({1}, 8, {2}, 3, 0), FqScene({1, 2}, 4, {2}, 3, 0),
    FqScene({1, 2}, 3, {1, 3}, 2, 1), FqScene({1, 2}, 5, {3}, 1, 0) }

PlScene(e, u, f, r, c, k) ==
  [edits |-> e, unsaves |-> u, fails |-> f, renames |-> r, creates |-> c, crashes |-> k]

\* Edits and a rename beside a new network; failures and crashes in renames; an
\* edit that could not be saved.
AllPlScenes ==
  { PlScene(3, 0, 0, 2, 1, 0), PlScene(2, 0, 2, 2, 0, 2), PlScene(2, 1, 0, 0, 1, 1) }

\* A network created under the old name of one whose rename did not finish.
NewNetworkScenes == { PlScene(0, 0, 1, 1, 1, 1) }

-----------------------------------------------------------------------------
ServicesInit ==
  /\ part \in Parts
  /\ FilesInit /\ (part = "files" \/ bound = CHOOSE s \in FileScenes : TRUE)
  /\ DestInit /\ (part = "destruction" \/ Holders = CHOOSE h \in HolderSets : TRUE)
  /\ DnsInit /\ (part = "dns" \/ scene = CHOOSE s \in DnsScenes : TRUE)
  /\ ExitInit /\ (part = "exit" \/ stage = CHOOSE s \in ExitScenes : TRUE)
  /\ CtInit /\ (part = "conntrack" \/ ctScene = CHOOSE s \in CtScenes : TRUE)
  /\ ReInit /\ (part = "reassembly" \/ reScene = CHOOSE s \in ReScenes : TRUE)
  /\ FqInit /\ (part = "queue" \/ fqScene = CHOOSE s \in FqScenes : TRUE)
  /\ PlInit /\ (part = "policy" \/ plScene = CHOOSE s \in PlScenes : TRUE)

hostVars == <<filesVars, destVars, dnsVars, exitVars>>
planeVars == <<ctVars, reVars, fqVars, plVars>>

ServicesNext ==
  \/ part = "files" /\ FilesNext /\ UNCHANGED <<part, destVars, dnsVars, exitVars, planeVars>>
  \/ part = "destruction" /\ DestNext /\ UNCHANGED <<part, filesVars, dnsVars, exitVars, planeVars>>
  \/ part = "dns" /\ DnsNext /\ UNCHANGED <<part, filesVars, destVars, exitVars, planeVars>>
  \/ part = "exit" /\ ExitNext /\ UNCHANGED <<part, filesVars, destVars, dnsVars, planeVars>>
  \/ part = "conntrack" /\ CtNext /\ UNCHANGED <<part, hostVars, reVars, fqVars, plVars>>
  \/ part = "reassembly" /\ ReNext /\ UNCHANGED <<part, hostVars, ctVars, fqVars, plVars>>
  \/ part = "queue" /\ FqNext /\ UNCHANGED <<part, hostVars, ctVars, reVars, plVars>>
  \/ part = "policy" /\ PlNext /\ UNCHANGED <<part, hostVars, ctVars, reVars, fqVars>>

servicesVars == <<part, hostVars, planeVars>>

ServicesSpec == ServicesInit /\ [][ServicesNext]_servicesVars

\* The state of the service that moves keeps its shape.
ServicesTypeOK ==
  /\ part = "files" => FilesTypeOK
  /\ part = "destruction" => DestTypeOK
  /\ part = "dns" => DnsTypeOK
  /\ part = "exit" => ExitTypeOK
  /\ part = "conntrack" => CtTypeOK
  /\ part = "reassembly" => ReTypeOK
  /\ part = "queue" => FqTypeOK
  /\ part = "policy" => PlTypeOK
=============================================================================
