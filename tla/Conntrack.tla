----------------------------- MODULE Conntrack -----------------------------
(* The packet filter of one node as one flow meets it: the rules and the      *)
(* defaults, the tracker of the flows this node opened, and the verdicts that *)
(* later IPv6 fragments take over from the first one of their packet. The     *)
(* forwarding loop judges what leaves, a peer's reader what arrives.          *)
EXTENDS Integers, Sequences, FiniteSets

CONSTANTS
  CtScenes,           \* what a behaviour is about and its bounds, see CtInit
  TcpFlowTimeout,     \* how long an idle TCP flow stays open
  TcpClosingTimeout,  \* how long a TCP flow is served after both FINs
  UdpFlowTimeout,     \* how long any other idle flow stays open
  VerdictTtl,         \* how long a first fragment speaks for the later ones
  VerdictCapacity     \* packets whose first fragment is remembered

\* A packet with ports is whole or the first fragment of one; what counts in it
\* depends on the protocol. The closing window is the shortest timeout.
ASSUME CtAssumption ==
  /\ VerdictTtl \in Nat /\ VerdictCapacity \in Nat
  /\ TcpFlowTimeout \in Nat /\ UdpFlowTimeout \in Nat /\ TcpClosingTimeout \in Nat
  /\ TcpClosingTimeout <= TcpFlowTimeout /\ TcpClosingTimeout <= UdpFlowTimeout
  /\ \A s \in CtScenes :
       /\ s.shapes \subseteq {"whole", "first"}
       /\ s.kinds \subseteq IF s.proto = "icmp" THEN {"request", "reply", "error"}
                           ELSE {"syn", "data", "fin", "rst"}

VARIABLES
  ctScene,    \* the scene chosen for this behaviour
  ctNow,      \* the clock
  fw,         \* the FirewallConfig: what matches this flow each way, and the defaults
  conntrack,  \* the tracked state of the flow, or NoFlow
  verdicts,   \* per direction, the FragmentVerdicts of the loop that judges it
  heard,      \* every packet let through, in order
  ctEdits     \* edits of the configuration so far

ctVars == <<ctScene, ctNow, fw, conntrack, verdicts, heard, ctEdits>>

NoFlow == [st |-> "none", at |-> 0, fin |-> "none"]
Dirs == {"out", "in"}

\* What the filter tells apart in a packet: the TCP flag that counts, or the
\* ICMP type. A scene is about some of them.
Kinds == {"syn", "data", "fin", "rst", "request", "reply", "error"}

-----------------------------------------------------------------------------
(* FlowState *)

FlowTimeout(s) ==
  IF s.st = "closing" THEN TcpClosingTimeout
  ELSE IF ctScene.proto = "tcp" THEN TcpFlowTimeout ELSE UdpFlowTimeout

FlowActive(s) == ctNow - s.at < FlowTimeout(s)

FlowOpened == [st |-> "active", at |-> ctNow, fin |-> "none"]

\* A mutant: traffic after both FINs keeps the closing window open.
RecordPacket_refreshes(s, dir, k) ==
  IF k = "syn" /\ dir = "out" THEN FlowOpened
  ELSE IF k = "fin" /\ s.st = "active" THEN [st |-> "half", at |-> ctNow, fin |-> dir]
  ELSE IF k = "fin" /\ s.st = "half" /\ s.fin # dir
       THEN [st |-> "closing", at |-> ctNow, fin |-> "none"]
  ELSE [s EXCEPT !.at = ctNow]

\* FlowState::record: an outbound SYN reuses the tuple; the second FIN, of the
\* other side, starts the closing window, which nothing prolongs.
RecordPacket(s, dir, k) ==
  IF k = "syn" /\ dir = "out" THEN FlowOpened
  ELSE IF k = "fin" /\ s.st = "active" THEN [st |-> "half", at |-> ctNow, fin |-> dir]
  ELSE IF k = "fin" /\ s.st = "half" /\ s.fin # dir
       THEN [st |-> "closing", at |-> ctNow, fin |-> "none"]
  ELSE IF s.st = "closing" THEN s
  ELSE [s EXCEPT !.at = ctNow]

-----------------------------------------------------------------------------
(* SharedFirewall *)

\* conntrack_eligible: of ICMP only an echo reply can be return traffic.
Eligible(k) == ctScene.proto = "icmp" => k = "reply"

Untracked(dir, k) ==
  \/ dir = "in" /\ ~Eligible(k)
  \/ dir = "out" /\ ctScene.proto = "icmp" /\ k # "request"

\* track_packet on an entry that exists.
Occupied(dir, k) ==
  LET active == FlowActive(conntrack)
      refused == \/ dir = "in" /\ (~active \/ (conntrack.st = "closing" /\ k = "syn"))
                 \/ ~active /\ k = "fin"
  IN IF k = "rst" THEN [ok |-> dir = "out" \/ active, flow |-> NoFlow]
     ELSE IF refused THEN [ok |-> FALSE, flow |-> conntrack]
     ELSE [ok |-> TRUE, flow |-> RecordPacket(conntrack, dir, k)]

\* track_packet where there is none: only outbound traffic opens a flow.
Vacant(dir, k) ==
  IF dir = "in" \/ k \in {"fin", "rst"}
  THEN [ok |-> FALSE, flow |-> NoFlow]
  ELSE [ok |-> TRUE, flow |-> FlowOpened]

TrackPacket(dir, k) ==
  IF Untracked(dir, k) THEN [ok |-> FALSE, flow |-> conntrack]
  ELSE IF conntrack # NoFlow THEN Occupied(dir, k) ELSE Vacant(dir, k)

DefaultFor(dir) == IF fw.default[dir] = "allow" THEN "default" ELSE "no"

\* evaluate_packet: what lets the packet through ("no" when nothing does) and
\* the flow after it. A rule that matches decides; return traffic lifts only the
\* inbound default.
EvaluatePacket(dir, k) ==
  LET t == TrackPacket(dir, k)
      tracked(by) == [by |-> by, flow |-> t.flow]
      untouched(by) == [by |-> by, flow |-> conntrack]
  IN IF fw.off THEN untouched("off")
     ELSE IF fw.rule[dir] = "deny" THEN untouched("no")
     ELSE IF fw.rule[dir] = "allow" THEN tracked("rule")
     ELSE IF dir = "in" THEN tracked(IF t.ok THEN "return" ELSE DefaultFor("in"))
     ELSE IF DefaultFor("out") = "no" THEN untouched("no")
     ELSE tracked("default")

\* admits_reply: what an exit gateway sends back is let in on conntrack alone.
AdmitsReply(k) ==
  LET t == TrackPacket("in", k)
  IN IF fw.off THEN [by |-> "off", flow |-> conntrack]
     ELSE [by |-> IF t.ok THEN "return" ELSE "no", flow |-> t.flow]

-----------------------------------------------------------------------------
(* FragmentVerdicts *)

NoVerdicts == [allowed |-> {}, order |-> <<>>]

\* expire: from the front, whatever is past its time.
Expired(v) ==
  LET gone == {i \in DOMAIN v.order : \A j \in 1..i : v.order[j].until <= ctNow}
      n == Cardinality(gone)
  IN [allowed |-> v.allowed \ {v.order[i].key : i \in gone},
      order |-> SubSeq(v.order, n + 1, Len(v.order))]

\* allow: a key already there keeps its time; at the limit the oldest makes room.
Allow(v, key) ==
  LET e == Expired(v)
      over == Cardinality(e.allowed) - VerdictCapacity + 1
      n == IF over > 0 THEN over ELSE 0
  IN IF key \in e.allowed THEN e
     ELSE [allowed |-> (e.allowed \ {e.order[i].key : i \in 1..n}) \cup {key},
           order |-> Append(SubSeq(e.order, n + 1, Len(e.order)),
                            [key |-> key, until |-> ctNow + VerdictTtl])]

\* A mutant: a later fragment is let through while its key is listed, however old.
Admits_stale(v, key) == key \in v.allowed

\* admits: whether a later fragment may follow its first.
Admits(v, key) == key \in Expired(v).allowed

-----------------------------------------------------------------------------
CtInit ==
  /\ ctScene \in CtScenes
  /\ ctNow = 0
  /\ fw = [off |-> FALSE, rule |-> [out |-> "none", in |-> "none"],
           default |-> [out |-> "allow", in |-> "deny"]]
  /\ conntrack = NoFlow
  /\ verdicts = [d \in Dirs |-> NoVerdicts]
  /\ heard = <<>>
  /\ ctEdits = 0

Note(dir, k, shape, key, by) ==
  IF by = "no" THEN heard' = heard
  ELSE heard' = Append(heard, [dir |-> dir, k |-> k, at |-> ctNow, shape |-> shape,
                               key |-> key, by |-> by])

\* run_with_pending and send_routed on a packet with ports: the first fragment
\* of a packet speaks for the others only if it was handed on, which it is not
\* when the path has no room for it.
Outgoing(k, shape, key, fits) ==
  /\ Len(heard) < ctScene.packets
  /\ LET e == EvaluatePacket("out", k)
         sent == e.by # "no" /\ fits
     IN /\ conntrack' = e.flow
        /\ verdicts' = IF shape = "first" /\ sent
                       THEN [verdicts EXCEPT !.out = Allow(@, key)] ELSE verdicts
        /\ Note("out", k, IF sent THEN shape ELSE "unsent", key, e.by)
  /\ UNCHANGED <<ctScene, ctNow, fw, ctEdits>>

\* evaluate_inbound on a packet with ports that passed the source check. A first
\* fragment to the mesh SSH port is refused before the rules are asked.
Incoming(k, shape, key) ==
  /\ Len(heard) < ctScene.packets
  /\ IF shape = "first" /\ ctScene.ssh
     THEN UNCHANGED <<conntrack, verdicts, heard>>
     ELSE LET e == IF ctScene.exit THEN AdmitsReply(k) ELSE EvaluatePacket("in", k)
          IN /\ conntrack' = e.flow
             /\ verdicts' = IF shape = "first" /\ e.by # "no"
                            THEN [verdicts EXCEPT !["in"] = Allow(@, key)] ELSE verdicts
             /\ Note("in", k, shape, key, e.by)
  /\ UNCHANGED <<ctScene, ctNow, fw, ctEdits>>

\* A later fragment, either way: no ports to judge, its first one decided.
LaterFragment(dir, key) ==
  /\ Len(heard) < ctScene.packets
  /\ verdicts' = [verdicts EXCEPT ![dir] = Expired(@)]
  /\ Note(dir, "later", "later", key, IF Admits(verdicts[dir], key) THEN "first" ELSE "no")
  /\ UNCHANGED <<ctScene, ctNow, fw, conntrack, ctEdits>>

\* spawn_evictor: idle flows are forgotten.
EvictIdle ==
  /\ conntrack # NoFlow /\ ~FlowActive(conntrack)
  /\ conntrack' = NoFlow
  /\ UNCHANGED <<ctScene, ctNow, fw, verdicts, heard, ctEdits>>

\* Another configuration is stored; a packet sees one or the other. A rule that
\* names a network also starts or stops matching as the network is shared.
SwapConfig(c) ==
  /\ ctEdits < ctScene.edits /\ c # fw
  /\ fw' = c
  /\ ctEdits' = ctEdits + 1
  /\ UNCHANGED <<ctScene, ctNow, conntrack, verdicts, heard>>

\* Time passes.
CtTick ==
  /\ ctNow < ctScene.clock
  /\ ctNow' = ctNow + 1
  /\ UNCHANGED <<ctScene, fw, conntrack, verdicts, heard, ctEdits>>

\* The configurations this flow tells apart.
FwConfigs ==
  [off : BOOLEAN, rule : [out : {"none", "allow", "deny"}, in : {"none", "allow", "deny"}],
   default : [out : {"allow", "deny"}, in : {"allow", "deny"}]]

CtNext ==
  \/ \E k \in ctScene.kinds, shape \in ctScene.shapes, key \in ctScene.keys :
       \/ \E fits \in (IF shape = "first" THEN BOOLEAN ELSE {TRUE}) : Outgoing(k, shape, key, fits)
       \/ Incoming(k, shape, key)
  \/ "first" \in ctScene.shapes /\ \E dir \in Dirs, key \in ctScene.keys : LaterFragment(dir, key)
  \/ EvictIdle
  \/ CtTick
  \/ \E c \in ctScene.configs : SwapConfig(c)

CtSpec == CtInit /\ [][CtNext]_ctVars

-----------------------------------------------------------------------------
\* The filter's state keeps its shape: a flow is untracked or has a state of
\* FlowState, and a fragment verdict has exactly one place in the queue that
\* ages it, so that the table is bounded.
CtTypeOK ==
  /\ conntrack \in [st : {"none", "active", "half", "closing"}, at : 0..ctScene.clock,
                    fin : {"none"} \cup Dirs]
  /\ fw \in FwConfigs /\ ctScene.kinds \subseteq Kinds
  /\ \A d \in Dirs : LET v == verdicts[d]
                     IN /\ v.allowed = {v.order[i].key : i \in DOMAIN v.order}
                        /\ Cardinality(v.allowed) = Len(v.order)
                        /\ Len(v.order) <= VerdictCapacity

IdleLimit == IF ctScene.proto = "tcp" THEN TcpFlowTimeout ELSE UdpFlowTimeout

\* The packet was let through by the filter, not past it.
Judged(p) == p.by \notin {"off", "first"}

Ours(p) == Judged(p) /\ p.dir = "out"

\* A packet of this node that may open the flow.
Opener(p) == Ours(p) /\ p.k \notin {"fin", "rst", "reply", "error"}

\* The l-th packet of h is this node's FIN on a flow the peer's FIN had half
\* closed: its first FIN since it last sent a SYN.
SecondFin(h, l) ==
  /\ Ours(h[l]) /\ h[l].k = "fin"
  /\ \E j \in 1..(l - 1) :
       /\ h[j].by = "return" /\ h[j].k = "fin" /\ h[l].at - h[j].at < IdleLimit
       /\ \A i \in (j + 1)..l : h[i].k \notin {"syn", "rst"}
       /\ \A i \in 1..(l - 1) : Ours(h[i]) /\ h[i].k = "fin" =>
            \E m \in (i + 1)..(j - 1) : Ours(h[m]) /\ h[m].k = "syn"

\* What arrived as return traffic answers a flow this node opened, not reset
\* since and never idle for the timeout; and once both sides sent their FIN it is
\* let in for the closing window only, however much was sent in it, until this
\* node opens the flow again. SharedFirewall::track_packet and FlowState decide
\* this from one entry that both directions, the evictor and packets under every
\* configuration write.
ReturnSolicited ==
  \A n \in DOMAIN heard : heard[n].by = "return" =>
    /\ \E i \in 1..(n - 1) :
         /\ Opener(heard[i])
         /\ \A j \in i..(n - 1) : Judged(heard[j]) => heard[j].k # "rst"
         /\ \A j \in (i + 1)..n : Judged(heard[j]) =>
              \E l \in i..(j - 1) :
                Judged(heard[l]) /\ heard[j].at - heard[l].at < IdleLimit
    /\ \A l \in 1..(n - 1) : SecondFin(heard, l) =>
         \/ heard[n].at - heard[l].at < TcpClosingTimeout
         \/ \E i \in (l + 1)..(n - 1) :
              \/ heard[i].k = "rst"
              \/ /\ Opener(heard[i])
                 /\ heard[i].k = "syn" \/ heard[i].at - heard[l].at >= TcpClosingTimeout

\* A later fragment passes only behind the first fragment of its packet, let
\* through the same way at most VerdictTtl before (forward::frag_verdicts), even
\* if the rules changed or the table overflowed in between.
LaterFollowsFirst ==
  \A n \in DOMAIN heard : heard[n].shape = "later" =>
    \E i \in 1..(n - 1) :
      /\ heard[i].shape = "first" /\ heard[i].dir = heard[n].dir /\ heard[i].key = heard[n].key
      /\ heard[n].at - heard[i].at < VerdictTtl
=============================================================================
