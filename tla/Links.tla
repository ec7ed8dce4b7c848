------------------------------- MODULE Links -------------------------------
(***************************************************************************)
(* The links between two daemons: one QUIC connection per peer carrying    *)
(* every network the two share.  Modelled are the peer table (peers.rs),   *)
(* the shared dial (mesh_dialer.rs), the per-connection control loop with  *)
(* its lanes (mesh_connection.rs), the handler registry                    *)
(* (connection_manager.rs), the disconnect supervisor, the reconnect loop  *)
(* and the removal of members (coordinator.rs), and the departures that    *)
(* drop a network from a link (network_registry.rs, reconverge.rs).        *)
(*                                                                         *)
(* A connection is named by its selection id, the value both ends derive   *)
(* from the TLS session, so the ids are ordered alike at both ends.  A     *)
(* close reaches the other end later, as its code or as a loss.            *)
(***************************************************************************)
EXTENDS Naturals, Sequences, FiniteSets

CONSTANTS
  Ends,         \* the two daemons
  Nets,         \* networks, numbered in the order of their names
  Conns,        \* selection ids, 1..n, each for one connection (a bound on dials)
  Tasks,        \* dial tasks one daemon may run at once (a bound)
  OnDemand,     \* ends that close idle links
  Scenes,       \* starting points: [keys |-> end -> networks whose key it holds,
                \* shared |-> networks both ends are in, up |-> the connection that
                \* is up or 0, kinds |-> the kinds of events from outside that
                \* occur, max |-> how many of them (a bound)]
  LaneDepth     \* frames one lane of the control loop holds

VARIABLES
  view,       \* [Conns -> [Ends -> state of the connection at that end]]
  code,       \* [Conns -> code the first local close sent]
  pipe,       \* [Conns -> [Ends -> control streams not yet accepted there]]
  driver,     \* [Conns -> [Ends -> MeshConnection::run]]
  lane,       \* [Conns -> [Ends -> [Nets -> frames of SerialLanes]]]
  entry,      \* [Ends -> the PeerTable entry of the other end]
  task,       \* [Ends -> [Tasks -> a dial or join in progress]]
  events,     \* [Ends -> the supervisor's DisconnectEvent channel]
  pruned,     \* [Ends -> networks in pruned_peers for the other end]
  installed,  \* [Ends -> networks with a registered accept handler]
  knows,      \* [Ends -> networks whose roster, here, lists the other end]
  roster,     \* [Nets -> ends listed by the signed roster]
  leaving,    \* [Ends -> networks whose teardown is under way]
  telling,    \* [Ends -> networks whose leave is being delivered]
  closing,    \* [Ends -> connections a kick still has to close]
  left,       \* [Ends -> networks this end left or was removed from]
  scene,      \* the starting point
  outside     \* events from outside so far

links == <<view, code, pipe, driver, lane, entry>>
members == <<installed, knows, roster, leaving, telling, closing, left, scene>>
vars == <<view, code, pipe, driver, lane, entry, task, events, pruned,
          installed, knows, roster, leaving, telling, closing, left, scene, outside>>

Other(e) == CHOOSE o \in Ends : o # e
Least(S) == CHOOSE n \in S : \A m \in S : n <= m
Empty == [n \in Nets |-> 0]
NoEntry == [conn |-> 0, out |-> Empty, in |-> Empty, heard |-> FALSE]
NoDriver == [st |-> "off", reg |-> FALSE, ann |-> Empty]
NoTask == [st |-> "free", kind |-> "re", nets |-> {}, left |-> {}, net |-> 0,
           conn |-> 0, claim |-> FALSE]
Codes == {"Left", "Kicked", "Idle", "Replaced", "Transient"}

\* One more event from outside, of a kind that occurs.
Outside(kind) ==
  kind \in scene.kinds /\ outside < scene.max /\ outside' = outside + 1
Keys(e) == scene.keys[e]
Open(k, e) == k # 0 /\ view[k][e] = "open"
Nets0(out) == {n \in Nets : out[n] # 0}

----------------------------------------------------------------------------
\* PeerTable

\* next_free_handle
next_free_handle(out) ==
  CHOOSE h \in 1..(Cardinality(Nets) + 1) :
    /\ \A n \in Nets : out[n] # h
    /\ \A g \in 1..(h - 1) : \E n \in Nets : out[n] = g

\* install_connection keeps the live connection with the lowest selection id.
install_connection(t, k, e) ==
  IF t.conn # 0 /\ Open(t.conn, e) /\ t.conn <= k THEN t.conn ELSE k

\* PeerTable::add: the entry after registering connection k for network n.
add(t, k, e, n) ==
  LET w == install_connection(t, k, e)
      kept == IF w = t.conn THEN t ELSE [NoEntry EXCEPT !.conn = w, !.out = t.out]
  IN  IF ~Open(k, e) THEN t
      ELSE [kept EXCEPT !.out[n] = IF @ = 0 THEN next_free_handle(t.out) ELSE @]

\* The connection add closes as not selected, 0 when there is none.
loser(t, k, e) ==
  IF ~Open(k, e) \/ t.conn \in {0, k} THEN 0
  ELSE IF install_connection(t, k, e) = k THEN t.conn ELSE k

\* route: the least shared network the peer announced, else the least shared.
route(t) ==
  LET both == {n \in Nets0(t.out) : t.in[n] # 0}
  IN  IF both # {} THEN Least(both) ELSE Least(Nets0(t.out))

\* resolve_inbound: the network a datagram tagged h arrives on, 0 when dropped.
resolve_inbound(t, k, h) ==
  IF t.conn = k /\ \E n \in Nets : t.in[n] = h /\ t.out[n] # 0
  THEN CHOOSE n \in Nets : t.in[n] = h /\ t.out[n] # 0
  ELSE 0

\* Mutant: the entry outlives its last network.
remove_from_kept(t, n) == [t EXCEPT !.out[n] = 0]

\* remove_peer_from_network: the entry goes with its last network.
remove_from(t, n) ==
  LET out == [t.out EXCEPT ![n] = 0]
  IN  IF Nets0(out) = {} THEN NoEntry ELSE [t EXCEPT !.out = out]

\* The connection the caller of remove_peer_from_network must close, or 0.
last_conn(t, n) == IF Nets0(t.out) = {n} THEN t.conn ELSE 0

\* Closing connections at e: {<<connection, code>>}, 0 and closed ones ignored.
CloseAt(e, S) ==
  LET hit(k) == \E p \in S : p[1] = k /\ Open(k, e)
  IN  /\ view' = [k \in Conns |-> IF hit(k) THEN [view[k] EXCEPT ![e] = "local"]
                                  ELSE view[k]]
      /\ code' = [k \in Conns |->
                    IF hit(k) /\ view[k][Other(e)] = "open"
                    THEN (CHOOSE p \in S : p[1] = k)[2] ELSE code[k]]

\* A control stream on connection k to end o; a loop that ended reads no more.
Send(p, k, o, f) ==
  IF driver[k][o].st = "end" THEN p ELSE [p EXCEPT ![k][o] = Append(@, f)]

\* announce_network_handles: a full snapshot of the out handles of the networks
\* in config, on the selected connection (a repeat right behind its equal is
\* left out).
announce(e, t, via, p) ==
  LET k == IF t.conn # 0 /\ view'[t.conn][e] = "open" THEN t.conn ELSE via
      table == [n \in Nets |-> IF n \in installed[e] THEN t.out[n] ELSE 0]
      new == [kind |-> "ann", table |-> table]
      q == p[k][Other(e)]
  IN  IF \/ t.conn = 0 \/ k = 0 \/ view'[k][e] # "open" \/ table = Empty
         \/ q # <<>> /\ q[Len(q)] = new
      THEN p ELSE Send(p, k, Other(e), new)

\* apply_network_handles: only networks with a handler here are decoded.
apply_network_handles(t, k, e, table) ==
  IF t.conn # k THEN t
  ELSE [t EXCEPT !.heard = TRUE,
                 !.in = [n \in Nets |-> IF n \in installed[e] THEN table[n] ELSE 0]]

----------------------------------------------------------------------------
\* The link of a daemon that registered its peer and heard its announcement:
\* every shared network under its handle.
Up(e) ==
  LET table == [n \in Nets |-> IF n \in scene.shared
                               THEN Cardinality({m \in scene.shared : m <= n}) ELSE 0]
  IN  [entry |-> [conn |-> scene.up, out |-> table, in |-> table, heard |-> TRUE],
       driver |-> [st |-> "on", reg |-> TRUE, ann |-> table]]

Init ==
  /\ scene \in Scenes
  /\ view = [k \in Conns |-> [e \in Ends |-> IF k = scene.up THEN "open" ELSE "none"]]
  /\ code = [k \in Conns |-> "Transient"]
  /\ pipe = [k \in Conns |-> [e \in Ends |-> <<>>]]
  /\ driver = [k \in Conns |-> [e \in Ends |-> IF k = scene.up THEN Up(e).driver ELSE NoDriver]]
  /\ lane = [k \in Conns |-> [e \in Ends |-> [n \in Nets |-> <<>>]]]
  /\ entry = [e \in Ends |-> IF scene.up # 0 THEN Up(e).entry ELSE NoEntry]
  /\ task = [e \in Ends |-> [t \in Tasks |-> NoTask]]
  /\ events = [e \in Ends |-> <<>>]
  /\ pruned = [e \in Ends |-> {}]
  /\ installed = [e \in Ends |-> scene.shared \cup Keys(e)]
  /\ knows = [e \in Ends |-> scene.shared]
  /\ roster = [n \in Nets |-> {e \in Ends : n \in scene.shared \cup Keys(e)}]
  /\ leaving = [e \in Ends |-> {}]
  /\ telling = [e \in Ends |-> {}]
  /\ closing = [e \in Ends |-> {}]
  /\ left = [e \in Ends |-> {}]
  /\ outside = 0

----------------------------------------------------------------------------
\* Dialing

Free(e) == {t \in Tasks : task[e][t].st = "free"}
Spawn(e, new) ==
  /\ Free(e) # {}
  /\ task' = [task EXCEPT ![e][Least(Free(e))] = new]
Step(e, t, new) == task' = [task EXCEPT ![e][t] = new]

\* What keeps connection k at e, other than task t; dropping the last handle on a
\* connection closes it.
Holds(e, k, t) ==
  \/ driver[k][e].st = "on" \/ entry[e].conn = k
  \/ \E u \in Tasks \ {t} : task[e][u].conn = k
Drop(e, t) ==
  LET k == task[e][t].conn IN
  CloseAt(e, IF k # 0 /\ ~Holds(e, k, t) THEN {<<k, "Transient">>} ELSE {})

\* A failed or finished attempt: the reconnect loop backs off, others end.
Retry(d) == IF d.kind = "re"
            THEN [NoTask EXCEPT !.st = "sleep", !.nets = d.nets] ELSE NoTask

\* A packet for a peer with no link: dial_target over the networks its roster
\* routes name (route_map).
LazyDial(e) ==
  /\ Outside("dial")
  /\ entry[e].conn = 0
  /\ \A t \in Tasks : task[e][t].kind # "once" \/ task[e][t].st = "free"
  /\ knows[e] \cap installed[e] # {}
  /\ Spawn(e, [NoTask EXCEPT !.kind = "once", !.st = "sleep",
                             !.nets = knows[e] \cap installed[e]])
  /\ UNCHANGED <<links, members, events, pruned>>

\* One turn of the reconnect loop, or the start of another dial: the networks
\* still registered, else nothing to dial; then MeshDialer::connect looks for a
\* registered connection.
Wake(e, t) ==
  LET d == task[e][t]
      targets == IF d.kind = "join" THEN d.nets ELSE d.nets \cap (installed[e] \ leaving[e])
      k == entry[e].conn
  IN  /\ d.st = "sleep"
      /\ Step(e, t, IF targets = {} THEN NoTask
                    ELSE IF Open(k, e) THEN [d EXCEPT !.st = "hello", !.left = targets, !.conn = k]
                    ELSE [d EXCEPT !.st = "slot", !.left = targets])
      /\ UNCHANGED <<links, members, events, pruned, outside>>

\* Mutant: only a dial still running is shared.
Claimed_running(e) == {}

\* Dialed connections that a dial task still claims: the in-flight slot is kept
\* until the last claim is gone (inflight_dial, is_spent).
Claimed(e) == {k \in Conns : /\ Open(k, e)
                             /\ \E u \in Tasks : task[e][u].claim /\ task[e][u].conn = k}

\* inflight_dial under the map guard: the dial in flight or still claimed, else
\* the table once more, else a new dial.
LookSlot(e, t) ==
  LET d == task[e][t]
      claimed == Claimed(e)
      running == \E u \in Tasks : task[e][u].st = "dial"
  IN  /\ d.st = "slot"
      /\ Step(e, t,
              IF claimed # {}
              THEN [d EXCEPT !.st = "hello", !.conn = Least(claimed), !.claim = TRUE]
              ELSE IF ~running /\ Open(entry[e].conn, e)
              THEN [d EXCEPT !.st = "hello", !.conn = entry[e].conn]
              ELSE [d EXCEPT !.st = "dial"])
      /\ UNCHANGED <<links, members, events, pruned, outside>>

\* The shared dial completes: every waiter holds the new connection, and the
\* other end accepts it and runs its control loop unregistered.
DialOk(e, k) ==
  /\ \E t \in Tasks : task[e][t].st = "dial"
  /\ view[k] = [x \in Ends |-> "none"]
  /\ view' = [view EXCEPT ![k] = [x \in Ends |-> "open"]]
  /\ code' = [code EXCEPT ![k] = "Transient"]
  /\ driver' = [driver EXCEPT ![k] = [x \in Ends |->
                  IF x = e THEN NoDriver ELSE [NoDriver EXCEPT !.st = "on"]]]
  /\ task' = [task EXCEPT ![e] = [t \in Tasks |->
                IF @[t].st = "dial"
                THEN [@[t] EXCEPT !.st = "hello", !.conn = k, !.claim = TRUE] ELSE @[t]]]
  /\ UNCHANGED <<pipe, lane, entry, members, events, pruned, outside>>

DialFail(e) ==
  /\ \E t \in Tasks : task[e][t].st = "dial"
  /\ Outside("fail")
  /\ task' = [task EXCEPT ![e] = [t \in Tasks |->
                IF @[t].st = "dial" THEN Retry(@[t]) ELSE @[t]]]
  /\ UNCHANGED <<links, members, events, pruned>>

\* send_mesh_hello, or the JoinRequest of a fresh join, for the next target.
SendHello(e, t) ==
  LET d == task[e][t]
      n == Least(d.left)
  IN  /\ d.st = "hello" /\ d.left # {}
      /\ IF Open(d.conn, e)
         THEN /\ pipe' = Send(pipe, d.conn, Other(e),
                  [kind |-> IF d.kind = "join" THEN "join" ELSE "hello", net |-> n, task |-> t])
              /\ Step(e, t, [d EXCEPT !.st = "await", !.net = n, !.left = @ \ {n}])
         ELSE /\ Step(e, t, [d EXCEPT !.left = @ \ {n}])
              /\ UNCHANGED pipe
      /\ UNCHANGED <<view, code, driver, lane, entry, members, events, pruned, outside>>

\* The reply is an error, or the connection closed under it: next target.
HelloFailed(e, t) ==
  LET d == task[e][t] IN
  /\ d.st = "no" \/ (d.st = "await" /\ ~Open(d.conn, e))
  /\ \/ /\ d.kind = "join" /\ Step(e, t, NoTask) /\ Drop(e, t)
     \/ /\ d.kind # "join" /\ Step(e, t, [d EXCEPT !.st = "hello", !.net = 0])
        /\ UNCHANGED <<view, code>>
  /\ UNCHANGED <<pipe, driver, lane, entry, members, events, pruned, outside>>

\* A fresh join persists its admission and registers the accept handler before
\* it registers the peer; admitted by a coordinator outside the pair, it then
\* dials the peer (connect_to_roster_peers).
JoinInstall(e, t) ==
  LET d == task[e][t]
      n == Least(d.nets)
  IN  /\ d.st = "welcome"
      /\ Step(e, t, [d EXCEPT !.st = IF d.kind = "join" THEN "yes" ELSE "sleep"])
      /\ installed' = [installed EXCEPT ![e] = @ \cup {n}]
      /\ knows' = [knows EXCEPT ![e] = IF Other(e) \in roster[n] THEN @ \cup {n} ELSE @]
      /\ UNCHANGED <<links, roster, leaving, telling, closing, left, scene, events, pruned, outside>>

\* register_peer_conn: supersede the prune marker, add to the table, close the
\* connection that was not selected.
Registered(e, k, n) ==
  /\ pruned' = [pruned EXCEPT ![e] = @ \ {n}]
  /\ CloseAt(e, {<<loser(entry[e], k, e), "Replaced">>})

\* register_dialed_peer, and the loop body of dial_peer_once: register, drive a
\* newly stored connection, announce.
Register(e, t) ==
  LET d == task[e][t]
      new == add(entry[e], d.conn, e, d.net)
      changed == Open(d.conn, e) /\ new.conn = d.conn /\ entry[e].conn # d.conn
  IN  /\ d.st = "yes"
      /\ Registered(e, d.conn, d.net)
      /\ entry' = [entry EXCEPT ![e] = new]
      /\ driver' = IF changed
                   THEN [driver EXCEPT ![d.conn][e] = [NoDriver EXCEPT !.st = "on", !.reg = TRUE]]
                   ELSE driver
      /\ pipe' = announce(e, new, d.conn, pipe)
      /\ Step(e, t, IF d.kind = "join" THEN NoTask ELSE [d EXCEPT !.st = "hello", !.net = 0])
      /\ UNCHANGED <<lane, members, events, outside>>

\* dial_peer_once is over: it succeeded if a live connection is selected.
DialDone(e, t) ==
  LET d == task[e][t]
      live == Open(entry[e].conn, e)
  IN  /\ d.st = "hello" /\ d.left = {}
      /\ Step(e, t, IF live THEN NoTask ELSE Retry(d))
      /\ Drop(e, t)
      /\ pipe' = IF live THEN announce(e, entry[e], entry[e].conn, pipe) ELSE pipe
      /\ UNCHANGED <<driver, lane, entry, members, events, pruned, outside>>

\* MESH_DIAL_TIMEOUT around dial_peer_once drops the attempt wherever it is.
DialTimeout(e, t) ==
  LET d == task[e][t] IN
  /\ d.kind # "join"
  /\ d.st \in {"dial", "hello", "await", "yes"}
  /\ Outside("timeout")
  /\ Step(e, t, Retry(d))
  /\ Drop(e, t)
  /\ UNCHANGED <<pipe, driver, lane, entry, members, events, pruned>>
----------------------------------------------------------------------------
\* The control loop of one connection

\* The reply to a hello or join reaches the task that waits for it, if any does
\* and the connection still stands.
Answer(e, k, f, how) ==
  LET o == Other(e) IN
  task' = IF /\ Open(k, e) /\ Open(k, o)
             /\ task[o][f.task].st = "await" /\ task[o][f.task].conn = k
             /\ task[o][f.task].net = f.net
          THEN [task EXCEPT ![o][f.task].st = how] ELSE task

Accepted(f) == IF f.kind = "join" THEN "welcome" ELSE "yes"

\* accept_bi, up to the lane; a stream received before a close may still be read.
\* Announcements apply here, in stream order; a frame for a network without a
\* handler is answered and dropped.
Accept(e, k) ==
  LET f == Head(pipe[k][e]) IN
  /\ driver[k][e].st = "on" /\ pipe[k][e] # <<>>
  /\ pipe' = [pipe EXCEPT ![k][e] = Tail(@)]
  /\ \/ /\ f.kind = "ann"
        /\ entry' = [entry EXCEPT ![e] = apply_network_handles(@, k, e, f.table)]
        /\ driver' = [driver EXCEPT ![k][e].ann = f.table]
        /\ UNCHANGED <<lane, task>>
     \/ /\ f.kind # "ann" /\ f.net \notin installed[e]
        /\ IF f.kind = "leave" THEN UNCHANGED task ELSE Answer(e, k, f, "no")
        /\ UNCHANGED <<entry, driver, lane>>
     \/ /\ f.kind # "ann" /\ f.net \in installed[e]
        /\ Len(lane[k][e][f.net]) < LaneDepth
        /\ lane' = [lane EXCEPT ![k][e][f.net] = Append(@, f)]
        /\ UNCHANGED <<entry, driver, task>>
  /\ UNCHANGED <<view, code, members, events, pruned, outside>>

\* A lane that stays full for INLINE_STEP_TIMEOUT: the frame is dropped and its
\* reply stream with it.
LaneFull(e, k) ==
  LET f == Head(pipe[k][e]) IN
  /\ driver[k][e].st = "on" /\ pipe[k][e] # <<>>
  /\ f.kind # "ann" /\ f.net \in installed[e]
  /\ Len(lane[k][e][f.net]) = LaneDepth
  /\ Outside("stall")
  /\ pipe' = [pipe EXCEPT ![k][e] = Tail(@)]
  /\ IF f.kind = "leave" THEN UNCHANGED task ELSE Answer(e, k, f, "no")
  /\ UNCHANGED <<view, code, driver, lane, entry, members, events, pruned>>

Done(e, k, n) == lane' = [lane EXCEPT ![k][e][n] = Tail(@)]

\* handle_frame refuses the sender: no handler any more, or not on the roster.
LaneRefuse(e, k, n) ==
  LET f == Head(lane[k][e][n]) IN
  /\ lane[k][e][n] # <<>>
  /\ f.kind \in {"hello", "join"}
  /\ \/ n \notin installed[e]
     \/ f.kind = "join" /\ n \notin Keys(e)
     \/ f.kind = "hello" /\ n \notin knows[e]
  /\ Answer(e, k, f, "no")
  /\ Done(e, k, n)
  /\ UNCHANGED <<view, code, pipe, driver, entry, members, events, pruned, outside>>

\* Mutant: the loop of a registered connection does not report its loss.
LaneRegister_silent(e, k, n) ==
  LET new == add(entry[e], k, e, n)
      heard == driver[k][e].ann
  IN  /\ Registered(e, k, n)
      /\ entry' = [entry EXCEPT ![e] = IF Nets0(heard) = {} THEN new
                                      ELSE apply_network_handles(new, k, e, heard)]
      /\ pipe' = announce(e, new, k, pipe)
      /\ UNCHANGED driver

\* Mutant: the handles are announced before the new network has one.
LaneRegister_before(e, k, n) ==
  LET new == add(entry[e], k, e, n)
      heard == driver[k][e].ann
  IN  /\ Registered(e, k, n)
      /\ entry' = [entry EXCEPT ![e] = IF Nets0(heard) = {} THEN new
                                      ELSE apply_network_handles(new, k, e, heard)]
      /\ driver' = [driver EXCEPT ![k][e].reg = TRUE]
      /\ pipe' = announce(e, entry[e], k, pipe)

\* The peer is registered on this network; then the lane reports it to the loop,
\* which applies the announcement heard so far, and announces our handles.
LaneRegister(e, k, n) ==
  LET new == add(entry[e], k, e, n)
      heard == driver[k][e].ann
  IN  /\ Registered(e, k, n)
      /\ entry' = [entry EXCEPT ![e] = IF Nets0(heard) = {} THEN new
                                      ELSE apply_network_handles(new, k, e, heard)]
      /\ driver' = [driver EXCEPT ![k][e].reg = TRUE]
      /\ pipe' = announce(e, new, k, pipe)

\* A plain member registers a seated peer and ends the reply stream.
MemberHello(e, k, n) ==
  LET f == Head(lane[k][e][n]) IN
  /\ lane[k][e][n] # <<>>
  /\ f.kind = "hello" /\ n \in installed[e] \cap knows[e] /\ n \notin Keys(e)
  /\ LaneRegister(e, k, n)
  /\ Answer(e, k, f, "yes")
  /\ Done(e, k, n)
  /\ UNCHANGED <<members, events, outside>>

\* A coordinator replies Welcome first (handle_member_hello, and the admission of
\* a join, which seats the peer) ...
CoordinatorWelcome(e, k, n) ==
  LET f == Head(lane[k][e][n]) IN
  /\ lane[k][e][n] # <<>>
  /\ n \in installed[e] \cap Keys(e)
  /\ f.kind = "join" \/ (f.kind = "hello" /\ n \in knows[e])
  /\ knows' = [knows EXCEPT ![e] = @ \cup {n}]
  /\ roster' = [roster EXCEPT ![n] = @ \cup {Other(e)}]
  /\ Answer(e, k, f, Accepted(f))
  /\ lane' = [lane EXCEPT ![k][e][n] = <<[f EXCEPT !.kind = "register"]>> \o Tail(@)]
  /\ UNCHANGED <<view, code, pipe, driver, entry, installed, leaving, telling, closing, left, scene, events, pruned, outside>>

\* ... and registers the connection after it.
CoordinatorRegister(e, k, n) ==
  /\ lane[k][e][n] # <<>>
  /\ Head(lane[k][e][n]).kind = "register"
  /\ LaneRegister(e, k, n)
  /\ Done(e, k, n)
  /\ UNCHANGED <<task, members, events, outside>>

\* handle_member_leave: drop the route, close the link with the leave code if it
\* was the last network, and prune the roster of a network we coordinate.  A
\* sender the roster does not list is ignored.
MemberLeave(e, k, n) ==
  /\ lane[k][e][n] # <<>>
  /\ Head(lane[k][e][n]).kind = "leave"
  /\ Done(e, k, n)
  /\ IF n \in installed[e] \cap knows[e]
     THEN /\ CloseAt(e, {<<last_conn(entry[e], n), "Left">>})
          /\ entry' = [entry EXCEPT ![e] = IF @.out[n] = 0 THEN @ ELSE remove_from(@, n)]
          /\ IF n \in Keys(e)
             THEN /\ knows' = [knows EXCEPT ![e] = @ \ {n}]
                  /\ roster' = [roster EXCEPT ![n] = @ \ {Other(e)}]
             ELSE UNCHANGED <<knows, roster>>
     ELSE UNCHANGED <<view, code, entry, knows, roster>>
  /\ UNCHANGED <<pipe, driver, task, installed, leaving, telling, closing, left, scene, events, pruned, outside>>

Lanes(e, k) ==
  \E n \in Nets : \/ LaneRefuse(e, k, n) \/ MemberHello(e, k, n)
                  \/ CoordinatorWelcome(e, k, n) \/ CoordinatorRegister(e, k, n)
                  \/ MemberLeave(e, k, n)

\* close_reason: only a code the other end sent is told apart.
close_reason(v) == IF v \in {"Left", "Kicked", "Idle", "Replaced"} THEN v ELSE "Transient"

Drained(e, k) == \A n \in Nets : lane[k][e][n] = <<>>

\* The connection closed: the lanes drain, then a registered loop reports it.
LoopEnd(e, k) ==
  /\ driver[k][e].st = "on" /\ ~Open(k, e) /\ Drained(e, k)
  /\ driver' = [driver EXCEPT ![k][e] = [NoDriver EXCEPT !.st = "end"]]
  /\ pipe' = [pipe EXCEPT ![k][e] = <<>>]
  /\ events' = IF driver[k][e].reg
               THEN [events EXCEPT ![e] = Append(@, <<k, close_reason(view[k][e])>>)]
               ELSE events
  /\ UNCHANGED <<view, code, lane, entry, task, members, pruned, outside>>

\* The idle timer: armed once the peer said it supports idle closes, held off
\* while a lane works.
IdleClose(e, k) ==
  /\ e \in OnDemand /\ Outside("idle")
  /\ driver[k][e].st = "on" /\ Open(k, e) /\ Drained(e, k)
  /\ entry[e].conn = k /\ entry[e].heard
  /\ CloseAt(e, {<<k, "Idle">>})
  /\ driver' = [driver EXCEPT ![k][e] = [NoDriver EXCEPT !.st = "end"]]
  /\ pipe' = [pipe EXCEPT ![k][e] = <<>>]
  /\ events' = IF driver[k][e].reg
               THEN [events EXCEPT ![e] = Append(@, <<k, "Idle">>)] ELSE events
  /\ UNCHANGED <<lane, entry, task, members, pruned>>

----------------------------------------------------------------------------
\* The transport

\* The other end's close arrives, with its code or as a loss.
SeeClose(k, e) ==
  /\ Open(k, e) /\ ~Open(k, Other(e))
  /\ view' = [view EXCEPT ![k][e] = IF view[k][Other(e)] = "local" THEN code[k]
                                    ELSE "Transient"]
  /\ UNCHANGED <<code, pipe, driver, lane, entry, task, members, events, pruned, outside>>

\* A connection times out at one end; a close in flight can be lost with it.
Lose(k, e) ==
  /\ Open(k, e) /\ Outside("lose")
  /\ view' = [view EXCEPT ![k][e] = "Transient"]
  /\ UNCHANGED <<code, pipe, driver, lane, entry, task, members, events, pruned>>

----------------------------------------------------------------------------
\* The supervisor

\* spawn_reconnect: the networks not just pruned; each marker is used once.
spawn_reconnect(e, nets) ==
  /\ pruned' = [pruned EXCEPT ![e] = @ \ nets]
  /\ IF nets \ pruned[e] = {} THEN UNCHANGED task
     ELSE Spawn(e, [NoTask EXCEPT !.st = "sleep", !.nets = nets \ pruned[e]])

\* remove_connection takes down only the connection the report is about.
is_current(t, k) == t.conn = k

\* handle_disconnect: a report about a connection that is no longer the entry's
\* is stale; a leave prunes, an idle close rests, a kick reconnects only the
\* networks we coordinate, anything else reconnects them all.
HandleDisconnect(e) ==
  LET ev == Head(events[e])
      nets == Nets0(entry[e].out)
      gone == IF ev[2] = "Left" THEN nets \cap Keys(e) \cap installed[e] ELSE {}
      again == CASE ev[2] \in {"Left", "Idle"} -> {}
                 [] ev[2] = "Kicked" -> nets \cap Keys(e) \cap (installed[e] \ leaving[e])
                 [] OTHER -> nets
  IN  /\ events[e] # <<>>
      /\ events' = [events EXCEPT ![e] = Tail(@)]
      /\ IF is_current(entry[e], ev[1])
         THEN /\ entry' = [entry EXCEPT ![e] = NoEntry]
              /\ knows' = [knows EXCEPT ![e] = @ \ gone]
              /\ roster' = [n \in Nets |-> IF n \in gone THEN roster[n] \ {Other(e)} ELSE roster[n]]
              /\ spawn_reconnect(e, again)
         ELSE UNCHANGED <<entry, knows, roster, pruned, task>>
      /\ UNCHANGED <<view, code, pipe, driver, lane, installed, leaving, telling, closing, left, scene, outside>>

----------------------------------------------------------------------------
\* Membership changes

\* revoke_peer_network
revoke_peer_network(e, n) ==
  /\ pruned' = [pruned EXCEPT ![e] = IF entry[e].out[n] # 0 THEN @ \cup {n} ELSE @]
  /\ entry' = [entry EXCEPT ![e] = IF @.out[n] # 0 THEN remove_from(@, n) ELSE @]

\* kick_member and finalize_removal: edit the roster, revoke the local route,
\* publish and notify; a link left without a network is closed after that.
Kick(e, n) ==
  /\ Outside("kick")
  /\ n \in Keys(e) \cap knows[e] /\ n \in installed[e] \ leaving[e]
  /\ n \notin Keys(Other(e))
  /\ knows' = [knows EXCEPT ![e] = @ \ {n}]
  /\ roster' = [roster EXCEPT ![n] = @ \ {Other(e)}]
  /\ left' = [left EXCEPT ![Other(e)] = @ \cup {n}]
  /\ revoke_peer_network(e, n)
  /\ closing' = [closing EXCEPT ![e] = @ \cup ({last_conn(entry[e], n)} \ {0})]
  /\ UNCHANGED <<view, code, pipe, driver, lane, task, events, installed, leaving, telling, scene>>

KickClose(e, k) ==
  /\ k \in closing[e]
  /\ closing' = [closing EXCEPT ![e] = @ \ {k}]
  /\ CloseAt(e, {<<k, "Kicked">>})
  /\ UNCHANGED <<pipe, driver, lane, entry, task, events, pruned, installed, knows,
                 roster, leaving, telling, left, scene, outside>>

\* A coordinator outside the pair removes end x from network n.
Evict(x, n) ==
  /\ Outside("evict")
  /\ x \in roster[n] /\ \A e \in Ends : n \notin Keys(e)
  /\ roster' = [roster EXCEPT ![n] = @ \ {x}]
  /\ left' = [left EXCEPT ![x] = @ \cup {n}]
  /\ UNCHANGED <<links, task, events, pruned, installed, knows, leaving, telling, closing, scene>>

\* It admits end x, which was out of the network.
Admit(x, n) ==
  /\ Outside("admit")
  /\ x \notin roster[n] /\ n \notin installed[x] /\ \A e \in Ends : n \notin Keys(e)
  /\ roster' = [roster EXCEPT ![n] = @ \cup {x}]
  /\ left' = [left EXCEPT ![x] = @ \ {n}]
  /\ Spawn(x, [NoTask EXCEPT !.kind = "once", !.st = "welcome", !.nets = {n}])
  /\ UNCHANGED <<links, events, pruned, installed, knows, leaving, telling, closing, scene>>

\* A member applies the signed roster: prune_departed_peers drops the peer the
\* roster no longer lists ...
Prune(e, n) ==
  /\ n \in installed[e] \ Keys(e) /\ n \in knows[e]
  /\ Other(e) \notin roster[n] /\ e \in roster[n]
  /\ knows' = [knows EXCEPT ![e] = @ \ {n}]
  /\ CloseAt(e, {<<last_conn(entry[e], n), "Kicked">>})
  /\ revoke_peer_network(e, n)
  /\ UNCHANGED <<pipe, driver, lane, task, events, installed, roster, leaving, telling, closing, left, scene, outside>>

\* ... and attach_rejoined_peers puts a listed peer's live link on the network.
Attach(e, n) ==
  LET new == [entry[e] EXCEPT !.out[n] = next_free_handle(entry[e].out)]
  IN  /\ n \in installed[e] \ Keys(e) /\ n \notin knows[e]
      /\ roster[n] = Ends
      /\ knows' = [knows EXCEPT ![e] = @ \cup {n}]
      /\ UNCHANGED <<view, code>>
      /\ IF entry[e].conn # 0 /\ entry[e].out[n] = 0
         THEN /\ entry' = [entry EXCEPT ![e] = new]
              /\ pipe' = announce(e, new, new.conn, pipe)
         ELSE UNCHANGED <<entry, pipe>>
      /\ UNCHANGED <<driver, lane, task, events, pruned, installed, roster, leaving, telling, closing, left, scene, outside>>

\* leave_network announces the departure over the live link; a coordinator no
\* link reaches is dialed first (announce_leave, deliver_leave).
Leave(e, n) ==
  /\ Outside("leave")
  /\ n \in installed[e] \ (leaving[e] \cup Keys(e) \cup left[e])
  /\ left' = [left EXCEPT ![e] = @ \cup {n}]
  /\ IF entry[e].out[n] # 0 \/ n \in Keys(Other(e))
     THEN telling' = [telling EXCEPT ![e] = @ \cup {n}] ELSE UNCHANGED telling
  /\ IF entry[e].conn = 0 /\ n \in Keys(Other(e))
     THEN Spawn(e, [NoTask EXCEPT !.kind = "leave", !.st = "sleep", !.nets = knows[e] \cap installed[e]])
     ELSE UNCHANGED task
  /\ UNCHANGED <<links, events, pruned, installed, knows, roster, leaving, closing, scene>>

\* The announcement goes out once there is a link, or fails with it.
TellLeave(e, n) ==
  LET k == entry[e].conn IN
  /\ n \in telling[e]
  /\ \A t \in Tasks : task[e][t].kind # "leave" \/ task[e][t].st = "free"
  /\ telling' = [telling EXCEPT ![e] = @ \ {n}]
  /\ pipe' = IF Open(k, e)
             THEN Send(pipe, k, Other(e), [kind |-> "leave", net |-> n])
             ELSE pipe
  /\ UNCHANGED <<view, code, driver, lane, entry, task, events, pruned, installed, knows,
                 roster, leaving, closing, left, scene, outside>>

\* teardown_network_runtime: out of the network map, the routes dropped, a link
\* left without a network closed with the leave code ...
Teardown(e, n) ==
  /\ n \in installed[e] \ leaving[e]
  /\ n \in left[e] \ telling[e]
  /\ leaving' = [leaving EXCEPT ![e] = @ \cup {n}]
  /\ CloseAt(e, {<<last_conn(entry[e], n), "Left">>})
  /\ entry' = [entry EXCEPT ![e] = IF @.out[n] # 0 THEN remove_from(@, n) ELSE @]
  /\ roster' = IF \A x \in Ends : n \notin Keys(x)
               THEN [roster EXCEPT ![n] = @ \ {e}] ELSE roster
  /\ UNCHANGED <<pipe, driver, lane, task, events, pruned, installed, knows, telling, closing, left, scene, outside>>

\* ... and the accept handler unregistered after that.
Unregister(e, n) ==
  /\ n \in leaving[e]
  /\ leaving' = [leaving EXCEPT ![e] = @ \ {n}]
  /\ installed' = [installed EXCEPT ![e] = @ \ {n}]
  /\ knows' = [knows EXCEPT ![e] = @ \ {n}]
  /\ UNCHANGED <<links, task, events, pruned, roster, telling, closing, left, scene, outside>>

\* A fresh join of a network the other end coordinates.
Join(e, n) ==
  /\ Outside("join")
  /\ n \in Keys(Other(e)) /\ n \notin installed[e]
  /\ \A t \in Tasks : task[e][t].kind # "join" \/ task[e][t].st = "free"
  /\ left' = [left EXCEPT ![e] = @ \ {n}]
  /\ Spawn(e, [NoTask EXCEPT !.kind = "join", !.st = "sleep", !.nets = {n}])
  /\ UNCHANGED <<links, events, pruned, installed, knows, roster, leaving, telling, closing, scene>>

Dialing(e) ==
  \E t \in Tasks : \/ Wake(e, t) \/ LookSlot(e, t) \/ SendHello(e, t)
                   \/ HelloFailed(e, t) \/ JoinInstall(e, t) \/ Register(e, t) \/ DialDone(e, t)

Membership(e, n) ==
  \/ Kick(e, n) \/ Evict(e, n) \/ Admit(e, n) \/ Prune(e, n) \/ Attach(e, n) \/ Leave(e, n) \/ TellLeave(e, n)
  \/ Teardown(e, n) \/ Unregister(e, n) \/ Join(e, n)

Next ==
  \E e \in Ends :
    \/ LazyDial(e) \/ Dialing(e) \/ DialFail(e) \/ HandleDisconnect(e)
    \/ \E t \in Tasks : DialTimeout(e, t)
    \/ \E n \in Nets : Membership(e, n)
    \/ \E k \in Conns : \/ DialOk(e, k) \/ Accept(e, k) \/ LaneFull(e, k) \/ Lanes(e, k)
                        \/ LoopEnd(e, k) \/ IdleClose(e, k) \/ SeeClose(k, e) \/ Lose(k, e) \/ KickClose(e, k)

Spec == Init /\ [][Next]_vars
----------------------------------------------------------------------------
\* Properties

Table == [Nets -> 0..(Cardinality(Nets) + 1)]
Views == {"none", "open", "local"} \cup Codes

\* Every variable keeps its shape; a daemon's entry exists exactly while it
\* shares a network with the peer (PeerEntry).
TypeOK ==
  /\ view \in [Conns -> [Ends -> Views]] /\ code \in [Conns -> Codes]
  /\ \A e \in Ends : /\ entry[e].conn \in Conns \cup {0}
                     /\ entry[e].out \in Table /\ entry[e].in \in Table
                     /\ (entry[e].conn = 0) <=> (Nets0(entry[e].out) = {})
                     /\ pruned[e] \subseteq Nets /\ leaving[e] \subseteq installed[e]
                     /\ closing[e] \subseteq Conns
                     /\ \A t \in Tasks : task[e][t].conn \in Conns \cup {0}
  /\ \A k \in Conns, e \in Ends : driver[k][e].st \in {"off", "on", "end"}
  /\ roster \in [Nets -> SUBSET Ends]

\* Nothing is in flight: no dial, no unread frame, no unseen close, no report.
Quiet ==
  /\ \A e \in Ends : /\ events[e] = <<>> /\ closing[e] = {} /\ leaving[e] = {}
                     /\ telling[e] = {} /\ Free(e) = Tasks
  /\ \A k \in Conns, e \in Ends :
       /\ Open(k, e) => Open(k, Other(e)) /\ Holds(e, k, 0)
       /\ driver[k][e].st = "on" => Open(k, e) /\ pipe[k][e] = <<>> /\ Drained(e, k)

\* Every roster in use is the signed one, who was removed has left, and a link
\* carries only networks whose roster lists the peer.
Converged ==
  \A e \in Ends :
    /\ Nets0(entry[e].out) \subseteq knows[e] \cap installed[e]
    /\ \A n \in Nets : IF n \in installed[e]
                       THEN n \notin left[e] /\ (n \in knows[e] <=> Other(e) \in roster[n])
                       ELSE e \notin roster[n]

\* Once nothing is in flight both daemons hold the same connection, it is open,
\* and a control loop that will report its loss runs at each end: simultaneous
\* dials, replacements and late reports never leave one end on another link
\* (install_connection, add, remove_connection).
SameLink ==
  Quiet => \A e \in Ends :
    LET k == entry[e].conn IN
    /\ entry[Other(e)].conn = k
    /\ k # 0 => Open(k, e) /\ driver[k][e].st = "on" /\ driver[k][e].reg

\* Once nothing is in flight and the rosters agree, a datagram routed by either
\* daemon is decoded by the other as sent on a network both share: the handle
\* tables, the announcements and the choice of network fit together (route,
\* announce_network_handles, apply_network_handles, resolve_inbound).
Delivered ==
  Quiet /\ Converged => \A e \in Ends :
    LET t == entry[e]
        n == route(t)
    IN  t.conn # 0 => resolve_inbound(entry[Other(e)], t.conn, t.out[n]) = n

\* Never a second dial while the first one's connection is live here: concurrent
\* joins and reconnects to one peer share it (MeshDialer::connect).
OneDial ==
  \A e \in Ends : Cardinality({k \in Conns : /\ Open(k, e) /\ driver[k][e].st = "off"
                                            /\ Holds(e, k, 0)}) <= 1
============================================================================
