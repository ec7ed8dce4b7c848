---------------------------- MODULE Reassembly ----------------------------
(* Mesh fragmentation: peers split the IP packets that do not fit a QUIC      *)
(* datagram, and the reader of each connection puts them together again out   *)
(* of what arrives: late, twice, out of order or never. Lengths are counted   *)
(* in units a few of which make a packet.                                     *)
EXTENDS Integers, Sequences, FiniteSets

CONSTANTS
  Senders,       \* the peers, one connection to this node each
  ReScenes,      \* bounds of a behaviour, see ReInit
  TagLen,        \* the network handle in front of every datagram
  Header,        \* the same and the fields of a fragment
  MaxPacket,     \* the longest packet
  MaxFragments,  \* the most fragments a packet is split into
  MaxPending,    \* incomplete packets a connection holds
  Slots,         \* incomplete packets all connections hold
  ReTimeout      \* how long an incomplete packet waits

\* Lengths are lengths.
ASSUME ReAssumption ==
  /\ TagLen \in Nat /\ Header \in Nat /\ MaxPacket \in Nat /\ Slots \in Nat /\ ReTimeout \in Nat
  /\ \A s \in ReScenes : s.lens \subseteq Nat /\ s.paths \subseteq Nat

VARIABLES
  reScene,     \* the bounds chosen for this behaviour
  reNow,       \* the clock
  nextId,      \* NEXT_ID of each sender's process
  packetsSent, \* every packet encoded so far
  datagrams,        \* the datagrams under way
  pending,     \* per connection, its Reassembler's incomplete packets
  slots,       \* what is left of the budget all readers share
  delivered,   \* the packets readers passed on, in order
  reFaults     \* duplications, reconnections and restarts so far

reVars == <<reScene, reNow, nextId, packetsSent, datagrams, pending, slots, delivered, reFaults>>

-----------------------------------------------------------------------------
\* The bytes of the n-th packet, each one told apart.
Bytes(n, len) == [i \in 1..len |-> <<n, i>>]

\* A byte of a buffer nothing was written to.
Zero == <<0, 0>>

CeilDiv(x, y) == (x + y - 1) \div y

\* wire_size: whether a packet fits, whole or in fragments.
Fits(len, max) ==
  /\ len \in 1..MaxPacket
  /\ \/ len + TagLen <= max
     \/ max > Header /\ CeilDiv(len, max - Header) <= MaxFragments

\* encode: one datagram, or fragments that share an identifier.
Encode(conn, n, len, max) ==
  LET chunk == max - Header
      frag(k) == [conn |-> conn, whole |-> FALSE, id |-> nextId[conn], total |-> len,
                  offset |-> k * chunk,
                  body |-> SubSeq(Bytes(n, len), k * chunk + 1,
                                  IF (k + 1) * chunk < len THEN (k + 1) * chunk ELSE len)]
  IN IF len + TagLen <= max
     THEN {[conn |-> conn, whole |-> TRUE, id |-> 0, total |-> len, offset |-> 0,
            body |-> Bytes(n, len)]}
     ELSE {frag(k) : k \in 0..(CeilDiv(len, chunk) - 1)}

-----------------------------------------------------------------------------
(* Reassembler *)

Nothing == [i \in {} |-> 0]

Drop(f, id) == [i \in DOMAIN f \ {id} |-> f[i]]

Fresh(total) == [packet |-> [i \in 1..total |-> Zero], covered |-> {}, received |-> 0,
                 deadline |-> reNow + ReTimeout]

\* The bytes of a fragment that were not there yet, written and counted.
Fill(part, d) ==
  LET new == {d.offset + i : i \in DOMAIN d.body} \ part.covered
  IN [part EXCEPT !.packet = [i \in DOMAIN @ |-> IF i \in new THEN d.body[i - d.offset] ELSE @[i]],
                  !.covered = @ \cup new,
                  !.received = @ + Cardinality(new)]

Conflicts(part, d) ==
  \/ Len(part.packet) # d.total
  \/ \E i \in DOMAIN d.body : d.offset + i \in part.covered /\ part.packet[d.offset + i] # d.body[i]

\* A mutant: the packet that gives up its room does not pass its reservation on.
Reserve_leaks(held) ==
  LET oldest == CHOOSE i \in DOMAIN held : \A j \in DOMAIN held : held[i].deadline <= held[j].deadline
  IN IF Cardinality(DOMAIN held) < MaxPending /\ slots > 0
     THEN [ok |-> TRUE, held |-> held, cost |-> 1]
     ELSE IF DOMAIN held = {} THEN [ok |-> FALSE, held |-> held, cost |-> 0]
     ELSE [ok |-> TRUE, held |-> Drop(held, oldest), cost |-> 1]

\* reserve: room for one more incomplete packet, at a limit that of the oldest
\* of this connection, whose reservation passes on.
Reserve(held) ==
  LET oldest == CHOOSE i \in DOMAIN held : \A j \in DOMAIN held : held[i].deadline <= held[j].deadline
  IN IF Cardinality(DOMAIN held) < MaxPending /\ slots > 0
     THEN [ok |-> TRUE, held |-> held, cost |-> 1]
     ELSE IF DOMAIN held = {} THEN [ok |-> FALSE, held |-> held, cost |-> 0]
     ELSE [ok |-> TRUE, held |-> Drop(held, oldest), cost |-> 0]

\* accept on a fragment: what the reader holds afterwards, what it takes from
\* (or gives back to) the budget, and the packet that became complete.
Accept(held, d) ==
  LET no(h, cost) == [held |-> h, cost |-> cost, out |-> <<>>]
      room == IF d.id \in DOMAIN held THEN [ok |-> TRUE, held |-> held, cost |-> 0] ELSE Reserve(held)
      part == IF d.id \in DOMAIN held THEN held[d.id] ELSE Fresh(d.total)
      next == Fill(part, d)
  IN IF d.id \in DOMAIN held /\ reNow >= held[d.id].deadline THEN no(Drop(held, d.id), -1)
     ELSE IF ~room.ok THEN no(held, 0)
     ELSE IF Conflicts(part, d) THEN no(Drop(room.held, d.id), room.cost - 1)
     ELSE IF next.received = d.total
          THEN [held |-> Drop(room.held, d.id), cost |-> room.cost - 1, out |-> next.packet]
     ELSE no([i \in DOMAIN room.held \cup {d.id} |-> IF i = d.id THEN next ELSE room.held[i]],
             room.cost)

-----------------------------------------------------------------------------
ReInit ==
  /\ reScene \in ReScenes
  /\ reNow = 0
  /\ nextId = [c \in Senders |-> 0]
  /\ packetsSent = <<>>
  /\ datagrams = {}
  /\ pending = [c \in Senders |-> Nothing]
  /\ slots = Slots
  /\ delivered = <<>>
  /\ reFaults = 0

\* prepare_datagrams: a packet is encoded for the path as it is now and handed
\* to QUIC; one that does not fit is dropped.
SendPacket(c, len, max) ==
  /\ Len(packetsSent) < reScene.packets
  /\ Fits(len, max)
  /\ datagrams' = datagrams \cup Encode(c, Len(packetsSent) + 1, len, max)
  /\ nextId' = IF len + TagLen <= max THEN nextId ELSE [nextId EXCEPT ![c] = @ + 1]
  /\ packetsSent' = Append(packetsSent, [conn |-> c, body |-> Bytes(Len(packetsSent) + 1, len)])
  /\ UNCHANGED <<reScene, reNow, pending, slots, delivered, reFaults>>

\* The reader takes a datagram, which may arrive a second time.
ReadDatagram(d, again) ==
  /\ again => reFaults < reScene.faults
  /\ reFaults' = reFaults + (IF again THEN 1 ELSE 0)
  /\ datagrams' = IF again THEN datagrams ELSE datagrams \ {d}
  /\ LET a == IF d.whole THEN [held |-> pending[d.conn], cost |-> 0, out |-> d.body]
              ELSE Accept(pending[d.conn], d)
     IN /\ pending' = [pending EXCEPT ![d.conn] = a.held]
        /\ slots' = slots - a.cost
        /\ delivered' = IF a.out = <<>> THEN delivered
                        ELSE Append(delivered, [conn |-> d.conn, body |-> a.out])
  /\ UNCHANGED <<reScene, reNow, nextId, packetsSent>>

\* expire: the reader's timer.
Expire(c) ==
  LET late == {i \in DOMAIN pending[c] : reNow >= pending[c][i].deadline}
  IN /\ late # {}
     /\ pending' = [pending EXCEPT ![c] = [i \in DOMAIN @ \ late |-> @[i]]]
     /\ slots' = slots + Cardinality(late)
     /\ UNCHANGED <<reScene, reNow, nextId, packetsSent, datagrams, delivered, reFaults>>

\* A mutant: the reader of a new connection goes on with what the old one held.
Reconnect_keeps(c, restarted) ==
  /\ reFaults < reScene.faults
  /\ reFaults' = reFaults + 1
  /\ datagrams' = {d \in datagrams : d.conn # c}
  /\ nextId' = IF restarted THEN [nextId EXCEPT ![c] = 0] ELSE nextId
  /\ UNCHANGED <<reScene, reNow, packetsSent, delivered, pending, slots>>

\* The connection is replaced, also because the sender restarted and counts
\* from zero again: its datagrams are gone and its reader drops what it held.
Reconnect(c, restarted) ==
  /\ reFaults < reScene.faults
  /\ reFaults' = reFaults + 1
  /\ datagrams' = {d \in datagrams : d.conn # c}
  /\ nextId' = IF restarted THEN [nextId EXCEPT ![c] = 0] ELSE nextId
  /\ pending' = [pending EXCEPT ![c] = Nothing]
  /\ slots' = slots + Cardinality(DOMAIN pending[c])
  /\ UNCHANGED <<reScene, reNow, packetsSent, delivered>>

\* Time passes.
ReTick ==
  /\ reNow < reScene.clock
  /\ reNow' = reNow + 1
  /\ UNCHANGED <<reScene, nextId, packetsSent, datagrams, pending, slots, delivered, reFaults>>

ReNext ==
  \/ \E c \in Senders, len \in reScene.lens, max \in reScene.paths : SendPacket(c, len, max)
  \/ \E d \in datagrams, again \in BOOLEAN : ReadDatagram(d, again)
  \/ \E c \in Senders : Expire(c)
  \/ \E c \in Senders, restarted \in BOOLEAN : Reconnect(c, restarted)
  \/ ReTick

ReSpec == ReInit /\ [][ReNext]_reVars

-----------------------------------------------------------------------------
\* Readers hold what their limits allow, and every incomplete packet counts the
\* bytes it has.
ReTypeOK ==
  \A c \in Senders :
       /\ Cardinality(DOMAIN pending[c]) <= MaxPending
       /\ \A i \in DOMAIN pending[c] :
            /\ pending[c][i].received = Cardinality(pending[c][i].covered)
            /\ pending[c][i].received < Len(pending[c][i].packet)

\* Only complete packets reach policy or the TUN: whatever is lost, duplicated,
\* reordered, evicted or left over from an earlier connection or process of the
\* sender, Reassembler::accept passes on nothing but packets that peer sent,
\* byte for byte.
OnlyWholePackets ==
  \A i \in DOMAIN delivered : delivered[i] \in {packetsSent[j] : j \in DOMAIN packetsSent}

\* The budget all readers share is neither lost nor spent twice, through
\* evictions, time-outs, conflicts and connections that end: what is free and
\* what the readers hold is the whole of it.
SlotsConserved ==
  slots + Cardinality(UNION {{c} \X DOMAIN pending[c] : c \in Senders}) = Slots
=============================================================================
