------------------------- MODULE ReassemblyProofs -------------------------
(***************************************************************************)
(* Reassembly, for any senders, scenes and limits: only whole packets are  *)
(* delivered, and the budget of incomplete packets is conserved.           *)
(***************************************************************************)
EXTENDS Reassembly, FiniteSetTheorems, SequenceTheorems, TLAPS

\* Most steps are first-order; the ones that need arithmetic or sequences cite SMT.
USE ZenonT(30)

-----------------------------------------------------------------------------
(* Reassembly. Whatever is under way or pending under one identifier of one   *)
(* connection belongs to one packet, and what was written of it is right.     *)

\* A sequence, whatever its elements.
IsSeq(s) == s \in Seq({s[i] : i \in DOMAIN s})

LEMMA OwnSeq ==
  ASSUME NEW S, NEW s \in Seq(S) PROVE IsSeq(s)
BY SMTT(30) DEF IsSeq

LEMMA SeqLen ==
  ASSUME NEW s, IsSeq(s) PROVE Len(s) \in Nat /\ DOMAIN s = 1..Len(s)
BY SMTT(30) DEF IsSeq

\* What is left of a sequence without its first n elements.
LEMMA Rest ==
  ASSUME NEW s, IsSeq(s), NEW n \in Nat,
         NEW t, t = SubSeq(s, n + 1, Len(s))
  PROVE  /\ IsSeq(t)
         /\ \A i \in 1..Len(t) : i + n \in 1..Len(s) /\ t[i] = s[i + n]
         /\ \A j \in 1..Len(s) : j > n => j - n \in 1..Len(t)
<1> DEFINE S == {s[i] : i \in DOMAIN s}
<1>1. Len(s) \in Nat /\ DOMAIN s = 1..Len(s)
  BY SeqLen
<1>2. \A i \in (n + 1)..Len(s) : s[i] \in S
  BY SMTT(30), <1>1
<1>3. /\ t \in Seq(S)
      /\ Len(t) = IF n + 1 <= Len(s) THEN Len(s) - n ELSE 0
      /\ \A i \in 1..(Len(s) - n) : t[i] = s[n + i]
  <2> HIDE DEF S
  <2>1. /\ SubSeq(s, n + 1, Len(s)) \in Seq(S)
        /\ Len(SubSeq(s, n + 1, Len(s))) = IF n + 1 <= Len(s) THEN Len(s) - (n + 1) + 1 ELSE 0
        /\ \A i \in 1..(Len(s) - (n + 1) + 1) : SubSeq(s, n + 1, Len(s))[i] = s[(n + 1) + i - 1]
    BY SMTT(30), <1>1, <1>2, SubSeqProperties
  <2> QED BY SMTT(30), <1>1, <2>1
<1>4. IsSeq(t)
  <2> HIDE DEF S
  <2> QED BY <1>3, OwnSeq
<1> QED BY SMTT(30), <1>1, <1>3, <1>4

\* A sequence and one element more.
LEMMA Longer ==
  ASSUME NEW s, IsSeq(s), NEW x, NEW t, t = Append(s, x)
  PROVE  /\ IsSeq(t)
         /\ Len(s) \in Nat /\ Len(t) = Len(s) + 1
         /\ \A i \in 1..Len(s) : t[i] = s[i]
         /\ t[Len(s) + 1] = x
<1> DEFINE S == {s[i] : i \in DOMAIN s} \cup {x}
<1>1. s \in Seq(S) /\ x \in S /\ Len(s) \in Nat
  BY SMTT(30), SeqLen DEF IsSeq
<1>2. /\ t \in Seq(S) /\ Len(t) = Len(s) + 1
      /\ \A i \in 1..Len(s) : t[i] = s[i]
      /\ t[Len(s) + 1] = x
  <2> HIDE DEF S
  <2> QED BY SMTT(30), <1>1, AppendProperties
<1>3. IsSeq(t)
  BY <1>2, OwnSeq
<1> QED BY <1>1, <1>2, <1>3

\* Indices of a sequence of length n and of one that is longer by one.
LEMMA Indices ==
  ASSUME NEW n \in Nat
  PROVE  /\ \A i \in 1..(n + 1) : i \in 1..n \/ i = n + 1
         /\ \A i \in 1..n : \A j \in 1..(i - 1) : j \in 1..n
         /\ \A i \in 1..n : i \in 1..((n + 1) - 1)
BY SMTT(30)

\* The n-th packet was sent on connection c and is len long.
Sent(c, n, len) ==
  /\ n \in 1..Len(packetsSent) /\ len \in Nat
  /\ packetsSent[n] = [conn |-> c, body |-> Bytes(n, len)]

\* A fragment of the n-th packet.
FragmentOf(d, n) ==
  /\ Sent(d.conn, n, d.total)
  /\ d.offset \in Nat /\ IsSeq(d.body)
  /\ \A i \in DOMAIN d.body : d.offset + i \in 1..d.total /\ d.body[i] = <<n, d.offset + i>>

\* An incomplete packet that holds bytes of the n-th packet and counts them.
PartOf(part, c, n) ==
  /\ Sent(c, n, Len(part.packet))
  /\ IsSeq(part.packet)
  /\ DOMAIN part = {"packet", "covered", "received", "deadline"}
  /\ part.covered \subseteq 1..Len(part.packet)
  /\ part.received = Cardinality(part.covered)
  /\ \A i \in part.covered : part.packet[i] = <<n, i>>

\* An identifier names one packet of its connection.
Owned(c, id) ==
  \E n \in Nat :
    /\ \A d \in datagrams : ~d.whole /\ d.conn = c /\ d.id = id => FragmentOf(d, n)
    /\ id \in DOMAIN pending[c] => PartOf(pending[c][id], c, n)

UnderWay ==
  /\ reScene \in ReScenes
  /\ nextId \in [Senders -> Nat]
  /\ IsSeq(packetsSent)
  /\ DOMAIN pending = Senders
  /\ \A c \in Senders : \A id \in DOMAIN pending[c] : id \in Nat /\ id < nextId[c]
  /\ \A d \in datagrams : d.conn \in Senders
  /\ \A d \in datagrams : d.whole => \E n \in Nat : Sent(d.conn, n, d.total) /\ d.body = Bytes(n, d.total)
  /\ \A d \in datagrams : ~d.whole => d.id \in Nat /\ d.id < nextId[d.conn]
  /\ \A c \in Senders : \A id \in Nat : Owned(c, id)

ReInv == UnderWay /\ IsSeq(delivered) /\ OnlyWholePackets

\* A function on 1..len is a sequence of that length.
LEMMA FcnSeq ==
  ASSUME NEW len \in Nat, NEW f, f = [i \in 1..len |-> f[i]]
  PROVE  IsSeq(f) /\ Len(f) = len /\ DOMAIN f = 1..len
<1>1. f \in [1..len -> {f[i] : i \in 1..len}]
  OBVIOUS
<1>2. f \in Seq({f[i] : i \in 1..len}) /\ Len(f) = len /\ DOMAIN f = 1..len
  BY SMTT(30), <1>1
<1> QED BY <1>2, OwnSeq

\* The bytes of a packet are a sequence.
LEMMA BytesSeq ==
  ASSUME NEW n, NEW len \in Nat
  PROVE  /\ IsSeq(Bytes(n, len)) /\ Len(Bytes(n, len)) = len
         /\ \A i \in 1..len : Bytes(n, len)[i] = <<n, i>>
<1>1. Bytes(n, len) = [i \in 1..len |-> Bytes(n, len)[i]]
  BY DEF Bytes
<1>2. \A i \in 1..len : Bytes(n, len)[i] = <<n, i>>
  BY DEF Bytes
<1> QED BY <1>1, <1>2, FcnSeq

\* Fill adds bytes of the packet the fragment is of, and when every byte is
\* there the buffer is that packet.
LEMMA FillPart ==
  ASSUME NEW part, NEW c, NEW n, PartOf(part, c, n), NEW d, FragmentOf(d, n), d.conn = c
  PROVE  /\ PartOf(Fill(part, d), c, n)
         /\ Fill(part, d).received = d.total =>
              packetsSent[n] = [conn |-> c, body |-> Fill(part, d).packet]
<1> DEFINE L == Len(part.packet)
           new == {d.offset + i : i \in DOMAIN d.body} \ part.covered
           buf == [i \in DOMAIN part.packet |-> IF i \in new THEN d.body[i - d.offset] ELSE part.packet[i]]
           f == Fill(part, d)
<1>1. L \in Nat /\ DOMAIN part.packet = 1..L /\ d.total = L
  <2>1. IsSeq(part.packet) /\ Sent(c, n, L) /\ Sent(c, n, d.total)
    BY DEF PartOf, FragmentOf
  <2>2. Bytes(n, L) = Bytes(n, d.total)
    BY SMTT(30), <2>1 DEF Sent
  <2>3. L \in Nat /\ d.total \in Nat
    BY <2>1 DEF Sent
  <2>4. L = d.total
    BY SMTT(30), <2>2, <2>3, BytesSeq
  <2> QED BY <2>1, <2>3, <2>4, SeqLen
<1>2. /\ f.packet = buf /\ f.covered = part.covered \cup new
      /\ f.received = part.received + Cardinality(new)
      /\ DOMAIN f = {"packet", "covered", "received", "deadline"}
  BY DEF Fill, PartOf
<1>3. /\ new \subseteq 1..L /\ part.covered \subseteq 1..L
      /\ \A j \in new : d.body[j - d.offset] = <<n, j>>
  <2>1. d.offset \in Nat /\ DOMAIN d.body \subseteq Int
    BY SMTT(30), SeqLen DEF FragmentOf
  <2>2. \A i \in DOMAIN d.body : d.offset + i \in 1..d.total /\ d.body[i] = <<n, d.offset + i>>
    BY DEF FragmentOf
  <2>3. \A i \in DOMAIN d.body : (d.offset + i) - d.offset = i
    BY SMTT(30), <2>1
  <2> QED BY <1>1, <2>2, <2>3 DEF PartOf
<1>4. /\ IsFiniteSet(1..L) /\ Cardinality(1..L) = L
      /\ IsFiniteSet(part.covered) /\ IsFiniteSet(new)
  <2>1. IsFiniteSet(1..L) /\ Cardinality(1..L) = L
    BY SMTT(30), <1>1, FS_Interval
  <2>2. part.covered \in SUBSET (1..L) /\ new \in SUBSET (1..L)
    BY <1>3
  <2> HIDE DEF new, L
  <2> QED BY <2>1, <2>2, FS_Subset
<1>5. Cardinality(part.covered \cup new) = Cardinality(part.covered) + Cardinality(new)
  <2>1. part.covered \cap new = {}
    OBVIOUS
  <2>2. Cardinality(part.covered) \in Nat /\ Cardinality(new) \in Nat
    BY <1>4, FS_CardinalityType
  <2> HIDE DEF new
  <2>3. Cardinality(part.covered \cup new)
          = Cardinality(part.covered) + Cardinality(new) - Cardinality(part.covered \cap new)
    BY <1>4, FS_Union
  <2>4. Cardinality(part.covered \cap new) = 0
    BY <2>1, FS_EmptySet
  <2> QED BY SMTT(30), <2>2, <2>3, <2>4
<1>6. IsSeq(buf) /\ Len(buf) = L /\ DOMAIN buf = 1..L
  <2>1. buf = [i \in 1..L |-> buf[i]]
    BY <1>1
  <2> HIDE DEF buf
  <2> QED BY <1>1, <2>1, FcnSeq
<1>7. \A i \in part.covered \cup new : buf[i] = <<n, i>>
  BY <1>1, <1>3 DEF PartOf
<1>8. Sent(c, n, L) /\ part.received = Cardinality(part.covered)
  BY DEF PartOf
<1>9. packetsSent[n] = [conn |-> c, body |-> Bytes(n, L)]
  BY <1>8 DEF Sent
<1> HIDE DEF new, buf, L, f
<1>10. PartOf(f, c, n)
  <2>1. Len(f.packet) = L /\ IsSeq(f.packet)
    BY <1>2, <1>6
  <2>2. f.covered \subseteq 1..L /\ f.received = Cardinality(f.covered)
    BY <1>2, <1>3, <1>5, <1>8
  <2>3. \A i \in f.covered : f.packet[i] = <<n, i>>
    BY <1>2, <1>7
  <2> QED BY <1>2, <1>8, <2>1, <2>2, <2>3 DEF PartOf
<1>11. f.received = d.total => packetsSent[n] = [conn |-> c, body |-> f.packet]
  <2> SUFFICES ASSUME f.received = d.total PROVE f.packet = Bytes(n, L)
    BY <1>9
  <2>1. Cardinality(part.covered \cup new) = L /\ part.covered \cup new \in SUBSET (1..L)
    BY <1>1, <1>2, <1>3, <1>5, <1>8
  <2>2. part.covered \cup new = 1..L
    BY <1>4, <2>1, FS_Subset
  <2>3. buf = [i \in 1..L |-> <<n, i>>]
    <3>1. buf = [i \in 1..L |-> buf[i]]
      BY <1>1 DEF buf, L
    <3> QED BY <1>7, <2>2, <3>1
  <2> QED BY <1>2, <2>3 DEF Bytes
<1> QED BY <1>10, <1>11 DEF f

\* What accept leaves pending was pending or is the packet of the fragment, and
\* what it passes on is complete.
LEMMA AcceptHolds ==
  ASSUME NEW held, NEW d,
         NEW part, part = IF d.id \in DOMAIN held THEN held[d.id] ELSE Fresh(d.total)
  PROVE  /\ \A i \in DOMAIN Accept(held, d).held :
              \/ i \in DOMAIN held /\ Accept(held, d).held[i] = held[i]
              \/ i = d.id /\ Accept(held, d).held[i] = Fill(part, d)
         /\ \/ Accept(held, d).out = <<>>
            \/ /\ Fill(part, d).received = d.total
               /\ Accept(held, d).out = Fill(part, d).packet
<1> DEFINE room == IF d.id \in DOMAIN held THEN [ok |-> TRUE, held |-> held, cost |-> 0] ELSE Reserve(held)
           next == Fill(part, d)
           no(h, cost) == [held |-> h, cost |-> cost, out |-> <<>>]
           a == Accept(held, d)
<1>1. /\ DOMAIN room.held \subseteq DOMAIN held
      /\ \A i \in DOMAIN room.held : room.held[i] = held[i]
  <2>1. /\ DOMAIN Reserve(held).held \subseteq DOMAIN held
        /\ \A i \in DOMAIN Reserve(held).held : Reserve(held).held[i] = held[i]
    <3> DEFINE oldest == CHOOSE i \in DOMAIN held : \A j \in DOMAIN held : held[i].deadline <= held[j].deadline
    <3>1. Reserve(held).held = held \/ Reserve(held).held = Drop(held, oldest)
      BY DEF Reserve
    <3> HIDE DEF oldest
    <3> QED BY <3>1 DEF Drop
  <2> QED BY <2>1
<1>2. \/ a = no(Drop(held, d.id), -1)
      \/ a = no(held, 0)
      \/ a = no(Drop(room.held, d.id), room.cost - 1)
      \/ next.received = d.total /\ a = [held |-> Drop(room.held, d.id), cost |-> room.cost - 1, out |-> next.packet]
      \/ a = no([i \in DOMAIN room.held \cup {d.id} |-> IF i = d.id THEN next ELSE room.held[i]], room.cost)
  BY DEF Accept
<1> HIDE DEF room, next
<1>3. \/ a.out = <<>>
      \/ next.received = d.total /\ a.out = next.packet
  BY SMTT(30), <1>2
<1>4. \/ a.held = Drop(held, d.id) \/ a.held = held \/ a.held = Drop(room.held, d.id)
      \/ a.held = [i \in DOMAIN room.held \cup {d.id} |-> IF i = d.id THEN next ELSE room.held[i]]
  BY SMTT(30), <1>2
<1> HIDE DEF a
<1>5. \A i \in DOMAIN a.held : (i \in DOMAIN held /\ a.held[i] = held[i]) \/ (i = d.id /\ a.held[i] = next)
  BY <1>1, <1>4 DEF Drop
<1> QED BY <1>3, <1>5 DEF a, next

\* Packets that were sent stay sent.
LEMMA StillSent ==
  ASSUME IsSeq(packetsSent), IsSeq(packetsSent'), Len(packetsSent) <= Len(packetsSent'),
         \A i \in 1..Len(packetsSent) : packetsSent'[i] = packetsSent[i]
  PROVE  /\ \A c, n, len : Sent(c, n, len) => Sent(c, n, len)'
         /\ \A d, n : FragmentOf(d, n) => FragmentOf(d, n)'
         /\ \A part, c, n : PartOf(part, c, n) => PartOf(part, c, n)'
<1>1. Len(packetsSent) \in Nat /\ Len(packetsSent') \in Nat
  BY SeqLen
<1>2. \A c, n, len : Sent(c, n, len) => Sent(c, n, len)'
  BY SMTT(30), <1>1 DEF Sent, Bytes
<1> QED BY <1>2 DEF FragmentOf, PartOf, IsSeq

\* A fresh buffer holds nothing of the packet.
LEMMA FreshPart ==
  ASSUME NEW d, NEW n, FragmentOf(d, n)
  PROVE  PartOf(Fresh(d.total), d.conn, n)
<1> DEFINE f == Fresh(d.total)
<1>1. Sent(d.conn, n, d.total) /\ d.total \in Nat
  BY DEF FragmentOf, Sent
<1>2. /\ f.packet = [i \in 1..d.total |-> Zero] /\ f.covered = {} /\ f.received = 0
      /\ DOMAIN f = {"packet", "covered", "received", "deadline"}
  BY DEF Fresh
<1>3. IsSeq(f.packet) /\ Len(f.packet) = d.total
  <2>1. f.packet = [i \in 1..d.total |-> f.packet[i]]
    BY <1>2
  <2> HIDE DEF f
  <2> QED BY <1>1, <2>1, FcnSeq
<1> HIDE DEF f
<1> QED BY <1>1, <1>2, <1>3, FS_EmptySet DEF PartOf, f

\* Datagrams that are lost or read and packets that are given up change nothing
\* about the rest.
LEMMA LessUnderWay ==
  ASSUME UnderWay, UNCHANGED <<reScene, nextId, packetsSent>>,
         datagrams' \subseteq datagrams, DOMAIN pending' = Senders,
         \A c \in Senders : \A id \in DOMAIN pending'[c] :
           id \in DOMAIN pending[c] /\ pending'[c][id] = pending[c][id]
  PROVE  UnderWay'
<1>1. ASSUME NEW c \in Senders, NEW id \in Nat PROVE Owned(c, id)'
  <2> PICK n \in Nat :
        /\ \A d \in datagrams : ~d.whole /\ d.conn = c /\ d.id = id => FragmentOf(d, n)
        /\ id \in DOMAIN pending[c] => PartOf(pending[c][id], c, n)
    BY DEF UnderWay, Owned
  <2>1. \A d \in datagrams' : ~d.whole /\ d.conn = c /\ d.id = id => FragmentOf(d, n)'
    BY DEF FragmentOf, Sent
  <2>2. id \in DOMAIN pending'[c] => PartOf(pending[c][id], c, n)'
    BY DEF PartOf, Sent
  <2> QED BY <2>1, <2>2 DEF Owned
<1>2. /\ \A c \in Senders : \A id \in DOMAIN pending'[c] : id \in Nat /\ id < nextId'[c]
      /\ \A d \in datagrams' : d.conn \in Senders
      /\ \A d \in datagrams' : ~d.whole => d.id \in Nat /\ d.id < nextId'[d.conn]
  BY DEF UnderWay
<1>3. \A d \in datagrams' : d.whole => \E n \in Nat : Sent(d.conn, n, d.total)' /\ d.body = Bytes(n, d.total)
  BY DEF UnderWay, Sent
<1>4. reScene' \in ReScenes /\ nextId' \in [Senders -> Nat] /\ IsSeq(packetsSent')
  BY DEF UnderWay
<1> QED BY <1>1, <1>2, <1>3, <1>4 DEF UnderWay

\* Passing on a packet that was sent.
LEMMA PassOn ==
  ASSUME IsSeq(delivered), OnlyWholePackets, packetsSent' = packetsSent, IsSeq(packetsSent), NEW n \in 1..Len(packetsSent),
         delivered' = Append(delivered, packetsSent[n])
  PROVE  IsSeq(delivered') /\ OnlyWholePackets'
<1>1. IsSeq(delivered')
  BY Longer
<1>2. Len(delivered') = Len(delivered) + 1 /\ Len(delivered) \in Nat
  BY Longer
<1>3. \A i \in 1..Len(delivered) : delivered'[i] = delivered[i]
  BY SMTT(30), Longer
<1>4. delivered'[Len(delivered) + 1] = packetsSent[n]
  BY Longer
<1>5. DOMAIN delivered = 1..Len(delivered) /\ DOMAIN delivered' = 1..(Len(delivered) + 1) /\ n \in DOMAIN packetsSent
  BY <1>1, <1>2, SeqLen
<1>6. ASSUME NEW i \in DOMAIN delivered'
      PROVE  delivered'[i] \in {packetsSent[j] : j \in DOMAIN packetsSent}
  <2>1. i \in 1..Len(delivered) \/ i = Len(delivered) + 1
    BY <1>2, <1>5, Indices
  <2> QED BY <1>3, <1>4, <1>5, <2>1 DEF OnlyWholePackets
<1> QED BY <1>1, <1>6 DEF OnlyWholePackets

\* ReadDatagram on a whole packet and on a fragment.
LEMMA ReadKeeps ==
  ASSUME ReInv, NEW d \in datagrams, NEW again \in BOOLEAN, ReadDatagram(d, again)
  PROVE  ReInv'
<1> DEFINE c == d.conn
           held == pending[c]
           part == IF d.id \in DOMAIN held THEN held[d.id] ELSE Fresh(d.total)
           a == Accept(held, d)
           next == Fill(part, d)
<1>1. UnderWay /\ c \in Senders /\ DOMAIN pending = Senders /\ IsSeq(packetsSent) /\ IsSeq(delivered) /\ OnlyWholePackets
  BY DEF ReInv, UnderWay
<1>2. UNCHANGED <<reScene, nextId, packetsSent>> /\ datagrams' \subseteq datagrams
  BY DEF ReadDatagram
<1>3. CASE d.whole
  <2>1. DOMAIN pending' = Senders /\ \A b \in Senders : pending'[b] = pending[b]
    <3>1. pending' = [pending EXCEPT ![c] = held]
      BY <1>3 DEF ReadDatagram
    <3> QED BY <1>1, <3>1
  <2>2. UnderWay'
    BY <1>1, <1>2, <2>1, LessUnderWay
  <2> PICK n \in Nat : Sent(c, n, d.total) /\ d.body = Bytes(n, d.total)
    BY <1>1, <1>3 DEF UnderWay
  <2>3. n \in 1..Len(packetsSent) /\ packetsSent[n] = [conn |-> c, body |-> d.body]
    BY DEF Sent
  <2>4. delivered' = delivered \/ delivered' = Append(delivered, packetsSent[n])
    BY <1>3, <2>3 DEF ReadDatagram
  <2>5. IsSeq(delivered') /\ OnlyWholePackets'
    BY <1>1, <1>2, <2>3, <2>4, PassOn DEF OnlyWholePackets
  <2> QED BY <2>2, <2>5 DEF ReInv
<1>4. CASE ~d.whole
  <2>1. /\ pending' = [pending EXCEPT ![c] = a.held]
        /\ delivered' = IF a.out = <<>> THEN delivered ELSE Append(delivered, [conn |-> c, body |-> a.out])
    BY <1>4 DEF ReadDatagram
  <2>2. /\ \A i \in DOMAIN a.held : (i \in DOMAIN held /\ a.held[i] = held[i]) \/ (i = d.id /\ a.held[i] = next)
        /\ a.out = <<>> \/ (next.received = d.total /\ a.out = next.packet)
    BY SMTT(30), AcceptHolds
  <2>3. d.id \in Nat /\ d.id < nextId[c]
    BY <1>4 DEF ReInv, UnderWay
  <2> PICK n \in Nat :
        /\ \A e \in datagrams : ~e.whole /\ e.conn = c /\ e.id = d.id => FragmentOf(e, n)
        /\ d.id \in DOMAIN pending[c] => PartOf(pending[c][d.id], c, n)
    BY <1>1, <2>3 DEF UnderWay, Owned
  <2>4. FragmentOf(d, n) /\ PartOf(part, c, n)
    BY <1>4, FreshPart
  <2>5. /\ PartOf(next, c, n)
        /\ next.received = d.total => packetsSent[n] = [conn |-> c, body |-> next.packet]
    <3> HIDE DEF part
    <3> QED BY SMTT(30), <2>4, FillPart
  <2>6. n \in 1..Len(packetsSent)
    BY <2>4 DEF FragmentOf, Sent
  <2> HIDE DEF a, next, part
  <2>7. delivered' = delivered \/ delivered' = Append(delivered, packetsSent[n])
    BY <2>1, <2>2, <2>5
  <2>8. IsSeq(delivered') /\ OnlyWholePackets'
    BY <1>1, <1>2, <2>6, <2>7, PassOn DEF OnlyWholePackets
  <2>9. /\ DOMAIN pending' = Senders /\ pending'[c] = a.held
        /\ \A b \in Senders : b # c => pending'[b] = pending[b]
    BY <1>1, <2>1
  <2>10. \A b \in Senders : \A id \in DOMAIN pending'[b] : id \in Nat /\ id < nextId[b]
    BY <2>2, <2>3, <2>9 DEF ReInv, UnderWay
  <2>11. ASSUME NEW b \in Senders, NEW id \in Nat PROVE Owned(b, id)'
    <3> PICK m \in Nat :
          /\ \A e \in datagrams : ~e.whole /\ e.conn = b /\ e.id = id => FragmentOf(e, m)
          /\ id \in DOMAIN pending[b] => PartOf(pending[b][id], b, m)
          /\ b = c /\ id = d.id => m = n
      <4>1. CASE b = c /\ id = d.id
        BY <4>1
      <4>2. CASE ~(b = c /\ id = d.id)
        BY <1>1, <4>2 DEF UnderWay, Owned
      <4> QED BY <4>1, <4>2
    <3>1. \A e \in datagrams' : ~e.whole /\ e.conn = b /\ e.id = id => FragmentOf(e, m)'
      BY <1>2 DEF FragmentOf, Sent
    <3>2. id \in DOMAIN pending'[b] => PartOf(pending'[b][id], b, m)
      BY <2>2, <2>5, <2>9
    <3>3. id \in DOMAIN pending'[b] => PartOf(pending[b][id], b, m)'
      BY <1>2, <3>2 DEF PartOf, Sent
    <3> QED BY <3>1, <3>3 DEF Owned
  <2>12. \A e \in datagrams' : e.whole => \E m \in Nat : Sent(e.conn, m, e.total)' /\ e.body = Bytes(m, e.total)
    BY <1>1, <1>2 DEF UnderWay, Sent
  <2>13. /\ reScene' \in ReScenes /\ nextId' \in [Senders -> Nat] /\ IsSeq(packetsSent')
         /\ \A e \in datagrams' : e.conn \in Senders
         /\ \A e \in datagrams' : ~e.whole => e.id \in Nat /\ e.id < nextId'[e.conn]
         /\ \A b \in Senders : \A id \in DOMAIN pending'[b] : id \in Nat /\ id < nextId'[b]
    BY <1>1, <1>2, <2>10 DEF UnderWay
  <2>14. UnderWay'
    BY <2>9, <2>11, <2>12, <2>13 DEF UnderWay
  <2> QED BY <2>8, <2>14 DEF ReInv
<1> QED BY <1>3, <1>4

\* The bytes of the n-th packet behind from, up to the one at to.
Piece(n, len, from, to) == SubSeq(Bytes(n, len), from + 1, to)

\* A fragment carries the bytes its offset says, and only bytes of its packet.
LEMMA Chunk ==
  ASSUME NEW n, NEW len \in Nat, NEW from \in Nat, NEW to \in Int, to <= len,
         NEW body, body = Piece(n, len, from, to)
  PROVE  /\ IsSeq(body)
         /\ \A i \in DOMAIN body : from + i \in 1..len /\ body[i] = <<n, from + i>>
<1> DEFINE s == Bytes(n, len)
           S == {<<n, i>> : i \in 1..len}
<1>1. \A i \in (from + 1)..to : i \in 1..len /\ s[i] = <<n, i>> /\ s[i] \in S
  <2> SUFFICES ASSUME NEW i \in (from + 1)..to PROVE i \in 1..len /\ s[i] = <<n, i>> /\ s[i] \in S
    OBVIOUS
  <2>1. i \in 1..len
    BY SMTT(30)
  <2>2. s[i] = <<n, i>>
    BY <2>1, BytesSeq
  <2> QED BY <2>1, <2>2
<1> HIDE DEF s
<1>2. body = SubSeq(s, from + 1, to)
  BY DEF s, Piece
<1>3. /\ SubSeq(s, from + 1, to) \in Seq(S)
      /\ Len(SubSeq(s, from + 1, to)) = IF from + 1 <= to THEN to - (from + 1) + 1 ELSE 0
      /\ \A i \in 1..(to - (from + 1) + 1) : SubSeq(s, from + 1, to)[i] = s[(from + 1) + i - 1]
  <2>1. \A i \in (from + 1)..to : s[i] \in S
    BY <1>1
  <2> HIDE DEF S
  <2> QED BY SMTT(30), <2>1, SubSeqProperties
<1>4. IsSeq(body)
  <2> HIDE DEF S
  <2> QED BY <1>2, <1>3, OwnSeq
<1>5. ASSUME NEW i \in DOMAIN body PROVE from + i \in 1..len /\ body[i] = <<n, from + i>>
  <2>1. i \in 1..Len(body) /\ Len(body) \in Nat
    BY <1>4, SeqLen
  <2>2. i \in 1..(to - (from + 1) + 1) /\ (from + 1) + i - 1 = from + i /\ from + i \in (from + 1)..to
    BY SMTT(30), <1>2, <1>3, <2>1
  <2>3. body[i] = s[from + i]
    BY <1>2, <1>3, <2>2
  <2> QED BY <1>1, <2>2, <2>3
<1> QED BY <1>4, <1>5

\* encode: a whole packet, or fragments of it under the next identifier.
LEMMA EncodeBytes ==
  ASSUME NEW c, NEW n, NEW len \in Nat, NEW max \in Nat, Fits(len, max), NEW d \in Encode(c, n, len, max)
  PROVE  /\ d.conn = c /\ d.total = len
         /\ d.whole => d.body = Bytes(n, len)
         /\ ~d.whole => /\ len + TagLen > max /\ d.id = nextId[c]
                        /\ d.offset \in Nat /\ IsSeq(d.body)
                        /\ \A i \in DOMAIN d.body : d.offset + i \in 1..d.total /\ d.body[i] = <<n, d.offset + i>>
<1>1. CASE len + TagLen <= max
  BY SMTT(30), <1>1 DEF Encode
<1>2. CASE ~(len + TagLen <= max)
  <2> DEFINE chunk == max - Header
             to(k) == IF (k + 1) * chunk < len THEN (k + 1) * chunk ELSE len
             frag(k) == [conn |-> c, whole |-> FALSE, id |-> nextId[c], total |-> len,
                         offset |-> k * chunk, body |-> SubSeq(Bytes(n, len), k * chunk + 1, to(k))]
  <2>1. chunk \in Nat /\ chunk > 0
    BY SMTT(30), <1>2, ReAssumption DEF Fits
  <2>2. \E k \in 0..(CeilDiv(len, chunk) - 1) : d = frag(k)
    BY <1>2 DEF Encode
  <2> HIDE DEF chunk
  <2>3. CeilDiv(len, chunk) \in Int
    BY SMTT(30), <2>1 DEF CeilDiv
  <2> PICK k \in 0..(CeilDiv(len, chunk) - 1) : d = frag(k)
    BY <2>2
  <2>4. k \in Nat
    BY SMTT(30), <2>3
  <2>5. k * chunk \in Nat /\ (k + 1) * chunk \in Int
    BY SMTT(30), <2>1, <2>4
  <2>6. to(k) \in Int /\ to(k) <= len
    BY SMTT(30), <2>5
  <2>7. /\ d.conn = c /\ d.total = len /\ ~d.whole /\ d.id = nextId[c] /\ d.offset = k * chunk
        /\ d.body = SubSeq(Bytes(n, len), k * chunk + 1, to(k))
    OBVIOUS
  <2> HIDE DEF to
  <2> DEFINE from == k * chunk
             end == to(k)
             body == d.body
  <2>a. from \in Nat /\ end \in Int /\ end <= len /\ body = Piece(n, len, from, end) /\ d.offset = from
    BY <2>5, <2>6, <2>7 DEF Piece
  <2> HIDE DEF from, end, body, frag
  <2>8. IsSeq(body)
    BY <2>a, Chunk
  <2>b. \A i \in DOMAIN body : from + i \in 1..len /\ body[i] = <<n, from + i>>
    BY SMTT(30), <2>a, Chunk
  <2>9. len + TagLen > max
    BY SMTT(30), <1>2, ReAssumption
  <2> QED BY <2>a, <2>7, <2>8, <2>b, <2>9 DEF body
<1> QED BY <1>1, <1>2

\* SendPacket: the new packet takes an identifier nothing under way has.
LEMMA SendKeeps ==
  ASSUME ReInv, NEW c \in Senders, NEW len \in reScene.lens, NEW max \in reScene.paths,
         SendPacket(c, len, max)
  PROVE  ReInv'
<1>0. Len(packetsSent) \in Nat
  BY SeqLen DEF ReInv, UnderWay
<1> PICK m \in Nat : m = Len(packetsSent) + 1
  BY SMTT(30), <1>0
<1> DEFINE x == [conn |-> c, body |-> Bytes(m, len)]
           whole == len + TagLen <= max
           E == Encode(c, m, len, max)
<1>1. /\ UnderWay /\ IsSeq(packetsSent) /\ IsSeq(delivered) /\ OnlyWholePackets /\ nextId \in [Senders -> Nat]
      /\ DOMAIN pending = Senders /\ reScene \in ReScenes
  BY DEF ReInv, UnderWay
<1>2. len \in Nat /\ max \in Nat
  BY <1>1, ReAssumption
<1>3. /\ packetsSent' = Append(packetsSent, x) /\ datagrams' = datagrams \cup E /\ Fits(len, max)
      /\ nextId' = IF whole THEN nextId ELSE [nextId EXCEPT ![c] = @ + 1]
      /\ pending' = pending /\ delivered' = delivered /\ reScene' = reScene
  BY DEF SendPacket
<1>4. \A d \in E :
        /\ d.conn = c /\ d.total = len
        /\ d.whole => d.body = Bytes(m, len)
        /\ ~d.whole => /\ ~whole /\ d.id = nextId[c]
                       /\ d.offset \in Nat /\ IsSeq(d.body)
                       /\ \A i \in DOMAIN d.body : d.offset + i \in 1..d.total /\ d.body[i] = <<m, d.offset + i>>
  <2> SUFFICES ASSUME NEW d \in E
               PROVE  /\ d.conn = c /\ d.total = len
                      /\ d.whole => d.body = Bytes(m, len)
                      /\ ~d.whole => /\ ~whole /\ d.id = nextId[c]
                                     /\ d.offset \in Nat /\ IsSeq(d.body)
                                     /\ \A i \in DOMAIN d.body : d.offset + i \in 1..d.total
                                                                 /\ d.body[i] = <<m, d.offset + i>>
    OBVIOUS
  <2>1. len + TagLen > max <=> ~whole
    BY SMTT(30), <1>2, ReAssumption
  <2>2. /\ d.conn = c /\ d.total = len
        /\ d.whole => d.body = Bytes(m, len)
        /\ ~d.whole => /\ len + TagLen > max /\ d.id = nextId[c]
                       /\ d.offset \in Nat /\ IsSeq(d.body)
                       /\ \A i \in DOMAIN d.body : d.offset + i \in 1..d.total
                                                   /\ d.body[i] = <<m, d.offset + i>>
    BY SMTT(30), <1>2, <1>3, EncodeBytes
  <2> QED BY <2>1, <2>2, Zenon
<1> HIDE DEF x, E
<1>5. IsSeq(packetsSent')
  BY <1>1, <1>3, Longer
<1>6. Len(packetsSent) \in Nat /\ Len(packetsSent') = m
  BY <1>1, <1>3, Longer
<1>7. \A i \in 1..Len(packetsSent) : packetsSent'[i] = packetsSent[i]
  BY SMTT(30), <1>1, <1>3, Longer
<1>8. packetsSent'[m] = x
  BY <1>1, <1>3, Longer
<1>9. Sent(c, m, len)' /\ m \in Nat
  BY SMTT(30), <1>2, <1>6, <1>8 DEF x, Sent, Bytes
<1>10. /\ \A b, n, l : Sent(b, n, l) => Sent(b, n, l)'
       /\ \A d, n : FragmentOf(d, n) => FragmentOf(d, n)'
       /\ \A part, b, n : PartOf(part, b, n) => PartOf(part, b, n)'
  <2>1. Len(packetsSent) <= Len(packetsSent')
    BY SMTT(30), <1>6
  <2> QED BY <1>1, <1>5, <1>7, <2>1, StillSent
<1>11. /\ nextId' \in [Senders -> Nat] /\ \A b \in Senders : nextId[b] <= nextId'[b]
       /\ ~whole => nextId[c] < nextId'[c]
  BY SMTT(30), <1>1, <1>3
<1> HIDE DEF whole
<1>12. ASSUME NEW d \in E, ~d.whole PROVE FragmentOf(d, m)'
  <2>1. Sent(d.conn, m, d.total)'
    BY <1>4, <1>9
  <2> QED BY <1>4, <1>12, <2>1 DEF FragmentOf, IsSeq
<1>13. ASSUME NEW b \in Senders, NEW id \in Nat PROVE Owned(b, id)'
  <2>1. CASE \E d \in E : ~d.whole /\ d.conn = b /\ d.id = id
    <3>1. b = c /\ id = nextId[c]
      BY <1>4, <2>1
    <3>2. id \notin DOMAIN pending'[b]
      BY SMTT(30), <1>1, <1>3, <3>1 DEF UnderWay
    <3>3. \A d \in datagrams : ~(~d.whole /\ d.conn = b /\ d.id = id)
      BY SMTT(30), <1>1, <3>1 DEF UnderWay
    <3>4. \A d \in datagrams' : ~d.whole /\ d.conn = b /\ d.id = id => FragmentOf(d, m)'
      BY <1>3, <1>12, <3>3
    <3> QED BY <1>9, <3>2, <3>4 DEF Owned
  <2>2. CASE ~(\E d \in E : ~d.whole /\ d.conn = b /\ d.id = id)
    <3> PICK n \in Nat :
          /\ \A d \in datagrams : ~d.whole /\ d.conn = b /\ d.id = id => FragmentOf(d, n)
          /\ id \in DOMAIN pending[b] => PartOf(pending[b][id], b, n)
      BY <1>1 DEF UnderWay, Owned
    <3>1. \A d \in datagrams' : ~d.whole /\ d.conn = b /\ d.id = id => FragmentOf(d, n)'
      BY <1>3, <1>10, <2>2
    <3>2. id \in DOMAIN pending'[b] => PartOf(pending[b][id], b, n)'
      <4>1. id \in DOMAIN pending'[b] => PartOf(pending[b][id], b, n)
        BY <1>3
      <4>2. PartOf(pending[b][id], b, n) => PartOf(pending[b][id], b, n)'
        BY SMTT(30), <1>3, <1>7, <1>5, <1>6, <1>1 DEF PartOf, Sent, Bytes
      <4> QED BY <4>1, <4>2
    <3> QED BY <3>1, <3>2 DEF Owned
  <2> QED BY <2>1, <2>2
<1>14. \A d \in datagrams' : d.conn \in Senders /\ (~d.whole => d.id \in Nat /\ d.id < nextId'[d.conn])
  <2> SUFFICES ASSUME NEW d \in datagrams'
               PROVE  d.conn \in Senders /\ (~d.whole => d.id \in Nat /\ d.id < nextId'[d.conn])
    OBVIOUS
  <2>1. CASE d \in datagrams
    <3>1. d.conn \in Senders /\ (~d.whole => d.id \in Nat /\ d.id < nextId[d.conn])
      BY <1>1, <2>1 DEF UnderWay
    <3> QED BY SMTT(30), <1>1, <1>11, <3>1
  <2>2. CASE d \in E
    BY <1>1, <1>4, <1>11, <2>2
  <2> QED BY <1>3, <2>1, <2>2
<1>15. ASSUME NEW d \in datagrams', d.whole
       PROVE  \E n \in Nat : Sent(d.conn, n, d.total)' /\ d.body = Bytes(n, d.total)
  <2>1. CASE d \in datagrams
    BY <1>1, <1>10, <1>15, <2>1 DEF UnderWay
  <2>2. CASE d \in E
    BY <1>4, <1>9, <1>15, <2>2
  <2> QED BY <1>3, <2>1, <2>2
<1>16. \A b \in Senders : \A id \in DOMAIN pending'[b] : id \in Nat /\ id < nextId'[b]
  <2> SUFFICES ASSUME NEW b \in Senders, NEW id \in DOMAIN pending'[b] PROVE id \in Nat /\ id < nextId'[b]
    OBVIOUS
  <2>1. id \in Nat /\ id < nextId[b]
    BY <1>1, <1>3 DEF UnderWay
  <2> QED BY SMTT(30), <1>1, <1>11, <2>1
<1>17. UnderWay'
  BY <1>1, <1>3, <1>5, <1>11, <1>13, <1>14, <1>15, <1>16 DEF UnderWay
<1>18. OnlyWholePackets'
  <2>1. \A j \in DOMAIN packetsSent : j \in DOMAIN packetsSent' /\ packetsSent'[j] = packetsSent[j]
    <3>1. DOMAIN packetsSent = 1..Len(packetsSent) /\ DOMAIN packetsSent' = 1..(Len(packetsSent) + 1)
      BY <1>1, <1>5, <1>6, SeqLen
    <3> QED BY SMTT(30), <1>6, <1>7, <3>1
  <2> QED BY SMTT(30), <1>1, <1>3, <2>1 DEF OnlyWholePackets
<1> QED BY <1>1, <1>3, <1>17, <1>18 DEF ReInv

\* Expire: packets that wait too long are given up.
LEMMA ExpireKeeps ==
  ASSUME ReInv, NEW c \in Senders, Expire(c)
  PROVE  ReInv'
<1> DEFINE late == {i \in DOMAIN pending[c] : reNow >= pending[c][i].deadline}
           left == [i \in DOMAIN pending[c] \ late |-> pending[c][i]]
<1>1. /\ UnderWay /\ DOMAIN pending = Senders
      /\ UNCHANGED <<reScene, nextId, packetsSent, datagrams, delivered>>
      /\ pending' = [pending EXCEPT ![c] = left]
  BY DEF ReInv, UnderWay, Expire
<1>2. DOMAIN left \subseteq DOMAIN pending[c] /\ \A i \in DOMAIN left : left[i] = pending[c][i]
  OBVIOUS
<1> HIDE DEF left
<1>3. UnderWay'
  BY <1>1, <1>2, LessUnderWay
<1> QED BY <1>1, <1>3 DEF ReInv, OnlyWholePackets

\* Reconnect: a connection starts over with nothing under way, so that it may
\* count its identifiers from zero.
LEMMA ReconnectKeeps ==
  ASSUME ReInv, NEW c \in Senders, NEW restarted \in BOOLEAN, Reconnect(c, restarted)
  PROVE  ReInv'
<1>1. UnderWay /\ DOMAIN pending = Senders /\ nextId \in [Senders -> Nat]
  BY DEF ReInv, UnderWay
<1>2. /\ UNCHANGED <<reScene, packetsSent, delivered>>
      /\ datagrams' = {d \in datagrams : d.conn # c}
      /\ DOMAIN pending' = Senders /\ pending'[c] = Nothing
      /\ \A b \in Senders : b # c => pending'[b] = pending[b]
      /\ nextId' \in [Senders -> Nat] /\ \A b \in Senders : b # c => nextId'[b] = nextId[b]
  BY <1>1 DEF Reconnect
<1>3. DOMAIN Nothing = {}
  BY DEF Nothing
<1>4. ASSUME NEW b \in Senders, NEW id \in Nat PROVE Owned(b, id)'
  <2>1. CASE b = c
    BY <1>2, <1>3, <2>1 DEF Owned
  <2>2. CASE b # c
    <3> PICK n \in Nat :
          /\ \A d \in datagrams : ~d.whole /\ d.conn = b /\ d.id = id => FragmentOf(d, n)
          /\ id \in DOMAIN pending[b] => PartOf(pending[b][id], b, n)
      BY <1>1 DEF UnderWay, Owned
    <3>1. \A d \in datagrams' : ~d.whole /\ d.conn = b /\ d.id = id => FragmentOf(d, n)'
      BY <1>2 DEF FragmentOf, Sent
    <3>2. id \in DOMAIN pending'[b] => PartOf(pending[b][id], b, n)'
      BY <1>2, <2>2 DEF PartOf, Sent
    <3> QED BY <3>1, <3>2 DEF Owned
  <2> QED BY <2>1, <2>2
<1>5. /\ \A b \in Senders : \A id \in DOMAIN pending'[b] : id \in Nat /\ id < nextId'[b]
      /\ \A d \in datagrams' : d.conn \in Senders
      /\ \A d \in datagrams' : ~d.whole => d.id \in Nat /\ d.id < nextId'[d.conn]
  BY <1>1, <1>2, <1>3 DEF UnderWay
<1>6. \A d \in datagrams' : d.whole => \E n \in Nat : Sent(d.conn, n, d.total)' /\ d.body = Bytes(n, d.total)
  BY <1>1, <1>2 DEF UnderWay, Sent
<1>7. UnderWay'
  BY <1>1, <1>2, <1>4, <1>5, <1>6 DEF UnderWay
<1> QED BY <1>2, <1>7 DEF ReInv, OnlyWholePackets

LEMMA ReInit_Inv == ReInit => ReInv
<1> SUFFICES ASSUME ReInit PROVE ReInv
  OBVIOUS
<1>1. IsSeq(<<>>)
  BY SMTT(30) DEF IsSeq
<1>2. \A c \in Senders : pending[c] = Nothing /\ DOMAIN Nothing = {}
  BY DEF ReInit, Nothing
<1>3. \A c \in Senders : \A id \in Nat : Owned(c, id)
  <2> TAKE c \in Senders, id \in Nat
  <2>1. 0 \in Nat
    OBVIOUS
  <2> QED BY <1>2, <2>1 DEF ReInit, Owned
<1>4. UnderWay
  BY <1>1, <1>2, <1>3 DEF ReInit, UnderWay
<1> QED BY <1>1, <1>4 DEF ReInit, ReInv, OnlyWholePackets

LEMMA ReStep == ReInv /\ [ReNext]_reVars => ReInv'
<1> SUFFICES ASSUME ReInv, [ReNext]_reVars PROVE ReInv'
  OBVIOUS
<1>1. CASE ReTick \/ UNCHANGED reVars
  <2>1. UNCHANGED <<reScene, nextId, packetsSent, datagrams, pending, delivered>>
    BY <1>1 DEF ReTick, reVars
  <2>2. UnderWay'
    BY <2>1, LessUnderWay DEF ReInv, UnderWay
  <2> QED BY <2>1, <2>2 DEF ReInv, OnlyWholePackets
<1> QED BY <1>1, SendKeeps, ReadKeeps, ExpireKeeps, ReconnectKeeps DEF ReNext

\* Reassembler::accept passes on only packets the peer of its connection sent,
\* byte for byte, whatever is lost, repeated, reordered, evicted or left from a
\* connection before, for every number of peers, limits, lengths and paths.
THEOREM PacketsSafe == ReSpec => []OnlyWholePackets
<1>1. ReInv => OnlyWholePackets
  BY DEF ReInv
<1> QED BY <1>1, ReInit_Inv, ReStep, PTL DEF ReSpec

-----------------------------------------------------------------------------
(* The budget. Every step that changes what one reader holds moves as many    *)
(* slots as the number of its incomplete packets changes by.                  *)

\* The oldest of finitely many incomplete packets is one of them.
LEMMA OldestHeld ==
  ASSUME NEW D, IsFiniteSet(D), D # {}, NEW due, \A i \in D : due[i] \in Int
  PROVE  \E i \in D : \A j \in D : due[i] <= due[j]
<1> DEFINE Upto(i) == {j \in D : due[j] <= due[i]}
           T == {Upto(i) : i \in D}
<1>1. IsWellFoundedOn(StrictSubsetOrdering(D), FiniteSubsetsOf(D))
  BY FS_StrictSubsetOrderingWellFounded
<1>2. T \subseteq FiniteSubsetsOf(D)
  <2> SUFFICES ASSUME NEW i \in D PROVE Upto(i) \in FiniteSubsetsOf(D)
    OBVIOUS
  <2>1. Upto(i) \subseteq D
    OBVIOUS
  <2> HIDE DEF Upto
  <2>2. IsFiniteSet(Upto(i))
    BY <2>1, FS_Subset
  <2> QED BY <2>1, <2>2 DEF FiniteSubsetsOf
<1>3. T # {}
  OBVIOUS
<1> HIDE DEF T
<1>4. PICK x \in T : \A y \in T : ~(<<y, x>> \in StrictSubsetOrdering(D))
  BY <1>1, <1>2, <1>3, WFMin
<1> USE DEF T
<1>5. PICK i \in D : x = Upto(i)
  BY <1>4
<1>6. ASSUME NEW j \in D, ~(due[i] <= due[j])
      PROVE  FALSE
  <2>1. due[j] < due[i] /\ due[i] \in Int /\ due[j] \in Int
    BY <1>6, SMTT(30)
  <2>2. Upto(j) \subseteq Upto(i) /\ i \in Upto(i) /\ i \notin Upto(j)
    BY <2>1, SMTT(30)
  <2>3. Upto(j) \in SUBSET D /\ Upto(i) \in SUBSET D
    OBVIOUS
  <2> HIDE DEF Upto
  <2>4. <<Upto(j), Upto(i)>> \in StrictSubsetOrdering(D)
    BY <2>2, <2>3, SMTT(30) DEF StrictSubsetOrdering
  <2> QED BY <1>4, <1>5, <2>4
<1> QED BY <1>6

\* The incomplete packets of all readers, each under its connection.
HeldBy(p) == UNION {{c} \X DOMAIN p[c] : c \in Senders}

LEMMA Shift ==
  ASSUME NEW r \in Nat, NEW m \in Nat, NEW n \in Nat, NEW h, h = r + m, NEW k, k = r + n
  PROVE  k = h - m + n
BY SMTT(30)

\* When one reader's packets change, the number all readers hold changes by as
\* much.
LEMMA Recount ==
  ASSUME NEW p, NEW q, NEW c \in Senders, IsFiniteSet(HeldBy(p)),
         IsFiniteSet(DOMAIN p[c]), IsFiniteSet(DOMAIN q[c]),
         \A b \in Senders : b # c => q[b] = p[b]
  PROVE  /\ IsFiniteSet(HeldBy(q))
         /\ Cardinality(HeldBy(q))
              = Cardinality(HeldBy(p)) - Cardinality(DOMAIN p[c]) + Cardinality(DOMAIN q[c])
<1> DEFINE P == {c} \X DOMAIN p[c]
           Q == {c} \X DOMAIN q[c]
           rest == HeldBy(p) \ P
<1>1. HeldBy(p) = rest \cup P /\ rest \cap P = {}
  BY DEF HeldBy
<1>2. rest \cap Q = {}
  <2> SUFFICES ASSUME NEW x \in rest, x \in Q PROVE FALSE
    OBVIOUS
  <2>1. PICK b \in Senders : x \in {b} \X DOMAIN p[b]
    BY DEF HeldBy
  <2>2. x[1] = b /\ x[2] \in DOMAIN p[b] /\ x[1] = c /\ x = <<x[1], x[2]>>
    BY <2>1
  <2> QED BY <2>2
<1>3. HeldBy(q) = rest \cup Q
  <2>1. \A x : x \in HeldBy(p) <=> \E b \in Senders : x \in {b} \X DOMAIN p[b]
    BY DEF HeldBy
  <2>2. \A x : x \in HeldBy(q) <=> \E b \in Senders : x \in {b} \X DOMAIN q[b]
    BY DEF HeldBy
  <2>3. ASSUME NEW x \in HeldBy(q) PROVE x \in rest \cup Q
    <3> PICK b \in Senders : x \in {b} \X DOMAIN q[b]
      BY <2>2
    <3>1. CASE b = c
      BY <3>1
    <3>2. CASE b # c
      <4>1. x \in {b} \X DOMAIN p[b] /\ x \notin P
        BY <3>2
      <4> QED BY <4>1, <2>1
    <3> QED BY <3>1, <3>2
  <2>4. ASSUME NEW x \in rest PROVE x \in HeldBy(q)
    <3> PICK b \in Senders : x \in {b} \X DOMAIN p[b]
      BY <2>1
    <3>1. b # c
      OBVIOUS
    <3> QED BY <3>1, <2>2
  <2>5. ASSUME NEW x \in Q PROVE x \in HeldBy(q)
    BY <2>2
  <2> HIDE DEF rest, Q
  <2> QED BY <2>3, <2>4, <2>5
<1>4. IsFiniteSet({c}) /\ Cardinality({c}) = 1
  BY FS_Singleton
<1>5. /\ IsFiniteSet(P) /\ Cardinality(P) = Cardinality(DOMAIN p[c])
      /\ IsFiniteSet(Q) /\ Cardinality(Q) = Cardinality(DOMAIN q[c])
  <2>1. Cardinality(DOMAIN p[c]) \in Nat /\ Cardinality(DOMAIN q[c]) \in Nat
    BY FS_CardinalityType
  <2>2. IsFiniteSet(P) /\ Cardinality(P) = Cardinality({c}) * Cardinality(DOMAIN p[c])
    BY <1>4, FS_Product
  <2>3. IsFiniteSet(Q) /\ Cardinality(Q) = Cardinality({c}) * Cardinality(DOMAIN q[c])
    BY <1>4, FS_Product
  <2> HIDE DEF P, Q
  <2> QED BY <1>4, <2>1, <2>2, <2>3, SMTT(30)
<1>6. IsFiniteSet(rest)
  BY FS_Difference
<1> HIDE DEF P, Q, rest
<1>7. Cardinality(HeldBy(p)) = Cardinality(rest) + Cardinality(P) /\ Cardinality(rest) \in Nat
  <2>1. Cardinality(rest \cup P) = Cardinality(rest) + Cardinality(P) - Cardinality(rest \cap P)
    BY <1>5, <1>6, FS_Union
  <2>2. Cardinality(rest \cap P) = 0 /\ Cardinality(rest) \in Nat /\ Cardinality(P) \in Nat
    BY <1>1, <1>5, <1>6, FS_EmptySet, FS_CardinalityType
  <2>3. Cardinality(rest \cup P) = Cardinality(rest) + Cardinality(P)
    BY <2>1, <2>2, SMTT(30)
  <2> QED BY <1>1, <2>2, <2>3
<1>8. IsFiniteSet(HeldBy(q)) /\ Cardinality(HeldBy(q)) = Cardinality(rest) + Cardinality(Q)
  <2>1. /\ IsFiniteSet(rest \cup Q)
        /\ Cardinality(rest \cup Q) = Cardinality(rest) + Cardinality(Q) - Cardinality(rest \cap Q)
    BY <1>5, <1>6, FS_Union
  <2>2. Cardinality(rest \cap Q) = 0 /\ Cardinality(rest) \in Nat /\ Cardinality(Q) \in Nat
    BY <1>2, <1>5, <1>6, FS_EmptySet, FS_CardinalityType
  <2>3. Cardinality(rest \cup Q) = Cardinality(rest) + Cardinality(Q)
    BY <2>1, <2>2, SMTT(30)
  <2> QED BY <1>3, <2>1, <2>3
<1>9. Cardinality(P) \in Nat /\ Cardinality(Q) \in Nat
  BY <1>5, FS_CardinalityType
<1>10. Cardinality(HeldBy(q)) = Cardinality(HeldBy(p)) - Cardinality(P) + Cardinality(Q)
  <2>1. PICK r \in Nat : r = Cardinality(rest)
    BY <1>7
  <2>2. PICK m \in Nat : m = Cardinality(P)
    BY <1>9
  <2>3. PICK n \in Nat : n = Cardinality(Q)
    BY <1>9
  <2>4. PICK h : h = Cardinality(HeldBy(p))
    OBVIOUS
  <2>5. PICK k : k = Cardinality(HeldBy(q))
    OBVIOUS
  <2>6. h = r + m /\ k = r + n
    BY <1>7, <1>8, <2>1, <2>2, <2>3, <2>4, <2>5
  <2>7. k = h - m + n
    BY <2>6, Shift, SMTT(30)
  <2> QED BY <2>2, <2>3, <2>4, <2>5, <2>7
<1> QED BY <1>5, <1>8, <1>10

\* reserve gives room for one more packet at the price it names.
LEMMA ReserveCost ==
  ASSUME NEW held, NEW id, IsFiniteSet(DOMAIN held), id \notin DOMAIN held,
         \A i \in DOMAIN held : held[i].deadline \in Int,
         Reserve(held).ok
  PROVE  /\ IsFiniteSet(DOMAIN Reserve(held).held)
         /\ Reserve(held).cost \in Int
         /\ Cardinality(DOMAIN Reserve(held).held \cup {id}) = Cardinality(DOMAIN held) + Reserve(held).cost
<1> DEFINE D == DOMAIN held
           oldest == CHOOSE i \in D : \A j \in D : held[i].deadline <= held[j].deadline
           r == Reserve(held)
<1>1. Cardinality(D) \in Nat
  BY FS_CardinalityType
<1>2. \/ r.held = held /\ r.cost = 1
      \/ D # {} /\ r.held = Drop(held, oldest) /\ r.cost = 0
  BY DEF Reserve
<1>3. CASE r.held = held /\ r.cost = 1
  <2>1. Cardinality(D \cup {id}) = Cardinality(D) + 1
    BY FS_AddElement
  <2>2. 1 \in Int
    BY SMTT(30)
  <2> QED BY <1>3, <2>1, <2>2
<1>4. CASE D # {} /\ r.held = Drop(held, oldest) /\ r.cost = 0
  <2>1. oldest \in D
    <3> DEFINE due == [i \in D |-> held[i].deadline]
    <3>1. \A i \in D : due[i] \in Int
      OBVIOUS
    <3> HIDE DEF due
    <3>2. \E i \in D : \A j \in D : due[i] <= due[j]
      BY <1>4, <3>1, OldestHeld
    <3>3. \E i \in D : \A j \in D : held[i].deadline <= held[j].deadline
      BY <3>2 DEF due
    <3> QED BY <3>3
  <2> HIDE DEF oldest
  <2>2. DOMAIN r.held = D \ {oldest} /\ id \notin D \ {oldest}
    BY <1>4 DEF Drop
  <2>3. IsFiniteSet(D \ {oldest}) /\ Cardinality(D \ {oldest}) = Cardinality(D) - 1
    BY <2>1, FS_RemoveElement
  <2> DEFINE R == D \ {oldest}
  <2> HIDE DEF R
  <2>4. IsFiniteSet(R) /\ Cardinality(R) = Cardinality(D) - 1 /\ DOMAIN r.held = R /\ id \notin R
    BY <2>2, <2>3 DEF R
  <2>5. Cardinality(R \cup {id}) = Cardinality(R) + 1
    BY <2>4, FS_AddElement
  <2>6. Cardinality(R \cup {id}) = Cardinality(D) + 0
    BY <1>1, <2>4, <2>5, SMTT(30)
  <2>7. 0 \in Int
    BY SMTT(30)
  <2> QED BY <1>4, <2>4, <2>6, <2>7
<1> QED BY <1>2, <1>3, <1>4

\* accept takes from the budget what it makes its reader hold more.
LEMMA AcceptCost ==
  ASSUME NEW held, NEW d, IsFiniteSet(DOMAIN held),
         \A i \in DOMAIN held : held[i].deadline \in Int
  PROVE  /\ IsFiniteSet(DOMAIN Accept(held, d).held)
         /\ Accept(held, d).cost \in Int
         /\ Cardinality(DOMAIN Accept(held, d).held) = Cardinality(DOMAIN held) + Accept(held, d).cost
<1> DEFINE D == DOMAIN held
           room == IF d.id \in D THEN [ok |-> TRUE, held |-> held, cost |-> 0] ELSE Reserve(held)
           part == IF d.id \in D THEN held[d.id] ELSE Fresh(d.total)
           next == Fill(part, d)
           no(h, cost) == [held |-> h, cost |-> cost, out |-> <<>>]
           a == Accept(held, d)
           R == DOMAIN room.held
<1>1. \/ d.id \in D /\ a = no(Drop(held, d.id), -1)
      \/ a = no(held, 0)
      \/ room.ok /\ a = no(Drop(room.held, d.id), room.cost - 1)
      \/ room.ok /\ a = [held |-> Drop(room.held, d.id), cost |-> room.cost - 1, out |-> next.packet]
      \/ room.ok /\ a = no([i \in DOMAIN room.held \cup {d.id} |-> IF i = d.id THEN next ELSE room.held[i]], room.cost)
  BY DEF Accept
<1>2. Cardinality(D) \in Nat
  BY FS_CardinalityType
<1>3. room.ok => /\ IsFiniteSet(R) /\ room.cost \in Int
                 /\ Cardinality(R \cup {d.id}) = Cardinality(D) + room.cost
  <2>1. CASE d.id \in D
    <3>1. room.held = held /\ room.cost = 0
      BY <2>1
    <3>2. Cardinality(D \cup {d.id}) = Cardinality(D)
      BY <2>1, FS_AddElement
    <3>3. Cardinality(D) = Cardinality(D) + 0
      BY <1>2, SMTT(30)
    <3>4. 0 \in Int
      BY SMTT(30)
    <3> HIDE DEF room
    <3> QED BY <3>1, <3>2, <3>3, <3>4
  <2>2. CASE d.id \notin D
    <3>1. room = Reserve(held)
      BY <2>2
    <3> QED BY <2>2, <3>1, ReserveCost
  <2> QED BY <2>1, <2>2
<1>4. \/ d.id \in D /\ DOMAIN a.held = D \ {d.id} /\ a.cost = -1
      \/ DOMAIN a.held = D /\ a.cost = 0
      \/ room.ok /\ DOMAIN a.held = R \ {d.id} /\ a.cost = room.cost - 1
      \/ room.ok /\ DOMAIN a.held = R \cup {d.id} /\ a.cost = room.cost
  <2> HIDE DEF a, room, next
  <2>1. DOMAIN Drop(held, d.id) = D \ {d.id} /\ DOMAIN Drop(room.held, d.id) = R \ {d.id}
    BY DEF Drop
  <2> HIDE DEF D
  <2>2. CASE d.id \in D /\ a = no(Drop(held, d.id), -1)
    BY <2>1, <2>2
  <2>3. CASE a = no(held, 0)
    BY <2>3 DEF D
  <2>4. CASE room.ok /\ a = no(Drop(room.held, d.id), room.cost - 1)
    BY <2>1, <2>4
  <2>5. CASE room.ok /\ a = [held |-> Drop(room.held, d.id), cost |-> room.cost - 1, out |-> next.packet]
    BY <2>1, <2>5
  <2>6. CASE room.ok /\ a = no([i \in DOMAIN room.held \cup {d.id} |-> IF i = d.id THEN next ELSE room.held[i]], room.cost)
    BY <2>6
  <2> QED BY <1>1, <2>2, <2>3, <2>4, <2>5, <2>6
<1> HIDE DEF a, room, D, R
<1>5. IsFiniteSet(D)
  BY DEF D
<1>6. CASE d.id \in D /\ DOMAIN a.held = D \ {d.id} /\ a.cost = -1
  <2>1. IsFiniteSet(D \ {d.id}) /\ Cardinality(D \ {d.id}) = Cardinality(D) - 1
    BY <1>5, <1>6, FS_RemoveElement
  <2> QED BY <1>2, <1>6, <2>1, SMTT(30) DEF a, D
<1>7. CASE DOMAIN a.held = D /\ a.cost = 0
  BY <1>2, <1>5, <1>7, SMTT(30) DEF a, D
<1>8. CASE room.ok /\ DOMAIN a.held = R \ {d.id} /\ a.cost = room.cost - 1
  <2> DEFINE U == R \cup {d.id}
  <2>1. IsFiniteSet(U) /\ R \ {d.id} = U \ {d.id} /\ d.id \in U /\ Cardinality(U) = Cardinality(D) + room.cost
    BY <1>3, <1>8, FS_AddElement
  <2> HIDE DEF U
  <2>2. IsFiniteSet(U \ {d.id}) /\ Cardinality(U \ {d.id}) = Cardinality(U) - 1
    BY <2>1, FS_RemoveElement
  <2>3. a.cost \in Int /\ Cardinality(U) - 1 = Cardinality(D) + a.cost
    BY <1>2, <1>3, <1>8, <2>1, SMTT(30)
  <2> QED BY <1>8, <2>1, <2>2, <2>3 DEF a, D
<1>9. CASE room.ok /\ DOMAIN a.held = R \cup {d.id} /\ a.cost = room.cost
  <2>1. IsFiniteSet(R \cup {d.id})
    BY <1>3, <1>9, FS_AddElement
  <2> QED BY <1>3, <1>9, <2>1 DEF a, D
<1> QED BY <1>4, <1>6, <1>7, <1>8, <1>9

\* What one reader holds is finite, and each of it has a time to go.
Timed(held) == IsFiniteSet(DOMAIN held) /\ \A i \in DOMAIN held : held[i].deadline \in Int

SlotInv ==
  /\ slots \in Int /\ reNow \in Nat
  /\ \A c \in Senders : Timed(pending[c])
  /\ IsFiniteSet(HeldBy(pending))
  /\ SlotsConserved

\* One reader goes on with other packets, and the budget makes up for it.
LEMMA Settled ==
  ASSUME SlotInv, DOMAIN pending = Senders, NEW c \in Senders, NEW held, Timed(held),
         NEW cost \in Int, Cardinality(DOMAIN held) = Cardinality(DOMAIN pending[c]) + cost,
         pending' = [pending EXCEPT ![c] = held], slots' = slots - cost, reNow' \in Nat
  PROVE  SlotInv'
<1>1. pending'[c] = held /\ \A b \in Senders : b # c => pending'[b] = pending[b]
  OBVIOUS
<1>2. \A b \in Senders : Timed(pending'[b])
  BY <1>1 DEF SlotInv
<1>3. IsFiniteSet(DOMAIN pending[c]) /\ IsFiniteSet(DOMAIN pending'[c]) /\ IsFiniteSet(HeldBy(pending))
  BY <1>1 DEF SlotInv, Timed
<1>4. /\ IsFiniteSet(HeldBy(pending'))
      /\ Cardinality(HeldBy(pending'))
           = Cardinality(HeldBy(pending)) - Cardinality(DOMAIN pending[c]) + Cardinality(DOMAIN pending'[c])
  BY <1>1, <1>3, Recount
<1>5. /\ Cardinality(HeldBy(pending)) \in Nat /\ Cardinality(DOMAIN pending[c]) \in Nat
      /\ Cardinality(DOMAIN pending'[c]) = Cardinality(DOMAIN pending[c]) + cost
  BY <1>1, <1>3, FS_CardinalityType
<1>6. slots \in Int /\ slots + Cardinality(HeldBy(pending)) = Slots
  BY DEF SlotInv, SlotsConserved, HeldBy
<1>7. slots' \in Int /\ slots' + Cardinality(HeldBy(pending')) = Slots
  BY <1>4, <1>5, <1>6, SMTT(30)
<1>8. SlotsConserved'
  BY <1>7 DEF SlotsConserved, HeldBy
<1> QED BY <1>2, <1>4, <1>7, <1>8 DEF SlotInv, HeldBy, Timed

\* accept gives every packet it keeps a time to go.
LEMMA AcceptTimed ==
  ASSUME NEW held, NEW d, Timed(held), reNow \in Nat,
         \A i \in DOMAIN held : DOMAIN held[i] = {"packet", "covered", "received", "deadline"}
  PROVE  Timed(Accept(held, d).held)
<1> DEFINE part == IF d.id \in DOMAIN held THEN held[d.id] ELSE Fresh(d.total)
           a == Accept(held, d)
<1>1. \A i \in DOMAIN a.held : \/ i \in DOMAIN held /\ a.held[i] = held[i]
                               \/ i = d.id /\ a.held[i] = Fill(part, d)
  BY AcceptHolds, SMTT(30)
<1>2. part.deadline \in Int /\ DOMAIN part = {"packet", "covered", "received", "deadline"}
  <2>1. reNow + ReTimeout \in Int
    BY ReAssumption, SMTT(30)
  <2>2. Fresh(d.total).deadline \in Int /\ DOMAIN Fresh(d.total) = {"packet", "covered", "received", "deadline"}
    BY <2>1 DEF Fresh
  <2> QED BY <2>2 DEF Timed
<1> HIDE DEF part
<1>3. Fill(part, d).deadline = part.deadline
  BY <1>2 DEF Fill
<1>4. IsFiniteSet(DOMAIN a.held)
  BY AcceptCost DEF Timed
<1> HIDE DEF a
<1>5. \A i \in DOMAIN a.held : a.held[i].deadline \in Int
  BY <1>1, <1>2, <1>3 DEF Timed
<1> QED BY <1>4, <1>5 DEF Timed, a

\* ReadDatagram: the reader pays for what it takes in and gets back what it gives up.
LEMMA ReadSettles ==
  ASSUME ReInv, SlotInv, NEW d \in datagrams, NEW again \in BOOLEAN, ReadDatagram(d, again)
  PROVE  SlotInv'
<1> DEFINE c == d.conn
           held == pending[c]
           a == IF d.whole THEN [held |-> held, cost |-> 0, out |-> d.body] ELSE Accept(held, d)
<1>1. c \in Senders /\ DOMAIN pending = Senders
  BY DEF ReInv, UnderWay
<1>2. pending' = [pending EXCEPT ![c] = a.held] /\ slots' = slots - a.cost /\ reNow' = reNow
  BY DEF ReadDatagram
<1>3. Timed(held) /\ reNow \in Nat
  BY <1>1 DEF SlotInv
<1>4. /\ Timed(a.held) /\ a.cost \in Int
      /\ Cardinality(DOMAIN a.held) = Cardinality(DOMAIN held) + a.cost
  <2>1. CASE d.whole
    <3>1. a.held = held /\ a.cost = 0
      BY <2>1
    <3>2. Cardinality(DOMAIN held) \in Nat
      BY <1>3, FS_CardinalityType DEF Timed
    <3>3. 0 \in Int /\ Cardinality(DOMAIN held) = Cardinality(DOMAIN held) + 0
      BY <3>2, SMTT(30)
    <3> HIDE DEF a
    <3> QED BY <1>3, <3>1, <3>3
  <2>2. CASE ~d.whole
    <3>1. a = Accept(held, d)
      BY <2>2
    <3>2. \A i \in DOMAIN held : DOMAIN held[i] = {"packet", "covered", "received", "deadline"}
      BY <1>1 DEF ReInv, UnderWay, Owned, PartOf
    <3> HIDE DEF a, held
    <3>3. Timed(Accept(held, d).held)
      BY <1>3, <3>2, AcceptTimed
    <3>4. /\ Accept(held, d).cost \in Int
          /\ Cardinality(DOMAIN Accept(held, d).held) = Cardinality(DOMAIN held) + Accept(held, d).cost
      BY <1>3, AcceptCost DEF Timed
    <3> QED BY <3>1, <3>3, <3>4
  <2> QED BY <2>1, <2>2
<1> HIDE DEF a, c
<1>5. PICK h : h = a.held
  OBVIOUS
<1>6. PICK cost \in Int : cost = a.cost
  BY <1>4
<1>7. /\ Timed(h) /\ Cardinality(DOMAIN h) = Cardinality(DOMAIN pending[c]) + cost
      /\ pending' = [pending EXCEPT ![c] = h] /\ slots' = slots - cost /\ reNow' \in Nat
  BY <1>2, <1>3, <1>4, <1>5, <1>6
<1> QED BY <1>1, <1>7, Settled

\* Expire and Reconnect give back the slots of what the reader gives up.
LEMMA GivesBack ==
  ASSUME SlotInv, DOMAIN pending = Senders, NEW c \in Senders, NEW gone, gone \subseteq DOMAIN pending[c],
         pending' = [pending EXCEPT ![c] = [i \in DOMAIN pending[c] \ gone |-> pending[c][i]]],
         slots' = slots + Cardinality(gone), reNow' = reNow
  PROVE  SlotInv'
<1> DEFINE D == DOMAIN pending[c]
           left == [i \in D \ gone |-> pending[c][i]]
<1>1. Timed(pending[c]) /\ IsFiniteSet(D)
  BY DEF SlotInv, Timed
<1>2. DOMAIN left = D \ gone /\ \A i \in DOMAIN left : i \in D /\ left[i] = pending[c][i]
  OBVIOUS
<1>3. D \cap gone = gone /\ gone \in SUBSET D
  OBVIOUS
<1>4. pending' = [pending EXCEPT ![c] = left]
  OBVIOUS
<1> HIDE DEF left, D
<1>5. IsFiniteSet(D \ gone) /\ Cardinality(D \ gone) = Cardinality(D) - Cardinality(D \cap gone)
  BY <1>1, FS_Difference
<1>6. IsFiniteSet(gone)
  BY <1>1, <1>3, FS_Subset
<1>7. Cardinality(D) \in Nat /\ Cardinality(gone) \in Nat
  BY <1>1, <1>6, FS_CardinalityType
<1>8. Timed(left)
  BY <1>1, <1>2, <1>5 DEF Timed, D
<1>9. slots \in Int /\ reNow \in Nat
  BY DEF SlotInv
<1>10. PICK cost \in Int : cost = -Cardinality(gone)
  BY <1>7, SMTT(30)
<1>11. slots' = slots - cost
  BY <1>7, <1>9, <1>10, SMTT(30)
<1>12. Cardinality(DOMAIN left) = Cardinality(D) + cost
  <2>1. Cardinality(DOMAIN left) = Cardinality(D) - Cardinality(gone)
    BY <1>2, <1>3, <1>5
  <2> QED BY <1>7, <1>10, <2>1, SMTT(30)
<1>13. reNow' \in Nat
  BY <1>9
<1> QED BY <1>4, <1>8, <1>11, <1>12, <1>13, Settled DEF D

LEMMA SlotInit == ReInit => SlotInv
<1> SUFFICES ASSUME ReInit PROVE SlotInv
  OBVIOUS
<1>1. \A c \in Senders : pending[c] = Nothing /\ DOMAIN Nothing = {}
  BY DEF ReInit, Nothing
<1>2. HeldBy(pending) = {}
  BY <1>1 DEF HeldBy
<1>3. IsFiniteSet({}) /\ Cardinality({}) = 0
  BY FS_EmptySet
<1>4. \A c \in Senders : Timed(pending[c])
  BY <1>1, <1>3 DEF Timed
<1>5. slots \in Int /\ reNow \in Nat /\ slots + 0 = Slots
  BY ReAssumption, SMTT(30) DEF ReInit
<1>6. slots + Cardinality(HeldBy(pending)) = Slots
  BY <1>2, <1>3, <1>5
<1> QED BY <1>2, <1>3, <1>4, <1>5, <1>6 DEF SlotInv, SlotsConserved, HeldBy

LEMMA SlotStep == ReInv /\ SlotInv /\ [ReNext]_reVars => SlotInv'
<1> SUFFICES ASSUME ReInv, SlotInv, [ReNext]_reVars PROVE SlotInv'
  OBVIOUS
<1>1. DOMAIN pending = Senders
  BY DEF ReInv, UnderWay
<1>2. ASSUME UNCHANGED <<pending, slots>>, reNow' \in Nat PROVE SlotInv'
  BY <1>2 DEF SlotInv, SlotsConserved, HeldBy, Timed
<1>3. ASSUME NEW c \in Senders, NEW len, NEW max, SendPacket(c, len, max) PROVE SlotInv'
  BY <1>2, <1>3 DEF SendPacket, SlotInv
<1>4. ASSUME NEW c \in Senders, Expire(c) PROVE SlotInv'
  <2> DEFINE late == {i \in DOMAIN pending[c] : reNow >= pending[c][i].deadline}
  <2>1. /\ late \subseteq DOMAIN pending[c] /\ slots' = slots + Cardinality(late) /\ reNow' = reNow
        /\ pending' = [pending EXCEPT ![c] = [i \in DOMAIN pending[c] \ late |-> pending[c][i]]]
    BY <1>1, <1>4 DEF Expire
  <2> HIDE DEF late
  <2> QED BY <1>1, <2>1, GivesBack
<1>5. ASSUME NEW c \in Senders, NEW restarted, Reconnect(c, restarted) PROVE SlotInv'
  <2> DEFINE D == DOMAIN pending[c]
  <2>1. [i \in D \ D |-> pending[c][i]] = Nothing
    BY DEF Nothing
  <2>2. pending' = [pending EXCEPT ![c] = [i \in D \ D |-> pending[c][i]]]
    BY <1>5, <2>1 DEF Reconnect
  <2>3. D \subseteq D /\ slots' = slots + Cardinality(D) /\ reNow' = reNow
    BY <1>5 DEF Reconnect
  <2> QED BY <1>1, <2>2, <2>3, GivesBack
<1>6. ASSUME ReTick PROVE SlotInv'
  <2>1. reNow' = reNow + 1 /\ reNow \in Nat /\ UNCHANGED <<pending, slots>>
    BY <1>6 DEF ReTick, SlotInv
  <2>2. reNow' \in Nat
    BY <2>1, SMTT(30)
  <2> QED BY <1>2, <2>1, <2>2
<1>7. ASSUME UNCHANGED reVars PROVE SlotInv'
  BY <1>2, <1>7 DEF reVars, SlotInv
<1> QED BY <1>3, <1>4, <1>5, <1>6, <1>7, ReadSettles DEF ReNext

\* reserve, accept, expire and the end of a connection conserve the budget of
\* incomplete packets the readers share: whatever is evicted, times out or
\* conflicts, for every number of readers and every limit, what is free and what
\* is held is the whole of it.
THEOREM BudgetSafe == ReSpec => []SlotsConserved
<1>1. ReInv /\ SlotInv => SlotsConserved
  BY DEF SlotInv
<1> QED BY <1>1, ReInit_Inv, ReStep, SlotInit, SlotStep, PTL DEF ReSpec
====
