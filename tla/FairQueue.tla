----------------------------- MODULE FairQueue -----------------------------
(* The FQ-CoDel sender of one connection: the forwarding loop hands it        *)
(* packets, its worker sorts them into flows, picks the next one to send,     *)
(* drops what has waited too long, and waits for QUIC to take it. Sizes and   *)
(* times are small numbers.                                                   *)
EXTENDS Integers, Sequences, FiniteSets

LOCAL INSTANCE FiniteSetsExt
LOCAL INSTANCE SequencesExt

CONSTANTS
  FqScenes,      \* bounds of a behaviour, see FqInit
  Buckets,       \* 1..n, the flow queues
  Quantum,       \* what a flow may send before the next one's turn
  Target,        \* the delay CoDel accepts
  Interval,      \* for how long it tolerates more
  QueueBytes,    \* MAX_BYTES
  QueuePackets,  \* MAX_PACKETS
  Ingress,       \* what the channel to the worker holds
  IngressBatch,  \* packets the worker sorts before it sends, after the first
  SendBatch      \* packets it sends before it sorts again

VARIABLES
  fqScene,  \* the bounds chosen for this behaviour
  fqNow,    \* the clock
  fqActive, \* the data-plane gate
  ingress,  \* the channel to the worker
  fq,       \* the worker's Queue
  sending,  \* the packet it waits to send, in a sequence of at most one
  worker,   \* "top" of its loop, "send", or "ended"
  burst,    \* packets sent since it was at the top
  offered,  \* packets handed to the sender so far
  gates     \* how often the gate changed

fqVars == <<fqScene, fqNow, fqActive, ingress, fq, sending, worker, burst, offered, gates>>

-----------------------------------------------------------------------------
Never == -1

CodelStart == [above |-> Never, next |-> Never, dropping |-> FALSE, count |-> 0, last |-> 0]
FlowStart == [packets |-> <<>>, deficit |-> 0, active |-> FALSE, codel |-> CodelStart]

\* Queue::new and clear.
EmptyQueue == [flows |-> [b \in Buckets |-> FlowStart], new |-> <<>>, old |-> <<>>,
               bytes |-> 0, packets |-> 0, largest |-> Quantum]

SizeOf(s) == FoldLeft(LAMBDA sum, p : sum + p.bytes, 0, s)

Larger(x, y) == IF x > y THEN x ELSE y

\* pop: the head of a flow, if it has one.
Pop(q, b) ==
  IF q.flows[b].packets = <<>> THEN q
  ELSE [q EXCEPT !.flows[b].packets = Tail(@), !.packets = @ - 1,
                 !.bytes = @ - Head(q.flows[b].packets).bytes]

HeadOf(q, b) == IF q.flows[b].packets = <<>> THEN <<>> ELSE <<Head(q.flows[b].packets)>>

\* The fattest flow, the last one of several.
Fattest(q) ==
  CHOOSE b \in Buckets : \A c \in Buckets :
    LET x == SizeOf(q.flows[b].packets)  y == SizeOf(q.flows[c].packets)
    IN x > y \/ (x = y /\ b >= c)

RECURSIVE PopMany(_, _, _)
PopMany(q, b, n) == IF n = 0 THEN q ELSE PopMany(Pop(q, b), b, n - 1)

\* Half of the fattest flow, at least one packet (and in the code at most 64),
\* until the limits hold again.
RECURSIVE Shed(_)
Shed(q) ==
  IF q.bytes <= QueueBytes /\ q.packets <= QueuePackets THEN q
  ELSE LET b == Fattest(q)
       IN Shed(PopMany(q, b, Larger(1, Len(q.flows[b].packets) \div 2)))

\* enqueue: a flow that is on no list joins the new ones; what is over the
\* limits is shed.
FqEnqueue(q, p) ==
  LET put == [q EXCEPT !.largest = Larger(@, p.bytes), !.bytes = @ + p.bytes, !.packets = @ + 1,
                       !.flows[p.bucket].packets = Append(@, p)]
  IN Shed(IF q.flows[p.bucket].active THEN put
          ELSE [put EXCEPT !.flows[p.bucket].active = TRUE,
                           !.flows[p.bucket].deficit = Quantum,
                           !.new = Append(@, p.bucket)])

RECURSIVE EnqueueAll(_, _)
EnqueueAll(q, s) == IF s = <<>> THEN q ELSE EnqueueAll(FqEnqueue(q, Head(s)), Tail(s))

-----------------------------------------------------------------------------
(* CoDel *)

\* A mutant: the last packets of the queue are dropped as well.
Overdue_last(q, p) == p # <<>> /\ fqNow - p[1].arrived >= Target

\* The packet waited too long and is not all there is to send.
Overdue(q, p) == p # <<>> /\ fqNow - p[1].arrived >= Target /\ q.bytes > q.largest

\* should_drop on a packet p just popped: overdue, and so for an interval.
ShouldDrop(q, b, p) ==
  LET above == q.flows[b].codel.above
  IN Overdue(q, p) /\ above # Never /\ fqNow >= above

\* What should_drop leaves in first_above.
Marked(q, b, p) ==
  [q EXCEPT !.flows[b].codel.above =
     IF ~Overdue(q, p) THEN Never ELSE IF @ = Never THEN fqNow + Interval ELSE @]

\* control_law: the interval over the square root of the count, rounded down.
ControlLaw(time, count) ==
  time + Max({s \in 0..Interval : s * s * Larger(count, 1) <= Interval * Interval})

\* While dropping: drop and pop until the next drop is not due or the delay is gone.
RECURSIVE DropDue(_, _, _)
DropDue(q, b, p) ==
  LET codel == q.flows[b].codel
      n == [Pop(q, b) EXCEPT !.flows[b].codel.count = @ + 1]
      h == HeadOf(q, b)
      still == ShouldDrop(n, b, h)
      m == Marked(n, b, h)
  IN IF ~codel.dropping \/ codel.next = Never \/ fqNow < codel.next THEN [q |-> q, p |-> p]
     ELSE DropDue([m EXCEPT !.flows[b].codel.dropping = still,
                            !.flows[b].codel.next =
                              IF still THEN ControlLaw(@, codel.count + 1) ELSE @], b, h)

\* Not dropping yet: drop one and start, where it left off if that was recent.
StartDropping(q, b) ==
  LET h == HeadOf(q, b)
      m == Marked(Pop(q, b), b, h)
      codel == m.flows[b].codel
      delta == codel.count - codel.last
      count == IF delta > 1 /\ codel.next # Never /\ fqNow - codel.next < Interval * 16
               THEN delta ELSE 1
  IN [q |-> [m EXCEPT !.flows[b].codel = [@ EXCEPT !.dropping = TRUE, !.count = count, !.last = count,
                                                   !.next = ControlLaw(fqNow, count)]],
      p |-> h]

\* codel_pop: the next packet of a flow that CoDel lets through, if any.
CodelPop(q, b) ==
  LET h == HeadOf(q, b)
      n == Pop(q, b)
      due == ShouldDrop(n, b, h)
      m == Marked(n, b, h)
  IN IF m.flows[b].codel.dropping
     THEN DropDue([m EXCEPT !.flows[b].codel.dropping = due], b, h)
     ELSE IF due THEN StartDropping(m, b)
     ELSE [q |-> m, p |-> h]

\* dequeue: new flows before old ones, each for its quantum; an empty new flow
\* becomes an old one, an empty old one leaves.
RECURSIVE Dequeue(_)
Dequeue(q) ==
  LET list == IF q.new # <<>> THEN q.new ELSE q.old
      b == Head(list)
      off == IF q.new # <<>> THEN [q EXCEPT !.new = Tail(@)] ELSE [q EXCEPT !.old = Tail(@)]
      r == CodelPop(q, b)
      gone == IF q.new # <<>>
              THEN [r.q EXCEPT !.new = Tail(@), !.old = Append(@, b)]
              ELSE [r.q EXCEPT !.old = Tail(@), !.flows[b].active = FALSE]
  IN IF list = <<>> THEN [q |-> q, p |-> <<>>]
     ELSE IF q.flows[b].deficit <= 0
          THEN Dequeue([off EXCEPT !.flows[b].deficit = @ + Quantum, !.old = Append(@, b)])
     ELSE IF r.p # <<>>
          THEN [q |-> [r.q EXCEPT !.flows[b].deficit = @ - r.p[1].bytes], p |-> r.p]
     ELSE Dequeue(gone)

-----------------------------------------------------------------------------
FqInit ==
  /\ fqScene \in FqScenes
  /\ fqNow = 0
  /\ fqActive = TRUE
  /\ ingress = <<>>
  /\ fq = EmptyQueue
  /\ sending = <<>>
  /\ worker = "top"
  /\ burst = 0
  /\ offered = 0
  /\ gates = 0

\* Sender::enqueue: nothing in standby, after the worker ended, or with the
\* channel full. That the other senders use up the shared budget is a packet
\* not offered.
Offer(b, bytes) ==
  /\ offered < fqScene.packets
  /\ fqActive /\ worker # "ended" /\ Len(ingress) < Ingress
  /\ ingress' = Append(ingress, [bucket |-> b, bytes |-> bytes, arrived |-> fqNow])
  /\ offered' = offered + 1
  /\ UNCHANGED <<fqScene, fqNow, fqActive, fq, sending, worker, burst, gates>>

\* The top of run_sender: a batch of the channel is sorted into flows; in
\* standby all that is queued is dropped.
Sort ==
  /\ worker = "top" /\ (ingress # <<>> \/ fq.packets > 0)
  /\ LET n == Min({Len(ingress), 1 + IngressBatch})
     IN /\ ingress' = SubSeq(ingress, n + 1, Len(ingress))
        /\ fq' = IF fqActive THEN EnqueueAll(fq, SubSeq(ingress, 1, n)) ELSE EmptyQueue
  /\ worker' = IF fqActive THEN "send" ELSE "top"
  /\ burst' = 0
  /\ UNCHANGED <<fqScene, fqNow, fqActive, sending, offered, gates>>

\* The next packet is taken off the queue for send_packet; after a batch, or
\* with none left, the worker is back at the top.
Serve ==
  /\ worker = "send" /\ sending = <<>>
  /\ LET r == IF burst = SendBatch THEN [q |-> fq, p |-> <<>>] ELSE Dequeue(fq)
     IN fq' = r.q /\ sending' = r.p /\ worker' = IF r.p = <<>> THEN "top" ELSE worker
  /\ UNCHANGED <<fqScene, fqNow, fqActive, ingress, burst, offered, gates>>

\* send_packet ends: QUIC took or refused the packet, or the gate closed before.
Sent ==
  /\ worker = "send" /\ sending # <<>>
  /\ sending' = <<>>
  /\ IF fqActive
     THEN burst' = burst + 1 /\ UNCHANGED <<fq, worker>>
     ELSE fq' = EmptyQueue /\ worker' = "top" /\ burst' = burst
  /\ UNCHANGED <<fqScene, fqNow, fqActive, ingress, offered, gates>>

\* While QUIC has no room, send_packet keeps sorting what arrives.
SortOne ==
  /\ worker = "send" /\ sending # <<>> /\ ingress # <<>>
  /\ ingress' = Tail(ingress)
  /\ fq' = FqEnqueue(fq, Head(ingress))
  /\ UNCHANGED <<fqScene, fqNow, fqActive, sending, worker, burst, offered, gates>>

\* The connection closes, or its Sender is gone: the channel is closed and all
\* that is left dropped.
ConnClosed ==
  /\ worker # "ended"
  /\ worker' = "ended"
  /\ ingress' = <<>> /\ fq' = EmptyQueue /\ sending' = <<>>
  /\ UNCHANGED <<fqScene, fqNow, fqActive, burst, offered, gates>>

\* ray down and ray up.
FqGate ==
  /\ gates < fqScene.gates
  /\ gates' = gates + 1
  /\ fqActive' = ~fqActive
  /\ UNCHANGED <<fqScene, fqNow, ingress, fq, sending, worker, burst, offered>>

\* Time passes.
FqTick ==
  /\ fqNow < fqScene.clock
  /\ fqNow' = fqNow + 1
  /\ UNCHANGED <<fqScene, fqActive, ingress, fq, sending, worker, burst, offered, gates>>

FqNext ==
  \/ \E b \in fqScene.flows, bytes \in fqScene.sizes : Offer(b, bytes)
  \/ Sort \/ Serve \/ Sent \/ SortOne \/ ConnClosed \/ FqGate \/ FqTick

FqSpec == FqInit /\ [][FqNext]_fqVars

-----------------------------------------------------------------------------
\* Queue's byte and packet counters are what its flows hold, within the limits
\* enqueue sheds to; and no packet is stranded: a flow enqueue takes for listed is
\* on exactly one of the lists dequeue serves, once, and a flow with packets is
\* listed, though shedding and CoDel empty flows without touching the lists.
FqTypeOK ==
  /\ worker \in {"top", "send", "ended"} /\ burst \in 0..SendBatch
  /\ Len(ingress) <= Ingress /\ Len(sending) <= 1
  /\ fq.bytes = MapThenSumSet(LAMBDA b : SizeOf(fq.flows[b].packets), Buckets)
  /\ fq.packets = MapThenSumSet(LAMBDA b : Len(fq.flows[b].packets), Buckets)
  /\ fq.bytes <= QueueBytes /\ fq.packets <= QueuePackets
  /\ \A b \in Buckets :
       LET lists == fq.new \o fq.old
           times == Cardinality({i \in DOMAIN lists : lists[i] = b})
       IN /\ times = IF fq.flows[b].active THEN 1 ELSE 0
          /\ fq.flows[b].packets # <<>> => fq.flows[b].active

\* With packets queued, dequeue finds one to send, whatever the time: CoDel's
\* drops, several flows' in one call included, never empty the queue.
BacklogServed == fq.packets > 0 => Dequeue(fq).p # <<>>
=============================================================================
