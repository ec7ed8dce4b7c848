------------------------------- MODULE Files -------------------------------
(* Sending a file to a peer: the sender's durable outbox and the pass that   *)
(* flushes it, the recipient's queue of offers, the receive task with its    *)
(* resumption after a restart, and the decisions that travel back.           *)
(*                                                                           *)
(* Offers are numbered in the order they are queued. All of them carry the   *)
(* same file name and size, so that they compete for names in the download   *)
(* directory. Both daemons keep their queues in files that are rewritten in  *)
(* the step that changes them, so one variable stands for memory and file.   *)
EXTENDS Integers, Sequences, FiniteSets, FiniteSetsExt, SequencesExt

CONSTANTS
  Offers,        \* offer ids, 1..n
  FileScenes     \* bounds tried: how many offers, MAX_PENDING_FILES, how many
                 \* exchanges may fail, how often the daemons restart, and
                 \* whether the recipient has all the offers at the start (and
                 \* the sender, who then neither cancels nor restarts, is quiet)

Sides == {"sender", "recipient"}
Free == 0
Names == 0 .. 2 * Cardinality(Offers) - 1   \* name, "name (1)", ...: numbered_name
NoName == -1

VARIABLES
  bound,      \* the member of FileScenes of this behaviour
  outbox,     \* [Offers -> "new" | "queued" | "delivered" | "gone"]
  told,       \* how an offer left the outbox: done, declined or canceled
  tag,        \* offers whose blob the sender keeps
  live,       \* offers whose outgoing transfer can still be canceled
  flush,      \* [Sides -> the pass running for the peer]
  wire,       \* file messages under way, and offers being handled
  queue,      \* offers in pending_files, oldest first
  active_files,     \* offers in active_files
  receiver,       \* [Offers -> where the receive task is]
  cached,     \* offers whose bytes the recipient's store holds under its tag
  saved_as,   \* [Offers -> the name noted before the rename]
  temp,       \* offers whose temporary file is on disk
  dir,        \* [Names -> the offer saved under the name]
  decisions,  \* the recipient's decisions, oldest first
  timeouts, stops,
  stale,      \* history: offers whose outcome a later check could not see
  swept,      \* history: temporary files removed by a shutdown, name noted
  untried     \* history: what was queued for a side's pass and not taken yet

sendVars == <<outbox, told, tag, live>>
recvVars == <<queue, active_files, receiver, cached, saved_as, temp, dir>>
filesVars == <<bound, sendVars, flush, wire, recvVars, decisions, timeouts, stops, stale, swept, untried>>

NoPass == [st |-> "idle", mark |-> FALSE, todo |-> {}, at |-> 0, reply |-> "none", kick |-> FALSE]

FilesInit ==
  /\ bound \in FileScenes
  /\ LET given == IF bound.given THEN 1 .. bound.offers ELSE {} IN
     /\ outbox = [o \in Offers |-> IF o \in given THEN "delivered" ELSE "new"]
     /\ tag = given /\ live = given
     /\ queue = SetToSortSeq(given, <)
  /\ told = [o \in Offers |-> "none"]
  /\ flush = [s \in Sides |-> NoPass]
  /\ wire = {}
  /\ active_files = {}
  /\ receiver = [o \in Offers |-> "none"]
  /\ cached = {}
  /\ saved_as = [o \in Offers |-> NoName]
  /\ temp = {}
  /\ dir = [n \in Names |-> Free]
  /\ decisions = <<>>
  /\ timeouts = 0 /\ stops = 0
  /\ stale = {} /\ swept = {} /\ untried = {}

Queued(o) == o \in Range(queue)
Decided(o) == \E d \in Range(decisions) : d.offer = o
Decision(o) == CHOOSE d \in Range(decisions) : d.offer = o
Copies(o) == Cardinality({n \in Names : dir[n] = o})
Unanswered == Cardinality({i \in DOMAIN decisions : ~decisions[i].delivered})
Held == {o \in Offers : outbox[o] \in {"queued", "delivered"}}

\* A trigger for a side's pass: spawned now, run by Trigger.
Kicked(s) == [flush EXCEPT ![s].kick = TRUE]

-----------------------------------------------------------------------------
(* The sender's outbox.                                                      *)

queue_offer(o) ==
  /\ outbox[o] = "new" /\ o <= bound.offers /\ \A p \in Offers : p < o => outbox[p] # "new"
  /\ Cardinality(Held) < bound.cap
  /\ outbox' = [outbox EXCEPT ![o] = "queued"]
  /\ tag' = tag \cup {o}
  /\ live' = live \cup {o}
  /\ flush' = Kicked("sender")
  /\ untried' = untried \cup {<<"sender", o>>}
  /\ UNCHANGED <<bound, told, wire, recvVars, decisions, timeouts, stops, stale, swept>>

\* An entry leaves the outbox for good and its blob tag is dropped.
Settle(o, how) ==
  /\ outbox' = [outbox EXCEPT ![o] = IF o \in Held THEN "gone" ELSE @]
  /\ told' = [told EXCEPT ![o] = IF o \in Held THEN how ELSE @]
  /\ tag' = IF o \in Held THEN tag \ {o} ELSE tag
  /\ live' = IF o \in Held THEN live \ {o} ELSE live

\* `ray files cancel` of an undelivered send, or `cancel-transfer` of one
\* whose transfer has not ended.
cancel_send(o) ==
  /\ \/ outbox[o] = "queued"
     \/ outbox[o] = "delivered" /\ o \in live
  /\ ~bound.given
  /\ Settle(o, "canceled")
  /\ UNCHANGED <<bound, flush, wire, recvVars, decisions, timeouts, stops, stale, swept, untried>>

-----------------------------------------------------------------------------
(* The pass over a peer's queued offers and undelivered decisions.           *)

\* What the pass takes when it starts.
Snapshot(s) ==
  IF s = "sender" THEN {o \in Offers : outbox[o] = "queued"}
  ELSE {d.offer : d \in {e \in Range(decisions) : ~e.delivered}}

Taken(s) == {u \in untried : u[1] # s}

Trigger(s) ==
  /\ flush[s].kick
  /\ flush' = [flush EXCEPT ![s] =
       IF @.st = "idle"
       THEN [NoPass EXCEPT !.st = "pass", !.todo = Snapshot(s)]
       ELSE [@ EXCEPT !.kick = FALSE, !.mark = TRUE]]
  /\ untried' = IF flush[s].st = "idle" THEN Taken(s) ELSE untried
  /\ UNCHANGED <<bound, sendVars, wire, recvVars, decisions, timeouts, stops, stale, swept>>

\* The periodic sweep and the hook of a new connection to the peer. During a
\* pass they add a rerun and nothing else, so they are taken between passes.
Sweep(s) ==
  /\ flush[s].st = "idle" /\ ~flush[s].kick
  /\ IF s = "sender" THEN Held # {} ELSE Unanswered > 0
  /\ flush' = Kicked(s)
  /\ UNCHANGED <<bound, sendVars, wire, recvVars, decisions, timeouts, stops, stale, swept, untried>>

Kind(s, o) ==
  IF s = "sender" THEN "FileOffer"
  ELSE IF Decision(o).accepted THEN "FileCompleted" ELSE "FileDeclined"

\* The next entry of the pass is sent; the pass holds a copy taken when it
\* started, so an entry canceled since then is sent too.
Exchange(s) ==
  LET o == Min(flush[s].todo) IN
  /\ flush[s].st = "pass" /\ flush[s].todo # {}
  /\ flush' = [flush EXCEPT ![s].st = "sent", ![s].at = o, ![s].reply = "none",
                            ![s].todo = @ \ {o}]
  /\ wire' = wire \cup {[from |-> s, kind |-> Kind(s, o), offer |-> o, seen |-> -1, late |-> FALSE]}
  /\ UNCHANGED <<bound, sendVars, recvVars, decisions, timeouts, stops, stale, swept, untried>>

\* Nobody waits any more for the answers to a side's messages.
Abandoned(s) == {IF m.from = s THEN [m EXCEPT !.late = TRUE] ELSE m : m \in wire}

\* The exchange fails: the message is lost, or it is answered too late.
exchange_failed(s) ==
  /\ flush[s].st = "sent" /\ timeouts < bound.timeouts
  /\ timeouts' = timeouts + 1
  /\ flush' = [flush EXCEPT ![s].st = "pass", ![s].todo = {}, ![s].reply = "none"]
  /\ wire' \in {Abandoned(s), {m \in Abandoned(s) : m.from # s \/ m.seen # -1}}
  /\ UNCHANGED <<bound, sendVars, recvVars, decisions, stops, stale, swept, untried>>

\* The sender's pass reads the reply.
Replied ==
  LET f == flush["sender"]
      o == f.at IN
  /\ f.st = "sent" /\ f.reply # "none"
  /\ flush' = [flush EXCEPT !["sender"].st = "pass", !["sender"].reply = "none"]
  /\ CASE f.reply = "Received" ->
            /\ outbox' = [outbox EXCEPT ![o] = IF @ = "queued" THEN "delivered" ELSE @]
            /\ UNCHANGED <<told, tag, live>>
       [] f.reply = "Completed" -> Settle(o, "done")
       [] f.reply = "Declined" -> Settle(o, "declined")
  /\ UNCHANGED <<bound, wire, recvVars, decisions, timeouts, stops, stale, swept, untried>>

\* The recipient's pass reads the receipt of a decision.
Confirmed ==
  LET f == flush["recipient"] IN
  /\ f.st = "sent" /\ f.reply # "none"
  /\ flush' = [flush EXCEPT !["recipient"].st = "pass", !["recipient"].reply = "none"]
  /\ decisions' = [i \in DOMAIN decisions |->
       IF decisions[i].offer = f.at THEN [decisions[i] EXCEPT !.delivered = TRUE]
       ELSE decisions[i]]
  /\ UNCHANGED <<bound, sendVars, wire, recvVars, timeouts, stops, stale, swept, untried>>

\* Mutant: the mark is not looked at.
release_unless_rerun_blind(s) ==
  /\ flush[s].st = "pass" /\ flush[s].todo = {}
  /\ flush' = [flush EXCEPT ![s] = [NoPass EXCEPT !.kick = flush[s].kick]]
  /\ UNCHANGED <<bound, sendVars, wire, recvVars, decisions, timeouts, stops, stale, swept, untried>>

release_unless_rerun(s) ==
  /\ flush[s].st = "pass" /\ flush[s].todo = {}
  /\ flush' = [flush EXCEPT ![s] =
       IF @.mark THEN [@ EXCEPT !.mark = FALSE, !.todo = Snapshot(s)]
       ELSE [NoPass EXCEPT !.kick = flush[s].kick]]
  /\ untried' = IF flush'[s].st = "pass" THEN Taken(s) ELSE untried
  /\ UNCHANGED <<bound, sendVars, wire, recvVars, decisions, timeouts, stops, stale, swept>>

-----------------------------------------------------------------------------
(* The recipient answers a file message.                                     *)

Answered(m, r) == IF m.late THEN flush ELSE [flush EXCEPT ![m.from].reply = r]

\* queue_incoming_offer, first half: the decisions are read and unlocked.
CheckDecisions(m) ==
  /\ m.kind = "FileOffer" /\ m.seen = -1
  /\ IF Decided(m.offer)
     THEN /\ flush' = Answered(m,
                        IF Decision(m.offer).accepted THEN "Completed" ELSE "Declined")
          /\ wire' = wire \ {m}
     ELSE /\ wire' = (wire \ {m}) \cup {[m EXCEPT !.seen = Unanswered]}
          /\ UNCHANGED flush
  /\ UNCHANGED <<bound, sendVars, recvVars, decisions, timeouts, stops, stale, swept, untried>>

\* Second half, under the locks of the queue and of the active receives.
QueueIncoming(m) ==
  LET o == m.offer
      known == Queued(o) \/ o \in active_files
      full == Len(queue) + Cardinality(active_files) + m.seen >= bound.cap IN
  /\ m.kind = "FileOffer" /\ m.seen # -1
  /\ wire' = wire \ {m}
  /\ flush' = Answered(m, IF full /\ ~known THEN "Declined" ELSE "Received")
  /\ queue' = IF known \/ full THEN queue ELSE Append(queue, o)
  /\ UNCHANGED <<bound, sendVars, active_files, receiver, cached, saved_as, temp, dir, decisions, timeouts, stops, stale, swept, untried>>

\* record_remote_completion and record_remote_decline at the sender.
RemoteDecision(m) ==
  /\ m.kind \in {"FileCompleted", "FileDeclined"}
  /\ wire' = wire \ {m}
  /\ flush' = Answered(m, "Received")
  /\ Settle(m.offer, IF m.kind = "FileCompleted" THEN "done" ELSE "declined")
  /\ UNCHANGED <<bound, recvVars, decisions, timeouts, stops, stale, swept, untried>>

-----------------------------------------------------------------------------
(* Decisions.                                                                *)

HasRoom == Len(decisions) < bound.cap \/ \E d \in Range(decisions) : d.delivered

\* Mutant: nothing makes way at the cap.
Push_grows(o, accepted) ==
  Append(decisions, [offer |-> o, accepted |-> accepted, delivered |-> FALSE])

\* A decision is pushed; at the cap the oldest delivered one makes way.
Push(o, accepted) ==
  LET kept == IF Len(decisions) < bound.cap THEN decisions
              ELSE RemoveAt(decisions, Min({i \in DOMAIN decisions : decisions[i].delivered}))
  IN Append(kept, [offer |-> o, accepted |-> accepted, delivered |-> FALSE])

\* A handler that passed the check before the decision does not see it, and
\* none does once it is evicted.
Stale(o) ==
  stale \cup {p \in Offers : p = o /\ \E m \in wire : m.offer = o /\ m.seen # -1}
        \cup {p \in Offers : Decided(p) /\ ~\E d \in Range(Push(o, TRUE)) : d.offer = p}

reject_file(o) ==
  /\ Queued(o) /\ HasRoom
  /\ decisions' = Push(o, FALSE)
  /\ stale' = Stale(o)
  /\ queue' = SelectSeq(queue, LAMBDA p : p # o)
  /\ cached' = cached \ {o}
  /\ saved_as' = [saved_as EXCEPT ![o] = NoName]
  /\ flush' = Kicked("recipient")
  /\ untried' = untried \cup {<<"recipient", o>>}
  /\ UNCHANGED <<bound, sendVars, wire, active_files, receiver, temp, dir, timeouts, stops, swept>>

-----------------------------------------------------------------------------
(* The receive task.                                                         *)

\* Bounded: an offer saved twice is not received again.
start_receive(o) ==
  /\ Queued(o) /\ Copies(o) <= 1
  /\ queue' = SelectSeq(queue, LAMBDA p : p # o)
  /\ active_files' = active_files \cup {o}
  /\ receiver' = [receiver EXCEPT ![o] = "run"]
  /\ UNCHANGED <<bound, sendVars, flush, wire, cached, saved_as, temp, dir, decisions, timeouts, stops, stale, swept, untried>>

\* Mutants: no look for a saved file; a look that ignores the temporary file.
already_saved_never(o) == FALSE
already_saved_untested(o) == saved_as[o] # NoName /\ dir[saved_as[o]] # Free

\* An earlier run renamed the file and stopped before recording it.
already_saved(o) == saved_as[o] # NoName /\ o \notin temp /\ dir[saved_as[o]] # Free

FoundSaved(o) ==
  /\ receiver[o] = "run" /\ already_saved(o)
  /\ receiver' = [receiver EXCEPT ![o] = "saved"]
  /\ UNCHANGED <<bound, sendVars, flush, wire, queue, active_files, cached, saved_as, temp, dir, decisions, timeouts, stops, stale, swept, untried>>

\* Mutant: the sender's copy goes as soon as it has been pulled.
Fetched_reclaims(o) ==
  /\ receiver[o] = "run" /\ ~already_saved(o)
  /\ o \in tag \cup cached
  /\ cached' = cached \cup {o}
  /\ tag' = tag \ {o}
  /\ temp' = temp \cup {o}
  /\ receiver' = [receiver EXCEPT ![o] = "writing"]
  /\ UNCHANGED <<bound, outbox, told, live, flush, wire, queue, active_files, saved_as, dir, decisions, timeouts, stops, stale, swept, untried>>

\* The blob is complete, after any number of resumed fetches, and the
\* temporary file is created in place of a leftover one.
Fetched(o) ==
  /\ receiver[o] = "run" /\ ~already_saved(o)
  /\ o \in tag \cup cached
  /\ cached' = cached \cup {o}
  /\ live' = IF o \in cached THEN live ELSE live \ {o}
  /\ temp' = temp \cup {o}
  /\ receiver' = [receiver EXCEPT ![o] = "writing"]
  /\ UNCHANGED <<bound, outbox, told, tag, flush, wire, queue, active_files, saved_as, dir, decisions, timeouts, stops, stale, swept, untried>>

\* A failed or canceled receive puts a plain offer back; what was written is
\* removed with the staged file.
ReceiveFailed(o) ==
  /\ receiver[o] \in {"run", "writing"}
  /\ receiver' = [receiver EXCEPT ![o] = "none"]
  /\ active_files' = active_files \ {o}
  /\ queue' = Append(IF Len(queue) < bound.cap THEN queue ELSE Tail(queue), o)
  /\ saved_as' = [saved_as EXCEPT ![o] = NoName]
  /\ temp' = IF receiver[o] = "writing" THEN temp \ {o} ELSE temp
  /\ stale' = IF receiver[o] = "run" /\ already_saved(o) THEN stale \cup {o} ELSE stale
  /\ UNCHANGED <<bound, sendVars, flush, wire, cached, dir, decisions, timeouts, stops, swept, untried>>

\* Staged::commit notes the first free name before it renames to it.
FreeName == Min({n \in Names : dir[n] = Free})

note_saving_as(o) ==
  /\ receiver[o] \in {"writing", "naming"}
  /\ saved_as' = [saved_as EXCEPT ![o] = FreeName]
  /\ receiver' = [receiver EXCEPT ![o] = "named"]
  /\ UNCHANGED <<bound, sendVars, flush, wire, queue, active_files, cached, temp, dir, decisions, timeouts, stops, stale, swept, untried>>

\* The rename never replaces a file: a name taken since is given up for the next.
commit(o) ==
  /\ receiver[o] = "named"
  /\ IF dir[saved_as[o]] = Free
     THEN /\ dir' = [dir EXCEPT ![saved_as[o]] = o]
          /\ temp' = temp \ {o}
          /\ receiver' = [receiver EXCEPT ![o] = "saved"]
     ELSE /\ receiver' = [receiver EXCEPT ![o] = "naming"]
          /\ UNCHANGED <<dir, temp>>
  /\ UNCHANGED <<bound, sendVars, flush, wire, queue, active_files, cached, saved_as, decisions, timeouts, stops, stale, swept, untried>>

record_completed_offer(o) ==
  /\ receiver[o] = "saved"
  /\ decisions' = IF HasRoom THEN Push(o, TRUE) ELSE decisions
  /\ stale' = IF HasRoom THEN Stale(o) ELSE stale \cup {o}
  /\ receiver' = [receiver EXCEPT ![o] = "recorded"]
  /\ UNCHANGED <<bound, sendVars, flush, wire, queue, active_files, cached, saved_as, temp, dir, timeouts, stops, swept, untried>>

forget_active(o) ==
  /\ receiver[o] = "recorded"
  /\ receiver' = [receiver EXCEPT ![o] = "none"]
  /\ active_files' = active_files \ {o}
  /\ cached' = cached \ {o}
  /\ saved_as' = [saved_as EXCEPT ![o] = NoName]
  /\ flush' = IF Decided(o) THEN Kicked("recipient") ELSE flush
  /\ untried' = IF Decided(o) THEN untried \cup {<<"recipient", o>>} ELSE untried
  /\ UNCHANGED <<bound, sendVars, wire, queue, temp, dir, decisions, timeouts, stops, stale, swept>>

-----------------------------------------------------------------------------
(* Restarts.                                                                 *)

\* Offers already decided are dropped when the queue is loaded.
Undecided(S) == {o \in S : ~Decided(o)}

\* The recipient stops and starts again: accepted receives are resumed. A
\* shutdown, unlike a crash, drops the receives that are writing.
RecipientRestarts(shutdown) ==
  LET kept == Undecided(active_files)
      writing == {o \in active_files : receiver[o] = "writing"} IN
  /\ stops < bound.stops
  /\ stops' = stops + 1
  /\ active_files' = kept
  /\ receiver' = [o \in Offers |-> IF o \in kept THEN "run" ELSE "none"]
  /\ queue' = SelectSeq(queue, LAMBDA p : ~Decided(p))
  /\ saved_as' = [o \in Offers |-> IF o \in kept THEN saved_as[o] ELSE NoName]
  /\ temp' = IF shutdown THEN temp \ writing ELSE temp
  /\ swept' = IF shutdown THEN swept \cup {o \in writing : saved_as[o] # NoName} ELSE swept
  /\ flush' = [flush EXCEPT !["recipient"] = NoPass,
                            !["sender"] = IF \E m \in wire : m.from = "sender" /\ m.seen # -1 /\ ~m.late
                                          THEN [@ EXCEPT !.st = "pass", !.todo = {}] ELSE @]
  /\ wire' = {m \in Abandoned("recipient") : m.from # "sender" \/ m.seen = -1}
  /\ untried' = Taken("recipient")
  /\ UNCHANGED <<bound, sendVars, cached, dir, decisions, timeouts, stale>>

SenderRestarts ==
  /\ ~bound.given /\ stops < bound.stops
  /\ stops' = stops + 1
  /\ live' = Held
  /\ flush' = [flush EXCEPT !["sender"] = NoPass]
  /\ wire' = Abandoned("sender")
  /\ untried' = Taken("sender")
  /\ UNCHANGED <<bound, outbox, told, tag, recvVars, decisions, timeouts, stale, swept>>

FilesNext ==
  \/ \E s \in Sides : Trigger(s) \/ Sweep(s) \/ Exchange(s) \/ exchange_failed(s)
                       \/ release_unless_rerun(s)
  \/ Replied \/ Confirmed
  \/ \E m \in wire : CheckDecisions(m) \/ QueueIncoming(m) \/ RemoteDecision(m)
  \/ \E o \in Offers :
       \/ queue_offer(o) \/ cancel_send(o) \/ reject_file(o) \/ start_receive(o)
       \/ FoundSaved(o) \/ Fetched(o) \/ ReceiveFailed(o) \/ note_saving_as(o) \/ commit(o)
       \/ record_completed_offer(o) \/ forget_active(o)
  \/ RecipientRestarts(TRUE) \/ RecipientRestarts(FALSE) \/ SenderRestarts

FilesSpec == FilesInit /\ [][FilesNext]_filesVars

-----------------------------------------------------------------------------
\* The values the variables take; the recipient's two queues keep to the cap.
FilesTypeOK ==
  /\ bound \in FileScenes
  /\ outbox \in [Offers -> {"new", "queued", "delivered", "gone"}]
  /\ told \in [Offers -> {"none", "done", "declined", "canceled"}]
  /\ tag \subseteq Offers /\ live \subseteq Offers /\ cached \subseteq Offers
  /\ temp \subseteq Offers /\ active_files \subseteq Offers
  /\ stale \subseteq Offers /\ swept \subseteq Offers /\ untried \subseteq Sides \X Offers
  /\ \A s \in Sides : /\ flush[s].st \in {"idle", "pass", "sent"}
                       /\ flush[s].todo \subseteq Offers
                       /\ flush[s].reply \in {"none", "Received", "Completed", "Declined"}
  /\ Range(queue) \subseteq Offers
  /\ receiver \in [Offers -> {"none", "run", "writing", "naming", "named", "saved", "recorded"}]
  /\ saved_as \in [Offers -> Names \cup {NoName}]
  /\ dir \in [Names -> Offers \cup {Free}]
  /\ \A d \in Range(decisions) : d.offer \in Offers
  /\ Len(queue) <= bound.cap /\ Len(decisions) <= bound.cap
  /\ timeouts \in 0 .. bound.timeouts /\ stops \in 0 .. bound.stops

\* An offer is saved under one name only, through lost receipts, repeated
\* offers and restarts between the rename and the record of the delivery;
\* the exceptions are the offers a handler took for undecided.
SavedOnce == \A o \in Offers : Copies(o) <= 1 \/ o \in stale

\* An offer is confirmed to its sender, who then drops the bytes, only when
\* the file is in the directory; the exception is a resumed receive whose
\* temporary file a shutdown removed after its name was noted.
ConfirmedSaved ==
  \A o \in Offers :
    told[o] = "done" => Copies(o) > 0 \/ o \in swept

\* The sender keeps the bytes of an offer as long as the recipient may still
\* ask for them: it holds the offer, has not decided, and nobody canceled.
BytesKept ==
  \A o \in Offers :
    (Queued(o) \/ o \in active_files) /\ ~Decided(o) /\ told[o] # "canceled"
      => o \in tag \/ o \in stale \/ told[o] = "declined"

\* An offer or a decision queued while a pass runs is not forgotten: until
\* some pass has taken it, its trigger is waiting or has marked the running
\* pass for a rerun.
TriggerServed ==
  \A s \in Sides, o \in Offers :
    <<s, o>> \in untried => flush[s].kick \/ flush[s].mark
====
