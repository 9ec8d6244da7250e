------------------------------ MODULE Outbound ------------------------------
(***************************************************************************)
(* Stanzas for other servers: the table of links, their queues, the tasks  *)
(* that dial and write, and the bidirectional streams a queue may be       *)
(* handed to (lonewolf-core, s2s/outbound and inbound/stream.rs).          *)
(*                                                                         *)
(* For each pair of domains the table has a link, a back-off after a       *)
(* failure, or nothing.  The queue of a link is owned by one task at a     *)
(* time: the link's own, which dials, or an inbound stream of the same     *)
(* pair.  It moves under the table's lock: offered to a stream that stands *)
(* by, taken, and on the stream's release offered again or given to a new  *)
(* task.  A queue is its channel, the stanza in hand and the counter of    *)
(* reservations.  Stanzas of a pair are numbered as they are admitted.     *)
(***************************************************************************)
EXTENDS Naturals, Sequences, FiniteSets

CONSTANTS Pairs,         \* pairs of a local and a remote domain
          Streams,       \* inbound streams that negotiated bidi
          None,          \* no pair, no stream
          MaxLinks,      \* max_outbound_links
          MaxQueued,     \* max_queued_stanzas_per_link
          MaxStanzas,    \* bound: stanzas admitted for a pair
          MaxQueues      \* bound: queues made in a behaviour

OutboundAssumption ==
  /\ MaxLinks \in Nat \ {0} /\ MaxQueued \in Nat \ {0}
  /\ MaxStanzas \in Nat /\ MaxQueues \in Nat
  /\ None \notin Streams \cup Pairs

VARIABLES
  stopped,    \* State.stopped; the stop signal is sent with it
  entries,    \* State.entries
  standby,    \* State.standby: streams, the latest last
  queue,      \* the queues: where each is and what it holds
  stream,     \* the inbound streams
  admitted,   \* stanzas admitted for a pair
  sent,       \* what was written to the peer, in order
  bounced,    \* <<pair, number>> of the stanzas given to bounce, which answers
              \* those that may be answered and counts the others
  lost        \* <<pair, number, reason>> of those counted as dropped

fates == <<sent, bounced, lost>>
vars == <<stopped, entries, standby, queue, stream, admitted, sent, bounced, lost>>

Queues == 1 .. MaxQueues

Free    == [kind |-> "none", queue |-> 0, due |-> FALSE]
Link(q) == [kind |-> "link", queue |-> q, due |-> FALSE]
\* due: the delay has passed
Backoff(due) == [kind |-> "backoff", queue |-> 0, due |-> due]

\* current is the number of the stanza in hand, 0 for none; its phase is
\* "kept" while it has its reservation, "writing" once the writer has begun,
\* "rejected" when it is larger than the peer takes.
NoQueue == [pair |-> None, pc |-> "none", by |-> None,
            chan |-> <<>>, current |-> 0, phase |-> "kept", count |-> 0]

Init ==
  /\ stopped = FALSE
  /\ entries = [p \in Pairs |-> Free]
  /\ standby = [p \in Pairs |-> <<>>]
  /\ queue = [q \in Queues |-> NoQueue]
  /\ stream = [s \in Streams |-> "out"]
  /\ admitted = [p \in Pairs |-> 0]
  /\ sent = [p \in Pairs |-> <<>>]
  /\ bounced = {}
  /\ lost = {}

-----------------------------------------------------------------------------
(* Queues and who has them *)

\* State::owns
Owns(q) == entries[queue[q].pair] = Link(q)

\* LinkQueue::is_drained
Drained(q) == queue[q].chan = <<>> /\ queue[q].current = 0

\* What is left of a queue in the order it is taken out.
Left(q) == (IF queue[q].current = 0 THEN <<>> ELSE <<queue[q].current>>) \o queue[q].chan
LeftSet(q) == {Left(q)[k] : k \in DOMAIN Left(q)}

\* The queue in a stream's channel, and the queues it has to give back.
Assigned(s) == {q \in Queues : queue[q].pc = "assigned" /\ queue[q].by = s}
Served(s)   == {q \in Queues : queue[q].pc = "served" /\ queue[q].by = s}

\* Someone writes from the queue: its task, or a stream that has not ended.
Serving(q) == \/ queue[q].pc = "connected"
              \/ queue[q].pc = "served" /\ stream[queue[q].by] = "open"

\* The queue is dropped, and what is left of it counted.
Dropped(q) == [queue[q] EXCEPT !.pc = "gone", !.by = None, !.chan = <<>>,
                               !.current = 0, !.phase = "kept", !.count = 0]
Losses(q) == {<<queue[q].pair, n, "shutdown">> : n \in LeftSet(q)}

-----------------------------------------------------------------------------
(* RemoteRouter::route *)

Occupied == {p \in Pairs : entries[p].kind # "none"}

\* Mutant: the table is allowed one entry too many.
Evictions_OneMore(p) ==
  IF entries[p].kind = "none" /\ Cardinality(Occupied) > MaxLinks
    THEN {{x} : x \in {y \in Pairs : entries[y] = Backoff(TRUE)}}
    ELSE {{}}

\* State::retry_count for a pair without an entry in a full table: a back-off
\* that is over makes room; if there is none the stanza is refused.
Evictions(p) ==
  IF entries[p].kind = "none" /\ Cardinality(Occupied) >= MaxLinks
    THEN {{x} : x \in {y \in Pairs : entries[y] = Backoff(TRUE)}}
    ELSE {{}}

\* RemoteRouter::admit to a link that exists: LinkHandle::enqueue.
Enqueue(p) ==
  /\ ~stopped
  /\ admitted[p] < MaxStanzas
  /\ entries[p].kind = "link"
  /\ LET q == entries[p].queue
     IN  /\ queue[q].count < MaxQueued
         /\ queue[q].pc \notin {"gone", "bouncing", "leaving"}
         /\ queue' = [queue EXCEPT ![q].chan = Append(@, admitted[p] + 1),
                                   ![q].count = @ + 1]
  /\ admitted' = [admitted EXCEPT ![p] = @ + 1]
  /\ UNCHANGED <<stopped, entries, standby, stream, fates>>

\* The pair has no entry, or one whose delay is over.
Open(p) == entries[p] \in {Free, Backoff(TRUE)}

\* RemoteRouter::admit that makes the link, and route, which starts its task.
Launch(p) ==
  /\ ~stopped
  /\ admitted[p] < MaxStanzas
  /\ Open(p)
  /\ \E q \in Queues, evicted \in Evictions(p) :
       /\ queue[q].pc = "none"
       /\ \A r \in 1 .. q - 1 : queue[r].pc # "none"
       /\ entries' = [x \in Pairs |-> IF x = p THEN Link(q)
                                      ELSE IF x \in evicted THEN Free ELSE entries[x]]
       /\ queue' = [queue EXCEPT ![q] = [NoQueue EXCEPT !.pair = p, !.pc = "top",
                                           !.chan = <<admitted[p] + 1>>, !.count = 1]]
  /\ admitted' = [admitted EXCEPT ![p] = @ + 1]
  /\ UNCHANGED <<stopped, standby, stream, fates>>

\* The same with a stanza too large for a queue: it is refused after room was
\* made for it.
LaunchRefused(p) ==
  /\ ~stopped
  /\ Open(p)
  /\ \E evicted \in Evictions(p) \ {{}} :
       entries' = [x \in Pairs |-> IF x \in evicted THEN Free ELSE entries[x]]
  /\ UNCHANGED <<stopped, standby, queue, stream, admitted, fates>>

\* Time passes: the delay of a back-off is over.
Elapse(p) ==
  /\ entries[p] = Backoff(FALSE)
  /\ entries' = [entries EXCEPT ![p] = Backoff(TRUE)]
  /\ UNCHANGED <<stopped, standby, queue, stream, admitted, fates>>

-----------------------------------------------------------------------------
(* Handing a queue to an inbound stream *)

\* RemoteRouter::register_bidi
Register(s, p) ==
  /\ ~stopped
  /\ stream[s] = "out"
  /\ stream' = [stream EXCEPT ![s] = "open"]
  /\ standby' = [standby EXCEPT ![p] = Append(@, s)]
  /\ entries' = [entries EXCEPT ![p] = IF @.kind = "backoff" THEN Free ELSE @]
  /\ UNCHANGED <<stopped, queue, admitted, fates>>

\* State::offer_standby: the latest stream whose channel is empty, if any.
Takers(sb) ==
  LET empty == {k \in DOMAIN sb : ~stopped /\ Assigned(sb[k]) = {}}
  IN  {sb[k] : k \in {j \in empty : \A i \in empty : i <= j}}

HandedTo(q, s) == [queue[q] EXCEPT !.pc = "assigned", !.by = s]

\* BidiRegistration::assigned, in duplex::sending
TakeAssigned(s) ==
  /\ stream[s] = "open"
  /\ Served(s) = {}
  /\ \E q \in Assigned(s) : queue' = [queue EXCEPT ![q].pc = "served"]
  /\ UNCHANGED <<stopped, entries, standby, stream, admitted, fates>>

\* duplex::run_inbound ends: the peer, the certificate, the idle timer or the
\* shutdown, while no write is under way.
EndStream(s) ==
  /\ stream[s] = "open"
  /\ \A q \in Served(s) : queue[q].phase = "kept"
  /\ stream' = [stream EXCEPT ![s] = "ended"]
  /\ UNCHANGED <<stopped, entries, standby, queue, admitted, fates>>

\* Mutant: a queue that was assigned and not yet taken is overlooked.
GivenBack_TakenOnly(s) == Served(s)

\* The queues release_inner finds: the one passed to it and the one in the
\* channel.
GivenBack(s) == Served(s) \cup Assigned(s)

\* Vec::retain of the other streams: a stream stands by once at most.
Without(sb, s) ==
  LET at == {k \in DOMAIN sb : sb[k] = s}
      k  == CHOOSE k \in at : TRUE
  IN  IF at = {} THEN sb ELSE SubSeq(sb, 1, k - 1) \o SubSeq(sb, k + 1, Len(sb))

\* BidiRegistration::release
Release(s) ==
  /\ stream[s] = "ended"
  /\ LET without == [p \in Pairs |-> Without(standby[p], s)]
         back    == GivenBack(s)
         end     == {q \in back : stopped \/ ~Owns(q) \/ Drained(q)}
         After(q) ==
           LET takers == Takers(without[queue[q].pair])
           IN  IF takers = {} THEN [queue[q] EXCEPT !.pc = "top", !.by = None]
               ELSE HandedTo(q, CHOOSE x \in takers : TRUE)
         overlooked == Assigned(s) \ back
     IN  /\ standby' = without
         /\ entries' = [p \in Pairs |-> IF \E q \in end : entries[p] = Link(q)
                                          THEN Free ELSE entries[p]]
         /\ queue' = [q \in Queues |-> IF q \in end \cup overlooked THEN Dropped(q)
                                       ELSE IF q \in back THEN After(q) ELSE queue[q]]
         /\ lost' = lost \cup UNION {Losses(q) : q \in end}
  /\ stream' = [stream EXCEPT ![s] = "out"]
  /\ UNCHANGED <<stopped, admitted, sent, bounced>>

-----------------------------------------------------------------------------
(* Writing: link::serve, duplex::sending and link::write *)

\* The next stanza is taken in hand.
Receive(q) ==
  /\ Serving(q)
  /\ queue[q].current = 0
  /\ queue[q].chan # <<>>
  /\ queue' = [queue EXCEPT ![q].current = Head(queue[q].chan), ![q].chan = Tail(@)]
  /\ UNCHANGED <<stopped, entries, standby, stream, admitted, fates>>

\* The stanza in hand can be written: neither stopped nor expired.
Ready(q) ==
  /\ Serving(q)
  /\ queue[q].current # 0
  /\ queue[q].phase = "kept"
  /\ ~stopped

\* The first poll of the write drops the reservation.
BeginWrite(q) ==
  /\ Ready(q)
  /\ queue' = [queue EXCEPT ![q].phase = "writing", ![q].count = @ - 1]
  /\ UNCHANGED <<stopped, entries, standby, stream, admitted, fates>>

\* The hand is empty again.
Put(q) == [queue[q] EXCEPT !.current = 0, !.phase = "kept"]

\* The write succeeds. A flush that fails later does not take it back.
WriteDone(q) ==
  /\ Serving(q)
  /\ queue[q].phase = "writing"
  /\ queue' = [queue EXCEPT ![q] = Put(q)]
  /\ sent' = [sent EXCEPT ![queue[q].pair] = Append(@, queue[q].current)]
  /\ UNCHANGED <<stopped, entries, standby, stream, admitted, bounced, lost>>

\* Mutant: an interrupted stanza is kept and written again.
Interrupted_Kept(q) == [queue[q] EXCEPT !.phase = "kept", !.count = @ + 1]

\* A stanza whose write was begun is given up.
Interrupted(q) == Put(q)

\* The write fails, stalls, or is cut short by the stop, the expiry or the
\* other half of the stream: the connection ends.
WriteFails(q) ==
  /\ Serving(q)
  /\ queue[q].phase = "writing"
  /\ queue' = [queue EXCEPT ![q] = [Interrupted(q) EXCEPT
                                      !.pc = IF @ = "connected" THEN "closing" ELSE @]]
  /\ stream' = [s \in Streams |-> IF q \in Served(s) THEN "ended" ELSE stream[s]]
  /\ lost' = lost \cup {<<queue[q].pair, queue[q].current, "connection">>}
  /\ UNCHANGED <<stopped, entries, standby, admitted, sent, bounced>>

\* link::discard: the stanza cannot be prepared.
Discard(q) ==
  /\ Ready(q)
  /\ queue' = [queue EXCEPT ![q] = [Put(q) EXCEPT !.count = @ - 1]]
  /\ lost' = lost \cup {<<queue[q].pair, queue[q].current, "internal">>}
  /\ UNCHANGED <<stopped, entries, standby, stream, admitted, sent, bounced>>

\* The stanza is larger than the peer takes ...
RejectSize(q) ==
  /\ Ready(q)
  /\ queue' = [queue EXCEPT ![q].phase = "rejected", ![q].count = @ - 1]
  /\ UNCHANGED <<stopped, entries, standby, stream, admitted, fates>>

\* ... and reject_peer_size bounces it, unless the router was stopped.
BounceRejected(q) ==
  LET id == <<queue[q].pair, queue[q].current>>
  IN  /\ Serving(q)
      /\ queue[q].phase = "rejected"
      /\ queue' = [queue EXCEPT ![q] = Put(q)]
      /\ bounced' = IF stopped THEN bounced ELSE bounced \cup {id}
      /\ lost' = IF stopped THEN lost \cup {<<id[1], id[2], "shutdown">>} ELSE lost
      /\ UNCHANGED <<stopped, entries, standby, stream, admitted, sent>>

-----------------------------------------------------------------------------
(* The task of a link: link::run *)

\* A task without bounds on its next step: the other variables stay.
Goto(q, pc) ==
  /\ queue' = [queue EXCEPT ![q].pc = pc]
  /\ UNCHANGED <<stopped, entries, standby, stream, admitted, fates>>

\* Inner::offer_standby
HandOff(q, s) ==
  /\ queue' = [queue EXCEPT ![q] = HandedTo(q, s)]
  /\ UNCHANGED <<stopped, entries, standby, stream, admitted, fates>>

\* The head of the loop.
Top(q) ==
  LET takers == IF Owns(q) THEN Takers(standby[queue[q].pair]) ELSE {}
  IN  /\ queue[q].pc = "top"
      /\ \/ stopped /\ Goto(q, "leaving")
         \/ \E s \in takers : HandOff(q, s)
         \/ ~stopped /\ takers = {} /\ Goto(q, "dialing")

\* connect::establish succeeds ...
Connect(q) == queue[q].pc = "dialing" /\ ~stopped /\ Goto(q, "connected")

\* Mutant: dialing is not interrupted by the stop.
DialStopped_Never(q) == FALSE /\ UNCHANGED vars

\* ... is interrupted by the stop ...
DialStopped(q) == queue[q].pc = "dialing" /\ stopped /\ Goto(q, "leaving")

\* ... or fails: Inner::failed.
DialFails(q) ==
  LET p == queue[q].pair
      takers == Takers(standby[p])
  IN  /\ queue[q].pc = "dialing"
      /\ \/ /\ ~Owns(q) \/ stopped
            /\ entries' = [entries EXCEPT ![p] = IF Owns(q) THEN Free ELSE @]
            /\ queue' = [queue EXCEPT ![q].pc = "leaving"]
            /\ UNCHANGED <<stopped, standby, stream, admitted, fates>>
         \/ Owns(q) /\ \E s \in takers : HandOff(q, s)
         \/ /\ Owns(q) /\ ~stopped /\ takers = {}
            /\ entries' = [entries EXCEPT ![p] = Backoff(FALSE)]
            /\ queue' = [queue EXCEPT ![q].pc = "bouncing"]
            /\ UNCHANGED <<stopped, standby, stream, admitted, fates>>

\* The queue of a link that failed is answered stanza by stanza; a stop drops
\* the stanza that is being answered and ends the loop.
Bounce(q) ==
  /\ queue[q].pc = "bouncing"
  /\ \/ Drained(q) /\ Goto(q, "leaving")
     \/ /\ ~Drained(q)
        /\ LET n == Head(Left(q))
               rest == [queue[q] EXCEPT !.current = 0, !.chan = Tail(Left(q)),
                                        !.count = @ - 1]
           IN  /\ queue' = [queue EXCEPT ![q] = IF stopped THEN [rest EXCEPT !.pc = "leaving"]
                                                           ELSE rest]
               /\ bounced' = IF stopped THEN bounced
                                        ELSE bounced \cup {<<queue[q].pair, n>>}
               /\ lost' = IF stopped THEN lost \cup {<<queue[q].pair, n, "shutdown">>}
                                     ELSE lost
        /\ UNCHANGED <<stopped, entries, standby, stream, admitted, sent>>

\* Mutant: the stanza in hand goes to the end of the queue.
Retained_AtTheEnd(q) ==
  [queue[q] EXCEPT !.pc = "closing", !.current = 0,
                   !.chan = IF queue[q].current = 0 THEN @ ELSE Append(@, queue[q].current)]

\* What the connection leaves in the queue: a stanza in hand that was not
\* begun stays in hand.
Retained(q) == [queue[q] EXCEPT !.pc = "closing"]

\* The connection ends while no write is under way.
Close(q) ==
  /\ queue[q].pc = "connected"
  /\ queue[q].phase = "kept"
  /\ queue' = [queue EXCEPT ![q] = Retained(q)]
  /\ UNCHANGED <<stopped, entries, standby, stream, admitted, fates>>

\* Mutant: the stanza in hand is forgotten.
NothingLeft_ChannelOnly(q) == queue[q].chan = <<>>

\* The test after a connection.
NothingLeft(q) == Drained(q)

\* The end of the loop: without work the entry goes, otherwise dial again.
Reconsider(q) ==
  /\ queue[q].pc = "closing"
  /\ \/ /\ stopped \/ NothingLeft(q) \/ ~Owns(q)
        /\ entries' = [p \in Pairs |-> IF entries[p] = Link(q) THEN Free ELSE entries[p]]
        /\ queue' = [queue EXCEPT ![q].pc = "leaving"]
        /\ UNCHANGED <<stopped, standby, stream, admitted, fates>>
     \/ ~stopped /\ ~NothingLeft(q) /\ Owns(q) /\ Goto(q, "top")

\* close, shutdown_queue, Inner::remove
Leave(q) ==
  /\ queue[q].pc = "leaving"
  /\ queue' = [queue EXCEPT ![q] = Dropped(q)]
  /\ lost' = lost \cup Losses(q)
  /\ entries' = [p \in Pairs |-> IF entries[p] = Link(q) THEN Free ELSE entries[p]]
  /\ UNCHANGED <<stopped, standby, stream, admitted, sent, bounced>>

-----------------------------------------------------------------------------
\* RemoteRouter::stop
Stop ==
  /\ ~stopped
  /\ stopped' = TRUE
  /\ standby' = [p \in Pairs |-> <<>>]
  /\ entries' = [p \in Pairs |-> IF entries[p].kind = "link" THEN entries[p] ELSE Free]
  /\ UNCHANGED <<queue, stream, admitted, fates>>

\* The server has stopped.
Halted ==
  /\ stopped
  /\ \A q \in Queues : queue[q].pc \in {"none", "gone"}
  /\ \A s \in Streams : stream[s] = "out"
  /\ UNCHANGED vars

WriteStep(q) == \/ Receive(q) \/ BeginWrite(q) \/ WriteDone(q) \/ WriteFails(q)
                \/ Discard(q) \/ RejectSize(q) \/ BounceRejected(q)

TaskStep(q) == \/ Top(q) \/ Connect(q) \/ DialStopped(q) \/ DialFails(q)
               \/ Bounce(q) \/ Close(q) \/ Reconsider(q) \/ Leave(q)

StreamStep(s) == \/ \E p \in Pairs : Register(s, p)
                 \/ TakeAssigned(s) \/ EndStream(s) \/ Release(s)

Next == \/ \E p \in Pairs : Enqueue(p) \/ Launch(p) \/ LaunchRefused(p) \/ Elapse(p)
        \/ \E q \in Queues : WriteStep(q) \/ TaskStep(q)
        \/ \E s \in Streams : StreamStep(s)
        \/ Stop
        \/ Halted

\* The steps that the runtime owes a task: those that do not wait for the
\* peer, and those that the stop signal makes ready. Nothing is assumed of
\* the peer: a dial or a write may hang for as long as nobody stops the server.
Fairness ==
  \A q \in Queues :
    /\ WF_vars(Top(q)) /\ WF_vars(DialStopped(q)) /\ WF_vars(Bounce(q))
    /\ WF_vars(Reconsider(q)) /\ WF_vars(Leave(q)) /\ WF_vars(BounceRejected(q))
    /\ WF_vars(stopped /\ Close(q)) /\ WF_vars(stopped /\ WriteFails(q))

Spec == Init /\ [][Next]_vars /\ Fairness

-----------------------------------------------------------------------------
(* Properties *)

Ids == Pairs \X (1 .. MaxStanzas)

Slots == [pair : Pairs \cup {None},
          pc : {"none", "top", "dialing", "connected", "closing", "bouncing",
                "leaving", "assigned", "served", "gone"},
          by : Streams \cup {None},
          chan : Seq(1 .. MaxStanzas),
          current : 0 .. MaxStanzas,
          phase : {"kept", "writing", "rejected"},
          count : Nat]

\* Shape of the state.
TypeOK ==
  /\ stopped \in BOOLEAN
  /\ entries \in [Pairs -> {Free, Backoff(FALSE), Backoff(TRUE)} \cup {Link(q) : q \in Queues}]
  /\ standby \in [Pairs -> Seq(Streams)]
  /\ queue \in [Queues -> Slots]
  /\ stream \in [Streams -> {"out", "open", "ended"}]
  /\ admitted \in [Pairs -> 0 .. MaxStanzas]
  /\ sent \in [Pairs -> Seq(1 .. MaxStanzas)]
  /\ bounced \subseteq Ids
  /\ lost \subseteq Pairs \X (1 .. MaxStanzas) \X {"connection", "internal", "shutdown"}

\* The limits of the operator hold, whatever fails and is retried: no more
\* links and back-offs than max_outbound_links, and the counter of a queue is
\* the number of stanzas that still hold their reservation, the one in hand
\* included, at most max_queued_stanzas_per_link (retry_count, enqueue, Drop
\* for Reservation).
WithinLimits ==
  /\ TypeOK
  /\ Cardinality(Occupied) <= MaxLinks
  /\ \A q \in Queues :
       /\ queue[q].count <= MaxQueued
       /\ queue[q].count = Len(queue[q].chan)
            + IF queue[q].current # 0 /\ queue[q].phase = "kept" THEN 1 ELSE 0

\* The queue of every link in the table is in the hands of a task that will
\* write from it, wherever it was handed.
LinksHaveTasks ==
  \A p \in Pairs : entries[p].kind = "link" =>
    LET q == entries[p].queue
    IN  /\ queue[q].pair = p
        /\ queue[q].pc \in {"top", "dialing", "connected", "closing", "assigned", "served"}
        /\ queue[q].pc \in {"assigned", "served"} => stream[queue[q].by] # "out"

\* Conversely whoever holds a queue that is not finished owns the link, and no
\* stream ever holds two: the branches for a queue that is not owned are never
\* taken (State::owns in failed, run and release_inner).
HeldIsOwned ==
  /\ \A q \in Queues :
       queue[q].pc \in {"top", "dialing", "connected", "closing", "assigned", "served"} => Owns(q)
  /\ \A s \in Streams : Cardinality(GivenBack(s)) <= 1

\* While the router runs every link is served by one task, which owns it: a
\* link that nobody serves would take stanzas, then refuse them, for ever
\* (offer_standby, release_inner, the end of link::run).
LinksAreServed == (~stopped => LinksHaveTasks) /\ HeldIsOwned

\* The stanzas of a pair are written in the order in which they were admitted
\* and none is written twice, across connections, hand-offs and new links.
InOrder ==
  \A p \in Pairs : \A j, k \in DOMAIN sent[p] : j < k => sent[p][j] < sent[p][k]

\* A stanza waits in one queue, was written, was bounced, or was counted as
\* dropped, and one of these only.
Accounted ==
  \A p \in Pairs : \A n \in 1 .. admitted[p] :
    LET waits == Cardinality({q \in Queues : queue[q].pair = p /\ n \in LeftSet(q)})
        written == IF \E k \in DOMAIN sent[p] : sent[p][k] = n THEN 1 ELSE 0
        answered == IF <<p, n>> \in bounced THEN 1 ELSE 0
    IN  waits + written + answered + Cardinality({x \in lost : x[1] = p /\ x[2] = n}) = 1

\* A stanza whose write was not begun is dropped as "shutdown" only when the
\* router was stopped: a lost connection, a failed dial and a released stream
\* keep it or bounce it.
DroppedOnlyAtStop ==
  (\E x \in lost : x[3] = "shutdown") => stopped

\* Every stanza admitted has one fate: none disappears, none is bounced that
\* was written, they are written in order, and none is dropped unwritten but
\* at a stop (write_outcome_recorded, shutdown_queue, Inner::failed).
OneFate == Accounted /\ InOrder /\ DroppedOnlyAtStop

\* After a stop every link task ends, so that join does not run into its
\* deadline.
StopEnds ==
  stopped ~> \A q \in Queues : queue[q].pc \in {"none", "gone", "assigned", "served"}
=============================================================================
