--------------------------- MODULE BenchMessages ---------------------------
(***************************************************************************)
(* One phase of the messages scenario of lonewolf-bench: the coordinator   *)
(* (scenario/messages.rs, run/mod.rs), which dispatches the scheduled      *)
(* messages and keeps the ledger, and the connection actors                *)
(* (run/connections.rs), which write and read on tasks of their own and    *)
(* report through one bounded queue (run/events.rs).                       *)
(*                                                                         *)
(* Actor 2p sends for pair p and actor 2p+1 receives for it.  An actor     *)
(* reports the start of a write only after the write has ended, so that    *)
(* the receiver may report the message first.                              *)
(*                                                                         *)
(* Time: clock is "window" before the end of the phase, "drain" until the  *)
(* drain deadline, and "over" after it.  late is the set of messages whose *)
(* own deadline has passed.  Slots are dispatched until a short allowance  *)
(* after the end; when it is used up is left open.                         *)
(***************************************************************************)
EXTENDS Ledger, Sequences, SequencesExt

CONSTANTS
    Measuring,      \* the measurement, or the warmup before it
    EventCapacity,  \* room in the queue of events
    MaxFaults       \* signals, losses, failed writes, and odd answers of the server

BenchAssumption ==
    /\ Measuring \in BOOLEAN
    /\ {EventCapacity, MaxFaults} \subseteq Nat

Actors == 0 .. 2 * Width - 1
Senders == {2 * p : p \in 0 .. Width - 1}
Idle == [at |-> "idle"]

VARIABLES
    led,      \* the ledger
    pc,       \* where the coordinator is
    now,      \* the clock the iteration of the loop has read
    cursor,   \* the first slot that is not yet due
    todo,     \* slots the iteration still has to dispatch
    term,     \* how the loop ended
    barrier,  \* how the producers were stopped
    clock, late,
    events,   \* the queue of RunEvents
    invalid,  \* an event was lost
    interrupted,
    stop,     \* Control::Shutdown was sent
    actor,    \* per actor: up, retiring or gone; the barrier acked; commands; write
    wire,     \* messages the server has been given
    faults,   \* faults that may still happen
    fact      \* per message, what happened to it

vars == <<led, pc, now, cursor, todo, term, barrier, clock, late, events,
          invalid, interrupted, stop, actor, wire, faults, fact>>

loop == <<pc, now, cursor, todo, term, barrier>>
time == <<clock, late>>
queue == <<events, invalid>>
env == <<wire, faults>>

Init ==
    /\ led = NewLedger
    /\ pc = "loop" /\ now = "window" /\ cursor = 0 /\ todo = <<>>
    /\ term = "none" /\ barrier = "none"
    /\ clock = "window" /\ late = {}
    /\ events = <<>> /\ invalid = FALSE /\ interrupted = FALSE
    /\ stop = FALSE
    /\ actor = [i \in Actors |-> [state |-> "up", acked |-> TRUE, commands |-> <<>>,
                                  write |-> Idle]]
    /\ wire = {} /\ faults = MaxFaults
    /\ fact = [o \in Ops |-> {}]

Fault == faults > 0 /\ faults' = faults - 1

\* emit: an event that finds the queue full is lost, and the run is invalid.
Emit(es) ==
    LET room == EventCapacity - Len(events)
    IN  /\ events' = events \o SubSeq(es, 1, IF Len(es) <= room THEN Len(es) ELSE room)
        /\ invalid' = (invalid \/ Len(es) > room)

-----------------------------------------------------------------------------
(* The clock and the signal *)

Advance ==
    /\ pc # "done"
    /\ \/ clock = "window" /\ clock' = "drain" /\ UNCHANGED late
       \/ clock = "drain" /\ clock' = "over" /\ late' = Ops
    /\ UNCHANGED <<led, loop, queue, interrupted, stop, actor, env, fact>>

\* Deadlines pass in the order of the slots.
DeadlinePasses(o) ==
    /\ pc # "done" /\ o \notin late /\ \A p \in Ops : p < o => p \in late
    /\ late' = late \cup {o}
    /\ UNCHANGED <<led, loop, clock, queue, interrupted, stop, actor, env, fact>>

Interrupt ==
    /\ ~interrupted /\ pc # "done" /\ Fault
    /\ interrupted' = TRUE
    /\ UNCHANGED <<led, loop, time, queue, stop, actor, wire, fact>>

-----------------------------------------------------------------------------
(* The connection actors *)

Set(i, f, v) == actor' = [actor EXCEPT ![i][f] = v]

Reads(i) == actor[i].state # "gone" /\ actor[i].write = Idle

\* The receiver reports a message with the time at which it came.
Deliver(o) ==
    LET i == 2 * ExpectedRoute(o) + 1
        again == "delivered" \in fact[o]
    IN  /\ o \in wire /\ Reads(i)
        /\ IF again THEN Fault ELSE UNCHANGED faults
        /\ Emit(<<[ev |-> "chat", index |-> i, op |-> o, onTime |-> o \notin late]>>)
        /\ fact' = [fact EXCEPT ![o] = @ \cup {"delivered"} \cup
                       (IF again \/ o \in late THEN {} ELSE {"on_time"})]
        /\ UNCHANGED <<led, loop, time, interrupted, stop, actor, wire>>

\* The sender gets an error for its message, or a stanza nobody asked for.
Answer(kind, o) ==
    LET i == 2 * ExpectedRoute(o)
    IN  /\ Reads(i) /\ Fault
        /\ kind = "error" => o \in wire
        /\ Emit(<<[ev |-> kind, index |-> i, op |-> o]>>)
        /\ UNCHANGED <<led, loop, time, interrupted, stop, actor, wire, fact>>

\* An actor that sees a new epoch acknowledges it, before it takes a command.
\* Only the newest epoch counts: acked says that the actor's is that one.
Acknowledge(i) ==
    /\ actor[i].state = "up" /\ actor[i].write = Idle /\ ~stop
    /\ ~actor[i].acked
    /\ Set(i, "acked", TRUE)
    /\ UNCHANGED <<led, loop, time, queue, interrupted, stop, env, fact>>

\* The actor takes a command and writes; the message may be delivered from now on.
TakeCommand(i) ==
    /\ actor[i].state = "up" /\ actor[i].write = Idle /\ actor[i].commands # <<>>
    /\ LET o == Head(actor[i].commands)
       IN  /\ actor' = [actor EXCEPT ![i].commands = Tail(@),
                                     ![i].write = [at |-> "writing", op |-> o]]
           /\ wire' = wire \cup {o}
    /\ UNCHANGED <<led, loop, time, queue, interrupted, stop, faults, fact>>

StartedEvent(i) == [ev |-> "write_started", index |-> i, op |-> actor[i].write.op]
ClosedEvent(i) == [ev |-> "closed", index |-> i]

\* send returns: the buffered start is reported, then the outcome.
WriteEnds(i) ==
    /\ actor[i].write.at = "writing"
    /\ Emit(<<StartedEvent(i)>>)
    /\ \E ok \in BOOLEAN :
         /\ IF ok THEN UNCHANGED faults ELSE Fault
         /\ Set(i, "write", [at |-> "ended", op |-> actor[i].write.op, ok |-> ok])
         /\ fact' = [fact EXCEPT ![actor[i].write.op] =
                @ \cup {IF ok THEN "written" ELSE "write_failed"}]
    /\ UNCHANGED <<led, loop, time, interrupted, stop, wire>>

Retiring(i) == [actor EXCEPT ![i].state = "retiring", ![i].write = Idle]

\* The outcome is reported; a failed write ends the actor.
ReportWrite(i) ==
    LET w == actor[i].write
        end == [ev |-> "write_finished", index |-> i, op |-> w.op,
                outcome |-> IF w.ok THEN "succeeded" ELSE "failed"]
    IN  /\ w.at = "ended"
        /\ IF w.ok
             THEN Emit(<<end>>) /\ Set(i, "write", Idle)
             ELSE Emit(<<end, ClosedEvent(i)>>) /\ actor' = Retiring(i)
        /\ UNCHANGED <<led, loop, time, interrupted, stop, env, fact>>

\* The stream ends, or the actor finds its writer retired by the reader.
Lost(i) ==
    /\ actor[i].state = "up" /\ actor[i].write = Idle /\ Fault
    /\ Emit(<<ClosedEvent(i)>>)
    /\ actor' = Retiring(i)
    /\ UNCHANGED <<led, loop, time, interrupted, stop, wire, fact>>

\* Shutdown cancels a pending write, of which only the start is reported, or a
\* command just taken, of which nothing is (send_until_shutdown looks at the
\* control first); the actor also retires when the run has become invalid.
StopActor(i) ==
    /\ actor[i].state = "up"
    /\ \/ (stop \/ invalid) /\ actor[i].write = Idle /\ UNCHANGED queue
       \/ stop /\ actor[i].write.at = "writing" /\ Emit(<<StartedEvent(i), ClosedEvent(i)>>)
       \/ /\ stop /\ actor[i].write = Idle /\ actor[i].commands # <<>>
          /\ Emit(<<ClosedEvent(i)>>)
    /\ actor' = Retiring(i)
    /\ UNCHANGED <<led, loop, time, interrupted, stop, env, fact>>

\* The reader is drained and joined, and the task ends with its command queue,
\* which took commands until now.
Retire(i) ==
    /\ actor[i].state = "retiring"
    /\ actor' = [actor EXCEPT ![i].state = "gone", ![i].commands = <<>>]
    /\ UNCHANGED <<led, loop, time, queue, interrupted, stop, env, fact>>

-----------------------------------------------------------------------------
(* The coordinator *)

Route(o) == ExpectedRoute(o)

\* MessagePhase::observe on one event.
Observe(L, e) ==
    CASE e.ev = "write_started" -> WriteStarted(L, e.op)
      [] e.ev = "write_finished" -> WriteFinished(L, e.op, e.outcome)
      [] e.ev = "closed" -> ConnectionClosed(L, e.index)
      [] e.ev = "stray" -> Rejected(L, "unexpected")
      [] e.ev = "error" -> SendFailed(L, e.op)
      [] OTHER -> IF e.index # 2 * Route(e.op) + 1
                    THEN Rejected(L, "wrong_recipient")
                    ELSE Receipt(L, e.op, Route(e.op), e.onTime)

\* consume_events at the top of the loop, the wait at its end, and the
\* collecting of events while the phase settles or the connections close.
Consume ==
    /\ pc \in {"loop", "settle", "collect", "close"} /\ events # <<>>
    /\ led' = Observe(led, Head(events))
    /\ events' = Tail(events)
    /\ UNCHANGED <<loop, time, invalid, interrupted, stop, actor, env, fact>>

Break(how) ==
    /\ term' = how /\ pc' = "leave" /\ now' = "window"
    /\ UNCHANGED <<cursor, todo, barrier>>

\* One iteration up to poll_due.  The slots before skipTo are too far behind.
Iterate ==
    /\ pc = "loop"
    /\ \/ interrupted /\ Break("Cancelled") /\ UNCHANGED led
       \/ ~interrupted /\ (invalid \/ led.error) /\ Break("Failed")
          /\ led' = IF invalid THEN Because(led, "EventOverflow") ELSE led
       \/ /\ ~interrupted /\ ~invalid /\ ~led.error
          /\ \E skipTo \in cursor .. Planned, upTo \in cursor .. Planned :
               /\ skipTo <= upTo
               /\ clock = "over" => skipTo = Planned
               /\ led' = RecordSkipped(ExpireThrough(led, late), cursor .. skipTo - 1, "scheduler")
               /\ cursor' = upTo
               /\ todo' = [k \in 1 .. upTo - skipTo |-> skipTo + k - 1]
          /\ now' = clock /\ pc' = "dispatch"
          /\ UNCHANGED <<term, barrier>>
    /\ UNCHANGED <<time, queue, interrupted, stop, actor, env, fact>>

\* within_dispatch_bounds at the moment of admission; only the clock tells
\* when it is too late, and the lag may have passed before.
MayAdmit == clock # "over"

TrySend(i) ==
    CASE actor[i].state = "gone" -> "closed"
      [] actor[i].commands # <<>> -> "full"
      [] OTHER -> "sent"

\* One slot: reserve, then commit or roll back.
Dispatch ==
    LET o == Head(todo)
        i == 2 * Route(o)
        L == Reserve(led, o, Route(o))
    IN  /\ pc = "dispatch" /\ todo # <<>>
        /\ todo' = Tail(todo)
        /\ \/ /\ led' = IF L.entry[o] = "reserved"
                          THEN RollbackReservation(L, o, "scheduler") ELSE L
              /\ UNCHANGED <<actor, fact>>
           \/ /\ L.entry[o] = "reserved" /\ MayAdmit
              /\ CASE TrySend(i) = "sent" ->
                        /\ actor' = [actor EXCEPT ![i].commands = <<o>>]
                        /\ led' = CommitDispatch(L, o)
                        /\ fact' = [fact EXCEPT ![o] = @ \cup {"dispatched"}]
                   [] TrySend(i) = "full" ->
                        led' = RollbackReservation(L, o, "writer_busy") /\ UNCHANGED <<actor, fact>>
                   [] OTHER ->
                        led' = RollbackReservation(L, o, "disconnected") /\ UNCHANGED <<actor, fact>>
        /\ UNCHANGED <<pc, now, cursor, term, barrier, time, queue, interrupted, stop, env>>

\* The end of the iteration decides on the clock read at its start.
EndIteration ==
    /\ pc = "dispatch" /\ todo = <<>>
    /\ IF led.error
         THEN Break("Failed")
       ELSE IF now # "window" /\ cursor = Planned /\ (IsSettled(led) \/ now = "over")
         THEN Break("Completed")
         ELSE pc' = "loop" /\ now' = "window" /\ UNCHANGED <<cursor, todo, term, barrier>>
    /\ UNCHANGED <<led, time, queue, interrupted, stop, actor, env, fact>>

To(place) == pc' = place /\ UNCHANGED <<now, cursor, todo, term, barrier>>

ShutAll(how) ==
    /\ stop' = TRUE
    /\ pc' = "close" /\ barrier' = "retired" /\ term' = how
    /\ UNCHANGED <<now, cursor, todo>>

\* After the loop: settle, or close the connections at once.
Leave ==
    /\ pc = "leave"
    /\ IF term = "Completed" /\ ~invalid /\ ~led.error /\ ~interrupted
         THEN To("begin") /\ UNCHANGED stop
         ELSE ShutAll(IF term = "Completed" THEN "Failed" ELSE term)
    /\ UNCHANGED <<led, time, queue, interrupted, actor, env, fact>>

BeginBarrier ==
    /\ pc = "begin"
    /\ actor' = [i \in Actors |-> [actor[i] EXCEPT !.acked = FALSE]]
    /\ To("settle")
    /\ UNCHANGED <<led, time, queue, interrupted, stop, env, fact>>

\* All actors have acknowledged the epoch, or the wait for them is over.
Settle ==
    /\ pc = "settle"
    /\ \/ /\ \A i \in Actors : actor[i].acked \/ actor[i].state = "gone"
          /\ To("queued") /\ UNCHANGED stop
       \/ ShutAll("Failed")
    /\ UNCHANGED <<led, time, queue, interrupted, actor, env, fact>>

CommandsQueued == \E i \in Actors : actor[i].commands # <<>>

CheckQueues ==
    /\ pc = "queued"
    /\ To(IF CommandsQueued THEN "begin" ELSE "collect")
    /\ UNCHANGED <<led, time, queue, interrupted, stop, actor, env, fact>>

\* The events emitted so far are consumed; then the phase has settled.
Collected ==
    /\ pc = "collect" /\ events = <<>>
    /\ IF Measuring \/ invalid
         THEN ShutAll(IF invalid THEN "Failed" ELSE term)
         ELSE /\ pc' = "finish" /\ barrier' = "settled"
              /\ UNCHANGED <<now, cursor, todo, term, stop>>
    /\ UNCHANGED <<led, time, queue, interrupted, actor, env, fact>>

\* close_connections has joined the actors and consumed what they left.
Closed ==
    /\ pc = "close" /\ events = <<>> /\ \A i \in Actors : actor[i].state = "gone"
    /\ To("finish")
    /\ UNCHANGED <<led, time, queue, interrupted, stop, actor, env, fact>>

FinishPhase ==
    LET how == IF interrupted THEN "Cancelled"
               ELSE IF led.error THEN "Failed" ELSE term
        L == IF invalid THEN Because(led, "EventOverflow") ELSE led
    IN  /\ pc = "finish"
        /\ led' = Finish(L, how, barrier)
        /\ term' = how /\ pc' = "done"
        /\ UNCHANGED <<now, cursor, todo, barrier, time, queue, interrupted,
                       stop, actor, env, fact>>

Done == pc = "done" /\ UNCHANGED vars

Next ==
    \/ Advance \/ Interrupt
    \/ \E o \in Ops : DeadlinePasses(o) \/ Deliver(o)
    \/ \E kind \in {"error", "stray"}, o \in Ops : Answer(kind, o)
    \/ \E i \in Actors :
          \/ Acknowledge(i) \/ TakeCommand(i) \/ WriteEnds(i)
          \/ ReportWrite(i) \/ Lost(i) \/ StopActor(i) \/ Retire(i)
    \/ Consume \/ Iterate \/ Dispatch \/ EndIteration \/ Leave
    \/ BeginBarrier \/ Settle \/ CheckQueues \/ Collected \/ Closed
    \/ FinishPhase \/ Done

Spec == Init /\ [][Next]_vars

-----------------------------------------------------------------------------
With(what) == Cardinality({o \in Ops : what \in fact[o]})

(* The counters of a measurement tell what happened, whatever the order in *)
(* which the writer and the receiver of a message report, and wherever the *)
(* phase is interrupted: a message counts as dispatched when its sender    *)
(* got it, as written and as failed when the write ended so, as received   *)
(* when it was delivered before its deadline.  The ledger finds its own    *)
(* sums right, unless an event was lost, which is then reported            *)
(* (Ledger::observe_inner, Ledger::finish, close_connections).             *)
CountsAreTrue ==
    pc = "done" /\ "EventOverflow" \notin led.reasons =>
        /\ "AccountingError" \notin led.reasons
        /\ led.count["dispatched"] = With("dispatched")
        /\ led.count["write_succeeded"] = With("written")
        /\ led.count["write_failed"] = With("write_failed")
        /\ led.count["received_on_time"] = With("on_time")
=============================================================================
