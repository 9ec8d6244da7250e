-------------------------------- MODULE Link --------------------------------
(***************************************************************************)
(* The two halves of a bound client stream and the link between them       *)
(* (c2s/stream/bound/link, bound/transport.rs and the loops of             *)
(* bound/mod.rs).  The session half handles stanzas and fills the command  *)
(* queue; the transport half reads the socket, writes it and reports       *)
(* progress.  They share one record, `progress', and two bounded queues.   *)
(* An await of either half is a place where the other may move.            *)
(*                                                                         *)
(* A stanza the session writes is identified by its OutputSequence; the    *)
(* input of the client is counted, since only how many stanzas are in      *)
(* flight matters here.                                                    *)
(***************************************************************************)
EXTENDS Naturals, Sequences, FiniteSets

CONSTANTS
  CommandCapacity,  \* COMMAND_CAPACITY, 16 in the code
  Burst,            \* the most stanzas one turn of the session writes
  MaxOutput,        \* bound: stanzas written in one behaviour
  MaxInput,         \* bound: stanzas the client sends
  Checked           \* the stream has a certificate to check

ASSUME LinkAssumption ==
  /\ CommandCapacity \in Nat \ {0}
  /\ Burst \in Nat
  /\ MaxOutput \in Nat
  /\ MaxInput \in Nat
  /\ Checked \in BOOLEAN

VARIABLES
  commands,   \* Command queue of the session to the transport
  incoming,   \* queue of the transport to the session, of capacity one
  progress,   \* the shared record `Progress'
  session,    \* where the session half is, and what it owes
  writing,    \* the writing future of the transport
  reading,    \* the reading future of the transport
  output,     \* the socket: stanzas buffered in the writer and stanzas sent
  mailbox,    \* deliveries waiting in the mailbox of the session
  given,      \* history: what the session handed over
  acked,      \* history: how much of it was acknowledged
  valid       \* the certificate of the client still holds

vars == <<commands, incoming, progress, session, writing, reading, output,
          mailbox, given, acked, valid>>

NoOutcome == "none"
NoInput == <<>>

Init ==
  /\ commands = << >>
  /\ incoming = NoInput
  /\ progress = [completedFlush |-> 0, failure |-> NoOutcome, stopped |-> FALSE,
                 accepted |-> 0]
  /\ session = [pc |-> "handle", left |-> 0, owes |-> FALSE, draining |-> FALSE,
                requested |-> 0, prefersOutbound |-> TRUE, outcome |-> NoOutcome]
  /\ writing = [pc |-> "recv", command |-> [do |-> "none"], outcome |-> NoOutcome]
  /\ reading = [pc |-> "gate", forwarded |-> 0, sent |-> 0]
  /\ output = [buffer |-> << >>, sent |-> << >>]
  /\ mailbox = 0
  /\ given = << >>
  /\ acked = 0
  /\ valid = TRUE

-----------------------------------------------------------------------------
(* The session half. *)

Running == session.pc \in {"select", "handle", "write", "flush", "await"}

\* Leaving the select of bound_stream: writer.stop, then the session ends.
EndWith(outcome) ==
  /\ progress' = [progress EXCEPT !.stopped = TRUE]
  /\ session' = [session EXCEPT !.pc = "end", !.outcome = outcome]

\* Deliveries reach the mailbox while the session does something else.
Delivered ==
  /\ Running
  /\ mailbox + Len(given) + session.left < MaxOutput
  /\ mailbox' = mailbox + 1
  /\ UNCHANGED <<commands, incoming, progress, session, writing, reading, output,
                 given, acked, valid>>

\* A turn that takes the mailbox, with everything queued in it (drain_mailbox).
TakeMailbox ==
  /\ session.pc = "select"
  /\ mailbox > 0
  /\ session.prefersOutbound \/ incoming = NoInput
  /\ session' = [session EXCEPT !.pc = "write", !.left = mailbox,
                                !.prefersOutbound = ~@]
  /\ mailbox' = 0
  /\ UNCHANGED <<commands, incoming, progress, writing, reading, output,
                 given, acked, valid>>

\* A turn that takes the client's stanza; handling it queues some output.
TakeIncoming ==
  /\ session.pc = "select"
  /\ incoming # NoInput
  /\ mailbox = 0 \/ ~session.prefersOutbound
  /\ incoming' = NoInput
  /\ IF incoming = <<"ended">>
     THEN EndWith("ended") /\ UNCHANGED <<mailbox, valid>>
     ELSE /\ session' = [session EXCEPT !.pc = "handle", !.owes = TRUE,
                                        !.prefersOutbound = ~@]
          /\ UNCHANGED <<progress, mailbox, valid>>
  /\ UNCHANGED <<commands, writing, reading, output, given, acked>>

\* While the session waits for work it started (a handler, or the observers told
\* of the new session) it keeps writing what reaches its mailbox (drain_until).
DrainUntil ==
  /\ session.pc = "handle"
  /\ mailbox > 0
  /\ session' = [session EXCEPT !.pc = "write", !.left = mailbox, !.draining = TRUE]
  /\ mailbox' = 0
  /\ UNCHANGED <<commands, incoming, progress, writing, reading, output,
                 given, acked, valid>>

\* The work is done; what it answers is queued.  A handler's error ends the
\* session once that is flushed, which is a Cut where the turn would end.
Handled ==
  /\ session.pc = "handle"
  /\ \E n \in 0..IF session.owes THEN Burst ELSE 0 :
       /\ n + Len(given) + mailbox <= MaxOutput
       /\ session' = [session EXCEPT !.pc = "write", !.left = n]
  /\ UNCHANGED <<commands, incoming, progress, writing, reading, output, mailbox,
                 given, acked, valid>>

\* OutboxWriter::write of the link: refused once the transport has failed,
\* otherwise it waits for a place in the command queue.
Write ==
  /\ session.pc = "write" /\ session.left > 0
  /\ IF progress.failure # NoOutcome
     THEN /\ EndWith(progress.failure)
          /\ UNCHANGED <<commands, given>>
     ELSE /\ Len(commands) < CommandCapacity
          /\ commands' = Append(commands, [do |-> "write", stanza |-> Len(given) + 1])
          /\ given' = Append(given, Len(given) + 1)
          /\ session' = [session EXCEPT !.left = @ - 1]
          /\ UNCHANGED progress
  /\ UNCHANGED <<incoming, writing, reading, output, mailbox, acked, valid>>

\* The request half of flush: skipped when the turn queued nothing.
RequestFlush ==
  /\ session.pc = "write" /\ session.left = 0
  /\ CASE Len(given) = acked ->
            /\ session' = [session EXCEPT !.pc = "flush"]
            /\ UNCHANGED <<commands, progress>>
       [] Len(given) # acked /\ progress.failure # NoOutcome ->
            EndWith(progress.failure) /\ UNCHANGED commands
       [] OTHER ->
            /\ Len(commands) < CommandCapacity
            /\ commands' = Append(commands,
                 [do |-> "flush", through |-> Len(given), request |-> session.requested + 1])
            /\ session' = [session EXCEPT !.pc = "await", !.requested = @ + 1]
            /\ UNCHANGED progress
  /\ UNCHANGED <<incoming, writing, reading, output, mailbox, given, acked, valid>>

\* The poll of flush: failure first, then the count of completed flushes.
Answered ==
  progress.completedFlush >= session.requested

AwaitFlush ==
  /\ session.pc = "await"
  /\ IF progress.failure # NoOutcome
     THEN EndWith(progress.failure) /\ UNCHANGED acked
     ELSE /\ Answered
          /\ acked' = Len(given)
          /\ session' = [session EXCEPT !.pc = "flush"]
          /\ UNCHANGED progress
  /\ UNCHANGED <<commands, incoming, writing, reading, output, mailbox, given, valid>>

\* The end of a turn: a stanza of the client is accepted, which lets the
\* transport read the next one.
EndTurn ==
  /\ session.pc = "flush"
  /\ IF session.draining
     THEN /\ session' = [session EXCEPT !.pc = "handle", !.draining = FALSE]
          /\ UNCHANGED progress
     ELSE /\ progress' = [progress EXCEPT !.accepted = IF session.owes THEN @ + 1 ELSE @]
          /\ session' = [session EXCEPT !.pc = "select", !.owes = FALSE]
  /\ UNCHANGED <<commands, incoming, writing, reading, output, mailbox, given,
                 acked, valid>>

\* Retirement, shutdown and a failure of the link each cut the session wherever
\* it waits; the future of the turn is dropped with what it still had to write.
Cut ==
  /\ Running
  /\ \E outcome \in {"retired", "shutdown"} \cup ({progress.failure} \ {NoOutcome}) :
       EndWith(outcome)
  /\ UNCHANGED <<commands, incoming, writing, reading, output, mailbox, given,
                 acked, valid>>

\* session.end, the registration dropped and the work group drained: they wait
\* for storage and other sessions, never for this link.
End ==
  /\ session.pc = "end"
  /\ session' = [session EXCEPT !.pc = "close"]
  /\ UNCHANGED <<commands, incoming, progress, writing, reading, output, mailbox,
                 given, acked, valid>>

\* LinkWriter::close waits for a place in the queue, like any command.
Close ==
  /\ session.pc = "close"
  /\ Len(commands) < CommandCapacity
  /\ commands' = Append(commands, [do |-> "close", outcome |-> session.outcome])
  /\ session' = [session EXCEPT !.pc = "done"]
  /\ UNCHANGED <<incoming, progress, writing, reading, output, mailbox, given,
                 acked, valid>>

-----------------------------------------------------------------------------
(* The transport half. *)

\* LinkTransport::fail keeps the first failure.
Failed(outcome) ==
  progress' = [progress EXCEPT !.failure = IF @ = NoOutcome THEN outcome ELSE @]

\* Variant: a failed link goes on with the next command.
DropsOnlyWhenStopped == progress.stopped

\* One command taken from the queue: commands are dropped once the session has
\* stopped or the link has failed, and a certificate is checked before each.
DropsCommand == progress.stopped \/ progress.failure # NoOutcome

Receive ==
  /\ writing.pc = "recv"
  /\ commands # << >>
  /\ LET command == Head(commands) IN
       CASE command.do = "close" ->
              /\ writing' = [writing EXCEPT !.pc = "finish", !.outcome = command.outcome]
              /\ UNCHANGED progress
         [] command.do # "close" /\ DropsCommand ->
              UNCHANGED <<writing, progress>>
         [] command.do # "close" /\ ~DropsCommand /\ Checked /\ ~valid ->
              Failed("invalid") /\ UNCHANGED writing
         [] OTHER ->
              /\ writing' = [writing EXCEPT !.pc = "operate", !.command = command]
              /\ UNCHANGED progress
  /\ commands' = Tail(commands)
  /\ UNCHANGED <<incoming, session, reading, output, mailbox, given, acked, valid>>

\* The socket takes part of the buffer: whole stanzas are what counts.
Emptied(n) ==
  [buffer |-> SubSeq(output.buffer, n + 1, Len(output.buffer)),
   sent |-> output.sent \o SubSeq(output.buffer, 1, n)]

\* Variant: an operation is never dropped.
OperationHolds == FALSE /\ UNCHANGED vars

\* until_stopped looks at `stopped' first: the operation is dropped.
OperationStops ==
  /\ writing.pc = "operate"
  /\ progress.stopped
  /\ writing' = [writing EXCEPT !.pc = "recv", !.command = [do |-> "none"]]
  /\ UNCHANGED <<commands, incoming, progress, session, reading, output, mailbox,
                 given, acked, valid>>

\* Writer::write fills the buffer, and may push older output to the socket.
WriteOutput ==
  /\ writing.pc = "operate" /\ writing.command.do = "write"
  /\ ~progress.stopped
  /\ \/ /\ output' = [output EXCEPT !.buffer = Append(@, writing.command.stanza)]
        /\ UNCHANGED progress
     \/ Failed("transport") /\ UNCHANGED output
  /\ writing' = [writing EXCEPT !.pc = "recv", !.command = [do |-> "none"]]
  /\ UNCHANGED <<commands, incoming, session, reading, mailbox, given, acked, valid>>

\* While an operation is under way the socket takes some of the buffer.
SocketTakes ==
  /\ writing.pc = "operate"
  /\ ~progress.stopped
  /\ \E n \in 1..Len(output.buffer) : output' = Emptied(n)
  /\ UNCHANGED <<commands, incoming, progress, session, writing, reading, mailbox,
                 given, acked, valid>>

\* Writer::flush is over when the buffer is empty; only then it counts as
\* completed, and the session is woken.
FlushOutput ==
  /\ writing.pc = "operate" /\ writing.command.do = "flush"
  /\ ~progress.stopped
  /\ \/ /\ output.buffer = << >>
        /\ progress' = [progress EXCEPT !.completedFlush = writing.command.request]
     \/ Failed("transport")
  /\ writing' = [writing EXCEPT !.pc = "recv", !.command = [do |-> "none"]]
  /\ UNCHANGED <<commands, incoming, session, reading, output, mailbox, given, acked, valid>>

\* The gate of LinkTransport::read: the next stanza is read only when the
\* session has accepted every one before it.
Gate == progress.accepted >= reading.forwarded

ReadGate ==
  /\ reading.pc = "gate"
  /\ progress.stopped \/ Gate
  /\ reading' = [reading EXCEPT !.pc = IF progress.stopped THEN "done" ELSE "read"]
  /\ UNCHANGED <<commands, incoming, progress, session, writing, output, mailbox,
                 given, acked, valid>>

ReadStops ==
  /\ reading.pc = "read"
  /\ progress.stopped
  /\ reading' = [reading EXCEPT !.pc = "done"]
  /\ UNCHANGED <<commands, incoming, progress, session, writing, output, mailbox,
                 given, acked, valid>>

\* An event of the client: a stanza, the end of the stream, or a failure.
ReadEvent ==
  /\ reading.pc = "read"
  /\ \/ /\ reading.sent < MaxInput
        /\ IF Checked /\ ~valid
           THEN /\ Failed("invalid")
                /\ reading' = [reading EXCEPT !.pc = "done"]
           ELSE /\ reading' = [reading EXCEPT !.pc = "send", !.forwarded = @ + 1,
                                              !.sent = @ + 1]
                /\ UNCHANGED progress
     \/ /\ reading' = [reading EXCEPT !.pc = "sendEnd"]
        /\ UNCHANGED progress
     \/ /\ Failed("tls")
        /\ reading' = [reading EXCEPT !.pc = "done"]
  /\ UNCHANGED <<commands, incoming, session, writing, output, mailbox, given,
                 acked, valid>>

\* The event is queued for the session; the queue holds one.
ReadSend ==
  /\ reading.pc \in {"send", "sendEnd"}
  /\ incoming = NoInput
  /\ incoming' = IF reading.pc = "send" THEN <<"stanza">> ELSE <<"ended">>
  /\ reading' = [reading EXCEPT !.pc = IF reading.pc = "send" THEN "gate" ELSE "done"]
  /\ UNCHANGED <<commands, progress, session, writing, output, mailbox, given,
                 acked, valid>>

\* The certificate monitor beside the reader: when the certificate no longer
\* holds, the reading future is dropped and the link fails.
Expire ==
  /\ Checked /\ valid
  /\ valid' = FALSE
  /\ UNCHANGED <<commands, incoming, progress, session, writing, reading, output,
                 mailbox, given, acked>>

MonitorFails ==
  /\ Checked /\ ~valid
  /\ reading.pc # "done"
  /\ Failed("invalid")
  /\ reading' = [reading EXCEPT !.pc = "done"]
  /\ UNCHANGED <<commands, incoming, session, writing, output, mailbox, given,
                 acked, valid>>

\* Both futures of the transport are over; close::finish may still push out
\* what is buffered before the footer, unless the socket failed.
Finish ==
  /\ writing.pc = "finish"
  /\ reading.pc = "done"
  /\ \E n \in IF progress.failure = "transport" THEN {0} ELSE 0..Len(output.buffer) :
       output' = Emptied(n)
  /\ writing' = [writing EXCEPT !.pc = "done"]
  /\ UNCHANGED <<commands, incoming, progress, session, reading, mailbox, given,
                 acked, valid>>

-----------------------------------------------------------------------------
SessionNext ==
  \/ TakeMailbox \/ TakeIncoming \/ DrainUntil \/ Handled \/ Write \/ RequestFlush \/ AwaitFlush
  \/ EndTurn \/ End \/ Close

TransportNext ==
  \/ Receive \/ OperationStops \/ WriteOutput \/ SocketTakes \/ FlushOutput
  \/ ReadGate \/ ReadStops \/ ReadSend \/ MonitorFails \/ Finish

Next == SessionNext \/ TransportNext \/ Delivered \/ Cut \/ ReadEvent \/ Expire

Spec == Init /\ [][Next]_vars

\* The executor polls a woken future again: both halves of the join go on, and
\* the session notices a failure of the link.  Nothing is assumed of the client,
\* which may never send and never read: WriteOutput and FlushOutput need not
\* happen, and the session need not be retired.
Fairness ==
  /\ WF_vars(SessionNext)
  /\ WF_vars(Receive \/ OperationStops \/ Finish)
  /\ WF_vars(ReadGate \/ ReadStops \/ ReadSend)
  /\ WF_vars(progress.failure # NoOutcome /\ Cut)

FairSpec == Spec /\ Fairness

-----------------------------------------------------------------------------
(* Properties *)

\* The abstract channel, seen through this link: what was given, what the
\* socket has taken, what a completed flush told the session.
Output == INSTANCE Channel WITH
  Stanza <- 1..MaxOutput,
  wire <- output.sent,
  open <- progress.failure = NoOutcome /\ ~progress.stopped

\* The link implements the channel: however the halves interleave, fail or stop,
\* the client gets a gapless prefix and `flush' (link/mod.rs) returns Ok only for
\* output that left.
ImplementsChannel == Output!Spec

\* Once the session stops, both halves end, although the command queue may be
\* full, an operation may hang on a client that does not read, and nobody reads
\* the incoming queue any more.
StopEndsBoth ==
  progress.stopped ~> (session.pc = "done" /\ writing.pc = "done")
=============================================================================
