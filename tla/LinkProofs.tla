----------------------------- MODULE LinkProofs -----------------------------
(***************************************************************************)
(* The link between the two halves of a bound stream implements Channel,   *)
(* for every capacity of the command queue and any number of stanzas.      *)
(*                                                                         *)
(* The refinement needs to know where every stanza is. As long as neither  *)
(* half has given up, what left, what is buffered, what is in hand and     *)
(* what is queued follow one another without a gap and make up all that    *)
(* was given; and a flush that counts as completed leaves nothing behind.  *)
(***************************************************************************)
EXTENDS Link, SequenceTheorems, TLAPS

\* Why a stream ends: through the session, or through a failure of the link.
Outcomes == {NoOutcome, "ended", "retired", "shutdown", "transport", "tls", "invalid"}

\* What the session puts in the queue.
Command == [do : {"write"}, stanza : Nat]
           \cup [do : {"flush"}, through : Nat, request : Nat]
           \cup [do : {"close"}, outcome : Outcomes]

\* What the variables hold.
ProgressSet == [completedFlush : Nat, failure : Outcomes, stopped : BOOLEAN, accepted : Nat]
SessionSet ==
  [pc : {"select", "handle", "write", "flush", "await", "end", "close", "done"},
   left : Nat, owes : BOOLEAN, draining : BOOLEAN, requested : Nat,
   prefersOutbound : BOOLEAN, outcome : Outcomes]
WritingSet == [pc : {"recv", "operate", "finish", "done"},
               command : Command \cup {[do |-> "none"]}, outcome : Outcomes]
OutputSet == [buffer : Seq(Nat), sent : Seq(Nat)]

Types ==
  /\ commands \in Seq(Command)
  /\ progress \in ProgressSet
  /\ session \in SessionSet
  /\ writing \in WritingSet
  /\ output \in OutputSet
  /\ mailbox \in Nat
  /\ given \in Seq(Nat)
  /\ acked \in Nat

\* Stopping the link (writer.stop) keeps the types.
LEMMA EndWithTypes ==
  ASSUME Types, NEW o \in Outcomes, EndWith(o)
  PROVE  progress' \in ProgressSet /\ session' \in SessionSet /\ progress'.stopped
         /\ session'.pc = "end"
  BY DEF Types, EndWith, ProgressSet, SessionSet

\* LinkTransport::fail keeps the types, and only ever closes the link.
LEMMA FailedTypes ==
  ASSUME Types, NEW o \in Outcomes \ {NoOutcome}, Failed(o)
  PROVE  /\ progress' \in ProgressSet /\ progress'.failure # NoOutcome
         /\ progress'.stopped = progress.stopped
  BY DEF Types, Failed, ProgressSet

\* The three commands the session queues.
LEMMA CommandTypes ==
  /\ \A n \in Nat : [do |-> "write", stanza |-> n] \in Command
  /\ \A n, m \in Nat : [do |-> "flush", through |-> n, request |-> m] \in Command
  /\ \A o \in Outcomes : [do |-> "close", outcome |-> o] \in Command
  BY DEF Command

\* ... and what can be read of one.
LEMMA CommandFields ==
  ASSUME NEW c \in Command
  PROVE  /\ c.do \in {"write", "flush", "close"}
         /\ c.do = "write" => c.stanza \in Nat
         /\ c.do = "flush" => c.request \in Nat
         /\ c.do = "close" => c.outcome \in Outcomes
  BY DEF Command

\* The socket takes the first n stanzas of the buffer.
LEMMA EmptiedProperties ==
  ASSUME Types, NEW n \in 0 .. Len(output.buffer)
  PROVE  /\ Emptied(n) \in OutputSet
         /\ Len(Emptied(n).buffer) = Len(output.buffer) - n
         /\ Len(Emptied(n).sent) = Len(output.sent) + n
         /\ \A i \in 1 .. Len(output.buffer) - n :
              Emptied(n).buffer[i] = output.buffer[n + i]
         /\ \A i \in 1 .. Len(output.sent) + n :
              Emptied(n).sent[i] = IF i <= Len(output.sent) THEN output.sent[i]
                                   ELSE output.buffer[i - Len(output.sent)]
<1> DEFINE b == output.buffer
           s == output.sent
           rest == SubSeq(b, n + 1, Len(b))
           first == SubSeq(b, 1, n)
<1>1. b \in Seq(Nat) /\ s \in Seq(Nat) /\ Len(b) \in Nat /\ Len(s) \in Nat
  BY DEF Types, OutputSet
<1>2. \A i \in 1 .. Len(b) : b[i] \in Nat
  BY <1>1, ElementOfSeq
<1> HIDE DEF b, s
<1>3. /\ rest \in Seq(Nat) /\ Len(rest) = Len(b) - n
      /\ \A i \in 1 .. Len(b) - n : rest[i] = b[n + i]
  <2>1. \A i \in n + 1 .. Len(b) : b[i] \in Nat
    BY <1>1, <1>2 DEF b
  <2>2. /\ rest \in Seq(Nat)
        /\ Len(rest) = IF n + 1 <= Len(b) THEN Len(b) - (n + 1) + 1 ELSE 0
        /\ \A i \in 1 .. Len(b) - (n + 1) + 1 : rest[i] = b[n + 1 + i - 1]
    BY <1>1, <2>1, SubSeqProperties DEF b
  <2> QED BY <1>1, <2>2 DEF b
<1>4. /\ first \in Seq(Nat) /\ Len(first) = n
      /\ \A i \in 1 .. n : first[i] = b[i]
  BY <1>1, <1>2, SubSeqProperties DEF b
<1> HIDE DEF rest, first
<1>5. /\ s \o first \in Seq(Nat) /\ Len(s \o first) = Len(s) + n
      /\ \A i \in 1 .. Len(s) + n :
           (s \o first)[i] = IF i <= Len(s) THEN s[i] ELSE first[i - Len(s)]
  BY <1>1, <1>4, ConcatProperties
<1>6. Emptied(n) = [buffer |-> rest, sent |-> s \o first]
  BY DEF Emptied, rest, first, b, s
<1>7. \A i \in 1 .. Len(s) + n : ~(i <= Len(s)) => first[i - Len(s)] = b[i - Len(s)]
  BY <1>1, <1>4
<1> QED BY <1>1, <1>3, <1>4, <1>5, <1>6, <1>7 DEF OutputSet, b, s

\* The outcomes by which either half gives up.
LEMMA OutcomeNames ==
  /\ NoOutcome \in Outcomes
  /\ {"ended", "retired", "shutdown", "transport", "tls", "invalid"} \subseteq Outcomes \ {NoOutcome}
  BY DEF Outcomes, NoOutcome

\* Every step of either half keeps the types.
LEMMA TypesStep == ASSUME Types, Next PROVE Types'
<1>1. CASE TakeMailbox
  BY <1>1 DEF Types, SessionSet, TakeMailbox
<1>2. CASE TakeIncoming
  <2>1. CASE incoming = <<"ended">>
    BY <1>2, <2>1, EndWithTypes, OutcomeNames DEF Types, TakeIncoming
  <2>2. CASE incoming # <<"ended">>
    BY <1>2, <2>2 DEF Types, SessionSet, TakeIncoming
  <2> QED BY <2>1, <2>2
<1>3. CASE DrainUntil
  BY <1>3 DEF Types, SessionSet, DrainUntil
<1>4. CASE Handled
  <2>1. PICK n \in 0..IF session.owes THEN Burst ELSE 0 :
           session' = [session EXCEPT !.pc = "write", !.left = n]
    BY <1>4 DEF Handled
  <2>2. n \in Nat
    BY <2>1, LinkAssumption
  <2> QED BY <1>4, <2>1, <2>2 DEF Types, SessionSet, Handled
<1>5. CASE Write
  <2>1. CASE progress.failure # NoOutcome
    <3>1. progress.failure \in Outcomes
      BY DEF Types, ProgressSet
    <3> QED BY <1>5, <2>1, <3>1, EndWithTypes DEF Types, Write
  <2>2. CASE progress.failure = NoOutcome
    <3> DEFINE c == [do |-> "write", stanza |-> Len(given) + 1]
    <3>1. /\ commands' = Append(commands, c) /\ given' = Append(given, Len(given) + 1)
          /\ session' = [session EXCEPT !.left = @ - 1] /\ session.left > 0
          /\ UNCHANGED progress
      BY <1>5, <2>2 DEF Write
    <3>2. session' \in SessionSet
      <4>1. session.left - 1 \in Nat
        BY <3>1 DEF Types, SessionSet
      <4>2. session' = [session EXCEPT !.left = session.left - 1]
        BY <3>1
      <4> QED BY <4>1, <4>2 DEF Types, SessionSet
    <3>3. c \in Command /\ Len(given) + 1 \in Nat
      BY CommandTypes DEF Types
    <3> HIDE DEF c
    <3>4. commands' \in Seq(Command) /\ given' \in Seq(Nat)
      BY <3>1, <3>3, AppendProperties DEF Types
    <3> QED BY <1>5, <3>1, <3>2, <3>4 DEF Types, Write
  <2> QED BY <2>1, <2>2
<1>6. CASE RequestFlush
  <2>1. CASE Len(given) = acked
    BY <1>6, <2>1 DEF Types, SessionSet, RequestFlush
  <2>2. CASE Len(given) # acked /\ progress.failure # NoOutcome
    <3>1. progress.failure \in Outcomes
      BY DEF Types, ProgressSet
    <3>2. EndWith(progress.failure) /\ UNCHANGED commands
      BY <1>6, <2>2 DEF RequestFlush
    <3> QED BY <1>6, <3>2, <3>1, EndWithTypes DEF Types, RequestFlush
  <2>3. CASE Len(given) # acked /\ progress.failure = NoOutcome
    <3>1. /\ commands' = Append(commands,
                 [do |-> "flush", through |-> Len(given), request |-> session.requested + 1])
          /\ session' = [session EXCEPT !.pc = "await", !.requested = @ + 1]
          /\ UNCHANGED progress
      BY <1>6, <2>3 DEF RequestFlush
    <3>2. session' \in SessionSet /\ session.requested \in Nat
      <4>1. session.requested \in Nat /\ session.requested + 1 \in Nat
        BY DEF Types, SessionSet
      <4>2. session' = [session EXCEPT !.pc = "await", !.requested = session.requested + 1]
        BY <3>1
      <4> QED BY <4>1, <4>2 DEF Types, SessionSet
    <3>3. [do |-> "flush", through |-> Len(given), request |-> session.requested + 1] \in Command
      BY <3>2, CommandTypes DEF Types
    <3>4. commands' \in Seq(Command)
      BY <3>1, <3>3, AppendProperties DEF Types
    <3> QED BY <3>4, <1>6, <3>1, <3>2, <3>3 DEF Types, RequestFlush
  <2> QED BY <2>1, <2>2, <2>3
<1>7. CASE AwaitFlush
  <2>1. CASE progress.failure # NoOutcome
    <3>1. progress.failure \in Outcomes
      BY DEF Types, ProgressSet
    <3> QED BY <1>7, <2>1, <3>1, EndWithTypes DEF Types, AwaitFlush
  <2>2. CASE progress.failure = NoOutcome
    BY <1>7, <2>2 DEF Types, SessionSet, AwaitFlush
  <2> QED BY <2>1, <2>2
<1>8. CASE EndTurn
  <2>1. session' \in SessionSet
    BY <1>8 DEF Types, SessionSet, EndTurn
  <2>2. progress' \in ProgressSet
    BY <1>8 DEF Types, ProgressSet, EndTurn
  <2> QED BY <1>8, <2>1, <2>2 DEF Types, EndTurn
<1>9. CASE End
  BY <1>9 DEF Types, SessionSet, End
<1>10. CASE Close
  <2>1. session' \in SessionSet /\ session.outcome \in Outcomes
    BY <1>10 DEF Types, SessionSet, Close
  <2>2. commands' \in Seq(Command)
    BY <1>10, <2>1, CommandTypes DEF Types, Close
  <2> QED BY <1>10, <2>1, <2>2 DEF Types, Close
<1>11. CASE Receive
  <2> DEFINE c == Head(commands)
  <2>1. c \in Command /\ commands' \in Seq(Command)
    BY <1>11 DEF Types, Receive
  <2>2. writing' \in WritingSet /\ progress' \in ProgressSet
    <3>1. CASE c.do = "close"
      <4>1. c.outcome \in Outcomes
        BY <3>1, <2>1, CommandFields
      <4>2. writing' = [writing EXCEPT !.pc = "finish", !.outcome = c.outcome] /\ UNCHANGED progress
        BY <1>11, <3>1 DEF Receive
      <4> QED BY <4>1, <4>2 DEF Types, WritingSet
    <3>2. CASE c.do # "close" /\ DropsCommand
      BY <1>11, <3>2 DEF Receive, Types
    <3>3. CASE c.do # "close" /\ ~DropsCommand /\ Checked /\ ~valid
      <4>1. Failed("invalid") /\ UNCHANGED writing
        BY <1>11, <3>3 DEF Receive
      <4> QED BY <4>1, FailedTypes, OutcomeNames DEF Types
    <3>4. CASE c.do # "close" /\ ~DropsCommand /\ ~(Checked /\ ~valid)
      <4>1. writing' = [writing EXCEPT !.pc = "operate", !.command = c] /\ UNCHANGED progress
        BY <1>11, <3>4 DEF Receive
      <4> QED BY <4>1, <2>1 DEF Types, WritingSet
    <3> QED BY <3>1, <3>2, <3>3, <3>4
  <2> QED BY <1>11, <2>1, <2>2 DEF Types, Receive
<1>12. CASE OperationStops
  BY <1>12 DEF Types, WritingSet, OperationStops
<1>13. CASE WriteOutput
  <2>1. writing' \in WritingSet
    BY <1>13 DEF Types, WritingSet, WriteOutput
  <2>2. writing.command.stanza \in Nat
    BY <1>13, CommandFields DEF Types, WritingSet, WriteOutput
  <2>3. progress' \in ProgressSet
    BY <1>13, FailedTypes, OutcomeNames DEF Types, WriteOutput
  <2>4. Append(output.buffer, writing.command.stanza) \in Seq(Nat)
    BY <2>2, AppendProperties DEF Types, OutputSet
  <2>5. output' \in OutputSet
    BY <1>13, <2>4 DEF Types, OutputSet, WriteOutput
  <2> QED BY <1>13, <2>1, <2>3, <2>5 DEF Types, WriteOutput
<1>14. CASE SocketTakes
  <2>1. output' \in OutputSet
    BY <1>14, EmptiedProperties DEF SocketTakes
  <2> QED BY <1>14, <2>1 DEF Types, SocketTakes
<1>15. CASE FlushOutput
  <2>1. writing' \in WritingSet
    BY <1>15 DEF Types, WritingSet, FlushOutput
  <2>2. writing.command.request \in Nat
    BY <1>15, CommandFields DEF Types, WritingSet, FlushOutput
  <2>3. progress' \in ProgressSet
    <3>1. CASE Failed("transport")
      BY <3>1, FailedTypes, OutcomeNames DEF Types
    <3>2. CASE progress' = [progress EXCEPT !.completedFlush = writing.command.request]
      BY <3>2, <2>2 DEF Types, ProgressSet
    <3> QED BY <1>15, <3>1, <3>2 DEF FlushOutput
  <2> QED BY <1>15, <2>1, <2>3 DEF Types, FlushOutput
<1>16. CASE ReadGate \/ ReadStops \/ ReadSend \/ Expire
  BY <1>16 DEF Types, ReadGate, ReadStops, ReadSend, Expire
<1>17. CASE MonitorFails \/ ReadEvent
  BY <1>17, FailedTypes, OutcomeNames DEF Types, MonitorFails, ReadEvent
<1>18. CASE Finish
  <2>1. PICK n \in 0..Len(output.buffer) : output' = Emptied(n)
    BY <1>18 DEF Types, OutputSet, Finish
  <2>2. output' \in OutputSet
    BY <2>1, EmptiedProperties
  <2>3. writing' \in WritingSet
    BY <1>18 DEF Types, WritingSet, Finish
  <2> QED BY <1>18, <2>2, <2>3 DEF Types, Finish
<1>19. CASE Delivered
  BY <1>19 DEF Types, Delivered
<1>20. CASE Cut
  <2>1. PICK o \in {"retired", "shutdown"} \cup ({progress.failure} \ {NoOutcome}) : EndWith(o)
    BY <1>20 DEF Cut
  <2>2. o \in Outcomes
    BY <2>1, OutcomeNames DEF Types, ProgressSet
  <2> QED BY <1>20, <2>1, <2>2, EndWithTypes DEF Types, Cut
<1> QED BY <1>1, <1>2, <1>3, <1>4, <1>5, <1>6, <1>7, <1>8, <1>9, <1>10, <1>11, <1>12, <1>13,
           <1>14, <1>15, <1>16, <1>17, <1>18, <1>19, <1>20
        DEF Next, SessionNext, TransportNext

-----------------------------------------------------------------------------
(* The inductive invariant *)

\* Neither half has given up; the operation under way.
Open == progress.failure = NoOutcome /\ ~progress.stopped
Operates(do) == writing.pc = "operate" /\ writing.command.do = do

\* How many commands are queued, and how many stanzas were given, have left,
\* are buffered and are in hand.
Queued == Len(commands)
Given == Len(given)
Gone == Len(output.sent)
Kept == Len(output.buffer)
InHand == IF Operates("write") THEN 1 ELSE 0

\* The session runs until it stops the link, and writes no more than it may.
Turns ==
  /\ Running <=> ~progress.stopped
  /\ Running => Given + session.left + mailbox <= MaxOutput
  /\ acked <= Given
  /\ session.pc = "await" => acked < Given

\* s is the run of stanzas that follows stanza n.
Numbered(s, n) == \A i \in 1 .. Len(s) : s[i] = n + i

\* What left, what is buffered and what is in hand follow one another without
\* a gap, whatever became of the rest.
Gapless ==
  /\ Numbered(given, 0)
  /\ Numbered(output.sent, 0)
  /\ Numbered(output.buffer, Gone)
  /\ Gone + Kept <= Given
  /\ writing.pc = "operate" => writing.command.do \in {"write", "flush"}
  /\ Operates("write") =>
       /\ writing.command.stanza = Gone + Kept + 1
       /\ writing.command.stanza <= Given

IsWrite(c, n) == c.do = "write" /\ c.stanza = n
IsFlush(c, n) == c.do = "flush" /\ c.request = n

\* The first w commands are the stanzas that follow what was taken.
Writes(w) ==
  /\ \A k \in 1 .. w : IsWrite(commands[k], Given - w + k)
  /\ Gone + Kept + InHand + w = Given

\* As long as nobody has given up, everything given is somewhere; while a
\* flush is awaited it comes last in the queue, is under way, or is over with
\* nothing left behind.
Whole ==
  Open =>
    IF session.pc # "await"
      THEN /\ Writes(Queued)
           /\ ~Operates("flush")
           /\ progress.completedFlush = session.requested
      ELSE \/ /\ Queued > 0
              /\ Writes(Queued - 1)
              /\ IsFlush(commands[Queued], session.requested)
              /\ ~Operates("flush")
              /\ progress.completedFlush + 1 = session.requested
           \/ /\ Queued = 0 /\ Writes(0)
              /\ Operates("flush")
              /\ writing.command.request = session.requested
              /\ progress.completedFlush + 1 = session.requested
           \/ /\ Queued = 0 /\ Writes(0)
              /\ ~Operates("flush")
              /\ progress.completedFlush = session.requested
              /\ Gone = Given

\* The inductive invariant.
IInv == Types /\ Turns /\ Gapless /\ Whole

\* The numbers and places in play.
LEMMA Numbers ==
  ASSUME Types
  PROVE  /\ MaxOutput \in Nat /\ Burst \in Nat /\ mailbox \in Nat /\ acked \in Nat
         /\ Given \in Nat /\ session.left \in Nat /\ Queued \in Nat
         /\ Gone \in Nat /\ Kept \in Nat /\ InHand \in Nat
         /\ session.requested \in Nat /\ progress.completedFlush \in Nat
         /\ session.pc \in {"select", "handle", "write", "flush", "await", "end", "close", "done"}
         /\ progress.stopped \in BOOLEAN
  BY LinkAssumption DEF Types, SessionSet, ProgressSet, OutputSet, Given, Queued, Gone, Kept, InHand

\* Once the session has stopped the link it runs no more.
LEMMA EndWithFields ==
  ASSUME Types, NEW o, EndWith(o)
  PROVE  /\ progress'.stopped = TRUE /\ session'.pc = "end"
         /\ session'.left = session.left /\ ~Running'
  BY DEF Types, ProgressSet, SessionSet, EndWith, Running

\* The session's own account of its turns (bound_stream, Outbox) is kept.
LEMMA TurnsStep == ASSUME Types, Turns, Next PROVE Turns'
<1> USE Numbers
<1>1. CASE TakeMailbox
  BY <1>1 DEF Types, SessionSet, Turns, Given, Running, TakeMailbox
<1>2. CASE TakeIncoming
  <2>1. CASE incoming = <<"ended">>
    BY <1>2, <2>1, EndWithFields DEF Turns, Given, TakeIncoming, Running
  <2>2. CASE incoming # <<"ended">>
    BY <1>2, <2>2 DEF Types, SessionSet, Turns, Given, TakeIncoming, Running
  <2> QED BY <2>1, <2>2
<1>3. CASE DrainUntil
  BY <1>3 DEF Types, SessionSet, Turns, Given, Running, DrainUntil
<1>4. CASE Handled
  BY <1>4 DEF Types, SessionSet, Turns, Given, Running, Handled
<1>5. CASE Write
  <2>1. CASE progress.failure # NoOutcome
    <3>1. EndWith(progress.failure) /\ UNCHANGED <<given, acked, mailbox>>
      BY <1>5, <2>1 DEF Write
    <3> QED BY <3>1, EndWithFields DEF Turns, Given, Running
  <2>2. CASE progress.failure = NoOutcome
    <3>1. /\ given' = Append(given, Len(given) + 1)
          /\ session' = [session EXCEPT !.left = @ - 1] /\ session.left > 0
          /\ UNCHANGED <<progress, mailbox, acked>> /\ session.pc = "write"
      BY <1>5, <2>2 DEF Write
    <3>2. Given' = Given + 1
      BY <3>1, AppendProperties DEF Types, Given
    <3>3. session'.left = session.left - 1 /\ session'.pc = "write"
      BY <3>1 DEF Types, SessionSet
    <3>4. UNCHANGED <<progress, mailbox, acked>> /\ session.pc = "write" /\ session.left > 0
      BY <3>1
    <3> QED BY <3>2, <3>3, <3>4 DEF Turns, Running
  <2> QED BY <2>1, <2>2
<1>6. CASE RequestFlush
  <2>1. CASE Len(given) = acked
    BY <1>6, <2>1 DEF Types, SessionSet, Turns, Given, Running, RequestFlush
  <2>2. CASE Len(given) # acked /\ progress.failure # NoOutcome
    <3>1. EndWith(progress.failure) /\ UNCHANGED <<given, acked, mailbox>>
      BY <1>6, <2>2 DEF RequestFlush
    <3> QED BY <3>1, EndWithFields DEF Turns, Given, Running
  <2>3. CASE Len(given) # acked /\ progress.failure = NoOutcome
    <3>1. /\ session' = [session EXCEPT !.pc = "await", !.requested = @ + 1]
          /\ UNCHANGED <<progress, mailbox, acked, given>> /\ session.pc = "write"
      BY <1>6, <2>3 DEF RequestFlush
    <3>2. session'.pc = "await" /\ session'.left = session.left
      BY <3>1 DEF Types, SessionSet
    <3> QED BY <3>1, <3>2, <2>3 DEF Turns, Given, Running
  <2> QED BY <2>1, <2>2, <2>3
<1>7. CASE AwaitFlush
  <2>1. CASE progress.failure # NoOutcome
    <3>1. EndWith(progress.failure) /\ UNCHANGED <<given, acked, mailbox>>
      BY <1>7, <2>1 DEF AwaitFlush
    <3> QED BY <3>1, EndWithFields DEF Turns, Given, Running
  <2>2. CASE progress.failure = NoOutcome
    <3>1. /\ session'.pc = "flush" /\ session'.left = session.left /\ session.pc = "await"
          /\ acked' = Given /\ Given' = Given /\ UNCHANGED <<progress, mailbox>>
      BY <1>7, <2>2 DEF Types, SessionSet, AwaitFlush, Given
    <3> QED BY <3>1 DEF Turns, Running
  <2> QED BY <2>1, <2>2
<1>8. CASE EndTurn
  <2>1. /\ session'.pc \in {"handle", "select"} /\ session'.left = session.left
        /\ session.pc = "flush"
    BY <1>8 DEF Types, SessionSet, EndTurn
  <2>2. progress'.stopped = progress.stopped
    BY <1>8 DEF Types, ProgressSet, EndTurn
  <2> QED BY <1>8, <2>1, <2>2 DEF Turns, Given, Running, EndTurn
<1>9. CASE End
  BY <1>9 DEF Types, SessionSet, Turns, Given, Running, End
<1>10. CASE Close
  <2>1. session'.pc = "done" /\ session.pc = "close"
    BY <1>10 DEF Types, SessionSet, Close
  <2> QED BY <1>10, <2>1 DEF Turns, Given, Running, Close
<1>11. CASE Receive \/ WriteOutput \/ FlushOutput
  <2>1. progress'.stopped = progress.stopped
    BY <1>11 DEF Receive, WriteOutput, FlushOutput, Types, ProgressSet, Failed
  <2>2. UNCHANGED <<session, given, acked, mailbox>>
    BY <1>11 DEF Receive, WriteOutput, FlushOutput
  <2> QED BY <2>1, <2>2 DEF Turns, Given, Running
<1>12. CASE MonitorFails \/ ReadEvent
  <2>1. progress'.stopped = progress.stopped
    BY <1>12 DEF MonitorFails, ReadEvent, Types, ProgressSet, Failed
  <2>2. UNCHANGED <<session, given, acked, mailbox>>
    BY <1>12 DEF MonitorFails, ReadEvent
  <2> QED BY <2>1, <2>2 DEF Turns, Given, Running
<1>13. CASE OperationStops \/ SocketTakes \/ ReadGate \/ ReadStops \/ ReadSend \/ Finish \/ Expire
  <2>1. UNCHANGED <<progress, session, given, acked, mailbox>>
    BY <1>13 DEF OperationStops, SocketTakes, ReadGate, ReadStops, ReadSend, Finish, Expire
  <2> QED BY <2>1 DEF Turns, Given, Running
<1>14. CASE Delivered
  BY <1>14 DEF Turns, Given, Running, Delivered
<1>15. CASE Cut
  <2>1. PICK o \in {"retired", "shutdown"} \cup ({progress.failure} \ {NoOutcome}) : EndWith(o)
    BY <1>15 DEF Cut
  <2> QED BY <1>15, <2>1, EndWithFields DEF Turns, Given, Running, Cut
<1> QED BY <1>1, <1>2, <1>3, <1>4, <1>5, <1>6, <1>7, <1>8, <1>9, <1>10, <1>11, <1>12, <1>13,
           <1>14, <1>15
        DEF Next, SessionNext, TransportNext

\* What the transport has in hand.
LEMMA WritingFields ==
  ASSUME Types
  PROVE  /\ writing.pc \in {"recv", "operate", "finish", "done"}
         /\ writing.command \in Command \cup {[do |-> "none"]}
         /\ writing.command.do = "write" => writing.command.stanza \in Nat
         /\ writing.command.do = "flush" => writing.command.request \in Nat
<1>1. /\ writing.pc \in {"recv", "operate", "finish", "done"}
      /\ writing.command \in Command \cup {[do |-> "none"]}
  BY DEF Types, WritingSet
<1> QED BY <1>1, CommandFields


\* A numbered run goes on with the next number ...
LEMMA NumberedAppend ==
  ASSUME NEW s \in Seq(Nat), NEW n \in Nat, Numbered(s, n)
  PROVE  /\ Append(s, n + Len(s) + 1) \in Seq(Nat)
         /\ Len(Append(s, n + Len(s) + 1)) = Len(s) + 1
         /\ Numbered(Append(s, n + Len(s) + 1), n)
  BY DEF Numbered

\* ... and may be cut anywhere.
LEMMA NumberedShift ==
  ASSUME NEW s \in Seq(Nat), NEW b \in Seq(Nat), NEW n \in 0 .. Len(b),
         NEW s2 \in Seq(Nat), NEW b2 \in Seq(Nat),
         Numbered(s, 0), Numbered(b, Len(s)),
         Len(s2) = Len(s) + n, Len(b2) = Len(b) - n,
         \A i \in 1 .. Len(s) + n : s2[i] = IF i <= Len(s) THEN s[i] ELSE b[i - Len(s)],
         \A i \in 1 .. Len(b) - n : b2[i] = b[n + i]
  PROVE  Numbered(s2, 0) /\ Numbered(b2, Len(s2))
<1>1. n \in Nat /\ n <= Len(b) /\ Len(s) \in Nat /\ Len(b) \in Nat
  OBVIOUS
<1>2. ASSUME NEW i \in 1 .. Len(s2) PROVE s2[i] = 0 + i
  <2>1. CASE i <= Len(s)
    BY <1>1, <2>1 DEF Numbered
  <2>2. CASE ~(i <= Len(s))
    <3>1. i - Len(s) \in 1 .. Len(b)
      BY <1>1, <2>2
    <3>2. b[i - Len(s)] = Len(s) + (i - Len(s))
      BY <3>1 DEF Numbered
    <3> QED BY <1>1, <2>2, <3>2
  <2> QED BY <2>1, <2>2
<1>3. ASSUME NEW i \in 1 .. Len(b2) PROVE b2[i] = Len(s2) + i
  <2>0. i \in Nat /\ 1 <= i /\ i <= Len(b) - n
    BY <1>1
  <2>1. n + i \in 1 .. Len(b)
    BY <1>1, <2>0
  <2>2. b[n + i] = Len(s) + (n + i)
    BY <2>1 DEF Numbered
  <2> QED BY <1>1, <2>2
<1> QED BY <1>2, <1>3 DEF Numbered

\* The command the transport receives next continues what it has taken.
LEMMA NextCommand ==
  ASSUME Types, Whole, Open, writing.pc = "recv", commands # << >>
  PROVE  /\ Queued > 0
         /\ \/ Head(commands).do = "flush"
            \/ /\ IsWrite(Head(commands), Gone + Kept + 1)
               /\ Gone + Kept + 1 <= Given
<1> USE Numbers
<1>1. Head(commands) = commands[1] /\ Queued > 0
  BY DEF Types, Queued
<1>2. InHand = 0
  BY DEF InHand, Operates
<1>3. CASE session.pc # "await"
  <2>1. Writes(Queued)
    BY <1>3 DEF Whole
  <2>2. IsWrite(commands[1], Given - Queued + 1) /\ Gone + Kept + Queued = Given
    BY <1>1, <1>2, <2>1 DEF Writes
  <2>3. Given - Queued + 1 = Gone + Kept + 1 /\ Gone + Kept + 1 <= Given
    BY <1>1, <2>2
  <2> QED BY <1>1, <2>2, <2>3
<1>4. CASE session.pc = "await"
  <2>1. Writes(Queued - 1) /\ IsFlush(commands[Queued], session.requested)
    BY <1>4, <1>1 DEF Whole
  <2>2. CASE Queued = 1
    BY <1>1, <2>1, <2>2 DEF IsFlush
  <2>3. CASE Queued > 1
    <3>1. /\ IsWrite(commands[1], Given - (Queued - 1) + 1)
          /\ Gone + Kept + Queued - 1 = Given
      BY <1>1, <1>2, <2>1, <2>3 DEF Writes
    <3>2. Given - (Queued - 1) + 1 = Gone + Kept + 1 /\ Gone + Kept + 1 <= Given
      BY <2>3, <3>1
    <3> QED BY <1>1, <3>1, <3>2
  <2> QED BY <1>1, <2>2, <2>3
<1> QED BY <1>3, <1>4

\* What the socket takes keeps the numbers.
LEMMA EmptiedNumbers ==
  ASSUME Types, Gapless, NEW n \in 0 .. Kept, output' = Emptied(n)
  PROVE  /\ Numbered(output'.sent, 0)
         /\ Numbered(output'.buffer, Gone')
         /\ Gone' = Gone + n
         /\ Kept' = Kept - n
<1> DEFINE s == output.sent
           b == output.buffer
           s2 == output'.sent
           b2 == output'.buffer
<1>1. /\ s \in Seq(Nat) /\ b \in Seq(Nat)
      /\ Numbered(s, 0) /\ Numbered(b, Len(s)) /\ n \in 0 .. Len(b)
  BY DEF Types, OutputSet, Gapless, Gone, Kept
<1>2. s2 \in Seq(Nat) /\ b2 \in Seq(Nat)
  BY EmptiedProperties DEF OutputSet, Kept
<1>3. /\ Len(s2) = Len(s) + n /\ Len(b2) = Len(b) - n
      /\ \A i \in 1 .. Len(s) + n : s2[i] = IF i <= Len(s) THEN s[i] ELSE b[i - Len(s)]
      /\ \A i \in 1 .. Len(b) - n : b2[i] = b[n + i]
  BY EmptiedProperties DEF Kept
<1> HIDE DEF s, b, s2, b2
<1>4. Numbered(s2, 0) /\ Numbered(b2, Len(s2))
  BY <1>1, <1>2, <1>3, NumberedShift
<1> QED BY <1>3, <1>4 DEF Gone, Kept, s, b, s2, b2

\* No step of either half opens a gap.
LEMMA GaplessStep == ASSUME IInv, Next PROVE Gapless'
<1> USE Numbers DEF IInv
<1>0. given \in Seq(Nat) /\ output.buffer \in Seq(Nat) /\ output.sent \in Seq(Nat)
  BY DEF Types, OutputSet
<1>1. CASE UNCHANGED <<writing, output, given>>
  BY <1>1 DEF Gapless, Operates, Given, Gone, Kept
<1>2. CASE Write
  <2>1. CASE progress.failure # NoOutcome
    BY <1>1, <1>2, <2>1 DEF Write
  <2>2. CASE progress.failure = NoOutcome
    <3>1. given' = Append(given, Given + 1) /\ UNCHANGED <<writing, output>>
      BY <1>2, <2>2 DEF Write, Given
    <3>2. Given' = Given + 1 /\ Numbered(given', 0)
      <4>1. given' = Append(given, 0 + Len(given) + 1)
        BY <3>1 DEF Given
      <4>2. Numbered(given, 0)
        BY DEF Gapless
      <4> QED BY <1>0, <4>1, <4>2, NumberedAppend DEF Given
    <3>3. Operates("write") => writing.command.stanza \in Nat
      BY WritingFields DEF Operates
    <3>4. /\ Operates("write")' = Operates("write") /\ Gone' = Gone /\ Kept' = Kept
          /\ output'.sent = output.sent /\ output'.buffer = output.buffer
          /\ writing' = writing
      BY <3>1 DEF Operates, Gone, Kept
    <3> QED BY <3>2, <3>3, <3>4 DEF Gapless
  <2> QED BY <2>1, <2>2
<1>3. CASE Receive
  <2>1. writing.pc = "recv" /\ commands # << >> /\ UNCHANGED <<output, given>>
    BY <1>3 DEF Receive
  <2>2. Gone' = Gone /\ Kept' = Kept /\ Given' = Given
    BY <2>1 DEF Gone, Kept, Given
  <2>3. CASE writing' = writing
    BY <1>1, <2>1, <2>3
  <2>4. CASE writing'.pc = "finish"
    BY <2>1, <2>2, <2>4 DEF Gapless, Operates
  <2>5. CASE Open /\ writing'.pc = "operate" /\ writing'.command = Head(commands)
    <3>1. \/ Head(commands).do = "flush"
          \/ /\ IsWrite(Head(commands), Gone + Kept + 1)
             /\ Gone + Kept + 1 <= Given
      BY <2>1, <2>5, NextCommand
    <3> QED BY <2>1, <2>2, <2>5, <3>1 DEF Gapless, Operates, IsWrite
  <2>6. \/ writing' = writing
        \/ writing'.pc = "finish"
        \/ Open /\ writing'.pc = "operate" /\ writing'.command = Head(commands)
    <3> DEFINE c == Head(commands)
    <3>1. \/ writing' = [writing EXCEPT !.pc = "finish", !.outcome = c.outcome]
          \/ writing' = writing
          \/ ~DropsCommand /\ writing' = [writing EXCEPT !.pc = "operate", !.command = c]
      BY <1>3 DEF Receive
    <3> HIDE DEF c
    <3>2. \/ writing'.pc = "finish"
          \/ writing' = writing
          \/ ~DropsCommand /\ writing'.pc = "operate" /\ writing'.command = c
      BY <3>1 DEF Types, WritingSet
    <3> QED BY <3>2 DEF DropsCommand, Open, c
  <2> QED BY <2>3, <2>4, <2>5, <2>6
<1>4. CASE OperationStops \/ FlushOutput
  <2>1. writing'.pc = "recv" /\ UNCHANGED <<output, given>>
    BY <1>4 DEF OperationStops, FlushOutput, Types, WritingSet
  <2> QED BY <2>1 DEF Gapless, Operates, Gone, Kept, Given
<1>5. CASE WriteOutput
  <2>1. writing'.pc = "recv" /\ UNCHANGED given
    BY <1>5 DEF WriteOutput, Types, WritingSet
  <2>2. CASE UNCHANGED output
    BY <2>1, <2>2 DEF Gapless, Operates, Gone, Kept, Given
  <2>3. CASE output' = [output EXCEPT !.buffer = Append(@, writing.command.stanza)]
    <3>1. writing.command.stanza = Gone + Kept + 1 /\ Gone + Kept + 1 <= Given
      BY <1>5, WritingFields DEF WriteOutput, Operates, Gapless
    <3>2. /\ output'.sent = output.sent
          /\ output'.buffer = Append(output.buffer, Gone + Kept + 1)
      BY <2>3, <3>1 DEF Types, OutputSet
    <3>3. Kept' = Kept + 1 /\ Numbered(output'.buffer, Gone)
      BY <1>0, <3>2, NumberedAppend DEF Gapless, Kept
    <3>4. Gone' = Gone /\ Given' = Given
      BY <2>1, <3>2 DEF Gone, Given
    <3> QED BY <2>1, <3>1, <3>2, <3>3, <3>4 DEF Gapless, Operates
  <2> QED BY <1>5, <2>2, <2>3 DEF WriteOutput
<1>6. CASE SocketTakes
  <2>1. PICK n \in 0 .. Kept : output' = Emptied(n)
    BY <1>6 DEF SocketTakes, Kept
  <2>2. UNCHANGED <<writing, given>>
    BY <1>6 DEF SocketTakes
  <2>3. /\ Numbered(output'.sent, 0) /\ Numbered(output'.buffer, Gone')
        /\ Gone' + Kept' = Gone + Kept
    BY <2>1, EmptiedNumbers
  <2>4. Operates("write")' = Operates("write") /\ Given' = Given
    BY <2>2 DEF Operates, Given
  <2> QED BY <2>2, <2>3, <2>4 DEF Gapless
<1>7. CASE Finish
  <2>1. PICK n \in 0 .. Kept : output' = Emptied(n)
    BY <1>7 DEF Finish, Kept
  <2>2. writing'.pc = "done" /\ UNCHANGED given
    BY <1>7 DEF Finish, Types, WritingSet
  <2>3. /\ Numbered(output'.sent, 0) /\ Numbered(output'.buffer, Gone')
        /\ Gone' + Kept' = Gone + Kept
    BY <2>1, EmptiedNumbers
  <2> QED BY <2>2, <2>3 DEF Gapless, Operates, Given
<1>8. \/ UNCHANGED <<writing, output, given>>
      \/ Write \/ Receive \/ OperationStops \/ FlushOutput \/ WriteOutput \/ SocketTakes \/ Finish
  BY DEF Next, SessionNext, TransportNext, TakeMailbox, TakeIncoming, DrainUntil, Handled,
         RequestFlush, AwaitFlush, EndTurn, End, Close, ReadGate, ReadStops, ReadSend,
         MonitorFails, Delivered, Cut, ReadEvent, Expire
<1> QED BY <1>1, <1>2, <1>3, <1>4, <1>5, <1>6, <1>7, <1>8

\* The link never opens again, and is open only while the session runs.
LEMMA OpenOnce ==
  ASSUME IInv, Next, Open'
  PROVE  Open /\ Running
<1> USE DEF IInv
<1>1. \A o : ~EndWith(o)
  BY EndWithFields DEF Open
<1>2. \A o \in Outcomes \ {NoOutcome} : ~Failed(o)
  BY FailedTypes DEF Open
<1>3. progress.failure = NoOutcome /\ progress.stopped = FALSE
  <2>1. CASE UNCHANGED progress
    BY <2>1, Numbers DEF Open
  <2>2. CASE EndTurn \/ FlushOutput
    <3>1. progress'.failure = progress.failure /\ progress'.stopped = progress.stopped
      BY <1>2, <2>2, OutcomeNames DEF EndTurn, FlushOutput, Types, ProgressSet
    <3> QED BY <3>1, Numbers DEF Open
  <2>3. UNCHANGED progress \/ EndTurn \/ FlushOutput
    BY <1>1, <1>2, OutcomeNames
       DEF Next, SessionNext, TransportNext, TakeMailbox, TakeIncoming, DrainUntil, Handled,
           Write, RequestFlush, AwaitFlush, End, Close, Receive, OperationStops, WriteOutput,
           SocketTakes, ReadGate, ReadStops, ReadSend, MonitorFails, Finish, Delivered, Cut,
           ReadEvent, Expire
  <2> QED BY <2>1, <2>2, <2>3
<1> QED BY <1>3 DEF Open, Turns

\* Nothing given is lost while the link is open, and a flush that completed
\* left nothing behind (LinkWriter::flush, LinkTransport::write).
LEMMA WholeStep == ASSUME IInv, Next PROVE Whole'
<1> SUFFICES ASSUME Open' PROVE Whole'
  BY DEF Whole
<1> USE Numbers DEF IInv
<1>0. Open /\ Running /\ progress.failure = NoOutcome /\ ~progress.stopped
  BY OpenOnce DEF Open
<1>a. (\A o : ~EndWith(o)) /\ (\A o \in Outcomes \ {NoOutcome} : ~Failed(o))
  BY EndWithFields, FailedTypes DEF Open
<1>b. /\ commands \in Seq(Command)
      /\ session \in SessionSet
  BY DEF Types
<1>1. CASE /\ UNCHANGED <<commands, writing, output, given>>
           /\ session'.requested = session.requested
           /\ progress'.completedFlush = progress.completedFlush
           /\ session.pc # "await" /\ session'.pc # "await"
  <2>1. Writes(Queued)' <=> Writes(Queued)
    BY <1>1 DEF Writes, InHand, Operates, Given, Gone, Kept, Queued
  <2>2. Operates("flush")' = Operates("flush")
    BY <1>1 DEF Operates
  <2> QED BY <1>0, <1>1, <2>1, <2>2 DEF Whole
<1>2. CASE /\ UNCHANGED <<commands, writing, output, given>>
           /\ UNCHANGED session
           /\ progress'.completedFlush = progress.completedFlush
  <2>1. /\ Writes(Queued)' = Writes(Queued)
        /\ Writes(Queued - 1)' = Writes(Queued - 1)
        /\ Writes(0)' = Writes(0)
        /\ Queued' = Queued /\ Gone' = Gone /\ Given' = Given
        /\ commands'[Queued'] = commands[Queued]
    BY <1>2 DEF Writes, InHand, Operates, Given, Gone, Kept, Queued
  <2>2. Operates("flush")' = Operates("flush") /\ writing' = writing
    BY <1>2 DEF Operates
  <2> QED BY <1>0, <1>2, <2>1, <2>2 DEF Whole
<1>3. CASE Write
  <2> DEFINE c == [do |-> "write", stanza |-> Given + 1]
  <2>1. /\ commands' = Append(commands, c) /\ given' = Append(given, Given + 1)
        /\ UNCHANGED <<progress, writing, output>> /\ session.pc = "write"
        /\ session' = [session EXCEPT !.left = @ - 1]
    BY <1>0, <1>3 DEF Write, Given
  <2>2. session'.pc = "write" /\ session'.requested = session.requested
    BY <2>1, <1>b DEF SessionSet
  <2>3. IsWrite(c, Given + 1) /\ c \in Command
    BY CommandTypes DEF IsWrite
  <2> HIDE DEF c
  <2>4. /\ Queued' = Queued + 1 /\ commands'[Queued + 1] = c
        /\ \A k \in 1 .. Queued : commands'[k] = commands[k]
    BY <1>b, <2>1, <2>3, AppendProperties DEF Queued
  <2>5. Given' = Given + 1
    BY <2>1, AppendProperties DEF Types, Given
  <2>6. Gone' = Gone /\ Kept' = Kept /\ InHand' = InHand /\ Operates("flush")' = Operates("flush")
    BY <2>1 DEF Gone, Kept, InHand, Operates
  <2>7. /\ Writes(Queued) /\ ~Operates("flush")
        /\ progress.completedFlush = session.requested
    BY <1>0, <2>1 DEF Whole
  <2>8. ASSUME NEW k \in 1 .. Queued + 1
        PROVE  IsWrite(commands'[k], Given + 1 - (Queued + 1) + k)
    <3>1. Given + 1 - (Queued + 1) + k = Given - Queued + k
      OBVIOUS
    <3>2. CASE k = Queued + 1
      <4>1. Given - Queued + k = Given + 1
        BY <3>2
      <4> QED BY <2>3, <2>4, <3>1, <3>2, <4>1
    <3>3. CASE k # Queued + 1
      <4>1. k \in 1 .. Queued
        BY <3>3
      <4> QED BY <2>4, <2>7, <3>1, <4>1 DEF Writes
    <3> QED BY <3>2, <3>3
  <2>9. Gone + Kept + InHand + (Queued + 1) = Given + 1
    BY <2>7 DEF Writes
  <2>10. Writes(Queued)'
    BY <2>4, <2>5, <2>6, <2>8, <2>9 DEF Writes
  <2> QED BY <2>1, <2>2, <2>6, <2>7, <2>10 DEF Whole
<1>4. CASE RequestFlush
  <2>1. CASE Len(given) = acked
    <3>1. session' = [session EXCEPT !.pc = "flush"] /\ session.pc = "write"
          /\ UNCHANGED <<commands, writing, output, given, progress>>
      BY <1>4, <2>1 DEF RequestFlush
    <3>2. session'.pc = "flush" /\ session'.requested = session.requested
      BY <1>b, <3>1 DEF SessionSet
    <3> QED BY <1>1, <3>1, <3>2
  <2>2. CASE Len(given) # acked
    <3> DEFINE c == [do |-> "flush", through |-> Len(given), request |-> session.requested + 1]
    <3>1. /\ commands' = Append(commands, c)
          /\ session' = [session EXCEPT !.pc = "await", !.requested = @ + 1]
          /\ UNCHANGED <<progress, writing, output, given>> /\ session.pc = "write"
      BY <1>0, <1>4, <2>2 DEF RequestFlush
    <3>2. session'.pc = "await" /\ session'.requested = session.requested + 1
      BY <3>1, <1>b DEF SessionSet
    <3>3. IsFlush(c, session.requested + 1) /\ c \in Command
      BY CommandTypes DEF IsFlush, Types
    <3> HIDE DEF c
    <3>4. /\ Queued' = Queued + 1 /\ commands'[Queued + 1] = c
          /\ \A k \in 1 .. Queued : commands'[k] = commands[k]
      BY <1>b, <3>1, <3>3, AppendProperties DEF Queued
    <3>5. /\ Gone' = Gone /\ Kept' = Kept /\ InHand' = InHand /\ Given' = Given
          /\ Operates("flush")' = Operates("flush")
      BY <3>1 DEF Gone, Kept, InHand, Operates, Given
    <3>6. /\ Writes(Queued) /\ ~Operates("flush")
          /\ progress.completedFlush = session.requested
      BY <1>0, <3>1 DEF Whole
    <3>7. Queued' - 1 = Queued /\ Queued' > 0
      BY <3>4
    <3>8. Writes(Queued - 1)'
      BY <3>4, <3>5, <3>6, <3>7 DEF Writes
    <3>9. IsFlush(commands'[Queued'], session'.requested)
      BY <3>2, <3>3, <3>4
    <3> QED BY <3>1, <3>2, <3>5, <3>6, <3>7, <3>8, <3>9 DEF Whole
  <2> QED BY <2>1, <2>2
<1>5. CASE AwaitFlush
  <2>1. /\ progress.completedFlush >= session.requested /\ session.pc = "await"
        /\ session' = [session EXCEPT !.pc = "flush"]
        /\ UNCHANGED <<commands, progress, writing, output, given>>
    BY <1>0, <1>5 DEF AwaitFlush, Answered
  <2>2. session'.pc = "flush" /\ session'.requested = session.requested
    BY <1>b, <2>1 DEF SessionSet
  <2>3. /\ Queued = 0 /\ Writes(0) /\ ~Operates("flush")
        /\ progress.completedFlush = session.requested
    BY <1>0, <2>1 DEF Whole
  <2>4. Writes(Queued)' /\ Operates("flush")' = Operates("flush")
    BY <2>1, <2>3 DEF Writes, InHand, Operates, Given, Gone, Kept, Queued
  <2> QED BY <2>1, <2>2, <2>3, <2>4 DEF Whole
<1>6. CASE End \/ Close \/ OperationStops
  BY <1>0, <1>6 DEF End, Close, OperationStops, Running
<1>7. CASE Receive
  <2> DEFINE c == Head(commands)
  <2>1. /\ writing.pc = "recv" /\ commands # << >> /\ commands' = Tail(commands)
        /\ UNCHANGED <<session, output, given>>
    BY <1>7 DEF Receive
  <2>2. /\ Queued' = Queued - 1 /\ c = commands[1]
        /\ \A k \in 1 .. Queued - 1 : commands'[k] = commands[k + 1]
    BY <1>b, <2>1, HeadTailProperties DEF Queued
  <2>3. /\ Queued > 0
        /\ c.do = "flush" \/ (IsWrite(c, Gone + Kept + 1) /\ Gone + Kept + 1 <= Given)
    BY <1>0, <2>1, NextCommand
  <2>4. /\ writing' = [writing EXCEPT !.pc = "operate", !.command = c]
        /\ UNCHANGED progress
    BY <1>0, <1>7, <1>a, <2>3, OutcomeNames DEF Receive, IsWrite, DropsCommand
  <2> HIDE DEF c
  <2>5. writing'.pc = "operate" /\ writing'.command = c
    BY <2>4 DEF Types, WritingSet
  <2>6. Gone' = Gone /\ Kept' = Kept /\ Given' = Given
    BY <2>1 DEF Gone, Kept, Given
  <2>7. InHand = 0 /\ ~Operates("flush")
    BY <2>1 DEF InHand, Operates
  <2>8. CASE IsWrite(c, Gone + Kept + 1)
    <3>1. InHand' = 1 /\ ~Operates("flush")'
      BY <2>5, <2>8 DEF InHand, Operates, IsWrite
    <3>2. ASSUME NEW w \in 1 .. Queued, Writes(w)
          PROVE  Writes(w - 1)'
      <4>1. ASSUME NEW k \in 1 .. w - 1
            PROVE  IsWrite(commands'[k], Given - (w - 1) + k)
        <5>1. k + 1 \in 1 .. w /\ k \in 1 .. Queued - 1
          OBVIOUS
        <5>2. Given - w + (k + 1) = Given - (w - 1) + k
          OBVIOUS
        <5> QED BY <2>2, <3>2, <5>1, <5>2 DEF Writes
      <4>2. Gone + Kept + 1 + (w - 1) = Given
        BY <2>7, <3>2 DEF Writes
      <4> QED BY <2>6, <3>1, <4>1, <4>2 DEF Writes
    <3>3. CASE session.pc # "await"
      <4>1. Writes(Queued) /\ progress.completedFlush = session.requested
        BY <1>0, <3>3 DEF Whole
      <4>2. Writes(Queued)'
        BY <2>2, <2>3, <3>2, <4>1
      <4> QED BY <2>1, <2>4, <3>1, <3>3, <4>1, <4>2 DEF Whole
    <3>4. CASE session.pc = "await"
      <4>1. /\ Writes(Queued - 1) /\ IsFlush(commands[Queued], session.requested)
            /\ progress.completedFlush + 1 = session.requested
        BY <1>0, <2>3, <3>4 DEF Whole
      <4>2. Queued # 1
        BY <2>2, <2>8, <4>1 DEF IsWrite, IsFlush
      <4>3. Writes(Queued - 1)' /\ Queued' > 0
        BY <2>2, <2>3, <3>2, <4>1, <4>2
      <4>4. commands'[Queued'] = commands[Queued]
        BY <2>2, <2>3, <4>2
      <4> QED BY <2>1, <2>4, <3>1, <3>4, <4>1, <4>3, <4>4 DEF Whole
    <3> QED BY <3>3, <3>4
  <2>9. CASE c.do = "flush"
    <3>1. InHand' = 0 /\ Operates("flush")'
      BY <2>5, <2>9 DEF InHand, Operates
    <3>2. session.pc = "await"
      <4>1. SUFFICES ASSUME session.pc # "await" PROVE FALSE
        OBVIOUS
      <4>2. Writes(Queued)
        BY <1>0, <4>1 DEF Whole
      <4>3. IsWrite(commands[1], Given - Queued + 1)
        BY <2>3, <4>2 DEF Writes
      <4> QED BY <2>2, <2>9, <4>3 DEF IsWrite
    <3>3. /\ Writes(Queued - 1) /\ IsFlush(commands[Queued], session.requested)
          /\ progress.completedFlush + 1 = session.requested
      BY <1>0, <2>3, <3>2 DEF Whole
    <3>4. Queued = 1
      <4>1. SUFFICES ASSUME Queued # 1 PROVE FALSE
        OBVIOUS
      <4>2. IsWrite(commands[1], Given - (Queued - 1) + 1)
        BY <2>3, <3>3, <4>1 DEF Writes
      <4> QED BY <2>2, <2>9, <4>2 DEF IsWrite
    <3>5. Queued' = 0 /\ Writes(0)'
      BY <2>2, <2>6, <2>7, <3>1, <3>3, <3>4 DEF Writes
    <3>6. writing'.command.request = session.requested
      BY <2>2, <2>5, <3>3, <3>4 DEF IsFlush
    <3> QED BY <2>1, <2>4, <3>1, <3>2, <3>3, <3>5, <3>6 DEF Whole
  <2> QED BY <2>3, <2>8, <2>9
<1>8. CASE WriteOutput
  <2>1. /\ output' = [output EXCEPT !.buffer = Append(@, writing.command.stanza)]
        /\ UNCHANGED <<progress, commands, session, given>>
        /\ Operates("write")
    BY <1>8, <1>a, OutcomeNames DEF WriteOutput, Operates
  <2>2. writing'.pc = "recv"
    BY <1>8 DEF WriteOutput, Types, WritingSet
  <2>3. output'.sent = output.sent /\ output'.buffer = Append(output.buffer, writing.command.stanza)
    BY <2>1 DEF Types, OutputSet
  <2>4. Gone' = Gone /\ Kept' = Kept + 1 /\ Given' = Given /\ Queued' = Queued
    <3>1. output.buffer \in Seq(Nat) /\ writing.command.stanza \in Nat
      BY <2>1, WritingFields DEF Types, OutputSet, Operates
    <3> QED BY <2>1, <2>3, <3>1, AppendProperties DEF Gone, Kept, Given, Queued
  <2>5. InHand = 1 /\ InHand' = 0 /\ ~Operates("flush") /\ ~Operates("flush")'
    BY <2>1, <2>2 DEF InHand, Operates
  <2>6. ASSUME NEW w \in Nat, Writes(w) PROVE Writes(w)'
    BY <2>1, <2>4, <2>5, <2>6 DEF Writes
  <2>7. CASE session.pc # "await"
    <3>1. Writes(Queued) /\ progress.completedFlush = session.requested
      BY <1>0, <2>7 DEF Whole
    <3>2. Writes(Queued)'
      BY <2>4, <2>6, <3>1
    <3> QED BY <2>1, <2>5, <2>7, <3>1, <3>2 DEF Whole
  <2>8. CASE session.pc = "await"
    <3>1. ~(Writes(0) /\ Gone = Given)
      BY <2>5 DEF Writes
    <3>2. /\ Queued > 0 /\ Writes(Queued - 1) /\ IsFlush(commands[Queued], session.requested)
          /\ progress.completedFlush + 1 = session.requested
      BY <1>0, <2>5, <2>8, <3>1 DEF Whole
    <3>3. Writes(Queued - 1)' /\ Queued' > 0
      BY <2>4, <2>6, <3>2
    <3> QED BY <2>1, <2>4, <2>5, <2>8, <3>2, <3>3 DEF Whole
  <2> QED BY <2>7, <2>8
<1>9. CASE SocketTakes \/ Finish
  <2>1. PICK n \in 0 .. Kept : output' = Emptied(n)
    BY <1>9 DEF SocketTakes, Finish, Kept
  <2>2. /\ UNCHANGED <<progress, commands, session, given>>
        /\ Operates("write")' = Operates("write") /\ Operates("flush")' = Operates("flush")
        /\ Operates("flush") => writing' = writing
    BY <1>9 DEF SocketTakes, Finish, Operates, Types, WritingSet
  <2>3. /\ Gone' + Kept' = Gone + Kept /\ Given' = Given /\ Queued' = Queued
        /\ Gone' = Gone + n
    BY <2>1, <2>2, EmptiedNumbers DEF Given, Queued
  <2>4. ASSUME NEW w \in Nat, Writes(w) PROVE Writes(w)'
    BY <2>2, <2>3, <2>4 DEF Writes, InHand
  <2>5. Gone = Given => Gone' = Given
    BY <2>3 DEF Gapless
  <2>6. Writes(Queued) => Writes(Queued)'
    BY <2>3, <2>4
  <2>7. Writes(0) => Writes(0)'
    BY <2>4
  <2>8. Queued > 0 /\ Writes(Queued - 1) => Writes(Queued - 1)'
    BY <2>3, <2>4
  <2> QED BY <1>0, <2>2, <2>3, <2>5, <2>6, <2>7, <2>8 DEF Whole
<1>10. CASE FlushOutput
  <2>1. /\ output.buffer = << >> /\ Operates("flush")
        /\ progress' = [progress EXCEPT !.completedFlush = writing.command.request]
        /\ UNCHANGED <<commands, session, given, output>>
    BY <1>10, <1>a, OutcomeNames DEF FlushOutput, Operates
  <2>2. /\ Queued = 0 /\ Writes(0) /\ session.pc = "await"
        /\ writing.command.request = session.requested
    BY <1>0, <2>1 DEF Whole
  <2>3. writing'.pc = "recv"
    BY <1>10 DEF FlushOutput, Types, WritingSet
  <2>4. progress'.completedFlush = session.requested
    BY <2>1, <2>2 DEF Types, ProgressSet
  <2>5. InHand = 0 /\ InHand' = 0 /\ ~Operates("flush")' /\ Kept = 0
    BY <2>1, <2>3 DEF InHand, Operates, Kept
  <2>6. Queued' = 0 /\ Given' = Given /\ Gone' = Gone /\ Kept' = Kept
    BY <2>1, <2>2 DEF Queued, Given, Gone, Kept
  <2>7. Writes(0)' /\ Gone = Given
    BY <2>2, <2>5, <2>6 DEF Writes
  <2> QED BY <2>1, <2>2, <2>4, <2>5, <2>6, <2>7 DEF Whole
<1>11. CASE TakeMailbox \/ TakeIncoming \/ DrainUntil \/ Handled
  <2>1. /\ session'.requested = session.requested
        /\ session.pc # "await" /\ session'.pc # "await"
    BY <1>11, <1>a, <1>b DEF TakeMailbox, TakeIncoming, DrainUntil, Handled, SessionSet
  <2>2. UNCHANGED <<commands, writing, output, given, progress>>
    BY <1>11, <1>a DEF TakeMailbox, TakeIncoming, DrainUntil, Handled
  <2> QED BY <1>1, <2>1, <2>2
<1>12. CASE EndTurn
  <2>1. /\ session'.requested = session.requested
        /\ session.pc # "await" /\ session'.pc # "await"
    <3>1. \/ session' = [session EXCEPT !.pc = "handle", !.draining = FALSE]
          \/ session' = [session EXCEPT !.pc = "select", !.owes = FALSE]
      BY <1>12 DEF EndTurn
    <3>2. session.pc = "flush"
      BY <1>12 DEF EndTurn
    <3> QED BY <1>b, <3>1, <3>2 DEF SessionSet
  <2>2. progress'.completedFlush = progress.completedFlush
    BY <1>12 DEF EndTurn, Types, ProgressSet
  <2> QED BY <1>1, <1>12, <2>1, <2>2 DEF EndTurn
<1>13. CASE ReadGate \/ ReadStops \/ ReadSend \/ MonitorFails \/ Delivered \/ ReadEvent \/ Expire
  BY <1>2, <1>13, <1>a, OutcomeNames
     DEF ReadGate, ReadStops, ReadSend, MonitorFails, Delivered, ReadEvent, Expire
<1>14. CASE Cut
  BY <1>14, <1>a DEF Cut
<1> QED BY <1>3, <1>4, <1>5, <1>6, <1>7, <1>8, <1>9, <1>10, <1>11, <1>12, <1>13, <1>14
        DEF Next, SessionNext, TransportNext

\* The invariant holds at first ...
LEMMA InitInv == Init => IInv
<1> SUFFICES ASSUME Init PROVE IInv
  OBVIOUS
<1>1. Types
  BY DEF Init, Types, NoOutcome, Outcomes, ProgressSet, SessionSet, WritingSet, OutputSet
<1>2. Turns
  BY LinkAssumption DEF Init, Turns, Running, Given
<1>3. Gapless
  BY DEF Init, Gapless, Numbered, Operates, Given, Gone, Kept
<1>4. Whole
  BY DEF Init, Whole, Writes, InHand, Operates, Given, Gone, Kept, Queued
<1> QED BY <1>1, <1>2, <1>3, <1>4 DEF IInv

\* ... and every step keeps it.
LEMMA Step == IInv /\ [Next]_vars => IInv'
<1>1. ASSUME IInv, Next PROVE IInv'
  BY <1>1, TypesStep, TurnsStep, GaplessStep, WholeStep DEF IInv
<1>2. ASSUME IInv, UNCHANGED vars PROVE IInv'
  BY <1>2 DEF vars, IInv, Types, Turns, Running, Gapless, Numbered, Operates, Whole, Open, Writes,
              InHand, Given, Gone, Kept, Queued
<1> QED BY <1>1, <1>2

\* What was given is, in order, what left, what is buffered, what is in hand and
\* what is queued, as long as neither half of the stream has given up (link/mod.rs).
THEOREM Invariance == Spec => []IInv
  BY InitInv, Step, PTL DEF Spec

-----------------------------------------------------------------------------
(* The refinement *)

\* What the socket takes is a longer prefix of what was given.
LEMMA Leaves ==
  ASSUME IInv, NEW n \in 0 .. Kept, output' = Emptied(n), UNCHANGED <<progress, given, acked>>
  PROVE  [Output!Next]_Output!vars
<1> USE Numbers DEF IInv
<1>1. /\ Numbered(output'.sent, 0) /\ Gone' = Gone + n /\ Gone + Kept <= Given
      /\ Numbered(output.sent, 0) /\ Numbered(given, 0)
  BY EmptiedNumbers DEF Gapless
<1>2. /\ given \in Seq(Nat) /\ output.sent \in Seq(Nat) /\ output'.sent \in Seq(Nat)
  BY EmptiedProperties DEF Types, OutputSet, Kept
<1>3. CASE n = 0
  <2>1. Len(output'.sent) = Len(output.sent)
    BY <1>1, <1>3 DEF Gone
  <2>2. \A i \in 1 .. Len(output'.sent) : output'.sent[i] = output.sent[i]
    BY <1>1, <1>2, <2>1 DEF Numbered
  <2>3. output'.sent = output.sent
    BY <1>2, <2>1, <2>2, SeqEqual
  <2> QED BY <2>3 DEF Output!vars
<1>4. CASE n # 0
  <2> DEFINE m == Gone + n
             p == SubSeq(given, 1, m)
  <2>1. m \in Nat /\ m \in Gone + 1 .. Given /\ m <= Given
    BY <1>1, <1>4
  <2>2. p \in Seq(Nat) /\ Len(p) = m /\ \A i \in 1 .. m : p[i] = given[i]
    <3> HIDE DEF m
    <3>1. m \in Nat /\ m <= Len(given)
      BY <2>1 DEF Given
    <3>2. \A i \in 1 .. m : given[i] \in Nat
      <4>1. \A i \in 1 .. m : i \in 1 .. Len(given)
        BY <1>2, <3>1
      <4> QED BY <1>2, <4>1, ElementOfSeq
    <3>3. /\ p \in Seq(Nat) /\ Len(p) = IF 1 <= m THEN m - 1 + 1 ELSE 0
          /\ \A i \in 1 .. m - 1 + 1 : p[i] = given[1 + i - 1]
      BY <3>1, <3>2, SubSeqProperties
    <3> QED BY <3>1, <3>3
  <2>3. \A i \in 1 .. m : p[i] = output'.sent[i]
    <3> HIDE DEF p, m
    <3> SUFFICES ASSUME NEW i \in 1 .. m PROVE p[i] = output'.sent[i]
      OBVIOUS
    <3>1. i \in 1 .. Len(given) /\ i \in 1 .. Len(output'.sent)
      BY <1>1, <2>1 DEF m, Given, Gone
    <3>2. given[i] = 0 + i /\ output'.sent[i] = 0 + i
      BY <1>1, <3>1 DEF Numbered
    <3> QED BY <2>2, <3>2
  <2>4. output'.sent = p
    <3> HIDE DEF p, m
    <3>1. Len(output'.sent) = Len(p)
      BY <1>1, <2>2 DEF m, Gone
    <3> QED BY <1>2, <2>2, <2>3, <3>1, SeqEqual
  <2>5. Output!Leave
    BY <2>1, <2>4 DEF Output!Leave, Given, Gone
  <2> QED BY <2>5 DEF Output!Next
<1> QED BY <1>3, <1>4

\* A step that moves no output stutters, or breaks the channel.
LEMMA Quiet ==
  ASSUME IInv, Next, UNCHANGED <<output, given, acked>>
  PROVE  [Output!Next]_Output!vars
<1>1. CASE Open /\ ~Open'
  <2>1. Output!Break
    BY <1>1 DEF Output!Break, Open
  <2> QED BY <2>1 DEF Output!Next
<1>2. CASE Open /\ Open'
  BY <1>2 DEF Output!vars, Open
<1>3. CASE ~Open /\ ~Open'
  BY <1>3 DEF Output!vars, Open
<1> QED BY <1>1, <1>2, <1>3, OpenOnce

\* Every step of the link is a step of the channel, or a stutter.
LEMMA Simulation == IInv /\ [Next]_vars => [Output!Next]_Output!vars
<1> SUFFICES ASSUME IInv, [Next]_vars PROVE [Output!Next]_Output!vars
  OBVIOUS
<1>0. CASE UNCHANGED vars
  BY <1>0 DEF vars, Output!vars
<1> SUFFICES ASSUME Next PROVE [Output!Next]_Output!vars
  BY <1>0
<1> USE DEF IInv
<1>1. CASE Write
  <2>1. CASE progress.failure # NoOutcome
    BY <1>1, <2>1, Quiet DEF Write
  <2>2. CASE progress.failure = NoOutcome
    <3>1. /\ given' = Append(given, Given + 1) /\ UNCHANGED <<progress, output, acked>>
          /\ session.pc = "write" /\ session.left > 0
      BY <1>1, <2>2 DEF Write, Given
    <3>2. Running /\ Open
      BY <2>2, <3>1 DEF Running, Turns, Open
    <3>3. Given + 1 \in 1 .. MaxOutput
      BY <3>1, <3>2, Numbers DEF Turns
    <3>4. Output!Give
      BY <3>1, <3>2, <3>3 DEF Output!Give, Open
    <3> QED BY <3>4 DEF Output!Next
  <2> QED BY <2>1, <2>2
<1>2. CASE AwaitFlush
  <2>1. CASE progress.failure # NoOutcome
    BY <1>2, <2>1, Quiet DEF AwaitFlush
  <2>2. CASE progress.failure = NoOutcome
    <3>1. /\ acked' = Given /\ UNCHANGED <<progress, output, given>>
          /\ session.pc = "await" /\ progress.completedFlush >= session.requested
      BY <1>2, <2>2 DEF AwaitFlush, Given, Answered
    <3>2. Running /\ Open
      BY <2>2, <3>1 DEF Running, Turns, Open
    <3>3. Gone = Given /\ acked < Given
      BY <3>1, <3>2, Numbers DEF Whole, Turns
    <3>4. acked' \in acked + 1 .. Gone
      BY <3>1, <3>3, Numbers
    <3>5. Output!Acknowledge
      BY <3>1, <3>2, <3>4 DEF Output!Acknowledge, Open, Gone
    <3> QED BY <3>5 DEF Output!Next
  <2> QED BY <2>1, <2>2
<1>3. CASE SocketTakes \/ Finish
  <2>1. PICK n \in 0 .. Kept : output' = Emptied(n)
    BY <1>3, Numbers DEF SocketTakes, Finish, Kept
  <2> QED BY <1>3, <2>1, Leaves DEF SocketTakes, Finish
<1>4. CASE WriteOutput
  <2>1. UNCHANGED <<given, acked>> /\ output'.sent = output.sent
    BY <1>4 DEF WriteOutput, Types, OutputSet
  <2>2. CASE UNCHANGED progress
    BY <2>1, <2>2 DEF Output!vars
  <2>3. CASE UNCHANGED output
    BY <2>1, <2>3, Quiet
  <2> QED BY <1>4, <2>2, <2>3 DEF WriteOutput
<1>5. \/ Write \/ AwaitFlush \/ SocketTakes \/ Finish \/ WriteOutput
      \/ UNCHANGED <<output, given, acked>>
  BY DEF Next, SessionNext, TransportNext, TakeMailbox, TakeIncoming, DrainUntil, Handled,
         RequestFlush, EndTurn, End, Close, Receive, OperationStops, FlushOutput, ReadGate,
         ReadStops, ReadSend, MonitorFails, Delivered, Cut, ReadEvent, Expire
<1> QED BY <1>1, <1>2, <1>3, <1>4, <1>5, Quiet

\* The two halves of a bound stream with their queue implement the abstract
\* channel: the client gets a gapless prefix of what the session wrote, and flush
\* (link/mod.rs) succeeds only for output that left.
THEOREM LinkImplementsChannel == Spec => ImplementsChannel
<1>1. Init => Output!Init
  BY DEF Init, Output!Init
<1> QED BY <1>1, Invariance, Simulation, PTL DEF Spec, ImplementsChannel, Output!Spec
=============================================================================
