--------------------------- MODULE OfflineProofs ---------------------------
(***************************************************************************)
(* Proofs about Offline, for any number of senders, sessions and messages, *)
(* any quota and any capacity: a message accepted for storage stays there  *)
(* until a client has it or the account goes (KeptUntilFlushed), a session *)
(* that became eligible leaves none behind (NothingStranded), and the      *)
(* messages of a sender reach a session in their order (SenderOrder).      *)
(*                                                                         *)
(* The invariants come in layers, each inductive relative to those before: *)
(* types, who holds the writer and the line, what a sequence refers to,    *)
(* where a stored message is on its way, and the order of what is queued.  *)
(***************************************************************************)
EXTENDS Offline, FiniteSetTheorems, TLAPS

-----------------------------------------------------------------------------
(* The inductive invariant *)

\* A stream that is past "ready" has a message to send.
Sending == \A p \in Senders : sender[p].pc # "ready" => sender[p].n <= MaxMessages

Types == Shape /\ Sending

\* Mailboxes keep to their capacity.
Bounded == \A s \in Sessions : Len(session[s].mailbox) <= Capacity

\* Whoever is within a write transaction holds the writer.
WriterInv ==
  /\ \A p \in Senders : sender[p].pc = "writing" =>
       /\ writer = <<"store", p>>
       /\ present
       /\ sender[p].seq = lastSeq + 1
       /\ Cardinality(stored) < Quota
  /\ \A s \in Sessions : /\ ack[s].replay = "commit" => writer = <<"replay", s>>
                         /\ ack[s].live = "commit" => writer = <<"live", s>>
  /\ deletion = "writing" => writer = <<"delete", NoTask>>

\* The message is stored by a sender that went on, or waits for its turn.
Past(m) == m[2] < sender[m[1]].n
Settled(m) == Past(m) \/ (m[2] = sender[m[1]].n /\ sender[m[1]].pc = "queued")

\* The table: keyed by sequence, each message once, gone with the account.
TableInv ==
  /\ Cardinality(stored) <= Quota
  /\ ~present => stored = {} /\ lastSeq = 0
  /\ deletion = "queued" => ~present
  /\ \A e \in stored : 1 <= e.seq /\ e.seq <= lastSeq /\ Settled(e.msg)
  /\ \A e, f \in stored : e.seq = f.seq => e = f

\* The task waits for its turn, or has it.
Attends(t) ==
  \/ \E p \in Senders : t = <<"store", p>> /\ sender[p].pc = "queued"
  \/ \E s \in Sessions : t = <<"presence", s>> /\ work[s].pc \in {"fixed", "set"}
  \/ t = <<"delete", NoTask>> /\ deletion = "queued"

InLine(t) == \E k \in DOMAIN line : line[k] = t

\* The line: exactly those that wait or have their turn, each once; behind a
\* deletion no store.
LineInv ==
  /\ \A k \in DOMAIN line : Attends(line[k])
  /\ \A p \in Senders : sender[p].pc = "queued" => InLine(<<"store", p>>)
  /\ \A s \in Sessions : work[s].pc = "fixed" => InLine(<<"presence", s>>)
  /\ \A s \in Sessions : work[s].pc = "set" => AtHead(<<"presence", s>>)
  /\ deletion = "queued" => InLine(<<"delete", NoTask>>)
  /\ \A j, k \in DOMAIN line : line[j] = line[k] => j = k
  /\ \A j, k \in DOMAIN line :
       j < k /\ line[j] = <<"delete", NoTask>> => line[k][1] # "store"

\* What a session has in each of its states.
SessionShape(s) ==
  /\ session[s].pc \in {"out", "ended"} => ~session[s].alive
  /\ session[s].pc # "bound" =>
       /\ session[s].priority = "none" /\ session[s].through = 0
       /\ session[s].mailbox = <<>> /\ session[s].outbox = <<>>
  /\ session[s].pc \in {"out", "registered"} =>
       ack[s] = NoAck /\ work[s] = NoWork /\ seen[s] = <<>>
  /\ work[s].pc = "none" => work[s] = NoWork
  /\ work[s].pc = "fixed" => work[s].preceding = <<>>
  /\ session[s].priority = "none" => session[s].mailbox = <<>>

SessionInv == \A s \in Sessions : SessionShape(s)

-----------------------------------------------------------------------------
(* Sequences and what they stand for *)

\* A sequence of the table as it is, unless the account is about to be retired.
Reached(seq) == deletion = "queued" \/ seq <= lastSeq

\* What is stored under the sequence of the entry is its message.
Names(x) == x.seq # 0 => /\ Reached(x.seq)
                         /\ \A e \in stored : e.seq = x.seq => e.msg = x.msg

\* What is stored up to the sequence is among the messages, or owed no more.
Covers(through, msgs) == /\ Reached(through)
                         /\ \A e \in stored : e.seq <= through =>
                              e.msg \in msgs \/ e.msg \notin owed

\* What is stored under the sequence is owed no more.
Free(seq) == Reached(seq) /\ \A e \in stored : e.seq = seq => e.msg \notin owed

LastSeq(entries) == entries[Len(entries)].seq

\* The message in a sender's hands, as it is routed.
Fresh(p) == [msg |-> Current(p), seq |-> 0]
Recorded(p) == [msg |-> Current(p), seq |-> sender[p].seq]

AllNamed(entries) == \A k \in DOMAIN entries : Names(entries[k])
AllFree(seqs) == \A q \in seqs : Free(q)

\* What the stream of a session that lives may still release.
Releases(s) ==
  /\ AllNamed(session[s].mailbox) /\ AllNamed(session[s].outbox)
  /\ AllNamed(work[s].preceding)
  /\ Covers(session[s].through, Msgs(session[s].outbox))
  /\ work[s].backlog # <<>> => Covers(LastSeq(work[s].backlog), Msgs(work[s].backlog))
  /\ Covers(ack[s].watermark, {})
  /\ AllFree(ack[s].pending)

\* What a removal under way will take.
Removes(s) ==
  /\ ack[s].replay = "commit" =>
       \A e \in stored : e.seq <= ack[s].through => e.msg \notin owed
  /\ ack[s].live = "commit" =>
       \A e \in stored : e.seq \in ack[s].batch => e.msg \notin owed

RefInv ==
  /\ owed \subseteq Kept(stored)
  /\ \A p \in Senders : sender[p].pc = "queued" => sender[p].seq # 0 /\ Names(Recorded(p))
  /\ \A s \in Sessions : session[s].alive => Releases(s)
  /\ \A s \in Sessions : Removes(s)

-----------------------------------------------------------------------------
(* Where a stored message is *)

\* In the hands of a stream, or of a sender that waits for its turn.
Holds(s, m) == \/ m \in Msgs(session[s].mailbox) \cup Msgs(session[s].outbox)
                          \cup Msgs(work[s].preceding)
               \/ work[s].pc # "fixed" /\ m \in Msgs(work[s].backlog)
Waits(m) == \E p \in Senders : sender[p].pc = "queued" /\ Current(p) = m
Handled(m) == m \in missed \/ Waits(m) \/ \E s \in Sessions : Holds(s, m)

\* The session is about to become eligible.
Rising(s) == /\ session[s].alive /\ session[s].priority = "none"
             /\ work[s].pc = "fixed" /\ work[s].priority = "eligible"

Ahead(a, b) == \E j, k \in DOMAIN line : j < k /\ line[j] = a /\ line[k] = b

\* What is owed is in its backlog or on its way, and what is stored after
\* the backlog was read will be routed when the session has become eligible.
Rises(s) ==
  Rising(s) =>
    /\ \A m \in owed : m \in Msgs(work[s].backlog) \/ Handled(m)
    /\ \A p \in Senders :
         sender[p].pc = "queued" /\ Current(p) \in owed \ Msgs(work[s].backlog) =>
           Ahead(<<"presence", s>>, <<"store", p>>)

\* What an ended session leaves is counted as missed.
Leaves(s) ==
  session[s].pc = "ended" =>
    (Msgs(work[s].preceding) \cup Msgs(work[s].backlog)) \cap owed \subseteq missed

\* What is routed without being stored is not owed.
Unstored(s) ==
  \A k \in DOMAIN session[s].mailbox :
    session[s].mailbox[k].seq = 0 => session[s].mailbox[k].msg \notin owed

WayInv ==
  /\ \A s \in Sessions : /\ Eligible(s) => \A m \in owed : Handled(m)
                         /\ Rises(s) /\ Leaves(s) /\ Unstored(s)
  /\ ReleasesAreTaken

-----------------------------------------------------------------------------
(* The order of what is queued *)

Before(m, n) == m[1] = n[1] => m[2] < n[2]
Sorted(entries) == \A j, k \in DOMAIN entries : j < k => Before(entries[j].msg, entries[k].msg)
AllBefore(A, B) == \A m \in A : \A n \in B : Before(m, n)
AllPast(A) == \A m \in A : Past(m)
Shown(s) == {seen[s][k] : k \in DOMAIN seen[s]}

\* What a session's client has seen, what is queued for it in the order it
\* goes out: each before the next, and all of it sent by its sender.
Chain(shown, outbox, preceding, mailbox) ==
  /\ Sorted(outbox) /\ Sorted(preceding) /\ Sorted(mailbox)
  /\ AllPast(shown \cup Msgs(outbox) \cup Msgs(preceding) \cup Msgs(mailbox))
  /\ AllBefore(shown, Msgs(outbox) \cup Msgs(preceding) \cup Msgs(mailbox))
  /\ AllBefore(Msgs(outbox), Msgs(preceding) \cup Msgs(mailbox))
  /\ AllBefore(Msgs(preceding), Msgs(mailbox))

SeenInOrder(s) ==
  \A j, k \in DOMAIN seen[s] : j < k => Before(seen[s][j], seen[s][k])

\* A backlog was read by a session that was not eligible, which has nothing
\* else to send; until its turn comes the stores it saw are ahead of it.
BacklogOrder(s) ==
  /\ Sorted(work[s].backlog)
  /\ work[s].backlog # <<>> =>
       /\ session[s].outbox = <<>> /\ work[s].preceding = <<>>
       /\ work[s].pc = "fixed" =>
            /\ session[s].priority = "none"
            /\ \A m \in Msgs(work[s].backlog) : Settled(m)
            /\ \A p \in Senders :
                 sender[p].pc = "queued" /\ Current(p) \in Msgs(work[s].backlog) =>
                   Ahead(<<"store", p>>, <<"presence", s>>)
       /\ work[s].pc # "fixed" =>
            /\ AllPast(Msgs(work[s].backlog))
            /\ AllBefore(Msgs(work[s].backlog), Msgs(session[s].mailbox))

SortInv ==
  /\ \A e, f \in stored : e.seq < f.seq => Before(e.msg, f.msg)
  /\ \A s \in Sessions :
       /\ SeenInOrder(s)
       /\ Chain(Shown(s), session[s].outbox, work[s].preceding, session[s].mailbox)
       /\ BacklogOrder(s)

-----------------------------------------------------------------------------
(* Lemmas about the operators *)

(* Reading the table in the order of its key gives each entry once, at the *)
(* place of its rank (the range scan of the OFFLINE table).                *)
LEMMA OrderedTable ==
  ASSUME NEW S \in SUBSET Entries, IsFiniteSet(S),
         \A e, f \in S : e.seq = f.seq => e = f
  PROVE  /\ Ordered(S) \in Seq(S)
         /\ Len(Ordered(S)) = Cardinality(S)
         /\ \A e \in S : \E k \in DOMAIN Ordered(S) : Ordered(S)[k] = e
         /\ \A j, k \in DOMAIN Ordered(S) : j < k => Ordered(S)[j].seq < Ordered(S)[k].seq
<1> DEFINE n == Cardinality(S)
           below(e) == {x \in S : x.seq <= e.seq}
           r == [e \in S |-> Rank(S, e)]
<1>1. n \in Nat
  BY FS_CardinalityType
<1>2. \A e \in S : e.seq \in Nat
  BY DEF Entries
<1>3. \A e \in S : /\ IsFiniteSet(below(e)) /\ Rank(S, e) = Cardinality(below(e))
                   /\ Rank(S, e) \in 1 .. n
  <2> SUFFICES ASSUME NEW e \in S
               PROVE  /\ IsFiniteSet(below(e)) /\ Rank(S, e) = Cardinality(below(e))
                      /\ Rank(S, e) \in 1 .. n
    OBVIOUS
  <2>1. below(e) \in SUBSET S /\ e \in below(e)
    BY <1>2
  <2>2. IsFiniteSet(below(e)) /\ Cardinality(below(e)) <= n
    BY <2>1, FS_Subset
  <2>3. Cardinality(below(e)) \in Nat /\ Cardinality(below(e)) # 0
    BY <2>1, <2>2, FS_CardinalityType, FS_EmptySet
  <2> QED
    BY <1>1, <2>2, <2>3 DEF Rank
<1>r. \A e \in S : Rank(S, e) \in Nat
  <2> HIDE DEF below
  <2> QED
    BY <1>1, <1>3
<1>4. ASSUME NEW e \in S, NEW f \in S, e.seq < f.seq
      PROVE  Rank(S, e) < Rank(S, f)
  <2>1. below(e) \in SUBSET below(f) /\ f \in below(f) /\ f \notin below(e)
    BY <1>2, <1>4
  <2>2. Cardinality(below(e)) <= Cardinality(below(f))
          /\ Cardinality(below(e)) # Cardinality(below(f))
    BY <1>3, <2>1, FS_Subset
  <2>3. Rank(S, e) \in Nat /\ Rank(S, f) \in Nat
    BY <1>r
  <2> HIDE DEF below
  <2> QED
    BY <1>3, <2>2, <2>3
<1>5. r \in Injection(S, 1 .. n)
  <2>1. r \in [S -> 1 .. n]
    BY <1>3
  <2>2. ASSUME NEW e \in S, NEW f \in S, r[e] = r[f]
        PROVE  e = f
    <3>1. Rank(S, e) = Rank(S, f)
      BY <2>2
    <3>2. Rank(S, e) \in Nat
      BY <1>r
    <3>3. ~(e.seq < f.seq) /\ ~(f.seq < e.seq)
      BY <1>4, <3>1, <3>2
    <3> QED
      BY <1>2, <3>3
  <2> QED
    BY <2>1, <2>2 DEF Injection, IsInjective
<1>6. \A k \in 1 .. n : \E e \in S : r[e] = k
  <2>1. IsFiniteSet(1 .. n) /\ Cardinality(1 .. n) = n
    BY <1>1, FS_Interval
  <2>2. r \in Surjection(S, 1 .. n)
    BY <1>5, <2>1, FS_Injection
  <2> QED
    BY <2>2 DEF Surjection
<1>7. \A k \in 1 .. n : Ordered(S)[k] \in S /\ Rank(S, Ordered(S)[k]) = k
  <2> SUFFICES ASSUME NEW k \in 1 .. n
               PROVE  Ordered(S)[k] \in S /\ Rank(S, Ordered(S)[k]) = k
    OBVIOUS
  <2>1. \E e \in S : Rank(S, e) = k
    BY <1>6
  <2>2. Ordered(S)[k] = CHOOSE e \in S : Rank(S, e) = k
    BY DEF Ordered
  <2> HIDE DEF r
  <2> QED
    BY <2>1, <2>2
<1>8. Ordered(S) \in Seq(S) /\ Len(Ordered(S)) = n /\ DOMAIN Ordered(S) = 1 .. n
  BY <1>1, <1>7 DEF Ordered
<1>9. ASSUME NEW e \in S PROVE \E k \in 1 .. n : Ordered(S)[k] = e
  <2>1. Rank(S, e) \in 1 .. n
    BY <1>3
  <2>2. r[Ordered(S)[Rank(S, e)]] = r[e]
    BY <1>7, <2>1
  <2> QED
    BY <1>5, <1>7, <2>1, <2>2 DEF Injection, IsInjective
<1>10. ASSUME NEW j \in 1 .. n, NEW k \in 1 .. n, j < k
       PROVE  Ordered(S)[j].seq < Ordered(S)[k].seq
  <2> DEFINE e == Ordered(S)[j]
             f == Ordered(S)[k]
  <2>1. e \in S /\ f \in S /\ Rank(S, e) = j /\ Rank(S, f) = k
    BY <1>7
  <2>2. e.seq \in Nat /\ f.seq \in Nat
    BY <1>2, <2>1
  <2>3. ~(f.seq < e.seq) /\ (f.seq = e.seq => e = f)
    BY <1>4, <1>10, <2>1
  <2> HIDE DEF e, f
  <2>4. e.seq < f.seq
    BY <1>10, <2>1, <2>2, <2>3
  <2> QED
    BY <2>4 DEF e, f
<1> QED
  BY <1>8, <1>9, <1>10

-----------------------------------------------------------------------------
(* Routing has three outcomes: nobody is there, a session takes the        *)
(* message, its mailbox is full.                                           *)

Unanswered == (\A s \in Sessions : ~Eligible(s)) /\ UNCHANGED session

TakenBy(s, x) == /\ Eligible(s) /\ Len(session[s].mailbox) < Capacity
                 /\ session' = [session EXCEPT ![s].mailbox = Append(@, x)]

Refused == UNCHANGED session

LEMMA RouteCases ==
  ASSUME NEW p \in Senders, Route(p)
  PROVE  /\ sender[p].pc = "ready" /\ sender[p].n <= MaxMessages
         /\ UNCHANGED <<present, stored, lastSeq, writer, line, work, ack, deletion,
                        deletions, owed, seen, missed>>
         /\ \/ Unanswered /\ sender' = [sender EXCEPT ![p].pc = "offline"]
            \/ NextMessage(p) /\ \E s \in Sessions : TakenBy(s, Fresh(p))
            \/ NextMessage(p) /\ Refused
BY DEF Route, Deliver, Unanswered, TakenBy, Refused, Fresh, storage, admin, history

LEMMA RerouteCases ==
  ASSUME NEW p \in Senders, Reroute(p)
  PROVE  /\ sender[p].pc = "queued" /\ AtHead(<<"store", p>>) /\ line' = Tail(line)
         /\ NextMessage(p)
         /\ UNCHANGED <<present, stored, lastSeq, writer, work, ack, deletion,
                        deletions, owed, seen>>
         /\ \/ Unanswered /\ UNCHANGED missed
            \/ UNCHANGED missed /\ \E s \in Sessions : TakenBy(s, Recorded(p))
            \/ Refused /\ missed' = missed \cup ({Current(p)} \cap owed)
BY DEF Reroute, Deliver, Unanswered, TakenBy, Refused, Recorded, storage, admin

-----------------------------------------------------------------------------
(* Types *)

LEMMA CurrentIsMessage ==
  ASSUME Types, NEW p \in Senders, sender[p].n <= MaxMessages
  PROVE  Current(p) \in Messages /\ Fresh(p) \in Entries /\ Recorded(p) \in Entries
<1>1. sender[p].n \in 1 .. MaxMessages /\ sender[p].seq \in Nat
  BY OfflineAssumption DEF Types, Shape, SenderStates
<1> QED
  BY <1>1 DEF Current, Messages, Fresh, Recorded, Entries

LEMMA NextMessageTypes ==
  ASSUME Types, NEW p \in Senders, sender[p].n <= MaxMessages, NextMessage(p)
  PROVE  sender' \in [Senders -> SenderStates] /\ Sending'
BY OfflineAssumption DEF Types, Shape, SenderStates, NextMessage, Sending

LEMMA TakenByTypes ==
  ASSUME Types, NEW s \in Sessions, NEW x \in Entries, TakenBy(s, x)
  PROVE  session' \in [Sessions -> SessionStates]
<1>1. session[s] \in SessionStates /\ session[s].mailbox \in Seq(Entries)
  BY DEF Types, Shape, SessionStates
<1>2. Append(session[s].mailbox, x) \in Seq(Entries)
  BY <1>1
<1>3. [session[s] EXCEPT !.mailbox = Append(session[s].mailbox, x)] \in SessionStates
  BY <1>1, <1>2 DEF SessionStates
<1> QED
  BY <1>3 DEF Types, Shape, TakenBy

LEMMA MsgsType ==
  ASSUME NEW q \in Seq(Entries)
  PROVE  Msgs(q) \in SUBSET Messages
<1> SUFFICES ASSUME NEW k \in DOMAIN q
             PROVE  q[k].msg \in Messages
  BY DEF Msgs
<1>1. q[k] \in Entries
  OBVIOUS
<1> QED
  BY <1>1 DEF Entries

LEMMA AcknowledgedType ==
  ASSUME NEW a \in AckStates, NEW through \in Nat, NEW seqs \in SUBSET Nat
  PROVE  Acknowledged(a, through, seqs) \in AckStates
BY DEF Acknowledged, AckStates

LEMMA TypesSender ==
  ASSUME Types, NEW p \in Senders, SenderStep(p)
  PROVE  Types'
<1>1. CASE Route(p)
  <2> USE <1>1, RouteCases
  <2>1. UNCHANGED <<present, stored, lastSeq, writer, line, work, ack, deletion,
                    deletions, owed, seen, missed>>
    OBVIOUS
  <2>2. session' \in [Sessions -> SessionStates]
    BY CurrentIsMessage, TakenByTypes DEF Types, Shape, Unanswered, Refused
  <2>3. sender' \in [Senders -> SenderStates] /\ Sending'
    <3>1. CASE sender' = [sender EXCEPT ![p].pc = "offline"]
      BY <3>1 DEF Types, Shape, Sending, SenderStates
    <3> QED
      BY <3>1, NextMessageTypes
  <2> QED
    BY <2>1, <2>2, <2>3 DEF Types, Shape
<1>2. CASE Store(p)
  <2>1. UNCHANGED <<present, stored, lastSeq, line, session, work, ack, deletion,
                    deletions, owed, seen, missed>>
    BY <1>2 DEF Store, admin, history
  <2>2. sender' \in [Senders -> SenderStates] /\ Sending' /\ writer' \in Tasks \cup {NoTask}
    <3>1. sender[p].n <= MaxMessages
      BY <1>2 DEF Store, Types, Sending
    <3>2. CASE NextMessage(p) /\ UNCHANGED writer
      BY <3>1, <3>2, NextMessageTypes DEF Types, Shape
    <3>3. CASE /\ sender' = [sender EXCEPT ![p].pc = "writing", ![p].seq = lastSeq + 1]
               /\ writer' = <<"store", p>>
      <4>1. writer' \in Tasks
        BY <3>3 DEF Tasks
      <4>2. sender[p] \in SenderStates /\ lastSeq + 1 \in Nat
        BY DEF Types, Shape
      <4>3. [sender[p] EXCEPT !.pc = "writing", !.seq = lastSeq + 1] \in SenderStates
        BY <4>2 DEF SenderStates
      <4>4. sender' \in [Senders -> SenderStates]
        BY <3>3, <4>3 DEF Types, Shape
      <4>5. Sending'
        BY <3>1, <3>3 DEF Types, Shape, Sending, SenderStates
      <4> QED
        BY <4>1, <4>4, <4>5
    <3> QED
      BY <1>2, <3>2, <3>3 DEF Store
  <2> QED
    BY <2>1, <2>2 DEF Types, Shape
<1>3. CASE CommitStore(p)
  <2>1. UNCHANGED <<present, session, work, ack, seen, missed, deletion, deletions>>
    BY <1>3 DEF CommitStore, admin
  <2>2. Current(p) \in Messages /\ Recorded(p) \in Entries
    BY <1>3, CurrentIsMessage DEF CommitStore, Types, Sending
  <2>3. stored' \in SUBSET Entries /\ IsFiniteSet(stored') /\ owed' \in SUBSET Messages
    <3>1. stored' = stored \cup {Recorded(p)} /\ owed' = owed \cup {Current(p)}
      BY <1>3 DEF CommitStore, Recorded
    <3>2. stored \in SUBSET Entries /\ IsFiniteSet(stored) /\ owed \in SUBSET Messages
      BY DEF Types, Shape
    <3>3. IsFiniteSet(stored \cup {Recorded(p)})
      BY <3>2, FS_AddElement
    <3> QED
      BY <2>2, <3>1, <3>2, <3>3
  <2>t. <<"store", p>> \in Tasks
    BY DEF Tasks
  <2>4. lastSeq' \in Nat /\ writer' = NoTask /\ line' \in Seq(Tasks)
    BY <1>3, <2>t DEF CommitStore, Types, Shape, SenderStates
  <2>5. sender' \in [Senders -> SenderStates] /\ Sending'
    BY <1>3 DEF CommitStore, Types, Shape, SenderStates, Sending
  <2> QED
    BY <2>1, <2>3, <2>4, <2>5 DEF Types, Shape
<1>4. CASE CommitStoreFails(p)
  <2>1. sender[p].n <= MaxMessages
    BY <1>4 DEF CommitStoreFails, Types, Sending
  <2>2. sender' \in [Senders -> SenderStates] /\ Sending' /\ writer' = NoTask
    BY <1>4, <2>1, NextMessageTypes DEF CommitStoreFails
  <2> QED
    BY <1>4, <2>2 DEF CommitStoreFails, Types, Shape, admin, history
<1>5. CASE Reroute(p)
  <2> USE <1>5, RerouteCases
  <2>1. sender[p].n <= MaxMessages /\ Current(p) \in Messages /\ Recorded(p) \in Entries
    BY CurrentIsMessage DEF Types, Sending
  <2>2. session' \in [Sessions -> SessionStates] /\ missed' \in SUBSET Messages
    BY <2>1, TakenByTypes DEF Types, Shape, Unanswered, Refused
  <2>3. sender' \in [Senders -> SenderStates] /\ Sending'
    BY <2>1, NextMessageTypes
  <2>l. line \in Seq(Tasks) /\ line # <<>> /\ line' = Tail(line)
    BY DEF Types, Shape, AtHead
  <2>4. line' \in Seq(Tasks)
    BY <2>l
  <2> QED
    BY <2>2, <2>3, <2>4 DEF Types, Shape
<1> QED
  BY <1>1, <1>2, <1>3, <1>4, <1>5 DEF SenderStep

LEMMA EmptyTypes ==
  /\ NoSession \in SessionStates
  /\ [NoSession EXCEPT !.pc = "ended"] \in SessionStates
  /\ [NoSession EXCEPT !.pc = "registered", !.alive = TRUE] \in SessionStates
  /\ NoWork \in WorkStates /\ [NoWork EXCEPT !.pc = "failed"] \in WorkStates
  /\ NoAck \in AckStates
<1>1. <<>> \in Seq(Entries) /\ "none" \in Priorities
  BY DEF Priorities
<1>2. NoSession \in SessionStates
  BY <1>1 DEF NoSession, SessionStates
<1>3. [NoSession EXCEPT !.pc = "ended"] \in SessionStates
  BY <1>2 DEF SessionStates
<1>4. [NoSession EXCEPT !.pc = "registered", !.alive = TRUE] \in SessionStates
  BY <1>2 DEF SessionStates
<1>5. NoWork \in WorkStates
  BY <1>1 DEF NoWork, WorkStates
<1>6. [NoWork EXCEPT !.pc = "failed"] \in WorkStates
  BY <1>5 DEF WorkStates
<1>7. NoAck \in AckStates
  BY DEF NoAck, AckStates
<1> QED
  BY <1>2, <1>3, <1>4, <1>5, <1>6, <1>7

LEMMA SubSeqPrefix ==
  ASSUME NEW q \in Seq(Entries), NEW k \in 0 .. Len(q)
  PROVE  /\ SubSeq(q, 1, k) \in Seq(Entries) /\ Len(SubSeq(q, 1, k)) = k
         /\ \A j \in 1 .. k : SubSeq(q, 1, k)[j] = q[j]
         /\ [j \in 1 .. k |-> q[j].msg] \in Seq(Messages)
         /\ Len([j \in 1 .. k |-> q[j].msg]) = k
<1>1. k \in Nat /\ k <= Len(q) /\ Len(q) \in Nat
  OBVIOUS
<1>2. \A j \in 1 .. k : q[j] \in Entries
  BY <1>1
<1>3. \A j \in 1 .. k : q[j].msg \in Messages
  BY <1>2 DEF Entries
<1>4. [j \in 1 .. k |-> q[j].msg] \in Seq(Messages) /\ Len([j \in 1 .. k |-> q[j].msg]) = k
  BY <1>1, <1>3
<1>5. SubSeq(q, 1, k) \in Seq(Entries) /\ Len(SubSeq(q, 1, k)) = k
         /\ \A j \in 1 .. k : SubSeq(q, 1, k)[j] = q[j]
  BY <1>1
<1> QED
  BY <1>4, <1>5

\* The backlog as it is pushed: without sequences to release.
Pushed(q) == [k \in DOMAIN q |-> [msg |-> q[k].msg, seq |-> 0]]

LEMMA PushedType ==
  ASSUME NEW q \in Seq(Entries)
  PROVE  /\ Pushed(q) \in Seq(Entries) /\ Len(Pushed(q)) = Len(q)
         /\ DOMAIN Pushed(q) = DOMAIN q /\ Msgs(Pushed(q)) = Msgs(q)
         /\ \A k \in DOMAIN q : Pushed(q)[k].msg = q[k].msg /\ Pushed(q)[k].seq = 0
         /\ Pushed(q) = <<>> <=> q = <<>>
<1>1. \A k \in DOMAIN q : q[k] \in Entries
  OBVIOUS
<1>2. \A k \in DOMAIN q : [msg |-> q[k].msg, seq |-> 0] \in Entries
  BY <1>1 DEF Entries
<1>3. DOMAIN q = 1 .. Len(q) /\ Len(q) \in Nat
  OBVIOUS
<1>4. Pushed(q) \in Seq(Entries) /\ Len(Pushed(q)) = Len(q) /\ DOMAIN Pushed(q) = DOMAIN q
  BY <1>2, <1>3 DEF Pushed
<1>5. \A k \in DOMAIN q : Pushed(q)[k].msg = q[k].msg /\ Pushed(q)[k].seq = 0
  BY DEF Pushed
<1>6. Msgs(Pushed(q)) = Msgs(q)
  BY <1>4, <1>5 DEF Msgs
<1>7. Pushed(q) = <<>> <=> q = <<>>
  BY <1>4
<1> QED
  BY <1>4, <1>5, <1>6, <1>7

LEMMA TypesStream ==
  ASSUME Types, TableInv, LineInv, NEW s \in Sessions, StreamStep(s)
  PROVE  Types'
<1> USE EmptyTypes
<1>0. /\ session[s] \in SessionStates /\ work[s] \in WorkStates /\ ack[s] \in AckStates
      /\ session[s].mailbox \in Seq(Entries) /\ session[s].outbox \in Seq(Entries)
      /\ session[s].through \in Nat /\ session[s].priority \in Priorities
      /\ work[s].backlog \in Seq(Entries) /\ work[s].preceding \in Seq(Entries)
      /\ work[s].priority \in Priorities
      /\ seen[s] \in Seq(Messages) /\ line \in Seq(Tasks)
  BY DEF Types, Shape, SessionStates, WorkStates
<1>e. <<>> \in Seq(Entries)
  OBVIOUS
<1>1. CASE Register(s)
  BY <1>1 DEF Register, Types, Shape, Sending, storage, admin, history
<1>2. CASE CompleteBinding(s)
  <2>1. [session[s] EXCEPT !.pc = "bound"] \in SessionStates
    BY <1>0 DEF SessionStates
  <2> QED
    BY <1>2, <2>1 DEF CompleteBinding, Types, Shape, Sending, storage, admin, history
<1>3. CASE Retire(s)
  <2>1. [session[s] EXCEPT !.alive = FALSE] \in SessionStates
    BY <1>0 DEF SessionStates
  <2> QED
    BY <1>3, <2>1 DEF Retire, Types, Shape, Sending, storage, admin, history
<1>4. CASE End(s)
  <2>1. PICK k \in 0 .. Len(session[s].outbox) :
          /\ seen' = [seen EXCEPT ![s] = @ \o [j \in 1 .. k |-> session[s].outbox[j].msg]]
          /\ owed' = owed \ Msgs(SubSeq(session[s].outbox, 1, k))
    BY <1>4 DEF End
  <2>2. seen[s] \o [j \in 1 .. k |-> session[s].outbox[j].msg] \in Seq(Messages)
    BY <1>0, SubSeqPrefix
  <2>3. seen' \in [Sessions -> Seq(Messages)] /\ owed' \in SUBSET Messages
    BY <2>1, <2>2 DEF Types, Shape
  <2>4. missed' \in SUBSET Messages
    BY <1>4, <2>3 DEF End
  <2>5. session' \in [Sessions -> SessionStates]
    BY <1>4 DEF End, Types, Shape
  <2> QED
    BY <1>4, <2>3, <2>4, <2>5 DEF End, Types, Shape, Sending, storage, admin
<1>5. CASE Close(s)
  <2>1. <<>> \in Seq(Messages)
    OBVIOUS
  <2> QED
    BY <1>5, <2>1 DEF Close, Types, Shape, Sending, storage, admin
<1>6. CASE FixPresence(s)
  <2>1. Ordered(stored) \in Seq(stored)
    BY OrderedTable DEF Types, Shape, TableInv
  <2>2. Ordered(stored) \in Seq(Entries) /\ <<>> \in Seq(Entries)
    BY <2>1 DEF Types, Shape
  <2>3. PICK priority \in Priorities :
          work' = [work EXCEPT ![s] =
            [pc |-> "fixed", priority |-> priority, preceding |-> <<>>,
             backlog |-> IF priority = "eligible" /\ session[s].priority # "eligible"
                           THEN Ordered(stored) ELSE <<>>]]
    BY <1>6 DEF FixPresence
  <2>4. work' \in [Sessions -> WorkStates]
    BY <2>2, <2>3 DEF Types, Shape, WorkStates
  <2>5. <<"presence", s>> \in Tasks
    BY DEF Tasks
  <2>6. line' \in Seq(Tasks)
    BY <1>0, <1>6, <2>5 DEF FixPresence
  <2> QED
    BY <1>6, <2>4, <2>6 DEF FixPresence, Types, Shape, Sending, storage, admin, history
<1>7. CASE SetPresence(s)
  <2>1. line # <<>> => Tail(line) \in Seq(Tasks)
    BY <1>0
  <2>2. line' \in Seq(Tasks)
    BY <1>0, <1>7, <2>1 DEF SetPresence, AtHead
  <2>3. [work[s] EXCEPT !.pc = "set", !.preceding = session[s].mailbox] \in WorkStates
    BY <1>0 DEF WorkStates
  <2>4. [session[s] EXCEPT !.priority = work[s].priority, !.mailbox = <<>>] \in SessionStates
    BY <1>0, <1>e DEF SessionStates
  <2>5. work' \in [Sessions -> WorkStates] /\ session' \in [Sessions -> SessionStates]
    BY <1>7, <2>3, <2>4 DEF SetPresence, Types, Shape
  <2>6. UNCHANGED <<present, stored, lastSeq, writer, sender, ack, deletion, deletions,
                    owed, seen, missed>>
    BY <1>7 DEF SetPresence, storage, admin, history
  <2> QED
    BY <2>2, <2>5, <2>6 DEF Types, Shape, Sending
<1>8. CASE DropPresence(s)
  <2>1. line # <<>>
    BY <1>8 DEF DropPresence, LineInv, AtHead
  <2>2. Tail(line) \in Seq(Tasks)
    BY <1>0, <2>1
  <2>3. \A pc \in {"done", "failed"} : [work[s] EXCEPT !.pc = pc] \in WorkStates
    BY <1>0 DEF WorkStates
  <2>4. work' \in [Sessions -> WorkStates]
    BY <1>8, <2>3 DEF DropPresence, Types, Shape
  <2> QED
    BY <1>8, <2>2, <2>4 DEF DropPresence, Types, Shape, Sending, storage, admin, history
<1>9. CASE TakeOutcome(s)
  <2> DEFINE q == work[s].backlog
             t == IF Pushed(q) = <<>> THEN 0 ELSE q[Len(Pushed(q))].seq
  <2>1. Pushed(q) \in Seq(Entries) /\ Len(Pushed(q)) = Len(q) /\ (Pushed(q) = <<>> <=> q = <<>>)
    BY <1>0, PushedType
  <2>2. t \in Nat
    <3>1. q # <<>> => q[Len(q)] \in Entries
      BY <1>0
    <3> QED
      BY <2>1, <3>1 DEF Entries
  <2>3. work[s].preceding \o Pushed(q) \in Seq(Entries)
    BY <1>0, <2>1
  <2>4. /\ session' = [session EXCEPT ![s].outbox = work[s].preceding \o Pushed(q),
                                      ![s].through = t]
        /\ seen' = [seen EXCEPT ![s] = IF Pushed(q) = <<>> THEN @ ELSE <<>>]
        /\ work' = [work EXCEPT ![s] = NoWork]
        /\ UNCHANGED <<present, stored, lastSeq, writer, line, sender, ack, owed, missed,
                       deletion, deletions>>
    BY <1>9 DEF TakeOutcome, Pushed, storage, admin
  <2> HIDE DEF t
  <2>5. [session[s] EXCEPT !.outbox = work[s].preceding \o Pushed(q), !.through = t]
          \in SessionStates
    BY <1>0, <2>2, <2>3 DEF SessionStates
  <2>6. session' \in [Sessions -> SessionStates] /\ work' \in [Sessions -> WorkStates]
    BY <2>4, <2>5 DEF Types, Shape
  <2>7. seen' \in [Sessions -> Seq(Messages)]
    <3>1. <<>> \in Seq(Messages)
      OBVIOUS
    <3> QED
      BY <2>4, <3>1 DEF Types, Shape
  <2> QED
    BY <2>4, <2>6, <2>7 DEF Types, Shape, Sending
<1>10. CASE Drain(s)
  <2>1. [session[s] EXCEPT !.outbox = session[s].mailbox, !.mailbox = <<>>] \in SessionStates
    BY <1>0, <1>e DEF SessionStates
  <2> QED
    BY <1>10, <2>1 DEF Drain, Types, Shape, Sending, storage, admin, history
<1>11. CASE Flush(s)
  <2> DEFINE out == session[s].outbox
             seqs == {out[k].seq : k \in DOMAIN out} \ {0}
             shown == [k \in DOMAIN out |-> out[k].msg]
  <2>1. /\ seen' = [seen EXCEPT ![s] = @ \o shown]
        /\ owed' = owed \ Msgs(out) /\ missed' = missed \ Msgs(out)
        /\ ack' = [ack EXCEPT ![s] = Acknowledged(@, session[s].through, seqs)]
        /\ session' = [session EXCEPT ![s].outbox = <<>>, ![s].through = 0]
        /\ UNCHANGED <<present, stored, lastSeq, writer, line, sender, work, deletion,
                       deletions>>
    BY <1>11 DEF Flush, storage, admin
  <2>2. \A k \in DOMAIN out : out[k] \in Entries
    BY <1>0
  <2>3. seqs \in SUBSET Nat /\ \A k \in DOMAIN out : out[k].msg \in Messages
    BY <2>2 DEF Entries
  <2>4. DOMAIN out = 1 .. Len(out) /\ Len(out) \in Nat
    BY <1>0
  <2>5. shown \in Seq(Messages)
    BY <2>3, <2>4
  <2> HIDE DEF shown, seqs
  <2>6. seen' \in [Sessions -> Seq(Messages)]
    BY <1>0, <2>1, <2>5 DEF Types, Shape
  <2>7. ack' \in [Sessions -> AckStates]
    BY <1>0, <2>1, <2>3, AcknowledgedType DEF Types, Shape
  <2>8. [session[s] EXCEPT !.outbox = <<>>, !.through = 0] \in SessionStates
    BY <1>0, <1>e DEF SessionStates
  <2>9. session' \in [Sessions -> SessionStates]
    BY <2>1, <2>8 DEF Types, Shape
  <2> QED
    BY <2>1, <2>6, <2>7, <2>9 DEF Types, Shape, Sending
<1> QED
  BY <1>1, <1>2, <1>3, <1>4, <1>5, <1>6, <1>7, <1>8, <1>9, <1>10, <1>11 DEF StreamStep

LEMMA TypesAck ==
  ASSUME Types, NEW s \in Sessions, AckStep(s)
  PROVE  Types'
<1>0. ack[s] \in AckStates /\ IsFiniteSet(stored)
  BY DEF Types, Shape
<1>1. ASSUME NEW a \in AckStates
      PROVE  /\ \A kind \in {"replay", "live"} : Idle(a, kind) \in AckStates /\ Taken(a, kind) \in AckStates
             /\ \A x \in {"idle", "wait"} : /\ [a EXCEPT !.replay = x, !.through = 0] \in AckStates
                                            /\ [a EXCEPT !.live = x, !.batch = {}] \in AckStates
             /\ [a EXCEPT !.live = "idle", !.batch = {}, !.failed = TRUE] \in AckStates
  BY DEF Idle, Taken, AckStates
<1>2. ASSUME NEW kind \in {"replay", "live"}, AckBegin(s, kind)
      PROVE  Types'
  <2>1. ack' \in [Sessions -> AckStates]
    BY <1>0, <1>1, <1>2 DEF AckBegin, Types, Shape
  <2>2. <<kind, s>> \in Tasks
    BY DEF Tasks
  <2> QED
    BY <1>2, <2>1, <2>2 DEF AckBegin, Types, Shape, Sending, admin, history
<1>3. ASSUME NEW kind \in {"replay", "live"}, AckFails(s, kind)
      PROVE  Types'
  <2>1. ack' \in [Sessions -> AckStates]
    BY <1>0, <1>1, <1>3 DEF AckFails, Types, Shape
  <2> QED
    BY <1>3, <2>1 DEF AckFails, Types, Shape, Sending, admin, history
<1>4. CASE CommitReplay(s)
  <2>1. ack' \in [Sessions -> AckStates]
    BY <1>0, <1>1, <1>4 DEF CommitReplay, Types, Shape
  <2>2. stored' \in SUBSET stored
    BY <1>4 DEF CommitReplay
  <2>3. IsFiniteSet(stored')
    BY <1>0, <2>2, FS_Subset
  <2> QED
    BY <1>4, <2>1, <2>2, <2>3 DEF CommitReplay, Types, Shape, Sending, admin, history
<1>5. CASE CommitLive(s)
  <2>1. ack' \in [Sessions -> AckStates]
    BY <1>0, <1>1, <1>5 DEF CommitLive, Types, Shape
  <2>2. stored' \in SUBSET stored
    BY <1>5 DEF CommitLive
  <2>3. IsFiniteSet(stored')
    BY <1>0, <2>2, FS_Subset
  <2> QED
    BY <1>5, <2>1, <2>2, <2>3 DEF CommitLive, Types, Shape, Sending, admin, history
<1> QED
  BY <1>2, <1>3, <1>4, <1>5 DEF AckStep

LEMMA TypesDeletion ==
  ASSUME Types, DeletionStep
  PROVE  Types'
<1>0. <<"delete", NoTask>> \in Tasks
  BY DEF Tasks
<1>1. CASE DeleteBegin
  BY <1>0, <1>1 DEF DeleteBegin, Types, Shape, Sending, history
<1>2. CASE DeleteCommit
  <2>1. IsFiniteSet({})
    BY FS_EmptySet
  <2>2. line' \in Seq(Tasks)
    BY <1>0, <1>2 DEF DeleteCommit, Types, Shape
  <2> QED
    BY <1>2, <2>1, <2>2 DEF DeleteCommit, Types, Shape, Sending
<1>3. CASE DeleteFails
  BY <1>3 DEF DeleteFails, Types, Shape, Sending, history
<1>4. CASE DeleteRetire
  <2>1. line \in Seq(Tasks) /\ line # <<>> /\ line' = Tail(line)
    BY <1>4 DEF DeleteRetire, AtHead, Types, Shape
  <2>2. line' \in Seq(Tasks)
    BY <2>1
  <2>3. \A s \in Sessions : [session[s] EXCEPT !.alive = FALSE] \in SessionStates
    BY DEF Types, Shape, SessionStates
  <2>4. session' \in [Sessions -> SessionStates]
    BY <1>4, <2>3 DEF DeleteRetire
  <2> QED
    BY <1>4, <2>2, <2>4 DEF DeleteRetire, Types, Shape, Sending, storage, history
<1>5. CASE Create
  BY <1>5 DEF Create, Types, Shape, Sending, admin, history
<1> QED
  BY <1>1, <1>2, <1>3, <1>4, <1>5 DEF DeletionStep

-----------------------------------------------------------------------------
(* The writer and the table *)

LEMMA TasksDiffer ==
  /\ \A p \in Senders : NoTask # <<"store", p>>
  /\ \A s \in Sessions : NoTask # <<"replay", s>> /\ NoTask # <<"live", s>>
  /\ NoTask # <<"delete", NoTask>>
BY OfflineAssumption DEF Tasks

\* Nobody is within a write transaction.
NobodyWrites == /\ \A p \in Senders : sender[p].pc # "writing"
                /\ \A s \in Sessions : ack[s].replay # "commit" /\ ack[s].live # "commit"
                /\ deletion # "writing"

LEMMA FreeWriter ==
  ASSUME WriterInv, writer = NoTask
  PROVE  NobodyWrites
BY TasksDiffer DEF WriterInv, NobodyWrites

LEMMA WriterSender ==
  ASSUME Types, WriterInv, NEW p \in Senders, SenderStep(p)
  PROVE  WriterInv'
<1>0. sender \in [Senders -> SenderStates]
  BY DEF Types, Shape
<1>1. ASSUME NextMessage(p)
      PROVE  /\ sender'[p].pc = "ready"
             /\ \A q \in Senders : q # p => sender'[q] = sender[q]
  BY <1>0, <1>1 DEF NextMessage, SenderStates
<1>2. CASE Route(p)
  <2>1. /\ sender'[p].pc \in {"ready", "offline"}
        /\ \A q \in Senders : q # p => sender'[q] = sender[q]
    BY <1>0, <1>1, <1>2, RouteCases DEF SenderStates
  <2> QED
    BY <1>2, <2>1, RouteCases DEF WriterInv
<1>3. CASE Store(p)
  <2>1. CASE NextMessage(p) /\ UNCHANGED writer
    BY <1>1, <1>3, <2>1 DEF Store, WriterInv, admin
  <2>2. CASE /\ Cardinality(stored) < Quota /\ present
             /\ sender' = [sender EXCEPT ![p].pc = "writing", ![p].seq = lastSeq + 1]
             /\ writer' = <<"store", p>>
    <3>1. NobodyWrites
      BY <1>3, FreeWriter DEF Store
    <3>2. /\ sender'[p].pc = "writing" /\ sender'[p].seq = lastSeq + 1
          /\ \A q \in Senders : q # p => sender'[q] = sender[q]
      BY <1>0, <2>2 DEF SenderStates
    <3> QED
      BY <1>3, <2>2, <3>1, <3>2 DEF Store, NobodyWrites, WriterInv, admin
  <2> QED
    BY <1>3, <2>1, <2>2 DEF Store
<1>4. ASSUME sender[p].pc = "writing"
      PROVE  /\ \A q \in Senders : q # p => sender[q].pc # "writing"
             /\ \A s \in Sessions : ack[s].replay # "commit" /\ ack[s].live # "commit"
             /\ deletion # "writing"
  BY <1>4 DEF WriterInv
<1>5. CASE CommitStore(p)
  <2>1. /\ sender'[p].pc = "queued"
        /\ \A q \in Senders : q # p => sender'[q] = sender[q]
    BY <1>0, <1>5 DEF CommitStore, SenderStates
  <2> QED
    BY <1>4, <1>5, <2>1 DEF CommitStore, WriterInv, admin
<1>6. CASE CommitStoreFails(p)
  BY <1>1, <1>4, <1>6 DEF CommitStoreFails, WriterInv, admin
<1>7. CASE Reroute(p)
  <2>1. /\ sender'[p].pc = "ready"
        /\ \A q \in Senders : q # p => sender'[q] = sender[q]
    BY <1>1, <1>7, RerouteCases
  <2>2. UNCHANGED <<present, stored, lastSeq, writer, ack, deletion>>
    BY <1>7, RerouteCases
  <2> QED
    BY <2>1, <2>2 DEF WriterInv
<1> QED
  BY <1>2, <1>3, <1>5, <1>6, <1>7 DEF SenderStep

LEMMA WriterStream ==
  ASSUME Types, WriterInv, NEW s \in Sessions, StreamStep(s)
  PROVE  WriterInv'
<1>0. ack \in [Sessions -> AckStates]
  BY DEF Types, Shape
<1>1. UNCHANGED <<present, stored, lastSeq, writer, sender, deletion>>
  BY DEF StreamStep, Register, CompleteBinding, Retire, End, Close, FixPresence, SetPresence,
         DropPresence, TakeOutcome, Drain, Flush, storage, admin
<1>2. CASE UNCHANGED ack
  BY <1>1, <1>2 DEF WriterInv
<1>3. CASE Close(s)
  BY <1>0, <1>1, <1>3 DEF Close, WriterInv, NoAck
<1>4. CASE Flush(s)
  <2>1. PICK t, q : ack' = [ack EXCEPT ![s] = Acknowledged(@, t, q)]
    BY <1>4 DEF Flush
  <2>2. \A u \in Sessions : /\ ack'[u].replay = "commit" => ack[u].replay = "commit"
                            /\ ack'[u].live = "commit" => ack[u].live = "commit"
    BY <1>0, <2>1 DEF Acknowledged, AckStates
  <2> QED
    BY <1>1, <2>2 DEF WriterInv
<1> QED
  BY <1>2, <1>3, <1>4 DEF StreamStep, Register, CompleteBinding, Retire, End, FixPresence,
        SetPresence, DropPresence, TakeOutcome, Drain

LEMMA WriterAck ==
  ASSUME Types, WriterInv, NEW s \in Sessions, AckStep(s)
  PROVE  WriterInv'
<1>0. ack \in [Sessions -> AckStates] /\ UNCHANGED <<sender, present, lastSeq, deletion>>
  BY DEF Types, Shape, AckStep, AckBegin, AckFails, CommitReplay, CommitLive, admin
<1>1. ASSUME NEW kind \in {"replay", "live"}, AckBegin(s, kind)
      PROVE  WriterInv'
  <2>1. NobodyWrites /\ UNCHANGED stored
    BY <1>1, FreeWriter DEF AckBegin
  <2>2. CASE ack' = [ack EXCEPT ![s] = Idle(@, kind)] /\ UNCHANGED writer
    <3>1. \A u \in Sessions : ack'[u].replay # "commit" /\ ack'[u].live # "commit"
      BY <1>0, <2>1, <2>2 DEF Idle, AckStates, NobodyWrites
    <3> QED
      BY <1>0, <2>1, <3>1 DEF WriterInv, NobodyWrites
  <2>3. CASE ack' = [ack EXCEPT ![s] = Taken(@, kind)] /\ writer' = <<kind, s>>
    <3>1. \A u \in Sessions : /\ ack'[u].replay = "commit" => u = s /\ kind = "replay"
                              /\ ack'[u].live = "commit" => u = s /\ kind = "live"
      BY <1>0, <2>1, <2>3 DEF Taken, AckStates, NobodyWrites
    <3> QED
      BY <1>0, <2>1, <2>3, <3>1 DEF WriterInv, NobodyWrites
  <2> QED
    BY <1>1, <2>2, <2>3 DEF AckBegin
<1>2. ASSUME NEW kind \in {"replay", "live"}, Phase(ack[s], kind) = "commit"
      PROVE  /\ writer = <<kind, s>> /\ \A p \in Senders : sender[p].pc # "writing"
             /\ \A u \in Sessions : /\ ack[u].replay = "commit" => u = s /\ kind = "replay"
                                    /\ ack[u].live = "commit" => u = s /\ kind = "live"
             /\ deletion # "writing"
  BY <1>2 DEF WriterInv, Phase
<1>3. ASSUME NEW kind \in {"replay", "live"}, AckFails(s, kind)
      PROVE  WriterInv'
  <2>1. \A u \in Sessions :
           /\ ack'[u].replay = "commit" => ack[u].replay = "commit" /\ ~(u = s /\ kind = "replay")
           /\ ack'[u].live = "commit" => ack[u].live = "commit" /\ ~(u = s /\ kind = "live")
    BY <1>0, <1>3 DEF AckFails, AckStates
  <2>2. UNCHANGED stored
    BY <1>3 DEF AckFails
  <2>3. CASE Phase(ack[s], kind) = "commit"
    BY <1>0, <1>2, <2>1, <2>2, <2>3 DEF WriterInv
  <2>4. CASE Phase(ack[s], kind) # "commit"
    <3>1. UNCHANGED writer
      BY <1>3, <2>4 DEF AckFails
    <3> QED
      BY <1>0, <2>1, <2>2, <3>1 DEF WriterInv
  <2> QED
    BY <2>3, <2>4
<1>4. CASE CommitReplay(s)
  <2>1. \A u \in Sessions : /\ ack'[u].replay = "commit" => ack[u].replay = "commit" /\ u # s
                            /\ ack'[u].live = ack[u].live
    BY <1>0, <1>4 DEF CommitReplay, AckStates
  <2> QED
    BY <1>0, <1>2, <1>4, <2>1 DEF CommitReplay, WriterInv, Phase
<1>5. CASE CommitLive(s)
  <2>1. \A u \in Sessions : /\ ack'[u].live = "commit" => ack[u].live = "commit" /\ u # s
                            /\ ack'[u].replay = ack[u].replay
    BY <1>0, <1>5 DEF CommitLive, AckStates
  <2> QED
    BY <1>0, <1>2, <1>5, <2>1 DEF CommitLive, WriterInv, Phase
<1> QED
  BY <1>1, <1>3, <1>4, <1>5 DEF AckStep

LEMMA WriterDeletion ==
  ASSUME Types, WriterInv, DeletionStep
  PROVE  WriterInv'
<1>1. CASE DeleteBegin
  BY <1>1, FreeWriter DEF DeleteBegin, NobodyWrites, WriterInv
<1>2. ASSUME deletion = "writing"
      PROVE  /\ \A p \in Senders : sender[p].pc # "writing"
             /\ \A s \in Sessions : ack[s].replay # "commit" /\ ack[s].live # "commit"
  BY <1>2 DEF WriterInv
<1>3. CASE DeleteCommit
  BY <1>2, <1>3 DEF DeleteCommit, WriterInv
<1>4. CASE DeleteFails
  BY <1>2, <1>4 DEF DeleteFails, WriterInv
<1>5. CASE DeleteRetire
  BY <1>5 DEF DeleteRetire, WriterInv, storage
<1>6. CASE Create
  BY <1>6, FreeWriter DEF Create, NobodyWrites, WriterInv, admin
<1> QED
  BY <1>1, <1>3, <1>4, <1>5, <1>6 DEF DeletionStep

\* A step of a sender: it goes on to the next message, or further with the one
\* it has, which is not yet queued.
LEMMA SenderFrame ==
  ASSUME Types, NEW p \in Senders, SenderStep(p)
  PROVE  /\ \A q \in Senders : q # p => sender'[q] = sender[q]
         /\ \/ sender'[p].n = sender[p].n + 1 /\ sender'[p].pc = "ready"
            \/ sender'[p].n = sender[p].n /\ sender[p].pc # "queued"
         /\ sender'[p].pc = "queued" <=> CommitStore(p)
<1>0. sender \in [Senders -> SenderStates]
  BY DEF Types, Shape
<1>n. ASSUME NextMessage(p)
      PROVE  /\ sender'[p].n = sender[p].n + 1 /\ sender'[p].pc = "ready"
             /\ \A q \in Senders : q # p => sender'[q] = sender[q]
  BY <1>0, <1>n DEF NextMessage, SenderStates
<1>1. CASE Route(p)
  <2>1. CASE sender' = [sender EXCEPT ![p].pc = "offline"]
    BY <1>0, <1>1, <2>1, RouteCases DEF SenderStates, CommitStore
  <2>2. CASE NextMessage(p)
    BY <1>1, <1>n, <2>2, RouteCases DEF CommitStore
  <2> QED
    BY <1>1, <2>1, <2>2, RouteCases
<1>2. CASE Store(p)
  <2>1. CASE sender' = [sender EXCEPT ![p].pc = "writing", ![p].seq = lastSeq + 1]
    BY <1>0, <1>2, <2>1 DEF Store, SenderStates, CommitStore
  <2>2. CASE NextMessage(p)
    BY <1>2, <1>n, <2>2 DEF Store, CommitStore
  <2> QED
    BY <1>2, <2>1, <2>2 DEF Store
<1>3. CASE CommitStore(p)
  BY <1>0, <1>3 DEF CommitStore, SenderStates
<1>4. CASE CommitStoreFails(p)
  BY <1>4, <1>n DEF CommitStoreFails, CommitStore
<1>5. CASE Reroute(p)
  BY <1>5, <1>n, RerouteCases DEF CommitStore
<1> QED
  BY <1>1, <1>2, <1>3, <1>4, <1>5 DEF SenderStep

LEMMA SenderKeepsSettled ==
  ASSUME Types, NEW p \in Senders, SenderStep(p), NEW m \in Messages
  PROVE  /\ Settled(m) => Settled(m)'
         /\ Past(m) => Past(m)'
<1>1. m[1] \in Senders /\ m[2] \in Nat /\ \A q \in Senders : sender[q].n \in Nat
  BY OfflineAssumption DEF Types, Shape, Messages, SenderStates
<1> QED
  BY <1>1, SenderFrame DEF Settled, Past

LEMMA TableSender ==
  ASSUME Types, WriterInv, TableInv, NEW p \in Senders, SenderStep(p)
  PROVE  TableInv'
<1>0. stored \in SUBSET Entries /\ \A e \in stored : e.msg \in Messages /\ e.seq \in Nat
  BY DEF Types, Shape, Entries
<1>1. \A e \in stored : Settled(e.msg)'
  BY <1>0, SenderKeepsSettled DEF TableInv
<1>2. CASE CommitStore(p)
  <2> DEFINE x == Recorded(p)
  <2>1. /\ stored' = stored \cup {x} /\ lastSeq' = sender[p].seq
        /\ UNCHANGED <<present, deletion>>
    BY <1>2 DEF CommitStore, Recorded, admin
  <2>2. /\ sender[p].seq = lastSeq + 1 /\ present /\ Cardinality(stored) < Quota
        /\ lastSeq \in Nat /\ x.seq = lastSeq + 1 /\ x.msg = Current(p)
    BY <1>2 DEF CommitStore, WriterInv, Types, Shape, Recorded
  <2>3. ASSUME NEW m, m = Current(p) PROVE Settled(m)'
    BY <1>2, <2>3 DEF CommitStore, Settled, Current, Types, Shape, SenderStates
  <2>4. Cardinality(stored') <= Quota
    <3>1. IsFiniteSet(stored) /\ Cardinality(stored) \in Nat /\ Quota \in Nat
      BY OfflineAssumption, FS_CardinalityType DEF Types, Shape
    <3>2. Cardinality(stored \cup {x}) = IF x \in stored THEN Cardinality(stored)
                                                        ELSE Cardinality(stored) + 1
      BY <3>1, FS_AddElement
    <3> HIDE DEF x
    <3> QED
      BY <2>1, <2>2, <3>1, <3>2
  <2>5. deletion # "queued"
    BY <2>2 DEF TableInv
  <2> HIDE DEF x
  <2>6. \A e \in stored' : 1 <= e.seq /\ e.seq <= lastSeq'
    BY <1>0, <2>1, <2>2 DEF TableInv
  <2>7. \A e, f \in stored' : e.seq = f.seq => e = f
    BY <1>0, <2>1, <2>2 DEF TableInv
  <2>8. \A e \in stored' : Settled(e.msg)'
    BY <1>1, <2>1, <2>2, <2>3
  <2>9. present' /\ deletion' # "queued"
    BY <2>1, <2>2, <2>5
  <2> QED
    BY <2>4, <2>6, <2>7, <2>8, <2>9 DEF TableInv
<1>3. CASE ~CommitStore(p)
  <2>1. UNCHANGED <<stored, lastSeq, present, deletion>>
    BY <1>3, RouteCases, RerouteCases DEF SenderStep, Store, CommitStoreFails, admin
  <2> QED
    BY <1>1, <2>1 DEF TableInv
<1> QED
  BY <1>2, <1>3

LEMMA TableRest ==
  ASSUME Types, WriterInv, TableInv,
         (\E s \in Sessions : StreamStep(s) \/ AckStep(s)) \/ DeletionStep
  PROVE  TableInv'
<1>0. IsFiniteSet(stored) /\ Cardinality(stored) \in Nat /\ Quota \in Nat
  BY OfflineAssumption, FS_CardinalityType DEF Types, Shape
<1>1. ASSUME NEW s \in Sessions, StreamStep(s) PROVE TableInv'
  <2>1. UNCHANGED <<present, stored, lastSeq, sender, deletion>>
    BY <1>1 DEF StreamStep, Register, CompleteBinding, Retire, End, Close, FixPresence,
           SetPresence, DropPresence, TakeOutcome, Drain, Flush, storage, admin
  <2> QED
    BY <2>1 DEF TableInv, Settled, Past
<1>2. ASSUME NEW s \in Sessions, AckStep(s) PROVE TableInv'
  <2>1. UNCHANGED <<present, lastSeq, sender, deletion>> /\ stored' \in SUBSET stored
    BY <1>2 DEF AckStep, AckBegin, AckFails, CommitReplay, CommitLive, admin
  <2>2. Cardinality(stored') <= Quota
    <3>1. Cardinality(stored') <= Cardinality(stored) /\ Cardinality(stored') \in Nat
      BY <1>0, <2>1, FS_Subset, FS_CardinalityType
    <3> QED
      BY <1>0, <3>1 DEF TableInv
  <2> QED
    BY <2>1, <2>2 DEF TableInv, Settled, Past
<1>3. CASE DeletionStep
  <2>1. CASE DeleteCommit
    BY <1>0, <2>1, FS_EmptySet DEF DeleteCommit, TableInv
  <2>2. CASE ~DeleteCommit
    <3>1. UNCHANGED <<stored, lastSeq, sender>> /\ (present => present')
            /\ (deletion' = "queued" => deletion = "queued" /\ UNCHANGED present)
      BY <1>3, <2>2 DEF DeletionStep, DeleteBegin, DeleteFails, DeleteRetire, Create, storage, admin
    <3> QED
      BY <3>1 DEF TableInv, Settled, Past
  <2> QED
    BY <2>1, <2>2
<1> QED
  BY <1>1, <1>2, <1>3

-----------------------------------------------------------------------------
(* The line *)

LEMMA TailIndex ==
  ASSUME NEW S, NEW q \in Seq(S), q # <<>>
  PROVE  /\ DOMAIN Tail(q) = 1 .. Len(q) - 1 /\ Head(q) = q[1] /\ 1 \in DOMAIN q
         /\ \A k \in DOMAIN Tail(q) : k + 1 \in DOMAIN q /\ Tail(q)[k] = q[k + 1]
         /\ \A k \in DOMAIN q : k # 1 => k - 1 \in DOMAIN Tail(q) /\ Tail(q)[k - 1] = q[k]
         /\ DOMAIN q \in SUBSET Nat
OBVIOUS

LEMMA AppendIndex ==
  ASSUME NEW S, NEW q \in Seq(S), NEW x
  PROVE  /\ DOMAIN Append(q, x) = 1 .. Len(q) + 1 /\ Len(q) \in Nat /\ DOMAIN q = 1 .. Len(q)
         /\ \A k \in DOMAIN q : k \in DOMAIN Append(q, x) /\ Append(q, x)[k] = q[k]
         /\ Append(q, x)[Len(q) + 1] = x
         /\ \A k \in DOMAIN Append(q, x) : k \in DOMAIN q \/ k = Len(q) + 1
OBVIOUS

\* The head leaves the line.
LEMMA LineTail ==
  ASSUME Types, LineInv, line # <<>>, line' = Tail(line)
  PROVE  /\ \A k \in DOMAIN line' : Attends(line'[k]) /\ line'[k] # line[1]
         /\ \A t : InLine(t) /\ t # line[1] => InLine(t)'
         /\ \A j, k \in DOMAIN line' : line'[j] = line'[k] => j = k
         /\ \A j, k \in DOMAIN line' :
              j < k /\ line'[j] = <<"delete", NoTask>> => line'[k][1] # "store"
<1>1. line \in Seq(Tasks)
  BY DEF Types, Shape
<1>2. /\ 1 \in DOMAIN line /\ DOMAIN line \in SUBSET Nat
      /\ \A k \in DOMAIN line' : k + 1 \in DOMAIN line /\ line'[k] = line[k + 1] /\ k \in Nat /\ k # 0
      /\ \A k \in DOMAIN line : k # 1 => k - 1 \in DOMAIN line' /\ line'[k - 1] = line[k]
  BY <1>1, TailIndex
<1>3. \A k \in DOMAIN line' : Attends(line'[k]) /\ line'[k] # line[1]
  <2> TAKE k \in DOMAIN line'
  <2>1. Attends(line[k + 1]) /\ line[k + 1] # line[1]
    BY <1>2 DEF LineInv
  <2> QED
    BY <1>2, <2>1
<1>4. \A t : InLine(t) /\ t # line[1] => InLine(t)'
  BY <1>2 DEF InLine
<1>5. \A j, k \in DOMAIN line' : line'[j] = line'[k] => j = k
  <2> TAKE j, k \in DOMAIN line'
  <2>1. line[j + 1] = line[k + 1] => j + 1 = k + 1
    BY <1>2 DEF LineInv
  <2> QED
    BY <1>2, <2>1
<1>6. \A j, k \in DOMAIN line' :
        j < k /\ line'[j] = <<"delete", NoTask>> => line'[k][1] # "store"
  <2> TAKE j, k \in DOMAIN line'
  <2>1. j + 1 < k + 1 /\ line[j + 1] = <<"delete", NoTask>> => line[k + 1][1] # "store"
    BY <1>2 DEF LineInv
  <2> QED
    BY <1>2, <2>1
<1> QED
  BY <1>3, <1>4, <1>5, <1>6

\* A task goes to the end of the line.
LEMMA LineAppend ==
  ASSUME Types, LineInv, NEW t \in Tasks, ~InLine(t), line' = Append(line, t),
         t[1] = "store" => deletion # "queued"
  PROVE  /\ \A k \in DOMAIN line' : line'[k] = t \/ Attends(line'[k])
         /\ InLine(t)' /\ \A u : InLine(u) => InLine(u)'
         /\ \A u : AtHead(u) => AtHead(u)'
         /\ \A j, k \in DOMAIN line' : line'[j] = line'[k] => j = k
         /\ \A j, k \in DOMAIN line' :
              j < k /\ line'[j] = <<"delete", NoTask>> => line'[k][1] # "store"
<1>1. line \in Seq(Tasks)
  BY DEF Types, Shape
<1>2. /\ Len(line) \in Nat /\ DOMAIN line' = 1 .. Len(line) + 1 /\ DOMAIN line = 1 .. Len(line)
      /\ \A k \in DOMAIN line : k \in DOMAIN line' /\ line'[k] = line[k]
      /\ line'[Len(line) + 1] = t
      /\ \A k \in DOMAIN line' : k \in DOMAIN line \/ k = Len(line) + 1
  BY <1>1, AppendIndex
<1>3. \A k \in DOMAIN line' : line'[k] = t \/ Attends(line'[k])
  <2> TAKE k \in DOMAIN line'
  <2>1. CASE k \in DOMAIN line
    BY <1>2, <2>1 DEF LineInv
  <2> QED
    BY <1>2, <2>1
<1>4. InLine(t)' /\ \A u : InLine(u) => InLine(u)'
  BY <1>2 DEF InLine
<1>5. \A u : AtHead(u) => AtHead(u)'
  BY <1>1 DEF AtHead
<1>6. \A j, k \in DOMAIN line' : line'[j] = line'[k] => j = k
  BY <1>2 DEF LineInv, InLine
<1>7. ASSUME NEW j \in DOMAIN line', NEW k \in DOMAIN line', j < k,
             line'[j] = <<"delete", NoTask>>
      PROVE  line'[k][1] # "store"
  <2>1. j \in DOMAIN line
    BY <1>2, <1>7
  <2>2. deletion = "queued"
    <3>1. Attends(line[j]) /\ line[j] = <<"delete", NoTask>>
      BY <1>2, <1>7, <2>1 DEF LineInv
    <3> QED
      BY <3>1 DEF Attends
  <2> QED
    BY <1>2, <1>7, <2>1, <2>2 DEF LineInv
<1> QED
  BY <1>3, <1>4, <1>5, <1>6, <1>7

LEMMA LineSender ==
  ASSUME Types, WriterInv, TableInv, LineInv, NEW p \in Senders, SenderStep(p)
  PROVE  LineInv'
<1>0. UNCHANGED <<work, deletion>> /\ line \in Seq(Tasks)
  BY RouteCases, RerouteCases DEF SenderStep, Store, CommitStore, CommitStoreFails, admin,
     Types, Shape
<1>1. CASE CommitStore(p)
  <2> DEFINE t == <<"store", p>>
  <2>1. line' = Append(line, t) /\ t \in Tasks /\ sender[p].pc = "writing"
    BY <1>1 DEF CommitStore, Tasks
  <2>2. /\ sender'[p].pc = "queued" /\ \A q \in Senders : q # p => sender'[q] = sender[q]
    BY <1>1, SenderFrame
  <2>3. ~InLine(t)
    <3>1. ASSUME NEW k \in DOMAIN line, line[k] = t PROVE FALSE
      BY <2>1, <3>1 DEF LineInv, Attends
    <3> QED
      BY <3>1 DEF InLine
  <2>4. deletion # "queued"
    BY <2>1 DEF WriterInv, TableInv
  <2>5. \A u : Attends(u) => Attends(u)'
    BY <1>0, <2>1, <2>2 DEF Attends
  <2>6. Attends(t)'
    BY <2>2 DEF Attends
  <2> HIDE DEF t
  <2>7. /\ \A k \in DOMAIN line' : line'[k] = t \/ Attends(line'[k])
        /\ InLine(t)' /\ \A u : InLine(u) => InLine(u)'
        /\ \A u : AtHead(u) => AtHead(u)'
        /\ \A j, k \in DOMAIN line' : line'[j] = line'[k] => j = k
        /\ \A j, k \in DOMAIN line' :
             j < k /\ line'[j] = <<"delete", NoTask>> => line'[k][1] # "store"
    BY <2>1, <2>3, <2>4, LineAppend
  <2>8. \A k \in DOMAIN line' : Attends(line[k])'
    BY <2>5, <2>6, <2>7
  <2>9. \A q \in Senders : sender'[q].pc = "queued" => InLine(<<"store", q>>)'
    BY <2>2, <2>7 DEF LineInv, t
  <2> QED
    BY <1>0, <2>4, <2>7, <2>8, <2>9 DEF LineInv
<1>2. CASE Reroute(p)
  <2>1. /\ line # <<>> /\ line[1] = <<"store", p>> /\ line' = Tail(line)
    BY <1>0, <1>2, RerouteCases, TailIndex DEF AtHead
  <2>2. /\ sender'[p].pc # "queued" /\ \A q \in Senders : q # p => sender'[q] = sender[q]
    BY <1>2, SenderFrame DEF CommitStore, Reroute
  <2>3. \A u : Attends(u) /\ u # line[1] => Attends(u)'
    BY <1>0, <2>1, <2>2 DEF Attends
  <2>4. \A s \in Sessions : work[s].pc # "set"
    BY <1>0, <2>1, TailIndex DEF LineInv, AtHead
  <2>5. /\ \A k \in DOMAIN line' : Attends(line'[k]) /\ line'[k] # line[1]
        /\ \A t : InLine(t) /\ t # line[1] => InLine(t)'
        /\ \A j, k \in DOMAIN line' : line'[j] = line'[k] => j = k
        /\ \A j, k \in DOMAIN line' :
              j < k /\ line'[j] = <<"delete", NoTask>> => line'[k][1] # "store"
    BY <2>1, LineTail
  <2>6. \A k \in DOMAIN line' : Attends(line[k])'
    BY <2>3, <2>5
  <2>7. \A q \in Senders : sender'[q].pc = "queued" => InLine(<<"store", q>>)'
    BY <2>1, <2>2, <2>5 DEF LineInv
  <2>8. \A s \in Sessions : work'[s].pc = "fixed" => InLine(<<"presence", s>>)'
    BY <1>0, <2>1, <2>5 DEF LineInv
  <2>9. deletion' = "queued" => InLine(<<"delete", NoTask>>)'
    BY <1>0, <2>1, <2>5 DEF LineInv
  <2> QED
    BY <1>0, <2>4, <2>5, <2>6, <2>7, <2>8, <2>9 DEF LineInv
<1>3. CASE ~CommitStore(p) /\ ~Reroute(p)
  <2>1. UNCHANGED line /\ sender[p].pc # "queued"
    BY <1>3, RouteCases DEF SenderStep, Store, CommitStoreFails
  <2>2. \A q \in Senders : sender'[q].pc = "queued" <=> sender[q].pc = "queued"
    BY <1>3, <2>1, SenderFrame
  <2>3. \A u : Attends(u) => Attends(u)'
    BY <1>0, <2>2 DEF Attends
  <2> QED
    BY <1>0, <2>1, <2>2, <2>3 DEF LineInv, InLine, AtHead
<1> QED
  BY <1>1, <1>2, <1>3

LEMMA LineStream ==
  ASSUME Types, LineInv, NEW s \in Sessions, StreamStep(s)
  PROVE  LineInv'
<1>0. UNCHANGED <<sender, deletion>> /\ line \in Seq(Tasks) /\ work \in [Sessions -> WorkStates]
  BY DEF StreamStep, Register, CompleteBinding, Retire, End, Close, FixPresence, SetPresence,
         DropPresence, TakeOutcome, Drain, Flush, storage, admin, Types, Shape
<1> DEFINE t == <<"presence", s>>
<1>w. ASSUME NEW w, work' = [work EXCEPT ![s] = w]
      PROVE  work'[s] = w /\ \A u \in Sessions : u # s => work'[u] = work[u]
  BY <1>0, <1>w
<1>1. CASE FixPresence(s)
  <2>1. line' = Append(line, t) /\ t \in Tasks /\ work[s].pc = "none"
    BY <1>1 DEF FixPresence, Tasks
  <2>2. work'[s].pc = "fixed" /\ \A u \in Sessions : u # s => work'[u] = work[u]
    BY <1>0, <1>1 DEF FixPresence
  <2>3. ~InLine(t)
    <3>1. ASSUME NEW k \in DOMAIN line, line[k] = t PROVE FALSE
      BY <2>1, <3>1 DEF LineInv, Attends
    <3> QED
      BY <3>1 DEF InLine
  <2>5. \A u : Attends(u) => Attends(u)'
    BY <1>0, <2>1, <2>2 DEF Attends
  <2>6. Attends(t)' /\ t[1] # "store"
    BY <2>2 DEF Attends
  <2> HIDE DEF t
  <2>7. /\ \A k \in DOMAIN line' : line'[k] = t \/ Attends(line'[k])
        /\ InLine(t)' /\ \A u : InLine(u) => InLine(u)'
        /\ \A u : AtHead(u) => AtHead(u)'
        /\ \A j, k \in DOMAIN line' : line'[j] = line'[k] => j = k
        /\ \A j, k \in DOMAIN line' :
             j < k /\ line'[j] = <<"delete", NoTask>> => line'[k][1] # "store"
    BY <2>1, <2>3, <2>6, LineAppend
  <2>8. \A k \in DOMAIN line' : Attends(line[k])'
    BY <2>5, <2>6, <2>7
  <2>9. \A u \in Sessions : /\ work'[u].pc = "fixed" => InLine(<<"presence", u>>)'
                            /\ work'[u].pc = "set" => AtHead(<<"presence", u>>)'
    BY <2>2, <2>7 DEF LineInv, t
  <2> QED
    BY <1>0, <2>7, <2>8, <2>9 DEF LineInv
<1>2. ASSUME line # <<>>, line[1] = t, line' = Tail(line), work'[s].pc \notin {"fixed", "set"},
             \A u \in Sessions : u # s => work'[u] = work[u]
      PROVE  LineInv'
  <2>1. \A u : Attends(u) /\ u # line[1] => Attends(u)'
    BY <1>0, <1>2 DEF Attends
  <2>2. \A u \in Sessions : u # s => work[u].pc # "set"
    BY <1>0, <1>2, TailIndex DEF LineInv, AtHead
  <2>3. /\ \A k \in DOMAIN line' : Attends(line'[k]) /\ line'[k] # line[1]
        /\ \A u : InLine(u) /\ u # line[1] => InLine(u)'
        /\ \A j, k \in DOMAIN line' : line'[j] = line'[k] => j = k
        /\ \A j, k \in DOMAIN line' :
              j < k /\ line'[j] = <<"delete", NoTask>> => line'[k][1] # "store"
    BY <1>2, LineTail
  <2>4. \A k \in DOMAIN line' : Attends(line[k])'
    BY <2>1, <2>3
  <2>5. \A q \in Senders : sender'[q].pc = "queued" => InLine(<<"store", q>>)'
    BY <1>0, <1>2, <2>3 DEF LineInv
  <2>6. \A u \in Sessions : /\ work'[u].pc = "fixed" => InLine(<<"presence", u>>)'
                            /\ work'[u].pc # "set"
    <3> SUFFICES ASSUME NEW u \in Sessions, u # s
                 PROVE  /\ work'[u].pc = "fixed" => InLine(<<"presence", u>>)'
                        /\ work'[u].pc # "set"
      BY <1>2
    <3>1. work'[u] = work[u] /\ <<"presence", u>> # line[1]
      BY <1>2
    <3>2. work[u].pc = "fixed" => InLine(<<"presence", u>>)
      BY DEF LineInv
    <3> QED
      BY <2>2, <2>3, <3>1, <3>2
  <2>7. deletion' = "queued" => InLine(<<"delete", NoTask>>)'
    BY <1>0, <1>2, <2>3 DEF LineInv
  <2> QED
    BY <2>3, <2>4, <2>5, <2>6, <2>7 DEF LineInv
<1>3. ASSUME UNCHANGED line, \A u \in Sessions : u # s => work'[u] = work[u],
             \/ work'[s].pc = "set" /\ work[s].pc \in {"fixed", "set"} /\ AtHead(t)
             \/ work'[s].pc \notin {"fixed", "set"} /\ work[s].pc \notin {"fixed", "set"}
             \/ work'[s] = work[s]
      PROVE  LineInv'
  <2>1. \A u : Attends(u) => Attends(u)'
    BY <1>0, <1>3 DEF Attends
  <2>2. \A u : (InLine(u)' <=> InLine(u)) /\ (AtHead(u)' <=> AtHead(u))
    BY <1>3 DEF InLine, AtHead
  <2>3. \A u \in Sessions : /\ work'[u].pc = "fixed" => InLine(<<"presence", u>>)
                            /\ work'[u].pc = "set" => AtHead(<<"presence", u>>)
    BY <1>3 DEF LineInv
  <2> QED
    BY <1>0, <1>3, <2>1, <2>2, <2>3 DEF LineInv
<1>4. CASE SetPresence(s)
  <2>1. AtHead(t) /\ work[s].pc = "fixed" /\ line # <<>> /\ line[1] = t
    BY <1>0, <1>4, TailIndex DEF SetPresence, AtHead
  <2>2. CASE /\ work' = [work EXCEPT ![s].pc = "set", ![s].preceding = session[s].mailbox]
             /\ UNCHANGED line
    <3>1. work'[s].pc = "set" /\ \A u \in Sessions : u # s => work'[u] = work[u]
      BY <1>0, <2>2 DEF WorkStates
    <3> QED
      BY <1>3, <2>1, <2>2, <3>1
  <2>3. CASE work' = [work EXCEPT ![s] = [NoWork EXCEPT !.pc = "failed"]] /\ line' = Tail(line)
    <3>1. work'[s].pc = "failed" /\ \A u \in Sessions : u # s => work'[u] = work[u]
      BY <1>0, <2>3 DEF WorkStates, NoWork
    <3> QED
      BY <1>2, <2>1, <2>3, <3>1
  <2> QED
    BY <1>4, <2>2, <2>3 DEF SetPresence
<1>5. CASE DropPresence(s)
  <2>1. line # <<>> /\ line[1] = t
    BY <1>0, <1>5, TailIndex DEF DropPresence, AtHead, LineInv
  <2>2. work'[s].pc \in {"done", "failed"} /\ \A u \in Sessions : u # s => work'[u] = work[u]
    BY <1>0, <1>5 DEF DropPresence, WorkStates
  <2> QED
    BY <1>2, <1>5, <2>1, <2>2 DEF DropPresence
<1>6. CASE Close(s) \/ TakeOutcome(s)
  <2>1. work' = [work EXCEPT ![s] = NoWork] /\ work[s].pc \notin {"fixed", "set"} /\ UNCHANGED line
    BY <1>6 DEF Close, TakeOutcome
  <2>2. work'[s].pc = "none" /\ \A u \in Sessions : u # s => work'[u] = work[u]
    BY <1>w, <2>1 DEF NoWork
  <2> QED
    BY <1>3, <2>1, <2>2
<1>7. CASE UNCHANGED <<work, line>>
  BY <1>3, <1>7
<1> QED
  BY <1>1, <1>4, <1>5, <1>6, <1>7 DEF StreamStep, Register, CompleteBinding, Retire, End, Drain, Flush

LEMMA LineAck ==
  ASSUME LineInv, NEW s \in Sessions, AckStep(s)
  PROVE  LineInv'
<1>1. UNCHANGED <<line, sender, work, deletion>>
  BY DEF AckStep, AckBegin, AckFails, CommitReplay, CommitLive, admin
<1> QED
  BY <1>1 DEF LineInv, Attends, InLine, AtHead

LEMMA LineDeletion ==
  ASSUME Types, LineInv, DeletionStep
  PROVE  LineInv' /\ (DeleteRetire => \A p \in Senders : sender[p].pc # "queued")
<1>0. UNCHANGED <<sender, work>> /\ line \in Seq(Tasks)
  BY DEF DeletionStep, DeleteBegin, DeleteCommit, DeleteFails, DeleteRetire, Create, Types, Shape
<1> DEFINE t == <<"delete", NoTask>>
<1>1. CASE DeleteCommit
  <2>1. line' = Append(line, t) /\ t \in Tasks /\ deletion = "writing" /\ deletion' = "queued"
    BY <1>1 DEF DeleteCommit, Tasks
  <2>3. ~InLine(t)
    <3>1. ASSUME NEW k \in DOMAIN line, line[k] = t PROVE FALSE
      BY <2>1, <3>1 DEF LineInv, Attends
    <3> QED
      BY <3>1 DEF InLine
  <2>5. \A u : Attends(u) => Attends(u)'
    BY <1>0, <2>1 DEF Attends
  <2>6. Attends(t)' /\ t[1] # "store"
    BY <2>1 DEF Attends
  <2> HIDE DEF t
  <2>7. /\ \A k \in DOMAIN line' : line'[k] = t \/ Attends(line'[k])
        /\ InLine(t)' /\ \A u : InLine(u) => InLine(u)'
        /\ \A u : AtHead(u) => AtHead(u)'
        /\ \A j, k \in DOMAIN line' : line'[j] = line'[k] => j = k
        /\ \A j, k \in DOMAIN line' :
             j < k /\ line'[j] = <<"delete", NoTask>> => line'[k][1] # "store"
    BY <2>1, <2>3, <2>6, LineAppend
  <2>8. \A k \in DOMAIN line' : Attends(line[k])'
    BY <2>5, <2>6, <2>7
  <2>9. InLine(<<"delete", NoTask>>)'
    BY <2>7 DEF t
  <2>10. ~DeleteRetire
    BY <2>1 DEF DeleteRetire
  <2> QED
    BY <1>0, <2>7, <2>8, <2>9, <2>10 DEF LineInv
<1>2. CASE DeleteRetire
  <2>1. /\ line # <<>> /\ line[1] = t /\ line' = Tail(line) /\ deletion' = "idle"
    BY <1>0, <1>2, TailIndex DEF DeleteRetire, AtHead
  <2>2. \A u : Attends(u) /\ u # line[1] => Attends(u)'
    BY <1>0, <2>1 DEF Attends
  <2>3. \A s \in Sessions : work[s].pc # "set"
    BY <1>0, <2>1, TailIndex DEF LineInv, AtHead
  <2>4. /\ \A k \in DOMAIN line' : Attends(line'[k]) /\ line'[k] # line[1]
        /\ \A u : InLine(u) /\ u # line[1] => InLine(u)'
        /\ \A j, k \in DOMAIN line' : line'[j] = line'[k] => j = k
        /\ \A j, k \in DOMAIN line' :
              j < k /\ line'[j] = <<"delete", NoTask>> => line'[k][1] # "store"
    BY <2>1, LineTail
  <2>5. \A k \in DOMAIN line' : Attends(line[k])'
    BY <2>2, <2>4
  <2>6. \A q \in Senders : sender[q].pc # "queued"
    <3> SUFFICES ASSUME NEW q \in Senders, sender[q].pc = "queued" PROVE FALSE
      OBVIOUS
    <3>1. PICK k \in DOMAIN line : line[k] = <<"store", q>>
      BY DEF LineInv, InLine
    <3>2. 1 \in DOMAIN line /\ k \in Nat /\ k # 0 /\ k # 1 /\ line[k][1] = "store"
      BY <1>0, <2>1, <3>1, TailIndex
    <3> QED
      BY <2>1, <3>1, <3>2 DEF LineInv
  <2>7. \A s \in Sessions : work'[s].pc = "fixed" => InLine(<<"presence", s>>)'
    BY <1>0, <2>1, <2>4 DEF LineInv
  <2> QED
    BY <1>0, <2>1, <2>3, <2>4, <2>5, <2>6, <2>7 DEF LineInv
<1>3. CASE ~DeleteCommit /\ ~DeleteRetire
  <2>1. UNCHANGED line /\ (deletion' = "queued" <=> deletion = "queued")
    BY <1>3 DEF DeletionStep, DeleteBegin, DeleteFails, Create, admin
  <2>2. \A u : (Attends(u)' <=> Attends(u)) /\ (InLine(u)' <=> InLine(u))
                 /\ (AtHead(u)' <=> AtHead(u))
    BY <1>0, <2>1 DEF Attends, InLine, AtHead
  <2> QED
    BY <1>0, <1>3, <2>1, <2>2 DEF LineInv
<1> QED
  BY <1>1, <1>2, <1>3

-----------------------------------------------------------------------------
(* Sessions *)

\* Only a bound session is offered messages.
LEMMA EligibleIsBound ==
  ASSUME Types, SessionInv, NEW s \in Sessions, Eligible(s)
  PROVE  session[s].pc = "bound"
BY DEF Types, Shape, SessionStates, SessionInv, SessionShape, Eligible, NoSession

LEMMA TakenByFrame ==
  ASSUME Types, NEW s \in Sessions, NEW x, TakenBy(s, x)
  PROVE  /\ \A u \in Sessions : u # s => session'[u] = session[u]
         /\ session'[s].mailbox = Append(session[s].mailbox, x)
         /\ session'[s].pc = session[s].pc /\ session'[s].alive = session[s].alive
         /\ session'[s].priority = session[s].priority
         /\ session'[s].outbox = session[s].outbox
         /\ session'[s].through = session[s].through
<1>1. session \in [Sessions -> SessionStates] /\ session[s] \in SessionStates
  BY DEF Types, Shape
<1>2. \A u \in Sessions : session'[u] =
        IF u = s THEN [session[s] EXCEPT !.mailbox = Append(session[s].mailbox, x)]
                 ELSE session[u]
  BY <1>1 DEF TakenBy
<1>3. session'[s] = [session[s] EXCEPT !.mailbox = Append(session[s].mailbox, x)]
  BY <1>2
<1> QED
  BY <1>1, <1>2, <1>3 DEF SessionStates

LEMMA SessionSender ==
  ASSUME Types, SessionInv, NEW p \in Senders, SenderStep(p)
  PROVE  SessionInv'
<1>0. UNCHANGED <<work, ack, seen>>
  BY RouteCases, RerouteCases DEF SenderStep, Store, CommitStore, CommitStoreFails, history
<1>1. CASE UNCHANGED session
  BY <1>0, <1>1 DEF SessionInv, SessionShape
<1>2. ASSUME NEW s \in Sessions, NEW x, TakenBy(s, x)
      PROVE  SessionInv'
  <2>1. session[s].pc = "bound" /\ session[s].priority = "eligible"
    BY <1>2, EligibleIsBound DEF TakenBy, Eligible
  <2>2. SessionShape(s)'
    BY <1>0, <1>2, <2>1, TakenByFrame DEF SessionInv, SessionShape
  <2>3. \A u \in Sessions : u # s => SessionShape(u)'
    BY <1>0, <1>2, TakenByFrame DEF SessionInv, SessionShape
  <2> QED
    BY <2>2, <2>3 DEF SessionInv
<1> QED
  BY <1>1, <1>2, RouteCases, RerouteCases DEF SenderStep, Store, CommitStore, CommitStoreFails,
     Unanswered, Refused

LEMMA SessionStream ==
  ASSUME Types, SessionInv, NEW s \in Sessions, StreamStep(s)
  PROVE  SessionInv'
<1>0. /\ session \in [Sessions -> SessionStates] /\ work \in [Sessions -> WorkStates]
      /\ ack \in [Sessions -> AckStates] /\ seen \in [Sessions -> Seq(Messages)]
      /\ session[s] \in SessionStates /\ work[s] \in WorkStates /\ SessionShape(s)
  BY DEF Types, Shape, SessionInv
<1>1. \A u \in Sessions : u # s => /\ session'[u] = session[u] /\ work'[u] = work[u]
                                   /\ ack'[u] = ack[u] /\ seen'[u] = seen[u]
  BY <1>0 DEF StreamStep, Register, CompleteBinding, Retire, End, Close, FixPresence,
     SetPresence, DropPresence, TakeOutcome, Drain, Flush, storage, admin, history
<1>2. \A u \in Sessions : u # s => SessionShape(u)'
  BY <1>1 DEF SessionInv, SessionShape
<1>3. SessionShape(s)'
  <2>1. CASE Register(s)
    BY <1>0, <2>1 DEF Register, SessionShape, NoSession, history
  <2>2. CASE CompleteBinding(s)
    <3>1. CASE session'[s] = NoSession
      BY <1>0, <2>2, <3>1 DEF CompleteBinding, SessionShape, NoSession, history
    <3>2. CASE session'[s] = [session[s] EXCEPT !.pc = "bound"]
      BY <1>0, <2>2, <3>2 DEF CompleteBinding, SessionShape, SessionStates, history
    <3> QED
      BY <1>0, <2>2, <3>1, <3>2 DEF CompleteBinding
  <2>3. CASE Retire(s)
    BY <1>0, <2>3 DEF Retire, SessionShape, SessionStates, history
  <2>4. CASE End(s)
    BY <1>0, <2>4 DEF End, SessionShape, NoSession
  <2>5. CASE Close(s)
    BY <1>0, <2>5 DEF Close, SessionShape, NoSession, NoWork
  <2>6. CASE FixPresence(s)
    <3>1. work'[s].pc = "fixed" /\ work'[s].preceding = <<>>
      BY <1>0, <2>6 DEF FixPresence
    <3> QED
      BY <1>0, <2>6, <3>1 DEF FixPresence, SessionShape, history
  <2>7. CASE SetPresence(s)
    <3>0. session[s].pc \notin {"out", "registered"}
      BY <1>0, <2>7 DEF SetPresence, SessionShape, NoWork
    <3>1. CASE session[s].alive
      <4>1. /\ work'[s].pc = "set" /\ session'[s].mailbox = <<>>
            /\ session'[s].pc = session[s].pc
        BY <1>0, <2>7, <3>1 DEF SetPresence, SessionStates, WorkStates
      <4>2. session[s].pc = "bound"
        BY <1>0, <3>0, <3>1 DEF SessionShape, SessionStates
      <4> QED
        BY <3>0, <4>1, <4>2 DEF SessionShape
    <3>2. CASE ~session[s].alive
      BY <1>0, <2>7, <3>0, <3>2 DEF SetPresence, SessionShape, NoWork, history
    <3> QED
      BY <3>1, <3>2
  <2>8. CASE DropPresence(s)
    <3>1. work'[s].pc \in {"done", "failed"}
      BY <1>0, <2>8 DEF DropPresence, WorkStates
    <3> QED
      BY <1>0, <2>8, <3>1 DEF DropPresence, SessionShape, NoWork, history
  <2>9. CASE TakeOutcome(s)
    <3>1. /\ work'[s] = NoWork /\ session'[s].pc = "bound"
          /\ session'[s].mailbox = session[s].mailbox
          /\ session'[s].priority = session[s].priority
      BY <1>0, <2>9 DEF TakeOutcome, SessionStates
    <3> QED
      BY <1>0, <3>1 DEF SessionShape, NoWork
  <2>10. CASE Drain(s)
    BY <1>0, <2>10 DEF Drain, SessionShape, SessionStates, history
  <2>11. CASE Flush(s)
    <3>1. /\ work'[s] = work[s] /\ session'[s].pc = "bound"
          /\ session'[s].mailbox = session[s].mailbox
          /\ session'[s].priority = session[s].priority
      BY <1>0, <2>11 DEF Flush, SessionStates
    <3> QED
      BY <1>0, <3>1 DEF SessionShape
  <2> QED
    BY <2>1, <2>2, <2>3, <2>4, <2>5, <2>6, <2>7, <2>8, <2>9, <2>10, <2>11 DEF StreamStep
<1> QED
  BY <1>2, <1>3 DEF SessionInv

LEMMA SessionAck ==
  ASSUME Types, SessionInv, NEW s \in Sessions, AckStep(s)
  PROVE  SessionInv'
<1>0. /\ UNCHANGED <<session, work, seen>> /\ ack \in [Sessions -> AckStates]
      /\ ack[s] # NoAck
  BY DEF AckStep, AckBegin, AckFails, CommitReplay, CommitLive, history, Types, Shape,
     Phase, NoAck
<1>1. \A u \in Sessions : u # s => ack'[u] = ack[u]
  BY <1>0 DEF AckStep, AckBegin, AckFails, CommitReplay, CommitLive
<1> QED
  BY <1>0, <1>1 DEF SessionInv, SessionShape

LEMMA SessionDeletion ==
  ASSUME Types, SessionInv, DeletionStep
  PROVE  SessionInv'
<1>0. UNCHANGED <<work, ack, seen>> /\ session \in [Sessions -> SessionStates]
  BY DEF DeletionStep, DeleteBegin, DeleteCommit, DeleteFails, DeleteRetire, Create, history,
     Types, Shape
<1>1. CASE UNCHANGED session
  BY <1>0, <1>1 DEF SessionInv, SessionShape
<1>2. CASE DeleteRetire
  <2> SUFFICES ASSUME NEW s \in Sessions PROVE SessionShape(s)'
    BY DEF SessionInv
  <2>1. session'[s] = [session[s] EXCEPT !.alive = FALSE] /\ session[s] \in SessionStates
    BY <1>0, <1>2 DEF DeleteRetire
  <2>2. SessionShape(s)
    BY DEF SessionInv
  <2> QED
    BY <1>0, <2>1, <2>2 DEF SessionShape, SessionStates
<1> QED
  BY <1>1, <1>2 DEF DeletionStep, DeleteBegin, DeleteCommit, DeleteFails, Create

-----------------------------------------------------------------------------
(* What a sequence stands for *)

Control == Types /\ WriterInv /\ TableInv /\ LineInv /\ SessionInv

\* The table only shrinks, and so does what is owed.
Shrinks == /\ stored' \in SUBSET stored /\ owed' \in SUBSET owed /\ lastSeq' = lastSeq
           /\ deletion = "queued" => deletion' = "queued"

\* What a sequence stands for stays as it is.
Steady ==
  /\ \A x \in Entries : Names(x) => Names(x)'
  /\ \A t \in Nat : \A M : Covers(t, M) => Covers(t, M)'
  /\ \A q \in Nat : Free(q) => Free(q)'

LEMMA ShrinkSteady ==
  ASSUME Shrinks
  PROVE  Steady
BY DEF Shrinks, Steady, Names, Covers, Free, Reached

LEMMA StoreSteady ==
  ASSUME Control, NEW p \in Senders, CommitStore(p)
  PROVE  Steady
<1>1. /\ stored' = stored \cup {Recorded(p)} /\ owed' = owed \cup {Current(p)}
      /\ lastSeq' = lastSeq + 1 /\ lastSeq \in Nat /\ sender[p].seq = lastSeq + 1
      /\ deletion' = deletion /\ deletion # "queued"
  BY DEF CommitStore, Recorded, Control, WriterInv, TableInv, Types, Shape, admin
<1>2. \A e \in stored : e.seq \in Nat /\ e.seq <= lastSeq /\ e.msg # Current(p)
  <2> TAKE e \in stored
  <2>1. e.seq \in Nat /\ e.seq <= lastSeq /\ Settled(e.msg) /\ e.msg \in Messages
    BY DEF Control, TableInv, Types, Shape, Entries
  <2>2. ~Settled(Current(p))
    BY OfflineAssumption DEF CommitStore, Settled, Past, Current, Control, Types, Shape, SenderStates
  <2> QED
    BY <2>1, <2>2
<1>3. Recorded(p).seq = lastSeq + 1 /\ Recorded(p).msg = Current(p)
  BY <1>1 DEF Recorded
<1>m. PICK m : m = Current(p)
  OBVIOUS
<1>4. /\ \A e \in stored' : e \in stored \/ (e.seq = lastSeq + 1 /\ e.msg = m)
      /\ \A e \in stored : e.msg # m
      /\ \A n : n \in owed' => n \in owed \/ n = m
  BY <1>1, <1>2, <1>3, <1>m
<1>5. ASSUME NEW x \in Entries, Names(x) PROVE Names(x)'
  BY <1>1, <1>2, <1>4, <1>5 DEF Names, Reached, Entries
<1>6. ASSUME NEW t \in Nat, NEW M, Covers(t, M) PROVE Covers(t, M)'
  BY <1>1, <1>2, <1>4, <1>6 DEF Covers, Reached
<1>7. ASSUME NEW q \in Nat, Free(q) PROVE Free(q)'
  BY <1>1, <1>2, <1>4, <1>7 DEF Free, Reached
<1> QED
  BY <1>5, <1>6, <1>7 DEF Steady

LEMMA DeleteSteady ==
  ASSUME DeleteCommit
  PROVE  Steady
BY DEF DeleteCommit, Steady, Names, Covers, Free, Reached

\* A session that a step leaves alone keeps its releases, one it does not
\* touch keeps its removals.
LEMMA SteadyParts ==
  ASSUME Control, Steady
  PROVE  /\ \A q \in Seq(Entries) : AllNamed(q) => AllNamed(q)'
         /\ \A Q \in SUBSET Nat : AllFree(Q) => AllFree(Q)'
         /\ \A s \in Sessions :
              session'[s] = session[s] /\ work'[s] = work[s] /\ ack'[s] = ack[s] /\ Releases(s)
                => Releases(s)'
<1>1. \A q \in Seq(Entries) : AllNamed(q) => AllNamed(q)'
  BY DEF AllNamed, Steady
<1>2. \A Q \in SUBSET Nat : AllFree(Q) => AllFree(Q)'
  BY DEF AllFree, Steady
<1>3. ASSUME NEW s \in Sessions, session'[s] = session[s], work'[s] = work[s],
             ack'[s] = ack[s], Releases(s)
      PROVE  Releases(s)'
  <2>1. /\ session[s].mailbox \in Seq(Entries) /\ session[s].outbox \in Seq(Entries)
        /\ work[s].preceding \in Seq(Entries) /\ work[s].backlog \in Seq(Entries)
        /\ session[s].through \in Nat /\ ack[s].watermark \in Nat
        /\ ack[s].pending \in SUBSET Nat
    BY DEF Control, Types, Shape, SessionStates, WorkStates, AckStates
  <2>2. work[s].backlog # <<>> => LastSeq(work[s].backlog) \in Nat
    <3>1. work[s].backlog # <<>> => work[s].backlog[Len(work[s].backlog)] \in Entries
      BY <2>1
    <3> QED
      BY <3>1 DEF LastSeq, Entries
  <2>3. AllNamed(session[s].mailbox)' /\ AllNamed(session[s].outbox)' /\ AllNamed(work[s].preceding)'
          /\ AllFree(ack[s].pending)'
    BY <1>1, <1>2, <1>3, <2>1 DEF Releases
  <2>4. Covers(session[s].through, Msgs(session[s].outbox))' /\ Covers(ack[s].watermark, {})'
    <3>1. PICK M : M = Msgs(session[s].outbox)
      OBVIOUS
    <3>2. M = Msgs(session[s].outbox)'
      BY <1>3, <3>1 DEF Msgs
    <3> QED
      BY <1>3, <2>1, <3>1, <3>2 DEF Releases, Steady
  <2>5. (work[s].backlog # <<>> => Covers(LastSeq(work[s].backlog), Msgs(work[s].backlog)))'
    <3>1. PICK M, l : M = Msgs(work[s].backlog) /\ l = LastSeq(work[s].backlog)
      OBVIOUS
    <3>2. M = Msgs(work[s].backlog)' /\ l = LastSeq(work[s].backlog)'
      BY <1>3, <3>1 DEF Msgs, LastSeq
    <3> QED
      BY <1>3, <2>2, <3>1, <3>2 DEF Releases, Steady
  <2> QED
    BY <2>3, <2>4, <2>5 DEF Releases
<1> QED
  BY <1>1, <1>2, <1>3

LEMMA AppendNamed ==
  ASSUME NEW q \in Seq(Entries), NEW x \in Entries, AllNamed(q)', Names(x)'
  PROVE  AllNamed(Append(q, x))'
<1>1. \A k \in DOMAIN Append(q, x) : (k \in DOMAIN q /\ Append(q, x)[k] = q[k]) \/ Append(q, x)[k] = x
  OBVIOUS
<1> QED
  BY <1>1 DEF AllNamed

LEMMA ConcatIndex ==
  ASSUME NEW S, NEW q \in Seq(S), NEW r \in Seq(S)
  PROVE  /\ q \o r \in Seq(S) /\ Len(q \o r) = Len(q) + Len(r)
         /\ \A k \in DOMAIN q : k \in DOMAIN (q \o r) /\ (q \o r)[k] = q[k]
         /\ \A j \in DOMAIN r : Len(q) + j \in DOMAIN (q \o r) /\ (q \o r)[Len(q) + j] = r[j]
         /\ \A k \in DOMAIN (q \o r) :
              \/ k \in DOMAIN q /\ (q \o r)[k] = q[k]
              \/ k - Len(q) \in DOMAIN r /\ (q \o r)[k] = r[k - Len(q)]
         /\ \A k \in DOMAIN (q \o r) : \/ k \in DOMAIN q /\ (q \o r)[k] = q[k]
                                       \/ \E j \in DOMAIN r : (q \o r)[k] = r[j]
         /\ \A j \in DOMAIN r : \E k \in DOMAIN (q \o r) : (q \o r)[k] = r[j]
<1>1. /\ q \o r \in Seq(S) /\ Len(q \o r) = Len(q) + Len(r) /\ Len(q) \in Nat /\ Len(r) \in Nat
      /\ DOMAIN q = 1 .. Len(q) /\ DOMAIN r = 1 .. Len(r)
  OBVIOUS
<1>2. DOMAIN (q \o r) = 1 .. Len(q) + Len(r)
  BY <1>1
<1>3. \A k \in 1 .. Len(q) + Len(r) :
        (q \o r)[k] = IF k <= Len(q) THEN q[k] ELSE r[k - Len(q)]
  OBVIOUS
<1>4. \A k \in DOMAIN q : k \in DOMAIN (q \o r) /\ (q \o r)[k] = q[k]
  BY <1>1, <1>2, <1>3
<1>5. ASSUME NEW j \in DOMAIN r
      PROVE  Len(q) + j \in DOMAIN (q \o r) /\ (q \o r)[Len(q) + j] = r[j]
  <2>1. /\ Len(q) + j \in 1 .. Len(q) + Len(r) /\ ~(Len(q) + j <= Len(q))
        /\ Len(q) + j - Len(q) = j
    BY <1>1
  <2> QED
    BY <1>2, <1>3, <2>1
<1>6. ASSUME NEW k \in DOMAIN (q \o r), ~(k \in DOMAIN q)
      PROVE  k - Len(q) \in DOMAIN r /\ (q \o r)[k] = r[k - Len(q)]
  <2>1. k \in 1 .. Len(q) + Len(r) /\ ~(k <= Len(q)) /\ k - Len(q) \in 1 .. Len(r)
    BY <1>1, <1>2, <1>6
  <2> QED
    BY <1>1, <1>3, <2>1
<1> QED
  BY <1>1, <1>4, <1>5, <1>6

\* A session that takes a message the sequence of which names it.
LEMMA TakenReleases ==
  ASSUME Control, Steady, NEW s \in Sessions, NEW x \in Entries, TakenBy(s, x), Names(x),
         UNCHANGED <<work, ack>>, Releases(s)
  PROVE  Releases(s)'
<1>0. /\ session[s].mailbox \in Seq(Entries) /\ session[s].outbox \in Seq(Entries)
      /\ work[s].preceding \in Seq(Entries) /\ work[s].backlog \in Seq(Entries)
      /\ session[s].through \in Nat /\ ack[s].watermark \in Nat
      /\ ack[s].pending \in SUBSET Nat
  BY DEF Control, Types, Shape, SessionStates, WorkStates, AckStates
<1>1. /\ session'[s].mailbox = Append(session[s].mailbox, x)
      /\ session'[s].outbox = session[s].outbox /\ session'[s].through = session[s].through
  BY TakenByFrame DEF Control
<1>2. PICK q, o : q = session[s].mailbox /\ o = session[s].outbox
  OBVIOUS
<1>3. AllNamed(q)' /\ AllNamed(o)' /\ AllNamed(work[s].preceding)' /\ Names(x)'
        /\ AllFree(ack[s].pending)'
  BY <1>0, <1>2, SteadyParts DEF Releases, Steady
<1>4. AllNamed(Append(q, x))'
  BY <1>0, <1>2, <1>3, AppendNamed
<1>5. AllNamed(session[s].mailbox)' /\ AllNamed(session[s].outbox)'
  BY <1>1, <1>2, <1>3, <1>4
<1>6. Covers(session[s].through, Msgs(session[s].outbox))' /\ Covers(ack[s].watermark, {})'
  <2>1. PICK M : M = Msgs(session[s].outbox)
    OBVIOUS
  <2>2. M = Msgs(session[s].outbox)'
    BY <1>1, <2>1 DEF Msgs
  <2> QED
    BY <1>0, <1>1, <2>1, <2>2 DEF Releases, Steady
<1>7. (work[s].backlog # <<>> => Covers(LastSeq(work[s].backlog), Msgs(work[s].backlog)))'
  <2>1. PICK M, l : M = Msgs(work[s].backlog) /\ l = LastSeq(work[s].backlog)
    OBVIOUS
  <2>2. M = Msgs(work[s].backlog)' /\ l = LastSeq(work[s].backlog)'
    BY <2>1 DEF Msgs, LastSeq
  <2>3. work[s].backlog # <<>> => l \in Nat
    <3>1. work[s].backlog # <<>> => work[s].backlog[Len(work[s].backlog)] \in Entries
      BY <1>0
    <3> QED
      BY <2>1, <3>1 DEF LastSeq, Entries
  <2> QED
    BY <2>1, <2>2, <2>3 DEF Releases, Steady
<1> QED
  BY <1>3, <1>5, <1>6, <1>7 DEF Releases

LEMMA RefSender ==
  ASSUME Control, RefInv, NEW p \in Senders, SenderStep(p)
  PROVE  RefInv'
<1>0. UNCHANGED <<work, ack>>
  BY RouteCases, RerouteCases DEF SenderStep, Store, CommitStore, CommitStoreFails
<1>t. Types
  BY DEF Control
<1>1. CASE CommitStore(p)
  <2>1. /\ stored' = stored \cup {Recorded(p)} /\ owed' = owed \cup {Current(p)}
        /\ UNCHANGED session /\ sender[p].pc = "writing" /\ sender[p].seq = lastSeq + 1
        /\ lastSeq' = lastSeq + 1 /\ lastSeq \in Nat
    BY <1>1 DEF CommitStore, Recorded, Control, WriterInv, Types, Shape
  <2>2. Steady
    BY <1>1, StoreSteady
  <2>3. owed' \subseteq Kept(stored')
    BY <2>1 DEF RefInv, Kept, Recorded
  <2>4. \A s \in Sessions : session'[s].alive => Releases(s)'
    BY <1>0, <2>1, <2>2, SteadyParts DEF RefInv
  <2>5. \A s \in Sessions : ack[s].replay # "commit" /\ ack[s].live # "commit"
    BY <2>1 DEF Control, WriterInv
  <2>6. \A s \in Sessions : Removes(s)'
    BY <1>0, <2>5 DEF Removes
  <2>7. \A q \in Senders : q # p /\ sender'[q].pc = "queued" =>
          sender'[q].seq # 0 /\ Names(Recorded(q))'
    <3> SUFFICES ASSUME NEW q \in Senders, q # p, sender'[q].pc = "queued"
                 PROVE  sender'[q].seq # 0 /\ Names(Recorded(q))'
      OBVIOUS
    <3>1. sender'[q] = sender[q]
      BY <1>t, SenderFrame
    <3>2. PICK x : x = Recorded(q)
      OBVIOUS
    <3>3. x = Recorded(q)'
      BY <3>1, <3>2 DEF Recorded, Current
    <3>4. sender[q].seq # 0 /\ Names(x) /\ x \in Entries
      BY <1>t, <3>1, <3>2, CurrentIsMessage DEF RefInv, Types, Sending
    <3> QED
      BY <2>2, <3>1, <3>3, <3>4 DEF Steady
  <2>8. sender'[p].seq # 0 /\ Names(Recorded(p))'
    <3>1. /\ sender'[p].seq = sender[p].seq /\ sender'[p].n = sender[p].n
      BY <1>1, <1>t DEF CommitStore, Types, Shape, SenderStates
    <3>2. Recorded(p)' = Recorded(p) /\ Recorded(p).seq = lastSeq + 1
      BY <2>1, <3>1 DEF Recorded, Current
    <3>3. PICK x : x = Recorded(p)
      OBVIOUS
    <3>4. \A e \in stored' : e.seq = x.seq => e = x
      BY <2>1, <3>2, <3>3 DEF Control, TableInv, Types, Shape, Entries
    <3>5. Names(x)'
      BY <2>1, <3>2, <3>3, <3>4 DEF Names, Reached
    <3> QED
      BY <2>1, <3>1, <3>2, <3>3, <3>5
  <2> QED
    BY <2>3, <2>4, <2>6, <2>7, <2>8 DEF RefInv
<1>2. CASE ~CommitStore(p)
  <2>1. UNCHANGED <<stored, owed, lastSeq, deletion>>
    BY <1>2, RouteCases, RerouteCases DEF SenderStep, Store, CommitStoreFails, admin, history
  <2>2. Steady
    <3>1. Shrinks
      BY <2>1 DEF Shrinks
    <3> QED
      BY <3>1, ShrinkSteady
  <2>3. \A q \in Senders : sender'[q].pc = "queued" => sender'[q] = sender[q]
    BY <1>2, <1>t, SenderFrame
  <2>4. \A q \in Senders : sender'[q].pc = "queued" => sender'[q].seq # 0 /\ Names(Recorded(q))'
    BY <2>1, <2>3 DEF RefInv, Names, Reached, Recorded, Current
  <2>5. \A s \in Sessions : Removes(s)'
    BY <1>0, <2>1 DEF Removes, RefInv
  <2>6. CASE UNCHANGED session
    <3>1. \A s \in Sessions : session'[s].alive => Releases(s)'
      BY <1>0, <2>2, <2>6, SteadyParts DEF RefInv
    <3> QED
      BY <2>1, <2>4, <2>5, <3>1 DEF RefInv
  <2>7. ASSUME NEW s \in Sessions, NEW x \in Entries, Names(x), TakenBy(s, x)
        PROVE  RefInv'
    <3>1. session[s].alive /\ Releases(s)
      BY <2>7 DEF TakenBy, Eligible, RefInv
    <3>2. Releases(s)'
      BY <1>0, <2>2, <2>7, <3>1, TakenReleases
    <3>3. \A u \in Sessions : u # s /\ session'[u].alive => Releases(u)'
      BY <1>0, <1>t, <2>2, <2>7, SteadyParts, TakenByFrame DEF RefInv
    <3> QED
      BY <2>1, <2>4, <2>5, <3>2, <3>3 DEF RefInv
  <2>8. CASE Route(p)
    <3>1. Fresh(p) \in Entries /\ Names(Fresh(p))
      BY <1>t, <2>8, RouteCases, CurrentIsMessage DEF Names, Fresh
    <3> QED
      BY <2>6, <2>7, <2>8, <3>1, RouteCases DEF Unanswered, Refused
  <2>9. CASE Reroute(p)
    <3>1. Recorded(p) \in Entries /\ Names(Recorded(p))
      BY <1>t, <2>9, RerouteCases, CurrentIsMessage DEF RefInv, Types, Sending
    <3> QED
      BY <2>6, <2>7, <2>9, <3>1, RerouteCases DEF Unanswered, Refused
  <2> QED
    BY <1>2, <2>6, <2>8, <2>9 DEF SenderStep, Store, CommitStoreFails
<1> QED
  BY <1>1, <1>2

\* Nothing is stored under or up to 0.
LEMMA CoversNothing ==
  ASSUME Control, NEW M
  PROVE  Covers(0, M)
BY DEF Control, Types, Shape, TableInv, Covers, Reached, Entries

LEMMA StreamSteady ==
  ASSUME Control, NEW s \in Sessions, StreamStep(s)
  PROVE  /\ Shrinks /\ Steady /\ UNCHANGED <<stored, lastSeq, sender, deletion>>
         /\ \A u \in Sessions : u # s => /\ session'[u] = session[u] /\ work'[u] = work[u]
                                         /\ ack'[u] = ack[u]
<1>0. /\ session \in [Sessions -> SessionStates] /\ work \in [Sessions -> WorkStates]
      /\ ack \in [Sessions -> AckStates]
  BY DEF Control, Types, Shape
<1>1. UNCHANGED <<stored, lastSeq, sender, deletion>> /\ owed' \in SUBSET owed
  BY DEF StreamStep, Register, CompleteBinding, Retire, End, Close, FixPresence, SetPresence,
         DropPresence, TakeOutcome, Drain, Flush, storage, admin, history
<1>2. \A u \in Sessions : u # s => /\ session'[u] = session[u] /\ work'[u] = work[u]
                                   /\ ack'[u] = ack[u]
  BY <1>0 DEF StreamStep, Register, CompleteBinding, Retire, End, Close, FixPresence,
     SetPresence, DropPresence, TakeOutcome, Drain, Flush, storage, admin, history
<1>3. Shrinks
  BY <1>1 DEF Shrinks
<1> QED
  BY <1>1, <1>2, <1>3, ShrinkSteady

\* What a session that lives may release after a step of its stream.
LEMMA StreamReleases ==
  ASSUME Control, Control', RefInv, NEW s \in Sessions, StreamStep(s), session'[s].alive
  PROVE  Releases(s)'
<1> DEFINE S == session[s]
           W == work[s]
           A == ack[s]
<1>0. /\ session \in [Sessions -> SessionStates] /\ work \in [Sessions -> WorkStates]
      /\ ack \in [Sessions -> AckStates] /\ SessionShape(s)
      /\ S \in SessionStates /\ W \in WorkStates /\ A \in AckStates
      /\ S.mailbox \in Seq(Entries) /\ S.outbox \in Seq(Entries)
      /\ W.preceding \in Seq(Entries) /\ W.backlog \in Seq(Entries)
      /\ S.through \in Nat /\ A.watermark \in Nat /\ A.pending \in SUBSET Nat
  BY DEF Control, Types, Shape, SessionInv, SessionStates, WorkStates, AckStates
<1>1. Steady /\ Shrinks /\ UNCHANGED <<stored, lastSeq, deletion>>
  BY StreamSteady
<1>2. /\ \A q \in Seq(Entries) : AllNamed(q) => AllNamed(q)'
      /\ \A Q \in SUBSET Nat : AllFree(Q) => AllFree(Q)'
      /\ \A t \in Nat : \A M : Covers(t, M) => Covers(t, M)'
  BY <1>1, SteadyParts DEF Steady
<1>3. AllNamed(<<>>)' /\ AllFree({})' /\ \A M : Covers(0, M)'
  <2>1. \A M : Covers(0, M)'
    BY <1>2, CoversNothing
  <2>2. AllNamed(<<>>)' /\ AllFree({})'
    BY DEF AllNamed, AllFree
  <2> QED
    BY <2>1, <2>2
<1>m. Msgs(<<>>) = {} /\ Msgs(<<>>)' = {}
  BY DEF Msgs
\* The parts of the goal, from the values that the step gives them.
<1>4. ASSUME NEW mb, NEW ob, NEW pr, NEW th, NEW wm, NEW pd,
             session'[s].mailbox = mb, session'[s].outbox = ob, session'[s].through = th,
             work'[s].preceding = pr, ack'[s].watermark = wm, ack'[s].pending = pd,
             AllNamed(mb)', AllNamed(ob)', AllNamed(pr)',
             Covers(th, Msgs(ob))', Covers(wm, {})', AllFree(pd)',
             (W.backlog # <<>> => Covers(LastSeq(W.backlog), Msgs(W.backlog)))'
      PROVE  Releases(s)'
  BY <1>4 DEF Releases
<1>5. ASSUME W.backlog # <<>> => Covers(LastSeq(W.backlog), Msgs(W.backlog)),
             work'[s].backlog = W.backlog
      PROVE  (W.backlog # <<>> => Covers(LastSeq(W.backlog), Msgs(W.backlog)))'
  <2>1. PICK M, l : M = Msgs(W.backlog) /\ l = LastSeq(W.backlog)
    OBVIOUS
  <2>2. M = Msgs(W.backlog)' /\ l = LastSeq(W.backlog)'
    BY <1>5, <2>1 DEF Msgs, LastSeq
  <2>3. W.backlog # <<>> => l \in Nat
    <3>1. W.backlog # <<>> => W.backlog[Len(W.backlog)] \in Entries
      BY <1>0
    <3> QED
      BY <2>1, <3>1 DEF LastSeq, Entries
  <2> QED
    BY <1>2, <1>5, <2>1, <2>2, <2>3
<1>6. CASE Register(s)
  <2>1. /\ session'[s].mailbox = <<>> /\ session'[s].outbox = <<>> /\ session'[s].through = 0
    BY <1>0, <1>6 DEF Register, NoSession
  <2>2. /\ work'[s].preceding = <<>> /\ work'[s].backlog = <<>>
        /\ ack'[s].watermark = 0 /\ ack'[s].pending = {}
    BY <1>0, <1>6 DEF Register, SessionShape, NoWork, NoAck
  <2> QED
    BY <1>3, <1>4, <2>1, <2>2
<1>r. ASSUME S.alive PROVE Releases(s)
  BY <1>r DEF RefInv
<1>7. CASE CompleteBinding(s) \/ DropPresence(s)
  <2>1. /\ session'[s].mailbox = S.mailbox /\ session'[s].outbox = S.outbox
        /\ session'[s].through = S.through /\ S.alive
    BY <1>0, <1>7 DEF CompleteBinding, DropPresence, SessionStates, NoSession
  <2>2. /\ work'[s].preceding = W.preceding /\ work'[s].backlog = W.backlog
        /\ ack'[s] = A
    BY <1>0, <1>7 DEF CompleteBinding, DropPresence, WorkStates
  <2>3. /\ AllNamed(S.mailbox) /\ AllNamed(S.outbox) /\ AllNamed(W.preceding)
        /\ Covers(S.through, Msgs(S.outbox)) /\ Covers(A.watermark, {}) /\ AllFree(A.pending)
        /\ W.backlog # <<>> => Covers(LastSeq(W.backlog), Msgs(W.backlog))
    BY <1>r, <2>1 DEF Releases
  <2>4. PICK mb, ob, pr, th, wm, pd : /\ mb = S.mailbox /\ ob = S.outbox /\ pr = W.preceding
                                      /\ th = S.through /\ wm = A.watermark /\ pd = A.pending
    OBVIOUS
  <2>5. /\ AllNamed(mb)' /\ AllNamed(ob)' /\ AllNamed(pr)' /\ AllFree(pd)'
        /\ Covers(th, Msgs(ob))' /\ Covers(wm, {})'
    BY <1>0, <1>2, <2>3, <2>4 DEF Msgs
  <2> QED
    BY <1>4, <1>5, <2>1, <2>2, <2>3, <2>4, <2>5
<1>8. ~(Retire(s) \/ End(s) \/ Close(s))
  <2>1. ~Retire(s)
    BY <1>0 DEF Retire, SessionStates
  <2>2. ASSUME End(s) PROVE FALSE
    <3>1. session'[s] = [NoSession EXCEPT !.pc = "ended"]
      BY <1>0, <2>2 DEF End
    <3>2. session'[s].alive = FALSE
      BY <3>1 DEF NoSession
    <3> QED
      BY <3>2
  <2>3. ASSUME Close(s) PROVE FALSE
    <3>1. session'[s] = NoSession
      BY <1>0, <2>3 DEF Close
    <3>2. session'[s].alive = FALSE
      BY <3>1 DEF NoSession
    <3> QED
      BY <3>2
  <2> QED
    BY <2>1, <2>2, <2>3
\* In the other steps the session lives and the acknowledgements, the mailbox
\* or the outbox are as they were.
<1>9. ASSUME S.alive
      PROVE  \E mb, ob, pr, th, wm, pd :
               /\ mb = S.mailbox /\ ob = S.outbox /\ pr = W.preceding
               /\ th = S.through /\ wm = A.watermark /\ pd = A.pending
               /\ AllNamed(mb)' /\ AllNamed(ob)' /\ AllNamed(pr)' /\ AllFree(pd)'
               /\ Covers(th, Msgs(ob))' /\ Covers(wm, {})'
               /\ W.backlog # <<>> => Covers(LastSeq(W.backlog), Msgs(W.backlog))
  <2>3. /\ AllNamed(S.mailbox) /\ AllNamed(S.outbox) /\ AllNamed(W.preceding)
        /\ Covers(S.through, Msgs(S.outbox)) /\ Covers(A.watermark, {}) /\ AllFree(A.pending)
        /\ W.backlog # <<>> => Covers(LastSeq(W.backlog), Msgs(W.backlog))
    BY <1>9, <1>r DEF Releases
  <2>4. PICK mb, ob, pr, th, wm, pd : /\ mb = S.mailbox /\ ob = S.outbox /\ pr = W.preceding
                                      /\ th = S.through /\ wm = A.watermark /\ pd = A.pending
    OBVIOUS
  <2>5. /\ AllNamed(mb)' /\ AllNamed(ob)' /\ AllNamed(pr)' /\ AllFree(pd)'
        /\ Covers(th, Msgs(ob))' /\ Covers(wm, {})'
    BY <1>0, <1>2, <2>3, <2>4 DEF Msgs
  <2> QED
    BY <2>3, <2>4, <2>5
<1>10. CASE FixPresence(s)
  <2>a. PICK priority \in Priorities :
          work' = [work EXCEPT ![s] =
            [pc |-> "fixed", priority |-> priority, preceding |-> <<>>,
             backlog |-> IF priority = "eligible" /\ session[s].priority # "eligible"
                           THEN Ordered(stored) ELSE <<>>]]
    BY <1>10 DEF FixPresence
  <2>1. PICK b : /\ work'[s].backlog = b /\ work'[s].preceding = <<>>
                 /\ b = Ordered(stored) \/ b = <<>>
    BY <1>0, <2>a
  <2>2. /\ session' = session /\ ack' = ack /\ S.alive
        /\ work'[s].preceding = <<>> /\ work'[s].backlog = b
    BY <1>0, <1>10, <2>1 DEF FixPresence
  <2>3. PICK mb, ob, pr, th, wm, pd :
          /\ mb = S.mailbox /\ ob = S.outbox /\ th = S.through /\ wm = A.watermark
          /\ pd = A.pending
          /\ AllNamed(mb)' /\ AllNamed(ob)' /\ AllFree(pd)'
          /\ Covers(th, Msgs(ob))' /\ Covers(wm, {})'
    BY <1>9, <2>2
  <2>4. b # <<>> => Covers(LastSeq(b), Msgs(b))
    <3> SUFFICES ASSUME b # <<>>, b = Ordered(stored)
                 PROVE  Covers(LastSeq(b), Msgs(b))
      BY <2>1
    <3>1. /\ b \in Seq(stored) /\ \A e \in stored : \E k \in DOMAIN b : b[k] = e
      BY OrderedTable DEF Control, Types, Shape, TableInv
    <3>2. b[Len(b)] \in stored
      BY <3>1
    <3>3. Reached(LastSeq(b))
      BY <3>2 DEF Reached, LastSeq, Control, TableInv
    <3>4. \A e \in stored : e.msg \in Msgs(b)
      BY <3>1 DEF Msgs
    <3> QED
      BY <3>3, <3>4 DEF Covers
  <2>5. b # <<>> => LastSeq(b) \in Nat
    <3>1. b # <<>> => b[Len(b)] \in Entries
      <4>1. b \in Seq(Entries)
        BY <2>1, <2>2 DEF Control, Types, Shape, WorkStates
      <4> QED
        BY <4>1
    <3> QED
      BY <3>1 DEF LastSeq, Entries
  <2>6. (W.backlog # <<>> => Covers(LastSeq(W.backlog), Msgs(W.backlog)))'
    <3>1. PICK M, l : M = Msgs(b) /\ l = LastSeq(b)
      OBVIOUS
    <3>2. M = Msgs(W.backlog)' /\ l = LastSeq(W.backlog)'
      BY <2>2, <3>1 DEF Msgs, LastSeq
    <3> QED
      BY <1>2, <2>2, <2>4, <2>5, <3>1, <3>2
  <2> QED
    BY <1>3, <1>4, <2>2, <2>3, <2>6
<1>11. CASE SetPresence(s)
  <2>1. S.alive
    BY <1>11 DEF SetPresence
  <2>2. /\ session'[s].mailbox = <<>> /\ session'[s].outbox = S.outbox
        /\ session'[s].through = S.through
        /\ work'[s].preceding = S.mailbox /\ work'[s].backlog = W.backlog /\ ack'[s] = A
    BY <1>0, <1>11, <2>1 DEF SetPresence, SessionStates, WorkStates
  <2>3. PICK mb, ob, pr, th, wm, pd :
          /\ mb = S.mailbox /\ ob = S.outbox /\ th = S.through /\ wm = A.watermark
          /\ pd = A.pending
          /\ AllNamed(mb)' /\ AllNamed(ob)' /\ AllFree(pd)'
          /\ Covers(th, Msgs(ob))' /\ Covers(wm, {})'
          /\ W.backlog # <<>> => Covers(LastSeq(W.backlog), Msgs(W.backlog))
    BY <1>9, <2>1
  <2> QED
    BY <1>3, <1>4, <1>5, <2>2, <2>3
<1>12. CASE Drain(s)
  <2>1. /\ session'[s].mailbox = <<>> /\ session'[s].outbox = S.mailbox
        /\ session'[s].through = S.through /\ S.alive /\ S.outbox = <<>>
        /\ work'[s] = W /\ ack'[s] = A
    BY <1>0, <1>12 DEF Drain, SessionStates
  <2>2. PICK mb, ob, pr, th, wm, pd :
          /\ mb = S.mailbox /\ ob = S.outbox /\ pr = W.preceding
          /\ th = S.through /\ wm = A.watermark /\ pd = A.pending
          /\ AllNamed(mb)' /\ AllNamed(pr)' /\ AllFree(pd)'
          /\ Covers(th, Msgs(ob))' /\ Covers(wm, {})'
          /\ W.backlog # <<>> => Covers(LastSeq(W.backlog), Msgs(W.backlog))
    BY <1>9, <2>1
  <2>3. Covers(th, Msgs(mb))'
    <3>1. Covers(th, {})'
      BY <1>m, <2>1, <2>2
    <3> QED
      BY <3>1 DEF Covers
  <2> QED
    BY <1>3, <1>4, <1>5, <2>1, <2>2, <2>3
<1>13. CASE TakeOutcome(s)
  <2> DEFINE b == W.backlog
  <2>1. /\ session'[s].mailbox = S.mailbox /\ session'[s].outbox = W.preceding \o Pushed(b)
        /\ session'[s].through = IF Pushed(b) = <<>> THEN 0 ELSE b[Len(Pushed(b))].seq
        /\ S.alive /\ S.outbox = <<>> /\ work'[s] = NoWork /\ ack'[s] = A
    BY <1>0, <1>13 DEF TakeOutcome, Pushed, SessionStates
  <2>2. PICK mb, ob, pr, th, wm, pd :
          /\ mb = S.mailbox /\ ob = S.outbox /\ pr = W.preceding
          /\ th = S.through /\ wm = A.watermark /\ pd = A.pending
          /\ AllNamed(mb)' /\ AllNamed(pr)' /\ AllFree(pd)' /\ Covers(wm, {})'
          /\ W.backlog # <<>> => Covers(LastSeq(W.backlog), Msgs(W.backlog))
    BY <1>9, <2>1
  <2>3. /\ Pushed(b) \in Seq(Entries) /\ Len(Pushed(b)) = Len(b) /\ DOMAIN Pushed(b) = DOMAIN b
        /\ \A k \in DOMAIN b : Pushed(b)[k].seq = 0 /\ Pushed(b)[k].msg = b[k].msg
        /\ (Pushed(b) = <<>> <=> b = <<>>)
    BY <1>0, PushedType
  <2>4. PICK c, o, t : /\ c = Pushed(b) /\ o = pr \o c
                       /\ t = IF c = <<>> THEN 0 ELSE b[Len(c)].seq
    OBVIOUS
  <2>5. o \in Seq(Entries) /\ Len(o) = Len(pr) + Len(c) /\ Len(pr) \in Nat /\ Len(c) \in Nat
    BY <1>0, <2>2, <2>3, <2>4
  <2>6. /\ \A k \in DOMAIN o : \/ k \in DOMAIN pr /\ o[k] = pr[k]
                               \/ \E j \in DOMAIN c : o[k] = c[j]
        /\ \A j \in DOMAIN c : \E k \in DOMAIN o : o[k] = c[j]
    <3>1. pr \in Seq(Entries) /\ c \in Seq(Entries) /\ o = pr \o c
      BY <1>0, <2>2, <2>3, <2>4
    <3>2. PICK q \in Seq(Entries), r \in Seq(Entries) : q = pr /\ r = c
      BY <3>1
    <3>3. o = q \o r
      BY <3>1, <3>2
    <3>4. /\ \A k \in DOMAIN o : \/ k \in DOMAIN q /\ o[k] = q[k]
                                 \/ \E j \in DOMAIN r : o[k] = r[j]
          /\ \A j \in DOMAIN r : \E k \in DOMAIN o : o[k] = r[j]
      BY ONLY <3>3, ConcatIndex
    <3> QED
      BY <3>2, <3>4
  <2>7. AllNamed(o)'
    <3>1. \A j \in DOMAIN c : Names(c[j])'
      BY <2>3, <2>4 DEF Names
    <3>2. \A k \in DOMAIN pr : Names(pr[k])'
      BY <2>2 DEF AllNamed
    <3>3. \A k \in DOMAIN o : Names(o[k])'
      BY <2>6, <3>1, <3>2
    <3> QED
      BY <3>3 DEF AllNamed
  <2>8. \A j \in DOMAIN c : c[j].msg \in Msgs(o)
    BY <2>6 DEF Msgs
  <2>9. Covers(t, Msgs(o))'
    <3>1. CASE b = <<>>
      <4>1. t = 0
        BY <2>3, <2>4, <3>1
      <4> QED
        BY <1>3, <4>1
    <3>2. CASE b # <<>>
      <4>1. b[Len(b)] \in Entries
        BY <1>0, <3>2
      <4>2. t = LastSeq(b) /\ t \in Nat
        BY <2>3, <2>4, <3>2, <4>1 DEF LastSeq, Entries
      <4>3. \A m \in Msgs(b) : m \in Msgs(o)
        <5>1. \A k \in DOMAIN b : b[k].msg \in Msgs(o)
          BY <2>3, <2>4, <2>8
        <5> QED
          BY <5>1 DEF Msgs
      <4>4. Covers(t, Msgs(o))
        BY <2>2, <3>2, <4>2, <4>3 DEF Covers
      <4>5. PICK M : M = Msgs(o)
        OBVIOUS
      <4>6. M = Msgs(o)'
        BY <4>5 DEF Msgs
      <4> QED
        BY <1>2, <4>2, <4>4, <4>5, <4>6
    <3> QED
      BY <3>1, <3>2
  <2>10. /\ session'[s].outbox = o /\ session'[s].through = t
         /\ work'[s].preceding = <<>> /\ work'[s].backlog = <<>>
    BY <2>1, <2>2, <2>4 DEF NoWork
  <2> QED
    BY <1>3, <1>4, <2>1, <2>2, <2>7, <2>9, <2>10
<1>14. CASE Flush(s)
  <2> DEFINE out == S.outbox
             seqs == {out[k].seq : k \in DOMAIN out} \ {0}
  <2>1. /\ session'[s].mailbox = S.mailbox /\ session'[s].outbox = <<>>
        /\ session'[s].through = 0 /\ S.alive /\ work'[s] = W
        /\ owed' = owed \ Msgs(out)
        /\ ack'[s] = Acknowledged(A, S.through, seqs)
    BY <1>0, <1>14 DEF Flush, SessionStates
  <2>2. /\ ack'[s].watermark = IF S.through > A.watermark THEN S.through ELSE A.watermark
        /\ ack'[s].pending = A.pending \cup seqs
    BY <1>0, <2>1 DEF Acknowledged, AckStates
  <2>3. PICK mb, ob, pr, th, wm, pd :
          /\ mb = S.mailbox /\ ob = S.outbox /\ pr = W.preceding
          /\ th = S.through /\ wm = A.watermark /\ pd = A.pending
          /\ AllNamed(mb)' /\ AllNamed(ob)' /\ AllNamed(pr)' /\ AllFree(pd)'
          /\ Covers(th, Msgs(ob))' /\ Covers(wm, {})'
          /\ W.backlog # <<>> => Covers(LastSeq(W.backlog), Msgs(W.backlog))
    BY <1>9, <2>1
  <2>4. Covers(th, {})'
    <3>1. PICK M : M = Msgs(ob)
      OBVIOUS
    <3>2. M = Msgs(ob)' /\ owed' = owed \ M
      BY <2>1, <2>3, <3>1 DEF Msgs
    <3>3. Covers(th, M)'
      BY <2>3, <3>2
    <3> QED
      BY <3>2, <3>3 DEF Covers
  <2>5. \E Q : Q = seqs /\ AllFree(pd \cup Q)'
    <3>1. \A k \in DOMAIN ob : ob[k].msg \notin owed'
      BY <2>1, <2>3 DEF Msgs
    <3>2. ASSUME NEW k \in DOMAIN ob, ob[k].seq # 0 PROVE Free(ob[k].seq)'
      <4>1. Names(ob[k])'
        BY <2>3 DEF AllNamed
      <4>2. PICK x, q : x = ob[k] /\ q = ob[k].seq
        OBVIOUS
      <4> QED
        BY <3>1, <3>2, <4>1, <4>2 DEF Names, Free
    <3>3. PICK Q : Q = seqs
      OBVIOUS
    <3>4. \A q \in Q : \E k \in DOMAIN ob : q = ob[k].seq /\ q # 0
      BY <2>3, <3>3
    <3>5. \A q \in pd \cup Q : Free(q)'
      BY <2>3, <3>2, <3>4 DEF AllFree
    <3> QED
      BY <3>3, <3>5 DEF AllFree
  <2>6. PICK Q, w : Q = seqs /\ AllFree(pd \cup Q)' /\ w = IF th > wm THEN th ELSE wm
    BY <2>5
  <2>7. /\ ack'[s].watermark = w /\ ack'[s].pending = pd \cup Q /\ Covers(w, {})'
        /\ work'[s].preceding = pr /\ work'[s].backlog = W.backlog
    BY <2>1, <2>2, <2>3, <2>4, <2>6
  <2>8. Covers(0, Msgs(<<>>))'
    BY <1>3
  <2>9. (W.backlog # <<>> => Covers(LastSeq(W.backlog), Msgs(W.backlog)))'
    BY <1>5, <2>3, <2>7
  <2> QED
    BY <1>3, <1>4, <2>1, <2>3, <2>6, <2>7, <2>8, <2>9
<1> QED
  BY <1>6, <1>7, <1>8, <1>10, <1>11, <1>12, <1>13, <1>14 DEF StreamStep


LEMMA RefStream ==
  ASSUME Control, Control', RefInv, NEW s \in Sessions, StreamStep(s)
  PROVE  RefInv'
<1>1. /\ Steady /\ UNCHANGED <<stored, lastSeq, sender, deletion>> /\ owed' \in SUBSET owed
      /\ \A u \in Sessions : u # s => /\ session'[u] = session[u] /\ work'[u] = work[u]
                                      /\ ack'[u] = ack[u]
  BY StreamSteady DEF Shrinks
<1>2. owed' \subseteq Kept(stored')
  BY <1>1 DEF RefInv
<1>3. \A q \in Senders : sender'[q].pc = "queued" => sender'[q].seq # 0 /\ Names(Recorded(q))'
  BY <1>1 DEF RefInv, Names, Reached, Recorded, Current
<1>4. \A u \in Sessions : session'[u].alive => Releases(u)'
  <2>1. session'[s].alive => Releases(s)'
    BY StreamReleases
  <2>2. \A u \in Sessions : u # s /\ session'[u].alive => Releases(u)'
    BY <1>1, SteadyParts DEF RefInv
  <2> QED
    BY <2>1, <2>2
<1>5. \A u \in Sessions : u # s => Removes(u)'
  BY <1>1 DEF RefInv, Removes
<1>6. Removes(s)'
  <2>0. ack \in [Sessions -> AckStates] /\ ack[s] \in AckStates
    BY DEF Control, Types, Shape
  <2>1. CASE UNCHANGED ack
    BY <1>1, <2>1 DEF RefInv, Removes
  <2>2. CASE Close(s)
    <3>1. ack'[s] = NoAck
      BY <2>0, <2>2 DEF Close
    <3> QED
      BY <3>1 DEF Removes, NoAck
  <2>3. CASE Flush(s)
    <3> DEFINE seqs == {session[s].outbox[k].seq : k \in DOMAIN session[s].outbox} \ {0}
    <3>1. ack'[s] = Acknowledged(ack[s], session[s].through, seqs)
      BY <2>0, <2>3 DEF Flush
    <3> HIDE DEF seqs
    <3>2. /\ ack'[s].replay = "commit" => ack[s].replay = "commit"
          /\ ack'[s].live = "commit" => ack[s].live = "commit"
          /\ ack'[s].through = ack[s].through /\ ack'[s].batch = ack[s].batch
      BY <2>0, <3>1 DEF Acknowledged, AckStates
    <3> QED
      BY <1>1, <3>2 DEF RefInv, Removes
  <2> QED
    BY <2>1, <2>2, <2>3 DEF StreamStep, Register, CompleteBinding, Retire, End, FixPresence,
       SetPresence, DropPresence, TakeOutcome, Drain
<1> QED
  BY <1>2, <1>3, <1>4, <1>5, <1>6 DEF RefInv

LEMMA RefAck ==
  ASSUME Control, RefInv, NEW s \in Sessions, AckStep(s)
  PROVE  RefInv'
<1>0. /\ ack \in [Sessions -> AckStates] /\ ack[s] \in AckStates
      /\ stored \in SUBSET Entries /\ \A e \in stored : e.seq \in Nat
  BY DEF Control, Types, Shape, Entries
<1>1. /\ UNCHANGED <<lastSeq, sender, session, work, deletion, owed>> /\ stored' \in SUBSET stored
      /\ \A u \in Sessions : u # s => ack'[u] = ack[u]
  BY <1>0 DEF AckStep, AckBegin, AckFails, CommitReplay, CommitLive, admin, history
<1>2. Steady
  <2>1. Shrinks
    BY <1>1 DEF Shrinks
  <2> QED
    BY <2>1, ShrinkSteady
<1>3. owed' \subseteq Kept(stored')
  <2> SUFFICES ASSUME NEW e \in stored, e.msg \in owed
               PROVE  e \in stored'
    BY <1>1 DEF RefInv, Kept
  <2>1. Removes(s)
    BY DEF RefInv
  <2>2. CASE CommitReplay(s)
    BY <1>0, <2>1, <2>2 DEF CommitReplay, Removes, AckStates
  <2>3. CASE CommitLive(s)
    BY <2>1, <2>3 DEF CommitLive, Removes
  <2> QED
    BY <2>2, <2>3 DEF AckStep, AckBegin, AckFails
<1>4. \A q \in Senders : sender'[q].pc = "queued" => sender'[q].seq # 0 /\ Names(Recorded(q))'
  BY <1>1 DEF RefInv, Names, Reached, Recorded, Current
<1>5. /\ ack'[s].watermark = ack[s].watermark
      /\ ack'[s].pending = ack[s].pending \/ ack'[s].pending = {}
  <2>1. ASSUME NEW kind \in {"replay", "live"}, AckBegin(s, kind) \/ AckFails(s, kind)
        PROVE  /\ ack'[s].watermark = ack[s].watermark
               /\ ack'[s].pending = ack[s].pending \/ ack'[s].pending = {}
    <3>1. CASE ack'[s] = Idle(ack[s], kind)
      BY <1>0, <3>1 DEF Idle, AckStates
    <3>2. CASE ack'[s] = Taken(ack[s], kind)
      BY <1>0, <3>2 DEF Taken, AckStates
    <3>3. CASE AckFails(s, kind)
      BY <1>0, <3>3 DEF AckFails, AckStates
    <3> QED
      BY <1>0, <2>1, <3>1, <3>2, <3>3 DEF AckBegin
  <2>2. CASE CommitReplay(s) \/ CommitLive(s)
    BY <1>0, <2>2 DEF CommitReplay, CommitLive, AckStates
  <2> QED
    BY <2>1, <2>2 DEF AckStep
<1>6. \A u \in Sessions : session'[u].alive => Releases(u)'
  <2>1. \A u \in Sessions : u # s /\ session'[u].alive => Releases(u)'
    BY <1>1, <1>2, SteadyParts DEF RefInv
  <2>2. ASSUME session[s].alive PROVE Releases(s)'
    <3>0. Releases(s)
      BY <2>2 DEF RefInv
    <3>1. /\ session[s].mailbox \in Seq(Entries) /\ session[s].outbox \in Seq(Entries)
          /\ work[s].preceding \in Seq(Entries) /\ work[s].backlog \in Seq(Entries)
          /\ session[s].through \in Nat /\ ack[s].watermark \in Nat
          /\ ack[s].pending \in SUBSET Nat
      BY DEF Control, Types, Shape, SessionStates, WorkStates, AckStates
    <3>2. AllNamed(session[s].mailbox)' /\ AllNamed(session[s].outbox)' /\ AllNamed(work[s].preceding)'
      BY <1>1, <1>2, <3>0, <3>1, SteadyParts DEF Releases
    <3>3. AllFree(ack[s].pending)'
      <4>1. PICK Q : Q = ack[s].pending
        OBVIOUS
      <4>2. AllFree(Q)'
        BY <1>2, <3>0, <3>1, <4>1, SteadyParts DEF Releases
      <4> QED
        BY <1>5, <4>1, <4>2 DEF AllFree
    <3>4. Covers(session[s].through, Msgs(session[s].outbox))' /\ Covers(ack[s].watermark, {})'
      <4>1. PICK M, t, w : /\ M = Msgs(session[s].outbox) /\ t = session[s].through
                           /\ w = ack[s].watermark
        OBVIOUS
      <4>2. M = Msgs(session[s].outbox)' /\ t = session'[s].through /\ w = ack'[s].watermark
        BY <1>1, <1>5, <4>1 DEF Msgs
      <4>3. Covers(t, M)' /\ Covers(w, {})'
        BY <1>2, <3>0, <3>1, <4>1 DEF Releases, Steady
      <4> QED
        BY <4>2, <4>3
    <3>5. (work[s].backlog # <<>> => Covers(LastSeq(work[s].backlog), Msgs(work[s].backlog)))'
      <4>1. PICK M, l : M = Msgs(work[s].backlog) /\ l = LastSeq(work[s].backlog)
        OBVIOUS
      <4>2. M = Msgs(work[s].backlog)' /\ l = LastSeq(work[s].backlog)'
        BY <1>1, <4>1 DEF Msgs, LastSeq
      <4>3. work[s].backlog # <<>> => l \in Nat
        <5>1. work[s].backlog # <<>> => work[s].backlog[Len(work[s].backlog)] \in Entries
          BY <3>1
        <5> QED
          BY <4>1, <5>1 DEF LastSeq, Entries
      <4> QED
        BY <1>1, <1>2, <3>0, <4>1, <4>2, <4>3 DEF Releases, Steady
    <3> QED
      BY <3>2, <3>3, <3>4, <3>5 DEF Releases
  <2> QED
    BY <1>1, <2>1, <2>2
<1>7. \A u \in Sessions : u # s => Removes(u)'
  BY <1>1 DEF RefInv, Removes
<1>8. Removes(s)'
  <2>1. Removes(s)
    BY DEF RefInv
  <2>2. ASSUME NEW kind \in {"replay", "live"}, AckBegin(s, kind)
        PROVE  Removes(s)'
    <3>0. UNCHANGED stored
      BY <2>2 DEF AckBegin
    <3>1. CASE ack'[s] = Idle(ack[s], kind)
      <4>1. /\ ack'[s].replay = "commit" => ack[s].replay = "commit"
            /\ ack'[s].live = "commit" => ack[s].live = "commit"
            /\ ack'[s].through = ack[s].through /\ ack'[s].batch = ack[s].batch
        BY <1>0, <2>2, <3>1 DEF Idle, AckStates
      <4> QED
        BY <1>1, <2>1, <3>0, <4>1 DEF Removes
    <3>2. CASE session[s].alive /\ ack'[s] = Taken(ack[s], kind)
      <4>1. Covers(ack[s].watermark, {}) /\ AllFree(ack[s].pending)
        BY <3>2 DEF RefInv, Releases
      <4>2. \/ /\ ack'[s].through = ack[s].watermark
               /\ ack'[s].live = ack[s].live /\ ack'[s].batch = ack[s].batch
            \/ /\ ack'[s].batch = ack[s].pending
               /\ ack'[s].replay = ack[s].replay /\ ack'[s].through = ack[s].through
        BY <1>0, <2>2, <3>2 DEF Taken, AckStates
      <4> QED
        BY <1>1, <2>1, <3>0, <4>1, <4>2 DEF Removes, Covers, AllFree, Free
    <3> QED
      BY <1>0, <2>2, <3>1, <3>2 DEF AckBegin
  <2>3. ASSUME NEW kind \in {"replay", "live"}, AckFails(s, kind)
        PROVE  Removes(s)'
    <3>1. /\ ack'[s].replay = "commit" => /\ ack[s].replay = "commit"
                                          /\ ack'[s].through = ack[s].through
          /\ ack'[s].live = "commit" => /\ ack[s].live = "commit"
                                        /\ ack'[s].batch = ack[s].batch
      BY <1>0, <2>3 DEF AckFails, AckStates
    <3> QED
      BY <1>1, <2>1, <3>1 DEF Removes
  <2>4. CASE CommitReplay(s)
    <3>1. /\ ack'[s].replay # "commit" /\ ack'[s].live = ack[s].live
          /\ ack'[s].batch = ack[s].batch
      BY <1>0, <2>4 DEF CommitReplay, AckStates
    <3> QED
      BY <1>1, <2>1, <3>1 DEF Removes
  <2>5. CASE CommitLive(s)
    <3>1. /\ ack'[s].live # "commit" /\ ack'[s].replay = ack[s].replay
          /\ ack'[s].through = ack[s].through
      BY <1>0, <2>5 DEF CommitLive, AckStates
    <3> QED
      BY <1>1, <2>1, <3>1 DEF Removes
  <2> QED
    BY <2>2, <2>3, <2>4, <2>5 DEF AckStep
<1> QED
  BY <1>3, <1>4, <1>6, <1>7, <1>8 DEF RefInv

LEMMA RefDeletion ==
  ASSUME Control, RefInv, DeletionStep
  PROVE  RefInv'
<1>0. UNCHANGED <<sender, work, ack>> /\ session \in [Sessions -> SessionStates]
  BY DEF DeletionStep, DeleteBegin, DeleteCommit, DeleteFails, DeleteRetire, Create,
     Control, Types, Shape
<1>1. CASE DeleteCommit
  <2>1. /\ stored' = {} /\ owed' = {} /\ UNCHANGED session /\ deletion' = "queued" /\ Steady
    BY <1>1, DeleteSteady DEF DeleteCommit
  <2>2. \A s \in Sessions : session'[s].alive => Releases(s)'
    BY <1>0, <2>1, SteadyParts DEF RefInv
  <2> QED
    BY <1>0, <2>1, <2>2 DEF RefInv, Removes, Names, Reached, Recorded, Current
<1>2. CASE DeleteRetire
  <2>1. /\ UNCHANGED <<stored, owed>> /\ \A s \in Sessions : ~session'[s].alive
    BY <1>0, <1>2 DEF DeleteRetire, SessionStates, storage, history
  <2>2. \A p \in Senders : sender[p].pc # "queued"
    BY <1>2, LineDeletion DEF Control
  <2> QED
    BY <1>0, <2>1, <2>2 DEF RefInv, Removes
<1>3. CASE ~DeleteCommit /\ ~DeleteRetire
  <2>1. /\ UNCHANGED <<stored, owed, lastSeq, session>>
        /\ (deletion' = "queued" <=> deletion = "queued")
    BY <1>3 DEF DeletionStep, DeleteBegin, DeleteFails, Create, history, admin
  <2>2. Steady
    <3>1. Shrinks
      BY <2>1 DEF Shrinks
    <3> QED
      BY <3>1, ShrinkSteady
  <2>3. \A s \in Sessions : session'[s].alive => Releases(s)'
    BY <1>0, <2>1, <2>2, SteadyParts DEF RefInv
  <2> QED
    BY <1>0, <2>1, <2>3 DEF RefInv, Removes, Names, Reached, Recorded, Current
<1> QED
  BY <1>1, <1>2, <1>3


-----------------------------------------------------------------------------
(* KeptUntilFlushed *)

LEMMA BoundedStep ==
  ASSUME Control, Bounded, Next
  PROVE  Bounded'
<1>0. session \in [Sessions -> SessionStates] /\ 0 <= Capacity
  BY OfflineAssumption DEF Control, Types, Shape
<1>1. ASSUME NEW p \in Senders, SenderStep(p) PROVE Bounded'
  <2>1. CASE UNCHANGED session
    BY <2>1 DEF Bounded
  <2>2. ASSUME NEW s \in Sessions, NEW x, TakenBy(s, x) PROVE Bounded'
    <3>1. /\ \A u \in Sessions : u # s => session'[u] = session[u]
          /\ session'[s].mailbox = Append(session[s].mailbox, x)
      BY <2>2, TakenByFrame DEF Control
    <3>2. PICK q \in Seq(Entries) : q = session[s].mailbox
      BY <1>0 DEF SessionStates
    <3>3. Len(Append(q, x)) = Len(q) + 1 /\ Len(q) \in Nat
      OBVIOUS
    <3>4. Len(session'[s].mailbox) <= Capacity
      BY <2>2, <3>1, <3>2, <3>3, OfflineAssumption DEF TakenBy
    <3> QED
      BY <3>1, <3>4 DEF Bounded
  <2> QED
    BY <1>1, <2>1, <2>2, RouteCases, RerouteCases DEF SenderStep, Store, CommitStore,
       CommitStoreFails, Unanswered, Refused
<1>2. ASSUME NEW s \in Sessions, StreamStep(s) PROVE Bounded'
  <2>1. \A u \in Sessions : u # s => session'[u] = session[u]
    BY <1>2, StreamSteady
  <2>2. session'[s].mailbox = session[s].mailbox \/ session'[s].mailbox = <<>>
    <3>1. CASE Register(s)
      BY <1>0, <3>1 DEF Register, NoSession
    <3>6. CASE CompleteBinding(s)
      <4>1. session'[s] = [session[s] EXCEPT !.pc = "bound"] \/ session'[s] = NoSession
        BY <1>0, <3>6 DEF CompleteBinding
      <4>2. [session[s] EXCEPT !.pc = "bound"].mailbox = session[s].mailbox
        BY <1>0 DEF SessionStates
      <4>3. NoSession.mailbox = <<>>
        BY DEF NoSession
      <4> QED
        BY <4>1, <4>2, <4>3
    <3>5. CASE End(s) \/ Close(s)
      <4>1. session'[s] = [NoSession EXCEPT !.pc = "ended"] \/ session'[s] = NoSession
        BY <1>0, <3>5 DEF End, Close
      <4> QED
        BY <4>1 DEF NoSession
    <3>2. CASE Retire(s) \/ FixPresence(s) \/ DropPresence(s) \/ Drain(s) \/ Flush(s)
      BY <1>0, <3>2 DEF Retire, FixPresence, DropPresence, Drain, Flush, SessionStates
    <3>3. CASE SetPresence(s)
      BY <1>0, <3>3 DEF SetPresence, SessionStates
    <3>4. CASE TakeOutcome(s)
      BY <1>0, <3>4 DEF TakeOutcome, SessionStates
    <3> QED
      BY <1>2, <3>1, <3>2, <3>3, <3>4, <3>5, <3>6 DEF StreamStep
  <2>3. Len(<<>>) <= Capacity
    BY <1>0
  <2>4. Len(session'[s].mailbox) <= Capacity
    BY <2>2, <2>3 DEF Bounded
  <2> QED
    BY <2>1, <2>4 DEF Bounded
<1>3. ASSUME NEW s \in Sessions, AckStep(s) PROVE Bounded'
  BY <1>3 DEF Bounded, AckStep, AckBegin, AckFails, CommitReplay, CommitLive
<1>4. CASE DeletionStep
  <2>1. CASE UNCHANGED session
    BY <2>1 DEF Bounded
  <2>2. CASE DeleteRetire
    <3>1. \A s \in Sessions : session'[s].mailbox = session[s].mailbox
      BY <1>0, <2>2 DEF DeleteRetire, SessionStates
    <3> QED
      BY <3>1 DEF Bounded
  <2> QED
    BY <1>4, <2>1, <2>2 DEF DeletionStep, DeleteBegin, DeleteCommit, DeleteFails, Create
<1> QED
  BY <1>1, <1>2, <1>3, <1>4 DEF Next

LEMMA ControlStep ==
  ASSUME Control, Next
  PROVE  Control'
<1>1. ASSUME NEW p \in Senders, SenderStep(p) PROVE Control'
  BY <1>1, TypesSender, WriterSender, TableSender, LineSender, SessionSender DEF Control
<1>2. ASSUME NEW s \in Sessions, StreamStep(s) PROVE Control'
  BY <1>2, TypesStream, WriterStream, TableRest, LineStream, SessionStream DEF Control
<1>3. ASSUME NEW s \in Sessions, AckStep(s) PROVE Control'
  BY <1>3, TypesAck, WriterAck, TableRest, LineAck, SessionAck DEF Control
<1>4. CASE DeletionStep
  BY <1>4, TypesDeletion, WriterDeletion, TableRest, LineDeletion, SessionDeletion DEF Control
<1> QED
  BY <1>1, <1>2, <1>3, <1>4 DEF Next

\* What keeps a stored message: the inductive invariant of KeptUntilFlushed.
KeepingInv == Control /\ Bounded /\ RefInv

LEMMA KeepingInit ==
  ASSUME Init
  PROVE  KeepingInv
<1>1. Shape
  <2>1. [pc |-> "ready", n |-> 1, seq |-> 0] \in SenderStates
    BY OfflineAssumption DEF SenderStates
  <2>2. <<>> \in Seq(Entries) /\ <<>> \in Seq(Messages) /\ <<>> \in Seq(Tasks)
    OBVIOUS
  <2>3. NoSession \in SessionStates /\ NoWork \in WorkStates /\ NoAck \in AckStates
    BY EmptyTypes
  <2>4. IsFiniteSet({})
    BY FS_EmptySet
  <2> QED
    BY <2>1, <2>2, <2>3, <2>4 DEF Init, Shape
<1>2. Sending /\ WriterInv /\ LineInv
  BY DEF Init, Sending, WriterInv, LineInv, NoWork, NoAck
<1>3. TableInv
  <2>1. Cardinality({}) <= Quota
    BY FS_EmptySet, OfflineAssumption
  <2> QED
    BY <2>1 DEF Init, TableInv
<1>4. SessionInv
  BY DEF Init, SessionInv, SessionShape, NoSession, NoWork, NoAck
<1>5. Bounded
  BY OfflineAssumption DEF Init, Bounded, NoSession
<1>6. RefInv
  BY DEF Init, RefInv, Kept, Removes, NoSession, NoAck
<1> QED
  BY <1>1, <1>2, <1>3, <1>4, <1>5, <1>6 DEF KeepingInv, Control, Types

LEMMA KeepingStep ==
  ASSUME KeepingInv, [Next]_vars
  PROVE  KeepingInv'
<1>1. CASE Next
  <2>1. Control'
    BY <1>1, ControlStep DEF KeepingInv
  <2>2. Bounded'
    BY <1>1, BoundedStep DEF KeepingInv
  <2>3. RefInv'
    BY <1>1, <2>1, RefSender, RefStream, RefAck, RefDeletion DEF KeepingInv, Next
  <2> QED
    BY <2>1, <2>2, <2>3 DEF KeepingInv
<1>2. CASE UNCHANGED vars
  <2>1. Control'
    BY <1>2 DEF vars, KeepingInv, Control, Types, Shape, Sending, WriterInv, TableInv, LineInv,
       SessionInv, SessionShape, Attends, InLine, AtHead, Settled, Past
  <2>2. Bounded' /\ RefInv'
    BY <1>2 DEF vars, KeepingInv, Bounded, RefInv, Releases, Removes, AllNamed, AllFree, Names,
       Covers, Free, Reached, Recorded, Current, Msgs, LastSeq
  <2> QED
    BY <2>1, <2>2 DEF KeepingInv
<1> QED
  BY <1>1, <1>2

LEMMA KeepingAlways == Spec => []KeepingInv
BY KeepingInit, KeepingStep, PTL DEF Spec

(* A message accepted for storage is in storage until it was flushed to a  *)
(* client or was deleted with the account, whatever acknowledgements,      *)
(* deletions and recreations come between; storage keeps to its quota and  *)
(* mailboxes to their capacity. It rests on what a sequence stands for: no *)
(* session that lives, and no removal under way, has a sequence under      *)
(* which the table holds a message that is still owed.                     *)
THEOREM KeptTheorem == Spec => []KeptUntilFlushed
<1>1. KeepingInv => KeptUntilFlushed
  BY DEF KeepingInv, Control, Types, TableInv, Bounded, RefInv, TypeOK, KeptUntilFlushed
<1> QED
  BY <1>1, KeepingAlways, PTL


-----------------------------------------------------------------------------
(* SenderOrder *)

LEMMA AheadAppend ==
  ASSUME Types, NEW t, line' = Append(line, t)
  PROVE  /\ \A a, b : Ahead(a, b) => Ahead(a, b)'
         /\ \A a : InLine(a) => Ahead(a, t)'
<1>1. line \in Seq(Tasks)
  BY DEF Types, Shape
<1>2. /\ Len(line) \in Nat /\ DOMAIN line' = 1 .. Len(line) + 1 /\ DOMAIN line = 1 .. Len(line)
      /\ \A k \in DOMAIN line : k \in DOMAIN line' /\ line'[k] = line[k]
      /\ line'[Len(line) + 1] = t
  BY <1>1, AppendIndex
<1>3. \A a, b : Ahead(a, b) => Ahead(a, b)'
  BY <1>2 DEF Ahead
<1>4. ASSUME NEW a, InLine(a) PROVE Ahead(a, t)'
  <2>1. PICK k \in DOMAIN line : line[k] = a
    BY <1>4 DEF InLine
  <2>2. /\ k \in DOMAIN line' /\ line'[k] = a /\ Len(line) + 1 \in DOMAIN line'
        /\ k < Len(line) + 1 /\ line'[Len(line) + 1] = t
    BY <1>2, <2>1
  <2> QED
    BY <2>2 DEF Ahead
<1> QED
  BY <1>3, <1>4

LEMMA AheadTail ==
  ASSUME Types, line # <<>>, line' = Tail(line)
  PROVE  \A a, b : Ahead(a, b) /\ a # line[1] => Ahead(a, b)'
<1>1. line \in Seq(Tasks)
  BY DEF Types, Shape
<1>2. /\ DOMAIN line \in SUBSET Nat /\ 0 \notin DOMAIN line
      /\ \A k \in DOMAIN line : k # 1 => k - 1 \in DOMAIN line' /\ line'[k - 1] = line[k]
  BY <1>1, TailIndex
<1>3. ASSUME NEW a, NEW b, Ahead(a, b), a # line[1] PROVE Ahead(a, b)'
  <2>1. PICK j \in DOMAIN line, k \in DOMAIN line : j < k /\ line[j] = a /\ line[k] = b
    BY <1>3 DEF Ahead
  <2>2. j # 1 /\ k # 1 /\ j - 1 < k - 1
    BY <1>2, <1>3, <2>1
  <2>3. /\ j - 1 \in DOMAIN line' /\ k - 1 \in DOMAIN line'
        /\ line'[j - 1] = a /\ line'[k - 1] = b
    BY <1>2, <2>1, <2>2
  <2> QED
    BY <2>2, <2>3 DEF Ahead
<1> QED
  BY <1>3

\* Nothing is ahead of the head.
LEMMA NothingAhead ==
  ASSUME Types, LineInv, NEW a, line # <<>>
  PROVE  ~Ahead(a, line[1])
<1>1. line \in Seq(Tasks)
  BY DEF Types, Shape
<1>2. 1 \in DOMAIN line /\ DOMAIN line \in SUBSET Nat /\ 0 \notin DOMAIN line
  BY <1>1, TailIndex
<1> QED
  BY <1>2 DEF Ahead, LineInv

LEMMA EmptySorted ==
  Sorted(<<>>) /\ Msgs(<<>>) = {}
BY DEF Sorted, Msgs

\* How the parts of a chain move on: to the stream, to the outbox, to the
\* client, and behind a backlog.
LEMMA ChainMoves ==
  ASSUME NEW sh, NEW ob, NEW pr, NEW mb, Chain(sh, ob, pr, mb)
  PROVE  /\ Chain(sh, ob, mb, <<>>)
         /\ Chain(sh, mb, <<>>, <<>>)
         /\ Chain(sh, pr, <<>>, mb)
         /\ Chain(sh, ob, <<>>, mb)
         /\ \A t : t \in SUBSET (sh \cup Msgs(ob)) =>
              Chain(t, <<>>, pr, mb) /\ Chain(t, <<>>, pr, <<>>)
         /\ \A q : Sorted(q) /\ AllPast(Msgs(q)) /\ AllBefore(Msgs(q), Msgs(mb))
              => Chain({}, q, <<>>, mb)
<1>1. Sorted(<<>>) /\ Msgs(<<>>) = {}
  BY EmptySorted
<1>2. /\ Chain(sh, ob, mb, <<>>) /\ Chain(sh, mb, <<>>, <<>>)
  BY <1>1 DEF Chain, AllPast, AllBefore
<1>3. Chain(sh, pr, <<>>, mb) /\ Chain(sh, ob, <<>>, mb)
  BY <1>1 DEF Chain, AllPast, AllBefore
<1>4. ASSUME NEW t \in SUBSET (sh \cup Msgs(ob))
      PROVE  Chain(t, <<>>, pr, mb) /\ Chain(t, <<>>, pr, <<>>)
  BY <1>1, <1>4 DEF Chain, AllPast, AllBefore
<1>5. ASSUME NEW q, Sorted(q), AllPast(Msgs(q)), AllBefore(Msgs(q), Msgs(mb))
      PROVE  Chain({}, q, <<>>, mb)
  BY <1>1, <1>5 DEF Chain, AllPast, AllBefore
<1> QED
  BY <1>2, <1>3, <1>4, <1>5

LEMMA ChainKept ==
  ASSUME NEW sh \in SUBSET Messages, NEW ob \in Seq(Entries), NEW pr \in Seq(Entries),
         NEW mb \in Seq(Entries), Chain(sh, ob, pr, mb),
         \A m \in Messages : Past(m) => Past(m)'
  PROVE  Chain(sh, ob, pr, mb)'
<1>1. PICK a, b, c : a = Msgs(ob) /\ b = Msgs(pr) /\ c = Msgs(mb)
  OBVIOUS
<1>2. a = Msgs(ob)' /\ b = Msgs(pr)' /\ c = Msgs(mb)'
  BY <1>1 DEF Msgs
<1>3. a \in SUBSET Messages /\ b \in SUBSET Messages /\ c \in SUBSET Messages
  BY <1>1, MsgsType
<1>4. AllPast(sh \cup a \cup b \cup c)'
  BY <1>1, <1>3 DEF Chain, AllPast
<1>5. Sorted(ob)' /\ Sorted(pr)' /\ Sorted(mb)'
  BY DEF Chain, Sorted, Before
<1>6. /\ AllBefore(sh, a \cup b \cup c)' /\ AllBefore(a, b \cup c)' /\ AllBefore(b, c)'
  BY <1>1 DEF Chain, AllBefore, Before
<1> QED
  BY <1>2, <1>4, <1>5, <1>6 DEF Chain

LEMMA AppendMsgs ==
  ASSUME NEW q \in Seq(Entries), NEW x \in Entries
  PROVE  Msgs(Append(q, x)) = Msgs(q) \cup {x.msg} /\ Append(q, x) \in Seq(Entries)
<1>1. /\ Len(q) \in Nat /\ DOMAIN Append(q, x) = 1 .. Len(q) + 1 /\ DOMAIN q = 1 .. Len(q)
      /\ \A k \in DOMAIN q : k \in DOMAIN Append(q, x) /\ Append(q, x)[k] = q[k]
      /\ Append(q, x)[Len(q) + 1] = x
      /\ \A k \in DOMAIN Append(q, x) : k \in DOMAIN q \/ k = Len(q) + 1
      /\ Append(q, x) \in Seq(Entries)
  BY AppendIndex
<1>2. PICK r : r = Append(q, x)
  OBVIOUS
<1>3. Len(q) + 1 \in DOMAIN r
  BY <1>1, <1>2
<1>4. Msgs(r) = Msgs(q) \cup {x.msg}
  BY <1>1, <1>2, <1>3 DEF Msgs
<1> QED
  BY <1>1, <1>2, <1>4

\* What a sender has just sent comes after all it sent before.
LEMMA PastBefore ==
  ASSUME NEW p \in Senders, NEW A, AllPast(A)
  PROVE  AllBefore(A, {Current(p)})
BY DEF AllPast, AllBefore, Before, Past, Current

LEMMA ChainAppend ==
  ASSUME NEW sh \in SUBSET Messages, NEW ob \in Seq(Entries), NEW pr \in Seq(Entries),
         NEW mb \in Seq(Entries), NEW x \in Entries, NEW p \in Senders, x.msg = Current(p),
         Chain(sh, ob, pr, mb), Past(x.msg)',
         \A m \in Messages : Past(m) => Past(m)'
  PROVE  Chain(sh, ob, pr, Append(mb, x))'
<1>0. Chain(sh, ob, pr, mb)'
  BY ChainKept
<1>r. PICK r \in Seq(Entries) : r = Append(mb, x)
  BY AppendMsgs
<1>n. PICK n : n = x.msg
  OBVIOUS
<1>1. r = Append(mb, x) /\ n = x.msg
  BY <1>r, <1>n
<1>2. Msgs(r) = Msgs(mb) \cup {n}
  BY <1>1, AppendMsgs
<1>3. /\ Msgs(r)' = Msgs(r) /\ Msgs(mb)' = Msgs(mb) /\ Msgs(ob)' = Msgs(ob)
      /\ Msgs(pr)' = Msgs(pr)
  BY DEF Msgs
<1>4. PICK a, b, c : a = Msgs(ob) /\ b = Msgs(pr) /\ c = Msgs(mb)
  OBVIOUS
<1>5. AllBefore(sh \cup a \cup b \cup c, {n})
  BY <1>1, <1>4, PastBefore DEF Chain
<1>6. AllBefore(sh, a \cup b \cup (c \cup {n}))' /\ AllBefore(a, b \cup (c \cup {n}))'
        /\ AllBefore(b, c \cup {n})'
  BY <1>4, <1>5 DEF Chain, AllBefore, Before
<1>7. AllPast(sh \cup a \cup b \cup (c \cup {n}))'
  BY <1>0, <1>1, <1>3, <1>4 DEF Chain, AllPast
<1>8. Sorted(r)'
  <2> SUFFICES ASSUME NEW j \in DOMAIN r, NEW k \in DOMAIN r, j < k
               PROVE  Before(r[j].msg, r[k].msg)
    BY DEF Sorted, Before
  <2>1. /\ Len(mb) \in Nat /\ DOMAIN r = 1 .. Len(mb) + 1 /\ DOMAIN mb = 1 .. Len(mb)
        /\ \A i \in DOMAIN mb : r[i] = mb[i]
        /\ r[Len(mb) + 1] = x
    BY <1>1, AppendIndex
  <2>2. j \in DOMAIN mb /\ r[j] = mb[j]
    BY <2>1
  <2>3. CASE k \in DOMAIN mb
    BY <2>1, <2>2, <2>3 DEF Chain, Sorted
  <2>4. CASE k = Len(mb) + 1
    <3>1. r[j].msg \in c /\ r[k].msg = n
      BY <1>1, <1>4, <2>1, <2>2, <2>4 DEF Msgs
    <3> QED
      BY <1>5, <3>1 DEF AllBefore
  <2> QED
    BY <2>1, <2>3, <2>4
<1>9. Sorted(ob)' /\ Sorted(pr)'
  BY <1>0 DEF Chain
<1> QED
  BY <1>1, <1>2, <1>3, <1>4, <1>6, <1>7, <1>8, <1>9 DEF Chain


LEMMA QueueTypes ==
  ASSUME Types, NEW s \in Sessions
  PROVE  /\ Shown(s) \in SUBSET Messages
         /\ session[s].outbox \in Seq(Entries) /\ session[s].mailbox \in Seq(Entries)
         /\ work[s].preceding \in Seq(Entries) /\ work[s].backlog \in Seq(Entries)
         /\ seen[s] \in Seq(Messages) /\ session[s].priority \in Priorities
<1>1. /\ session[s].outbox \in Seq(Entries) /\ session[s].mailbox \in Seq(Entries)
      /\ work[s].preceding \in Seq(Entries) /\ work[s].backlog \in Seq(Entries)
      /\ seen[s] \in Seq(Messages) /\ session[s].priority \in Priorities
  BY DEF Types, Shape, SessionStates, WorkStates
<1>2. \A k \in DOMAIN seen[s] : seen[s][k] \in Messages
  BY <1>1
<1> QED
  BY <1>1, <1>2 DEF Shown

\* A backlog stays in order when its session and the senders go on as follows.
LEMMA BacklogKept ==
  ASSUME Types, NEW s \in Sessions, BacklogOrder(s),
         work'[s].backlog = work[s].backlog, work'[s].preceding = work[s].preceding,
         work'[s].pc = "fixed" <=> work[s].pc = "fixed",
         work[s].backlog # <<>> => session'[s].outbox = <<>>,
         work[s].backlog # <<>> /\ work[s].pc = "fixed" => session'[s].priority = "none",
         \A m \in Messages : (Past(m) => Past(m)') /\ (Settled(m) => Settled(m)'),
         work[s].backlog # <<>> /\ work[s].pc = "fixed" =>
           \A p \in Senders :
             sender'[p].pc = "queued" /\ Current(p)' \in Msgs(work[s].backlog) =>
               Ahead(<<"store", p>>, <<"presence", s>>)',
         work[s].backlog # <<>> /\ work[s].pc # "fixed" =>
           AllBefore(Msgs(work[s].backlog), Msgs(session'[s].mailbox))
  PROVE  BacklogOrder(s)'
<1>1. PICK b, M : b = work[s].backlog /\ M = Msgs(b)
  OBVIOUS
<1>2. work'[s].backlog = b /\ M = Msgs(work[s].backlog)' /\ M = Msgs(work[s].backlog)
  BY <1>1 DEF Msgs
<1>3. M \in SUBSET Messages
  BY <1>1, QueueTypes, MsgsType
<1>4. Sorted(work[s].backlog)'
  BY DEF BacklogOrder, Sorted, Before
<1>5. b # <<>> /\ work[s].pc = "fixed" => \A m \in M : Settled(m)'
  BY <1>1, <1>3 DEF BacklogOrder
<1>6. b # <<>> /\ work[s].pc # "fixed" => AllPast(M)'
  BY <1>1, <1>3 DEF BacklogOrder, AllPast
<1>7. b # <<>> /\ work[s].pc # "fixed" =>
        AllBefore(Msgs(work[s].backlog), Msgs(session[s].mailbox))'
  BY <1>1 DEF AllBefore, Before, Msgs
<1>8. b # <<>> => session'[s].outbox = <<>> /\ work'[s].preceding = <<>>
  BY <1>1 DEF BacklogOrder
<1>9. b # <<>> /\ work[s].pc = "fixed" =>
        \A p \in Senders : sender'[p].pc = "queued" /\ Current(p)' \in M =>
          Ahead(<<"store", p>>, <<"presence", s>>)'
  BY <1>1
<1>10. work'[s].backlog # <<>> /\ work'[s].pc = "fixed" =>
         /\ session'[s].priority = "none"
         /\ \A m \in Msgs(work[s].backlog)' : Settled(m)'
         /\ \A p \in Senders :
              sender'[p].pc = "queued" /\ Current(p)' \in Msgs(work[s].backlog)' =>
                Ahead(<<"store", p>>, <<"presence", s>>)'
  BY <1>1, <1>2, <1>5, <1>9
<1>11. work'[s].backlog # <<>> /\ work'[s].pc # "fixed" =>
         /\ AllPast(Msgs(work[s].backlog))'
         /\ AllBefore(Msgs(work[s].backlog), Msgs(session[s].mailbox))'
  BY <1>1, <1>2, <1>6, <1>7
<1> QED
  BY <1>1, <1>2, <1>4, <1>8, <1>10, <1>11 DEF BacklogOrder

\* The chain of a session that a step leaves as it is.
LEMMA ChainFrame ==
  ASSUME Types, NEW s \in Sessions, \A m \in Messages : Past(m) => Past(m)',
         Chain(Shown(s), session[s].outbox, work[s].preceding, session[s].mailbox),
         seen'[s] = seen[s], session'[s].outbox = session[s].outbox,
         work'[s].preceding = work[s].preceding, session'[s].mailbox = session[s].mailbox
  PROVE  Chain(Shown(s), session[s].outbox, work[s].preceding, session[s].mailbox)'
<1>1. PICK sh \in SUBSET Messages, ob \in Seq(Entries), pr \in Seq(Entries),
           mb \in Seq(Entries) :
        sh = Shown(s) /\ ob = session[s].outbox /\ pr = work[s].preceding /\ mb = session[s].mailbox
  BY QueueTypes
<1>2. Chain(sh, ob, pr, mb)'
  BY <1>1, ChainKept
<1>3. sh = Shown(s)'
  BY <1>1 DEF Shown
<1> QED
  BY <1>1, <1>2, <1>3

LEMMA SortSender ==
  ASSUME Control, SortInv, NEW p \in Senders, SenderStep(p)
  PROVE  SortInv'
<1>t. Types /\ WriterInv /\ TableInv /\ LineInv /\ SessionInv
  BY DEF Control
<1>0. UNCHANGED <<work, seen>>
  BY RouteCases, RerouteCases DEF SenderStep, Store, CommitStore, CommitStoreFails, history
<1>1. \A m \in Messages : (Past(m) => Past(m)') /\ (Settled(m) => Settled(m)')
  BY <1>t, SenderKeepsSettled
<1>2. \A e, f \in stored' : e.seq < f.seq => Before(e.msg, f.msg)'
  <2>1. CASE CommitStore(p)
    <3>1. PICK x : x = Recorded(p)
      OBVIOUS
    <3>2. /\ stored' = stored \cup {x} /\ x.seq = lastSeq + 1 /\ x.msg = Current(p)
          /\ lastSeq \in Nat /\ sender[p].pc = "writing"
      BY <1>t, <2>1, <3>1 DEF CommitStore, Recorded, WriterInv, Types, Shape
    <3>3. \A e \in stored : e.seq \in Nat /\ e.seq <= lastSeq /\ Settled(e.msg)
      BY <1>t DEF TableInv, Types, Shape, Entries
    <3>4. \A e \in stored : Before(e.msg, x.msg)
      BY <3>2, <3>3 DEF Settled, Past, Before, Current
    <3>5. \A e, f \in stored : e.seq < f.seq => Before(e.msg, f.msg)
      BY DEF SortInv
    <3>6. \A e, f \in stored' : e.seq < f.seq => Before(e.msg, f.msg)
      BY <3>2, <3>3, <3>4, <3>5
    <3> QED
      BY <3>6 DEF Before
  <2>2. CASE ~CommitStore(p)
    <3>1. UNCHANGED stored
      BY <2>2, RouteCases, RerouteCases DEF SenderStep, Store, CommitStoreFails
    <3> QED
      BY <3>1 DEF SortInv, Before
  <2> QED
    BY <2>1, <2>2
<1>3. \A s \in Sessions : SeenInOrder(s)'
  BY <1>0 DEF SortInv, SeenInOrder, Before
<1>4. ASSUME NEW s \in Sessions, work[s].backlog # <<>>, work[s].pc = "fixed",
             NEW q \in Senders, sender'[q].pc = "queued", Current(q)' \in Msgs(work[s].backlog)
      PROVE  Ahead(<<"store", q>>, <<"presence", s>>)'
  <2>1. CASE q = p
    <3>1. CommitStore(p) /\ sender[p].pc = "writing" /\ sender'[p].n = sender[p].n
      BY <1>4, <1>t, <2>1, SenderFrame DEF CommitStore
    <3>2. Settled(Current(p))
      BY <1>4, <2>1, <3>1 DEF SortInv, BacklogOrder, Current
    <3> QED
      BY <1>t, <3>1, <3>2, OfflineAssumption DEF Settled, Past, Current, Types, Shape, SenderStates
  <2>2. CASE q # p
    <3>1. sender'[q] = sender[q] /\ Current(q)' = Current(q)
      BY <1>t, <2>2, SenderFrame DEF Current
    <3>2. Ahead(<<"store", q>>, <<"presence", s>>)
      BY <1>4, <3>1 DEF SortInv, BacklogOrder
    <3>3. CASE CommitStore(p)
      BY <1>t, <3>2, <3>3, AheadAppend DEF CommitStore
    <3>4. CASE Reroute(p)
      <4>1. line # <<>> /\ line[1] = <<"store", p>> /\ line' = Tail(line)
        BY <1>t, <3>4, RerouteCases, TailIndex DEF AtHead, Types, Shape
      <4>2. <<"store", q>> # line[1]
        BY <2>2, <4>1
      <4> QED
        BY <1>t, <3>2, <4>1, <4>2, AheadTail
    <3>5. CASE UNCHANGED line
      BY <3>2, <3>5 DEF Ahead
    <3> QED
      BY <3>3, <3>4, <3>5, RouteCases DEF SenderStep, Store, CommitStoreFails
  <2> QED
    BY <2>1, <2>2
<1>5. ASSUME NEW s \in Sessions, session'[s] = session[s]
      PROVE  /\ Chain(Shown(s), session[s].outbox, work[s].preceding, session[s].mailbox)'
             /\ BacklogOrder(s)'
  <2>1. Chain(Shown(s), session[s].outbox, work[s].preceding, session[s].mailbox)'
    BY <1>0, <1>1, <1>5, <1>t, ChainFrame DEF SortInv
  <2>2. BacklogOrder(s)
    BY DEF SortInv
  <2>3. BacklogOrder(s)'
    BY <1>0, <1>1, <1>4, <1>5, <1>t, <2>2, BacklogKept DEF BacklogOrder
  <2> QED
    BY <2>1, <2>3
<1>6. ASSUME NEW s \in Sessions, NEW x \in Entries, x.msg = Current(p), TakenBy(s, x),
             NextMessage(p)
      PROVE  SortInv'
  <2>1. /\ \A u \in Sessions : u # s => session'[u] = session[u]
        /\ session'[s].mailbox = Append(session[s].mailbox, x)
        /\ session'[s].priority = session[s].priority
        /\ session'[s].outbox = session[s].outbox
    BY <1>6, <1>t, TakenByFrame
  <2>2. Past(x.msg)'
    BY <1>6, <1>t, OfflineAssumption DEF Past, Current, NextMessage, Types, Shape, SenderStates
  <2>3. PICK sh \in SUBSET Messages, ob \in Seq(Entries), pr \in Seq(Entries),
             mb \in Seq(Entries), b \in Seq(Entries) :
          /\ sh = Shown(s) /\ ob = session[s].outbox /\ pr = work[s].preceding
          /\ mb = session[s].mailbox /\ b = work[s].backlog
    BY <1>t, QueueTypes
  <2>4. Chain(Shown(s), session[s].outbox, work[s].preceding, session[s].mailbox)'
    <3>1. Chain(sh, ob, pr, mb)
      BY <2>3 DEF SortInv
    <3>2. Chain(sh, ob, pr, Append(mb, x))'
      BY <1>1, <1>6, <2>2, <3>1, ChainAppend
    <3>3. sh = Shown(s)'
      BY <1>0, <2>3 DEF Shown
    <3> QED
      BY <1>0, <2>1, <2>3, <3>2, <3>3
  <2>5. BacklogOrder(s)
    BY DEF SortInv
  <2>6. b # <<>> => /\ work[s].pc # "fixed" /\ session'[s].outbox = <<>>
                    /\ AllBefore(Msgs(b), Msgs(session'[s].mailbox))
    <3> SUFFICES ASSUME b # <<>>
                 PROVE  /\ work[s].pc # "fixed" /\ session'[s].outbox = <<>>
                        /\ AllBefore(Msgs(b), Msgs(session'[s].mailbox))
      OBVIOUS
    <3>1. work[s].pc # "fixed"
      BY <1>6, <2>3, <2>5 DEF BacklogOrder, TakenBy, Eligible
    <3>2. AllPast(Msgs(b)) /\ AllBefore(Msgs(b), Msgs(mb)) /\ ob = <<>>
      BY <2>3, <2>5, <3>1 DEF BacklogOrder
    <3>3. AllBefore(Msgs(b), {x.msg})
      BY <1>6, <3>2, PastBefore
    <3>4. Msgs(session'[s].mailbox) = Msgs(mb) \cup {x.msg}
      BY <2>1, <2>3, AppendMsgs
    <3> QED
      BY <2>1, <2>3, <3>1, <3>2, <3>3, <3>4 DEF AllBefore
  <2>7. BacklogOrder(s)'
    BY <1>0, <1>1, <1>t, <2>1, <2>3, <2>5, <2>6, BacklogKept
  <2> QED
    BY <1>2, <1>3, <1>5, <2>1, <2>4, <2>7 DEF SortInv
<1>7. CASE UNCHANGED session
  BY <1>2, <1>3, <1>5, <1>7 DEF SortInv
<1>8. CASE Route(p)
  <2>1. Fresh(p) \in Entries /\ Fresh(p).msg = Current(p)
    BY <1>8, <1>t, RouteCases, CurrentIsMessage DEF Fresh
  <2> QED
    BY <1>6, <1>7, <1>8, <2>1, RouteCases DEF Unanswered, Refused
<1>9. CASE Reroute(p)
  <2>1. Recorded(p) \in Entries /\ Recorded(p).msg = Current(p)
    BY <1>9, <1>t, RerouteCases, CurrentIsMessage DEF Recorded, Types, Sending
  <2> QED
    BY <1>6, <1>7, <1>9, <2>1, RerouteCases DEF Unanswered, Refused
<1> QED
  BY <1>7, <1>8, <1>9 DEF SenderStep, Store, CommitStore, CommitStoreFails


\* A client gets the front of the outbox after what it has seen.
LEMMA SeenGrows ==
  ASSUME NEW sn \in Seq(Messages), NEW ob \in Seq(Entries), NEW r \in Seq(Messages),
         \A j \in DOMAIN r : j \in DOMAIN ob /\ r[j] = ob[j].msg,
         NEW o, o = sn \o r, Sorted(ob),
         \A i, j \in DOMAIN sn : i < j => Before(sn[i], sn[j]),
         AllBefore({sn[i] : i \in DOMAIN sn}, Msgs(ob))
  PROVE  /\ \A i, j \in DOMAIN o : i < j => Before(o[i], o[j])
         /\ \A i \in DOMAIN o : o[i] \in {sn[j] : j \in DOMAIN sn} \cup Msgs(ob)
         /\ o \in Seq(Messages)
<1>1. DOMAIN r = 1 .. Len(r) /\ Len(r) \in Nat
  OBVIOUS
<1>2. DOMAIN ob = 1 .. Len(ob) /\ Len(ob) \in Nat /\ Len(sn) \in Nat /\ DOMAIN sn = 1 .. Len(sn)
  OBVIOUS
<1>3. \A j \in DOMAIN r : j \in DOMAIN ob /\ r[j] = ob[j].msg
  OBVIOUS
<1>4. o = sn \o r
  OBVIOUS
<1>5. /\ o \in Seq(Messages) /\ DOMAIN o = 1 .. Len(sn) + Len(r)
      /\ \A i \in DOMAIN o : \/ i \in DOMAIN sn /\ o[i] = sn[i]
                             \/ i - Len(sn) \in DOMAIN r /\ o[i] = r[i - Len(sn)]
  <2>1. /\ o \in Seq(Messages) /\ Len(o) = Len(sn) + Len(r)
        /\ \A i \in DOMAIN o : \/ i \in DOMAIN sn /\ o[i] = sn[i]
                               \/ i - Len(sn) \in DOMAIN r /\ o[i] = r[i - Len(sn)]
    BY ONLY <1>4, ConcatIndex
  <2>2. DOMAIN o = 1 .. Len(o)
    BY <2>1
  <2> QED
    BY <1>1, <2>1, <2>2
<1>6. ASSUME NEW i \in DOMAIN o, NEW j \in DOMAIN o, i < j
      PROVE  Before(o[i], o[j])
  <2>0. i \in Nat /\ j \in Nat
    BY <1>2, <1>5
  <2>1. CASE j \in DOMAIN sn /\ o[j] = sn[j]
    <3>1. i \in DOMAIN sn /\ ~(i - Len(sn) \in DOMAIN r)
      BY <1>1, <1>2, <1>6, <2>0, <2>1
    <3> QED
      BY <1>5, <1>6, <2>1, <3>1
  <2>2. CASE j - Len(sn) \in DOMAIN r /\ o[j] = r[j - Len(sn)]
    <3>1. o[j] = ob[j - Len(sn)].msg /\ j - Len(sn) \in DOMAIN ob
      BY <1>3, <2>2
    <3>2. CASE i \in DOMAIN sn /\ o[i] = sn[i]
      BY <3>1, <3>2 DEF AllBefore, Msgs
    <3>3. CASE i - Len(sn) \in DOMAIN r /\ o[i] = r[i - Len(sn)]
      <4>1. o[i] = ob[i - Len(sn)].msg /\ i - Len(sn) \in DOMAIN ob
        BY <1>3, <3>3
      <4>2. i - Len(sn) < j - Len(sn)
        BY <1>2, <1>6, <2>0
      <4> QED
        BY <3>1, <4>1, <4>2 DEF Sorted
    <3> QED
      BY <1>5, <3>2, <3>3
  <2> QED
    BY <1>5, <2>1, <2>2
<1>7. \A i \in DOMAIN o : o[i] \in {sn[j] : j \in DOMAIN sn} \cup Msgs(ob)
  <2> TAKE i \in DOMAIN o
  <2>1. CASE i \in DOMAIN sn /\ o[i] = sn[i]
    BY <2>1
  <2>2. CASE i - Len(sn) \in DOMAIN r /\ o[i] = r[i - Len(sn)]
    BY <1>3, <2>2 DEF Msgs
  <2> QED
    BY <1>5, <2>1, <2>2
<1> QED
  BY <1>5, <1>6, <1>7

\* What a step of a stream does to the line.
LEMMA StreamLine ==
  ASSUME Control, NEW s \in Sessions, StreamStep(s)
  PROVE  /\ \A a, b : Ahead(a, b) /\ a # <<"presence", s>> => Ahead(a, b)'
         /\ FixPresence(s) => \A a : InLine(a) => Ahead(a, <<"presence", s>>)'
<1>t. Types /\ LineInv /\ line \in Seq(Tasks)
  BY DEF Control, Types, Shape
<1>1. CASE FixPresence(s)
  BY <1>1, <1>t, AheadAppend DEF FixPresence
<1>2. CASE UNCHANGED line /\ ~FixPresence(s)
  BY <1>2 DEF Ahead
<1>3. ASSUME AtHead(<<"presence", s>>), line' = Tail(line), ~FixPresence(s)
      PROVE  \A a, b : Ahead(a, b) /\ a # <<"presence", s>> => Ahead(a, b)'
  <2>1. line # <<>> /\ line[1] = <<"presence", s>>
    BY <1>3, <1>t, TailIndex DEF AtHead
  <2> QED
    BY <1>3, <1>t, <2>1, AheadTail
<1>4. CASE SetPresence(s) \/ DropPresence(s)
  <2>1. AtHead(<<"presence", s>>)
    BY <1>4, <1>t DEF SetPresence, DropPresence, LineInv
  <2>2. ~FixPresence(s) /\ (UNCHANGED line \/ line' = Tail(line))
    BY <1>4 DEF SetPresence, DropPresence, FixPresence
  <2> QED
    BY <1>2, <1>3, <2>1, <2>2
<1> QED
  BY <1>1, <1>2, <1>4 DEF StreamStep, Register, CompleteBinding, Retire, End, Close, TakeOutcome,
     Drain, Flush

LEMMA StreamFrame ==
  ASSUME Control, NEW s \in Sessions, StreamStep(s)
  PROVE  /\ UNCHANGED <<stored, sender>>
         /\ \A u \in Sessions : u # s => seen'[u] = seen[u]
         /\ \A m : (Past(m) => Past(m)') /\ (Settled(m) => Settled(m)')
<1>1. UNCHANGED <<stored, sender>>
  BY StreamSteady
<1>2. \A u \in Sessions : u # s => seen'[u] = seen[u]
  BY DEF StreamStep, Register, CompleteBinding, Retire, End, Close, FixPresence, SetPresence,
         DropPresence, TakeOutcome, Drain, Flush, history, Control, Types, Shape
<1> QED
  BY <1>1, <1>2 DEF Past, Settled

LEMMA SortOthers ==
  ASSUME Control, SortInv, NEW s \in Sessions, StreamStep(s), NEW u \in Sessions, u # s
  PROVE  /\ SeenInOrder(u)'
         /\ Chain(Shown(u), session[u].outbox, work[u].preceding, session[u].mailbox)'
         /\ BacklogOrder(u)'
<1>t. Types
  BY DEF Control
<1>1. /\ session'[u] = session[u] /\ work'[u] = work[u] /\ seen'[u] = seen[u]
      /\ UNCHANGED sender
      /\ \A m \in Messages : (Past(m) => Past(m)') /\ (Settled(m) => Settled(m)')
  BY StreamSteady, StreamFrame
<1>2. SeenInOrder(u)'
  BY <1>1 DEF SortInv, SeenInOrder, Before
<1>3. Chain(Shown(u), session[u].outbox, work[u].preceding, session[u].mailbox)'
  BY <1>1, <1>t, ChainFrame DEF SortInv
<1>4. BacklogOrder(u)
  BY DEF SortInv
<1>5. \A p \in Senders : Current(p)' = Current(p) /\
        (Ahead(<<"store", p>>, <<"presence", u>>) => Ahead(<<"store", p>>, <<"presence", u>>)')
  <2> TAKE p \in Senders
  <2>1. <<"store", p>> # <<"presence", s>>
    OBVIOUS
  <2> QED
    BY <1>1, <2>1, StreamLine DEF Current
<1>6. BacklogOrder(u)'
  BY <1>1, <1>4, <1>5, <1>t, BacklogKept DEF BacklogOrder
<1> QED
  BY <1>2, <1>3, <1>6


LEMMA SortOwn ==
  ASSUME Control, Control', SortInv, NEW s \in Sessions, StreamStep(s)
  PROVE  /\ SeenInOrder(s)'
         /\ Chain(Shown(s), session[s].outbox, work[s].preceding, session[s].mailbox)'
         /\ BacklogOrder(s)'
<1> DEFINE S == session[s]
           W == work[s]
           Goal == /\ SeenInOrder(s)'
                   /\ Chain(Shown(s), S.outbox, W.preceding, S.mailbox)'
                   /\ BacklogOrder(s)'
<1>t. Types /\ Types' /\ LineInv /\ TableInv /\ SessionShape(s)
  BY DEF Control, SessionInv
<1>0. /\ session \in [Sessions -> SessionStates] /\ work \in [Sessions -> WorkStates]
      /\ seen \in [Sessions -> Seq(Messages)] /\ S \in SessionStates /\ W \in WorkStates
  BY <1>t DEF Types, Shape
<1>1. /\ UNCHANGED <<stored, sender>>
      /\ \A m : (Past(m) => Past(m)') /\ (Settled(m) => Settled(m)')
  BY StreamFrame
<1>2. PICK sh \in SUBSET Messages, ob \in Seq(Entries), pr \in Seq(Entries),
           mb \in Seq(Entries), b \in Seq(Entries), sn \in Seq(Messages) :
        /\ sh = Shown(s) /\ ob = S.outbox /\ pr = W.preceding /\ mb = S.mailbox
        /\ b = W.backlog /\ sn = seen[s]
  BY <1>t, QueueTypes
<1>3. Chain(sh, ob, pr, mb) /\ BacklogOrder(s) /\ SeenInOrder(s)
  BY <1>2 DEF SortInv
<1>4. <<>> \in Seq(Entries) /\ {} \in SUBSET Messages
  OBVIOUS
\* The chain after the step, from the parts that the step gives it.
<1>5. ASSUME NEW h \in SUBSET Messages, NEW o \in Seq(Entries), NEW c \in Seq(Entries),
             NEW x \in Seq(Entries), Chain(h, o, c, x), Shown(s)' = h,
             session'[s].outbox = o, work'[s].preceding = c, session'[s].mailbox = x
      PROVE  Chain(Shown(s), S.outbox, W.preceding, S.mailbox)'
  <2>1. Chain(h, o, c, x)'
    BY <1>1, <1>5, ChainKept
  <2> QED
    BY <1>5, <2>1
<1>6. ASSUME work'[s].backlog = <<>> PROVE BacklogOrder(s)'
  BY <1>6 DEF BacklogOrder, Sorted
<1>7. ASSUME seen'[s] = seen[s] PROVE SeenInOrder(s)' /\ Shown(s)' = sh
  BY <1>2, <1>3, <1>7 DEF SeenInOrder, Shown, Before
<1>8. ASSUME seen'[s] = <<>> PROVE SeenInOrder(s)' /\ Shown(s)' = {}
  BY <1>8 DEF SeenInOrder, Shown
<1>9. CASE Register(s) \/ CompleteBinding(s) \/ Close(s)
  <2>1. /\ session'[s].outbox = <<>> /\ session'[s].mailbox = <<>>
    <3>1. CASE Register(s)
      BY <1>0, <3>1 DEF Register, NoSession
    <3>2. CASE Close(s)
      BY <1>0, <3>2 DEF Close, NoSession
    <3>3. CASE CompleteBinding(s)
      <4>1. session'[s] = [S EXCEPT !.pc = "bound"] \/ session'[s] = NoSession
        BY <1>0, <3>3 DEF CompleteBinding
      <4>2. [S EXCEPT !.pc = "bound"].mailbox = <<>> /\ [S EXCEPT !.pc = "bound"].outbox = <<>>
        BY <1>0, <1>t, <3>3 DEF CompleteBinding, SessionStates, SessionShape
      <4>3. NoSession.mailbox = <<>> /\ NoSession.outbox = <<>>
        BY DEF NoSession
      <4> QED
        BY <4>1, <4>2, <4>3
    <3> QED
      BY <1>9, <3>1, <3>2, <3>3
  <2>2. work'[s].preceding = <<>> /\ work'[s].backlog = <<>> /\ seen'[s] = <<>>
    <3>1. CASE Register(s) \/ CompleteBinding(s)
      BY <1>t, <3>1 DEF Register, CompleteBinding, SessionShape, NoWork, history
    <3>2. CASE Close(s)
      BY <1>0, <3>2 DEF Close, NoWork
    <3> QED
      BY <1>9, <3>1, <3>2
  <2>3. Chain({}, <<>>, <<>>, <<>>)
    BY EmptySorted DEF Chain, AllPast, AllBefore
  <2> QED
    BY <1>4, <1>5, <1>6, <1>8, <2>1, <2>2, <2>3
<1>10. CASE Retire(s)
  <2>1. /\ session'[s].outbox = ob /\ session'[s].mailbox = mb
        /\ session'[s].priority = S.priority /\ UNCHANGED <<work, seen, line>>
    BY <1>0, <1>10, <1>2 DEF Retire, SessionStates, history
  <2>2. BacklogOrder(s)'
    <3>1. \A p \in Senders : /\ Current(p)' = Current(p) /\ sender'[p] = sender[p]
                             /\ Ahead(<<"store", p>>, <<"presence", s>>) =>
                                  Ahead(<<"store", p>>, <<"presence", s>>)'
      BY <1>1, <2>1 DEF Current, Ahead
    <3>2. ASSUME W.backlog # <<>>, W.pc = "fixed", NEW p \in Senders,
                 sender'[p].pc = "queued", Current(p)' \in Msgs(W.backlog)
          PROVE  Ahead(<<"store", p>>, <<"presence", s>>)'
      <4>1. Ahead(<<"store", p>>, <<"presence", s>>)
        BY <1>3, <3>1, <3>2 DEF BacklogOrder
      <4> QED
        BY <3>1, <4>1
    <3>3. /\ W.backlog # <<>> => session'[s].outbox = <<>>
          /\ W.backlog # <<>> /\ W.pc = "fixed" => session'[s].priority = "none"
          /\ W.backlog # <<>> /\ W.pc # "fixed" =>
               AllBefore(Msgs(W.backlog), Msgs(session'[s].mailbox))
      BY <1>2, <1>3, <2>1 DEF BacklogOrder
    <3> QED
      BY <1>1, <1>3, <1>t, <2>1, <3>2, <3>3, BacklogKept
  <2> QED
    BY <1>2, <1>3, <1>5, <1>7, <2>1, <2>2
<1>11. CASE End(s)
  <2>1. PICK k \in 0 .. Len(ob) :
          seen' = [seen EXCEPT ![s] = @ \o [j \in 1 .. k |-> session[s].outbox[j].msg]]
    BY <1>11, <1>2 DEF End
  <2>p. PICK r \in Seq(Messages) : r = [j \in 1 .. k |-> ob[j].msg]
    BY SubSeqPrefix
  <2>o. PICK o : o = sn \o r
    OBVIOUS
  <2>2. r = [j \in 1 .. k |-> ob[j].msg] /\ o = sn \o r
    BY <2>p, <2>o
  <2>3. seen'[s] = o
    BY <1>0, <1>2, <2>1, <2>2
  <2>r. \A j \in DOMAIN r : j \in DOMAIN ob /\ r[j] = ob[j].msg
    <3>1. 1 .. k \in SUBSET (1 .. Len(ob)) /\ DOMAIN ob = 1 .. Len(ob)
      OBVIOUS
    <3> QED
      BY <2>2, <3>1
  <2>4. /\ session'[s].outbox = <<>> /\ session'[s].mailbox = <<>>
        /\ session'[s].priority = "none" /\ UNCHANGED <<work, line>>
    <3>1. session'[s] = [NoSession EXCEPT !.pc = "ended"] /\ UNCHANGED <<work, line>>
      BY <1>0, <1>11 DEF End
    <3> QED
      BY <3>1 DEF NoSession
  <2>5. /\ \A i, j \in DOMAIN o : i < j => Before(o[i], o[j])
        /\ \A i \in DOMAIN o : o[i] \in sh \cup Msgs(ob)
    <3>1. sh = {sn[i] : i \in DOMAIN sn}
      BY <1>2 DEF Shown
    <3>2. Sorted(ob) /\ AllBefore({sn[i] : i \in DOMAIN sn}, Msgs(ob))
            /\ \A i, j \in DOMAIN sn : i < j => Before(sn[i], sn[j])
      BY <1>2, <1>3, <3>1 DEF Chain, AllBefore, SeenInOrder
    <3>3. /\ \A i, j \in DOMAIN o : i < j => Before(o[i], o[j])
          /\ \A i \in DOMAIN o : o[i] \in {sn[j] : j \in DOMAIN sn} \cup Msgs(ob)
      <4>1. o = sn \o r
        BY <2>2
      <4> QED
        BY ONLY <2>r, <3>2, <4>1, SeenGrows
    <3> QED
      BY <3>1, <3>3
  <2>6. SeenInOrder(s)'
    BY <2>3, <2>5 DEF SeenInOrder, Before
  <2>7. PICK h : h = {o[i] : i \in DOMAIN o}
    OBVIOUS
  <2>8. h \in SUBSET (sh \cup Msgs(ob)) /\ h = Shown(s)' /\ h \in SUBSET Messages
    <3>1. h \in SUBSET (sh \cup Msgs(ob))
      BY <2>5, <2>7
    <3>2. h = Shown(s)'
      BY <2>3, <2>7 DEF Shown
    <3> QED
      BY <3>1, <3>2, MsgsType
  <2>9. Chain(h, <<>>, pr, <<>>)
    BY <1>3, <2>8, ChainMoves
  <2>10. Chain(Shown(s), S.outbox, W.preceding, S.mailbox)'
    BY <1>2, <1>4, <1>5, <2>4, <2>8, <2>9
  <2>11. BacklogOrder(s)'
    <3>1. Msgs(session'[s].mailbox) = {}
      BY <2>4 DEF Msgs
    <3>2. AllBefore(Msgs(W.backlog), Msgs(session'[s].mailbox))
      BY <3>1 DEF AllBefore
    <3>3. \A p \in Senders : /\ Current(p)' = Current(p) /\ sender'[p] = sender[p]
                             /\ Ahead(<<"store", p>>, <<"presence", s>>) =>
                                  Ahead(<<"store", p>>, <<"presence", s>>)'
      BY <1>1, <2>4 DEF Current, Ahead
    <3>4. ASSUME W.backlog # <<>>, W.pc = "fixed", NEW p \in Senders,
                 sender'[p].pc = "queued", Current(p)' \in Msgs(W.backlog)
          PROVE  Ahead(<<"store", p>>, <<"presence", s>>)'
      <4>1. Ahead(<<"store", p>>, <<"presence", s>>)
        BY <1>3, <3>3, <3>4 DEF BacklogOrder
      <4> QED
        BY <3>3, <4>1
    <3> QED
      BY <1>1, <1>3, <1>t, <2>4, <3>2, <3>4, BacklogKept
  <2> QED
    BY <2>6, <2>10, <2>11
<1>12. CASE FixPresence(s)
  <2>a. PICK priority \in Priorities :
          work' = [work EXCEPT ![s] =
            [pc |-> "fixed", priority |-> priority, preceding |-> <<>>,
             backlog |-> IF priority = "eligible" /\ session[s].priority # "eligible"
                           THEN Ordered(stored) ELSE <<>>]]
    BY <1>12 DEF FixPresence
  <2>1. PICK c : /\ work'[s].backlog = c /\ work'[s].preceding = <<>> /\ work'[s].pc = "fixed"
                 /\ ((c = Ordered(stored) /\ S.priority # "eligible") \/ c = <<>>)
    BY <1>0, <2>a
  <2>2. UNCHANGED <<session, seen>> /\ ob = <<>>
    BY <1>12, <1>2 DEF FixPresence, history
  <2>3. Chain(Shown(s), S.outbox, W.preceding, S.mailbox)'
    <3>1. Chain(sh, ob, <<>>, mb)
      BY <1>3, ChainMoves
    <3> QED
      BY <1>2, <1>4, <1>5, <1>7, <2>1, <2>2, <3>1
  <2>4. ASSUME c # <<>> PROVE BacklogOrder(s)'
    <3>1. /\ c \in Seq(stored) /\ c = Ordered(stored)
          /\ \A j, k \in DOMAIN c : j < k => c[j].seq < c[k].seq
          /\ \A k \in DOMAIN c : c[k] \in stored
      <4>1. /\ Ordered(stored) \in Seq(stored)
            /\ \A j, k \in DOMAIN Ordered(stored) : j < k =>
                 Ordered(stored)[j].seq < Ordered(stored)[k].seq
        BY <1>t, OrderedTable DEF Types, Shape, TableInv
      <4> QED
        BY <2>1, <2>4, <4>1
    <3>2. Sorted(c)
      BY <3>1 DEF Sorted, SortInv
    <3>3. \A m \in Msgs(c) : Settled(m)
      BY <1>t, <3>1 DEF Msgs, TableInv
    <3>4. S.priority = "none"
      BY <1>t, <2>1, <2>4, QueueTypes DEF Priorities
    <3>5. \A p \in Senders : sender[p].pc = "queued" => Ahead(<<"store", p>>, <<"presence", s>>)'
      BY <1>12, <1>t, StreamLine DEF LineInv
    <3>6. PICK M : M = Msgs(c)
      OBVIOUS
    <3>7. M = Msgs(W.backlog)'
      BY <2>1, <3>6 DEF Msgs
    <3>8. \A m \in M : Settled(m)'
      BY <1>1, <3>3, <3>6
    <3>9. Sorted(W.backlog)'
      BY <2>1, <3>2 DEF Sorted, Before
    <3> QED
      BY <1>1, <1>2, <2>1, <2>2, <3>4, <3>5, <3>7, <3>8, <3>9 DEF BacklogOrder
  <2> QED
    BY <1>6, <1>7, <2>1, <2>2, <2>3, <2>4
<1>13. CASE SetPresence(s)
  <2>0. UNCHANGED seen /\ W.pc = "fixed" /\ line # <<>> /\ line[1] = <<"presence", s>>
    BY <1>13, <1>t, TailIndex DEF SetPresence, AtHead, Types, Shape, history
  <2>1. CASE S.alive
    <3>1. /\ session'[s].mailbox = <<>> /\ session'[s].outbox = ob
          /\ work'[s].preceding = mb /\ work'[s].backlog = b /\ work'[s].pc = "set"
      BY <1>0, <1>13, <1>2, <2>1 DEF SetPresence, SessionStates, WorkStates
    <3>2. Chain(sh, ob, mb, <<>>)
      BY <1>3, ChainMoves
    <3>3. Chain(Shown(s), S.outbox, W.preceding, S.mailbox)'
      BY <1>4, <1>5, <1>7, <2>0, <3>1, <3>2
    <3>4. ASSUME b # <<>> PROVE BacklogOrder(s)'
      <4>1. /\ ob = <<>> /\ S.priority = "none" /\ \A m \in Msgs(b) : Settled(m)
            /\ \A p \in Senders : sender[p].pc = "queued" /\ Current(p) \in Msgs(b) =>
                 Ahead(<<"store", p>>, <<"presence", s>>)
        BY <1>2, <1>3, <2>0, <3>4 DEF BacklogOrder
      <4>2. mb = <<>>
        BY <1>2, <1>t, <4>1 DEF SessionShape
      <4>3. \A p \in Senders : ~(sender[p].pc = "queued" /\ Current(p) \in Msgs(b))
        BY <1>t, <2>0, <4>1, NothingAhead
      <4>4. \A m \in Msgs(b) : Past(m)
        <5> TAKE m \in Msgs(b)
        <5>1. m \in Messages /\ Settled(m)
          BY <4>1, MsgsType
        <5>2. m[1] \in Senders /\ m = <<m[1], m[2]>>
          BY <5>1 DEF Messages
        <5> QED
          BY <4>3, <5>1, <5>2 DEF Settled, Current
      <4>5. PICK M : M = Msgs(b)
        OBVIOUS
      <4>6. M = Msgs(W.backlog)' /\ Msgs(S.mailbox)' = {}
        BY <3>1, <4>5 DEF Msgs
      <4>7. AllPast(M)'
        BY <1>1, <4>4, <4>5 DEF AllPast
      <4>8. AllBefore(M, {})'
        BY DEF AllBefore
      <4>9. Sorted(W.backlog)'
        BY <1>2, <1>3, <3>1 DEF BacklogOrder, Sorted, Before
      <4> QED
        BY <3>1, <4>1, <4>2, <4>6, <4>7, <4>8, <4>9 DEF BacklogOrder
    <3> QED
      BY <1>6, <1>7, <2>0, <3>1, <3>3, <3>4
  <2>2. CASE ~S.alive
    <3>1. /\ session' = session
          /\ work'[s].preceding = <<>> /\ work'[s].backlog = <<>>
      BY <1>0, <1>13, <2>2 DEF SetPresence, NoWork
    <3>2. Chain(sh, ob, <<>>, mb)
      BY <1>3, ChainMoves
    <3> QED
      BY <1>2, <1>4, <1>5, <1>6, <1>7, <2>0, <3>1, <3>2
  <2> QED
    BY <2>1, <2>2
<1>14. CASE DropPresence(s)
  <2>1. /\ UNCHANGED <<session, seen>> /\ W.pc = "set" /\ work'[s].pc # "fixed"
        /\ work'[s].preceding = pr /\ work'[s].backlog = b
    BY <1>0, <1>14, <1>2 DEF DropPresence, WorkStates, history
  <2>2. Chain(Shown(s), S.outbox, W.preceding, S.mailbox)'
    BY <1>2, <1>3, <1>5, <1>7, <2>1
  <2>3. b # <<>> => AllBefore(Msgs(W.backlog), Msgs(session'[s].mailbox)) /\ ob = <<>>
    BY <1>2, <1>3, <2>1 DEF BacklogOrder
  <2>4. BacklogOrder(s)'
    BY <1>1, <1>2, <1>3, <1>t, <2>1, <2>3, BacklogKept
  <2> QED
    BY <1>7, <2>1, <2>2, <2>4
<1>15. CASE TakeOutcome(s)
  <2>1. /\ session'[s].mailbox = mb /\ session'[s].outbox = pr \o Pushed(b)
        /\ W.pc = "done" /\ seen'[s] = IF Pushed(b) = <<>> THEN sn ELSE <<>>
        /\ work'[s].preceding = <<>> /\ work'[s].backlog = <<>>
    BY <1>0, <1>15, <1>2 DEF TakeOutcome, Pushed, SessionStates, NoWork
  <2>2. /\ Pushed(b) \in Seq(Entries) /\ DOMAIN Pushed(b) = DOMAIN b /\ Msgs(Pushed(b)) = Msgs(b)
        /\ \A k \in DOMAIN b : Pushed(b)[k].msg = b[k].msg
        /\ (Pushed(b) = <<>> <=> b = <<>>)
    BY PushedType
  <2>3. CASE b = <<>>
    <3>1. pr \o <<>> = pr
      OBVIOUS
    <3>2. session'[s].outbox = pr /\ seen'[s] = seen[s]
      BY <1>2, <2>1, <2>2, <2>3, <3>1
    <3>3. Chain(sh, pr, <<>>, mb)
      BY <1>3, ChainMoves
    <3> QED
      BY <1>4, <1>5, <1>6, <1>7, <2>1, <3>2, <3>3
  <2>4. CASE b # <<>>
    <3>1. /\ pr = <<>> /\ Sorted(b) /\ AllPast(Msgs(b)) /\ AllBefore(Msgs(b), Msgs(mb))
      BY <1>2, <1>3, <2>1, <2>4 DEF BacklogOrder
    <3>2. PICK q \in Seq(Entries) : q = Pushed(b)
      BY <2>2
    <3>3. <<>> \o q = q
      OBVIOUS
    <3>4. session'[s].outbox = q /\ seen'[s] = <<>>
      BY <2>1, <2>2, <2>4, <3>1, <3>2, <3>3
    <3>5. Sorted(q) /\ AllPast(Msgs(q)) /\ AllBefore(Msgs(q), Msgs(mb))
      BY <2>2, <3>1, <3>2 DEF Sorted
    <3>6. Chain({}, q, <<>>, mb)
      BY <1>3, <3>5, ChainMoves
    <3> QED
      BY <1>4, <1>5, <1>6, <1>8, <2>1, <3>4, <3>6
  <2> QED
    BY <2>3, <2>4
<1>16. CASE Drain(s)
  <2>1. /\ session'[s].mailbox = <<>> /\ session'[s].outbox = mb /\ mb # <<>>
        /\ W.pc \in {"none", "fixed"} /\ UNCHANGED <<work, seen>>
    BY <1>0, <1>16, <1>2 DEF Drain, SessionStates, history
  <2>2. b = <<>> /\ pr = <<>>
    <3>1. CASE W.pc = "none"
      BY <1>2, <1>t, <3>1 DEF SessionShape, NoWork
    <3>2. CASE W.pc = "fixed"
      BY <1>2, <1>3, <1>t, <2>1, <3>2 DEF SessionShape, BacklogOrder
    <3> QED
      BY <2>1, <3>1, <3>2
  <2>3. Chain(sh, mb, <<>>, <<>>)
    BY <1>3, ChainMoves
  <2> QED
    BY <1>2, <1>4, <1>5, <1>6, <1>7, <2>1, <2>2, <2>3
<1>17. CASE Flush(s)
  <2>1. /\ session'[s].mailbox = mb /\ session'[s].outbox = <<>> /\ ob # <<>> /\ UNCHANGED work
        /\ seen'[s] = sn \o [k \in DOMAIN ob |-> ob[k].msg]
    BY <1>0, <1>17, <1>2 DEF Flush, SessionStates
  <2>p. PICK r \in Seq(Messages) : r = [k \in DOMAIN ob |-> ob[k].msg]
    <3>1. DOMAIN ob = 1 .. Len(ob) /\ Len(ob) \in 0 .. Len(ob)
      OBVIOUS
    <3>2. [j \in 1 .. Len(ob) |-> ob[j].msg] \in Seq(Messages)
      BY <3>1, SubSeqPrefix
    <3> QED
      BY <3>1, <3>2
  <2>o. PICK o : o = sn \o r
    OBVIOUS
  <2>2. r = [k \in DOMAIN ob |-> ob[k].msg] /\ o = sn \o r
    BY <2>p, <2>o
  <2>3. seen'[s] = o
    BY <2>1, <2>2
  <2>r. \A j \in DOMAIN r : j \in DOMAIN ob /\ r[j] = ob[j].msg
    BY <2>2
  <2>5. /\ \A i, j \in DOMAIN o : i < j => Before(o[i], o[j])
        /\ \A i \in DOMAIN o : o[i] \in sh \cup Msgs(ob)
    <3>1. sh = {sn[i] : i \in DOMAIN sn}
      BY <1>2 DEF Shown
    <3>2. Sorted(ob) /\ AllBefore({sn[i] : i \in DOMAIN sn}, Msgs(ob))
            /\ \A i, j \in DOMAIN sn : i < j => Before(sn[i], sn[j])
      BY <1>2, <1>3, <3>1 DEF Chain, AllBefore, SeenInOrder
    <3>3. /\ \A i, j \in DOMAIN o : i < j => Before(o[i], o[j])
          /\ \A i \in DOMAIN o : o[i] \in {sn[j] : j \in DOMAIN sn} \cup Msgs(ob)
      BY <2>2, <2>r, <3>2, SeenGrows
    <3> QED
      BY <3>1, <3>3
  <2>6. SeenInOrder(s)'
    BY <2>3, <2>5 DEF SeenInOrder, Before
  <2>7. PICK h : h = {o[i] : i \in DOMAIN o}
    OBVIOUS
  <2>8. h \in SUBSET (sh \cup Msgs(ob)) /\ h = Shown(s)' /\ h \in SUBSET Messages
    <3>1. h \in SUBSET (sh \cup Msgs(ob))
      BY <2>5, <2>7
    <3>2. h = Shown(s)'
      BY <2>3, <2>7 DEF Shown
    <3> QED
      BY <3>1, <3>2, MsgsType
  <2>9. Chain(h, <<>>, pr, mb)
    BY <1>3, <2>8, ChainMoves
  <2>10. Chain(Shown(s), S.outbox, W.preceding, S.mailbox)'
    BY <1>2, <1>4, <1>5, <2>1, <2>8, <2>9
  <2>11. work'[s].backlog = <<>>
    BY <1>2, <1>3, <2>1 DEF BacklogOrder
  <2> QED
    BY <1>6, <2>6, <2>10, <2>11
<1> QED
  BY <1>9, <1>10, <1>11, <1>12, <1>13, <1>14, <1>15, <1>16, <1>17 DEF StreamStep


LEMMA SortStream ==
  ASSUME Control, Control', SortInv, NEW s \in Sessions, StreamStep(s)
  PROVE  SortInv'
<1>1. UNCHANGED stored
  BY StreamFrame
<1>2. \A e, f \in stored' : e.seq < f.seq => Before(e.msg, f.msg)'
  BY <1>1 DEF SortInv, Before
<1> QED
  BY <1>2, SortOthers, SortOwn DEF SortInv

\* A step of neither sender nor stream leaves the queues as they are.
LEMMA SortRest ==
  ASSUME Control, SortInv, UNCHANGED <<sender, work, seen>>, stored' \in SUBSET stored,
         \A s \in Sessions : /\ session'[s].outbox = session[s].outbox
                             /\ session'[s].mailbox = session[s].mailbox
                             /\ session'[s].priority = session[s].priority,
         \A p \in Senders : \A s \in Sessions :
           Ahead(<<"store", p>>, <<"presence", s>>) => Ahead(<<"store", p>>, <<"presence", s>>)'
  PROVE  SortInv'
<1>t. Types
  BY DEF Control
<1>1. \A m \in Messages : (Past(m) => Past(m)') /\ (Settled(m) => Settled(m)')
  BY DEF Past, Settled
<1>2. \A e, f \in stored' : e.seq < f.seq => Before(e.msg, f.msg)'
  BY DEF SortInv, Before
<1>3. ASSUME NEW s \in Sessions PROVE BacklogOrder(s)'
  <2>1. BacklogOrder(s)
    BY DEF SortInv
  <2>2. ASSUME work[s].backlog # <<>>, work[s].pc = "fixed", NEW p \in Senders,
               sender'[p].pc = "queued", Current(p)' \in Msgs(work[s].backlog)
        PROVE  Ahead(<<"store", p>>, <<"presence", s>>)'
    <3>1. Current(p)' = Current(p) /\ sender'[p] = sender[p]
      BY DEF Current
    <3>2. Ahead(<<"store", p>>, <<"presence", s>>)
      BY <2>1, <2>2, <3>1 DEF BacklogOrder
    <3> QED
      BY <3>2
  <2>3. /\ work[s].backlog # <<>> => session'[s].outbox = <<>>
        /\ work[s].backlog # <<>> /\ work[s].pc = "fixed" => session'[s].priority = "none"
        /\ work[s].backlog # <<>> /\ work[s].pc # "fixed" =>
             AllBefore(Msgs(work[s].backlog), Msgs(session'[s].mailbox))
    BY <2>1 DEF BacklogOrder
  <2> QED
    BY <1>1, <1>t, <2>1, <2>2, <2>3, BacklogKept
<1>4. ASSUME NEW s \in Sessions
      PROVE  Chain(Shown(s), session[s].outbox, work[s].preceding, session[s].mailbox)'
  BY <1>1, <1>t, ChainFrame DEF SortInv
<1>5. \A s \in Sessions : SeenInOrder(s)'
  BY DEF SortInv, SeenInOrder, Before
<1> QED
  BY <1>2, <1>3, <1>4, <1>5 DEF SortInv

LEMMA SortAck ==
  ASSUME Control, SortInv, NEW s \in Sessions, AckStep(s)
  PROVE  SortInv'
<1>1. /\ UNCHANGED <<line, sender, work, seen, session>> /\ stored' \in SUBSET stored
  BY DEF AckStep, AckBegin, AckFails, CommitReplay, CommitLive, admin, history
<1>2. \A a, b : Ahead(a, b) => Ahead(a, b)'
  BY <1>1 DEF Ahead
<1> QED
  BY <1>1, <1>2, SortRest

LEMMA SortDeletion ==
  ASSUME Control, SortInv, DeletionStep
  PROVE  SortInv'
<1>t. Types /\ session \in [Sessions -> SessionStates] /\ line \in Seq(Tasks)
  BY DEF Control, Types, Shape
<1>1. UNCHANGED <<sender, work, seen>> /\ stored' \in SUBSET stored
  BY DEF DeletionStep, DeleteBegin, DeleteCommit, DeleteFails, DeleteRetire, Create, history,
     storage
<1>2. \A s \in Sessions : /\ session'[s].outbox = session[s].outbox
                          /\ session'[s].mailbox = session[s].mailbox
                          /\ session'[s].priority = session[s].priority
  <2>1. CASE DeleteRetire
    BY <1>t, <2>1 DEF DeleteRetire, SessionStates
  <2> QED
    BY <2>1 DEF DeletionStep, DeleteBegin, DeleteCommit, DeleteFails, Create
<1>3. \A p \in Senders : \A s \in Sessions :
        Ahead(<<"store", p>>, <<"presence", s>>) => Ahead(<<"store", p>>, <<"presence", s>>)'
  <2>1. CASE DeleteCommit
    BY <1>t, <2>1, AheadAppend DEF DeleteCommit
  <2>2. CASE DeleteRetire
    <3>1. line # <<>> /\ line[1] = <<"delete", NoTask>> /\ line' = Tail(line)
      BY <1>t, <2>2, TailIndex DEF DeleteRetire, AtHead
    <3>2. \A p \in Senders : <<"store", p>> # line[1]
      BY <3>1
    <3> QED
      BY <1>t, <3>1, <3>2, AheadTail
  <2>3. CASE UNCHANGED line
    BY <2>3 DEF Ahead
  <2> QED
    BY <2>1, <2>2, <2>3 DEF DeletionStep, DeleteBegin, DeleteFails, Create
<1> QED
  BY <1>1, <1>2, <1>3, SortRest

LEMMA SortInit ==
  ASSUME Init
  PROVE  SortInv
<1> SUFFICES ASSUME NEW s \in Sessions
             PROVE  /\ SeenInOrder(s)
                    /\ Chain(Shown(s), session[s].outbox, work[s].preceding, session[s].mailbox)
                    /\ BacklogOrder(s)
  BY DEF Init, SortInv
<1>1. /\ seen[s] = <<>> /\ session[s].outbox = <<>> /\ session[s].mailbox = <<>>
      /\ work[s].preceding = <<>> /\ work[s].backlog = <<>>
  BY DEF Init, NoSession, NoWork
<1>2. Shown(s) = {}
  BY <1>1 DEF Shown
<1>3. Chain({}, <<>>, <<>>, <<>>)
  BY EmptySorted DEF Chain, AllPast, AllBefore
<1> QED
  BY <1>1, <1>2, <1>3, EmptySorted DEF SeenInOrder, BacklogOrder

LEMMA SortStep ==
  ASSUME Control, Control', SortInv, [Next]_vars
  PROVE  SortInv'
<1>1. CASE Next
  BY <1>1, SortSender, SortStream, SortAck, SortDeletion DEF Next
<1>2. CASE UNCHANGED vars
  <2>1. /\ UNCHANGED <<line, sender, work, seen, session>> /\ stored' \in SUBSET stored
    BY <1>2 DEF vars
  <2>2. \A a, b : Ahead(a, b) => Ahead(a, b)'
    BY <2>1 DEF Ahead
  <2> QED
    BY <2>1, <2>2, SortRest
<1> QED
  BY <1>1, <1>2

LEMMA SortAlways == Spec => []SortInv
<1>1. KeepingInv => Control
  BY DEF KeepingInv
<1> QED
  BY <1>1, KeepingAlways, SortInit, SortStep, PTL DEF Spec

(* While it stays eligible, one sender's messages reach a session in the   *)
(* order they were sent and none twice. What is queued for the session is  *)
(* a chain from what its client has seen to what the router gave it last;  *)
(* the backlog enters it when nothing else is queued, and the stores it    *)
(* was read after have had their turn before the session is offered        *)
(* anything (drain_until, handle_availability, commit_and_store).          *)
THEOREM SenderOrderTheorem == Spec => []SenderOrder
<1>1. SortInv => SenderOrder
  BY DEF SortInv, SenderOrder, SeenInOrder, Before
<1> QED
  BY <1>1, SortAlways, PTL


-----------------------------------------------------------------------------
(* NothingStranded *)

\* What a sender's step does to the sessions.
LEMMA SenderQueues ==
  ASSUME Types, NEW p \in Senders, SenderStep(p), NEW s \in Sessions
  PROVE  /\ session'[s].pc = session[s].pc /\ session'[s].alive = session[s].alive
         /\ session'[s].priority = session[s].priority
         /\ session'[s].outbox = session[s].outbox
         /\ \/ session'[s].mailbox = session[s].mailbox
            \/ Route(p) /\ session'[s].mailbox = Append(session[s].mailbox, Fresh(p))
            \/ Reroute(p) /\ session'[s].mailbox = Append(session[s].mailbox, Recorded(p))
<1>1. CASE UNCHANGED session
  BY <1>1
<1>2. ASSUME NEW u \in Sessions, NEW x, TakenBy(u, x)
      PROVE  /\ session'[s].pc = session[s].pc /\ session'[s].alive = session[s].alive
             /\ session'[s].priority = session[s].priority
             /\ session'[s].outbox = session[s].outbox
             /\ \/ session'[s].mailbox = session[s].mailbox
                \/ session'[s].mailbox = Append(session[s].mailbox, x)
  BY <1>2, TakenByFrame
<1>3. CASE Route(p)
  BY <1>1, <1>2, <1>3, RouteCases DEF Unanswered, Refused
<1>4. CASE Reroute(p)
  BY <1>1, <1>2, <1>4, RerouteCases DEF Unanswered, Refused
<1> QED
  BY <1>1, <1>3, <1>4 DEF SenderStep, Store, CommitStore, CommitStoreFails

LEMMA WaySender ==
  ASSUME Control, RefInv, SortInv, WayInv, NEW p \in Senders, SenderStep(p)
  PROVE  WayInv'
<1>t. Types /\ TableInv /\ LineInv
  BY DEF Control
<1>0. UNCHANGED <<work, ack>>
  BY RouteCases, RerouteCases DEF SenderStep, Store, CommitStore, CommitStoreFails
<1>m. PICK c : c = Current(p)
  OBVIOUS
<1>1. /\ owed' = owed \/ (CommitStore(p) /\ owed' = owed \cup {c})
      /\ missed \subseteq missed'
  BY <1>m, RouteCases, RerouteCases DEF SenderStep, Store, CommitStore, CommitStoreFails, history
<1>2. \A s \in Sessions :
        /\ session'[s].pc = session[s].pc /\ session'[s].alive = session[s].alive
        /\ session'[s].priority = session[s].priority
        /\ session'[s].outbox = session[s].outbox
        /\ \/ session'[s].mailbox = session[s].mailbox
           \/ Route(p) /\ session'[s].mailbox = Append(session[s].mailbox, Fresh(p))
           \/ Reroute(p) /\ session'[s].mailbox = Append(session[s].mailbox, Recorded(p))
  BY <1>t, SenderQueues
<1>3. \A s \in Sessions : /\ session[s].mailbox \in Seq(Entries)
                          /\ \A m \in Msgs(session[s].mailbox) : Past(m)
                          /\ \A m \in Msgs(work[s].preceding) : Past(m)
                          /\ \A m \in Msgs(work[s].backlog) : Settled(m)
  <2> TAKE s \in Sessions
  <2>1. work[s].backlog = <<>> => Msgs(work[s].backlog) = {}
    BY DEF Msgs
  <2> QED
    BY <1>t, <2>1, QueueTypes DEF SortInv, Chain, BacklogOrder, AllPast, Settled
<1>4. /\ sender[p].pc # "queued" => ~Settled(c)
      /\ ~Past(c)
  BY <1>m, <1>t, OfflineAssumption DEF Settled, Past, Current, Types, Shape, SenderStates
<1>5. sender[p].pc # "queued" => c \notin owed
  <2>1. \A m \in owed : \E e \in stored : e.msg = m
    BY DEF RefInv, Kept
  <2> QED
    BY <1>4, <1>t, <2>1 DEF TableInv
<1>6. CommitStore(p) => sender[p].pc # "queued"
  BY DEF CommitStore
<1>e. Fresh(p).msg = c /\ Recorded(p).msg = c
  BY <1>m DEF Fresh, Recorded
\* What a session holds it keeps.
<1>7. ASSUME NEW s \in Sessions, NEW m, Holds(s, m) PROVE Holds(s, m)'
  <2>1. PICK q \in Seq(Entries) : q = session[s].mailbox
    BY <1>3
  <2>2. \A x : Msgs(q) \subseteq Msgs(Append(q, x))
    BY AppendIndex DEF Msgs
  <2>3. Msgs(session[s].mailbox) \subseteq Msgs(session'[s].mailbox)
    BY <1>2, <2>1, <2>2
  <2>4. Msgs(session'[s].mailbox) = Msgs(session[s].mailbox)'
    BY DEF Msgs
  <2>5. /\ Msgs(session[s].outbox)' = Msgs(session[s].outbox)
        /\ Msgs(work[s].preceding)' = Msgs(work[s].preceding)
        /\ Msgs(work[s].backlog)' = Msgs(work[s].backlog)
    BY <1>0, <1>2 DEF Msgs
  <2> QED
    BY <1>0, <1>7, <2>3, <2>4, <2>5 DEF Holds
<1>8. ASSUME NEW m, Handled(m), ~Reroute(p) \/ m # c PROVE Handled(m)'
  <2>1. CASE m \in missed
    BY <1>1, <2>1 DEF Handled
  <2>2. CASE \E s \in Sessions : Holds(s, m)
    BY <1>7, <2>2 DEF Handled
  <2>3. CASE Waits(m)
    <3>1. PICK q \in Senders : sender[q].pc = "queued" /\ Current(q) = m
      BY <2>3 DEF Waits
    <3>2. q # p
      BY <1>8, <1>m, <3>1 DEF SenderStep, Route, Store, CommitStore, CommitStoreFails
    <3>3. sender'[q] = sender[q]
      BY <1>t, <3>2, SenderFrame
    <3> QED
      BY <3>1, <3>3 DEF Handled, Waits, Current
  <2> QED
    BY <1>8, <2>1, <2>2, <2>3 DEF Handled
<1>9. ASSUME Reroute(p), c \in owed, \E s \in Sessions : Eligible(s) PROVE Handled(c)'
  <2>1. CASE Unanswered
    BY <1>9, <2>1 DEF Unanswered
  <2>2. ASSUME NEW s \in Sessions, TakenBy(s, Recorded(p)) PROVE Handled(c)'
    <3>q. PICK q \in Seq(Entries) : q = session[s].mailbox
      BY <1>3
    <3>x. PICK x : x = Recorded(p)
      OBVIOUS
    <3>1. q = session[s].mailbox /\ x = Recorded(p)
      BY <3>q, <3>x
    <3>2. session'[s].mailbox = Append(q, x) /\ x.msg = c
      BY <1>e, <1>t, <2>2, <3>1, TakenByFrame
    <3>3. x \in Entries
      BY <1>9, <1>t, <3>1, RerouteCases, CurrentIsMessage DEF Types, Sending
    <3>4. c \in Msgs(session'[s].mailbox)
      BY <3>2, <3>3, AppendMsgs
    <3>5. c \in Msgs(session[s].mailbox)'
      BY <3>4 DEF Msgs
    <3> QED
      BY <3>5 DEF Handled, Holds
  <2>3. CASE missed' = missed \cup ({Current(p)} \cap owed)
    BY <1>9, <1>m, <2>3 DEF Handled
  <2> QED
    BY <1>9, <2>1, <2>2, <2>3, RerouteCases
<1>10. CommitStore(p) => Handled(c)'
  <2> SUFFICES ASSUME CommitStore(p) PROVE Handled(c)'
    OBVIOUS
  <2>1. sender'[p].pc = "queued" /\ sender'[p].n = sender[p].n
    BY <1>t, SenderFrame DEF CommitStore
  <2> QED
    BY <1>m, <2>1 DEF Handled, Waits, Current
<1>11. ASSUME NEW s \in Sessions, Eligible(s)', NEW m \in owed' PROVE Handled(m)'
  <2>1. Eligible(s)
    BY <1>11, <1>2 DEF Eligible
  <2>2. CASE m \in owed
    <3>1. Handled(m)
      BY <2>1, <2>2 DEF WayInv
    <3> QED
      BY <1>8, <1>9, <2>1, <2>2, <3>1
  <2> QED
    BY <1>1, <1>10, <1>11, <2>2
<1>12. ASSUME NEW s \in Sessions, Rising(s)' PROVE Rises(s)'
  <2>1. Rising(s) /\ work[s].pc = "fixed"
    BY <1>0, <1>12, <1>2 DEF Rising
  <2>2. /\ \A m \in owed : m \in Msgs(work[s].backlog) \/ Handled(m)
        /\ \A q \in Senders :
             sender[q].pc = "queued" /\ Current(q) \in owed \ Msgs(work[s].backlog) =>
               Ahead(<<"presence", s>>, <<"store", q>>)
    BY <2>1 DEF WayInv, Rises
  <2>b. PICK B : B = Msgs(work[s].backlog) /\ B = Msgs(work[s].backlog)'
    BY <1>0 DEF Msgs
  <2>3. ASSUME Reroute(p), c \in owed PROVE c \in B
    <3>1. line # <<>> /\ line[1] = <<"store", p>> /\ sender[p].pc = "queued"
      BY <1>t, <2>3, RerouteCases, TailIndex DEF AtHead, Types, Shape
    <3>2. ~Ahead(<<"presence", s>>, <<"store", p>>)
      BY <1>t, <3>1, NothingAhead
    <3> QED
      BY <1>m, <2>2, <2>3, <2>b, <3>1, <3>2
  <2>4. ASSUME NEW m \in owed' PROVE m \in B \/ Handled(m)'
    BY <1>1, <1>8, <1>10, <2>2, <2>3, <2>4, <2>b
  <2>5. ASSUME NEW q \in Senders, sender'[q].pc = "queued", Current(q)' \in owed' \ B
        PROVE  Ahead(<<"presence", s>>, <<"store", q>>)'
    <3>1. CASE q = p
      <4>1. CommitStore(p)
        BY <1>t, <2>5, <3>1, SenderFrame
      <4>2. InLine(<<"presence", s>>)
        BY <1>t, <2>1 DEF LineInv
      <4> QED
        BY <1>t, <3>1, <4>1, <4>2, AheadAppend DEF CommitStore
    <3>2. CASE q # p
      <4>1. sender'[q] = sender[q] /\ Current(q)' = Current(q) /\ Current(q) # c
        BY <1>m, <1>t, <3>2, SenderFrame DEF Current
      <4>2. Ahead(<<"presence", s>>, <<"store", q>>)
        BY <1>1, <2>2, <2>5, <2>b, <4>1
      <4>3. CASE CommitStore(p)
        BY <1>t, <4>2, <4>3, AheadAppend DEF CommitStore
      <4>4. CASE Reroute(p)
        <5>1. line # <<>> /\ line[1] = <<"store", p>> /\ line' = Tail(line)
          BY <1>t, <4>4, RerouteCases, TailIndex DEF AtHead, Types, Shape
        <5>2. <<"presence", s>> # line[1]
          BY <5>1
        <5> QED
          BY <1>t, <4>2, <5>1, <5>2, AheadTail
      <4>5. CASE UNCHANGED line
        BY <4>2, <4>5 DEF Ahead
      <4> QED
        BY <4>3, <4>4, <4>5, RouteCases DEF SenderStep, Store, CommitStoreFails
    <3> QED
      BY <3>1, <3>2
  <2> QED
    BY <2>4, <2>5, <2>b DEF Rises
<1>13. ASSUME NEW s \in Sessions PROVE Leaves(s)'
  <2>1. c \in owed' \ owed => c \notin Msgs(work[s].preceding) \cup Msgs(work[s].backlog)
    BY <1>1, <1>3, <1>4, <1>6
  <2>2. /\ Msgs(work[s].preceding)' = Msgs(work[s].preceding)
        /\ Msgs(work[s].backlog)' = Msgs(work[s].backlog)
    BY <1>0 DEF Msgs
  <2>3. Leaves(s)
    BY DEF WayInv
  <2> QED
    BY <1>1, <1>2, <2>1, <2>2, <2>3 DEF Leaves
<1>14. ASSUME NEW s \in Sessions PROVE Unstored(s)'
  <2>1. \A k \in DOMAIN session[s].mailbox :
          session[s].mailbox[k].seq = 0 => session[s].mailbox[k].msg \notin owed'
    <3>1. c \notin Msgs(session[s].mailbox)
      BY <1>3, <1>4
    <3>2. Unstored(s)
      BY DEF WayInv
    <3> QED
      BY <1>1, <3>1, <3>2 DEF Unstored, Msgs
  <2>2. CASE session'[s].mailbox = session[s].mailbox
    BY <2>1, <2>2 DEF Unstored
  <2>3. ASSUME NEW x, session'[s].mailbox = Append(session[s].mailbox, x),
               x.seq = 0 => x.msg \notin owed'
        PROVE  Unstored(s)'
    <3>1. PICK q \in Seq(Entries) : q = session[s].mailbox
      BY <1>3
    <3>2. \A k \in DOMAIN Append(q, x) : (k \in DOMAIN q /\ Append(q, x)[k] = q[k]) \/ Append(q, x)[k] = x
      BY AppendIndex
    <3> QED
      BY <2>1, <2>3, <3>1, <3>2 DEF Unstored
  <2>4. CASE Route(p)
    <3>1. c \notin owed' /\ Fresh(p).msg = c
      BY <1>5, <1>e, <2>4, RouteCases
    <3> QED
      BY <1>2, <2>2, <2>3, <2>4, <3>1 DEF Route, Reroute
  <2>5. CASE Reroute(p)
    <3>1. Recorded(p).seq # 0
      BY <2>5, RerouteCases DEF RefInv, Recorded
    <3> QED
      BY <1>2, <2>2, <2>3, <2>5, <3>1 DEF Route, Reroute
  <2> QED
    BY <1>2, <2>2, <2>4, <2>5
<1>15. ReleasesAreTaken'
  BY <1>0, <1>2 DEF WayInv, ReleasesAreTaken
<1>16. \A s \in Sessions : Rises(s)'
  BY <1>12 DEF Rises
<1> QED
  BY <1>11, <1>13, <1>14, <1>15, <1>16 DEF WayInv


LEMMA ConcatMsgs ==
  ASSUME NEW q \in Seq(Entries), NEW r \in Seq(Entries)
  PROVE  Msgs(q) \cup Msgs(r) \subseteq Msgs(q \o r)
<1>1. PICK o : o = q \o r
  OBVIOUS
<1>2. /\ \A k \in DOMAIN q : k \in DOMAIN o /\ o[k] = q[k]
      /\ \A j \in DOMAIN r : \E k \in DOMAIN o : o[k] = r[j]
  BY <1>1, ConcatIndex
<1>3. Msgs(q) \cup Msgs(r) \subseteq Msgs(o)
  BY ONLY <1>2 DEF Msgs
<1> QED
  BY <1>1, <1>3

(* What a step of a stream does with what it holds: it hands on whatever   *)
(* is still owed, or counts it as missed (End, TakeOutcome, Flush).        *)
LEMMA StreamHands ==
  ASSUME Control, WayInv, NEW s \in Sessions, StreamStep(s), NEW m \in owed'
  PROVE  /\ m \in owed /\ (m \in missed => m \in missed')
         /\ Holds(s, m) => m \in missed' \/ Holds(s, m)'
<1> DEFINE S == session[s]
           W == work[s]
<1>t. Types /\ SessionShape(s) /\ LineInv
  BY DEF Control, SessionInv
<1>0. /\ session \in [Sessions -> SessionStates] /\ work \in [Sessions -> WorkStates]
      /\ S \in SessionStates /\ W \in WorkStates
  BY <1>t DEF Types, Shape
<1>1. m \in owed /\ (m \in missed => m \in missed')
  BY DEF StreamStep, Register, CompleteBinding, Retire, End, Close, FixPresence, SetPresence,
         DropPresence, TakeOutcome, Drain, Flush, history
<1>e. Msgs(<<>>) = {}
  BY EmptySorted
<1>2. PICK ob \in Seq(Entries), pr \in Seq(Entries), mb \in Seq(Entries), b \in Seq(Entries) :
        ob = S.outbox /\ pr = W.preceding /\ mb = S.mailbox /\ b = W.backlog
  BY <1>t, QueueTypes
<1>3. Holds(s, m) <=> \/ m \in Msgs(mb) \cup Msgs(ob) \cup Msgs(pr)
                      \/ W.pc # "fixed" /\ m \in Msgs(b)
  BY <1>2 DEF Holds
<1>4. Holds(s, m)' <=>
        \/ m \in Msgs(session'[s].mailbox) \cup Msgs(session'[s].outbox)
                   \cup Msgs(work'[s].preceding)
        \/ work'[s].pc # "fixed" /\ m \in Msgs(work'[s].backlog)
  BY DEF Holds, Msgs
<1>5. SUFFICES ASSUME Holds(s, m) PROVE m \in missed' \/ Holds(s, m)'
  BY <1>1
<1>6. CASE Register(s) \/ CompleteBinding(s)
  <2>1. S.pc \in {"out", "registered"}
    BY <1>6 DEF Register, CompleteBinding
  <2>2. mb = <<>> /\ ob = <<>> /\ W = NoWork
    BY <1>2, <1>t, <2>1 DEF SessionShape
  <2>3. pr = <<>> /\ b = <<>>
    BY <1>2, <2>2 DEF NoWork
  <2> QED
    BY <1>3, <1>5, <1>e, <2>2, <2>3
<1>7. CASE Retire(s)
  <2>1. session'[s].mailbox = mb /\ session'[s].outbox = ob /\ work' = work
    BY <1>0, <1>2, <1>7 DEF Retire, SessionStates
  <2> QED
    BY <1>2, <1>3, <1>4, <1>5, <2>1
<1>8. CASE End(s)
  <2>1. m \in Undelivered(s) => m \in missed'
    BY <1>8 DEF End
  <2>2. Undelivered(s) = {mb[k].msg : k \in Releasing(mb)} \cup Msgs(ob) \cup Msgs(pr) \cup Msgs(b)
    BY <1>2 DEF Undelivered
  <2>3. ASSUME m \in Msgs(mb) PROVE m \in {mb[k].msg : k \in Releasing(mb)}
    <3>1. PICK k \in DOMAIN mb : mb[k].msg = m
      BY <2>3 DEF Msgs
    <3>2. mb[k].seq # 0
      BY <1>1, <1>2, <3>1 DEF WayInv, Unstored
    <3> QED
      BY <3>1, <3>2 DEF Releasing
  <2> QED
    BY <1>3, <1>5, <2>1, <2>2, <2>3
<1>9. CASE Close(s)
  <2>1. S.pc = "ended" /\ missed' = missed
    BY <1>9 DEF Close
  <2>2. mb = <<>> /\ ob = <<>> /\ (Msgs(pr) \cup Msgs(b)) \cap owed \subseteq missed
    BY <1>2, <1>t, <2>1 DEF SessionShape, WayInv, Leaves
  <2> QED
    BY <1>1, <1>3, <1>5, <1>e, <2>1, <2>2
<1>10. CASE FixPresence(s)
  <2>1. session' = session /\ W.pc = "none"
    BY <1>10 DEF FixPresence
  <2>2. W = NoWork
    BY <1>t, <2>1 DEF SessionShape
  <2>3. pr = <<>> /\ b = <<>>
    BY <1>2, <2>2 DEF NoWork
  <2> QED
    BY <1>2, <1>3, <1>4, <1>5, <1>e, <2>1, <2>3
<1>11. CASE SetPresence(s)
  <2>1. W.pc = "fixed" /\ pr = <<>>
    BY <1>11, <1>2, <1>t DEF SetPresence, SessionShape
  <2>2. CASE S.alive
    <3>1. session'[s].outbox = ob /\ work'[s].preceding = mb
      BY <1>0, <1>11, <1>2, <2>2 DEF SetPresence, SessionStates, WorkStates
    <3> QED
      BY <1>3, <1>4, <1>5, <1>e, <2>1, <3>1
  <2>3. CASE ~S.alive
    <3>1. session' = session
      BY <1>11, <2>3 DEF SetPresence
    <3> QED
      BY <1>2, <1>3, <1>4, <1>5, <1>e, <2>1, <3>1
  <2> QED
    BY <2>2, <2>3
<1>12. CASE DropPresence(s)
  <2>1. /\ session' = session /\ work'[s].pc # "fixed"
        /\ work'[s].preceding = pr /\ work'[s].backlog = b
    BY <1>0, <1>12, <1>2 DEF DropPresence, WorkStates
  <2> QED
    BY <1>2, <1>3, <1>4, <1>5, <2>1
<1>13. CASE TakeOutcome(s)
  <2>1. session'[s].mailbox = mb /\ session'[s].outbox = pr \o Pushed(b) /\ ob = <<>>
    BY <1>0, <1>13, <1>2 DEF TakeOutcome, Pushed, SessionStates
  <2>2. PICK q \in Seq(Entries) : q = Pushed(b) /\ Msgs(q) = Msgs(b)
    BY PushedType
  <2>3. Msgs(pr) \cup Msgs(q) \subseteq Msgs(pr \o q)
    BY ConcatMsgs
  <2> QED
    BY <1>3, <1>4, <1>5, <1>e, <2>1, <2>2, <2>3
<1>14. CASE Drain(s)
  <2>1. session'[s].outbox = mb /\ ob = <<>> /\ work' = work
    BY <1>0, <1>14, <1>2 DEF Drain, SessionStates
  <2> QED
    BY <1>2, <1>3, <1>4, <1>5, <1>e, <2>1
<1>15. CASE Flush(s)
  <2>1. session'[s].mailbox = mb /\ work' = work /\ m \notin Msgs(ob)
    BY <1>0, <1>15, <1>2 DEF Flush, SessionStates
  <2> QED
    BY <1>2, <1>3, <1>4, <1>5, <2>1
<1> QED
  BY <1>6, <1>7, <1>8, <1>9, <1>10, <1>11, <1>12, <1>13, <1>14, <1>15 DEF StreamStep

LEMMA StreamHandles ==
  ASSUME Control, WayInv, NEW s \in Sessions, StreamStep(s), NEW m \in owed', Handled(m)
  PROVE  Handled(m)'
<1>1. CASE m \in missed
  BY <1>1, StreamHands DEF Handled
<1>2. CASE Waits(m)
  <2>1. UNCHANGED sender
    BY StreamSteady
  <2> QED
    BY <1>2, <2>1 DEF Handled, Waits, Current
<1>3. ASSUME NEW u \in Sessions, Holds(u, m) PROVE Handled(m)'
  <2>1. CASE u = s
    BY <1>3, <2>1, StreamHands DEF Handled
  <2>2. CASE u # s
    <3>1. session'[u] = session[u] /\ work'[u] = work[u]
      BY <2>2, StreamSteady
    <3>2. Holds(u, m)'
      BY <1>3, <3>1 DEF Holds, Msgs
    <3> QED
      BY <3>2 DEF Handled
  <2> QED
    BY <2>1, <2>2
<1> QED
  BY <1>1, <1>2, <1>3 DEF Handled


\* The steps of a stream that make its session eligible, or about to be.
LEMMA StreamRises ==
  ASSUME Control, NEW s \in Sessions, StreamStep(s)
  PROVE  /\ Eligible(s)' => \/ Eligible(s)
                            \/ /\ Rising(s) /\ work'[s].pc = "set"
                               /\ work'[s].backlog = work[s].backlog
         /\ Rising(s)' => \/ /\ Rising(s) /\ UNCHANGED <<work, line>>
                          \/ FixPresence(s) /\ work'[s].backlog = Ordered(stored)
<1> DEFINE S == session[s]
           W == work[s]
<1>t. Types /\ SessionShape(s)
  BY DEF Control, SessionInv
<1>0. /\ session \in [Sessions -> SessionStates] /\ work \in [Sessions -> WorkStates]
      /\ S \in SessionStates /\ W \in WorkStates /\ S.priority \in Priorities
  BY <1>t DEF Types, Shape, SessionStates
<1>n. /\ NoSession.alive = FALSE /\ NoSession.priority = "none" /\ NoWork.pc = "none"
      /\ [NoSession EXCEPT !.pc = "ended"].alive = FALSE
  BY DEF NoSession, NoWork
<1>1. CASE Register(s) \/ CompleteBinding(s)
  <2>1. W = NoWork /\ work' = work
    BY <1>1, <1>t DEF Register, CompleteBinding, SessionShape
  <2>2. S.priority = "none"
    BY <1>1, <1>t DEF Register, CompleteBinding, SessionShape
  <2>3. session'[s].priority = "none"
    <3>1. CASE Register(s)
      BY <1>0, <1>n, <3>1 DEF Register
    <3>2. CASE CompleteBinding(s)
      BY <1>0, <1>n, <2>2, <3>2 DEF CompleteBinding, SessionStates
    <3> QED
      BY <1>1, <3>1, <3>2
  <2> QED
    BY <1>n, <2>1, <2>3 DEF Eligible, Rising
<1>2. CASE Retire(s) \/ End(s) \/ Close(s)
  <2>1. ~session'[s].alive
    <3>1. CASE Retire(s)
      BY <1>0, <3>1 DEF Retire, SessionStates
    <3>2. CASE End(s)
      BY <1>0, <1>n, <3>2 DEF End
    <3>3. CASE Close(s)
      BY <1>0, <1>n, <3>3 DEF Close
    <3> QED
      BY <1>2, <3>1, <3>2, <3>3
  <2> QED
    BY <2>1 DEF Eligible, Rising
<1>3. CASE FixPresence(s)
  <2>1. session' = session
    BY <1>3 DEF FixPresence
  <2>2. PICK priority \in Priorities :
          work'[s] = [pc |-> "fixed", priority |-> priority, preceding |-> <<>>,
             backlog |-> IF priority = "eligible" /\ S.priority # "eligible"
                           THEN Ordered(stored) ELSE <<>>]
    BY <1>0, <1>3 DEF FixPresence
  <2>3. Rising(s)' => work'[s].backlog = Ordered(stored)
    BY <2>1, <2>2 DEF Rising
  <2> QED
    BY <1>3, <2>1, <2>3 DEF Eligible
<1>4. CASE SetPresence(s)
  <2>1. CASE S.alive
    <3>1. /\ W.pc = "fixed" /\ work'[s].pc = "set" /\ work'[s].backlog = W.backlog
          /\ session'[s].priority = W.priority
      BY <1>0, <1>4, <2>1 DEF SetPresence, SessionStates, WorkStates
    <3>2. Eligible(s)' => Eligible(s) \/ Rising(s)
      BY <1>0, <2>1, <3>1 DEF Eligible, Rising, Priorities
    <3> QED
      BY <3>1, <3>2 DEF Rising
  <2>2. CASE ~S.alive
    <3>1. session' = session
      BY <1>4, <2>2 DEF SetPresence
    <3> QED
      BY <2>2, <3>1 DEF Eligible, Rising
  <2> QED
    BY <2>1, <2>2
<1>5. CASE DropPresence(s)
  <2>1. session' = session /\ work'[s].pc # "fixed"
    BY <1>0, <1>5 DEF DropPresence, WorkStates
  <2> QED
    BY <2>1 DEF Eligible, Rising
<1>6. CASE TakeOutcome(s)
  <2>1. /\ session'[s].alive = S.alive /\ session'[s].priority = S.priority
        /\ work'[s].pc # "fixed"
    BY <1>0, <1>6, <1>n DEF TakeOutcome, SessionStates
  <2> QED
    BY <2>1 DEF Eligible, Rising
<1>7. CASE Drain(s) \/ Flush(s)
  <2>1. /\ session'[s].alive = S.alive /\ session'[s].priority = S.priority
        /\ UNCHANGED <<work, line>>
    BY <1>0, <1>7 DEF Drain, Flush, SessionStates
  <2> QED
    BY <2>1 DEF Eligible, Rising
<1> QED
  BY <1>1, <1>2, <1>3, <1>4, <1>5, <1>6, <1>7 DEF StreamStep

\* The steps of a stream by which its session has ended, and its mailbox.
LEMMA StreamLeaves ==
  ASSUME Control, WayInv, NEW s \in Sessions, StreamStep(s)
  PROVE  /\ Leaves(s)'
         /\ session'[s].mailbox = session[s].mailbox \/ session'[s].mailbox = <<>>
<1> DEFINE S == session[s]
           W == work[s]
<1>t. Types /\ SessionShape(s)
  BY DEF Control, SessionInv
<1>0. /\ session \in [Sessions -> SessionStates] /\ work \in [Sessions -> WorkStates]
      /\ S \in SessionStates /\ W \in WorkStates
  BY <1>t DEF Types, Shape, SessionStates
<1>n. NoSession.pc = "out" /\ NoSession.mailbox = <<>> /\ NoSession \in SessionStates
  BY EmptyTypes DEF NoSession
<1>e. Msgs(<<>>) = {}
  BY EmptySorted
<1>l. Leaves(s)' <=>
        (session'[s].pc = "ended" =>
           (Msgs(work'[s].preceding) \cup Msgs(work'[s].backlog)) \cap owed' \subseteq missed')
  BY DEF Leaves, Msgs
<1>1. CASE Register(s) \/ CompleteBinding(s) \/ Retire(s) \/ Close(s)
  <2>1. session'[s].pc # "ended"
    <3>1. CASE Register(s) \/ Close(s)
      BY <1>0, <1>n, <3>1 DEF Register, Close, SessionStates
    <3>2. CASE CompleteBinding(s) \/ Retire(s)
      BY <1>0, <1>n, <3>2 DEF CompleteBinding, Retire, SessionStates
    <3> QED
      BY <1>1, <3>1, <3>2
  <2>2. session'[s].mailbox = S.mailbox \/ session'[s].mailbox = <<>>
    <3>1. CASE Register(s) \/ Close(s)
      BY <1>0, <1>n, <3>1 DEF Register, Close, SessionStates
    <3>2. CASE CompleteBinding(s) \/ Retire(s)
      BY <1>0, <1>n, <3>2 DEF CompleteBinding, Retire, SessionStates
    <3> QED
      BY <1>1, <3>1, <3>2
  <2> QED
    BY <1>l, <2>1, <2>2
<1>2. CASE End(s)
  <2>1. session'[s].mailbox = <<>>
    BY <1>0, <1>2, <1>n DEF End, SessionStates
  <2>2. work' = work /\ missed' = (missed \cup Undelivered(s)) \cap owed'
    BY <1>2 DEF End
  <2>3. Msgs(W.preceding) \cup Msgs(W.backlog) \subseteq Undelivered(s)
    BY DEF Undelivered
  <2> QED
    BY <1>l, <2>1, <2>2, <2>3
<1>3. CASE FixPresence(s) \/ TakeOutcome(s) \/ Drain(s) \/ Flush(s)
  <2>1. session'[s].pc = S.pc /\ S.pc = "bound"
    <3>1. CASE FixPresence(s) \/ TakeOutcome(s)
      BY <1>0, <3>1 DEF FixPresence, TakeOutcome, SessionStates
    <3>2. CASE Drain(s) \/ Flush(s)
      BY <1>0, <3>2 DEF Drain, Flush, SessionStates
    <3> QED
      BY <1>3, <3>1, <3>2
  <2>2. session'[s].mailbox = S.mailbox \/ session'[s].mailbox = <<>>
    BY <1>0, <1>3 DEF FixPresence, TakeOutcome, Drain, Flush, SessionStates
  <2> QED
    BY <1>l, <2>1, <2>2
<1>4. CASE SetPresence(s)
  <2>1. CASE S.alive
    <3>1. session'[s].pc = S.pc /\ session'[s].mailbox = <<>>
      BY <1>0, <1>4, <2>1 DEF SetPresence, SessionStates
    <3>2. S.pc # "ended"
      BY <1>t, <2>1 DEF SessionShape
    <3> QED
      BY <1>l, <3>1, <3>2
  <2>2. CASE ~S.alive
    <3>1. session' = session /\ work'[s].preceding = <<>> /\ work'[s].backlog = <<>>
      BY <1>0, <1>4, <2>2 DEF SetPresence, NoWork
    <3> QED
      BY <1>e, <1>l, <3>1
  <2> QED
    BY <2>1, <2>2
<1>5. CASE DropPresence(s)
  <2>1. /\ session' = session /\ work'[s].preceding = W.preceding
        /\ work'[s].backlog = W.backlog /\ UNCHANGED <<owed, missed>>
    BY <1>0, <1>5 DEF DropPresence, WorkStates, history
  <2>2. Leaves(s)
    BY DEF WayInv
  <2> QED
    BY <1>l, <2>1, <2>2 DEF Leaves
<1> QED
  BY <1>1, <1>2, <1>3, <1>4, <1>5 DEF StreamStep

\* What is released has its task after a step of the stream.
LEMMA StreamTakes ==
  ASSUME Control, WayInv, NEW s \in Sessions, StreamStep(s),
         session'[s].alive, ack'[s].pending # {}, ~ack'[s].failed
  PROVE  ack'[s].live # "idle"
<1>t. Types /\ SessionShape(s)
  BY DEF Control, SessionInv
<1>0. /\ session \in [Sessions -> SessionStates] /\ ack \in [Sessions -> AckStates]
      /\ session[s] \in SessionStates /\ ack[s] \in AckStates
  BY <1>t DEF Types, Shape
<1>n. /\ NoAck.pending = {} /\ NoSession.alive = FALSE
      /\ [NoSession EXCEPT !.pc = "ended"].alive = FALSE
  BY DEF NoAck, NoSession
<1>w. session[s].alive /\ ack[s].pending # {} /\ ~ack[s].failed => ack[s].live # "idle"
  BY DEF WayInv, ReleasesAreTaken
<1>1. CASE Register(s) \/ Close(s)
  <2>1. ack'[s] = NoAck
    BY <1>0, <1>1, <1>t DEF Register, Close, SessionShape
  <2> QED
    BY <1>n, <2>1
<1>2. CASE Flush(s)
  <2>1. PICK through, seqs : ack'[s] = Acknowledged(ack[s], through, seqs)
    BY <1>0, <1>2 DEF Flush
  <2>2. /\ ack'[s].pending = ack[s].pending \cup seqs
        /\ ack'[s].live = IF seqs # {} /\ ack[s].live = "idle" THEN "wait" ELSE ack[s].live
        /\ ack'[s].failed = IF seqs # {} /\ ack[s].live = "idle" THEN FALSE ELSE ack[s].failed
    BY <1>0, <2>1 DEF Acknowledged, AckStates
  <2>3. session'[s].alive = session[s].alive
    BY <1>0, <1>2 DEF Flush, SessionStates
  <2> QED
    BY <1>w, <2>2, <2>3
<1>3. CASE UNCHANGED ack /\ (session'[s].alive => session[s].alive)
  BY <1>3, <1>w
<1>4. CASE CompleteBinding(s) \/ Retire(s) \/ End(s) \/ FixPresence(s) \/ SetPresence(s)
             \/ DropPresence(s) \/ TakeOutcome(s) \/ Drain(s)
  <2>1. UNCHANGED ack
    BY <1>4 DEF CompleteBinding, Retire, End, FixPresence, SetPresence, DropPresence,
       TakeOutcome, Drain
  <2>2. session'[s].alive => session[s].alive
    <3>1. CASE CompleteBinding(s)
      BY <1>0, <1>n, <3>1 DEF CompleteBinding, SessionStates
    <3>2. CASE End(s)
      BY <1>0, <1>n, <3>2 DEF End
    <3>3. CASE Retire(s) \/ SetPresence(s)
      BY <1>0, <3>3 DEF Retire, SetPresence, SessionStates
    <3>4. CASE FixPresence(s) \/ DropPresence(s)
      BY <3>4 DEF FixPresence, DropPresence
    <3>5. CASE TakeOutcome(s)
      BY <1>0, <3>5 DEF TakeOutcome, SessionStates
    <3>6. CASE Drain(s)
      BY <1>0, <3>6 DEF Drain, SessionStates
    <3> QED
      BY <1>4, <3>1, <3>2, <3>3, <3>4, <3>5, <3>6
  <2> QED
    BY <1>3, <2>1, <2>2
<1> QED
  BY <1>1, <1>2, <1>4 DEF StreamStep


LEMMA WayStream ==
  ASSUME Control, RefInv, WayInv, NEW s \in Sessions, StreamStep(s)
  PROVE  WayInv'
<1>t. Types /\ TableInv
  BY DEF Control
<1>1. UNCHANGED <<stored, sender>> /\ \A u \in Sessions : u # s =>
        session'[u] = session[u] /\ work'[u] = work[u] /\ ack'[u] = ack[u]
  BY StreamSteady
<1>2. \A m \in owed' : m \in owed /\ (m \in missed => m \in missed')
  BY StreamHands
<1>3. \A m \in owed' : Handled(m) => Handled(m)'
  BY StreamHandles
<1>c. \A p \in Senders : Current(p)' = Current(p)
  BY <1>1 DEF Current
<1>4. ASSUME NEW u \in Sessions, Eligible(u)', NEW m \in owed' PROVE Handled(m)'
  <2>1. CASE Eligible(u)
    <3>1. Handled(m)
      BY <1>2, <2>1 DEF WayInv
    <3> QED
      BY <1>3, <3>1
  <2>2. CASE u = s /\ ~Eligible(s)
    <3>1. Rising(s) /\ work'[s].pc = "set" /\ work'[s].backlog = work[s].backlog
      BY <1>4, <2>2, StreamRises
    <3>2. m \in Msgs(work[s].backlog) \/ Handled(m)
      BY <1>2, <3>1 DEF WayInv, Rises
    <3>3. ASSUME m \in Msgs(work[s].backlog) PROVE Holds(s, m)'
      BY <3>1, <3>3 DEF Holds, Msgs
    <3> QED
      BY <1>3, <3>2, <3>3 DEF Handled
  <2>3. CASE u # s
    BY <1>1, <1>4, <2>1, <2>3 DEF Eligible
  <2> QED
    BY <2>1, <2>2, <2>3
<1>5. ASSUME NEW u \in Sessions, Rising(u), work'[u].backlog = work[u].backlog,
             \A p \in Senders : Ahead(<<"presence", u>>, <<"store", p>>) =>
                                  Ahead(<<"presence", u>>, <<"store", p>>)'
      PROVE  Rises(u)'
  <2>b. PICK B : B = Msgs(work[u].backlog) /\ B = Msgs(work[u].backlog)'
    BY <1>5 DEF Msgs
  <2>1. /\ \A m \in owed : m \in B \/ Handled(m)
        /\ \A p \in Senders : sender[p].pc = "queued" /\ Current(p) \in owed \ B =>
             Ahead(<<"presence", u>>, <<"store", p>>)
    BY <1>5, <2>b DEF WayInv, Rises
  <2>2. \A m \in owed' : m \in B \/ Handled(m)'
    BY <1>2, <1>3, <2>1
  <2>3. \A p \in Senders : sender'[p].pc = "queued" /\ Current(p)' \in owed' \ B =>
          Ahead(<<"presence", u>>, <<"store", p>>)'
    BY <1>1, <1>2, <1>5, <1>c, <2>1
  <2> QED
    BY <2>2, <2>3, <2>b DEF Rises
<1>6. ASSUME NEW u \in Sessions, Rising(u)' PROVE Rises(u)'
  <2>1. CASE u # s
    <3>1. Rising(u) /\ work'[u].backlog = work[u].backlog
      BY <1>1, <1>6, <2>1 DEF Rising
    <3>2. <<"presence", u>> # <<"presence", s>>
      BY <2>1
    <3> QED
      BY <1>5, <3>1, <3>2, StreamLine
  <2>2. CASE u = s /\ Rising(s) /\ UNCHANGED <<work, line>>
    <3>1. \A a, b : Ahead(a, b) => Ahead(a, b)'
      BY <2>2 DEF Ahead
    <3> QED
      BY <1>5, <2>2, <3>1
  <2>3. CASE u = s /\ FixPresence(s) /\ work'[s].backlog = Ordered(stored)
    <3>b. PICK B : B = Msgs(Ordered(stored))
      OBVIOUS
    <3>1. B = Msgs(work[u].backlog)'
      BY <2>3, <3>b DEF Msgs
    <3>2. \A e \in stored : \E k \in DOMAIN Ordered(stored) : Ordered(stored)[k] = e
      BY <1>t, OrderedTable DEF Types, Shape, TableInv
    <3>3. owed' \subseteq B
      BY <1>2, <3>2, <3>b DEF RefInv, Kept, Msgs
    <3> QED
      BY <3>1, <3>3 DEF Rises
  <2> QED
    BY <1>6, <2>1, <2>2, <2>3, StreamRises
<1>7. ASSUME NEW u \in Sessions PROVE Leaves(u)'
  <2>1. CASE u # s
    <3>1. /\ session'[u].pc = session[u].pc
          /\ Msgs(work[u].preceding)' = Msgs(work[u].preceding)
          /\ Msgs(work[u].backlog)' = Msgs(work[u].backlog)
      BY <1>1, <2>1 DEF Msgs
    <3>2. Leaves(u)
      BY DEF WayInv
    <3> QED
      BY <1>2, <3>1, <3>2 DEF Leaves
  <2> QED
    BY <2>1, StreamLeaves
<1>8. ASSUME NEW u \in Sessions PROVE Unstored(u)'
  <2>1. session'[u].mailbox = session[u].mailbox \/ session'[u].mailbox = <<>>
    BY <1>1, StreamLeaves
  <2>2. Unstored(u)
    BY DEF WayInv
  <2> QED
    BY <1>2, <2>1, <2>2 DEF Unstored
<1>9. ReleasesAreTaken'
  <2>1. ASSUME NEW u \in Sessions, session'[u].alive, ack'[u].pending # {}, ~ack'[u].failed
        PROVE  ack'[u].live # "idle"
    <3>1. CASE u # s
      BY <1>1, <2>1, <3>1 DEF WayInv, ReleasesAreTaken
    <3> QED
      BY <2>1, <3>1, StreamTakes
  <2> QED
    BY <2>1 DEF ReleasesAreTaken
<1>10. \A u \in Sessions : Rises(u)'
  BY <1>6 DEF Rises
<1> QED
  BY <1>4, <1>7, <1>8, <1>9, <1>10 DEF WayInv

\* Acknowledgements move no message: only who takes up a release changes.
LEMMA WayAck ==
  ASSUME Control, WayInv, NEW s \in Sessions, AckStep(s)
  PROVE  WayInv'
<1>0. ack \in [Sessions -> AckStates]
  BY DEF Control, Types, Shape
<1>1. UNCHANGED <<line, sender, session, work, owed, missed>>
  BY DEF AckStep, AckBegin, AckFails, CommitReplay, CommitLive, history
<1>2. /\ \A a, b : Ahead(a, b) => Ahead(a, b)'
      /\ \A m : Handled(m) => Handled(m)'
  BY <1>1 DEF Ahead, Handled, Waits, Holds, Current, Msgs
<1>3. \A u \in Sessions : Rises(u)'
  <2> TAKE u \in Sessions
  <2>1. Rises(u) /\ (Rising(u)' => Rising(u)) /\ Msgs(work[u].backlog)' = Msgs(work[u].backlog)
    BY <1>1 DEF WayInv, Rising, Msgs
  <2>2. \A p \in Senders : Current(p)' = Current(p)
    BY <1>1 DEF Current
  <2> QED
    BY <1>1, <1>2, <2>1, <2>2 DEF Rises
<1>4. \A u \in Sessions : /\ Eligible(u)' => \A m \in owed' : Handled(m)'
                          /\ Leaves(u)' /\ Unstored(u)'
  BY <1>1, <1>2 DEF WayInv, Eligible, Leaves, Unstored, Msgs
<1>5. ReleasesAreTaken'
  <2> SUFFICES ASSUME NEW u \in Sessions, session'[u].alive, ack'[u].pending # {},
                      ~ack'[u].failed
               PROVE  ack'[u].live # "idle"
    BY DEF ReleasesAreTaken
  <2>1. session[u].alive /\ ack[u].pending # {} /\ ~ack[u].failed => ack[u].live # "idle"
    BY <1>1 DEF WayInv, ReleasesAreTaken
  <2>2. CASE u # s
    <3>1. ack'[u] = ack[u]
      BY <1>0, <2>2 DEF AckStep, AckBegin, AckFails, CommitReplay, CommitLive
    <3> QED
      BY <1>1, <2>1, <3>1
  <2>3. CASE u = s
    <3>0. ack[s] \in AckStates /\ session[s].alive
      BY <1>0, <1>1, <2>3
    <3>1. ASSUME NEW kind \in {"replay", "live"}, AckBegin(s, kind) PROVE ack'[u].live # "idle"
      <4>1. CASE kind = "replay"
        <5>1. /\ ack'[s].live = ack[s].live /\ ack'[s].pending = ack[s].pending
              /\ ack'[s].failed = ack[s].failed
          <6>1. ack'[s] = Taken(ack[s], "replay")
            BY <1>0, <3>0, <3>1, <4>1 DEF AckBegin
          <6> QED
            BY <3>0, <6>1 DEF Taken, AckStates
        <5> QED
          BY <2>1, <2>3, <3>0, <5>1
      <4>2. CASE kind = "live"
        <5>1. CASE ack[s].pending = {}
          <6>1. ack'[s].pending = {}
            BY <1>0, <3>0, <3>1, <4>2, <5>1 DEF AckBegin, Idle, AckStates
          <6> QED
            BY <2>3, <6>1
        <5>2. CASE ack[s].pending # {}
          BY <1>0, <2>3, <3>0, <3>1, <4>2, <5>2 DEF AckBegin, Taken, AckStates
        <5> QED
          BY <5>1, <5>2
      <4> QED
        BY <4>1, <4>2
    <3>2. ASSUME NEW kind \in {"replay", "live"}, AckFails(s, kind) PROVE ack'[u].live # "idle"
      <4>1. CASE kind = "replay"
        <5>1. /\ ack'[s].live = ack[s].live /\ ack'[s].pending = ack[s].pending
              /\ ack'[s].failed = ack[s].failed
          BY <1>0, <3>0, <3>2, <4>1 DEF AckFails, AckStates
        <5> QED
          BY <2>1, <2>3, <3>0, <5>1
      <4>2. CASE kind = "live"
        <5>1. ack'[s].failed = TRUE
          BY <1>0, <3>0, <3>2, <4>2 DEF AckFails, AckStates
        <5> QED
          BY <2>3, <5>1
      <4> QED
        BY <4>1, <4>2
    <3>3. CASE CommitReplay(s)
      <4>1. /\ ack'[s].live = ack[s].live /\ ack'[s].pending = ack[s].pending
            /\ ack'[s].failed = ack[s].failed
        BY <1>0, <3>0, <3>3 DEF CommitReplay, AckStates
      <4> QED
        BY <2>1, <2>3, <3>0, <4>1
    <3>4. CASE CommitLive(s)
      BY <1>0, <2>3, <3>0, <3>4 DEF CommitLive, AckStates
    <3> QED
      BY <3>1, <3>2, <3>3, <3>4 DEF AckStep
  <2> QED
    BY <2>2, <2>3
<1> QED
  BY <1>3, <1>4, <1>5 DEF WayInv

LEMMA WayDeletion ==
  ASSUME Control, WayInv, DeletionStep
  PROVE  WayInv'
<1>0. session \in [Sessions -> SessionStates]
  BY DEF Control, Types, Shape
<1>1. UNCHANGED <<sender, work, ack>>
  BY DEF DeletionStep, DeleteBegin, DeleteCommit, DeleteFails, DeleteRetire, Create, storage
<1>2. CASE DeleteCommit
  <2>1. owed' = {} /\ UNCHANGED <<session, ack>>
    BY <1>2 DEF DeleteCommit
  <2> QED
    BY <2>1 DEF WayInv, Rises, Leaves, Unstored, ReleasesAreTaken
<1>3. CASE DeleteRetire
  <2>1. /\ UNCHANGED <<work, ack, owed, missed>>
        /\ \A s \in Sessions : /\ ~session'[s].alive /\ session'[s].pc = session[s].pc
                               /\ session'[s].mailbox = session[s].mailbox
    BY <1>0, <1>3 DEF DeleteRetire, history, SessionStates
  <2>2. \A s \in Sessions : ~Eligible(s)' /\ Rises(s)' /\ ReleasesAreTaken'
    BY <2>1 DEF Eligible, Rises, Rising, ReleasesAreTaken
  <2>3. \A s \in Sessions : Leaves(s)' /\ Unstored(s)'
    BY <2>1 DEF WayInv, Leaves, Unstored, Msgs
  <2>4. ReleasesAreTaken'
    BY <2>1 DEF ReleasesAreTaken
  <2> QED
    BY <2>2, <2>3, <2>4 DEF WayInv
<1>4. CASE UNCHANGED <<line, session, owed, missed>>
  <2>1. /\ \A a, b : Ahead(a, b) => Ahead(a, b)'
        /\ \A m : Handled(m) => Handled(m)'
    BY <1>1, <1>4 DEF Ahead, Handled, Waits, Holds, Current, Msgs
  <2>2. \A u \in Sessions : Rises(u)'
    <3> TAKE u \in Sessions
    <3>1. Rises(u) /\ (Rising(u)' => Rising(u)) /\ Msgs(work[u].backlog)' = Msgs(work[u].backlog)
      BY <1>1, <1>4 DEF WayInv, Rising, Msgs
    <3>2. \A p \in Senders : Current(p)' = Current(p)
      BY <1>1 DEF Current
    <3> QED
      BY <1>1, <1>4, <2>1, <3>1, <3>2 DEF Rises
  <2>3. \A u \in Sessions : /\ Eligible(u)' => \A m \in owed' : Handled(m)'
                            /\ Leaves(u)' /\ Unstored(u)'
    BY <1>1, <1>4, <2>1 DEF WayInv, Eligible, Leaves, Unstored, Msgs
  <2>4. ReleasesAreTaken'
    BY <1>1, <1>4 DEF WayInv, ReleasesAreTaken
  <2> QED
    BY <2>2, <2>3, <2>4 DEF WayInv
<1> QED
  BY <1>2, <1>3, <1>4 DEF DeletionStep, DeleteBegin, DeleteFails, Create, history

LEMMA WayInit ==
  ASSUME Init
  PROVE  WayInv
<1>1. owed = {}
  BY DEF Init
<1>2. \A s \in Sessions : session[s].alive = FALSE
  BY DEF Init, NoSession
<1> QED
  BY <1>1, <1>2 DEF WayInv, Rises, Leaves, Unstored, ReleasesAreTaken, Eligible

LEMMA WayStep ==
  ASSUME Control, RefInv, SortInv, WayInv, [Next]_vars
  PROVE  WayInv'
<1>1. ASSUME NEW p \in Senders, SenderStep(p) PROVE WayInv'
  BY <1>1, WaySender
<1>2. ASSUME NEW s \in Sessions, StreamStep(s) PROVE WayInv'
  BY <1>2, WayStream
<1>3. ASSUME NEW s \in Sessions, AckStep(s) PROVE WayInv'
  BY <1>3, WayAck
<1>4. CASE DeletionStep
  BY <1>4, WayDeletion
<1>5. CASE UNCHANGED vars
  <2>1. UNCHANGED <<line, sender, session, work, ack, owed, missed>>
    BY <1>5 DEF vars
  <2>2. /\ \A a, b : Ahead(a, b) => Ahead(a, b)'
        /\ \A m : Handled(m) => Handled(m)'
    BY <2>1 DEF Ahead, Handled, Waits, Holds, Current, Msgs
  <2>3. \A u \in Sessions : Rises(u)'
    <3> TAKE u \in Sessions
    <3>1. Rises(u) /\ (Rising(u)' => Rising(u)) /\ Msgs(work[u].backlog)' = Msgs(work[u].backlog)
      BY <2>1 DEF WayInv, Rising, Msgs
    <3>2. \A p \in Senders : Current(p)' = Current(p)
      BY <2>1 DEF Current
    <3> QED
      BY <2>1, <2>2, <3>1, <3>2 DEF Rises
  <2>4. \A u \in Sessions : /\ Eligible(u)' => \A m \in owed' : Handled(m)'
                            /\ Leaves(u)' /\ Unstored(u)'
    BY <2>1, <2>2 DEF WayInv, Eligible, Leaves, Unstored, Msgs
  <2>5. ReleasesAreTaken'
    BY <2>1 DEF WayInv, ReleasesAreTaken
  <2> QED
    BY <2>3, <2>4, <2>5 DEF WayInv
<1> QED
  BY <1>1, <1>2, <1>3, <1>4, <1>5 DEF Next

LEMMA WayAlways == Spec => []WayInv
<1>1. Init => WayInv
  BY WayInit
<1>2. KeepingInv /\ SortInv /\ WayInv /\ [Next]_vars => WayInv'
  BY WayStep DEF KeepingInv
<1> QED
  BY <1>1, <1>2, KeepingAlways, SortAlways, PTL DEF Spec

(* A session that became eligible leaves no stored message behind, and     *)
(* what it released has a task that removes it (commit_and_store reroutes  *)
(* after its place in the line, Outbox::release_messages).                 *)
THEOREM StrandedTheorem == Spec => []NothingStranded
<1>1. WayInv => NothingStranded
  <2> SUFFICES ASSUME WayInv PROVE NothingStranded
    OBVIOUS
  <2>1. ASSUME NEW m, Handled(m) PROVE m \in missed \/ OnItsWay(m)
    BY <2>1 DEF Handled, Waits, Holds, OnItsWay
  <2> QED
    BY <2>1 DEF WayInv, NothingStranded
<1> QED
  BY <1>1, WayAlways, PTL
=============================================================================
