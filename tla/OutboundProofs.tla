--------------------------- MODULE OutboundProofs ---------------------------
(***************************************************************************)
(* The links to other servers, for any number of pairs, streams, queues    *)
(* and stanzas: every link is served, every stanza admitted has one fate   *)
(* and is written in order, and the limits hold.                           *)
(*                                                                         *)
(* Two arguments carry the proofs. The first is about who has a queue: the *)
(* entry of a pair and the queue it names point at each other while anyone *)
(* works on the queue, and a stream stands by for one pair only, so that   *)
(* whoever gives a queue back or hands it on speaks for the link. The      *)
(* second is about the stanzas: the numbers of a pair that are admitted    *)
(* are divided among its queues and the three ways to be settled, and what *)
(* the queue of the link holds is newer than all that was written.         *)
(***************************************************************************)
EXTENDS Outbound, SequenceTheorems, FiniteSetTheorems, TLAPS

\* A queue somebody will write from, and one that a stream has.
Live == {"top", "dialing", "connected", "closing", "assigned", "served"}
Lent == {"assigned", "served"}

\* The stanzas of a queue, the one in hand included.
Held(z) == {z.chan[k] : k \in 1 .. Len(z.chan)} \cup ({z.current} \ {0})

\* They are in the order of their numbers.
Sorted(z) ==
  /\ \A j, k \in 1 .. Len(z.chan) : j < k => z.chan[j] < z.chan[k]
  /\ z.current # 0 => \A k \in 1 .. Len(z.chan) : z.current < z.chan[k]

\* The counter is the number of those that have their reservation.
Exact(z) ==
  /\ z.count = IF z.current # 0 /\ z.phase = "kept" THEN Len(z.chan) + 1 ELSE Len(z.chan)
  /\ z.count <= MaxQueued

\* What the place of a queue says of it.
Sane(z) ==
  /\ z.pc # "none" => z.pair \in Pairs
  /\ z.pc \in {"none", "gone"} => z.chan = <<>> /\ z.current = 0
  /\ z.pc \in Lent => z.by \in Streams
  /\ z.phase # "kept" => z.current # 0 /\ z.pc \in {"connected", "served"}

Slot(z) == z \in Slots /\ Sorted(z) /\ Exact(z) /\ Sane(z)

-----------------------------------------------------------------------------
(* The inductive invariant *)

Reasons == {"connection", "internal", "shutdown"}

Types ==
  /\ stopped \in BOOLEAN
  /\ entries \in [Pairs -> {Free, Backoff(FALSE), Backoff(TRUE)} \cup {Link(q) : q \in Queues}]
  /\ standby \in [Pairs -> Seq(Streams)]
  /\ queue \in [Queues -> Slots]
  /\ stream \in [Streams -> {"out", "open", "ended"}]
  /\ admitted \in [Pairs -> 0 .. MaxStanzas]
  /\ sent \in [Pairs -> Seq(1 .. MaxStanzas)]
  /\ bounced \subseteq Ids
  /\ lost \subseteq Pairs \X (1 .. MaxStanzas) \X Reasons

Kept == \A q \in Queues : Slot(queue[q])

\* A queue that is worked on is the one its pair's entry names ...
Owning == \A q \in Queues : queue[q].pc \in Live => entries[queue[q].pair] = Link(q)

\* ... and the entry of a link names such a queue; a stop leaves it while the
\* task goes.
Tabled ==
  \A p \in Pairs : entries[p].kind = "link" =>
    \E q \in Queues :
      /\ entries[p] = Link(q) /\ queue[q].pair = p
      /\ queue[q].pc \in Live \/ (stopped /\ queue[q].pc = "leaving")

In(list, s) == \E k \in 1 .. Len(list) : list[k] = s

\* A stream stands by once, and for one pair, as long as it is in.
Roll ==
  /\ \A p \in Pairs : \A j, k \in 1 .. Len(standby[p]) : standby[p][j] = standby[p][k] => j = k
  /\ \A s \in Streams, p \in Pairs :
       In(standby[p], s) => stream[s] # "out" /\ \A r \in Pairs : In(standby[r], s) => r = p

\* A stream has one queue at most, one of the pair it stands by for, and it is
\* in while it has it; while it writes it is open.
Lone == \A q, r \in Queues :
  queue[q].pc \in Lent /\ queue[r].pc \in Lent /\ queue[q].by = queue[r].by => q = r
Standing == ~stopped =>
  \A q \in Queues : queue[q].pc \in Lent => In(standby[queue[q].pair], queue[q].by)
Attended == \A q \in Queues : queue[q].pc \in Lent =>
  /\ stream[queue[q].by] # "out"
  /\ queue[q].phase # "kept" => stream[queue[q].by] = "open"

Table == Owning /\ Tabled /\ Roll /\ Lone /\ Standing /\ Attended

-----------------------------------------------------------------------------
Waits(p, n, q)   == queue[q].pair = p /\ n \in Held(queue[q])
Written(p, n)    == \E k \in 1 .. Len(sent[p]) : sent[p][k] = n
Answered(p, n)   == <<p, n>> \in bounced
Counted(p, n, r) == <<p, n, r>> \in lost

\* What is settled is settled in one way.
SettledOnce(p, n) ==
  /\ ~(Written(p, n) /\ Answered(p, n))
  /\ \A r \in Reasons : Counted(p, n, r) => ~Written(p, n) /\ ~Answered(p, n)
  /\ \A r, t \in Reasons : Counted(p, n, r) /\ Counted(p, n, t) => r = t
Settled(p, n) == Written(p, n) \/ Answered(p, n) \/ \E r \in Reasons : Counted(p, n, r)

\* The numbers admitted are divided among queues and what is settled.
Fated ==
  \A p \in Pairs, n \in 1 .. MaxStanzas :
    /\ SettledOnce(p, n)
    /\ (n <= admitted[p]) = (Settled(p, n) \/ \E q \in Queues : Waits(p, n, q))
    /\ \A q \in Queues : Waits(p, n, q) =>
         ~Settled(p, n) /\ \A r \in Queues : Waits(p, n, r) => r = q

\* What the queue of a link holds is newer than what was written.
Ahead ==
  \A q \in Queues : queue[q].pc \in Live =>
    \A n \in Held(queue[q]), k \in 1 .. Len(sent[queue[q].pair]) : sent[queue[q].pair][k] < n
Ascending ==
  \A p \in Pairs : \A j, k \in 1 .. Len(sent[p]) : j < k => sent[p][j] < sent[p][k]

\* A task that leaves while the router runs leaves nothing.
Emptied == ~stopped => \A q \in Queues : queue[q].pc = "leaving" => Held(queue[q]) = {}

Stanzas == Fated /\ Ahead /\ Ascending /\ Emptied /\ DroppedOnlyAtStop

Places == IsFiniteSet(Occupied) /\ Cardinality(Occupied) <= MaxLinks

IInv == Types /\ Kept /\ Table /\ Stanzas /\ Places

-----------------------------------------------------------------------------
(* What is done to a queue *)

LEMMA SlotFields ==
  ASSUME OutboundAssumption, NEW z \in Slots
  PROVE  /\ z.chan \in Seq(1 .. MaxStanzas) /\ Len(z.chan) \in Nat
         /\ \A k \in 1 .. Len(z.chan) : z.chan[k] \in 1 .. MaxStanzas /\ z.chan[k] \in Nat
         /\ z.current \in 0 .. MaxStanzas /\ z.current \in Nat /\ z.count \in Nat
         /\ Held(z) \subseteq 1 .. MaxStanzas
<1>1. /\ z.chan \in Seq(1 .. MaxStanzas) /\ z.current \in 0 .. MaxStanzas /\ z.count \in Nat
  BY DEF Slots
<1>2. Len(z.chan) \in Nat /\ \A k \in 1 .. Len(z.chan) : z.chan[k] \in 1 .. MaxStanzas
  <2>1. ASSUME NEW S, NEW c \in Seq(S)
        PROVE  Len(c) \in Nat /\ \A k \in 1 .. Len(c) : c[k] \in S
    BY LenProperties, ElementOfSeq
  <2> QED BY <1>1, <2>1
<1>3. MaxStanzas \in Nat
  BY DEF OutboundAssumption
<1>4. \A k \in 1 .. Len(z.chan) : z.chan[k] \in Nat
  BY <1>2, <1>3
<1>5. z.current \in Nat
  BY <1>1, <1>3
<1>6. Held(z) \subseteq 1 .. MaxStanzas
  BY <1>1, <1>2, <1>3 DEF Held
<1> QED BY <1>1, <1>2, <1>4, <1>5, <1>6

\* LinkHandle::enqueue puts a new stanza behind the others.
LEMMA EnqueueSlot ==
  ASSUME OutboundAssumption, NEW z, Slot(z), z.pc \in Live, z.count < MaxQueued,
         NEW n \in 1 .. MaxStanzas, \A m \in Held(z) : m < n
  PROVE  LET y == [z EXCEPT !.chan = Append(z.chan, n), !.count = z.count + 1]
         IN  Slot(y) /\ Held(y) = Held(z) \cup {n}
<1> DEFINE c == z.chan
           d == Append(c, n)
           y == [z EXCEPT !.chan = d, !.count = z.count + 1]
<1>1. z \in Slots BY DEF Slot
<1>2. /\ c \in Seq(1 .. MaxStanzas) /\ Len(c) \in Nat
      /\ \A k \in 1 .. Len(c) : c[k] \in 1 .. MaxStanzas /\ c[k] \in Nat
      /\ z.current \in Nat /\ z.count \in Nat
  BY <1>1, SlotFields
<1>3. n \in Nat /\ MaxQueued \in Nat BY DEF OutboundAssumption
<1>4. /\ d \in Seq(1 .. MaxStanzas) /\ Len(d) = Len(c) + 1
      /\ \A k \in 1 .. Len(c) : d[k] = c[k]
      /\ d[Len(c) + 1] = n
  BY <1>2, AppendProperties
<1>5. \A k \in 1 .. Len(c) : c[k] < n
  BY DEF Held
<1>6. z.current # 0 => z.current < n
  BY DEF Held
<1> HIDE DEF d
<1>7. y \in Slots
  <2>1. d \in Seq(1 .. MaxStanzas) /\ z.count + 1 \in Nat BY <1>2, <1>4
  <2> QED BY <1>1, <2>1 DEF Slots
<1>8. /\ y.chan = d /\ y.current = z.current /\ y.phase = z.phase /\ y.count = z.count + 1
      /\ y.pc = z.pc /\ y.by = z.by /\ y.pair = z.pair
  BY <1>1 DEF Slots
<1> HIDE DEF y, c
<1>9. Sorted(y)
  <2>1. \A k \in 1 .. Len(d) : k \in 1 .. Len(c) \/ k = Len(c) + 1
    BY <1>2, <1>4
  <2>2. Sorted(z) BY DEF Slot
  <2>3. \A j, k \in 1 .. Len(c) : j < k => c[j] < c[k]
    BY <2>2 DEF Sorted, c
  <2>4. \A j, k \in 1 .. Len(d) : j < k => d[j] < d[k]
    <3> SUFFICES ASSUME NEW j \in 1 .. Len(d), NEW k \in 1 .. Len(d), j < k
                 PROVE  d[j] < d[k]
      OBVIOUS
    <3>1. j \in 1 .. Len(c) BY <1>2, <1>4
    <3> QED BY <2>1, <2>3, <3>1, <1>4, <1>5
  <2>5. z.current # 0 => \A k \in 1 .. Len(c) : z.current < c[k]
    BY <2>2 DEF Sorted, c
  <2>6. z.current # 0 => \A k \in 1 .. Len(d) : z.current < d[k]
    BY <2>1, <2>5, <1>4, <1>6
  <2> QED BY <2>4, <2>6, <1>8 DEF Sorted
<1>10. Exact(y)
  <2>1. Exact(z) BY DEF Slot
  <2>2. z.count = IF z.current # 0 /\ z.phase = "kept" THEN Len(c) + 1 ELSE Len(c)
    BY <2>1 DEF Exact, c
  <2> QED BY <2>2, <1>2, <1>3, <1>4, <1>8 DEF Exact
<1>11. Sane(y)
  BY <1>8 DEF Slot, Sane, Live
<1>12. Held(y) = Held(z) \cup {n}
  <2>1. {d[k] : k \in 1 .. Len(d)} = {c[k] : k \in 1 .. Len(c)} \cup {n}
    <3>1. 1 .. Len(d) = (1 .. Len(c)) \cup {Len(c) + 1}
      BY <1>2, <1>4
    <3> QED BY <3>1, <1>4
  <2>2. Held(z) = {c[k] : k \in 1 .. Len(c)} \cup ({z.current} \ {0})
    BY DEF Held, c
  <2>3. Held(y) = {d[k] : k \in 1 .. Len(d)} \cup ({z.current} \ {0})
    BY <1>8 DEF Held
  <2> QED BY <2>1, <2>2, <2>3
<1> QED BY <1>7, <1>9, <1>10, <1>11, <1>12 DEF Slot, y, d, c

\* What is taken out of the channel: the first number, which is the least.
LEMMA TakeSeq ==
  ASSUME OutboundAssumption, NEW z, Slot(z), z.chan # <<>>
  PROVE  /\ Head(z.chan) \in 1 .. MaxStanzas /\ Head(z.chan) # 0
         /\ Tail(z.chan) \in Seq(1 .. MaxStanzas)
         /\ Len(z.chan) \in Nat \ {0} /\ Len(Tail(z.chan)) = Len(z.chan) - 1
         /\ \A j, k \in 1 .. Len(Tail(z.chan)) : j < k => Tail(z.chan)[j] < Tail(z.chan)[k]
         /\ \A k \in 1 .. Len(Tail(z.chan)) : Head(z.chan) < Tail(z.chan)[k]
         /\ {z.chan[k] : k \in 1 .. Len(z.chan)}
              = {Tail(z.chan)[k] : k \in 1 .. Len(Tail(z.chan))} \cup {Head(z.chan)}
         /\ Head(z.chan) \notin {Tail(z.chan)[k] : k \in 1 .. Len(Tail(z.chan))}
<1> DEFINE c == z.chan
           t == Tail(c)
           h == Head(c)
<1>1. z \in Slots /\ Sorted(z) BY DEF Slot
<1>2. /\ c \in Seq(1 .. MaxStanzas) /\ Len(c) \in Nat
      /\ \A k \in 1 .. Len(c) : c[k] \in 1 .. MaxStanzas /\ c[k] \in Nat
  BY <1>1, SlotFields
<1>3. Len(c) # 0 BY <1>2, EmptySeq
<1>4. /\ h \in 1 .. MaxStanzas /\ t \in Seq(1 .. MaxStanzas) /\ Len(t) = Len(c) - 1
      /\ \A k \in 1 .. Len(t) : t[k] = c[k + 1]
  BY <1>2, HeadTailProperties
<1>5. h = c[1] BY <1>2, <1>3
<1>6. \A j, k \in 1 .. Len(c) : j < k => c[j] < c[k]
  BY <1>1 DEF Sorted
<1> HIDE DEF c, t, h
<1>a. \A k \in 1 .. Len(t) : k + 1 \in 1 .. Len(c) /\ k + 1 # 1
  BY <1>2, <1>3, <1>4
<1>b. 1 \in 1 .. Len(c) BY <1>2, <1>3
<1>7. \A j, k \in 1 .. Len(t) : j < k => t[j] < t[k]
  <2> SUFFICES ASSUME NEW j \in 1 .. Len(t), NEW k \in 1 .. Len(t), j < k
               PROVE  t[j] < t[k]
    OBVIOUS
  <2>1. j + 1 < k + 1 OBVIOUS
  <2> QED BY <2>1, <1>a, <1>4, <1>6
<1>8. \A k \in 1 .. Len(t) : h < t[k]
  <2> SUFFICES ASSUME NEW k \in 1 .. Len(t) PROVE h < t[k]
    OBVIOUS
  <2>1. 1 < k + 1 OBVIOUS
  <2> QED BY <2>1, <1>a, <1>b, <1>4, <1>5, <1>6
<1>9. {c[k] : k \in 1 .. Len(c)} = {t[k] : k \in 1 .. Len(t)} \cup {h}
  <2>1. ASSUME NEW k \in 1 .. Len(c) PROVE c[k] \in {t[i] : i \in 1 .. Len(t)} \cup {h}
    <3>1. CASE k = 1 BY <3>1, <1>5
    <3>2. CASE k # 1
      <4>1. k - 1 \in 1 .. Len(t) /\ (k - 1) + 1 = k BY <3>2, <1>2, <1>3, <1>4
      <4>2. t[k - 1] = c[k] BY <4>1, <1>4
      <4> QED BY <4>1, <4>2
    <3> QED BY <3>1, <3>2
  <2>2. ASSUME NEW k \in 1 .. Len(t) PROVE t[k] \in {c[i] : i \in 1 .. Len(c)}
    <3>1. k + 1 \in 1 .. Len(c) BY <1>2, <1>3, <1>4
    <3> QED BY <3>1, <1>4
  <2>3. h \in {c[i] : i \in 1 .. Len(c)}
    <3>1. 1 \in 1 .. Len(c) BY <1>2, <1>3
    <3> QED BY <3>1, <1>5
  <2> QED BY <2>1, <2>2, <2>3
<1>10. \A k \in 1 .. Len(t) : t[k] \in Nat
  <2>1. \A k \in 1 .. Len(t) : k + 1 \in 1 .. Len(c) BY <1>2, <1>3, <1>4
  <2> QED BY <2>1, <1>2, <1>4
<1>11. h \notin {t[k] : k \in 1 .. Len(t)}
  BY <1>4, <1>8, <1>10
<1>12. h \in 1 .. MaxStanzas /\ h # 0 BY <1>4
<1> QED BY <1>2, <1>3, <1>4, <1>7, <1>8, <1>9, <1>11, <1>12 DEF c, t, h

\* The next stanza is taken in hand.
LEMMA ReceiveSlot ==
  ASSUME OutboundAssumption, NEW z, Slot(z), z.pc \in Live, z.current = 0, z.chan # <<>>
  PROVE  LET y == [z EXCEPT !.current = Head(z.chan), !.chan = Tail(z.chan)]
         IN  Slot(y) /\ Held(y) = Held(z)
<1> DEFINE y == [z EXCEPT !.current = Head(z.chan), !.chan = Tail(z.chan)]
           c == z.chan
           t == Tail(c)
           h == Head(c)
<1>1. z \in Slots /\ Exact(z) /\ Sane(z) BY DEF Slot
<1>2. /\ h \in 1 .. MaxStanzas /\ h # 0 /\ t \in Seq(1 .. MaxStanzas)
      /\ Len(c) \in Nat \ {0} /\ Len(t) = Len(c) - 1
      /\ \A j, k \in 1 .. Len(t) : j < k => t[j] < t[k]
      /\ \A k \in 1 .. Len(t) : h < t[k]
      /\ {c[k] : k \in 1 .. Len(c)} = {t[k] : k \in 1 .. Len(t)} \cup {h}
  BY TakeSeq
<1>3. h \in 0 .. MaxStanzas BY <1>2
<1>4. y \in Slots BY <1>1, <1>2, <1>3 DEF Slots
<1>5. /\ y.chan = t /\ y.current = h /\ y.phase = z.phase /\ y.count = z.count
      /\ y.pc = z.pc /\ y.by = z.by /\ y.pair = z.pair
  BY <1>1 DEF Slots
<1>6. z.phase = "kept" BY <1>1 DEF Sane
<1>7. z.count = Len(c) /\ z.count <= MaxQueued
  BY <1>1, <1>2 DEF Exact
<1> HIDE DEF y, c, t, h
<1>8. Sorted(y) BY <1>2, <1>5 DEF Sorted
<1>9. Exact(y) BY <1>2, <1>5, <1>6, <1>7 DEF Exact
<1>10. Sane(y) BY <1>1, <1>5, <1>6 DEF Sane, Live
<1>11. Held(y) = Held(z) BY <1>2, <1>5 DEF Held, c
<1> QED BY <1>4, <1>8, <1>9, <1>10, <1>11 DEF Slot, y

\* The stanza in hand gives its reservation back and stays in hand.
LEMMA BegunSlot ==
  ASSUME OutboundAssumption, NEW z, Slot(z), z.pc \in {"connected", "served"},
         z.current # 0, z.phase = "kept", NEW ph \in {"writing", "rejected"}
  PROVE  LET y == [z EXCEPT !.phase = ph, !.count = z.count - 1]
         IN  Slot(y) /\ Held(y) = Held(z)
<1> DEFINE y == [z EXCEPT !.phase = ph, !.count = z.count - 1]
<1>1. z \in Slots /\ Sorted(z) /\ Exact(z) /\ Sane(z) BY DEF Slot
<1>2. Len(z.chan) \in Nat /\ z.count \in Nat /\ MaxQueued \in Nat
  BY <1>1, SlotFields DEF OutboundAssumption
<1>3. z.count = Len(z.chan) + 1 /\ z.count <= MaxQueued BY <1>1 DEF Exact
<1>4. z.count - 1 \in Nat BY <1>2, <1>3
<1>5. y \in Slots BY <1>1, <1>4 DEF Slots
<1>6. /\ y.chan = z.chan /\ y.current = z.current /\ y.phase = ph /\ y.count = z.count - 1
      /\ y.pc = z.pc /\ y.by = z.by /\ y.pair = z.pair
  BY <1>1 DEF Slots
<1> HIDE DEF y
<1>7. Sorted(y) /\ Held(y) = Held(z) BY <1>1, <1>6 DEF Sorted, Held
<1>8. Exact(y)
  <2>1. z.count - 1 = Len(z.chan) /\ z.count - 1 <= MaxQueued BY <1>2, <1>3
  <2> QED BY <2>1, <1>2, <1>6 DEF Exact
<1>9. Sane(y) BY <1>1, <1>6 DEF Sane
<1> QED BY <1>5, <1>7, <1>8, <1>9 DEF Slot, y

\* The hand is emptied, with the reservation if the stanza still had it.
LEMMA PutSlot ==
  ASSUME OutboundAssumption, NEW z, Slot(z), z.pc # "none", z.current # 0,
         NEW c \in {"connected", "closing", "served", "bouncing", "leaving"},
         c = "served" => z.by \in Streams,
         NEW m, m = IF z.phase = "kept" THEN z.count - 1 ELSE z.count
  PROVE  LET y == [z EXCEPT !.pc = c, !.current = 0, !.phase = "kept", !.count = m]
         IN  Slot(y) /\ Held(y) = Held(z) \ {z.current} /\ z.current \in Held(z)
<1> DEFINE y == [z EXCEPT !.pc = c, !.current = 0, !.phase = "kept", !.count = m]
<1>1. z \in Slots /\ Sorted(z) /\ Exact(z) /\ Sane(z) BY DEF Slot
<1>2. /\ Len(z.chan) \in Nat /\ z.count \in Nat /\ MaxQueued \in Nat /\ z.current \in Nat
      /\ \A k \in 1 .. Len(z.chan) : z.chan[k] \in Nat
  BY <1>1, SlotFields DEF OutboundAssumption
<1>3. m = Len(z.chan) /\ m <= MaxQueued
  <2>1. /\ z.count = IF z.phase = "kept" THEN Len(z.chan) + 1 ELSE Len(z.chan)
        /\ z.count <= MaxQueued
    BY <1>1 DEF Exact
  <2> QED BY <1>2, <2>1
<1>4. 0 \in 0 .. MaxStanzas BY DEF OutboundAssumption
<1>5. y \in Slots BY <1>1, <1>2, <1>3, <1>4 DEF Slots
<1>6. /\ y.chan = z.chan /\ y.current = 0 /\ y.phase = "kept" /\ y.count = m
      /\ y.pc = c /\ y.by = z.by /\ y.pair = z.pair
  BY <1>1 DEF Slots
<1> HIDE DEF y
<1>7. Sorted(y) BY <1>1, <1>6 DEF Sorted
<1>8. \A k \in 1 .. Len(z.chan) : z.current < z.chan[k] /\ z.chan[k] # z.current
  BY <1>1, <1>2 DEF Sorted
<1>9. Held(y) = Held(z) \ {z.current} /\ z.current \in Held(z)
  BY <1>6, <1>8 DEF Held
<1>10. Exact(y) BY <1>2, <1>3, <1>6 DEF Exact
<1>11. Sane(y) BY <1>1, <1>6 DEF Sane, Lent
<1> QED BY <1>5, <1>7, <1>9, <1>10, <1>11 DEF Slot, y

\* A stanza is taken out of the channel to be answered.
LEMMA TakenSlot ==
  ASSUME OutboundAssumption, NEW z, Slot(z), z.pc = "bouncing", z.current = 0, z.chan # <<>>,
         NEW c \in {"bouncing", "leaving"}
  PROVE  LET y == [z EXCEPT !.pc = c, !.chan = Tail(z.chan), !.count = z.count - 1]
         IN  Slot(y) /\ Held(y) = Held(z) \ {Head(z.chan)} /\ Head(z.chan) \in Held(z)
<1> DEFINE d == z.chan
           t == Tail(d)
           h == Head(d)
           y == [z EXCEPT !.pc = c, !.chan = t, !.count = z.count - 1]
<1>1. z \in Slots /\ Exact(z) /\ Sane(z) BY DEF Slot
<1>2. /\ h \in 1 .. MaxStanzas /\ h # 0 /\ t \in Seq(1 .. MaxStanzas)
      /\ Len(d) \in Nat \ {0} /\ Len(t) = Len(d) - 1
      /\ \A j, k \in 1 .. Len(t) : j < k => t[j] < t[k]
      /\ {d[k] : k \in 1 .. Len(d)} = {t[k] : k \in 1 .. Len(t)} \cup {h}
      /\ h \notin {t[k] : k \in 1 .. Len(t)}
  BY TakeSeq
<1>3. z.count = Len(d) /\ z.count <= MaxQueued /\ z.phase = "kept" /\ MaxQueued \in Nat
  BY <1>1, <1>2 DEF Exact, Sane, OutboundAssumption
<1>4. z.count - 1 = Len(t) /\ z.count - 1 \in Nat /\ z.count - 1 <= MaxQueued
  BY <1>2, <1>3
<1> HIDE DEF t, h
<1>5. y \in Slots BY <1>1, <1>2, <1>4 DEF Slots
<1>6. /\ y.chan = t /\ y.current = 0 /\ y.phase = "kept" /\ y.count = z.count - 1
      /\ y.pc = c /\ y.by = z.by /\ y.pair = z.pair
  BY <1>1, <1>3 DEF Slots
<1> HIDE DEF y, d
<1>7. Sorted(y) BY <1>2, <1>6 DEF Sorted
<1>8. Exact(y) BY <1>2, <1>4, <1>6 DEF Exact
<1>9. Sane(y) BY <1>1, <1>6 DEF Sane, Lent
<1>10. Held(y) = Held(z) \ {h} /\ h \in Held(z) BY <1>2, <1>6 DEF Held, d
<1> QED BY <1>5, <1>7, <1>8, <1>9, <1>10 DEF Slot, y, t, h, d

\* A queue goes from one place to another with what it holds.
LEMMA PlaceSlot ==
  ASSUME NEW z, Slot(z), z.pc # "none", z.phase = "kept",
         NEW c \in Live \cup {"bouncing", "leaving"}, NEW b \in Streams \cup {None},
         c \in Lent => b \in Streams
  PROVE  LET y == [z EXCEPT !.pc = c, !.by = b]
         IN  Slot(y) /\ Held(y) = Held(z)
<1> DEFINE y == [z EXCEPT !.pc = c, !.by = b]
<1>1. z \in Slots /\ Sorted(z) /\ Exact(z) /\ Sane(z) BY DEF Slot
<1>2. y \in Slots BY <1>1 DEF Slots, Live
<1>3. /\ y.chan = z.chan /\ y.current = z.current /\ y.phase = "kept" /\ y.count = z.count
      /\ y.pc = c /\ y.by = b /\ y.pair = z.pair
  BY <1>1 DEF Slots
<1> HIDE DEF y
<1>4. Sorted(y) /\ Held(y) = Held(z) BY <1>1, <1>3 DEF Sorted, Held
<1>5. Exact(y) BY <1>1, <1>3 DEF Exact
<1>6. Sane(y) BY <1>1, <1>3 DEF Sane, Live
<1> QED BY <1>2, <1>4, <1>5, <1>6 DEF Slot, y

\* Nothing is left of a queue that is dropped.
LEMMA DroppedSlot ==
  ASSUME OutboundAssumption, NEW z, Slot(z), z.pc # "none"
  PROVE  LET y == [z EXCEPT !.pc = "gone", !.by = None, !.chan = <<>>,
                            !.current = 0, !.phase = "kept", !.count = 0]
         IN  Slot(y) /\ Held(y) = {}
<1> DEFINE y == [z EXCEPT !.pc = "gone", !.by = None, !.chan = <<>>,
                          !.current = 0, !.phase = "kept", !.count = 0]
<1>1. z \in Slots /\ Sane(z) BY DEF Slot
<1>2. 0 \in 0 .. MaxStanzas /\ <<>> \in Seq(1 .. MaxStanzas) /\ MaxQueued \in Nat
  BY EmptySeq DEF OutboundAssumption
<1>3. y \in Slots BY <1>1, <1>2 DEF Slots
<1>4. /\ y.chan = <<>> /\ y.current = 0 /\ y.phase = "kept" /\ y.count = 0
      /\ y.pc = "gone" /\ y.by = None /\ y.pair = z.pair
  BY <1>1 DEF Slots
<1> HIDE DEF y
<1>5. Len(y.chan) = 0 BY <1>4
<1>6. Sorted(y) BY <1>4, <1>5 DEF Sorted
<1>7. Held(y) = {} BY <1>4, <1>5 DEF Held
<1>8. Exact(y) BY <1>2, <1>4, <1>5 DEF Exact
<1>9. Sane(y) BY <1>1, <1>4 DEF Sane, Lent
<1> QED BY <1>3, <1>6, <1>7, <1>8, <1>9 DEF Slot, y

\* The queues there are not yet, and the one a link begins with.
LEMMA NewSlot ==
  ASSUME OutboundAssumption
  PROVE  /\ Slot(NoQueue) /\ Held(NoQueue) = {}
         /\ \A p \in Pairs, n \in 1 .. MaxStanzas :
              LET y == [NoQueue EXCEPT !.pair = p, !.pc = "top", !.chan = <<n>>, !.count = 1]
              IN  Slot(y) /\ Held(y) = {n}
<1>1. 0 \in 0 .. MaxStanzas /\ <<>> \in Seq(1 .. MaxStanzas) /\ MaxQueued \in Nat \ {0}
  BY EmptySeq DEF OutboundAssumption
<1>2. NoQueue \in Slots BY <1>1 DEF Slots, NoQueue
<1>3. /\ NoQueue.chan = <<>> /\ NoQueue.current = 0 /\ NoQueue.phase = "kept"
      /\ NoQueue.count = 0 /\ NoQueue.pc = "none" /\ Len(NoQueue.chan) = 0
  BY DEF NoQueue
<1>4. Slot(NoQueue) /\ Held(NoQueue) = {}
  <2>1. Sorted(NoQueue) /\ Held(NoQueue) = {} BY <1>3 DEF Sorted, Held
  <2>2. Exact(NoQueue) BY <1>1, <1>3 DEF Exact
  <2>3. Sane(NoQueue) BY <1>3 DEF Sane, Lent
  <2> QED BY <1>2, <2>1, <2>2, <2>3 DEF Slot
<1>5. ASSUME NEW p \in Pairs, NEW n \in 1 .. MaxStanzas
      PROVE  LET y == [NoQueue EXCEPT !.pair = p, !.pc = "top", !.chan = <<n>>, !.count = 1]
             IN  Slot(y) /\ Held(y) = {n}
  <2> DEFINE c == <<n>>
             y == [NoQueue EXCEPT !.pair = p, !.pc = "top", !.chan = c, !.count = 1]
  <2>1. c \in Seq(1 .. MaxStanzas) /\ Len(c) = 1 /\ c[1] = n OBVIOUS
  <2> HIDE DEF c
  <2>2. y \in Slots BY <1>2, <2>1 DEF Slots
  <2>3. /\ y.chan = c /\ y.current = 0 /\ y.phase = "kept" /\ y.count = 1
        /\ y.pc = "top" /\ y.pair = p
    BY DEF NoQueue
  <2> HIDE DEF y
  <2>4. \A k \in 1 .. Len(c) : k = 1 BY <2>1
  <2>5. Sorted(y) BY <2>3, <2>4 DEF Sorted
  <2>6. Held(y) = {n}
    <3>1. {c[k] : k \in 1 .. Len(c)} = {n} BY <2>1, <2>4
    <3> QED BY <2>3, <3>1 DEF Held
  <2>7. Exact(y)
    <3>1. y.count = Len(y.chan) /\ y.count <= MaxQueued BY <1>1, <2>1, <2>3
    <3> QED BY <3>1, <2>1, <2>3 DEF Exact
  <2>8. Sane(y) BY <2>3 DEF Sane, Lent
  <2> QED BY <2>2, <2>5, <2>6, <2>7, <2>8 DEF Slot, y, c
<1> QED BY <1>4, <1>5

\* Left and Held are the same stanzas.
LEMMA LeftFacts ==
  ASSUME OutboundAssumption, NEW q \in Queues, Slot(queue[q])
  PROVE  /\ LeftSet(q) = Held(queue[q])
         /\ Drained(q) <=> Held(queue[q]) = {}
         /\ queue[q].current = 0 => Left(q) = queue[q].chan
         /\ queue[q].current # 0 =>
              Head(Left(q)) = queue[q].current /\ Tail(Left(q)) = queue[q].chan
<1> DEFINE c == queue[q].chan
           m == queue[q].current
           l == <<m>> \o c
<1>1. queue[q] \in Slots BY DEF Slot
<1>2. c \in Seq(1 .. MaxStanzas) /\ Len(c) \in Nat /\ m \in 0 .. MaxStanzas
  BY <1>1, SlotFields
<1>3. Left(q) = IF m = 0 THEN c ELSE l
  BY <1>2, ConcatEmptySeq DEF Left
<1>4. LeftSet(q) = {Left(q)[k] : k \in 1 .. Len(Left(q))}
  <2>1. Left(q) \in Seq(0 .. MaxStanzas)
    <3>1. c \in Seq(0 .. MaxStanzas)
      <4>1. 1 .. MaxStanzas \subseteq 0 .. MaxStanzas OBVIOUS
      <4> QED BY <1>2, <4>1, SeqMonotonic
    <3>2. <<m>> \in Seq(0 .. MaxStanzas) BY <1>2
    <3> QED BY <3>1, <3>2, <1>3, ConcatProperties
  <2>2. DOMAIN Left(q) = 1 .. Len(Left(q)) BY <2>1, LenProperties
  <2> QED BY <2>2 DEF LeftSet
<1>5. CASE m = 0
  <2>1. Held(queue[q]) = {c[k] : k \in 1 .. Len(c)} BY <1>5 DEF Held
  <2>2. c = <<>> <=> Held(queue[q]) = {}
    <3>1. c # <<>> => 1 \in 1 .. Len(c)
      <4>1. c # <<>> => Len(c) # 0 BY <1>2, EmptySeq
      <4> QED BY <4>1, <1>2
    <3>2. c = <<>> => Len(c) = 0 OBVIOUS
    <3>3. c = <<>> => Held(queue[q]) = {} BY <2>1, <3>2
    <3>4. c # <<>> => Held(queue[q]) # {} BY <2>1, <3>1
    <3> QED BY <3>3, <3>4
  <2> QED BY <1>3, <1>4, <1>5, <2>1, <2>2 DEF Drained
<1>6. CASE m # 0
  <2> DEFINE a == <<m>>
  <2>1. a \in Seq(0 .. MaxStanzas) /\ Len(a) = 1 /\ a[1] = m BY <1>2
  <2>2. c \in Seq(0 .. MaxStanzas)
    <3>1. 1 .. MaxStanzas \subseteq 0 .. MaxStanzas OBVIOUS
    <3> QED BY <1>2, <3>1, SeqMonotonic
  <2> HIDE DEF a, c
  <2>3. /\ a \o c \in Seq(0 .. MaxStanzas) /\ Len(a \o c) = 1 + Len(c)
        /\ \A k \in 1 .. 1 + Len(c) : (a \o c)[k] = IF k <= 1 THEN a[k] ELSE c[k - 1]
    <3>1. /\ a \o c \in Seq(0 .. MaxStanzas) /\ Len(a \o c) = Len(a) + Len(c)
          /\ \A k \in 1 .. Len(a) + Len(c) :
               (a \o c)[k] = IF k <= Len(a) THEN a[k] ELSE c[k - Len(a)]
      BY <2>1, <2>2, ConcatProperties
    <3> QED BY <2>1, <3>1
  <2> DEFINE b == a \o c
  <2>4. b = l BY DEF a
  <2> HIDE DEF b, l
  <2>5. b # <<>> /\ Head(b) = m
    <3>1. Len(b) # 0 BY <1>2, <2>3 DEF b, c
    <3>2. b # <<>> BY <3>1
    <3>3. 1 \in 1 .. 1 + Len(c) BY <1>2 DEF c
    <3>4. b[1] = m BY <2>1, <2>3, <3>3 DEF b
    <3> QED BY <2>3, <3>2, <3>4 DEF b
  <2>6. Tail(b) = c
    <3>1. /\ Tail(b) \in Seq(0 .. MaxStanzas) /\ Len(Tail(b)) = Len(b) - 1
          /\ \A k \in 1 .. Len(Tail(b)) : Tail(b)[k] = b[k + 1]
      BY <2>3, <2>5, HeadTailProperties DEF b
    <3>2. Len(Tail(b)) = Len(c) BY <1>2, <2>3, <3>1 DEF b, c
    <3>3. ASSUME NEW k \in 1 .. Len(c) PROVE Tail(b)[k] = c[k]
      <4>1. k + 1 \in 1 .. 1 + Len(c) /\ ~(k + 1 <= 1) /\ (k + 1) - 1 = k
        BY <1>2 DEF c
      <4>2. b[k + 1] = c[k] BY <4>1, <2>3 DEF b
      <4> QED BY <4>2, <3>1, <3>2
    <3> QED BY <2>2, <3>1, <3>2, <3>3, SeqEqual
  <2>7. {b[k] : k \in 1 .. Len(b)} = {c[k] : k \in 1 .. Len(c)} \cup {m}
    <3>1. ASSUME NEW k \in 1 .. Len(b) PROVE b[k] \in {c[i] : i \in 1 .. Len(c)} \cup {m}
      <4>1. k \in 1 .. 1 + Len(c) BY <2>3 DEF b
      <4>2. CASE k <= 1
        <5>1. k = 1 BY <4>1, <4>2, <1>2 DEF c
        <5> QED BY <5>1, <4>1, <2>1, <2>3 DEF b
      <4>3. CASE ~(k <= 1)
        <5>1. k - 1 \in 1 .. Len(c) BY <4>1, <4>3, <1>2 DEF c
        <5> QED BY <5>1, <4>1, <4>3, <2>3 DEF b
      <4> QED BY <4>2, <4>3
    <3>2. ASSUME NEW k \in 1 .. Len(c) PROVE c[k] \in {b[i] : i \in 1 .. Len(b)}
      <4>1. k + 1 \in 1 .. 1 + Len(c) /\ ~(k + 1 <= 1) /\ (k + 1) - 1 = k
        BY <1>2 DEF c
      <4>2. b[k + 1] = c[k] BY <4>1, <2>3 DEF b
      <4> QED BY <4>1, <4>2, <2>3 DEF b
    <3>3. m \in {b[i] : i \in 1 .. Len(b)}
      <4>1. 1 \in 1 .. 1 + Len(c) BY <1>2 DEF c
      <4> QED BY <4>1, <2>1, <2>3 DEF b
    <3> QED BY <3>1, <3>2, <3>3
  <2>8. Held(queue[q]) = {c[k] : k \in 1 .. Len(c)} \cup {m} BY <1>6 DEF Held, c
  <2>9. Left(q) = b BY <1>3, <1>6, <2>4
  <2>10. ~Drained(q) BY <1>6 DEF Drained
  <2> QED BY <1>4, <1>6, <2>5, <2>6, <2>7, <2>8, <2>9, <2>10 DEF c
<1> QED BY <1>5, <1>6

-----------------------------------------------------------------------------
(* The steps that change one queue *)

\* Queue q alone is changed: it is at place c with stream b, its stanza in hand
\* is in phase ph, and it holds the stanzas in H.
Turn(q, c, b, ph, H) ==
  /\ queue' \in [Queues -> Slots]
  /\ \A r \in Queues : r # q => queue'[r] = queue[r]
  /\ Slot(queue'[q])
  /\ queue'[q].pair = queue[q].pair /\ queue'[q].pc = c
  /\ queue'[q].by = b /\ queue'[q].phase = ph /\ Held(queue'[q]) = H

LEMMA TurnKept ==
  ASSUME Kept, NEW q \in Queues, NEW c, NEW b, NEW ph, NEW H, Turn(q, c, b, ph, H)
  PROVE  Kept'
  BY DEF Kept, Turn

LEMMA TurnTo ==
  ASSUME Types, NEW q \in Queues, NEW y, Slot(y), y.pair = queue[q].pair,
         queue' = [queue EXCEPT ![q] = y]
  PROVE  Turn(q, y.pc, y.by, y.phase, Held(y))
<1>1. y \in Slots BY DEF Slot
<1>2. queue \in [Queues -> Slots] BY DEF Types
<1>3. queue' \in [Queues -> Slots] /\ queue'[q] = y
      /\ \A r \in Queues : r # q => queue'[r] = queue[r]
  BY <1>1, <1>2
<1> QED BY <1>3 DEF Turn

\* The fields of a queue.
LEMMA QueueFields ==
  ASSUME Types, Kept, NEW q \in Queues
  PROVE  /\ queue[q] \in Slots /\ Slot(queue[q]) /\ Sane(queue[q])
         /\ queue[q].pc \notin {"connected", "served"} => queue[q].phase = "kept"
         /\ queue[q].by \in Streams \cup {None}
         /\ queue[q].phase \in {"kept", "writing", "rejected"}
  BY DEF Types, Kept, Slot, Sane, Slots

\* The place of a queue whose stanza in hand is not being written changes.
LEMMA PlaceTurn ==
  ASSUME Types, Kept, NEW q \in Queues, queue[q].pc # "none", queue[q].phase = "kept",
         NEW c \in Live \cup {"bouncing", "leaving"}, NEW b \in Streams \cup {None},
         c \in Lent => b \in Streams,
         queue' = [queue EXCEPT ![q] = [queue[q] EXCEPT !.pc = c, !.by = b]]
  PROVE  Turn(q, c, b, "kept", Held(queue[q]))
<1> DEFINE y == [queue[q] EXCEPT !.pc = c, !.by = b]
<1>1. queue[q] \in Slots /\ Slot(queue[q]) BY QueueFields
<1>2. Slot(y) /\ Held(y) = Held(queue[q]) BY <1>1, PlaceSlot
<1>3. y.pc = c /\ y.by = b /\ y.phase = "kept" /\ y.pair = queue[q].pair BY <1>1 DEF Slots
<1>4. queue' = [queue EXCEPT ![q] = y] OBVIOUS
<1> HIDE DEF y
<1>5. Turn(q, y.pc, y.by, y.phase, Held(y)) BY <1>2, <1>3, <1>4, TurnTo
<1> QED BY <1>2, <1>3, <1>5

LEMMA GotoTurn ==
  ASSUME Types, Kept, NEW q \in Queues, queue[q].pc # "none", queue[q].phase = "kept",
         NEW c \in (Live \ Lent) \cup {"bouncing", "leaving"},
         queue' = [queue EXCEPT ![q].pc = c]
  PROVE  Turn(q, c, queue[q].by, "kept", Held(queue[q]))
<1>1. queue[q] \in Slots /\ queue[q].by \in Streams \cup {None} BY QueueFields
<1>2. queue \in [Queues -> Slots] BY DEF Types
<1>3. [queue[q] EXCEPT !.pc = c] = [queue[q] EXCEPT !.pc = c, !.by = queue[q].by]
  BY <1>1 DEF Slots
<1>4. queue' = [queue EXCEPT ![q] = [queue[q] EXCEPT !.pc = c, !.by = queue[q].by]]
  BY <1>2, <1>3
<1>5. c \in Live \cup {"bouncing", "leaving"} /\ c \notin Lent BY DEF Live, Lent
<1> QED BY <1>1, <1>4, <1>5, PlaceTurn

LEMMA TakenTurn ==
  ASSUME Types, Kept, NEW q \in Queues, queue[q].pc = "assigned",
         queue' = [queue EXCEPT ![q].pc = "served"]
  PROVE  Turn(q, "served", queue[q].by, "kept", Held(queue[q]))
<1>1. queue[q] \in Slots /\ queue[q].by \in Streams /\ queue[q].phase = "kept"
  BY QueueFields DEF Sane, Lent
<1>2. queue \in [Queues -> Slots] BY DEF Types
<1>3. [queue[q] EXCEPT !.pc = "served"] = [queue[q] EXCEPT !.pc = "served", !.by = queue[q].by]
  BY <1>1 DEF Slots
<1>4. queue' = [queue EXCEPT ![q] = [queue[q] EXCEPT !.pc = "served"]] BY <1>2
<1> QED BY <1>1, <1>3, <1>4, PlaceTurn DEF Live, Lent

\* Serving means that the queue is live, and its stream open.
LEMMA ServingPlace ==
  ASSUME Types, Kept, NEW q \in Queues, Serving(q)
  PROVE  /\ queue[q].pc \in {"connected", "served"} /\ queue[q].pc \in Live
         /\ queue[q].pc # "none" /\ queue[q].pair \in Pairs
         /\ queue[q].pc = "served" => queue[q].by \in Streams /\ stream[queue[q].by] = "open"
  BY QueueFields DEF Serving, Sane, Live, Lent

LEMMA ReceiveTurn ==
  ASSUME OutboundAssumption, Types, Kept, NEW q \in Queues, Receive(q)
  PROVE  Turn(q, queue[q].pc, queue[q].by, "kept", Held(queue[q]))
<1> DEFINE z == queue[q]
           y == [z EXCEPT !.current = Head(z.chan), !.chan = Tail(z.chan)]
<1>1. z \in Slots /\ Slot(z) /\ Sane(z) BY QueueFields
<1>2. z.pc \in Live /\ z.current = 0 /\ z.chan # <<>> BY ServingPlace DEF Receive
<1>3. Slot(y) /\ Held(y) = Held(z) BY <1>1, <1>2, ReceiveSlot
<1>4. y.pc = z.pc /\ y.by = z.by /\ y.phase = "kept" /\ y.pair = z.pair
  BY <1>1, <1>2 DEF Slots, Sane
<1>5. queue' = [queue EXCEPT ![q] = y]
  <2>1. queue \in [Queues -> Slots] BY DEF Types
  <2>2. queue' = [queue EXCEPT ![q].current = Head(queue[q].chan), ![q].chan = Tail(queue[q].chan)]
    BY <1>1, <2>1 DEF Receive, Slots
  <2> QED BY <1>1, <2>1, <2>2 DEF Slots
<1> HIDE DEF y
<1>6. Turn(q, y.pc, y.by, y.phase, Held(y)) BY <1>3, <1>4, <1>5, TurnTo
<1> QED BY <1>3, <1>4, <1>6

LEMMA BegunTurn ==
  ASSUME OutboundAssumption, Types, Kept, NEW q \in Queues, Ready(q),
         NEW ph \in {"writing", "rejected"},
         queue' = [queue EXCEPT ![q].phase = ph, ![q].count = @ - 1]
  PROVE  Turn(q, queue[q].pc, queue[q].by, ph, Held(queue[q]))
<1> DEFINE z == queue[q]
           y == [z EXCEPT !.phase = ph, !.count = z.count - 1]
<1>1. z \in Slots /\ Slot(z) /\ Sane(z) BY QueueFields
<1>2. z.pc \in {"connected", "served"} /\ z.current # 0 /\ z.phase = "kept"
  BY ServingPlace DEF Ready
<1>3. Slot(y) /\ Held(y) = Held(z) BY <1>1, <1>2, BegunSlot
<1>4. y.pc = z.pc /\ y.by = z.by /\ y.phase = ph /\ y.pair = z.pair
  BY <1>1, <1>2 DEF Slots
<1>5. queue' = [queue EXCEPT ![q] = y]
  <2>1. queue \in [Queues -> Slots] BY DEF Types
  <2> QED BY <1>1, <2>1 DEF Slots
<1> HIDE DEF y
<1>6. Turn(q, y.pc, y.by, y.phase, Held(y)) BY <1>3, <1>4, <1>5, TurnTo
<1> QED BY <1>3, <1>4, <1>6

\* The stanza in hand is done with.
LEMMA PutTurn ==
  ASSUME OutboundAssumption, Types, Kept, NEW q \in Queues, queue[q].current # 0,
         queue[q].pc # "none",
         NEW c \in {"connected", "closing", "served", "bouncing", "leaving"},
         c = "served" => queue[q].by \in Streams,
         NEW m, m = IF queue[q].phase = "kept" THEN queue[q].count - 1 ELSE queue[q].count,
         queue' = [queue EXCEPT ![q] = [queue[q] EXCEPT !.pc = c, !.current = 0,
                                                        !.phase = "kept", !.count = m]]
  PROVE  /\ Turn(q, c, queue[q].by, "kept", Held(queue[q]) \ {queue[q].current})
         /\ queue[q].current \in Held(queue[q])
<1> DEFINE z == queue[q]
           y == [z EXCEPT !.pc = c, !.current = 0, !.phase = "kept", !.count = m]
<1>1. z \in Slots /\ Slot(z) BY QueueFields
<1>a. /\ z.pc # "none" /\ z.current # 0 /\ (c = "served" => z.by \in Streams)
      /\ m = IF z.phase = "kept" THEN z.count - 1 ELSE z.count
  OBVIOUS
<1> HIDE DEF z
<1>2. Slot(y) /\ Held(y) = Held(z) \ {z.current} /\ z.current \in Held(z)
  BY <1>1, <1>a, PutSlot
<1> USE DEF z
<1>3. y.pc = c /\ y.by = z.by /\ y.phase = "kept" /\ y.pair = z.pair
  BY <1>1 DEF Slots
<1>4. queue' = [queue EXCEPT ![q] = y] OBVIOUS
<1> HIDE DEF y
<1>5. Turn(q, y.pc, y.by, y.phase, Held(y)) BY <1>2, <1>3, <1>4, TurnTo
<1> QED BY <1>2, <1>3, <1>5

\* link::write and duplex::sending settle the stanza in hand.
LEMMA WriteDoneTurn ==
  ASSUME OutboundAssumption, Types, Kept, NEW q \in Queues,
         WriteDone(q) \/ BounceRejected(q) \/ Discard(q)
  PROVE  /\ Turn(q, queue[q].pc, queue[q].by, "kept", Held(queue[q]) \ {queue[q].current})
         /\ queue[q].current \in Held(queue[q]) /\ Serving(q)
<1> DEFINE z == queue[q]
           m == IF z.phase = "kept" THEN z.count - 1 ELSE z.count
<1>1. z \in Slots /\ Sane(z) BY QueueFields
<1>2. Serving(q) BY DEF WriteDone, BounceRejected, Discard, Ready
<1>3. z.pc \in {"connected", "served"} /\ z.pc # "none" /\ (z.pc = "served" => z.by \in Streams)
  BY <1>2, ServingPlace
<1>4. z.current # 0 BY <1>1 DEF Sane, WriteDone, BounceRejected, Discard, Ready
<1>5. queue \in [Queues -> Slots] BY DEF Types
<1>6. queue' = [queue EXCEPT ![q] = [z EXCEPT !.pc = z.pc, !.current = 0, !.phase = "kept",
                                              !.count = m]]
  <2>1. CASE WriteDone(q) \/ BounceRejected(q)
    <3>1. z.phase # "kept" /\ queue' = [queue EXCEPT ![q] = Put(q)]
      BY <2>1 DEF WriteDone, BounceRejected
    <3>2. Put(q) = [z EXCEPT !.pc = z.pc, !.current = 0, !.phase = "kept", !.count = m]
      BY <1>1, <3>1 DEF Put, Slots
    <3> QED BY <3>1, <3>2
  <2>2. CASE Discard(q)
    <3>1. z.phase = "kept" BY <2>2 DEF Discard, Ready
    <3>2. queue' = [queue EXCEPT ![q] = [Put(q) EXCEPT !.count = Put(q).count - 1]]
      BY <2>2 DEF Discard
    <3>3. [Put(q) EXCEPT !.count = Put(q).count - 1]
            = [z EXCEPT !.pc = z.pc, !.current = 0, !.phase = "kept", !.count = m]
      BY <1>1, <3>1 DEF Put, Slots
    <3> QED BY <3>2, <3>3
  <2> QED BY <2>1, <2>2
<1> HIDE DEF m
<1>7. m = IF queue[q].phase = "kept" THEN queue[q].count - 1 ELSE queue[q].count BY DEF m
<1>8. z.pc \in {"connected", "closing", "served", "bouncing", "leaving"} BY <1>3
<1> QED BY <1>2, <1>3, <1>4, <1>6, <1>7, <1>8, PutTurn

LEMMA WriteFailsTurn ==
  ASSUME OutboundAssumption, Types, Kept, NEW q \in Queues, WriteFails(q)
  PROVE  /\ Turn(q, IF queue[q].pc = "connected" THEN "closing" ELSE queue[q].pc,
                  queue[q].by, "kept", Held(queue[q]) \ {queue[q].current})
         /\ queue[q].current \in Held(queue[q]) /\ Serving(q)
<1> DEFINE z == queue[q]
           c == IF z.pc = "connected" THEN "closing" ELSE z.pc
<1>1. z \in Slots /\ Sane(z) BY QueueFields
<1>2. Serving(q) /\ z.phase = "writing" BY DEF WriteFails
<1>3. z.pc \in {"connected", "served"} /\ z.pc # "none" /\ (z.pc = "served" => z.by \in Streams)
  BY <1>2, ServingPlace
<1>4. z.current # 0 BY <1>1, <1>2 DEF Sane
<1>5. queue' = [queue EXCEPT ![q] = [z EXCEPT !.pc = c, !.current = 0, !.phase = "kept",
                                              !.count = z.count]]
  <2>1. queue' = [queue EXCEPT ![q] = [Interrupted(q) EXCEPT
                     !.pc = IF Interrupted(q).pc = "connected" THEN "closing" ELSE Interrupted(q).pc]]
    BY DEF WriteFails
  <2>2. [Interrupted(q) EXCEPT
           !.pc = IF Interrupted(q).pc = "connected" THEN "closing" ELSE Interrupted(q).pc]
          = [z EXCEPT !.pc = c, !.current = 0, !.phase = "kept", !.count = z.count]
    BY <1>1 DEF Interrupted, Put, Slots
  <2> QED BY <2>1, <2>2
<1>6. c \in {"connected", "closing", "served", "bouncing", "leaving"} /\ (c = "served" => z.by \in Streams)
  BY <1>3
<1>7. z.count = IF queue[q].phase = "kept" THEN queue[q].count - 1 ELSE queue[q].count
  BY <1>2
<1> HIDE DEF c
<1>8. /\ Turn(q, c, queue[q].by, "kept", Held(queue[q]) \ {queue[q].current})
      /\ queue[q].current \in Held(queue[q])
  BY <1>3, <1>4, <1>5, <1>6, <1>7, PutTurn
<1> QED BY <1>2, <1>8 DEF c

\* A queue is handed to a stream (State::offer_standby).
LEMMA HandOffTurn ==
  ASSUME Types, Kept, NEW q \in Queues, queue[q].pc \in {"top", "dialing"}, NEW s \in Streams,
         queue' = [queue EXCEPT ![q] = HandedTo(q, s)]
  PROVE  Turn(q, "assigned", s, "kept", Held(queue[q]))
<1>1. queue[q].phase = "kept" /\ queue[q].pc # "none" BY QueueFields
<1>2. queue' = [queue EXCEPT ![q] = [queue[q] EXCEPT !.pc = "assigned", !.by = s]] BY DEF HandedTo
<1>3. "assigned" \in Live BY DEF Live
<1> QED BY <1>1, <1>2, <1>3, PlaceTurn

\* One stanza of a link that failed is answered (Inner::failed).
LEMMA BounceTurn ==
  ASSUME OutboundAssumption, Types, Kept, NEW q \in Queues, Bounce(q), ~Drained(q)
  PROVE  /\ Turn(q, IF stopped THEN "leaving" ELSE "bouncing", queue[q].by, "kept",
                  Held(queue[q]) \ {Head(Left(q))})
         /\ Head(Left(q)) \in Held(queue[q])
<1> DEFINE z == queue[q]
           c == IF stopped THEN "leaving" ELSE "bouncing"
           h == Head(Left(q))
           t == Tail(Left(q))
           y == [z EXCEPT !.pc = c, !.current = 0, !.chan = t, !.count = z.count - 1]
<1>1. z \in Slots /\ Slot(z) /\ Sane(z) /\ z.pc = "bouncing" /\ z.phase = "kept"
  BY QueueFields DEF Bounce
<1>2. queue' = [queue EXCEPT ![q] = y]
  <2> DEFINE rest == [z EXCEPT !.current = 0, !.chan = t, !.count = z.count - 1]
  <2>1. queue' = [queue EXCEPT ![q] = IF stopped THEN [rest EXCEPT !.pc = "leaving"] ELSE rest]
    BY DEF Bounce
  <2>2. (IF stopped THEN [rest EXCEPT !.pc = "leaving"] ELSE rest) = y
    BY <1>1 DEF Slots
  <2> QED BY <2>1, <2>2
<1>3. CASE z.current = 0
  <2>1. Left(q) = z.chan /\ z.chan # <<>> BY <1>1, <1>3, LeftFacts DEF Drained
  <2>2. y = [z EXCEPT !.pc = c, !.chan = Tail(z.chan), !.count = z.count - 1]
    BY <1>1, <1>3, <2>1 DEF Slots
  <2>3. c \in {"bouncing", "leaving"} OBVIOUS
  <2> HIDE DEF c, y
  <2>4. Slot(y) /\ Held(y) = Held(z) \ {h} /\ h \in Held(z)
    BY <1>1, <1>3, <2>1, <2>2, <2>3, TakenSlot
  <2>5. y.pc = c /\ y.by = z.by /\ y.phase = "kept" /\ y.pair = z.pair
    BY <1>1 DEF Slots, y
  <2>6. Turn(q, y.pc, y.by, y.phase, Held(y)) BY <1>2, <2>4, <2>5, TurnTo
  <2> QED BY <2>4, <2>5, <2>6 DEF c
<1>4. CASE z.current # 0
  <2>1. h = z.current /\ t = z.chan BY <1>1, <1>4, LeftFacts
  <2> DEFINE m == z.count - 1
  <2>2. y = [z EXCEPT !.pc = c, !.current = 0, !.phase = "kept", !.count = m]
    BY <1>1, <2>1 DEF Slots
  <2>3. c \in {"connected", "closing", "served", "bouncing", "leaving"} /\ c # "served" OBVIOUS
  <2>4. m = IF queue[q].phase = "kept" THEN queue[q].count - 1 ELSE queue[q].count
    BY <1>1
  <2> HIDE DEF c, y, m
  <2>5. /\ Turn(q, c, queue[q].by, "kept", Held(queue[q]) \ {queue[q].current})
        /\ queue[q].current \in Held(queue[q])
    <3>1. queue[q].pc # "none" /\ queue[q].current # 0 BY <1>1, <1>4
    <3>2. queue' = [queue EXCEPT ![q] = [queue[q] EXCEPT !.pc = c, !.current = 0,
                                                         !.phase = "kept", !.count = m]]
      BY <1>2, <2>2
    <3> QED BY <2>3, <2>4, <3>1, <3>2, PutTurn
  <2> QED BY <2>1, <2>5 DEF c
<1> QED BY <1>3, <1>4

\* The rest of a queue is counted and the queue dropped (shutdown_queue).
LEMMA DroppedTurn ==
  ASSUME OutboundAssumption, Types, Kept, NEW q \in Queues, queue[q].pc # "none",
         queue' = [queue EXCEPT ![q] = Dropped(q)]
  PROVE  Turn(q, "gone", None, "kept", {})
<1> DEFINE z == queue[q]
           y == [z EXCEPT !.pc = "gone", !.by = None, !.chan = <<>>,
                          !.current = 0, !.phase = "kept", !.count = 0]
<1>1. z \in Slots /\ Slot(z) BY QueueFields
<1>2. Slot(y) /\ Held(y) = {} BY <1>1, DroppedSlot
<1>3. y.pc = "gone" /\ y.by = None /\ y.phase = "kept" /\ y.pair = z.pair
  BY <1>1 DEF Slots
<1>4. queue' = [queue EXCEPT ![q] = y] BY DEF Dropped
<1> HIDE DEF y
<1>5. Turn(q, y.pc, y.by, y.phase, Held(y)) BY <1>2, <1>3, <1>4, TurnTo
<1> QED BY <1>2, <1>3, <1>5

\* A stanza is admitted to a link that exists (LinkHandle::enqueue).
LEMMA EnqueueTurn ==
  ASSUME OutboundAssumption, Types, Kept, Table, Fated, NEW p \in Pairs, Enqueue(p)
  PROVE  \E q \in Queues :
           /\ queue[q].pair = p /\ queue[q].pc \in Live
           /\ Turn(q, queue[q].pc, queue[q].by, queue[q].phase,
                   Held(queue[q]) \cup {admitted[p] + 1})
<1>1. PICK q \in Queues : entries[p] = Link(q) /\ queue[q].pair = p /\ queue[q].pc \in Live
  BY DEF Enqueue, Table, Tabled
<1> DEFINE z == queue[q]
           n == admitted[p] + 1
           y == [z EXCEPT !.chan = Append(z.chan, n), !.count = z.count + 1]
<1>2. z \in Slots /\ Slot(z) BY QueueFields
<1>3. entries[p].queue = q BY <1>1 DEF Link
<1>4. z.count < MaxQueued BY <1>3 DEF Enqueue
<1>5. admitted[p] \in 0 .. MaxStanzas /\ admitted[p] < MaxStanzas /\ MaxStanzas \in Nat
  BY DEF Types, Enqueue, OutboundAssumption
<1>6. n \in 1 .. MaxStanzas BY <1>5
<1>7. \A m \in Held(z) : m < n
  <2> SUFFICES ASSUME NEW m \in Held(z) PROVE m < n OBVIOUS
  <2>1. m \in 1 .. MaxStanzas BY <1>2, SlotFields
  <2>2. Waits(p, m, q) BY <1>1 DEF Waits
  <2>3. m <= admitted[p] BY <2>1, <2>2 DEF Fated
  <2> QED BY <2>1, <2>3, <1>5
<1>8. queue' = [queue EXCEPT ![q] = y]
  <2>1. queue \in [Queues -> Slots] BY DEF Types
  <2>2. queue' = [queue EXCEPT ![q].chan = Append(queue[q].chan, admitted[p] + 1),
                               ![q].count = queue[q].count + 1]
    BY <1>2, <1>3, <2>1 DEF Enqueue, Slots
  <2> QED BY <1>2, <2>1, <2>2 DEF Slots
<1> HIDE DEF n
<1>9. Slot(y) /\ Held(y) = Held(z) \cup {n} BY <1>1, <1>2, <1>4, <1>6, <1>7, EnqueueSlot
<1>10. y.pc = z.pc /\ y.by = z.by /\ y.phase = z.phase /\ y.pair = z.pair
  BY <1>2 DEF Slots
<1> HIDE DEF y
<1>11. Turn(q, y.pc, y.by, y.phase, Held(y)) BY <1>8, <1>9, <1>10, TurnTo
<1> QED BY <1>1, <1>9, <1>10, <1>11 DEF n

-----------------------------------------------------------------------------
(* Who has a queue: each kind of step keeps Table *)

LEMMA LinkNames ==
  /\ \A q, r \in Queues : Link(q) = Link(r) => q = r
  /\ \A q \in Queues : /\ Link(q).kind = "link" /\ Link(q).queue = q
                       /\ Link(q) # Free /\ \A d \in BOOLEAN : Link(q) # Backoff(d)
  /\ Free.kind = "none" /\ \A d \in BOOLEAN : Backoff(d).kind = "backoff"
  BY DEF Link, Free, Backoff

LEMMA LiveAndLent ==
  Lent \subseteq Live /\ \A c \in Live : c \notin {"none", "gone", "leaving", "bouncing"}
  BY DEF Live, Lent

\* The queue stays with whoever has it.
LEMMA TableStill ==
  ASSUME Types, Kept, Table, NEW q \in Queues, NEW c, NEW ph, NEW H,
         Turn(q, c, queue[q].by, ph, H),
         c = queue[q].pc \/ (c \in Lent /\ queue[q].pc \in Lent),
         UNCHANGED <<stopped, entries, standby, stream>>,
         c \in Lent /\ ph # "kept" => stream[queue[q].by] = "open"
  PROVE  Table'
<1>1. /\ \A r \in Queues : queue'[r].pair = queue[r].pair /\ queue'[r].by = queue[r].by
      /\ \A r \in Queues : r # q => queue'[r] = queue[r]
      /\ queue'[q].phase = ph /\ queue'[q].pc = c
  BY DEF Turn
<1>a. /\ \A r \in Queues : queue'[r].pc \in Live => queue[r].pc \in Live
      /\ \A r \in Queues : queue[r].pc \in Live => queue'[r].pc \in Live
      /\ \A r \in Queues : queue[r].pc = "leaving" => queue'[r].pc = "leaving"
  BY <1>1, LiveAndLent
<1>b. \A r \in Queues : queue'[r].pc \in Lent => queue[r].pc \in Lent
  BY <1>1
<1>2. Owning' BY <1>1, <1>a DEF Table, Owning
<1>3. Tabled' BY <1>1, <1>a DEF Table, Tabled
<1>4. Roll' BY DEF Table, Roll, In
<1>5. Lone' BY <1>1, <1>b DEF Table, Lone
<1>6. Standing' BY <1>1, <1>b DEF Table, Standing, In
<1>7. Attended' BY <1>1, <1>b DEF Table, Attended
<1> QED BY <1>2, <1>3, <1>4, <1>5, <1>6, <1>7 DEF Table

\* The link's own task goes on.
LEMMA TablePlace ==
  ASSUME Types, Kept, Table, NEW q \in Queues, NEW c, NEW b, NEW H,
         Turn(q, c, b, "kept", H), queue[q].pc \in Live,
         c \in Live \ Lent \/ (stopped /\ c = "leaving"),
         UNCHANGED <<stopped, entries, standby, stream>>
  PROVE  Table'
<1>1. /\ \A r \in Queues : queue'[r].pair = queue[r].pair
      /\ \A r \in Queues : r # q => queue'[r] = queue[r]
      /\ queue'[q].pc = c /\ c \notin Lent
  BY LiveAndLent DEF Turn
<1>2. Owning' BY <1>1 DEF Table, Owning
<1>3. Tabled' BY <1>1 DEF Table, Tabled
<1>4. Roll' BY DEF Table, Roll, In
<1>5. Lone' BY <1>1 DEF Table, Lone
<1>6. Standing' BY <1>1 DEF Table, Standing, In
<1>7. Attended' BY <1>1 DEF Table, Attended
<1> QED BY <1>2, <1>3, <1>4, <1>5, <1>6, <1>7 DEF Table

\* The queue is given up, and its entry with it.
LEMMA TableGone ==
  ASSUME Types, Kept, Table, NEW q \in Queues, NEW c, NEW b, NEW H,
         Turn(q, c, b, "kept", H), c \notin Live,
         \A p \in Pairs : entries'[p].kind = "link" =>
                            entries'[p] = entries[p] /\ entries[p] # Link(q),
         \A p \in Pairs : entries'[p] # entries[p] => entries[p] = Link(q),
         UNCHANGED <<stopped, standby, stream>>
  PROVE  Table'
<1>1. /\ \A r \in Queues : queue'[r].pair = queue[r].pair
      /\ \A r \in Queues : r # q => queue'[r] = queue[r]
      /\ queue'[q].pc = c /\ c \notin Lent
  BY LiveAndLent DEF Turn
<1>2. Owning'
  <2> SUFFICES ASSUME NEW r \in Queues, queue'[r].pc \in Live
               PROVE  entries'[queue'[r].pair] = Link(r)
    BY DEF Owning
  <2>1. r # q /\ queue[r].pc \in Live BY <1>1
  <2>2. entries[queue[r].pair] = Link(r) BY <2>1 DEF Table, Owning
  <2>3. queue[r].pair \in Pairs BY <2>1, QueueFields, LiveAndLent DEF Sane
  <2>4. entries[queue[r].pair] # Link(q) BY <2>1, <2>2, LinkNames
  <2> QED BY <1>1, <2>2, <2>3, <2>4
<1>3. Tabled'
  <2> SUFFICES ASSUME NEW p \in Pairs, entries'[p].kind = "link"
               PROVE  \E r \in Queues :
                        /\ entries'[p] = Link(r) /\ queue'[r].pair = p
                        /\ queue'[r].pc \in Live \/ (stopped' /\ queue'[r].pc = "leaving")
    BY DEF Tabled
  <2>1. entries'[p] = entries[p] /\ entries[p] # Link(q) OBVIOUS
  <2>2. PICK r \in Queues : /\ entries[p] = Link(r) /\ queue[r].pair = p
                            /\ queue[r].pc \in Live \/ (stopped /\ queue[r].pc = "leaving")
    BY <2>1 DEF Table, Tabled
  <2>3. r # q BY <2>1, <2>2
  <2> QED BY <1>1, <2>1, <2>2, <2>3
<1>4. Roll' BY DEF Table, Roll, In
<1>5. Lone' BY <1>1 DEF Table, Lone
<1>6. Standing' BY <1>1 DEF Table, Standing, In
<1>7. Attended' BY <1>1 DEF Table, Attended
<1> QED BY <1>2, <1>3, <1>4, <1>5, <1>6, <1>7 DEF Table

\* Whom offer_standby finds: a stream that stands by with an empty channel.
LEMMA TakersStand ==
  ASSUME NEW sb \in Seq(Streams), NEW s \in Takers(sb)
  PROVE  s \in Streams /\ ~stopped /\ Assigned(s) = {} /\ \E k \in 1 .. Len(sb) : sb[k] = s
<1>1. PICK k \in DOMAIN sb : ~stopped /\ Assigned(sb[k]) = {} /\ s = sb[k]
  BY DEF Takers
<1>2. DOMAIN sb = 1 .. Len(sb) BY LenProperties
<1>3. sb[k] \in Streams BY <1>2, ElementOfSeq
<1> QED BY <1>1, <1>2, <1>3

\* The queue is handed to a stream of its pair.
LEMMA TableHandOff ==
  ASSUME Types, Kept, Table, NEW q \in Queues, NEW s \in Streams, NEW H,
         Turn(q, "assigned", s, "kept", H), queue[q].pc \in Live \ Lent,
         ~stopped, In(standby[queue[q].pair], s),
         UNCHANGED <<stopped, entries, standby, stream>>
  PROVE  Table'
<1>1. /\ \A r \in Queues : queue'[r].pair = queue[r].pair
      /\ \A r \in Queues : r # q => queue'[r] = queue[r]
      /\ queue'[q].pc = "assigned" /\ queue'[q].by = s /\ queue'[q].phase = "kept"
      /\ "assigned" \in Live /\ "assigned" \in Lent
  BY DEF Turn, Live, Lent
<1>2. Owning' BY <1>1 DEF Table, Owning
<1>3. Tabled' BY <1>1 DEF Table, Tabled
<1>4. Roll' BY DEF Table, Roll, In
<1>5. queue[q].pair \in Pairs BY QueueFields, LiveAndLent DEF Sane
<1>6. \A r \in Queues : r # q /\ queue[r].pc \in Lent => queue[r].by # s
  <2> SUFFICES ASSUME NEW r \in Queues, r # q, queue[r].pc \in Lent, queue[r].by = s
               PROVE  FALSE
    OBVIOUS
  <2>1. In(standby[queue[r].pair], s) BY DEF Table, Standing
  <2>2. queue[r].pair \in Pairs BY QueueFields, LiveAndLent DEF Sane
  <2>3. queue[r].pair = queue[q].pair BY <1>5, <2>1, <2>2 DEF Table, Roll
  <2>4. entries[queue[r].pair] = Link(r) /\ entries[queue[q].pair] = Link(q)
    BY LiveAndLent DEF Table, Owning
  <2> QED BY <2>3, <2>4, LinkNames
<1>7. Lone' BY <1>1, <1>6 DEF Table, Lone
<1>8. Standing' BY <1>1 DEF Table, Standing, In
<1>9. stream[s] # "out" BY <1>5 DEF Table, Roll
<1>10. Attended' BY <1>1, <1>9 DEF Table, Attended
<1> QED BY <1>2, <1>3, <1>4, <1>7, <1>8, <1>10 DEF Table

\* What retain leaves of a list in which nobody stands twice.
LEMMA WithoutFacts ==
  ASSUME NEW sb \in Seq(Streams), NEW s,
         \A j, k \in 1 .. Len(sb) : sb[j] = sb[k] => j = k
  PROVE  /\ Without(sb, s) \in Seq(Streams)
         /\ \A j, k \in 1 .. Len(Without(sb, s)) : Without(sb, s)[j] = Without(sb, s)[k] => j = k
         /\ \A k \in 1 .. Len(Without(sb, s)) :
              Without(sb, s)[k] # s /\ \E j \in 1 .. Len(sb) : sb[j] = Without(sb, s)[k]
         /\ \A j \in 1 .. Len(sb) : sb[j] # s =>
              \E k \in 1 .. Len(Without(sb, s)) : Without(sb, s)[k] = sb[j]
<1> DEFINE at == {k \in DOMAIN sb : sb[k] = s}
           i  == CHOOSE k \in at : TRUE
           n  == Len(sb)
           a  == SubSeq(sb, 1, i - 1)
           b  == SubSeq(sb, i + 1, n)
           w  == Without(sb, s)
<1>1. n \in Nat /\ DOMAIN sb = 1 .. n /\ \A k \in 1 .. n : sb[k] \in Streams
  BY LenProperties, ElementOfSeq
<1>2. CASE at = {}
  <2>1. w = sb BY <1>2 DEF Without
  <2>2. \A k \in 1 .. n : sb[k] # s BY <1>1, <1>2
  <2> HIDE DEF w
  <2> QED BY <2>1, <2>2 DEF w
<1>3. CASE at # {}
  <2>1. i \in at BY <1>3
  <2>2. i \in 1 .. n /\ sb[i] = s BY <1>1, <2>1
  <2>3. w = a \o b BY <1>3 DEF Without
  <2> HIDE DEF i, w, at, n
  <2>4. /\ a \in Seq(Streams) /\ Len(a) = i - 1
        /\ \A k \in 1 .. i - 1 : a[k] = sb[k]
    <3>1. \A k \in 1 .. i - 1 : sb[k] \in Streams BY <1>1, <2>2
    <3>2. /\ a \in Seq(Streams)
          /\ Len(a) = IF 1 <= i - 1 THEN (i - 1) - 1 + 1 ELSE 0
          /\ \A k \in 1 .. (i - 1) - 1 + 1 : a[k] = sb[1 + k - 1]
      BY <1>1, <2>2, <3>1, SubSeqProperties
    <3> QED BY <1>1, <2>2, <3>2
  <2>5. /\ b \in Seq(Streams) /\ Len(b) = n - i
        /\ \A k \in 1 .. n - i : b[k] = sb[i + k]
    <3>1. \A k \in i + 1 .. n : sb[k] \in Streams BY <1>1, <2>2
    <3>2. /\ b \in Seq(Streams)
          /\ Len(b) = IF i + 1 <= n THEN n - (i + 1) + 1 ELSE 0
          /\ \A k \in 1 .. n - (i + 1) + 1 : b[k] = sb[i + 1 + k - 1]
      BY <1>1, <2>2, <3>1, SubSeqProperties
    <3>3. n - (i + 1) + 1 = n - i /\ \A k \in 1 .. n - i : i + 1 + k - 1 = i + k BY <1>1, <2>2
    <3>4. Len(b) = n - i
      <4>1. CASE i + 1 <= n BY <3>2, <3>3, <4>1
      <4>2. CASE ~(i + 1 <= n)
        <5>1. n - i = 0 BY <1>1, <2>2, <4>2
        <5> QED BY <3>2, <4>2, <5>1
      <4> QED BY <4>1, <4>2
    <3> QED BY <3>2, <3>3, <3>4
  <2> HIDE DEF a, b
  <2>6. /\ w \in Seq(Streams) /\ Len(w) = Len(a) + Len(b)
        /\ \A k \in 1 .. Len(a) + Len(b) : w[k] = IF k <= Len(a) THEN a[k] ELSE b[k - Len(a)]
    BY <2>3, <2>4, <2>5, ConcatProperties
  <2>7. Len(w) = n - 1 BY <1>1, <2>2, <2>4, <2>5, <2>6
  <2>8. \A k \in 1 .. n - 1 : w[k] = IF k < i THEN sb[k] ELSE sb[k + 1]
    <3> SUFFICES ASSUME NEW k \in 1 .. n - 1
                 PROVE  w[k] = IF k < i THEN sb[k] ELSE sb[k + 1]
      OBVIOUS
    <3>1. k \in 1 .. Len(a) + Len(b) BY <2>6, <2>7
    <3>2. CASE k < i
      <4>1. k \in 1 .. i - 1 /\ k <= Len(a) BY <1>1, <2>2, <2>4, <3>2
      <4> QED BY <3>1, <3>2, <4>1, <2>4, <2>6
    <3>3. CASE ~(k < i)
      <4>1. /\ k - Len(a) \in 1 .. n - i /\ ~(k <= Len(a))
            /\ i + (k - Len(a)) = k + 1
        BY <1>1, <2>2, <2>4, <3>3
      <4> QED BY <3>1, <3>3, <4>1, <2>5, <2>6
    <3> QED BY <3>2, <3>3
  <2> DEFINE f(k) == IF k < i THEN k ELSE k + 1
  <2>9. \A k \in 1 .. n - 1 : w[k] = sb[f(k)] /\ f(k) \in 1 .. n /\ f(k) # i
    BY <1>1, <2>2, <2>8
  <2>10. \A j, k \in 1 .. n - 1 : f(j) = f(k) => j = k BY <1>1, <2>2
  <2>11. \A j \in 1 .. n : j # i => \E k \in 1 .. n - 1 : f(k) = j
    <3> SUFFICES ASSUME NEW j \in 1 .. n, j # i
                 PROVE  \E k \in 1 .. n - 1 : f(k) = j
      OBVIOUS
    <3>1. CASE j < i
      <4>1. j \in 1 .. n - 1 /\ f(j) = j BY <1>1, <2>2, <3>1
      <4> QED BY <4>1
    <3>2. CASE ~(j < i)
      <4>1. j - 1 \in 1 .. n - 1 /\ f(j - 1) = j BY <1>1, <2>2, <3>2
      <4> QED BY <4>1
    <3> QED BY <3>1, <3>2
  <2> HIDE DEF f
  <2>12. \A j, k \in 1 .. n : sb[j] = sb[k] => j = k BY DEF n
  <2>13. \A j, k \in 1 .. n - 1 : w[j] = w[k] => j = k BY <2>9, <2>10, <2>12
  <2>14. \A k \in 1 .. n - 1 : w[k] # s /\ \E j \in 1 .. n : sb[j] = w[k]
    BY <2>2, <2>9, <2>12
  <2>15. \A j \in 1 .. n : sb[j] # s => \E k \in 1 .. n - 1 : w[k] = sb[j]
    BY <2>2, <2>9, <2>11
  <2> QED BY <2>6, <2>7, <2>13, <2>14, <2>15 DEF w, n
<1> QED BY <1>2, <1>3

\* Leaving the list of every pair.
LEMMA RollRelease ==
  ASSUME Types, Table, NEW s \in Streams,
         standby' = [p \in Pairs |-> Without(standby[p], s)],
         stream' = [stream EXCEPT ![s] = "out"]
  PROVE  /\ standby' \in [Pairs -> Seq(Streams)] /\ Roll'
         /\ \A x \in Streams, p \in Pairs : In(standby'[p], x) => x # s /\ In(standby[p], x)
         /\ \A x \in Streams, p \in Pairs : x # s /\ In(standby[p], x) => In(standby'[p], x)
<1>1. \A p \in Pairs : standby[p] \in Seq(Streams)
  BY DEF Types
<1>2. \A p \in Pairs : \A j, k \in 1 .. Len(standby[p]) : standby[p][j] = standby[p][k] => j = k
  BY DEF Table, Roll
<1> DEFINE w(p) == Without(standby[p], s)
<1>3. ASSUME NEW p \in Pairs
      PROVE  /\ w(p) \in Seq(Streams)
             /\ \A j, k \in 1 .. Len(w(p)) : w(p)[j] = w(p)[k] => j = k
             /\ \A k \in 1 .. Len(w(p)) :
                  w(p)[k] # s /\ \E j \in 1 .. Len(standby[p]) : standby[p][j] = w(p)[k]
             /\ \A j \in 1 .. Len(standby[p]) : standby[p][j] # s =>
                  \E k \in 1 .. Len(w(p)) : w(p)[k] = standby[p][j]
  BY <1>1, <1>2, WithoutFacts
<1>4. \A p \in Pairs : standby'[p] = w(p) OBVIOUS
<1> HIDE DEF w
<1>5. standby' \in [Pairs -> Seq(Streams)]
  <2>1. \A p \in Pairs : w(p) \in Seq(Streams) BY <1>3
  <2> QED BY <2>1 DEF w
<1>6. \A x \in Streams, p \in Pairs : In(standby'[p], x) => x # s /\ In(standby[p], x)
  BY <1>3, <1>4 DEF In
<1>7. \A x \in Streams, p \in Pairs : x # s /\ In(standby[p], x) => In(standby'[p], x)
  BY <1>3, <1>4 DEF In
<1>8. \A x \in Streams : x # s => stream'[x] = stream[x] BY DEF Types
<1>9. \A p \in Pairs : \A j, k \in 1 .. Len(standby'[p]) :
        standby'[p][j] = standby'[p][k] => j = k
  BY <1>3, <1>4
<1>10. \A x \in Streams, p \in Pairs :
         In(standby'[p], x) => stream'[x] # "out" /\ \A r \in Pairs : In(standby'[r], x) => r = p
  BY <1>6, <1>8 DEF Table, Roll
<1>11. Roll' BY <1>9, <1>10 DEF Roll
<1> QED BY <1>5, <1>6, <1>7, <1>11

\* A stream without a queue is released ...
LEMMA ReleaseNone ==
  ASSUME Types, Kept, NEW s \in Streams, Release(s), GivenBack(s) = {}
  PROVE  queue' = queue /\ entries' = entries /\ lost' = lost
<1>1. Assigned(s) = {} BY DEF GivenBack
<1>2. queue \in [Queues -> Slots] /\ entries \in [Pairs -> {Free, Backoff(FALSE), Backoff(TRUE)}
                                                 \cup {Link(q) : q \in Queues}]
  BY DEF Types
<1>3. queue' = [q \in Queues |-> queue[q]] BY <1>1 DEF Release
<1>4. entries' = [p \in Pairs |-> entries[p]] BY DEF Release
<1>5. lost' = lost BY DEF Release
<1> QED BY <1>2, <1>3, <1>4, <1>5

\* ... and one that has a queue: it ends with the queue, passes it on, or a
\* task is started for it.
LEMMA ReleaseOne ==
  ASSUME OutboundAssumption, Types, Kept, Table, NEW s \in Streams, Release(s),
         NEW q \in GivenBack(s)
  PROVE  /\ q \in Queues /\ queue[q].pc \in Lent /\ queue[q].by = s
         /\ \/ /\ stopped \/ Held(queue[q]) = {}
               /\ Turn(q, "gone", None, "kept", {})
               /\ entries' = [p \in Pairs |-> IF entries[p] = Link(q) THEN Free ELSE entries[p]]
               /\ lost' = lost \cup Losses(q)
            \/ /\ ~stopped /\ entries' = entries /\ lost' = lost
               /\ \/ Turn(q, "top", None, "kept", Held(queue[q]))
                  \/ \E x \in Takers(Without(standby[queue[q].pair], s)) :
                       Turn(q, "assigned", x, "kept", Held(queue[q]))
<1> DEFINE z == queue[q]
           takers == Takers(Without(standby[z.pair], s))
           ends == stopped \/ ~Owns(q) \/ Drained(q)
<1>1. q \in Queues /\ z.pc \in Lent /\ z.by = s
  BY DEF GivenBack, Served, Assigned, Lent
<1>2. GivenBack(s) = {q}
  BY <1>1 DEF GivenBack, Served, Assigned, Lent, Table, Lone
<1>3. z \in Slots /\ Slot(z) /\ Sane(z) /\ z.pc # "none" /\ z.pair \in Pairs
  BY <1>1, QueueFields, LiveAndLent DEF Sane
<1>4. z.phase = "kept"
  BY <1>1 DEF Release, Table, Attended
<1>5. Owns(q) BY <1>1, LiveAndLent DEF Owns, Table, Owning
<1>6. Assigned(s) \ GivenBack(s) = {} BY DEF GivenBack
<1>7. queue \in [Queues -> Slots] BY DEF Types
<1>8. {r \in GivenBack(s) : stopped \/ ~Owns(r) \/ Drained(r)} = IF ends THEN {q} ELSE {}
  BY <1>2
<1>9. CASE ends
  <2>1. stopped \/ Held(z) = {} BY <1>3, <1>5, <1>9, <1>1, LeftFacts
  <2>2. queue' = [queue EXCEPT ![q] = Dropped(q)]
    <3>1. queue' = [r \in Queues |-> IF r = q THEN Dropped(q) ELSE queue[r]]
      BY <1>2, <1>6, <1>8, <1>9 DEF Release
    <3> QED BY <1>7, <3>1
  <2>3. Turn(q, "gone", None, "kept", {}) BY <1>1, <1>3, <2>2, DroppedTurn
  <2>4. entries' = [p \in Pairs |-> IF entries[p] = Link(q) THEN Free ELSE entries[p]]
    BY <1>2, <1>8, <1>9 DEF Release
  <2>5. lost' = lost \cup Losses(q) BY <1>2, <1>8, <1>9 DEF Release
  <2> QED BY <1>1, <2>1, <2>3, <2>4, <2>5
<1>10. CASE ~ends
  <2>1. ~stopped BY <1>10
  <2>2. lost' = lost BY <1>8, <1>10 DEF Release
  <2>3. entries' = entries
    <3>1. entries' = [p \in Pairs |-> entries[p]] BY <1>8, <1>10 DEF Release
    <3> QED BY <3>1 DEF Types
  <2> DEFINE y == IF takers = {} THEN [queue[q] EXCEPT !.pc = "top", !.by = None]
                  ELSE HandedTo(q, CHOOSE x \in takers : TRUE)
  <2>4. queue' = [queue EXCEPT ![q] = y]
    <3> DEFINE without == [p \in Pairs |-> Without(standby[p], s)]
    <3>1. without[z.pair] = Without(standby[z.pair], s) BY <1>3
    <3> DEFINE ending == {r \in GivenBack(s) : stopped \/ ~Owns(r) \/ Drained(r)}
               over == Assigned(s) \ GivenBack(s)
               back == GivenBack(s)
               After(r) == IF Takers(without[queue[r].pair]) = {}
                             THEN [queue[r] EXCEPT !.pc = "top", !.by = None]
                             ELSE HandedTo(r, CHOOSE x \in Takers(without[queue[r].pair]) : TRUE)
    <3>2. ending = {} /\ over = {} /\ back = {q} BY <1>2, <1>6, <1>8, <1>10
    <3>a. queue' = [r \in Queues |->
             IF r \in ending \cup over THEN Dropped(r)
             ELSE IF r \in back THEN After(r) ELSE queue[r]]
      BY DEF Release
    <3>b. After(q) = y
      <4>1. Takers(without[queue[q].pair]) = takers BY <3>1
      <4> HIDE DEF takers, without
      <4> QED BY <4>1
    <3> HIDE DEF ending, over, back, without, After
    <3>3. queue'[q] = y
      <4>1. q \notin ending \cup over /\ q \in back BY <3>2
      <4>2. queue'[q] = After(q) BY <1>1, <3>a, <4>1
      <4> QED BY <4>2, <3>b
    <3>4. \A r \in Queues : r # q => queue'[r] = queue[r] BY <3>a, <3>2
    <3>5. queue' = [r \in Queues |-> queue'[r]] BY <3>a
    <3> HIDE DEF y
    <3> QED BY <1>1, <1>7, <3>3, <3>4, <3>5
  <2>5. CASE takers = {}
    <3>1. queue' = [queue EXCEPT ![q] = [queue[q] EXCEPT !.pc = "top", !.by = None]]
      BY <2>4, <2>5
    <3>2. "top" \in Live \cup {"bouncing", "leaving"} /\ "top" \notin Lent BY DEF Live, Lent
    <3>3. Turn(q, "top", None, "kept", Held(queue[q])) BY <1>1, <1>3, <1>4, <3>1, <3>2, PlaceTurn
    <3> QED BY <1>1, <2>1, <2>2, <2>3, <3>3
  <2>6. CASE takers # {}
    <3> DEFINE x == CHOOSE x \in takers : TRUE
    <3>1. x \in takers BY <2>6
    <3>2. queue' = [queue EXCEPT ![q] = [queue[q] EXCEPT !.pc = "assigned", !.by = x]]
      BY <2>4, <2>6 DEF HandedTo
    <3> HIDE DEF x, takers
    <3>3. x \in Streams
      <4>1. Without(standby[z.pair], s) \in Seq(Streams)
        <5>1. standby[z.pair] \in Seq(Streams) BY <1>3 DEF Types
        <5>2. \A j, k \in 1 .. Len(standby[z.pair]) :
                standby[z.pair][j] = standby[z.pair][k] => j = k
          BY <1>3 DEF Table, Roll
        <5> QED BY <5>1, <5>2, WithoutFacts
      <4> QED BY <3>1, <4>1, TakersStand DEF takers
    <3>4. "assigned" \in Live BY DEF Live
    <3>5. Turn(q, "assigned", x, "kept", Held(queue[q]))
      BY <1>1, <1>3, <1>4, <3>2, <3>3, <3>4, PlaceTurn
    <3> QED BY <1>1, <2>1, <2>2, <2>3, <3>1, <3>5 DEF takers
  <2> QED BY <2>5, <2>6
<1> QED BY <1>9, <1>10

\* BidiRegistration::release keeps the table.
LEMMA TableRelease ==
  ASSUME OutboundAssumption, Types, Kept, Table, NEW s \in Streams, Release(s)
  PROVE  Table' /\ standby' \in [Pairs -> Seq(Streams)]
<1>1. /\ standby' = [p \in Pairs |-> Without(standby[p], s)]
      /\ stream' = [stream EXCEPT ![s] = "out"] /\ stopped' = stopped
  BY DEF Release
<1>2. /\ standby' \in [Pairs -> Seq(Streams)] /\ Roll'
      /\ \A x \in Streams, p \in Pairs : In(standby'[p], x) => x # s /\ In(standby[p], x)
      /\ \A x \in Streams, p \in Pairs : x # s /\ In(standby[p], x) => In(standby'[p], x)
  BY <1>1, RollRelease
<1>3. \A x \in Streams : x # s => stream'[x] = stream[x] BY <1>1 DEF Types
<1>4. \A r \in Queues : r \notin GivenBack(s) /\ queue[r].pc \in Lent =>
        queue[r].by # s /\ queue[r].by \in Streams /\ queue[r].pair \in Pairs
  BY QueueFields, LiveAndLent DEF GivenBack, Served, Assigned, Lent, Sane
<1>5. CASE GivenBack(s) = {}
  <2>1. queue' = queue /\ entries' = entries BY <1>5, ReleaseNone
  <2>2. Owning' /\ Tabled' /\ Lone' BY <1>1, <2>1 DEF Table, Owning, Tabled, Lone
  <2>3. Standing'
    <3> SUFFICES ASSUME ~stopped', NEW r \in Queues, queue'[r].pc \in Lent
                 PROVE  In(standby'[queue[r].pair], queue[r].by)
      BY <2>1 DEF Standing
    <3>1. In(standby[queue[r].pair], queue[r].by) BY <1>1, <2>1 DEF Table, Standing
    <3> QED BY <1>2, <1>4, <1>5, <2>1, <3>1
  <2>4. Attended' BY <1>3, <1>4, <1>5, <2>1 DEF Table, Attended
  <2> QED BY <1>2, <2>2, <2>3, <2>4 DEF Table
<1>6. ASSUME NEW q \in GivenBack(s) PROVE Table'
  <2>1. /\ q \in Queues /\ queue[q].pc \in Lent /\ queue[q].by = s
        /\ \/ /\ Turn(q, "gone", None, "kept", {})
              /\ entries' = [p \in Pairs |-> IF entries[p] = Link(q) THEN Free ELSE entries[p]]
           \/ /\ ~stopped /\ entries' = entries
              /\ \/ Turn(q, "top", None, "kept", Held(queue[q]))
                 \/ \E x \in Takers(Without(standby[queue[q].pair], s)) :
                      Turn(q, "assigned", x, "kept", Held(queue[q]))
    BY ReleaseOne
  <2>2. /\ \A r \in Queues : queue'[r].pair = queue[r].pair
        /\ \A r \in Queues : r # q => queue'[r] = queue[r]
        /\ queue'[q].pc \in {"gone", "top", "assigned"} /\ queue'[q].phase = "kept"
    BY <2>1 DEF Turn
  <2>3. \A r \in Queues : r # q => r \notin GivenBack(s)
    BY <2>1 DEF GivenBack, Served, Assigned, Lent, Table, Lone
  <2>4. queue[q].pair \in Pairs BY <2>1, QueueFields, LiveAndLent DEF Sane
  <2>5. CASE queue'[q].pc \notin Lent
    <3>1. Lone' BY <2>2, <2>5 DEF Table, Lone
    <3>2. Standing'
      <4> SUFFICES ASSUME ~stopped', NEW r \in Queues, queue'[r].pc \in Lent
                   PROVE  In(standby'[queue'[r].pair], queue'[r].by)
        BY DEF Standing
      <4>1. r # q BY <2>5
      <4>2. queue'[r] = queue[r] BY <2>2, <4>1
      <4>3. In(standby[queue[r].pair], queue[r].by) BY <1>1, <4>2 DEF Table, Standing
      <4>4. In(standby'[queue[r].pair], queue[r].by) BY <1>2, <1>4, <2>3, <4>1, <4>2, <4>3
      <4> QED BY <4>2, <4>4
    <3>3. Attended' BY <1>3, <1>4, <2>2, <2>3, <2>5 DEF Table, Attended
    <3>4. CASE queue'[q].pc = "gone"
      <4>1. entries' = [p \in Pairs |-> IF entries[p] = Link(q) THEN Free ELSE entries[p]]
        BY <2>1, <3>4 DEF Turn
      <4>2. \A r \in Queues : r # q /\ queue[r].pc \in Live => entries'[queue[r].pair] = Link(r)
        <5> SUFFICES ASSUME NEW r \in Queues, r # q, queue[r].pc \in Live
                     PROVE  entries'[queue[r].pair] = Link(r)
          OBVIOUS
        <5>1. queue[r].pair \in Pairs BY QueueFields, LiveAndLent DEF Sane
        <5>2. entries[queue[r].pair] = Link(r) BY DEF Table, Owning
        <5> QED BY <2>1, <4>1, <5>1, <5>2, LinkNames
      <4>3. Owning' BY <2>2, <3>4, <4>2, LiveAndLent DEF Owning
      <4>4. Tabled'
        <5> SUFFICES ASSUME NEW p \in Pairs, entries'[p].kind = "link"
                     PROVE  \E r \in Queues :
                        /\ entries'[p] = Link(r) /\ queue'[r].pair = p
                        /\ queue'[r].pc \in Live \/ (stopped' /\ queue'[r].pc = "leaving")
          BY DEF Tabled
        <5>1. entries'[p] = entries[p] /\ entries[p] # Link(q) BY <4>1, LinkNames
        <5>2. PICK r \in Queues : /\ entries[p] = Link(r) /\ queue[r].pair = p
                                  /\ queue[r].pc \in Live \/ (stopped /\ queue[r].pc = "leaving")
          BY <5>1 DEF Table, Tabled
        <5> QED BY <1>1, <2>2, <5>1, <5>2
      <4> QED BY <1>2, <3>1, <3>2, <3>3, <4>3, <4>4 DEF Table
    <3>5. CASE queue'[q].pc = "top"
      <4>1. entries' = entries /\ "top" \in Live BY <2>1, <3>5 DEF Turn, Live
      <4>2. queue[q].pc \in Live BY <2>1, LiveAndLent
      <4>3. Owning' BY <2>2, <3>5, <4>1, <4>2 DEF Table, Owning
      <4>4. Tabled' BY <1>1, <2>2, <3>5, <4>1 DEF Table, Tabled
      <4> QED BY <1>2, <3>1, <3>2, <3>3, <4>3, <4>4 DEF Table
    <3> QED BY <2>2, <2>5, <3>4, <3>5 DEF Lent
  <2>6. CASE queue'[q].pc \in Lent
    <3>1. queue'[q].pc = "assigned" BY <2>2, <2>6 DEF Lent
    <3>2. PICK x \in Takers(Without(standby[queue[q].pair], s)) :
            Turn(q, "assigned", x, "kept", Held(queue[q])) /\ ~stopped /\ entries' = entries
      BY <2>1, <3>1 DEF Turn
    <3>3. queue'[q].by = x BY <3>2 DEF Turn
    <3>4. x \in Streams /\ In(standby'[queue[q].pair], x)
      <4>1. standby'[queue[q].pair] = Without(standby[queue[q].pair], s) BY <1>1, <2>4
      <4>2. standby'[queue[q].pair] \in Seq(Streams) BY <1>2, <2>4
      <4>3. x \in Streams /\ \E k \in 1 .. Len(standby'[queue[q].pair]) :
                                standby'[queue[q].pair][k] = x
        BY <3>2, <4>1, <4>2, TakersStand
      <4> QED BY <4>3 DEF In
    <3>5. x # s /\ In(standby[queue[q].pair], x) BY <1>2, <2>4, <3>4
    <3>6. \A r \in Queues : r # q /\ queue[r].pc \in Lent => queue[r].by # x
      <4> SUFFICES ASSUME NEW r \in Queues, r # q, queue[r].pc \in Lent, queue[r].by = x
                   PROVE  FALSE
        OBVIOUS
      <4>1. In(standby[queue[r].pair], x) BY <3>2 DEF Table, Standing
      <4>2. queue[r].pair \in Pairs BY QueueFields, LiveAndLent DEF Sane
      <4>3. queue[r].pair = queue[q].pair BY <2>4, <3>4, <3>5, <4>1, <4>2 DEF Table, Roll
      <4>4. entries[queue[r].pair] = Link(r) /\ entries[queue[q].pair] = Link(q)
        BY <2>1, LiveAndLent DEF Table, Owning
      <4> QED BY <2>1, <4>3, <4>4, LinkNames
    <3>7. Lone' BY <2>2, <3>3, <3>6 DEF Table, Lone
    <3>8. Standing'
      <4> SUFFICES ASSUME ~stopped', NEW r \in Queues, queue'[r].pc \in Lent
                   PROVE  In(standby'[queue'[r].pair], queue'[r].by)
        BY DEF Standing
      <4>1. CASE r = q BY <2>2, <3>3, <3>4, <4>1
      <4>2. CASE r # q
        <5>1. queue'[r] = queue[r] BY <2>2, <4>2
        <5>2. In(standby[queue[r].pair], queue[r].by) BY <1>1, <5>1 DEF Table, Standing
        <5>3. In(standby'[queue[r].pair], queue[r].by) BY <1>2, <1>4, <2>3, <4>2, <5>1, <5>2
        <5> QED BY <5>1, <5>3
      <4> QED BY <4>1, <4>2
    <3>9. stream'[x] # "out" BY <1>3, <2>4, <3>4, <3>5 DEF Table, Roll
    <3>10. Attended' BY <1>3, <1>4, <2>2, <2>3, <3>3, <3>9 DEF Table, Attended
    <3>11. queue[q].pc \in Live /\ queue'[q].pc \in Live BY <2>1, <2>6, LiveAndLent
    <3>12. Owning' BY <2>2, <3>2, <3>11 DEF Table, Owning
    <3>13. Tabled' BY <1>1, <2>2, <3>2, <3>11 DEF Table, Tabled
    <3> QED BY <1>2, <3>7, <3>8, <3>10, <3>12, <3>13 DEF Table
  <2> QED BY <2>5, <2>6
<1> QED BY <1>2, <1>5, <1>6

\* Back-offs come and go.
LEMMA TableEntries ==
  ASSUME Types, Kept, Table, UNCHANGED <<stopped, standby, queue, stream>>,
         \A p \in Pairs : entries'[p] # entries[p] =>
                            entries[p].kind # "link" /\ entries'[p].kind # "link"
  PROVE  Table'
<1>1. Owning'
  <2> SUFFICES ASSUME NEW q \in Queues, queue[q].pc \in Live
               PROVE  entries'[queue[q].pair] = Link(q)
    BY DEF Owning
  <2>1. queue[q].pair \in Pairs BY QueueFields, LiveAndLent DEF Sane
  <2>2. entries[queue[q].pair] = Link(q) BY DEF Table, Owning
  <2> QED BY <2>1, <2>2, LinkNames
<1>2. Tabled' BY DEF Table, Tabled
<1>3. Roll' /\ Lone' /\ Standing' /\ Attended'
  BY DEF Table, Roll, Lone, Standing, Attended, In
<1> QED BY <1>1, <1>2, <1>3 DEF Table

\* RemoteRouter::register_bidi: a stream that comes in stood by nowhere.
LEMMA TableRegister ==
  ASSUME Types, Kept, Table, NEW s \in Streams, NEW p \in Pairs, Register(s, p)
  PROVE  Table' /\ standby' \in [Pairs -> Seq(Streams)]
<1>1. /\ stream[s] = "out" /\ stream' = [stream EXCEPT ![s] = "open"]
      /\ standby' = [standby EXCEPT ![p] = Append(standby[p], s)]
      /\ queue' = queue /\ stopped' = stopped
      /\ entries' = [entries EXCEPT ![p] = IF entries[p].kind = "backoff" THEN Free ELSE entries[p]]
  BY DEF Register
<1> DEFINE l == standby[p]
           m == Append(l, s)
<1>2. l \in Seq(Streams) /\ Len(l) \in Nat BY DEF Types
<1>3. /\ m \in Seq(Streams) /\ Len(m) = Len(l) + 1
      /\ \A k \in 1 .. Len(l) : m[k] = l[k]
      /\ m[Len(l) + 1] = s
  BY <1>2, AppendProperties
<1>4. standby' \in [Pairs -> Seq(Streams)] BY <1>1, <1>3 DEF Types
<1>5. standby'[p] = m /\ \A r \in Pairs : r # p => standby'[r] = standby[r]
  BY <1>1 DEF Types
<1>6. \A r \in Pairs : ~In(standby[r], s) BY <1>1 DEF Table, Roll
<1> HIDE DEF m
<1>7. \A k \in 1 .. Len(m) : k \in 1 .. Len(l) \/ k = Len(l) + 1 BY <1>2, <1>3
<1>8. \A k \in 1 .. Len(l) : l[k] # s BY <1>6 DEF In
<1>9. \A j, k \in 1 .. Len(m) : m[j] = m[k] => j = k
  <2>1. \A j, k \in 1 .. Len(l) : l[j] = l[k] => j = k BY DEF Table, Roll
  <2> QED BY <1>3, <1>7, <1>8, <2>1
<1>10. \A x : x # s => (In(m, x) <=> In(l, x))
  <2>1. \A k \in 1 .. Len(l) : k \in 1 .. Len(m) BY <1>2, <1>3
  <2> QED BY <1>3, <1>7, <2>1 DEF In
<1>11. \A x \in Streams : x # s => stream'[x] = stream[x]
  BY <1>1 DEF Types
<1>12. stream'[s] = "open" BY <1>1 DEF Types
<1>13. \A x \in Streams, r \in Pairs : x # s => (In(standby'[r], x) <=> In(standby[r], x))
  BY <1>5, <1>10
<1>14. \A r \in Pairs : In(standby'[r], s) => r = p BY <1>5, <1>6
<1>15. Roll'
  <2>1. \A r \in Pairs : \A j, k \in 1 .. Len(standby'[r]) :
          standby'[r][j] = standby'[r][k] => j = k
    BY <1>5, <1>9 DEF Table, Roll
  <2>2. \A x \in Streams, r \in Pairs :
          In(standby'[r], x) => stream'[x] # "out" /\ \A t \in Pairs : In(standby'[t], x) => t = r
    <3> SUFFICES ASSUME NEW x \in Streams, NEW r \in Pairs, In(standby'[r], x)
                 PROVE  stream'[x] # "out" /\ \A t \in Pairs : In(standby'[t], x) => t = r
      OBVIOUS
    <3>1. CASE x = s BY <1>12, <1>14, <3>1
    <3>2. CASE x # s BY <1>11, <1>13, <3>2 DEF Table, Roll
    <3> QED BY <3>1, <3>2
  <2> QED BY <2>1, <2>2 DEF Roll
<1>16. \A q \in Queues : queue[q].pc \in Lent =>
         queue[q].by \in Streams /\ queue[q].by # s /\ queue[q].pair \in Pairs
  BY <1>1, QueueFields, LiveAndLent DEF Table, Attended, Sane
<1>17. Lone' BY <1>1 DEF Table, Lone
<1>18. Standing'
  BY <1>1, <1>13, <1>16 DEF Table, Standing
<1>19. Attended' BY <1>1, <1>11, <1>16 DEF Table, Attended
<1>20. \A r \in Pairs : entries'[r] # entries[r] =>
          entries[r].kind # "link" /\ entries'[r].kind # "link"
  BY <1>1, LinkNames DEF Types
<1>21. Owning'
  <2> SUFFICES ASSUME NEW q \in Queues, queue[q].pc \in Live
               PROVE  entries'[queue[q].pair] = Link(q)
    BY <1>1 DEF Owning
  <2>1. queue[q].pair \in Pairs BY QueueFields, LiveAndLent DEF Sane
  <2>2. entries[queue[q].pair] = Link(q) BY DEF Table, Owning
  <2> QED BY <1>20, <2>1, <2>2, LinkNames
<1>22. Tabled' BY <1>1, <1>20 DEF Table, Tabled
<1> QED BY <1>4, <1>15, <1>17, <1>18, <1>19, <1>21, <1>22 DEF Table

\* A stream ends while it writes nothing.
LEMMA TableEndStream ==
  ASSUME Types, Kept, Table, NEW s \in Streams, EndStream(s)
  PROVE  Table'
<1>1. /\ stream[s] = "open" /\ stream' = [stream EXCEPT ![s] = "ended"]
      /\ UNCHANGED <<stopped, entries, standby, queue>>
      /\ \A q \in Served(s) : queue[q].phase = "kept"
  BY DEF EndStream
<1>2. Owning' /\ Tabled' /\ Lone' /\ Standing'
  BY <1>1 DEF Table, Owning, Tabled, Lone, Standing, In
<1>3. \A x \in Streams : (stream'[x] = "out" => stream[x] = "out")
                         /\ (x # s => stream'[x] = stream[x])
  BY <1>1 DEF Types
<1>4. Roll' BY <1>1, <1>3 DEF Table, Roll, In
<1>5. Attended'
  <2> SUFFICES ASSUME NEW q \in Queues, queue[q].pc \in Lent
               PROVE  /\ stream'[queue[q].by] # "out"
                      /\ queue[q].phase # "kept" => stream'[queue[q].by] = "open"
    BY <1>1 DEF Attended
  <2>1. queue[q].by \in Streams BY QueueFields DEF Sane
  <2>2. queue[q].by = s => queue[q].phase = "kept"
    BY <1>1, QueueFields DEF Served, Lent
  <2> QED BY <1>3, <2>1, <2>2 DEF Table, Attended
<1> QED BY <1>2, <1>4, <1>5 DEF Table

\* A write fails, and with it the connection or the stream.
LEMMA TableWriteFails ==
  ASSUME OutboundAssumption, Types, Kept, Table, NEW q \in Queues, WriteFails(q)
  PROVE  Table'
<1> DEFINE c == IF queue[q].pc = "connected" THEN "closing" ELSE queue[q].pc
           H == Held(queue[q]) \ {queue[q].current}
<1>1. Turn(q, c, queue[q].by, "kept", H) /\ Serving(q) BY WriteFailsTurn
<1>2. /\ queue[q].pc \in {"connected", "served"} /\ queue[q].pc \in Live
      /\ queue[q].pc = "served" => queue[q].by \in Streams
  BY <1>1, ServingPlace
<1>3. c \in Live /\ (c \in Lent <=> queue[q].pc = "served") BY <1>2 DEF Live, Lent
<1>4. /\ \A r \in Queues : queue'[r].pair = queue[r].pair /\ queue'[r].by = queue[r].by
      /\ \A r \in Queues : r # q => queue'[r] = queue[r]
      /\ queue'[q].phase = "kept" /\ queue'[q].pc = c
  BY <1>1 DEF Turn
<1>5. /\ UNCHANGED <<stopped, entries, standby>>
      /\ stream' = [s \in Streams |-> IF q \in Served(s) THEN "ended" ELSE stream[s]]
  BY DEF WriteFails
<1>6. \A x \in Streams : (stream'[x] = "out" => stream[x] = "out")
                         /\ (q \notin Served(x) => stream'[x] = stream[x])
  BY <1>5
<1> HIDE DEF c
<1>7. \A r \in Queues : queue'[r].pc \in Lent => queue[r].pc \in Lent
  BY <1>3, <1>4 DEF Lent
<1>8. Owning' BY <1>2, <1>3, <1>4, <1>5 DEF Table, Owning
<1>9. Tabled' BY <1>2, <1>3, <1>4, <1>5 DEF Table, Tabled
<1>10. Roll' BY <1>5, <1>6 DEF Table, Roll, In
<1>11. Lone' BY <1>4, <1>7 DEF Table, Lone
<1>12. Standing' BY <1>4, <1>5, <1>7 DEF Table, Standing, In
<1>13. Attended'
  <2> SUFFICES ASSUME NEW r \in Queues, queue'[r].pc \in Lent
               PROVE  /\ stream'[queue'[r].by] # "out"
                      /\ queue'[r].phase # "kept" => stream'[queue'[r].by] = "open"
    BY DEF Attended
  <2>1. queue[r].pc \in Lent /\ queue'[r].by = queue[r].by BY <1>4, <1>7
  <2>2. queue[r].by \in Streams BY <2>1, QueueFields DEF Sane
  <2>3. r # q => q \notin Served(queue[r].by)
    BY <2>1 DEF Served, Lent, Table, Lone
  <2> QED BY <1>4, <1>6, <2>1, <2>2, <2>3 DEF Table, Attended
<1> QED BY <1>8, <1>9, <1>10, <1>11, <1>12, <1>13 DEF Table

\* RemoteRouter::stop leaves the links and clears the rest.
LEMMA TableStop ==
  ASSUME Types, Kept, Table, Stop
  PROVE  Table' /\ standby' \in [Pairs -> Seq(Streams)]
<1>1. /\ stopped' = TRUE /\ standby' = [p \in Pairs |-> <<>>]
      /\ entries' = [p \in Pairs |-> IF entries[p].kind = "link" THEN entries[p] ELSE Free]
      /\ UNCHANGED <<queue, stream>>
  BY DEF Stop
<1>2. standby' \in [Pairs -> Seq(Streams)] BY <1>1
<1>3. \A p \in Pairs : Len(standby'[p]) = 0 BY <1>1
<1>4. Roll' BY <1>3 DEF Roll, In
<1>5. Lone' /\ Standing' /\ Attended' BY <1>1 DEF Table, Lone, Standing, Attended
<1>6. Owning'
  <2> SUFFICES ASSUME NEW q \in Queues, queue[q].pc \in Live
               PROVE  entries'[queue[q].pair] = Link(q)
    BY <1>1 DEF Owning
  <2>1. queue[q].pair \in Pairs BY QueueFields, LiveAndLent DEF Sane
  <2>2. entries[queue[q].pair] = Link(q) BY DEF Table, Owning
  <2> QED BY <1>1, <2>1, <2>2, LinkNames
<1>7. Tabled' BY <1>1, LinkNames DEF Table, Tabled
<1> QED BY <1>2, <1>4, <1>5, <1>6, <1>7 DEF Table

\* The back-offs that retry_count may evict.
LEMMA EvictionFacts ==
  ASSUME NEW p \in Pairs, NEW e \in Evictions(p)
  PROVE  /\ \A x \in e : x \in Pairs /\ entries[x] = Backoff(TRUE) /\ x # p
         /\ \/ e = {} /\ (entries[p].kind # "none" \/ ~(Cardinality(Occupied) >= MaxLinks))
            \/ \E x \in Pairs : e = {x}
<1>1. CASE entries[p].kind = "none" /\ Cardinality(Occupied) >= MaxLinks
  <2>1. PICK x \in Pairs : entries[x] = Backoff(TRUE) /\ e = {x}
    BY <1>1 DEF Evictions
  <2>2. x # p
    <3>1. entries[x].kind = "backoff" BY <2>1, LinkNames
    <3> QED BY <1>1, <3>1
  <2> QED BY <2>1, <2>2
<1>2. CASE ~(entries[p].kind = "none" /\ Cardinality(Occupied) >= MaxLinks)
  <2>1. e = {} BY <1>2 DEF Evictions
  <2> QED BY <1>2, <2>1
<1> QED BY <1>1, <1>2

\* A link is made, with its first stanza.
LEMMA LaunchTurn ==
  ASSUME OutboundAssumption, Types, Kept, NEW p \in Pairs, Launch(p)
  PROVE  \E q \in Queues, e \in Evictions(p) :
           /\ queue[q].pc = "none"
           /\ queue' \in [Queues -> Slots]
           /\ \A r \in Queues : r # q => queue'[r] = queue[r]
           /\ Slot(queue'[q]) /\ queue'[q].pair = p /\ queue'[q].pc = "top"
           /\ Held(queue'[q]) = {admitted[p] + 1}
           /\ entries' = [x \in Pairs |-> IF x = p THEN Link(q)
                                          ELSE IF x \in e THEN Free ELSE entries[x]]
<1>1. PICK q \in Queues, e \in Evictions(p) :
        /\ queue[q].pc = "none"
        /\ entries' = [x \in Pairs |-> IF x = p THEN Link(q)
                                       ELSE IF x \in e THEN Free ELSE entries[x]]
        /\ queue' = [queue EXCEPT ![q] = [NoQueue EXCEPT !.pair = p, !.pc = "top",
                                             !.chan = <<admitted[p] + 1>>, !.count = 1]]
  BY DEF Launch
<1> DEFINE n == admitted[p] + 1
           y == [NoQueue EXCEPT !.pair = p, !.pc = "top", !.chan = <<n>>, !.count = 1]
<1>2. admitted[p] \in 0 .. MaxStanzas /\ admitted[p] < MaxStanzas /\ MaxStanzas \in Nat
  BY DEF Types, Launch, OutboundAssumption
<1>3. n \in 1 .. MaxStanzas BY <1>2
<1>4. queue' = [queue EXCEPT ![q] = y] BY <1>1
<1> HIDE DEF n
<1>5. Slot(y) /\ Held(y) = {n} BY <1>3, NewSlot
<1>6. y.pair = p /\ y.pc = "top" BY DEF NoQueue
<1> HIDE DEF y
<1>7. y \in Slots BY <1>5 DEF Slot
<1>8. queue \in [Queues -> Slots] BY DEF Types
<1>9. queue' \in [Queues -> Slots] /\ queue'[q] = y /\ \A r \in Queues : r # q => queue'[r] = queue[r]
  BY <1>4, <1>7, <1>8
<1> QED BY <1>1, <1>5, <1>6, <1>9 DEF n

LEMMA TableLaunch ==
  ASSUME OutboundAssumption, Types, Kept, Table, NEW p \in Pairs, Launch(p)
  PROVE  Table'
<1>1. PICK q \in Queues, e \in Evictions(p) :
        /\ queue[q].pc = "none"
        /\ \A r \in Queues : r # q => queue'[r] = queue[r]
        /\ queue'[q].pair = p /\ queue'[q].pc = "top"
        /\ entries' = [x \in Pairs |-> IF x = p THEN Link(q)
                                       ELSE IF x \in e THEN Free ELSE entries[x]]
  BY LaunchTurn
<1>2. UNCHANGED <<stopped, standby, stream>> BY DEF Launch
<1>3. entries[p].kind # "link" BY LinkNames DEF Launch, Open
<1>4. \A x \in e : entries[x].kind # "link" BY EvictionFacts, LinkNames
<1>5. "top" \in Live /\ "top" \notin Lent BY DEF Live, Lent
<1>6. Owning'
  <2> SUFFICES ASSUME NEW r \in Queues, queue'[r].pc \in Live
               PROVE  entries'[queue'[r].pair] = Link(r)
    BY DEF Owning
  <2>1. CASE r = q BY <1>1, <2>1
  <2>2. CASE r # q
    <3>1. queue'[r] = queue[r] BY <1>1, <2>2
    <3>2. queue[r].pair \in Pairs BY <3>1, QueueFields, LiveAndLent DEF Sane
    <3>3. entries[queue[r].pair] = Link(r) BY <3>1 DEF Table, Owning
    <3>4. queue[r].pair # p /\ queue[r].pair \notin e BY <1>3, <1>4, <3>3, LinkNames
    <3> QED BY <1>1, <3>1, <3>2, <3>3, <3>4
  <2> QED BY <2>1, <2>2
<1>7. Tabled'
  <2> SUFFICES ASSUME NEW x \in Pairs, entries'[x].kind = "link"
               PROVE  \E r \in Queues :
                        /\ entries'[x] = Link(r) /\ queue'[r].pair = x
                        /\ queue'[r].pc \in Live \/ (stopped' /\ queue'[r].pc = "leaving")
    BY DEF Tabled
  <2>1. CASE x = p BY <1>1, <1>5, <2>1
  <2>2. CASE x # p
    <3>1. entries'[x] = entries[x] BY <1>1, <2>2, LinkNames
    <3>2. PICK r \in Queues : /\ entries[x] = Link(r) /\ queue[r].pair = x
                              /\ queue[r].pc \in Live \/ (stopped /\ queue[r].pc = "leaving")
      BY <3>1 DEF Table, Tabled
    <3>3. r # q BY <1>1, <3>2, LiveAndLent
    <3> QED BY <1>1, <1>2, <3>1, <3>2, <3>3
  <2> QED BY <2>1, <2>2
<1>8. Roll' BY <1>2 DEF Table, Roll, In
<1>9. Lone' BY <1>1, <1>5 DEF Table, Lone
<1>10. Standing' BY <1>1, <1>2, <1>5 DEF Table, Standing, In
<1>11. Attended' BY <1>1, <1>2, <1>5 DEF Table, Attended
<1> QED BY <1>6, <1>7, <1>8, <1>9, <1>10, <1>11 DEF Table

-----------------------------------------------------------------------------
(* Where the stanzas are: each kind of step keeps Stanzas *)

\* The stanzas in N leave queue q ...
Leaves(q, N) ==
  /\ \A r \in Queues : queue'[r].pair = queue[r].pair
  /\ \A r \in Queues : r # q => Held(queue'[r]) = Held(queue[r])
  /\ Held(queue'[q]) = Held(queue[q]) \ N

\* ... and are written, answered, or counted for one of the reasons.
Settles(p0, N, sending, answering, counting) ==
  /\ \A p \in Pairs, n \in 1 .. MaxStanzas :
       /\ Written(p, n)' <=> Written(p, n) \/ (sending /\ p = p0 /\ n \in N)
       /\ Answered(p, n)' <=> Answered(p, n) \/ (answering /\ p = p0 /\ n \in N)
  /\ \A p \in Pairs, n \in 1 .. MaxStanzas, r \in Reasons :
       Counted(p, n, r)' <=> Counted(p, n, r) \/ (r \in counting /\ p = p0 /\ n \in N)

OneWay(sending, answering, counting) ==
  \/ sending /\ ~answering /\ counting = {}
  \/ ~sending /\ answering /\ counting = {}
  \/ ~sending /\ ~answering /\ \E r \in Reasons : counting = {r}

LEMMA FatedMove ==
  ASSUME Fated, NEW q \in Queues, NEW N, N \subseteq Held(queue[q]),
         NEW sending \in BOOLEAN, NEW answering \in BOOLEAN, NEW counting \in SUBSET Reasons,
         OneWay(sending, answering, counting), admitted' = admitted,
         Leaves(q, N), Settles(queue[q].pair, N, sending, answering, counting)
  PROVE  Fated'
<1> SUFFICES ASSUME NEW p \in Pairs, NEW n \in 1 .. MaxStanzas
             PROVE  /\ SettledOnce(p, n)'
                    /\ ((n <= admitted[p]) = (Settled(p, n) \/ \E r \in Queues : Waits(p, n, r)))'
                    /\ (\A r \in Queues : Waits(p, n, r) =>
                          ~Settled(p, n) /\ \A t \in Queues : Waits(p, n, t) => t = r)'
  BY DEF Fated
<1>1. /\ SettledOnce(p, n)
      /\ (n <= admitted[p]) <=> (Settled(p, n) \/ \E r \in Queues : Waits(p, n, r))
      /\ \A r \in Queues : Waits(p, n, r) =>
           ~Settled(p, n) /\ \A t \in Queues : Waits(p, n, t) => t = r
  BY DEF Fated
<1>2. CASE p = queue[q].pair /\ n \in N
  <2>1. Waits(p, n, q) BY <1>2 DEF Waits
  <2>2. ~Written(p, n) /\ ~Answered(p, n) /\ \A r \in Reasons : ~Counted(p, n, r)
    BY <1>1, <2>1 DEF Settled
  <2>3. \A r \in Queues : ~Waits(p, n, r)'
    BY <1>1, <1>2, <2>1 DEF Waits, Leaves
  <2>4. Written(p, n)' <=> sending BY <1>2, <2>2 DEF Settles
  <2>5. Answered(p, n)' <=> answering BY <1>2, <2>2 DEF Settles
  <2>6. \A r \in Reasons : Counted(p, n, r)' <=> r \in counting BY <1>2, <2>2 DEF Settles
  <2>7. SettledOnce(p, n)' BY <2>4, <2>5, <2>6 DEF SettledOnce, OneWay
  <2>8. Settled(p, n)' BY <2>4, <2>5, <2>6 DEF Settled, OneWay
  <2>9. n <= admitted[p] BY <1>1, <2>1
  <2> QED BY <2>3, <2>7, <2>8, <2>9
<1>3. CASE ~(p = queue[q].pair /\ n \in N)
  <2>1. \A r \in Queues : Waits(p, n, r)' <=> Waits(p, n, r)
    BY <1>3 DEF Waits, Leaves
  <2>2. (Written(p, n)' <=> Written(p, n)) /\ (Answered(p, n)' <=> Answered(p, n))
    BY <1>3 DEF Settles
  <2>3. \A r \in Reasons : Counted(p, n, r)' <=> Counted(p, n, r) BY <1>3 DEF Settles
  <2>4. SettledOnce(p, n)' BY <1>1, <2>2, <2>3 DEF SettledOnce
  <2>5. Settled(p, n)' <=> Settled(p, n) BY <2>2, <2>3 DEF Settled
  <2> QED BY <1>1, <2>1, <2>4, <2>5
<1> QED BY <1>2, <1>3

\* A number is given to a new stanza, which waits in queue q.
LEMMA FatedAdmit ==
  ASSUME OutboundAssumption, Types, Fated, NEW q \in Queues, NEW p0 \in Pairs,
         admitted[p0] < MaxStanzas,
         admitted' = [admitted EXCEPT ![p0] = admitted[p0] + 1],
         UNCHANGED fates,
         \A p \in Pairs, n \in 1 .. MaxStanzas, r \in Queues :
           Waits(p, n, r)' <=> Waits(p, n, r) \/ (p = p0 /\ n = admitted[p0] + 1 /\ r = q)
  PROVE  Fated'
<1> SUFFICES ASSUME NEW p \in Pairs, NEW n \in 1 .. MaxStanzas
             PROVE  /\ SettledOnce(p, n)'
                    /\ ((n <= admitted[p]) = (Settled(p, n) \/ \E r \in Queues : Waits(p, n, r)))'
                    /\ (\A r \in Queues : Waits(p, n, r) =>
                          ~Settled(p, n) /\ \A t \in Queues : Waits(p, n, t) => t = r)'
  BY DEF Fated
<1>1. /\ SettledOnce(p, n)
      /\ (n <= admitted[p]) <=> (Settled(p, n) \/ \E r \in Queues : Waits(p, n, r))
      /\ \A r \in Queues : Waits(p, n, r) =>
           ~Settled(p, n) /\ \A t \in Queues : Waits(p, n, t) => t = r
  BY DEF Fated
<1>2. (Settled(p, n)' <=> Settled(p, n)) /\ (SettledOnce(p, n)' <=> SettledOnce(p, n))
  BY DEF fates, Settled, SettledOnce, Written, Answered, Counted
<1>3. /\ admitted[p] \in Nat /\ admitted[p0] \in Nat
      /\ admitted'[p] = IF p = p0 THEN admitted[p] + 1 ELSE admitted[p]
  BY DEF Types, OutboundAssumption
<1>4. CASE p = p0 /\ n = admitted[p0] + 1
  <2>1. ~(n <= admitted[p]) /\ n <= admitted'[p] BY <1>3, <1>4
  <2>2. ~Settled(p, n) /\ \A r \in Queues : ~Waits(p, n, r) BY <1>1, <2>1
  <2>3. \A r \in Queues : Waits(p, n, r)' <=> r = q BY <1>4, <2>2
  <2> QED BY <1>1, <1>2, <2>1, <2>2, <2>3
<1>5. CASE ~(p = p0 /\ n = admitted[p0] + 1)
  <2>1. (n <= admitted'[p]) <=> (n <= admitted[p]) BY <1>3, <1>5
  <2>2. \A r \in Queues : Waits(p, n, r)' <=> Waits(p, n, r) BY <1>5
  <2> QED BY <1>1, <1>2, <2>1, <2>2
<1> QED BY <1>4, <1>5

\* The steps that write nothing: stanzas stay, or are answered or counted.
LEMMA StanzasKeep ==
  ASSUME OutboundAssumption, Types, Kept, Stanzas, NEW q \in Queues, queue[q].pair \in Pairs,
         NEW N, N \subseteq Held(queue[q]), NEW c, NEW b, NEW ph,
         Turn(q, c, b, ph, Held(queue[q]) \ N),
         c \in Live => queue[q].pc \in Live,
         c = "leaving" /\ ~stopped => Held(queue[q]) \ N = {},
         UNCHANGED <<stopped, admitted, sent>>,
         NEW r0 \in Reasons, r0 = "shutdown" => stopped \/ N = {},
         \/ bounced' = bounced \cup {<<queue[q].pair, n>> : n \in N} /\ lost' = lost
         \/ bounced' = bounced /\ lost' = lost \cup {<<queue[q].pair, n, r0>> : n \in N}
  PROVE  Stanzas' /\ bounced' \subseteq Ids /\ lost' \subseteq Pairs \X (1 .. MaxStanzas) \X Reasons
<1> DEFINE p0 == queue[q].pair
<1>1. /\ \A r \in Queues : queue'[r].pair = queue[r].pair
      /\ \A r \in Queues : r # q => queue'[r] = queue[r]
      /\ Held(queue'[q]) = Held(queue[q]) \ N /\ queue'[q].pc = c
  BY DEF Turn
<1>2. \A r \in Queues : r # q => Held(queue'[r]) = Held(queue[r])
  BY <1>1
<1>3. N \subseteq 1 .. MaxStanzas BY QueueFields, SlotFields
<1>4. bounced' \subseteq Ids /\ lost' \subseteq Pairs \X (1 .. MaxStanzas) \X Reasons
  BY <1>3 DEF Types, Ids
<1>5. \A p \in Pairs, n \in 1 .. MaxStanzas : Written(p, n)' <=> Written(p, n)
  BY DEF Written
<1>6. Fated'
  <2>1. CASE bounced' = bounced \cup {<<p0, n>> : n \in N} /\ lost' = lost
    <3>1. \A p \in Pairs, n \in 1 .. MaxStanzas :
            Answered(p, n)' <=> Answered(p, n) \/ (p = p0 /\ n \in N)
      BY <2>1 DEF Answered
    <3>2. \A p \in Pairs, n \in 1 .. MaxStanzas, r \in Reasons :
            Counted(p, n, r)' <=> Counted(p, n, r)
      BY <2>1 DEF Counted
    <3>3. {} \in SUBSET Reasons OBVIOUS
    <3>4. ASSUME NEW sending \in BOOLEAN, NEW answering \in BOOLEAN, NEW counting \in SUBSET Reasons,
                 ~sending, answering, counting = {}
          PROVE  Fated'
      <4>1. Settles(queue[q].pair, N, sending, answering, counting)
        BY <1>5, <3>1, <3>2, <3>4 DEF Settles
      <4>2. OneWay(sending, answering, counting) BY <3>4 DEF OneWay
      <4>3. Fated /\ admitted' = admitted BY DEF Stanzas
      <4>4. Leaves(q, N) BY <1>1, <1>2 DEF Leaves
      <4> QED BY <4>1, <4>2, <4>3, <4>4, FatedMove
    <3> QED BY <3>3, <3>4
  <2>2. CASE bounced' = bounced /\ lost' = lost \cup {<<p0, n, r0>> : n \in N}
    <3>1. \A p \in Pairs, n \in 1 .. MaxStanzas : Answered(p, n)' <=> Answered(p, n)
      BY <2>2 DEF Answered
    <3>2. \A p \in Pairs, n \in 1 .. MaxStanzas, r \in Reasons :
            Counted(p, n, r)' <=> Counted(p, n, r) \/ (r \in {r0} /\ p = p0 /\ n \in N)
      BY <2>2 DEF Counted
    <3>3. {r0} \in SUBSET Reasons OBVIOUS
    <3>4. ASSUME NEW sending \in BOOLEAN, NEW answering \in BOOLEAN, NEW counting \in SUBSET Reasons,
                 ~sending, ~answering, counting = {r0}
          PROVE  Fated'
      <4>1. Settles(queue[q].pair, N, sending, answering, counting)
        BY <1>5, <3>1, <3>2, <3>4 DEF Settles
      <4>2. OneWay(sending, answering, counting) BY <3>4 DEF OneWay
      <4>3. Fated /\ admitted' = admitted BY DEF Stanzas
      <4>4. Leaves(q, N) BY <1>1, <1>2 DEF Leaves
      <4> QED BY <4>1, <4>2, <4>3, <4>4, FatedMove
    <3> QED BY <3>3, <3>4
  <2> QED BY <2>1, <2>2
<1>7. Ahead'
  BY <1>1, <1>2 DEF Stanzas, Ahead
<1>8. Ascending' BY DEF Stanzas, Ascending
<1>9. Emptied' BY <1>1, <1>2 DEF Stanzas, Emptied
<1>10. DroppedOnlyAtStop'
  BY DEF Stanzas, DroppedOnlyAtStop
<1> QED BY <1>4, <1>6, <1>7, <1>8, <1>9, <1>10 DEF Stanzas

\* The same for a step that leaves every stanza where it is.
LEMMA StanzasStay ==
  ASSUME OutboundAssumption, Types, Kept, Stanzas, NEW q \in Queues, queue[q].pair \in Pairs,
         NEW c, NEW b, NEW ph, Turn(q, c, b, ph, Held(queue[q])),
         c \in Live => queue[q].pc \in Live,
         c = "leaving" /\ ~stopped => Held(queue[q]) = {},
         UNCHANGED <<stopped, admitted, fates>>
  PROVE  Stanzas'
<1>1. ASSUME NEW N, N = {} PROVE Stanzas'
  <2>1. Held(queue[q]) = Held(queue[q]) \ N /\ N \subseteq Held(queue[q]) BY <1>1
  <2>2. bounced' = bounced \cup {<<queue[q].pair, n>> : n \in N} /\ lost' = lost
    BY <1>1 DEF fates
  <2>3. UNCHANGED <<stopped, admitted, sent>> BY DEF fates
  <2>4. Turn(q, c, b, ph, Held(queue[q]) \ N) BY <2>1
  <2>5. c = "leaving" /\ ~stopped => Held(queue[q]) \ N = {} BY <2>1
  <2>6. ASSUME NEW r0 \in Reasons, r0 # "shutdown" PROVE Stanzas'
    BY <2>1, <2>2, <2>3, <2>4, <2>5, <2>6, StanzasKeep
  <2> QED BY <2>6 DEF Reasons
<1> QED BY <1>1

\* ... and for one that leaves the queues alone.
LEMMA StanzasRest ==
  ASSUME Stanzas, queue' = queue, stopped => stopped', UNCHANGED <<admitted, fates>>
  PROVE  Stanzas'
<1>1. Fated'
  <2>1. \A p \in Pairs, n \in 1 .. MaxStanzas :
          /\ Settled(p, n)' <=> Settled(p, n)
          /\ SettledOnce(p, n)' <=> SettledOnce(p, n)
          /\ \A q \in Queues : Waits(p, n, q)' <=> Waits(p, n, q)
    BY DEF fates, Settled, SettledOnce, Written, Answered, Counted, Waits
  <2>2. Fated BY DEF Stanzas
  <2> QED BY <2>1, <2>2 DEF Fated
<1>2. Ahead' /\ Ascending' /\ Emptied' /\ DroppedOnlyAtStop'
  BY DEF Stanzas, Ahead, Ascending, Emptied, DroppedOnlyAtStop, fates
<1> QED BY <1>1, <1>2 DEF Stanzas

\* A stanza is written: it was the oldest of its queue, and no other queue of
\* the pair is served.
LEMMA StanzasWrite ==
  ASSUME OutboundAssumption, Types, Kept, Table, Stanzas, NEW q \in Queues, WriteDone(q)
  PROVE  Stanzas' /\ sent' \in [Pairs -> Seq(1 .. MaxStanzas)]
<1> DEFINE p0 == queue[q].pair
           n0 == queue[q].current
           list == Append(sent[p0], n0)
<1>1. /\ Turn(q, queue[q].pc, queue[q].by, "kept", Held(queue[q]) \ {n0})
      /\ n0 \in Held(queue[q]) /\ Serving(q)
  BY WriteDoneTurn
<1>2. p0 \in Pairs /\ queue[q].pc \in Live BY <1>1, ServingPlace
<1>3. sent' = [sent EXCEPT ![p0] = list] /\ UNCHANGED <<stopped, admitted, bounced, lost>>
  BY DEF WriteDone
<1>4. n0 \in 1 .. MaxStanzas BY <1>1, QueueFields, SlotFields
<1>5. sent \in [Pairs -> Seq(1 .. MaxStanzas)] BY DEF Types
<1>6. /\ list \in Seq(1 .. MaxStanzas) /\ Len(sent[p0]) \in Nat /\ Len(list) = Len(sent[p0]) + 1
      /\ \A k \in 1 .. Len(sent[p0]) : list[k] = sent[p0][k]
      /\ list[Len(sent[p0]) + 1] = n0
  <2>1. sent[p0] \in Seq(1 .. MaxStanzas) BY <1>2, <1>5
  <2>2. Len(sent[p0]) \in Nat BY <2>1, LenProperties
  <2> QED BY <1>4, <2>1, <2>2, AppendProperties
<1> HIDE DEF list, n0, p0
<1>7. /\ sent' \in [Pairs -> Seq(1 .. MaxStanzas)] /\ sent'[p0] = list
      /\ \A p \in Pairs : p # p0 => sent'[p] = sent[p]
  BY <1>2, <1>3, <1>5, <1>6
<1>8. \A k \in 1 .. Len(list) : k \in 1 .. Len(sent[p0]) \/ k = Len(sent[p0]) + 1
  BY <1>6
<1>9. 1 .. Len(sent[p0]) \subseteq 1 .. Len(list) /\ Len(sent[p0]) + 1 \in 1 .. Len(list)
  BY <1>6
<1>10. \A p \in Pairs, n \in 1 .. MaxStanzas :
         Written(p, n)' <=> Written(p, n) \/ (p = p0 /\ n \in {n0})
  <2> SUFFICES ASSUME NEW p \in Pairs, NEW n \in 1 .. MaxStanzas
               PROVE  Written(p, n)' <=> Written(p, n) \/ (p = p0 /\ n = n0)
    OBVIOUS
  <2>1. CASE p # p0 BY <1>7, <2>1 DEF Written
  <2>2. CASE p = p0
    <3>1. Written(p, n)' <=> \E k \in 1 .. Len(list) : list[k] = n BY <1>7, <2>2 DEF Written
    <3>2. Written(p, n) <=> \E k \in 1 .. Len(sent[p0]) : sent[p0][k] = n BY <2>2 DEF Written
    <3> QED BY <3>1, <3>2, <1>6, <1>8, <1>9, <2>2
  <2> QED BY <2>1, <2>2
<1>11. \A p \in Pairs, n \in 1 .. MaxStanzas : Answered(p, n)' <=> Answered(p, n)
  BY <1>3 DEF Answered
<1>12. \A p \in Pairs, n \in 1 .. MaxStanzas, r \in Reasons : Counted(p, n, r)' <=> Counted(p, n, r)
  BY <1>3 DEF Counted
<1>13. /\ \A r \in Queues : queue'[r].pair = queue[r].pair
       /\ \A r \in Queues : r # q => queue'[r] = queue[r]
       /\ Held(queue'[q]) = Held(queue[q]) \ {n0} /\ queue'[q].pc = queue[q].pc
  BY <1>1 DEF Turn
<1>14. \A r \in Queues : r # q => Held(queue'[r]) = Held(queue[r]) BY <1>13
<1>15. Fated'
  <2>1. ASSUME NEW sending \in BOOLEAN, NEW answering \in BOOLEAN, NEW counting \in SUBSET Reasons,
               sending, ~answering, counting = {}
        PROVE  Fated'
    <3>1. Settles(queue[q].pair, {n0}, sending, answering, counting)
      BY <1>10, <1>11, <1>12, <2>1 DEF Settles, p0
    <3>2. OneWay(sending, answering, counting) BY <2>1 DEF OneWay
    <3>3. Fated /\ admitted' = admitted BY <1>3 DEF Stanzas
    <3>4. Leaves(q, {n0}) BY <1>13, <1>14 DEF Leaves
    <3>5. {n0} \subseteq Held(queue[q]) BY <1>1
    <3> QED BY <3>1, <3>2, <3>3, <3>4, <3>5, FatedMove
  <2>2. {} \in SUBSET Reasons OBVIOUS
  <2> QED BY <2>1, <2>2
<1>16. \A k \in 1 .. Len(sent[p0]) : sent[p0][k] < n0
  BY <1>1, <1>2 DEF Stanzas, Ahead, p0
<1>17. Ascending'
  <2>1. ASSUME NEW p \in Pairs, NEW j \in 1 .. Len(sent'[p]), NEW k \in 1 .. Len(sent'[p]), j < k
        PROVE  sent'[p][j] < sent'[p][k]
    <3>1. CASE p # p0 BY <1>7, <2>1, <3>1 DEF Stanzas, Ascending
    <3>2. CASE p = p0
      <4>1. j \in 1 .. Len(list) /\ k \in 1 .. Len(list) BY <1>7, <3>2
      <4>2. j \in 1 .. Len(sent[p0]) BY <4>1, <2>1, <1>6
      <4>3. CASE k \in 1 .. Len(sent[p0])
        <5>1. sent[p0][j] < sent[p0][k] BY <1>2, <2>1, <4>2, <4>3 DEF Stanzas, Ascending
        <5> QED BY <5>1, <4>2, <4>3, <1>6, <1>7, <3>2
      <4>4. CASE k = Len(sent[p0]) + 1
        BY <4>2, <4>4, <1>6, <1>7, <1>16, <3>2
      <4> QED BY <1>8, <4>1, <4>3, <4>4
    <3> QED BY <3>1, <3>2
  <2> QED BY <2>1 DEF Ascending
<1>18. \A n \in Held(queue[q]) \ {n0} : n0 < n
  <2>1. Sorted(queue[q]) BY QueueFields DEF Slot
  <2> QED BY <1>4, <2>1 DEF Sorted, Held, n0
<1>19. Ahead'
  <2> SUFFICES ASSUME NEW r \in Queues, queue'[r].pc \in Live, NEW n \in Held(queue'[r]),
                      NEW k \in 1 .. Len(sent'[queue'[r].pair])
               PROVE  sent'[queue'[r].pair][k] < n
    BY DEF Ahead
  <2>1. CASE r = q
    <3>1. queue'[r].pair = p0 /\ n \in Held(queue[q]) \ {n0} BY <1>13, <2>1 DEF p0
    <3>2. CASE k \in 1 .. Len(sent[p0])
      <4>1. sent[p0][k] < n BY <1>2, <3>1, <3>2 DEF Stanzas, Ahead, p0
      <4> QED BY <4>1, <3>1, <3>2, <1>6, <1>7
    <3>3. CASE k = Len(sent[p0]) + 1 BY <3>1, <3>3, <1>6, <1>7, <1>18
    <3> QED BY <1>7, <1>8, <3>1, <3>2, <3>3
  <2>2. CASE r # q
    <3>1. queue'[r] = queue[r] BY <1>13, <2>2
    <3>2. entries[queue[r].pair] = Link(r) /\ entries[p0] = Link(q)
      BY <1>2, <3>1 DEF Table, Owning, p0
    <3>3. queue[r].pair # p0 BY <3>2, <2>2, LinkNames
    <3>4. queue[r].pair \in Pairs BY <3>1, QueueFields, LiveAndLent DEF Sane
    <3>5. sent'[queue'[r].pair] = sent[queue[r].pair] BY <1>7, <3>1, <3>3, <3>4
    <3> QED BY <3>1, <3>5 DEF Stanzas, Ahead
  <2> QED BY <2>1, <2>2
<1>20. Emptied' BY <1>2, <1>3, <1>13, <1>14, LiveAndLent DEF Stanzas, Emptied
<1>21. DroppedOnlyAtStop' BY <1>3 DEF Stanzas, DroppedOnlyAtStop
<1> QED BY <1>7, <1>15, <1>17, <1>19, <1>20, <1>21 DEF Stanzas

\* A stanza is admitted: it is newer than all that was written.
LEMMA StanzasAdmit ==
  ASSUME OutboundAssumption, Types, Kept, Stanzas, NEW q \in Queues, NEW p0 \in Pairs,
         admitted[p0] < MaxStanzas,
         admitted' = [admitted EXCEPT ![p0] = admitted[p0] + 1],
         UNCHANGED <<stopped, fates>>,
         \A r \in Queues : r # q => queue'[r] = queue[r],
         queue'[q].pair = p0, queue'[q].pc \in Live,
         Held(queue'[q]) = Held(queue[q]) \cup {admitted[p0] + 1},
         \/ queue[q].pair = p0 /\ queue[q].pc \in Live
         \/ Held(queue[q]) = {}
  PROVE  Stanzas' /\ admitted' \in [Pairs -> 0 .. MaxStanzas]
<1> DEFINE n0 == admitted[p0] + 1
<1>1. /\ admitted[p0] \in Nat /\ n0 \in 1 .. MaxStanzas
      /\ admitted' \in [Pairs -> 0 .. MaxStanzas]
  <2>1. admitted \in [Pairs -> 0 .. MaxStanzas] /\ MaxStanzas \in Nat
    BY DEF Types, OutboundAssumption
  <2> QED BY <2>1
<1>2. \A r \in Queues : r # q => Held(queue'[r]) = Held(queue[r]) OBVIOUS
<1>3. Fated'
  <2>1. \A p \in Pairs, n \in 1 .. MaxStanzas, r \in Queues :
          Waits(p, n, r)' <=> Waits(p, n, r) \/ (p = p0 /\ n = admitted[p0] + 1 /\ r = q)
    <3> SUFFICES ASSUME NEW p \in Pairs, NEW n \in 1 .. MaxStanzas, NEW r \in Queues
                 PROVE  Waits(p, n, r)' <=>
                          Waits(p, n, r) \/ (p = p0 /\ n = admitted[p0] + 1 /\ r = q)
      OBVIOUS
    <3>1. CASE r # q BY <1>2, <3>1 DEF Waits
    <3>2. CASE r = q BY <3>2 DEF Waits
    <3> QED BY <3>1, <3>2
  <2>2. Fated /\ UNCHANGED fates BY DEF Stanzas
  <2> QED BY <2>1, <2>2, FatedAdmit
<1>4. Ahead'
  <2> SUFFICES ASSUME NEW r \in Queues, queue'[r].pc \in Live, NEW n \in Held(queue'[r]),
                      NEW k \in 1 .. Len(sent'[queue'[r].pair])
               PROVE  sent'[queue'[r].pair][k] < n
    BY DEF Ahead
  <2>1. sent' = sent BY DEF fates
  <2>2. CASE r # q BY <1>2, <2>1, <2>2 DEF Stanzas, Ahead
  <2>3. CASE r = q /\ n # n0
    <3>1. n \in Held(queue[q]) BY <2>3
    <3>2. queue[q].pair = p0 /\ queue[q].pc \in Live BY <3>1
    <3> QED BY <2>1, <2>3, <3>1, <3>2 DEF Stanzas, Ahead
  <2>4. CASE r = q /\ n = n0
    <3>1. k \in 1 .. Len(sent[p0]) BY <2>1, <2>4
    <3>2. sent[p0] \in Seq(1 .. MaxStanzas) BY DEF Types
    <3>3. sent[p0][k] \in 1 .. MaxStanzas
      BY <3>1, <3>2, ElementOfSeq
    <3>4. Written(p0, sent[p0][k]) BY <3>1 DEF Written
    <3>5. sent[p0][k] <= admitted[p0] BY <3>3, <3>4 DEF Stanzas, Fated, Settled
    <3> QED BY <1>1, <2>1, <2>4, <3>3, <3>5
  <2> QED BY <2>2, <2>3, <2>4
<1>5. Ascending' BY DEF Stanzas, Ascending, fates
<1>6. Emptied' BY <1>2, LiveAndLent DEF Stanzas, Emptied
<1>7. DroppedOnlyAtStop' BY DEF Stanzas, DroppedOnlyAtStop, fates
<1> QED BY <1>1, <1>3, <1>4, <1>5, <1>6, <1>7 DEF Stanzas

\* One stanza is answered or counted.
LEMMA StanzasSettle ==
  ASSUME OutboundAssumption, Types, Kept, Stanzas, NEW q \in Queues, queue[q].pair \in Pairs,
         NEW m \in Held(queue[q]), NEW c, NEW b, NEW ph,
         Turn(q, c, b, ph, Held(queue[q]) \ {m}),
         c \in Live => queue[q].pc \in Live, c = "leaving" => stopped,
         UNCHANGED <<stopped, admitted, sent>>,
         NEW r0 \in Reasons, r0 = "shutdown" => stopped,
         \/ bounced' = bounced \cup {<<queue[q].pair, m>>} /\ lost' = lost
         \/ bounced' = bounced /\ lost' = lost \cup {<<queue[q].pair, m, r0>>}
  PROVE  Stanzas' /\ bounced' \subseteq Ids /\ lost' \subseteq Pairs \X (1 .. MaxStanzas) \X Reasons
<1>1. ASSUME NEW N, N = {m}
      PROVE  /\ Stanzas' /\ bounced' \subseteq Ids
             /\ lost' \subseteq Pairs \X (1 .. MaxStanzas) \X Reasons
  <2>1. /\ {<<queue[q].pair, n>> : n \in N} = {<<queue[q].pair, m>>}
        /\ {<<queue[q].pair, n, r0>> : n \in N} = {<<queue[q].pair, m, r0>>}
    BY <1>1
  <2>2. \/ bounced' = bounced \cup {<<queue[q].pair, n>> : n \in N} /\ lost' = lost
        \/ bounced' = bounced /\ lost' = lost \cup {<<queue[q].pair, n, r0>> : n \in N}
    BY <2>1
  <2>3. N \subseteq Held(queue[q]) /\ Turn(q, c, b, ph, Held(queue[q]) \ N) BY <1>1
  <2>4. c = "leaving" /\ ~stopped => Held(queue[q]) \ N = {} OBVIOUS
  <2> HIDE <1>1
  <2> QED BY <2>2, <2>3, <2>4, StanzasKeep
<1> QED BY <1>1

-----------------------------------------------------------------------------
(* The places in the table *)

LEMMA PlacesShrink ==
  ASSUME OutboundAssumption, Places,
         \A p \in Pairs : entries'[p].kind # "none" => entries[p].kind # "none"
  PROVE  Places'
<1>1. Occupied' \subseteq Occupied BY DEF Occupied
<1>2. IsFiniteSet(Occupied) /\ Cardinality(Occupied) <= MaxLinks BY DEF Places
<1>3. IsFiniteSet(Occupied') /\ Cardinality(Occupied') <= Cardinality(Occupied)
  BY <1>1, <1>2, FS_Subset
<1>4. Cardinality(Occupied') \in Nat /\ Cardinality(Occupied) \in Nat
  BY <1>2, <1>3, FS_CardinalityType
<1>5. Cardinality(Occupied') <= MaxLinks
  BY <1>2, <1>3, <1>4 DEF OutboundAssumption
<1> QED BY <1>3, <1>5 DEF Places

\* State::retry_count makes room before a link is made in a full table.
LEMMA PlacesLaunch ==
  ASSUME OutboundAssumption, Places, NEW p \in Pairs, NEW e \in Evictions(p), NEW q \in Queues,
         entries' = [x \in Pairs |-> IF x = p THEN Link(q)
                                     ELSE IF x \in e THEN Free ELSE entries[x]]
  PROVE  Places'
<1>a. \A x \in e : x \in Pairs /\ entries[x] = Backoff(TRUE) /\ x # p BY EvictionFacts
<1>b. \/ e = {} /\ (entries[p].kind # "none" \/ ~(Cardinality(Occupied) >= MaxLinks))
      \/ \E x \in Pairs : e = {x}
  BY EvictionFacts
<1>1. Occupied' = (Occupied \ e) \cup {p}
  <2>1. entries'[p].kind = "link" BY LinkNames
  <2>2. \A x \in Pairs : x # p /\ x \in e => entries'[x].kind = "none" BY LinkNames
  <2>3. \A x \in Pairs : x # p /\ x \notin e => entries'[x] = entries[x] OBVIOUS
  <2>4. p \notin e BY <1>a
  <2> QED BY <2>1, <2>2, <2>3, <2>4 DEF Occupied
<1>2. IsFiniteSet(Occupied) /\ Cardinality(Occupied) <= MaxLinks BY DEF Places
<1>3. Cardinality(Occupied) \in Nat /\ MaxLinks \in Nat
  BY <1>2, FS_CardinalityType DEF OutboundAssumption
<1>4. CASE \E x \in Pairs : e = {x}
  <2>1. PICK x \in Pairs : e = {x} BY <1>4
  <2>2. x \in Occupied
    <3>1. entries[x] = Backoff(TRUE) BY <1>a, <2>1
    <3>2. entries[x].kind = "backoff" BY <3>1, LinkNames
    <3> QED BY <3>2 DEF Occupied
  <2>3. /\ IsFiniteSet(Occupied \ {x})
        /\ Cardinality(Occupied \ {x}) = Cardinality(Occupied) - 1
    BY <1>2, <2>2, FS_RemoveElement
  <2>4. /\ IsFiniteSet((Occupied \ {x}) \cup {p})
        /\ \/ Cardinality((Occupied \ {x}) \cup {p}) = Cardinality(Occupied \ {x})
           \/ Cardinality((Occupied \ {x}) \cup {p}) = Cardinality(Occupied \ {x}) + 1
    BY <2>3, FS_AddElement
  <2>5. Occupied' = (Occupied \ {x}) \cup {p} BY <1>1, <2>1
  <2>6. Cardinality(Occupied') <= MaxLinks BY <1>2, <1>3, <2>3, <2>4, <2>5
  <2> QED BY <2>4, <2>5, <2>6 DEF Places
<1>5. CASE e = {} /\ p \in Occupied
  <2>1. Occupied' = Occupied BY <1>1, <1>5
  <2> QED BY <1>2, <2>1 DEF Places
<1>6. CASE e = {} /\ p \notin Occupied
  <2>1. entries[p].kind = "none" BY <1>6 DEF Occupied
  <2>2. ~(Cardinality(Occupied) >= MaxLinks) BY <1>6, <1>b, <2>1
  <2>3. Occupied' = Occupied \cup {p} BY <1>1, <1>6
  <2>4. IsFiniteSet(Occupied') /\ Cardinality(Occupied') = Cardinality(Occupied) + 1
    BY <1>2, <1>6, <2>3, FS_AddElement
  <2>5. Cardinality(Occupied') <= MaxLinks BY <1>3, <2>2, <2>4
  <2> QED BY <2>4, <2>5 DEF Places
<1> QED BY <1>b, <1>4, <1>5, <1>6

-----------------------------------------------------------------------------
(* Every step keeps the invariant *)

\* An entry names the queue of its pair, and none names a queue that is being
\* answered.
LEMMA Named ==
  ASSUME Types, Kept, Table, NEW q \in Queues
  PROVE  /\ \A p \in Pairs : entries[p] = Link(q) => queue[q].pair = p
         /\ queue[q].pc \notin Live /\ queue[q].pc # "leaving" =>
              \A p \in Pairs : entries[p] # Link(q)
  BY LinkNames DEF Table, Tabled

\* Every stanza stays where it is.
LEMMA StayStep ==
  ASSUME OutboundAssumption, IInv, NEW q \in Queues, queue[q].pc # "none",
         NEW c, NEW b, NEW ph, Turn(q, c, b, ph, Held(queue[q])),
         c \in Live => queue[q].pc \in Live,
         c = "leaving" /\ ~stopped => Held(queue[q]) = {},
         UNCHANGED <<stopped, standby, stream, admitted, fates>>, Table',
         entries' \in [Pairs -> {Free, Backoff(FALSE), Backoff(TRUE)} \cup {Link(r) : r \in Queues}],
         \A p \in Pairs : entries'[p].kind # "none" => entries[p].kind # "none"
  PROVE  IInv'
<1>1. Types /\ Kept /\ Table /\ Stanzas /\ Places BY DEF IInv
<1>2. queue[q].pair \in Pairs BY <1>1, QueueFields DEF Sane
<1>3. Stanzas' BY <1>1, <1>2, StanzasStay
<1>4. Kept' BY <1>1, TurnKept
<1>5. Types' BY <1>1 DEF Types, Turn, fates
<1>6. Places' BY <1>1, PlacesShrink
<1> QED BY <1>3, <1>4, <1>5, <1>6 DEF IInv

\* The same with the table as it is.
LEMMA StillStep ==
  ASSUME OutboundAssumption, IInv, NEW q \in Queues, queue[q].pc # "none",
         NEW c, NEW b, NEW ph, Turn(q, c, b, ph, Held(queue[q])),
         c \in Live => queue[q].pc \in Live,
         c = "leaving" /\ ~stopped => Held(queue[q]) = {},
         UNCHANGED <<stopped, entries, standby, stream, admitted, fates>>, Table'
  PROVE  IInv'
<1>1. entries' = entries /\ UNCHANGED <<stopped, standby, stream, admitted, fates>> OBVIOUS
<1>2. entries' \in [Pairs -> {Free, Backoff(FALSE), Backoff(TRUE)} \cup {Link(r) : r \in Queues}]
  BY <1>1 DEF IInv, Types
<1>3. \A p \in Pairs : entries'[p].kind # "none" => entries[p].kind # "none" BY <1>1
<1> QED BY <1>1, <1>2, <1>3, StayStep

\* One stanza is answered or counted, and the table is as it is.
LEMMA SettleStep ==
  ASSUME OutboundAssumption, IInv, NEW q \in Queues, queue[q].pc # "none",
         NEW m \in Held(queue[q]), NEW c, NEW b, NEW ph,
         Turn(q, c, b, ph, Held(queue[q]) \ {m}),
         c \in Live => queue[q].pc \in Live, c = "leaving" => stopped,
         UNCHANGED <<stopped, entries, standby, admitted, sent>>, Table',
         stream' \in [Streams -> {"out", "open", "ended"}],
         NEW r0 \in Reasons, r0 = "shutdown" => stopped,
         \/ bounced' = bounced \cup {<<queue[q].pair, m>>} /\ lost' = lost
         \/ bounced' = bounced /\ lost' = lost \cup {<<queue[q].pair, m, r0>>}
  PROVE  IInv'
<1>1. Types /\ Kept /\ Table /\ Stanzas /\ Places BY DEF IInv
<1>2. queue[q].pair \in Pairs BY <1>1, QueueFields DEF Sane
<1>3. /\ Stanzas' /\ bounced' \subseteq Ids
      /\ lost' \subseteq Pairs \X (1 .. MaxStanzas) \X Reasons
  BY <1>1, <1>2, StanzasSettle
<1>4. Kept' BY <1>1, TurnKept
<1>5. Types' BY <1>1, <1>3 DEF Types, Turn
<1>6. Places' BY <1>1, PlacesShrink
<1> QED BY <1>3, <1>4, <1>5, <1>6 DEF IInv

\* link::write, duplex::sending.
LEMMA WriteStepKeeps ==
  ASSUME OutboundAssumption, IInv, NEW q \in Queues, WriteStep(q)
  PROVE  IInv'
<1>1. Types /\ Kept /\ Table /\ Stanzas /\ Places BY DEF IInv
<1>2. "writing" \in {"writing", "rejected"} /\ "rejected" \in {"writing", "rejected"} OBVIOUS
<1>3. stream \in [Streams -> {"out", "open", "ended"}] BY <1>1 DEF Types
<1>4. {"connection", "internal", "shutdown"} \subseteq Reasons BY DEF Reasons
<1>5. ASSUME Serving(q)
      PROVE  /\ queue[q].pc # "none" /\ queue[q].pc \in Live /\ queue[q].pc # "leaving"
             /\ queue[q].pc \in Lent => stream[queue[q].by] = "open"
  BY <1>1, <1>5, ServingPlace, LiveAndLent DEF Lent
<1>6. CASE Receive(q)
  <2>1. Turn(q, queue[q].pc, queue[q].by, "kept", Held(queue[q])) BY <1>1, <1>6, ReceiveTurn
  <2>2. Serving(q) /\ UNCHANGED <<stopped, entries, standby, stream, admitted, fates>>
    BY <1>6 DEF Receive
  <2>3. Table' BY <1>1, <2>1, <2>2, TableStill
  <2> QED BY <1>5, <2>1, <2>2, <2>3, StillStep
<1>7. ASSUME NEW ph \in {"writing", "rejected"}, Ready(q),
             queue' = [queue EXCEPT ![q].phase = ph, ![q].count = @ - 1],
             UNCHANGED <<stopped, entries, standby, stream, admitted, fates>>
      PROVE  IInv'
  <2>1. Turn(q, queue[q].pc, queue[q].by, ph, Held(queue[q])) BY <1>1, <1>7, BegunTurn
  <2>2. Serving(q) BY <1>7 DEF Ready
  <2>3. Table' BY <1>1, <1>5, <1>7, <2>1, <2>2, TableStill
  <2> QED BY <1>5, <1>7, <2>1, <2>2, <2>3, StillStep
<1>8. CASE BeginWrite(q) BY <1>2, <1>7, <1>8 DEF BeginWrite
<1>9. CASE RejectSize(q) BY <1>2, <1>7, <1>9 DEF RejectSize
<1>10. ASSUME WriteDone(q) \/ BounceRejected(q) \/ Discard(q)
       PROVE  /\ Turn(q, queue[q].pc, queue[q].by, "kept", Held(queue[q]) \ {queue[q].current})
              /\ queue[q].current \in Held(queue[q]) /\ Serving(q) /\ Table'
              /\ UNCHANGED <<stopped, entries, standby, stream, admitted>>
  <2>1. /\ Turn(q, queue[q].pc, queue[q].by, "kept", Held(queue[q]) \ {queue[q].current})
        /\ queue[q].current \in Held(queue[q]) /\ Serving(q)
    BY <1>1, <1>10, WriteDoneTurn
  <2>2. UNCHANGED <<stopped, entries, standby, stream, admitted>>
    BY <1>10 DEF WriteDone, BounceRejected, Discard
  <2>3. UNCHANGED <<stopped, entries, standby, stream>> BY <2>2
  <2>4. Table' BY <1>1, <2>1, <2>3, TableStill
  <2> QED BY <2>1, <2>2, <2>4
<1>11. CASE WriteDone(q)
  <2>1. Stanzas' /\ sent' \in [Pairs -> Seq(1 .. MaxStanzas)] BY <1>1, <1>11, StanzasWrite
  <2>2. Turn(q, queue[q].pc, queue[q].by, "kept", Held(queue[q]) \ {queue[q].current}) /\ Table'
    BY <1>10, <1>11
  <2>3. UNCHANGED <<stopped, entries, standby, stream, admitted, bounced, lost>>
    BY <1>11 DEF WriteDone
  <2>4. Kept' BY <1>1, <2>2, TurnKept
  <2>5. Types' BY <1>1, <2>1, <2>2, <2>3 DEF Types, Turn
  <2>6. Places' BY <1>1, <2>3, PlacesShrink
  <2> QED BY <2>1, <2>2, <2>4, <2>5, <2>6 DEF IInv
<1>12. CASE WriteFails(q)
  <2>1. /\ Turn(q, IF queue[q].pc = "connected" THEN "closing" ELSE queue[q].pc,
                queue[q].by, "kept", Held(queue[q]) \ {queue[q].current})
        /\ queue[q].current \in Held(queue[q]) /\ Serving(q)
    BY <1>1, <1>12, WriteFailsTurn
  <2>2. Table' BY <1>1, <1>12, TableWriteFails
  <2>3. /\ UNCHANGED <<stopped, entries, standby, admitted, sent>> /\ bounced' = bounced
        /\ lost' = lost \cup {<<queue[q].pair, queue[q].current, "connection">>}
        /\ stream' = [s \in Streams |-> IF q \in Served(s) THEN "ended" ELSE stream[s]]
    BY <1>12 DEF WriteFails
  <2>4. stream' \in [Streams -> {"out", "open", "ended"}] BY <1>3, <2>3
  <2>5. "connection" \in Reasons /\ "connection" # "shutdown" BY <1>4
  <2>6. ASSUME NEW c, c = IF queue[q].pc = "connected" THEN "closing" ELSE queue[q].pc
        PROVE  c # "leaving"
    BY <1>5, <2>1, <2>6
  <2> QED BY <1>5, <2>1, <2>2, <2>3, <2>4, <2>5, <2>6, SettleStep
<1>13. CASE Discard(q)
  <2>1. /\ Turn(q, queue[q].pc, queue[q].by, "kept", Held(queue[q]) \ {queue[q].current})
        /\ queue[q].current \in Held(queue[q]) /\ Serving(q) /\ Table'
    BY <1>10, <1>13
  <2>2. /\ UNCHANGED <<stopped, entries, standby, admitted, sent>>
        /\ stream' = stream /\ bounced' = bounced
        /\ lost' = lost \cup {<<queue[q].pair, queue[q].current, "internal">>}
    BY <1>13 DEF Discard
  <2>3. "internal" \in Reasons /\ "internal" # "shutdown" BY <1>4
  <2> QED BY <1>3, <1>5, <2>1, <2>2, <2>3, SettleStep
<1>14. CASE BounceRejected(q)
  <2>1. /\ Turn(q, queue[q].pc, queue[q].by, "kept", Held(queue[q]) \ {queue[q].current})
        /\ queue[q].current \in Held(queue[q]) /\ Serving(q) /\ Table'
    BY <1>10, <1>14
  <2>2. /\ UNCHANGED <<stopped, entries, standby, admitted, sent>> /\ stream' = stream
        /\ bounced' = IF stopped THEN bounced ELSE bounced \cup {<<queue[q].pair, queue[q].current>>}
        /\ lost' = IF stopped THEN lost \cup {<<queue[q].pair, queue[q].current, "shutdown">>}
                              ELSE lost
    BY <1>14 DEF BounceRejected
  <2>3. CASE stopped
    <3>1. "shutdown" \in Reasons BY <1>4
    <3>2. /\ bounced' = bounced
          /\ lost' = lost \cup {<<queue[q].pair, queue[q].current, "shutdown">>}
      BY <2>2, <2>3
    <3>3. UNCHANGED <<stopped, entries, standby, admitted, sent>> /\ stream' = stream BY <2>2
    <3> QED BY <1>3, <1>5, <2>1, <2>3, <3>1, <3>2, <3>3, SettleStep
  <2>4. CASE ~stopped
    <3>1. "internal" \in Reasons /\ "internal" # "shutdown" BY <1>4
    <3>2. bounced' = bounced \cup {<<queue[q].pair, queue[q].current>>} /\ lost' = lost
      BY <2>2, <2>4
    <3>3. UNCHANGED <<stopped, entries, standby, admitted, sent>> /\ stream' = stream BY <2>2
    <3> QED BY <1>3, <1>5, <2>1, <3>1, <3>2, <3>3, SettleStep
  <2> QED BY <2>3, <2>4
<1> QED BY <1>6, <1>8, <1>9, <1>11, <1>12, <1>13, <1>14 DEF WriteStep

\* The link's own task goes on, or leaves when the router was stopped.
LEMMA GotoStep ==
  ASSUME OutboundAssumption, IInv, NEW q \in Queues, queue[q].pc \in Live, queue[q].phase = "kept",
         NEW c \in (Live \ Lent) \cup {"leaving"}, c = "leaving" => stopped, Goto(q, c)
  PROVE  IInv'
<1>1. Types /\ Kept /\ Table BY DEF IInv
<1>2. /\ queue' = [queue EXCEPT ![q].pc = c]
      /\ UNCHANGED <<stopped, entries, standby, stream, admitted, fates>>
  BY DEF Goto
<1>3. queue[q].pc # "none" BY LiveAndLent
<1>4. c \in (Live \ Lent) \cup {"bouncing", "leaving"} OBVIOUS
<1>5. Turn(q, c, queue[q].by, "kept", Held(queue[q])) BY <1>1, <1>2, <1>3, <1>4, GotoTurn
<1>6. c \in Live \ Lent \/ (stopped /\ c = "leaving") OBVIOUS
<1>7. UNCHANGED <<stopped, entries, standby, stream>> BY <1>2
<1>8. Table' BY <1>1, <1>5, <1>6, <1>7, TablePlace
<1> QED BY <1>2, <1>3, <1>5, <1>8, StillStep

\* A stream that stands by takes the queue over.
LEMMA HandOffStep ==
  ASSUME OutboundAssumption, IInv, NEW q \in Queues, queue[q].pc \in {"top", "dialing"},
         NEW s \in Takers(standby[queue[q].pair]), HandOff(q, s)
  PROVE  IInv'
<1>1. Types /\ Kept /\ Table BY DEF IInv
<1>2. queue[q].pc \in Live \ Lent /\ queue[q].pc # "none" /\ "assigned" # "leaving"
  BY DEF Live, Lent
<1>3. queue[q].pair \in Pairs BY <1>1, <1>2, QueueFields DEF Sane
<1>4. standby[queue[q].pair] \in Seq(Streams) BY <1>1, <1>3 DEF Types
<1>5. s \in Streams /\ ~stopped /\ In(standby[queue[q].pair], s)
  BY <1>4, TakersStand DEF In
<1>6. /\ queue' = [queue EXCEPT ![q] = HandedTo(q, s)]
      /\ UNCHANGED <<stopped, entries, standby, stream, admitted, fates>>
  BY DEF HandOff
<1>7. Turn(q, "assigned", s, "kept", Held(queue[q])) BY <1>1, <1>5, <1>6, HandOffTurn
<1>8. UNCHANGED <<stopped, entries, standby, stream>> BY <1>6
<1>9. Table' BY <1>1, <1>2, <1>5, <1>7, <1>8, TableHandOff
<1> QED BY <1>2, <1>6, <1>7, <1>9, StillStep

\* The entry of a queue that is given up goes, or becomes a back-off.
LEMMA EntryGone ==
  ASSUME Types, Kept, Table, NEW q \in Queues, NEW v \in {Free, Backoff(FALSE)},
         queue[q].pair \in Pairs,
         \/ entries' = [p \in Pairs |-> IF entries[p] = Link(q) THEN v ELSE entries[p]]
         \/ entries' = [entries EXCEPT ![queue[q].pair] = v] /\ entries[queue[q].pair] = Link(q)
  PROVE  /\ entries' \in [Pairs -> {Free, Backoff(FALSE), Backoff(TRUE)} \cup {Link(r) : r \in Queues}]
         /\ \A p \in Pairs : entries'[p].kind # "none" => entries[p].kind # "none"
         /\ \A p \in Pairs : entries'[p].kind = "link" =>
                               entries'[p] = entries[p] /\ entries[p] # Link(q)
         /\ \A p \in Pairs : entries'[p] # entries[p] => entries[p] = Link(q)
<1>1. entries \in [Pairs -> {Free, Backoff(FALSE), Backoff(TRUE)} \cup {Link(r) : r \in Queues}]
  BY DEF Types
<1>2. \A p \in Pairs : entries[p] = Link(q) => queue[q].pair = p BY Named
<1>3. \A p \in Pairs : /\ entries[p] = Link(q) => entries'[p] = v
                       /\ entries[p] # Link(q) => entries'[p] = entries[p]
  BY <1>1, <1>2
<1>4. DOMAIN entries' = Pairs /\ entries' = [p \in Pairs |-> entries'[p]] BY <1>1
<1>5. v.kind # "link" /\ Link(q).kind = "link" BY LinkNames
<1>6. entries' \in [Pairs -> {Free, Backoff(FALSE), Backoff(TRUE)} \cup {Link(r) : r \in Queues}]
  BY <1>1, <1>3, <1>4
<1>7. \A p \in Pairs : entries'[p].kind # "none" => entries[p].kind # "none" BY <1>3, <1>5
<1> QED BY <1>3, <1>5, <1>6, <1>7

\* A task gives its queue up without settling a stanza.
LEMMA GiveUpStep ==
  ASSUME OutboundAssumption, IInv, NEW q \in Queues, queue[q].pc \in Live \ Lent,
         queue[q].phase = "kept", NEW c \in {"bouncing", "leaving"},
         c = "leaving" /\ ~stopped => Held(queue[q]) = {},
         NEW v \in {Free, Backoff(FALSE)},
         \/ entries' = [p \in Pairs |-> IF entries[p] = Link(q) THEN v ELSE entries[p]]
         \/ entries' = [entries EXCEPT ![queue[q].pair] = v] /\ entries[queue[q].pair] = Link(q),
         queue' = [queue EXCEPT ![q].pc = c],
         UNCHANGED <<stopped, standby, stream, admitted, fates>>
  PROVE  IInv'
<1>1. Types /\ Kept /\ Table BY DEF IInv
<1>2. queue[q].pc # "none" /\ c \notin Live BY LiveAndLent
<1>3. queue[q].pair \in Pairs BY <1>1, <1>2, QueueFields DEF Sane
<1>4. /\ entries' \in [Pairs -> {Free, Backoff(FALSE), Backoff(TRUE)} \cup {Link(r) : r \in Queues}]
      /\ \A p \in Pairs : entries'[p].kind # "none" => entries[p].kind # "none"
      /\ \A p \in Pairs : entries'[p].kind = "link" =>
                            entries'[p] = entries[p] /\ entries[p] # Link(q)
      /\ \A p \in Pairs : entries'[p] # entries[p] => entries[p] = Link(q)
  BY <1>1, <1>3, EntryGone
<1>5. c \in (Live \ Lent) \cup {"bouncing", "leaving"} OBVIOUS
<1>6. Turn(q, c, queue[q].by, "kept", Held(queue[q])) BY <1>1, <1>2, <1>5, GotoTurn
<1>7. UNCHANGED <<stopped, standby, stream>> OBVIOUS
<1>8. Table' BY <1>1, <1>2, <1>4, <1>6, <1>7, TableGone
<1> QED BY <1>2, <1>4, <1>6, <1>8, StayStep

\* What is left of a queue is counted when it is dropped (shutdown_queue).
LEMMA StanzasDrop ==
  ASSUME OutboundAssumption, Types, Kept, Stanzas, NEW q \in Queues, queue[q].pc # "none",
         Turn(q, "gone", None, "kept", {}), stopped \/ Held(queue[q]) = {},
         UNCHANGED <<stopped, admitted, sent, bounced>>, lost' = lost \cup Losses(q)
  PROVE  Stanzas' /\ lost' \subseteq Pairs \X (1 .. MaxStanzas) \X Reasons
<1>1. queue[q].pair \in Pairs /\ Slot(queue[q]) BY QueueFields DEF Sane
<1>2. LeftSet(q) = Held(queue[q]) BY <1>1, LeftFacts
<1>3. ASSUME NEW N, N = Held(queue[q])
      PROVE  Stanzas' /\ lost' \subseteq Pairs \X (1 .. MaxStanzas) \X Reasons
  <2>1. Losses(q) = {<<queue[q].pair, n, "shutdown">> : n \in N} BY <1>2, <1>3 DEF Losses
  <2>2. Held(queue[q]) \ N = {} /\ N \subseteq Held(queue[q]) BY <1>3
  <2>3. Turn(q, "gone", None, "kept", Held(queue[q]) \ N) BY <2>2
  <2>4. "shutdown" \in Reasons BY DEF Reasons
  <2>5. stopped \/ N = {} BY <1>3
  <2>6. "gone" \notin Live /\ "gone" # "leaving" BY LiveAndLent
  <2>7. UNCHANGED <<stopped, admitted, sent>> /\ bounced' = bounced
        /\ lost' = lost \cup {<<queue[q].pair, n, "shutdown">> : n \in N}
    BY <2>1
  <2> HIDE <1>3
  <2> QED BY <1>1, <2>2, <2>3, <2>4, <2>5, <2>6, <2>7, StanzasKeep
<1> QED BY <1>3

\* A link that failed: what it holds is answered, or counted after a stop.
LEMMA BounceStep ==
  ASSUME OutboundAssumption, IInv, NEW q \in Queues, Bounce(q)
  PROVE  IInv'
<1>1. Types /\ Kept /\ Table BY DEF IInv
<1>2. queue[q].pc = "bouncing" /\ queue[q].pc # "none" BY DEF Bounce
<1>3. queue[q].phase = "kept" /\ Slot(queue[q]) BY <1>1, <1>2, QueueFields
<1>4. "leaving" \notin Live /\ "bouncing" \notin Live /\ queue[q].pc \notin Live
  BY <1>2, LiveAndLent
<1>5. \A p \in Pairs : entries[p] # Link(q) BY <1>1, <1>2, <1>4, Named
<1>6. ASSUME NEW c \in {"leaving", "bouncing"}, NEW H, Turn(q, c, queue[q].by, "kept", H),
             UNCHANGED <<stopped, entries, standby, stream>>
      PROVE  Table'
  BY <1>1, <1>4, <1>5, <1>6, TableGone
<1>7. CASE Drained(q)
  <2>1. /\ queue' = [queue EXCEPT ![q].pc = "leaving"]
        /\ UNCHANGED <<stopped, entries, standby, stream, admitted, fates>>
    BY <1>7 DEF Bounce, Goto
  <2>2. Held(queue[q]) = {} BY <1>3, <1>7, LeftFacts
  <2>3. Turn(q, "leaving", queue[q].by, "kept", Held(queue[q]))
    BY <1>1, <1>2, <1>3, <2>1, GotoTurn
  <2>4. UNCHANGED <<stopped, entries, standby, stream>> BY <2>1
  <2>5. Table' BY <1>6, <2>3, <2>4
  <2> QED BY <1>2, <1>4, <2>1, <2>2, <2>3, <2>5, StillStep
<1>8. CASE ~Drained(q)
  <2>1. /\ Turn(q, IF stopped THEN "leaving" ELSE "bouncing", queue[q].by, "kept",
                Held(queue[q]) \ {Head(Left(q))})
        /\ Head(Left(q)) \in Held(queue[q])
    BY <1>1, <1>8, BounceTurn
  <2>2. /\ bounced' = IF stopped THEN bounced ELSE bounced \cup {<<queue[q].pair, Head(Left(q))>>}
        /\ lost' = IF stopped THEN lost \cup {<<queue[q].pair, Head(Left(q)), "shutdown">>} ELSE lost
        /\ UNCHANGED <<stopped, entries, standby, stream, admitted, sent>>
    BY <1>8 DEF Bounce
  <2>3. UNCHANGED <<stopped, entries, standby, stream>> BY <2>2
  <2>4. /\ UNCHANGED <<stopped, entries, standby, admitted, sent>>
        /\ stream' \in [Streams -> {"out", "open", "ended"}]
    BY <1>1, <2>2 DEF Types
  <2>5. CASE stopped
    <3>1. Turn(q, "leaving", queue[q].by, "kept", Held(queue[q]) \ {Head(Left(q))})
      BY <2>1, <2>5
    <3>2. Table' BY <1>6, <2>3, <3>1
    <3>3. /\ bounced' = bounced
          /\ lost' = lost \cup {<<queue[q].pair, Head(Left(q)), "shutdown">>}
      BY <2>2, <2>5
    <3>4. "shutdown" \in Reasons BY DEF Reasons
    <3> QED BY <1>2, <1>4, <2>1, <2>4, <2>5, <3>1, <3>2, <3>3, <3>4, SettleStep
  <2>6. CASE ~stopped
    <3>1. Turn(q, "bouncing", queue[q].by, "kept", Held(queue[q]) \ {Head(Left(q))})
      BY <2>1, <2>6
    <3>2. Table' BY <1>6, <2>3, <3>1
    <3>3. bounced' = bounced \cup {<<queue[q].pair, Head(Left(q))>>} /\ lost' = lost
      BY <2>2, <2>6
    <3>4. "internal" \in Reasons /\ "internal" # "shutdown" BY DEF Reasons
    <3>5. "bouncing" # "leaving" OBVIOUS
    <3> QED BY <1>2, <1>4, <2>1, <2>4, <3>1, <3>2, <3>3, <3>4, <3>5, SettleStep
  <2> QED BY <2>5, <2>6
<1> QED BY <1>7, <1>8

\* A task ends: its entry goes and the rest of its queue is counted.
LEMMA LeaveStep ==
  ASSUME OutboundAssumption, IInv, NEW q \in Queues, Leave(q)
  PROVE  IInv'
<1>1. Types /\ Kept /\ Table /\ Stanzas /\ Places BY DEF IInv
<1>2. queue[q].pc = "leaving" /\ queue[q].pc # "none" BY DEF Leave
<1>3. queue[q].pair \in Pairs BY <1>1, <1>2, QueueFields DEF Sane
<1>4. /\ queue' = [queue EXCEPT ![q] = Dropped(q)]
      /\ lost' = lost \cup Losses(q)
      /\ entries' = [p \in Pairs |-> IF entries[p] = Link(q) THEN Free ELSE entries[p]]
      /\ UNCHANGED <<stopped, standby, stream, admitted, sent, bounced>>
  BY DEF Leave
<1>5. Turn(q, "gone", None, "kept", {}) BY <1>1, <1>2, <1>4, DroppedTurn
<1>6. stopped \/ Held(queue[q]) = {} BY <1>1, <1>2 DEF Stanzas, Emptied
<1>7. UNCHANGED <<stopped, admitted, sent, bounced>> BY <1>4
<1>8. Stanzas' /\ lost' \subseteq Pairs \X (1 .. MaxStanzas) \X Reasons
  BY <1>1, <1>2, <1>4, <1>5, <1>6, <1>7, StanzasDrop
<1>9. Free \in {Free, Backoff(FALSE)} OBVIOUS
<1>10. /\ entries' \in [Pairs -> {Free, Backoff(FALSE), Backoff(TRUE)} \cup {Link(r) : r \in Queues}]
       /\ \A p \in Pairs : entries'[p].kind # "none" => entries[p].kind # "none"
       /\ \A p \in Pairs : entries'[p].kind = "link" =>
                             entries'[p] = entries[p] /\ entries[p] # Link(q)
       /\ \A p \in Pairs : entries'[p] # entries[p] => entries[p] = Link(q)
  BY <1>1, <1>3, <1>4, <1>9, EntryGone
<1>11. "gone" \notin Live BY LiveAndLent
<1>12. UNCHANGED <<stopped, standby, stream>> BY <1>4
<1>13. Table' BY <1>1, <1>5, <1>10, <1>11, <1>12, TableGone
<1>14. Kept' BY <1>1, <1>5, TurnKept
<1>15. Types' BY <1>1, <1>4, <1>5, <1>8, <1>10 DEF Types, Turn
<1>16. Places' BY <1>1, <1>10, PlacesShrink
<1> QED BY <1>8, <1>13, <1>14, <1>15, <1>16 DEF IInv

\* link::run.
LEMMA TaskStepKeeps ==
  ASSUME OutboundAssumption, IInv, NEW q \in Queues, TaskStep(q)
  PROVE  IInv'
<1>1. Types /\ Kept /\ Table BY DEF IInv
<1>2. /\ {"top", "dialing", "connected", "closing"} \subseteq Live \ Lent
      /\ {"top", "dialing", "connected", "closing"} \subseteq Live
      /\ {"top", "dialing", "connected", "closing", "leaving"} \subseteq (Live \ Lent) \cup {"leaving"}
  BY DEF Live, Lent
<1>3. queue[q].pc \notin {"connected", "served"} => queue[q].phase = "kept" BY <1>1, QueueFields
<1>4. queue[q].pc \in Live => Owns(q) BY <1>1 DEF Table, Owning, Owns
<1>5. CASE Top(q)
  <2>1. queue[q].pc = "top" /\ queue[q].pc \in Live /\ queue[q].phase = "kept"
    BY <1>2, <1>3, <1>5 DEF Top
  <2>2. \/ stopped /\ Goto(q, "leaving")
        \/ \E s \in Takers(standby[queue[q].pair]) : HandOff(q, s)
        \/ Goto(q, "dialing")
    BY <1>4, <1>5, <2>1 DEF Top
  <2>3. CASE stopped /\ Goto(q, "leaving") BY <1>2, <2>1, <2>3, GotoStep
  <2>4. CASE \E s \in Takers(standby[queue[q].pair]) : HandOff(q, s)
    BY <2>1, <2>4, HandOffStep
  <2>5. CASE Goto(q, "dialing")
    <3>1. "dialing" # "leaving" OBVIOUS
    <3> QED BY <1>2, <2>1, <2>5, <3>1, GotoStep
  <2> QED BY <2>2, <2>3, <2>4, <2>5
<1>6. CASE Connect(q)
  <2>1. queue[q].pc = "dialing" /\ Goto(q, "connected") BY <1>6 DEF Connect
  <2>2. "connected" # "leaving" OBVIOUS
  <2> QED BY <1>2, <1>3, <2>1, <2>2, GotoStep
<1>7. CASE DialStopped(q)
  <2>1. queue[q].pc = "dialing" /\ stopped /\ Goto(q, "leaving") BY <1>7 DEF DialStopped
  <2> QED BY <1>2, <1>3, <2>1, GotoStep
<1>8. CASE DialFails(q)
  <2>1. /\ queue[q].pc = "dialing" /\ queue[q].pc \in Live \ Lent /\ queue[q].phase = "kept"
        /\ entries[queue[q].pair] = Link(q) /\ Owns(q)
    <3>1. queue[q].pc = "dialing" BY <1>8 DEF DialFails
    <3>2. Owns(q) BY <1>2, <1>4, <3>1
    <3> QED BY <1>2, <1>3, <3>1, <3>2 DEF Owns
  <2>2. Free \in {Free, Backoff(FALSE)} /\ Backoff(FALSE) \in {Free, Backoff(FALSE)} OBVIOUS
  <2>3. \/ /\ stopped
           /\ entries' = [entries EXCEPT ![queue[q].pair] = Free]
           /\ queue' = [queue EXCEPT ![q].pc = "leaving"]
           /\ UNCHANGED <<stopped, standby, stream, admitted, fates>>
        \/ \E s \in Takers(standby[queue[q].pair]) : HandOff(q, s)
        \/ /\ entries' = [entries EXCEPT ![queue[q].pair] = Backoff(FALSE)]
           /\ queue' = [queue EXCEPT ![q].pc = "bouncing"]
           /\ UNCHANGED <<stopped, standby, stream, admitted, fates>>
    BY <1>8, <2>1 DEF DialFails
  <2>4. CASE /\ stopped
             /\ entries' = [entries EXCEPT ![queue[q].pair] = Free]
             /\ queue' = [queue EXCEPT ![q].pc = "leaving"]
             /\ UNCHANGED <<stopped, standby, stream, admitted, fates>>
    BY <2>1, <2>2, <2>4, GiveUpStep
  <2>5. CASE \E s \in Takers(standby[queue[q].pair]) : HandOff(q, s)
    BY <2>1, <2>5, HandOffStep
  <2>6. CASE /\ entries' = [entries EXCEPT ![queue[q].pair] = Backoff(FALSE)]
             /\ queue' = [queue EXCEPT ![q].pc = "bouncing"]
             /\ UNCHANGED <<stopped, standby, stream, admitted, fates>>
    <3>1. "bouncing" \in {"bouncing", "leaving"} /\ "bouncing" # "leaving" OBVIOUS
    <3> QED BY <2>1, <2>2, <2>6, <3>1, GiveUpStep
  <2> QED BY <2>3, <2>4, <2>5, <2>6
<1>9. CASE Bounce(q) BY <1>9, BounceStep
<1>10. CASE Close(q)
  <2>1. queue[q].pc = "connected" /\ queue[q].phase = "kept" BY <1>10 DEF Close
  <2>2. Goto(q, "closing")
    <3>1. queue' = [queue EXCEPT ![q] = [queue[q] EXCEPT !.pc = "closing"]]
      BY <1>10 DEF Close, Retained
    <3>2. queue' = [queue EXCEPT ![q].pc = "closing"] BY <3>1
    <3> QED BY <1>10, <3>2 DEF Close, Goto
  <2>3. "closing" # "leaving" OBVIOUS
  <2> QED BY <1>2, <2>1, <2>2, <2>3, GotoStep
<1>11. CASE Reconsider(q)
  <2>1. /\ queue[q].pc = "closing" /\ queue[q].pc \in Live /\ queue[q].pc \in Live \ Lent
        /\ queue[q].phase = "kept" /\ Owns(q)
    <3>1. queue[q].pc = "closing" BY <1>11 DEF Reconsider
    <3> QED BY <1>2, <1>3, <1>4, <3>1
  <2>2. CASE /\ stopped \/ NothingLeft(q) \/ ~Owns(q)
             /\ entries' = [p \in Pairs |-> IF entries[p] = Link(q) THEN Free ELSE entries[p]]
             /\ queue' = [queue EXCEPT ![q].pc = "leaving"]
             /\ UNCHANGED <<stopped, standby, stream, admitted, fates>>
    <3>1. ~stopped => Held(queue[q]) = {}
      BY <1>1, <2>1, <2>2, QueueFields, LeftFacts DEF NothingLeft
    <3>2. Free \in {Free, Backoff(FALSE)} OBVIOUS
    <3> QED BY <2>1, <2>2, <3>1, <3>2, GiveUpStep
  <2>3. CASE Goto(q, "top")
    <3>1. "top" # "leaving" OBVIOUS
    <3> QED BY <1>2, <2>1, <2>3, <3>1, GotoStep
  <2> QED BY <1>11, <2>2, <2>3 DEF Reconsider
<1>12. CASE Leave(q) BY <1>12, LeaveStep
<1> QED BY <1>5, <1>6, <1>7, <1>8, <1>9, <1>10, <1>11, <1>12 DEF TaskStep

\* BidiRegistration::release.
LEMMA ReleaseStep ==
  ASSUME OutboundAssumption, IInv, NEW s \in Streams, Release(s)
  PROVE  IInv'
<1>1. Types /\ Kept /\ Table /\ Stanzas /\ Places BY DEF IInv
<1>2. Table' /\ standby' \in [Pairs -> Seq(Streams)] BY <1>1, TableRelease
<1>3. UNCHANGED <<stopped, admitted, sent, bounced>> /\ stream' = [stream EXCEPT ![s] = "out"]
  BY DEF Release
<1>4. stream' \in [Streams -> {"out", "open", "ended"}] BY <1>1, <1>3 DEF Types
<1>5. CASE GivenBack(s) = {}
  <2>1. queue' = queue /\ entries' = entries /\ lost' = lost BY <1>1, <1>5, ReleaseNone
  <2>2. Stanzas' BY <1>1, <1>3, <2>1, StanzasRest DEF fates
  <2>3. Types' BY <1>1, <1>2, <1>3, <1>4, <2>1 DEF Types
  <2>4. Kept' BY <1>1, <2>1 DEF Kept
  <2>5. Places' BY <1>1, <2>1, PlacesShrink
  <2> QED BY <1>2, <2>2, <2>3, <2>4, <2>5 DEF IInv
<1>6. ASSUME NEW q \in GivenBack(s) PROVE IInv'
  <2>1. q \in Queues /\ queue[q].pc \in Lent /\ queue[q].by = s BY <1>1, <1>6, ReleaseOne
  <2>2. queue[q].pc # "none" /\ queue[q].pc \in Live BY <2>1, LiveAndLent
  <2>3. queue[q].pair \in Pairs BY <1>1, <2>1, <2>2, QueueFields DEF Sane
  <2>4. CASE /\ stopped \/ Held(queue[q]) = {}
             /\ Turn(q, "gone", None, "kept", {})
             /\ entries' = [p \in Pairs |-> IF entries[p] = Link(q) THEN Free ELSE entries[p]]
             /\ lost' = lost \cup Losses(q)
    <3>1. Stanzas' /\ lost' \subseteq Pairs \X (1 .. MaxStanzas) \X Reasons
      BY <1>1, <1>3, <2>1, <2>2, <2>4, StanzasDrop
    <3>2. Free \in {Free, Backoff(FALSE)} OBVIOUS
    <3>3. /\ entries' \in [Pairs -> {Free, Backoff(FALSE), Backoff(TRUE)} \cup {Link(r) : r \in Queues}]
          /\ \A p \in Pairs : entries'[p].kind # "none" => entries[p].kind # "none"
      BY <1>1, <2>1, <2>3, <2>4, <3>2, EntryGone
    <3>4. Kept' BY <1>1, <2>1, <2>4, TurnKept
    <3>5. Types' BY <1>1, <1>2, <1>3, <1>4, <2>4, <3>1, <3>3 DEF Types, Turn
    <3>6. Places' BY <1>1, <3>3, PlacesShrink
    <3> QED BY <1>2, <3>1, <3>4, <3>5, <3>6 DEF IInv
  <2>5. ASSUME entries' = entries, lost' = lost, NEW c \in {"top", "assigned"}, NEW b,
               Turn(q, c, b, "kept", Held(queue[q]))
        PROVE  IInv'
    <3>1. c # "leaving" OBVIOUS
    <3>2. UNCHANGED <<stopped, admitted, fates>> BY <1>3, <2>5 DEF fates
    <3>3. Stanzas' BY <1>1, <2>1, <2>2, <2>3, <2>5, <3>1, <3>2, StanzasStay
    <3>4. Kept' BY <1>1, <2>1, <2>5, TurnKept
    <3>5. Types' BY <1>1, <1>2, <1>3, <1>4, <2>5 DEF Types, Turn
    <3>6. Places' BY <1>1, <2>5, PlacesShrink
    <3> QED BY <1>2, <3>3, <3>4, <3>5, <3>6 DEF IInv
  <2>6. \/ /\ stopped \/ Held(queue[q]) = {}
           /\ Turn(q, "gone", None, "kept", {})
           /\ entries' = [p \in Pairs |-> IF entries[p] = Link(q) THEN Free ELSE entries[p]]
           /\ lost' = lost \cup Losses(q)
        \/ /\ entries' = entries /\ lost' = lost
           /\ \/ Turn(q, "top", None, "kept", Held(queue[q]))
              \/ \E x : Turn(q, "assigned", x, "kept", Held(queue[q]))
    BY <1>1, <1>6, ReleaseOne
  <2> QED BY <2>4, <2>5, <2>6
<1> QED BY <1>5, <1>6

\* The inbound streams that negotiated bidi.
LEMMA StreamStepKeeps ==
  ASSUME OutboundAssumption, IInv, NEW s \in Streams, StreamStep(s)
  PROVE  IInv'
<1>1. Types /\ Kept /\ Table /\ Stanzas /\ Places BY DEF IInv
<1>2. ASSUME NEW p \in Pairs, Register(s, p) PROVE IInv'
  <2>1. Table' /\ standby' \in [Pairs -> Seq(Streams)] BY <1>1, <1>2, TableRegister
  <2>2. /\ stream' = [stream EXCEPT ![s] = "open"]
        /\ entries' = [entries EXCEPT ![p] = IF entries[p].kind = "backoff" THEN Free ELSE entries[p]]
        /\ UNCHANGED <<stopped, queue, admitted, fates>>
    BY <1>2 DEF Register
  <2>3. Stanzas' BY <1>1, <2>2, StanzasRest
  <2>4. /\ entries \in [Pairs -> {Free, Backoff(FALSE), Backoff(TRUE)} \cup {Link(r) : r \in Queues}]
        /\ stream \in [Streams -> {"out", "open", "ended"}]
    BY <1>1 DEF Types
  <2>5. /\ entries' \in [Pairs -> {Free, Backoff(FALSE), Backoff(TRUE)} \cup {Link(r) : r \in Queues}]
        /\ stream' \in [Streams -> {"out", "open", "ended"}]
    BY <2>2, <2>4
  <2>6. \A x \in Pairs : entries'[x] = entries[x] \/ entries'[x] = Free BY <2>2, <2>4
  <2>7. Places' BY <1>1, <2>6, LinkNames, PlacesShrink
  <2>8. Types' BY <1>1, <2>1, <2>2, <2>5 DEF Types, fates
  <2>9. Kept' BY <1>1, <2>2 DEF Kept
  <2> QED BY <2>1, <2>3, <2>7, <2>8, <2>9 DEF IInv
<1>3. CASE TakeAssigned(s)
  <2>1. PICK q \in Assigned(s) : queue' = [queue EXCEPT ![q].pc = "served"]
    BY <1>3 DEF TakeAssigned
  <2>2. UNCHANGED <<stopped, entries, standby, stream, admitted, fates>> BY <1>3 DEF TakeAssigned
  <2>3. q \in Queues /\ queue[q].pc = "assigned" BY <2>1 DEF Assigned
  <2>4. /\ queue[q].pc # "none" /\ queue[q].pc \in Lent /\ "served" \in Lent
        /\ queue[q].pc \in Live /\ "served" # "leaving"
    BY <2>3 DEF Lent, Live
  <2>5. Turn(q, "served", queue[q].by, "kept", Held(queue[q])) BY <1>1, <2>1, <2>3, TakenTurn
  <2>6. UNCHANGED <<stopped, entries, standby, stream>> BY <2>2
  <2>7. Table' BY <1>1, <2>3, <2>4, <2>5, <2>6, TableStill
  <2> QED BY <2>2, <2>3, <2>4, <2>5, <2>7, StillStep
<1>4. CASE EndStream(s)
  <2>1. Table' BY <1>1, <1>4, TableEndStream
  <2>2. /\ stream' = [stream EXCEPT ![s] = "ended"]
        /\ UNCHANGED <<stopped, entries, standby, queue, admitted, fates>>
    BY <1>4 DEF EndStream
  <2>3. Stanzas' BY <1>1, <2>2, StanzasRest
  <2>4. stream' \in [Streams -> {"out", "open", "ended"}] BY <1>1, <2>2 DEF Types
  <2>5. Types' BY <1>1, <2>2, <2>4 DEF Types, fates
  <2>6. Kept' BY <1>1, <2>2 DEF Kept
  <2>7. Places' BY <1>1, <2>2, PlacesShrink
  <2> QED BY <2>1, <2>3, <2>5, <2>6, <2>7 DEF IInv
<1>5. CASE Release(s) BY <1>5, ReleaseStep
<1> QED BY <1>2, <1>3, <1>4, <1>5 DEF StreamStep

\* RemoteRouter::route: a stanza is admitted, or a back-off evicted for it.
LEMMA RouteKeeps ==
  ASSUME OutboundAssumption, IInv, NEW p \in Pairs,
         Enqueue(p) \/ Launch(p) \/ LaunchRefused(p) \/ Elapse(p)
  PROVE  IInv'
<1>1. Types /\ Kept /\ Table /\ Stanzas /\ Places BY DEF IInv
<1>2. entries \in [Pairs -> {Free, Backoff(FALSE), Backoff(TRUE)} \cup {Link(r) : r \in Queues}]
  BY <1>1 DEF Types
<1>3. CASE Enqueue(p)
  <2>1. Fated BY <1>1 DEF Stanzas
  <2>2. PICK q \in Queues :
          /\ queue[q].pair = p /\ queue[q].pc \in Live
          /\ Turn(q, queue[q].pc, queue[q].by, queue[q].phase, Held(queue[q]) \cup {admitted[p] + 1})
    BY <1>1, <1>3, <2>1, EnqueueTurn
  <2>3. /\ admitted[p] < MaxStanzas /\ admitted' = [admitted EXCEPT ![p] = admitted[p] + 1]
        /\ UNCHANGED <<stopped, entries, standby, stream>> /\ UNCHANGED <<stopped, fates>>
    BY <1>3 DEF Enqueue
  <2>4. /\ \A r \in Queues : r # q => queue'[r] = queue[r]
        /\ queue'[q].pair = p /\ queue'[q].pc \in Live
        /\ Held(queue'[q]) = Held(queue[q]) \cup {admitted[p] + 1}
    BY <2>2 DEF Turn
  <2>5. Stanzas' /\ admitted' \in [Pairs -> 0 .. MaxStanzas]
    BY <1>1, <2>2, <2>3, <2>4, StanzasAdmit
  <2>6. queue[q].pc \in Lent /\ queue[q].phase # "kept" => stream[queue[q].by] = "open"
    BY <1>1 DEF Table, Attended
  <2>7. Table' BY <1>1, <2>2, <2>3, <2>6, TableStill
  <2>8. Kept' BY <1>1, <2>2, TurnKept
  <2>9. Types' BY <1>1, <2>2, <2>3, <2>5 DEF Types, Turn, fates
  <2>10. Places' BY <1>1, <2>3, PlacesShrink
  <2> QED BY <2>5, <2>7, <2>8, <2>9, <2>10 DEF IInv
<1>4. CASE Launch(p)
  <2>1. PICK q \in Queues, e \in Evictions(p) :
          /\ queue[q].pc = "none"
          /\ queue' \in [Queues -> Slots]
          /\ \A r \in Queues : r # q => queue'[r] = queue[r]
          /\ Slot(queue'[q]) /\ queue'[q].pair = p /\ queue'[q].pc = "top"
          /\ Held(queue'[q]) = {admitted[p] + 1}
          /\ entries' = [x \in Pairs |-> IF x = p THEN Link(q)
                                         ELSE IF x \in e THEN Free ELSE entries[x]]
    BY <1>1, <1>4, LaunchTurn
  <2>2. Held(queue[q]) = {}
    <3>1. queue[q].chan = <<>> /\ queue[q].current = 0 BY <1>1, <2>1, QueueFields DEF Sane
    <3> QED BY <3>1 DEF Held
  <2>3. queue'[q].pc \in Live /\ Held(queue'[q]) = Held(queue[q]) \cup {admitted[p] + 1}
    BY <2>1, <2>2 DEF Live
  <2>4. /\ admitted[p] < MaxStanzas /\ admitted' = [admitted EXCEPT ![p] = admitted[p] + 1]
        /\ UNCHANGED <<stopped, standby, stream>> /\ UNCHANGED <<stopped, fates>>
    BY <1>4 DEF Launch
  <2>5. Stanzas' /\ admitted' \in [Pairs -> 0 .. MaxStanzas]
    BY <1>1, <2>1, <2>2, <2>3, <2>4, StanzasAdmit
  <2>6. Table' BY <1>1, <1>4, TableLaunch
  <2>7. Kept' BY <1>1, <2>1 DEF Kept
  <2>8. entries' \in [Pairs -> {Free, Backoff(FALSE), Backoff(TRUE)} \cup {Link(r) : r \in Queues}]
    BY <1>2, <2>1
  <2>9. Types' BY <1>1, <2>1, <2>4, <2>5, <2>8 DEF Types, fates
  <2>10. Places' BY <1>1, <2>1, PlacesLaunch
  <2> QED BY <2>5, <2>6, <2>7, <2>9, <2>10 DEF IInv
<1>5. ASSUME UNCHANGED <<stopped, standby, queue, stream, admitted, fates>>,
             entries' \in [Pairs -> {Free, Backoff(FALSE), Backoff(TRUE)}
                                      \cup {Link(r) : r \in Queues}],
             \A x \in Pairs : entries'[x] # entries[x] =>
               \E d \in BOOLEAN : entries[x] = Backoff(d) /\ entries'[x] \in {Free, Backoff(TRUE)}
      PROVE  IInv'
  <2>1. \A x \in Pairs : entries'[x] # entries[x] =>
          entries[x].kind = "backoff" /\ entries'[x].kind # "link"
    BY <1>5, LinkNames
  <2>2. UNCHANGED <<stopped, standby, queue, stream>> BY <1>5
  <2>3. Table' BY <1>1, <2>1, <2>2, TableEntries
  <2>4. Stanzas' BY <1>1, <1>5, StanzasRest
  <2>5. Types' BY <1>1, <1>5 DEF Types, fates
  <2>6. Kept' BY <1>1, <1>5 DEF Kept
  <2>7. Places' BY <1>1, <2>1, PlacesShrink
  <2> QED BY <2>3, <2>4, <2>5, <2>6, <2>7 DEF IInv
<1>6. CASE LaunchRefused(p)
  <2>1. PICK e \in Evictions(p) : entries' = [x \in Pairs |-> IF x \in e THEN Free ELSE entries[x]]
    BY <1>6 DEF LaunchRefused
  <2>2. UNCHANGED <<stopped, standby, queue, stream, admitted, fates>> BY <1>6 DEF LaunchRefused
  <2>3. \A x \in e : entries[x] = Backoff(TRUE) BY EvictionFacts
  <2>4. entries' \in [Pairs -> {Free, Backoff(FALSE), Backoff(TRUE)} \cup {Link(r) : r \in Queues}]
    BY <1>2, <2>1
  <2>5. \A x \in Pairs : entries'[x] # entries[x] =>
          \E d \in BOOLEAN : entries[x] = Backoff(d) /\ entries'[x] \in {Free, Backoff(TRUE)}
    BY <2>1, <2>3
  <2> QED BY <1>5, <2>2, <2>4, <2>5
<1>7. CASE Elapse(p)
  <2>1. /\ entries[p] = Backoff(FALSE) /\ entries' = [entries EXCEPT ![p] = Backoff(TRUE)]
        /\ UNCHANGED <<stopped, standby, queue, stream, admitted, fates>>
    BY <1>7 DEF Elapse
  <2>2. entries' \in [Pairs -> {Free, Backoff(FALSE), Backoff(TRUE)} \cup {Link(r) : r \in Queues}]
    BY <1>2, <2>1
  <2>3. \A x \in Pairs : entries'[x] # entries[x] =>
          \E d \in BOOLEAN : entries[x] = Backoff(d) /\ entries'[x] \in {Free, Backoff(TRUE)}
    BY <1>2, <2>1
  <2> QED BY <1>5, <2>1, <2>2, <2>3
<1> QED BY <1>3, <1>4, <1>6, <1>7

LEMMA InitKeeps ==
  ASSUME OutboundAssumption, Init
  PROVE  IInv
<1>1. /\ stopped = FALSE /\ entries = [p \in Pairs |-> Free]
      /\ standby = [p \in Pairs |-> <<>>] /\ queue = [q \in Queues |-> NoQueue]
      /\ stream = [s \in Streams |-> "out"] /\ admitted = [p \in Pairs |-> 0]
      /\ sent = [p \in Pairs |-> <<>>] /\ bounced = {} /\ lost = {}
  BY DEF Init
<1>2. Slot(NoQueue) /\ Held(NoQueue) = {} BY NewSlot
<1>3. NoQueue \in Slots /\ NoQueue.pc = "none" BY <1>2 DEF Slot, NoQueue
<1>4. \A q \in Queues : queue[q] = NoQueue BY <1>1
<1>5. Kept BY <1>2, <1>4 DEF Kept
<1>6. MaxStanzas \in Nat BY DEF OutboundAssumption
<1>7. Types
  <2>1. stopped \in BOOLEAN BY <1>1
  <2>2. entries \in [Pairs -> {Free, Backoff(FALSE), Backoff(TRUE)} \cup {Link(q) : q \in Queues}]
    BY <1>1
  <2>3. standby \in [Pairs -> Seq(Streams)] /\ sent \in [Pairs -> Seq(1 .. MaxStanzas)] BY <1>1
  <2>4. queue \in [Queues -> Slots] BY <1>1, <1>3
  <2>5. stream \in [Streams -> {"out", "open", "ended"}] BY <1>1
  <2>6. admitted \in [Pairs -> 0 .. MaxStanzas] BY <1>1, <1>6
  <2>7. bounced \subseteq Ids /\ lost \subseteq Pairs \X (1 .. MaxStanzas) \X Reasons BY <1>1
  <2> QED BY <2>1, <2>2, <2>3, <2>4, <2>5, <2>6, <2>7 DEF Types
<1>8. Table
  <2>1. \A q \in Queues : queue[q].pc \notin Live /\ queue[q].pc \notin Lent
    BY <1>3, <1>4, LiveAndLent
  <2>2. \A p \in Pairs : entries[p].kind # "link" BY <1>1, LinkNames
  <2>3. \A p \in Pairs : Len(standby[p]) = 0 BY <1>1
  <2>4. Roll BY <2>3 DEF Roll, In
  <2> QED BY <2>1, <2>2, <2>4 DEF Table, Owning, Tabled, Lone, Standing, Attended
<1>9. Fated
  <2> SUFFICES ASSUME NEW p \in Pairs, NEW n \in 1 .. MaxStanzas
               PROVE  /\ ~Settled(p, n) /\ SettledOnce(p, n) /\ ~(n <= admitted[p])
                      /\ \A q \in Queues : ~Waits(p, n, q)
    BY DEF Fated
  <2>1. ~Written(p, n)
    <3>1. Len(sent[p]) = 0 BY <1>1
    <3> QED BY <3>1 DEF Written
  <2>2. ~Answered(p, n) /\ \A r \in Reasons : ~Counted(p, n, r) BY <1>1 DEF Answered, Counted
  <2>3. ~(n <= admitted[p]) BY <1>1
  <2>4. \A q \in Queues : ~Waits(p, n, q) BY <1>2, <1>4 DEF Waits
  <2> QED BY <2>1, <2>2, <2>3, <2>4 DEF Settled, SettledOnce
<1>10. Ahead /\ Emptied BY <1>2, <1>4 DEF Ahead, Emptied
<1>11. Ascending
  <2>1. \A p \in Pairs : Len(sent[p]) = 0 BY <1>1
  <2> QED BY <2>1 DEF Ascending
<1>12. DroppedOnlyAtStop BY <1>1 DEF DroppedOnlyAtStop
<1>13. Places
  <2>1. \A p \in Pairs : entries[p].kind = "none" BY <1>1, LinkNames
  <2>2. Occupied = {} BY <2>1 DEF Occupied
  <2> QED BY <2>2, FS_EmptySet DEF Places, OutboundAssumption
<1> QED BY <1>5, <1>7, <1>8, <1>9, <1>10, <1>11, <1>12, <1>13 DEF IInv, Stanzas

\* RemoteRouter::stop.
LEMMA StopStep ==
  ASSUME OutboundAssumption, IInv, Stop
  PROVE  IInv'
<1>1. Types /\ Kept /\ Table /\ Stanzas /\ Places BY DEF IInv
<1>2. Table' /\ standby' \in [Pairs -> Seq(Streams)] BY <1>1, TableStop
<1>3. /\ stopped' = TRUE /\ UNCHANGED <<queue, stream, admitted, fates>>
      /\ entries' = [p \in Pairs |-> IF entries[p].kind = "link" THEN entries[p] ELSE Free]
  BY DEF Stop
<1>4. Stanzas' BY <1>1, <1>3, StanzasRest
<1>5. Kept' BY <1>1, <1>3 DEF Kept
<1>6. Types' BY <1>1, <1>2, <1>3 DEF Types, fates
<1>7. Places' BY <1>1, <1>3, LinkNames, PlacesShrink
<1> QED BY <1>2, <1>4, <1>5, <1>6, <1>7 DEF IInv

LEMMA StutterKeeps ==
  ASSUME IInv, UNCHANGED vars
  PROVE  IInv'
<1>1. /\ stopped' = stopped /\ entries' = entries /\ standby' = standby /\ queue' = queue
      /\ stream' = stream /\ admitted' = admitted /\ UNCHANGED fates
  BY DEF vars, fates
<1>2. Types /\ Kept /\ Table /\ Stanzas /\ Places BY DEF IInv
<1>3. Stanzas' BY <1>1, <1>2, StanzasRest
<1>4. Types' /\ Kept' BY <1>1, <1>2 DEF Types, Kept, fates
<1>5. Table' BY <1>1, <1>2 DEF Table, Owning, Tabled, Roll, In, Lone, Standing, Attended
<1>6. Places'
  <2>1. Occupied' = Occupied BY <1>1 DEF Occupied
  <2> QED BY <1>2, <2>1 DEF Places
<1> QED BY <1>3, <1>4, <1>5, <1>6 DEF IInv

LEMMA NextKeeps ==
  ASSUME OutboundAssumption, IInv, [Next]_vars
  PROVE  IInv'
<1>1. ASSUME NEW p \in Pairs, Enqueue(p) \/ Launch(p) \/ LaunchRefused(p) \/ Elapse(p)
      PROVE  IInv'
  BY <1>1, RouteKeeps
<1>2. ASSUME NEW q \in Queues, WriteStep(q) PROVE IInv' BY <1>2, WriteStepKeeps
<1>3. ASSUME NEW q \in Queues, TaskStep(q) PROVE IInv' BY <1>3, TaskStepKeeps
<1>4. ASSUME NEW s \in Streams, StreamStep(s) PROVE IInv' BY <1>4, StreamStepKeeps
<1>5. CASE Stop BY <1>5, StopStep
<1>6. CASE Halted BY <1>6, StutterKeeps DEF Halted
<1>7. CASE UNCHANGED vars BY <1>7, StutterKeeps
<1> QED BY <1>1, <1>2, <1>3, <1>4, <1>5, <1>6, <1>7 DEF Next

-----------------------------------------------------------------------------
(* What it gives *)

LEMMA ServedAndOwned ==
  ASSUME OutboundAssumption, IInv
  PROVE  LinksAreServed
<1>1. Types /\ Kept /\ Table BY DEF IInv
<1>2. ~stopped => LinksHaveTasks
  <2> SUFFICES ASSUME ~stopped, NEW p \in Pairs, entries[p].kind = "link"
               PROVE  LET q == entries[p].queue
                      IN  /\ queue[q].pair = p
                          /\ queue[q].pc \in Live
                          /\ queue[q].pc \in Lent => stream[queue[q].by] # "out"
    BY DEF LinksHaveTasks, Live, Lent
  <2>1. PICK q \in Queues : entries[p] = Link(q) /\ queue[q].pair = p /\ queue[q].pc \in Live
    BY <1>1 DEF Table, Tabled
  <2>2. entries[p].queue = q BY <2>1, LinkNames
  <2>3. queue[q].pc \in Lent => stream[queue[q].by] # "out" BY <1>1 DEF Table, Attended
  <2> QED BY <2>1, <2>2, <2>3
<1>3. \A q \in Queues : queue[q].pc \in Live => Owns(q) BY <1>1 DEF Table, Owning, Owns
<1>4. ASSUME NEW s \in Streams PROVE Cardinality(GivenBack(s)) <= 1
  <2>1. \A q, r \in GivenBack(s) : q = r
    BY <1>1 DEF GivenBack, Served, Assigned, Table, Lone, Lent
  <2>2. CASE GivenBack(s) = {}
    <3>1. Cardinality(GivenBack(s)) = 0 BY <2>2, FS_EmptySet
    <3> QED BY <3>1
  <2>3. CASE GivenBack(s) # {}
    <3>1. PICK q : GivenBack(s) = {q} BY <2>1, <2>3
    <3>2. Cardinality(GivenBack(s)) = 1 BY <3>1, FS_Singleton
    <3> QED BY <3>2
  <2> QED BY <2>2, <2>3
<1>5. HeldIsOwned BY <1>3, <1>4 DEF HeldIsOwned, Live
<1> QED BY <1>2, <1>5 DEF LinksAreServed

\* Divided among the places it can be in, a number counts once.
LEMMA FateIsOne ==
  ASSUME OutboundAssumption, IInv
  PROVE  Accounted
<1>1. Types /\ Kept /\ Fated BY DEF IInv, Stanzas
<1> SUFFICES ASSUME NEW p \in Pairs, NEW n \in 1 .. admitted[p]
             PROVE  Cardinality({q \in Queues : queue[q].pair = p /\ n \in LeftSet(q)})
                      + (IF \E k \in DOMAIN sent[p] : sent[p][k] = n THEN 1 ELSE 0)
                      + (IF <<p, n>> \in bounced THEN 1 ELSE 0)
                      + Cardinality({x \in lost : x[1] = p /\ x[2] = n}) = 1
  BY DEF Accounted
<1> DEFINE W == {q \in Queues : queue[q].pair = p /\ n \in LeftSet(q)}
           L == {x \in lost : x[1] = p /\ x[2] = n}
<1>2. n \in 1 .. MaxStanzas /\ n <= admitted[p]
  <2>1. admitted[p] \in 0 .. MaxStanzas /\ MaxStanzas \in Nat
    BY <1>1 DEF Types, OutboundAssumption
  <2> QED BY <2>1
<1>3. \A q \in Queues : q \in W <=> Waits(p, n, q)
  <2>1. \A q \in Queues : LeftSet(q) = Held(queue[q]) BY <1>1, LeftFacts DEF Kept
  <2> QED BY <2>1 DEF Waits
<1>4. (\E k \in DOMAIN sent[p] : sent[p][k] = n) <=> Written(p, n)
  <2>1. sent[p] \in Seq(1 .. MaxStanzas) BY <1>1 DEF Types
  <2>2. DOMAIN sent[p] = 1 .. Len(sent[p]) BY <2>1, LenProperties
  <2> QED BY <2>2 DEF Written
<1>5. \A x \in L : \E r \in Reasons : x = <<p, n, r>> /\ Counted(p, n, r)
  <2> SUFFICES ASSUME NEW x \in L PROVE \E r \in Reasons : x = <<p, n, r>> /\ Counted(p, n, r)
    OBVIOUS
  <2>1. x \in Pairs \X (1 .. MaxStanzas) \X Reasons BY <1>1 DEF Types
  <2>2. x[3] \in Reasons /\ x = <<x[1], x[2], x[3]>> BY <2>1
  <2>3. x = <<p, n, x[3]>> BY <2>2
  <2> QED BY <2>2, <2>3 DEF Counted
<1>6. \A r \in Reasons : Counted(p, n, r) => <<p, n, r>> \in L BY DEF Counted
<1>7. /\ SettledOnce(p, n)
      /\ Settled(p, n) \/ \E q \in Queues : Waits(p, n, q)
      /\ \A q \in Queues : Waits(p, n, q) =>
           ~Settled(p, n) /\ \A r \in Queues : Waits(p, n, r) => r = q
  BY <1>1, <1>2 DEF Fated
<1>8. W \subseteq Queues OBVIOUS
<1> HIDE DEF W, L
<1>9. CASE \E q \in Queues : Waits(p, n, q)
  <2>1. PICK q \in Queues : Waits(p, n, q) BY <1>9
  <2>2. ~Settled(p, n) /\ \A r \in Queues : Waits(p, n, r) => r = q BY <1>7, <2>1
  <2>3. W = {q} BY <1>3, <1>8, <2>1, <2>2
  <2>4. ~Written(p, n) /\ <<p, n>> \notin bounced /\ L = {}
    BY <1>5, <2>2 DEF Settled, Answered
  <2>5. Cardinality(W) = 1 /\ Cardinality(L) = 0 BY <2>3, <2>4, FS_Singleton, FS_EmptySet
  <2> QED BY <1>4, <2>4, <2>5 DEF W, L
<1>10. CASE ~\E q \in Queues : Waits(p, n, q)
  <2>1. W = {} BY <1>3, <1>8, <1>10
  <2>2. Cardinality(W) = 0 BY <2>1, FS_EmptySet
  <2>3. Settled(p, n) BY <1>7, <1>10
  <2>4. CASE \E r \in Reasons : Counted(p, n, r)
    <3>1. PICK r \in Reasons : Counted(p, n, r) BY <2>4
    <3>2. L = {<<p, n, r>>} BY <1>5, <1>6, <1>7, <3>1 DEF SettledOnce
    <3>3. Cardinality(L) = 1 BY <3>2, FS_Singleton
    <3>4. ~Written(p, n) /\ <<p, n>> \notin bounced BY <1>7, <3>1 DEF SettledOnce, Answered
    <3> QED BY <1>4, <2>2, <3>3, <3>4 DEF W, L
  <2>5. CASE ~\E r \in Reasons : Counted(p, n, r)
    <3>1. L = {} BY <1>5, <2>5
    <3>2. Cardinality(L) = 0 BY <3>1, FS_EmptySet
    <3>3. CASE Written(p, n)
      <4>1. <<p, n>> \notin bounced BY <1>7, <3>3 DEF SettledOnce, Answered
      <4> QED BY <1>4, <2>2, <3>2, <3>3, <4>1 DEF W, L
    <3>4. CASE ~Written(p, n)
      <4>1. <<p, n>> \in bounced BY <2>3, <2>5, <3>4 DEF Settled, Answered
      <4> QED BY <1>4, <2>2, <3>2, <3>4, <4>1 DEF W, L
    <3> QED BY <3>3, <3>4
  <2> QED BY <2>4, <2>5
<1> QED BY <1>9, <1>10

LEMMA LimitsHold ==
  ASSUME OutboundAssumption, IInv
  PROVE  WithinLimits
<1>1. Types /\ Kept /\ Places BY DEF IInv
<1>2. TypeOK BY <1>1 DEF Types, TypeOK, Reasons
<1>3. ASSUME NEW q \in Queues
      PROVE  /\ queue[q].count <= MaxQueued
             /\ queue[q].count = Len(queue[q].chan)
                  + IF queue[q].current # 0 /\ queue[q].phase = "kept" THEN 1 ELSE 0
  <2>1. queue[q] \in Slots /\ Exact(queue[q]) BY <1>1, QueueFields DEF Slot
  <2>2. Len(queue[q].chan) \in Nat BY <2>1, SlotFields
  <2>3. CASE queue[q].current # 0 /\ queue[q].phase = "kept"
    BY <2>1, <2>2, <2>3 DEF Exact
  <2>4. CASE ~(queue[q].current # 0 /\ queue[q].phase = "kept")
    <3>1. queue[q].count = Len(queue[q].chan) /\ queue[q].count <= MaxQueued
      BY <2>1, <2>4 DEF Exact
    <3>2. Len(queue[q].chan) = Len(queue[q].chan) + 0 BY <2>2
    <3>3. (IF queue[q].current # 0 /\ queue[q].phase = "kept" THEN 1 ELSE 0) = 0 BY <2>4
    <3> QED BY <3>1, <3>2, <3>3
  <2> QED BY <2>3, <2>4
<1> QED BY <1>1, <1>2, <1>3 DEF WithinLimits, Places

LEMMA WrittenInOrder ==
  ASSUME IInv
  PROVE  InOrder
<1>1. \A p \in Pairs : DOMAIN sent[p] = 1 .. Len(sent[p])
  <2>1. \A p \in Pairs : sent[p] \in Seq(1 .. MaxStanzas) BY DEF IInv, Types
  <2> QED BY <2>1, LenProperties
<1>2. Ascending BY DEF IInv, Stanzas
<1> QED BY <1>1, <1>2 DEF InOrder, Ascending

-----------------------------------------------------------------------------
\* The invariant holds of every behaviour, for any pairs, streams and limits:
\* entries and queues point at each other (State::entries, Inner::offer_standby,
\* BidiRegistration::release) and the stanzas admitted are divided among the
\* queues and what was settled (link::write, Inner::failed, shutdown_queue).
THEOREM Invariance ==
  ASSUME OutboundAssumption
  PROVE  Spec => []IInv
<1>1. Init => IInv BY InitKeeps
<1>2. IInv /\ [Next]_vars => IInv' BY NextKeeps
<1> QED BY <1>1, <1>2, PTL DEF Spec

\* While the router runs every link is served, by one task, which owns it,
\* however its queue was handed about (offer_standby, release_inner, the end of
\* link::run).
THEOREM EveryLinkIsServed ==
  ASSUME OutboundAssumption
  PROVE  Spec => []LinksAreServed
<1>1. IInv => LinksAreServed BY ServedAndOwned
<1> QED BY <1>1, Invariance, PTL

\* Every stanza admitted has one fate, is written in the order of admission, and
\* is dropped unwritten at a stop only, across connections, hand-offs and new
\* links (link::write, Inner::failed, shutdown_queue).
THEOREM EveryStanzaHasOneFate ==
  ASSUME OutboundAssumption
  PROVE  Spec => []OneFate
<1>1. IInv => OneFate BY FateIsOne, WrittenInOrder DEF IInv, Stanzas, OneFate
<1> QED BY <1>1, Invariance, PTL

\* The table has no more places taken than max_outbound_links, a queue no more
\* than max_queued_stanzas_per_link, and its counter is exact (retry_count,
\* LinkHandle::enqueue, Drop for Reservation).
THEOREM LimitsAreKept ==
  ASSUME OutboundAssumption
  PROVE  Spec => []WithinLimits
<1>1. IInv => WithinLimits BY LimitsHold
<1> QED BY <1>1, Invariance, PTL

=============================================================================
