---------------------------- MODULE OrderProofs ----------------------------
(***************************************************************************)
(* Proofs about Order for every set of tasks and accounts and every bound  *)
(* on the tickets.                                                         *)
(*                                                                         *)
(* WokenIffUnblocked is inductive once it is known that a line lists the   *)
(* waiting tickets of its account, oldest first (LinesOK). TurnsExclude    *)
(* follows from it and from the tickets being the tasks' own (TicketsOK);  *)
(* ViewsAdvance needs in addition that ticket order and view order agree,  *)
(* which is what the fixing lock is for (LockOK, ViewsOK).                 *)
(***************************************************************************)
EXTENDS Order, TLAPS

\* A line is strictly ascending.
Ascending(q) == \A k, l \in 1 .. Len(q) : k < l => q[k] < q[l]

\* The id has a place in the line.
InLine(i, q) == \E k \in 1 .. Len(q) : q[k] = i

\* The lines list exactly the waiting tickets of their accounts.
LinesOK(w, q, g) ==
  /\ w \in [DOMAIN w -> [accounts : SUBSET Accounts, ready : BOOLEAN]]
  /\ DOMAIN w \subseteq Nat
  /\ g \subseteq DOMAIN w
  /\ q \in [Accounts -> Seq(Nat)]
  /\ \A a \in Accounts : Ascending(q[a])
  /\ \A a \in Accounts : \A i \in Nat :
       InLine(i, q[a]) <=> (i \in DOMAIN w /\ a \in w[i].accounts)

\* No older ticket of w is in the way of i.
Free(i, w, g) ==
  \A j \in DOMAIN w :
    j < i => ~(i \in g \/ j \in g \/ w[i].accounts \cap w[j].accounts # {})

-----------------------------------------------------------------------------
(* Lines *)

\* The head of an ascending line is its oldest ticket.
LEMMA HeadIsOldest ==
  ASSUME NEW q \in Seq(Nat), Ascending(q), q # <<>>
  PROVE  /\ Head(q) \in Nat
         /\ InLine(Head(q), q)
         /\ \A i \in Nat : InLine(i, q) => Head(q) <= i
<1>1. Len(q) \in Nat /\ Len(q) > 0 /\ Head(q) = q[1] /\ 1 \in 1 .. Len(q)
  OBVIOUS
<1>2. \A k \in 1 .. Len(q) : q[k] \in Nat
  OBVIOUS
<1>3. \A k \in 1 .. Len(q) : q[1] <= q[k]
  <2> SUFFICES ASSUME NEW k \in 1 .. Len(q) PROVE q[1] <= q[k]
    OBVIOUS
  <2>1. CASE k = 1
    BY <2>1, <1>2, <1>1
  <2>2. CASE k # 1
    <3>1. q[1] < q[k]
      BY <2>2, <1>1 DEF Ascending
    <3> QED BY <3>1, <1>1, <1>2
  <2> QED BY <2>1, <2>2
<1> QED BY <1>1, <1>2, <1>3 DEF InLine

\* VecDeque::push_back of a new, larger ticket.
LEMMA AppendLine ==
  ASSUME NEW q \in Seq(Nat), Ascending(q), NEW n \in Nat,
         \A k \in 1 .. Len(q) : q[k] < n
  PROVE  /\ Append(q, n) \in Seq(Nat)
         /\ Ascending(Append(q, n))
         /\ \A i \in Nat : InLine(i, Append(q, n)) <=> (InLine(i, q) \/ i = n)
<1> DEFINE p == Append(q, n)
<1>1. /\ p \in Seq(Nat) /\ Len(p) = Len(q) + 1 /\ Len(q) \in Nat
      /\ p[Len(q) + 1] = n
      /\ \A k \in 1 .. Len(q) : p[k] = q[k]
  OBVIOUS
<1> HIDE DEF p
<1>2. Ascending(p)
  <2> SUFFICES ASSUME NEW k \in 1 .. Len(p), NEW l \in 1 .. Len(p), k < l
               PROVE  p[k] < p[l]
    BY DEF Ascending
  <2>1. k \in 1 .. Len(q)
    BY <1>1
  <2>2. CASE l = Len(q) + 1
    BY <2>1, <2>2, <1>1
  <2>3. CASE l # Len(q) + 1
    <3>1. l \in 1 .. Len(q)
      BY <2>3, <1>1
    <3>2. q[k] < q[l]
      BY <3>1, <2>1 DEF Ascending
    <3> QED BY <3>1, <3>2, <2>1, <1>1
  <2> QED BY <2>2, <2>3
<1>3. ASSUME NEW i \in Nat PROVE InLine(i, p) <=> (InLine(i, q) \/ i = n)
  <2>1. ASSUME InLine(i, p) PROVE InLine(i, q) \/ i = n
    <3>1. PICK k \in 1 .. Len(p) : p[k] = i
      BY <2>1 DEF InLine
    <3>2. CASE k = Len(q) + 1
      BY <3>1, <3>2, <1>1
    <3>3. CASE k # Len(q) + 1
      <4>1. k \in 1 .. Len(q)
        BY <3>3, <1>1
      <4> QED BY <4>1, <3>1, <1>1 DEF InLine
    <3> QED BY <3>2, <3>3
  <2>2. ASSUME InLine(i, q) PROVE InLine(i, p)
    <3>1. PICK k \in 1 .. Len(q) : q[k] = i
      BY <2>2 DEF InLine
    <3>2. k \in 1 .. Len(p) /\ p[k] = i
      BY <3>1, <1>1
    <3> QED BY <3>2 DEF InLine
  <2>3. ASSUME i = n PROVE InLine(i, p)
    <3>1. Len(q) + 1 \in 1 .. Len(p) /\ p[Len(q) + 1] = i
      BY <2>3, <1>1
    <3> QED BY <3>1 DEF InLine
  <2> QED BY <2>1, <2>2, <2>3
<1> QED BY <1>1, <1>2, <1>3 DEF p

\* VecDeque::retain takes the one ticket out and keeps the order.
LEMMA RetainLine ==
  ASSUME NEW q \in Seq(Nat), Ascending(q), NEW id \in Nat
  PROVE  /\ Retain(q, id) \in Seq(Nat)
         /\ Ascending(Retain(q, id))
         /\ \A i \in Nat : InLine(i, Retain(q, id)) <=> (InLine(i, q) /\ i # id)
<1>0. Len(q) \in Nat /\ DOMAIN q = 1 .. Len(q) /\ \A k \in 1 .. Len(q) : q[k] \in Nat
  OBVIOUS
<1>1. CASE ~\E k \in DOMAIN q : q[k] = id
  <2>1. Retain(q, id) = q
    BY <1>1 DEF Retain
  <2>2. ~InLine(id, q)
    BY <1>1, <1>0 DEF InLine
  <2> QED BY <2>1, <2>2
<1>2. CASE \E k \in DOMAIN q : q[k] = id
  <2> DEFINE m == CHOOSE k \in DOMAIN q : q[k] = id
             p == [j \in 1 .. Len(q) - 1 |-> IF j < m THEN q[j] ELSE q[j + 1]]
  <2>1. m \in 1 .. Len(q) /\ q[m] = id
    BY <1>2, <1>0
  <2>2. Retain(q, id) = p
    BY <1>2 DEF Retain
  <2> HIDE DEF m
  <2>3. Len(q) - 1 \in Nat
    BY <2>1, <1>0
  <2>4. p \in Seq(Nat) /\ Len(p) = Len(q) - 1
    BY <2>1, <2>3, <1>0
  <2>5. \A j \in 1 .. Len(q) - 1 : p[j] = IF j < m THEN q[j] ELSE q[j + 1]
    OBVIOUS
  <2> HIDE DEF p
  <2>6. Ascending(p)
    <3> SUFFICES ASSUME NEW k \in 1 .. Len(p), NEW l \in 1 .. Len(p), k < l
                 PROVE  p[k] < p[l]
      BY DEF Ascending
    <3>1. k \in 1 .. Len(q) /\ k + 1 \in 1 .. Len(q) /\ l \in 1 .. Len(q) /\ l + 1 \in 1 .. Len(q)
      BY <2>4, <1>0
    <3>2. p[k] = IF k < m THEN q[k] ELSE q[k + 1]
      BY <2>4, <2>5
    <3>3. p[l] = IF l < m THEN q[l] ELSE q[l + 1]
      BY <2>4, <2>5
    <3>4. q[k] < q[l] /\ q[k] < q[l + 1] /\ q[k + 1] < q[l + 1]
      BY <3>1 DEF Ascending
    <3> QED BY <3>1, <3>2, <3>3, <3>4, <2>1
  <2>7. ASSUME NEW i \in Nat PROVE InLine(i, p) <=> (InLine(i, q) /\ i # id)
    <3>1. ASSUME InLine(i, p) PROVE InLine(i, q) /\ i # id
      <4>1. PICK k \in 1 .. Len(p) : p[k] = i
        BY <3>1 DEF InLine
      <4>2. k \in 1 .. Len(q) /\ k + 1 \in 1 .. Len(q) /\ k \in 1 .. Len(q) - 1
        BY <2>4, <1>0
      <4>3. CASE k < m
        <5>1. q[k] = i /\ q[k] < q[m]
          BY <4>1, <4>2, <4>3, <2>1, <2>5 DEF Ascending
        <5> QED BY <5>1, <4>2, <2>1, <1>0 DEF InLine
      <4>4. CASE ~(k < m)
        <5>1. q[k + 1] = i /\ q[m] < q[k + 1]
          BY <4>1, <4>2, <4>4, <2>1, <2>5 DEF Ascending
        <5> QED BY <5>1, <4>2, <2>1, <1>0 DEF InLine
      <4> QED BY <4>3, <4>4
    <3>2. ASSUME InLine(i, q), i # id PROVE InLine(i, p)
      <4>1. PICK k \in 1 .. Len(q) : q[k] = i
        BY <3>2 DEF InLine
      <4>2. k # m
        BY <4>1, <3>2, <2>1
      <4>3. CASE k < m
        <5>1. k \in 1 .. Len(q) - 1 /\ p[k] = i
          BY <4>1, <4>3, <2>1, <2>5, <1>0
        <5> QED BY <5>1, <2>4 DEF InLine
      <4>4. CASE k > m
        <5>1. k - 1 \in 1 .. Len(q) - 1 /\ ~(k - 1 < m) /\ (k - 1) + 1 = k
          BY <4>1, <4>4, <2>1, <1>0
        <5>2. p[k - 1] = i
          BY <5>1, <2>5, <4>1
        <5> QED BY <5>1, <5>2, <2>4 DEF InLine
      <4> QED BY <4>2, <4>3, <4>4, <2>1
    <3> QED BY <3>1, <3>2
  <2> QED BY <2>2, <2>4, <2>6, <2>7
<1> QED BY <1>1, <1>2

\* The test of wake_if_first, which looks at heads and barriers only, is that
\* no older conflicting ticket waits.
LEMMA FirstIsFree ==
  ASSUME NEW w, NEW q, NEW g, LinesOK(w, q, g), NEW i \in DOMAIN w
  PROVE  IsFirst(i, w, q, g) <=> Free(i, w, g)
<1>0. i \in Nat /\ w[i].accounts \subseteq Accounts
  BY DEF LinesOK
<1>1. ASSUME IsFirst(i, w, q, g) PROVE Free(i, w, g)
  <2> SUFFICES ASSUME NEW j \in DOMAIN w, j < i
               PROVE ~(i \in g \/ j \in g \/ w[i].accounts \cap w[j].accounts # {})
    BY DEF Free
  <2>0. j \in Nat
    BY DEF LinesOK
  <2>1. i \notin g
    BY <1>1, <1>0, <2>0 DEF IsFirst
  <2>2. j \notin g
    BY <1>1, <1>0, <2>0 DEF IsFirst
  <2>3. ASSUME NEW a \in w[i].accounts \cap w[j].accounts PROVE FALSE
    <3>1. a \in Accounts /\ q[a] \in Seq(Nat) /\ Ascending(q[a]) /\ InLine(j, q[a])
      BY <1>0, <2>0, <2>3 DEF LinesOK
    <3>2. q[a] # <<>> /\ Head(q[a]) = i
      BY <1>1, <2>3 DEF IsFirst
    <3>3. i <= j
      BY <3>1, <3>2, <2>0, HeadIsOldest
    <3> QED BY <3>3, <1>0, <2>0
  <2> QED BY <2>1, <2>2, <2>3
<1>2. ASSUME Free(i, w, g) PROVE IsFirst(i, w, q, g)
  <2>1. \A h \in g : h >= i
    <3> SUFFICES ASSUME NEW h \in g PROVE h >= i
      OBVIOUS
    <3>1. h \in DOMAIN w /\ h \in Nat
      BY DEF LinesOK
    <3> QED BY <3>1, <1>0, <1>2 DEF Free
  <2>2. ASSUME i \in g, NEW other \in DOMAIN w PROVE i <= other
    <3>1. other \in Nat
      BY DEF LinesOK
    <3> QED BY <3>1, <2>2, <1>0, <1>2 DEF Free
  <2>3. ASSUME NEW a \in w[i].accounts PROVE q[a] # <<>> /\ Head(q[a]) = i
    <3>1. a \in Accounts /\ q[a] \in Seq(Nat) /\ Ascending(q[a]) /\ InLine(i, q[a])
      BY <1>0, <2>3 DEF LinesOK
    <3>2. q[a] # <<>>
      BY <3>1 DEF InLine
    <3>3. /\ Head(q[a]) \in Nat /\ InLine(Head(q[a]), q[a]) /\ Head(q[a]) <= i
      BY <3>1, <3>2, <1>0, HeadIsOldest
    <3>4. Head(q[a]) \in DOMAIN w /\ a \in w[Head(q[a])].accounts
      BY <3>1, <3>3 DEF LinesOK
    <3>5. ~(Head(q[a]) < i)
      BY <3>4, <2>3, <1>2 DEF Free
    <3> QED BY <3>2, <3>3, <3>5, <1>0
  <2> QED BY <2>1, <2>2, <2>3 DEF IsFirst
<1> QED BY <1>1, <1>2

\* The senders sent are those of the tickets nobody is in the way of.
WokenOK(w, g) == \A i \in DOMAIN w : ~w[i].ready <=> Free(i, w, g)

\* Waking changes nothing but the senders of tickets that are free.
LEMMA WakeLines ==
  ASSUME NEW w, NEW q, NEW g, LinesOK(w, q, g), NEW ids, NEW v,
         v = Wake(ids, w, q, g)
  PROVE  /\ LinesOK(v, q, g)
         /\ DOMAIN v = DOMAIN w
         /\ \A i \in DOMAIN w : v[i].accounts = w[i].accounts
         /\ \A i \in DOMAIN w : Free(i, v, g) <=> Free(i, w, g)
         /\ \A i \in DOMAIN w :
              v[i].ready <=> w[i].ready /\ ~(i \in ids /\ Free(i, w, g))
<1>1. DOMAIN v = DOMAIN w
  BY DEF Wake
<1>2. \A i \in DOMAIN w : w[i] \in [accounts : SUBSET Accounts, ready : BOOLEAN]
  BY DEF LinesOK
<1>3. ASSUME NEW i \in DOMAIN w
      PROVE  /\ v[i] \in [accounts : SUBSET Accounts, ready : BOOLEAN]
             /\ v[i].accounts = w[i].accounts
             /\ v[i].ready <=> w[i].ready /\ ~(i \in ids /\ Free(i, w, g))
  <2>1. IsFirst(i, w, q, g) <=> Free(i, w, g)
    BY FirstIsFree
  <2>2. v[i] = IF i \in ids /\ IsFirst(i, w, q, g)
                 THEN [accounts |-> w[i].accounts, ready |-> FALSE] ELSE w[i]
    BY DEF Wake
  <2>3. CASE i \in ids /\ Free(i, w, g)
    <3>1. v[i] = [accounts |-> w[i].accounts, ready |-> FALSE]
      BY <2>1, <2>2, <2>3
    <3> QED BY <3>1, <2>3, <1>2
  <2>4. CASE ~(i \in ids /\ Free(i, w, g))
    <3>1. v[i] = w[i]
      BY <2>1, <2>2, <2>4
    <3> QED BY <3>1, <2>4, <1>2
  <2> QED BY <2>3, <2>4
<1>4. v \in [DOMAIN v -> [accounts : SUBSET Accounts, ready : BOOLEAN]]
  <2>1. v = [i \in DOMAIN w |-> v[i]]
    BY DEF Wake
  <2> QED BY <2>1, <1>1, <1>3
<1>5. LinesOK(v, q, g)
  BY <1>1, <1>3, <1>4 DEF LinesOK
<1>6. \A i \in DOMAIN w : Free(i, v, g) <=> Free(i, w, g)
  BY <1>1, <1>3 DEF Free
<1> QED BY <1>1, <1>3, <1>5, <1>6

\* What admit adds: a ticket n for the accounts acc, newer than every waiting
\* one, which is a barrier or not (g1); only n is examined (ids).
Admission(w, g, n, acc, ids, g1) ==
  /\ n \in Nat
  /\ \A i \in DOMAIN w : i < n
  /\ acc \subseteq Accounts
  /\ ids = {n}
  /\ g1 = g \/ g1 = g \cup {n}

\* Order::admit keeps the lines and the senders right.
LEMMA AdmitLines ==
  ASSUME NEW w, NEW q, NEW g, LinesOK(w, q, g), WokenOK(w, g),
         NEW n, NEW acc, NEW ids, NEW g1, Admission(w, g, n, acc, ids, g1)
  PROVE  LET q1 == PushBack(q, acc, n)
             v  == Wake(ids, Insert(w, acc, n), q1, g1)
         IN  /\ LinesOK(v, q1, g1)
             /\ WokenOK(v, g1)
             /\ DOMAIN v = DOMAIN w \cup {n}
             /\ v[n].accounts = acc
             /\ \A i \in DOMAIN w : /\ v[i].accounts = w[i].accounts
                                    /\ v[i].ready <=> w[i].ready
<1> DEFINE q1 == PushBack(q, acc, n)
           w1 == Insert(w, acc, n)
           v  == Wake(ids, w1, q1, g1)
<1>0. /\ n \in Nat /\ \A i \in DOMAIN w : i < n
      /\ acc \in SUBSET Accounts /\ ids = {n} /\ g1 \in {g, g \cup {n}}
  BY DEF Admission
<1>1. DOMAIN w \subseteq Nat /\ n \notin DOMAIN w /\ g \subseteq DOMAIN w
  BY <1>0 DEF LinesOK
<1>2. \A i \in DOMAIN w : w[i] \in [accounts : SUBSET Accounts, ready : BOOLEAN]
  BY DEF LinesOK
<1>3. /\ DOMAIN w1 = DOMAIN w \cup {n}
      /\ w1[n] = [accounts |-> acc, ready |-> TRUE]
      /\ \A i \in DOMAIN w : w1[i] = w[i]
      /\ w1 \in [DOMAIN w1 -> [accounts : SUBSET Accounts, ready : BOOLEAN]]
  BY <1>0, <1>1, <1>2 DEF Insert
<1>4. ASSUME NEW a \in Accounts
      PROVE  /\ q1[a] \in Seq(Nat)
             /\ Ascending(q1[a])
             /\ \A i \in Nat : InLine(i, q1[a]) <=> (InLine(i, q[a]) \/ (i = n /\ a \in acc))
  <2>1. q[a] \in Seq(Nat) /\ Ascending(q[a])
    BY DEF LinesOK
  <2>2. \A k \in 1 .. Len(q[a]) : q[a][k] < n
    <3> SUFFICES ASSUME NEW k \in 1 .. Len(q[a]) PROVE q[a][k] < n
      OBVIOUS
    <3>1. q[a][k] \in Nat /\ InLine(q[a][k], q[a])
      BY <2>1 DEF InLine
    <3>2. q[a][k] \in DOMAIN w
      BY <3>1 DEF LinesOK
    <3> QED BY <3>2, <1>0
  <2>3. CASE a \in acc
    <3>1. q1[a] = Append(q[a], n)
      BY <2>3 DEF PushBack
    <3> QED BY <3>1, <2>1, <2>2, <2>3, <1>0, AppendLine
  <2>4. CASE a \notin acc
    <3>1. q1[a] = q[a]
      BY <2>4 DEF PushBack
    <3> QED BY <3>1, <2>1, <2>4
  <2> QED BY <2>3, <2>4
<1>5. q1 \in [Accounts -> Seq(Nat)]
  <2>1. q1 = [a \in Accounts |-> q1[a]]
    BY DEF PushBack
  <2> QED BY <2>1, <1>4
<1>6. g1 \subseteq DOMAIN w1 /\ (\A i \in DOMAIN w : i \in g1 <=> i \in g)
  BY <1>0, <1>1, <1>3
<1> HIDE DEF q1, w1
<1>7. LinesOK(w1, q1, g1)
  <2>1. ASSUME NEW a \in Accounts, NEW i \in Nat
        PROVE  InLine(i, q1[a]) <=> (i \in DOMAIN w1 /\ a \in w1[i].accounts)
    <3>1. InLine(i, q[a]) <=> (i \in DOMAIN w /\ a \in w[i].accounts)
      BY DEF LinesOK
    <3>2. InLine(i, q1[a]) <=> (InLine(i, q[a]) \/ (i = n /\ a \in acc))
      BY <1>4
    <3> QED BY <3>1, <3>2, <1>1, <1>3
  <2>2. DOMAIN w1 \subseteq Nat
    BY <1>0, <1>1, <1>3
  <2> QED BY <2>1, <2>2, <1>3, <1>4, <1>5, <1>6 DEF LinesOK
<1>8. /\ LinesOK(v, q1, g1)
      /\ DOMAIN v = DOMAIN w1
      /\ \A i \in DOMAIN w1 : v[i].accounts = w1[i].accounts
      /\ \A i \in DOMAIN w1 : Free(i, v, g1) <=> Free(i, w1, g1)
      /\ \A i \in DOMAIN w1 :
           v[i].ready <=> w1[i].ready /\ ~(i \in ids /\ Free(i, w1, g1))
  <2>1. v = Wake(ids, w1, q1, g1)
    OBVIOUS
  <2> HIDE DEF v
  <2> QED BY <2>1, <1>7, WakeLines
<1> HIDE DEF v
<1>9. \A i \in DOMAIN w : Free(i, w1, g1) <=> Free(i, w, g)
  <2> SUFFICES ASSUME NEW i \in DOMAIN w PROVE Free(i, w1, g1) <=> Free(i, w, g)
    OBVIOUS
  <2>1. i \in Nat /\ i < n /\ ~(n < i)
    BY <1>0, <1>1
  <2>2. \A j \in DOMAIN w1 : j < i <=> (j \in DOMAIN w /\ j < i)
    BY <1>3, <2>1
  <2> QED BY <2>2, <1>3, <1>6 DEF Free
<1>10. WokenOK(v, g1)
  <2> SUFFICES ASSUME NEW i \in DOMAIN v PROVE ~v[i].ready <=> Free(i, v, g1)
    BY DEF WokenOK
  <2>1. CASE i = n
    <3>1. w1[n].ready = TRUE
      BY <1>3
    <3> QED BY <2>1, <3>1, <1>0, <1>3, <1>8
  <2>2. CASE i # n
    <3>1. i \in DOMAIN w
      BY <2>2, <1>3, <1>8
    <3>2. ~w[i].ready <=> Free(i, w, g)
      BY <3>1 DEF WokenOK
    <3>3. v[i].ready <=> w[i].ready
      BY <2>2, <3>1, <1>0, <1>3, <1>8
    <3>4. Free(i, v, g1) <=> Free(i, w, g)
      BY <3>1, <1>3, <1>8, <1>9
    <3> QED BY <3>2, <3>3, <3>4
  <2> QED BY <2>1, <2>2
<1>11. DOMAIN v = DOMAIN w \cup {n} /\ v[n].accounts = acc
  BY <1>3, <1>8
<1>12. ASSUME NEW i \in DOMAIN w PROVE v[i].accounts = w[i].accounts /\ (v[i].ready <=> w[i].ready)
  BY <1>0, <1>1, <1>3, <1>8
<1> QED BY <1>8, <1>10, <1>11, <1>12 DEF v, w1, q1

\* Order::release keeps them right: the heads and the oldest barrier are all
\* the tickets a release can free, unless a barrier goes.
LEMMA ReleaseLines ==
  ASSUME NEW w, NEW q, NEW g, LinesOK(w, q, g), WokenOK(w, g), NEW id \in DOMAIN w
  PROVE  LET g1 == g \ {id}
             q1 == RetainAll(q, w[id].accounts, id)
             w1 == Remove(w, id)
             v  == Wake(Candidates(id \in g, w[id].accounts, w1, q1, g1), w1, q1, g1)
         IN  /\ LinesOK(v, q1, g1)
             /\ WokenOK(v, g1)
             /\ DOMAIN v = DOMAIN w \ {id}
             /\ \A i \in DOMAIN v : /\ v[i].accounts = w[i].accounts
                                    /\ ~w[i].ready => ~v[i].ready
<1> DEFINE acc == w[id].accounts
           g1  == g \ {id}
           q1  == RetainAll(q, acc, id)
           w1  == Remove(w, id)
           ids == Candidates(id \in g, acc, w1, q1, g1)
           v   == Wake(ids, w1, q1, g1)
<1>1. DOMAIN w \subseteq Nat /\ id \in Nat /\ g \subseteq DOMAIN w /\ acc \subseteq Accounts
  BY DEF LinesOK
<1>2. \A i \in DOMAIN w : w[i] \in [accounts : SUBSET Accounts, ready : BOOLEAN]
  BY DEF LinesOK
<1>3. /\ DOMAIN w1 = DOMAIN w \ {id}
      /\ \A i \in DOMAIN w1 : w1[i] = w[i]
      /\ w1 \in [DOMAIN w1 -> [accounts : SUBSET Accounts, ready : BOOLEAN]]
  BY <1>2 DEF Remove
<1>4. ASSUME NEW a \in Accounts
      PROVE  /\ q1[a] \in Seq(Nat)
             /\ Ascending(q1[a])
             /\ \A i \in Nat : InLine(i, q1[a]) <=> (InLine(i, q[a]) /\ i # id)
  <2>1. q[a] \in Seq(Nat) /\ Ascending(q[a])
    BY DEF LinesOK
  <2>2. CASE a \in acc
    <3>1. q1[a] = Retain(q[a], id)
      BY <2>2 DEF RetainAll
    <3>2. /\ Retain(q[a], id) \in Seq(Nat)
          /\ Ascending(Retain(q[a], id))
          /\ \A i \in Nat : InLine(i, Retain(q[a], id)) <=> (InLine(i, q[a]) /\ i # id)
      BY <2>1, <1>1, RetainLine
    <3> QED BY <3>1, <3>2
  <2>3. CASE a \notin acc
    <3>1. q1[a] = q[a]
      BY <2>3 DEF RetainAll
    <3>2. ~InLine(id, q[a])
      BY <2>3, <1>1 DEF LinesOK
    <3> QED BY <3>1, <3>2, <2>1
  <2> QED BY <2>2, <2>3
<1>5. q1 \in [Accounts -> Seq(Nat)]
  <2>1. q1 = [a \in Accounts |-> q1[a]]
    BY DEF RetainAll
  <2> QED BY <2>1, <1>4
<1> HIDE DEF q1, w1
<1>6. g1 \subseteq DOMAIN w1
  BY <1>1, <1>3
<1>7. LinesOK(w1, q1, g1)
  <2>1. ASSUME NEW a \in Accounts, NEW i \in Nat
        PROVE  InLine(i, q1[a]) <=> (i \in DOMAIN w1 /\ a \in w1[i].accounts)
    <3>1. InLine(i, q[a]) <=> (i \in DOMAIN w /\ a \in w[i].accounts)
      BY DEF LinesOK
    <3> QED BY <3>1, <1>3, <1>4
  <2> QED BY <2>1, <1>1, <1>3, <1>4, <1>5, <1>6 DEF LinesOK
<1>8. /\ LinesOK(v, q1, g1)
      /\ DOMAIN v = DOMAIN w1
      /\ \A i \in DOMAIN w1 : v[i].accounts = w1[i].accounts
      /\ \A i \in DOMAIN w1 : Free(i, v, g1) <=> Free(i, w1, g1)
      /\ \A i \in DOMAIN w1 :
           v[i].ready <=> w1[i].ready /\ ~(i \in ids /\ Free(i, w1, g1))
  <2>1. v = Wake(ids, w1, q1, g1)
    OBVIOUS
  <2> HIDE DEF v, ids, g1
  <2> QED BY <2>1, <1>7, WakeLines
<1>9. ASSUME NEW i \in DOMAIN w1, Free(i, w, g) PROVE Free(i, w1, g1)
  BY <1>3, <1>9 DEF Free
<1>10. ASSUME NEW i \in DOMAIN w1, Free(i, w1, g1), ~Free(i, w, g) PROVE i \in ids
  <2>0. i \in Nat /\ i \in DOMAIN w /\ i # id
    BY <1>1, <1>3
  <2>1. id < i /\ (i \in g \/ id \in g \/ w[i].accounts \cap acc # {})
    BY <1>3, <1>10, <2>0 DEF Free
  <2>2. CASE id \in g
    BY <2>2 DEF Candidates
  <2>3. CASE id \notin g /\ i \in g
    <3>1. i \in g1
      BY <2>3, <2>0
    <3>2. ASSUME NEW other \in g1 PROVE i <= other
      <4>1. other \in DOMAIN w1 /\ other \in Nat
        BY <1>1, <1>6
      <4>2. ~(other < i)
        BY <4>1, <1>10, <3>1 DEF Free
      <4> QED BY <4>1, <4>2, <2>0
    <3> QED BY <3>1, <3>2, <2>3 DEF Candidates
  <2>4. CASE w[i].accounts \cap acc # {}
    <3>1. PICK a \in w[i].accounts \cap acc : TRUE
      BY <2>4
    <3>2. a \in Accounts /\ InLine(i, q1[a])
      BY <3>1, <1>1, <2>0, <1>4 DEF LinesOK
    <3>3. IsFirst(i, w1, q1, g1)
      BY <1>7, <1>10, FirstIsFree
    <3>4. q1[a] # <<>> /\ Head(q1[a]) = i
      BY <3>1, <3>3, <1>3 DEF IsFirst
    <3> QED BY <3>1, <3>4 DEF Candidates
  <2> QED BY <2>1, <2>2, <2>3, <2>4
<1> HIDE DEF v, ids, g1
<1>11. WokenOK(v, g1)
  <2> SUFFICES ASSUME NEW i \in DOMAIN v PROVE ~v[i].ready <=> Free(i, v, g1)
    BY DEF WokenOK
  <2>1. i \in DOMAIN w1 /\ i \in DOMAIN w
    BY <1>3, <1>8
  <2>2. ~w[i].ready <=> Free(i, w, g)
    BY <2>1 DEF WokenOK
  <2>3. v[i].ready <=> w[i].ready /\ ~(i \in ids /\ Free(i, w1, g1))
    BY <2>1, <1>3, <1>8
  <2>4. Free(i, v, g1) <=> Free(i, w1, g1)
    BY <2>1, <1>8
  <2> QED BY <2>1, <2>2, <2>3, <2>4, <1>9, <1>10
<1>12. DOMAIN v = DOMAIN w \ {id}
  BY <1>3, <1>8
<1>13. ASSUME NEW i \in DOMAIN v
       PROVE  v[i].accounts = w[i].accounts /\ (~w[i].ready => ~v[i].ready)
  BY <1>3, <1>8
<1> QED BY <1>8, <1>11, <1>12, <1>13 DEF v, w1, q1, g1, ids

-----------------------------------------------------------------------------
(* The inductive invariant *)

\* The account is one the task's effects reach.
Concerns(c, a) == asked[c].global \/ a \in asked[c].accounts

\* The fixing lock is held by the one task between lock and admit.
LockOK == /\ \A c \in Clients : pc[c] \in {"fixing", "fixed"} <=> fixing = c
          /\ fixing # NoClient => next < MaxTickets

\* A task's ticket is its own, waits, and stands for what it asked.
TicketsOK ==
  /\ \A c \in Clients : pc[c] \in {"held", "turn"} =>
       /\ ticket[c] \in DOMAIN waiting
       /\ waiting[ticket[c]].accounts = asked[c].accounts
       /\ ticket[c] \in globals <=> asked[c].global
  /\ \A c, d \in Clients :
       c # d /\ pc[c] \in {"held", "turn"} /\ pc[d] \in {"held", "turn"}
         => ticket[c] # ticket[d]
  /\ \A c \in Clients : pc[c] = "turn" => ~waiting[ticket[c]].ready

\* Views were fixed in the order of the tickets, and what an account was
\* shown is no newer than what is still to be shown to it.
ViewsOK ==
  /\ \A c \in Clients : view[c] <= stored
  /\ \A c \in Clients : pc[c] = "fixed" => view[c] = stored
  /\ \A c, d \in Clients :
       /\ pc[c] \in {"held", "turn"} /\ pc[d] \in {"held", "turn"}
       /\ ticket[c] < ticket[d]
       => view[c] <= view[d]
  /\ \A a \in Accounts : shown[a] <= stored
  /\ \A c \in Clients, a \in Accounts :
       pc[c] = "held" /\ Concerns(c, a) => shown[a] <= view[c]

IInv == /\ TypeOK
        /\ LinesOK(waiting, queues, globals)
        /\ WokenOK(waiting, globals)
        /\ LockOK
        /\ TicketsOK
        /\ ViewsOK

\* The empty order satisfies the invariant.
LEMMA InitInv == Init => IInv
<1> SUFFICES ASSUME Init PROVE IInv
  OBVIOUS
<1>1. TypeOK
  BY OrderAssumption DEF Init, TypeOK, Stages, Requests
<1>2. LinesOK(waiting, queues, globals)
  <2>1. DOMAIN waiting = {} /\ globals = {} /\ queues \in [Accounts -> Seq(Nat)]
    BY DEF Init
  <2>2. waiting \in [DOMAIN waiting -> [accounts : SUBSET Accounts, ready : BOOLEAN]]
    BY <1>1 DEF TypeOK
  <2>3. \A a \in Accounts : queues[a] = <<>> /\ Len(queues[a]) = 0
    BY DEF Init
  <2>4. \A a \in Accounts : Ascending(queues[a]) /\ \A i \in Nat : ~InLine(i, queues[a])
    BY <2>3 DEF Ascending, InLine
  <2> QED BY <2>1, <2>2, <2>4 DEF LinesOK
<1>3. WokenOK(waiting, globals)
  BY DEF Init, WokenOK
<1>4. LockOK
  BY OrderAssumption DEF Init, LockOK
<1>5. TicketsOK
  BY DEF Init, TicketsOK
<1>6. ViewsOK
  BY DEF Init, ViewsOK
<1> QED BY <1>1, <1>2, <1>3, <1>4, <1>5, <1>6 DEF IInv

\* The steps that leave the lines alone.
LEMMA LockStep == ASSUME IInv, NEW c \in Clients, Lock(c) PROVE IInv'
<1> USE DEF IInv
<1>1. TypeOK'
  BY DEF Lock, TypeOK, Stages, lines
<1>2. LinesOK(waiting, queues, globals)' /\ WokenOK(waiting, globals)'
  BY DEF Lock, lines, LinesOK, WokenOK, Free
<1>3. LockOK'
  BY OrderAssumption DEF Lock, LockOK, TypeOK, Stages, lines
<1>4. TicketsOK'
  BY DEF Lock, TicketsOK, TypeOK, Stages, lines
<1>5. ViewsOK'
  BY DEF Lock, ViewsOK, Concerns, TypeOK, Stages, lines
<1> QED BY <1>1, <1>2, <1>3, <1>4, <1>5

\* Reading or committing: the holder of the lock has the newest view.
LEMMA FixViewStep == ASSUME IInv, NEW c \in Clients, FixView(c) PROVE IInv'
<1> USE DEF IInv
<1>1. TypeOK'
  BY DEF FixView, TypeOK, Stages, lines
<1>2. LinesOK(waiting, queues, globals)' /\ WokenOK(waiting, globals)'
  BY DEF FixView, lines, LinesOK, WokenOK, Free
<1>3. LockOK'
  BY DEF FixView, LockOK, TypeOK, Stages, lines
<1>4. TicketsOK'
  BY DEF FixView, TicketsOK, TypeOK, Stages, lines
<1>5. ViewsOK'
  <2>1. \A d \in Clients : d # c => pc[d] \notin {"fixing", "fixed"}
    BY DEF FixView, LockOK
  <2> QED BY <2>1 DEF FixView, ViewsOK, Concerns, TypeOK, Stages, lines
<1> QED BY <1>1, <1>2, <1>3, <1>4, <1>5

\* A view that could not be fixed leaves the lines as they were.
LEMMA FixErrorStep == ASSUME IInv, NEW c \in Clients, FixError(c) PROVE IInv'
<1> USE DEF IInv
<1>1. TypeOK'
  BY DEF FixError, Done, TypeOK, Stages, Requests, lines
<1>2. LinesOK(waiting, queues, globals)' /\ WokenOK(waiting, globals)'
  BY DEF FixError, lines, LinesOK, WokenOK, Free
<1>3. LockOK'
  BY OrderAssumption DEF FixError, Done, LockOK, TypeOK, Stages
<1>4. TicketsOK'
  BY DEF FixError, Done, TicketsOK, TypeOK, Stages, lines
<1>5. ViewsOK'
  BY DEF FixError, Done, ViewsOK, Concerns, TypeOK, Stages, lines
<1> QED BY <1>1, <1>2, <1>3, <1>4, <1>5

\* Order::admit: the new ticket is the youngest and its view the newest.
LEMMA AdmitStep == ASSUME IInv, NEW c \in Clients, Admit(c) PROVE IInv'
<1> USE DEF IInv
<1>1. /\ asked[c].accounts \in SUBSET Accounts /\ asked[c].global \in BOOLEAN
      /\ next \in Nat /\ \A i \in DOMAIN waiting : i < next /\ i \in Nat
  <2>1. asked[c] \in Requests
    BY DEF TypeOK
  <2>2. asked[c].accounts \in SUBSET Accounts /\ asked[c].global \in BOOLEAN
    BY <2>1 DEF Requests
  <2> QED BY <2>2, OrderAssumption DEF TypeOK
<1>2. /\ LinesOK(waiting', queues', globals')
      /\ WokenOK(waiting', globals')
      /\ DOMAIN waiting' = DOMAIN waiting \cup {next}
      /\ waiting'[next].accounts = asked[c].accounts
      /\ \A i \in DOMAIN waiting : /\ waiting'[i].accounts = waiting[i].accounts
                                   /\ waiting'[i].ready <=> waiting[i].ready
  <2> DEFINE acc == asked[c].accounts
             g1 == InsertGlobal(globals, asked[c].global, next)
             q1 == PushBack(queues, acc, next)
             ids == {next}
             v  == Wake(ids, Insert(waiting, acc, next), q1, g1)
  <2>1. globals' = g1 /\ queues' = q1 /\ waiting' = v
    BY DEF Admit
  <2>2. /\ LinesOK(v, q1, g1)
        /\ WokenOK(v, g1)
        /\ DOMAIN v = DOMAIN waiting \cup {next}
        /\ v[next].accounts = acc
        /\ \A i \in DOMAIN waiting : /\ v[i].accounts = waiting[i].accounts
                                     /\ v[i].ready <=> waiting[i].ready
    <3>1. Admission(waiting, globals, next, acc, ids, g1)
      BY <1>1 DEF Admission, InsertGlobal
    <3>2. LinesOK(waiting, queues, globals) /\ WokenOK(waiting, globals)
      OBVIOUS
    <3> HIDE DEF IInv, acc, g1, ids
    <3> QED BY <3>1, <3>2, AdmitLines
  <2> QED BY <2>1, <2>2
<1>3. globals' = (IF asked[c].global THEN globals \cup {next} ELSE globals)
  BY DEF Admit, InsertGlobal
<1>4. next < MaxTickets
  BY OrderAssumption DEF Admit, LockOK, TypeOK
<1>5. TypeOK'
  <2>1. /\ waiting' \in [DOMAIN waiting' -> [accounts : SUBSET Accounts, ready : BOOLEAN]]
        /\ queues' \in [Accounts -> Seq(Nat)] /\ globals' \subseteq DOMAIN waiting'
    BY <1>2 DEF LinesOK
  <2>2. next' \in 0 .. MaxTickets /\ DOMAIN waiting' \subseteq 0 .. next' - 1
    <3>1. next' = next + 1
      BY DEF Admit
    <3> QED BY <3>1, <1>1, <1>2, <1>4, OrderAssumption
  <2> QED BY <2>1, <2>2, <1>1 DEF Admit, TypeOK, Stages
<1>6. LockOK'
  BY OrderAssumption DEF Admit, LockOK, TypeOK, Stages
<1>7. \A d \in Clients \ {c} :
        /\ pc'[d] = pc[d]
        /\ ticket'[d] = ticket[d]
        /\ pc[d] \in {"held", "turn"} => ticket[d] < next /\ ticket[d] \in DOMAIN waiting
  BY <1>1 DEF Admit, TicketsOK
<1>8. pc'[c] = "held" /\ ticket'[c] = next /\ next \notin DOMAIN waiting
  BY <1>1 DEF Admit, TypeOK
<1>9. asked' = asked /\ view' = view /\ shown' = shown /\ stored' = stored
  BY DEF Admit
<1>10. TicketsOK'
  <2>1. \A i \in DOMAIN waiting : i \in globals' <=> i \in globals
    BY <1>3, <1>8
  <2>2. next \in globals' <=> asked[c].global
    BY <1>3, <1>8 DEF TypeOK
  <2>3. ASSUME NEW d \in Clients, pc'[d] \in {"held", "turn"}
        PROVE  /\ ticket'[d] \in DOMAIN waiting'
               /\ waiting'[ticket'[d]].accounts = asked'[d].accounts
               /\ ticket'[d] \in globals' <=> asked'[d].global
               /\ pc'[d] = "turn" => ~waiting'[ticket'[d]].ready
    <3>1. CASE d = c
      BY <3>1, <2>2, <1>2, <1>8, <1>9
    <3>2. CASE d # c
      <4>1. pc[d] = pc'[d] /\ ticket'[d] = ticket[d] /\ ticket[d] \in DOMAIN waiting
        BY <3>2, <2>3, <1>7
      <4> QED BY <4>1, <2>1, <2>3, <1>2, <1>9 DEF TicketsOK
    <3> QED BY <3>1, <3>2
  <2>4. ASSUME NEW d \in Clients, NEW e \in Clients, d # e,
               pc'[d] \in {"held", "turn"}, pc'[e] \in {"held", "turn"}
        PROVE  ticket'[d] # ticket'[e]
    BY <2>4, <1>1, <1>7, <1>8 DEF TicketsOK
  <2> QED BY <2>3, <2>4 DEF TicketsOK
<1>11. ViewsOK'
  <2>1. view[c] = stored
    BY DEF Admit, ViewsOK
  <2>2. /\ \A d \in Clients : view[d] <= stored /\ view[d] \in Nat
        /\ \A a \in Accounts : shown[a] <= stored /\ shown[a] \in Nat
        /\ stored \in Nat
    BY DEF ViewsOK, TypeOK
  <2>3. ASSUME NEW d \in Clients, pc'[d] = "fixed" PROVE view[d] = stored
    BY <2>3, <1>7, <1>8 DEF ViewsOK
  <2>4. ASSUME NEW d \in Clients, NEW e \in Clients,
               pc'[d] \in {"held", "turn"}, pc'[e] \in {"held", "turn"},
               ticket'[d] < ticket'[e]
        PROVE  view[d] <= view[e]
    <3>1. CASE e = c
      BY <3>1, <2>1, <2>2
    <3>2. CASE e # c /\ d = c
      <4>1. ticket[e] < next /\ next < ticket[e] /\ ticket[e] \in Nat
        BY <3>2, <2>4, <1>7, <1>8 DEF TypeOK
      <4> QED BY <4>1, <1>1
    <3>3. CASE e # c /\ d # c
      BY <3>3, <2>4, <1>7 DEF ViewsOK
    <3> QED BY <3>1, <3>2, <3>3
  <2>5. ASSUME NEW d \in Clients, NEW a \in Accounts, pc'[d] = "held", Concerns(d, a)
        PROVE  shown[a] <= view[d]
    <3>1. CASE d = c
      BY <3>1, <2>1, <2>2
    <3>2. CASE d # c
      BY <3>2, <2>5, <1>7 DEF ViewsOK
    <3> QED BY <3>1, <3>2
  <2>6. \A d \in Clients, a \in Accounts : Concerns(d, a)' <=> Concerns(d, a)
    BY <1>9 DEF Concerns
  <2> QED BY <2>2, <2>3, <2>4, <2>5, <2>6, <1>9 DEF ViewsOK
<1> QED BY <1>2, <1>5, <1>6, <1>10, <1>11

\* Ticket::turn: what is shown is no newer than what is still to be shown.
LEMMA TurnStep == ASSUME IInv, NEW c \in Clients, Turn(c) PROVE IInv'
<1> USE DEF IInv
<1>1. TypeOK'
  BY DEF Turn, TypeOK, Stages, lines
<1>2. LinesOK(waiting, queues, globals)' /\ WokenOK(waiting, globals)'
  BY DEF Turn, lines, LinesOK, WokenOK, Free
<1>3. LockOK'
  BY DEF Turn, LockOK, TypeOK, Stages, lines
<1>4. TicketsOK'
  BY DEF Turn, TicketsOK, TypeOK, Stages, lines
<1>5. ASSUME NEW d \in Clients, pc[d] = "held", d # c, NEW a \in Accounts,
             Concerns(c, a), Concerns(d, a)
      PROVE  view[c] <= view[d]
  <2>1. ticket[c] \in DOMAIN waiting /\ ticket[d] \in DOMAIN waiting /\ ticket[c] # ticket[d]
    BY <1>5 DEF Turn, TicketsOK
  <2>2. Free(ticket[c], waiting, globals)
    BY <2>1 DEF Turn, WokenOK
  <2>3. \/ ticket[c] \in globals \/ ticket[d] \in globals
        \/ a \in waiting[ticket[c]].accounts \cap waiting[ticket[d]].accounts
    BY <1>5 DEF Turn, TicketsOK, Concerns
  <2>4. ~(ticket[d] < ticket[c])
    BY <2>1, <2>2, <2>3 DEF Free
  <2>5. ticket[c] < ticket[d]
    BY <2>1, <2>4 DEF TypeOK
  <2> QED BY <2>5, <1>5 DEF Turn, ViewsOK
<1>6. ViewsOK'
  <2>1. \A a \in Accounts : shown'[a] = IF Concerns(c, a) THEN view[c] ELSE shown[a]
    BY DEF Turn, Concerns
  <2>2. /\ pc' = [pc EXCEPT ![c] = "turn"] /\ view' = view /\ stored' = stored
        /\ ticket' = ticket /\ asked' = asked /\ pc[c] = "held"
    BY DEF Turn
  <2>3. ASSUME NEW d \in Clients, NEW a \in Accounts, pc'[d] = "held", Concerns(d, a)
        PROVE  shown'[a] <= view[d]
    <3>1. d # c /\ pc[d] = "held"
      BY <2>2, <2>3 DEF TypeOK
    <3>2. CASE Concerns(c, a)
      BY <3>1, <3>2, <2>1, <2>3, <1>5
    <3>3. CASE ~Concerns(c, a)
      BY <3>1, <3>3, <2>1, <2>3 DEF ViewsOK
    <3> QED BY <3>2, <3>3
  <2>4. \A d \in Clients, a \in Accounts : Concerns(d, a)' <=> Concerns(d, a)
    BY <2>2 DEF Concerns
  <2>5. \A d \in Clients : /\ pc'[d] = "fixed" => pc[d] = "fixed"
                           /\ pc'[d] \in {"held", "turn"} <=> pc[d] \in {"held", "turn"}
    BY <2>2 DEF TypeOK
  <2>6. \A a \in Accounts : shown'[a] <= stored
    BY <2>1 DEF ViewsOK, TypeOK
  <2> QED BY <2>2, <2>3, <2>4, <2>5, <2>6 DEF ViewsOK
<1> QED BY <1>1, <1>2, <1>3, <1>4, <1>6

\* Drop for Ticket, before or after the turn.
LEMMA DropStep ==
  ASSUME IInv, NEW c \in Clients, pc[c] \in {"held", "turn"}, Release(ticket[c]),
         Done(c), UNCHANGED <<fixing, stored, shown>>
  PROVE  IInv'
<1> USE DEF IInv
<1>1. ticket[c] \in DOMAIN waiting
  BY DEF TicketsOK
<1>2. /\ LinesOK(waiting', queues', globals')
      /\ WokenOK(waiting', globals')
      /\ DOMAIN waiting' = DOMAIN waiting \ {ticket[c]}
      /\ \A i \in DOMAIN waiting' : /\ waiting'[i].accounts = waiting[i].accounts
                                    /\ ~waiting[i].ready => ~waiting'[i].ready
  <2> DEFINE id == ticket[c]
             acc == waiting[id].accounts
             g1 == globals \ {id}
             q1 == RetainAll(queues, acc, id)
             w1 == Remove(waiting, id)
             v  == Wake(Candidates(id \in globals, acc, w1, q1, g1), w1, q1, g1)
  <2>1. globals' = g1 /\ queues' = q1 /\ waiting' = v
    BY DEF Release
  <2>2. /\ LinesOK(v, q1, g1)
        /\ WokenOK(v, g1)
        /\ DOMAIN v = DOMAIN waiting \ {id}
        /\ \A i \in DOMAIN v : /\ v[i].accounts = waiting[i].accounts
                               /\ ~waiting[i].ready => ~v[i].ready
    BY <1>1, ReleaseLines
  <2> QED BY <2>1, <2>2
<1>3. globals' = globals \ {ticket[c]} /\ next' = next
  BY DEF Release
<1>4. TypeOK'
  <2>1. /\ waiting' \in [DOMAIN waiting' -> [accounts : SUBSET Accounts, ready : BOOLEAN]]
        /\ queues' \in [Accounts -> Seq(Nat)] /\ globals' \subseteq DOMAIN waiting'
    BY <1>2 DEF LinesOK
  <2>2. DOMAIN waiting' \subseteq 0 .. next' - 1
    BY <1>2, <1>3 DEF TypeOK
  <2> QED BY <2>1, <2>2, <1>3 DEF Done, TypeOK, Stages, Requests
<1>5. LockOK'
  BY <1>3 DEF Done, LockOK, TypeOK, Stages
<1>6. /\ \A d \in Clients \ {c} : /\ pc'[d] = pc[d] /\ ticket'[d] = ticket[d]
                                  /\ asked'[d] = asked[d] /\ view'[d] = view[d]
                                  /\ pc[d] \in {"held", "turn"} => ticket[d] \in DOMAIN waiting'
      /\ pc'[c] = "idle" /\ view'[c] = 0
  <2>1. \A d \in Clients \ {c} : /\ pc'[d] = pc[d] /\ ticket'[d] = ticket[d]
                                 /\ asked'[d] = asked[d] /\ view'[d] = view[d]
    BY DEF Done, TypeOK
  <2>2. \A d \in Clients \ {c} : pc[d] \in {"held", "turn"} => ticket[d] \in DOMAIN waiting'
    BY <1>2 DEF TicketsOK
  <2> QED BY <2>1, <2>2 DEF Done, TypeOK
<1>7. TicketsOK'
  BY <1>2, <1>3, <1>6 DEF TicketsOK
<1>8. ViewsOK'
  <2>1. stored' = stored /\ shown' = shown /\ stored \in Nat
    BY DEF TypeOK
  <2> QED BY <2>1, <1>6 DEF ViewsOK, Concerns
<1> QED BY <1>2, <1>4, <1>5, <1>7, <1>8

\* Every step keeps the invariant.
LEMMA StepInv == IInv /\ [Next]_vars => IInv'
<1> SUFFICES ASSUME IInv, [Next]_vars PROVE IInv'
  OBVIOUS
<1>1. ASSUME NEW c \in Clients, Step(c) PROVE IInv'
  <2>1. CASE Lock(c)
    BY <2>1, LockStep
  <2>2. CASE FixView(c)
    BY <2>2, FixViewStep
  <2>3. CASE FixError(c)
    BY <2>3, FixErrorStep
  <2>4. CASE Admit(c)
    BY <2>4, AdmitStep
  <2>5. CASE Turn(c)
    BY <2>5, TurnStep
  <2>6. CASE Finish(c)
    BY <2>6, DropStep DEF Finish
  <2>7. CASE Abandon(c)
    BY <2>7, DropStep DEF Abandon
  <2> QED BY <1>1, <2>1, <2>2, <2>3, <2>4, <2>5, <2>6, <2>7 DEF Step
<1>2. CASE UNCHANGED vars
  BY <1>2 DEF vars, IInv, TypeOK, LinesOK, WokenOK, Free, LockOK, TicketsOK, ViewsOK,
              Concerns, Ascending, InLine
<1> QED BY <1>1, <1>2 DEF Next, Exhausted

\* The invariant holds throughout.
LEMMA Invariance == Spec => []IInv
<1> QED BY InitInv, StepInv, PTL DEF Spec

-----------------------------------------------------------------------------
(* What Order guarantees *)

\* Every reachable state is well typed, whatever the tasks, the accounts and
\* the bound.
THEOREM TypeCorrect == Spec => []TypeOK
<1>1. IInv => TypeOK
  BY DEF IInv
<1> QED BY <1>1, Invariance, PTL

\* A ticket's wake-up has been sent exactly when no older conflicting ticket
\* is left (Order::release, Lines::wake_if_first).
THEOREM NoWakeupLostOrEarly == Spec => []WokenIffUnblocked
<1>1. IInv => WokenIffUnblocked
  BY DEF IInv, WokenOK, WokenIffUnblocked, Free, Unblocked, Conflict
<1> QED BY <1>1, Invariance, PTL

\* Deliveries about one account never overlap, and nothing overlaps a
\* deletion (Ticket::turn).
THEOREM TurnsAreExclusive == Spec => []TurnsExclude
<1>1. IInv => TurnsExclude
  <2> SUFFICES ASSUME IInv, NEW c \in Clients, NEW d \in Clients, c # d,
                      pc[c] = "turn", pc[d] = "turn"
               PROVE  ~Conflict(ticket[c], ticket[d])
    BY DEF TurnsExclude
  <2>1. /\ ticket[c] \in DOMAIN waiting /\ ticket[d] \in DOMAIN waiting
        /\ ticket[c] # ticket[d] /\ ~waiting[ticket[c]].ready /\ ~waiting[ticket[d]].ready
    BY DEF IInv, TicketsOK
  <2>2. Free(ticket[c], waiting, globals) /\ Free(ticket[d], waiting, globals)
    BY <2>1 DEF IInv, WokenOK
  <2>3. ticket[c] < ticket[d] \/ ticket[d] < ticket[c]
    BY <2>1 DEF IInv, TypeOK
  <2> QED BY <2>1, <2>2, <2>3 DEF Free, Conflict
<1> QED BY <1>1, Invariance, PTL

\* An account is never shown an older storage view after a newer one (the
\* fixing lock, Order::fix).
THEOREM ViewsNeverGoBack == Spec => ViewsAdvance
<1>1. IInv /\ [Next]_vars => [\A a \in Accounts : shown[a] <= shown'[a]]_vars
  <2> SUFFICES ASSUME IInv, Next PROVE \A a \in Accounts : shown[a] <= shown'[a]
    BY DEF vars
  <2>0. \A a \in Accounts : shown[a] \in Nat
    BY DEF IInv, TypeOK
  <2>1. ASSUME NEW c \in Clients, Turn(c), NEW a \in Accounts PROVE shown[a] <= shown'[a]
    <3>1. shown'[a] = IF Concerns(c, a) THEN view[c] ELSE shown[a]
      BY <2>1 DEF Turn, Concerns
    <3>2. Concerns(c, a) => shown[a] <= view[c]
      BY <2>1 DEF Turn, IInv, ViewsOK
    <3> QED BY <3>1, <3>2, <2>0
  <2>2. ASSUME UNCHANGED shown PROVE \A a \in Accounts : shown[a] <= shown'[a]
    BY <2>2, <2>0
  <2> QED BY <2>1, <2>2 DEF Next, Step, Lock, FixView, FixError, Admit, Finish, Abandon,
                            Exhausted, vars
<1> QED BY <1>1, Invariance, PTL DEF Spec, ViewsAdvance
=============================================================================
