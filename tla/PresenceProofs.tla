--------------------------- MODULE PresenceProofs ---------------------------
(***************************************************************************)
(* What the clients of Presence are told is true.                          *)
(*                                                                         *)
(* A task acts on the roster of its ticket, which is not that of now, so   *)
(* the argument is about what the roster said at a ticket (GrantedAt): the *)
(* next change of a grant tells it.  Changes of a pair have their turns in *)
(* the order of their tickets, so those that have had theirs end at a      *)
(* front, and what they amount to (Served) is what an available client is  *)
(* owed.  Every task of either account that has its turn stands at that    *)
(* front, by the lines it is in: the audience of its ticket is what is     *)
(* served.  Pairs then says that a client is shown online only what is     *)
(* served or about to be withdrawn, and is shown the presence of what is   *)
(* served, up to what a running task has yet to tell it, its own update    *)
(* has yet to read, or the end of a session has yet to take back.          *)
(***************************************************************************)
EXTENDS Presence, WellFoundedInduction, TLAPS

-----------------------------------------------------------------------------
(* Numbers, and what is written to a client.                               *)

\* A set of numbers that is not empty has a least one.
LEMMA Least ==
  ASSUME NEW T, T \subseteq Nat, T # {}
  PROVE  \E x \in T : \A y \in T : x <= y
<1> DEFINE R == OpToRel(<, Nat)
<1>1. IsWellFoundedOn(R, Nat)
  BY NatLessThanWellFounded
<1> HIDE DEF R
<1>2. PICK x \in T : \A y \in T : ~(<<y, x>> \in R)
  BY <1>1, WFMin
<1>3. ASSUME NEW y \in T PROVE x <= y
  <2>1. <<y, x>> \in R <=> y < x
    BY DEF R, OpToRel
  <2> QED
    BY <1>2, <2>1
<1> QED
  BY <1>3

\* A set of indices that is not empty has a greatest one.
LEMMA Greatest ==
  ASSUME NEW n \in Nat, NEW T, T \subseteq 1..n, T # {}
  PROVE  /\ Max(T) \in T
         /\ \A y \in T : y <= Max(T)
<1> DEFINE S == {n - x : x \in T}
<1>1. S \subseteq Nat /\ S # {}
  <2>1. \A x \in T : n - x \in Nat
    OBVIOUS
  <2> QED
    BY <2>1
<1>2. PICK s \in S : \A y \in S : s <= y
  BY <1>1, Least
<1>3. PICK m \in T : s = n - m
  OBVIOUS
<1>4. \A y \in T : m >= y
  <2> TAKE y \in T
  <2>1. n - y \in S
    OBVIOUS
  <2> QED
    BY <1>2, <1>3, <2>1
<1>5. \E x \in T : \A y \in T : x >= y
  BY <1>4
<1>6. Max(T) \in T /\ \A y \in T : Max(T) >= y
  BY <1>5, Zenon DEF Max
<1> QED
  BY <1>6

Entries == Seq(Accounts \X (0..MaxWorks))
Screens == [Accounts -> 0..MaxWorks]

\* What is written of an account has a last entry.
LEMMA ToldIsIndex ==
  ASSUME NEW es \in Entries, NEW b
  PROVE  /\ Told(es, b) \subseteq 1..Len(es)
         /\ Told(es, b) # {} => /\ Max(Told(es, b)) \in Told(es, b)
                               /\ \A y \in Told(es, b) : y <= Max(Told(es, b))
<1>1. Told(es, b) \subseteq 1..Len(es) /\ Len(es) \in Nat
  BY DEF Told, Entries
<1> QED
  BY <1>1, Greatest

\* A unique index is the greatest one.
LEMMA MaxIs ==
  ASSUME NEW n \in Nat, NEW T, T \subseteq 1..n, NEW m \in T, \A y \in T : y <= m
  PROVE  Max(T) = m
<1> DEFINE x == Max(T)
<1>1. x \in T /\ \A y \in T : y <= x
  BY Greatest
<1> HIDE DEF x
<1>2. x \in Nat /\ m \in Nat /\ m <= x /\ x <= m
  BY <1>1
<1>3. x = m
  BY <1>2
<1> QED
  BY <1>3 DEF x

\* A client is told presences.
LEMMA WriteType ==
  ASSUME NEW s \in Screens, NEW es \in Entries
  PROVE  Write(s, es) \in Screens
<1>1. ASSUME NEW b \in Accounts
      PROVE  (IF Told(es, b) = {} THEN s[b] ELSE es[Max(Told(es, b))][2]) \in 0..MaxWorks
  <2>1. CASE Told(es, b) = {}
    BY <2>1 DEF Screens
  <2>2. CASE Told(es, b) # {}
    <3>1. Max(Told(es, b)) \in 1..Len(es)
      BY <2>2, ToldIsIndex
    <3>2. es[Max(Told(es, b))] \in Accounts \X (0..MaxWorks)
      BY <3>1 DEF Entries
    <3> QED
      BY <2>2, <3>2
  <2> QED
    BY <2>1, <2>2
<1> QED
  BY <1>1 DEF Write, Screens

\* Nothing written changes nothing.
LEMMA WriteNothing ==
  ASSUME NEW s \in Screens
  PROVE  Write(s, <<>>) = s
<1>1. \A b \in Accounts : Told(<<>>, b) = {}
  BY DEF Told
<1> QED
  BY <1>1 DEF Write, Screens

\* The last entry is the one that counts.
LEMMA WriteAppend ==
  ASSUME NEW s \in Screens, NEW es \in Entries, NEW c \in Accounts, NEW v \in 0..MaxWorks,
         NEW b \in Accounts
  PROVE  Write(s, Append(es, <<c, v>>))[b] = IF c = b THEN v ELSE Write(s, es)[b]
<1> DEFINE fs == Append(es, <<c, v>>)
<1>1. fs \in Entries /\ Len(fs) = Len(es) + 1 /\ Len(es) \in Nat
  BY DEF Entries
<1>2. /\ \A k \in 1..Len(es) : fs[k] = es[k]
      /\ fs[Len(es) + 1] = <<c, v>>
  BY DEF Entries
<1>3. Told(fs, b) \subseteq 1..(Len(es) + 1)
  BY <1>1, ToldIsIndex
<1> HIDE DEF fs
<1>4. Write(s, fs)[b] = IF Told(fs, b) = {} THEN s[b] ELSE fs[Max(Told(fs, b))][2]
  BY DEF Write
<1>5. CASE c = b
  <2>1. Len(es) + 1 \in Told(fs, b)
    BY <1>1, <1>2, <1>5 DEF Told, Entries
  <2>2. Max(Told(fs, b)) = Len(es) + 1
    BY <1>1, <1>3, <2>1, MaxIs
  <2> QED
    BY <1>2, <1>4, <1>5, <2>1, <2>2 DEF fs
<1>6. CASE c # b
  <2>1. Told(fs, b) = Told(es, b)
    <3>1. DOMAIN fs = 1..(Len(es) + 1) /\ DOMAIN es = 1..Len(es)
      BY <1>1 DEF Entries
    <3>2. fs[Len(es) + 1][1] # b
      BY <1>2, <1>6
    <3>3. \A k \in 1..(Len(es) + 1) : k = Len(es) + 1 \/ k \in 1..Len(es)
      BY <1>1
    <3>4. 1..Len(es) \subseteq 1..(Len(es) + 1)
      BY <1>1
    <3>5. \A k \in 1..(Len(es) + 1) : fs[k][1] = b => k \in 1..Len(es) /\ es[k][1] = b
      BY <1>2, <3>2, <3>3
    <3>6. \A k \in 1..Len(es) : es[k][1] = b => k \in 1..(Len(es) + 1) /\ fs[k][1] = b
      BY <1>2, <3>4
    <3> QED
      BY <3>1, <3>5, <3>6 DEF Told
  <2>2. Told(es, b) # {} => Max(Told(es, b)) \in 1..Len(es)
    BY ToldIsIndex
  <2> QED
    BY <1>2, <1>4, <1>6, <2>1, <2>2 DEF Write, fs
<1> QED
  BY <1>5, <1>6

\* Writing in two parts is writing at once.
LEMMA WriteConcat ==
  ASSUME NEW s \in Screens, NEW es \in Entries, NEW fs \in Entries
  PROVE  Write(s, es \o fs) = Write(Write(s, es), fs)
<1> DEFINE gs == es \o fs
           n == Len(es)
<1>1. /\ gs \in Entries
      /\ Len(gs) = n + Len(fs)
      /\ n \in Nat /\ Len(fs) \in Nat
      /\ \A k \in 1..n : gs[k] = es[k]
      /\ \A k \in 1..Len(fs) : gs[n + k] = fs[k]
      /\ DOMAIN gs = 1..(n + Len(fs)) /\ DOMAIN es = 1..n /\ DOMAIN fs = 1..Len(fs)
  BY DEF Entries
<1> HIDE DEF gs, n
<1>2. ASSUME NEW b \in Accounts
      PROVE  Write(s, gs)[b] = Write(Write(s, es), fs)[b]
  <2>1. Write(s, gs)[b] = IF Told(gs, b) = {} THEN s[b] ELSE gs[Max(Told(gs, b))][2]
    BY DEF Write
  <2>2. Write(s, es)[b] = IF Told(es, b) = {} THEN s[b] ELSE es[Max(Told(es, b))][2]
    BY DEF Write
  <2>3. Write(Write(s, es), fs)[b] = IF Told(fs, b) = {} THEN Write(s, es)[b]
                                     ELSE fs[Max(Told(fs, b))][2]
    BY DEF Write
  <2>4. \A k \in 1..n : k \in Told(gs, b) <=> k \in Told(es, b)
    BY <1>1 DEF Told
  <2>5. \A k \in 1..Len(fs) : n + k \in Told(gs, b) <=> k \in Told(fs, b)
    BY <1>1 DEF Told
  <2>6. Told(gs, b) \subseteq 1..(n + Len(fs)) /\ Told(es, b) \subseteq 1..n
        /\ Told(fs, b) \subseteq 1..Len(fs)
    BY <1>1 DEF Told
  <2>7. CASE Told(fs, b) = {}
    <3>1. \A k \in 1..(n + Len(fs)) : k \in 1..n \/ k - n \in 1..Len(fs)
      BY <1>1
    <3>2. Told(gs, b) = Told(es, b)
      <4>1. ASSUME NEW k \in Told(gs, b) PROVE k \in Told(es, b)
        <5>1. CASE k \in 1..n
          BY <5>1, <2>4
        <5>2. CASE k - n \in 1..Len(fs)
          <6>1. n + (k - n) = k
            BY <2>6, <1>1
          <6> QED
            BY <5>2, <6>1, <2>5, <2>7
        <5> QED
          BY <3>1, <2>6, <5>1, <5>2
      <4>2. ASSUME NEW k \in Told(es, b) PROVE k \in Told(gs, b)
        BY <2>4, <2>6
      <4> QED
        BY <4>1, <4>2
    <3>3. Told(es, b) # {} => Max(Told(es, b)) \in 1..n
      BY ToldIsIndex, <2>6
    <3> QED
      BY <2>1, <2>2, <2>3, <2>7, <3>2, <3>3, <1>1
  <2>8. CASE Told(fs, b) # {}
    <3> DEFINE m == Max(Told(fs, b))
    <3>1. m \in Told(fs, b) /\ \A y \in Told(fs, b) : y <= m
      BY <2>8, ToldIsIndex
    <3>2. m \in 1..Len(fs)
      BY <3>1, <2>6
    <3> HIDE DEF m
    <3>3. n + m \in Told(gs, b)
      BY <3>1, <3>2, <2>5
    <3>4. ASSUME NEW y \in Told(gs, b) PROVE y <= n + m
      <4>1. CASE y <= n
        BY <4>1, <3>2, <1>1, <2>6
      <4>2. CASE y > n
        <5>1. y - n \in 1..Len(fs) /\ n + (y - n) = y
          BY <4>2, <2>6, <1>1
        <5>2. y - n \in Told(fs, b)
          BY <5>1, <2>5
        <5> QED
          BY <5>1, <5>2, <3>1, <3>2, <1>1
      <4> QED
        BY <4>1, <4>2, <2>6, <1>1
    <3>5. n + Len(fs) \in Nat
      BY <1>1
    <3>6. Max(Told(gs, b)) = n + m
      BY <3>3, <3>4, <3>5, <2>6, MaxIs
    <3>7. Told(gs, b) # {}
      BY <3>3
    <3> QED
      BY <2>1, <2>3, <2>8, <3>2, <3>6, <3>7, <1>1 DEF m
  <2> QED
    BY <2>7, <2>8
<1>3. Write(s, gs) = Write(Write(s, es), fs)
  <2>1. Write(s, gs) \in Screens /\ Write(Write(s, es), fs) \in Screens
    BY <1>1, WriteType
  <2> QED
    BY <1>2, <2>1 DEF Screens
<1> QED
  BY <1>3 DEF gs

-----------------------------------------------------------------------------
(* What the roster said at a ticket, and what the clients may be told.     *)

Undone(i) == work[i].pc # "done"
Queued(i) == work[i].pc = "queued"
Running(i) == work[i].pc \in {"replay", "cast"}

\* the tasks of the changes to what b grants a
IsChange(c, b, a) == work[c].kind \in {"grant", "revoke"} /\ work[c].of = b /\ work[c].to = a

\* Whether b granted a its presence when the ticket k was drawn: the next
\* change of it is a revocation, or there is none and it is granted now.
GrantedAt(k, b, a) ==
  \/ \E c \in DOMAIN work :
        /\ k <= c
        /\ IsChange(c, b, a)
        /\ work[c].kind = "revoke"
        /\ \A d \in DOMAIN work : k <= d /\ d < c => ~IsChange(d, b, a)
  \/ /\ \A d \in DOMAIN work : k <= d => ~IsChange(d, b, a)
     /\ <<b, a>> \in grants

\* The changes before m have had their turn, the others have not.
Front(m, b, a) ==
  \A c \in DOMAIN work : IsChange(c, b, a) => (Queued(c) <=> m <= c)

\* What the changes that have had their turn amount to is a grant.
Served(b, a) == \E m \in 1..New : Front(m, b, a) /\ GrantedAt(m, b, a)

-----------------------------------------------------------------------------
(* The inductive invariant.                                                *)

\* A task that runs or has run has its turn.
RunsInTurn == \A i \in DOMAIN work : ~Queued(i) => Turn(i)

\* The fields of a task.
Shape(w) ==
  /\ w.of \notin w.left /\ w.of \notin w.contacts
  /\ w.kind = "set" => /\ w.to = w.of /\ w.pc # "cast"
                       /\ w.value = 0 => w.contacts = {}
  /\ w.kind = "end" => /\ w.to = w.of /\ w.pc # "replay"
                       /\ w.value = 0 /\ w.contacts = {}
  /\ w.kind \in {"grant", "revoke"} =>
       /\ w.to # w.of /\ w.pc # "replay"
       /\ w.left \subseteq {w.to} /\ w.contacts = {}
       /\ w.pc = "queued" => w.left = {w.to}
  /\ w.kind = "revoke" => w.value = 0

Shapes == \A i \in DOMAIN work : Shape(work[i])

\* A change is what it says.
Changes ==
  \A c \in DOMAIN work :
    /\ work[c].kind = "grant" => GrantedAt(c + 1, work[c].of, work[c].to)
    /\ work[c].kind = "revoke" => ~GrantedAt(c + 1, work[c].of, work[c].to)
    /\ work[c].kind = "grant" => ~GrantedAt(c, work[c].of, work[c].to)

\* The audience of a task is that of its ticket.
Audiences ==
  \A k \in DOMAIN work : LET w == work[k] IN
    /\ w.kind \in {"set", "end"} =>
         \A a \in Accounts \ {w.of} :
            /\ a \in w.left => GrantedAt(k, w.of, a)
            /\ Queued(k) /\ GrantedAt(k, w.of, a) => a \in w.left
    /\ \A b \in w.contacts : GrantedAt(k, b, w.of)
    /\ w.kind = "set" /\ Queued(k) /\ Mine(w) =>
         /\ w.contacts # {} => presence[w.of] = 0
         /\ w.value # 0 /\ presence[w.of] = 0 =>
              \A b \in Accounts \ {w.of} : GrantedAt(k, b, w.of) => b \in w.contacts

\* What a stream waits for is its own update, or a change.
Awaited ==
  \A a \in Accounts : busy[a] # 0 =>
    /\ busy[a] \in DOMAIN work
    /\ alive[a]
    /\ work[busy[a]].kind # "end"
    /\ work[busy[a]].kind = "set" =>
         /\ work[busy[a]].of = a
         /\ work[busy[a]].token = token[a]
         /\ ~Queued(busy[a]) => presence[a] = work[busy[a]].value

\* The update of a session is one its stream waits for, and the end of a
\* session is that of an earlier one.
Owners ==
  \A i \in DOMAIN work : LET w == work[i] IN
    /\ w.kind = "set" /\ Undone(i) /\ Mine(w) => busy[w.of] = i
    /\ w.kind = "set" /\ Running(i) /\ presence[w.of] # 0 => w.token = token[w.of]
    /\ w.kind \in {"set", "end"} => w.token <= token[w.of]
    /\ w.kind = "end" /\ alive[w.of] => w.token < token[w.of]

Retired ==
  \A a \in Accounts : \A t \in retiring[a] :
    t <= token[a] /\ (alive[a] => t < token[a])

Streams == Awaited /\ Owners /\ Retired

\* The stream has an update's outcome to take by which it is unavailable.
Leaving(a) ==
  /\ busy[a] # 0
  /\ work[busy[a]].kind = "set"
  /\ work[busy[a]].value = 0
  /\ ~Queued(busy[a])

\* A client that is not available has been told nothing.
Blank ==
  \A a \in Accounts :
    /\ kept[a] # <<>> => busy[a] # 0 /\ ~Queued(busy[a])
    /\ presence[a] = 0 => mailbox[a] = <<>>
    /\ presence[a] = 0 /\ ~Leaving(a) =>
         kept[a] = <<>> /\ screen[a] = [b \in Accounts |-> 0]

\* What a running task tells is the presence, or the session has ended.
Values ==
  \A k \in DOMAIN work : Running(k) =>
    /\ work[k].kind \in {"set", "grant"} =>
         \/ presence[work[k].of] = work[k].value
         \/ presence[work[k].of] = 0 /\ retiring[work[k].of] # {}
    /\ work[k].kind = "end" /\ work[k].left # {} => presence[work[k].of] = 0

\* a's own update has yet to read b's presence, and nobody has told it.
Missing(a, b) ==
  /\ \E i \in DOMAIN work : /\ Running(i)
                            /\ work[i].kind = "set"
                            /\ work[i].of = a
                            /\ b \in work[i].contacts
  /\ Told(mailbox[a], b) = {}

\* A running task of b has yet to tell a.
Telling(kinds, a, b) ==
  \E k \in DOMAIN work : /\ Running(k)
                         /\ work[k].kind \in kinds
                         /\ work[k].of = b
                         /\ a \in work[k].left

Unread(a, b) == Missing(a, b) => Shown(a, b) = 0

\* Nobody is shown online but by a grant that stands or is being withdrawn.
Covered(a, b) == Shown(a, b) # 0 => Served(b, a) \/ Telling({"revoke"}, a, b)

\* A grant shows the presence, up to what is still being told.
Current(a, b) ==
  Served(b, a) =>
    \/ Shown(a, b) = presence[b]
    \/ Telling({"set", "grant"}, a, b)
    \/ presence[b] = 0 /\ retiring[b] # {}
    \/ Missing(a, b)

\* The same when the end of a session is being told, but for that end.
Ending(a, b) ==
  \A e \in DOMAIN work : Running(e) /\ work[e].kind = "end" /\ work[e].of = b /\ Served(b, a) =>
    \/ Shown(a, b) = presence[b]
    \/ a \in work[e].left
    \/ presence[b] = 0 /\ retiring[b] \ {work[e].token} # {}
    \/ Missing(a, b)

PairOK(a, b) == Unread(a, b) /\ Covered(a, b) /\ Current(a, b) /\ Ending(a, b)

\* What an available client is shown of another account.
Pairs == \A a, b \in Accounts : a # b /\ presence[a] # 0 => PairOK(a, b)

Inv ==
  /\ TypeOK
  /\ RunsInTurn
  /\ Shapes
  /\ Changes
  /\ Audiences
  /\ Streams
  /\ Blank
  /\ Values
  /\ Pairs

-----------------------------------------------------------------------------
(* The history of a grant.                                                 *)

\* The tasks have their fields, up to what they have still to do.
Steady ==
  /\ grants' = grants
  /\ DOMAIN work' = DOMAIN work
  /\ \A i \in DOMAIN work : /\ work'[i].kind = work[i].kind
                            /\ work'[i].of = work[i].of
                            /\ work'[i].to = work[i].to

\* A task w is new, and the grants are changed as it says.
Grown(w) ==
  /\ work' = Append(work, w)
  /\ w \in Works
  /\ w.pc = "queued"
  /\ \A b, a \in Accounts :
       IF w.kind \in {"grant", "revoke"} /\ w.of = b /\ w.to = a
       THEN (w.kind = "revoke" <=> <<b, a>> \in grants) /\ (w.kind = "grant" <=> <<b, a>> \in grants')
       ELSE <<b, a>> \in grants <=> <<b, a>> \in grants'

\* The tasks are numbered by their tickets.
LEMMA WorkDomain ==
  ASSUME TypeOK
  PROVE  DOMAIN work = 1..Len(work) /\ Len(work) \in Nat /\ New \in Nat
         /\ \A i \in DOMAIN work : work[i] \in Works
  BY DEF TypeOK, New

\* What the roster said at a ticket does not depend on the progress of tasks.
LEMMA SteadyGranted ==
  ASSUME Steady, NEW k, NEW a, NEW b
  PROVE  GrantedAt(k, b, a)' <=> GrantedAt(k, b, a)
<1>1. \A c \in DOMAIN work : IsChange(c, b, a)' <=> IsChange(c, b, a)
  BY DEF Steady, IsChange
<1> QED
  BY <1>1 DEF Steady, GrantedAt

\* A new task has the next ticket.
LEMMA GrownWork ==
  ASSUME TypeOK, NEW w, Grown(w)
  PROVE  /\ DOMAIN work' = 1..New
         /\ DOMAIN work = 1..Len(work)
         /\ New' = New + 1
         /\ work'[New] = w
         /\ \A i \in DOMAIN work : work'[i] = work[i] /\ i # New /\ i \in 1..New
<1>1. work \in Seq(Works) /\ w \in Works /\ work' = Append(work, w)
  BY DEF TypeOK, Grown
<1>2. /\ Len(work') = Len(work) + 1 /\ Len(work) \in Nat
      /\ DOMAIN work' = 1..(Len(work) + 1) /\ DOMAIN work = 1..Len(work)
      /\ work'[Len(work) + 1] = w
      /\ \A i \in 1..Len(work) : work'[i] = work[i]
  BY <1>1
<1> QED
  BY <1>2 DEF New

\* A new task leaves what the roster said at the earlier tickets.
LEMMA GrownGranted ==
  ASSUME TypeOK, NEW w, Grown(w), NEW k \in 1..New, NEW a \in Accounts, NEW b \in Accounts
  PROVE  GrantedAt(k, b, a)' <=> GrantedAt(k, b, a)
<1> PICK n \in Nat : n = New
  BY WorkDomain
<1>1. /\ DOMAIN work' = 1..n /\ DOMAIN work = 1..Len(work)
      /\ n = Len(work) + 1 /\ Len(work) \in Nat /\ k \in 1..n
      /\ work'[n] = w
      /\ \A i \in DOMAIN work : work'[i] = work[i]
  BY GrownWork, WorkDomain DEF New
<1>2. \A c \in DOMAIN work : IsChange(c, b, a)' <=> IsChange(c, b, a)
  BY <1>1 DEF IsChange
<1>3. IsChange(n, b, a)' <=> w.kind \in {"grant", "revoke"} /\ w.of = b /\ w.to = a
  BY <1>1 DEF IsChange
<1>4. CASE w.kind \in {"grant", "revoke"} /\ w.of = b /\ w.to = a
  <2>1. /\ w.kind = "revoke" <=> <<b, a>> \in grants
        /\ IsChange(n, b, a)'
    BY <1>3, <1>4 DEF Grown
  <2>2. ASSUME GrantedAt(k, b, a) PROVE GrantedAt(k, b, a)'
    <3>1. CASE \E c \in DOMAIN work :
                 /\ k <= c
                 /\ IsChange(c, b, a)
                 /\ work[c].kind = "revoke"
                 /\ \A d \in DOMAIN work : k <= d /\ d < c => ~IsChange(d, b, a)
      BY <3>1, <1>1, <1>2 DEF GrantedAt
    <3>2. CASE /\ \A d \in DOMAIN work : k <= d => ~IsChange(d, b, a)
               /\ <<b, a>> \in grants
      BY <3>2, <2>1, <1>1, <1>2 DEF GrantedAt
    <3> QED
      BY <2>2, <3>1, <3>2 DEF GrantedAt
  <2>3. ASSUME GrantedAt(k, b, a)' PROVE GrantedAt(k, b, a)
    <3>1. PICK c \in 1..n :
                 /\ k <= c
                 /\ IsChange(c, b, a)'
                 /\ work'[c].kind = "revoke"
                 /\ \A d \in 1..n : k <= d /\ d < c => ~IsChange(d, b, a)'
      BY <2>3, <2>1, <1>1 DEF GrantedAt
    <3>2. CASE c = n
      BY <3>1, <3>2, <2>1, <1>1, <1>2 DEF GrantedAt
    <3>3. CASE c # n
      BY <3>1, <3>3, <2>1, <1>1, <1>2 DEF GrantedAt
    <3> QED
      BY <3>2, <3>3
  <2> QED
    BY <2>2, <2>3
<1>5. CASE ~(w.kind \in {"grant", "revoke"} /\ w.of = b /\ w.to = a)
  <2>1. /\ <<b, a>> \in grants <=> <<b, a>> \in grants'
        /\ ~IsChange(n, b, a)'
    BY <1>3, <1>5 DEF Grown
  <2>2. ASSUME GrantedAt(k, b, a) PROVE GrantedAt(k, b, a)'
    <3>1. CASE \E c \in DOMAIN work :
                 /\ k <= c
                 /\ IsChange(c, b, a)
                 /\ work[c].kind = "revoke"
                 /\ \A d \in DOMAIN work : k <= d /\ d < c => ~IsChange(d, b, a)
      BY <3>1, <1>1, <1>2 DEF GrantedAt
    <3>2. CASE /\ \A d \in DOMAIN work : k <= d => ~IsChange(d, b, a)
               /\ <<b, a>> \in grants
      BY <3>2, <2>1, <1>1, <1>2 DEF GrantedAt
    <3> QED
      BY <2>2, <3>1, <3>2 DEF GrantedAt
  <2>3. ASSUME GrantedAt(k, b, a)' PROVE GrantedAt(k, b, a)
    <3>1. CASE \E c \in 1..n :
                 /\ k <= c
                 /\ IsChange(c, b, a)'
                 /\ work'[c].kind = "revoke"
                 /\ \A d \in 1..n : k <= d /\ d < c => ~IsChange(d, b, a)'
      BY <3>1, <2>1, <1>1, <1>2 DEF GrantedAt
    <3>2. CASE /\ \A d \in 1..n : k <= d => ~IsChange(d, b, a)'
               /\ <<b, a>> \in grants'
      BY <3>2, <2>1, <1>1, <1>2 DEF GrantedAt
    <3> QED
      BY <2>3, <3>1, <3>2, <1>1 DEF GrantedAt
  <2> QED
    BY <2>2, <2>3
<1> QED
  BY <1>4, <1>5

\* The next ticket sees the grants of now.
LEMMA GrantedNow ==
  ASSUME TypeOK, NEW a, NEW b
  PROVE  GrantedAt(New, b, a) <=> <<b, a>> \in grants
  BY WorkDomain DEF GrantedAt, New

\* Between two tickets that see a grant differently there is its change.
LEMMA Revoked ==
  ASSUME TypeOK, NEW a, NEW b, NEW j \in 1..New, NEW k \in 1..New, j <= k,
         GrantedAt(j, b, a), ~GrantedAt(k, b, a)
  PROVE  \E c \in DOMAIN work : /\ j <= c /\ c < k
                                /\ IsChange(c, b, a) /\ work[c].kind = "revoke"
  BY WorkDomain DEF GrantedAt

\* The same from a ticket that sees none to one that sees it.
LEMMA Granted ==
  ASSUME TypeOK, NEW a, NEW b, NEW j \in 1..New, NEW k \in 1..New, j <= k,
         ~GrantedAt(j, b, a), GrantedAt(k, b, a)
  PROVE  \E c \in DOMAIN work : j <= c /\ c < k /\ IsChange(c, b, a)
  BY WorkDomain DEF GrantedAt

\* Two fronts have no change between them.
LEMMA FrontsAgree ==
  ASSUME TypeOK, NEW a, NEW b, NEW j \in 1..New, NEW k \in 1..New,
         Front(j, b, a), Front(k, b, a)
  PROVE  GrantedAt(j, b, a) <=> GrantedAt(k, b, a)
<1>1. ASSUME NEW m \in 1..New, NEW n \in 1..New, Front(m, b, a), Front(n, b, a), m <= n
      PROVE  ~\E c \in DOMAIN work : m <= c /\ c < n /\ IsChange(c, b, a)
  BY <1>1, WorkDomain DEF Front
<1>2. CASE j <= k
  BY <1>1, <1>2, Revoked, Granted
<1>3. CASE k <= j
  BY <1>1, <1>3, Revoked, Granted
<1> QED
  BY <1>2, <1>3, WorkDomain

-----------------------------------------------------------------------------
(* Turns.                                                                  *)

\* Of the tasks of an account one has its turn.
LEMMA Alone ==
  ASSUME TypeOK, NEW i \in DOMAIN work, NEW k \in DOMAIN work, NEW x,
         x \in Lines(i), x \in Lines(k), Undone(i), Undone(k), Turn(i), Turn(k)
  PROVE  i = k
<1>1. i \in Nat /\ k \in Nat /\ 1 <= i /\ 1 <= k
  BY WorkDomain
<1>2. ASSUME i < k PROVE FALSE
  BY <1>1, <1>2 DEF Turn, Admitted, Undone
<1>3. ASSUME k < i PROVE FALSE
  BY <1>1, <1>3 DEF Turn, Admitted, Undone
<1> QED
  BY <1>1, <1>2, <1>3

\* The turn of a task of either account separates the changes that have had
\* their turn from those that have not.
LEMMA TurnFront ==
  ASSUME TypeOK, RunsInTurn, NEW i \in DOMAIN work, NEW a, NEW b, NEW x \in {a, b},
         x \in Lines(i), Undone(i), Turn(i), IsChange(i, b, a) => Queued(i)
  PROVE  i \in 1..New /\ Front(i, b, a)
<1>1. i \in Nat /\ 1 <= i /\ i \in 1..New /\ \A c \in DOMAIN work : c \in Nat /\ 1 <= c
  BY WorkDomain DEF New
<1>2. ASSUME NEW c \in DOMAIN work, IsChange(c, b, a)
      PROVE  Queued(c) <=> i <= c
  <2>0. x \in Lines(c)
    BY <1>2 DEF IsChange, Lines
  <2>1. CASE c < i
    <3>1. ~Undone(c)
      BY <2>0, <2>1, <1>1 DEF Turn, Admitted, Undone
    <3> QED
      BY <3>1, <2>1, <1>1 DEF Undone, Queued
  <2>2. CASE c = i
    BY <2>2, <1>1, <1>2
  <2>3. CASE i < c
    <3>1. ~Turn(c)
      BY <2>0, <2>3, <1>1 DEF Turn, Admitted, Undone
    <3> QED
      BY <3>1, <2>3, <1>1 DEF RunsInTurn
  <2> QED
    BY <2>1, <2>2, <2>3, <1>1
<1> QED
  BY <1>1, <1>2 DEF Front

\* A change that runs has the front behind it.
LEMMA ChangeFront ==
  ASSUME TypeOK, RunsInTurn, NEW i \in DOMAIN work, NEW a, NEW b,
         IsChange(i, b, a), Running(i)
  PROVE  i + 1 \in 1..New /\ Front(i + 1, b, a)
<1>1. i \in Nat /\ 1 <= i /\ i + 1 \in 1..New /\ \A c \in DOMAIN work : c \in Nat /\ 1 <= c
  BY WorkDomain DEF New
<1>2. ASSUME NEW c \in DOMAIN work, IsChange(c, b, a)
      PROVE  Queued(c) <=> i + 1 <= c
  <2>0. b \in Lines(c) /\ b \in Lines(i) /\ Undone(i) /\ ~Queued(i)
    BY <1>2 DEF IsChange, Lines, Undone, Running, Queued
  <2>1. CASE c < i
    <3>1. ~Undone(c)
      BY <2>0, <2>1, <1>1 DEF RunsInTurn, Turn, Admitted, Undone
    <3> QED
      BY <3>1, <2>1, <1>1 DEF Undone, Queued
  <2>2. CASE c = i
    BY <2>0, <2>2, <1>1
  <2>3. CASE i < c
    <3>1. ~Turn(c)
      BY <2>0, <2>3, <1>1 DEF Turn, Admitted, Undone
    <3> QED
      BY <3>1, <2>3, <1>1 DEF RunsInTurn
  <2> QED
    BY <2>1, <2>2, <2>3, <1>1
<1> QED
  BY <1>1, <1>2 DEF Front

\* What the task whose turn it is has read is what is served.
LEMMA ServedAtTurn ==
  ASSUME TypeOK, RunsInTurn, NEW i \in DOMAIN work, NEW a, NEW b, NEW x \in {a, b},
         x \in Lines(i), Undone(i), Turn(i), IsChange(i, b, a) => Queued(i)
  PROVE  Served(b, a) <=> GrantedAt(i, b, a)
  BY TurnFront, FrontsAgree DEF Served

\* What a running change says is what is served.
LEMMA ServedByChange ==
  ASSUME TypeOK, RunsInTurn, Changes, NEW i \in DOMAIN work, NEW a, NEW b,
         IsChange(i, b, a), Running(i)
  PROVE  Served(b, a) <=> work[i].kind = "grant"
<1>1. Served(b, a) <=> GrantedAt(i + 1, b, a)
  BY ChangeFront, FrontsAgree DEF Served
<1> QED
  BY <1>1 DEF Changes, IsChange

\* No change of the pair has its turn: what is served stays.
LEMMA ServedSteady ==
  ASSUME TypeOK, TypeOK', Steady, NEW a, NEW b,
         \A c \in DOMAIN work : IsChange(c, b, a) => (Queued(c)' <=> Queued(c))
  PROVE  Served(b, a)' <=> Served(b, a)
<1>1. New' = New
  <2>1. /\ DOMAIN work' = 1..Len(work') /\ Len(work') \in Nat
        /\ DOMAIN work = 1..Len(work) /\ Len(work) \in Nat
    BY DEF TypeOK
  <2>2. Len(work') = Len(work)
    <3>1. CASE Len(work') < Len(work)
      <4>1. Len(work) \in DOMAIN work /\ Len(work) \notin DOMAIN work'
        BY <2>1, <3>1
      <4> QED
        BY <4>1 DEF Steady
    <3>2. CASE Len(work) < Len(work')
      <4>1. Len(work') \in DOMAIN work' /\ Len(work') \notin DOMAIN work
        BY <2>1, <3>2
      <4> QED
        BY <4>1 DEF Steady
    <3>3. \A m, n \in Nat : ~(m < n) /\ ~(n < m) => m = n
      OBVIOUS
    <3> QED
      BY <2>1, <3>1, <3>2, <3>3
  <2> QED
    BY <2>2 DEF New
<1>2. \A m : Front(m, b, a)' <=> Front(m, b, a)
  <2>1. \A c \in DOMAIN work : IsChange(c, b, a)' <=> IsChange(c, b, a)
    BY DEF Steady, IsChange
  <2> QED
    BY <2>1 DEF Steady, Front
<1>3. \A m : GrantedAt(m, b, a)' <=> GrantedAt(m, b, a)
  BY SteadyGranted
<1> QED
  BY <1>1, <1>2, <1>3 DEF Served

\* A new task has not had its turn.
LEMMA ServedGrown ==
  ASSUME TypeOK, TypeOK', NEW w, Grown(w), NEW a \in Accounts, NEW b \in Accounts
  PROVE  Served(b, a)' <=> Served(b, a)
<1> PICK n \in Nat : n = New
  BY WorkDomain
<1>1. /\ DOMAIN work' = 1..n /\ DOMAIN work = 1..Len(work)
      /\ n = Len(work) + 1 /\ Len(work) \in Nat
      /\ work'[n] = w /\ w.pc = "queued"
      /\ New' = n + 1
      /\ \A i \in DOMAIN work : work'[i] = work[i]
  BY GrownWork, WorkDomain DEF New, Grown
<1>2. \A c \in DOMAIN work : (IsChange(c, b, a)' <=> IsChange(c, b, a)) /\ (Queued(c)' <=> Queued(c))
  BY <1>1 DEF IsChange, Queued
<1>3. Queued(n)'
  BY <1>1 DEF Queued
<1>4. \A m \in 1..n : Front(m, b, a)' <=> Front(m, b, a)
  BY <1>1, <1>2, <1>3 DEF Front
<1>5. \A m \in 1..n : GrantedAt(m, b, a)' <=> GrantedAt(m, b, a)
  BY GrownGranted
<1>6. ASSUME Front(n + 1, b, a)', GrantedAt(n + 1, b, a)'
      PROVE  Front(n, b, a)' /\ GrantedAt(n, b, a)'
  <2>1. ~IsChange(n, b, a)'
    BY <1>1, <1>3, <1>6 DEF Front
  <2>2. Front(n, b, a)'
    BY <1>1, <1>3, <1>6, <2>1 DEF Front
  <2>3. GrantedAt(n, b, a)'
    BY <1>1, <1>6, <2>1 DEF GrantedAt
  <2> QED
    BY <2>2, <2>3
<1>7. Served(b, a)' <=> \E m \in 1..(n + 1) : Front(m, b, a)' /\ GrantedAt(m, b, a)'
  BY <1>1 DEF Served
<1>8. \A m \in 1..(n + 1) : m = n + 1 \/ m \in 1..n
  BY <1>1
<1>9. n \in 1..n /\ 1..n \subseteq 1..(n + 1)
  BY <1>1
<1> QED
  BY <1>4, <1>5, <1>6, <1>7, <1>8, <1>9 DEF Served

-----------------------------------------------------------------------------
(* What the steps do to the tasks.                                         *)

\* A task takes a step; it has its turn and goes on.
Moves(i) ==
  /\ i \in DOMAIN work
  /\ Undone(i)
  /\ Turn(i)
  /\ grants' = grants
  /\ DOMAIN work' = DOMAIN work
  /\ work' \in Seq(Works)
  /\ Len(work') = Len(work)
  /\ \A j \in DOMAIN work : j # i => work'[j] = work[j]
  /\ work'[i].kind = work[i].kind
  /\ work'[i].of = work[i].of
  /\ work'[i].to = work[i].to
  /\ work'[i].token = work[i].token
  /\ work'[i].pc \in {"replay", "cast", "done"}

\* One task of a sequence is replaced.
LEMMA Replaced ==
  ASSUME NEW s \in Seq(Works), NEW i \in DOMAIN s, NEW v \in Works
  PROVE  LET t == [s EXCEPT ![i] = v] IN
         /\ t \in Seq(Works)
         /\ Len(t) = Len(s)
         /\ DOMAIN t = DOMAIN s
         /\ t[i] = v
         /\ \A j \in DOMAIN s : j # i => t[j] = s[j]
  OBVIOUS

\* What Apply does to its task.
LEMMA ApplyMoves ==
  ASSUME TypeOK, NEW i \in DOMAIN work, Apply(i)
  PROVE  /\ Moves(i)
         /\ work[i].kind = "set" /\ Queued(i)
         /\ work'[i].value = work[i].value /\ work'[i].contacts = work[i].contacts
         /\ IF Mine(work[i])
            THEN /\ work'[i].pc = "replay"
                 /\ work'[i].left = IF work[i].value # 0 \/ presence[work[i].of] # 0
                                    THEN work[i].left ELSE {}
            ELSE /\ work'[i].pc = "done"
                 /\ work'[i].left = work[i].left
<1>1. work \in Seq(Works) /\ work[i] \in Works
  BY WorkDomain DEF TypeOK
<1>2. CASE ~Mine(work[i])
  <2>1. work' = [work EXCEPT ![i] = [work[i] EXCEPT !.pc = "done"]]
    BY <1>1, <1>2 DEF Apply
  <2>2. [work[i] EXCEPT !.pc = "done"] \in Works
    BY <1>1 DEF Works
  <2>7. /\ work' \in Seq(Works) /\ Len(work') = Len(work) /\ DOMAIN work' = DOMAIN work
        /\ work'[i] = [work[i] EXCEPT !.pc = "done"]
        /\ \A j \in DOMAIN work : j # i => work'[j] = work[j]
    BY <1>1, <2>1, <2>2, Replaced
  <2>8. /\ work'[i].kind = work[i].kind /\ work'[i].of = work[i].of
        /\ work'[i].to = work[i].to /\ work'[i].token = work[i].token
        /\ work'[i].value = work[i].value /\ work'[i].contacts = work[i].contacts
        /\ work'[i].pc = "done" /\ work'[i].left = work[i].left
    BY <1>1, <2>7 DEF Works
  <2> QED
    BY <1>2, <2>7, <2>8 DEF Apply, Moves, Undone, Queued
<1>3. CASE Mine(work[i])
  <2> DEFINE l == IF work[i].value # 0 \/ presence[work[i].of] # 0 THEN work[i].left ELSE {}
  <2>1. work' = [work EXCEPT ![i] = [work[i] EXCEPT !.pc = "replay", !.left = l]]
    BY <1>1, <1>3 DEF Apply, Works
  <2>2. [work[i] EXCEPT !.pc = "replay", !.left = l] \in Works
    BY <1>1 DEF Works
  <2>7. /\ work' \in Seq(Works) /\ Len(work') = Len(work) /\ DOMAIN work' = DOMAIN work
        /\ work'[i] = [work[i] EXCEPT !.pc = "replay", !.left = l]
        /\ \A j \in DOMAIN work : j # i => work'[j] = work[j]
    BY <1>1, <2>1, <2>2, Replaced
  <2>8. /\ work'[i].kind = work[i].kind /\ work'[i].of = work[i].of
        /\ work'[i].to = work[i].to /\ work'[i].token = work[i].token
        /\ work'[i].value = work[i].value /\ work'[i].contacts = work[i].contacts
        /\ work'[i].pc = "replay" /\ work'[i].left = l
    BY <1>1, <2>7 DEF Works
  <2> QED
    BY <1>3, <2>7, <2>8 DEF Apply, Moves, Undone, Queued
<1> QED
  BY <1>2, <1>3

\* What Replay does to its task.
LEMMA ReplayMoves ==
  ASSUME TypeOK, RunsInTurn, Shapes, NEW i \in DOMAIN work, NEW c \in Accounts, Replay(i, c)
  PROVE  /\ Moves(i)
         /\ work[i].kind = "set" /\ work[i].pc = "replay" /\ c \in work[i].contacts
         /\ work'[i].pc = "replay" /\ work'[i].value = work[i].value
         /\ work'[i].left = work[i].left /\ work'[i].contacts = work[i].contacts \ {c}
<1>1. work \in Seq(Works) /\ work[i] \in Works
  BY WorkDomain DEF TypeOK
<1>2. work' = [work EXCEPT ![i] = [work[i] EXCEPT !.contacts = work[i].contacts \ {c}]]
  BY <1>1 DEF Replay, Works
<1>3. [work[i] EXCEPT !.contacts = work[i].contacts \ {c}] \in Works
  BY <1>1 DEF Works
<1>4. Turn(i) /\ Undone(i) /\ grants' = grants /\ work[i].pc = "replay" /\ c \in work[i].contacts
  BY DEF Replay, RunsInTurn, Queued, Undone
<1>5. work[i].kind = "set"
  BY <1>1, <1>4 DEF Shapes, Shape, Works
<1> QED
  BY <1>1, <1>2, <1>3, <1>4, <1>5, Replaced DEF Moves, Works

\* What Cast does to its task.
LEMMA CastMoves ==
  ASSUME TypeOK, RunsInTurn, NEW i \in DOMAIN work, NEW b \in Accounts, Cast(i, b)
  PROVE  /\ Moves(i)
         /\ Running(i) /\ work[i].contacts = {} /\ b \in work[i].left
         /\ work'[i].pc = work[i].pc /\ work'[i].value = work[i].value
         /\ work'[i].left = work[i].left \ {b} /\ work'[i].contacts = work[i].contacts
<1>1. work \in Seq(Works) /\ work[i] \in Works
  BY WorkDomain DEF TypeOK
<1>2. work' = [work EXCEPT ![i] = [work[i] EXCEPT !.left = work[i].left \ {b}]]
  BY <1>1 DEF Cast, Works
<1>3. [work[i] EXCEPT !.left = work[i].left \ {b}] \in Works
  BY <1>1 DEF Works
<1>4. /\ Turn(i) /\ Undone(i) /\ grants' = grants
      /\ Running(i) /\ work[i].contacts = {} /\ b \in work[i].left
  BY DEF Cast, RunsInTurn, Queued, Undone, Running
<1> QED
  BY <1>1, <1>2, <1>3, <1>4, Replaced DEF Moves, Works, Running

\* What Finish does to its task.
LEMMA FinishMoves ==
  ASSUME TypeOK, RunsInTurn, NEW i \in DOMAIN work, Finish(i)
  PROVE  /\ Moves(i)
         /\ Running(i) /\ work[i].contacts = {} /\ work[i].left = {}
         /\ work'[i].pc = "done" /\ work'[i].value = work[i].value
         /\ work'[i].left = {} /\ work'[i].contacts = {}
<1>1. work \in Seq(Works) /\ work[i] \in Works
  BY WorkDomain DEF TypeOK
<1>2. work' = [work EXCEPT ![i] = [work[i] EXCEPT !.pc = "done"]]
  BY <1>1 DEF Finish, Works
<1>3. [work[i] EXCEPT !.pc = "done"] \in Works
  BY <1>1 DEF Works
<1>4. /\ Turn(i) /\ Undone(i) /\ grants' = grants
      /\ Running(i) /\ work[i].contacts = {} /\ work[i].left = {}
  BY DEF Finish, RunsInTurn, Queued, Undone, Running
<1>7. /\ work' \in Seq(Works) /\ Len(work') = Len(work) /\ DOMAIN work' = DOMAIN work
      /\ work'[i] = [work[i] EXCEPT !.pc = "done"]
      /\ \A j \in DOMAIN work : j # i => work'[j] = work[j]
  BY <1>1, <1>2, <1>3, Replaced
<1>8. /\ work'[i].kind = work[i].kind /\ work'[i].of = work[i].of
      /\ work'[i].to = work[i].to /\ work'[i].token = work[i].token
      /\ work'[i].value = work[i].value /\ work'[i].contacts = work[i].contacts
      /\ work'[i].pc = "done" /\ work'[i].left = work[i].left
  BY <1>1, <1>7 DEF Works
<1> QED
  BY <1>4, <1>7, <1>8 DEF Moves

\* What ApplyEnd does to its task.
LEMMA ApplyEndMoves ==
  ASSUME TypeOK, NEW i \in DOMAIN work, ApplyEnd(i)
  PROVE  /\ Moves(i)
         /\ work[i].kind = "end" /\ Queued(i)
         /\ work'[i].pc = "cast" /\ work'[i].value = work[i].value
         /\ work'[i].left = IF Reaches(work[i].of) THEN {} ELSE work[i].left
         /\ work'[i].contacts = work[i].contacts
<1>1. work \in Seq(Works) /\ work[i] \in Works
  BY WorkDomain DEF TypeOK
<1> DEFINE l == IF Reaches(work[i].of) THEN {} ELSE work[i].left
<1>2. work' = [work EXCEPT ![i] = [work[i] EXCEPT !.pc = "cast", !.left = l]]
  BY <1>1 DEF ApplyEnd, Works
<1>3. [work[i] EXCEPT !.pc = "cast", !.left = l] \in Works
  BY <1>1 DEF Works
<1>7. /\ work' \in Seq(Works) /\ Len(work') = Len(work) /\ DOMAIN work' = DOMAIN work
      /\ work'[i] = [work[i] EXCEPT !.pc = "cast", !.left = l]
      /\ \A j \in DOMAIN work : j # i => work'[j] = work[j]
  BY <1>1, <1>2, <1>3, Replaced
<1>8. /\ work'[i].kind = work[i].kind /\ work'[i].of = work[i].of
      /\ work'[i].to = work[i].to /\ work'[i].token = work[i].token
      /\ work'[i].value = work[i].value /\ work'[i].contacts = work[i].contacts
      /\ work'[i].pc = "cast" /\ work'[i].left = l
  BY <1>1, <1>7 DEF Works
<1> QED
  BY <1>7, <1>8 DEF ApplyEnd, Moves, Undone, Queued

\* What ApplyChange does to its task.
LEMMA ApplyChangeMoves ==
  ASSUME TypeOK, NEW i \in DOMAIN work, ApplyChange(i)
  PROVE  /\ Moves(i)
         /\ work[i].kind \in {"grant", "revoke"} /\ Queued(i)
         /\ work'[i].pc = "cast"
         /\ work'[i].value = IF work[i].kind = "grant" THEN presence[work[i].of] ELSE 0
         /\ work'[i].left = IF IF work[i].kind = "grant" THEN presence[work[i].of] # 0
                               ELSE Withdraws(work[i].of)
                            THEN work[i].left ELSE {}
         /\ work'[i].contacts = work[i].contacts
<1>1. work \in Seq(Works) /\ work[i] \in Works
  BY WorkDomain DEF TypeOK
<1> DEFINE send == IF work[i].kind = "grant" THEN presence[work[i].of] # 0
                   ELSE Withdraws(work[i].of)
           l == IF send THEN work[i].left ELSE {}
           v == IF work[i].kind = "grant" THEN presence[work[i].of] ELSE 0
<1>2. work' = [work EXCEPT ![i] = [work[i] EXCEPT !.pc = "cast", !.value = v, !.left = l]]
  BY <1>1 DEF ApplyChange, Works
<1>3. v \in 0..MaxWorks
  BY <1>1, BoundAssumption DEF Works, TypeOK
<1>4. [work[i] EXCEPT !.pc = "cast", !.value = v, !.left = l] \in Works
  BY <1>1, <1>3 DEF Works
<1>7. /\ work' \in Seq(Works) /\ Len(work') = Len(work) /\ DOMAIN work' = DOMAIN work
      /\ work'[i] = [work[i] EXCEPT !.pc = "cast", !.value = v, !.left = l]
      /\ \A j \in DOMAIN work : j # i => work'[j] = work[j]
  BY <1>1, <1>2, <1>4, Replaced
<1>8. /\ work'[i].kind = work[i].kind /\ work'[i].of = work[i].of
      /\ work'[i].to = work[i].to /\ work'[i].token = work[i].token
      /\ work'[i].value = v /\ work'[i].contacts = work[i].contacts
      /\ work'[i].pc = "cast" /\ work'[i].left = l
  BY <1>1, <1>7 DEF Works
<1> QED
  BY <1>7, <1>8 DEF ApplyChange, Moves, Undone, Queued

\* A task that moves stays the task it is.
LEMMA MovesSteady ==
  ASSUME NEW i, Moves(i)
  PROVE  Steady
  BY DEF Moves, Steady

\* A task moves in its turn.
LEMMA MovesRuns ==
  ASSUME TypeOK, RunsInTurn, NEW i, Moves(i)
  PROVE  RunsInTurn'
<1>1. \A j \in DOMAIN work : /\ Lines(j)' = Lines(j)
                             /\ j \in Nat /\ 1 <= j
                             /\ \A a : Admitted(j, a)' => Admitted(j, a)
  BY WorkDomain DEF Moves, Lines, Admitted, Undone
<1>2. ASSUME NEW j \in DOMAIN work, Turn(j) PROVE Turn(j)'
  <2>1. \A k \in 1..(j - 1) : k \in DOMAIN work
    BY WorkDomain
  <2> QED
    BY <1>1, <1>2, <2>1 DEF Turn
<1>3. ASSUME NEW j \in DOMAIN work, ~Queued(j)' PROVE Turn(j)
  BY <1>3 DEF Moves, RunsInTurn, Queued
<1> QED
  BY <1>2, <1>3 DEF RunsInTurn, Moves

\* Changes say what they said.
LEMMA SteadyChanges ==
  ASSUME Steady, Changes
  PROVE  Changes'
<1>1. \A k, b, a : GrantedAt(k, b, a)' <=> GrantedAt(k, b, a)
  BY SteadyGranted
<1> QED
  BY <1>1 DEF Steady, Changes

\* A new task takes nobody's turn.
LEMMA GrownRuns ==
  ASSUME TypeOK, RunsInTurn, NEW w, Grown(w)
  PROVE  RunsInTurn'
<1> PICK n \in Nat : n = New
  BY WorkDomain
<1>1. /\ DOMAIN work' = 1..n /\ DOMAIN work = 1..Len(work)
      /\ n = Len(work) + 1 /\ Len(work) \in Nat
      /\ work'[n] = w /\ w.pc = "queued"
      /\ \A i \in DOMAIN work : work'[i] = work[i]
  BY GrownWork, WorkDomain DEF New, Grown
<1>2. \A j \in DOMAIN work : /\ Lines(j)' = Lines(j)
                             /\ \A a : Admitted(j, a)' <=> Admitted(j, a)
                             /\ Queued(j)' <=> Queued(j)
  BY <1>1 DEF Lines, Admitted, Queued
<1>3. ASSUME NEW j \in DOMAIN work, Turn(j) PROVE Turn(j)'
  <2>1. \A k \in 1..(j - 1) : k \in DOMAIN work
    BY <1>1
  <2> QED
    BY <1>2, <1>3, <2>1 DEF Turn
<1>4. Queued(n)'
  BY <1>1 DEF Queued
<1>5. \A j \in 1..n : j = n \/ j \in DOMAIN work
  BY <1>1
<1> QED
  BY <1>1, <1>2, <1>3, <1>4, <1>5 DEF RunsInTurn

\* A new change says what it does to the grants.
LEMMA GrownChanges ==
  ASSUME TypeOK, TypeOK', Changes, NEW w, Grown(w)
  PROVE  Changes'
<1> PICK n \in Nat : n = New
  BY WorkDomain
<1>1. /\ DOMAIN work' = 1..n /\ DOMAIN work = 1..Len(work)
      /\ n = Len(work) + 1 /\ Len(work) \in Nat
      /\ work'[n] = w /\ w.pc = "queued" /\ w \in Works
      /\ n + 1 = New'
      /\ \A i \in DOMAIN work : work'[i] = work[i] /\ i + 1 \in 1..n /\ i \in 1..n
      /\ \A i \in DOMAIN work : work[i] \in Works
  BY GrownWork, WorkDomain DEF New, Grown
<1>2. \A k \in 1..n : \A b, a \in Accounts : GrantedAt(k, b, a)' <=> GrantedAt(k, b, a)
  BY GrownGranted
<1>3. \A b, a \in Accounts : /\ GrantedAt(n, b, a) <=> <<b, a>> \in grants
                             /\ GrantedAt(n + 1, b, a)' <=> <<b, a>> \in grants'
  <2>1. \A b, a \in Accounts : GrantedAt(n, b, a) <=> <<b, a>> \in grants
    BY GrantedNow
  <2>2. ASSUME NEW b \in Accounts, NEW a \in Accounts
        PROVE  GrantedAt(n + 1, b, a)' <=> <<b, a>> \in grants'
    BY <1>1 DEF GrantedAt
  <2> QED
    BY <2>1, <2>2
<1>4. ASSUME NEW c \in DOMAIN work
      PROVE  (/\ work[c].kind = "grant" => GrantedAt(c + 1, work[c].of, work[c].to)
              /\ work[c].kind = "revoke" => ~GrantedAt(c + 1, work[c].of, work[c].to)
              /\ work[c].kind = "grant" => ~GrantedAt(c, work[c].of, work[c].to))'
  <2> PICK b \in Accounts, a \in Accounts : b = work[c].of /\ a = work[c].to
    BY <1>1 DEF Works
  <2>1. work'[c] = work[c] /\ c + 1 \in 1..n /\ c \in 1..n
    BY <1>1
  <2>2. /\ GrantedAt(c, b, a)' <=> GrantedAt(c, b, a)
        /\ GrantedAt(c + 1, b, a)' <=> GrantedAt(c + 1, b, a)
    BY <1>2, <2>1
  <2> QED
    BY <2>1, <2>2 DEF Changes
<1>5. /\ w.kind = "grant" => GrantedAt(n + 1, w.of, w.to)'
      /\ w.kind = "revoke" => ~GrantedAt(n + 1, w.of, w.to)'
      /\ w.kind = "grant" => ~GrantedAt(n, w.of, w.to)'
  <2>1. w.of \in Accounts /\ w.to \in Accounts /\ n \in 1..n
    BY <1>1 DEF Works
  <2> QED
    BY <1>2, <1>3, <2>1 DEF Grown
<1>6. \A j \in 1..n : j = n \/ j \in DOMAIN work
  BY <1>1
<1>7. (/\ work[n].kind = "grant" => GrantedAt(n + 1, work[n].of, work[n].to)
       /\ work[n].kind = "revoke" => ~GrantedAt(n + 1, work[n].of, work[n].to)
       /\ work[n].kind = "grant" => ~GrantedAt(n, work[n].of, work[n].to))'
  BY <1>1, <1>5
<1> QED
  BY <1>1, <1>4, <1>6, <1>7 DEF Changes

\* Announce adds a task and changes no grant.
LEMMA AnnounceGrows ==
  ASSUME TypeOK, NEW a \in Accounts, NEW on \in BOOLEAN, Announce(a, on)
  PROVE  \E w \in Works :
           /\ Grown(w)
           /\ w.kind = "set" /\ w.of = a /\ w.to = a /\ w.token = token[a]
           /\ w.value # 0 <=> on
           /\ w.left = Subscribers(a)
           /\ w.contacts = IF on /\ presence[a] = 0 THEN Contacts(a) ELSE {}
<1> DEFINE w == [kind |-> "set", pc |-> "queued", of |-> a, to |-> a,
                 token |-> token[a], value |-> IF on THEN New ELSE 0,
                 left |-> Subscribers(a),
                 contacts |-> IF on /\ presence[a] = 0 THEN Contacts(a) ELSE {}]
<1>1. work' = Append(work, w) /\ grants' = grants
  BY DEF Announce
<1>2. w \in Works
  <2>1. New \in 1..MaxWorks /\ token[a] \in 0..MaxSessions
    BY WorkDomain, BoundAssumption DEF Announce, New, TypeOK
  <2>2. 0 \in 0..MaxWorks /\ New \in 0..MaxWorks
    BY <2>1, BoundAssumption
  <2> QED
    BY <2>1, <2>2 DEF Works, Subscribers, Contacts
<1>3. Grown(w)
  BY <1>1, <1>2 DEF Grown
<1>4. New # 0
  BY WorkDomain DEF New
<1>5. /\ w.kind = "set" /\ w.of = a /\ w.to = a /\ w.token = token[a]
      /\ w.value # 0 <=> on
      /\ w.left = Subscribers(a)
      /\ w.contacts = IF on /\ presence[a] = 0 THEN Contacts(a) ELSE {}
  BY <1>4
<1> QED
  BY <1>2, <1>3, <1>5

\* FixEnd adds a task and changes no grant.
LEMMA FixEndGrows ==
  ASSUME TypeOK, NEW a \in Accounts, NEW t \in retiring[a], FixEnd(a, t)
  PROVE  \E w \in Works :
           /\ Grown(w)
           /\ w.kind = "end" /\ w.of = a /\ w.to = a /\ w.token = t /\ w.value = 0
           /\ w.left = Subscribers(a) /\ w.contacts = {}
<1> DEFINE w == [kind |-> "end", pc |-> "queued", of |-> a, to |-> a,
                 token |-> t, value |-> 0, left |-> Subscribers(a),
                 contacts |-> {}]
<1>1. work' = Append(work, w) /\ grants' = grants
  BY DEF FixEnd
<1>2. w \in Works
  <2>1. t \in 0..MaxSessions /\ 0 \in 0..MaxWorks
    BY BoundAssumption DEF TypeOK
  <2> QED
    BY <2>1 DEF Works, Subscribers
<1>3. Grown(w)
  BY <1>1, <1>2 DEF Grown
<1> QED
  BY <1>2, <1>3

\* Change adds a task and changes the grant it says.
LEMMA ChangeGrows ==
  ASSUME TypeOK, NEW x \in Accounts, NEW g \in Accounts, NEW s \in Accounts, Change(x, g, s)
  PROVE  \E w \in Works :
           /\ Grown(w)
           /\ w.kind \in {"grant", "revoke"} /\ w.of = g /\ w.to = s /\ g # s
           /\ w.value = 0 /\ w.left = {s} /\ w.contacts = {}
<1> DEFINE w == [kind |-> IF <<g, s>> \in grants THEN "revoke" ELSE "grant",
                 pc |-> "queued", of |-> g, to |-> s,
                 token |-> 0, value |-> 0, left |-> {s}, contacts |-> {}]
<1>1. /\ work' = Append(work, w) /\ g # s
      /\ grants' = IF <<g, s>> \in grants THEN grants \ {<<g, s>>} ELSE grants \cup {<<g, s>>}
  BY DEF Change
<1>2. w \in Works
  <2>1. 0 \in 0..MaxSessions /\ 0 \in 0..MaxWorks
    BY BoundAssumption
  <2> QED
    BY <2>1 DEF Works
<1>3. /\ w.kind \in {"grant", "revoke"} /\ w.of = g /\ w.to = s /\ w.pc = "queued"
      /\ w.kind = "revoke" <=> <<g, s>> \in grants
      /\ w.kind = "grant" <=> <<g, s>> \in grants'
      /\ w.value = 0 /\ w.left = {s} /\ w.contacts = {}
  BY <1>1
<1>4. ASSUME NEW b \in Accounts, NEW a \in Accounts, b # g \/ a # s
      PROVE  <<b, a>> \in grants <=> <<b, a>> \in grants'
  BY <1>1, <1>4
<1>5. Grown(w)
  BY <1>1, <1>2, <1>3, <1>4 DEF Grown
<1> QED
  BY <1>1, <1>2, <1>3, <1>5

-----------------------------------------------------------------------------
(* Types.                                                                  *)

\* Without tasks and sessions nobody is told anything.
LEMMA InitInv ==
  ASSUME Init
  PROVE  Inv
<1> USE BoundAssumption
<1>1. work = <<>> /\ DOMAIN work = {}
  BY DEF Init
<1>2. TypeOK
  BY <1>1 DEF Init, TypeOK
<1>3. /\ \A a \in Accounts : presence[a] = 0 /\ busy[a] = 0 /\ retiring[a] = {}
                             /\ kept[a] = <<>> /\ mailbox[a] = <<>>
                             /\ screen[a] = [b \in Accounts |-> 0]
  BY DEF Init
<1>4. RunsInTurn /\ Shapes /\ Changes /\ Audiences /\ Values
  BY <1>1 DEF RunsInTurn, Shapes, Changes, Audiences, Values
<1>5. Streams /\ Blank /\ Pairs
  BY <1>1, <1>3 DEF Streams, Awaited, Owners, Retired, Blank, Pairs
<1> QED
  BY <1>2, <1>4, <1>5 DEF Inv

\* The tasks have their type when one moves.
LEMMA MovesType ==
  ASSUME TypeOK, NEW i, Moves(i)
  PROVE  /\ grants' \subseteq Accounts \X Accounts
         /\ work' \in Seq(Works)
         /\ Len(work') <= MaxWorks
  BY DEF TypeOK, Moves

\* The tasks have their type when one is added.
LEMMA GrownType ==
  ASSUME TypeOK, NEW w, Grown(w), New <= MaxWorks
  PROVE  /\ work' \in Seq(Works)
         /\ Len(work') <= MaxWorks
<1>1. work' = Append(work, w) /\ w \in Works /\ work \in Seq(Works)
  BY DEF Grown, TypeOK
<1>2. work' \in Seq(Works) /\ Len(work') = Len(work) + 1
  BY <1>1
<1> QED
  BY <1>2 DEF New

\* Mailboxes have their type when an entry is added.
LEMMA DeliverType ==
  ASSUME TypeOK, NEW b \in Accounts, NEW c \in Accounts, NEW v \in 0..MaxWorks
  PROVE  Deliver(b, <<c, v>>) \in [Accounts -> Seq(Accounts \X (0..MaxWorks))]
<1>1. Append(mailbox[b], <<c, v>>) \in Seq(Accounts \X (0..MaxWorks))
  BY DEF TypeOK
<1> QED
  BY <1>1 DEF Deliver, TypeOK

\* Every step keeps the types.
LEMMA TypeStep ==
  ASSUME TypeOK, RunsInTurn, Shapes, Next
  PROVE  TypeOK'
<1> USE BoundAssumption
<1>0. 0 \in 0..MaxWorks /\ <<>> \in Seq(Accounts \X (0..MaxWorks))
  OBVIOUS
<1>1. ASSUME NEW a \in Accounts, Bind(a) PROVE TypeOK'
  <2>1. token[a] + 1 \in 0..MaxSessions
    BY <1>1 DEF Bind, TypeOK
  <2> QED
    BY <1>1, <2>1 DEF Bind, TypeOK
<1>2. ASSUME NEW a \in Accounts, Drain(a) PROVE TypeOK'
  <2>1. Write(screen[a], mailbox[a]) \in [Accounts -> 0..MaxWorks]
    BY WriteType DEF TypeOK, Screens, Entries
  <2> QED
    BY <1>0, <1>2, <2>1 DEF Drain, TypeOK
<1>3. ASSUME NEW a \in Accounts, End(a) PROVE TypeOK'
  <2>1. [b \in Accounts |-> 0] \in [Accounts -> 0..MaxWorks]
    BY <1>0
  <2>2. retiring' \in [Accounts -> SUBSET (0..MaxSessions)]
    BY <1>3 DEF End, TypeOK
  <2> QED
    BY <1>0, <1>3, <2>1, <2>2 DEF End, TypeOK
<1>4. ASSUME NEW a \in Accounts, NEW on \in BOOLEAN, Announce(a, on) PROVE TypeOK'
  <2>1. PICK w \in Works : Grown(w)
    BY <1>4, AnnounceGrows
  <2>2. New <= MaxWorks /\ New \in 0..MaxWorks
    BY <1>4, WorkDomain DEF Announce
  <2> QED
    <3>1. busy' \in [Accounts -> 0..MaxWorks]
      BY <1>4, <2>2 DEF Announce, TypeOK
    <3>2. work' \in Seq(Works) /\ Len(work') <= MaxWorks
      BY <2>1, <2>2, GrownType
    <3> QED
      BY <1>4, <3>1, <3>2 DEF Announce, TypeOK
<1>5. ASSUME NEW a \in Accounts, Outcome(a) PROVE TypeOK'
  <2>1. Write(screen[a], kept[a]) \in [Accounts -> 0..MaxWorks]
    BY WriteType DEF TypeOK, Screens, Entries
  <2>2. [b \in Accounts |-> 0] \in [Accounts -> 0..MaxWorks]
    BY <1>0
  <2> QED
    BY <1>0, <1>5, <2>1, <2>2 DEF Outcome, TypeOK
<1>6. ASSUME NEW a \in Accounts, NEW t \in retiring[a], FixEnd(a, t) PROVE TypeOK'
  <2>1. PICK w \in Works : Grown(w)
    BY <1>6, FixEndGrows
  <2> QED
    BY <1>6, <2>1, GrownType DEF FixEnd, TypeOK
<1>7. ASSUME NEW i \in DOMAIN work, Apply(i) PROVE TypeOK'
  <2>1. Moves(i) /\ work[i] \in Works
    BY <1>7, ApplyMoves, WorkDomain
  <2>2. work[i].of \in Accounts /\ work[i].value \in 0..MaxWorks
    BY <2>1 DEF Works
  <2>3. CASE Mine(work[i])
    <3>1. /\ presence' = [presence EXCEPT ![work[i].of] = work[i].value]
          /\ kept' = [kept EXCEPT ![work[i].of] = mailbox[work[i].of]]
          /\ mailbox' = [mailbox EXCEPT ![work[i].of] = <<>>]
          /\ UNCHANGED <<token, alive, retiring, busy, screen>>
          /\ alive[work[i].of]
      BY <1>7, <2>3 DEF Apply, Mine
    <3>2. \A a \in Accounts : presence'[a] # 0 => alive[a]
      BY <2>2, <3>1 DEF TypeOK
    <3> QED
      BY <1>0, <2>1, <2>2, <3>1, <3>2, MovesType DEF TypeOK
  <2>4. CASE ~Mine(work[i])
    BY <1>7, <2>1, <2>4, MovesType DEF Apply, TypeOK
  <2> QED
    BY <2>3, <2>4
<1>8. ASSUME NEW i \in DOMAIN work, Finish(i) PROVE TypeOK'
  <2>1. Moves(i) /\ work[i] \in Works
    BY <1>8, FinishMoves, WorkDomain
  <2>2. retiring' \in [Accounts -> SUBSET (0..MaxSessions)]
    BY <1>8 DEF Finish, TypeOK
  <2> QED
    BY <1>8, <2>1, <2>2, MovesType DEF Finish, TypeOK
<1>9. ASSUME NEW i \in DOMAIN work, ApplyEnd(i) PROVE TypeOK'
  BY <1>9, ApplyEndMoves, MovesType DEF ApplyEnd, TypeOK
<1>10. ASSUME NEW i \in DOMAIN work, ApplyChange(i) PROVE TypeOK'
  BY <1>10, ApplyChangeMoves, MovesType DEF ApplyChange, TypeOK
<1>11. ASSUME NEW i \in DOMAIN work, NEW b \in Accounts, Replay(i, b) PROVE TypeOK'
  <2>1. Moves(i) /\ work[i] \in Works
    BY <1>11, ReplayMoves, WorkDomain
  <2>2. Append(kept[work[i].of], <<b, presence[b]>>) \in Seq(Accounts \X (0..MaxWorks))
    <3>1. work[i].of \in Accounts
      BY <2>1 DEF Works
    <3>2. kept[work[i].of] \in Seq(Accounts \X (0..MaxWorks)) /\ presence[b] \in 0..MaxWorks
      BY <3>1 DEF TypeOK
    <3>3. <<b, presence[b]>> \in Accounts \X (0..MaxWorks)
      BY <3>2
    <3> QED
      BY <3>2, <3>3
  <2>3. kept' \in [Accounts -> Seq(Accounts \X (0..MaxWorks))]
    BY <1>11, <2>2 DEF Replay, TypeOK
  <2> QED
    BY <1>11, <2>1, <2>3, MovesType DEF Replay, TypeOK
<1>12. ASSUME NEW i \in DOMAIN work, NEW b \in Accounts, Cast(i, b) PROVE TypeOK'
  <2>1. Moves(i) /\ work[i] \in Works
    BY <1>12, CastMoves, WorkDomain
  <2>2. work[i].of \in Accounts /\ work[i].value \in 0..MaxWorks
    BY <2>1 DEF Works
  <2>3. mailbox' \in [Accounts -> Seq(Accounts \X (0..MaxWorks))]
    BY <1>12, <2>2, DeliverType DEF Cast
  <2> QED
    BY <1>12, <2>1, <2>3, MovesType DEF Cast, TypeOK
<1>13. ASSUME NEW x \in Accounts, NEW g \in Accounts, NEW s \in Accounts, Change(x, g, s)
       PROVE  TypeOK'
  <2>1. PICK w \in Works : Grown(w)
    BY <1>13, ChangeGrows
  <2>2. New <= MaxWorks /\ New \in 0..MaxWorks
    BY <1>13, WorkDomain DEF Change
  <2>3. grants' \subseteq Accounts \X Accounts
    <3>1. grants' = grants \ {<<g, s>>} \/ grants' = grants \cup {<<g, s>>}
      BY <1>13, Zenon DEF Change
    <3>2. grants \subseteq Accounts \X Accounts /\ <<g, s>> \in Accounts \X Accounts
      BY DEF TypeOK
    <3> HIDE <1>13
    <3> QED
      BY <3>1, <3>2, Zenon
  <2> QED
    <3>1. busy' \in [Accounts -> 0..MaxWorks]
      BY <1>13, <2>2 DEF Change, TypeOK
    <3>2. work' \in Seq(Works) /\ Len(work') <= MaxWorks
      BY <2>1, <2>2, GrownType
    <3> QED
      BY <1>13, <2>3, <3>1, <3>2 DEF Change, TypeOK
<1>14. ASSUME Rest PROVE TypeOK'
  BY <1>14 DEF Rest, vars, TypeOK
<1> QED
  BY <1>1, <1>2, <1>3, <1>4, <1>5, <1>6, <1>7, <1>8, <1>9, <1>10, <1>11, <1>12, <1>13,
     <1>14 DEF Next

-----------------------------------------------------------------------------
(* What leaves a pair of accounts alone.                                   *)

\* A client that is written nothing and owed the same is shown the same.
LEMMA ShownSame ==
  ASSUME NEW a, NEW b, screen'[a] = screen[a], kept'[a] = kept[a], mailbox'[a] = mailbox[a]
  PROVE  Shown(a, b)' = Shown(a, b)
  BY DEF Shown, Write

\* The running ends of b's sessions are the same, and tell a the same.
EndsSame(a, b) ==
  \A e \in DOMAIN work' :
    Running(e)' /\ work'[e].kind = "end" /\ work'[e].of = b =>
      /\ e \in DOMAIN work
      /\ Running(e) /\ work[e].kind = "end" /\ work[e].of = b
      /\ work'[e].token = work[e].token
      /\ a \in work[e].left => a \in work'[e].left

TellingSame(a, b) ==
  /\ Telling({"revoke"}, a, b)' <=> Telling({"revoke"}, a, b)
  /\ Telling({"set", "grant"}, a, b)' <=> Telling({"set", "grant"}, a, b)

\* A step that the pair does not see keeps it.
LEMMA PairFrame ==
  ASSUME NEW a, NEW b, PairOK(a, b),
         presence'[b] = presence[b], retiring'[b] = retiring[b],
         Shown(a, b)' = Shown(a, b),
         Served(b, a)' <=> Served(b, a),
         Missing(a, b)' <=> Missing(a, b),
         TellingSame(a, b), EndsSame(a, b)
  PROVE  PairOK(a, b)'
<1>1. Unread(a, b)'
  BY DEF PairOK, Unread
<1>2. Covered(a, b)'
  BY DEF PairOK, Covered, TellingSame
<1>3. Current(a, b)'
  BY DEF PairOK, Current, TellingSame
<1>4. Ending(a, b)'
  BY DEF PairOK, Ending, EndsSame
<1> QED
  BY <1>1, <1>2, <1>3, <1>4 DEF PairOK

\* The tasks are the same.
LEMMA SameTasks ==
  ASSUME TypeOK, TypeOK', work' = work, grants' = grants, NEW a, NEW b
  PROVE  /\ Steady
         /\ Served(b, a)' <=> Served(b, a)
         /\ TellingSame(a, b)
         /\ EndsSame(a, b)
         /\ mailbox'[a] = mailbox[a] => (Missing(a, b)' <=> Missing(a, b))
<1>1. Steady
  BY DEF Steady
<1>2. Served(b, a)' <=> Served(b, a)
  BY <1>1, ServedSteady DEF Queued
<1>3. TellingSame(a, b) /\ EndsSame(a, b)
  BY DEF TellingSame, Telling, EndsSame, Running
<1>4. mailbox'[a] = mailbox[a] => (Missing(a, b)' <=> Missing(a, b))
  BY DEF Missing, Running, Told
<1> QED
  BY <1>1, <1>2, <1>3, <1>4

\* A task has been added.
LEMMA GrownTasks ==
  ASSUME TypeOK, TypeOK', NEW w, Grown(w), NEW a \in Accounts, NEW b \in Accounts,
         mailbox'[a] = mailbox[a]
  PROVE  /\ Served(b, a)' <=> Served(b, a)
         /\ TellingSame(a, b)
         /\ EndsSame(a, b)
         /\ Missing(a, b)' <=> Missing(a, b)
<1> PICK n \in Nat : n = New
  BY WorkDomain
<1>1. /\ DOMAIN work' = 1..n /\ DOMAIN work = 1..Len(work)
      /\ n = Len(work) + 1 /\ Len(work) \in Nat
      /\ work'[n] = w /\ w.pc = "queued"
      /\ \A i \in DOMAIN work : work'[i] = work[i]
  BY GrownWork, WorkDomain DEF New, Grown
<1>2. /\ ~Running(n)'
      /\ \A i \in DOMAIN work : i \in DOMAIN work' /\ (Running(i)' <=> Running(i))
      /\ \A i \in DOMAIN work' : i = n \/ i \in DOMAIN work
  BY <1>1 DEF Running
<1>3. TellingSame(a, b) /\ EndsSame(a, b)
  BY <1>1, <1>2 DEF TellingSame, Telling, EndsSame
<1>4. Missing(a, b)' <=> Missing(a, b)
  BY <1>1, <1>2 DEF Missing, Told
<1> QED
  BY <1>3, <1>4, ServedGrown

\* A new task tells nobody anything yet.
LEMMA GrownPairs ==
  ASSUME Inv, TypeOK', NEW w, Grown(w),
         UNCHANGED <<presence, retiring, mailbox, kept, screen>>
  PROVE  Pairs'
<1>1. ASSUME NEW a \in Accounts, NEW b \in Accounts, a # b, presence'[a] # 0
      PROVE  PairOK(a, b)'
  <2>1. PairOK(a, b)
    BY <1>1 DEF Inv, Pairs
  <2>2. Shown(a, b)' = Shown(a, b)
    BY ShownSame
  <2>3. mailbox'[a] = mailbox[a] /\ presence'[b] = presence[b] /\ retiring'[b] = retiring[b]
    OBVIOUS
  <2> QED
    BY <2>1, <2>2, <2>3, PairFrame, GrownTasks DEF Inv
<1> QED
  BY <1>1 DEF Pairs

\* A task has moved that is not about the pair, or in a way that it does not see.
LEMMA MovesTelling ==
  ASSUME NEW i, Moves(i), NEW a, NEW b,
         \/ work[i].of # b
         \/ work[i].kind = "end"
         \/ Running(i) /\ a \in work[i].left <=> Running(i)' /\ a \in work'[i].left
  PROVE  TellingSame(a, b)
<1>1. \A k \in DOMAIN work : k # i => (Running(k)' <=> Running(k)) /\ work'[k] = work[k]
  BY DEF Moves, Running
<1>2. ASSUME NEW kinds, "end" \notin kinds
      PROVE  Telling(kinds, a, b)' <=> Telling(kinds, a, b)
  BY <1>1, <1>2 DEF Moves, Telling
<1> QED
  BY <1>2 DEF TellingSame

\* The same for the ends of sessions.
LEMMA MovesEnds ==
  ASSUME NEW i, Moves(i), NEW a, NEW b,
         \/ work[i].of # b
         \/ work[i].kind # "end"
         \/ Running(i) /\ (a \in work[i].left => a \in work'[i].left)
  PROVE  EndsSame(a, b)
<1>1. \A k \in DOMAIN work : k # i => (Running(k)' <=> Running(k)) /\ work'[k] = work[k]
  BY DEF Moves, Running
<1> QED
  BY <1>1 DEF Moves, EndsSame

\* The same for what a's own update has yet to read.
LEMMA MovesMissing ==
  ASSUME NEW i, Moves(i), NEW a, NEW b,
         \/ work[i].of # a
         \/ work[i].kind # "set"
         \/ Running(i) /\ b \in work[i].contacts <=> Running(i)' /\ b \in work'[i].contacts,
         Told(mailbox'[a], b) = {} <=> Told(mailbox[a], b) = {}
  PROVE  Missing(a, b)' <=> Missing(a, b)
<1>1. \A k \in DOMAIN work : k # i => (Running(k)' <=> Running(k)) /\ work'[k] = work[k]
  BY DEF Moves, Running
<1>2. Told(mailbox[a], b)' = Told(mailbox'[a], b)
  BY DEF Told
<1> QED
  BY <1>1, <1>2 DEF Moves, Missing

\* A task that is no change waiting for its turn leaves what is served.
LEMMA MovesServed ==
  ASSUME TypeOK, TypeOK', NEW i, Moves(i), NEW a, NEW b, IsChange(i, b, a) => ~Queued(i)
  PROVE  Served(b, a)' <=> Served(b, a)
<1>1. \A c \in DOMAIN work : IsChange(c, b, a) => (Queued(c)' <=> Queued(c))
  BY DEF Moves, Queued, IsChange
<1> QED
  BY <1>1, MovesSteady, ServedSteady

-----------------------------------------------------------------------------
(* The steps of the streams: Bind, Drain, End, Outcome.                    *)

\* The parts of the invariant that read the tasks and the grants alone.
LEMMA SameWork ==
  ASSUME Inv, work' = work, grants' = grants
  PROVE  RunsInTurn' /\ Shapes' /\ Changes'
<1>1. RunsInTurn' /\ Shapes'
  BY DEF Inv, RunsInTurn, Shapes, Turn, Lines, Admitted, Queued
<1>2. Steady
  BY DEF Steady
<1> QED
  BY <1>1, <1>2, SteadyChanges DEF Inv

\* The audiences also read which session a task is about.
LEMMA SameAudiences ==
  ASSUME Inv, work' = work, grants' = grants,
         \A k \in DOMAIN work : Mine(work[k])' =>
            Mine(work[k]) /\ presence'[work[k].of] = presence[work[k].of]
  PROVE  Audiences'
<1>1. \A k, b, a : GrantedAt(k, b, a)' <=> GrantedAt(k, b, a)
  BY SteadyGranted DEF Steady
<1> QED
  BY <1>1 DEF Inv, Audiences, Queued

\* The types of a task's fields.
LEMMA TaskTypes ==
  ASSUME TypeOK, NEW i \in DOMAIN work
  PROVE  work[i].of \in Accounts /\ work[i].to \in Accounts
         /\ work[i].token \in Nat /\ token[work[i].of] \in Nat
         /\ work[i].value \in 0..MaxWorks
<1>1. work[i] \in Works
  BY WorkDomain
<1>2. work[i].of \in Accounts /\ work[i].to \in Accounts /\ work[i].token \in 0..MaxSessions
      /\ work[i].value \in 0..MaxWorks
  BY <1>1 DEF Works
<1>3. token[work[i].of] \in 0..MaxSessions
  BY <1>2 DEF TypeOK
<1> QED
  BY <1>2, <1>3, BoundAssumption

\* A new session is not available yet, and no task is about it.
LEMMA BindKeeps ==
  ASSUME Inv, TypeOK', NEW a \in Accounts, Bind(a)
  PROVE  Inv'
<1>1. /\ ~alive[a]
      /\ token' = [token EXCEPT ![a] = token[a] + 1]
      /\ alive' = [alive EXCEPT ![a] = TRUE]
      /\ UNCHANGED <<grants, work, presence, retiring, mailbox, busy, kept, screen>>
      /\ token \in [Accounts -> 0..MaxSessions] /\ alive \in [Accounts -> BOOLEAN]
      /\ token[a] \in Nat
  BY BoundAssumption DEF Bind, Inv, TypeOK
<1>2. RunsInTurn' /\ Shapes' /\ Changes'
  BY <1>1, SameWork
<1>3. busy[a] = 0
  BY <1>1 DEF Inv, Streams, Awaited
<1>4. ASSUME NEW i \in DOMAIN work, work[i].kind = "set", Mine(work[i])'
      PROVE  work[i].of # a /\ Mine(work[i])
  <2>1. work[i].token <= token[work[i].of]
    BY <1>4 DEF Inv, Streams, Owners
  <2>2. work[i].token = token'[work[i].of]
    BY <1>1, <1>4 DEF Mine
  <2>3. work[i].of # a
    BY <1>1, <2>1, <2>2, TaskTypes DEF Inv
  <2> QED
    BY <1>1, <1>4, <2>3, TaskTypes DEF Inv, Mine
<1>5. Audiences'
  <2>1. \A k, y, x : GrantedAt(k, y, x)' <=> GrantedAt(k, y, x)
    BY <1>1, SteadyGranted DEF Steady
  <2> QED
    BY <1>1, <1>4, <2>1 DEF Inv, Audiences, Queued
<1>6. Streams'
  <2>1. Awaited'
    BY <1>1, <1>3 DEF Inv, Streams, Awaited, Queued
  <2>2. ASSUME NEW i \in DOMAIN work
        PROVE  /\ work[i].kind = "set" /\ Undone(i) /\ Mine(work[i])' => busy[work[i].of] = i
               /\ work[i].kind = "set" /\ Running(i) /\ presence[work[i].of] # 0 =>
                    work[i].token = token'[work[i].of]
               /\ work[i].kind \in {"set", "end"} => work[i].token <= token'[work[i].of]
               /\ work[i].kind = "end" /\ alive'[work[i].of] => work[i].token < token'[work[i].of]
    <3>1. presence[work[i].of] # 0 => work[i].of # a
      BY <1>1, TaskTypes DEF Inv, TypeOK
    <3>2. work[i].of \in Accounts /\ work[i].token \in Nat /\ token[work[i].of] \in Nat
      BY TaskTypes DEF Inv
    <3>3. token'[work[i].of] = IF work[i].of = a THEN token[work[i].of] + 1 ELSE token[work[i].of]
      BY <1>1, <3>2
    <3>4. alive'[work[i].of] = IF work[i].of = a THEN TRUE ELSE alive[work[i].of]
      BY <1>1, <3>2
    <3> QED
      BY <1>4, <3>1, <3>2, <3>3, <3>4 DEF Inv, Streams, Owners
  <2>3. ASSUME NEW x \in Accounts, NEW t \in retiring[x]
        PROVE  t <= token'[x] /\ (alive'[x] => t < token'[x])
    <3>1. t <= token[x] /\ (alive[x] => t < token[x])
      BY DEF Inv, Streams, Retired
    <3>2. t \in Nat /\ token[x] \in Nat
      BY BoundAssumption DEF Inv, TypeOK
    <3> QED
      BY <1>1, <3>1, <3>2
  <2>4. \A i \in DOMAIN work : (Undone(i)' <=> Undone(i)) /\ (Running(i)' <=> Running(i))
    BY <1>1 DEF Undone, Running
  <2> QED
    BY <1>1, <2>1, <2>2, <2>3, <2>4 DEF Streams, Owners, Retired
<1>7. Blank' /\ Values'
  BY <1>1 DEF Inv, Blank, Leaving, Values, Running, Queued
<1>8. Pairs'
  <2>1. ASSUME NEW x \in Accounts, NEW y \in Accounts, x # y, presence'[x] # 0
        PROVE  PairOK(x, y)'
    <3>1. PairOK(x, y)
      BY <1>1, <2>1 DEF Inv, Pairs
    <3>2. Shown(x, y)' = Shown(x, y)
      BY <1>1, ShownSame
    <3>3. mailbox'[x] = mailbox[x] /\ presence'[y] = presence[y] /\ retiring'[y] = retiring[y]
      BY <1>1
    <3> QED
      BY <1>1, <3>1, <3>2, <3>3, PairFrame, SameTasks DEF Inv
  <2> QED
    BY <2>1 DEF Pairs
<1> QED
  BY <1>2, <1>5, <1>6, <1>7, <1>8 DEF Inv

\* What a client is shown, in three parts: told, kept, in the mailbox.
LEMMA ShownIs ==
  ASSUME TypeOK, NEW a \in Accounts
  PROVE  /\ screen[a] \in Screens /\ kept[a] \in Entries /\ mailbox[a] \in Entries
         /\ Write(screen[a], kept[a]) \in Screens
         /\ \A b : Shown(a, b) = Write(Write(screen[a], kept[a]), mailbox[a])[b]
<1>1. screen[a] \in Screens /\ kept[a] \in Entries /\ mailbox[a] \in Entries
  BY DEF TypeOK, Screens, Entries
<1> QED
  BY <1>1, WriteType, WriteConcat DEF Shown

\* Shown in the next state.
LEMMA ShownNext ==
  ASSUME TypeOK', NEW a \in Accounts, NEW b
  PROVE  /\ screen'[a] \in Screens /\ kept'[a] \in Entries /\ mailbox'[a] \in Entries
         /\ Shown(a, b)' = Write(Write(screen'[a], kept'[a]), mailbox'[a])[b]
<1>1. screen'[a] \in Screens /\ kept'[a] \in Entries /\ mailbox'[a] \in Entries
  BY DEF TypeOK, Screens, Entries
<1>2. Shown(a, b)' = Write(screen'[a], kept'[a] \o mailbox'[a])[b]
  BY DEF Shown, Write, Told
<1> QED
  BY <1>1, <1>2, WriteConcat

\* Writing the mailbox changes nothing of what is shown.
LEMMA DrainKeeps ==
  ASSUME Inv, TypeOK', NEW a \in Accounts, Drain(a)
  PROVE  Inv'
<1>1. /\ alive[a]
      /\ busy[a] # 0 => Queued(busy[a])
      /\ screen' = [screen EXCEPT ![a] = Write(screen[a], mailbox[a])]
      /\ mailbox' = [mailbox EXCEPT ![a] = <<>>]
      /\ UNCHANGED <<grants, work, token, alive, presence, retiring, busy, kept>>
      /\ TypeOK
  BY DEF Drain, Inv, Queued
<1>2. RunsInTurn' /\ Shapes' /\ Changes'
  BY <1>1, SameWork
<1>3. Audiences'
  BY <1>1, SameAudiences DEF Mine
<1>4. Streams' /\ Values'
  BY <1>1 DEF Inv, Streams, Awaited, Owners, Retired, Values, Running, Undone, Queued, Mine
<1>5. /\ kept[a] = <<>> /\ kept'[a] = <<>>
      /\ screen'[a] = Write(screen[a], mailbox[a]) /\ mailbox'[a] = <<>>
  BY <1>1 DEF Inv, Blank, TypeOK
<1>6. Blank'
  <2>1. \A x \in Accounts : Leaving(x)' <=> Leaving(x)
    BY <1>1 DEF Leaving, Queued
  <2>2. presence[a] = 0 => mailbox[a] = <<>>
    BY DEF Inv, Blank
  <2>3. Write(screen[a], <<>>) = screen[a]
    BY <1>1, ShownIs, WriteNothing
  <2>4. presence[a] = 0 => screen'[a] = screen[a]
    BY <1>5, <2>2, <2>3
  <2>5. \A x \in Accounts : x # a => screen'[x] = screen[x] /\ mailbox'[x] = mailbox[x]
    BY <1>1 DEF TypeOK
  <2> QED
    BY <1>1, <1>5, <2>1, <2>4, <2>5 DEF Inv, Blank, Queued
<1>7. Pairs'
  <2>1. ASSUME NEW x \in Accounts, NEW y \in Accounts, x # y, presence'[x] # 0
        PROVE  PairOK(x, y)'
    <3>1. PairOK(x, y)
      BY <1>1, <2>1 DEF Inv, Pairs
    <3>2. Shown(x, y)' = Shown(x, y)
      <4>1. CASE x = a
        <5>1. /\ Shown(a, y) = Write(Write(screen[a], <<>>), mailbox[a])[y]
              /\ screen[a] \in Screens /\ mailbox[a] \in Entries
          BY <1>1, <1>5, ShownIs
        <5>2. Shown(a, y) = Write(screen[a], mailbox[a])[y]
          BY <5>1, WriteNothing
        <5>3. /\ Shown(a, y)' = Write(Write(screen'[a], <<>>), <<>>)[y]
              /\ screen'[a] \in Screens
          BY <1>5, ShownNext
        <5>4. Shown(a, y)' = screen'[a][y]
          BY <5>3, WriteNothing
        <5> QED
          BY <1>5, <4>1, <5>2, <5>4
      <4>2. CASE x # a
        <5>1. screen'[x] = screen[x] /\ mailbox'[x] = mailbox[x] /\ kept'[x] = kept[x]
          BY <1>1, <4>2 DEF TypeOK
        <5> QED
          BY <5>1, ShownSame
      <4> QED
        BY <4>1, <4>2
    <3>3. Missing(x, y)' <=> Missing(x, y)
      <4>1. CASE x = a
        <5>1. ASSUME NEW i \in DOMAIN work, Running(i), work[i].kind = "set", work[i].of = a
              PROVE  FALSE
          <6>1. work[i].token = token[a] /\ alive[a]
            BY <1>1, <2>1, <4>1, <5>1 DEF Inv, Streams, Owners
          <6>2. busy[a] = i /\ i # 0
            BY <1>1, <5>1, <6>1, WorkDomain DEF Inv, Streams, Owners, Mine, Undone, Running
          <6> QED
            BY <1>1, <5>1, <6>2 DEF Queued, Running
        <5> QED
          BY <1>1, <4>1, <5>1 DEF Missing, Running
      <4>2. CASE x # a
        <5>1. mailbox'[x] = mailbox[x]
          BY <1>1, <4>2 DEF TypeOK
        <5> QED
          BY <1>1, <5>1, SameTasks
      <4> QED
        BY <4>1, <4>2
    <3> QED
      BY <1>1, <3>1, <3>2, <3>3, PairFrame, SameTasks DEF Inv
  <2> QED
    BY <2>1 DEF Pairs
<1> QED
  BY <1>2, <1>3, <1>4, <1>6, <1>7 DEF Inv

\* A session that ends is retired at once, which accounts for what the others
\* are still shown of it.
LEMMA EndKeeps ==
  ASSUME Inv, TypeOK', NEW a \in Accounts, End(a)
  PROVE  Inv'
<1>1. /\ alive[a]
      /\ alive' = [alive EXCEPT ![a] = FALSE]
      /\ presence' = [presence EXCEPT ![a] = 0]
      /\ mailbox' = [mailbox EXCEPT ![a] = <<>>]
      /\ busy' = [busy EXCEPT ![a] = 0]
      /\ kept' = [kept EXCEPT ![a] = <<>>]
      /\ screen' = [screen EXCEPT ![a] = [b \in Accounts |-> 0]]
      /\ retiring' = IF presence[a] # 0 THEN [retiring EXCEPT ![a] = @ \cup {token[a]}]
                     ELSE retiring
      /\ UNCHANGED <<grants, work, token>>
      /\ TypeOK
  BY DEF End, Inv
<1>2. /\ ~alive'[a] /\ presence'[a] = 0 /\ mailbox'[a] = <<>> /\ busy'[a] = 0
      /\ kept'[a] = <<>> /\ screen'[a] = [b \in Accounts |-> 0]
      /\ retiring'[a] = IF presence[a] # 0 THEN retiring[a] \cup {token[a]} ELSE retiring[a]
      /\ \A x \in Accounts : x # a =>
           /\ alive'[x] = alive[x] /\ presence'[x] = presence[x] /\ mailbox'[x] = mailbox[x]
           /\ busy'[x] = busy[x] /\ kept'[x] = kept[x] /\ screen'[x] = screen[x]
           /\ retiring'[x] = retiring[x]
  BY <1>1 DEF TypeOK
<1>3. RunsInTurn' /\ Shapes' /\ Changes'
  BY <1>1, SameWork
<1>4. \A i \in DOMAIN work : work[i].of \in Accounts
  BY <1>1, TaskTypes
<1>5. \A i \in DOMAIN work : Mine(work[i])' => work[i].of # a /\ Mine(work[i])
  BY <1>1, <1>2, <1>4 DEF Mine
<1>6. Audiences'
  BY <1>1, <1>2, <1>4, <1>5, SameAudiences
<1>7. Awaited'
  BY <1>1, <1>2 DEF Inv, Streams, Awaited, Queued
<1>8. Owners'
  BY <1>1, <1>2, <1>4, <1>5 DEF Inv, Streams, Owners, Undone, Running
<1>9. Retired'
  <2>1. token[a] <= token[a]
    BY <1>1, BoundAssumption DEF TypeOK
  <2> QED
    BY <1>1, <1>2, <2>1 DEF Inv, Streams, Retired
<1>10. Blank'
  <2>1. \A x \in Accounts : x # a => (Leaving(x)' <=> Leaving(x))
    BY <1>1, <1>2 DEF Leaving, Queued
  <2> QED
    BY <1>1, <1>2, <2>1 DEF Inv, Blank, Queued
<1>11. Values'
  <2>1. ASSUME NEW k \in DOMAIN work, Running(k)
        PROVE  /\ work[k].kind \in {"set", "grant"} =>
                    \/ presence'[work[k].of] = work[k].value
                    \/ presence'[work[k].of] = 0 /\ retiring'[work[k].of] # {}
               /\ work[k].kind = "end" /\ work[k].left # {} => presence'[work[k].of] = 0
    <3>1. /\ work[k].kind \in {"set", "grant"} =>
                    \/ presence[work[k].of] = work[k].value
                    \/ presence[work[k].of] = 0 /\ retiring[work[k].of] # {}
          /\ work[k].kind = "end" /\ work[k].left # {} => presence[work[k].of] = 0
      BY <2>1 DEF Inv, Values
    <3>2. CASE work[k].of = a
      BY <1>2, <3>1, <3>2
    <3>3. CASE work[k].of # a
      BY <1>2, <1>4, <3>1, <3>3
    <3> QED
      BY <3>2, <3>3
  <2>2. \A k \in DOMAIN work : Running(k)' <=> Running(k)
    BY <1>1 DEF Running
  <2> QED
    BY <1>1, <2>1, <2>2 DEF Values
<1>12. Pairs'
  <2>1. ASSUME NEW x \in Accounts, NEW y \in Accounts, x # y, presence'[x] # 0
        PROVE  PairOK(x, y)'
    <3>1. x # a /\ presence[x] # 0 /\ PairOK(x, y)
      BY <1>2, <2>1 DEF Inv, Pairs
    <3>2. Shown(x, y)' = Shown(x, y)
      BY <1>2, <3>1, ShownSame
    <3>3. /\ Served(y, x)' <=> Served(y, x)
          /\ Missing(x, y)' <=> Missing(x, y)
          /\ TellingSame(x, y) /\ EndsSame(x, y)
      BY <1>1, <1>2, <3>1, SameTasks
    <3>4. CASE y # a \/ presence[a] = 0
      <4>1. presence'[y] = presence[y] /\ retiring'[y] = retiring[y]
        BY <1>2, <3>4
      <4> QED
        BY <3>1, <3>2, <3>3, <4>1, PairFrame
    <3>5. CASE y = a /\ presence[a] # 0
      <4>1. Unread(x, y)' /\ Covered(x, y)'
        BY <3>1, <3>2, <3>3 DEF PairOK, Unread, Covered, TellingSame
      <4>2. presence'[y] = 0 /\ token[a] \in retiring'[y]
        BY <1>2, <3>5
      <4>3. Current(x, y)'
        BY <4>2 DEF Current
      <4>4. ASSUME NEW e \in DOMAIN work, work[e].kind = "end", work[e].of = y
            PROVE  token[a] # work[e].token
        <5>1. work[e].token < token[a]
          BY <1>1, <3>5, <4>4 DEF Inv, Streams, Owners
        <5> QED
          BY <5>1, <1>1, <3>5, <4>4, TaskTypes
      <4>5. Ending(x, y)'
        BY <1>1, <4>2, <4>4 DEF Ending
      <4> QED
        BY <4>1, <4>3, <4>5 DEF PairOK
    <3> QED
      BY <3>4, <3>5
  <2> QED
    BY <2>1 DEF Pairs
<1> QED
  BY <1>3, <1>6, <1>7, <1>8, <1>9, <1>10, <1>11, <1>12 DEF Inv, Streams

\* Writing what was kept changes nothing of what is shown.
LEMMA OutcomeKeeps ==
  ASSUME Inv, TypeOK', NEW a \in Accounts, Outcome(a)
  PROVE  Inv'
<1> DEFINE i == busy[a]
           gone == work[i].kind = "set" /\ work[i].value = 0
<1>1. /\ alive[a] /\ i # 0 /\ work[i].pc = "done"
      /\ screen' = [screen EXCEPT ![a] = IF gone THEN [b \in Accounts |-> 0]
                                         ELSE Write(screen[a], kept[a])]
      /\ kept' = [kept EXCEPT ![a] = <<>>]
      /\ busy' = [busy EXCEPT ![a] = 0]
      /\ UNCHANGED <<grants, work, token, alive, presence, retiring, mailbox>>
      /\ TypeOK
  BY DEF Outcome, Inv
<1>2. /\ kept'[a] = <<>> /\ busy'[a] = 0
      /\ screen'[a] = IF gone THEN [b \in Accounts |-> 0] ELSE Write(screen[a], kept[a])
      /\ \A x \in Accounts : x # a => /\ busy'[x] = busy[x] /\ kept'[x] = kept[x]
                                      /\ screen'[x] = screen[x]
  BY <1>1 DEF TypeOK
<1>3. RunsInTurn' /\ Shapes' /\ Changes'
  BY <1>1, SameWork
<1>4. Audiences'
  BY <1>1, SameAudiences DEF Mine
<1>5. Values'
  BY <1>1 DEF Inv, Values, Running
<1>6. Streams'
  <2>1. Awaited'
    BY <1>1, <1>2 DEF Inv, Streams, Awaited, Queued
  <2>2. \A k \in DOMAIN work : work[k].of \in Accounts
    BY <1>1, TaskTypes
  <2>3. Owners'
    BY <1>1, <1>2, <2>2 DEF Inv, Streams, Owners, Undone, Running, Mine
  <2>4. Retired'
    BY <1>1 DEF Inv, Streams, Retired
  <2> QED
    BY <2>1, <2>3, <2>4 DEF Streams
<1>7. i \in DOMAIN work /\ ~Queued(i)
  BY <1>1 DEF Inv, Streams, Awaited, Queued
<1>8. Blank'
  <2>1. ~Leaving(a)' /\ (Leaving(a) <=> gone)
    BY <1>1, <1>2, <1>7 DEF Leaving
  <2>2. \A x \in Accounts : x # a => (Leaving(x)' <=> Leaving(x))
    BY <1>1, <1>2 DEF Leaving, Queued
  <2>3. Write(screen[a], <<>>) = screen[a]
    BY <1>1, ShownIs, WriteNothing
  <2>4. presence[a] = 0 => screen'[a] = [b \in Accounts |-> 0]
    BY <1>2, <2>1, <2>3 DEF Inv, Blank
  <2> QED
    BY <1>1, <1>2, <2>2, <2>4 DEF Inv, Blank, Queued
<1>9. Pairs'
  <2>1. ASSUME NEW x \in Accounts, NEW y \in Accounts, x # y, presence'[x] # 0
        PROVE  PairOK(x, y)'
    <3>1. PairOK(x, y)
      BY <1>1, <2>1 DEF Inv, Pairs
    <3>2. Shown(x, y)' = Shown(x, y)
      <4>1. CASE x = a
        <5>1. ~gone
          BY <1>1, <1>7, <2>1, <4>1 DEF Inv, Streams, Awaited
        <5>2. Shown(a, y) = Write(Write(screen[a], kept[a]), mailbox[a])[y]
          BY <1>1, ShownIs
        <5>3. /\ Shown(a, y)' = Write(Write(screen'[a], <<>>), mailbox[a])[y]
              /\ screen'[a] \in Screens
          BY <1>1, <1>2, ShownNext
        <5>4. Write(screen'[a], <<>>) = screen'[a]
          BY <5>3, WriteNothing
        <5> QED
          BY <1>2, <4>1, <5>1, <5>2, <5>3, <5>4
      <4>2. CASE x # a
        BY <1>1, <1>2, <4>2, ShownSame
      <4> QED
        BY <4>1, <4>2
    <3>3. mailbox'[x] = mailbox[x] /\ presence'[y] = presence[y] /\ retiring'[y] = retiring[y]
      BY <1>1
    <3> QED
      BY <1>1, <3>1, <3>2, <3>3, PairFrame, SameTasks DEF Inv
  <2> QED
    BY <2>1 DEF Pairs
<1> QED
  BY <1>3, <1>4, <1>5, <1>6, <1>8, <1>9 DEF Inv

-----------------------------------------------------------------------------
(* The steps that draw a ticket: Announce, FixEnd, Change.                 *)

\* A new task has the shape of its kind.
LEMMA GrownShapes ==
  ASSUME Inv, NEW w, Grown(w), Shape(w)
  PROVE  Shapes'
<1> PICK n \in Nat : n = New
  BY WorkDomain DEF Inv
<1>1. /\ DOMAIN work' = 1..n
      /\ work'[n] = w
      /\ \A i \in DOMAIN work : work'[i] = work[i]
      /\ \A i \in 1..n : i = n \/ i \in DOMAIN work
  BY GrownWork, WorkDomain DEF New, Inv
<1>2. \A i \in DOMAIN work' : Shape(work'[i])
  BY <1>1 DEF Inv, Shapes
<1> QED
  BY <1>2 DEF Shapes, Shape

\* A new task has read the roster with its ticket.
Reads(w) ==
  /\ w.kind \in {"set", "end"} => w.left = Subscribers(w.of)
  /\ w.contacts \subseteq Contacts(w.of)
  /\ w.kind = "set" => /\ w.contacts # {} => presence[w.of] = 0
                       /\ w.value # 0 /\ presence[w.of] = 0 => w.contacts = Contacts(w.of)

\* The audience of a new task is read with its ticket.
LEMMA GrownAudiences ==
  ASSUME Inv, NEW w, Grown(w), Reads(w), UNCHANGED <<token, alive, presence>>
  PROVE  Audiences'
<1> PICK n \in Nat : n = New
  BY WorkDomain DEF Inv
<1>1. /\ DOMAIN work' = 1..n
      /\ work'[n] = w /\ w \in Works
      /\ \A i \in DOMAIN work : work'[i] = work[i] /\ i \in 1..n
      /\ \A i \in 1..n : i = n \/ i \in DOMAIN work
      /\ \A i \in DOMAIN work : work[i] \in Works
      /\ n \in 1..n
  BY GrownWork, WorkDomain DEF New, Inv, Grown
<1>2. \A k \in 1..n : \A b, a \in Accounts : GrantedAt(k, b, a)' <=> GrantedAt(k, b, a)
  BY GrownGranted DEF Inv
<1>3. \A b, a : GrantedAt(n, b, a) <=> <<b, a>> \in grants
  BY GrantedNow DEF Inv
<1> DEFINE Aud(k) ==
      LET v == work[k] IN
        /\ v.kind \in {"set", "end"} =>
             \A a \in Accounts \ {v.of} :
                /\ a \in v.left => GrantedAt(k, v.of, a)
                /\ Queued(k) /\ GrantedAt(k, v.of, a) => a \in v.left
        /\ \A b \in v.contacts : GrantedAt(k, b, v.of)
        /\ v.kind = "set" /\ Queued(k) /\ Mine(v) =>
             /\ v.contacts # {} => presence[v.of] = 0
             /\ v.value # 0 /\ presence[v.of] = 0 =>
                  \A b \in Accounts \ {v.of} : GrantedAt(k, b, v.of) => b \in v.contacts
<1>4. ASSUME NEW k \in DOMAIN work PROVE Aud(k)'
  <2>1. Aud(k)
    BY DEF Inv, Audiences
  <2>2. work'[k] = work[k] /\ k \in 1..n /\ work[k].of \in Accounts /\ work[k].contacts \subseteq Accounts
    BY <1>1 DEF Works
  <2>3. /\ \A a \in Accounts : GrantedAt(k, work[k].of, a)' <=> GrantedAt(k, work[k].of, a)
        /\ \A b \in Accounts : GrantedAt(k, b, work[k].of)' <=> GrantedAt(k, b, work[k].of)
    <3> PICK v \in Accounts : v = work[k].of
      BY <2>2
    <3>1. /\ \A a \in Accounts : GrantedAt(k, v, a)' <=> GrantedAt(k, v, a)
          /\ \A b \in Accounts : GrantedAt(k, b, v)' <=> GrantedAt(k, b, v)
      BY <1>2, <2>2
    <3> QED
      BY <2>2, <3>1
  <2>4. (Queued(k)' <=> Queued(k)) /\ (Mine(work[k])' <=> Mine(work[k]))
    BY <2>2 DEF Queued, Mine
  <2> QED
    BY <2>1, <2>2, <2>3, <2>4
<1>5. Aud(n)'
  <2> PICK o \in Accounts : o = w.of
    BY <1>1 DEF Works
  <2>1. \A b, a \in Accounts : GrantedAt(n, b, a)' <=> <<b, a>> \in grants
    BY <1>1, <1>2, <1>3
  <2>2. /\ \A a \in Accounts \ {o} : a \in Subscribers(o) <=> GrantedAt(n, o, a)'
        /\ \A b \in Accounts \ {o} : b \in Contacts(o) <=> GrantedAt(n, b, o)'
        /\ Contacts(o) \subseteq Accounts \ {o}
    BY <2>1 DEF Subscribers, Contacts
  <2> QED
    BY <1>1, <2>2 DEF Reads
<1> QED
  BY <1>1, <1>4, <1>5 DEF Audiences

\* The stream that starts a task waits for it; the end has no stream.
Starts(w) ==
  \/ /\ w.kind = "end"
     /\ w.token <= token[w.of] /\ (alive[w.of] => w.token < token[w.of])
     /\ busy' = busy
  \/ \E x \in Accounts :
       /\ alive[x] /\ busy[x] = 0
       /\ w.kind # "end"
       /\ w.kind = "set" => w.of = x /\ w.token = token[x]
       /\ busy' = [busy EXCEPT ![x] = New]

\* A new task is waited for by its stream, or is an end.
LEMMA GrownStreams ==
  ASSUME Inv, NEW w, Grown(w), Starts(w),
         UNCHANGED <<token, alive, presence, retiring, mailbox, kept, screen>>
  PROVE  Streams' /\ Blank' /\ Values'
<1> PICK n \in Nat : n = New
  BY WorkDomain DEF Inv
<1>1. /\ DOMAIN work' = 1..n
      /\ work'[n] = w /\ w \in Works /\ w.pc = "queued" /\ w.of \in Accounts
      /\ \A i \in DOMAIN work : work'[i] = work[i] /\ i \in 1..n /\ i # n /\ i # 0
      /\ \A i \in 1..n : i = n \/ i \in DOMAIN work
      /\ \A i \in DOMAIN work : work[i].of \in Accounts
      /\ n \in 1..n /\ n # 0
      /\ TypeOK
  <2>1. w \in Works /\ w.pc = "queued" /\ TypeOK
    BY DEF Grown, Inv
  <2>2. w.of \in Accounts
    BY <2>1 DEF Works
  <2> QED
    BY <2>1, <2>2, GrownWork, WorkDomain, TaskTypes DEF New, Inv
<1>2. /\ \A i \in DOMAIN work : /\ Queued(i)' <=> Queued(i)
                                /\ Undone(i)' <=> Undone(i)
                                /\ Running(i)' <=> Running(i)
                                /\ Mine(work[i])' <=> Mine(work[i])
      /\ Queued(n)' /\ ~Running(n)'
  BY <1>1 DEF Queued, Undone, Running, Mine
<1>3. Values'
  BY <1>1, <1>2 DEF Inv, Values
<1>4. Retired'
  BY DEF Inv, Streams, Retired
<1>5. CASE w.kind = "end"
  <2>1. busy' = busy /\ w.token <= token[w.of] /\ (alive[w.of] => w.token < token[w.of])
    BY <1>5 DEF Starts
  <2>2. Awaited'
    BY <1>1, <1>2, <2>1 DEF Inv, Streams, Awaited
  <2>3. Owners'
    BY <1>1, <1>2, <1>5, <2>1 DEF Inv, Streams, Owners
  <2>4. \A x \in Accounts : Leaving(x)' <=> Leaving(x)
    BY <1>1, <1>2, <2>1 DEF Inv, Streams, Awaited, Leaving
  <2>5. Blank'
    BY <1>1, <1>2, <2>1, <2>4 DEF Inv, Streams, Awaited, Blank
  <2> QED
    BY <1>3, <1>4, <2>2, <2>3, <2>5 DEF Streams
<1>6. CASE w.kind # "end"
  <2>1. PICK x \in Accounts :
          /\ alive[x] /\ busy[x] = 0
          /\ w.kind = "set" => w.of = x /\ w.token = token[x]
          /\ busy' = [busy EXCEPT ![x] = n]
    BY <1>6 DEF Starts
  <2>2. busy'[x] = n /\ \A y \in Accounts : y # x => busy'[y] = busy[y]
    BY <1>1, <2>1 DEF TypeOK
  <2>3. \A y \in Accounts : busy[y] # 0 => busy[y] \in DOMAIN work
    BY DEF Inv, Streams, Awaited
  <2>4. Awaited'
    BY <1>1, <1>2, <1>6, <2>1, <2>2, <2>3 DEF Inv, Streams, Awaited
  <2>5. token[w.of] <= token[w.of]
    BY <1>1, BoundAssumption DEF TypeOK
  <2>6. Owners'
    BY <1>1, <1>2, <1>6, <2>1, <2>2, <2>5 DEF Inv, Streams, Owners
  <2>7. \A y \in Accounts : Leaving(y)' <=> Leaving(y)
    BY <1>1, <1>2, <2>1, <2>2, <2>3 DEF Leaving
  <2>8. Blank'
    BY <1>1, <1>2, <2>1, <2>2, <2>3, <2>7 DEF Inv, Blank
  <2> QED
    BY <1>3, <1>4, <2>4, <2>6, <2>8 DEF Streams
<1> QED
  BY <1>5, <1>6

\* What the three actions that draw a ticket have in common.
LEMMA GrownKeeps ==
  ASSUME Inv, TypeOK', NEW w, Grown(w), Shape(w), Reads(w), Starts(w),
         UNCHANGED <<token, alive, presence, retiring, mailbox, kept, screen>>
  PROVE  Inv'
<1>1. RunsInTurn' /\ Shapes' /\ Changes'
  BY GrownRuns, GrownShapes, GrownChanges DEF Inv
<1>2. Audiences' /\ Streams' /\ Blank' /\ Values'
  BY GrownAudiences, GrownStreams
<1>3. Pairs'
  BY GrownPairs
<1> QED
  BY <1>1, <1>2, <1>3 DEF Inv

\* An update is added.
LEMMA AnnounceKeeps ==
  ASSUME Inv, TypeOK', NEW a \in Accounts, NEW on \in BOOLEAN, Announce(a, on)
  PROVE  Inv'
<1>1. PICK w \in Works :
        /\ Grown(w)
        /\ w.kind = "set" /\ w.of = a /\ w.to = a /\ w.token = token[a]
        /\ w.value # 0 <=> on
        /\ w.left = Subscribers(a)
        /\ w.contacts = IF on /\ presence[a] = 0 THEN Contacts(a) ELSE {}
  BY AnnounceGrows DEF Inv
<1>2. w.pc = "queued"
  BY <1>1 DEF Grown
<1>3. Shape(w)
  BY <1>1, <1>2 DEF Shape, Subscribers, Contacts
<1>4. Reads(w)
  BY <1>1 DEF Reads
<1>5. Starts(w)
  BY <1>1 DEF Starts, Announce
<1>6. UNCHANGED <<token, alive, presence, retiring, mailbox, kept, screen>>
  BY DEF Announce
<1> QED
  BY <1>1, <1>3, <1>4, <1>5, <1>6, GrownKeeps

\* The end of a session is added.
LEMMA FixEndKeeps ==
  ASSUME Inv, TypeOK', NEW a \in Accounts, NEW t \in retiring[a], FixEnd(a, t)
  PROVE  Inv'
<1>1. PICK w \in Works :
        /\ Grown(w)
        /\ w.kind = "end" /\ w.of = a /\ w.to = a /\ w.token = t /\ w.value = 0
        /\ w.left = Subscribers(a) /\ w.contacts = {}
  BY FixEndGrows DEF Inv
<1>2. w.pc = "queued"
  BY <1>1 DEF Grown
<1>3. Shape(w)
  BY <1>1, <1>2 DEF Shape, Subscribers
<1>4. Reads(w)
  BY <1>1 DEF Reads
<1>5. UNCHANGED <<token, alive, presence, retiring, mailbox, busy, kept, screen>>
  BY DEF FixEnd
<1>6. Starts(w)
  BY <1>1, <1>5 DEF Starts, Inv, Streams, Retired
<1> QED
  BY <1>1, <1>3, <1>4, <1>5, <1>6, GrownKeeps

\* A change is added: the grant it changes is served as before.
LEMMA ChangeKeeps ==
  ASSUME Inv, TypeOK', NEW x \in Accounts, NEW g \in Accounts, NEW s \in Accounts,
         Change(x, g, s)
  PROVE  Inv'
<1>1. PICK w \in Works :
        /\ Grown(w)
        /\ w.kind \in {"grant", "revoke"} /\ w.of = g /\ w.to = s /\ g # s
        /\ w.value = 0 /\ w.left = {s} /\ w.contacts = {}
  BY ChangeGrows DEF Inv
<1>2. w.pc = "queued"
  BY <1>1 DEF Grown
<1>3. Shape(w)
  BY <1>1, <1>2 DEF Shape
<1>4. Reads(w)
  BY <1>1 DEF Reads
<1>5. Starts(w)
  BY <1>1 DEF Starts, Change
<1>6. UNCHANGED <<token, alive, presence, retiring, mailbox, kept, screen>>
  BY DEF Change
<1> QED
  BY <1>1, <1>3, <1>4, <1>5, <1>6, GrownKeeps

-----------------------------------------------------------------------------
(* The steps of a task that has its turn.                                  *)

\* A task that moves has no more to tell than before.
LEMMA MovesAudiences ==
  ASSUME Inv, NEW i, Moves(i), UNCHANGED <<token, alive>>,
         work'[i].left \subseteq work[i].left, work'[i].contacts \subseteq work[i].contacts,
         \A k \in DOMAIN work : k # i /\ work[k].kind = "set" /\ Queued(k) /\ Mine(work[k])
                                => presence'[work[k].of] = presence[work[k].of]
  PROVE  Audiences'
<1>1. \A k, b, a : GrantedAt(k, b, a)' <=> GrantedAt(k, b, a)
  BY MovesSteady, SteadyGranted
<1>2. /\ ~Queued(i)'
      /\ \A k \in DOMAIN work : k # i => /\ Queued(k)' <=> Queued(k)
                                         /\ Mine(work[k])' <=> Mine(work[k])
  BY DEF Moves, Queued, Mine
<1> QED
  BY <1>1, <1>2 DEF Moves, Inv, Audiences

\* A task moves in a way that leaves its stream and its session alone.
LEMMA MovesStreams ==
  ASSUME Inv, NEW i, Moves(i), UNCHANGED <<token, alive, presence, busy>>,
         work[i].kind = "set" => ~Queued(i) /\ work'[i].value = work[i].value,
         \A a \in Accounts : retiring'[a] \subseteq retiring[a]
  PROVE  /\ Streams'
         /\ \A a \in Accounts : Leaving(a)' <=> Leaving(a)
<1>1. /\ ~Queued(i)' /\ Undone(i) /\ DOMAIN work' = DOMAIN work
      /\ \A k \in DOMAIN work : k # i => /\ Queued(k)' <=> Queued(k)
                                         /\ Undone(k)' <=> Undone(k)
                                         /\ Running(k)' <=> Running(k)
                                         /\ work'[k] = work[k]
      /\ \A k \in DOMAIN work : Mine(work[k])' <=> Mine(work[k])
      /\ work[i].kind = "set" => Running(i)
  <2>1. work[i].pc \in {"queued", "replay", "cast", "done"}
    BY WorkDomain DEF Moves, Inv, Works
  <2> QED
    BY <2>1 DEF Moves, Queued, Undone, Running, Mine
<1>2. Awaited'
  BY <1>1 DEF Inv, Streams, Awaited, Moves
<1>3. Owners'
  BY <1>1 DEF Inv, Streams, Owners, Moves
<1>4. Retired'
  BY DEF Inv, Streams, Retired
<1>5. \A a \in Accounts : Leaving(a)' <=> Leaving(a)
  BY <1>1 DEF Inv, Streams, Awaited, Leaving, Moves
<1> QED
  BY <1>2, <1>3, <1>4, <1>5 DEF Streams

\* Nobody else runs in the lines of a task that has its turn.
LEMMA Others ==
  ASSUME Inv, NEW i \in DOMAIN work, Undone(i), Turn(i)
  PROVE  \A k \in DOMAIN work : Running(k) /\ k # i =>
           work[k].of \notin Lines(i) /\ work[k].to \notin Lines(i)
<1>1. \A k \in DOMAIN work : Running(k) => Undone(k) /\ Turn(k)
  BY DEF Inv, RunsInTurn, Running, Undone, Queued
<1> QED
  BY <1>1, Alone DEF Inv, Lines

\* One task keeps the shape of its kind.
LEMMA MovesShapes ==
  ASSUME Inv, NEW i, Moves(i), Shape(work'[i])
  PROVE  Shapes'
<1>1. \A k \in DOMAIN work' : Shape(work'[k])
  BY DEF Moves, Inv, Shapes
<1> QED
  BY <1>1 DEF Shapes, Shape

\* A finished task has told everyone, so it accounts for nobody.
LEMMA FinishKeeps ==
  ASSUME Inv, TypeOK', NEW i \in DOMAIN work, Finish(i)
  PROVE  Inv'
<1> DEFINE b == work[i].of
<1>1. /\ Moves(i)
      /\ Running(i) /\ work[i].contacts = {} /\ work[i].left = {}
      /\ work'[i].pc = "done" /\ work'[i].value = work[i].value
      /\ work'[i].left = {} /\ work'[i].contacts = {}
  BY FinishMoves DEF Inv
<1>2. /\ retiring' = IF work[i].kind = "end"
                     THEN [retiring EXCEPT ![b] = retiring[b] \ {work[i].token}]
                     ELSE retiring
      /\ UNCHANGED <<grants, token, alive, presence, mailbox, busy, kept, screen>>
      /\ TypeOK /\ b \in Accounts
  BY TaskTypes DEF Finish, Inv
<1>3. /\ \A x \in Accounts : retiring'[x] = IF x = b /\ work[i].kind = "end"
                                            THEN retiring[x] \ {work[i].token} ELSE retiring[x]
      /\ \A x \in Accounts : retiring'[x] \subseteq retiring[x]
  BY <1>2 DEF TypeOK
<1>4. Undone(i) /\ Turn(i) /\ b \in Lines(i) /\ ~Queued(i) /\ ~Running(i)'
  BY <1>1 DEF Moves, Lines, Queued, Running
<1>5. \A k \in DOMAIN work : Running(k) /\ k # i => work[k].of # b
  BY <1>4, Others
<1>6. RunsInTurn' /\ Changes'
  BY <1>1, MovesRuns, MovesSteady, SteadyChanges DEF Inv
<1>7. Shapes'
  <2>1. Shape(work'[i])
    BY <1>1 DEF Moves, Inv, Shapes, Shape
  <2> QED
    BY <1>1, <2>1, MovesShapes
<1>8. Audiences'
  BY <1>1, <1>2, MovesAudiences
<1>9. Streams' /\ \A x \in Accounts : Leaving(x)' <=> Leaving(x)
  BY <1>1, <1>2, <1>3, <1>4, MovesStreams
<1>10. Blank'
  <2>1. \A x \in Accounts : busy[x] # 0 => busy[x] \in DOMAIN work
    BY DEF Inv, Streams, Awaited
  <2>2. \A k \in DOMAIN work : ~Queued(k) => ~Queued(k)'
    BY <1>1 DEF Moves, Queued
  <2> QED
    BY <1>2, <1>9, <2>1, <2>2 DEF Inv, Blank
<1>11. Values'
  <2>1. \A k \in DOMAIN work : k # i => work'[k] = work[k] /\ (Running(k)' <=> Running(k))
    BY <1>1 DEF Moves, Running
  <2>2. \A k \in DOMAIN work : Running(k) /\ k # i =>
          work[k].of \in Accounts /\ retiring'[work[k].of] = retiring[work[k].of]
    BY <1>2, <1>3, <1>5, TaskTypes
  <2>3. DOMAIN work' = DOMAIN work
    BY <1>1 DEF Moves
  <2> QED
    BY <1>2, <1>4, <2>1, <2>2, <2>3 DEF Inv, Values
<1>12. Pairs'
  <2>1. ASSUME NEW x \in Accounts, NEW y \in Accounts, x # y, presence'[x] # 0
        PROVE  PairOK(x, y)'
    <3>1. PairOK(x, y)
      BY <1>2, <2>1 DEF Inv, Pairs
    <3>2. Shown(x, y)' = Shown(x, y)
      BY <1>2, ShownSame
    <3>3. TellingSame(x, y)
      BY <1>1, MovesTelling
    <3>4. Missing(x, y)' <=> Missing(x, y)
      BY <1>1, <1>2, MovesMissing
    <3>5. Served(y, x)' <=> Served(y, x)
      BY <1>1, <1>2, <1>4, MovesServed
    <3>6. CASE y # b \/ work[i].kind # "end"
      <4>1. EndsSame(x, y)
        BY <1>1, <3>6, MovesEnds
      <4>2. retiring'[y] = retiring[y] /\ presence'[y] = presence[y]
        BY <1>2, <1>3, <3>6
      <4> QED
        BY <3>1, <3>2, <3>3, <3>4, <3>5, <4>1, <4>2, PairFrame
    <3>7. CASE y = b /\ work[i].kind = "end"
      <4>1. Unread(x, y)' /\ Covered(x, y)'
        BY <3>1, <3>2, <3>3, <3>4, <3>5 DEF PairOK, Unread, Covered, TellingSame
      <4>2. Served(y, x) =>
              \/ Shown(x, y) = presence[y]
              \/ presence[y] = 0 /\ retiring[y] \ {work[i].token} # {}
              \/ Missing(x, y)
        BY <1>1, <3>1, <3>7 DEF PairOK, Ending
      <4>3. Current(x, y)'
        BY <1>2, <1>3, <3>2, <3>4, <3>5, <3>7, <4>2 DEF Current
      <4>4. \A k \in DOMAIN work' : Running(k)' => work'[k].of # y
        BY <1>1, <1>4, <1>5, <3>7 DEF Moves, Running
      <4>5. Ending(x, y)'
        BY <4>4 DEF Ending
      <4> QED
        BY <4>1, <4>3, <4>5 DEF PairOK
    <3> QED
      BY <3>6, <3>7
  <2> QED
    BY <2>1 DEF Pairs
<1> QED
  BY <1>6, <1>7, <1>8, <1>9, <1>10, <1>11, <1>12 DEF Inv

\* A task moves and no client is told anything.
LEMMA MovesBlank ==
  ASSUME Inv, NEW i, Moves(i), UNCHANGED <<presence, mailbox, busy, kept, screen>>,
         \A a \in Accounts : Leaving(a)' <=> Leaving(a)
  PROVE  Blank'
<1>1. \A x \in Accounts : busy[x] # 0 => busy[x] \in DOMAIN work
  BY DEF Inv, Streams, Awaited
<1>2. \A k \in DOMAIN work : ~Queued(k) => ~Queued(k)'
  BY DEF Moves, Queued
<1> QED
  BY <1>1, <1>2 DEF Inv, Blank

\* An end that has its turn tells everyone, or another session is available.
LEMMA ApplyEndKeeps ==
  ASSUME Inv, TypeOK', NEW i \in DOMAIN work, ApplyEnd(i)
  PROVE  Inv'
<1> DEFINE b == work[i].of
<1>1. /\ Moves(i)
      /\ work[i].kind = "end" /\ Queued(i)
      /\ work'[i].pc = "cast" /\ work'[i].value = work[i].value
      /\ work'[i].left = IF Reaches(b) THEN {} ELSE work[i].left
      /\ work'[i].contacts = work[i].contacts
  BY ApplyEndMoves DEF Inv
<1>2. /\ UNCHANGED <<grants, token, alive, presence, retiring, mailbox, busy, kept, screen>>
      /\ TypeOK /\ b \in Accounts
  BY TaskTypes DEF ApplyEnd, Inv
<1>3. Undone(i) /\ Turn(i) /\ b \in Lines(i) /\ Running(i)'
  BY <1>1 DEF Moves, Lines, Running
<1>4. \A k \in DOMAIN work : Running(k) /\ k # i => work[k].of # b
  BY <1>3, Others
<1>5. RunsInTurn' /\ Changes'
  BY <1>1, MovesRuns, MovesSteady, SteadyChanges DEF Inv
<1>6. Shapes'
  <2>1. Shape(work'[i])
    BY <1>1 DEF Moves, Inv, Shapes, Shape
  <2> QED
    BY <1>1, <2>1, MovesShapes
<1>7. Audiences'
  BY <1>1, <1>2, MovesAudiences
<1>8. Streams' /\ \A x \in Accounts : Leaving(x)' <=> Leaving(x)
  BY <1>1, <1>2, MovesStreams
<1>9. Blank'
  BY <1>1, <1>2, <1>8, MovesBlank
<1>10. Reaches(b) <=> presence[b] # 0
  BY <1>2 DEF Reaches, TypeOK
<1>11. Values'
  <2>1. \A k \in DOMAIN work : k # i => work'[k] = work[k] /\ (Running(k)' <=> Running(k))
    BY <1>1 DEF Moves, Running
  <2>2. DOMAIN work' = DOMAIN work /\ work'[i].kind = "end" /\ work'[i].of = b
    BY <1>1 DEF Moves
  <2>3. work'[i].left # {} => presence'[b] = 0
    BY <1>1, <1>2, <1>10
  <2> QED
    BY <1>2, <2>1, <2>2, <2>3 DEF Inv, Values
<1>12. Pairs'
  <2>1. ASSUME NEW x \in Accounts, NEW y \in Accounts, x # y, presence'[x] # 0
        PROVE  PairOK(x, y)'
    <3>1. PairOK(x, y)
      BY <1>2, <2>1 DEF Inv, Pairs
    <3>2. Shown(x, y)' = Shown(x, y)
      BY <1>2, ShownSame
    <3>3. TellingSame(x, y)
      BY <1>1, MovesTelling
    <3>4. Missing(x, y)' <=> Missing(x, y)
      BY <1>1, <1>2, MovesMissing
    <3>5. Served(y, x)' <=> Served(y, x)
      BY <1>1, <1>2, MovesServed DEF IsChange
    <3>6. CASE y # b
      <4>1. EndsSame(x, y)
        BY <1>1, <3>6, MovesEnds
      <4> QED
        BY <1>2, <3>1, <3>2, <3>3, <3>4, <3>5, <4>1, PairFrame
    <3>7. CASE y = b
      <4>1. Unread(x, y)' /\ Covered(x, y)' /\ Current(x, y)'
        BY <1>2, <3>1, <3>2, <3>3, <3>4, <3>5
           DEF PairOK, Unread, Covered, Current, TellingSame
      <4>2. Served(y, x) => GrantedAt(i, y, x)
        BY <1>1, <1>2, <1>3, <3>7, ServedAtTurn DEF Inv
      <4>3. Served(y, x) => x \in work[i].left
        BY <1>1, <2>1, <3>7, <4>2 DEF Inv, Audiences
      <4>4. ~Telling({"set", "grant"}, x, y)
        BY <1>1, <1>4, <3>7 DEF Telling
      <4>5. Served(y, x) => \/ Shown(x, y) = presence[y]
                            \/ x \in work'[i].left
                            \/ Missing(x, y)
        BY <1>1, <1>10, <3>1, <3>7, <4>3, <4>4 DEF PairOK, Current
      <4>6. \A k \in DOMAIN work' : Running(k)' /\ work'[k].of = y => k = i
        BY <1>1, <1>4, <3>7 DEF Moves, Running
      <4>7. Ending(x, y)'
        BY <1>2, <3>2, <3>4, <3>5, <4>5, <4>6 DEF Ending
      <4> QED
        BY <4>1, <4>7 DEF PairOK
    <3> QED
      BY <3>6, <3>7
  <2> QED
    BY <2>1 DEF Pairs
<1> QED
  BY <1>5, <1>6, <1>7, <1>8, <1>9, <1>11, <1>12 DEF Inv

\* What is delivered to a client is what it is shown last.
LEMMA CastShows ==
  ASSUME TypeOK, TypeOK', NEW b \in Accounts, NEW c \in Accounts, NEW v \in 0..MaxWorks,
         mailbox' = Deliver(b, <<c, v>>), UNCHANGED <<kept, screen>>, presence[b] # 0,
         NEW y \in Accounts
  PROVE  /\ Shown(b, y)' = IF y = c THEN v ELSE Shown(b, y)
         /\ Told(mailbox'[b], c) # {}
         /\ y # c => (Told(mailbox'[b], y) = {} <=> Told(mailbox[b], y) = {})
<1>1. mailbox'[b] = Append(mailbox[b], <<c, v>>)
  BY DEF Deliver, Reaches, TypeOK
<1>2. /\ Shown(b, y)' = Write(Write(screen[b], kept[b]), mailbox'[b])[y]
      /\ Shown(b, y) = Write(Write(screen[b], kept[b]), mailbox[b])[y]
      /\ Write(screen[b], kept[b]) \in Screens /\ mailbox[b] \in Entries
  BY ShownIs, ShownNext
<1>3. Shown(b, y)' = IF y = c THEN v ELSE Shown(b, y)
  BY <1>1, <1>2, WriteAppend
<1> DEFINE es == mailbox[b]
           fs == mailbox'[b]
<1>4. /\ Len(es) \in Nat
      /\ DOMAIN es = 1..Len(es)
      /\ DOMAIN fs = 1..(Len(es) + 1)
      /\ fs[Len(es) + 1] = <<c, v>>
      /\ \A k \in 1..Len(es) : fs[k] = es[k]
  <2> PICK e \in Accounts \X (0..MaxWorks) : e = <<c, v>>
    OBVIOUS
  <2>1. es \in Seq(Accounts \X (0..MaxWorks)) /\ fs = Append(es, e)
    BY <1>1, <1>2 DEF Entries
  <2> HIDE DEF es, fs
  <2>2. /\ Len(es) \in Nat
        /\ DOMAIN es = 1..Len(es)
        /\ DOMAIN fs = 1..(Len(es) + 1)
        /\ fs[Len(es) + 1] = e
        /\ \A k \in 1..Len(es) : fs[k] = es[k]
    BY <2>1
  <2> QED
    BY <2>2
<1> HIDE DEF es, fs
<1>5. Len(es) + 1 \in Told(fs, c)
  BY <1>4 DEF Told
<1>6. ASSUME y # c
      PROVE  Told(fs, y) = {} <=> Told(es, y) = {}
  <2>1. fs[Len(es) + 1][1] # y
    BY <1>4, <1>6
  <2>2. \A k \in 1..(Len(es) + 1) : k = Len(es) + 1 \/ k \in 1..Len(es)
    BY <1>4
  <2>3. \A k \in 1..Len(es) : k \in 1..(Len(es) + 1)
    BY <1>4
  <2> QED
    BY <1>4, <2>1, <2>2, <2>3 DEF Told
<1> QED
  BY <1>3, <1>5, <1>6 DEF es, fs

\* One recipient is told.
LEMMA CastKeeps ==
  ASSUME Inv, TypeOK', NEW i \in DOMAIN work, NEW a \in Accounts, Cast(i, a)
  PROVE  Inv'
<1> DEFINE b == work[i].of
           v == work[i].value
<1>1. /\ Moves(i)
      /\ Running(i) /\ work[i].contacts = {} /\ a \in work[i].left
      /\ work'[i].pc = work[i].pc /\ work'[i].value = v
      /\ work'[i].left = work[i].left \ {a} /\ work'[i].contacts = work[i].contacts
  BY CastMoves DEF Inv
<1>2. /\ mailbox' = Deliver(a, <<b, v>>)
      /\ UNCHANGED <<grants, token, alive, presence, retiring, busy, kept, screen>>
      /\ TypeOK /\ b \in Accounts /\ v \in 0..MaxWorks
  BY TaskTypes DEF Cast, Inv
<1>3. /\ Undone(i) /\ Turn(i) /\ b \in Lines(i) /\ Running(i)' /\ ~Queued(i)
      /\ a # b
  <2>1. Shape(work[i])
    BY DEF Inv, Shapes
  <2> QED
    BY <1>1, <2>1 DEF Moves, Lines, Running, Queued, Shape
<1>4. \A k \in DOMAIN work : Running(k) /\ k # i => work[k].of # b
  BY <1>3, Others
<1>5. RunsInTurn' /\ Changes'
  BY <1>1, MovesRuns, MovesSteady, SteadyChanges DEF Inv
<1>6. Shapes'
  <2>1. Shape(work'[i])
    BY <1>1, <1>3 DEF Moves, Inv, Shapes, Shape, Queued
  <2> QED
    BY <1>1, <2>1, MovesShapes
<1>7. Audiences'
  BY <1>1, <1>2, MovesAudiences
<1>8. Streams' /\ \A x \in Accounts : Leaving(x)' <=> Leaving(x)
  BY <1>1, <1>2, <1>3, MovesStreams
<1>9. \A x \in Accounts : x # a \/ presence[x] = 0 => mailbox'[x] = mailbox[x]
  BY <1>2 DEF Deliver, Reaches, TypeOK
<1>10. Blank'
  <2>1. \A x \in Accounts : busy[x] # 0 => busy[x] \in DOMAIN work
    BY DEF Inv, Streams, Awaited
  <2>2. \A k \in DOMAIN work : ~Queued(k) => ~Queued(k)'
    BY <1>1 DEF Moves, Queued
  <2> QED
    BY <1>2, <1>8, <1>9, <2>1, <2>2 DEF Inv, Blank
<1>11. Values'
  <2>1. \A k \in DOMAIN work : k # i => work'[k] = work[k] /\ (Running(k)' <=> Running(k))
    BY <1>1 DEF Moves, Running
  <2>2. DOMAIN work' = DOMAIN work /\ work'[i].kind = work[i].kind /\ work'[i].of = b
    BY <1>1 DEF Moves
  <2> QED
    BY <1>1, <1>2, <2>1, <2>2 DEF Inv, Values
<1>12. Pairs'
  <2>1. ASSUME NEW x \in Accounts, NEW y \in Accounts, x # y, presence'[x] # 0
        PROVE  PairOK(x, y)'
    <3>1. PairOK(x, y) /\ presence[x] # 0
      BY <1>2, <2>1 DEF Inv, Pairs
    <3>2. Served(y, x)' <=> Served(y, x)
      BY <1>1, <1>2, <1>3, MovesServed
    <3>3. CASE x # a \/ y # b
      <4>1. /\ Shown(x, y)' = Shown(x, y)
            /\ Told(mailbox'[x], y) = {} <=> Told(mailbox[x], y) = {}
        <5>1. CASE x = a
          BY <1>2, <3>1, <3>3, <5>1, CastShows
        <5>2. CASE x # a
          BY <1>2, <1>9, <5>2, ShownSame
        <5> QED
          BY <5>1, <5>2
      <4>2. TellingSame(x, y)
        BY <1>1, <1>3, <3>3, MovesTelling
      <4>3. EndsSame(x, y)
        BY <1>1, <3>3, MovesEnds
      <4>4. Missing(x, y)' <=> Missing(x, y)
        BY <1>1, <1>3, <4>1, MovesMissing
      <4> QED
        BY <1>2, <3>1, <3>2, <4>1, <4>2, <4>3, <4>4, PairFrame
    <3>4. CASE x = a /\ y = b
      <4>1. /\ Shown(x, y)' = v
            /\ Told(mailbox'[x], y) # {}
        BY <1>2, <3>1, <3>4, CastShows
      <4>2. Unread(x, y)'
        BY <4>1 DEF Unread, Missing, Told
      <4>3. ASSUME work[i].kind # "end" PROVE Ending(x, y)'
        <5>1. \A k \in DOMAIN work' : ~(Running(k)' /\ work'[k].kind = "end" /\ work'[k].of = y)
          BY <1>1, <1>4, <3>4, <4>3 DEF Moves, Running
        <5> QED
          BY <5>1 DEF Ending
      <4>4. CASE work[i].kind \in {"set", "grant"}
        <5>1. presence[y] = v \/ (presence[y] = 0 /\ retiring[y] # {})
          BY <1>1, <3>4, <4>4 DEF Inv, Values
        <5>2. Current(x, y)'
          BY <1>2, <4>1, <5>1 DEF Current
        <5>3. Served(y, x)
          <6>1. CASE work[i].kind = "set"
            <7>1. GrantedAt(i, y, x)
              BY <1>1, <2>1, <3>4, <6>1 DEF Inv, Audiences
            <7> QED
              BY <1>2, <1>3, <3>4, <6>1, <7>1, ServedAtTurn DEF Inv, IsChange
          <6>2. CASE work[i].kind = "grant"
            <7>1. IsChange(i, y, x)
              BY <1>1, <3>4, <6>2 DEF IsChange, Inv, Shapes, Shape
            <7> QED
              BY <1>1, <1>2, <6>2, <7>1, ServedByChange DEF Inv
          <6> QED
            BY <4>4, <6>1, <6>2
        <5>4. Covered(x, y)'
          BY <3>2, <5>3 DEF Covered
        <5> QED
          BY <4>2, <4>3, <4>4, <5>2, <5>4 DEF PairOK
      <4>5. CASE work[i].kind = "revoke"
        <5>1. v = 0 /\ IsChange(i, y, x)
          BY <1>1, <3>4, <4>5 DEF IsChange, Inv, Shapes, Shape
        <5>2. ~Served(y, x)
          BY <1>1, <1>2, <4>5, <5>1, ServedByChange DEF Inv
        <5> QED
          BY <3>2, <4>1, <4>2, <4>3, <4>5, <5>1, <5>2 DEF PairOK, Covered, Current
      <4>6. CASE work[i].kind = "end"
        <5>1. v = 0 /\ presence[y] = 0
          BY <1>1, <3>4, <4>6 DEF Inv, Shapes, Shape, Values
        <5> QED
          BY <1>2, <4>1, <4>2, <5>1 DEF PairOK, Covered, Current, Ending
      <4>7. work[i].kind \in {"set", "end", "grant", "revoke"}
        BY <1>2, WorkDomain DEF Works
      <4> QED
        BY <4>4, <4>5, <4>6, <4>7
    <3> QED
      BY <3>3, <3>4
  <2> QED
    BY <2>1 DEF Pairs
<1> QED
  BY <1>5, <1>6, <1>7, <1>8, <1>10, <1>11, <1>12 DEF Inv

\* What one contact's presence does to the client it is kept for.
LEMMA ReplayShows ==
  ASSUME TypeOK, TypeOK', NEW a \in Accounts, NEW c \in Accounts, NEW v \in 0..MaxWorks,
         kept'[a] = Append(kept[a], <<c, v>>), UNCHANGED <<mailbox, screen>>,
         NEW y \in Accounts
  PROVE  Shown(a, y)' = IF y = c /\ Told(mailbox[a], c) = {} THEN v ELSE Shown(a, y)
<1>1. /\ Shown(a, y)' = Write(Write(screen[a], kept'[a]), mailbox[a])[y]
      /\ Shown(a, y) = Write(Write(screen[a], kept[a]), mailbox[a])[y]
      /\ screen[a] \in Screens /\ kept[a] \in Entries
  BY ShownIs, ShownNext
<1>2. Write(screen[a], kept'[a])[y] = IF y = c THEN v ELSE Write(screen[a], kept[a])[y]
  BY <1>1, WriteAppend
<1>3. \A s : Write(s, mailbox[a])[y] = IF Told(mailbox[a], y) = {} THEN s[y]
                                       ELSE mailbox[a][Max(Told(mailbox[a], y))][2]
  BY DEF Write
<1> QED
  BY <1>1, <1>2, <1>3

\* One contact's presence is read.
LEMMA ReplayKeeps ==
  ASSUME Inv, TypeOK', NEW i \in DOMAIN work, NEW c \in Accounts, Replay(i, c)
  PROVE  Inv'
<1> DEFINE a == work[i].of
<1>1. /\ Moves(i)
      /\ work[i].kind = "set" /\ work[i].pc = "replay" /\ c \in work[i].contacts
      /\ work'[i].pc = "replay" /\ work'[i].value = work[i].value
      /\ work'[i].left = work[i].left /\ work'[i].contacts = work[i].contacts \ {c}
  BY ReplayMoves DEF Inv
<1>2. /\ kept' = IF Mine(work[i]) /\ presence[c] # 0
                 THEN [kept EXCEPT ![a] = Append(kept[a], <<c, presence[c]>>)]
                 ELSE kept
      /\ UNCHANGED <<grants, token, alive, presence, retiring, mailbox, busy, screen>>
      /\ TypeOK /\ a \in Accounts
  BY TaskTypes DEF Replay, Inv
<1>3. /\ Undone(i) /\ Turn(i) /\ a \in Lines(i) /\ Running(i) /\ Running(i)' /\ ~Queued(i)
      /\ a # c /\ work[i].value # 0
  <2>1. Shape(work[i])
    BY DEF Inv, Shapes
  <2> QED
    BY <1>1, <2>1 DEF Moves, Lines, Running, Queued, Shape
<1>4. \A k \in DOMAIN work : Running(k) /\ k # i => work[k].of # a
  BY <1>3, Others
<1>5. RunsInTurn' /\ Changes'
  BY <1>1, MovesRuns, MovesSteady, SteadyChanges DEF Inv
<1>6. Shapes'
  <2>1. Shape(work'[i])
    BY <1>1, <1>3 DEF Moves, Inv, Shapes, Shape
  <2> QED
    BY <1>1, <2>1, MovesShapes
<1>7. Audiences'
  BY <1>1, <1>2, MovesAudiences
<1>8. Streams' /\ \A x \in Accounts : Leaving(x)' <=> Leaving(x)
  BY <1>1, <1>2, <1>3, MovesStreams
<1>9. Mine(work[i]) => busy[a] = i /\ presence[a] # 0 /\ busy[a] # 0
  <2>1. Mine(work[i]) => busy[a] = i
    BY <1>1, <1>3 DEF Inv, Streams, Owners
  <2>2. i # 0
    BY <1>2, WorkDomain
  <2> QED
    BY <1>1, <1>2, <1>3, <2>1, <2>2 DEF Inv, Streams, Awaited
<1>10. Blank'
  <2>1. \A x \in Accounts : busy[x] # 0 => busy[x] \in DOMAIN work
    BY DEF Inv, Streams, Awaited
  <2>2. \A k \in DOMAIN work : ~Queued(k) => ~Queued(k)'
    BY <1>1 DEF Moves, Queued
  <2>3. \A x \in Accounts : kept'[x] = kept[x] \/ (x = a /\ Mine(work[i]))
    BY <1>2 DEF TypeOK
  <2> QED
    BY <1>2, <1>3, <1>8, <1>9, <2>1, <2>2, <2>3 DEF Inv, Blank
<1>11. Values'
  <2>1. \A k \in DOMAIN work : k # i => work'[k] = work[k] /\ (Running(k)' <=> Running(k))
    BY <1>1 DEF Moves, Running
  <2>2. DOMAIN work' = DOMAIN work /\ work'[i].kind = work[i].kind /\ work'[i].of = a
    BY <1>1 DEF Moves
  <2> QED
    BY <1>1, <1>2, <1>3, <2>1, <2>2 DEF Inv, Values
<1>12. Pairs'
  <2>1. ASSUME NEW x \in Accounts, NEW y \in Accounts, x # y, presence'[x] # 0
        PROVE  PairOK(x, y)'
    <3>1. PairOK(x, y) /\ presence[x] # 0
      BY <1>2, <2>1 DEF Inv, Pairs
    <3>2. Served(y, x)' <=> Served(y, x)
      BY <1>1, <1>2, <1>3, MovesServed
    <3>3. TellingSame(x, y)
      BY <1>1, <1>3, MovesTelling
    <3>4. EndsSame(x, y)
      BY <1>1, MovesEnds
    <3>5. presence[c] \in 0..MaxWorks
      BY <1>2 DEF TypeOK
    <3>6. CASE x # a \/ y # c
      <4>1. Shown(x, y)' = Shown(x, y)
        <5>1. CASE x = a /\ Mine(work[i]) /\ presence[c] # 0
          <6>1. kept'[a] = Append(kept[a], <<c, presence[c]>>)
            BY <1>2, <5>1 DEF TypeOK
          <6> QED
            BY <1>2, <3>5, <3>6, <5>1, <6>1, ReplayShows
        <5>2. CASE ~(x = a /\ Mine(work[i]) /\ presence[c] # 0)
          <6>1. kept'[x] = kept[x]
            BY <1>2, <5>2 DEF TypeOK
          <6> QED
            BY <1>2, <6>1, ShownSame
        <5> QED
          BY <5>1, <5>2
      <4>2. Missing(x, y)' <=> Missing(x, y)
        BY <1>1, <1>2, <1>3, <3>6, MovesMissing
      <4> QED
        BY <1>2, <3>1, <3>2, <3>3, <3>4, <4>1, <4>2, PairFrame
    <3>7. CASE x = a /\ y = c
      <4>1. Mine(work[i])
        BY <1>1, <1>2, <1>3, <3>1, <3>7 DEF Inv, Streams, Owners, Mine, TypeOK
      <4>2. ~Missing(x, y)'
        <5>1. ASSUME NEW k \in DOMAIN work', Running(k)', work'[k].of = x
              PROVE  y \notin work'[k].contacts
          BY <1>1, <1>4, <3>7, <5>1 DEF Moves, Running
        <5> QED
          BY <5>1 DEF Missing
      <4>3. CASE Told(mailbox[x], y) = {}
        <5>1. Missing(x, y)
          BY <1>1, <1>3, <3>7, <4>3 DEF Missing
        <5>2. Shown(x, y) = 0
          BY <3>1, <5>1 DEF PairOK, Unread
        <5>3. Shown(x, y)' = presence[y]
          <6>1. CASE presence[c] # 0
            <7>1. kept'[a] = Append(kept[a], <<c, presence[c]>>)
              BY <1>2, <4>1, <6>1 DEF TypeOK
            <7> QED
              BY <1>2, <3>5, <3>7, <4>3, <7>1, ReplayShows
          <6>2. CASE presence[c] = 0
            BY <1>2, <3>7, <5>2, <6>2, ShownSame
          <6> QED
            BY <6>1, <6>2
        <5>4. GrantedAt(i, y, x)
          BY <1>1, <3>7 DEF Inv, Audiences
        <5>5. Served(y, x)
          BY <1>1, <1>2, <1>3, <3>7, <5>4, ServedAtTurn DEF Inv, IsChange
        <5> QED
          BY <1>2, <3>2, <4>2, <5>3, <5>5 DEF PairOK, Unread, Covered, Current, Ending
      <4>4. CASE Told(mailbox[x], y) # {}
        <5>1. ~Missing(x, y)
          BY <4>4 DEF Missing
        <5>2. Shown(x, y)' = Shown(x, y)
          <6>1. CASE presence[c] # 0
            <7>1. kept'[a] = Append(kept[a], <<c, presence[c]>>)
              BY <1>2, <4>1, <6>1 DEF TypeOK
            <7> QED
              BY <1>2, <3>5, <3>7, <4>4, <7>1, ReplayShows
          <6>2. CASE presence[c] = 0
            BY <1>2, <6>2, ShownSame
          <6> QED
            BY <6>1, <6>2
        <5> QED
          BY <1>2, <3>1, <3>2, <3>3, <3>4, <4>2, <5>1, <5>2, PairFrame
      <4> QED
        BY <4>3, <4>4
    <3> QED
      BY <3>6, <3>7
  <2> QED
    BY <2>1 DEF Pairs
<1> QED
  BY <1>5, <1>6, <1>7, <1>8, <1>10, <1>11, <1>12 DEF Inv

\* ServedByChange for every running change, so that it can be primed.
LEMMA RunningChange ==
  TypeOK /\ RunsInTurn /\ Changes =>
    \A i \in DOMAIN work : Running(i) /\ work[i].kind \in {"grant", "revoke"} =>
      (Served(work[i].of, work[i].to) <=> work[i].kind = "grant")
<1> SUFFICES ASSUME TypeOK, RunsInTurn, Changes, NEW i \in DOMAIN work, Running(i),
                    work[i].kind \in {"grant", "revoke"}
             PROVE  Served(work[i].of, work[i].to) <=> work[i].kind = "grant"
  OBVIOUS
<1>1. IsChange(i, work[i].of, work[i].to)
  BY DEF IsChange
<1> QED
  BY <1>1, ServedByChange

\* The same after the step.
LEMMA RunningChangeNext ==
  (TypeOK /\ RunsInTurn /\ Changes =>
    \A i \in DOMAIN work : Running(i) /\ work[i].kind \in {"grant", "revoke"} =>
      (Served(work[i].of, work[i].to) <=> work[i].kind = "grant"))'
  BY RunningChange, PTL

\* A change that has its turn is what is served from then on.
LEMMA ApplyChangeKeeps ==
  ASSUME Inv, TypeOK', NEW i \in DOMAIN work, ApplyChange(i)
  PROVE  Inv'
<1> DEFINE b == work[i].of
           a == work[i].to
           send == IF work[i].kind = "grant" THEN presence[b] # 0 ELSE Withdraws(b)
<1>1. /\ Moves(i)
      /\ work[i].kind \in {"grant", "revoke"} /\ Queued(i)
      /\ work'[i].pc = "cast"
      /\ work'[i].value = IF work[i].kind = "grant" THEN presence[b] ELSE 0
      /\ work'[i].left = IF send THEN work[i].left ELSE {}
      /\ work'[i].contacts = work[i].contacts
  BY ApplyChangeMoves DEF Inv
<1>2. /\ UNCHANGED <<grants, token, alive, presence, retiring, mailbox, busy, kept, screen>>
      /\ TypeOK /\ b \in Accounts /\ a \in Accounts
  BY TaskTypes DEF ApplyChange, Inv
<1>3. /\ Undone(i) /\ Turn(i) /\ b \in Lines(i) /\ a \in Lines(i) /\ Running(i)' /\ ~Running(i)
      /\ a # b /\ work[i].left = {a}
  <2>1. Shape(work[i])
    BY DEF Inv, Shapes
  <2> QED
    BY <1>1, <2>1 DEF Moves, Lines, Running, Queued, Shape
<1>4. \A k \in DOMAIN work : Running(k) => work[k].of # b
  BY <1>3, Others
<1>5. RunsInTurn' /\ Changes'
  BY <1>1, MovesRuns, MovesSteady, SteadyChanges DEF Inv
<1>6. Shapes'
  <2>1. Shape(work'[i])
    BY <1>1, <1>3 DEF Moves, Inv, Shapes, Shape
  <2> QED
    BY <1>1, <2>1, MovesShapes
<1>7. Audiences'
  BY <1>1, <1>2, MovesAudiences
<1>8. Streams' /\ \A x \in Accounts : Leaving(x)' <=> Leaving(x)
  BY <1>1, <1>2, MovesStreams
<1>9. Blank'
  BY <1>1, <1>2, <1>8, MovesBlank
<1>10. Values'
  <2>1. \A k \in DOMAIN work : k # i => work'[k] = work[k] /\ (Running(k)' <=> Running(k))
    BY <1>1 DEF Moves, Running
  <2>2. DOMAIN work' = DOMAIN work /\ work'[i].kind = work[i].kind /\ work'[i].of = b
    BY <1>1 DEF Moves
  <2> QED
    BY <1>1, <1>2, <2>1, <2>2 DEF Inv, Values
<1>11. Pairs'
  <2>1. ASSUME NEW x \in Accounts, NEW y \in Accounts, x # y, presence'[x] # 0
        PROVE  PairOK(x, y)'
    <3>1. PairOK(x, y) /\ presence[x] # 0
      BY <1>2, <2>1 DEF Inv, Pairs
    <3>2. Shown(x, y)' = Shown(x, y)
      BY <1>2, ShownSame
    <3>3. Missing(x, y)' <=> Missing(x, y)
      BY <1>1, <1>2, MovesMissing
    <3>4. EndsSame(x, y)
      BY <1>1, MovesEnds
    <3>5. CASE x # a \/ y # b
      <4>1. Served(y, x)' <=> Served(y, x)
        BY <1>1, <1>2, <3>5, MovesServed DEF IsChange
      <4>2. TellingSame(x, y)
        BY <1>1, <1>3, <3>5, MovesTelling
      <4> QED
        BY <1>2, <3>1, <3>2, <3>3, <3>4, <4>1, <4>2, PairFrame
    <3>6. CASE x = a /\ y = b
      <4>1. Served(y, x) <=> GrantedAt(i, y, x)
        BY <1>1, <1>2, <1>3, <3>6, ServedAtTurn DEF Inv
      <4>2. Served(y, x)' <=> work[i].kind = "grant"
        <5>1. Running(i)' /\ i \in DOMAIN work' /\ work'[i].kind = work[i].kind
              /\ work'[i].of = y /\ work'[i].to = x
          BY <1>1, <1>3, <3>6 DEF Moves
        <5>2. (Served(work[i].of, work[i].to) <=> work[i].kind = "grant")'
          BY <1>1, <1>5, <5>1, RunningChangeNext
        <5>3. Served(work[i].of, work[i].to)' <=> Served(y, x)'
          BY <5>1 DEF Served, Front, GrantedAt, IsChange
        <5> QED
          BY <5>1, <5>2, <5>3
      <4>3. \A kinds : ~Telling(kinds, x, y)
        BY <1>4, <3>6 DEF Telling
      <4>4. Unread(x, y)'
        BY <3>1, <3>2, <3>3 DEF PairOK, Unread
      <4>5. Ending(x, y)'
        <5>1. \A k \in DOMAIN work' : ~(Running(k)' /\ work'[k].kind = "end" /\ work'[k].of = y)
          BY <1>1, <1>4, <3>6 DEF Moves, Running
        <5> QED
          BY <5>1 DEF Ending
      <4>6. \A kinds : work[i].kind \in kinds /\ send => Telling(kinds, x, y)'
        BY <1>1, <1>3, <3>6 DEF Telling, Moves
      <4>7. CASE work[i].kind = "grant"
        <5>1. ~GrantedAt(i, y, x)
          BY <3>6, <4>7 DEF Inv, Changes
        <5>2. Shown(x, y) = 0
          BY <3>1, <4>1, <4>3, <5>1 DEF PairOK, Covered
        <5>3. Covered(x, y)'
          BY <4>2, <4>7 DEF Covered
        <5>4. Current(x, y)'
          <6>1. CASE presence[b] = 0
            BY <1>2, <3>2, <3>6, <5>2, <6>1 DEF Current
          <6>2. CASE presence[b] # 0
            BY <4>6, <4>7, <6>2 DEF Current
          <6> QED
            BY <6>1, <6>2
        <5> QED
          BY <4>4, <4>5, <5>3, <5>4 DEF PairOK
      <4>8. CASE work[i].kind = "revoke"
        <5>1. GrantedAt(i, y, x)
          <6>1. IsChange(i, y, x) /\ i \in Nat /\ \A k \in DOMAIN work : k \in Nat
            BY <1>1, <1>2, <3>6, WorkDomain DEF IsChange
          <6>2. i <= i /\ \A d \in DOMAIN work : ~(i <= d /\ d < i)
            BY <6>1
          <6> QED
            BY <4>8, <6>1, <6>2 DEF GrantedAt
        <5>2. ~send => Shown(x, y) = 0
          <6>1. ~send => presence[y] = 0 /\ retiring[y] = {}
            BY <3>6, <4>8 DEF Withdraws
          <6> QED
            BY <3>1, <4>1, <4>3, <5>1, <6>1 DEF PairOK, Unread, Current
        <5>3. Covered(x, y)'
          BY <3>2, <4>6, <4>8, <5>2 DEF Covered
        <5>4. Current(x, y)'
          BY <4>2, <4>8 DEF Current
        <5> QED
          BY <4>4, <4>5, <5>3, <5>4 DEF PairOK
      <4> QED
        BY <1>1, <4>7, <4>8
    <3> QED
      BY <3>5, <3>6
  <2> QED
    BY <2>1 DEF Pairs
<1> QED
  BY <1>5, <1>6, <1>7, <1>8, <1>9, <1>10, <1>11 DEF Inv

\* An update that has its turn tells everyone who is served, and reads what it
\* is itself served.
LEMMA ApplyKeeps ==
  ASSUME Inv, TypeOK', NEW i \in DOMAIN work, Apply(i)
  PROVE  Inv'
<1>0. PICK a \in Accounts, v \in 0..MaxWorks : work[i].of = a /\ work[i].value = v
  BY WorkDomain DEF Inv, Works
<1>1. /\ Moves(i) /\ work[i].of = a /\ work[i].value = v
      /\ work[i].kind = "set" /\ Queued(i)
      /\ work'[i].value = v /\ work'[i].contacts = work[i].contacts
      /\ IF Mine(work[i])
         THEN /\ work'[i].pc = "replay"
              /\ work'[i].left = IF v # 0 \/ presence[a] # 0 THEN work[i].left ELSE {}
         ELSE /\ work'[i].pc = "done"
              /\ work'[i].left = work[i].left
  BY <1>0, ApplyMoves DEF Inv
<1>2. /\ UNCHANGED <<grants, token, alive, retiring, busy, screen>>
      /\ TypeOK /\ a \in Accounts /\ v \in 0..MaxWorks /\ i # 0
  BY <1>0, WorkDomain DEF Apply, Inv
<1>3. Undone(i) /\ Turn(i) /\ a \in Lines(i) /\ ~Running(i) /\ ~Queued(i)'
  BY <1>1 DEF Moves, Lines, Running, Queued
<1>4. \A k \in DOMAIN work : Running(k) => work[k].of # a
  BY <1>3, Others DEF Inv
<1>5. RunsInTurn' /\ Changes'
  BY <1>1, MovesRuns, MovesSteady, SteadyChanges DEF Inv
<1>6. Shapes'
  <2>1. Shape(work'[i])
    BY <1>1 DEF Moves, Inv, Shapes, Shape
  <2> QED
    BY <1>1, <2>1, MovesShapes
<1>7. /\ DOMAIN work' = DOMAIN work
      /\ work'[i].kind = "set" /\ work'[i].of = a /\ work'[i].token = work[i].token
      /\ \A k \in DOMAIN work : k # i => /\ work'[k] = work[k]
                                         /\ Queued(k)' <=> Queued(k)
                                         /\ Undone(k)' <=> Undone(k)
                                         /\ Running(k)' <=> Running(k)
                                         /\ Mine(work[k])' <=> Mine(work[k])
  BY <1>1, <1>2 DEF Moves, Queued, Undone, Running, Mine
<1>8. \A x \in Accounts : busy[x] # 0 => busy[x] \in DOMAIN work
  BY DEF Inv, Streams, Awaited
<1>9. \A x, y : Served(y, x)' <=> Served(y, x)
  BY <1>1, <1>2, MovesServed DEF IsChange
<1>10. CASE ~Mine(work[i])
  <2>1. UNCHANGED <<presence, kept, mailbox>> /\ work'[i].pc = "done"
    BY <1>1, <1>10 DEF Apply
  <2>2. \A x \in Accounts : busy[x] # i
    BY <1>1, <1>2, <1>10 DEF Inv, Streams, Awaited, Mine
  <2>3. ~Running(i)' /\ ~Undone(i)'
    BY <2>1 DEF Running, Undone
  <2>4. Awaited'
    BY <1>2, <1>7, <1>8, <2>1, <2>2 DEF Inv, Streams, Awaited
  <2>5. Owners'
    BY <1>1, <1>2, <1>7, <2>1, <2>3 DEF Inv, Streams, Owners
  <2>6. Retired'
    BY <1>2 DEF Inv, Streams, Retired
  <2>7. \A x \in Accounts : Leaving(x)' <=> Leaving(x)
    BY <1>2, <1>7, <1>8, <2>2 DEF Leaving
  <2>8. Blank'
    BY <1>1, <1>2, <2>1, <2>7, MovesBlank
  <2>9. Values'
    BY <1>2, <1>7, <2>1, <2>3 DEF Inv, Values
  <2>10. Audiences'
    BY <1>1, <1>2, <1>10, <2>1, MovesAudiences
  <2>11. Pairs'
    <3>1. ASSUME NEW x \in Accounts, NEW y \in Accounts, x # y, presence'[x] # 0
          PROVE  PairOK(x, y)'
      <4>1. PairOK(x, y) /\ presence[x] # 0
        BY <2>1, <3>1 DEF Inv, Pairs
      <4>2. Shown(x, y)' = Shown(x, y)
        BY <1>2, <2>1, ShownSame
      <4>3. TellingSame(x, y) /\ EndsSame(x, y)
        BY <1>1, <1>3, <2>3, MovesTelling, MovesEnds
      <4>4. Missing(x, y)' <=> Missing(x, y)
        BY <1>1, <1>3, <2>1, <2>3, MovesMissing
      <4> QED
        BY <1>2, <1>9, <2>1, <4>1, <4>2, <4>3, <4>4, PairFrame
    <3> QED
      BY <3>1 DEF Pairs
  <2> QED
    BY <1>5, <1>6, <2>4, <2>5, <2>6, <2>8, <2>9, <2>10, <2>11 DEF Inv, Streams
<1>11. CASE Mine(work[i])
  <2>1. /\ presence' = [presence EXCEPT ![a] = v]
        /\ kept' = [kept EXCEPT ![a] = mailbox[a]]
        /\ mailbox' = [mailbox EXCEPT ![a] = <<>>]
        /\ work'[i].pc = "replay"
        /\ work'[i].left = IF v # 0 \/ presence[a] # 0 THEN work[i].left ELSE {}
        /\ alive[a] /\ token[a] = work[i].token
    BY <1>1, <1>11 DEF Apply, Mine
  <2>2. /\ presence'[a] = v /\ kept'[a] = mailbox[a] /\ mailbox'[a] = <<>>
        /\ \A x \in Accounts : x # a => /\ presence'[x] = presence[x] /\ kept'[x] = kept[x]
                                        /\ mailbox'[x] = mailbox[x]
    BY <1>2, <2>1 DEF TypeOK
  <2>3. busy[a] = i /\ Running(i)' /\ Undone(i)'
    BY <1>1, <1>3, <1>11, <2>1 DEF Inv, Streams, Owners, Running, Undone
  <2>4. \A x \in Accounts : busy[x] = i => x = a
    BY <1>1, <1>2 DEF Inv, Streams, Awaited
  <2>5. \A k \in DOMAIN work : work[k].of \in Accounts
    BY <1>2, TaskTypes
  <2>6. Awaited'
    BY <1>2, <1>7, <1>8, <2>1, <2>2, <2>3, <2>4, <1>1 DEF Inv, Streams, Awaited
  <2>7. Owners'
    BY <1>1, <1>2, <1>4, <1>7, <2>1, <2>2, <2>3, <2>5 DEF Inv, Streams, Owners
  <2>8. Retired'
    BY <1>2 DEF Inv, Streams, Retired
  <2>9. \A x \in Accounts : x # a => (Leaving(x)' <=> Leaving(x))
    BY <1>2, <1>7, <1>8, <2>4 DEF Leaving
  <2>10. v = 0 => Leaving(a)'
    BY <1>1, <1>2, <1>3, <1>7, <2>3 DEF Leaving
  <2>11. Blank'
    <3>1. ASSUME NEW x \in Accounts, x # a
          PROVE  /\ kept'[x] # <<>> => busy'[x] # 0 /\ ~Queued(busy[x])'
                 /\ presence'[x] = 0 => mailbox'[x] = <<>>
                 /\ presence'[x] = 0 /\ ~Leaving(x)' =>
                      kept'[x] = <<>> /\ screen'[x] = [y \in Accounts |-> 0]
      BY <1>2, <1>7, <1>8, <2>2, <2>4, <2>9, <3>1 DEF Inv, Blank
    <3>2. /\ busy'[a] # 0 /\ ~Queued(busy[a])'
          /\ mailbox'[a] = <<>>
          /\ presence'[a] = 0 => Leaving(a)'
      BY <1>2, <1>3, <2>2, <2>3, <2>10
    <3> QED
      BY <3>1, <3>2 DEF Blank
  <2>12. Values'
    BY <1>1, <1>2, <1>4, <1>7, <2>2, <2>5 DEF Inv, Values
  <2>13. Audiences'
    <3>1. \A k \in DOMAIN work : k # i /\ work[k].kind = "set" /\ Queued(k) /\ Mine(work[k])
            => presence'[work[k].of] = presence[work[k].of]
      BY <2>2, <2>3, <2>5 DEF Inv, Streams, Owners, Queued, Undone
    <3> QED
      BY <1>1, <1>2, <2>1, <3>1, MovesAudiences
  <2>14. kept[a] = <<>> /\ ~Leaving(a)
    BY <1>1, <2>3 DEF Inv, Blank, Leaving
  <2>15. \A x, y \in Accounts : Shown(x, y)' = Shown(x, y)
    <3> TAKE x, y \in Accounts
    <3>1. CASE x = a
      <4>1. /\ screen[a] \in Screens /\ mailbox[a] \in Entries
            /\ Shown(a, y) = Write(Write(screen[a], <<>>), mailbox[a])[y]
        BY <1>2, <2>14, ShownIs
      <4>2. Shown(a, y)' = Write(Write(screen[a], mailbox[a]), <<>>)[y]
        BY <1>2, <2>2, ShownNext
      <4>3. Write(screen[a], <<>>) = screen[a] /\ Write(screen[a], mailbox[a]) \in Screens
        BY <4>1, WriteNothing, WriteType
      <4>4. Write(Write(screen[a], mailbox[a]), <<>>) = Write(screen[a], mailbox[a])
        BY <4>3, WriteNothing
      <4> QED
        BY <3>1, <4>1, <4>2, <4>3, <4>4
    <3>2. CASE x # a
      BY <1>2, <2>2, <3>2, ShownSame
    <3> QED
      BY <3>1, <3>2
  <2>16. Pairs'
    <3>1. ASSUME NEW x \in Accounts, NEW y \in Accounts, x # y, presence'[x] # 0
          PROVE  PairOK(x, y)'
      <4>1. (Served(y, x)' <=> Served(y, x)) /\ Shown(x, y)' = Shown(x, y)
        BY <1>9, <2>15
      <4>2. CASE x # a /\ y # a
        <5>1. PairOK(x, y)
          BY <2>2, <3>1, <4>2 DEF Inv, Pairs
        <5>2. TellingSame(x, y) /\ EndsSame(x, y)
          BY <1>1, <4>2, MovesTelling, MovesEnds
        <5>3. Missing(x, y)' <=> Missing(x, y)
          BY <1>1, <2>2, <4>2, MovesMissing
        <5> QED
          BY <1>2, <2>2, <4>1, <4>2, <5>1, <5>2, <5>3, PairFrame
      <4>3. CASE x = a
        <5>1. TellingSame(x, y) /\ EndsSame(x, y)
          BY <1>1, <3>1, <4>3, MovesTelling, MovesEnds
        <5>2. v # 0 /\ presence'[y] = presence[y]
          BY <2>2, <3>1, <4>3
        <5>3. Served(y, x) <=> GrantedAt(i, y, x)
          BY <1>1, <1>2, <1>3, <4>3, ServedAtTurn DEF Inv, IsChange
        <5>4. CASE presence[a] = 0
          <6>1. Shown(x, y) = 0
            <7>1. screen[a] = [z \in Accounts |-> 0] /\ mailbox[a] = <<>>
              BY <2>14, <5>4 DEF Inv, Blank
            <7>2. Shown(x, y) = Write(Write(screen[a], <<>>), <<>>)[y] /\ screen[a] \in Screens
              BY <1>2, <2>14, <4>3, <7>1, ShownIs
            <7> QED
              BY <7>1, <7>2, WriteNothing
          <6>2. Served(y, x) => y \in work[i].contacts
            BY <1>1, <1>11, <3>1, <4>3, <5>2, <5>3, <5>4 DEF Inv, Audiences
          <6>3. Told(mailbox'[x], y) = {}
            BY <2>2, <4>3 DEF Told
          <6>4. y \in work[i].contacts => Missing(x, y)'
            BY <1>1, <1>7, <2>3, <4>3, <6>3 DEF Missing, Told
          <6> QED
            BY <4>1, <6>1, <6>2, <6>4 DEF PairOK, Unread, Covered, Current, Ending
        <5>5. CASE presence[a] # 0
          <6>1. PairOK(x, y)
            BY <3>1, <4>3, <5>5 DEF Inv, Pairs
          <6>2. work[i].contacts = {}
            BY <1>1, <1>11, <5>5 DEF Inv, Audiences
          <6>3. ~Missing(x, y)
            BY <1>4, <4>3 DEF Missing
          <6>4. ~Missing(x, y)'
            <7>1. ASSUME NEW k \in DOMAIN work', Running(k)', work'[k].of = x
                  PROVE  y \notin work'[k].contacts
              BY <1>1, <1>4, <1>7, <4>3, <6>2, <7>1
            <7> QED
              BY <7>1 DEF Missing
          <6> QED
            BY <1>2, <4>1, <5>1, <5>2, <6>1, <6>3, <6>4, PairFrame
        <5> QED
          BY <5>4, <5>5
      <4>4. CASE y = a
        <5>1. PairOK(x, y) /\ presence[x] # 0
          BY <2>2, <3>1, <4>4 DEF Inv, Pairs
        <5>2. Missing(x, y)' <=> Missing(x, y)
          <6>1. work[i].of # x /\ mailbox'[x] = mailbox[x]
            BY <1>1, <2>2, <3>1, <4>4
          <6> QED
            BY <1>1, <6>1, MovesMissing
        <5>3. Served(y, x) <=> GrantedAt(i, y, x)
          BY <1>1, <1>2, <1>3, <4>4, ServedAtTurn DEF Inv, IsChange
        <5>4. Served(y, x) => x \in work[i].left
          BY <1>1, <3>1, <4>4, <5>3 DEF Inv, Audiences
        <5>5. \A kinds : ~Telling(kinds, x, y)
          BY <1>4, <4>4 DEF Telling
        <5>6. Unread(x, y)' /\ Covered(x, y)'
          BY <4>1, <5>1, <5>2, <5>5 DEF PairOK, Unread, Covered
        <5>7. Ending(x, y)'
          <6>1. \A k \in DOMAIN work' : ~(Running(k)' /\ work'[k].kind = "end" /\ work'[k].of = y)
            BY <1>4, <1>7, <4>4
          <6> QED
            BY <6>1 DEF Ending
        <5>8. Current(x, y)'
          <6>1. CASE v # 0 \/ presence[a] # 0
            <7>1. Served(y, x) => Telling({"set", "grant"}, x, y)'
              BY <1>7, <2>1, <2>3, <4>4, <5>4, <6>1 DEF Telling
            <7> QED
              BY <4>1, <7>1 DEF Current
          <6>2. CASE v = 0 /\ presence[a] = 0
            BY <1>2, <2>2, <4>1, <4>4, <5>1, <5>2, <5>5, <6>2 DEF PairOK, Current
          <6> QED
            BY <6>1, <6>2
        <5> QED
          BY <5>6, <5>7, <5>8 DEF PairOK
      <4> QED
        BY <4>2, <4>3, <4>4
    <3> QED
      BY <3>1 DEF Pairs
  <2> QED
    BY <1>5, <1>6, <2>6, <2>7, <2>8, <2>11, <2>12, <2>13, <2>16 DEF Inv, Streams
<1> QED
  BY <1>10, <1>11

-----------------------------------------------------------------------------
(* The theorems.                                                           *)

\* A step that changes nothing.
LEMMA StutterKeeps ==
  ASSUME Inv, UNCHANGED vars
  PROVE  Inv'
<1>1. TypeOK'
  BY DEF Inv, TypeOK, vars
<1>2. RunsInTurn' /\ Shapes' /\ Changes'
  BY SameWork DEF vars
<1>3. Audiences'
  BY SameAudiences DEF vars, Mine
<1>4. Streams'
  BY DEF vars, Inv, Streams, Awaited, Owners, Retired, Running, Undone, Queued, Mine
<1>5. Blank' /\ Values'
  BY DEF vars, Inv, Blank, Leaving, Values, Running, Queued
<1>6. ASSUME NEW x \in Accounts, NEW y \in Accounts, x # y, presence'[x] # 0
      PROVE  PairOK(x, y)'
  <2>1. PairOK(x, y) /\ Shown(x, y)' = Shown(x, y)
    BY <1>6, ShownSame DEF vars, Inv, Pairs
  <2> QED
    BY <1>1, <2>1, PairFrame, SameTasks DEF vars, Inv
<1> QED
  BY <1>1, <1>2, <1>3, <1>4, <1>5, <1>6 DEF Inv, Pairs

\* Every step keeps the invariant.
LEMMA NextKeeps ==
  ASSUME Inv, [Next]_vars
  PROVE  Inv'
<1>1. CASE Next
  <2>1. TypeOK'
    BY <1>1, TypeStep DEF Inv
  <2>2. Rest => Inv'
    BY StutterKeeps DEF Rest
  <2> QED
    BY <1>1, <2>1, <2>2, BindKeeps, DrainKeeps, EndKeeps, OutcomeKeeps, AnnounceKeeps,
       FixEndKeeps, ChangeKeeps, ApplyKeeps, FinishKeeps, ApplyEndKeeps, ApplyChangeKeeps,
       ReplayKeeps, CastKeeps DEF Next
<1>2. CASE UNCHANGED vars
  BY <1>2, StutterKeeps
<1> QED
  BY <1>1, <1>2

\* Once the effects of every revocation of b have been sent, nothing b grants
\* no more is still served.
LEMMA InvRevoked ==
  ASSUME Inv
  PROVE  RevokedIsHidden
<1> SUFFICES ASSUME NEW a \in Accounts, NEW b \in Accounts,
                    a # b, presence[a] # 0, <<b, a>> \notin grants,
                    \A i \in DOMAIN work :
                       work[i].kind = "revoke" /\ work[i].of = b => work[i].pc = "done",
                    Shown(a, b) # 0
             PROVE  FALSE
  BY DEF RevokedIsHidden
<1>1. Served(b, a) \/ Telling({"revoke"}, a, b)
  BY DEF Inv, Pairs, PairOK, Covered
<1>2. CASE Telling({"revoke"}, a, b)
  BY <1>2 DEF Telling, Running
<1>3. CASE Served(b, a)
  <2>1. PICK m \in 1..New : Front(m, b, a) /\ GrantedAt(m, b, a)
    BY <1>3 DEF Served
  <2>2. TypeOK /\ New \in 1..New /\ m <= New
    BY <2>1, WorkDomain DEF Inv, New
  <2>3. ~GrantedAt(New, b, a)
    BY <2>2, GrantedNow
  <2>4. PICK c \in DOMAIN work : m <= c /\ IsChange(c, b, a) /\ work[c].kind = "revoke"
    BY <2>1, <2>2, <2>3, Revoked
  <2>5. Queued(c) /\ work[c].pc = "done"
    BY <2>1, <2>4 DEF Front, IsChange
  <2> QED
    BY <2>5 DEF Queued
<1> QED
  BY <1>1, <1>2, <1>3

\* When no change of it is under way, what is served is what is granted.
LEMMA IdleServed ==
  ASSUME TypeOK, NEW a, NEW b, Idle(b)
  PROVE  Served(b, a) <=> <<b, a>> \in grants
<1>1. New \in 1..New
  BY WorkDomain DEF New
<1>2. Front(New, b, a)
  BY WorkDomain DEF Idle, Admitted, Lines, Front, IsChange, Queued, New
<1>3. \A m \in 1..New : Front(m, b, a) => (GrantedAt(m, b, a) <=> GrantedAt(New, b, a))
  BY <1>1, <1>2, FrontsAgree
<1> QED
  BY <1>1, <1>2, <1>3, GrantedNow DEF Served

\* An idle account has no running task.
LEMMA IdleRuns ==
  ASSUME NEW a, Idle(a), NEW i \in DOMAIN work, Running(i)
  PROVE  work[i].of # a
  BY DEF Idle, Admitted, Lines, Running

\* Without tasks, what is served is what is granted, and it is the presence.
LEMMA InvSettled ==
  ASSUME Inv
  PROVE  ScreensAreTrue
<1> SUFFICES ASSUME NEW a \in Accounts, NEW b \in Accounts,
                    a # b, presence[a] # 0, Idle(a), Idle(b), retiring[b] = {}
             PROVE  Shown(a, b) = IF <<b, a>> \in grants THEN presence[b] ELSE 0
  BY DEF Inv, ScreensAreTrue, SettledIsTrue
<1>1. Covered(a, b) /\ Current(a, b)
  BY DEF Inv, Pairs, PairOK
<1>2. Served(b, a) <=> <<b, a>> \in grants
  BY IdleServed DEF Inv
<1>3. ~Telling({"set", "grant"}, a, b) /\ ~Telling({"revoke"}, a, b)
  BY IdleRuns DEF Telling
<1>4. ~Missing(a, b)
  BY IdleRuns DEF Missing
<1> QED
  BY <1>1, <1>2, <1>3, <1>4 DEF Covered, Current

\* The inductive invariant holds.
LEMMA InvHolds == Spec => []Inv
<1>1. Init => Inv
  BY InitInv
<1>2. Inv /\ [Next]_vars => Inv'
  BY NextKeeps
<1> QED
  BY <1>1, <1>2, PTL DEF Spec

\* A contact whose subscription has been cancelled, and whose withdrawal has
\* been sent, is shown nothing of the account, whatever updates and ends that
\* read the roster before the cancellation are still under way
\* (commit_and_deliver, withdrawal_snapshot, PresenceWork::run).
THEOREM RevokedTheorem == Spec => []RevokedIsHidden
<1>1. Inv => RevokedIsHidden
  BY InvRevoked
<1> QED
  BY <1>1, InvHolds, PTL

\* When the tasks of two accounts are done, the client of the one has been
\* told the presence of the other if the other grants it, and otherwise that
\* it is unavailable, however updates, subscription changes and ends of
\* sessions overlapped (PresenceWork, TerminalPresenceWork, cancel_subscription).
THEOREM ScreensTheorem == Spec => []ScreensAreTrue
<1>1. Inv => ScreensAreTrue
  BY InvSettled
<1> QED
  BY <1>1, InvHolds, PTL
=============================================================================
