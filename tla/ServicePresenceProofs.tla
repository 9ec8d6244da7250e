----------------------- MODULE ServicePresenceProofs -----------------------
(***************************************************************************)
(* What a service believes of an address, for any number of sessions that  *)
(* replace one another and of stanzas their clients send.                  *)
(***************************************************************************)
EXTENDS ServicePresence, TLAPS

Sends(i, kind) == work[i].at = "dispatch" /\ work[i].kind = kind

Works == {Idle} \cup [kind : Kinds, at : {"gate", "record", "dispatch"}]

Types ==
  /\ stream \in [Sessions -> {"none", "open", "waits", "ending", "withdraws", "over"}]
  /\ holder \in Sessions \cup {0}
  /\ leased \in [Sessions -> BOOLEAN]
  /\ work \in [Sessions -> Works]
  /\ directed \in [Sessions -> BOOLEAN]
  /\ owed \in [Sessions -> BOOLEAN]
  /\ current \in Sessions \cup {0}
  /\ view \in Sessions \cup {0}

\* One stream has the lease, and nothing is recorded or sent without it.
Leases ==
  \A i \in Sessions :
    /\ leased[i] <=> holder = i
    /\ leased[i] => stream[i] \in {"open", "ending", "withdraws"}
    /\ work[i].at \in {"record", "dispatch"} => leased[i]
    /\ work[i].at = "gate" <=> stream[i] = "waits"

\* A grant is kept for the session that has the address, and owed by one that
\* had it.
Grants ==
  \A i \in Sessions :
    /\ directed[i] => current = i /\ leased[i]
    /\ owed[i] => current # i /\ leased[i]
    /\ current = i => stream[i] \in {"open", "waits", "ending"}

\* What was recorded is said or about to be, and what was said is taken back
\* by somebody.
Words ==
  \A i \in Sessions :
    /\ Sends(i, "available") => directed[i] \/ owed[i]
    /\ Sends(i, "unavailable") => ~directed[i]
    /\ directed[i] => view = i \/ Sends(i, "available")
    /\ view = i => directed[i] \/ owed[i] \/ Sends(i, "unavailable")

IInv == Types /\ Leases /\ Grants /\ Words

-----------------------------------------------------------------------------
LEMMA NoSessionZero == 0 \notin Sessions
  BY DEF Sessions

\* What a work is, read off its place.
LEMMA WorkKinds ==
  ASSUME Types, NEW i \in Sessions
  PROVE  /\ Running(i) <=> work[i].at # "none"
         /\ work[i].at \in {"none", "gate", "record", "dispatch"}
         /\ work[i].at # "none" => work[i].kind \in Kinds
  BY DEF Types, Works, Idle, Kinds, Running

LEMMA InitIInv == Init => IInv
  <1> SUFFICES ASSUME Init PROVE IInv
    OBVIOUS
  <1>1. Idle \in Works /\ Idle.at = "none"
    BY DEF Works, Idle
  <1>2. Types
    BY <1>1 DEF Init, Types
  <1>3. Leases /\ Grants
    BY <1>1, NoSessionZero DEF Init, Leases, Grants
  <1>4. Words
    BY <1>1, NoSessionZero DEF Init, Words, Sends, Idle
  <1> QED
    BY <1>2, <1>3, <1>4 DEF IInv

LEMMA BindKeeps ==
  ASSUME IInv, NEW i \in Sessions, Bind(i)
  PROVE  IInv'
  <1> USE NoSessionZero
  <1>1. Types'
    BY DEF IInv, Types, Bind, Works, Idle, Kinds, Tells
  <1>2. Leases'
    BY <1>1, WorkKinds DEF IInv, Types, Leases, Grants, Bind, Idle
  <1>3. Grants'
    BY <1>1, WorkKinds DEF IInv, Types, Leases, Grants, Bind, Idle
  <1>4. Words'
    BY <1>1, WorkKinds DEF IInv, Types, Leases, Grants, Words, Sends, Bind, Tells, Idle, Kinds
  <1> QED
    BY <1>1, <1>2, <1>3, <1>4 DEF IInv

LEMMA DirectKeeps ==
  ASSUME IInv, NEW i \in Sessions, NEW kind \in Kinds, Direct(i, kind)
  PROVE  IInv'
  <1> USE NoSessionZero
  <1>1. Types'
    BY DEF IInv, Types, Direct, Works, Idle, Kinds, Tells
  <1>2. Leases'
    BY <1>1, WorkKinds DEF IInv, Types, Leases, Grants, Direct, Idle
  <1>3. Grants'
    BY <1>1, WorkKinds DEF IInv, Types, Leases, Grants, Direct, Idle
  <1>4. Words'
    BY <1>1, WorkKinds DEF IInv, Types, Leases, Grants, Words, Sends, Direct, Tells, Idle, Kinds
  <1> QED
    BY <1>1, <1>2, <1>3, <1>4 DEF IInv

LEMMA AcquireKeeps ==
  ASSUME IInv, NEW i \in Sessions, Acquire(i)
  PROVE  IInv'
  <1> USE NoSessionZero
  <1>1. Types'
    <2>1. work[i].at = "gate"
      BY DEF IInv, Leases, Acquire
    <2>2. work[i] \in [kind : Kinds, at : {"gate", "record", "dispatch"}]
      BY <2>1 DEF IInv, Types, Works, Idle
    <2>3. [work[i] EXCEPT !.at = "record"] \in Works
      BY <2>2 DEF Works
    <2>4. work' = [work EXCEPT ![i] = [work[i] EXCEPT !.at = "record"]]
      BY DEF Acquire
    <2> QED
      BY <2>3, <2>4 DEF IInv, Types, Acquire
  <1>2. Leases'
    BY <1>1, WorkKinds DEF IInv, Types, Leases, Grants, Acquire, Idle
  <1>3. Grants'
    BY <1>1, WorkKinds DEF IInv, Types, Leases, Grants, Acquire, Idle
  <1>4. Words'
    BY <1>1, WorkKinds DEF IInv, Types, Leases, Grants, Words, Sends, Acquire, Tells, Idle, Kinds
  <1> QED
    BY <1>1, <1>2, <1>3, <1>4 DEF IInv

LEMMA RecordKeeps ==
  ASSUME IInv, NEW i \in Sessions, Record(i)
  PROVE  IInv'
  <1> USE NoSessionZero
  <1>1. work[i].at = "record" /\ leased[i] /\ work[i].kind \in Kinds
    BY WorkKinds DEF IInv, Leases, Record
  <1>2. work[i] \in [kind : Kinds, at : {"gate", "record", "dispatch"}]
    BY <1>1 DEF IInv, Types, Works, Idle
  <1>3. PICK w \in Works :
          /\ work' = [work EXCEPT ![i] = w]
          /\ \/ /\ current = i /\ w.at = "dispatch" /\ w.kind = work[i].kind
                /\ directed' = [directed EXCEPT ![i] = (work[i].kind = "available")]
             \/ /\ current # i \/ (work[i].kind = "available" /\ ~directed[i])
                /\ w.at = "none" /\ directed' = directed
    <2>1. [work[i] EXCEPT !.at = "dispatch"] \in Works /\ Idle \in Works /\ Idle.at = "none"
      BY <1>2 DEF Works, Idle
    <2>2. LET v == [work[i] EXCEPT !.at = "dispatch"]
          IN  v.at = "dispatch" /\ v.kind = work[i].kind
      BY <1>2
    <2> QED
      BY <2>1, <2>2 DEF Record
  <1>4. UNCHANGED <<stream, holder, leased, owed, current, view>>
    BY DEF Record
  <1>5. Types'
    BY <1>3, <1>4 DEF IInv, Types
  <1>6. /\ work'[i] = w /\ directed'[i] = IF w.at = "none" THEN directed[i]
                                                             ELSE work[i].kind = "available"
        /\ \A j \in Sessions : j # i => work'[j] = work[j] /\ directed'[j] = directed[j]
    BY <1>3 DEF IInv, Types
  <1>7. Leases'
    BY <1>1, <1>3, <1>4, <1>6 DEF IInv, Leases
  <1>8. Grants'
    BY <1>1, <1>3, <1>4, <1>6 DEF IInv, Grants
  <1>9. Words'
    BY <1>1, <1>3, <1>4, <1>6 DEF IInv, Grants, Words, Sends, Kinds
  <1> QED
    BY <1>5, <1>7, <1>8, <1>9 DEF IInv

LEMMA DispatchKeeps ==
  ASSUME IInv, NEW i \in Sessions, Dispatch(i)
  PROVE  IInv'
  <1> USE NoSessionZero
  <1>1. Types'
    BY DEF IInv, Types, Dispatch, Works, Idle, Kinds, Tells
  <1>2. Leases'
    BY <1>1, WorkKinds DEF IInv, Types, Leases, Grants, Dispatch, Idle
  <1>3. Grants'
    BY <1>1, WorkKinds DEF IInv, Types, Leases, Grants, Dispatch, Idle
  <1>4. Words'
    BY <1>1, WorkKinds DEF IInv, Types, Leases, Grants, Words, Sends, Dispatch, Tells, Idle, Kinds
  <1> QED
    BY <1>1, <1>2, <1>3, <1>4 DEF IInv

LEMMA UnavailableKeeps ==
  ASSUME IInv, NEW i \in Sessions, Unavailable(i)
  PROVE  IInv'
  <1> USE NoSessionZero
  <1>1. Types'
    BY DEF IInv, Types, Unavailable, Works, Idle, Kinds, Tells
  <1>2. Leases'
    BY <1>1, WorkKinds DEF IInv, Types, Leases, Grants, Unavailable, Idle
  <1>3. Grants'
    BY <1>1, WorkKinds DEF IInv, Types, Leases, Grants, Unavailable, Idle
  <1>4. Words'
    BY <1>1, WorkKinds DEF IInv, Types, Leases, Grants, Words, Sends, Unavailable, Tells, Idle, Kinds
  <1> QED
    BY <1>1, <1>2, <1>3, <1>4 DEF IInv

LEMMA EndKeeps ==
  ASSUME IInv, NEW i \in Sessions, End(i)
  PROVE  IInv'
  <1> USE NoSessionZero
  <1>1. Types'
    BY DEF IInv, Types, End, Works, Idle, Kinds, Tells
  <1>2. Leases'
    BY <1>1, WorkKinds DEF IInv, Types, Leases, Grants, End, Idle
  <1>3. Grants'
    BY <1>1, WorkKinds DEF IInv, Types, Leases, Grants, End, Idle
  <1>4. Words'
    BY <1>1, WorkKinds DEF IInv, Types, Leases, Grants, Words, Sends, End, Tells, Idle, Kinds
  <1> QED
    BY <1>1, <1>2, <1>3, <1>4 DEF IInv

LEMMA EndPresenceKeeps ==
  ASSUME IInv, NEW i \in Sessions, EndPresence(i)
  PROVE  IInv'
  <1> USE NoSessionZero
  <1>1. Types'
    BY DEF IInv, Types, EndPresence, Works, Idle, Kinds, Tells
  <1>2. Leases'
    BY <1>1, WorkKinds DEF IInv, Types, Leases, Grants, EndPresence, Idle
  <1>3. Grants'
    BY <1>1, WorkKinds DEF IInv, Types, Leases, Grants, EndPresence, Idle
  <1>4. Words'
    BY <1>1, WorkKinds DEF IInv, Types, Leases, Grants, Words, Sends, EndPresence, Tells, Idle, Kinds
  <1> QED
    BY <1>1, <1>2, <1>3, <1>4 DEF IInv

LEMMA WithdrawKeeps ==
  ASSUME IInv, NEW i \in Sessions, Withdraw(i)
  PROVE  IInv'
  <1> USE NoSessionZero
  <1>1. Types'
    BY DEF IInv, Types, Withdraw, Works, Idle, Kinds, Tells
  <1>2. Leases'
    BY <1>1, WorkKinds DEF IInv, Types, Leases, Grants, Withdraw, Idle
  <1>3. Grants'
    BY <1>1, WorkKinds DEF IInv, Types, Leases, Grants, Withdraw, Idle
  <1>4. Words'
    BY <1>1, WorkKinds DEF IInv, Types, Leases, Grants, Words, Sends, Withdraw, Tells, Idle, Kinds
  <1> QED
    BY <1>1, <1>2, <1>3, <1>4 DEF IInv

-----------------------------------------------------------------------------
LEMMA NextKeepsIInv ==
  ASSUME IInv, [Next]_vars
  PROVE  IInv'
  <1>1. CASE UNCHANGED vars
    BY <1>1 DEF IInv, Types, Leases, Grants, Words, Sends, vars
  <1>2. CASE Next
    BY <1>2, BindKeeps, DirectKeeps, AcquireKeeps, RecordKeeps, DispatchKeeps,
       UnavailableKeeps, EndKeeps, EndPresenceKeeps, WithdrawKeeps DEF Next
  <1> QED
    BY <1>1, <1>2

LEMMA IInvImpliesView == IInv => ViewIsTrue
  <1> SUFFICES ASSUME IInv, Settled
               PROVE  IF current # 0 /\ directed[current] THEN view = current ELSE view = 0
    BY DEF ViewIsTrue
  <1>1. \A i \in Sessions : work[i] = Idle
    BY DEF Settled, Running
  <1>2. \A i \in Sessions : \A kind : ~Sends(i, kind)
    BY <1>1 DEF Idle, Sends
  <1>3. CASE current # 0 /\ directed[current]
    BY <1>1, <1>2, <1>3 DEF IInv, Types, Words, Kinds
  <1>4. CASE ~(current # 0 /\ directed[current])
    <2> SUFFICES ASSUME view # 0 PROVE FALSE
      BY <1>4
    <2>1. view \in Sessions /\ (directed[view] \/ owed[view])
      BY <1>1, <1>2 DEF IInv, Types, Words, Kinds
    <2>2. owed[view]
      BY <1>4, <2>1, NoSessionZero DEF IInv, Grants
    <2> QED
      BY <2>1, <2>2 DEF IInv, Grants, Leases, Settled
  <1> QED
    BY <1>3, <1>4

\* The lease, the grants and the words about an address agree.
THEOREM Invariance == Spec => []IInv
  BY InitIInv, NextKeepsIInv, PTL DEF Spec

\* When nothing is under way the service believes present exactly the session
\* that told it so and lives, whatever its predecessors had said and however
\* late their last words were (service/presence.rs, TerminalPresenceWork).
THEOREM ServiceIsToldTheTruth == Spec => []ViewIsTrue
  BY Invariance, IInvImpliesView, PTL
=============================================================================
