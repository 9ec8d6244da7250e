------------------------------- MODULE Order -------------------------------
(***************************************************************************)
(* The delivery order of the server (lonewolf-core, order/mod.rs).         *)
(*                                                                         *)
(* A task that changes storage, or that reads it to decide what to send,   *)
(* fixes its storage view under one asynchronous lock and takes a ticket   *)
(* in the lines of the accounts it is about before it lets the lock go.    *)
(* It delivers its effects when every conflicting older ticket is gone.    *)
(* An account deletion takes a global ticket: a barrier against all lines. *)
(***************************************************************************)
EXTENDS Naturals, Sequences

CONSTANTS Clients,     \* the tasks that fix a view and deliver its effects
          Accounts,    \* the accounts that have a line
          NoClient,    \* "the fixing lock is free"
          MaxTickets   \* bound on the u64 ticket counter

ASSUME OrderAssumption == /\ MaxTickets \in Nat
                          /\ NoClient \notin Clients

VARIABLES
  next,      \* Lines.next
  queues,    \* Lines.queues; an absent queue is the empty one
  waiting,   \* Lines.waiting; "ready" is TRUE while the sender is unsent
  globals,   \* Lines.globals
  fixing,    \* the holder of Order.fixing
  stored,    \* the version of the storage: one more with every commit
  pc,        \* where each task is in fix / turn / drop
  ticket,    \* the id of the ticket a task holds
  asked,     \* what the task passed to fix (accounts) or fix_all (global)
  view,      \* the storage version the task has fixed
  shown      \* the last view whose effects an account was shown

lines == <<next, queues, waiting, globals>>
vars  == <<next, queues, waiting, globals, fixing, stored, pc, ticket, asked,
           view, shown>>

Stages  == {"idle", "fixing", "fixed", "held", "turn"}

\* fix takes the accounts concerned, fix_all none.
Requests == {r \in [accounts : SUBSET Accounts, global : BOOLEAN] :
               r.global => r.accounts = {}}

Init ==
  /\ next = 0
  /\ queues = [a \in Accounts |-> <<>>]
  /\ waiting = [i \in {} |-> 0]
  /\ globals = {}
  /\ fixing = NoClient
  /\ stored = 0
  /\ pc = [c \in Clients |-> "idle"]
  /\ ticket = [c \in Clients |-> 0]
  /\ asked = [c \in Clients |-> [accounts |-> {}, global |-> FALSE]]
  /\ view = [c \in Clients |-> 0]
  /\ shown = [a \in Accounts |-> 0]

\* The task is over: its locals are gone.
Done(c) ==
  /\ pc' = [pc EXCEPT ![c] = "idle"]
  /\ ticket' = [ticket EXCEPT ![c] = 0]
  /\ asked' = [asked EXCEPT ![c] = [accounts |-> {}, global |-> FALSE]]
  /\ view' = [view EXCEPT ![c] = 0]

-----------------------------------------------------------------------------
(* Lines *)

\* Mutant: a barrier is woken although older tickets still wait.
IsFirst_BarrierOvertakes(id, w, q, g) ==
  /\ \A h \in g : h >= id
  /\ \A a \in w[id].accounts : q[a] # <<>> /\ Head(q[a]) = id

\* The test of Lines::wake_if_first.
IsFirst(id, w, q, g) ==
  /\ \A h \in g : h >= id
  /\ id \in g => \A other \in DOMAIN w : id <= other
  /\ \A a \in w[id].accounts : q[a] # <<>> /\ Head(q[a]) = id

\* Lines::wake_if_first for every id of a set: the senders of those that are
\* first are taken and sent.
Wake(ids, w, q, g) ==
  [i \in DOMAIN w |->
     IF i \in ids /\ IsFirst(i, w, q, g)
       THEN [accounts |-> w[i].accounts, ready |-> FALSE]
       ELSE w[i]]

\* VecDeque::retain(|ticket| *ticket != id) on a queue, which holds id at
\* most once.
Retain(q, id) ==
  IF \E k \in DOMAIN q : q[k] = id
    THEN LET k == CHOOSE k \in DOMAIN q : q[k] = id
         IN  [j \in 1 .. Len(q) - 1 |-> IF j < k THEN q[j] ELSE q[j + 1]]
    ELSE q

\* The lines, the table and the barriers with a new ticket ...
PushBack(q, accounts, id) ==
  [a \in Accounts |-> IF a \in accounts THEN Append(q[a], id) ELSE q[a]]

Insert(w, accounts, id) ==
  [i \in DOMAIN w \cup {id} |->
     IF i = id THEN [accounts |-> accounts, ready |-> TRUE] ELSE w[i]]

InsertGlobal(g, isGlobal, id) == IF isGlobal THEN g \cup {id} ELSE g

\* ... and the lines and the table without one.
RetainAll(q, accounts, id) ==
  [a \in Accounts |-> IF a \in accounts THEN Retain(q[a], id) ELSE q[a]]

Remove(w, id) == [i \in DOMAIN w \ {id} |-> w[i]]

\* Mutant: a released ticket does not wake the oldest barrier.
Candidates_ForgetsBarrier(wasGlobal, accounts, w, q, g) ==
  {Head(q[a]) : a \in {b \in accounts : q[b] # <<>>}}
    \cup IF wasGlobal THEN DOMAIN w ELSE {}

\* The ids release passes to wake_if_first: the new head of each of the
\* ticket's lines, and the oldest barrier; after a barrier, everyone.
Candidates(wasGlobal, accounts, w, q, g) ==
  {Head(q[a]) : a \in {b \in accounts : q[b] # <<>>}}
    \cup IF wasGlobal THEN DOMAIN w
                      ELSE {h \in g : \A other \in g : h <= other}

-----------------------------------------------------------------------------
(* Operations *)

\* Mutant: the view is fixed outside the lock.
Lock_WithoutLock(c) ==
  /\ pc[c] = "idle"
  /\ next < MaxTickets
  /\ \E r \in Requests : asked' = [asked EXCEPT ![c] = r]
  /\ fixing' = c
  /\ pc' = [pc EXCEPT ![c] = "fixing"]
  /\ UNCHANGED <<lines, stored, ticket, view, shown>>

\* fix and fix_all: self.fixing.lock().await
Lock(c) ==
  /\ pc[c] = "idle"
  /\ fixing = NoClient
  /\ next < MaxTickets
  /\ \E r \in Requests : asked' = [asked EXCEPT ![c] = r]
  /\ fixing' = c
  /\ pc' = [pc EXCEPT ![c] = "fixing"]
  /\ UNCHANGED <<lines, stored, ticket, view, shown>>

\* The awaited future succeeds: a commit makes a new version of the storage,
\* a read transaction sees the current one.
FixView(c) ==
  /\ pc[c] = "fixing"
  /\ \E v \in {stored, stored + 1} :
       /\ stored' = v
       /\ view' = [view EXCEPT ![c] = v]
  /\ pc' = [pc EXCEPT ![c] = "fixed"]
  /\ UNCHANGED <<lines, fixing, ticket, asked, shown>>

\* The future fails, or the caller is cancelled: no ticket, the lock is freed.
FixError(c) ==
  /\ pc[c] = "fixing"
  /\ fixing' = NoClient
  /\ Done(c)
  /\ UNCHANGED <<lines, stored, shown>>

\* Order::admit, then the guard of the fixing lock is dropped.
Admit(c) ==
  LET r  == asked[c]
      g1 == InsertGlobal(globals, r.global, next)
      q1 == PushBack(queues, r.accounts, next)
      w1 == Insert(waiting, r.accounts, next)
  IN  /\ pc[c] = "fixed"
      /\ next' = next + 1
      /\ globals' = g1
      /\ queues' = q1
      /\ waiting' = Wake({next}, w1, q1, g1)
      /\ ticket' = [ticket EXCEPT ![c] = next]
      /\ fixing' = NoClient
      /\ pc' = [pc EXCEPT ![c] = "held"]
      /\ UNCHANGED <<stored, asked, view, shown>>

\* Mutant: a task delivers under the lock that fixes views.
Turn_UnderLock(c) ==
  /\ pc[c] = "held"
  /\ fixing = NoClient
  /\ ~waiting[ticket[c]].ready
  /\ pc' = [pc EXCEPT ![c] = "turn"]
  /\ shown' = [a \in Accounts |->
                 IF asked[c].global \/ a \in asked[c].accounts THEN view[c]
                                                               ELSE shown[a]]
  /\ UNCHANGED <<lines, fixing, stored, ticket, asked, view>>

\* Ticket::turn returns once the sender has sent. What follows shows the
\* task's effects to its accounts; a deletion's effects reach every account.
Turn(c) ==
  /\ pc[c] = "held"
  /\ ~waiting[ticket[c]].ready
  /\ pc' = [pc EXCEPT ![c] = "turn"]
  /\ shown' = [a \in Accounts |->
                 IF asked[c].global \/ a \in asked[c].accounts THEN view[c]
                                                               ELSE shown[a]]
  /\ UNCHANGED <<lines, fixing, stored, ticket, asked, view>>

\* Order::release for a ticket.
Release(id) ==
  LET accounts == waiting[id].accounts
      g1 == globals \ {id}
      q1 == RetainAll(queues, accounts, id)
      w1 == Remove(waiting, id)
  IN  /\ globals' = g1
      /\ queues' = q1
      /\ waiting' = Wake(Candidates(id \in globals, accounts, w1, q1, g1),
                         w1, q1, g1)
      /\ next' = next

\* Drop for Ticket, after the turn (the work is done) ...
Finish(c) ==
  /\ pc[c] = "turn"
  /\ Release(ticket[c])
  /\ Done(c)
  /\ UNCHANGED <<fixing, stored, shown>>

\* ... and before it: the place is given up without delivering.
Abandon(c) ==
  /\ pc[c] = "held"
  /\ Release(ticket[c])
  /\ Done(c)
  /\ UNCHANGED <<fixing, stored, shown>>

\* The bound on the tickets is reached and every task has finished.
Exhausted ==
  /\ next = MaxTickets
  /\ \A c \in Clients : pc[c] = "idle"
  /\ UNCHANGED vars

Step(c) == \/ Lock(c)
           \/ FixView(c)
           \/ FixError(c)
           \/ Admit(c)
           \/ Turn(c)
           \/ Finish(c)
           \/ Abandon(c)

Next == (\E c \in Clients : Step(c)) \/ Exhausted

\* Every task that was given its turn runs its delivery to the end and drops
\* its ticket; a delivery awaits no ticket of another task.
Fairness == \A c \in Clients : WF_vars(Turn(c)) /\ WF_vars(Finish(c))

Spec == Init /\ [][Next]_vars /\ Fairness

-----------------------------------------------------------------------------
(* Properties *)

\* Shape of the state. Beyond it: barriers are outstanding tickets, and every
\* outstanding ticket is older than the counter (Order::admit, Order::release).
TypeOK ==
  /\ next \in 0 .. MaxTickets
  /\ queues \in [Accounts -> Seq(Nat)]
  /\ waiting \in [DOMAIN waiting -> [accounts : SUBSET Accounts, ready : BOOLEAN]]
  /\ DOMAIN waiting \subseteq 0 .. next - 1
  /\ globals \subseteq DOMAIN waiting
  /\ fixing \in Clients \cup {NoClient}
  /\ stored \in Nat
  /\ pc \in [Clients -> Stages]
  /\ ticket \in [Clients -> Nat]
  /\ asked \in [Clients -> Requests]
  /\ view \in [Clients -> Nat]
  /\ shown \in [Accounts -> Nat]

\* Two tickets must not deliver at once: they share an account, or one of
\* them is a barrier.
Conflict(i, j) ==
  \/ i \in globals
  \/ j \in globals
  \/ waiting[i].accounts \cap waiting[j].accounts # {}

\* No older ticket stands in the way of this one.
Unblocked(i) == \A j \in DOMAIN waiting : j < i => ~Conflict(i, j)

\* A ticket's sender has been sent exactly when no older conflicting ticket
\* is left. One direction is that no wake-up is lost, whatever line a
\* release, a barrier or an abandoned ticket unblocks (Order::release wakes
\* only some heads); the other is that nobody is woken early
\* (Lines::wake_if_first).
WokenIffUnblocked ==
  \A i \in DOMAIN waiting : ~waiting[i].ready <=> Unblocked(i)

\* No two tasks that were given their turn conflict: deliveries about one
\* account never overlap, and nothing overlaps an account deletion
\* (Ticket::turn, Order::fix_all).
TurnsExclude ==
  \A c, d \in Clients :
    c # d /\ pc[c] = "turn" /\ pc[d] = "turn" => ~Conflict(ticket[c], ticket[d])

\* An account is never shown the effects of an older storage view after
\* those of a newer one, with deletions ordered against every account: the
\* comment on Order::fixing.
ViewsAdvance == [][\A a \in Accounts : shown[a] <= shown'[a]]_vars

\* Every ticket is given its turn unless its holder drops it first: lines of
\* several accounts and barriers never wait on each other in a circle, and
\* later tickets cannot overtake for ever (Order::release).
EveryTicketTurns ==
  \A c \in Clients : pc[c] = "held" ~> pc[c] # "held"
=============================================================================
