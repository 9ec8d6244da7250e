------------------------------ MODULE Presence ------------------------------
(***************************************************************************)
(* Who is shown as online: presence updates, subscription changes and the  *)
(* end of sessions, running concurrently on the delivery order.            *)
(*                                                                         *)
(* A presence update (PresenceWork), the end of a session                  *)
(* (TerminalPresenceWork) and the effects of a subscription change         *)
(* (commit_and_deliver) are detached tasks.  Each reads or commits the     *)
(* roster while it takes a ticket in the lines of its accounts, waits for  *)
(* its turn, and sends presence one recipient at a time.  The stream of a  *)
(* session writes what its mailbox holds, stops draining when its own      *)
(* update has its turn, and then writes what the update returned.          *)
(*                                                                         *)
(* Order is used through what it guarantees (Order, OrderProofs): a ticket *)
(* is drawn with the view, and turns come in the order of the tickets.  A  *)
(* task is in work from its ticket on, at the number of the ticket, and in *)
(* a line until it is done: the lines are read off work.                   *)
(* Roster is used through Mirrored: one relation, grants, stands for both  *)
(* copies of a subscription.  An account has one resource at a time, a     *)
(* presence stanza is the number of the update that sent it, mailboxes do  *)
(* not overflow, and directed presence and policies are left out.          *)
(***************************************************************************)
EXTENDS Naturals, Sequences, FiniteSetsExt

CONSTANTS Accounts,     \* local accounts, each with one resource
          MaxWorks,     \* bound: updates, ends and changes in a behaviour
          MaxSessions   \* bound: sessions of an account in a behaviour

ASSUME BoundAssumption == MaxWorks \in Nat \ {0} /\ MaxSessions \in Nat \ {0}

VARIABLES
    grants,    \* committed roster state: <<a, b>>, a's presence is b's to see
    work,      \* the detached tasks, in the order of their tickets
    token,     \* Shard: the session that has the account's resource
    alive,     \* Session.alive
    presence,  \* Session.presence: 0, or the number of the update it is from
    retiring,  \* Shard.retiring: tokens of ended sessions not yet withdrawn
    mailbox,   \* the session's mailbox, entries <<account, presence>>
    busy,      \* the update or change the stream waits for, or 0
    kept,      \* what the finished update hands to the stream
    screen     \* what the client was told of each account last

vars == <<grants, work, token, alive, presence, retiring, mailbox, busy,
          kept, screen>>

\* The server starts with the rosters it has stored and no session.
Init ==
    /\ grants \in SUBSET {p \in Accounts \X Accounts : p[1] # p[2]}
    /\ work = <<>>
    /\ token = [a \in Accounts |-> 0]
    /\ alive = [a \in Accounts |-> FALSE]
    /\ presence = [a \in Accounts |-> 0]
    /\ retiring = [a \in Accounts |-> {}]
    /\ mailbox = [a \in Accounts |-> <<>>]
    /\ busy = [a \in Accounts |-> 0]
    /\ kept = [a \in Accounts |-> <<>>]
    /\ screen = [a \in Accounts |-> [b \in Accounts |-> 0]]

-----------------------------------------------------------------------------
(* Tickets, mailboxes and the client.                                      *)

New == Len(work) + 1
Subscribers(a) == {b \in Accounts \ {a} : <<a, b>> \in grants}
Contacts(a) == {b \in Accounts \ {a} : <<b, a>> \in grants}

\* Order::admit: the lines a ticket is in, until Order::release at "done"
Lines(i) == {work[i].of, work[i].to}
Admitted(i, a) == a \in Lines(i) /\ work[i].pc # "done"
\* Ticket::turn: the ticket is the oldest of every line it is in
Turn(i) == \A j \in 1..(i - 1) : \A a \in Lines(i) : ~Admitted(j, a)

\* deliver_presence: to the sessions that are available
Reaches(b) == alive[b] /\ presence[b] # 0
Deliver(b, entry) ==
    IF Reaches(b) THEN [mailbox EXCEPT ![b] = Append(@, entry)] ELSE mailbox

\* the client after the entries are written to it: of each account the last
Told(entries, b) == {k \in DOMAIN entries : entries[k][1] = b}
Write(shown, entries) ==
    [b \in Accounts |-> IF Told(entries, b) = {} THEN shown[b]
                        ELSE entries[Max(Told(entries, b))][2]]

\* the task is about the session that still has the resource
Mine(w) == token[w.of] = w.token /\ alive[w.of]

-----------------------------------------------------------------------------
(* Sessions.                                                               *)

\* register and bind_session; the resource of an ended session is free
Bind(a) ==
    /\ ~alive[a]
    /\ token[a] < MaxSessions
    /\ token' = [token EXCEPT ![a] = @ + 1]
    /\ alive' = [alive EXCEPT ![a] = TRUE]
    /\ UNCHANGED <<grants, work, presence, retiring, mailbox, busy, kept, screen>>

\* drain_mailbox and drain_until: not between the turn and the outcome of the
\* stream's own update or change
Drain(a) ==
    /\ alive[a]
    /\ mailbox[a] # <<>>
    /\ busy[a] # 0 => work[busy[a]].pc = "queued"
    /\ screen' = [screen EXCEPT ![a] = Write(@, mailbox[a])]
    /\ mailbox' = [mailbox EXCEPT ![a] = <<>>]
    /\ UNCHANGED <<grants, work, token, alive, presence, retiring, busy, kept>>

\* The stream is lost, or the session is evicted: end_presence (or remove_session)
\* at once, without a ticket; FixEnd is what its task does next.
End(a) ==
    /\ alive[a]
    /\ alive' = [alive EXCEPT ![a] = FALSE]
    /\ presence' = [presence EXCEPT ![a] = 0]
    /\ mailbox' = [mailbox EXCEPT ![a] = <<>>]
    /\ busy' = [busy EXCEPT ![a] = 0]
    /\ kept' = [kept EXCEPT ![a] = <<>>]
    /\ screen' = [screen EXCEPT ![a] = [b \in Accounts |-> 0]]
    /\ retiring' = IF presence[a] # 0 THEN [retiring EXCEPT ![a] = @ \cup {token[a]}]
                   ELSE retiring
    /\ UNCHANGED <<grants, work, token>>

-----------------------------------------------------------------------------
(* Presence updates.                                                       *)

\* handle_availability: the audience is read with the ticket; contacts and
\* probes only for initial presence.
Announce(a, on) ==
    /\ alive[a]
    /\ busy[a] = 0
    /\ New <= MaxWorks
    /\ work' = Append(work, [kind |-> "set", pc |-> "queued", of |-> a, to |-> a,
                             token |-> token[a], value |-> IF on THEN New ELSE 0,
                             left |-> Subscribers(a),
                             contacts |-> IF on /\ presence[a] = 0
                                          THEN Contacts(a) ELSE {}])
    /\ busy' = [busy EXCEPT ![a] = New]
    /\ UNCHANGED <<grants, token, alive, presence, retiring, mailbox, kept, screen>>

\* PresenceWork::run up to set_presence: the shard changes the presence and
\* cuts the mailbox in one step.  A session that has ended is not found, and
\* the ticket is dropped.
Apply(i) ==
    LET w == work[i]
        a == w.of
    IN  /\ w.kind = "set"
        /\ w.pc = "queued"
        /\ Turn(i)
        /\ \/ /\ ~Mine(w)
              /\ work' = [work EXCEPT ![i].pc = "done"]
              /\ UNCHANGED <<presence, kept, mailbox>>
           \/ /\ Mine(w)
              /\ presence' = [presence EXCEPT ![a] = w.value]
              /\ kept' = [kept EXCEPT ![a] = mailbox[a]]
              /\ mailbox' = [mailbox EXCEPT ![a] = <<>>]
              /\ work' = [work EXCEPT ![i].pc = "replay",
                                      ![i].left = IF w.value # 0 \/ presence[a] # 0
                                                  THEN @ ELSE {}]
        /\ UNCHANGED <<grants, token, alive, retiring, busy, screen>>

\* current_presence of one contact, kept for the stream
Replay(i, c) ==
    LET w == work[i]
    IN  /\ w.pc = "replay"
        /\ c \in w.contacts
        /\ kept' = IF Mine(w) /\ presence[c] # 0
                   THEN [kept EXCEPT ![w.of] = Append(@, <<c, presence[c]>>)]
                   ELSE kept
        /\ work' = [work EXCEPT ![i].contacts = @ \ {c}]
        /\ UNCHANGED <<grants, token, alive, presence, retiring, mailbox,
                       busy, screen>>

\* broadcast_presence, the routes of current and unavailable presence: one
\* recipient, when the contacts have been read
Cast(i, b) ==
    LET w == work[i]
    IN  /\ w.pc \in {"replay", "cast"}
        /\ w.contacts = {}
        /\ b \in w.left
        /\ mailbox' = Deliver(b, <<w.of, w.value>>)
        /\ work' = [work EXCEPT ![i].left = @ \ {b}]
        /\ UNCHANGED <<grants, token, alive, presence, retiring, busy, kept,
                       screen>>

\* The task has told everyone and drops its ticket; the end of a session
\* leaves the retiring ones first (finish_presence).
Finish(i) ==
    LET w == work[i]
    IN  /\ w.pc \in {"replay", "cast"}
        /\ w.contacts = {}
        /\ w.left = {}
        /\ work' = [work EXCEPT ![i].pc = "done"]
        /\ retiring' = IF w.kind = "end"
                       THEN [retiring EXCEPT ![w.of] = @ \ {w.token}]
                       ELSE retiring
        /\ UNCHANGED <<grants, token, alive, presence, mailbox, busy, kept, screen>>

\* The stream takes the outcome: what was cut off, then the replay.  A client
\* that has gone unavailable forgets what it was told.
Outcome(a) ==
    /\ alive[a]
    /\ busy[a] # 0
    /\ work[busy[a]].pc = "done"
    /\ LET w == work[busy[a]]
       IN  screen' = [screen EXCEPT ![a] =
                        IF w.kind = "set" /\ w.value = 0
                        THEN [b \in Accounts |-> 0]
                        ELSE Write(@, kept[a])]
    /\ kept' = [kept EXCEPT ![a] = <<>>]
    /\ busy' = [busy EXCEPT ![a] = 0]
    /\ UNCHANGED <<grants, work, token, alive, presence, retiring, mailbox>>

-----------------------------------------------------------------------------
(* The end of a session.                                                   *)

\* TerminalPresenceWork::run: the audience is read with the ticket
FixEnd(a, t) ==
    /\ t \in retiring[a]
    /\ \A i \in DOMAIN work : ~(work[i].kind = "end" /\ work[i].of = a /\ work[i].token = t)
    /\ New <= MaxWorks
    /\ work' = Append(work, [kind |-> "end", pc |-> "queued", of |-> a, to |-> a,
                             token |-> t, value |-> 0, left |-> Subscribers(a),
                             contacts |-> {}])
    /\ UNCHANGED <<grants, token, alive, presence, retiring, mailbox, busy, kept, screen>>

\* Mutant: the end is told although the resource is in use again.
ApplyEnd_IgnoresReplacement(i) ==
    LET w == work[i]
    IN  /\ w.kind = "end"
        /\ w.pc = "queued"
        /\ Turn(i)
        /\ work' = [work EXCEPT ![i].pc = "cast"]
        /\ UNCHANGED <<grants, token, alive, presence, retiring, mailbox, busy,
                       kept, screen>>

\* its turn: nobody is told when a new session has the resource and is
\* available (replacement_is_available)
ApplyEnd(i) ==
    LET w == work[i]
    IN  /\ w.kind = "end"
        /\ w.pc = "queued"
        /\ Turn(i)
        /\ work' = [work EXCEPT ![i].pc = "cast",
                                ![i].left = IF Reaches(w.of) THEN {} ELSE @]
        /\ UNCHANGED <<grants, token, alive, presence, retiring, mailbox, busy,
                       kept, screen>>

-----------------------------------------------------------------------------
(* Subscription changes.                                                   *)

\* commit_and_deliver of a subscription that x, the one party or the other,
\* starts or ends: the commit draws a ticket in both lines.
Change(x, g, s) ==
    /\ g # s
    /\ x \in {g, s}
    /\ alive[x]
    /\ busy[x] = 0
    /\ New <= MaxWorks
    /\ grants' = IF <<g, s>> \in grants THEN grants \ {<<g, s>>} ELSE grants \cup {<<g, s>>}
    /\ work' = Append(work, [kind |-> IF <<g, s>> \in grants THEN "revoke" ELSE "grant",
                             pc |-> "queued", of |-> g, to |-> s,
                             token |-> 0, value |-> 0, left |-> {s}, contacts |-> {}])
    /\ busy' = [busy EXCEPT ![x] = New]
    /\ UNCHANGED <<token, alive, presence, retiring, mailbox, kept, screen>>

\* Mutant: only the sessions that are there are withdrawn.
Withdraws_PresentOnly(g) == presence[g] # 0

\* withdrawal_snapshot: the presence a contact may still have been told of,
\* that of a session that has ended and is not yet withdrawn included
Withdraws(g) == presence[g] # 0 \/ retiring[g] # {}

\* current_presence and unavailable_presence: the snapshot of the grantor
ApplyChange(i) ==
    LET w == work[i]
        send == IF w.kind = "grant" THEN presence[w.of] # 0 ELSE Withdraws(w.of)
    IN  /\ w.kind \in {"grant", "revoke"}
        /\ w.pc = "queued"
        /\ Turn(i)
        /\ work' = [work EXCEPT ![i].pc = "cast",
                                ![i].value = IF w.kind = "grant" THEN presence[w.of] ELSE 0,
                                ![i].left = IF send THEN @ ELSE {}]
        /\ UNCHANGED <<grants, token, alive, presence, retiring, mailbox, busy,
                       kept, screen>>

\* No task holds a ticket; the bounds may leave nothing to start.
Rest ==
    /\ \A i \in DOMAIN work : work[i].pc = "done"
    /\ UNCHANGED vars

Next ==
    \/ \E a \in Accounts :
          \/ Bind(a)
          \/ Drain(a)
          \/ End(a)
          \/ \E on \in BOOLEAN : Announce(a, on)
          \/ Outcome(a)
          \/ \E t \in retiring[a] : FixEnd(a, t)
    \/ \E i \in DOMAIN work :
          \/ Apply(i)
          \/ Finish(i)
          \/ ApplyEnd(i)
          \/ ApplyChange(i)
          \/ \E b \in Accounts : Replay(i, b) \/ Cast(i, b)
    \/ \E x, g, s \in Accounts : Change(x, g, s)
    \/ Rest

Spec == Init /\ [][Next]_vars

-----------------------------------------------------------------------------
(* Properties.                                                             *)

Works == [kind : {"set", "end", "grant", "revoke"},
          pc : {"queued", "replay", "cast", "done"},
          of : Accounts, to : Accounts, token : 0..MaxSessions, value : 0..MaxWorks,
          left : SUBSET Accounts, contacts : SUBSET Accounts]

\* Every variable has its type, and only the living are available.
TypeOK ==
    /\ grants \subseteq Accounts \X Accounts
    /\ work \in Seq(Works)
    /\ Len(work) <= MaxWorks
    /\ token \in [Accounts -> 0..MaxSessions]
    /\ alive \in [Accounts -> BOOLEAN]
    /\ presence \in [Accounts -> 0..MaxWorks]
    /\ \A a \in Accounts : presence[a] # 0 => alive[a]
    /\ retiring \in [Accounts -> SUBSET (0..MaxSessions)]
    /\ mailbox \in [Accounts -> Seq(Accounts \X (0..MaxWorks))]
    /\ busy \in [Accounts -> 0..MaxWorks]
    /\ kept \in [Accounts -> Seq(Accounts \X (0..MaxWorks))]
    /\ screen \in [Accounts -> [Accounts -> 0..MaxWorks]]

\* What a's client is or will be told of b last.
Shown(a, b) == Write(screen[a], kept[a] \o mailbox[a])[b]

\* No task holds a ticket in the line of the account.
Idle(a) == \A i \in DOMAIN work : ~Admitted(i, a)

\* Once the tasks of two accounts are done, an available client has been told
\* exactly what is so: the contact's latest presence if the contact grants it,
\* and otherwise that the contact is unavailable.  This is whatever the order
\* in which updates, subscription changes and ends of sessions overlapped.
SettledIsTrue ==
    \A a, b \in Accounts :
        a # b /\ presence[a] # 0 /\ Idle(a) /\ Idle(b) /\ retiring[b] = {}
        => Shown(a, b) = IF <<b, a>> \in grants THEN presence[b] ELSE 0

\* The types, and a settled client is told what is so and nothing else
\* (PresenceWork, TerminalPresenceWork, cancel_subscription).
ScreensAreTrue == TypeOK /\ SettledIsTrue

\* Once the effects of a revocation have been sent, the contact sees the
\* revoker as unavailable and keeps doing so, whatever either of them still
\* has under way: no task that read the roster before the revocation tells
\* the contact anything after it.
RevokedIsHidden ==
    \A a, b \in Accounts :
        /\ a # b
        /\ presence[a] # 0
        /\ <<b, a>> \notin grants
        /\ \A i \in DOMAIN work :
              work[i].kind = "revoke" /\ work[i].of = b => work[i].pc = "done"
        => Shown(a, b) = 0
=============================================================================
