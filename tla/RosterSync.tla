----------------------------- MODULE RosterSync -----------------------------
(***************************************************************************)
(* The roster of one account and the copies its clients keep of it. Every  *)
(* stored change has a version. A client asks for the roster with the      *)
(* version it holds, and is told that nothing changed, or is sent the       *)
(* whole roster; from then on its session is tagged, and each change is     *)
(* pushed to it as one item. A client keeps its copy while it is away.      *)
(*                                                                         *)
(* Reads and changes take tickets of the account (see Order), so that what  *)
(* is delivered for them keeps the order of the store. A stream writes its  *)
(* mailbox while it waits for a ticket to turn, and leaves the mailbox      *)
(* alone from then until it has written its reply.                          *)
(***************************************************************************)
EXTENDS Naturals, Sequences, FiniteSets, SequencesExt

CONSTANTS
    Clients,     \* the clients of the account, each with one session at a time
    Versioned,   \* those that use roster versions
    Capacity,    \* stanzas in a mailbox
    MaxVersion,  \* bound: changes of the roster
    MaxSessions  \* bound: sessions of a client

RosterSyncAssumption ==
    Versioned \subseteq Clients /\ Capacity \in Nat \ {0}

VARIABLES
    store,    \* [life, version]: which account of the name, and its version
    line,     \* tickets of the account; the first has turned when marked
    session,  \* session[c], and the work its stream waits for
    cache,    \* cache[c]: the version and the changes a client holds
    opened    \* sessions so far
vars == <<store, line, session, cache, opened>>

NoVersion == [life |-> 0, version |-> 0]
Nobody == [kind |-> "nobody"]

\* A roster is told by the changes that made it.
Roster(s) == {[life |-> s.life, version |-> v] : v \in 1..s.version}

Change == [life : 0..2, version : 0..MaxVersion]
Closed == [pc |-> "off", alive |-> FALSE, tagged |-> FALSE, box |-> <<>>, queued |-> <<>>,
           known |-> NoVersion, reply |-> Nobody]

TypeOK ==
    /\ store \in Change
    /\ \A c \in Clients :
        /\ session[c].pc \in {"off", "idle", "asked", "waiting", "turned", "done", "failed"}
        /\ Len(session[c].box) <= Capacity
        /\ cache[c].version \in Change /\ cache[c].changes \subseteq Change
    /\ opened \in [Clients -> 0..MaxSessions]

Init ==
    /\ store = [life |-> 1, version |-> 0]
    /\ line = <<>>
    /\ session = [c \in Clients |-> Closed]
    /\ cache = [c \in Clients |-> [version |-> NoVersion, changes |-> {}]]
    /\ opened = [c \in Clients |-> 0]

-----------------------------------------------------------------------------
(* What a client does with what it reads.                                    *)

\* A push names one item and the version it makes.
ApplyPush(copy, change) == [version |-> change, changes |-> copy.changes \cup {change}]
ApplyPushes(copy, pushes) == FoldLeft(ApplyPush, copy, pushes)

ApplyReply(copy, reply) ==
    IF reply.kind = "full" THEN [version |-> reply.roster, changes |-> Roster(reply.roster)]
    ELSE copy

-----------------------------------------------------------------------------
(* The session.                                                              *)

Connect(c) ==
    /\ session[c].pc = "off" /\ opened[c] < MaxSessions
    /\ session' = [session EXCEPT ![c] = [Closed EXCEPT !.pc = "idle", !.alive = TRUE]]
    /\ opened' = [opened EXCEPT ![c] = @ + 1]
    /\ UNCHANGED <<store, line, cache>>

\* The stream ends, by the client or because the router retired its session.
\* What it had not written is lost; its tickets still turn.
End(c) ==
    /\ session[c].pc # "off"
    /\ session' = [session EXCEPT ![c] = Closed]
    /\ UNCHANGED <<store, line, cache, opened>>

\* Variant: the stream goes on writing its mailbox after the turn.
MayDrain_Always(s) == s.pc # "off"

\* The mailbox is written while the stream is idle or waits for a turn.
MayDrain(s) == s.pc \in {"idle", "asked", "waiting"}

Drain(c) ==
    /\ MayDrain(session[c]) /\ session[c].box # <<>>
    /\ cache' = [cache EXCEPT ![c] = ApplyPushes(@, session[c].box)]
    /\ session' = [session EXCEPT ![c].box = <<>>]
    /\ UNCHANGED <<store, line, opened>>

-----------------------------------------------------------------------------
(* Asking for the roster.                                                    *)

\* The version the client sends. A client without a copy sends an empty one,
\* which is no number; one that does not use versions sends none.
Known(c) == IF c \in Versioned THEN cache[c].version ELSE NoVersion

Ask(c) ==
    /\ session[c].pc = "idle"
    /\ session' = [session EXCEPT ![c].pc = "asked", ![c].known = Known(c)]
    /\ UNCHANGED <<store, line, cache, opened>>

Snapshot == store

\* The snapshot is opened and the ticket taken in one step of the order.
FixGet(c) ==
    /\ session[c].pc = "asked"
    /\ line' = Append(line, [kind |-> "get", who |-> c, opened |-> opened[c], turned |-> FALSE,
                             roster |-> Snapshot, known |-> session[c].known, fits |-> TRUE])
    /\ session' = [session EXCEPT ![c].pc = "waiting"]
    /\ UNCHANGED <<store, cache, opened>>

\* Versions are compared as numbers: which account they are from is not in them.
Answer(known, roster) ==
    IF known # NoVersion /\ known.version = roster.version THEN [kind |-> "unchanged", roster |-> roster]
    ELSE [kind |-> "full", roster |-> roster]

-----------------------------------------------------------------------------
(* Changing it.                                                              *)

AdvanceVersion == [store EXCEPT !.version = @ + 1]

\* A change and its ticket. An item can be too large to be pushed.
Commit(ticketOf, fits) ==
    /\ store.version < MaxVersion
    /\ store' = AdvanceVersion
    /\ line' = Append(line, [kind |-> "set", who |-> ticketOf, turned |-> FALSE,
                             opened |-> IF ticketOf = Nobody THEN 0 ELSE opened[ticketOf],
                             roster |-> AdvanceVersion, known |-> NoVersion, fits |-> fits])
    /\ UNCHANGED <<cache, opened>>

Set(c) ==
    /\ session[c].pc = "idle"
    /\ Commit(c, TRUE)
    /\ session' = [session EXCEPT ![c].pc = "waiting"]

\* A subscription of the account changes, by itself or by the contact.
ChangeElsewhere(fits) == Commit(Nobody, fits) /\ UNCHANGED session

-----------------------------------------------------------------------------
(* Tickets turn in their order, and their work is done before the next.      *)

Asker(t) == IF t.who = Nobody THEN {} ELSE {c \in {t.who} : session[c].pc # "off" /\ opened[c] = t.opened}

\* The waiting stream is told, and what is in its mailbox is taken for it.
Turn ==
    /\ line # <<>> /\ ~Head(line).turned
    /\ line' = [line EXCEPT ![1].turned = TRUE]
    /\ session' = [c \in Clients |->
         IF c \in Asker(Head(line))
         THEN [session[c] EXCEPT !.pc = "turned", !.queued = session[c].box, !.box = <<>>]
         ELSE session[c]]
    /\ UNCHANGED <<store, cache, opened>>

\* From now on the session is one that changes are pushed to.
Tag(s) == [s EXCEPT !.tagged = TRUE]

\* The work of a get: the answer, and the session is tagged. A session that
\* is no longer registered cannot be; its stream ends without a reply.
RunGet ==
    /\ line # <<>> /\ Head(line).turned /\ Head(line).kind = "get"
    /\ session' = [c \in Clients |->
         IF c \notin Asker(Head(line)) THEN session[c]
         ELSE IF ~session[c].alive THEN [session[c] EXCEPT !.pc = "failed"]
         ELSE [Tag(session[c]) EXCEPT !.pc = "done",
                                      !.reply = Answer(Head(line).known, Head(line).roster)]]
    /\ line' = Tail(line)
    /\ UNCHANGED <<store, cache, opened>>

\* A session that is not sent a change is retired: it cannot be told later.
Evict(s) == [s EXCEPT !.alive = FALSE, !.tagged = FALSE]

PushTo(s, change) ==
    IF Len(s.box) < Capacity THEN [s EXCEPT !.box = Append(@, change)] ELSE Evict(s)

\* The change for every tagged session. One that cannot be built retires them.
PushToTagged(change, built) ==
    [c \in Clients |-> IF ~session[c].tagged THEN session[c]
                       ELSE IF built THEN PushTo(session[c], change) ELSE Evict(session[c])]

\* The work of a change. A failure to build it also fails the work, and with
\* it the stream that waits.
RunSet(built) ==
    /\ line # <<>> /\ Head(line).turned /\ Head(line).kind = "set"
    /\ LET t == Head(line)
           pushed == PushToTagged(t.roster, built /\ t.fits)
       IN session' = [c \in Clients |->
            IF c \notin Asker(t) THEN pushed[c]
            ELSE [pushed[c] EXCEPT !.pc = IF built THEN "done" ELSE "failed",
                                   !.reply = [kind |-> "done"]]]
    /\ line' = Tail(line)
    /\ UNCHANGED <<store, cache, opened>>

Written(c) == ApplyReply(ApplyPushes(cache[c], session[c].queued), session[c].reply)

WriteReply(c) ==
    /\ session[c].pc = "done"
    /\ cache' = [cache EXCEPT ![c] = Written(c)]
    /\ session' = [session EXCEPT ![c].pc = "idle", ![c].queued = <<>>, ![c].reply = Nobody,
                                  ![c].known = NoVersion]
    /\ UNCHANGED <<store, line, opened>>

\* The server stops: sessions and tickets are gone, the store and the
\* clients' copies stay.
Crash ==
    /\ line # <<>>
    /\ line' = <<>>
    /\ session' = [c \in Clients |-> Closed]
    /\ UNCHANGED <<store, cache, opened>>

Next ==
    \/ \E c \in Clients : Connect(c) \/ End(c) \/ Drain(c) \/ Ask(c) \/ FixGet(c) \/ Set(c) \/ WriteReply(c)
    \/ \E fits \in BOOLEAN : ChangeElsewhere(fits)
    \/ Turn \/ RunGet \/ Crash
    \/ \E built \in BOOLEAN : RunSet(built)

Spec == Init /\ [][Next]_vars

\* The account is deleted and one of the same name is made. Its items, its
\* requests and its version are deleted, and its sessions are retired.
Recreate ==
    /\ store.life = 1 /\ line = <<>>
    /\ store' = [life |-> 2, version |-> 0]
    /\ session' = [c \in Clients |-> Evict(session[c])]
    /\ UNCHANGED <<line, cache, opened>>

RecreateSpec == Init /\ [][Next \/ Recreate]_vars

-----------------------------------------------------------------------------
(* Properties.                                                               *)

\* The copy of a client is the roster of the version it names: no change is
\* skipped or applied to a later roster.
CopyIsWhole(c) == cache[c].changes = Roster(cache[c].version)

\* A session is at rest when it is tagged and everything for it is written.
AtRest(c) ==
    /\ session[c].tagged /\ session[c].pc = "idle" /\ session[c].box = <<>> /\ line = <<>>

\* Clients hold what their version says, through reconnections, crashes, full
\* mailboxes and pushes that cannot be built, and at rest they hold the
\* stored roster. (roster/mod.rs get and push_change, delivery after_turn,
\* route_to_tagged)
CopiesAreTrue ==
    \A c \in Clients :
        /\ CopyIsWhole(c)
        /\ AtRest(c) => cache[c].version = store

\* A client that is told that nothing changed holds the current roster
\* (versioning.rs: "Nothing, because the client already holds the current
\* roster.").
UnchangedMeansCurrent ==
    \A c \in Clients :
        session[c].reply.kind = "unchanged" => Roster(session[c].known) = Roster(session[c].reply.roster)
=============================================================================
