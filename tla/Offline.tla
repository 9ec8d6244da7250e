------------------------------ MODULE Offline ------------------------------
(***************************************************************************)
(* Offline messages of one local account: storing, rerouting, replay and   *)
(* acknowledgement, against sessions that come and go and against the      *)
(* deletion and recreation of the account.                                 *)
(*                                                                         *)
(* Composes stages/message.rs, delivery/mod.rs (commit_and_store), the     *)
(* offline extension and its storage, the bound session's outbox, the      *)
(* local router's choice of a recipient, account_deletion.rs and the admin *)
(* API's lifecycle lock. All deliveries concern one account, so the Order  *)
(* of the account is one line: by Order's theorems a task fixes its view   *)
(* and takes its place in one step, and works while it is at the head.     *)
(***************************************************************************)
EXTENDS Naturals, Sequences, FiniteSets

CONSTANTS Senders,       \* streams that send messages to the account
          Sessions,      \* sessions of the account
          NoTask,        \* "nobody holds the write transaction"
          MaxMessages,   \* bound: messages each sender sends
          Quota,         \* max_messages_per_account
          Capacity,      \* RESOURCE_QUEUE_CAPACITY of a session's mailbox
          MaxDeletions   \* bound: account deletions

VARIABLES
  present,    \* the account record is in storage
  stored,     \* OFFLINE table: its entries [msg, seq], keyed by sequence
  lastSeq,    \* SEQUENCES table: the last sequence given out, 0 if none
  writer,     \* the task with the one open write transaction
  line,       \* the account's line of Order: tasks, the head has its turn
  sender,     \* each sender: pc, number of its current message, its sequence
  session,    \* the session as the router and its stream know it
  work,       \* the session's presence work
  ack,        \* the session's two acknowledgement tasks
  deletion,   \* the deletion worker; it holds the lifecycle lock unless idle
  deletions,  \* deletions so far
  owed,       \* messages committed to storage, not flushed to a client yet and
              \* not deleted with the account
  seen,       \* what each session's client got since it became eligible
  missed      \* owed messages whose live or replayed copy was refused or lost

storage == <<present, stored, lastSeq, writer>>
admin   == <<deletion, deletions>>
history == <<owed, seen, missed>>
vars == <<present, stored, lastSeq, writer, line, sender, session, work, ack,
          deletion, deletions, owed, seen, missed>>

Messages == Senders \X (1 .. MaxMessages)
Entries  == [msg : Messages, seq : Nat]
Tasks    == ({"store"} \X Senders) \cup ({"presence", "replay", "live"} \X Sessions)
              \cup {<<"delete", NoTask>>}

ASSUME OfflineAssumption ==
  /\ MaxMessages \in Nat /\ MaxDeletions \in Nat
  /\ Quota \in Nat \ {0} /\ Capacity \in Nat \ {0}
  /\ NoTask \notin Tasks

Priorities == {"none", "eligible"}   \* no or a negative priority, a priority >= 0

Msgs(entries) == {entries[k].msg : k \in DOMAIN entries}   \* of a sequence
Kept(table) == {e.msg : e \in table}                       \* of a table

\* The table read in the order of its key.
Rank(table, e) == Cardinality({x \in table : x.seq <= e.seq})
Ordered(table) ==
  [k \in 1 .. Cardinality(table) |-> CHOOSE e \in table : Rank(table, e) = k]

\* Presence work, and acknowledgement tasks, that do not run.
NoWork == [pc |-> "none", priority |-> "none", backlog |-> <<>>, preceding |-> <<>>]
NoAck  == [replay |-> "idle", watermark |-> 0, through |-> 0,
           live |-> "idle", pending |-> {}, batch |-> {}, failed |-> FALSE]

\* A session that is not registered. An outbox entry carries the sequence to
\* release when it is flushed, 0 for none; through is that of a backlog.
NoSession == [pc |-> "out", alive |-> FALSE, priority |-> "none",
              mailbox |-> <<>>, outbox |-> <<>>, through |-> 0]

Init ==
  /\ present = TRUE
  /\ stored = {}
  /\ lastSeq = 0
  /\ writer = NoTask
  /\ line = <<>>
  /\ sender = [p \in Senders |-> [pc |-> "ready", n |-> 1, seq |-> 0]]
  /\ session = [s \in Sessions |-> NoSession]
  /\ work = [s \in Sessions |-> NoWork]
  /\ ack = [s \in Sessions |-> NoAck]
  /\ deletion = "idle"
  /\ deletions = 0
  /\ owed = {}
  /\ seen = [s \in Sessions |-> <<>>]
  /\ missed = {}

-----------------------------------------------------------------------------
(* Routing *)

Eligible(s) == session[s].alive /\ session[s].priority = "eligible"

\* The task at the head of the account's line has its turn.
AtHead(task) == line # <<>> /\ Head(line) = task

\* Shard::deliver_bare for a normal or chat message: an eligible session gets
\* it unless its mailbox is full. Which one is best is left open.
Deliver(entry, delivered, refused, offline) ==
  \/ /\ \A s \in Sessions : ~Eligible(s)
     /\ offline
     /\ UNCHANGED session
  \/ \E s \in Sessions :
       /\ Eligible(s)
       /\ Len(session[s].mailbox) < Capacity
       /\ session' = [session EXCEPT ![s].mailbox = Append(@, entry)]
       /\ delivered
  \/ \E s \in Sessions :
       /\ Eligible(s)
       /\ Len(session[s].mailbox) >= Capacity
       /\ refused
       /\ UNCHANGED session

-----------------------------------------------------------------------------
(* Sending: stages/message.rs and commit_and_store *)

Current(p) == <<p, sender[p].n>>

\* The sender's stream is done with its message and takes the next one.
NextMessage(p) ==
  sender' = [sender EXCEPT ![p] = [pc |-> "ready", n |-> @.n + 1, seq |-> 0]]

\* deliver_unrecorded: route; an offline recipient leads to store.
Route(p) ==
  /\ sender[p].pc = "ready"
  /\ sender[p].n <= MaxMessages
  /\ Deliver([msg |-> Current(p), seq |-> 0],
             NextMessage(p), NextMessage(p),
             sender' = [sender EXCEPT ![p].pc = "offline"])
  /\ UNCHANGED <<storage, line, work, ack, admin, history>>

\* begin_write and Offline::store: quota, account, next sequence.
Store(p) ==
  /\ sender[p].pc = "offline"
  /\ writer = NoTask
  /\ \/ /\ Cardinality(stored) >= Quota \/ ~present
        /\ NextMessage(p)
        /\ UNCHANGED writer
     \/ /\ Cardinality(stored) < Quota /\ present
        /\ sender' = [sender EXCEPT ![p].pc = "writing", ![p].seq = lastSeq + 1]
        /\ writer' = <<"store", p>>
  /\ UNCHANGED <<present, stored, lastSeq, line, session, work, ack, admin,
                 history>>

\* fix([recipient], commit): the message is stored and the task takes its
\* place in the line.
CommitStore(p) ==
  /\ sender[p].pc = "writing"
  /\ stored' = stored \cup {[msg |-> Current(p), seq |-> sender[p].seq]}
  /\ lastSeq' = sender[p].seq
  /\ writer' = NoTask
  /\ line' = Append(line, <<"store", p>>)
  /\ sender' = [sender EXCEPT ![p].pc = "queued"]
  /\ owed' = owed \cup {Current(p)}
  /\ UNCHANGED <<present, session, work, ack, seen, missed, admin>>

\* The commit fails and the sender is told.
CommitStoreFails(p) ==
  /\ sender[p].pc = "writing"
  /\ writer' = NoTask
  /\ NextMessage(p)
  /\ UNCHANGED <<present, stored, lastSeq, line, session, work, ack, admin,
                 history>>

\* Mutant: a stored message is not routed again.
Reroute_StoresOnly(p) ==
  /\ sender[p].pc = "queued"
  /\ AtHead(<<"store", p>>)
  /\ line' = Tail(line)
  /\ NextMessage(p)
  /\ UNCHANGED <<storage, session, work, ack, admin, history>>

\* The ticket's turn: route_stored_message once more, then the ticket goes. A
\* copy that cannot be queued stays in storage.
Reroute(p) ==
  /\ sender[p].pc = "queued"
  /\ AtHead(<<"store", p>>)
  /\ Deliver([msg |-> Current(p), seq |-> sender[p].seq],
             UNCHANGED missed,
             missed' = missed \cup ({Current(p)} \cap owed),
             UNCHANGED missed)
  /\ line' = Tail(line)
  /\ NextMessage(p)
  /\ UNCHANGED <<storage, work, ack, owed, seen, admin>>

-----------------------------------------------------------------------------
(* Sessions: binding and ending *)

\* router.register
Register(s) ==
  /\ session[s].pc = "out"
  /\ session' = [session EXCEPT ![s] = [NoSession EXCEPT !.pc = "registered",
                                                        !.alive = TRUE]]
  /\ UNCHANGED <<storage, line, sender, work, ack, admin, history>>

\* complete_binding: the account is looked up after the registration, and a
\* registration that was retired meanwhile fails.
CompleteBinding(s) ==
  /\ session[s].pc = "registered"
  /\ session' = [session EXCEPT ![s] = IF present /\ @.alive
                                         THEN [@ EXCEPT !.pc = "bound"]
                                         ELSE NoSession]
  /\ UNCHANGED <<storage, line, sender, work, ack, admin, history>>

\* The router retires the session: its mailbox overflowed, or it was evicted.
\* The stream notices later.
Retire(s) ==
  /\ session[s].pc \in {"registered", "bound"}
  /\ session[s].alive
  /\ session' = [session EXCEPT ![s].alive = FALSE]
  /\ UNCHANGED <<storage, line, sender, work, ack, admin, history>>

\* Live and replayed copies of stored messages that end with the session.
Releasing(entries) == {k \in DOMAIN entries : entries[k].seq # 0}
Undelivered(s) == {session[s].mailbox[k].msg : k \in Releasing(session[s].mailbox)}
                    \cup Msgs(session[s].outbox) \cup Msgs(work[s].preceding)
                    \cup Msgs(work[s].backlog)

\* bound_stream stops: the client left, its link failed, or it was retired.
\* A failing flush may have written part of the outbox.
End(s) ==
  /\ session[s].pc = "bound"
  /\ \E k \in 0 .. Len(session[s].outbox) :
       /\ seen' = [seen EXCEPT ![s] = @ \o [j \in 1 .. k |-> session[s].outbox[j].msg]]
       /\ owed' = owed \ Msgs(SubSeq(session[s].outbox, 1, k))
  /\ session' = [session EXCEPT ![s] = [NoSession EXCEPT !.pc = "ended"]]
  /\ missed' = (missed \cup Undelivered(s)) \cap owed'
  /\ UNCHANGED <<storage, line, sender, work, ack, admin>>

\* work.drain: the stream closes when its detached work is done.
Close(s) ==
  /\ session[s].pc = "ended"
  /\ work[s].pc \in {"none", "done", "failed"}
  /\ ack[s].replay = "idle" /\ ack[s].live = "idle"
  /\ session' = [session EXCEPT ![s] = NoSession]
  /\ work' = [work EXCEPT ![s] = NoWork]
  /\ ack' = [ack EXCEPT ![s] = NoAck]
  /\ seen' = [seen EXCEPT ![s] = <<>>]
  /\ UNCHANGED <<storage, line, sender, admin, owed, missed>>

-----------------------------------------------------------------------------
(* Sessions: presence and the backlog *)

\* handle_availability: fix([owner], begin_read) reads the backlog when the
\* session would become eligible.
FixPresence(s) ==
  /\ session[s].pc = "bound"
  /\ work[s].pc = "none"
  /\ session[s].outbox = <<>>
  /\ \E priority \in Priorities :
       work' = [work EXCEPT ![s] =
                 [pc |-> "fixed", priority |-> priority, preceding |-> <<>>,
                  backlog |-> IF priority = "eligible" /\ session[s].priority # "eligible"
                                THEN Ordered(stored) ELSE <<>>]]
  /\ line' = Append(line, <<"presence", s>>)
  /\ UNCHANGED <<storage, sender, session, ack, admin, history>>

\* Mutant: the backlog is read when the turn has come.
SetPresence_ReadsLate(s) ==
  /\ work[s].pc = "fixed"
  /\ AtHead(<<"presence", s>>)
  /\ IF session[s].alive
       THEN /\ work' = [work EXCEPT ![s].pc = "set", ![s].backlog = Ordered(stored),
                                    ![s].preceding = session[s].mailbox]
            /\ session' = [session EXCEPT ![s].priority = work[s].priority,
                                          ![s].mailbox = <<>>]
            /\ UNCHANGED line
       ELSE /\ work' = [work EXCEPT ![s] = [NoWork EXCEPT !.pc = "failed"]]
            /\ line' = Tail(line)
            /\ UNCHANGED session
  /\ UNCHANGED <<storage, sender, ack, admin, history>>

\* PresenceWork::run after the turn: set_presence cuts the mailbox and changes
\* the priority; it fails, and the ticket goes, when the session is retired.
SetPresence(s) ==
  /\ work[s].pc = "fixed"
  /\ AtHead(<<"presence", s>>)
  /\ IF session[s].alive
       THEN /\ work' = [work EXCEPT ![s].pc = "set", ![s].preceding = session[s].mailbox]
            /\ session' = [session EXCEPT ![s].priority = work[s].priority,
                                          ![s].mailbox = <<>>]
            /\ UNCHANGED line
       ELSE /\ work' = [work EXCEPT ![s] = [NoWork EXCEPT !.pc = "failed"]]
            /\ line' = Tail(line)
            /\ UNCHANGED session
  /\ UNCHANGED <<storage, sender, ack, admin, history>>

\* The presence was broadcast, or that failed, and the ticket is dropped.
DropPresence(s) ==
  /\ work[s].pc = "set"
  /\ line' = Tail(line)
  /\ \E pc \in {"done", "failed"} : work' = [work EXCEPT ![s].pc = pc]
  /\ UNCHANGED <<storage, sender, session, ack, admin, history>>

\* release_through: acknowledge and release_messages hand the flushed
\* sequences to the running task, or start one.
Acknowledged(a, through, seqs) ==
  [a EXCEPT
     !.watermark = IF through > @ THEN through ELSE @,
     !.replay = IF through # 0 /\ @ = "idle" THEN "wait" ELSE @,
     !.pending = @ \cup seqs,
     !.live = IF seqs # {} /\ @ = "idle" THEN "wait" ELSE @,
     !.failed = IF seqs # {} /\ a.live = "idle" THEN FALSE ELSE @]

\* Mutant: the backlog is acknowledged before it is flushed.
TakeOutcome_AcknowledgesEarly(s) ==
  LET backlog == [k \in DOMAIN work[s].backlog |->
                    [msg |-> work[s].backlog[k].msg, seq |-> 0]]
  IN  /\ session[s].pc = "bound"
      /\ work[s].pc = "done"
      /\ session[s].outbox = <<>>
      /\ session' = [session EXCEPT
                       ![s].outbox = work[s].preceding \o backlog,
                       ![s].through = IF backlog = <<>> THEN 0
                                      ELSE work[s].backlog[Len(backlog)].seq]
      /\ seen' = [seen EXCEPT ![s] = IF backlog = <<>> THEN @ ELSE <<>>]
      /\ work' = [work EXCEPT ![s] = NoWork]
      /\ ack' = [ack EXCEPT ![s] = Acknowledged(@, session'[s].through, {})]
      /\ UNCHANGED <<storage, line, sender, owed, missed, admin>>

\* The stream takes the outcome: the deliveries before the cut, then the
\* backlog, are pushed to the outbox.
TakeOutcome(s) ==
  LET backlog == [k \in DOMAIN work[s].backlog |->
                    [msg |-> work[s].backlog[k].msg, seq |-> 0]]
  IN  /\ session[s].pc = "bound"
      /\ work[s].pc = "done"
      /\ session[s].outbox = <<>>
      /\ session' = [session EXCEPT
                       ![s].outbox = work[s].preceding \o backlog,
                       ![s].through = IF backlog = <<>> THEN 0
                                      ELSE work[s].backlog[Len(backlog)].seq]
      /\ seen' = [seen EXCEPT ![s] = IF backlog = <<>> THEN @ ELSE <<>>]
      /\ work' = [work EXCEPT ![s] = NoWork]
      /\ UNCHANGED <<storage, line, sender, ack, owed, missed, admin>>

-----------------------------------------------------------------------------
(* Sessions: the outbox *)

\* Mutant: the mailbox is drained after the cut.
Drain_PastTheCut(s) ==
  /\ session[s].pc = "bound"
  /\ work[s].pc \in {"none", "fixed", "set", "done"}
  /\ session[s].outbox = <<>>
  /\ session[s].mailbox # <<>>
  /\ session' = [session EXCEPT ![s].outbox = session[s].mailbox,
                                ![s].mailbox = <<>>]
  /\ UNCHANGED <<storage, line, sender, work, ack, admin, history>>

\* drain_mailbox and drain_until: the mailbox moves to the outbox while no
\* presence work has had its turn.
Drain(s) ==
  /\ session[s].pc = "bound"
  /\ work[s].pc \in {"none", "fixed"}
  /\ session[s].outbox = <<>>
  /\ session[s].mailbox # <<>>
  /\ session' = [session EXCEPT ![s].outbox = session[s].mailbox,
                                ![s].mailbox = <<>>]
  /\ UNCHANGED <<storage, line, sender, work, ack, admin, history>>

\* write_queue: the whole outbox is written and flushed.
Flush(s) ==
  LET out == session[s].outbox
  IN  /\ session[s].pc = "bound"
      /\ out # <<>>
      /\ seen' = [seen EXCEPT ![s] = @ \o [k \in DOMAIN out |-> out[k].msg]]
      /\ owed' = owed \ Msgs(out)
      /\ missed' = missed \ Msgs(out)
      /\ ack' = [ack EXCEPT ![s] = Acknowledged(@, session[s].through,
                                   {out[k].seq : k \in DOMAIN out} \ {0})]
      /\ session' = [session EXCEPT ![s].outbox = <<>>, ![s].through = 0]
      /\ UNCHANGED <<storage, line, sender, work, admin>>

-----------------------------------------------------------------------------
(* Sessions: acknowledgement tasks *)

Phase(a, kind) == IF kind = "replay" THEN a.replay ELSE a.live

Idle(a, kind) == IF kind = "replay" THEN [a EXCEPT !.replay = "idle"]
                                    ELSE [a EXCEPT !.live = "idle"]

Taken(a, kind) ==
  IF kind = "replay"
    THEN [a EXCEPT !.replay = "commit", !.through = a.watermark]
    ELSE [a EXCEPT !.live = "commit", !.batch = a.pending, !.pending = {}]

\* Mutant: the life of the session is not checked.
AckBegin_StaleSession(s, kind) ==
  /\ Phase(ack[s], kind) = "wait"
  /\ writer = NoTask
  /\ IF kind = "live" /\ ack[s].pending = {}
       THEN /\ ack' = [ack EXCEPT ![s] = Idle(@, kind)]
            /\ UNCHANGED writer
       ELSE /\ ack' = [ack EXCEPT ![s] = Taken(@, kind)]
            /\ writer' = <<kind, s>>
  /\ UNCHANGED <<present, stored, lastSeq, line, sender, session, work, admin,
                 history>>

\* Both tasks: begin_write; then, with the writer, give up when the session is
\* no longer alive, or take the watermark or the batch, which may be empty.
AckBegin(s, kind) ==
  /\ Phase(ack[s], kind) = "wait"
  /\ writer = NoTask
  /\ IF ~session[s].alive \/ (kind = "live" /\ ack[s].pending = {})
       THEN /\ ack' = [ack EXCEPT ![s] = Idle(@, kind)]
            /\ UNCHANGED writer
       ELSE /\ ack' = [ack EXCEPT ![s] = Taken(@, kind)]
            /\ writer' = <<kind, s>>
  /\ UNCHANGED <<present, stored, lastSeq, line, sender, session, work, admin,
                 history>>

\* acknowledge_backlog: remove through, commit, again if the watermark moved.
CommitReplay(s) ==
  /\ ack[s].replay = "commit"
  /\ stored' = {e \in stored : e.seq > ack[s].through}
  /\ writer' = NoTask
  /\ ack' = [ack EXCEPT ![s].replay = IF ack[s].watermark <= ack[s].through
                                        THEN "idle" ELSE "wait",
                             ![s].through = 0]
  /\ UNCHANGED <<present, lastSeq, line, sender, session, work, admin, history>>

\* Mutant: the task ends after one batch.
CommitLive_Once(s) ==
  /\ ack[s].live = "commit"
  /\ stored' = {e \in stored : e.seq \notin ack[s].batch}
  /\ writer' = NoTask
  /\ ack' = [ack EXCEPT ![s].live = "idle", ![s].batch = {}]
  /\ UNCHANGED <<present, lastSeq, line, sender, session, work, admin, history>>

\* acknowledge_messages: remove the batch, commit, look for more.
CommitLive(s) ==
  /\ ack[s].live = "commit"
  /\ stored' = {e \in stored : e.seq \notin ack[s].batch}
  /\ writer' = NoTask
  /\ ack' = [ack EXCEPT ![s].live = "wait", ![s].batch = {}]
  /\ UNCHANGED <<present, lastSeq, line, sender, session, work, admin, history>>

\* begin_write, the removal or the commit fails: the task ends, the copies
\* stay stored.
AckFails(s, kind) ==
  /\ Phase(ack[s], kind) \in {"wait", "commit"}
  /\ writer' = IF Phase(ack[s], kind) = "commit" THEN NoTask ELSE writer
  /\ ack' = [ack EXCEPT ![s] = IF kind = "replay"
                                 THEN [@ EXCEPT !.replay = "idle", !.through = 0]
                                 ELSE [@ EXCEPT !.live = "idle", !.batch = {},
                                                !.failed = TRUE]]
  /\ UNCHANGED <<present, stored, lastSeq, line, sender, session, work, admin,
                 history>>

-----------------------------------------------------------------------------
(* Deletion and recreation of the account *)

\* The lifecycle lock is taken and account_deletion::delete begins to write.
DeleteBegin ==
  /\ deletion = "idle"
  /\ deletions < MaxDeletions
  /\ writer = NoTask
  /\ writer' = <<"delete", NoTask>>
  /\ deletion' = "writing"
  /\ deletions' = deletions + 1
  /\ UNCHANGED <<present, stored, lastSeq, line, sender, session, work, ack,
                 history>>

\* fix_all(commit): the record, the messages and their sequence are gone.
DeleteCommit ==
  /\ deletion = "writing"
  /\ present' = FALSE
  /\ stored' = {}
  /\ lastSeq' = 0
  /\ writer' = NoTask
  /\ line' = Append(line, <<"delete", NoTask>>)
  /\ deletion' = "queued"
  /\ owed' = {}
  /\ missed' = {}
  /\ UNCHANGED <<sender, session, work, ack, deletions, seen>>

\* A handler or the commit fails: nothing changes, the lock is freed.
DeleteFails ==
  /\ deletion = "writing"
  /\ writer' = NoTask
  /\ deletion' = "idle"
  /\ UNCHANGED <<present, stored, lastSeq, line, sender, session, work, ack,
                 deletions, history>>

\* The barrier's turn: notify, retire_account, drop the ticket, and with the
\* reply the lifecycle lock.
DeleteRetire ==
  /\ deletion = "queued"
  /\ AtHead(<<"delete", NoTask>>)
  /\ session' = [s \in Sessions |-> [session[s] EXCEPT !.alive = FALSE]]
  /\ line' = Tail(line)
  /\ deletion' = "idle"
  /\ UNCHANGED <<storage, sender, work, ack, deletions, history>>

\* The admin API's create, under the lifecycle lock.
Create ==
  /\ deletion = "idle"
  /\ writer = NoTask
  /\ ~present
  /\ present' = TRUE
  /\ UNCHANGED <<stored, lastSeq, writer, line, sender, session, work, ack,
                 admin, history>>

-----------------------------------------------------------------------------
SenderStep(p) == Route(p) \/ Store(p) \/ CommitStore(p) \/ CommitStoreFails(p) \/ Reroute(p)

StreamStep(s) == \/ Register(s) \/ CompleteBinding(s) \/ Retire(s) \/ End(s) \/ Close(s)
                 \/ FixPresence(s) \/ SetPresence(s) \/ DropPresence(s) \/ TakeOutcome(s)
                 \/ Drain(s) \/ Flush(s)

AckStep(s) == \/ \E kind \in {"replay", "live"} :
                    AckBegin(s, kind) \/ AckFails(s, kind)
              \/ CommitReplay(s) \/ CommitLive(s)

DeletionStep == DeleteBegin \/ DeleteCommit \/ DeleteFails \/ DeleteRetire \/ Create

Next == \/ \E p \in Senders : SenderStep(p)
        \/ \E s \in Sessions : StreamStep(s) \/ AckStep(s)
        \/ DeletionStep

Spec == Init /\ [][Next]_vars

-----------------------------------------------------------------------------
(* Properties *)

SenderStates  == [pc : {"ready", "offline", "writing", "queued"},
                  n : 1 .. MaxMessages + 1, seq : Nat]
SessionStates == [pc : {"out", "registered", "bound", "ended"}, alive : BOOLEAN,
                  priority : Priorities, mailbox : Seq(Entries),
                  outbox : Seq(Entries), through : Nat]
WorkStates    == [pc : {"none", "fixed", "set", "done", "failed"},
                  priority : Priorities, backlog : Seq(Entries),
                  preceding : Seq(Entries)]
AckStates     == [replay : {"idle", "wait", "commit"}, watermark : Nat,
                  through : Nat, live : {"idle", "wait", "commit"},
                  pending : SUBSET Nat, batch : SUBSET Nat, failed : BOOLEAN]

Shape ==
  /\ present \in BOOLEAN
  /\ stored \in SUBSET Entries /\ IsFiniteSet(stored)
  /\ lastSeq \in Nat
  /\ writer \in Tasks \cup {NoTask}
  /\ line \in Seq(Tasks)
  /\ sender \in [Senders -> SenderStates]
  /\ session \in [Sessions -> SessionStates]
  /\ work \in [Sessions -> WorkStates]
  /\ ack \in [Sessions -> AckStates]
  /\ deletion \in {"idle", "writing", "queued"}
  /\ deletions \in Nat
  /\ owed \in SUBSET Messages
  /\ missed \in SUBSET Messages
  /\ seen \in [Sessions -> Seq(Messages)]

\* Shape of the state. Beyond it: storage keeps to the account's quota and a
\* mailbox to its capacity (Offline::store, Shard::deliver_bare).
TypeOK ==
  /\ Shape
  /\ Cardinality(stored) <= Quota
  /\ \A s \in Sessions : Len(session[s].mailbox) <= Capacity

\* A message accepted for storage is in storage until it was flushed to a
\* client of the account or was deleted with the account. In particular no
\* acknowledgement removes a message that was not flushed, though sequences
\* start again when the account is deleted and created anew
\* (acknowledge_messages and acknowledge_backlog check the session's life
\* after they have the writer; the lifecycle lock holds creation back).
KeptUntilFlushed == TypeOK /\ owed \subseteq Kept(stored)

\* While it stays eligible, one sender's messages reach a session in the order
\* they were sent and none twice: the backlog goes out before what is
\* delivered after the session became eligible (Outbox::drain_until leaves it
\* in the mailbox), and it was read when the ticket was taken, so that what is
\* rerouted later is not in it (handle_availability, commit_and_store).
SenderOrder ==
  \A s \in Sessions : \A j, k \in DOMAIN seen[s] :
    j < k /\ seen[s][j][1] = seen[s][k][1] => seen[s][j][2] < seen[s][k][2]

\* The message is on its way to some client.
OnItsWay(m) ==
  \/ \E s \in Sessions : m \in Msgs(session[s].mailbox) \cup Msgs(session[s].outbox)
                               \cup Msgs(work[s].backlog) \cup Msgs(work[s].preceding)
  \/ \E p \in Senders : sender[p].pc = "queued" /\ Current(p) = m

\* Released sequences have a task that will remove them, whenever they
\* arrived, unless that task failed
\* (Outbox::release_messages starts one unless one runs).
ReleasesAreTaken ==
  \A s \in Sessions :
    session[s].alive /\ ack[s].pending # {} /\ ~ack[s].failed => ack[s].live # "idle"

\* A stored message is not left behind by a session that became eligible:
\* it is on its way, or its live copy was refused or lost (the comment on
\* commit_and_store: a preceding availability snapshot misses the commit);
\* nor is a released one by the task that has to remove it.
NothingStranded ==
  /\ \A s \in Sessions :
       session[s].pc = "bound" /\ Eligible(s) /\ work[s].pc = "none" =>
         \A m \in owed : m \in missed \/ OnItsWay(m)
  /\ ReleasesAreTaken
=============================================================================
