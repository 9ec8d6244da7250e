------------------------------- MODULE Shard -------------------------------
(***************************************************************************)
(* The sessions of one account in the local router: the shard that holds   *)
(* them (router/local/shard), the registrations of the streams that own    *)
(* them (registration.rs) and the life of the router (shards/mod.rs).      *)
(*                                                                         *)
(* A session is known to the shard by its resource and to its stream by a  *)
(* token. The stream may end, be retired by the shard, or drop its         *)
(* registration while the shard is locked; what it leaves behind is        *)
(* cleaned up by a later operation. A mailbox is its length: what a client *)
(* is told of its siblings is recorded in known when it is queued.         *)
(***************************************************************************)
EXTENDS Naturals, FiniteSets

CONSTANTS Resources,   \* resource names of the account
          Capacity,    \* RESOURCE_QUEUE_CAPACITY
          Limit,       \* max_resources_per_account
          MaxToken,    \* bound: registrations
          MaxTags,     \* bound: sessions tagged at a time
          None         \* no session

\* A resource name has at most 1023 bytes, so that there are finitely many.
ASSUME ShardAssumption ==
  /\ IsFiniteSet(Resources)
  /\ Capacity \in Nat \ {0} /\ Limit \in Nat \ {0}
  /\ MaxToken \in Nat /\ MaxTags \in Nat
  /\ None \notin [token : Nat, box : Nat, available : BOOLEAN, tagged : BOOLEAN,
                  known : SUBSET Nat]

VARIABLES
  shard,    \* the state behind the shard's lock, and what it shares with streams
  pending,  \* Slot.pending: deferred cleanups <<resource, token>>
  next,     \* Shard.next_token
  state,    \* Lifecycle.state
  stream,   \* where the stream that owns a token is, and its Registration.resource
  found,    \* copy_to_tagged: the sessions found under the first lock ...
  strays    \* ... and other sessions that got a copy under the second

router == <<next, state>>
copying == <<found, strays>>
vars == <<shard, pending, next, state, stream, found, strays>>

Tokens == 1 .. MaxToken

\* alive holds the tokens whose flag is set, reported those of streams whose
\* retired channel was sent a cause, retiring those of retired presence; count
\* is session_count.
Init ==
  /\ shard = [sessions |-> [r \in Resources |-> None],
              retiring |-> {},
              lastUnavailable |-> FALSE,
              count |-> 0,
              terminated |-> FALSE,
              alive |-> {},
              reported |-> {}]
  /\ pending = {}
  /\ next = 0
  /\ state = "Running"
  /\ stream = [t \in Tokens |-> [pc |-> "none", resource |-> None]]
  /\ found = {}
  /\ strays = {}

-----------------------------------------------------------------------------
(* Reading a shard *)

Bound(sh)     == {r \in Resources : sh.sessions[r] # None}
Available(sh) == {r \in Bound(sh) : sh.sessions[r].available}
Tagged(sh)    == {r \in Bound(sh) : sh.sessions[r].tagged}
Live(sh)      == {r \in Bound(sh) : sh.sessions[r].token \in sh.alive}
Full(sh)      == {r \in Bound(sh) : sh.sessions[r].box >= Capacity}
TokensOf(sh, R) == {sh.sessions[r].token : r \in R}

\* The live session of a token: the test at the head of tag, change_tag,
\* presence and end_presence.
Owns(sh, r, t) == t \in sh.alive /\ sh.sessions[r] # None /\ sh.sessions[r].token = t

-----------------------------------------------------------------------------
(* Removing sessions *)

\* remove_with_targets and remove_session: every removed session that was
\* available is announced as unavailable to the available ones left, and one
\* whose mailbox has no room for that is removed too, and announced in turn.
\* The sessions that fall are the least set closed under this.
Falls(sh, targets) ==
  LET available == Available(sh)
      told == Live(sh) \cap available
      Closed(R) == \A r \in told \ R :
                     sh.sessions[r].box + Cardinality(R \cap available) <= Capacity
      closed == {R \in {targets \cup M : M \in SUBSET (told \ targets)} : Closed(R)}
  IN  CHOOSE R \in closed : \A other \in closed : R \subseteq other

\* Mutant: session_count falls by the targets only.
RemoveCount_TargetsOnly(sh, fallen, targets) == sh.count - Cardinality(targets)

\* session_count falls by the sessions that are gone.
RemoveCount(sh, fallen, targets) == sh.count - Cardinality(fallen)

\* The streams that wait for their retirement.
Held == {t \in Tokens : stream[t].pc = "held"}

\* remove_batch for a set of resources, cascade included; recorded unless the
\* account was deleted.
Remove(sh, targets, recorded) ==
  IF targets = {} THEN sh ELSE
  LET fallen == Falls(sh, targets)
      gone   == TokensOf(sh, fallen)
      available == Available(sh)
      announced == fallen \cap available
      told == (Live(sh) \cap available) \ fallen
      left == [r \in Resources |->
                 IF r \in fallen THEN None
                 ELSE IF r \in told
                   THEN [sh.sessions[r] EXCEPT
                           !.box = @ + Cardinality(announced),
                           !.known = @ \ TokensOf(sh, announced)]
                   ELSE sh.sessions[r]]
  IN  [sh EXCEPT
         !.sessions = left,
         !.alive = @ \ gone,
         !.reported = @ \cup (gone \cap Held),
         !.retiring = @ \cup TokensOf(sh, announced),
         !.count = RemoveCount(sh, fallen, targets),
         !.lastUnavailable = @ \/ (recorded /\ available # {} /\ available \subseteq fallen)]

\* Mutant: a cleanup takes whatever session has the resource now.
Cleaned_AnyToken(sh, cleanups) ==
  LET targets == {r \in Bound(sh) : \E c \in cleanups : c[1] = r}
      removed == Remove(sh, targets, TRUE)
  IN  [removed EXCEPT !.retiring = @ \ {c[2] : c \in cleanups}]

\* Shard::cleanup for each deferred cleanup: the session, if the resource still
\* has that token, and its retired presence.
Cleaned(sh, cleanups) ==
  LET targets == {r \in Bound(sh) : <<r, sh.sessions[r].token>> \in cleanups}
      removed == Remove(sh, targets, TRUE)
  IN  [removed EXCEPT !.retiring = @ \ {c[2] : c \in cleanups}]

\* run_locked refuses every operation once the shard is terminated or the
\* router has failed; otherwise the deferred cleanups run before it.
Serving == ~shard.terminated /\ state # "Failed"
Locked  == IF pending = {} THEN shard ELSE Cleaned(shard, pending)

\* An operation leaves the shard as sh.
Done(sh) == shard' = sh /\ pending' = {}

-----------------------------------------------------------------------------
(* Sending to mailboxes *)

\* try_send to each of a set of sessions that have room.
Queued(sh, R) ==
  LET queued == [r \in Resources |->
                   IF r \in R THEN [sh.sessions[r] EXCEPT !.box = @ + 1] ELSE sh.sessions[r]]
  IN  [sh EXCEPT !.sessions = queued]

\* A batch of sends after which dead and overflowing recipients are removed
\* (deliver_presence_where, deliver_to_tagged, deliver_copies).
Sent(sh, R) ==
  LET dead == R \ Live(sh)
      full == (R \cap Live(sh)) \cap Full(sh)
  IN  Remove(Queued(sh, R \ (dead \cup full)), dead \cup full, TRUE)

-----------------------------------------------------------------------------
(* Registration *)

\* LocalRouterHandle::register and Shard::register: dead sessions go first; a
\* resource that is taken is replaced by a free one.
Register ==
  LET sh == Locked
      swept == Remove(sh, Bound(sh) \ Live(sh), TRUE)
  IN  /\ Serving
      /\ state = "Running"
      /\ next < MaxToken
      /\ IF Cardinality(Bound(swept)) >= Limit
           THEN /\ Done(swept)
                /\ UNCHANGED <<next, stream>>
           ELSE \E r \in Resources \ Bound(swept) :
                  /\ Done([swept EXCEPT
                       !.sessions[r] = [token |-> next + 1, box |-> 0, available |-> FALSE,
                                        tagged |-> FALSE, known |-> {}],
                       !.alive = @ \cup {next + 1},
                       !.count = @ + 1])
                  /\ next' = next + 1
                  /\ stream' = [stream EXCEPT ![next + 1] = [pc |-> "held", resource |-> r]]
      /\ UNCHANGED <<state, copying>>

\* recv takes the first entry of the mailbox, take_queued all of them.
Take(t) ==
  /\ stream[t].pc = "held"
  /\ \E r \in Resources :
       /\ Owns(shard, r, t)
       /\ shard.sessions[r].box > 0
       /\ \E left \in {shard.sessions[r].box - 1, 0} :
            shard' = [shard EXCEPT !.sessions[r].box = left]
  /\ UNCHANGED <<pending, router, stream, copying>>

\* tag, which leaves the mailbox, and change_tag, which cuts it.
Tag(t) ==
  LET sh == Locked
  IN  /\ stream[t].pc = "held"
      /\ Serving
      /\ Cardinality(Tagged(sh)) < MaxTags
      /\ \E r \in {q \in Resources : Owns(sh, q, t)}, cut \in BOOLEAN :
           Done([sh EXCEPT !.sessions[r].tagged = TRUE,
                             !.sessions[r].box = IF cut THEN 0 ELSE @])
      /\ UNCHANGED <<router, stream, copying>>

\* change_tag, removing
Untag(t) ==
  LET sh == Locked
  IN  /\ stream[t].pc = "held"
      /\ Serving
      /\ \E r \in Tagged(sh) :
           /\ Owns(sh, r, t)
           /\ Done([sh EXCEPT !.sessions[r].tagged = FALSE, !.sessions[r].box = 0])
      /\ UNCHANGED <<router, stream, copying>>

\* Mutant: a new presence keeps the time of the last one.
Announced_KeepsTime(sh, r, available) ==
  LET others == (Live(sh) \cap Available(sh)) \ {r}
      full   == others \cap Full(sh)
      t      == sh.sessions[r].token
      told   == Queued(sh, others \ full)
      source == [sh.sessions[r] EXCEPT
                   !.box = 0,
                   !.available = available,
                   !.known = IF ~available THEN {}
                             ELSE IF sh.sessions[r].available THEN @
                             ELSE TokensOf(sh, Available(sh) \ {r})]
      informed == [s \in Resources |->
                     IF s = r THEN source
                     ELSE IF s \in others \ full
                       THEN [told.sessions[s] EXCEPT !.known = IF available THEN @ \cup {t}
                                                                            ELSE @ \ {t}]
                       ELSE told.sessions[s]]
      changed == [told EXCEPT !.sessions = informed]
      removed == Remove(changed, full, TRUE)
  IN  [removed EXCEPT !.lastUnavailable =
         @ \/ (Available(sh) # {} /\ Available(removed) = {})]

\* presence: the mailbox is cut, the siblings are told, those that cannot
\* be told are removed, and a session that became available is told of them.
Announced(sh, r, available) ==
  LET others == (Live(sh) \cap Available(sh)) \ {r}
      full   == others \cap Full(sh)
      t      == sh.sessions[r].token
      told   == Queued(sh, others \ full)
      source == [sh.sessions[r] EXCEPT
                   !.box = 0,
                   !.available = available,
                   !.known = IF ~available THEN {}
                             ELSE IF sh.sessions[r].available THEN @
                             ELSE TokensOf(sh, Available(sh) \ {r})]
      informed == [s \in Resources |->
                     IF s = r THEN source
                     ELSE IF s \in others \ full
                       THEN [told.sessions[s] EXCEPT !.known = IF available THEN @ \cup {t}
                                                                            ELSE @ \ {t}]
                       ELSE told.sessions[s]]
      changed == [told EXCEPT !.sessions = informed]
      removed == Remove(changed, full, TRUE)
  IN  [removed EXCEPT !.lastUnavailable =
         IF available THEN FALSE
         ELSE @ \/ (Available(sh) # {} /\ Available(removed) = {})]

SetPresence(t, available) ==
  LET sh == Locked
  IN  /\ stream[t].pc = "held"
      /\ Serving
      /\ \E r \in Resources : Owns(sh, r, t) /\ Done(Announced(sh, r, available))
      /\ UNCHANGED <<router, stream, copying>>

-----------------------------------------------------------------------------
(* Deliveries *)

\* The sets of live, available sessions with room a bare JID may reach: one of
\* them, or all for a headline; none when the best one is full or there is none.
Reach(sh) == SUBSET ((Live(sh) \cap Available(sh)) \ Full(sh))

\* deliver, deliver_iq_request to a full JID: nothing changes when the mailbox
\* is full or the stream the stanza comes from is dead by now; a dead session
\* is removed and a chat message goes to the bare JID instead.
DeliverFull(r) ==
  LET sh == Locked
      removed == Remove(sh, {r}, TRUE)
  IN  /\ Serving
      /\ r \in Bound(sh)
      /\ \/ Done(sh)
         \/ r \in Live(sh) \ Full(sh) /\ Done(Queued(sh, {r}))
         \/ r \notin Live(sh) /\ \E R \in Reach(removed) : Done(Queued(removed, R))
      /\ UNCHANGED <<router, stream, copying>>

\* deliver_bare
DeliverBare ==
  LET sh == Locked
  IN  /\ Serving
      /\ \E R \in Reach(sh) : Done(Queued(sh, R))
      /\ UNCHANGED <<router, stream, copying>>

\* deliver_presence and deliver_presence_where: to every available session;
\* once the stream it comes from is dead, only dead recipients are removed.
DeliverPresence ==
  LET sh == Locked
      R  == Available(sh)
  IN  /\ Serving
      /\ R # {}
      /\ Done(Sent(sh, R)) \/ Done(Remove(sh, R \ Live(sh), TRUE))
      /\ UNCHANGED <<router, stream, copying>>

\* deliver_to_tagged, deliver_presence_to_tagged; a stanza that cannot be
\* built retires the tagged sessions (retire_tagged).
DeliverToTagged ==
  LET sh == Locked
      R  == Tagged(sh)
  IN  /\ Serving
      /\ R # {}
      /\ Done(Sent(sh, R)) \/ Done(Remove(sh, R, TRUE))
      /\ UNCHANGED <<router, stream, copying>>

\* copy_to_tagged, under the first lock: tagged_sessions.
FindTagged ==
  LET sh == Locked
  IN  /\ Serving
      /\ found = {}
      /\ Done(sh)
      /\ found' = {<<r, sh.sessions[r].token>> : r \in Tagged(sh) \cap Live(sh)}
      /\ UNCHANGED <<router, stream, strays>>

\* Mutant: deliver_copies does not compare tokens.
CopyTargets_AnyToken(sh) == {r \in Tagged(sh) : \E f \in found : f[1] = r}

\* ... under the second: deliver_copies to those that are still the same and
\* still tagged.
CopyTargets(sh) == {r \in Tagged(sh) : <<r, sh.sessions[r].token>> \in found}

DeliverCopies ==
  LET sh == Locked
      R  == CopyTargets(sh)
  IN  /\ Serving
      /\ found # {}
      /\ Done(Sent(sh, R))
      /\ strays' = TokensOf(sh, (R \cap Live(sh)) \ Full(sh)) \ {f[2] : f \in found}
      /\ found' = {}
      /\ UNCHANGED <<router, stream>>

\* retire_account
RetireAccount ==
  LET sh == Locked
  IN  /\ Serving
      /\ Bound(sh) # {}
      /\ Done(Remove([sh EXCEPT !.lastUnavailable = FALSE], Bound(sh), FALSE))
      /\ UNCHANGED <<router, stream, copying>>

-----------------------------------------------------------------------------
(* The end of a stream *)

\* Mutant: siblings with a full mailbox are passed over.
Withdrawn_PassesOver(sh, r) ==
  LET t == sh.sessions[r].token
      was == sh.sessions[r].available
      dead == [sh EXCEPT !.alive = @ \ {t},
                         !.sessions[r] = [@ EXCEPT !.available = FALSE, !.box = 0,
                                                   !.known = {}]]
      others == Live(dead) \cap Available(dead)
      full == others \cap Full(dead)
      told == Queued(dead, others \ full)
      informed == [s \in Resources |->
                     IF s \in others \ full
                       THEN [told.sessions[s] EXCEPT !.known = @ \ {t}]
                       ELSE told.sessions[s]]
      changed == [told EXCEPT !.sessions = informed]
      removed == IF was THEN changed ELSE dead
  IN  [removed EXCEPT
         !.retiring = IF was THEN @ \cup {t} ELSE @,
         !.lastUnavailable = @ \/ (Available(sh) # {} /\ Available(removed) = {})]

\* Shard::end_presence for a session it still holds: the session is dead but
\* stays until the registration is dropped.
Withdrawn(sh, r) ==
  LET t == sh.sessions[r].token
      was == sh.sessions[r].available
      dead == [sh EXCEPT !.alive = @ \ {t},
                         !.sessions[r] = [@ EXCEPT !.available = FALSE, !.box = 0,
                                                   !.known = {}]]
      others == Live(dead) \cap Available(dead)
      full == others \cap Full(dead)
      told == Queued(dead, others \ full)
      informed == [s \in Resources |->
                     IF s \in others \ full
                       THEN [told.sessions[s] EXCEPT !.known = @ \ {t}]
                       ELSE told.sessions[s]]
      changed == [told EXCEPT !.sessions = informed]
      removed == IF was THEN Remove(changed, full, TRUE) ELSE dead
  IN  [removed EXCEPT
         !.retiring = IF was THEN @ \cup {t} ELSE @,
         !.lastUnavailable = @ \/ (Available(sh) # {} /\ Available(removed) = {})]

\* SessionHandle::end_presence: a retired stream takes what the shard reported
\* instead, and waits until it has.
EndPresence(t) ==
  LET sh == Locked
  IN  /\ stream[t].pc = "held"
      /\ IF ~Serving
           THEN UNCHANGED <<shard, pending>>
           ELSE \/ \E r \in Resources : Owns(sh, r, t) /\ Done(Withdrawn(sh, r))
                \/ /\ \A r \in Resources : ~Owns(sh, r, t)
                   /\ t \in sh.reported
                   /\ Done([sh EXCEPT !.reported = @ \ {t}])
      /\ stream' = [stream EXCEPT ![t].pc = "ended"]
      /\ UNCHANGED <<router, copying>>

\* finish_presence, after the withdrawal was delivered.
FinishPresence(t) ==
  /\ stream[t].pc = "ended"
  /\ IF Serving THEN Done([Locked EXCEPT !.retiring = @ \ {t}])
                ELSE UNCHANGED <<shard, pending>>
  /\ UNCHANGED <<router, stream, copying>>

\* Mutant: a cleanup that finds the shard locked is forgotten.
Deferred_Forgotten(cleanup) == pending

\* LocalRouterHandle::defer_cleanup
Deferred(cleanup) == pending \cup {cleanup}

\* Drop for Registration, at any point of the stream: not alive any more ...
Drop(t) ==
  /\ stream[t].pc \in {"held", "ended"}
  /\ shard' = [shard EXCEPT !.alive = @ \ {t}, !.reported = @ \ {t}]
  /\ stream' = [stream EXCEPT ![t].pc = "dropping"]
  /\ UNCHANGED <<pending, router, copying>>

\* ... then Drop for RegistrationCleanup, which a panicking thread puts off
\* (release_deferred): at once if the lock is free, else deferred. A shard out
\* of service has nothing to clean up.
Cleanup(t) ==
  LET cleanup == <<stream[t].resource, t>>
  IN  /\ stream[t].pc = "dropping"
      /\ \/ /\ Serving
            /\ Done(Cleaned(shard, pending \cup {cleanup}))
         \/ /\ ~Serving
            /\ UNCHANGED <<shard, pending>>
         \/ /\ pending' = Deferred(cleanup)
            /\ UNCHANGED shard
      /\ stream' = [stream EXCEPT ![t] = [pc |-> "gone", resource |-> None]]
      /\ UNCHANGED <<router, copying>>

-----------------------------------------------------------------------------
(* The life of the router *)

\* Mutant: terminate leaves the streams to find out for themselves.
Terminated_Silent(sh) ==
  [sh EXCEPT !.terminated = TRUE,
             !.alive = {},
             !.sessions = [r \in Resources |-> None],
             !.count = 0, !.retiring = {}, !.lastUnavailable = FALSE]

\* Shard::terminate
Terminated(sh) ==
  [sh EXCEPT !.terminated = TRUE,
             !.alive = @ \ TokensOf(sh, Bound(sh)),
             !.reported = @ \cup (TokensOf(sh, Bound(sh)) \cap Held),
             !.sessions = [r \in Resources |-> None],
             !.count = 0, !.retiring = {}, !.lastUnavailable = FALSE]

\* LocalRouter::stop
Stop ==
  /\ state = "Running"
  /\ state' = "Stopping"
  /\ UNCHANGED <<shard, pending, next, stream, copying>>

\* An operation panics in this shard: run_locked terminates it and fails the
\* router ...
Panic ==
  /\ Serving
  /\ Done(Terminated(Locked))
  /\ state' = IF state = "Running" THEN "Failed" ELSE state
  /\ UNCHANGED <<next, stream, copying>>

\* ... or in another one.
PanicElsewhere ==
  /\ state = "Running"
  /\ state' = "Failed"
  /\ UNCHANGED <<shard, pending, next, stream, copying>>

\* LocalRouter::failure and LocalRouter::shutdown: every shard is terminated.
Terminate ==
  /\ state # "Running"
  /\ shard' = Terminated(shard)
  /\ UNCHANGED <<pending, router, stream, copying>>

-----------------------------------------------------------------------------
StreamStep(t) == \/ Take(t) \/ Tag(t) \/ Untag(t)
                 \/ \E available \in BOOLEAN : SetPresence(t, available)
                 \/ EndPresence(t) \/ FinishPresence(t)
                 \/ Drop(t) \/ Cleanup(t)

DeliveryStep == \/ \E r \in Resources : DeliverFull(r)
                \/ DeliverBare \/ DeliverPresence \/ DeliverToTagged
                \/ FindTagged \/ DeliverCopies

RouterStep == RetireAccount \/ Stop \/ Panic \/ PanicElsewhere \/ Terminate

Next == \/ Register
        \/ \E t \in Tokens : StreamStep(t)
        \/ DeliveryStep
        \/ RouterStep

Spec == Init /\ [][Next]_vars

-----------------------------------------------------------------------------
(* Properties *)

Sessions == [token : Tokens, box : 0 .. Capacity, available : BOOLEAN,
             tagged : BOOLEAN, known : SUBSET Tokens]

Shards == [sessions : [Resources -> Sessions \cup {None}], retiring : SUBSET Tokens,
           lastUnavailable : BOOLEAN, count : 0 .. Limit, terminated : BOOLEAN,
           alive : SUBSET Tokens, reported : SUBSET Tokens]

\* Shape of the state: in particular no mailbox holds more than its capacity
\* (try_send) and no account more sessions than its limit (Shard::register).
TypeOK ==
  /\ shard \in Shards
  /\ pending \subseteq Resources \X Tokens
  /\ next \in 0 .. MaxToken
  /\ state \in {"Running", "Stopping", "Failed"}
  /\ stream \in [Tokens -> [pc : {"none", "held", "ended", "dropping", "gone"},
                           resource : Resources \cup {None}]]
  /\ found \subseteq Resources \X Tokens /\ strays \subseteq Tokens

\* session_count, which the metrics publish, is the number of sessions,
\* whatever cascade of full mailboxes a removal starts
\* (remove_with_targets subtracts what one call removed).
CountMatches == shard.count = Cardinality(Bound(shard))

\* A live client that is available has been told exactly of the siblings that
\* are available: a session that goes, in whatever way and with however many
\* others, leaves no ghost behind, and one that cannot be told is gone itself
\* (remove_session, presence, end_presence).
NoGhostSiblings ==
  \A r \in Live(shard) \cap Available(shard) :
    shard.sessions[r].known = TokensOf(shard, Available(shard) \ {r})

\* A live session is lost to nothing but its own stream, an overflow of its
\* mailbox by this step (a stanza, and one presence for every available sibling
\* that falls with it), the retirement of the tagged sessions, or the end of
\* them all. In particular a cleanup that runs after its resource was
\* registered again leaves the newcomer alone (Shard::cleanup, remove_session).
LosesForCause ==
  \A r \in Live(shard) :
    LET s == shard.sessions[r]
        fell == {q \in Available(shard) \ {r} :
                   shard.sessions[q].token \notin TokensOf(shard', Bound(shard'))}
    IN  s.token \notin shard'.alive =>
          \/ stream'[s.token] # stream[s.token]
          \/ s.box + 1 + Cardinality(fell) > Capacity
          \/ s.tagged
          \/ Bound(shard') = {}

\* Every step keeps to that (Shard::cleanup, remove_session).
LostForCause == [][LosesForCause]_vars

\* A stream whose session is dead finds a reported cause, so that neither
\* wait_retired nor end_presence waits for ever (remove_session, terminate).
RetirementReported ==
  \A t \in Tokens : stream[t].pc = "held" /\ t \notin shard.alive => t \in shard.reported

\* What a dropped registration leaves in a shard in service is waiting for a
\* cleanup: no session keeps its place, no retired presence is replayed by
\* withdrawal_snapshot for ever (Drop for RegistrationCleanup).
NothingLeaks ==
  Serving => \A t \in Tokens : stream[t].pc = "gone" =>
    \/ \E c \in pending : c[2] = t
    \/ t \notin TokensOf(shard, Bound(shard)) \cup shard.retiring

\* A copy goes only to a session that was tagged under the first lock, not to
\* one that took its resource between the locks (deliver_copies).
CopiesStayInSnapshot == strays = {}

\* While some session is available the account has no time of its last
\* unavailability, which a probe would report (record_last_unavailable).
LastUnavailableIsPast == shard.lastUnavailable => Available(shard) = {}

\* Nothing of a dropped registration stays in a shard, no copy meant for it
\* goes to the next session of its resource, and the counter of sessions is
\* right whatever falls with it (RegistrationCleanup::drop, deliver_copies,
\* remove_with_targets).
NothingStays == TypeOK /\ NothingLeaks /\ CopiesStayInSnapshot /\ CountMatches

\* What is said of presence is true: no available session believes in a
\* sibling that has gone, and the account has no time since when nobody was
\* available while somebody is (remove_session, presence, end_presence,
\* record_last_unavailable).
SiblingsAreTrue == NoGhostSiblings /\ LastUnavailableIsPast
=============================================================================
