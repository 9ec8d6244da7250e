# Verification of lonewolf

lonewolf is an XMPP server in Rust. This directory holds TLA+ models of the
parts of it where correctness depends on the order in which things happen, TLC
configurations that check them on small instances, and TLAPS proofs for every
value of the constants where a proof exists. The models are translated from
the source; `PROJECT.json` gives, for each definition, the lines it stands for
("map"), what each run checks ("runs"), for each property changes to the code
that the property catches ("mutants"), and what is hard to test in this code
("hazards").

## 1. The system

The server is a set of crates. `lonewolf-core` holds the streams, the router
and the federation; `lonewolf-extension` the roster, offline messages, carbons
and other extensions; `lonewolf-storage` the tables in redb; `lonewolf-auth`
SCRAM; `lonewolf-acme` certificates; `lonewolf-util` pools, limits and the
dispatcher of tasks to cores; `lonewolf-xmpp` parser, stanzas and addresses;
`lonewolf-admin`, `lonewolf-metrics` and `lonewolfctl` administration;
`lonewolf-bench` measures a server from outside.

Everything runs as asynchronous tasks on worker threads. Storage has one writer
at a time and any number of snapshots. A bound client has two tasks, one for
its session and one for its socket; what it must do after a commit (tell
contacts, send pushes, deliver messages) is a *detached* task that outlives the
stream. Tasks meet in four places:

- the **delivery order** (`order/mod.rs`), which turns the order of the storage
  views into the order of the deliveries;
- the **local router** (`router/local`), sessions spread over shards, each
  behind a lock, each session with a bounded mailbox to its stream;
- the **remote router** (`s2s/outbound`), a table of links with bounded queues,
  whose tasks come and go;
- **storage**.

### Inventory

| Component | State | Operations | What is hard | What makes it correct |
|---|---|---|---|---|
| Delivery order, `order/mod.rs` | ticket counter, a line per account, waiting tickets, barriers | `fix`, `fix_all`, `turn`, drop of a ticket | wake-ups by whoever leaves a line; tickets in several lines; barriers; abandoned tickets | a ticket is woken exactly when nothing older conflicts; conflicting turns exclude each other; views never go back; every ticket has its turn |
| Message delivery and offline storage, `stages/message.rs`, `delivery`, `offline`, the bound stream | OFFLINE and SEQUENCES tables, mailboxes, outboxes, released sequences | route, store, reroute, replay, flush, acknowledge, delete account | nobody was there when the message was routed, someone is when it is stored; acknowledging after the session or the account has gone | kept until flushed; not shown twice; the sender's order; nothing stranded |
| Local router shard, `router/local` | sessions, tokens, tags, presence, retiring presence, deferred cleanups, router state | register, tag, presence, end, deliver in five forms, copy, retire, clean up, stop, terminate | cleanup of a resource that has a new owner; overflow of a mailbox in the middle of a loop; a panic under the lock | sessions are lost only for a cause; streams learn of it; nothing leaks; siblings agree |
| Roster, `roster/*`, storage | items, pending requests, pre-approvals, quotas | subscribe, answer, withdraw, cancel, pre-approve, set, remove, delete account | every relation is stored twice; two rosters in one transaction; deletion and a new account of the same name | the copies agree; decisions exclude each other; nothing is inherited; consent precedes a grant |
| The client's copy of the roster, `roster/{mod,versioning}.rs` | the version, the tags of sessions, mailboxes | get with a version, set, push | a change between the snapshot of a reply and the tag; a push that does not fit | the copy is the roster of its version |
| Subscriptions between two servers, `roster/subscription.rs` | half of the relation on either side | the eight presence stanzas | lost stanzas, crossing requests, deletion on one side | the halves agree when asked again |
| Presence visibility, the bound stream with the order, the shards and the roster | who was told what | update, end of a session, subscription change | three kinds of tasks that read, wait and send in steps | settled clients see the truth; a revoked contact learns nothing more |
| Presence at services, `stages/service/presence.rs` | leases and gates of addresses | direct, withdraw | successive sessions of an address whose works overlap | the service's view is true |
| Account deletion, `account_deletion.rs`, admin API | queue of the worker, lifecycle lock | delete, create | deliveries under way, same name again | see the rows above |
| Client streams, `c2s`, `lonewolf-auth` | phase, permits, credential seen, output | accept, TLS, SASL, bind, close | credentials replaced and accounts deleted between two steps; interruption of a write; permits on every way out | a login rests on the credential in force; output stays whole; permits come back |
| The two tasks of a bound stream, `bound/link`, `bound/transport.rs` | command queue, input slot, shared progress | write, flush, read, drain, cut, close | failure of either half while the other waits | the client gets a prefix; acknowledged means written; both end |
| Stanza dispatch, `stages` | stanza in hand, spawned work, outbox | check, judge, handle, route, reply | work that outlives the stanza's turn | one answer per request, in order |
| IQ requests and detached work, `router/iq_requests.rs`, `detached.rs` | open requests, counters | register, complete, time out, detach | late and foreign answers, refusal at the limits | one answer at most, from the one asked; exact counters |
| Federation, outbound, `s2s/outbound` | links, queues, back-off, standby streams | send, connect, hand over, retry, bounce, stop | a queue changes hands between tasks; write failure against stop | one fate per stanza, in order, within limits; tasks end |
| Federation, resolving and dialling, `s2s/dns`, `connect.rs` | records, addresses, stage of the negotiation, accounting | resolve, connect, negotiate, verify | silence at any step; partial answers; cancellation | addresses are what the records say; counted once; ends |
| Federation, inbound, `s2s/inbound`, `s2s/ingress` | permits, phase, proved domains, work | accept, negotiate, dispatch, stop | identity against what a stanza claims; a cut at any await | only for the proved pair; one answer; places exact |
| Revocation and validity, `s2s/revocation`, `s2s/validity.rs` | cache of lists, downloads, verdicts, monitor | look up, fetch, evict, recheck, expire | two links on one download; entry dropped while its download runs; late answers | news reaches every link; limits exact; a revocation ends the link |
| ACME, `lonewolf-acme` | records on disk, copies, jobs, challenges | reserve, order, authorize, finalize, activate, renew | kill between any two steps; a dropped attempt whose writes are queued | disk, memory and served certificate agree; due is tried |
| Worker threads, `util/core_dispatcher` | queues, stop signals, handles | start, dispatch, stop, join | dispatch against stop; panic; deadline | outcomes are true; everyone ends |
| Memory pool, `util/pool` | free chunks by address | borrow, return | return by another thread | every chunk in one place, its own |
| Benchmark, `lonewolf-bench` | ledger, connection actors, account pool | dispatch, observe, drain, churn | reports out of order; loss of events; interruption | the report is what happened |
| Extensions that keep one record (disco, ping, private XML, vCard, version), carbons | records, tags | get, set, copy | carbons: see Shard | |
| Parser, stanzas, addresses; admin, metrics, tools | | | data, not control | |

All but the last two rows are modelled. What of each is left out is in
section 6 and, per component, in `PROJECT.json`.

## 2. The modules

```
 Order  <---------- OrderProofs
   |  (what it guarantees is used, not its lines)
   +--> Offline <--- OfflineProofs
   |                Roster <--- RosterProofs       Shard <--- ShardProofs
   |                  | (Mirrored)                   | (presence, retiring)
   +--> Presence <----+------------------------------+
   |      ^--- PresenceProofs
   +--> RosterSync, RosterRemote        ServicePresence <--- ServicePresenceProofs

 Channel <== Link <--- LinkProofs       Outbound <--- OutboundProofs
 Inbound  Dial  Resolver                CrlCache  Validity  Acme
 ClientStream   Dispatch   IqRequests
 CoreDispatcher  Pool                   Ledger <-- BenchMessages, BenchChurn
```

Composed modules use a component through what was established about it, named
in their header, rather than by repeating its variables.

### The suites

Most `MC...` modules are *suites*: several instances of the modules above, one
of them extended rather than instantiated when proofs speak of it, and a
variable `part` that the initial state chooses and nobody changes. In a
behaviour only the chosen instance moves (`XStep == part = "x" /\ X!Next /\
UNCHANGED ...`), the others rest in one fixed initial state. TLC so searches
the sum of the instances, not their product, which is all there is to search:
instances of a suite share nothing. A property of a suite conjoins the
properties of the instances that belong together, named in its comment. Fairness
of a component at rest is vacuous where none of its fair actions is enabled in
the resting state; where one is, the suite guards it with `part`.

| Suite | Instances |
|---|---|
| `MCWaiting` | Order, Outbound, ClientStream, Inbound, Dial: who waits, and liveness |
| `MCExpiry` | Acme, Validity, Link, CoreDispatcher: what comes to an end |
| `MCOffline` | Offline within two bounds |
| `MCShard` | Shard |
| `MCRoster` | Roster, RosterSync, RosterRemote |
| `MCPresence` | Presence |
| `MCFederation` | Outbound within two bounds, Inbound twice, Resolver |
| `MCCertificates` | Acme with crashes, CrlCache twice |
| `MCClients` | ClientStream twice, Dispatch, ServicePresence, IqRequests, Pool |
| `MCBench` | BenchMessages, BenchChurn |
| `MCCrlCache`, `MCRosterSync` | one module each, for the two findings |

### Order — `order/mod.rs`

`next`, `queues`, `waiting`, `globals` are the fields of `Lines`; `fixing` is
the asynchronous lock; `stored` numbers the versions of the storage so that a
view can be compared with another. `Lock`, `FixView`, `FixError` and `Admit`
are the steps of `fix` and `fix_all`, `Turn` is `Ticket::turn`, `Finish` and
`Abandon` the drop of a ticket after and before its turn. `IsFirst`, `Wake`
and `Candidates` are `wake_if_first` and the choice that `release` makes of
whom to try. An account without a queue has the empty queue.

### Offline — `stages/message.rs`, `delivery/mod.rs`, `offline`, `c2s/stream/bound`, `account_deletion.rs`

The messages of one account, from `Route` over `Store`, `CommitStore` and
`Reroute` to the session's mailbox and outbox (`Drain`, `Flush`), against
sessions that register, become eligible (`FixPresence`, `SetPresence`,
`TakeOutcome`: the backlog is read when the ticket is taken, used after the
turn), end, and are retired when their mailbox is full; against the two
acknowledgement tasks (`AckBegin`, `CommitReplay`, `CommitLive`, `AckFails`),
each of which waits for the writer, looks whether its session still lives, and
removes; and against `DeleteBegin` to `DeleteRetire` and `Create` under the
lifecycle lock. `owed`, `seen` and `missed` are history variables.

All tasks concern one account, so the delivery order is one FIFO line; that a
view is fixed in the step that takes the place, and that turns come in this
order, is what OrderProofs shows. A priority is either eligible or not: which
of several eligible sessions is best is left open, which covers every rule.
Not modelled: stored records that do not decode, other traffic in the mailbox,
bounces, an interrupted deletion worker.

### Shard — `router/local/shard`, `registration.rs`, `shards/mod.rs`

One account in one shard. `shard` is the state behind the lock, plus `alive`
and `reported`, which streams share with it; `pending` the deferred cleanups
of `Slot`; `state` the life of the router. Every operation first runs the
cleanups that wait (`Cleaned`). Deliveries that overflow a mailbox remove the
session, which announces it to its siblings, which may overflow in turn
(`Falls` and `Remove`, the loop of `remove_with_targets`). A mailbox is its length;
what a client was told of its siblings is `known`. `FindTagged` and
`DeliverCopies` are the two lockings of `copy_to_tagged`, anything may happen
between them. `Panic` and `PanicElsewhere` are the paths of `run_locked`. A
delivery may change nothing, when the stream it comes from has died meanwhile.

Not modelled: presence directed at other users, probes, and the reason that is
reported with a retirement. A deferred cleanup waits for the next operation on its shard:
there is no property that it runs soon. The time of the last unavailable
presence is kept for 64 accounts per shard and evicted; the model keeps one.

### Roster — `roster/{mod,state,subscription}.rs`, `storage/roster`

The relations are sets of pairs of accounts: `<<a, b>> \in to` says that the
item of `a` for `b` is *to* or *both*, `pending` is the table of requests, and
so on; a self-subscription is a pair like any other. An operation is one write
transaction and so one action. One that fails drops its transaction, so an
error is a guard that is false. `consent` remembers the owner's last word
about a contact. Names, groups and the byte quota are left out; versions are in
RosterSync, contacts on other servers in RosterRemote. `RequestGranted` keeps the branch of the code that
settles a request whose grant already exists on one side; the invariant shows
that no behaviour takes it.

### Presence — `c2s/stream/bound/mod.rs` with `router/local` and `roster`

The three kinds of detached tasks that move presence: `Announce`, `Replay`,
`Cast`, `Apply`, `Finish` are an update (`PresenceWork`), `End`, `FixEnd`,
`ApplyEnd`, `Cast` the end of a session (`TerminalPresenceWork`), `Change`,
`ApplyChange`, `Cast` the effects of a subscription change
(`commit_and_deliver`). Each takes its ticket with its view, waits for its
turn and then sends *one recipient at a time*, so that two of them on
different accounts interleave. A task is in `work` at the number of its ticket
and in the lines of its accounts until it is done, so `Lines`, `Admitted` and
`Turn` are read off `work`; that the code's queues come to the same is what
OrderProofs proves. The end of a session clears it at once (`End`) and draws its
ticket later (`FixEnd`), when another session may have the resource. `Drain` and `Outcome` are the stream: it stops
draining at the mailbox cut of its own update, writes what the update returned
(`kept`), then goes on. A presence is the number of the update that sent it,
so that old and new differ. `screen` is what the client was told last.

It uses Order through its theorems, Roster through Mirrored (one relation
`grants` stands for both copies) and Shard's `retiring`. One resource per
account, no overflow, no directed presence, no policies. Rosters in storage at
the start are arbitrary.

### Outbound — `s2s/outbound/{mod,link,bidi,duplex}.rs`, `s2s/inbound/stream.rs`

`entries` and `standby` are the maps of `State`, behind its lock; `queue[q]` is
a `LinkQueue` with its channel, the stanza in hand, the counter of
reservations, and who has it: `pc` is where its task is, or `"assigned"` and
`"served"` when it is in the channel or the hands of the inbound stream `by`.
`Enqueue`, `Launch` and `LaunchRefused` are `admit` and `route`; `Top`,
`Connect`, `DialStopped`, `DialFails`, `Bounce`, `Close`, `Reconsider` and
`Leave` are `link::run`; `Register`, `TakeAssigned`, `EndStream` and `Release`
the inbound stream with `BidiRegistration`. Writing is the same for both
(`Receive`, `BeginWrite`, `WriteDone`, `WriteFails`, `Discard`, `RejectSize`,
`BounceRejected`): the first poll of a write gives the reservation back, and
from then on the stanza is not written again. `sent`, `bounced` and `lost` are
history variables; a stanza given to `bounce` counts as bounced, also when its
type allows no answer.

A back-off is over or not, its delay is left open, and so is which of several
that are over is evicted. A connection may end at any time, which covers the
peer, the idle timer and the certificate. How a connection is made is Dial. Not
modelled: the byte counter (it moves with the counter of stanzas; `LaunchRefused` is
what it can cause besides refusing), a panic or cancellation of a stream.

### RosterSync — `roster/{mod,versioning}.rs`, the tags and pushes of the router

One account's roster and the copies of its clients. A roster is the set of the
changes that made it, numbered by the version they got, so that a copy that
skipped a change, or took one twice, differs from every roster. `Ask`, `FixGet`,
`Turn`, `RunGet`, `WriteReply` are a get: the snapshot is read with the ticket,
the session is tagged and the reply built at the turn. `Set` and
`ChangeElsewhere` commit; `RunSet` pushes to the tagged sessions, evicting one
whose mailbox is full, and evicts all of them when the push cannot be built.
`MayDrain` is the stream's rule of when it writes its mailbox. `Crash` restarts
the server, `Recreate` (in `RecreateSpec` only) deletes the account and makes
one of the same name. The client is external: what it does with a reply and a
push is the protocol's.

### RosterRemote — `roster/{subscription,state}.rs`, `send_remote_subscription`, `receive_remote`

Two servers of this kind, a user on each, and a link each way that keeps order
and may lose stanzas. `item` and `pending` are the two halves; the lower-case
operators are the methods of `RosterSubscription`. The four `Send` actions,
`RemoveItem`, `DeleteAccount` are what the users ask for, the `Receive` actions
what a server does with each stanza, replies included. `Truthful`: a user is
shown the other only while the other grants it or the stanza that ends it is
under way or lost. `Heals`: whatever was lost before, one request that arrives
with its answers puts both halves right.

### ServicePresence — `stages/service/presence.rs`, `bound/mod.rs`

Successive sessions of one address and the presence they direct at a service.
`Bind` retires the predecessor, `Direct`, `Acquire`, `Record`, `Dispatch` are a
directed presence with its lease, `Unavailable`, `End`, `EndPresence` and
`Withdraw` the ways it is ended by works that outlive their stream. The service
takes every stanza it is sent: the code does not repeat one that fails, so that
what a service that refuses believes is its own affair.

### ClientStream — `c2s/mod.rs`, `c2s/stream`, `lonewolf-auth`

`pc[c]` is where a connection waits; what it does between two waits is one
action, from `Accept` and `ReserveIp` over the headers, `StartTls`,
`Handshake`, the exchange (`ReadRequest`, `ReadInitial`, `ReadProof`,
`Verify`, `ExternalStep`) and the binding (`BindRequest`, `CompleteBinding`) to
`CloseXml`, `Linger`, `Finish`. `PhaseDeadline`, `Shutdown`, `InputEnds`,
`Expire`, `MonitorInvalid` and `Panic` cut in at every wait. Credentials are
numbered, so that the one a challenge was made from can be compared with the
one in force; after a failure of `accept` the
listener only waits for the shutdown and no stream is polled (`Polled`); hashing, encoding and channel-binding data are the flags of
`ClientFirst` and `ScramFinish`. Whether a rate limiter refuses is a choice.

### Link and Channel — `bound/link`, `bound/transport.rs`, `bound/mod.rs`

Channel is what the session may rely on: the client gets a prefix of what was
given, and what is acknowledged has left. Link is the pair of tasks, with the
command queue, the input slot of one, and the record `Progress` they share:
`TakeMailbox` to `Close` are the session, `Receive`, `WriteOutput`,
`FlushOutput`, `ReadGate`, `ReadEvent`, `ReadSend`, `Finish` the transport,
`SocketTakes` the peer, `Cut`, `Expire`, `MonitorFails` what interrupts. A handler
that fails ends the session where its turn ends, as a `Cut` there.
**Refinement**: `ImplementsChannel` is `Channel!Spec` with `wire` the stanzas
that left the buffer, and `open` that neither half failed; the run `expiry`
checks it as a property.

### Dispatch — `stages/*`, `c2s/stream/bound`

One stanza at a time: checks, rate, policies of the accounts concerned
(`Evaluate` takes the strictest of two verdicts, `ForStanza` what it means for
this type), then the handler for its type and destination, which replies,
passes it on or spawns a work that the stream waits for. A stanza is a record of
type and destination; what a handler computes is left out. Messages and
undirected presence are in Offline and Presence.

### IqRequests — `router/iq_requests.rs`, `delivery/mod.rs`

Detached works that each ask one resource. The slot is taken before the request
is routed; an answer, the timer and the drop of `PendingIq` race for it. Any
client may answer under any number.

### Resolver and Dial — `s2s/dns/mod.rs`, `s2s/outbound/connect.rs`

Resolver takes a zone as its initial choice and asks servers that answer or
stay silent. `lost` remembers which queries went unanswered, so that
`ListFollowsRecords` and `NothingOverlooked` compare the outcome with what the
answered ones gave: the list holds all of it, and there is no list only when it
is nothing. A domain with service records whose targets' queries all go
unanswered is "not found" to the code (dns/mod.rs:214), while without service
records the same silence is "unavailable"; the properties say so and claim no more.
The weighted shuffle is any order the weights allow. Dial goes through the
addresses; every step of the negotiation may succeed, fail for each reason the
code tells apart, or hang until its deadline.

### Inbound — `s2s/inbound`, `s2s/ingress`, `s2s/stream`

The listener and its three limits, the negotiation (three headers, TLS,
revocation, SASL EXTERNAL), the stream, and for every kind of stanza the steps
of ingress: validation, policies, archive, order, handler, reply, or the hand-over
to a service (`Serve`). A connection is admitted in two steps, the total and
then, after an await, its address (`Accept`, then `Admit` or `TurnAway`).
`said` is the pair the first header named, which the later ones may repeat and
never change. `Interrupt` and `NegotiationCut` are the deadline, the shutdown
and the certificate, at every await. After a failure of `accept` the listener
only waits for the shutdown: its streams stand still until then (`Polled`), and
those left at the deadline of the shutdown are dropped where they are (`Dropped`).

### CrlCache and Validity — `s2s/revocation`, `s2s/validity.rs`

CrlCache has one step per holding of the cache's lock: `Lookup` of one URL,
`Complete` of a download (which sweeps, evicts, compares and stores), and the
steps of a check around them. A list is a record of times, number, cost and
what it revokes. An entry has a token, as in the code, so that a download that
outlived its entry is told apart. Validity is the monitor of one link with the
tasks that watch it; with lists from a file the verdict is computed from what
the file holds, with fetched ones any verdict may come.

### Acme — `lonewolf-acme`

The manager's loop (`Start`, `Complete`, `StartAccount`, `FinishAccount`), the
attempt as a program that submits each state to the store before it acts on it
(`Reserve` to `Activate`), renewal information, and `StoreRun`, which runs the
queue also for attempts that were dropped. `StoreFails`, `Exit` and `Load` are
failure, kill and restart. All times are what is left of them, so the clock
runs for ever in a finite state space. `ca` is the authority as the code
sees it.

### CoreDispatcher and Pool — `lonewolf-util`

CoreDispatcher: start (which may fail half-way), dispatch to a full or closed
queue, the worker's loop with panicking jobs, the stop with its common
deadline, drop, join. When the drain has ended and its timer is up too, either
may be noticed first. Pool: a chunk is an address; `Home` computes bucket and
shard from it; a search goes through the shards and larger buckets, one queue
operation at a time, as threads interleave.

### Ledger, BenchMessages, BenchChurn — `lonewolf-bench`

Ledger is a value with one operator per method. The scenarios own one and feed
it from coordinator, actors and events. `fact` and `logins` record what really
happened, which the counters are compared with at the end. In BenchChurn `own`
holds the reasons of `ChurnPhase` itself, beside the ledger's: a login that
failed, a closed connection and the deadline of the setup spoil a measurement
through them.

## 3. The runs

| Run | Bounds | Shows |
|---|---|---|
| `waiting` | Order: 3 tasks, 2 accounts, 3 tickets; Outbound: 1 pair, 1 stream, 2 stanzas, 2 queues; 1 client connection; 1 peer with 2 requests; 3 addresses | `WokenIffUnblocked`, `TurnsExclude`, `ViewsAdvance`, `EveryTicketTurns`, `CountedOnce`, `LinksEnd`, `PlacesComeBack` |
| `expiry` | 1 host, 2 keys; certificates and lists that end at 3, 4 or never within 6 ticks, interval 2; Link: command queue of 1, 2 stanzas out and 1 in; 2 threads, 2 jobs, queues of 1 | `RevocationLands`, `OutcomesAreTrue`, `ImplementsChannel`, `DueIsTried`, `TasksEnd` |
| `offline` | 1 sender, room for 2 in storage and 1 in the mailbox, 1 deletion; 3 messages and one session at a time (`OneStep`), or 1 message and 2 sessions (`TwoStep`) | `KeptUntilFlushed`, `SenderOrder`, `NothingStranded` |
| `shard` | 2 resources, 3 registrations, 1 tag, mailboxes of 1 | `LostForCause`, `RetirementReported`, `NothingStays`, `SiblingsAreTrue` |
| `roster` | 3 accounts, 2 items and 1 request each; 2 clients, 2 versions, 2 sessions each; 7 wishes and 1 loss between two servers | `CopiesAgree`, `NothingInherited`, `ConsentFirst`, `WithinQuota`, `CopiesAreTrue`, `HalvesAgree` |
| `presence` | 2 accounts, 4 tasks, 2 sessions of an account | `ScreensAreTrue`, `RevokedIsHidden` |
| `federation` | Outbound: 2 pairs in a table of 1, 2 streams, 3 stanzas of a pair, 2 in a queue, 3 queues, with one pair in use (`OneInUse`) or both (`BothInUse`: 2 stanzas each, 1 in a queue, 1 stream); Inbound: 1 connection with 2 domains a side and every kind of stanza, and 2 connections; 147 zones, 2 name servers | `LinksAreServed`, `OneFate`, `WithinLimits`, `InboundIsSound`, `ResolvedRight` |
| `certificates` | 1 host, 2 keys, 2 profiles, kills at any step; 2 links on 1 list; 2 links on 3 lists with places for 2, 3 downloads | `RecordsAgree`, `ListsReach` |
| `clients` | 1 connection with 3 changes of its account, 2 connections for 1 place; 2 stanzas of every type and destination; 3 sessions and 5 presences towards a service; 4 works, 3 detached, 2 open requests; 6 chunks, 2 threads | `LoginsAreCurrent`, `LoansExact`, `OneAnswer`, `ViewIsTrue`, `OutputStaysWhole` |
| `bench` | 2 messages of a pair, 1 fault; 3 accounts, 4 slots, 2 at once, 1 fault | `ReportsAreTrue` |
| `crl_downloads` | as the shared list of `certificates` | expected to violate `OneDownloadPerUrl` |
| `roster_recreated` | as the clients of `roster`, 1 version | expected to violate `UnchangedMeansCurrent` |

The type invariants are conjuncts of an invariant of their instance; those of
Order, Offline, Presence, Roster, Shard and Outbound are proved.

**Why these bounds.** Order: three tasks are a holder, one it blocks and one
that is blocked by either; two accounts allow tickets in both lines and
disjoint ones; larger instances are covered by the proofs. Offline: storage full,
mailbox full, and a message before, during and after a session became
eligible; one deletion and recreation is what makes sequences start again. Link: a
queue shorter than a burst; longer outputs are covered by the proof.
Shard: a resource taken over once, with a third registration to take it over
again or to be the sibling; a mailbox of one overflows at the second entry, so
that removing one session removes the other. Longer cascades are covered by the
proofs. Roster: three accounts because the quota of an
account is used up by the other two (and by itself). RosterRemote: seven wishes
are a subscription both ways, a deletion, a new account and a repair. Presence:
four tasks are an update on either side, one change and one end, in any order,
which includes change and change back, and an end with a new session of the same
resource. Outbound: two streams so that a queue released by one is offered to
the other; three stanzas and a queue of two so that one is refused or waits
while another is in hand; three queues so that a link fails, is made again, and
again after a hand-off. ClientStream: three changes are a new password, a
deletion and a new account. CrlCache: time for a list to become stale and pass
its grace, three downloads so that one outlives its entry and the entry after
it. IqRequests: a work more than may run, and requests up to their limit.
CoreDispatcher: two jobs are one that runs and one that waits for its place, or
one on either thread; three jobs were checked once by hand (547,000 states) and
show nothing more. Bench: a message may be observed before its write is, twice,
late or never.

**Symmetry** is used in runs of invariants and action properties only, over sets
that a part treats alike. `waiting`, `expiry` and `bench` have none.

**Deadlock** is checked in all passing runs. `Exhausted` (Order), `Rest`
(Presence) and `Halted` (Outbound, after a stop) are the states where the bounds
leave nothing to begin and nothing is under way. Streams, dials, checks and
stanzas come to an end: `Ended` lets a suite stutter in these parts, and that
they end as they should is the liveness of `waiting` and `expiry`. The two runs that expect a
violation do not check deadlock.

**Fairness** is weak, of steps that wait for nobody or for a timer that the
code sets, and is stated in each module:

- Order: `Turn` and `Finish`. A woken ticket's receiver is polled by the
  runtime, and a task that has its turn runs its deliveries, none of which
  awaits another ticket, and drops the ticket on every path, since this is its
  destructor. Nothing is assumed of `Lock`, `FixView` or `Admit`.
- Outbound: the steps of a link task that wait for nobody, and those that the
  stop signal makes ready. Nothing is assumed of the peer: while nobody stops
  the router a dial or a write may hang up to its time-out. A queue in
  an inbound stream's hands after the stop is that stream's to drop, and
  `StopEnds` leaves it out as `join` does.
- Dial: resolving ends (each query has a time-out), a connection attempt may
  fail, the deadline fires, the close is bounded by `CLOSE_BUDGET`. Nothing of
  the peer.
- Inbound: the deadline of the negotiation, the server's own steps, the end of
  spawned work, and the interruption of a stream that is stopped or invalid,
  all while the listener polls its streams. Neither the shutdown nor its
  deadline is relied on.
- ClientStream: the server's own steps at the ends of a stream and the deadline
  of every phase before the binding is complete (`TimedPhases`), while the
  listener polls its streams; and, when it has failed, the shutdown.
- Link: each of the two tasks is scheduled; a transport that has failed cuts.
  The socket may never take anything.
- Validity: the monitor and the timers; `Enter` and `Signalled` of every task.
- Acme: the store's thread, the clock, the manager's loop, and the time-outs of
  calls. The authority may never answer.
- CoreDispatcher: the threads, their owner, and the deadline. A job may run for
  ever; a submitter owes nothing.

### What disagrees with the code's own words

- `crl_downloads`: `CrlCache::lookup` is said to start "at most one detached
  download per URL" (`s2s/revocation/cache/mod.rs:298`). `sweep` drops an entry
  past its grace even while its download runs, so the next lookup starts
  another. The first one's answer is recognised by its token and discarded, so
  the cost is one request.
- `roster_recreated`: an equal version is answered with nothing "because the
  client already holds the current roster" (`roster/versioning.rs:10`). Deleting
  an account deletes its version, so an account made again under the name counts
  from zero, and a client with the old roster may hold the same number. As long
  as no name is made again `CopiesAreTrue` holds.

**What was seen besides.** A client can be shown a presence that is older than
the one it was shown before: an update that was in the mailbox when a replay
read a newer one is written after the replay. What makes it newer again is
behind it in the same mailbox, so `ScreensAreTrue` holds. A peer that accepts a
connection and closes it at once is dialled again without delay (`link.rs:699`),
since a connection that was made resets the back-off; the code promises nothing
else.

## 4. The proofs

Eight modules prove, for any sets and limits, what the runs check of eight
components on small ones:

| Module | Of | Proves | Assumes of the constants |
|---|---|---|---|
| `OrderProofs` | Order | `WokenIffUnblocked`, `TurnsExclude`, `ViewsAdvance` | `OrderAssumption`: `MaxTickets` is a natural number, `NoClient` is not a task |
| `OfflineProofs` | Offline | `KeptUntilFlushed`, `SenderOrder`, `NothingStranded` | `OfflineAssumption`: quota and capacity not 0, bounds are natural numbers, `NoTask` is not a task. Senders and sessions may be infinite |
| `PresenceProofs` | Presence | `RevokedIsHidden`, `ScreensAreTrue` | `BoundAssumption`: the bounds are natural numbers, not 0. Accounts may be infinite |
| `RosterProofs` | Roster | `CopiesAgree`, `NothingInherited`, `ConsentFirst`, `WithinQuota` | `QuotaAssumption`; for `WithinQuota` that the accounts are finite |
| `LinkProofs` | Link | `ImplementsChannel`, the refinement | `LinkAssumption`: capacity, burst and bounds are natural numbers, the capacity not 0 |
| `ShardProofs` | Shard | `RetirementReported`, `NothingStays`, `SiblingsAreTrue`, `LostForCause` | `ShardAssumption`: finitely many resources (a name has at most 1023 bytes), limits not 0 |
| `ServicePresenceProofs` | ServicePresence | `ViewIsTrue` | nothing |
| `OutboundProofs` | Outbound | `LinksAreServed`, `OneFate`, `WithinLimits` | `OutboundAssumption`: limits not 0, bounds are natural numbers, `None` is neither stream nor pair. Pairs and streams may be infinite |

Outbound is extended by one suite and instantiated by another, which assert
`OutboundAssumption` of the constants they give it; the theorems have it as a
hypothesis. A theorem names the very definition that a run lists. Each inductive invariant was checked by TLC on the instances of the
runs before it was proved (that of Presence with three tasks, and on seven
million states of an instance with three accounts). In every module the last theorems follow from an
invariance: the initial states satisfy the invariant, every action of `Next`
keeps it, in a lemma of its own, and it implies the property.

**OrderProofs.** The invariant is the conjunction of

- `TypeOK`;
- `LinesOK`: a line holds the waiting tickets of its account, ascending, each
  once, and nothing else;
- `WokenOK`: a ticket was woken iff no older waiting ticket conflicts with it;
- `LockOK`: only the holder of the lock is in the middle of fixing;
- `TicketsOK`: the ticket a task holds is in the table with what the task
  asked for, no two tasks hold the same one, and whoever has its turn was
  woken;
- `ViewsOK`: views of tickets ascend with the tickets, up to `stored`, and
  nothing shown to an account is newer than the view of a ticket that has still
  to be shown to it.

The properties need all of it. The code tests the heads of the lines
(`IsFirst`); `LinesOK` makes this the same as having no older ticket in the
way (`FirstIsFree`), since the head of an ascending line is its oldest.
`release` keeps `WokenOK` only because `Candidates` covers every ticket that
can become free: the heads of the lines it left, the oldest barrier, or, after
a barrier, everyone (`ReleaseLines`). `TurnsExclude` follows since of two conflicting
tickets the younger is not unblocked. `ViewsAdvance` is an action property:
`Turn` shows a view to accounts whose older tickets are all gone, and those
still to come have newer views.

**OfflineProofs.** The invariants come in layers, each inductive together with
those before it.

- `Control`: types; whoever is within a write transaction holds the writer
  (`WriterInv`); the table is keyed by sequence, empty while the account is
  gone, and holds only messages whose sender committed them (`TableInv`); the
  line holds exactly those that wait or have their turn, each once, and behind
  a deletion no store (`LineInv`); what a session has in each of its states
  (`SessionInv`).
- `RefInv`, what sequences refer to. Deletion starts them again, so a sequence
  in somebody's hands may name a message of the account's next life. It does
  not, as long as the holder is alive: every sequence that a living session may
  release is one of this table (`Reached`) and names the message it came with
  (`Names`), a watermark covers only what the client has or will have first
  (`Covers`), and what is pending is owed no more (`Free`). A removal under way
  was begun by a session that was alive with the writer held (`Removes`), and a
  deletion that has committed retires everybody before the account can be made
  again. Hence `owed` stays within the table: `KeptUntilFlushed`.
- `SortInv`, the order of what is queued. What the client has seen, the outbox,
  the deliveries before the cut and the mailbox are a `Chain`: each part in the
  order of its sender and before the next, all of it sent. A backlog is only
  read by a session with nothing else to send, and the stores it saw are ahead
  of it in the line (`BacklogOrder`), so that nothing in it is routed again
  after the session became eligible. This gives `SenderOrder`.
- `WayInv`, where a stored message is. What is owed while a session is eligible
  is missed, held by a stream or waits for its second routing (`Handled`); for
  a session about to become eligible it is in the backlog or stored by a task
  behind it in the line (`Rises`). An ended session leaves only what is counted
  as missed (`Leaves`), and what was routed without being stored is not owed
  (`Unstored`). This, with the task of every release, is `NothingStranded`.

`Ordered`, the table read in the order of its key, is a sequence by rank rather
than by recursion, so that `OrderedTable` can be proved: each entry once, keys
ascending.

**PresenceProofs.** A task acts on the roster of its ticket, and by its turn
the roster may have changed, so neither property is about the present alone.
`GrantedAt(k, b, a)` reads what `b` granted `a` when ticket `k` was drawn off the
tasks: the next change after `k` tells it, and without one the roster of now.
The changes of a pair have their turns in the order of their tickets; those that
had theirs end at a front, and `Served` is what they amount to. A task of `a` or
of `b` that has its turn stands at the front (`TurnFront`), since it shares a
line with every change of the pair: hence the audience it read with its ticket
is what is served while it runs (`ServedAtTurn`). The invariant is

- `TypeOK`, `RunsInTurn` (whoever has begun had its turn), `Shapes` (the fields
  of each kind of task), `Changes` (a change reverses what was granted at its
  ticket);
- `Audiences`: who a task has to tell was granted it at its ticket, and until
  its turn nobody is missing; the same for the contacts it replays;
- `Streams`: a stream waits for its own update or a change; an update of the
  session that has the resource is the one its stream waits for; an end is that
  of an earlier session;
- `Blank`: who is not available is told nothing and owed nothing;
- `Values`: what a running task tells is the presence, or the session has ended
  and is retiring;
- `Pairs`, of every available client `a` and account `b`: `Covered`, `b` is
  shown online only if that is served or a running revocation has yet to tell
  `a`; `Current`, what is served is shown as it is, or a running task has yet to
  tell it, or `b`'s session has ended and its end is still to come, or `a`'s
  own update has yet to read it (`Missing`); `Ending`, the same while an end is
  being told, so that its last step may forget the session; `Unread`, what is
  yet to be read is not shown.

`RevokedIsHidden` follows from `Covered`: something served that is granted no
more has a revocation behind the front, which has not had its turn. In
`ScreensAreTrue` no change is under way, so what is served is what is granted,
and every excuse of `Current` is gone. What a client is shown is a fold over
what was written, kept and queued; `Write` takes the last entry of each account
instead, and `WriteConcat` and `WriteAppend` are what the steps of the stream
need of it: draining and taking the outcome change nothing of it.

**RosterProofs.** The invariant is `TypeOK /\ Mirrored /\ RequestsAgree /\
OneDecision /\ NothingInherited /\ ConsentFirst`, all of which are checked in
the run; none but `TypeOK` is inductive by itself. An approval keeps `Mirrored`
since the request it finds has its other copy (`RequestsAgree`); a request
keeps `RequestsAgree` since the code looks at one side's item and `Mirrored`
makes it speak for the other; a deletion finds the copies that others keep
through its own items and stored requests, which is complete by `Mirrored` and
`RequestsAgree`, and gives `NothingInherited`; and a new account of that name
keeps the first two by `NothingInherited`. There is a lemma for each
operation. `WithinQuota` is proved on its own with the cardinalities of the
rows: `Shrinking` and `Growing` say what a write may do to a row, and every
operation adds at most one entry to the row of an owner, after it was
admitted.

**LinkProofs.** That Link implements Channel needs to know where every stanza
is. The invariant is `Types`, and

- `Turns`: the session runs until it stops the link, and what it awaits an
  acknowledgement for has been given;
- `Gapless`: what left, what is buffered and what is in hand are consecutive
  numbers, whatever became of the rest;
- `Whole`: as long as neither half has given up, the queued commands are the
  stanzas that follow, all that was given is somewhere, and a flush that is
  awaited is last in the queue, under way, or over with nothing left behind.

Then each step of the two tasks is a step of Channel or a stutter: only
`SocketTakes` and `WriteOutput` move the wire, by the next stanza (`Gapless`), and a flush
that succeeds finds everything gone (`Whole`).

**ShardProofs.** An operation of a shard is a chain of sends, overflows and
removals, and a removal goes on until nobody else falls: `Falls` is the least
set that is closed under the announcements it causes. The proof states once
what such a chain keeps. `Fit` is said of one shard between two operations:
distinct tokens, a true counter, available sessions that know exactly their
available siblings, and no time of the last unavailability while somebody is
available. `Follows` relates the shard before and after: sessions go or stay,
and whoever loses its session while a stream waits for it is reported. Each link of a
chain has a lemma that it keeps `Fit` and `Follows`, and every action is a few
of them. `Places` adds which stream belongs to which session and cleanup, so
that a late cleanup cannot touch the successor. `NothingStays` conjoins the
type invariant, `NothingLeaks`, `CountMatches` and `CopiesStayInSnapshot`,
`SiblingsAreTrue` `NoGhostSiblings` and `LastUnavailableIsPast`.

`LostForCause` is about steps, and needs to know why a session falls. Take one
that is no target of a removal out of the set that falls: as the set was the
least, what is left is not closed, and only that session can be in the way, so
the announcements of the others do not fit in its mailbox (`FallForCause`). An
operation, though, is several removals and sends after each other. `Worn` says
of a part of it that whoever is lost had no room for the stanzas sent and the
available siblings gone so far, and that nobody's mailbox has grown by more than
that; two such parts make one (`LostChain`). A session's own new presence, which
is not among the siblings gone when it falls itself, makes no difference to the
others, because it falls only after more than a mailbox of them (`ToldLost`).
`Flags`, inductive with `Places`, says that only a stream that is there has its
flag set: so the cleanups that run first in every operation take no live session
as a target.

**ServicePresenceProofs.** `Leases` (one stream has the lease of the address,
and nothing is recorded or sent without it), `Grants` (a grant is kept for the
session that has the address and owed by one that had it) and `Words` (what was
recorded is said or about to be, what was said is taken back by somebody) are
inductive together, and give `ViewIsTrue` once nothing is under way.

**OutboundProofs.** Two arguments, one about queues and one about stanzas.

- `Table`: an entry and the queue it names point at each other while anyone
  works on the queue (`Owning`, `Tabled`); a stream stands by once, for one
  pair, as long as it is in (`Roll`); it has one queue at most (`Lone`), of
  the pair it stands by for (`Standing`), and is in while it has it
  (`Attended`). This makes `release_inner` and `offer_standby` speak for the
  link: the queue given back is the one the entry names, and the stream it is
  passed to has no other. `HeldIsOwned` says that the branches of the code for
  a queue that is not owned are never taken.
- `Stanzas`: the numbers admitted for a pair are divided among its queues and
  the three ways to be settled (`Fated`); what the queue of the link holds is
  newer than all that was written (`Ahead`), so the next write keeps the order
  (`Ascending`); a task that leaves while the router runs leaves nothing
  (`Emptied`), so nothing is dropped before a stop.
- `Kept`, of each queue by itself: what it holds ascends, and its counter is
  the number of stanzas that have their reservation. `Places`: the entries are
  finitely many, at most `MaxLinks`; `Launch` evicts one before it adds one to
  a full table.

`Ahead` needs `Table`: two queues of one pair with stanzas in them exist, when
a failed link is still being answered and a new one has been made, and only the
latter is ever written from. `Turn(q, ...)` states what most actions do, change
one queue; there are lemmas that say of each action what it does in these terms, and
of each conjunct under which such changes it is kept.

**Only model-checked.** Liveness (`EveryTicketTurns`, `LinksEnd`,
`PlacesComeBack`, `DueIsTried`, `TasksEnd`), which is out of the prover's
reach, and so is what Resolver and Ledger compute by folds and recursive functions.
All properties of the modules without a proof module.

## 5. Reading a mutant

Above some definitions stands a variant of it, marked *Mutant* or *Variant*:
the change to the code that the property named in `PROJECT.json` has to catch
(a guard forgotten, a set not emptied, a step too early). A property that
conjoins several has a variant for most of them. No specification uses them.

## 6. Not modelled, and the plan

Left out for good:

- the parser and the building of stanzas, cryptography, XML, TLS, HTTP and DNS
  as protocols, the forms in which records are stored;
- metrics, logging, configuration, `lonewolfctl`, the admin API beyond the
  operations on accounts, the reports and schedules of the benchmark;
- extensions that read or write one record and keep no state between requests;
- token buckets and windows of attempts, which are arithmetic on a clock:
  whether they refuse is a choice wherever they are asked.

Abstractions that a reader should know of:

- ClientStream tells an account that was deleted and made again between login
  and binding from the first one only by whether it exists; so does the code.
- Offline leaves out stored records that do not decode, carbons and bounces; the
  deletion worker is not interrupted.
- Presence has one resource per account and no overflow; overflow is in Shard.
- RosterRemote has one resource a side, always available.
- Outbound does not count bytes. Inbound's sending half is in Outbound.
- Acme's responder of challenges answers what is published and no more.
- BenchMessages is checked for the measurement; the warmup before it runs the
  same code without the verdict.

To come:

1. Proofs: `RequestsExact` of IqRequests and `ChunksExact` of Pool, which
   together are most of `LoansExact`; `Authentic`, `OneAnswer` and `PlacesExact`
   of Inbound.
2. An abstract specification of ordered delivery that Order implements and that
   Offline and Presence use instead of their own lines.
3. Presence directed at other users and probes in Shard and Presence; carbons in
   Offline; the order in which `main` stops the parts.
