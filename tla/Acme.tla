-------------------------------- MODULE Acme --------------------------------
(***************************************************************************)
(* Managed certificates: the manager that schedules the work of every      *)
(* host, the attempt that drives one order at the certificate authority,   *)
(* the durable state both keep, and the challenges they publish            *)
(* (lonewolf-acme: manager, issuer, store, challenge, transport).          *)
(*                                                                         *)
(* The manager's loop polls the jobs itself, so what it does between two   *)
(* polls is one step; the store runs the operations submitted to it one    *)
(* after the other on a thread of its own, also those of an attempt that   *)
(* was dropped.  Times are kept as what is left of them, so that a clock   *)
(* can run for ever in a finite model: a tick ages every copy of a record. *)
(***************************************************************************)
EXTENDS Naturals, Sequences, FiniteSets

CONSTANTS
    Hosts,      \* the names a certificate is managed for
    Keys,       \* private keys, told apart by identity
    Urls,       \* the names of orders at the authority
    Profiles,   \* the certificate profiles a configuration may ask for
    Life,       \* ticks for which a certificate is valid
    RenewIn,    \* ticks from its issuance to its fallback renewal
    AriEvery,   \* ticks between two questions for renewal information
    OrderLife,  \* ticks for which the authority keeps an order
    MaxDelay,   \* failures and the delay they cause stop growing here
    Crashes,    \* whether the process may be killed and the store may fail
    None        \* the absence of an optional value

AcmeAssumption ==
    /\ {Life, RenewIn, AriEvery, OrderLife, MaxDelay} \subseteq Nat \ {0}
    /\ RenewIn < Life
    /\ Crashes \in BOOLEAN

VARIABLES
    up,         \* "up", "draining" or "down"
    profile,    \* the configured profile
    disk,       \* host -> its durable record, or None
    acct,       \* the durable account: how far it came, its retry state
    queue,      \* operations submitted to the store and not yet run
    copy,       \* the manager's copy of each record (drive's hosts)
    ready,      \* account_ready
    ajob,       \* the account job: a program counter
    job,        \* host -> the job that makes it busy
    served,     \* host -> the key of the certificate in use, or None
    chal,       \* hosts with a published challenge
    ca,         \* order -> what the authority knows of it
    since,      \* host -> history: what is left of the delay that its last
                \* attempt owes; 0 once the attempt has succeeded
    corrupt     \* the manager has refused its own state as corrupt

vars == <<up, profile, disk, acct, queue, copy, ready, ajob, job, served,
          chal, ca, since, corrupt>>

----------------------------------------------------------------------------
(* Records. *)

Max(a, b) == IF a > b THEN a ELSE b
Least(n)  == IF n < MaxDelay THEN n ELSE MaxDelay
Down(n)   == IF n = 0 THEN 0 ELSE n - 1

NewHost == [cert |-> None, order |-> None, fails |-> 0, retry |-> 0]

NewAccount == [st |-> "none", fails |-> 0, retry |-> 0]

Certificate(k, p) ==
    [key |-> k, life |-> Life, renew |-> RenewIn, fallback |-> RenewIn,
     ari |-> 0, profile |-> p]

NewOrder(k, replaces) ==
    [key |-> k, url |-> None, replaces |-> replaces, life |-> None,
     profile |-> profile]

\* A step of the clock on each kind of record.
AgedCert(c) ==
    IF c = None THEN None
    ELSE [c EXCEPT !.life = Down(@), !.renew = Down(@), !.fallback = Down(@),
                   !.ari = Down(@)]
AgedOrder(o) ==
    IF o = None \/ o.life = None THEN o ELSE [o EXCEPT !.life = Down(@)]
AgedHost(r) ==
    [r EXCEPT !.cert = AgedCert(@), !.order = AgedOrder(@), !.retry = Down(@)]
AgedAccount(a) == [a EXCEPT !.retry = Down(@)]
AgedOp(op) ==
    IF op.for = "account" THEN [op EXCEPT !.rec = AgedAccount(@)]
                          ELSE [op EXCEPT !.rec = AgedHost(@)]

Valid(r)   == r.cert # None /\ r.cert.life > 0
KeyOf(r)   == IF r.cert = None THEN None ELSE r.cert.key
Stored(h)  == IF disk[h] = None THEN NewHost ELSE disk[h]

\* StoredHost::validate: a record that fails it is refused by the store, and
\* both the store and the attempt take it for corrupt when they read it.
WellFormed(r) == r.order # None => r.order.replaces \in {None, KeyOf(r)}

\* retry_base: the delay grows with the failures.
RetryBase(fails) == Least(fails)

\* refresh_retry: never earlier than the delay from now, nor than a hint of
\* the authority.
Refreshed(r, hint) == [r EXCEPT !.retry = Max(@, Max(RetryBase(r.fails), hint))]

----------------------------------------------------------------------------
(* Jobs.  A job that waits for the store has pc "await" and resumes at     *)
(* next; a job with pc "done" has an outcome the manager has yet to take.  *)

Idle == [pc |-> "idle"]

NewJob(pc, r) ==
    [pc |-> pc, next |-> pc, rec |-> r, st |-> "none", lease |-> FALSE,
     acked |-> FALSE, finalized |-> FALSE, out |-> "none", win |-> 0,
     same |-> TRUE]

AriCalls   == {"ari", "ariInfo"}
IssueCalls == {"restore", "order", "authz", "ready", "finalize", "download",
               "refresh"}
Busy(h)    == job[h] # Idle
Issuing(h) == Busy(h) /\ job[h].pc \notin AriCalls \cup {"done"}
JobCount   == Cardinality({h \in Hosts : Busy(h)})
              + (IF ajob = "idle" THEN 0 ELSE 1)

Referenced == UNION {{KeyOf(r), IF r.order = None THEN None ELSE r.order.key} :
                 r \in {Stored(h) : h \in Hosts} \cup {copy[h] : h \in Hosts}
                       \cup {job[h].rec : h \in {g \in Hosts : Busy(g)}}
                       \cup {queue[i].rec : i \in {n \in 1..Len(queue) :
                                                 queue[n].for # "account"}}}
UrlsHeld == {r.order.url :
                r \in {s \in {Stored(h) : h \in Hosts}
                             \cup {job[h].rec : h \in {g \in Hosts : Busy(g)}}
                             \cup {queue[i].rec : i \in {n \in 1..Len(queue) :
                                                 queue[n].for # "account"}} :
                         s.order # None}}

\* Hands a record to the store and waits for it before going on at next.
Submit(h, j, next) ==
    /\ queue' = Append(queue, [for |-> h, rec |-> j.rec, live |-> TRUE, sent |-> queue = << >>])
    /\ job' = [job EXCEPT ![h] = [j EXCEPT !.pc = "await", !.next = next]]

\* Mutant: asks first and saves with the next record.
BeforeUnsaved(h, j, call) ==
    /\ job' = [job EXCEPT ![h] = [j EXCEPT !.pc = call, !.rec = Refreshed(@, 0)]]
    /\ UNCHANGED queue

\* What the authority may ask to wait before the next request.
Hints == {0, MaxDelay}

\* before: the retry time is durable before the authority is asked anything.
Before(h, j, call) ==
    \E hint \in Hints :
        /\ hint > 0 => call = "refresh"
        /\ Submit(h, [j EXCEPT !.rec = Refreshed(@, hint)], call)

\* The lease of a challenge: published by the attempt that holds it, withdrawn
\* when that attempt ends in any way.
Publish(h) == chal' = chal \cup {h}
Withdraw(h, j) == chal' = IF j.lease THEN chal \ {h} ELSE chal

\* The error path of an attempt: a terminal order is forgotten, the retry
\* time is saved, and the challenge is withdrawn with the lease.
Fail(h, j, kind, terminal) ==
    /\ \E hint \in Hints :
          Submit(h, [j EXCEPT !.rec = [Refreshed(@, hint) EXCEPT
                                         !.order = IF terminal THEN None ELSE @],
                              !.lease = FALSE, !.out = kind], "done")
    /\ Withdraw(h, j)

\* What is left of the queue when the jobs of W are dropped.  The store's
\* executor takes one operation at a time: the one it has been given is run
\* with nobody waiting for it, one that waits for its turn is not run at all.
\* An operation whose turn has come may have been given to it or not.
Orphaned(q, W) ==
    LET kept(op) == op.for \notin W \/ op.sent \/ ~op.live
        unheard(ops) == [i \in DOMAIN ops |-> IF ops[i].for \in W THEN [ops[i] EXCEPT !.live = FALSE]
                                                                ELSE ops[i]]
    IN  {unheard(SelectSeq(q, kept))}
        \cup {unheard(<<[Head(p) EXCEPT !.sent = TRUE]>> \o SelectSeq(Tail(p), kept)) :
                p \in {q} \ {<< >>}}

Everyone == Hosts \cup {"account"}

\* Challenges::clear: no lease has a challenge any more.
Clear == chal' = {}

\* The jobs are futures of the manager and dropped with its loop.
DropJobs ==
    /\ job' = [h \in Hosts |-> Idle]
    /\ ajob' = "idle"
    /\ Clear

----------------------------------------------------------------------------
(* The store: one operation at a time, in the order of submission.         *)

\* History: a record without failures is the write of a success.
Owed(op) == IF op.rec.fails = 0 THEN [since EXCEPT ![op.for] = 0] ELSE since

StoreRun ==
    /\ queue # << >>
    /\ LET op == Head(queue) IN
         /\ queue' = Tail(queue)
         /\ IF op.for = "account"
              THEN /\ acct' = op.rec
                   /\ ajob' = IF op.live THEN op.next ELSE ajob
                   /\ job' = [h \in Hosts |-> IF Busy(h)
                                THEN [job[h] EXCEPT !.same = FALSE] ELSE Idle]
                   /\ UNCHANGED <<disk, since>>
              ELSE /\ disk' = [disk EXCEPT ![op.for] = op.rec]
                   /\ since' = Owed(op)
                   /\ job' = IF op.live
                               THEN [job EXCEPT ![op.for].pc = job[op.for].next]
                               ELSE job
                   /\ UNCHANGED <<acct, ajob>>
    /\ UNCHANGED <<up, profile, copy, ready, served, chal, ca, corrupt>>

\* A commit that fails stops the manager.  Whether it reached the disk is
\* not known; if that is what the error says, later writes are refused.
StoreFails ==
    /\ Crashes /\ up = "up" /\ queue # << >>
    /\ up' = "draining"
    /\ \E applied \in BOOLEAN :
         LET op == Head(queue) IN
         IF applied /\ op.for = "account"
           THEN acct' = op.rec /\ UNCHANGED <<disk, since>>
           ELSE /\ UNCHANGED acct
                /\ disk' = IF applied THEN [disk EXCEPT ![op.for] = op.rec]
                                      ELSE disk
                /\ since' = IF applied THEN Owed(op) ELSE since
    /\ queue' \in {<< >>} \cup Orphaned(Tail(queue), Everyone)
    /\ DropJobs
    /\ UNCHANGED <<profile, copy, ready, served, ca, corrupt>>

----------------------------------------------------------------------------
(* One attempt to issue a certificate (issuer::attempt and Driver::run).   *)

\* The budget of failures is reserved on disk before anything else happens.
Reserve(h) ==
    LET r == Stored(h)
        f == [r EXCEPT !.fails = Least(@ + 1)]
    IN  /\ Busy(h) /\ job[h].pc = "reserve" /\ queue = << >>
        /\ IF r.retry > 0
             THEN /\ job' = [job EXCEPT ![h].pc = "done", ![h].out = "deferred"]
                  /\ UNCHANGED queue
             ELSE Submit(h, [job[h] EXCEPT !.rec = Refreshed(f, 0)], "account")
        /\ UNCHANGED <<up, profile, disk, acct, copy, ready, ajob, served, chal,
                       ca, since, corrupt>>

\* The account must be usable, an order of another profile is dropped, and an
\* order that replaces a certificate must replace the one that is stored.
CheckAccount(h) ==
    LET j == job[h]
        o == j.rec.order
        stale == o # None /\ o.profile # profile
        r == [j.rec EXCEPT !.order = IF stale THEN None ELSE @]
    IN  /\ Busy(h) /\ j.pc = "account" /\ queue = << >>
        /\ CASE acct.st # "registered" \/ acct.retry > 0 ->
                  Fail(h, j, "account", FALSE) /\ UNCHANGED <<up, corrupt, ajob>>
             [] acct.st = "registered" /\ acct.retry = 0 /\ ~WellFormed(r) ->
                  /\ corrupt' = TRUE /\ up' = "draining"
                  /\ DropJobs /\ UNCHANGED queue
             [] OTHER ->
                  /\ Before(h, [j EXCEPT !.rec = r], "restore")
                  /\ UNCHANGED <<chal, up, corrupt, ajob>>
        /\ UNCHANGED <<profile, disk, acct, copy, ready, served, ca, since>>

\* The account is restored.  Without an order a key is made for a new one; it
\* is durable before the order is asked for.
Restore(h) ==
    LET j == job[h]
        o == j.rec.order
    IN  /\ Busy(h) /\ j.pc = "restore"
        /\ since' = [since EXCEPT ![h] = j.rec.retry]
        /\ \/ /\ o # None /\ o.life = 0
              /\ Fail(h, j, "failed", TRUE)
           \/ /\ o # None /\ o.life # 0
              /\ Before(h, j, "order") /\ UNCHANGED chal
           \/ /\ o = None
              /\ \E k \in Keys \ Referenced, replaces \in {None, KeyOf(j.rec)} :
                   Before(h, [j EXCEPT !.rec.order = NewOrder(k, replaces)],
                          "order")
              /\ UNCHANGED chal
        /\ UNCHANGED <<up, profile, disk, acct, copy, ready, ajob, served, ca,
                       corrupt>>

\* What the authority may say of an order it last called s.
After(s) ==
    CASE s = "pending"    -> {"pending", "ready", "invalid"}
      [] s = "ready"      -> {"ready", "invalid"}
      [] s = "processing" -> {"processing", "valid", "invalid"}
      [] OTHER            -> {s}

\* order_metadata: an answer may be silent about the order's expiry, though
\* not about that of one which is pending or valid.
Expiries(s, life) == {OrderLife} \cup (IF s \in {"pending", "valid"} THEN {} ELSE {life})

\* observe: the order's name and expiry are saved before its status is used;
\* an expiry that is not given stays what it was.
Observe(h, j, u, s) ==
    \E life \in Expiries(s, j.rec.order.life) :
        Submit(h, [j EXCEPT !.rec.order.url = u, !.rec.order.life = life,
                            !.st = s], "loop")

\* new_order or, with a stored name, resume; and refresh while polling.
Order(h) ==
    LET j == job[h]
        o == j.rec.order
    IN  /\ Busy(h) /\ j.pc \in {"order", "refresh"}
        /\ \/ /\ o.url = None
              /\ \E u \in Urls \ UrlsHeld, s \in {"pending", "ready"} :
                   /\ Observe(h, j, u, s)
                   /\ ca' = [ca EXCEPT ![u] = [st |-> s, key |-> None]]
           \/ /\ o.url # None
              /\ \E s \in After(ca[o.url].st) :
                   /\ Observe(h, j, o.url, s)
                   /\ ca' = [ca EXCEPT ![o.url].st = s]
        /\ UNCHANGED <<up, profile, disk, acct, copy, ready, ajob, served, chal,
                       since, corrupt>>

\* The loop over the order's status: what to ask next, or that it is over.
Loop(h) ==
    LET j == job[h] IN
    /\ Busy(h) /\ j.pc = "loop"
    /\ IF j.rec.order.life = 0 \/ j.st = "invalid"
         THEN Fail(h, j, "failed", TRUE)
         ELSE /\ Before(h, j, CASE j.st = "pending" -> "authz"
                                [] j.st = "ready" /\ ~j.finalized -> "finalize"
                                [] j.st = "valid" -> "download"
                                [] OTHER -> "refresh")
              /\ UNCHANGED chal
    /\ UNCHANGED <<up, profile, disk, acct, copy, ready, ajob, served, ca, since,
                   corrupt>>

\* What the authority may say of the authorization: it is valid, its challenge
\* is yet to be answered, or the authority is looking at it already.
Authorizations == {"valid", "pending", "processing"}

\* A pending authorization needs the challenge to be published, once, before
\* the authority is told that it is; it is not told when it looks already.
Authorize(h) ==
    LET j == job[h] IN
    /\ Busy(h) /\ j.pc = "authz"
    /\ \E said \in Authorizations :
         CASE said = "valid" -> Before(h, j, "refresh") /\ UNCHANGED chal
           [] said # "valid" /\ ~j.lease /\ h \in chal -> Fail(h, j, "failed", FALSE)
           [] OTHER ->
                /\ Publish(h)
                /\ Before(h, [j EXCEPT !.lease = TRUE, !.acked = TRUE],
                          IF j.acked \/ said = "processing" THEN "refresh" ELSE "ready")
    /\ UNCHANGED <<up, profile, disk, acct, copy, ready, ajob, served, ca, since,
                   corrupt>>

SetReady(h) ==
    /\ Busy(h) /\ job[h].pc = "ready"
    /\ Before(h, job[h], "refresh")
    /\ UNCHANGED <<up, profile, disk, acct, copy, ready, ajob, served, chal, ca,
                   since, corrupt>>

\* The request is signed for the key of the stored order.
Finalize(h) ==
    LET j == job[h]
        u == j.rec.order.url
    IN  /\ Busy(h) /\ j.pc = "finalize"
        /\ \E s \in {"processing", "valid", "invalid"} :
             /\ ca' = [ca EXCEPT ![u] = [st |-> s, key |-> j.rec.order.key]]
             /\ Observe(h, [j EXCEPT !.finalized = TRUE], u, s)
        /\ UNCHANGED <<up, profile, disk, acct, copy, ready, ajob, served, chal,
                       since, corrupt>>

\* parse_chain and prepare: a chain of certificates for the key of the order.
ChainFits(o) == ca[o.url].key = o.key

\* The chain must fit the key; certificate, key, the end of the order and of
\* its failures are one write.
Download(h) ==
    LET j == job[h]
        o == j.rec.order
    IN  /\ Busy(h) /\ j.pc = "download"
        /\ IF ~ChainFits(o)
             THEN Fail(h, j, "failed", FALSE)
             ELSE /\ Submit(h, [j EXCEPT !.rec =
                                  [cert |-> Certificate(o.key, o.profile),
                                   order |-> None, fails |-> 0, retry |-> 0]],
                            "activate")
                  /\ UNCHANGED chal
        /\ UNCHANGED <<up, profile, disk, acct, copy, ready, ajob, served, ca,
                       since, corrupt>>

Activate(h) ==
    /\ Busy(h) /\ job[h].pc = "activate"
    /\ served' = [served EXCEPT ![h] = KeyOf(job[h].rec)]
    /\ Withdraw(h, job[h])
    /\ job' = [job EXCEPT ![h].pc = "done", ![h].out = "ok", ![h].lease = FALSE]
    /\ UNCHANGED <<up, profile, disk, acct, queue, copy, ready, ajob, ca, since,
                   corrupt>>

\* How a request may fail: with no answer, an unusable one or an error; some
\* say that the order is gone, some that the account is unusable.
Failures(call) ==
    {<<"failed", FALSE>>, <<"account", FALSE>>}
        \cup (IF call \in {"order", "refresh", "authz"} THEN {<<"failed", TRUE>>} ELSE {})

CallFails(h) ==
    /\ Busy(h) /\ job[h].pc \in IssueCalls
    /\ \E f \in Failures(job[h].pc) : Fail(h, job[h], f[1], f[2])
    /\ UNCHANGED <<up, profile, disk, acct, copy, ready, ajob, served, ca, since,
                   corrupt>>

\* The attempt's time is over: its future is dropped wherever it is, and what
\* it has given to the store is still run.  The first thing it does is
\* one local read, which does not take the fifteen minutes of the budget.
TimesOut(h) ==
    /\ Issuing(h) /\ job[h].pc # "reserve"
    /\ Withdraw(h, job[h])
    /\ job' = [job EXCEPT ![h].pc = "done", ![h].out = "failed",
                          ![h].lease = FALSE]
    /\ queue' \in Orphaned(queue, {h})
    /\ UNCHANGED <<up, profile, disk, acct, copy, ready, ajob, served, ca, since,
                   corrupt>>

----------------------------------------------------------------------------
(* Renewal information (renewal_request).                                  *)

\* Asked only for the certificate that is still the stored one.
AriAsk(h) ==
    LET r == Stored(h) IN
    /\ Busy(h) /\ job[h].pc = "ari" /\ queue = << >>
    /\ job' = [job EXCEPT ![h] =
                 IF Valid(r) /\ KeyOf(r) = KeyOf(@.rec)
                   THEN [@ EXCEPT !.pc = "ariInfo"]
                   ELSE [@ EXCEPT !.pc = "done", !.out = "noInfo"]]
    /\ UNCHANGED <<up, profile, disk, acct, queue, copy, ready, ajob, served,
                   chal, ca, since, corrupt>>

\* The answer is a window that ends before the certificate, or no good one.
AriAnswer(h) ==
    /\ Busy(h) /\ job[h].pc = "ariInfo"
    /\ \/ \E w \in 0..Life - 1 :
            job' = [job EXCEPT ![h].pc = "done", ![h].out = "window",
                               ![h].win = w]
       \/ job' = [job EXCEPT ![h].pc = "done", ![h].out = "badWindow"]
    /\ UNCHANGED <<up, profile, disk, acct, queue, copy, ready, ajob, served,
                   chal, ca, since, corrupt>>

AriFails(h) ==
    /\ Busy(h) /\ job[h].pc \in AriCalls
    /\ job' = [job EXCEPT ![h].pc = "done", ![h].out = "ariFailed"]
    /\ UNCHANGED <<up, profile, disk, acct, queue, copy, ready, ajob, served,
                   chal, ca, since, corrupt>>

----------------------------------------------------------------------------
(* The account (ensure_account).                                           *)

SubmitAccount(a, next) ==
    /\ queue' = Append(queue, [for |-> "account", rec |-> a, live |-> TRUE, sent |-> queue = << >>,
                               next |-> next])
    /\ ajob' = "await"

\* The key is durable before the account is registered with it.
AccountReserve ==
    LET f == [acct EXCEPT !.fails = Least(@ + 1), !.st = "key"] IN
    /\ ajob = "read" /\ queue = << >>
    /\ CASE acct.st = "registered" -> ajob' = "ok" /\ UNCHANGED queue
         [] acct.st # "registered" /\ acct.retry > 0 ->
              ajob' = "failed" /\ UNCHANGED queue
         [] OTHER -> SubmitAccount(Refreshed(f, 0), "register")
    /\ UNCHANGED <<up, profile, disk, acct, copy, ready, job, served, chal, ca,
                   since, corrupt>>

AccountRegister ==
    /\ ajob = "register"
    /\ \/ SubmitAccount([acct EXCEPT !.st = "registered", !.fails = 0,
                                     !.retry = 0], "ok")
       \/ SubmitAccount(Refreshed(acct, 0), "failed")
    /\ UNCHANGED <<up, profile, disk, acct, copy, ready, job, served, chal, ca,
                   since, corrupt>>

AccountTimesOut ==
    /\ ajob \in {"await", "register"}
    /\ ajob' = "failed"
    /\ queue' \in Orphaned(queue, {"account"})
    /\ UNCHANGED <<up, profile, disk, acct, copy, ready, job, served, chal, ca,
                   since, corrupt>>

----------------------------------------------------------------------------
(* The manager's loop (drive).                                             *)

\* issue_due: after the retry times, when there is no certificate, it has
\* expired, is of another profile, or should be renewed.
IssueDue(h) ==
    LET r == copy[h] IN
    /\ r.retry = 0 /\ acct.retry = 0
    /\ Valid(r) => r.cert.profile # profile \/ r.cert.renew = 0

AriDue(h) ==
    /\ ~IssueDue(h)
    /\ Valid(copy[h]) /\ copy[h].cert.ari = 0 /\ acct.retry = 0

\* Mutant: only an attempt that ends well installs its certificate.
PublishedByAttempt(c, s) == s

\* housekeeping: the certificate of every copy is in use while it is valid.
Published(c, s) == [h \in Hosts |-> IF Valid(c[h]) THEN KeyOf(c[h]) ELSE s[h]]

StartAccount ==
    /\ up = "up" /\ queue = << >>
    /\ ~ready /\ ajob = "idle" /\ JobCount < 2
    /\ \E h \in Hosts : ~Busy(h) /\ (IssueDue(h) \/ AriDue(h))
    /\ ajob' = "read"
    /\ UNCHANGED <<up, profile, disk, acct, queue, copy, ready, job, served,
                   chal, ca, since, corrupt>>

\* Mutant: the account stays busy after a failure.
FinishAccountOnce ==
    /\ up = "up" /\ ajob = "ok"
    /\ ready' = TRUE
    /\ ajob' = "idle"
    /\ UNCHANGED <<up, profile, disk, acct, queue, copy, job, served, chal, ca,
                   since, corrupt>>

FinishAccount ==
    /\ up = "up" /\ ajob \in {"ok", "failed"}
    /\ ready' = (ready \/ ajob = "ok")
    /\ ajob' = "idle"
    /\ UNCHANGED <<up, profile, disk, acct, queue, copy, job, served, chal, ca,
                   since, corrupt>>

Start(h) ==
    /\ up = "up" /\ queue = << >>
    /\ ready /\ ~Busy(h) /\ JobCount < 2
    /\ IssueDue(h) \/ AriDue(h)
    /\ job' = [job EXCEPT ![h] =
                 NewJob(IF AriDue(h) THEN "ari" ELSE "reserve", copy[h])]
    /\ UNCHANGED <<up, profile, disk, acct, queue, copy, ready, ajob, served,
                   chal, ca, since, corrupt>>

\* A question for renewal information gives way to an issuance that is due.
AbortAri(h) ==
    /\ up = "up" /\ Busy(h) /\ job[h].pc \in AriCalls
    /\ IssueDue(h)
    /\ job' = [job EXCEPT ![h].pc = "done", ![h].out = "cancelled"]
    /\ UNCHANGED <<up, profile, disk, acct, queue, copy, ready, ajob, served,
                   chal, ca, since, corrupt>>

\* The record after an answer about the renewal of its certificate.
Scheduled(r, j) ==
    [r EXCEPT
        !.cert.renew = CASE j.out = "window" /\ j.win < r.cert.life -> j.win
                         [] j.out \in {"window", "badWindow"} -> r.cert.fallback
                         [] OTHER -> @,
        !.cert.ari = AriEvery]

\* The manager takes an outcome.  It reads the record back behind every
\* operation the attempt has left in the store's queue, checks it against the
\* certificate just installed, and settles the account's retry state.
Complete(h) ==
    LET j == job[h]
        answered == /\ j.out \in {"window", "badWindow", "noInfo", "ariFailed"}
                    /\ Valid(Stored(h)) /\ KeyOf(Stored(h)) = KeyOf(j.rec)
        r == IF answered THEN Scheduled(Stored(h), j) ELSE Stored(h)
        wrong == disk[h] = None \/ (j.out = "ok" /\ KeyOf(r) # KeyOf(j.rec))
        reset == j.out = "ok" /\ j.same /\ acct.fails > 0
    IN  /\ up = "up" /\ Busy(h) /\ j.pc = "done" /\ queue = << >>
        /\ IF wrong
             THEN /\ corrupt' = TRUE /\ up' = "draining" /\ DropJobs
                  /\ UNCHANGED <<copy, served, disk, acct, ready>>
             ELSE /\ copy' = [copy EXCEPT ![h] = r]
                  /\ served' = Published(copy', served)
                  /\ disk' = IF answered THEN [disk EXCEPT ![h] = r] ELSE disk
                  /\ acct' = CASE reset -> [acct EXCEPT !.fails = 0, !.retry = 0]
                               [] j.out = "account" ->
                                    Refreshed([acct EXCEPT !.fails = Least(@ + 1)], 0)
                               [] OTHER -> acct
                  /\ ready' = (ready /\ j.out # "account")
                  /\ job' = [g \in Hosts |->
                               IF g = h \/ ~Busy(g) THEN Idle
                               ELSE [job[g] EXCEPT !.same = @ /\ acct' = acct]]
                  /\ UNCHANGED <<up, corrupt, ajob, chal>>
        /\ UNCHANGED <<profile, queue, ca, since>>

----------------------------------------------------------------------------
(* The process and the clock.                                              *)

\* load: the records are read, and what is still valid is installed.
Load ==
    /\ up = "down" /\ ~corrupt
    /\ up' = "up"
    /\ profile' \in Profiles
    /\ copy' = [h \in Hosts |-> Stored(h)]
    /\ served' = Published(copy', [h \in Hosts |-> None])
    /\ ready' = FALSE
    /\ UNCHANGED <<disk, acct, queue, ajob, job, chal, ca, since, corrupt>>

\* A stop drops the jobs, withdraws the challenges and drains the store.
Shutdown ==
    /\ Crashes /\ up = "up"
    /\ up' = "draining"
    /\ queue' \in Orphaned(queue, Everyone)
    /\ DropJobs
    /\ UNCHANGED <<profile, disk, acct, copy, ready, served, ca, since, corrupt>>

\* The process ends: with the store drained, or killed at any time.
Exit ==
    /\ \/ up = "draining" /\ queue = << >>
       \/ Crashes /\ up \in {"up", "draining"}
    /\ up' = "down"
    /\ queue' = << >>
    /\ served' = [h \in Hosts |-> None]
    /\ DropJobs
    /\ UNCHANGED <<profile, disk, acct, copy, ready, ca, since, corrupt>>

Tick ==
    /\ disk' = [h \in Hosts |-> IF disk[h] = None THEN None ELSE AgedHost(disk[h])]
    /\ copy' = [h \in Hosts |-> AgedHost(copy[h])]
    /\ job'  = [h \in Hosts |-> IF Busy(h) THEN [job[h] EXCEPT !.rec = AgedHost(@),
                                                              !.win = Down(@)]
                                          ELSE Idle]
    /\ queue' = [i \in 1..Len(queue) |-> AgedOp(queue[i])]
    /\ acct' = AgedAccount(acct)
    /\ since' = [h \in Hosts |-> Down(since[h])]
    /\ UNCHANGED <<up, profile, ready, ajob, served, chal, ca, corrupt>>

----------------------------------------------------------------------------

Init ==
    /\ up = "down" /\ profile \in Profiles
    /\ disk = [h \in Hosts |-> None] /\ acct = NewAccount /\ queue = << >>
    /\ copy = [h \in Hosts |-> NewHost] /\ ready = FALSE /\ ajob = "idle"
    /\ job = [h \in Hosts |-> Idle] /\ served = [h \in Hosts |-> None]
    /\ chal = {} /\ ca = [u \in Urls |-> [st |-> "none", key |-> None]]
    /\ since = [h \in Hosts |-> 0] /\ corrupt = FALSE

Attempt(h) ==
    \/ Reserve(h) \/ CheckAccount(h) \/ Restore(h) \/ Order(h) \/ Loop(h)
    \/ Authorize(h) \/ SetReady(h) \/ Finalize(h) \/ Download(h) \/ Activate(h)

Next ==
    \/ \E h \in Hosts :
         \/ Attempt(h) \/ CallFails(h) \/ TimesOut(h)
         \/ AriAsk(h) \/ AriAnswer(h) \/ AriFails(h) \/ AbortAri(h)
         \/ Start(h) \/ Complete(h)
    \/ StoreRun \/ StoreFails
    \/ AccountReserve \/ AccountRegister \/ AccountTimesOut
    \/ StartAccount \/ FinishAccount
    \/ Load \/ Shutdown \/ Exit \/ Tick

Spec == Init /\ [][Next]_vars

\* What the code sees to by itself: the store's thread runs, the manager's
\* loop takes what is there, and every request and attempt has a time limit.
Fairness ==
    /\ WF_vars(StoreRun) /\ WF_vars(Tick)
    /\ WF_vars(StartAccount) /\ WF_vars(FinishAccount)
    /\ WF_vars(AccountReserve) /\ WF_vars(AccountTimesOut)
    /\ \A h \in Hosts :
         /\ WF_vars(TimesOut(h)) /\ WF_vars(AriFails(h))
         /\ WF_vars(Start(h)) /\ WF_vars(Complete(h)) /\ WF_vars(Reserve(h))

LiveSpec == Spec /\ Fairness

----------------------------------------------------------------------------
(* Properties. *)

\* What the store and the manager know of a host agree whenever no job works
\* on it, also after an attempt that was dropped while the store still had
\* its writes: the copy is the record, no write is left, no challenge stays
\* published and the stored certificate is the one in use.  An order that the
\* authority has finalized has its key on disk, and no record is ever written
\* that the store or the manager would refuse.  (manager drive and housekeeping, store::run,
\* Driver::observe, ChallengeLease::drop)
RecordsAgree ==
    /\ ~corrupt
    /\ \A i \in 1..Len(queue) :
         queue[i].for # "account" => WellFormed(queue[i].rec)
    /\ \A h \in Hosts :
         /\ up = "up" /\ ~Busy(h) =>
              /\ copy[h] = Stored(h)
              /\ Valid(copy[h]) => served[h] = KeyOf(copy[h])
              /\ h \notin chal
              /\ \A i \in 1..Len(queue) : queue[i].for # h
         /\ LET o == Stored(h).order IN
              o # None /\ o.url # None => ca[o.url].key \in {None, o.key}

\* The delay that an attempt owes once it has spoken to the authority is on
\* disk, whatever dropped, killed or restarted the process since: restarts do
\* not make the requests more frequent.  (issuer reserve, persist_retry)
Paced == \A h \in Hosts : since[h] <= Stored(h).retry

\* With a registered account, an issuance that is due is begun: no work on the
\* account, question for renewal information or dropped attempt keeps a host
\* or the two job slots for ever.  (manager drive)
DueIsTried ==
    \A h \in Hosts :
        up = "up" /\ acct.st = "registered" /\ IssueDue(h)
            ~> Issuing(h) \/ ~IssueDue(h) \/ up # "up"
=============================================================================
