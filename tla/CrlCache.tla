------------------------------ MODULE CrlCache ------------------------------
(***************************************************************************)
(* Certificate revocation lists fetched for federation links               *)
(* (crates/lonewolf-core/src/s2s/revocation): the cache of downloaded      *)
(* lists, the detached downloads that fill it, and the checks of the       *)
(* certificates of the links, in the handshake and again while a link is   *)
(* in use.                                                                 *)
(*                                                                         *)
(* A lookup holds the cache's lock, so it is one step; a check is several  *)
(* lookups, a wait for the downloads and a verification, all with the time *)
(* read when it began, and other checks and downloads step in between.     *)
(* A download answers whatever the distribution point serves.  Times are   *)
(* small numbers; a list is a record of Lists.                             *)
(***************************************************************************)
EXTENDS Integers, FiniteSets, FiniteSetsExt, Functions, Sequences, TLC

CONSTANTS
  Url,          \* the distribution points named by certificates
  Link,         \* the links whose certificates are checked
  Points,       \* Points[l]: the certificates on the path of l, each a
                \* sequence of the names of its distribution points
  Policy,       \* AddressPolicy: "public_only" or "any"
  Hosts,        \* the sets of addresses the resolver may answer
  HttpErrors,   \* the ways the HTTP request may fail
  Lists,        \* the lists distribution points may serve
  PerCertificate, PerPath, \* the URLs used of a certificate and of a path
  Refresh,      \* recheck_interval, also the refresh interval of the cache
  StaleGrace,   \* STALE_GRACE
  RetryUnit,    \* the first delay after a failed download (60 s)
  RetryMax,     \* the longest delay (3600 s)
  MaxCost,      \* FetchLimits.max_crl_cost
  Wait,         \* how long a handshake waits for downloads
  MaxEntries,   \* CacheLimits.max_entries
  MaxBytes,     \* CacheLimits.max_bytes
  MaxTime,      \* bound: the clock stops here
  MaxDownloads, \* bound: downloads started
  MaxTokens,    \* bound: entries created
  MaxChecks     \* bound: checks begun

CacheAssumption ==
  /\ Refresh \in Nat \ {0} /\ StaleGrace \in Nat /\ RetryUnit \in Nat \ {0}
  /\ RetryMax \in Nat /\ MaxEntries \in Nat /\ MaxBytes \in Nat
  /\ \A list \in Lists : list.cost \in Nat
  /\ PerCertificate \in Nat /\ PerPath \in Nat

VARIABLES
  now,        \* the clock
  entries,    \* CacheState.entries: the cached URLs and their entries
  bytes,      \* CacheState.bytes
  full,       \* CacheState.full
  downloads,  \* the detached downloads under way
  started,    \* how many downloads, entries and checks there were
  check,      \* the check each link is in
  verdict     \* the verdict each link holds

vars == <<now, entries, bytes, full, downloads, started, check, verdict>>

NoList == [is |-> "none"]
Never == 0 - 1

(* Of the names of a certificate's distribution points those that are URLs *)
(* to be fetched by HTTP count, each once, the first of them.              *)
Usable(names) ==
  LET new(i) == names[i] \in Url /\ \A j \in 1..(i - 1) : names[j] # names[i]
      used == SelectSeq([i \in DOMAIN names |-> i], new)
  IN [i \in DOMAIN used |-> names[used[i]]]
Take(s, n) == SubSeq(s, 1, Min({n, Len(s)}))

(* prepare: the URLs of each certificate, within the limits of one         *)
(* certificate and of the path.                                            *)
Prepared(names) ==
  LET Used[c \in 0..Len(names)] ==
        IF c = 0 THEN [left |-> PerPath, path |-> <<>>]
        ELSE LET urls == Take(Usable(names[c]), Min({PerCertificate, Used[c - 1].left}))
             IN [left |-> Used[c - 1].left - Len(urls), path |-> Append(Used[c - 1].path, urls)]
  IN Used[Len(names)].path

Urls(path) == UNION {Range(path[c]) : c \in DOMAIN path}

(* The URLs of a path, in the order they are looked up.                    *)
Round(path) ==
  LET Flat[c \in 0..Len(path)] == IF c = 0 THEN <<>> ELSE Flat[c - 1] \o path[c]
  IN Flat[Len(path)]

(* A verdict that says nothing, as before the first check.                 *)
Blank == [status |-> "unknown", at |-> Never, seen |-> <<>>, pending |-> {},
          leases |-> {}, awaited |-> {}, recheck |-> Never, cut |-> FALSE]

Resting == [pc |-> "idle", at |-> 0, phase |-> "handshake", path |-> <<>>, todo |-> <<>>,
            batch |-> <<>>, held |-> {}, waited |-> FALSE]

Init ==
  /\ now = 0
  /\ entries = <<>>
  /\ bytes = 0
  /\ full = FALSE
  /\ downloads = {}
  /\ started = [downloads |-> 0, tokens |-> 0, checks |-> 0]
  /\ check = [l \in Link |-> Resting]
  /\ verdict = [l \in Link |-> Blank]

-----------------------------------------------------------------------------
(* The entries.                                                            *)

NewEntry(t) ==
  [crl |-> NoList, pending |-> 0, failures |-> 0, retry |-> Never, failure |-> "unavailable",
   access |-> t, used |-> Never, token |-> started.tokens + 1]

(* The clones of an entry's token: one in each verdict that used the entry *)
(* and one in each check that has just looked it up.                       *)
Leased == UNION ({verdict[l].leases : l \in Link} \cup {check[l].held : l \in Link})

InUse(entry, t) ==
  \/ entry.pending # 0
  \/ entry.token \in Leased
  \/ entry.used # Never /\ t < entry.used + Refresh

Cost(entry) == IF entry.crl = NoList THEN 0 ELSE entry.crl.cost
CostOf(ents, S) == MapThenSumSet(LAMBDA u : Cost(ents[u]), S)

Backoff(failures) ==
  LET doublings == IF failures - 1 > 6 THEN 6 ELSE failures - 1
      delay == RetryUnit * 2 ^ doublings
  IN IF delay > RetryMax THEN RetryMax ELSE delay

Failed(entry, reason, t) ==
  [entry EXCEPT !.failures = @ + 1, !.retry = t + Backoff(entry.failures + 1),
                !.failure = reason]

(* What a sweep drops: a list past its grace, in use or not, and an unused *)
(* entry whose list is overdue or whose delay after a failure is over.     *)
StaleExpired(entry, t) == entry.crl # NoList /\ t >= entry.crl.next + StaleGrace

Unused(entry, t) ==
  /\ ~InUse(entry, t)
  /\ \/ entry.crl # NoList /\ t >= entry.crl.next
     \/ entry.crl = NoList /\ (entry.retry = Never \/ t >= entry.retry)

Swept(ents, t) ==
  {u \in DOMAIN ents : StaleExpired(ents[u], t) \/ Unused(ents[u], t)}

Without(ents, S) == Restrict(ents, DOMAIN ents \ S)

(* Eviction takes unused entries, the least recently accessed first, until *)
(* they are one of the sets that make enough room, or none is left; of two *)
(* accessed at the same time either may go.                                *)
Evictions(ents, t, enough) ==
  LET spare == {u \in DOMAIN ents : ~InUse(ents[u], t)}
  IN {V \in SUBSET spare :
        /\ \A v \in V, u \in spare \ V : ents[v].access <= ents[u].access
        /\ V \in enough \/ V = spare
        /\ V # {} => \E v \in V : /\ \A u \in V : ents[u].access <= ents[v].access
                                  /\ V \ {v} \notin enough}

-----------------------------------------------------------------------------
(* Checks.                                                                 *)

(* The outcome of one lookup, as a record of the check's batch.            *)
Answer(u, entry, t) ==
  [url |-> u, crl |-> entry.crl, pending |-> entry.pending,
   unknown |-> CASE entry.crl # NoList /\ t < entry.crl.next -> "none"
                 [] entry.pending # 0 -> "pending"
                 [] entry.crl # NoList /\ entry.pending = 0 -> "stale"
                 [] OTHER -> entry.failure]

CacheFull(u) == [url |-> u, crl |-> NoList, pending |-> 0, unknown |-> "cache_full"]

(* A lookup starts a download when none is under way, no delay runs and    *)
(* there is no list or its refresh is due.                                 *)
Wanted(entry, t) ==
  /\ entry.pending = 0
  /\ entry.retry = Never \/ t >= entry.retry
  /\ entry.crl = NoList \/ t >= entry.crl.refresh

Accessed(entry, t, phase) ==
  [entry EXCEPT !.access = t,
                !.used = IF phase = "handshake" THEN t ELSE @,
                !.pending = IF Wanted(entry, t) THEN started.downloads + 1 ELSE @]

(* Variant: one entry more than allowed.                                   *)
Room_OneMore(ents, u, t) ==
  IF u \in DOMAIN ents \/ Cardinality(DOMAIN ents) <= MaxEntries
  THEN {{}}
  ELSE Evictions(ents, t, SUBSET DOMAIN ents \ {{}}) \ {{}}

(* Room for u: nothing to do when it is cached or there is a free place,   *)
(* otherwise one eviction; {} when every entry is in use.                  *)
Room(ents, u, t) ==
  IF u \in DOMAIN ents \/ Cardinality(DOMAIN ents) < MaxEntries
  THEN {{}}
  ELSE Evictions(ents, t, SUBSET DOMAIN ents \ {{}}) \ {{}}

Settle(l, new) ==
  /\ verdict' = [verdict EXCEPT ![l] = new]
  /\ check' = [check EXCEPT ![l] = Resting]

(* A link is checked first in its handshake; the monitor of a link checks  *)
(* it again when its recheck is due or a download it waited for is over.   *)
(* A link whose verdict no recheck can change has no monitor.              *)
Overdue(v) == v.recheck # Never /\ now >= v.recheck
Signalled(v) == \E d \in v.pending : d \notin {x.id : x \in downloads}

Recheckable(l) == verdict[l] # Blank \/ Urls(check[l].path) # {}

(* fetched::check: the time is read once, the path is built, and its URLs  *)
(* are looked up in order.  A monitor first forgets the signals that are   *)
(* over.  A path that does not verify, or a clock before 1970, gives an    *)
(* unknown verdict with nothing to wait for, which in the handshake means  *)
(* that the link is not checked again.                                     *)
Begin(l) ==
  /\ check[l].pc = "idle" /\ started.checks < MaxChecks
  /\ started' = [started EXCEPT !.checks = @ + 1]
  /\ verdict[l] # Blank => Overdue(verdict[l]) \/ Signalled(verdict[l])
  /\ \/ check' = [check EXCEPT ![l] =
           [Resting EXCEPT !.pc = "lookup", !.at = now, !.path = Prepared(Points[l]),
                           !.todo = Round(Prepared(Points[l])),
                           !.phase = IF verdict[l] = Blank THEN "handshake" ELSE "recheck"]]
        /\ verdict' = [verdict EXCEPT ![l].pending = {d \in @ : \E x \in downloads : x.id = d}]
     \/ Settle(l, [Blank EXCEPT !.at = now, !.cut = TRUE,
                                !.recheck = IF verdict[l] = Blank THEN Never ELSE now + Refresh])
  /\ UNCHANGED <<now, entries, bytes, full, downloads>>

Lookup(l) ==
  LET u == Head(check[l].todo)
      t == check[l].at
      kept == Without(entries, Swept(entries, t))
      left == bytes - CostOf(entries, Swept(entries, t))
      step(answer, token) ==
        check' = [check EXCEPT ![l].todo = Tail(@),
                               ![l].batch = Append(@, answer),
                               ![l].held = @ \cup token]
  IN
  /\ check[l].pc = "lookup" /\ check[l].todo # <<>>
  /\ IF Room(kept, u, t) = {}
     THEN /\ entries' = kept /\ bytes' = left /\ full' = TRUE
          /\ step(CacheFull(u), {})
          /\ UNCHANGED <<downloads, started>>
     ELSE \E V \in Room(kept, u, t) :
          LET rest == Without(kept, V)
              fresh == u \notin DOMAIN rest
              old == IF fresh THEN NewEntry(t) ELSE rest[u]
              entry == Accessed(old, t, check[l].phase)
              starts == Wanted(old, t)
          IN /\ started.downloads < MaxDownloads \/ ~starts
             /\ started.tokens < MaxTokens \/ ~fresh
             /\ entries' = (u :> entry) @@ rest
             /\ bytes' = left - CostOf(kept, V)
             /\ downloads' = IF starts
                             THEN downloads \cup {[id |-> started.downloads + 1, url |-> u,
                                                   token |-> entry.token, at |-> t, since |-> now]}
                             ELSE downloads
             /\ started' = [started EXCEPT !.downloads = @ + (IF starts THEN 1 ELSE 0),
                                           !.tokens = @ + (IF fresh THEN 1 ELSE 0)]
             /\ step(Answer(u, entry, t), {entry.token})
             /\ UNCHANGED full
  /\ UNCHANGED <<now, verdict>>

(* The answers for the URLs of certificate c of l.                         *)
Answers(l, c) == {a \in Range(check[l].batch) : a.url \in Range(check[l].path[c])}
IsFresh(a, t) == a.crl # NoList /\ t < a.crl.next

(* Candidate.fresh: of the fresh lists the one updated last, the first of  *)
(* equals.                                                                 *)
Fresh(l, c) ==
  LET t == check[l].at
      found == {a \in Answers(l, c) : IsFresh(a, t)}
      newest == {a \in found : \A b \in found : b.crl.this <= a.crl.this}
      first(a) == CHOOSE i \in DOMAIN check[l].path[c] : check[l].path[c][i] = a.url
  IN IF found = {} THEN NoList
     ELSE (CHOOSE a \in newest : \A b \in newest : first(a) <= first(b)).crl

Stale(l, c) == {a.crl : a \in {b \in Answers(l, c) : b.crl # NoList /\ ~IsFresh(b, check[l].at)}}

(* Candidate.reason: a download under way, else what the first URL that    *)
(* has no fresh list says.                                                 *)
Reason(l, c) ==
  LET bad(i) == \E a \in Answers(l, c) : a.url = check[l].path[c][i] /\ a.unknown # "none"
      first == {i \in DOMAIN check[l].path[c] : bad(i) /\ \A j \in 1..(i - 1) : ~bad(j)}
  IN IF \E a \in Answers(l, c) : a.pending # 0 THEN "pending"
     ELSE IF first = {}
     THEN IF Points[l][c] = <<>> THEN "no_distribution_point" ELSE "unsupported_scheme"
     ELSE (CHOOSE a \in Answers(l, c) : a.url = check[l].path[c][CHOOSE i \in first : TRUE]).unknown

AllPending(l) == {a.pending : a \in {b \in Range(check[l].batch) : b.pending # 0}}

(* A handshake that lacks a list a download may bring waits for all the    *)
(* downloads, for Wait at most, and looks everything up again with the     *)
(* time it began with.  The leases of the first round are kept until the   *)
(* second has its own.                                                     *)
MayWait(l) ==
  /\ check[l].phase = "handshake" /\ ~check[l].waited
  /\ AllPending(l) # {}
  /\ \E c \in DOMAIN check[l].path : Fresh(l, c) = NoList /\ Reason(l, c) = "pending"

WaitOver(l) ==
  /\ check[l].pc = "lookup" /\ check[l].todo = <<>> /\ MayWait(l)
  /\ \/ AllPending(l) \cap {d.id : d \in downloads} = {}
     \/ now >= check[l].at + Wait
  /\ check' = [check EXCEPT ![l].todo = Round(check[l].path), ![l].batch = <<>>, ![l].waited = TRUE]
  /\ UNCHANGED <<now, entries, bytes, full, downloads, started, verdict>>

-----------------------------------------------------------------------------
(* Verification (external: webpki).  The list of certificate c says        *)
(* whether c is revoked, or on hold; a list with a bad signature counts    *)
(* for nothing.                                                            *)
Denies(list, on) == list.signed /\ list.revokes \in on

(* verify: a fresh list that revokes decides, then a stale one that does   *)
(* so for good; a certificate without a fresh list that is signed leaves   *)
(* the verdict unknown.                                                    *)
Status(l) ==
  LET fresh(c) == Fresh(l, c)
      certs == DOMAIN check[l].path
  IN IF \E c \in certs : fresh(c) # NoList /\ Denies(fresh(c), {"revoked", "hold"})
     THEN "revoked"
     ELSE IF \E c \in certs : \E s \in Stale(l, c) : Denies(s, {"revoked"})
     THEN "revoked"
     ELSE IF \E c \in certs : fresh(c) = NoList \/ ~fresh(c).signed
     THEN "unknown"
     ELSE "good"

(* Batch.refresh_at: the earliest refresh of the lists found that is still *)
(* to come, and in any case the interval.                                  *)
RecheckAt(l) ==
  LET t == check[l].at
      due == {a.crl.refresh : a \in {b \in Range(check[l].batch) :
                                       b.crl # NoList /\ b.crl.refresh > t}}
  IN Min(due \cup {now + Refresh})

(* Variant: the signals of downloads under way are left out of a recheck.  *)
SignalsOfHandshake(l) == IF check[l].phase = "handshake" THEN AllPending(l) ELSE {}

(* The signals a verdict keeps, those of downloads since ended included.   *)
Signals(l) == AllPending(l)

(* finish_snapshot, on a blocking thread: the batch is what it was when it *)
(* was looked up.  A link whose verdict is revoked is refused or closed,   *)
(* and its leases go with it.                                              *)
Verify(l) ==
  /\ check[l].pc = "lookup" /\ check[l].todo = <<>> /\ ~MayWait(l)
  /\ IF Status(l) = "revoked"
     THEN Settle(l, Blank)
     ELSE Settle(l, [status |-> Status(l), at |-> check[l].at,
                     seen |-> [u \in Urls(check[l].path) |->
                                 (CHOOSE a \in Range(check[l].batch) : a.url = u).crl],
                     pending |-> Signals(l), leases |-> check[l].held,
                     awaited |-> {a.url : a \in {b \in Range(check[l].batch) : b.pending # 0}},
                     recheck |-> IF Recheckable(l) THEN RecheckAt(l) ELSE Never, cut |-> FALSE])
  /\ UNCHANGED <<now, entries, bytes, full, downloads, started>>

(* The recheck of a link takes longer than it may: the monitor gives it up *)
(* and keeps the verdict it had.                                           *)
GiveUp(l) ==
  /\ check[l].pc # "idle" /\ check[l].phase = "recheck"
  /\ verdict' = [verdict EXCEPT ![l].recheck = now + Refresh, ![l].cut = TRUE]
  /\ check' = [check EXCEPT ![l] = Resting]
  /\ UNCHANGED <<now, entries, bytes, full, downloads, started>>

(* A link, or a handshake, ends: its leases are dropped.                   *)
Drop(l) ==
  /\ verdict[l] # Blank \/ check[l] # Resting
  /\ Settle(l, Blank)
  /\ UNCHANGED <<now, entries, bytes, full, downloads, started>>

-----------------------------------------------------------------------------
(* Downloads.                                                              *)

Error(reason) == [is |-> "error", reason |-> reason]

(* Only public addresses are connected to, unless the operator named the   *)
(* trust anchors.                                                          *)
Allowed(address) == Policy = "any" \/ address = "public"

(* Failure::unknown: what a lookup says after a download that failed so.   *)
Unknown(failure) ==
  IF failure \in {"dns", "connect", "status"} THEN "fetch_failed" ELSE failure

(* parse_crl: a list must end after it begins, be valid at the time the    *)
(* download was started with and not be too large.                         *)
Parsed(list, t) ==
  IF list.next <= list.this THEN Error("invalid")
  ELSE IF list.this > t \/ list.next <= t THEN Error("stale")
  ELSE IF list.cost > MaxCost THEN Error("too_large")
  ELSE [is |-> "list", list |-> list]

(* perform: the request fails, or the server answers with a list.          *)
Performed(d) ==
  {Error(Unknown(failure)) : failure \in HttpErrors} \cup {Parsed(list, d.at) : list \in Lists}

(* fetch: the host is resolved and the addresses are filtered first.       *)
Results(d) ==
  UNION {IF addresses = {} THEN {Error(Unknown("dns"))}
         ELSE IF \A address \in addresses : ~Allowed(address) THEN {Error("blocked_address")}
         ELSE Performed(d) : addresses \in Hosts}

(* The list replaces an older one only: by number when both have one, else *)
(* by date.                                                                *)
Rollback(old, new) ==
  /\ old # NoList
  /\ IF old.number # 0 /\ new.number # 0 THEN new.number < old.number
     ELSE new.this < old.this

(* Variant: what is there fits, whatever comes on top.                     *)
FitsBefore(ents, held, V, old, cost) == held - CostOf(ents, V) - old <= MaxBytes

(* Whether the lists fit the budget when those of V are evicted and the    *)
(* old list of the entry is replaced.                                      *)
Fits(ents, held, V, old, cost) == held - CostOf(ents, V) - old + cost <= MaxBytes

(* Keep the list: the cost is within the limit, and eviction made room.    *)
Stored(entry, list, t) ==
  [entry EXCEPT !.crl = [is |-> "list", this |-> list.this, next |-> list.next,
                         number |-> list.number, cost |-> list.cost,
                         revokes |-> list.revokes, signed |-> list.signed,
                         refresh |-> IF t + Refresh < list.next THEN t + Refresh ELSE list.next],
                !.failures = 0, !.retry = Never, !.failure = "unavailable"]

(* Variant: a download takes any entry of its URL for its own.             *)
CurrentByUrl(d, ents) == d.url \in DOMAIN ents

(* The entry the download was started for: the cache may have dropped it,  *)
(* and even made another one for the URL.                                  *)
Current(d, ents) == d.url \in DOMAIN ents /\ ents[d.url].token = d.token

(* The entry back in the cache, without its signal, and a last sweep.      *)
PutBack(rest, u, entry, held, t) ==
  LET ents == (u :> [entry EXCEPT !.pending = 0]) @@ rest
      gone == Swept(ents, t)
  IN /\ entries' = Without(ents, gone)
     /\ bytes' = held - CostOf(ents, gone)

Complete(d) ==
  LET t == d.at + (now - d.since)
      gone == IF Current(d, entries) THEN Swept(entries, t) ELSE {}
      kept == Without(entries, gone)
      left == bytes - CostOf(entries, gone)
      u == d.url
  IN
  /\ d \in downloads
  /\ downloads' = downloads \ {d}
  /\ \E result \in Results(d) :
       IF ~Current(d, kept)
       THEN entries' = kept /\ bytes' = left /\ UNCHANGED full
       ELSE LET entry == kept[u]
                rest == Without(kept, {u})
            IN IF result.is = "error"
               THEN PutBack(rest, u, Failed(entry, result.reason, t), left, t) /\ UNCHANGED full
               ELSE IF Rollback(entry.crl, result.list)
               THEN PutBack(rest, u, Failed(entry, "stale", t), left, t) /\ UNCHANGED full
               ELSE \E V \in IF result.list.cost > MaxBytes THEN {{}}
                             ELSE Evictions(rest, t,
                                    {W \in SUBSET DOMAIN rest :
                                       Fits(rest, left, W, Cost(entry), result.list.cost)}) :
                    LET held == left - CostOf(rest, V)
                        spared == Without(rest, V)
                    IN IF /\ result.list.cost <= MaxBytes
                          /\ Fits(rest, left, V, Cost(entry), result.list.cost)
                       THEN /\ PutBack(spared, u, Stored(entry, result.list, t),
                                       held - Cost(entry) + result.list.cost, t)
                            /\ full' = FALSE
                       ELSE /\ PutBack(spared, u, Failed(entry, "cache_full", t), held, t)
                            /\ full' = TRUE
  /\ UNCHANGED <<now, started, check, verdict>>

Tick ==
  /\ now < MaxTime
  /\ now' = now + 1
  /\ UNCHANGED <<entries, bytes, full, downloads, started, check, verdict>>

Next ==
  \/ \E l \in Link : Begin(l) \/ Lookup(l) \/ WaitOver(l) \/ Verify(l) \/ GiveUp(l) \/ Drop(l)
  \/ \E d \in downloads : Complete(d)
  \/ Tick

Spec == Init /\ [][Next]_vars

-----------------------------------------------------------------------------
(* Properties.                                                             *)

(* The lists in the cache cost what the counter says, no more than the     *)
(* budget, and no more entries than allowed: through sweeps, evictions,    *)
(* replacements and the entry a finishing download takes out and puts back *)
(* (cache/mod.rs, sweep, evict, complete).                                 *)
Budget ==
  /\ bytes = CostOf(entries, DOMAIN entries)
  /\ bytes <= MaxBytes
  /\ Cardinality(DOMAIN entries) <= MaxEntries

(* An entry waits for a download exactly while the one started for it is   *)
(* under way: a download that outlived its entry neither fills the entry   *)
(* made for the URL after it nor ends that entry's wait (the generation of *)
(* complete).                                                              *)
PendingIsServed ==
  \A u \in DOMAIN entries :
    {d.id : d \in {x \in downloads : x.token = entries[u].token}}
      = {entries[u].pending} \ {0}

(* A verdict knows when to look at u again: a download was under way, or   *)
(* the list it was made with has its refresh before it.  It does not when  *)
(* a refresh has failed and waits for its next turn.                       *)
Expects(v, u) == u \in v.awaited \/ (v.seen[u] # NoList /\ v.seen[u].refresh > v.at)

(* A link in use learns of every new list that concerns it: when the list  *)
(* cached for one of its URLs is not the one its verdict was made with, a  *)
(* signal of the verdict or its recheck time tells it to look again        *)
(* (RevocationVerdict.pending and refresh_at), or will when the download it *)
(* waits for ends.  After a recheck that was cut off, it looks again       *)
(* within the interval instead.                                            *)
NewsReaches ==
  \A l \in Link :
    (verdict[l] # Blank /\ check[l].pc = "idle" /\ ~verdict[l].cut) =>
      \A u \in DOMAIN verdict[l].seen \cap DOMAIN entries :
        (entries[u].crl \notin {NoList, verdict[l].seen[u]} /\ Expects(verdict[l], u))
          => \/ Overdue(verdict[l]) \/ Signalled(verdict[l])
             \/ \E d \in downloads : d.url = u /\ d.id \in verdict[l].pending

(* "starts at most one detached download per URL" (cache/mod.rs, lookup).  *)
OneDownloadPerUrl ==
  \A d, e \in downloads : d.url = e.url => d = e
=============================================================================
