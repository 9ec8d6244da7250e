------------------------------- MODULE Ledger -------------------------------
(***************************************************************************)
(* The accounting of one phase of a benchmark run                          *)
(* (lonewolf-bench/src/measurement/ledger.rs): which planned operation was  *)
(* skipped, dispatched, written, received, or given up, and why.  A ledger  *)
(* is a value; every operator takes one and returns the next.  The phases   *)
(* that own a ledger are in BenchMessages and BenchChurn.                   *)
(*                                                                         *)
(* Instants are abstracted to what the ledger compares them with: an        *)
(* observation carries whether it was made before the deadline of its       *)
(* operation (onTime).  Left out are the split of four counters between     *)
(* the window and the drain, each part counted beside its total, and the    *)
(* latency histograms; the clock is monotonic, so that no elapsed time is   *)
(* negative.                                                                *)
(***************************************************************************)
EXTENDS Integers, FiniteSets, Functions

CONSTANTS
    Planned,      \* operations in the schedule of the phase
    MaxInFlight,  \* operations that may be active at once
    Width,        \* pairs of accounts (messages) or accounts (churn)
    Topology      \* "messages" or "churn"

LedgerAssumption ==
    /\ Planned \in Nat
    /\ MaxInFlight \in Nat \ {0}
    /\ Width \in Nat \ {0}
    /\ Topology \in {"messages", "churn"}

Ops == 0 .. Planned - 1

EntryState == {"unstarted", "reserved", "skipped", "dispatched", "settled"}

Skips == {"scheduler", "in_flight", "writer_busy", "account_busy",
          "disconnected", "cancelled"}

Counters ==
    Skips \cup
    {"dispatched", "write_succeeded", "write_failed", "write_cancelled",
     "received_on_time", "late_receipts", "duplicates",
     "unknown_ids", "stale_phase", "wrong_recipient", "unexpected",
     "unexpected_disconnects",
     "unreceived_timeout", "unreceived_connection_closed",
     "unreceived_send_failed", "unreceived_cancelled",
     "connection_attempts", "login_succeeded", "login_failed",
     "closed_cleanly", "close_failed"}

Reasons == {"Interrupted", "WorkloadFailure", "AccountingError",
            "EventOverflow", "OperationsFailed", "DriverLimited"}

Reserved0 ==
    [started |-> FALSE, write |-> "pending", receipt |-> FALSE,
     onTime |-> FALSE, expired |-> FALSE, closed |-> FALSE,
     sendFailed |-> FALSE, terminal |-> FALSE]

NewLedger ==
    [entry |-> [o \in Ops |-> "unstarted"], seen |-> {},
     active |-> [o \in {} |-> Reserved0],
     count |-> [c \in Counters |-> 0], reasons |-> {}, error |-> FALSE]

-----------------------------------------------------------------------------
Because(L, why) == [L EXCEPT !.reasons = @ \cup {why}]

\* An operation of the ledger returned Err.
Fails(L) == [Because(L, "AccountingError") EXCEPT !.error = TRUE]

Add(L, c, n) == [L EXCEPT !.count[c] = @ + n]

CountOne(L, C) == [L EXCEPT !.count = [c \in Counters |-> @[c] + (IF c \in C THEN 1 ELSE 0)]]

IsSettled(L) == DOMAIN L.active = {}

ExpectedRoute(o) == o % Width

SkipReasonCode(reason) ==
    CASE reason = "cancelled" -> "Interrupted"
      [] reason = "disconnected" -> "OperationsFailed"
      [] OTHER -> "DriverLimited"

CountSkip(L, reason, n) ==
    IF n = 0 THEN L ELSE Because(Add(L, reason, n), SkipReasonCode(reason))

RecordSkipped(L, S, reason) ==
    IF \E o \in S : L.entry[o] # "unstarted"
      THEN Fails(L)
      ELSE [CountSkip(L, reason, Cardinality(S)) EXCEPT
              !.entry = [o \in Ops |-> IF o \in S THEN "skipped" ELSE @[o]]]

Reserve(L, o, route) ==
    IF ~(route = ExpectedRoute(o) /\ L.entry[o] = "unstarted")
      THEN Fails(L)
    ELSE IF Cardinality(DOMAIN L.active) = MaxInFlight
      THEN RecordSkipped(L, {o}, "in_flight")
      ELSE [L EXCEPT
              !.entry[o] = "reserved",
              !.active = [p \in DOMAIN @ \cup {o} |->
                             IF p = o THEN Reserved0 ELSE @[p]]]

Without(act, o) == Restrict(act, DOMAIN act \ {o})

RollbackReservation(L, o, reason) ==
    IF L.entry[o] # "reserved"
      THEN Fails(L)
      ELSE [CountSkip(L, reason, 1) EXCEPT !.active = Without(@, o),
                                           !.entry[o] = "skipped"]

CommitDispatch(L, o) ==
    IF L.entry[o] # "reserved"
      THEN Fails(L)
      ELSE [CountOne(L, {"dispatched"}
                \cup (IF Topology = "churn" THEN {"connection_attempts"} ELSE {}))
              EXCEPT !.entry[o] = "dispatched"]

\* expire_through: late is the set of operations whose deadline has passed.
ExpireThrough(L, late) ==
    [L EXCEPT !.active = [o \in DOMAIN @ |->
        [@[o] EXCEPT !.expired = @ \/ o \in late]]]

-----------------------------------------------------------------------------
(* Observations *)

\* Variant: the receipt settles the message although its writer has not reported.
SettledBy_Receipt(a) == a.terminal \/ a.onTime

SettledBy(a) == a.terminal \/ (a.onTime /\ a.started /\ a.write # "pending")

\* with_active stores the changed operation again unless it has settled.
Store(L, o, a) ==
    IF SettledBy(a)
      THEN [L EXCEPT !.entry[o] = "settled", !.active = Without(@, o)]
      ELSE [L EXCEPT !.active[o] = a]

Committed(L, o) == L.entry[o] = "dispatched"

Rejected(L, kind) == CountOne(L, {kind})

ConnectionClosed(L, index) ==
    [CountOne(L, {"unexpected_disconnects"}) EXCEPT
        !.active = [o \in DOMAIN @ |->
            [@[o] EXCEPT !.closed = @ \/
                (Topology = "messages" /\ index \in {2 * ExpectedRoute(o), 2 * ExpectedRoute(o) + 1})]]]

WriteStarted(L, o) ==
    IF ~Committed(L, o) \/ Topology # "messages" \/ L.active[o].started
      THEN Fails(L)
      ELSE Store(L, o, [L.active[o] EXCEPT !.started = TRUE])

WriteFinished(L, o, outcome) ==
    IF ~Committed(L, o) \/ Topology # "messages" \/ L.active[o].write # "pending"
      THEN Fails(L)
      ELSE CountOne(Store(L, o, [L.active[o] EXCEPT !.write = outcome]),
               {IF outcome = "failed" THEN "write_failed" ELSE "write_succeeded"})

SendFailed(L, o) ==
    IF L.entry[o] = "settled" THEN L
    ELSE IF ~Committed(L, o) THEN Fails(L)
    ELSE Store(L, o, [L.active[o] EXCEPT !.sendFailed = TRUE])

Receipt(L, o, route, onTime) ==
    CASE ExpectedRoute(o) # route -> Rejected(L, "wrong_recipient")
      [] Topology # "messages" -> Rejected(L, "unexpected")
      [] L.entry[o] \notin {"dispatched", "settled"} -> Rejected(L, "unknown_ids")
      [] o \in L.seen -> CountOne(L, {"duplicates"})
      [] OTHER ->
           LET got == [L.active[o] EXCEPT !.receipt = TRUE, !.onTime = onTime]
           IN  [CountOne(Store(L, o, got),
                   {IF onTime THEN "received_on_time" ELSE "late_receipts"})
                 EXCEPT !.seen = @ \cup {o}]

\* A cycle is over.  out: [started, login, close].
ChurnFinished(L, o, route, out) ==
    IF \/ route # ExpectedRoute(o)
       \/ ~Committed(L, o)
       \/ ~out.started /\ out.login # "cancelled"
       \/ out.login # "succeeded" /\ out.close # "none"
       \/ out.login = "succeeded" /\ out.close = "none"
      THEN Fails(L)
      ELSE LET done == Store(L, o, [L.active[o] EXCEPT !.terminal = TRUE])
               said == IF "cancelled" \in {out.login, out.close}
                         THEN Because(done, "Interrupted") ELSE done
           IN  CountOne(said,
                   IF out.login # "succeeded" THEN {"login_failed"}
                   ELSE {"login_succeeded",
                         IF out.close = "clean" THEN "closed_cleanly" ELSE "close_failed"})

-----------------------------------------------------------------------------
(* finish *)

NotDispatched(L) == {o \in Ops : L.entry[o] \in {"unstarted", "reserved"}}

MayFinalize(L, barrier) ==
    \/ barrier = "retired"
    \/ \A o \in DOMAIN L.active : L.active[o].expired

\* Why a dispatched message was not received in time.
Unreceived(a, term) ==
    CASE a.write = "failed" \/ a.sendFailed -> "unreceived_send_failed"
      [] a.closed -> "unreceived_connection_closed"
      [] term = "Cancelled" -> "unreceived_cancelled"
      [] OTHER -> "unreceived_timeout"

\* The counters of the operations that are still active are settled.
Leftover(L, term) ==
    LET left == {o \in DOMAIN L.active : L.entry[o] = "dispatched"}
        of(o) ==
            IF Topology = "churn" THEN {"login_failed"}
            ELSE (IF L.active[o].write = "pending" THEN {"write_cancelled"} ELSE {})
                 \cup (IF L.active[o].onTime THEN {} ELSE {Unreceived(L.active[o], term)})
    IN  [c \in Counters |-> L.count[c] + Cardinality({o \in left : c \in of(o)})]

MissingStart(L) ==
    \E o \in DOMAIN L.active :
        /\ L.active[o].write # "pending" \/ L.active[o].receipt
        /\ ~L.active[o].started

SumOf(n, C) == SumFunctionOnSet(n, C)

Reconciled(n) ==
    /\ Planned = SumOf(n, Skips \cup {"dispatched"})
    /\ IF Topology = "messages"
         THEN /\ n["dispatched"] = SumOf(n, {"write_succeeded", "write_failed", "write_cancelled"})
              /\ n["dispatched"] = SumOf(n, {"received_on_time", "unreceived_timeout",
                                             "unreceived_connection_closed",
                                             "unreceived_send_failed", "unreceived_cancelled"})
         ELSE /\ n["connection_attempts"] = n["dispatched"]
              /\ n["connection_attempts"] = SumOf(n, {"login_succeeded", "login_failed"})
              /\ n["login_succeeded"] = SumOf(n, {"closed_cleanly", "close_failed"})

\* The counters that tell of operations that failed.
Failures == {"write_failed", "unreceived_timeout", "unreceived_connection_closed",
             "unreceived_send_failed", "late_receipts", "duplicates", "unknown_ids",
             "wrong_recipient", "unexpected_disconnects", "login_failed", "close_failed"}

TerminationReasons(term) ==
    CASE term = "Cancelled" -> {"Interrupted"}
      [] term = "Failed" -> {"WorkloadFailure"}
      [] OTHER -> {}

Finish(L, term, barrier) ==
    LET open == NotDispatched(L)
        may == MayFinalize(L, barrier)
        closed == IF may /\ term # "Completed" THEN Add(L, "cancelled", Cardinality(open)) ELSE L
        n == IF may THEN Leftover(closed, term) ELSE L.count
        wrong == \/ ~may
                 \/ term = "Completed" /\ open # {}
                 \/ may /\ MissingStart(L)
                 \/ ~Reconciled(n)
    IN  [L EXCEPT
           !.count = n,
           !.active = IF may THEN [o \in {} |-> Reserved0] ELSE @,
           !.reasons = @ \cup TerminationReasons(term)
               \cup (IF wrong THEN {"AccountingError"} ELSE {})
               \cup (IF term # "Cancelled" /\ \E c \in Failures : n[c] > 0
                       THEN {"OperationsFailed"} ELSE {})]
=============================================================================
