----------------------------- MODULE BenchChurn -----------------------------
(***************************************************************************)
(* The churn scenario of lonewolf-bench (scenario/churn.rs): accounts that *)
(* log in and close again at a rate.  Priming runs one cycle per account,  *)
(* then a warmup and a measurement dispatch cycles by the schedule and     *)
(* keep a ledger each.  The accounts live in a pool; a cycle owns its      *)
(* account until it is over.                                               *)
(*                                                                         *)
(* A cycle is a future the coordinator polls with the others: its steps    *)
(* are interleaved with the coordinator's, and it is over only when it has *)
(* been collected.  Slot o belongs to account o % Width.                   *)
(***************************************************************************)
EXTENDS Ledger, Sequences

CONSTANT MaxFaults   \* signals, lost events, and failures of the server

ChurnAssumption == Topology = "churn" /\ MaxFaults \in Nat

Accounts == 0 .. Width - 1

VARIABLES
    stage,     \* "prime", "warmup", "measurement", "over"
    pc,        \* "loop", "dispatch", "drain", "finish"
    led,       \* the ledger of the phase
    own,       \* the reasons ChurnPhase keeps beside it
    now, cursor, todo, term, barrier,
    clock,     \* "window", "drain", "over" (past the setup or the drain deadline)
    pool,      \* per account: its state, and whether the pool holds it
    pending,   \* cycles under way, by account: [op, at, started, login, close, blame]
    stopped,   \* the cycles of the phase are told to stop
    interrupted, invalid, faults,
    spoiled,   \* accounts whose session was not closed cleanly
    logins     \* what the cycles of the phase came to

vars == <<stage, pc, led, own, now, cursor, todo, term, barrier, clock, pool, pending,
          stopped, interrupted, invalid, faults, spoiled, logins>>

loop == <<pc, now, cursor, todo, term, barrier>>
signals == <<interrupted, invalid, faults>>
truth == <<spoiled, logins>>

NoLogins == [bound |-> 0, failed |-> 0, clean |-> 0]

Init ==
    /\ stage = "prime" /\ pc = "loop"
    /\ led = NewLedger /\ own = {}
    /\ now = "window" /\ cursor = 0 /\ todo = <<>> /\ term = "none" /\ barrier = "none"
    /\ clock = "window"
    /\ pool = [a \in Accounts |-> [state |-> "idle", held |-> TRUE]]
    /\ pending = [a \in {} |-> 0]
    /\ stopped = FALSE /\ interrupted = FALSE /\ invalid = FALSE
    /\ faults = MaxFaults
    /\ spoiled = {} /\ logins = NoLogins

Fault == faults > 0 /\ faults' = faults - 1

-----------------------------------------------------------------------------
(* The clock, the signal, and the flag of lost events *)

\* The setup has one deadline; a phase has the end of its window and another.
Advance ==
    /\ stage # "over" /\ clock # "over"
    /\ clock' = IF clock = "window" /\ stage # "prime" THEN "drain" ELSE "over"
    /\ UNCHANGED <<stage, led, own, loop, pool, pending, stopped, signals, truth>>

Interrupt ==
    /\ stage # "over" /\ ~interrupted /\ Fault
    /\ interrupted' = TRUE
    /\ UNCHANGED <<stage, led, own, loop, clock, pool, pending, stopped, invalid, truth>>

Invalidate ==
    /\ stage # "over" /\ ~invalid /\ Fault
    /\ invalid' = TRUE
    /\ UNCHANGED <<stage, led, own, loop, clock, pool, pending, stopped, interrupted, truth>>

-----------------------------------------------------------------------------
(* A cycle *)

NewCycle(o) == [op |-> o, at |-> "connecting", started |-> FALSE,
                login |-> "none", close |-> "none", blame |-> "none"]

Step(a, c) == pending' = [pending EXCEPT ![a] = c]

At(a, place) == a \in DOMAIN pending /\ pending[a].at = place

Cancelled == interrupted \/ stopped

\* The first poll of the connection notes the time at which it started.
CycleStarts(a) ==
    /\ At(a, "connecting") /\ ~pending[a].started /\ ~Cancelled
    /\ Step(a, [pending[a] EXCEPT !.started = TRUE])
    /\ UNCHANGED <<stage, led, own, loop, clock, pool, stopped, signals, truth>>

CycleBinds(a) ==
    /\ At(a, "connecting") /\ pending[a].started /\ ~Cancelled
    /\ Step(a, [pending[a] EXCEPT !.at = "bound", !.login = "succeeded"])
    /\ logins' = [logins EXCEPT !.bound = @ + 1]
    /\ UNCHANGED <<stage, led, own, loop, clock, pool, stopped, signals, spoiled>>

\* A login that never started counts as cancelled, whatever ended it.
LoginOutcome(a) == IF Cancelled \/ ~pending[a].started THEN "cancelled" ELSE "failed"

\* The login fails, its deadline passes, or the cycle is cancelled.  Before the
\* connection was polled a deadline is the driver's fault, and a failure an error
\* of the program; so is, later, a server that changed its SCRAM parameters.
Blames(a) ==
    CASE Cancelled -> {"none"}
      [] ~Cancelled /\ ~pending[a].started -> {"DriverLimited", "AccountingError"}
      [] OTHER -> {"none", "AccountingError"}

CycleFails(a) ==
    /\ At(a, "connecting")
    /\ IF Cancelled THEN UNCHANGED faults ELSE Fault
    /\ \E blame \in Blames(a) :
         Step(a, [pending[a] EXCEPT !.at = "ended", !.login = LoginOutcome(a), !.blame = blame])
    /\ logins' = [logins EXCEPT !.failed = @ + 1]
    /\ UNCHANGED <<stage, led, own, loop, clock, pool, stopped, interrupted, invalid, spoiled>>

\* close_session: closed cleanly, failed or past its deadline, or cancelled.
CycleCloses(a) ==
    /\ At(a, "bound")
    /\ \E close \in {"clean", "failed", "cancelled"} :
         /\ close = "cancelled" <=> Cancelled
         /\ IF close = "failed" THEN Fault ELSE UNCHANGED faults
         /\ Step(a, [pending[a] EXCEPT !.at = "ended", !.close = close])
         /\ logins' = [logins EXCEPT !.clean = @ + (IF close = "clean" THEN 1 ELSE 0)]
         /\ spoiled' = IF close = "clean" THEN spoiled ELSE spoiled \cup {a}
    /\ UNCHANGED <<stage, led, own, loop, clock, pool, stopped, interrupted, invalid>>

-----------------------------------------------------------------------------
(* The pool *)

Take(a) == [pool EXCEPT ![a] = [state |-> "busy", held |-> FALSE]]

\* Variant: the state of the account is set and the account not put back.
Complete_NotPutBack(a) ==
    [pool EXCEPT ![a].state =
        IF pending[a].close \in {"failed", "cancelled"} THEN "retired" ELSE "idle"]

Complete(a) ==
    [pool EXCEPT ![a] =
        [state |-> IF pending[a].close \in {"failed", "cancelled"} THEN "retired" ELSE "idle",
         held |-> TRUE]]

Collected(a) ==
    /\ pool' = Complete(a)
    /\ pending' = [b \in DOMAIN pending \ {a} |-> pending[b]]

-----------------------------------------------------------------------------
(* Priming *)

Priming == stage = "prime"

PrimeLaunch ==
    /\ Priming /\ pc = "loop" /\ term = "none" /\ ~interrupted /\ clock # "over"
    /\ cursor < Width /\ Cardinality(DOMAIN pending) < MaxInFlight
    /\ pool' = Take(cursor)
    /\ pending' = [a \in DOMAIN pending \cup {cursor} |->
                      IF a = cursor THEN NewCycle(0) ELSE pending[a]]
    /\ cursor' = cursor + 1
    /\ UNCHANGED <<stage, pc, led, own, now, todo, term, barrier, clock, stopped, signals, truth>>

\* The signal, the setup deadline or a cycle that failed ends the priming while
\* there is something left of it; the cycles are stopped.
PrimeStops ==
    /\ Priming /\ pc = "loop"
    /\ cursor < Width \/ DOMAIN pending # {}
    /\ term # "none" \/ interrupted \/ clock = "over"
    /\ ~stopped
    /\ stopped' = TRUE /\ term' = "Failed"
    /\ UNCHANGED <<stage, pc, led, own, now, cursor, todo, barrier, clock, pool, pending,
                   signals, truth>>

PrimeCollect(a) ==
    /\ Priming /\ pc = "loop" /\ At(a, "ended")
    /\ Collected(a)
    /\ term' = IF pending[a].close = "clean" THEN term ELSE "Failed"
    /\ UNCHANGED <<stage, pc, led, own, now, cursor, todo, barrier, clock, stopped, signals,
                   truth>>

NewPhase(name) ==
    /\ stage' = name
    /\ led' = NewLedger /\ own' = {} /\ logins' = NoLogins
    /\ pc' = "loop" /\ now' = "window" /\ cursor' = 0 /\ todo' = <<>>
    /\ term' = "none" /\ barrier' = "none"
    /\ clock' = "window" /\ stopped' = FALSE

PrimeEnds ==
    /\ Priming /\ DOMAIN pending = {}
    /\ \/ term = "none" /\ cursor = Width /\ NewPhase("warmup")
       \/ /\ term = "Failed" /\ (stopped \/ cursor = Width)
          /\ stage' = "over"
          /\ UNCHANGED <<led, own, loop, clock, stopped, logins>>
    /\ UNCHANGED <<pool, pending, signals, spoiled>>

-----------------------------------------------------------------------------
(* A phase *)

Running == stage \in {"warmup", "measurement"}

\* ChurnPhase::observe of a collected cycle: what the ledger makes of it, and the
\* reasons that are the phase's own.
OwnReasons(a) ==
    ({pending[a].blame} \ {"none"})
    \cup {why \in {"OperationsFailed"} : pending[a].close \in {"failed", "cancelled"}}

Observe(L, a) ==
    ChurnFinished(L, pending[a].op, a,
        [started |-> pending[a].started, login |-> pending[a].login, close |-> pending[a].close])

\* Completed cycles are collected at the top of the loop, in the wait at its
\* end, and after the loop until none is left.
Collect(a) ==
    /\ Running /\ pc \in {"loop", "drain"} /\ At(a, "ended")
    /\ led' = Observe(led, a)
    /\ own' = own \cup OwnReasons(a)
    /\ Collected(a)
    /\ UNCHANGED <<stage, loop, clock, stopped, signals, truth>>

\* After the loop, whatever ended it, the cycles still under way are stopped.
Break(how, L, why) ==
    /\ led' = L /\ own' = own \cup why
    /\ term' = how /\ pc' = "drain" /\ now' = "window"
    /\ barrier' = IF DOMAIN pending = {} /\ IsSettled(L) THEN "settled" ELSE "retired"
    /\ stopped' = TRUE
    /\ UNCHANGED <<cursor, todo>>

Iterate ==
    /\ Running /\ pc = "loop"
    /\ \/ interrupted /\ Break("Cancelled", led, {})
       \/ ~interrupted /\ (invalid \/ led.error)
          /\ Break("Failed", IF invalid THEN Because(led, "EventOverflow") ELSE led, {})
       \/ /\ ~interrupted /\ ~invalid /\ ~led.error
          /\ \E skipTo \in cursor .. Planned, upTo \in cursor .. Planned :
               /\ skipTo <= upTo
               /\ clock = "over" => skipTo = Planned
               /\ led' = RecordSkipped(led, cursor .. skipTo - 1, "scheduler")
               /\ cursor' = upTo
               /\ todo' = [k \in 1 .. upTo - skipTo |-> skipTo + k - 1]
          /\ now' = clock /\ pc' = "dispatch"
          /\ UNCHANGED <<own, term, barrier, stopped>>
    /\ UNCHANGED <<stage, clock, pool, pending, signals, truth>>

\* Why the slot cannot run, before it is reserved.
SkipBecause(a) ==
    CASE pool[a].state = "retired" -> {"disconnected"}
      [] pool[a].state = "busy" -> {"account_busy"}
      [] OTHER -> {}

Launch(a, o, L) ==
    /\ pool' = Take(a)
    /\ pending' = [b \in DOMAIN pending \cup {a} |->
                      IF b = a THEN NewCycle(o) ELSE pending[b]]
    /\ led' = CommitDispatch(L, o)

Dispatch ==
    LET o == Head(todo)
        a == ExpectedRoute(o)
        L == Reserve(led, o, a)
    IN  /\ Running /\ pc = "dispatch" /\ todo # <<>>
        /\ todo' = Tail(todo)
        /\ own' = own \cup {why \in {"OperationsFailed"} : pool[a].state = "retired"}
        /\ \/ /\ led' = RecordSkipped(led, {o}, "scheduler") /\ UNCHANGED <<pool, pending>>
           \/ /\ \E reason \in SkipBecause(a) : led' = RecordSkipped(led, {o}, reason)
              /\ UNCHANGED <<pool, pending>>
           \/ /\ SkipBecause(a) = {} /\ L.entry[o] # "reserved"
              /\ led' = L /\ UNCHANGED <<pool, pending>>
           \/ /\ SkipBecause(a) = {} /\ L.entry[o] = "reserved"
              /\ led' = RollbackReservation(L, o, "scheduler") /\ UNCHANGED <<pool, pending>>
           \/ /\ SkipBecause(a) = {} /\ L.entry[o] = "reserved" /\ clock # "over"
              /\ Launch(a, o, L)
        /\ UNCHANGED <<stage, pc, now, cursor, term, barrier, clock, stopped, signals, truth>>

\* Past the drain deadline the phase gives up with a reason of its own.
EndIteration ==
    /\ Running /\ pc = "dispatch" /\ todo = <<>>
    /\ \/ /\ now # "window" /\ cursor = Planned /\ DOMAIN pending = {}
          /\ Break("Completed", led, {})
       \/ /\ ~(now # "window" /\ cursor = Planned /\ DOMAIN pending = {})
          /\ now = "over" /\ Break("Failed", led, {"AccountingError"})
       \/ /\ ~(now # "window" /\ cursor = Planned /\ DOMAIN pending = {})
          /\ now # "over"
          /\ pc' = "loop" /\ now' = "window"
          /\ UNCHANGED <<led, own, cursor, todo, term, barrier, stopped>>
    /\ UNCHANGED <<stage, clock, pool, pending, signals, truth>>

\* The result has the reasons of both, and counts unless one of them is worse.
Measured(L, O) == L.reasons \cup O \subseteq {"OperationsFailed", "DriverLimited"}

\* The drain is over: the ledger is finished, and so is the run unless this
\* was a warmup whose result counts.
FinishPhase ==
    /\ Running /\ pc = "drain" /\ DOMAIN pending = {}
    /\ led' = Finish(IF invalid THEN Because(led, "EventOverflow") ELSE led, term, barrier)
    /\ pc' = "finish"
    /\ UNCHANGED <<stage, own, now, cursor, todo, term, barrier, clock, pool, pending,
                   stopped, signals, truth>>

NextPhase ==
    /\ Running /\ pc = "finish"
    /\ IF stage = "warmup" /\ Measured(led, own)
         THEN NewPhase("measurement")
         ELSE stage' = "over" /\ UNCHANGED <<led, own, loop, clock, stopped, logins>>
    /\ UNCHANGED <<pool, pending, signals, spoiled>>

Over == stage = "over" /\ UNCHANGED vars

Next ==
    \/ Advance \/ Interrupt \/ Invalidate
    \/ \E a \in Accounts :
          \/ CycleStarts(a) \/ CycleBinds(a) \/ CycleFails(a) \/ CycleCloses(a)
          \/ PrimeCollect(a) \/ Collect(a)
    \/ PrimeLaunch \/ PrimeStops \/ PrimeEnds
    \/ Iterate \/ Dispatch \/ EndIteration \/ FinishPhase \/ NextPhase
    \/ Over

Spec == Init /\ [][Next]_vars

-----------------------------------------------------------------------------
(* Whatever ends a phase, its cycles have been collected and their accounts *)
(* are back in the pool, its counters tell how many logins succeeded,       *)
(* failed and were closed cleanly, the ledger finds its sums right, and a   *)
(* session that was not closed cleanly is among the reasons; and an account *)
(* whose session may so be bound on the server still does not log in again  *)
(* (AccountPool::complete, run_phase, Ledger::churn, ChurnPhase::observe).  *)
ChurnIsTrue ==
    /\ Running /\ pc = "finish" =>
          /\ "AccountingError" \notin led.reasons
          /\ \A a \in Accounts : pool[a].held /\ pool[a].state # "busy"
          /\ led.count["login_succeeded"] = logins.bound
          /\ led.count["login_failed"] = logins.failed
          /\ led.count["closed_cleanly"] = logins.clean
          /\ logins.clean < logins.bound => "OperationsFailed" \in own
    /\ \A a \in spoiled \cap DOMAIN pending : pending[a].at = "ended"
=============================================================================
