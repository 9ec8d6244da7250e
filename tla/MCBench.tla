------------------------------ MODULE MCBench ------------------------------
(***************************************************************************)
(* The two workloads of the benchmark on the variables they share: one     *)
(* pair of accounts and two messages, the second of which can wait in the  *)
(* sender's queue while the first is written; and three accounts, two in   *)
(* use at once, with four slots per phase, so that the first is due twice. *)
(***************************************************************************)
EXTENDS Naturals

VARIABLES part, led, pc, now, cursor, todo, term, barrier, clock, invalid, interrupted, faults,
          late, events, stop, actor, wire, fact,
          stage, own, pool, pending, stopped, spoiled, logins

messageVars == <<late, events, stop, actor, wire, fact>>
churnVars == <<stage, own, pool, pending, stopped, spoiled, logins>>
all == <<part, led, pc, now, cursor, todo, term, barrier, clock, invalid, interrupted, faults,
         messageVars, churnVars>>

M == INSTANCE BenchMessages WITH
       Planned <- 2, MaxInFlight <- 2, Width <- 1, Topology <- "messages",
       Measuring <- TRUE, EventCapacity <- 3, MaxFaults <- 1
C == INSTANCE BenchChurn WITH
       Planned <- 4, MaxInFlight <- 2, Width <- 3, Topology <- "churn", MaxFaults <- 1

ASSUME M!LedgerAssumption /\ M!BenchAssumption /\ C!LedgerAssumption /\ C!ChurnAssumption

Unused == "unused"

Init ==
  \/ /\ part = "messages" /\ M!Init
     /\ stage = Unused /\ own = Unused /\ pool = Unused /\ pending = Unused
     /\ stopped = Unused /\ spoiled = Unused /\ logins = Unused
  \/ /\ part = "churn" /\ C!Init
     /\ late = Unused /\ events = Unused /\ stop = Unused
     /\ actor = Unused /\ wire = Unused /\ fact = Unused

MessagesStep == part = "messages" /\ M!Next /\ UNCHANGED <<part, churnVars>>
ChurnStep == part = "churn" /\ C!Next /\ UNCHANGED <<part, messageVars>>

Spec == Init /\ [][MessagesStep \/ ChurnStep]_all

-----------------------------------------------------------------------------
(* What a run reports is what happened, whatever interrupts it: messages   *)
(* dispatched, written, failed and received in time (Ledger::observe_inner, *)
(* Ledger::finish); logins that succeeded, failed and were closed cleanly, *)
(* with no account used again whose session may still be bound             *)
(* (AccountPool::complete, Ledger::churn).                                 *)
ReportsAreTrue ==
  IF part = "messages" THEN M!CountsAreTrue ELSE C!ChurnIsTrue
=============================================================================
