------------------------------ MODULE MCExpiry ------------------------------
(***************************************************************************)
(* What comes to an end: certificates (Acme), the links of peers whose     *)
(* certificates end (Validity), the two tasks of a client stream (Link)    *)
(* and the threads that run them (CoreDispatcher).  A behaviour is one of  *)
(* a single component, "part", while the others rest in an initial state;  *)
(* they share nothing.                                                     *)
(***************************************************************************)
EXTENDS Link

CONSTANTS None, h1, k1, k2, u1, v1, reader, writer, j1, j2

VARIABLES
  part,
  up, profile, disk, acct, queue, copy, ready, ajob, job, served, chal, ca, since, corrupt,
  now, source, file, revoked, stage, link, monitor, worker,
  owner, at, outcome, expired, stop, jobs, closed, thread, task, on, handle

acmeVars == <<up, profile, disk, acct, queue, copy, ready, ajob, job, served, chal, ca, since,
              corrupt>>
validityVars == <<now, source, file, revoked, stage, link, monitor, worker>>
threadVars == <<owner, at, outcome, expired, stop, jobs, closed, thread, task, on, handle>>
all == <<part, acmeVars, validityVars, vars, threadVars>>

\* One host, while the process runs.
A == INSTANCE Acme WITH
       Hosts <- {h1}, Keys <- {k1, k2}, Urls <- {u1}, Profiles <- {v1},
       Life <- 2, RenewIn <- 1, AriEvery <- 1, OrderLife <- 1, MaxDelay <- 1,
       Crashes <- FALSE

File(state, next, covers, revokes) ==
  [state |-> state, this |-> 0, next |-> next, covers |-> covers, revokes |-> revokes]

\* Certificates that outlive the run and one that ends within it; lists that
\* cover it or not, revoke it or not, end within the run or cannot be used.
V == INSTANCE Validity WITH
       Sources <- {"file", "fetched", "disabled"},
       Chains <- [leaf : {4, 9}, intermediate : {9}, anchor : {9}],
       Files <- {File("readable", 9, TRUE, FALSE), File("readable", 3, TRUE, FALSE),
                 File("readable", 9, TRUE, TRUE), File("readable", 9, FALSE, FALSE),
                 File("unreadable", 9, TRUE, FALSE), File("invalid", 9, TRUE, TRUE)},
       Worker <- {reader, writer}, Interval <- 2, Timeout <- 1, MaxTime <- 6

\* Two threads with room for one job each.
T == INSTANCE CoreDispatcher WITH
       Count <- 2, Jobs <- {j1, j2}, Capacity <- 1, queue <- jobs, worker <- thread

ASSUME A!AcmeAssumption /\ V!ValidityAssumption /\ T!DispatcherAssumption

SuiteInit ==
  /\ part \in {"acme", "validity", "link", "threads"}
  /\ A!Init /\ V!Init /\ Init /\ T!Init
  /\ part # "validity" => source = "disabled" /\ file.state = "invalid"

AcmeStep == part = "acme" /\ A!Next /\ UNCHANGED <<part, validityVars, vars, threadVars>>
ValidityStep == part = "validity" /\ V!Next /\ UNCHANGED <<part, acmeVars, vars, threadVars>>
LinkStep == part = "link" /\ Next /\ UNCHANGED <<part, acmeVars, validityVars, threadVars>>
ThreadStep == part = "threads" /\ T!Next /\ UNCHANGED <<part, acmeVars, validityVars, vars>>

\* A stream comes to an end, with or without its certificate, and so do threads.
Ended == part \in {"validity", "link", "threads"} /\ UNCHANGED all

SuiteNext == AcmeStep \/ ValidityStep \/ LinkStep \/ ThreadStep \/ Ended

(* The fairness of the components.  The tasks of a link and the owner of   *)
(* the threads have a step to take from their first state, and take it     *)
(* only when chosen.                                                       *)
SuiteFairness ==
  /\ A!Fairness /\ V!Fairness
  /\ WF_vars(part = "link" /\ SessionNext)
  /\ WF_vars(part = "link" /\ (Receive \/ OperationStops \/ Finish))
  /\ WF_vars(part = "link" /\ (ReadGate \/ ReadStops \/ ReadSend))
  /\ WF_vars(part = "link" /\ progress.failure # NoOutcome /\ Cut)
  /\ WF_threadVars(part = "threads" /\ T!OwnerStep)
  /\ WF_threadVars(part = "threads" /\ T!Expire)
  /\ \A w \in T!Workers : WF_threadVars(part = "threads" /\ T!WorkerStep(w))

SuiteSpec == SuiteInit /\ [][SuiteNext]_all /\ SuiteFairness

-----------------------------------------------------------------------------
(* A revocation that a check has found ends the stream, for one reason     *)
(* that all of its tasks report (s2s/validity.rs).                         *)
RevocationLands == V!OneReason /\ V!RevocationLands

(* A host whose certificate is due is tried (manager/mod.rs drive).         *)
DueIsTried == A!DueIsTried

(* What the threads report of a task, and of the whole at their shutdown,  *)
(* is what happened (util/core_dispatcher).                                *)
OutcomesAreTrue == T!OutcomesAreTrue

(* The tasks of a stream all end, when one of them stops and when its      *)
(* certificate is found invalid, and the threads with everyone who waits   *)
(* for them (bound/link, s2s/validity.rs, util/core_dispatcher).           *)
TasksEnd == StopEndsBoth /\ V!AllEnd /\ T!StopEndsAll
=============================================================================
