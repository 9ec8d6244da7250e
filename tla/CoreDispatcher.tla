--------------------------- MODULE CoreDispatcher ---------------------------
(***************************************************************************)
(* The worker threads that run every connection of the server              *)
(* (lonewolf-util/src/core_dispatcher): each has a bounded queue of jobs,  *)
(* runs those it takes as tasks of its own thread, and stops with a        *)
(* deadline that all workers share.  Submitters are on other threads and   *)
(* hold clones of the queues' senders for as long as they like, so that a  *)
(* queue lives on after its worker.                                        *)
(***************************************************************************)
EXTENDS Naturals, Sequences

CONSTANTS
  Count,     \* the number of workers
  Jobs,      \* what is dispatched
  Capacity   \* queue_capacity

DispatcherAssumption == Count \in Nat \ {0} /\ Capacity \in Nat \ {0}

VARIABLES
  owner,     \* what CoreDispatcher's owner is doing
  at,        \* ... to which worker
  outcome,   \* what start or shutdown returned
  expired,   \* the deadline of the stop has passed
  stop,      \* the oneshot of each worker
  queue, closed,
  worker,    \* where each worker is, and whether it has seen a panic
  task,      \* what has become of each job
  on,        \* the worker it was dispatched to
  handle     \* what its submitter knows of it

vars == <<owner, at, outcome, expired, stop, queue, closed, worker, task, on, handle>>

Workers == 1 .. Count

Init ==
  /\ owner = "starting" /\ at = 1 /\ outcome = "none" /\ expired = FALSE
  /\ stop = [w \in Workers |-> FALSE]
  /\ queue = [w \in Workers |-> <<>>] /\ closed = [w \in Workers |-> FALSE]
  /\ worker = [w \in Workers |-> [pc |-> "unborn", panicked |-> FALSE, result |-> "none"]]
  /\ task = [j \in Jobs |-> "new"] /\ on = [j \in Jobs |-> 0]
  /\ handle = [j \in Jobs |-> "none"]

-----------------------------------------------------------------------------
(* The owner *)

\* The workers are started one after the other.  When one cannot be, the
\* earlier ones are stopped at once and joined.
StartWorker(ok) ==
  /\ owner = "starting"
  /\ IF ok THEN /\ worker' = [worker EXCEPT ![at].pc = "select"]
                /\ owner' = IF at = Count THEN "up" ELSE "starting"
                /\ at' = IF at = Count THEN 1 ELSE at + 1
                /\ UNCHANGED <<outcome, expired, stop>>
           ELSE /\ owner' = "joining" /\ at' = 1 /\ outcome' = "failed" /\ expired' = TRUE
                /\ stop' = [w \in Workers |-> w < at]
                /\ UNCHANGED worker
  /\ UNCHANGED <<queue, closed, task, on, handle>>

\* shutdown_at sets a deadline; drop stops at once and joins nobody, and a
\* drop while its thread unwinds forgets the senders of the signal.
Shutdown ==
  /\ owner = "up" /\ owner' = "telling"
  /\ UNCHANGED <<at, outcome, expired, stop, queue, closed, worker, task, on, handle>>

Drop(unwinding) ==
  /\ owner = "up"
  /\ IF unwinding THEN owner' = "gone" /\ UNCHANGED <<outcome, expired>>
                  ELSE owner' = "telling" /\ outcome' = "dropped" /\ expired' = TRUE
  /\ UNCHANGED <<at, stop, queue, closed, worker, task, on, handle>>

\* Every worker is told of the deadline before the first queue is closed.
Tell ==
  /\ owner = "telling"
  /\ stop' = [stop EXCEPT ![at] = TRUE]
  /\ owner' = IF at = Count THEN "closing" ELSE owner
  /\ at' = IF at = Count THEN 1 ELSE at + 1
  /\ UNCHANGED <<outcome, expired, queue, closed, worker, task, on, handle>>

\* The submissions that wait for a place in a queue are refused with it.
Refused(w) ==
  [j \in Jobs |-> IF handle[j] = "waiting" /\ on[j] = w THEN "refused" ELSE handle[j]]

CloseQueue ==
  /\ owner = "closing"
  /\ closed' = [closed EXCEPT ![at] = TRUE]
  /\ handle' = Refused(at)
  /\ IF at < Count THEN at' = at + 1 /\ UNCHANGED owner
                   ELSE at' = 1 /\ owner' = IF outcome = "dropped" THEN "over" ELSE "joining"
  /\ UNCHANGED <<outcome, expired, stop, queue, worker, task, on>>

\* The first failure in the order of the workers is reported.
First(result) == IF outcome \in {"none", "ok"} THEN result ELSE outcome

\* join_workers; a worker that never started has no thread.
Join ==
  /\ owner = "joining"
  /\ worker[at].pc \in {"unborn", "over"}
  /\ outcome' = IF worker[at].pc = "over" THEN First(worker[at].result) ELSE outcome
  /\ owner' = IF at = Count THEN "over" ELSE owner
  /\ at' = IF at = Count THEN at ELSE at + 1
  /\ UNCHANGED <<expired, stop, queue, closed, worker, task, on, handle>>

\* Time passes.
Expire ==
  /\ owner \in {"telling", "closing", "joining"} /\ ~expired
  /\ expired' = TRUE
  /\ UNCHANGED <<owner, at, outcome, stop, queue, closed, worker, task, on, handle>>

-----------------------------------------------------------------------------
(* Submitters: DispatchHandle::dispatch_at *)

Dispatched(j, w) ==
  \/ /\ closed[w] /\ handle' = [handle EXCEPT ![j] = "refused"]
     /\ UNCHANGED <<queue, task>>
  \/ /\ ~closed[w] /\ Len(queue[w]) < Capacity
     /\ queue' = [queue EXCEPT ![w] = Append(@, j)]
     /\ task' = [task EXCEPT ![j] = "queued"]
     /\ handle' = [handle EXCEPT ![j] = "pending"]

Dispatch(j, w) ==
  /\ owner \notin {"starting"} /\ outcome # "failed"
  /\ handle[j] = "none"
  /\ on' = [on EXCEPT ![j] = w]
  /\ IF w \notin Workers
       THEN handle' = [handle EXCEPT ![j] = "refused"] /\ UNCHANGED <<queue, task>>
       ELSE \/ Dispatched(j, w)
            \/ /\ ~closed[w] /\ Len(queue[w]) = Capacity
               /\ handle' = [handle EXCEPT ![j] = "waiting"] /\ UNCHANGED <<queue, task>>
  /\ UNCHANGED <<owner, at, outcome, expired, stop, closed, worker>>

\* A place becomes free, or the submission is given up.
Submit(j) ==
  /\ handle[j] = "waiting"
  /\ Dispatched(j, on[j])
  /\ UNCHANGED <<owner, at, outcome, expired, stop, closed, worker, on>>

GiveUp(j) ==
  /\ handle[j] = "waiting"
  /\ handle' = [handle EXCEPT ![j] = "dropped"]
  /\ UNCHANGED <<owner, at, outcome, expired, stop, queue, closed, worker, task, on>>

-----------------------------------------------------------------------------
(* Workers: run_worker *)

Of(w, state) == {j \in Jobs : on[j] = w /\ task[j] \in state}

\* A task ends, or panics in its factory or its future.  It runs on its
\* worker's thread, and so never between two steps of one poll of the loop.
TaskEnds(j, how) ==
  /\ task[j] = "running"
  /\ worker[on[j]].pc \in {"select", "closing", "drain"}
  /\ task' = [task EXCEPT ![j] = how]
  /\ handle' = [handle EXCEPT ![j] = IF how = "ended" THEN "ok" ELSE "panicked"]
  /\ UNCHANGED <<owner, at, outcome, expired, stop, queue, closed, worker, on>>

\* Each poll of the loop looks for the stop first ...
PollStop(w) ==
  /\ worker[w].pc = "select" /\ ~stop[w]
  /\ \/ queue[w] # <<>> \/ closed[w] \/ Of(w, {"ended", "panicked"}) # {}
  /\ worker' = [worker EXCEPT ![w].pc = "progress"]
  /\ UNCHANGED <<owner, at, outcome, expired, stop, queue, closed, task, on, handle>>

\* Mutant: the panics of tasks that end after the stop are not counted.
Collected_Quietly(w, j) ==
  worker[w].panicked \/ (task[j] = "panicked" /\ worker[w].pc = "progress")

\* ... then for a task that has ended, whose panic is remembered, ...
Collected(w, j) == worker[w].panicked \/ task[j] = "panicked"

PollTask(w) ==
  /\ worker[w].pc = "progress"
  /\ \E j \in Of(w, {"ended", "panicked"}) :
       /\ worker' = [worker EXCEPT ![w].pc = "select", ![w].panicked = Collected(w, j)]
       /\ task' = [task EXCEPT ![j] = IF @ = "ended" THEN "joined" ELSE "blamed"]
  /\ UNCHANGED <<owner, at, outcome, expired, stop, queue, closed, on, handle>>

\* ... and for a job, which is spawned.
PollJob(w) ==
  /\ worker[w].pc = "progress"
  /\ Of(w, {"ended", "panicked"}) = {}
  /\ queue[w] # <<>>
  /\ queue' = [queue EXCEPT ![w] = Tail(@)]
  /\ task' = [task EXCEPT ![Head(queue[w])] = "running"]
  /\ worker' = [worker EXCEPT ![w].pc = "select"]
  /\ UNCHANGED <<owner, at, outcome, expired, stop, closed, on, handle>>

\* A closed queue that is empty: the deadline is still to be learnt.
PollClosed(w) ==
  /\ worker[w].pc = "progress"
  /\ Of(w, {"ended", "panicked"}) = {}
  /\ queue[w] = <<>> /\ closed[w]
  /\ worker' = [worker EXCEPT ![w].pc = "closing"]
  /\ UNCHANGED <<owner, at, outcome, expired, stop, queue, closed, task, on, handle>>

\* Mutant: an inbox that is dropped leaves its jobs in the channel.
Emptied_NotAtAll(w) == [queue |-> queue[w], jobs |-> {}]

\* Drop for Inbox: the queue is closed and what it holds is dropped, with the
\* senders of the results.
Emptied(w) == [queue |-> <<>>, jobs |-> {queue[w][k] : k \in 1 .. Len(queue[w])}]

Stopped(w) ==
  /\ worker[w].pc \in {"select", "closing"} /\ stop[w]
  /\ worker' = [worker EXCEPT ![w].pc = "drain"]
  /\ closed' = [closed EXCEPT ![w] = TRUE]
  /\ queue' = [queue EXCEPT ![w] = Emptied(w).queue]
  /\ task' = [j \in Jobs |-> IF j \in Emptied(w).jobs THEN "discarded" ELSE task[j]]
  /\ handle' = [j \in Jobs |-> IF j \in Emptied(w).jobs THEN "cancelled" ELSE Refused(w)[j]]
  /\ UNCHANGED <<owner, at, outcome, expired, stop, on>>

\* The tasks that are left are waited for ...
DrainTask(w) ==
  /\ worker[w].pc = "drain"
  /\ \E j \in Of(w, {"ended", "panicked"}) :
       /\ worker' = [worker EXCEPT ![w].panicked = Collected(w, j)]
       /\ task' = [task EXCEPT ![j] = IF @ = "ended" THEN "joined" ELSE "blamed"]
  /\ UNCHANGED <<owner, at, outcome, expired, stop, queue, closed, on, handle>>

Drained(w) ==
  /\ worker[w].pc = "drain"
  /\ Of(w, {"running", "ended", "panicked"}) = {}
  /\ worker' = [worker EXCEPT ![w].pc = "over",
                  ![w].result = IF worker[w].panicked THEN "panicked" ELSE "ok"]
  /\ UNCHANGED <<owner, at, outcome, expired, stop, queue, closed, task, on, handle>>

\* ... until the deadline, when they are dropped with their runtime.  Which of a
\* drain that is done and a time that is up is looked at first is the timer's
\* choice.
DrainTimesOut(w) ==
  /\ worker[w].pc = "drain" /\ expired
  /\ worker' = [worker EXCEPT ![w].pc = "over", ![w].result = "timedOut"]
  /\ task' = [j \in Jobs |-> IF j \in Of(w, {"running"}) THEN "cut" ELSE task[j]]
  /\ handle' = [j \in Jobs |-> IF j \in Of(w, {"running"}) THEN "cancelled" ELSE handle[j]]
  /\ UNCHANGED <<owner, at, outcome, expired, stop, queue, closed, on>>

-----------------------------------------------------------------------------

OwnerStep == (\E ok \in BOOLEAN : StartWorker(ok)) \/ Tell \/ CloseQueue \/ Join

WorkerStep(w) == \/ PollStop(w) \/ PollTask(w) \/ PollJob(w) \/ PollClosed(w)
                 \/ Stopped(w) \/ DrainTask(w) \/ Drained(w) \/ DrainTimesOut(w)

Next ==
  \/ OwnerStep \/ Shutdown \/ Expire
  \/ \E unwinding \in BOOLEAN : Drop(unwinding)
  \/ \E j \in Jobs : \/ \E w \in 0 .. Count : Dispatch(j, w)
                     \/ Submit(j) \/ GiveUp(j)
                     \/ \E how \in {"ended", "panicked"} : TaskEnds(j, how)
  \/ \E w \in Workers : WorkerStep(w)

Spec == Init /\ [][Next]_vars

(* A thread that can run does, and time passes.  Nothing is assumed of     *)
(* tasks or of submitters.                                                 *)
Fairness ==
  /\ WF_vars(OwnerStep) /\ WF_vars(Expire)
  /\ \A w \in Workers : WF_vars(WorkerStep(w))

FairSpec == Spec /\ Fairness

-----------------------------------------------------------------------------
(* What is reported is what happened: a submitter learns of an end, a      *)
(* panic or a cancellation only when there was one, and shutdown says      *)
(* "ok" only when every task that was started has ended without a panic,   *)
(* and blames a panic or the deadline only for a cause                     *)
(* (CoreDispatcher::shutdown, Task::poll, run_worker).                     *)
OutcomesAreTrue ==
  /\ \A j \in Jobs :
       /\ handle[j] = "ok" <=> task[j] \in {"ended", "joined"}
       /\ handle[j] = "panicked" <=> task[j] \in {"panicked", "blamed"}
       /\ handle[j] = "cancelled" <=> task[j] \in {"cut", "discarded"}
       /\ handle[j] \in {"refused", "dropped"} => task[j] = "new"
  /\ owner = "over" =>
       /\ outcome = "ok" => \A j \in Jobs : task[j] \in {"new", "discarded", "joined"}
       /\ outcome = "panicked" => \E j \in Jobs : task[j] = "blamed"
       /\ outcome = "timedOut" => expired

(* Once a stop is asked for, every worker ends and nobody waits any more:  *)
(* not the owner, not one who awaits a task, not one who waits for a place *)
(* in a queue (CoreDispatcher::shutdown_at, Inbox::drop).                  *)
StopEndsAll ==
  owner \in {"telling", "closing", "joining"} ~>
    /\ owner = "over"
    /\ \A w \in Workers : worker[w].pc \in {"unborn", "over"}
    /\ \A j \in Jobs : handle[j] \notin {"pending", "waiting"}
=============================================================================
