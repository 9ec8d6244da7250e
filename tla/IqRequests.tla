----------------------------- MODULE IqRequests -----------------------------
(* Requests of the server to its clients, made by work that runs apart from   *)
(* any stream: a request waits under a number for the answer of the resource  *)
(* it was sent to, for a limited time (router/iq_requests.rs, delivery/mod.rs *)
(* request_iq and detach).                                                    *)
EXTENDS Naturals, FiniteSets

CONSTANTS Works,        \* pieces of work the extensions detach
          Resources,    \* the full addresses that are asked
          MaxPending, MaxDetached

LimitsAssumption == MaxPending \in Nat \ {0} /\ MaxDetached \in Nat \ {0}

VARIABLES active,   \* DetachedWork: how many pieces run
          phase,    \* phase[w]: idle, refused, runs, routes, waits, late, drops, over, ended
          next,     \* the next number
          pending,  \* IqRequests::pending: the resource asked under a number
          number, asked, \* what the request of w was sent as
          answer    \* answer[w]: who answered, or "none"

vars == <<active, phase, next, pending, number, asked, answer>>

Nobody == "none"
Numbers == 0..(Cardinality(Works) - 1)

Init == /\ active = 0 /\ next = 0
        /\ phase = [w \in Works |-> "idle"]
        /\ pending = [n \in {} |-> Nobody]
        /\ number = [w \in Works |-> 0]
        /\ asked = [w \in Works |-> Nobody]
        /\ answer = [w \in Works |-> Nobody]

Without(n) == [m \in DOMAIN pending \ {n} |-> pending[m]]

-----------------------------------------------------------------------------
(* detach: at the limit the caller is told at once and nothing starts.        *)
Detach(w) ==
  /\ phase[w] = "idle"
  /\ IF active < MaxDetached
     THEN active' = active + 1 /\ phase' = [phase EXCEPT ![w] = "runs"]
     ELSE phase' = [phase EXCEPT ![w] = "refused"] /\ UNCHANGED active
  /\ UNCHANGED <<next, pending, number, asked, answer>>

(* register: the slot is taken before the request is routed, so that an       *)
(* answer finds it.                                                           *)
Register(w, r) ==
  /\ phase[w] = "runs"
  /\ Cardinality(DOMAIN pending) < MaxPending
  /\ next' = next + 1
  /\ pending' = [n \in DOMAIN pending \cup {next} |-> IF n = next THEN r ELSE pending[n]]
  /\ number' = [number EXCEPT ![w] = next]
  /\ asked' = [asked EXCEPT ![w] = r]
  /\ phase' = [phase EXCEPT ![w] = "routes"]
  /\ UNCHANGED <<active, answer>>

RegisterRefused(w) ==
  /\ phase[w] = "runs"
  /\ Cardinality(DOMAIN pending) >= MaxPending
  /\ phase' = [phase EXCEPT ![w] = "over"]
  /\ UNCHANGED <<active, next, pending, number, asked, answer>>

(* route_full: the resource has the request, or is not there.                 *)
Route(w) ==
  /\ phase[w] = "routes"
  /\ phase' = [phase EXCEPT ![w] = "waits"]
  /\ UNCHANGED <<active, next, pending, number, asked, answer>>

RouteFails(w) ==
  /\ phase[w] = "routes"
  /\ phase' = [phase EXCEPT ![w] = "drops"]
  /\ UNCHANGED <<active, next, pending, number, asked, answer>>

(* Variant: whoever answers under the number is taken at its word. *)
Complete_Anyone(r, n) ==
  /\ n \in DOMAIN pending
  /\ pending' = Without(n)
  /\ \E w \in Works : /\ number[w] = n /\ asked[w] # Nobody
                      /\ answer' = [answer EXCEPT ![w] = r]
  /\ UNCHANGED <<active, phase, next, number, asked>>

(* complete: an answer counts for the request under its number, once, if it   *)
(* comes from the resource that was asked. A client may answer a request of   *)
(* another resource, or one it has answered before: nothing happens. The      *)
(* answer lies in the channel until its waiter wakes.                         *)
Complete(r, n) ==
  /\ n \in DOMAIN pending /\ pending[n] = r
  /\ pending' = Without(n)
  /\ \E w \in Works : /\ number[w] = n /\ asked[w] # Nobody
                      /\ answer' = [answer EXCEPT ![w] = r]
  /\ UNCHANGED <<active, phase, next, number, asked>>

(* The waiter wakes for the answer or for its timer, whichever it sees first. *)
Answered(w) ==
  /\ phase[w] = "waits" /\ answer[w] # Nobody
  /\ phase' = [phase EXCEPT ![w] = "drops"]
  /\ UNCHANGED <<active, next, pending, number, asked, answer>>

TimesOut(w) ==
  /\ phase[w] = "waits" /\ answer[w] = Nobody
  /\ phase' = [phase EXCEPT ![w] = "late"]
  /\ UNCHANGED <<active, next, pending, number, asked, answer>>

(* Dropping PendingIq takes the number out, if an answer did not.             *)
Drop(w) ==
  /\ phase[w] \in {"late", "drops"}
  /\ pending' = Without(number[w])
  /\ phase' = [phase EXCEPT ![w] = "over"]
  /\ UNCHANGED <<active, next, number, asked, answer>>

(* The work is done, whatever became of it, and its place is free.            *)
Finish(w) ==
  /\ phase[w] = "over"
  /\ active' = active - 1
  /\ phase' = [phase EXCEPT ![w] = "ended"]
  /\ UNCHANGED <<next, pending, number, asked, answer>>

Next == \/ \E w \in Works :
             \/ Detach(w) \/ RegisterRefused(w) \/ Route(w) \/ RouteFails(w)
             \/ Answered(w) \/ TimesOut(w) \/ Drop(w) \/ Finish(w)
             \/ \E r \in Resources : Register(w, r)
        \/ \E r \in Resources, n \in Numbers : Complete(r, n)

Spec == Init /\ [][Next]_vars

-----------------------------------------------------------------------------
Holds(w)   == phase[w] \in {"routes", "waits", "drops", "late"}
Running(w) == phase[w] \notin {"idle", "refused", "ended"}

(* An answer is taken only from the resource that was asked, and only by the  *)
(* request it answers; no request leaves its number behind, however an        *)
(* answer, a timeout and the end of the request fall together; and the        *)
(* detached work is counted exactly, so that the limits refuse only when they *)
(* are reached.                                                               *)
RequestsExact ==
  /\ \A w \in Works : answer[w] # Nobody => answer[w] = asked[w] /\ number[w] \notin DOMAIN pending
  /\ DOMAIN pending \subseteq {number[w] : w \in {v \in Works : Holds(v)}}
  /\ \A w \in Works : Holds(w) /\ answer[w] = Nobody => number[w] \in DOMAIN pending
  /\ active = Cardinality({w \in Works : Running(w)})
  /\ active <= MaxDetached /\ Cardinality(DOMAIN pending) <= MaxPending
=============================================================================
