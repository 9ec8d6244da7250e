--------------------------- MODULE ServicePresence ---------------------------
(* What a service (a component with a domain of its own) is told of one full  *)
(* address, whose sessions replace one another: presence a client directs at  *)
(* the service, and the "unavailable" that ends it, each sent by a work that  *)
(* outlives its stream. A lease on the address keeps the works of successive  *)
(* sessions apart (stages/service/presence.rs; bound/mod.rs                   *)
(* DirectedServiceWork, PresenceWork, TerminalPresenceWork).                  *)
(* The service is taken to accept every stanza dispatched to it (the code     *)
(* does not send one again that fails), and not to be among the subscribers   *)
(* that the broadcast of the presence covers already.                         *)
EXTENDS Naturals, FiniteSets

CONSTANTS MaxSessions,  \* sessions that bind the address, one after another
          MaxSends      \* presence stanzas their clients send

BoundsAssumption == MaxSessions \in Nat \ {0} /\ MaxSends \in Nat

VARIABLES stream,    \* stream[i]: none, open, waits, ending, over
          holder,    \* the session whose lease holds the gate, 0 when free
          leased,    \* leased[i]: the stream (or its last work) has a lease
          work,      \* work[i]: the presence work of the stream still running
          directed,  \* directed[i]: the shard keeps i's grant to the service
          owed,      \* owed[i]: the grant was taken from the shard with i
          current,   \* the session registered under the address, 0 for none
          view,      \* the session the service takes for available, or 0
          sends

vars == <<stream, holder, leased, work, directed, owed, current, view, sends>>

Sessions == 1..MaxSessions

Idle == [kind |-> "none", at |-> "none"]

Init == /\ stream = [i \in Sessions |-> "none"]
        /\ holder = 0
        /\ leased = [i \in Sessions |-> FALSE]
        /\ work = [i \in Sessions |-> Idle]
        /\ directed = [i \in Sessions |-> FALSE]
        /\ owed = [i \in Sessions |-> FALSE]
        /\ current = 0 /\ view = 0 /\ sends = 0

Running(i) == work[i] # Idle

-----------------------------------------------------------------------------
(* The address is bound: the shard retires the session that had it and takes  *)
(* its grants (take_directed); its stream learns of it and ends.              *)
Bind(i) ==
  /\ stream[i] = "none" /\ \A j \in Sessions : j < i => stream[j] # "none"
  /\ stream' = [stream EXCEPT ![i] = "open"]
  /\ IF current = 0
     THEN UNCHANGED <<directed, owed>>
     ELSE /\ owed' = [owed EXCEPT ![current] = directed[current]]
          /\ directed' = [directed EXCEPT ![current] = FALSE]
  /\ current' = i
  /\ UNCHANGED <<holder, leased, work, view, sends>>

(* A client directs presence at the service. The first time its stream waits  *)
(* for the gate of its address, and goes on writing to the client meanwhile.  *)
Direct(i, kind) ==
  /\ stream[i] = "open" /\ ~Running(i) /\ sends < MaxSends
  /\ sends' = sends + 1
  /\ IF leased[i]
     THEN /\ work' = [work EXCEPT ![i] = [kind |-> kind, at |-> "record"]]
          /\ UNCHANGED stream
     ELSE /\ stream' = [stream EXCEPT ![i] = "waits"]
          /\ work' = [work EXCEPT ![i] = [kind |-> kind, at |-> "gate"]]
  /\ UNCHANGED <<holder, leased, directed, owed, current, view>>

Acquire(i) ==
  /\ stream[i] = "waits" /\ holder = 0
  /\ holder' = i
  /\ leased' = [leased EXCEPT ![i] = TRUE]
  /\ stream' = [stream EXCEPT ![i] = "open"]
  /\ work' = [work EXCEPT ![i].at = "record"]
  /\ UNCHANGED <<directed, owed, current, view, sends>>

(* record_directed_presence: only the registered session may record, and only *)
(* up to a limit; what is not recorded is not sent.                           *)
Record(i) ==
  /\ work[i].at = "record"
  /\ \/ /\ current = i
        /\ directed' = [directed EXCEPT ![i] = (work[i].kind = "available")]
        /\ work' = [work EXCEPT ![i].at = "dispatch"]
     \/ /\ current # i \/ (work[i].kind = "available" /\ ~directed[i])
        /\ work' = [work EXCEPT ![i] = Idle]
        /\ UNCHANGED directed
  /\ UNCHANGED <<stream, holder, leased, owed, current, view, sends>>

(* service::dispatch: the service takes the stanza.                           *)
Tells(i, kind) == view' = IF kind = "available" THEN i ELSE 0

Dispatch(i) ==
  /\ work[i].at = "dispatch"
  /\ Tells(i, work[i].kind)
  /\ work' = [work EXCEPT ![i] = Idle]
  /\ UNCHANGED <<stream, holder, leased, directed, owed, current, sends>>

(* The client goes unavailable to everyone: the shard hands the grants over   *)
(* and PresenceWork tells the services among them.                            *)
Unavailable(i) ==
  /\ stream[i] = "open" /\ ~Running(i) /\ current = i /\ sends < MaxSends
  /\ sends' = sends + 1
  /\ directed' = [directed EXCEPT ![i] = FALSE]
  /\ work' = [work EXCEPT ![i] = IF directed[i] THEN [kind |-> "unavailable", at |-> "dispatch"]
                                                ELSE Idle]
  /\ UNCHANGED <<stream, holder, leased, owed, current, view>>

-----------------------------------------------------------------------------
(* The stream ends, of itself or because it was replaced, in the middle of    *)
(* whatever it waits for: a wait for the gate is given up, a work runs on.    *)
End(i) ==
  /\ stream[i] \in {"open", "waits"}
  /\ stream' = [stream EXCEPT ![i] = "ending"]
  /\ work' = [work EXCEPT ![i] = IF @.at = "gate" THEN Idle ELSE @]
  /\ UNCHANGED <<holder, leased, directed, owed, current, view, sends>>

(* TerminalPresenceWork: the session's presence ends and its grants are       *)
(* taken, unless the shard took them when it retired the session.             *)
EndPresence(i) ==
  /\ stream[i] = "ending"
  /\ stream' = [stream EXCEPT ![i] = "withdraws"]
  /\ IF current = i
     THEN /\ owed' = [owed EXCEPT ![i] = directed[i]]
          /\ directed' = [directed EXCEPT ![i] = FALSE]
          /\ current' = 0
     ELSE UNCHANGED <<owed, directed, current>>
  /\ UNCHANGED <<holder, leased, work, view, sends>>

(* Variant: the lease goes back before the services are told. *)
Withdraw_LeaseFirst(i) ==
  /\ stream[i] = "withdraws" /\ ~Running(i)
  /\ \/ /\ leased[i]
        /\ holder' = 0 /\ leased' = [leased EXCEPT ![i] = FALSE]
        /\ UNCHANGED <<stream, owed, view>>
     \/ /\ ~leased[i]
        /\ IF owed[i] THEN Tells(i, "unavailable") ELSE UNCHANGED view
        /\ owed' = [owed EXCEPT ![i] = FALSE]
        /\ stream' = [stream EXCEPT ![i] = "over"]
        /\ UNCHANGED <<holder, leased>>
  /\ UNCHANGED <<work, directed, current, sends>>

(* It waits for the last presence work, tells the services and drops the      *)
(* lease.                                                                     *)
Withdraw(i) ==
  /\ stream[i] = "withdraws" /\ ~Running(i)
  /\ IF owed[i] THEN Tells(i, "unavailable") ELSE UNCHANGED view
  /\ owed' = [owed EXCEPT ![i] = FALSE]
  /\ stream' = [stream EXCEPT ![i] = "over"]
  /\ leased' = [leased EXCEPT ![i] = FALSE]
  /\ holder' = IF leased[i] THEN 0 ELSE holder
  /\ UNCHANGED <<work, directed, current, sends>>

-----------------------------------------------------------------------------
Kinds == {"available", "unavailable"}

Next == \E i \in Sessions :
          \/ Bind(i) \/ Unavailable(i) \/ End(i)
          \/ \E kind \in Kinds : Direct(i, kind)
          \/ Acquire(i) \/ Record(i) \/ Dispatch(i) \/ EndPresence(i) \/ Withdraw(i)

Spec == Init /\ [][Next]_vars

-----------------------------------------------------------------------------
(* What the service believes is what the client last said: once nothing is    *)
(* on its way, the service takes the address for available exactly when the   *)
(* session that has it told the service so, whatever its predecessors had     *)
(* said and however late their last words were.                               *)
Settled == \A i \in Sessions : /\ ~Running(i)
                               /\ stream[i] = "open" => current = i
                               /\ stream[i] \in {"none", "open", "over"}

ViewIsTrue == Settled => IF current # 0 /\ directed[current] THEN view = current ELSE view = 0
=============================================================================
