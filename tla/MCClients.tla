----------------------------- MODULE MCClients -----------------------------
(***************************************************************************)
(* The streams of clients: negotiation and closing (ClientStream, twice),  *)
(* the stanzas of a bound session (Dispatch), presence it directs at a     *)
(* service (ServicePresence), the requests the server sends to its clients *)
(* (IqRequests) and the memory they all borrow (Pool).  A behaviour is one *)
(* of a single part, "part", while the other components rest in an initial *)
(* state.                                                                  *)
(***************************************************************************)
EXTENDS ServicePresence, TLC

CONSTANTS None, c1, c2, i1, i2, a1, w1, w2, w3, w4, r1, r2

VARIABLES
  part,
  listener, pc, conn, out, reg, unauth, perIp, account, issued, deleting,
  federation, sent, at, answers, onward, alive, detached, report,
  active, phase, next, pending, number, asked, answer,
  available, lent, heap, search

streamVars == <<listener, pc, conn, out, reg, unauth, perIp, account, issued, deleting>>
dispatchVars == <<federation, sent, at, answers, onward, alive, detached, report>>
requestVars == <<active, phase, next, pending, number, asked, answer>>
poolVars == <<available, lent, heap, search>>
all == <<part, vars, streamVars, dispatchVars, requestVars, poolVars>>

\* One connection and three changes of the account; two connections that
\* compete for places.
One == INSTANCE ClientStream WITH
         Conns <- {c1}, Ips <- {i1}, Accounts <- {a1},
         Mechanisms <- {"scram", "plus", "external"}, Retries <- 1, BindRetries <- 1,
         MaxUnauthenticated <- 1, MaxPerIp <- 1, MaxResources <- 1, Changes <- 3
Crowd == INSTANCE ClientStream WITH
         Conns <- {c1, c2}, Ips <- {i1, i2}, Accounts <- {a1}, Mechanisms <- {"scram"},
         Retries <- 1, BindRetries <- 1,
         MaxUnauthenticated <- 1, MaxPerIp <- 1, MaxResources <- 1, Changes <- 1

\* The stanzas a session may send: every type to every destination, and one
\* of a foreign namespace.
Types == INSTANCE Dispatch WITH Offered <- {}, MaxStanzas <- 1, work <- detached
D == INSTANCE Dispatch WITH
       Offered <- [type : Types!IqTypes \cup Types!Presences, to : Types!Destinations,
                   client : {TRUE}]
                  \cup [type : Types!Malformed, to : {"server"}, client : {TRUE}]
                  \cup [type : {"get"}, to : {"server"}, client : {FALSE}],
       MaxStanzas <- 2, work <- detached

\* More work than the limits allow, towards two resources.
Q == INSTANCE IqRequests WITH
       Works <- {w1, w2, w3, w4}, Resources <- {r1, r2}, MaxPending <- 2, MaxDetached <- 3

\* Four small chunks in three queues, two larger ones in two, two threads.
P == INSTANCE Pool WITH
       Sizes <- <<1, 2>>, Total <- 8, Requested <- 3, Threads <- {0, 1}, MaxHeap <- 1

ASSUME /\ BoundsAssumption /\ One!ClientStreamAssumption /\ Crowd!ClientStreamAssumption
       /\ D!BoundAssumption /\ Q!LimitsAssumption /\ P!PoolAssumption

SuiteInit ==
  /\ part \in {"one", "crowd", "dispatch", "service", "requests", "pool"}
  /\ Init
  /\ IF part = "crowd" THEN Crowd!Init ELSE One!Init
  /\ D!Init /\ Q!Init /\ P!Init
  /\ part # "dispatch" => federation

OneStep == part = "one" /\ One!Next
           /\ UNCHANGED <<part, vars, dispatchVars, requestVars, poolVars>>
CrowdStep == part = "crowd" /\ Crowd!Next
             /\ UNCHANGED <<part, vars, dispatchVars, requestVars, poolVars>>
DispatchStep == part = "dispatch" /\ D!Next
                /\ UNCHANGED <<part, vars, streamVars, requestVars, poolVars>>
ServiceStep == part = "service" /\ Next
               /\ UNCHANGED <<part, streamVars, dispatchVars, requestVars, poolVars>>
RequestStep == part = "requests" /\ Q!Next
               /\ UNCHANGED <<part, vars, streamVars, dispatchVars, poolVars>>
PoolStep == part = "pool" /\ P!Next
            /\ UNCHANGED <<part, vars, streamVars, dispatchVars, requestVars>>

\* Connections, stanzas and requests are bounded.
Ended == UNCHANGED all

SuiteNext == OneStep \/ CrowdStep \/ DispatchStep \/ ServiceStep \/ RequestStep
             \/ PoolStep \/ Ended

SuiteSpec == SuiteInit /\ [][SuiteNext]_all

Symmetry == Permutations({c1, c2}) \cup Permutations({i1, i2}) \cup Permutations({r1, r2})

-----------------------------------------------------------------------------
(* A login rests on the credential as it is when the proof comes, and a    *)
(* live session on an account that exists, whatever is changed or deleted  *)
(* between two steps of the stream (authenticate.rs, bind.rs).             *)
LoginsAreCurrent == part = "one" => One!NoStaleProof /\ One!BoundHasAccount

(* Nothing is written after an element was cut off or the stream ended     *)
(* (session/mod.rs, close/mod.rs).                                         *)
OutputStaysWhole == [][part = "one" => One!KeepsOutputWhole]_all

(* What is lent comes back once: the permits of connections, the places    *)
(* and answers of the server's own requests, each answer taken from the    *)
(* resource that was asked, and the chunks of memory                       *)
(* (AdmissionLimits::reserve, router/iq_requests.rs, util/pool).           *)
LoansExact == /\ part = "crowd" => Crowd!PermitsExact
              /\ Q!RequestsExact
              /\ part = "pool" => P!ChunksExact

(* Every request of a client has one answer, and stanzas and answers keep  *)
(* their order (stages, bound/mod.rs).                                     *)
OneAnswer == D!TypeOK /\ D!OneAnswer /\ D!InOrder
=============================================================================
