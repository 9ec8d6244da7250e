----------------------------- MODULE MCWaiting -----------------------------
(***************************************************************************)
(* Five components in which somebody waits for somebody: tickets, tasks of *)
(* outbound links, client streams, inbound streams and dials.  A behaviour *)
(* is one of a single component, "part", while the others rest in an       *)
(* initial state: they share nothing, so that the sum of their states has  *)
(* to be searched and not the product.                                     *)
(***************************************************************************)
EXTENDS Order

CONSTANTS None, p1, s1, c1, i1, a1, NoDomain, l1, r1

VARIABLES
  part,
  stopped, entries, standby, queue, stream, admitted, sent, bounced, lost,
  listener, clientPc, conn, out, reg, unauth, perIp, account, issued, deleting,
  peerConn, active, peersPerIp, pairs, listening, stopping,
  dialPc, index, dialConn, footer, bidi, last, chosen, booked, accounting, result

outboundVars == <<stopped, entries, standby, queue, stream, admitted, sent, bounced, lost>>
clientVars == <<listener, clientPc, conn, out, reg, unauth, perIp, account, issued, deleting>>
inboundVars == <<peerConn, active, peersPerIp, pairs, listening, stopping>>
dialVars == <<dialPc, index, dialConn, footer, bidi, last, chosen, booked, accounting, result>>
all == <<part, vars, outboundVars, clientVars, inboundVars, dialVars>>

\* One pair of domains and one stream its queue can be handed to.
O == INSTANCE Outbound WITH
       Pairs <- {p1}, Streams <- {s1}, MaxLinks <- 1, MaxQueued <- 2,
       MaxStanzas <- 2, MaxQueues <- 2

\* One connection, and room for no other.
C == INSTANCE ClientStream WITH
       Conns <- {c1}, Ips <- {i1}, Accounts <- {a1},
       Mechanisms <- {"scram", "external"}, Retries <- 1, BindRetries <- 1,
       MaxUnauthenticated <- 1, MaxPerIp <- 1, MaxResources <- 1, Changes <- 1,
       pc <- clientPc

\* One connection of a peer that sends requests.
I == INSTANCE Inbound WITH
       Conn <- {c1}, Ip <- {i1}, Local <- {l1}, Remote <- {r1}, MaxInbound <- 1,
       MaxPerIp <- 1, MaxPerPair <- 1, Kinds <- {"set", "toResource"}, MaxStanzas <- 2,
       OfferBidi <- TRUE, conn <- peerConn, perIp <- peersPerIp

\* Three addresses to try.
D == INSTANCE Dial WITH
       Endpoints <- 3, Bidirectional <- TRUE, pc <- dialPc, conn <- dialConn

ASSUME /\ O!OutboundAssumption /\ C!ClientStreamAssumption
       /\ I!InboundAssumption /\ D!DialAssumption

SuiteInit ==
  /\ part \in {"order", "outbound", "client", "inbound", "dial"}
  /\ Init /\ O!Init /\ C!Init /\ I!Init /\ D!Init
  /\ part # "dial" => index = 1

OrderStep == part = "order" /\ Next
             /\ UNCHANGED <<part, outboundVars, clientVars, inboundVars, dialVars>>
OutboundStep == part = "outbound" /\ O!Next
                /\ UNCHANGED <<part, vars, clientVars, inboundVars, dialVars>>
ClientStep == part = "client" /\ C!Next
              /\ UNCHANGED <<part, vars, outboundVars, inboundVars, dialVars>>
InboundStep == part = "inbound" /\ I!Next
               /\ UNCHANGED <<part, vars, outboundVars, clientVars, dialVars>>
DialStep == part = "dial" /\ D!Next
            /\ UNCHANGED <<part, vars, outboundVars, clientVars, inboundVars>>

\* Streams and dials come to an end; of the others, something always goes on.
Ended == part \in {"client", "inbound", "dial"} /\ UNCHANGED all

SuiteNext == OrderStep \/ OutboundStep \/ ClientStep \/ InboundStep \/ DialStep \/ Ended

(* The fairness of the components.  A dial has a step to take from its     *)
(* first state, and takes it only when chosen; the others rest in theirs   *)
(* until something happens that nothing is bound to do.                    *)
SuiteFairness ==
  /\ Fairness /\ O!Fairness /\ C!Fairness /\ I!Fairness
  /\ WF_dialVars(part = "dial" /\ \E error \in D!DnsErrors \cup {"none"} : D!Resolve(error))
  /\ WF_dialVars(part = "dial" /\ \E ok \in BOOLEAN : D!SetUp(ok))
  /\ WF_dialVars(part = "dial" /\ D!ConnectFails)
  /\ WF_dialVars(part = "dial" /\ D!Timeout)
  /\ WF_dialVars(part = "dial" /\ D!Cleanup)

SuiteSpec == SuiteInit /\ [][SuiteNext]_all /\ SuiteFairness

-----------------------------------------------------------------------------
(* The outcome of a dial is counted once, whichever attempt it came from,  *)
(* and every attempt that was booked is settled (establish_inner,          *)
(* Accounting::record).                                                    *)
CountedOnce == D!TypeOK /\ D!CountedOnce

(* A dial ends, and after a stop so does every task of a link, whatever it *)
(* was waiting for, and every inbound connection (link::run,               *)
(* RemoteRouter::stop, inbound/mod.rs drain_connections).                  *)
LinksEnd == O!StopEnds /\ I!StopEnds /\ (part = "dial" => D!DialEnds)

(* A connection that does not authenticate gives its places back           *)
(* (AdmissionLimits::reserve, ConnectionLifecycle::drop).                  *)
PlacesComeBack == C!PlacesComeBack
=============================================================================
