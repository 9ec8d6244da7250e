---------------------------- MODULE MCFederation ----------------------------
(***************************************************************************)
(* Federation: the queues of outbound links (Outbound, twice), inbound     *)
(* streams (Inbound, twice) and the search for the addresses of a domain   *)
(* (Resolver).  A behaviour is one of a single part, "part", while the     *)
(* other components rest in an initial state.                              *)
(***************************************************************************)
EXTENDS Outbound, TLC

CONSTANTS NoDomain, c1, c2, i1, i2, l1, l2, r1, r2

VARIABLES
  part,
  conn, active, perIp, pairs, listening, stopping,
  zone, pc, tries, answer, records, targets, endpoints, result, missing

inboundVars == <<conn, active, perIp, pairs, listening, stopping>>
resolverVars == <<zone, pc, tries, answer, records, targets, endpoints, result, missing>>
all == <<part, vars, inboundVars, resolverVars>>

\* Two pairs share a table of one place. Either one of them has the use of two
\* streams, or both have stanzas and one stream.
Quiet(p) == admitted[p] = 0 /\ standby[p] = <<>>
OneInUse == \E p \in Pairs : Quiet(p)
BothInUse == /\ \A p \in Pairs : admitted[p] <= 2
             /\ \A q \in Queues : queue[q].count <= 1
             /\ Cardinality({s \in Streams : stream[s] # "out"}) <= 1

\* One connection with two domains on either side and every kind of stanza;
\* two connections that compete for places.
Talk == INSTANCE Inbound WITH
         Conn <- {c1}, Ip <- {i1}, Local <- {l1, l2}, Remote <- {r1, r2},
         MaxInbound <- 1, MaxPerIp <- 1, MaxPerPair <- 1,
         Kinds <- {"message", "presence", "probe", "subscribe", "get", "set",
                   "toResource", "answer", "rejected", "service"},
         MaxStanzas <- 2, OfferBidi <- TRUE
Crowd == INSTANCE Inbound WITH
         Conn <- {c1, c2}, Ip <- {i1, i2}, Local <- {l1}, Remote <- {r1},
         MaxInbound <- 2, MaxPerIp <- 1, MaxPerPair <- 1, Kinds <- {"set"},
         MaxStanzas <- 1, OfferBidi <- FALSE

-----------------------------------------------------------------------------
Srv(name, priority, weight) ==
  [name |-> name, port |-> 1, priority |-> priority, weight |-> weight]
Zone(kind, srv, alias, v6, v4) ==
  [kind |-> kind, srv |-> srv, alias |-> alias, v6 |-> v6, v4 |-> v4]
Empty == [n \in {} |-> <<>>]

\* No service, one, two priorities, and weights within one.
Services == {
  <<>>, <<Srv(".", 0, 0)>>, <<Srv("a", 1, 0)>>,
  <<Srv("b", 2, 1), Srv("a", 1, 0)>>,
  <<Srv("?", 0, 0), Srv("c", 1, 0)>>, <<Srv("a", 0, 0), Srv("?", 1, 0)>>,
  <<Srv("a", 1, 1), Srv("b", 1, 0), Srv("c", 0, 2)>>,
  <<Srv("a", 1, 2), Srv("b", 1, 1), Srv("c", 1, 0)>>}
\* Aliases that end and that come round; addresses that names share.
Aliases == {Empty, "a" :> "x", "a" :> "x" @@ "x" :> "a"}
Shared == {"a" :> <<1>> @@ "b" :> <<1, 2>> @@ "x" :> <<4>>,
           "domain" :> <<1, 3>> @@ "c" :> <<3>>}

Known ==
  {Zone("domain", s, al, v6, v4) : s \in Services, al \in Aliases,
                                   v6 \in Shared \cup {Empty}, v4 \in Shared}
  \cup {Zone(k, <<>>, Empty, Empty, "domain" :> <<1, 1, 2>>) : k \in {"route", "invalid"}}
  \cup {Zone("literal", <<>>, Empty, Empty, "domain" :> <<1>>)}

Dns == INSTANCE Resolver WITH
         Servers <- 2, Limit <- 3, Hops <- 2, Zones <- Known, lost <- missing

-----------------------------------------------------------------------------
ASSUME /\ OutboundAssumption
       /\ Talk!InboundAssumption /\ Crowd!InboundAssumption /\ Dns!ResolverAssumption

SuiteInit ==
  /\ part \in {"one", "full", "talk", "crowd", "dns"}
  /\ Init
  /\ IF part = "crowd" THEN Crowd!Init ELSE Talk!Init
  /\ Dns!Init
  /\ part # "dns" => zone.kind = "literal"

OneStep == part = "one" /\ Next /\ OneInUse' /\ UNCHANGED <<part, inboundVars, resolverVars>>
FullStep == part = "full" /\ Next /\ BothInUse' /\ UNCHANGED <<part, inboundVars, resolverVars>>
TalkStep == part = "talk" /\ Talk!Next /\ UNCHANGED <<part, vars, resolverVars>>
CrowdStep == part = "crowd" /\ Crowd!Next /\ UNCHANGED <<part, vars, resolverVars>>
DnsStep == part = "dns" /\ Dns!Next /\ UNCHANGED <<part, vars, inboundVars>>

\* Streams and searches come to an end; links go on until the router stops.
Ended == part \notin {"one", "full"} /\ UNCHANGED all

SuiteNext ==
  OneStep \/ FullStep \/ TalkStep \/ CrowdStep \/ DnsStep \/ Ended

SuiteSpec == SuiteInit /\ [][SuiteNext]_all

Symmetry == Permutations(Streams) \cup Permutations(Pairs)

-----------------------------------------------------------------------------
(* Only stanzas of a proved pair of domains are handled, each request is   *)
(* answered once, and the places of the connections are exact              *)
(* (ingress/receive.rs, negotiate.rs, inbound/stream.rs).                  *)
InboundIsSound ==
  CASE part = "talk" -> Talk!Authentic /\ Talk!OneAnswer
    [] part = "crowd" -> Crowd!PlacesExact
    [] OTHER -> TRUE

(* A resolution uses all that the answered queries gave (dns/mod.rs).      *)
ResolvedRight == Dns!ResolvedRight
=============================================================================
