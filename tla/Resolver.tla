------------------------------ MODULE Resolver ------------------------------
(***************************************************************************)
(* Finding the addresses of another server. Literal addresses and           *)
(* configured routes are taken as they are. Otherwise the service records   *)
(* of the domain are asked for, put in order by priority and, within one,   *)
(* by weighted choice, and their targets' addresses are asked for in turn;  *)
(* without service records the domain itself is. Each query goes from one   *)
(* name server to the next until one answers. The list is cut at a limit.   *)
(***************************************************************************)
EXTENDS Naturals, Sequences, FiniteSets, SequencesExt, FiniteSetsExt

CONSTANTS
    Servers,   \* name servers, asked in the order 1..Servers
    Limit,     \* ENDPOINT_LIMIT
    Hops,      \* CNAME records that are followed
    Zones      \* the zones to look in: [kind, srv, alias, v6, v4]

\* A name server address list has at most three entries and is never empty.
ResolverAssumption == Servers \in 1..3 /\ Limit \in Nat \ {0} /\ Hops \in Nat

VARIABLES
    zone,       \* what the domain is, and what the name servers would answer
    pc,         \* where resolve_inner is
    tries,      \* tries[q]: name servers asked for an outstanding query
    answer,     \* answer[q]: "none" or "answered" or "unavailable"
    records,    \* service records not yet ordered
    targets,    \* targets in their order, those not looked up yet
    endpoints,  \* the addresses found
    result,     \* "none", or how the resolution ended
    lost        \* history: the queries <<record, kind>> without a usable answer
vars == <<zone, pc, tries, answer, records, targets, endpoints, result, lost>>

Domain == "domain"
XmppPort == 5269
Families == {"v6", "v4"}

\* The domain itself, looked up like the target of a record.
Own == [priority |-> 0, weight |-> 0, name |-> Domain, port |-> XmppPort]

\* Targets whose text does not read back as a name are passed over.
Unreadable == "?"

\* The address records of a name, after at most Hops aliases. An alias that
\* comes round, or a longer chain, makes the answer useless.
Chain(name) ==
    LET c[n \in 0..Hops + 1] ==
          IF n = 0 THEN name ELSE IF c[n - 1] \in DOMAIN zone.alias THEN zone.alias[c[n - 1]] ELSE c[n - 1]
    IN c
Chased(name) == Chain(name)[Hops + 1] = Chain(name)[Hops] /\ Chain(name)[Hops] \notin DOMAIN zone.alias
Addresses(name, family) ==
    LET final == Chain(name)[Hops] IN IF final \in DOMAIN zone[family] THEN zone[family][final] ELSE <<>>

AppendUnique(list, values) ==
    FoldLeft(LAMBDA l, v : IF Len(l) = Limit \/ Contains(l, v) THEN l ELSE Append(l, v), list, values)

WithPort(addresses, port) == [i \in DOMAIN addresses |-> [address |-> addresses[i], port |-> port]]

\* Variant: the addresses count only when both queries were answered.
AppendAddresses_Both(list, name, port) ==
    FoldLeft(LAMBDA l, f : IF \A g \in Families : answer[g] = "answered"
                           THEN AppendUnique(l, WithPort(Addresses(name, f), port)) ELSE l,
             list, <<"v6", "v4">>)

\* AAAA before A; a query without an answer adds nothing.
AppendAddresses(list, name, port) ==
    FoldLeft(LAMBDA l, f : IF answer[f] = "answered" THEN AppendUnique(l, WithPort(Addresses(name, f), port)) ELSE l,
             list, <<"v6", "v4">>)

-----------------------------------------------------------------------------
Init ==
    /\ zone \in Zones
    /\ pc = "start"
    /\ tries = [q \in Families \cup {"srv"} |-> 0]
    /\ answer = [q \in Families \cup {"srv"} |-> "none"]
    /\ records = <<>> /\ targets = <<>> /\ endpoints = <<>>
    /\ result = "none" /\ lost = {}

Done(how) == pc' = "done" /\ result' = how
Waiting(q) == answer[q] = "none" /\ IF q = "srv" THEN pc = "srv" ELSE pc = "addresses"

\* Names that are not domains end here; literals and routes need no query.
Start ==
    /\ pc = "start"
    /\ CASE zone.kind = "invalid" -> Done("invalidDomain") /\ UNCHANGED endpoints
         [] zone.kind = "literal" -> Done("literal") /\ endpoints' = WithPort(zone.v4[Domain], XmppPort)
         [] zone.kind = "route"   -> Done("static") /\ endpoints' = AppendUnique(<<>>, WithPort(zone.v4[Domain], XmppPort))
         [] zone.kind = "domain"  -> pc' = "srv" /\ UNCHANGED <<endpoints, result>>
    /\ UNCHANGED <<zone, tries, answer, records, targets, lost>>

\* What the outstanding queries are about.
Asked == IF targets = <<>> THEN Own ELSE Head(targets)
Readable == Asked.name # Unreadable

\* The answer of one name server: usable, or lost, late, refused, truncated
\* without a whole answer, or an alias chain that does not end.
Exchange(q, usable) ==
    /\ Waiting(q) /\ tries[q] < Servers /\ Readable
    /\ usable => q = "srv" \/ Chased(Asked.name)
    /\ tries' = [tries EXCEPT ![q] = @ + 1]
    /\ answer' = [answer EXCEPT ![q] = IF usable THEN "answered"
                                       ELSE IF tries[q] + 1 = Servers THEN "unavailable" ELSE @]
    /\ lost' = IF answer'[q] = "unavailable" THEN lost \cup {<<Asked, q>>} ELSE lost
    /\ UNCHANGED <<zone, pc, records, targets, endpoints, result>>

NextQueries ==
    /\ tries' = [tries EXCEPT !["v6"] = 0, !["v4"] = 0]
    /\ answer' = [answer EXCEPT !["v6"] = "none", !["v4"] = "none"]

\* Lowest priority first; within one, those without a weight.
BySortKey(s) ==
    SortSeq(s, LAMBDA a, b : a.priority < b.priority \/ (a.priority = b.priority /\ a.weight = 0 /\ b.weight # 0))

\* A single record for the root says that there is no such service. Without
\* an answer, or without records, the domain's own addresses are used.
TakeSrv ==
    /\ pc = "srv" /\ answer["srv"] # "none"
    /\ LET found == IF answer["srv"] = "answered" THEN zone.srv ELSE <<>> IN
        /\ records' = BySortKey(found)
        /\ IF Len(found) = 1 /\ found[1].name = "." THEN Done("noService")
           ELSE pc' = (IF found = <<>> THEN "addresses" ELSE "order") /\ UNCHANGED result
    /\ UNCHANGED <<zone, tries, answer, targets, endpoints, lost>>

FirstGroup == {i \in DOMAIN records : records[i].priority = records[1].priority}
Weight(n) == FoldSet(LAMBDA i, sum : sum + records[i].weight, 0, {i \in FirstGroup : i <= n})
Total == Weight(Max(FirstGroup))

\* The first record of the group whose running weight reaches the number
\* drawn from 0..Total.
Chosen(drawn) == Min({i \in FirstGroup : Weight(i) >= drawn})

OrderSrv ==
    /\ pc = "order"
    /\ \E drawn \in 0..Total :
        /\ targets' = Append(targets, records[Chosen(drawn)])
        /\ records' = RemoveAt(records, Chosen(drawn))
    /\ pc' = IF Len(records) = 1 THEN "addresses" ELSE "order"
    /\ UNCHANGED <<zone, tries, answer, endpoints, result, lost>>

\* The random source failed.
NoRandom ==
    /\ pc = "order" /\ Done("unavailable")
    /\ UNCHANGED <<zone, tries, answer, records, targets, endpoints, lost>>

Answered == \A f \in Families : answer[f] # "none"

\* The next target of a service record, until the list is full. When no
\* target gave an address the name is not found, whether or not the queries
\* were answered.
TakeTarget ==
    /\ pc = "addresses" /\ targets # <<>> /\ (Readable => Answered)
    /\ endpoints' = IF Readable THEN AppendAddresses(endpoints, Asked.name, Asked.port) ELSE endpoints
    /\ IF Len(endpoints') = Limit \/ Len(targets) = 1
       THEN Done(IF endpoints' = <<>> THEN "notFound" ELSE "srv") /\ UNCHANGED <<targets, tries, answer>>
       ELSE targets' = Tail(targets) /\ NextQueries /\ UNCHANGED <<pc, result>>
    /\ UNCHANGED <<zone, records, lost>>

\* The domain's own addresses. That it has none is known only when both
\* queries were answered.
TakeFallback ==
    /\ pc = "addresses" /\ targets = <<>> /\ Answered
    /\ endpoints' = AppendAddresses(<<>>, Domain, XmppPort)
    /\ Done(IF endpoints' # <<>> THEN "fallback"
            ELSE IF \A f \in Families : answer[f] = "answered" THEN "notFound" ELSE "unavailable")
    /\ UNCHANGED <<zone, tries, answer, records, targets, lost>>

Next ==
    \/ Start \/ TakeSrv \/ OrderSrv \/ NoRandom \/ TakeTarget \/ TakeFallback
    \/ \E q \in Families \cup {"srv"}, usable \in BOOLEAN : Exchange(q, usable)

Spec == Init /\ [][Next]_vars

-----------------------------------------------------------------------------
(* Properties.                                                               *)

\* The records that were looked up, and what an answered query gave.
Readables == {r \in Range(zone.srv) : r.name # Unreadable}
Gave(r, f) == IF <<r, f>> \in lost THEN <<>> ELSE WithPort(Addresses(r.name, f), r.port)

\* Where an endpoint can have come from.
SourcesOf(e) == {r \in Readables : \E f \in Families : Contains(Gave(r, f), e)}

\* The list of a domain with service records is made of its targets'
\* addresses, each once, none of a later priority before one that only an
\* earlier priority has. Unless it is full it holds every address that an
\* answered query gave, whichever other queries went unanswered.
ListFollowsRecords ==
    result = "srv" =>
        /\ IsInjective(endpoints) /\ Len(endpoints) <= Limit
        /\ \A i \in DOMAIN endpoints : SourcesOf(endpoints[i]) # {}
        /\ \A i, j \in DOMAIN endpoints : i < j =>
            \E r \in SourcesOf(endpoints[i]) : \A s \in SourcesOf(endpoints[j]) : r.priority <= s.priority
        /\ \/ Len(endpoints) = Limit
           \/ \A r \in Readables, f \in Families : Range(Gave(r, f)) \subseteq Range(endpoints)

\* The domain's own addresses are used only without service records. A
\* resolution without a list got no address from any answered query. Without
\* service records "not found" means that both address queries were answered,
\* "unavailable" that one was not; with them, no such difference is made.
NothingOverlooked ==
    LET fellBack == zone.srv = <<>> \/ <<Own, "srv">> \in lost
        unanswered == {f \in Families : <<Own, f>> \in lost}
        nothing(R) == \A r \in R, f \in Families : Gave(r, f) = <<>>
    IN
    /\ result = "noService" => Len(zone.srv) = 1 /\ zone.srv[1].name = "."
    /\ result = "fallback" => fellBack
    /\ result = "notFound" => IF fellBack THEN nothing({Own}) /\ unanswered = {} ELSE nothing(Readables)
    /\ result = "unavailable" /\ records = <<>> => fellBack /\ nothing({Own}) /\ unanswered # {}

\* A resolution uses all that the answered queries gave, in the order of the
\* records, whichever name servers answer. (dns/mod.rs resolve_inner,
\* order_srv, append_addresses, query)
ResolvedRight == ListFollowsRecords /\ NothingOverlooked
=============================================================================
