------------------------------- MODULE Inbound -------------------------------
(***************************************************************************)
(* Federation, the receiving side: the listener and its limits, the        *)
(* negotiation of a stream (header, STARTTLS, TLS handshake, certificate,  *)
(* revocation, SASL EXTERNAL, final header), the stream itself and the     *)
(* dispatch of the stanzas it carries (s2s/inbound, s2s/ingress).          *)
(*                                                                         *)
(* Every await of a connection's task is a place where its deadline, the   *)
(* server's shutdown or the loss of its certificate may cut in.  Domains   *)
(* are model values; a certificate is the set of domains it names and      *)
(* whether its chain was good at the handshake.                            *)
(***************************************************************************)
EXTENDS Naturals, FiniteSets

CONSTANTS
  Conn, Ip,        \* connections and their source addresses
  Local, Remote,   \* domains of this server and of its peers
  MaxInbound,      \* max_inbound_connections
  MaxPerIp,        \* max_connections_per_ip
  MaxPerPair,      \* max_inbound_streams_per_domain
  Kinds,           \* the kinds of stanza the peer sends
  MaxStanzas,      \* bound: stanzas of one connection
  OfferBidi,       \* bidirectional streams are configured
  NoDomain

InboundAssumption ==
  /\ Local \cap Remote = {} /\ NoDomain \notin Local \cup Remote
  /\ {MaxInbound, MaxPerIp, MaxPerPair, MaxStanzas} \subseteq Nat
  /\ OfferBidi \in BOOLEAN
  /\ Kinds \subseteq {"message", "presence", "probe", "subscribe", "get", "set",
                      "toResource", "answer", "rejected", "service"}

VARIABLES
  conn,       \* the task of each connection
  active,     \* GlobalLimit.active
  perIp,      \* the connection limiter's counters
  pairs,      \* InboundStreams.active
  listening,  \* the listener accepts
  stopping    \* shutdown was requested

vars == <<conn, active, perIp, pairs, listening, stopping>>

Requests == {"get", "set", "toResource", "service"}
NoCertificate == [names |-> {}, good |-> FALSE]
NoStanza == [kind |-> "none", from |-> NoDomain, to |-> NoDomain]
Free == [phase |-> "free", ip |-> CHOOSE i \in Ip : TRUE, local |-> NoDomain,
         remote |-> NoDomain, said |-> <<NoDomain, NoDomain>>, cert |-> NoCertificate,
         screened |-> FALSE, valid |-> TRUE, tried |-> 0, bidi |-> FALSE, wire |-> "plain",
         header |-> FALSE, footer |-> FALSE, permit |-> FALSE, registered |-> FALSE,
         stanza |-> NoStanza, step |-> "none", fates |-> 0, work |-> 0, count |-> 0,
         reason |-> "none"]

Init ==
  /\ conn = [c \in Conn |-> Free]
  /\ active = 0
  /\ perIp = [i \in Ip |-> 0]
  /\ pairs = [p \in Local \X Remote |-> 0]
  /\ listening = TRUE
  /\ stopping = FALSE

At(c, phase) == conn[c].phase = phase
Only(c, next) == /\ conn' = [conn EXCEPT ![c] = next]
                 /\ UNCHANGED <<active, perIp, pairs, listening, stopping>>

\* Failure of the negotiation: the reason decides what is still written.
Reject(c, reason) ==
  Only(c, [conn[c] EXCEPT !.phase = "rejected", !.reason = reason])

-----------------------------------------------------------------------------
(* The listener. *)

\* AdmissionLimits::reserve, as it is called: the global place is taken by
\* compare and exchange, before the limiter of addresses is awaited.
Accept(c, ip) ==
  /\ listening /\ ~stopping
  /\ At(c, "free")
  /\ active < MaxInbound
  /\ active' = active + 1
  /\ conn' = [conn EXCEPT ![c] = [Free EXCEPT !.phase = "admitting", !.ip = ip]]
  /\ UNCHANGED <<perIp, pairs, listening, stopping>>

\* The address has a place as well, and the connection's task begins.
Admit(c) ==
  /\ At(c, "admitting")
  /\ perIp[conn[c].ip] < MaxPerIp
  /\ perIp' = [perIp EXCEPT ![conn[c].ip] = @ + 1]
  /\ conn' = [conn EXCEPT ![c].phase = "header"]
  /\ UNCHANGED <<active, pairs, listening, stopping>>

\* It has none, or the socket cannot be set up, which also ends the listener:
\* what was taken is given back.
TurnAway(c) ==
  /\ At(c, "admitting")
  /\ listening' \in IF perIp[conn[c].ip] < MaxPerIp THEN {FALSE} ELSE {listening}
  /\ active' = active - 1
  /\ conn' = [conn EXCEPT ![c] = Free]
  /\ UNCHANGED <<perIp, pairs, stopping>>

\* accept fails for good: the listener reports it and waits for the shutdown that
\* the server begins on that report.
ListenerFails ==
  /\ listening
  /\ \A c \in Conn : ~At(c, "admitting")
  /\ listening' = FALSE
  /\ UNCHANGED <<conn, active, perIp, pairs, stopping>>

\* The listener's task polls its connections while it accepts and while it drains
\* them; in between, after a failure, they stand still.
Polled == listening \/ stopping

Stop ==
  /\ ~stopping
  /\ stopping' = TRUE
  /\ listening' = FALSE
  /\ UNCHANGED <<conn, active, perIp, pairs>>

-----------------------------------------------------------------------------
(* Negotiation. *)

Negotiating(c) ==
  conn[c].phase \in {"header", "starttls", "handshake", "secure", "verify",
                     "auth", "challenge", "final"}

\* The deadline of the negotiation, the shutdown, or the peer going away.
NegotiationCut(c) ==
  /\ Negotiating(c)
  /\ \E reason \in {"timeout", "eof"} \cup (IF stopping THEN {"shutdown"} ELSE {}) :
       IF At(c, "handshake")
       THEN Only(c, [conn[c] EXCEPT !.phase = "closed", !.reason = reason])
       ELSE Reject(c, reason)

\* Headers with a bad namespace, version, language or address.
HeaderFailures == {"host-unknown", "bad-header"}

\* The first header names the domain the peer wants; it must be one of ours that
\* federates.
PlainHeader(c) ==
  /\ At(c, "header")
  /\ \/ \E reason \in HeaderFailures : Reject(c, reason)
     \/ Only(c, [conn[c] EXCEPT !.phase = "rejected", !.reason = "host-unknown",
                                !.header = TRUE])
     \/ \E to \in Local :
          Only(c, [conn[c] EXCEPT !.phase = "starttls", !.local = to, !.header = TRUE])

\* <starttls/>, answered only when the host has a certificate to show.
StartTls(c) ==
  /\ At(c, "starttls")
  /\ \/ Only(c, [conn[c] EXCEPT !.phase = "handshake", !.wire = "none"])
     \/ Reject(c, "eof")
     \/ Reject(c, "not-authorized")

\* The handshake keeps the chain the peer showed, verified or not.
Handshake(c) ==
  /\ At(c, "handshake")
  /\ \/ \E names \in SUBSET Remote, good \in BOOLEAN :
          /\ good => names # {}
          /\ Only(c, [conn[c] EXCEPT !.phase = "secure", !.wire = "tls", !.header = FALSE,
                        !.cert = [names |-> names, good |-> good]])
     \/ Only(c, [conn[c] EXCEPT !.phase = "closed", !.reason = "tls"])

\* verify_peer: a good chain that names the domain the peer claims.
VerifyPeer(cert, from) == cert.good /\ from \in cert.names

\* The header after TLS repeats the domain and names the peer.
SecureHeader(c) ==
  /\ At(c, "secure")
  /\ \E to \in Local, from \in Remote \cup Local \cup {NoDomain} :
       \* restarted.to, restarted.from
       CASE to # conn[c].local -> Reject(c, "host-unknown")
         [] to = conn[c].local /\ from = NoDomain -> Reject(c, "not-authorized")
         [] to = conn[c].local /\ from \in Local -> Reject(c, "invalid-from")
         [] to = conn[c].local /\ from \in Remote /\ ~VerifyPeer(conn[c].cert, from) ->
              Reject(c, "not-authorized")
         [] OTHER -> Only(c, [conn[c] EXCEPT !.phase = "verify", !.remote = from])

\* The revocation check may take long; its verdict rejects or lets pass.
Revocation(c) ==
  /\ At(c, "verify")
  /\ \/ Reject(c, "not-authorized")
     \/ Only(c, [conn[c] EXCEPT !.phase = "auth", !.screened = TRUE, !.header = TRUE])

\* <bidi/> may come once, before an attempt to authenticate, and only with the
\* peer's limits in it.
BidiTaken(c) == OfferBidi /\ ~conn[c].bidi

RequestBidi(c) ==
  /\ At(c, "auth")
  /\ IF BidiTaken(c)
     THEN Only(c, [conn[c] EXCEPT !.bidi = TRUE])
     ELSE Reject(c, "not-authorized")

\* An attempt fails: the second failure closes the stream with its footer.
AttemptFails(c) ==
  IF conn[c].tried = 1
  THEN Only(c, [conn[c] EXCEPT !.phase = "rejected", !.footer = TRUE, !.reason = "eof"])
  ELSE Only(c, [conn[c] EXCEPT !.phase = "auth", !.tried = @ + 1])

\* authorize: the identity asked for is empty or the domain already verified.
Authorize(c, authzid) ==
  IF authzid \in {NoDomain, conn[c].remote}
  THEN Only(c, [conn[c] EXCEPT !.phase = "final", !.header = FALSE])
  ELSE AttemptFails(c)

\* parse_auth: an initial response, none, or a mechanism or encoding that is
\* refused.
ParseAuth(c) ==
  \/ \E authzid \in Remote \cup {NoDomain} : Authorize(c, authzid)
  \/ Only(c, [conn[c] EXCEPT !.phase = "challenge"])
  \/ AttemptFails(c)

\* <auth/>; anything else ends the stream.
Authenticate(c) ==
  /\ At(c, "auth")
  /\ ParseAuth(c) \/ Reject(c, "not-authorized")

ChallengeResponse(c) ==
  /\ At(c, "challenge")
  /\ \/ \E authzid \in Remote \cup {NoDomain} : Authorize(c, authzid)
     \/ AttemptFails(c)
     \/ Reject(c, "not-authorized")

\* Variant: the last header is not compared with what was authenticated.
FinalTaken(c, to, from) == TRUE

\* The last header must say again what was authenticated; it is only compared.
FinalAgrees(c, to, from) == from = conn[c].remote /\ to = conn[c].local

FinalHeader(c) ==
  /\ At(c, "final")
  /\ \E to \in Local, from \in Remote :
       IF FinalAgrees(c, to, from)
       THEN Only(c, [conn[c] EXCEPT !.phase = "open", !.header = TRUE,
                                    !.said = <<to, from>>])
       ELSE Reject(c, IF from = conn[c].remote THEN "host-unknown" ELSE "invalid-from")

\* What is left of a failed negotiation: header and error if they are due, the
\* peer's footer for a while, and the socket is shut down.
CloseNegotiation(c) ==
  /\ At(c, "rejected")
  /\ Only(c, [conn[c] EXCEPT !.phase = "closed", !.header = TRUE, !.footer = TRUE])

-----------------------------------------------------------------------------
(* The stream. *)

Pair(c) == <<conn[c].local, conn[c].remote>>

\* The permit of the pair of domains; without one the stream is a conflict.
OpenStream(c) ==
  /\ At(c, "open")
  /\ IF pairs[Pair(c)] >= MaxPerPair
     THEN Only(c, [conn[c] EXCEPT !.phase = "finish", !.reason = "conflict"])
     ELSE /\ pairs' = [pairs EXCEPT ![Pair(c)] = @ + 1]
          /\ \E registered \in IF conn[c].bidi THEN BOOLEAN ELSE {FALSE} :
               conn' = [conn EXCEPT ![c].phase = "receive", ![c].permit = TRUE,
                                    ![c].registered = registered]
          /\ UNCHANGED <<active, perIp, listening, stopping>>

\* The certificate is found expired, revoked or unknown while in use.
Invalidate(c) ==
  /\ conn[c].phase \in {"receive", "dispatch"}
  /\ conn[c].valid
  /\ Only(c, [conn[c] EXCEPT !.valid = FALSE])

\* Variant: shutdown does not reach a stream in use.
InterruptInvalidOnly(c) ==
  /\ conn[c].phase \in {"receive", "dispatch"}
  /\ ~conn[c].valid
  /\ Only(c, [conn[c] EXCEPT !.phase = "finish", !.step = "none", !.stanza = NoStanza,
                !.fates = 0, !.reason = "reset"])

\* interrupt: shutdown first, then the certificate, drop whatever is awaited.
Interrupt(c) ==
  /\ conn[c].phase \in {"receive", "dispatch"}
  /\ stopping \/ ~conn[c].valid
  /\ Only(c, [conn[c] EXCEPT !.phase = "finish", !.step = "none", !.stanza = NoStanza,
                !.fates = 0,
                !.reason = IF stopping THEN "system-shutdown" ELSE "reset"])

\* What the reader may fail with: the transport, the peer's error, bad XML.
ReadFailures == {"transport", "peer-error", "bad-format"}

\* The stream ends: by its footer, or by the reader's failure.
StreamEnds(c) ==
  /\ At(c, "receive")
  /\ \E reason \in {"end"} \cup ReadFailures :
       Only(c, [conn[c] EXCEPT !.phase = "finish", !.reason = reason])

\* No byte moved on the connection for the idle timeout.
Idle(c) ==
  /\ At(c, "receive")
  /\ Only(c, [conn[c] EXCEPT !.phase = "finish", !.reason = "idle"])

\* validate: both addresses belong to the two ends of this stream.
Valid(c, from, to) == to = conn[c].local /\ from = conn[c].remote

FirstStep(kind) ==
  CASE kind \in {"probe", "toResource"} -> "read"
    [] kind = "rejected" -> "reply"
    [] kind = "service" -> "serve"
    [] OTHER -> "policy"

Receive(c) ==
  /\ At(c, "receive")
  /\ conn[c].count < MaxStanzas
  /\ \E kind \in Kinds, from \in Remote, to \in Local :
       IF Valid(c, from, to)
       THEN Only(c, [conn[c] EXCEPT !.phase = "dispatch", !.count = @ + 1, !.fates = 0,
                       !.stanza = [kind |-> kind, from |-> from, to |-> to],
                       !.step = FirstStep(kind)])
       ELSE Only(c, [conn[c] EXCEPT !.phase = "finish", !.reason = "invalid-from"])

-----------------------------------------------------------------------------
(* Dispatch: what becomes of a request is counted in `fates'. *)

In(c, step) == At(c, "dispatch") /\ conn[c].step = step
Kind(c) == conn[c].stanza.kind
Then(c, step) == Only(c, [conn[c] EXCEPT !.step = step])
\* The request was answered, forwarded or dropped, and the handler goes on.
Settles(c, step) == Only(c, [conn[c] EXCEPT !.step = step, !.fates = @ + 1])
IngressFails(c) ==
  Only(c, [conn[c] EXCEPT !.phase = "finish", !.step = "none", !.stanza = NoStanza,
              !.fates = 0, !.reason = "internal"])

\* Variant: a verdict that rejects is answered and the handler goes on.
RejectedGoesOn(c) == Settles(c, "read")

\* policy_reply: the handler returns with the answer.
PolicyRejects(c) == Settles(c, "done")

\* Policies of the addressed account, from one read of storage, for each kind.
PolicyMessage(c) ==
  /\ In(c, "policy") /\ Kind(c) = "message"
  /\ Then(c, "archive") \/ Settles(c, "done") \/ PolicyRejects(c) \/ IngressFails(c)

\* Presence and answers are never rejected aloud.
PolicyPresence(c) ==
  /\ In(c, "policy") /\ Kind(c) \in {"presence", "answer"}
  /\ \/ Then(c, IF Kind(c) = "presence" THEN "route" ELSE "done")
     \/ Settles(c, "done")
     \/ IngressFails(c)

PolicySubscription(c) ==
  /\ In(c, "policy") /\ Kind(c) = "subscribe"
  /\ Then(c, "read") \/ Settles(c, "done") \/ IngressFails(c)

PolicyIq(c) ==
  /\ In(c, "policy") /\ Kind(c) \in {"get", "set"}
  /\ Then(c, "read") \/ Settles(c, "done") \/ PolicyRejects(c) \/ IngressFails(c)

\* Archiving may refuse the message, which is answered.
Archive(c) ==
  /\ In(c, "archive")
  /\ Then(c, "route") \/ Settles(c, "done") \/ IngressFails(c)

\* message::deliver (Offline): delivered, stored or refused with an answer.
Route(c) ==
  /\ In(c, "route") /\ Kind(c) = "message"
  /\ Settles(c, "done") \/ IngressFails(c)

\* Presence to an account or to one of its resources.
RoutePresence(c) ==
  /\ In(c, "route") /\ Kind(c) = "presence"
  /\ Settles(c, "done") \/ IngressFails(c)

\* A request without a handler, or one only its own account may make, is
\* answered at once; otherwise storage is read or written.
FindHandler(c) ==
  /\ In(c, "read") /\ Kind(c) \in {"get", "set", "subscribe"}
  /\ \/ Then(c, IF Kind(c) = "get" THEN "work" ELSE "handle")
     \/ Settles(c, "done")
     \/ IngressFails(c)

\* A view of storage with its place in the order (Order).
Fix(c) ==
  /\ In(c, "read") /\ Kind(c) \in {"probe", "toResource"}
  /\ \/ Then(c, "turn")
     \/ Settles(c, "done")
     \/ IngressFails(c)

\* The ticket's turn has come: the request is handed to the resource or refused.
Turn(c) ==
  /\ In(c, "turn") /\ Kind(c) = "toResource"
  /\ Settles(c, "done") \/ IngressFails(c)

\* The probe is answered with the presence its sender may see.
Probe(c) ==
  /\ In(c, "turn") /\ Kind(c) = "probe"
  /\ Settles(c, "done") \/ IngressFails(c)

\* The handler of a set or of a subscription runs in the write transaction; an
\* error drops the transaction and is answered.
Handle(c) ==
  /\ In(c, "handle")
  /\ \/ Only(c, [conn[c] EXCEPT !.step = "work", !.work = @ + 1])
     \/ Settles(c, "done")

\* The read of a get is work of the group as well.
StartGet(c) ==
  /\ In(c, "work") /\ Kind(c) = "get" /\ conn[c].work = 0
  /\ Only(c, [conn[c] EXCEPT !.step = "await", !.work = @ + 1])

\* Work of the group goes on whether or not its stream still waits for it.
WorkEnds(c) ==
  /\ conn[c].work > 0
  /\ Only(c, [conn[c] EXCEPT !.work = @ - 1])

\* The outcome of the work: the reply, or a failure that ends the stream.
Finished(c) ==
  /\ In(c, "work") \/ In(c, "await")
  /\ conn[c].work = 0
  /\ In(c, "work") => Kind(c) # "get"
  /\ Settles(c, "done") \/ IngressFails(c)

\* To a domain that a service answers for: the service takes the stanza, or it is
\* refused and the refusal answered.
Serve(c) ==
  /\ In(c, "serve")
  /\ Settles(c, "done") \/ IngressFails(c)

\* A stanza that does not parse is answered when it can be.
Reply(c) ==
  /\ In(c, "reply")
  /\ Settles(c, "done")

Dispatched(c) ==
  /\ In(c, "done")
  /\ Only(c, [conn[c] EXCEPT !.phase = "receive", !.step = "none", !.stanza = NoStanza,
                !.fates = 0])

-----------------------------------------------------------------------------
(* The end of the stream. *)

\* What the close still writes: nothing on a transport that failed.
Writes(reason) == reason \notin {"transport", "peer-error"}

\* finish: error or footer is written, the duplex queue is given back, the
\* socket is shut down, all within its own deadline.
Finish(c) ==
  /\ At(c, "finish")
  /\ Only(c, [conn[c] EXCEPT !.phase = "drain", !.registered = FALSE,
                !.footer = Writes(conn[c].reason)])

\* Variant: the place of the pair is given back before the work is done.
DrainedAlways(c) == TRUE

\* group.drain waits for every task the stream started.
Drained(c) == conn[c].work = 0

\* Only then the permit of the pair is dropped.
Drain(c) ==
  /\ At(c, "drain")
  /\ Drained(c)
  /\ conn' = [conn EXCEPT ![c].phase = "closed", ![c].permit = FALSE]
  /\ pairs' = IF conn[c].permit THEN [pairs EXCEPT ![Pair(c)] = @ - 1] ELSE pairs
  /\ UNCHANGED <<active, perIp, listening, stopping>>

\* The task ends: its permits are dropped and the slot may be used again.
Release(c) ==
  /\ At(c, "closed")
  /\ active' = active - 1
  /\ perIp' = [perIp EXCEPT ![conn[c].ip] = @ - 1]
  /\ conn' = [conn EXCEPT ![c] = [Free EXCEPT !.work = conn[c].work]]
  /\ UNCHANGED <<pairs, listening, stopping>>

\* A task not at its end by the deadline of the shutdown is dropped, its places
\* with it; the work it started goes on.
Dropped(c) ==
  /\ stopping
  /\ conn[c].phase \notin {"free", "admitting", "dropped"}
  /\ active' = active - 1
  /\ perIp' = [perIp EXCEPT ![conn[c].ip] = @ - 1]
  /\ pairs' = IF conn[c].permit THEN [pairs EXCEPT ![Pair(c)] = @ - 1] ELSE pairs
  /\ conn' = [conn EXCEPT ![c] = [Free EXCEPT !.phase = "dropped", !.work = conn[c].work]]
  /\ UNCHANGED <<listening, stopping>>

Negotiate(c) ==
  \/ PlainHeader(c) \/ StartTls(c) \/ Handshake(c) \/ SecureHeader(c) \/ Revocation(c)
  \/ RequestBidi(c) \/ Authenticate(c) \/ ChallengeResponse(c) \/ FinalHeader(c)

Dispatch(c) ==
  \/ PolicyMessage(c) \/ PolicyPresence(c) \/ PolicySubscription(c) \/ PolicyIq(c)
  \/ Archive(c) \/ Route(c) \/ RoutePresence(c) \/ FindHandler(c) \/ Fix(c) \/ Turn(c)
  \/ Probe(c) \/ Handle(c) \/ StartGet(c) \/ Finished(c) \/ Serve(c) \/ Reply(c)
  \/ Dispatched(c)

Ending(c) ==
  \/ CloseNegotiation(c) \/ Finish(c) \/ Drain(c) \/ Release(c) \/ Interrupt(c)

Next ==
  \/ \E c \in Conn :
       \/ \E ip \in Ip : Accept(c, ip)
       \/ Admit(c) \/ TurnAway(c)
       \/ /\ Polled
          /\ \/ NegotiationCut(c) \/ Negotiate(c) \/ OpenStream(c) \/ Receive(c)
             \/ StreamEnds(c) \/ Idle(c) \/ Dispatch(c) \/ Ending(c)
       \/ Invalidate(c) \/ WorkEnds(c) \/ Dropped(c)
  \/ ListenerFails
  \/ Stop

Spec == Init /\ [][Next]_vars

\* A negotiation ends by its deadline whatever the peer does, a closing stream
\* by its own; work of storage ends.  Nothing is assumed of the peer, and the
\* deadline of the shutdown is not relied on.
Fairness ==
  \A c \in Conn :
    /\ WF_vars(Admit(c) \/ TurnAway(c))
    /\ WF_vars(Polled /\ NegotiationCut(c))
    /\ WF_vars(Polled /\ (OpenStream(c) \/ Dispatch(c) \/ Ending(c)))
    /\ WF_vars(WorkEnds(c))
    /\ WF_vars(Polled /\ Interrupt(c))

FairSpec == Spec /\ Fairness

-----------------------------------------------------------------------------
(* Properties *)

Streaming == {"receive", "dispatch"}

\* A stanza reaches the router, and the stream is used for output, only for the
\* pair of domains that was proved: the first header's domain, and a peer named
\* by the certificate of this connection and screened, and that pair is what the
\* peer asked for after it was authenticated (validate in
\* ingress/receive.rs after the three headers of negotiate.rs).
Authentic ==
  \A c \in Conn : conn[c].phase \in Streaming \/ conn[c].registered =>
    /\ conn[c].wire = "tls" /\ conn[c].screened
    /\ conn[c].cert.good /\ conn[c].remote \in conn[c].cert.names
    /\ conn[c].said = Pair(c)
    /\ conn[c].stanza # NoStanza =>
         conn[c].stanza.from \in conn[c].cert.names /\ conn[c].stanza.to = conn[c].local

\* Every request that was handled to its end met one fate: answered, forwarded
\* to the resource, or dropped by policy; never two answers for one request.
OneAnswer ==
  \A c \in Conn :
    /\ conn[c].fates <= 1
    /\ In(c, "done") /\ Kind(c) \in Requests => conn[c].fates = 1

\* The places are exact: every connection counts once, in total and, once
\* admitted, for its address, and the streams of a pair are those that hold its
\* permit, which they keep as long as work they started is running, unless the
\* deadline of the shutdown dropped them (AdmissionLimits::reserve, stream::run).
PlacesExact ==
  LET Here == {c \in Conn : conn[c].phase \notin {"free", "dropped"}} IN
  /\ active = Cardinality(Here)
  /\ \A i \in Ip :
       /\ perIp[i] <= MaxPerIp
       /\ perIp[i] = Cardinality({c \in Here : ~At(c, "admitting") /\ conn[c].ip = i})
  /\ \A p \in Local \X Remote :
       /\ pairs[p] <= MaxPerPair
       /\ pairs[p] = Cardinality({c \in Conn : conn[c].permit /\ Pair(c) = p})
  /\ \A c \in Conn : conn[c].work > 0 => conn[c].permit \/ At(c, "dropped")

\* Once the server stops, every inbound connection ends, and does not need the
\* deadline for it (drain_connections).
StopEnds == stopping ~> (\A c \in Conn : conn[c].phase \in {"free", "dropped"})
=============================================================================
