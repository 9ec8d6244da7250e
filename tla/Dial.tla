-------------------------------- MODULE Dial --------------------------------
(***************************************************************************)
(* Opening a stream to another server. The domain is resolved (see          *)
(* Resolver), and its addresses are tried one after the other: connect,     *)
(* start TLS, authenticate with the certificate, and check the peer's       *)
(* certificate again once the negotiation is over. The first that succeeds  *)
(* is the stream. The peer may do anything at any step, or nothing. A dial  *)
(* is dropped at any point when its link stops, and is accounted for once.  *)
(***************************************************************************)
EXTENDS Naturals, Sequences, FiniteSets

CONSTANTS
    Endpoints,      \* bound: addresses of the domain
    Bidirectional   \* streams may be used both ways (configuration)

DialAssumption == Endpoints \in Nat \ {0} /\ Bidirectional \in BOOLEAN

VARIABLES
    pc,        \* where establish_inner and negotiate are
    index,     \* the address being tried
    conn,      \* "none", "plain" or "tls": what flow.connection is
    footer,    \* the peer has closed its stream
    bidi,      \* both ways, for the stream being negotiated
    last,      \* the failure of the last address that connected
    chosen,    \* the outcome the accounting has selected
    booked,    \* outcomes recorded by the accounting
    accounting,\* the accounting has begun
    result     \* what establish returns, "none" before, "dropped" when cancelled
vars == <<pc, index, conn, footer, bidi, last, chosen, booked, accounting, result>>

DnsErrors == {"noService", "notFound", "dnsUnavailable"}
TlsReasons == {"certificateUntrusted", "certificateName", "certificatePurpose", "certificateExpired",
               "handshake", "certificateRevoked", "revocationUnknown"}
NegotiationErrors == {"noTls", "tlsRefused", "externalNotOffered", "saslFailure", "protocol"}
ConnectedErrors == TlsReasons \cup NegotiationErrors \cup {"timeout"}
Errors == DnsErrors \cup ConnectedErrors \cup {"unreachable"}

\* The outcome that is counted for an error after resolution.
Authentication(error) ==
    CASE error = "success" -> "success"
      [] error = "handshake" -> "tlsFailure"
      [] OTHER -> error

\* What the negotiation reads and writes; nothing while TLS is set up.
Connection == {"none", "plain", "tls"}

Negotiating == {"header", "features", "proceed", "handshake", "tlsHeader", "tlsFeatures", "sasl", "challenged",
                "restart", "lastFeatures", "verify", "revocation"}

TypeOK ==
    /\ pc \in Negotiating \cup {"resolve", "setup", "connect", "cleanup", "done"}
    /\ index \in 1..Endpoints + 1
    /\ conn \in Connection /\ footer \in BOOLEAN /\ bidi \in BOOLEAN
    /\ last \in ConnectedErrors \cup {"none"}
    /\ result \in Errors \cup {"none", "success", "dropped"}
    /\ accounting \in BOOLEAN

\* The domain has from one to Endpoints addresses: those from index on.
Init ==
    /\ pc = "resolve" /\ index \in 1..Endpoints
    /\ conn = "none" /\ footer = FALSE /\ bidi = FALSE
    /\ last = "none" /\ chosen = "none" /\ booked = <<>> /\ accounting = FALSE
    /\ result = "none"

-----------------------------------------------------------------------------
(* Accounting: the first outcome selected counts, and is recorded once, at   *)
(* the latest when the accounting is dropped.                                *)

Selected(outcome) == IF chosen = "none" THEN outcome ELSE chosen

\* Variant: any failure is selected, whether or not another address follows.
SelectedAt_Any(outcome) == Selected(outcome)

\* A failure is selected when no other address follows.
SelectedAt(outcome) == IF index = Endpoints THEN Selected(outcome) ELSE chosen

Recorded(book, outcome) ==
    IF book # <<>> THEN book ELSE Append(book, IF outcome = "none" THEN "protocol" ELSE outcome)

\* The accounting is dropped on return; a success was recorded before.
Return(error, outcome, book) ==
    /\ pc' = "done" /\ result' = error
    /\ chosen' = outcome /\ booked' = IF accounting THEN Recorded(book, outcome) ELSE book
    /\ conn' = "none"

-----------------------------------------------------------------------------
(* Resolving, and the next address.                                          *)

\* An unsuccessful resolution is no attempt to authenticate.
Resolve(error) ==
    /\ pc = "resolve"
    /\ IF error = "none" THEN /\ pc' = "setup" /\ accounting' = TRUE
                              /\ UNCHANGED <<conn, chosen, booked, result>>
       ELSE Return(error, chosen, booked) /\ UNCHANGED accounting
    /\ UNCHANGED <<index, footer, bidi, last>>

\* The client certificate of the local domain and the name to check.
SetUp(ok) ==
    /\ pc = "setup"
    /\ IF ok THEN pc' = "connect" /\ UNCHANGED <<conn, chosen, booked, result>>
       ELSE Return("protocol", chosen, booked)
    /\ UNCHANGED <<index, footer, bidi, last, accounting>>

\* The error of the dial: of the last address that was reached.
Failure(failed) == IF failed = "none" THEN "unreachable" ELSE failed

\* After an address: the next, or the end.
NextAddress(failed) ==
    IF index < Endpoints THEN pc' = "connect" /\ index' = index + 1 /\ UNCHANGED <<result, booked, chosen>>
    ELSE /\ Return(Failure(failed), Selected(Authentication(Failure(failed))), booked)
         /\ index' = index + 1

\* An address that is not reached keeps the failure of an earlier one.
Failed(error) == IF error = "none" THEN last ELSE error

\* Refused, unreachable, or not connected within its time.
ConnectFails ==
    /\ pc = "connect"
    /\ last' = Failed("none")
    /\ NextAddress(last') /\ conn' = "none"
    /\ UNCHANGED <<footer, bidi, accounting>>

Connected(usable) ==
    /\ pc = "connect"
    /\ footer' = FALSE /\ bidi' = FALSE
    /\ IF usable THEN pc' = "header" /\ conn' = "plain" /\ UNCHANGED <<last, chosen>>
       ELSE /\ pc' = "cleanup" /\ conn' = "none" /\ last' = Failed("protocol")
            /\ chosen' = SelectedAt("protocol")
    /\ UNCHANGED <<index, booked, accounting, result>>

-----------------------------------------------------------------------------
(* Negotiating. Each step reads one answer of the peer; the whole has one    *)
(* deadline.                                                                 *)

Go(to) == pc' = to /\ UNCHANGED <<last, chosen>>
Fail(error) ==
    /\ pc' = "cleanup" /\ last' = Failed(error)
    /\ chosen' = SelectedAt(Authentication(error))
Kept == UNCHANGED <<index, booked, accounting, result>>

\* The peer ends its stream or its connection, or sends what is not expected.
Unexpected(closes) ==
    /\ pc \in Negotiating \ {"handshake", "verify", "revocation"}
    /\ Fail("protocol") /\ footer' = closes
    /\ Kept /\ UNCHANGED <<conn, bidi>>

\* Variant: the deadline does not cover the handshake.
Deadline_NotTls == Negotiating \ {"handshake"}

Deadline == Negotiating
Timeout ==
    /\ pc \in Deadline
    /\ Fail("timeout") /\ Kept /\ UNCHANGED <<conn, footer, bidi>>

Header(to) == Go(to) /\ Kept /\ UNCHANGED <<conn, footer, bidi>>
ReadHeader    == pc = "header"    /\ Header("features")
ReadTlsHeader == pc = "tlsHeader" /\ Header("tlsFeatures")
ReadRestarted == pc = "restart"   /\ Header("lastFeatures")

RequireStarttls(offered) ==
    /\ pc = "features"
    /\ IF offered THEN Go("proceed") ELSE Fail("noTls")
    /\ Kept /\ UNCHANGED <<conn, footer, bidi>>

\* The plain reader and writer are given up for the handshake.
Proceed(agreed) ==
    /\ pc = "proceed"
    /\ IF agreed THEN Go("handshake") /\ conn' = "none" ELSE Fail("tlsRefused") /\ UNCHANGED conn
    /\ Kept /\ UNCHANGED <<footer, bidi>>

Handshake(reason) ==
    /\ pc = "handshake"
    /\ IF reason = "none" THEN Go("tlsHeader") /\ conn' = "tls" ELSE Fail(reason) /\ UNCHANGED conn
    /\ Kept /\ UNCHANGED <<footer, bidi>>

\* Both ways when this server wants it and the peer offers it, which is
\* said before the authentication.
RequireExternal(offered, both) ==
    /\ pc = "tlsFeatures"
    /\ IF offered THEN Go("sasl") /\ bidi' = (Bidirectional /\ both) ELSE Fail("externalNotOffered") /\ UNCHANGED bidi
    /\ Kept /\ UNCHANGED <<conn, footer>>

\* One empty challenge is answered.
SaslReply(reply) ==
    /\ pc \in {"sasl", "challenged"}
    /\ CASE reply = "success" -> Go("restart")
         [] reply = "challenge" -> IF pc = "sasl" THEN Go("challenged") ELSE Fail("protocol")
         [] reply = "failure" -> Fail("saslFailure")
    /\ Kept /\ UNCHANGED <<conn, footer, bidi>>

LastFeatures ==
    /\ pc = "lastFeatures"
    /\ Go("verify") /\ Kept /\ UNCHANGED <<conn, footer, bidi>>

\* The chain is verified at the time the negotiation is over.
VerifyChain(reason) ==
    /\ pc = "verify"
    /\ IF reason = "none" THEN Go("revocation") ELSE Fail(reason)
    /\ Kept /\ UNCHANGED <<conn, footer, bidi>>

\* The stream, if the certificate is not revoked.
CheckRevocation(reason) ==
    /\ pc = "revocation"
    /\ IF reason = "none"
       THEN Return("success", Selected("success"), Recorded(booked, Selected("success"))) /\ UNCHANGED <<index, last, accounting>>
       ELSE Fail(reason) /\ Kept /\ UNCHANGED conn
    /\ UNCHANGED <<footer, bidi>>

\* The failed stream is closed with an error, within a time from its failure.
Cleanup ==
    /\ pc = "cleanup"
    /\ NextAddress(last)
    /\ conn' = "none" /\ footer' = FALSE /\ bidi' = FALSE
    /\ UNCHANGED <<last, accounting>>

\* The link stops, and the dial is dropped where it is.
Drop ==
    /\ pc # "done"
    /\ Return("dropped", chosen, booked)
    /\ UNCHANGED <<index, footer, bidi, last, accounting>>

Steps ==
    \/ \E error \in DnsErrors \cup {"none"} : Resolve(error)
    \/ \E ok \in BOOLEAN : SetUp(ok) \/ Connected(ok)
    \/ \E closes \in BOOLEAN : Unexpected(closes)
    \/ ReadHeader \/ ReadTlsHeader \/ ReadRestarted
    \/ \E yes \in BOOLEAN : RequireStarttls(yes) \/ Proceed(yes)
    \/ \E reason \in {"none", "handshake", "certificateName", "certificateUntrusted", "certificatePurpose"} : Handshake(reason)
    \/ \E offered, both \in BOOLEAN : RequireExternal(offered, both)
    \/ \E reply \in {"success", "challenge", "failure"} : SaslReply(reply)
    \/ LastFeatures
    \/ \E reason \in {"none", "certificateExpired", "certificateUntrusted"} : VerifyChain(reason)
    \/ \E reason \in {"none", "certificateRevoked", "revocationUnknown"} : CheckRevocation(reason)

Next == Steps \/ ConnectFails \/ Timeout \/ Cleanup \/ Drop

\* The resolver and the set-up end by themselves; connecting, negotiating and
\* closing have deadlines. The peer need not do anything.
Fairness ==
    /\ WF_vars(\E error \in DnsErrors \cup {"none"} : Resolve(error))
    /\ WF_vars(\E ok \in BOOLEAN : SetUp(ok))
    /\ WF_vars(ConnectFails) /\ WF_vars(Timeout) /\ WF_vars(Cleanup)

Spec == Init /\ [][Next]_vars /\ Fairness

-----------------------------------------------------------------------------
(* Properties.                                                               *)

\* A dial that was resolved is counted once, and as what it returns: the
\* stream, or the error of the last address that was reached. A dropped one
\* is counted too; one that was not resolved is not. (connect.rs Accounting,
\* Attempts, establish_inner)
CountedOnce ==
    pc = "done" =>
        IF ~accounting THEN booked = <<>>
        ELSE /\ Len(booked) = 1
             /\ result # "dropped" => booked = <<Authentication(result)>>

\* Every dial ends, whatever the peer does. (connect.rs deadline,
\* CLOSE_BUDGET)
DialEnds == <>(pc = "done")
=============================================================================
