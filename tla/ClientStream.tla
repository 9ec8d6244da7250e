---------------------------- MODULE ClientStream ----------------------------
(***************************************************************************)
(* Client connections from the listener to the bound resource and to the   *)
(* close (lonewolf-core: c2s/mod.rs, c2s/stream): admission, STARTTLS,     *)
(* SASL, resource binding, the certificate monitor and the closing of the  *)
(* stream; with the SCRAM exchange of lonewolf-auth.                       *)
(*                                                                         *)
(* A connection waits at the points named by pc; what it does between two  *)
(* waits is one action.  What a peer sends is a choice over the kinds of   *)
(* input that the code tells apart.  An interruption (deadline, shutdown)  *)
(* can hit a wait for input or a write that was not yet flushed.           *)
(***************************************************************************)
EXTENDS Naturals, FiniteSets

CONSTANTS
    Conns,          \* connections that may be open at one time
    Ips,            \* addresses they come from
    Accounts,       \* accounts they may authenticate for
    Mechanisms,     \* SASL mechanisms that the listener allows
    Retries,        \* authentication_retries
    BindRetries,    \* resource_binding_retries
    MaxUnauthenticated, MaxPerIp, MaxResources,
    Changes,        \* bound: how often the credentials of an account change
    None

ClientStreamAssumption ==
    /\ {Retries, BindRetries, MaxUnauthenticated, MaxPerIp, MaxResources}
         \subseteq Nat \ {0}
    /\ Changes \in Nat
    /\ Mechanisms \subseteq {"scram", "plus", "external"}

VARIABLES
    listener,   \* "starting", "accepting", "failed", "stopping", "stopped"
    pc,         \* connection -> where it waits
    conn,       \* connection -> its data
    out,        \* connection -> what the peer can see of the output
    reg,        \* connection -> "none", "live" or "retired" in the router
    unauth,     \* UnauthenticatedLimiter.active
    perIp,      \* address -> ConnectionLimiter's count
    account,    \* account -> its stored credential, or 0 when it is absent
    issued,     \* account -> credentials made so far; each has its own salt
    deleting    \* accounts whose sessions a deletion has yet to retire

vars == <<listener, pc, conn, out, reg, unauth, perIp, account, issued,
          deleting>>

----------------------------------------------------------------------------
(* Phases and outcomes. *)

Establishing   == {"plain", "starttls", "handshake", "prepare", "header"}
External       == {"exists", "revalidate", "again"}
Authenticating == {"request", "initial", "challenged", "recheck"} \cup External
Binding        == {"restarted", "bind", "complete"}
Phases         == Establishing \cup Authenticating \cup Binding
Closing        == {"closing", "lingering", "drain"}

\* Outcomes after which nothing is written.
Silent == {"eof", "transport_error", "tls_failure"}

PhaseTimeout(p) ==
    CASE p \in Establishing   -> "establishment_timeout"
      [] p \in Authenticating -> "authentication_timeout"
      [] p \in Binding        -> "binding_timeout"

\* What a read can report that ends the stream, in any phase.
InputFailures == {"stream_end", "peer_error", "malformed"} \cup Silent

\* What the closing tells apart of an outcome (CloseReason, completed).
Reason(o) ==
    CASE o \in Silent -> "silent"
      [] o = "stream_end" -> "footer"
      [] OTHER -> "local"

Fresh(ip) ==
    [ip |-> ip, attempts |-> 0, exporter |-> "unused", mech |-> None,
     user |-> None, account |-> None, cred |-> 0, stale |-> FALSE, cert |-> None,
     monitored |-> FALSE, failures |-> 0, outcome |-> None]

----------------------------------------------------------------------------
(* Writing and closing. *)

\* A send that is flushed before the next wait.
Sends(c, state) == out' = [out EXCEPT ![c] = state]

CloseWith(c, outcome) ==
    /\ pc' = [pc EXCEPT ![c] = "closing"]
    /\ conn' = [conn EXCEPT ![c].outcome = Reason(outcome)]
    /\ reg' = [reg EXCEPT ![c] = "none"]

\* CloseContext::abort without a close handshake.
AbortWith(c, outcome) ==
    /\ pc' = [pc EXCEPT ![c] = "drain"]
    /\ conn' = [conn EXCEPT ![c].outcome = Reason(outcome)]
    /\ reg' = [reg EXCEPT ![c] = "none"]

Shared == <<listener, unauth, perIp, account, issued, deleting>>

Goes(c, p) == pc' = [pc EXCEPT ![c] = p]

\* Variant: the error is written also after a cut element.
CloseXmlCutToo(c) ==
    /\ pc[c] = "closing"
    /\ IF conn[c].outcome = "silent"
       THEN Goes(c, "drain") /\ UNCHANGED out
       ELSE /\ Goes(c, "lingering")
            /\ IF out[c] \in {"open", "cut"}
               THEN Sends(c, "ended")
               ELSE UNCHANGED out
    /\ UNCHANGED <<conn, reg, Shared>>

\* close::xml: after the error or the footer the peer's own footer is read,
\* unless it has come.  A writer without a header, or with an element that
\* was cut off, writes nothing.
CloseXml(c) ==
    /\ pc[c] = "closing"
    /\ IF conn[c].outcome = "silent"
       THEN Goes(c, "drain") /\ UNCHANGED out
       ELSE /\ Goes(c, "lingering")
            /\ IF out[c] = "open"
               THEN Sends(c, "ended")
               ELSE UNCHANGED out
    /\ UNCHANGED <<conn, reg, Shared>>

\* The rest of finish, finish_tls and finish_plain: the peer closes, or the
\* deadline passes and the socket is shut.
Linger(c) ==
    /\ pc[c] = "lingering"
    /\ Goes(c, "drain")
    /\ conn' = [conn EXCEPT ![c].outcome = None]
    /\ UNCHANGED <<out, reg, Shared>>

\* The end of run_until: work.drain, then the permits are dropped.
Release(c) ==
    /\ unauth' = IF conn[c].account = None THEN unauth - 1 ELSE unauth
    /\ perIp' = [perIp EXCEPT ![conn[c].ip] = @ - 1]
    /\ Goes(c, "idle")
    /\ out' = [out EXCEPT ![c] = "shut"]
    /\ reg' = [reg EXCEPT ![c] = "none"]
    /\ conn' = [conn EXCEPT ![c] = None]

Finish(c) ==
    /\ pc[c] = "drain"
    /\ Release(c)
    /\ UNCHANGED <<listener, account, issued, deleting>>

\* finish_phases: a panic of the task is caught, the socket is shut.
Panic(c) ==
    /\ pc[c] \in Phases \cup {"bound"}
    /\ AbortWith(c, "internal_error")
    /\ UNCHANGED <<out, Shared>>

----------------------------------------------------------------------------
(* The listener and admission. *)

\* Listeners::start: the workers bind one after the other; when one fails,
\* those already started are stopped.
Start ==
    /\ listener = "starting"
    /\ listener' \in {"accepting", "stopped"}
    /\ UNCHANGED <<pc, conn, out, reg, unauth, perIp, account, issued, deleting>>

\* reserve, up to the unauthenticated permit.  The attempt limiter may deny
\* first; a denied connection is dropped and nothing of it remains.
Accept(c, ip) ==
    /\ listener = "accepting"
    /\ pc[c] = "idle"
    /\ unauth < MaxUnauthenticated
    /\ unauth' = unauth + 1
    /\ Goes(c, "reserve")
    /\ conn' = [conn EXCEPT ![c] = Fresh(ip)]
    /\ UNCHANGED <<listener, out, reg, perIp, account, issued, deleting>>

\* Variant: the first permit is kept when the second is refused.
ReserveIpKeeps(c) ==
    /\ pc[c] = "reserve"
    /\ IF perIp[conn[c].ip] >= MaxPerIp
       THEN /\ Goes(c, "idle")
            /\ conn' = [conn EXCEPT ![c] = None]
            /\ UNCHANGED <<unauth, perIp>>
       ELSE /\ Goes(c, "plain")
            /\ perIp' = [perIp EXCEPT ![conn[c].ip] = @ + 1]
            /\ UNCHANGED <<conn, unauth>>
    /\ UNCHANGED <<listener, out, reg, account, issued, deleting>>

\* reserve, the permit of the address; refused, the first permit is dropped.
ReserveIp(c) ==
    /\ pc[c] = "reserve"
    /\ IF perIp[conn[c].ip] >= MaxPerIp
       THEN /\ Goes(c, "idle")
            /\ conn' = [conn EXCEPT ![c] = None]
            /\ unauth' = unauth - 1
            /\ UNCHANGED perIp
       ELSE /\ Goes(c, "plain")
            /\ perIp' = [perIp EXCEPT ![conn[c].ip] = @ + 1]
            /\ UNCHANGED <<conn, unauth>>
    /\ UNCHANGED <<listener, out, reg, account, issued, deleting>>

\* An accept error that is neither transient nor an exhausted resource ends
\* the accept loop and is reported; the server then begins the shutdown.
AcceptFails ==
    /\ listener = "accepting"
    /\ \A c \in Conns : pc[c] # "reserve"
    /\ listener' = "failed"
    /\ UNCHANGED <<pc, conn, out, reg, unauth, perIp, account, issued, deleting>>

\* Between its failure and the shutdown the listener's task waits without
\* polling its streams, which stand still.
Polled == listener # "failed"

Stop ==
    /\ listener \in {"accepting", "failed"}
    /\ listener' = "stopping"
    /\ UNCHANGED <<pc, conn, out, reg, unauth, perIp, account, issued, deleting>>

\* The shutdown deadline, or the end of the last stream: what is still
\* active is dropped where it stands, with its permits.
ListenerEnds ==
    /\ listener = "stopping"
    /\ \A c \in Conns : pc[c] # "reserve"
    /\ LET active == {c \in Conns : pc[c] # "idle"}
       IN /\ listener' = "stopped"
          /\ unauth' = unauth - Cardinality(
                         {c \in active : conn[c].account = None})
          /\ perIp' = [ip \in Ips |-> perIp[ip] - Cardinality(
                         {c \in active : conn[c].ip = ip})]
    /\ pc' = [c \in Conns |-> "idle"]
    /\ conn' = [c \in Conns |-> None]
    /\ out' = [c \in Conns |-> "shut"]
    /\ reg' = [c \in Conns |-> "none"]
    /\ UNCHANGED <<account, issued, deleting>>

----------------------------------------------------------------------------
(* What can end a phase from outside. *)

\* Variant: no deadline while TLS is prepared.
UntimedPrepare == Phases \ {"prepare"}

\* run_phase and interrupt: the deadline of the phase or the shutdown.  A
\* write that was under way is cut off: Writer.intact stays false.
TimedPhases == Phases

MayCut(c) ==
    \/ UNCHANGED out
    \/ pc[c] \notin {"handshake", "prepare"} /\ Sends(c, "cut")

PhaseDeadline(c) ==
    /\ pc[c] \in TimedPhases
    /\ MayCut(c)
    /\ IF pc[c] = "handshake"
       THEN AbortWith(c, PhaseTimeout(pc[c]))
       ELSE CloseWith(c, PhaseTimeout(pc[c]))
    /\ UNCHANGED Shared

Shutdown(c) ==
    /\ listener = "stopping"
    /\ pc[c] \in Phases \cup {"bound"}
    /\ MayCut(c)
    /\ IF pc[c] = "handshake"
       THEN AbortWith(c, "system_shutdown")
       ELSE CloseWith(c, "system_shutdown")
    /\ UNCHANGED Shared

\* The peer ends the stream, sends what cannot be parsed, or is gone.  A
\* header that cannot be read is answered with a header, then an error; on the
\* plain stream only a parser's error is.
Reading == {"plain", "starttls", "header", "request", "initial",
            "challenged", "restarted", "bind"}

InputEnds(c) ==
    /\ pc[c] \in Reading
    /\ \E o \in InputFailures :
         /\ CloseWith(c, o)
         /\ IF \/ pc[c] = "plain" /\ o = "malformed"
               \/ pc[c] \in {"header", "restarted"} /\ o \notin Silent
            THEN Sends(c, "open")
            ELSE UNCHANGED out
    /\ UNCHANGED Shared

----------------------------------------------------------------------------
(* Establishment. *)

\* validate_header: whether namespaces, version, language, to and from of a
\* header are accepted.  It is answered with a header in either case.
Header(c, next) ==
    /\ Sends(c, "open")
    /\ \/ Goes(c, next) /\ UNCHANGED <<conn, reg>>
       \/ CloseWith(c, "header_rejected")

PlainHeader(c) ==
    /\ pc[c] = "plain"
    /\ Header(c, "starttls")
    /\ UNCHANGED Shared

\* Only an empty <starttls/> is accepted, and only with a certificate for
\* the host; the plain writer is dropped after <proceed/>.
StartTls(c) ==
    /\ pc[c] = "starttls"
    /\ \/ Goes(c, "handshake") /\ Sends(c, "shut") /\ UNCHANGED <<conn, reg>>
       \/ CloseWith(c, "starttls_rejected") /\ UNCHANGED out
    /\ UNCHANGED Shared

Handshake(c) ==
    /\ pc[c] = "handshake"
    /\ \/ Goes(c, "prepare") /\ UNCHANGED <<conn, reg>>
       \/ AbortWith(c, "tls_failure")
    /\ UNCHANGED <<out, Shared>>

\* prepare_tls: a client certificate is verified now or the stream ends;
\* finish_tls sends no XML.
PrepareTls(c) ==
    /\ pc[c] = "prepare"
    /\ \/ /\ Goes(c, "header")
          /\ \E cert \in {None, "valid"} : conn' = [conn EXCEPT ![c].cert = cert]
          /\ UNCHANGED reg
       \/ /\ Goes(c, "lingering")
          /\ conn' = [conn EXCEPT ![c].outcome = "silent"]
          /\ UNCHANGED reg
    /\ UNCHANGED <<out, Shared>>

\* The second header; without a mechanism to offer the stream ends.
Offered(c) ==
    IF conn[c].cert = None THEN Mechanisms \ {"external"} ELSE Mechanisms

SecureHeader(c) ==
    /\ pc[c] = "header"
    /\ IF Offered(c) = {}
       THEN Sends(c, "open") /\ CloseWith(c, "no_authentication_mechanism")
       ELSE Header(c, "request")
    /\ UNCHANGED Shared

----------------------------------------------------------------------------
(* Authentication. *)

\* The loop of authenticate: what an attempt that is over leaves behind, with
\* the changes it made to its connection.
Spent(data) ==
    [data EXCEPT !.attempts = @ + 1, !.mech = None, !.user = None,
                 !.cred = 0, !.stale = FALSE,
                 !.exporter = IF @ = "inuse" THEN "finished" ELSE @]

Rejected(c, data) ==
    /\ conn' = [conn EXCEPT ![c] =
         [Spent(data) EXCEPT !.outcome = IF data.attempts = Retries
                                         THEN "local" ELSE None]]
    /\ Goes(c, IF data.attempts = Retries THEN "closing" ELSE "request")
    /\ UNCHANGED <<out, reg>>

\* ClientFirst::parse, the part that is not syntax: the channel binding that
\* the flag of the first message selects, or None when it is refused.  "y" is
\* a client that could bind and saw no mechanism that does.
Flags == {"n", "y", "exporter", "end-point"}

ClientFirst(mech, flag) ==
    CASE mech = "plus" /\ flag \in {"exporter", "end-point"} -> flag
      [] mech = "scram" /\ flag = "n" -> "unbound"
      [] mech = "scram" /\ flag = "y" /\ "plus" \notin Mechanisms -> "unbound"
      [] OTHER -> None

\* ScramDecoy: what an unknown account is challenged with.
Decoy == 0

\* `challenge': the stored credential, or a decoy for an account that does not
\* exist or whose credential policy does not accept.
Challenge(data) ==
    {[data EXCEPT !.cred = v] : v \in {Decoy, account[data.user]}}

\* attempt, from the first message on: a channel binding by the exporter
\* serves one exchange.
First(c, data) ==
    \/ Rejected(c, data)
    \/ \E flag \in Flags :
         LET binding == ClientFirst(data.mech, flag)
             d == [data EXCEPT !.exporter =
                     IF binding = "exporter" THEN "inuse" ELSE @]
         IN /\ binding # None
            /\ UNCHANGED out
            /\ IF binding = "exporter" /\ data.exporter # "unused"
               THEN CloseWith(c, "channel_binding_reused")
               ELSE /\ \E e \in Challenge(d) : conn' = [conn EXCEPT ![c] = e]
                    /\ Goes(c, "challenged")
                    /\ UNCHANGED reg

\* attempt: the mechanism is one of those offered, and its first message is
\* there or asked for.
Attempt(c, data) ==
    \/ Rejected(c, data)
    \/ \E m \in Offered(c), a \in Accounts :
         LET d == [data EXCEPT !.mech = m, !.user = a]
         IN \/ Goes(c, "initial") /\ conn' = [conn EXCEPT ![c] = d]
               /\ UNCHANGED <<out, reg>>
            \/ IF m = "external"
               THEN /\ Goes(c, "exists")
                    /\ conn' = [conn EXCEPT ![c] = d]
                    /\ UNCHANGED <<out, reg>>
               ELSE First(c, d)

\* A request that replaces an exchange costs an attempt as well.
Replaced(c) ==
    IF conn[c].attempts = Retries
    THEN CloseWith(c, "attempts_exceeded") /\ UNCHANGED out
    ELSE Attempt(c, Spent(conn[c]))

Unexpected(c) ==
    \E o \in {"unsupported_input", "starttls_rejected"} :
      CloseWith(c, o) /\ UNCHANGED out

\* read_request
ReadRequest(c) ==
    /\ pc[c] = "request"
    /\ \/ Attempt(c, conn[c])
       \/ Rejected(c, conn[c])
       \/ Unexpected(c)
    /\ UNCHANGED Shared

\* read_response to an empty challenge
ReadInitial(c) ==
    /\ pc[c] = "initial"
    /\ \/ IF conn[c].mech = "external"
          THEN Goes(c, "exists") /\ UNCHANGED <<conn, out, reg>>
          ELSE First(c, conn[c])
       \/ Replaced(c)
       \/ Rejected(c, conn[c])
       \/ Unexpected(c)
    /\ UNCHANGED Shared

\* ScramServer::finish: the nonce, the channel binding and the proof of the
\* final message agree with the exchange.
Finals == [nonce : BOOLEAN, binding : BOOLEAN, proof : BOOLEAN]

ScramFinish(final) ==
    CASE ~final.nonce   -> "malformed"
      [] ~final.binding -> "binding_mismatch"
      [] ~final.proof   -> "invalid_proof"
      [] OTHER          -> "ok"

\* read_response to the challenge, and the first half of verify: a proof that
\* is good for a decoy is refused like a bad one.
ReadProof(c) ==
    /\ pc[c] = "challenged"
    /\ \/ \E final \in Finals :
            IF ScramFinish(final) = "ok" /\ conn[c].cred # Decoy
            THEN Goes(c, "recheck") /\ UNCHANGED <<conn, out, reg>>
            ELSE Rejected(c, conn[c])
       \/ Replaced(c)
       \/ Unexpected(c)
    /\ UNCHANGED Shared

\* The success is sent; the permit of the unauthenticated is given back.
Authenticated(c, a, monitored) ==
    /\ conn' = [conn EXCEPT ![c].account = a, ![c].monitored = monitored]
    /\ Goes(c, "restarted")
    /\ out' = [out EXCEPT ![c] = "shut"]
    /\ unauth' = unauth - 1
    /\ UNCHANGED <<reg, listener, perIp, account, issued, deleting>>

\* Variant: any credential of the account will do.
CredentialExists(data) == account[data.user] # 0

\* ScramServer::credential_is_current
CredentialIsCurrent(data) == data.cred = account[data.user]

\* verify: the credential is read again, so that one which was replaced
\* after the challenge does not count; then authzid and from.
Verify(c) ==
    /\ pc[c] = "recheck"
    /\ \/ Rejected(c, conn[c]) /\ UNCHANGED Shared
       \/ /\ CredentialIsCurrent(conn[c])
          /\ \/ Authenticated(c, conn[c].user, FALSE)
             \/ CloseWith(c, "invalid_from") /\ UNCHANGED <<out, Shared>>

\* external: the account must exist before and after the certificate is
\* checked again; the success is sent before the certificate expires.
ExternalStep(c) ==
    /\ pc[c] \in External
    /\ \/ /\ pc[c] # "revalidate"
          /\ Rejected(c, conn[c]) /\ UNCHANGED Shared
       \/ /\ pc[c] = "exists" /\ account[conn[c].user] # 0
          /\ \/ Goes(c, "revalidate") /\ UNCHANGED conn
             \/ CloseWith(c, "invalid_from")
          /\ UNCHANGED <<out, reg, Shared>>
       \/ /\ pc[c] = "revalidate"
          /\ \/ conn[c].cert = "valid" /\ Goes(c, "again") /\ UNCHANGED conn
             \/ CloseWith(c, "certificate_invalid")
          /\ UNCHANGED <<out, reg, Shared>>
       \/ /\ pc[c] = "again" /\ account[conn[c].user] # 0
          /\ IF conn[c].cert = "valid"
             THEN Authenticated(c, conn[c].user, TRUE)
             ELSE CloseWith(c, "certificate_invalid") /\ UNCHANGED <<out, Shared>>

----------------------------------------------------------------------------
(* The certificate of a client that used EXTERNAL. *)

Expire(c) ==
    /\ pc[c] \notin {"idle"} \cup Closing
    /\ conn[c] # None
    /\ conn[c].cert = "valid"
    /\ conn' = [conn EXCEPT ![c].cert = "expired"]
    /\ UNCHANGED <<pc, out, reg, Shared>>

\* ValidityMonitor::interrupt: the time is up, or a check at recheck_at says
\* that the certificate was revoked.
MonitorInvalid(c) ==
    /\ pc[c] \in Binding \cup {"bound"}
    /\ conn[c].monitored
    /\ MayCut(c)
    /\ CloseWith(c, "certificate_invalid")
    /\ UNCHANGED Shared

\* CertificateMonitor::check before an operation is polled
CertificateHolds(c) == conn[c].monitored => conn[c].cert = "valid"

----------------------------------------------------------------------------
(* Resource binding. *)

\* The header after the restart must name the host and the account again.
BindHeader(c) ==
    /\ pc[c] = "restarted"
    /\ CertificateHolds(c)
    /\ Header(c, "bind")
    /\ UNCHANGED Shared

\* reject_bind
BindRejected(c) ==
    /\ conn' = [conn EXCEPT ![c].failures = @ + 1,
                            ![c].outcome = IF conn[c].failures = BindRetries
                                           THEN "local" ELSE None]
    /\ Goes(c, IF conn[c].failures = BindRetries THEN "closing" ELSE "bind")
    /\ UNCHANGED <<out, reg>>

Registered(a) ==
    {c \in Conns : reg[c] = "live" /\ conn[c].account = a}

\* bind_session: an answer to nothing is ignored, a request that is not for
\* a resource or is malformed counts as a failure, a good one registers.
BindRequest(c) ==
    /\ pc[c] = "bind"
    /\ CertificateHolds(c)
    /\ \/ BindRejected(c)
       \/ \E o \in {"unsupported_input", "invalid_from", "starttls_rejected"} :
            CloseWith(c, o) /\ UNCHANGED out
       \/ IF Cardinality(Registered(conn[c].account)) < MaxResources
          THEN /\ reg' = [reg EXCEPT ![c] = "live"]
               /\ Goes(c, "complete")
               /\ UNCHANGED <<conn, out>>
          ELSE BindRejected(c)
    /\ UNCHANGED Shared

\* Variant: the account is not read again.
CompleteUnread(c) ==
    /\ pc[c] = "complete"
    /\ CertificateHolds(c)
    /\ IF reg[c] = "retired"
       THEN CloseWith(c, "retired") /\ UNCHANGED out
       ELSE Goes(c, "bound") /\ UNCHANGED <<conn, out, reg>>
    /\ UNCHANGED Shared

\* complete_binding: registered first, then the account is read, so that a
\* deletion either is seen here or finds the registration.
CompleteBinding(c) ==
    /\ pc[c] = "complete"
    /\ CertificateHolds(c)
    /\ IF account[conn[c].account] = 0
       THEN CloseWith(c, "account_deleted") /\ UNCHANGED out
       ELSE IF reg[c] = "retired"
            THEN CloseWith(c, "retired") /\ UNCHANGED out
            ELSE Goes(c, "bound") /\ UNCHANGED <<conn, out, reg>>
    /\ UNCHANGED Shared

\* The bound stream ends: by its peer, by a failure, or retired by the router.
BoundEnds(c) ==
    /\ pc[c] = "bound"
    /\ \E o \in InputFailures \cup {"retired"} :
         /\ o = "retired" <=> reg[c] = "retired"
         /\ CloseWith(c, o)
    /\ UNCHANGED <<out, Shared>>

----------------------------------------------------------------------------
(* Accounts, changed by the administrator. *)

\* A new credential has a salt of its own, so that it equals no earlier one.
SetPassword(a) ==
    /\ account[a] # 0 \/ a \notin deleting
    /\ issued[a] < Changes
    /\ issued' = [issued EXCEPT ![a] = @ + 1]
    /\ account' = [account EXCEPT ![a] = issued[a] + 1]
    /\ conn' = [c \in Conns |->
         IF pc[c] = "challenged" THEN [conn[c] EXCEPT !.stale = TRUE]
         ELSE conn[c]]
    /\ UNCHANGED <<pc, out, reg, listener, unauth, perIp, deleting>>

\* The record is removed first, then the sessions are retired.
DeleteAccount(a) ==
    /\ account[a] # 0
    /\ account' = [account EXCEPT ![a] = 0]
    /\ deleting' = deleting \cup {a}
    /\ conn' = [c \in Conns |->
         IF pc[c] = "challenged" THEN [conn[c] EXCEPT !.stale = TRUE]
         ELSE conn[c]]
    /\ UNCHANGED <<pc, out, reg, listener, unauth, perIp, issued>>

RetireSessions(a) ==
    /\ a \in deleting
    /\ deleting' = deleting \ {a}
    /\ reg' = [c \in Conns |->
         IF reg[c] = "live" /\ conn[c].account = a THEN "retired" ELSE reg[c]]
    /\ UNCHANGED <<pc, conn, out, listener, unauth, perIp, account, issued>>

----------------------------------------------------------------------------

Init ==
    /\ listener = "starting"
    /\ pc = [c \in Conns |-> "idle"]
    /\ conn = [c \in Conns |-> None]
    /\ out = [c \in Conns |-> "shut"]
    /\ reg = [c \in Conns |-> "none"]
    /\ unauth = 0
    /\ perIp = [ip \in Ips |-> 0]
    /\ account = [a \in Accounts |-> 1]
    /\ issued = [a \in Accounts |-> 1]
    /\ deleting = {}

\* The steps of a connection that need nothing from its peer.
ServerStep(c) ==
    \/ ReserveIp(c) \/ CloseXml(c) \/ Linger(c) \/ Finish(c)
    \/ Verify(c) \/ ExternalStep(c) \/ CompleteBinding(c)

PeerStep(c) ==
    \/ InputEnds(c) \/ PlainHeader(c) \/ StartTls(c) \/ Handshake(c)
    \/ PrepareTls(c) \/ SecureHeader(c) \/ ReadRequest(c) \/ ReadInitial(c)
    \/ ReadProof(c) \/ BindHeader(c) \/ BindRequest(c) \/ BoundEnds(c)

Next ==
    \/ Start \/ AcceptFails \/ Stop \/ ListenerEnds
    \/ \E c \in Conns :
         \/ \E ip \in Ips : Accept(c, ip)
         \/ /\ Polled
            /\ \/ ServerStep(c) \/ PeerStep(c) \/ PhaseDeadline(c) \/ Shutdown(c)
               \/ Panic(c) \/ MonitorInvalid(c)
         \/ Expire(c)
    \/ \E a \in Accounts : SetPassword(a) \/ DeleteAccount(a) \/ RetireSessions(a)

\* Timers fire and the server's own steps are taken, the shutdown after a
\* listener's failure among them; nothing is assumed of the peer.
Fairness ==
    /\ WF_vars(~Polled /\ Stop)
    /\ \A c \in Conns :
         /\ WF_vars(ReserveIp(c)) /\ WF_vars(Polled /\ CloseXml(c))
         /\ WF_vars(Polled /\ Linger(c)) /\ WF_vars(Polled /\ Finish(c))
         /\ WF_vars(Polled /\ PhaseDeadline(c))

Spec == Init /\ [][Next]_vars

FairSpec == Spec /\ Fairness

----------------------------------------------------------------------------
(* Properties. *)

\* The limiter's count is the number of connections that have not
\* authenticated, also while they close, after every refusal, panic, timeout
\* and cancelled future, and each address has as many permits out as it has
\* streams (unauthenticated_limit.rs:Drop, stream/mod.rs:run_until).
PermitsExact ==
    /\ unauth = Cardinality({c \in Conns :
                               pc[c] # "idle" /\ conn[c].account = None})
    /\ unauth <= MaxUnauthenticated
    /\ \A ip \in Ips :
         /\ perIp[ip] = Cardinality({c \in Conns :
              pc[c] \notin {"idle", "reserve"} /\ conn[c].ip = ip})
         /\ perIp[ip] <= MaxPerIp

\* A challenge made from a credential that was replaced or deleted before
\* its proof came can never succeed (authenticate.rs:verify).
NoStaleProof ==
    \A c \in Conns :
      pc[c] \in Binding \cup {"bound"} => ~conn[c].stale

\* A bound session that the router has not retired belongs to an account that
\* exists, or whose deletion has yet to come to its sessions; a deletion
\* between the login and the bind is not missed (bind.rs:complete_binding).
BoundHasAccount ==
    \A c \in Conns :
      (pc[c] = "bound" /\ reg[c] = "live")
        => (account[conn[c].account] # 0 \/ conn[c].account \in deleting)

\* Once an element was cut off, or the stream was ended, nothing more is
\* written on it, and an end is only written inside an open stream: no error
\* lands in the middle of an element, after <proceed/>, or twice
\* (session/mod.rs:Writer.intact, close/mod.rs:xml).
KeepsOutputWhole ==
    \A c \in Conns :
      /\ out[c] \in {"cut", "ended"} => out'[c] = out[c] \/ pc'[c] = "idle"
      /\ out[c] = "shut" => out'[c] # "ended"

\* A connection authenticates or gives its place back, whatever its peer does
\* or leaves undone (stream/mod.rs:run_phase, close/mod.rs:until).
PlacesComeBack ==
    \A c \in Conns :
      (pc[c] # "idle" /\ conn[c].account = None)
        ~> (pc[c] = "idle" \/ conn[c].account # None)
=============================================================================
