------------------------------ MODULE Dispatch ------------------------------
(* A bound client stream handles one stanza at a time: it checks the stanza,  *)
(* asks the policies of the accounts concerned, and then answers it, hands it *)
(* on, or leaves it to spawned work that it waits for and that outlives it.   *)
(* Messages and undirected presence are the subject of Offline and Presence.  *)
EXTENDS Integers, Sequences, FiniteSets, SequencesExt

CONSTANTS Offered,     \* the stanzas the client may send
          MaxStanzas   \* bound on the stanzas of the stream

BoundAssumption == MaxStanzas \in Nat \ {0}

VARIABLES federation, \* whether the server was started with a remote router
          sent,     \* the stanzas taken from the stream so far
          at,       \* where the stream is with the last of them
          answers,  \* the answers in the outbox, as the numbers of their stanzas
          onward,   \* the stanzas handed to their destination, in that order
          alive,    \* whether the session is still registered
          work,     \* spawned work that still runs: [of, kind]
          report    \* what the work reported to the stream that waits for it

vars == <<federation, sent, at, answers, onward, alive, work, report>>

Requests  == {"get", "set"}
Responses == {"result", "error"}
IqTypes   == Requests \cup Responses
\* Presence addressed to someone; "subscription" is any of the four requests.
Presences == {"available", "unavailable", "probe", "subscription", "presenceError"}
\* A stanza the parser rejected, with and without the right to an answer.
Malformed == {"malformed", "malformedError"}
Destinations == {"account", "resource", "server", "serverResource", "service", "remote"}

Init == /\ federation \in BOOLEAN
        /\ sent = <<>> /\ at = "idle"
        /\ answers = <<>> /\ onward = <<>> /\ alive = TRUE
        /\ work = {} /\ report = "none"

\* Number and record of the stanza in hand, and its type and destination.
Current == Len(sent)
Stanza  == sent[Current]
Is(types, dests) == Stanza.type \in types /\ Stanza.to \in dests

\* The three ways a handler returns: with nothing, with a reply queued, with
\* the stanza passed on. Close is the stream error that ends the stream.
Return == at' = "idle" /\ UNCHANGED <<answers, onward>>
Reply  == at' = "idle" /\ answers' = Append(answers, Current) /\ UNCHANGED onward
Pass   == at' = "idle" /\ onward' = Append(onward, Current) /\ UNCHANGED answers
Close  == at' = "closed" /\ UNCHANGED <<answers, onward>>

\* queue_iq_error is only for requests: an error in answer to a response
\* would be answered in turn.
ReplyToRequest == IF Stanza.type \in Requests THEN Reply ELSE Return

-----------------------------------------------------------------------------
(* Taking a stanza.                                                          *)

Arrives(s) == at = "idle" /\ Len(sent) < MaxStanzas /\ sent' = Append(sent, s)

\* A stanza of a namespace other than the stream's closes it.
Foreign(s) ==
    /\ Arrives(s) /\ ~s.client
    /\ at' = "closed" /\ UNCHANGED <<answers, onward, alive, work, report>>

\* handle_rejected: the parser has decided whether an answer is allowed.
HandleRejected(s) ==
    /\ Arrives(s) /\ s.client /\ s.type \in Malformed
    /\ answers' = IF s.type = "malformed" THEN Append(answers, Len(sent) + 1) ELSE answers
    /\ at' = "idle" /\ UNCHANGED <<onward, alive, work, report>>

\* Responses, errors, and stanzas to the server, to a service or to the own
\* account do not count against the rate of recipients.
Counted(s) == /\ s.type \notin Responses \cup {"presenceError"}
              /\ s.to \in {"account", "resource", "remote"}

\* Over the rate an IQ request or a subscription is told so; other presence
\* is dropped without a word.
TellsOfRate(s) == s.type \in Requests \cup {"subscription"}

OverRate(s) ==
    /\ Arrives(s) /\ s.client /\ s.type \in IqTypes \cup Presences /\ Counted(s)
    /\ answers' = IF TellsOfRate(s) THEN Append(answers, Len(sent) + 1) ELSE answers
    /\ at' = "idle" /\ UNCHANGED <<onward, alive, work, report>>

\* iq_destination_error: a payload whose extension demands the own bare JID.
Misdirected(s) ==
    /\ Arrives(s) /\ s.client /\ s.type \in Requests
    /\ answers' = Append(answers, Len(sent) + 1)
    /\ at' = "idle" /\ UNCHANGED <<onward, alive, work, report>>

\* Everything else goes on to the policies of the accounts concerned.
HandleStanza(s) ==
    /\ Arrives(s) /\ s.client /\ s.type \in IqTypes \cup Presences
    /\ at' = "policy" /\ UNCHANGED <<answers, onward, alive, work, report>>

-----------------------------------------------------------------------------
(* Policies: the sender's for the outbound direction and, for a local        *)
(* recipient, the recipient's for the inbound one.                            *)

Verdicts == {"allow", "reject", "drop"}
Strictest(v, w) == IF "drop" \in {v, w} THEN "drop" ELSE IF v = "reject" THEN v ELSE w

\* Variant: the verdict is taken as the handler gave it.
ForStanza_Plain(v, s) == v

\* No rejection of presence or of an IQ response; a dropped request is
\* rejected, since its sender waits for an answer.
ForStanza(v, s) ==
    IF v = "drop" /\ s.type \in Requests THEN "reject"
    ELSE IF v = "reject" /\ s.type \in Responses \cup Presences THEN "drop"
    ELSE v

\* Whether anyone's policy is asked: not for the server itself, and not for
\* presence errors. A probe is judged in its own work, and what cannot leave
\* this server is refused unjudged, subscriptions excepted.
Unjudged == {"probe", "presenceError"}
ServicePolicy(s) == s.to = "service"
LocalPolicy(s)   == s.to \in {"account", "resource"} /\ s.type \notin Unjudged
RemotePolicy(s)  == /\ s.to = "remote" /\ s.type \notin Unjudged
                    /\ federation \/ s.type = "subscription"
PolicyApplies(s) == ServicePolicy(s) \/ LocalPolicy(s) \/ RemotePolicy(s)

Judged(verdict) ==
    CASE verdict = "allow"  -> at' = "act" /\ UNCHANGED <<answers, onward>>
      [] verdict = "reject" -> Reply
      [] verdict = "drop"   -> Return

Evaluate(v, w) ==
    /\ at = "policy"
    /\ Judged(IF PolicyApplies(Stanza) THEN ForStanza(Strictest(v, w), Stanza) ELSE "allow")
    /\ UNCHANGED <<sent, alive, work, report>>

\* The snapshot the policies read cannot be opened.
PolicyFails ==
    /\ at = "policy" /\ PolicyApplies(Stanza)
    /\ Close /\ UNCHANGED <<sent, alive, work, report>>

-----------------------------------------------------------------------------
(* Acting on it. Work that others must not see half done is spawned, and the *)
(* stream waits for its report while it writes what is in its mailbox.        *)

\* Variant: the stream does not wait for presence to be sent.
Spawn_PresenceDetached(kind) ==
    /\ work' = work \cup {[of |-> Current, kind |-> kind]}
    /\ at' = IF kind \in {"directed", "probe", "subscription"} THEN "idle" ELSE "waiting"
    /\ report' = "none"
    /\ UNCHANGED <<sent, answers, onward, alive>>

Spawn(kind) ==
    /\ work' = work \cup {[of |-> Current, kind |-> kind]}
    /\ at' = "waiting" /\ report' = "none"
    /\ UNCHANGED <<sent, answers, onward, alive>>

Still == UNCHANGED <<sent, alive, work, report>>

\* A stanza to another server: it is queued on a link, or refused.
RouteRemote(ok) ==
    /\ at = "act" /\ Is(IqTypes, {"remote"}) /\ federation
    /\ IF ok THEN Pass ELSE ReplyToRequest
    /\ Still

\* Without federation a request finds no handler, a response and a presence
\* error have no reader, and directed presence is answered with an error.
NoRemote ==
    /\ at = "act" /\ ~federation /\ Is(IqTypes \cup (Presences \ {"subscription"}), {"remote"})
    /\ IF Stanza.type \in Presences \ {"presenceError"} THEN Reply ELSE ReplyToRequest
    /\ Still

\* An IQ to a resource goes to it whole; to a resource of the server, nobody.
RouteResourceIq ==
    /\ at = "act" /\ Is(IqTypes, {"resource"})
    /\ Spawn("resource")
NoServerResource ==
    /\ at = "act" /\ Is(IqTypes, {"serverResource"})
    /\ ReplyToRequest /\ Still

\* A response to the server answers one of its requests (see IqRequests); any other
\* response is ignored.
TakeResponse ==
    /\ at = "act" /\ Is(Responses, {"account", "server"})
    /\ IF Stanza.to = "server" THEN Pass ELSE Return
    /\ Still

NoHandler ==
    /\ at = "act" /\ Is(Requests, {"account", "server"})
    /\ Reply /\ Still

HandleIqGet == at = "act" /\ Is({"get"}, {"account", "server"}) /\ Spawn("get")
HandleIqSet == at = "act" /\ Is({"set"}, {"account", "server"}) /\ Spawn("set")

\* A set that only changes the session's tags: the change finds the session
\* registered, retired (an error reply), or the router failed.
HandleSessionIq(found) ==
    /\ at = "act" /\ Is({"set"}, {"account"})
    /\ CASE found \in {"changed", "retired"} -> Reply
         [] found = "failed" -> Close
    /\ Still

\* A component of this server. Presence goes through the gate (see ServicePresence).
HandleService(outcome) ==
    /\ at = "act" /\ Is(IqTypes \cup {"probe", "subscription", "presenceError"}, {"service"})
    /\ CASE outcome = "handled"  -> Pass
         [] outcome = "refused"  -> ReplyToRequest
         [] outcome = "failed"   -> Close
    /\ Still
HandleServicePresence ==
    /\ at = "act" /\ Is({"available", "unavailable"}, {"service"})
    /\ Spawn("directed")

\* Probes and directed presence for accounts here or elsewhere. Presence for
\* the server itself has no effect.
HandleProbe == at = "act" /\ Is({"probe"}, {"account", "resource"}) /\ Spawn("probe")
HandleRemoteProbe ==
    /\ at = "act" /\ Is({"probe"}, {"remote"}) /\ federation
    /\ Spawn("probe")
HandleDirected ==
    /\ at = "act" /\ Is({"available", "unavailable"}, {"account", "resource", "remote"})
    /\ Stanza.to = "remote" => federation
    /\ Spawn("directed")
IgnorePresence ==
    /\ at = "act" /\ Is(Presences \ {"subscription"}, {"server", "serverResource"})
    /\ Return /\ Still

\* A presence error is delivered, or is lost without a word.
RoutePresenceError(outcome) ==
    /\ at = "act" /\ Is({"presenceError"}, {"account", "resource", "remote"})
    /\ Stanza.to = "remote" => federation
    /\ CASE outcome = "handled" -> Pass
         [] outcome = "refused" -> Return
         [] outcome = "failed"  -> IF Stanza.to = "remote" THEN Return ELSE Close
    /\ Still

\* The rosters decide about a subscription (see Roster), wherever it goes.
HandleSubscription ==
    /\ at = "act" /\ Is({"subscription"}, Destinations \ {"service"})
    /\ Spawn("subscription")

-----------------------------------------------------------------------------
(* The spawned work. It may run after the stream has ended.                   *)

\* "refused": an error for the sender; "quiet": nobody is told.
Reports == {"done", "refused", "quiet", "failed"}

Finish(w, what) ==
    /\ w \in work
    /\ work' = work \ {w}
    /\ report' = IF at = "waiting" /\ w.of = Current THEN what ELSE report
    /\ UNCHANGED <<sent, at, answers, alive>>
Delivers(w, what) == onward' = IF what = "done" THEN Append(onward, w.of) ELSE onward

\* ResourceIqWork: at its turn the work looks whether the session is still
\* there. The target may be gone, hidden from the sender, or full.
RunResource(w, what) ==
    /\ w.kind = "resource" /\ what # "quiet"
    /\ IF alive THEN Finish(w, what) /\ Delivers(w, what)
       ELSE Finish(w, "done") /\ UNCHANGED onward

\* Presence for one recipient: the session's record of it comes first, which
\* a session that is gone cannot make, and an available one only within the
\* limit. A local probe is answered to a live session only.
RunPresence(w, what) ==
    /\ w.kind \in {"directed", "probe"}
    /\ what = "refused" => sent[w.of].type = "available"
    /\ what = "done" => alive \/ (w.kind = "probe" /\ sent[w.of].to = "remote")
    /\ Finish(w, what) /\ Delivers(w, what)

\* A subscription commits and is delivered whether or not the session lives.
RunSubscription(w, what) ==
    /\ w.kind = "subscription"
    /\ Finish(w, what) /\ Delivers(w, what)

\* A handler of this server: a result or an error, or the stream is closed.
RunHandler(w, what) ==
    /\ w.kind \in {"get", "set"} /\ what # "quiet"
    /\ Finish(w, what) /\ UNCHANGED onward

Run(what) == \E w \in work : \/ RunResource(w, what) \/ RunPresence(w, what)
                             \/ RunSubscription(w, what) \/ RunHandler(w, what)

\* The stream takes the report of the work it waited for. What became of a
\* response does not matter to its sender.
Finished ==
    /\ at = "waiting" /\ report # "none"
    /\ CASE Stanza.type \in Responses -> Return
         [] Stanza.type \notin Responses /\ report = "failed" -> Close
         [] Stanza.type \notin Responses /\ report = "refused" -> Reply
         [] Stanza.type \notin Responses /\ report \in {"done", "quiet"} ->
                IF Is(Requests, {"account", "server"}) THEN Reply ELSE Return
    /\ report' = "none" /\ UNCHANGED <<sent, alive, work>>

\* The session is retired: replaced, or its account is deleted. The stream
\* learns of it later.
Retire == alive /\ alive' = FALSE /\ UNCHANGED <<sent, at, answers, onward, work, report>>

\* The client goes away or the stream sees that it is retired, wherever it is.
End == /\ at # "closed"
       /\ Close /\ Still

Step ==
    \/ \E s \in Offered : \/ Foreign(s) \/ HandleRejected(s) \/ OverRate(s)
                          \/ Misdirected(s) \/ HandleStanza(s)
    \/ \E v, w \in Verdicts : Evaluate(v, w)
    \/ PolicyFails
    \/ \E ok \in BOOLEAN : RouteRemote(ok)
    \/ NoRemote \/ RouteResourceIq \/ NoServerResource \/ TakeResponse
    \/ NoHandler \/ HandleIqGet \/ HandleIqSet
    \/ \E found \in {"changed", "retired", "failed"} : HandleSessionIq(found)
    \/ \E outcome \in {"handled", "refused", "failed"} : HandleService(outcome)
    \/ HandleServicePresence \/ HandleProbe \/ HandleRemoteProbe \/ HandleDirected \/ IgnorePresence
    \/ \E outcome \in {"handled", "refused", "failed"} : RoutePresenceError(outcome)
    \/ HandleSubscription
    \/ \E what \in Reports : Run(what)
    \/ Finished \/ Retire \/ End

Next == Step /\ UNCHANGED federation

Spec == Init /\ [][Next]_vars

-----------------------------------------------------------------------------
TypeOK ==
    /\ federation \in BOOLEAN
    /\ sent \in Seq(Offered) /\ Len(sent) <= MaxStanzas
    /\ at \in {"idle", "policy", "act", "waiting", "closed"}
    /\ answers \in Seq(1 .. Len(sent)) /\ onward \in Seq(1 .. Len(sent))
    /\ alive \in BOOLEAN
    /\ work \subseteq [of : 1 .. Len(sent),
                       kind : {"resource", "probe", "directed", "subscription", "get", "set"}]
    /\ report \in Reports \cup {"none"}

Times(i, seq) == Cardinality({k \in DOMAIN seq : seq[k] = i})

\* Done with, on a stream that still runs.
Settled(i) == i < Current \/ (i = Current /\ at = "idle")

(* A client that sends a request learns what became of it, once: when the     *)
(* stream of a session is done with an IQ request it has queued one answer or *)
(* handed the request to whoever answers it, never both. Policies may not     *)
(* swallow a request. Nothing is ever answered that is itself an answer or an *)
(* error: two servers doing so would never stop.                              *)
OneAnswer ==
    \A i \in DOMAIN sent :
        /\ Times(i, answers) + Times(i, onward) <= 1
        /\ (sent[i].type \in Requests /\ Settled(i) /\ alive)
               => Times(i, answers) + Times(i, onward) = 1
        /\ sent[i].type \in Responses \cup {"presenceError", "malformedError"}
               => Times(i, answers) = 0

(* Stanzas leave in the order they came, whatever work carries them, and the  *)
(* answers are queued in that order too.                                      *)
InOrder ==
    /\ \A j, k \in DOMAIN onward : j < k => onward[j] < onward[k]
    /\ \A j, k \in DOMAIN answers : j < k => answers[j] < answers[k]
=============================================================================
