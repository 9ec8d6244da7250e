------------------------------ MODULE Validity ------------------------------
(***************************************************************************)
(* How long a federation link may be used (s2s/validity.rs): the deadline  *)
(* of the peer's certificate, the monitor that has the certificate checked *)
(* for revocation again and again while the link works, and the tasks of   *)
(* the link that find out, each in its own way, that it must end.          *)
(*                                                                         *)
(* With source "file" the lists are read from a file the operator        *)
(* replaces (crls_path); with "fetched" they come from the cache of        *)
(* CrlCache, here any verdict; with "disabled" only the certificate counts.*)
(* A clock tick is long: whatever timer is due fires before the next one.  *)
(***************************************************************************)
EXTENDS Integers, FiniteSets, FiniteSetsExt

CONSTANTS
  Sources,    \* where revocation lists may come from
  Chains,     \* the certificate paths a peer may show: when each part ends
  Files,      \* what the operator's file may hold
  Worker,     \* the tasks of the link that watch its validity
  Interval,   \* recheck_interval
  Timeout,    \* how long a recheck may take
  MaxTime     \* bound: the clock stops here

ValidityAssumption ==
  /\ Interval \in Nat \ {0} /\ Timeout \in Nat \ {0} /\ MaxTime \in Nat
  /\ \A f \in Files : f.next \in Nat

VARIABLES
  now,      \* the clock
  source,   \* "file", "fetched" or "disabled"
  file,     \* what crls_path holds
  revoked,  \* since when the file names the peer's certificate
  stage,    \* "handshake", "open" or "closed"
  link,     \* LinkValidity's State
  monitor,  \* ValidityMonitor
  worker    \* what each task is doing, and why it ended

vars == <<now, source, file, revoked, stage, link, monitor, worker>>

Never == 0 - 1
Nothing == "none"

(* The reasons a link ends for that are reported to the operator.          *)
RevocationReasons ==
  {"certificate_revoked", "revocation_unknown", "revocation_stale", "revocation_unavailable"}

Verdict(status, next, refresh, pending) ==
  [status |-> status, next |-> next, refresh |-> refresh, pending |-> pending]

Unasked == Verdict(Nothing, Never, Never, Nothing)

NoMonitor == [pc |-> "none", recheck |-> 0, began |-> 0, answer |-> Unasked, pending |-> Nothing]

Init ==
  /\ now = 0
  /\ source \in Sources
  /\ file \in Files
  /\ revoked = IF file.revokes THEN 0 ELSE Never
  /\ stage = "handshake"
  /\ link = [until |-> 0, why |-> "certificate_expired", certificate |-> 0,
             invalidated |-> Nothing, signal |-> Nothing, reports |-> 0]
  /\ monitor = NoMonitor
  /\ worker = [w \in Worker |-> [pc |-> "ready", reason |-> Nothing]]

-----------------------------------------------------------------------------
(* Verdicts.                                                               *)

(* PeerTrust: a path is valid until its leaf, its intermediates and, when  *)
(* the operator names the anchors, its anchor are.                         *)
ValidUntil(chain) == Min({chain.leaf, chain.intermediate, chain.anchor})

(* CrlSet::load_with: the file is read, every list in it must parse and be *)
(* valid at the time the check began with.                                 *)
Loaded(f, t) ==
  IF f.state # "readable" THEN f.state
  ELSE IF f.this > t \/ f.next <= t THEN "stale" ELSE "loaded"

(* Status from the file: unknown is as bad as revoked.                     *)
FileVerdict(f, t) ==
  CASE Loaded(f, t) = "unreadable" -> Verdict("unavailable", Never, Never, Nothing)
    [] Loaded(f, t) = "invalid" -> Verdict("invalid", Never, Never, Nothing)
    [] Loaded(f, t) = "stale" -> Verdict("stale", Never, Never, Nothing)
    [] Loaded(f, t) = "loaded" /\ ~f.covers -> Verdict("not_authoritative", Never, Never, Nothing)
    [] Loaded(f, t) = "loaded" /\ f.covers /\ f.revokes -> Verdict("revoked", Never, Never, Nothing)
    [] OTHER -> Verdict("good", f.next, Never, Nothing)

(* What the cache may say: any status, a refresh to come, a download under *)
(* way or already over.                                                    *)
FetchedVerdicts(t) ==
  [status : {"good", "revoked", "unknown"}, next : {Never},
   refresh : {Never, t + 1}, pending : {Nothing, "under_way", "over"}]

Verdicts(t) == IF source = "file" THEN {FileVerdict(file, t)} ELSE FetchedVerdicts(t)

Accepts(v) == IF source = "file" THEN v.status = "good" ELSE v.status # "revoked"

CloseReason(v) ==
  CASE v.status = "revoked" -> "certificate_revoked"
    [] v.status = "not_authoritative" -> "revocation_unknown"
    [] v.status = "stale" -> "revocation_stale"
    [] OTHER -> "revocation_unavailable"

(* effective_deadline: a list from the file also ends the link.            *)
Deadline(certificate, v) ==
  IF source = "file" /\ v.next # Never /\ v.next < certificate
  THEN [until |-> v.next, why |-> "revocation_stale"]
  ELSE [until |-> certificate, why |-> "certificate_expired"]

-----------------------------------------------------------------------------
(* The state the tasks share.                                              *)

(* State::check: what a task that looks at the clock now finds.            *)
Check ==
  IF link.invalidated # Nothing THEN link.invalidated
  ELSE IF link.signal # Nothing THEN link.signal
  ELSE IF now >= link.until THEN link.why
  ELSE Nothing

(* State::record: the first reason stays.                                  *)
Record(observed) == IF link.invalidated # Nothing THEN link.invalidated ELSE observed

(* State::report: the first one to report the reason is the only one.      *)
Reported(reason) == IF reason \in RevocationReasons /\ link.reports = 0 THEN 1 ELSE link.reports

(* The oneshot of a monitored link is sent when its monitor finds the link *)
(* invalid, and when the monitor is dropped after that; the one of a fixed *)
(* link is a timer.  A link is fixed when no lists are used, and when no   *)
(* recheck can change the verdict of the fetched ones: a path that names   *)
(* no list, or cannot be read, which is accepted as unknown.               *)
Open ==
  /\ stage = "handshake"
  /\ \E chain \in Chains :
       LET certificate == ValidUntil(chain)
       IN /\ certificate > now
          /\ \/ /\ source \in {"disabled", "fetched"}
                /\ stage' = "open"
                /\ link' = [link EXCEPT !.until = certificate, !.certificate = certificate]
                /\ UNCHANGED monitor
             \/ /\ source # "disabled"
                /\ \E v \in Verdicts(now) :
                     IF ~Accepts(v)
                     THEN stage' = "closed" /\ UNCHANGED <<link, monitor>>
                     ELSE LET d == Deadline(certificate, v)
                          IN /\ stage' = "open"
                             /\ link' = [link EXCEPT !.until = d.until, !.why = d.why,
                                                     !.certificate = certificate]
                             /\ monitor' = [NoMonitor EXCEPT !.pc = "asleep",
                                              !.pending = v.pending,
                                              !.recheck = Min({now + Interval} \cup
                                                              ({v.refresh} \ {Never}))]
  /\ UNCHANGED <<now, source, file, revoked, worker>>

(* A fixed link's timer.                                                   *)
Expire ==
  /\ stage = "open" /\ monitor.pc = "none" /\ link.signal = Nothing /\ now >= link.until
  /\ link' = [link EXCEPT !.signal = "certificate_expired"]
  /\ UNCHANGED <<now, source, file, revoked, stage, monitor, worker>>

-----------------------------------------------------------------------------
(* The monitor.                                                            *)

(* Variant: the link is marked but nobody is woken.                        *)
InvalidateQuietly(observed) ==
  LET reason == Record(observed)
  IN /\ link' = [link EXCEPT !.invalidated = reason, !.reports = Reported(reason)]
     /\ monitor' = [monitor EXCEPT !.pc = "parked", !.answer = Unasked]

Invalidate(observed) ==
  LET reason == Record(observed)
  IN /\ link' = [link EXCEPT !.invalidated = reason, !.signal = reason,
                             !.reports = Reported(reason)]
     /\ monitor' = [monitor EXCEPT !.pc = "parked", !.answer = Unasked]

Due ==
  /\ monitor.pc = "asleep"
  /\ now >= link.until \/ now >= monitor.recheck \/ monitor.pending = "over"

(* The first select of run_with ends: the link has expired, or the check   *)
(* begins and the signals that are over are forgotten.                     *)
Wake ==
  /\ stage = "open" /\ Due
  /\ IF Check # Nothing
     THEN Invalidate(Check)
     ELSE /\ monitor' = [monitor EXCEPT !.pc = "checking", !.began = now, !.answer = Unasked,
                                        !.pending = IF @ = "over" THEN Nothing ELSE @]
          /\ UNCHANGED link
  /\ UNCHANGED <<now, source, file, revoked, stage, worker>>

(* The blocking thread reads the file, or the cache is asked.              *)
Revalidate ==
  /\ stage = "open" /\ monitor.pc = "checking" /\ monitor.answer = Unasked
  /\ \E v \in Verdicts(monitor.began) : monitor' = [monitor EXCEPT !.answer = v]
  /\ UNCHANGED <<now, source, file, revoked, stage, link, worker>>

TimedOut == now >= monitor.began + Timeout

(* Variant: a link keeps working when its file cannot be read in time.     *)
ToleratesSilence == TRUE

(* A recheck without an answer ends a link whose lists come from a file,   *)
(* and leaves one with fetched lists alone.                                *)
Tolerates == source # "file"

(* The second select of run_with ends and its outcome is applied, unless   *)
(* the link has expired meanwhile.                                         *)
Finish ==
  /\ stage = "open" /\ monitor.pc = "checking"
  /\ \/ now >= link.until
     \/ TimedOut
     \/ monitor.answer # Unasked
  /\ LET v == monitor.answer
         d == Deadline(link.certificate, v)
     IN IF Check # Nothing
        THEN Invalidate(Check)
        ELSE IF TimedOut
        THEN IF Tolerates
             THEN /\ monitor' = [monitor EXCEPT !.pc = "asleep", !.recheck = now + Interval,
                                                !.answer = Unasked]
                  /\ UNCHANGED link
             ELSE Invalidate("revocation_unavailable")
        ELSE IF ~Accepts(v)
        THEN Invalidate(CloseReason(v))
        ELSE IF now >= d.until
        THEN LET reason == Record(d.why)
             IN /\ link' = [link EXCEPT !.until = d.until, !.why = d.why, !.signal = reason,
                                        !.invalidated = reason, !.reports = Reported(reason)]
                /\ monitor' = [monitor EXCEPT !.pc = "parked", !.answer = Unasked]
        ELSE /\ link' = [link EXCEPT !.until = d.until, !.why = d.why]
             /\ monitor' = [monitor EXCEPT !.pc = "asleep", !.pending = v.pending,
                                           !.answer = Unasked,
                                           !.recheck = Min({now + Interval} \cup
                                             {t \in {v.refresh} : t > monitor.began})]
  /\ UNCHANGED <<now, source, file, revoked, stage, worker>>

(* A download the verdict waited for is over.                              *)
DownloadOver ==
  /\ monitor.pending = "under_way" /\ stage = "open"
  /\ monitor' = [monitor EXCEPT !.pending = "over"]
  /\ UNCHANGED <<now, source, file, revoked, stage, link, worker>>

-----------------------------------------------------------------------------
(* The tasks of the link.                                                  *)

Ends(w, reason) == worker' = [worker EXCEPT ![w] = [pc |-> "ended", reason |-> reason]]

(* An operation begins with a look at the clock, which may end the link    *)
(* without a word to the others; then it waits for the signal as well.     *)
Enter(w) ==
  /\ stage = "open" /\ worker[w].pc = "ready"
  /\ IF Check # Nothing
     THEN /\ link' = [link EXCEPT !.invalidated = Record(Check)]
          /\ Ends(w, Record(Check))
     ELSE /\ worker' = [worker EXCEPT ![w].pc = "working"]
          /\ UNCHANGED link
  /\ UNCHANGED <<now, source, file, revoked, stage, monitor>>

(* The operation ends before the signal: a stanza was sent or received.    *)
Work(w) ==
  /\ stage = "open" /\ worker[w].pc = "working" /\ link.signal = Nothing
  /\ worker' = [worker EXCEPT ![w].pc = "ready"]
  /\ UNCHANGED <<now, source, file, revoked, stage, link, monitor>>

(* The signal ends the operation.                                          *)
Signalled(w) ==
  /\ stage = "open" /\ worker[w].pc = "working" /\ link.signal # Nothing
  /\ link' = [link EXCEPT !.invalidated = Record(link.signal)]
  /\ Ends(w, Record(link.signal))
  /\ UNCHANGED <<now, source, file, revoked, stage, monitor>>

(* supervise: the work is over, because all its tasks ended or because the *)
(* peer or the server closed the link; the monitor is dropped, sends its   *)
(* signal if the link is invalid, and the reason is reported.              *)
Leave ==
  /\ stage = "open"
  /\ (\A w \in Worker : worker[w].pc = "ended") \/ link.invalidated = Nothing
  /\ stage' = "closed"
  /\ link' = [link EXCEPT !.signal = IF @ = Nothing THEN link.invalidated ELSE @,
                          !.reports = IF monitor.pc # "none" THEN Reported(link.invalidated)
                                      ELSE @]
  /\ monitor' = [NoMonitor EXCEPT !.pc = IF monitor.pc = "none" THEN "none" ELSE "dropped"]
  /\ UNCHANGED <<now, source, file, revoked, worker>>

-----------------------------------------------------------------------------
(* The world.                                                              *)

(* The operator replaces the file; a certificate that was revoked stays    *)
(* revoked while the file can be read.                                     *)
Replace ==
  /\ source = "file"
  /\ \E f \in Files :
       /\ f # file
       /\ revoked # Never => f.revokes
       /\ file' = f
       /\ revoked' = IF revoked = Never /\ f.revokes THEN now ELSE revoked
  /\ UNCHANGED <<now, source, stage, link, monitor, worker>>

Tick ==
  /\ now < MaxTime
  /\ stage = "open" =>
       /\ ~Due
       /\ ~(monitor.pc = "checking" /\ (now >= link.until \/ TimedOut))
       /\ ~(monitor.pc = "none" /\ link.signal = Nothing /\ now >= link.until)
       /\ \A w \in Worker : ~(worker[w].pc = "working" /\ link.signal # Nothing)
  /\ now' = now + 1
  /\ UNCHANGED <<source, file, revoked, stage, link, monitor, worker>>

Next ==
  \/ Open \/ Expire \/ Wake \/ Revalidate \/ Finish \/ DownloadOver
  \/ \E w \in Worker : Enter(w) \/ Work(w) \/ Signalled(w)
  \/ Leave \/ Replace \/ Tick

Spec == Init /\ [][Next]_vars

(* The runtime polls a task whose timer or signal is ready.                *)
Fairness ==
  /\ WF_vars(Wake) /\ WF_vars(Finish) /\ WF_vars(Expire)
  /\ \A w \in Worker : WF_vars(Enter(w)) /\ WF_vars(Signalled(w))

FairSpec == Spec /\ Fairness

-----------------------------------------------------------------------------
(* Properties.                                                             *)

(* Everyone is told the same reason: whichever task or the monitor was the *)
(* first to find the link invalid, by its clock, by the signal or by a     *)
(* verdict, its reason is what every other task ends with and what the     *)
(* operator is told, exactly once when it is about revocation              *)
(* (State::record, State::report, the Drop of ValidityMonitor).            *)
OneReason ==
  /\ \A w \in Worker : worker[w].reason \in {Nothing, link.invalidated}
  /\ link.invalidated # Nothing => link.signal \in {Nothing, link.invalidated}
  /\ (stage = "closed" /\ monitor.pc = "dropped") =>
       (link.reports = IF link.invalidated \in RevocationReasons THEN 1 ELSE 0)

(* A revocation lands: once the file names the certificate, a link is not  *)
(* used longer than the recheck that may have read the file before, the    *)
(* interval and one recheck more, whatever else becomes of the file.       *)
RevocationLands ==
  (stage = "open" /\ source = "file" /\ revoked # Never /\ link.invalidated = Nothing)
    => now <= revoked + Interval + 2 * Timeout

(* No task works on alone: when one of them has found the link invalid by  *)
(* its own clock, which wakes nobody, the others end too.                  *)
AllEnd ==
  link.invalidated # Nothing ~> \A w \in Worker : worker[w].pc = "ended"
=============================================================================
