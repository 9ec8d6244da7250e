----------------------------- MODULE MCOffline -----------------------------
(***************************************************************************)
(* Offline on two instances: one session at a time and three messages, so  *)
(* that backlog, live deliveries and their acknowledgements interleave;    *)
(* and two sessions that compete for one message.  A behaviour is one of a *)
(* single instance, "part".                                                *)
(***************************************************************************)
EXTENDS Offline, TLC

CONSTANTS p1, s1, s2

VARIABLE part

SuiteInit == part \in {"one", "two"} /\ Init

\* One session at a time, however often; or one message.
OneStep == /\ part = "one"
           /\ Next
           /\ Cardinality({s \in Sessions : session'[s].pc # "out"}) <= 1
TwoStep == /\ part = "two"
           /\ Next
           /\ \A p \in Senders : sender'[p].n = 1 \/ (sender'[p].n = 2 /\ sender'[p].pc = "ready")

SuiteSpec == SuiteInit /\ [][(OneStep \/ TwoStep) /\ UNCHANGED part]_<<part, vars>>

Symmetry == Permutations({s1, s2})
=============================================================================
