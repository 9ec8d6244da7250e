------------------------------ MODULE MCRoster ------------------------------
(***************************************************************************)
(* The roster three times over: the subscriptions among the accounts of a  *)
(* server (Roster), the copies its clients keep (RosterSync) and a         *)
(* subscription between two servers (RosterRemote).  A behaviour is one of *)
(* a single component, "part", while the others rest in their initial      *)
(* states.                                                                 *)
(***************************************************************************)
EXTENDS Roster, TLC

CONSTANTS c1, c2

VARIABLES
  part,
  store, line, session, cache, opened,
  account, half, request, link, shown, ops, losses, settled

syncVars == <<store, line, session, cache, opened>>
remoteVars == <<account, half, request, link, shown, ops, losses, settled>>
all == <<part, vars, syncVars, remoteVars>>

\* Two clients, one of which uses versions; a mailbox of one stanza.
S == INSTANCE RosterSync WITH
       Clients <- {c1, c2}, Versioned <- {c1}, Capacity <- 1, MaxVersion <- 2,
       MaxSessions <- 2

\* Two servers that lose one of each other's stanzas.
R == INSTANCE RosterRemote WITH
       MaxOps <- 7, MaxLosses <- 1, item <- half, pending <- request

ASSUME S!RosterSyncAssumption /\ R!BoundsAssumption

SuiteInit == part \in {"roster", "sync", "remote"} /\ Init /\ S!Init /\ R!Init

RosterStep == part = "roster" /\ Next /\ UNCHANGED <<part, syncVars, remoteVars>>
SyncStep == part = "sync" /\ S!Next /\ UNCHANGED <<part, vars, remoteVars>>
RemoteStep == part = "remote" /\ R!Next /\ UNCHANGED <<part, vars, syncVars>>

\* The sessions of the clients and the wishes of the users are bounded.
Ended == part \in {"sync", "remote"} /\ UNCHANGED all

SuiteNext == RosterStep \/ SyncStep \/ RemoteStep \/ Ended

SuiteSpec == SuiteInit /\ [][SuiteNext]_all

Symmetry == Permutations(Accounts)

-----------------------------------------------------------------------------
(* Clients hold what their version says and, once everything for them is   *)
(* written, the stored roster (roster/mod.rs get and push_change).         *)
CopiesAreTrue == S!TypeOK /\ S!CopiesAreTrue

(* The halves of a subscription that two servers keep agree wherever the   *)
(* stanzas that would make them agree have arrived                         *)
(* (roster/subscription.rs).                                               *)
HalvesAgree == R!HalvesAgree
=============================================================================
