--------------------------- MODULE MCCertificates ---------------------------
(***************************************************************************)
(* Certificates of the server and of its peers: Acme with crashes, and the *)
(* cache of revocation lists, twice.  A behaviour is one of a single       *)
(* instance, "part", while the other component rests in an initial state.  *)
(***************************************************************************)
EXTENDS Naturals, Sequences, TLC

CONSTANTS None, h1, k1, k2, u1, u2, u3, other, v1, v2, l1, l2, l3, l4

VARIABLES
  part,
  up, profile, disk, acct, queue, copy, ready, ajob, job, served, chal, ca, since, corrupt,
  now, entries, bytes, full, downloads, started, check, verdict

acmeVars == <<up, profile, disk, acct, queue, copy, ready, ajob, job, served, chal, ca, since,
              corrupt>>
crlVars == <<now, entries, bytes, full, downloads, started, check, verdict>>
all == <<part, acmeVars, crlVars>>

\* One host whose profile may change; the process may be killed at any time.
A == INSTANCE Acme WITH
       Hosts <- {h1}, Keys <- {k1, k2}, Urls <- {u1}, Profiles <- {v1, v2},
       Life <- 2, RenewIn <- 1, AriEvery <- 1, OrderLife <- 1, MaxDelay <- 2,
       Crashes <- TRUE

List(this, next, number, cost, revokes, signed) ==
  [this |-> this, next |-> next, number |-> number, cost |-> cost,
   revokes |-> revokes, signed |-> signed]

\* Two links with the same distribution point, which serves an old list or a
\* newer one.
Shared == INSTANCE CrlCache WITH
       Url <- {u1}, Link <- {l1, l2}, Points <- [l \in {l1, l2} |-> <<<<other, u1, u1>>>>],
       Lists <- {List(0, 1, 1, 1, "nothing", FALSE), List(1, 4, 2, 1, "nothing", TRUE)},
       Policy <- "any", Hosts <- {{"reserved"}}, HttpErrors <- {"status"},
       PerCertificate <- 4, PerPath <- 8, MaxCost <- 2, Refresh <- 1, StaleGrace <- 1,
       RetryUnit <- 1, RetryMax <- 4, Wait <- 1, MaxEntries <- 1, MaxBytes <- 2,
       MaxTime <- 3, MaxDownloads <- 3, MaxTokens <- 2, MaxChecks <- 3

\* Three distribution points, lists of cost 1 and 2, and less room than two of
\* them may need.
Room == INSTANCE CrlCache WITH
       Url <- {u1, u2, u3}, Link <- {l3, l4},
       Points <- (l3 :> <<<<u1>>, <<u2>>>>) @@ (l4 :> <<<<u3, u1>>, <<>>>>),
       Lists <- {List(0, 2, 0, 1, "hold", TRUE), List(0, 4, 0, 2, "nothing", TRUE)},
       Policy <- "public_only", Hosts <- {{"public"}, {"reserved"}}, HttpErrors <- {},
       PerCertificate <- 1, PerPath <- 2, MaxCost <- 2, Refresh <- 1, StaleGrace <- 1,
       RetryUnit <- 1, RetryMax <- 4, Wait <- 1, MaxEntries <- 2, MaxBytes <- 2,
       MaxTime <- 1, MaxDownloads <- 3, MaxTokens <- 3, MaxChecks <- 3

ASSUME A!AcmeAssumption /\ Shared!CacheAssumption /\ Room!CacheAssumption

SuiteInit ==
  /\ part \in {"acme", "shared", "room"}
  /\ A!Init
  /\ IF part = "room" THEN Room!Init ELSE Shared!Init
  /\ part # "acme" => profile = v1

AcmeStep == part = "acme" /\ A!Next /\ UNCHANGED <<part, crlVars>>
SharedStep == part = "shared" /\ Shared!Next /\ UNCHANGED <<part, acmeVars>>
RoomStep == part = "room" /\ Room!Next /\ UNCHANGED <<part, acmeVars>>

\* Checks and the time they take are bounded.
Ended == part # "acme" /\ UNCHANGED all

SuiteSpec == SuiteInit /\ [][AcmeStep \/ SharedStep \/ RoomStep \/ Ended]_all

\* l3 and l4 have different distribution points and cannot be exchanged.
Symmetry == Permutations({k1, k2}) \cup Permutations({v1, v2}) \cup Permutations({l1, l2})

-----------------------------------------------------------------------------
(* What is stored, what is in memory and what is served agree as far as    *)
(* they must, also after a crash, and failed attempts are spaced           *)
(* (acme/store, acme/manager, acme/schedule).                              *)
RecordsAgree == A!RecordsAgree /\ A!Paced

(* An entry waits exactly for the download started for it, a link in use   *)
(* learns of every new list that concerns it, and the cache keeps to its   *)
(* limits and counts what it holds (revocation/cache: lookup, sweep,       *)
(* evict, complete).                                                       *)
ListsReach ==
  CASE part = "shared" -> Shared!PendingIsServed /\ Shared!NewsReaches
    [] part = "room" -> Room!Budget
    [] OTHER -> TRUE
=============================================================================
