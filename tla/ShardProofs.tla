---------------------------- MODULE ShardProofs ----------------------------
(***************************************************************************)
(* The properties of Shard, for any number of resources and registrations, *)
(* mailboxes of any capacity and any limit on the sessions of an account.  *)
(*                                                                         *)
(* An operation is a chain of sends and removals. What a chain keeps is    *)
(* stated once, of two shards a and b: b follows from a. Each link of the  *)
(* chain then has a lemma of its own, and an action is a few of them. What *)
(* a chain loses is accounted for in the same way: a session falls with    *)
(* others only because their announcements do not fit in its mailbox.      *)
(***************************************************************************)
EXTENDS Shard, TLAPS, FiniteSetTheorems

-----------------------------------------------------------------------------
(* What the proofs need of a shard *)

\* No two sessions have the same token.
Distinct(sh) ==
  \A r, q \in Bound(sh) : sh.sessions[r].token = sh.sessions[q].token => r = q

Counted(sh) == sh.count = Cardinality(Bound(sh))

\* The live and available sessions know their available siblings, those
\* outside R at least.
Knowing(sh, R) ==
  \A r \in (Live(sh) \cap Available(sh)) \ R :
    sh.sessions[r].known = TokensOf(sh, Available(sh) \ {r})

Past(sh) == sh.lastUnavailable => Available(sh) = {}

Sound(sh) == sh \in Shards /\ Distinct(sh) /\ Counted(sh)

\* b comes from a without a registration: sessions go or stay where they are,
\* and a stream that waits is told when its session dies.
Follows(a, b) ==
  /\ \A r \in Bound(b) : r \in Bound(a) /\ b.sessions[r].token = a.sessions[r].token
  /\ b.alive \subseteq a.alive
  /\ a.reported \subseteq b.reported
  /\ b.retiring \subseteq a.retiring \cup TokensOf(a, Bound(a))
  /\ b.terminated = a.terminated
  /\ \A t \in Held : t \in a.alive /\ t \notin b.alive => t \in b.reported

-----------------------------------------------------------------------------
(* Sessions and their tokens *)

LEMMA NoneIsNoSession == None \notin Sessions
<1> SUFFICES ASSUME None \in Sessions PROVE FALSE
  OBVIOUS
<1>1. None \in [token : Nat, box : Nat, available : BOOLEAN, tagged : BOOLEAN,
                known : SUBSET Nat]
  <2>1. Tokens \subseteq Nat /\ 0 .. Capacity \subseteq Nat
    BY ShardAssumption DEF Tokens
  <2> QED
    BY <2>1 DEF Sessions
<1> QED
  BY <1>1, ShardAssumption

LEMMA BoundIsSession ==
  ASSUME NEW sh \in Shards, NEW r \in Bound(sh)
  PROVE  /\ r \in Resources
         /\ sh.sessions[r] \in Sessions
         /\ sh.sessions[r].token \in Tokens
         /\ sh.sessions[r].box \in 0 .. Capacity
         /\ sh.sessions[r].available \in BOOLEAN
         /\ sh.sessions[r].known \subseteq Tokens
  BY DEF Shards, Bound, Sessions

LEMMA BoundIsFinite ==
  ASSUME NEW sh, NEW R \in SUBSET Bound(sh)
  PROVE  IsFiniteSet(R) /\ Cardinality(R) \in Nat
  <1>1. R \in SUBSET Resources
    BY DEF Bound
  <1> QED
    BY <1>1, ShardAssumption, FS_Subset, FS_CardinalityType

-----------------------------------------------------------------------------
(* The sessions that fall *)

\* The sessions that are told of a removal, and what makes a set of removed
\* sessions complete.
Hearers(sh) == Live(sh) \cap Available(sh)

Complete(sh, R) ==
  \A r \in Hearers(sh) \ R :
    sh.sessions[r].box + Cardinality(R \cap Available(sh)) <= Capacity

Complements(sh, targets) ==
  {R \in {targets \cup M : M \in SUBSET (Hearers(sh) \ targets)} : Complete(sh, R)}

LEMMA FallsLeast ==
  ASSUME NEW sh \in Shards, NEW targets \in SUBSET Bound(sh)
  PROVE  /\ Falls(sh, targets) \in Complements(sh, targets)
         /\ \A R \in Complements(sh, targets) : Falls(sh, targets) \subseteq R
  <1> DEFINE closed == Complements(sh, targets)
             all == {r \in targets \cup Hearers(sh) : \A R \in closed : r \in R}
  <1>1. Falls(sh, targets) = CHOOSE R \in closed : \A other \in closed : R \subseteq other
    BY DEF Falls, Complements, Complete, Hearers
  <1>2. \A R \in closed : targets \subseteq R /\ R \subseteq targets \cup Hearers(sh)
    BY DEF Complements
  <1>3. all \in closed
    <2>1. all = targets \cup (all \ targets) /\ all \ targets \in SUBSET (Hearers(sh) \ targets)
      BY <1>2
    <2>2. ASSUME NEW r \in Hearers(sh) \ all
          PROVE  sh.sessions[r].box + Cardinality(all \cap Available(sh)) <= Capacity
      <3>1. PICK R \in closed : r \notin R
        BY <2>2
      <3>2. sh.sessions[r].box + Cardinality(R \cap Available(sh)) <= Capacity
        BY <3>1, <2>2 DEF Complements, Complete
      <3>3. R \cap Available(sh) \in SUBSET Bound(sh)
        BY DEF Available
      <3>4. all \cap Available(sh) \in SUBSET (R \cap Available(sh))
        OBVIOUS
      <3>5. IsFiniteSet(R \cap Available(sh)) /\ Cardinality(R \cap Available(sh)) \in Nat
        BY <3>3, BoundIsFinite
      <3>6. /\ Cardinality(all \cap Available(sh)) <= Cardinality(R \cap Available(sh))
            /\ IsFiniteSet(all \cap Available(sh))
        BY <3>4, <3>5, FS_Subset
      <3>7. Cardinality(all \cap Available(sh)) \in Nat
        BY <3>6, FS_CardinalityType
      <3>8. sh.sessions[r].box \in Nat
        <4>1. r \in Bound(sh)
          BY <2>2 DEF Hearers, Live
        <4> QED
          BY <4>1, BoundIsSession, ShardAssumption
      <3> HIDE DEF all
      <3> QED
        BY <3>2, <3>5, <3>6, <3>7, <3>8, ShardAssumption
    <2>3. Complete(sh, all)
      BY <2>2 DEF Complete
    <2> HIDE DEF all
    <2> QED
      BY <2>1, <2>3 DEF Complements
  <1>4. \A other \in closed : all \subseteq other
    OBVIOUS
  <1> HIDE DEF closed, all
  <1>5. /\ Falls(sh, targets) \in closed
        /\ \A other \in closed : Falls(sh, targets) \subseteq other
    BY <1>1, <1>3, <1>4
  <1> QED
    BY <1>5 DEF closed

LEMMA FallsProperties ==
  ASSUME NEW sh \in Shards, NEW targets \in SUBSET Bound(sh)
  PROVE  /\ targets \subseteq Falls(sh, targets)
         /\ Falls(sh, targets) \subseteq Bound(sh)
         /\ Complete(sh, Falls(sh, targets))
  <1>1. Falls(sh, targets) \in Complements(sh, targets)
    BY FallsLeast
  <1>2. Hearers(sh) \subseteq Bound(sh)
    BY DEF Hearers, Live
  <1> QED
    BY <1>1, <1>2 DEF Complements

-----------------------------------------------------------------------------
(* Removal *)

\* A session that stays, after the ones that fall were announced to it.
Left(sh, fallen, r) ==
  IF r \in fallen THEN None
  ELSE IF r \in Hearers(sh)
    THEN [sh.sessions[r] EXCEPT
            !.box = @ + Cardinality(fallen \cap Available(sh)),
            !.known = @ \ TokensOf(sh, fallen \cap Available(sh))]
    ELSE sh.sessions[r]

\* The shard a removal leaves, field by field.
Remains(sh, fallen, recorded) ==
  [sessions |-> [r \in Resources |-> Left(sh, fallen, r)],
   retiring |-> sh.retiring \cup TokensOf(sh, fallen \cap Available(sh)),
   lastUnavailable |-> sh.lastUnavailable \/ (recorded /\ Available(sh) # {}
                         /\ Available(sh) \subseteq fallen),
   count |-> sh.count - Cardinality(fallen),
   terminated |-> sh.terminated,
   alive |-> sh.alive \ TokensOf(sh, fallen),
   reported |-> sh.reported \cup (TokensOf(sh, fallen) \cap Held)]

LEMMA RemoveFields ==
  ASSUME NEW sh \in Shards, NEW targets, targets # {}, NEW recorded \in BOOLEAN
  PROVE  Remove(sh, targets, recorded) = Remains(sh, Falls(sh, targets), recorded)
  BY DEF Remove, RemoveCount, Remains, Left, Hearers, Shards

\* What a session becomes when some of its siblings fall.
LEMMA LeftSession ==
  ASSUME NEW sh \in Shards, NEW targets \in SUBSET Bound(sh), NEW r \in Resources
  PROVE  LET fallen == Falls(sh, targets)
             left == Left(sh, fallen, r)
         IN  /\ left \in Sessions \cup {None}
             /\ left # None <=> r \in Bound(sh) \ fallen
             /\ r \in Bound(sh) \ fallen =>
                  /\ left.token = sh.sessions[r].token
                  /\ left.available = sh.sessions[r].available
                  /\ left.tagged = sh.sessions[r].tagged
                  /\ r \in Hearers(sh) =>
                       /\ left.box = sh.sessions[r].box + Cardinality(fallen \cap Available(sh))
                       /\ left.known = sh.sessions[r].known
                                         \ TokensOf(sh, fallen \cap Available(sh))
                  /\ r \notin Hearers(sh) => left = sh.sessions[r]
  <1> DEFINE fallen == Falls(sh, targets)
             left == Left(sh, fallen, r)
             n == Cardinality(fallen \cap Available(sh))
             news == TokensOf(sh, fallen \cap Available(sh))
  <1>1. fallen \subseteq Bound(sh) /\ Complete(sh, fallen)
    BY FallsProperties
  <1>2. n \in Nat
    <2>1. fallen \cap Available(sh) \in SUBSET Bound(sh)
      BY <1>1
    <2> QED
      BY <2>1, BoundIsFinite
  <1>3. CASE r \notin Bound(sh) \/ r \in fallen
    <2>1. r \notin Bound(sh) => sh.sessions[r] = None /\ r \notin Hearers(sh) /\ r \notin fallen
      BY <1>1 DEF Bound, Hearers, Live
    <2>2. left = None
      BY <2>1, <1>3 DEF Left
    <2> QED
      BY <2>2, <1>3
  <1>4. CASE r \in Bound(sh) \ fallen /\ r \notin Hearers(sh)
    <2>1. left = sh.sessions[r]
      BY <1>4 DEF Left
    <2>2. left \in Sessions
      BY <2>1, <1>4, BoundIsSession
    <2> QED
      BY <2>1, <2>2, <1>4, NoneIsNoSession
  <1>5. CASE r \in Bound(sh) \ fallen /\ r \in Hearers(sh)
    <2> DEFINE s == sh.sessions[r]
    <2>1. s \in Sessions
      BY <1>5, BoundIsSession
    <2>2. left = [s EXCEPT !.box = s.box + n, !.known = s.known \ news]
      BY <1>5 DEF Left
    <2>3. s.box + n <= Capacity
      BY <1>1, <1>5 DEF Complete
    <2> HIDE DEF s, left, n, news
    <2>4. s.box + n \in 0 .. Capacity
      BY <2>1, <2>3, <1>2, ShardAssumption DEF Sessions
    <2>5. /\ left \in Sessions
          /\ left.token = s.token /\ left.available = s.available /\ left.tagged = s.tagged
          /\ left.box = s.box + n /\ left.known = s.known \ news
      BY <2>1, <2>2, <2>4 DEF Sessions
    <2> QED
      BY <2>5, <1>5, NoneIsNoSession DEF s, left, n, news
  <1> QED
    BY <1>3, <1>4, <1>5

\* What a removal leaves, read off the shard it leaves.
LEMMA RemoveReads ==
  ASSUME NEW sh \in Shards, NEW targets \in SUBSET Bound(sh), targets # {},
         NEW recorded \in BOOLEAN
  PROVE  LET fallen == Falls(sh, targets)
             b == Remove(sh, targets, recorded)
         IN  /\ \A r \in Resources : b.sessions[r] = Left(sh, fallen, r)
             /\ Bound(b) = Bound(sh) \ fallen
             /\ Available(b) = Available(sh) \ fallen
             /\ Tagged(b) = Tagged(sh) \ fallen
             /\ \A r \in Bound(b) : b.sessions[r].token = sh.sessions[r].token
             /\ \A R \in SUBSET Bound(b) : TokensOf(b, R) = TokensOf(sh, R)
             /\ Distinct(sh) => Live(b) = Live(sh) \ fallen
  <1> DEFINE fallen == Falls(sh, targets)
             b == Remove(sh, targets, recorded)
  <1>0. b = Remains(sh, fallen, recorded)
    BY RemoveFields
  <1> HIDE DEF b
  <1>1. \A r \in Resources : b.sessions[r] = Left(sh, fallen, r)
    BY <1>0 DEF Remains
  <1>2. b.alive = sh.alive \ TokensOf(sh, fallen)
    BY <1>0 DEF Remains
  <1>3. fallen \subseteq Bound(sh) /\ Bound(sh) \subseteq Resources
    BY FallsProperties DEF Bound
  <1>10. ASSUME NEW r \in Resources
         PROVE  /\ Left(sh, fallen, r) # None <=> r \in Bound(sh) \ fallen
                /\ r \in Bound(sh) \ fallen =>
                     /\ Left(sh, fallen, r).token = sh.sessions[r].token
                     /\ Left(sh, fallen, r).available = sh.sessions[r].available
                     /\ Left(sh, fallen, r).tagged = sh.sessions[r].tagged
    BY LeftSession
  <1> HIDE DEF fallen
  <1>4. \A r \in Resources : b.sessions[r] # None <=> r \in Bound(sh) \ fallen
    BY <1>1, <1>10
  <1>5. \A r \in Bound(sh) \ fallen : /\ b.sessions[r].token = sh.sessions[r].token
                                      /\ b.sessions[r].available = sh.sessions[r].available
                                      /\ b.sessions[r].tagged = sh.sessions[r].tagged
    BY <1>1, <1>3, <1>10
  <1>6. Bound(b) = Bound(sh) \ fallen
    BY <1>3, <1>4 DEF Bound
  <1>7. Available(b) = Available(sh) \ fallen /\ Tagged(b) = Tagged(sh) \ fallen
    BY <1>5, <1>6 DEF Available, Tagged
  <1>8. \A R \in SUBSET Bound(b) : TokensOf(b, R) = TokensOf(sh, R)
    BY <1>5, <1>6 DEF TokensOf
  <1>9. Distinct(sh) => Live(b) = Live(sh) \ fallen
    <2> SUFFICES ASSUME Distinct(sh) PROVE Live(b) = Live(sh) \ fallen
      OBVIOUS
    <2>1. \A r \in Bound(sh) \ fallen : sh.sessions[r].token \notin TokensOf(sh, fallen)
      BY <1>3 DEF Distinct, TokensOf
    <2> QED
      BY <2>1, <1>2, <1>5, <1>6 DEF Live
  <1> QED
    BY <1>1, <1>5, <1>6, <1>7, <1>8, <1>9 DEF b, fallen

\* A removal leaves a sound shard, without the sessions it was for.
LEMMA RemoveSound ==
  ASSUME NEW sh, Sound(sh), NEW targets \in SUBSET Bound(sh), NEW recorded \in BOOLEAN
  PROVE  LET b == Remove(sh, targets, recorded)
         IN  /\ Sound(b)
             /\ Bound(b) \subseteq Bound(sh) \ targets
             /\ Available(b) \subseteq Available(sh)
             /\ Follows(sh, b)
             /\ Knowing(sh, targets) => Knowing(b, {})
             /\ Past(sh) => Past(b)
  <1> DEFINE b == Remove(sh, targets, recorded)
             fallen == Falls(sh, targets)
  <1>1. CASE targets = {}
    <2>1. b = sh
      BY <1>1 DEF Remove
    <2> HIDE DEF b
    <2>2. Follows(sh, b)
      BY <2>1 DEF Follows
    <2> QED
      BY <2>1, <2>2, <1>1 DEF b, Knowing
  <1>2. CASE targets # {}
    <2>1. sh \in Shards
      BY DEF Sound
    <2>2. targets \subseteq fallen /\ fallen \subseteq Bound(sh) /\ Bound(sh) \subseteq Resources
      BY <2>1, FallsProperties DEF Bound
    <2>3. /\ \A r \in Resources : b.sessions[r] = Left(sh, fallen, r)
          /\ Bound(b) = Bound(sh) \ fallen
          /\ Available(b) = Available(sh) \ fallen
          /\ \A r \in Bound(b) : b.sessions[r].token = sh.sessions[r].token
          /\ \A R \in SUBSET Bound(b) : TokensOf(b, R) = TokensOf(sh, R)
          /\ Live(b) = Live(sh) \ fallen
      BY <2>1, <1>2, RemoveReads DEF Sound
    <2>4. b = Remains(sh, fallen, recorded)
      BY <2>1, <1>2, RemoveFields
    <2> HIDE DEF b, fallen
    <2>5. TokensOf(sh, fallen) \subseteq Tokens
          /\ TokensOf(sh, fallen \cap Available(sh)) \subseteq TokensOf(sh, Bound(sh)) \cap Tokens
      BY <2>1, <2>2, BoundIsSession DEF TokensOf
    <2>6. b.count = Cardinality(Bound(b)) /\ b.count \in 0 .. Limit
      <3>1. /\ IsFiniteSet(Bound(sh)) /\ Cardinality(Bound(sh)) \in Nat
            /\ IsFiniteSet(fallen) /\ Cardinality(fallen) \in Nat
            /\ IsFiniteSet(Bound(b)) /\ Cardinality(Bound(b)) \in Nat
        BY <2>2, BoundIsFinite
      <3>2. Bound(b) \cup fallen = Bound(sh) /\ Bound(b) \cap fallen = {}
        BY <2>2, <2>3
      <3>3. Cardinality(Bound(sh)) = Cardinality(Bound(b)) + Cardinality(fallen) - 0
        BY <3>1, <3>2, FS_Union, FS_EmptySet
      <3>4. b.count = sh.count - Cardinality(fallen)
        BY <2>4 DEF Remains
      <3>5. sh.count = Cardinality(Bound(sh)) /\ sh.count \in 0 .. Limit
        BY DEF Sound, Counted, Shards
      <3> QED
        BY <3>1, <3>3, <3>4, <3>5, ShardAssumption
    <2>7. b \in Shards
      <3>1. \A r \in Resources : Left(sh, fallen, r) \in Sessions \cup {None}
        BY <2>1, LeftSession DEF fallen
      <3>2. b.sessions \in [Resources -> Sessions \cup {None}]
        BY <3>1, <2>4 DEF Remains
      <3>3. /\ b.retiring \in SUBSET Tokens /\ b.alive \in SUBSET Tokens
            /\ b.reported \in SUBSET Tokens
        BY <2>1, <2>4, <2>5 DEF Shards, Remains
      <3>4. b.lastUnavailable \in BOOLEAN /\ b.terminated \in BOOLEAN
        BY <2>1, <2>4 DEF Shards, Remains
      <3> QED
        BY <3>2, <3>3, <3>4, <2>4, <2>6 DEF Shards, Remains
    <2>8. Distinct(b)
      BY <2>3 DEF Sound, Distinct
    <2>9. Follows(sh, b)
      <3>1. \A t \in Held : t \in sh.alive /\ t \notin b.alive => t \in b.reported
        BY <2>4 DEF Remains
      <3> QED
        BY <3>1, <2>3, <2>4, <2>5 DEF Follows, Remains
    <2>10. ASSUME Knowing(sh, targets) PROVE Knowing(b, {})
      <3> SUFFICES ASSUME NEW r \in Live(b) \cap Available(b)
                   PROVE  b.sessions[r].known = TokensOf(b, Available(b) \ {r})
        BY DEF Knowing
      <3>1. r \in Hearers(sh) /\ r \notin fallen /\ r \in Bound(b)
        BY <2>3 DEF Hearers, Live
      <3>2. sh.sessions[r].known = TokensOf(sh, Available(sh) \ {r})
        BY <3>1, <2>2, <2>10 DEF Knowing, Hearers
      <3>3. b.sessions[r].known = sh.sessions[r].known \ TokensOf(sh, fallen \cap Available(sh))
        BY <3>1, <2>1, <2>2, <2>3, LeftSession DEF fallen
      <3>4. TokensOf(b, Available(b) \ {r}) = TokensOf(sh, Available(b) \ {r})
        BY <2>3 DEF Available
      <3>5. TokensOf(sh, Available(sh) \ {r}) \ TokensOf(sh, fallen \cap Available(sh))
              = TokensOf(sh, (Available(sh) \ fallen) \ {r})
        BY DEF Sound, Distinct, TokensOf, Available
      <3> QED
        BY <3>2, <3>3, <3>4, <3>5, <2>3
    <2>11. ASSUME Past(sh) PROVE Past(b)
      BY <2>3, <2>4, <2>11 DEF Past, Remains
    <2> QED
      BY <2>2, <2>3, <2>6, <2>7, <2>8, <2>9, <2>10, <2>11 DEF Sound, Counted, b
  <1> QED
    BY <1>1, <1>2

-----------------------------------------------------------------------------
(* Chains of changes *)

LEMMA FollowsItself == ASSUME NEW a PROVE Follows(a, a)
  BY DEF Follows

LEMMA FollowsChain ==
  ASSUME NEW a, NEW b, NEW c, Follows(a, b), Follows(b, c)
  PROVE  Follows(a, c)
  <1>1. TokensOf(b, Bound(b)) \subseteq TokensOf(a, Bound(a))
    BY DEF Follows, TokensOf
  <1>2. \A t \in Held : t \in a.alive /\ t \notin c.alive => t \in c.reported
    BY DEF Follows
  <1> QED
    BY <1>1, <1>2 DEF Follows

\* What is read of the sessions depends on the sessions and the living alone.
LEMMA SameSessions ==
  ASSUME NEW a, NEW b, b.sessions = a.sessions
  PROVE  /\ Bound(b) = Bound(a) /\ Available(b) = Available(a) /\ Tagged(b) = Tagged(a)
         /\ Full(b) = Full(a)
         /\ \A R : TokensOf(b, R) = TokensOf(a, R)
         /\ Distinct(b) <=> Distinct(a)
         /\ b.alive = a.alive => /\ Live(b) = Live(a)
                                 /\ \A R : Knowing(b, R) <=> Knowing(a, R)
  <1>1. /\ Bound(b) = Bound(a) /\ Available(b) = Available(a) /\ Tagged(b) = Tagged(a)
        /\ Full(b) = Full(a)
        /\ \A R : TokensOf(b, R) = TokensOf(a, R)
    BY DEF Bound, Available, Tagged, Full, TokensOf
  <1>2. Distinct(b) <=> Distinct(a)
    BY <1>1 DEF Distinct
  <1>3. b.alive = a.alive => Live(b) = Live(a)
    BY <1>1 DEF Live
  <1>4. b.alive = a.alive => \A R : Knowing(b, R) <=> Knowing(a, R)
    BY <1>1, <1>3 DEF Knowing
  <1> QED
    BY <1>1, <1>2, <1>3, <1>4

\* f writes the sessions of a anew, each with the token it had.
Rewrites(a, f) ==
  /\ f \in [Resources -> Sessions \cup {None}]
  /\ \A r \in Resources : f[r] = None <=> a.sessions[r] = None
  /\ \A r \in Bound(a) : f[r].token = a.sessions[r].token

LEMMA RewriteSound ==
  ASSUME NEW a, Sound(a), NEW f, Rewrites(a, f)
  PROVE  LET b == [a EXCEPT !.sessions = f]
         IN  /\ Sound(b) /\ Follows(a, b)
             /\ Bound(b) = Bound(a) /\ Live(b) = Live(a)
             /\ \A R \in SUBSET Bound(a) : TokensOf(b, R) = TokensOf(a, R)
             /\ b.sessions = f /\ b.lastUnavailable = a.lastUnavailable
             /\ b.alive = a.alive /\ b.retiring = a.retiring /\ b.reported = a.reported
             /\ b.terminated = a.terminated
  <1> DEFINE b == [a EXCEPT !.sessions = f]
  <1>1. /\ b \in Shards /\ b.sessions = f /\ b.count = a.count
        /\ b.lastUnavailable = a.lastUnavailable
        /\ b.alive = a.alive /\ b.retiring = a.retiring /\ b.reported = a.reported
        /\ b.terminated = a.terminated
    BY DEF Sound, Shards, Rewrites
  <1> HIDE DEF b
  <1>2. Bound(b) = Bound(a)
    BY <1>1 DEF Bound, Rewrites
  <1>3. \A r \in Bound(b) : b.sessions[r].token = a.sessions[r].token
    BY <1>1, <1>2 DEF Rewrites
  <1>4. Live(b) = Live(a) /\ \A R \in SUBSET Bound(a) : TokensOf(b, R) = TokensOf(a, R)
    BY <1>1, <1>2, <1>3 DEF Live, TokensOf
  <1>5. Distinct(b) /\ Counted(b)
    BY <1>1, <1>2, <1>3 DEF Sound, Distinct, Counted
  <1>6. Follows(a, b)
    BY <1>1, <1>2, <1>3 DEF Follows
  <1> QED
    BY <1>1, <1>2, <1>4, <1>5, <1>6 DEF b, Sound

\* The retired presence may be forgotten, and the time of the last
\* unavailability set anew.
LEMMA ForgetSound ==
  ASSUME NEW a, Sound(a), NEW gone
  PROVE  LET b == [a EXCEPT !.retiring = @ \ gone]
         IN  /\ Sound(b) /\ Follows(a, b) /\ b.retiring = a.retiring \ gone
             /\ b.sessions = a.sessions /\ b.alive = a.alive
             /\ b.lastUnavailable = a.lastUnavailable
             /\ b.reported = a.reported /\ b.terminated = a.terminated
  <1> DEFINE b == [a EXCEPT !.retiring = @ \ gone]
  <1>1. /\ b \in Shards /\ b.retiring = a.retiring \ gone
        /\ b.sessions = a.sessions /\ b.alive = a.alive /\ b.count = a.count
        /\ b.lastUnavailable = a.lastUnavailable
        /\ b.reported = a.reported /\ b.terminated = a.terminated
    BY DEF Sound, Shards
  <1> HIDE DEF b
  <1>2. Sound(b)
    BY <1>1, SameSessions DEF Sound, Counted
  <1>3. Follows(a, b)
    BY <1>1, SameSessions DEF Follows
  <1> QED
    BY <1>1, <1>2, <1>3 DEF b

LEMMA TimeSound ==
  ASSUME NEW a, Sound(a), NEW time \in BOOLEAN
  PROVE  LET b == [a EXCEPT !.lastUnavailable = time]
         IN  /\ Sound(b) /\ Follows(a, b) /\ b.lastUnavailable = time
             /\ b.sessions = a.sessions /\ b.alive = a.alive /\ b.retiring = a.retiring
             /\ b.reported = a.reported /\ b.terminated = a.terminated
  <1> DEFINE b == [a EXCEPT !.lastUnavailable = time]
  <1>1. /\ b \in Shards /\ b.lastUnavailable = time /\ b.count = a.count
        /\ b.sessions = a.sessions /\ b.alive = a.alive /\ b.retiring = a.retiring
        /\ b.reported = a.reported /\ b.terminated = a.terminated
    BY DEF Sound, Shards
  <1> HIDE DEF b
  <1>2. Sound(b)
    BY <1>1, SameSessions DEF Sound, Counted
  <1>3. Follows(a, b)
    BY <1>1, SameSessions DEF Follows
  <1> QED
    BY <1>1, <1>2, <1>3 DEF b

-----------------------------------------------------------------------------
(* Cleanups and sends *)

\* Deferred cleanups leave nothing of what they name.
LEMMA CleanedSound ==
  ASSUME NEW sh, Sound(sh), NEW cleanups
  PROVE  LET b == Cleaned(sh, cleanups)
         IN  /\ Sound(b) /\ Follows(sh, b)
             /\ \A r \in Bound(b) : <<r, b.sessions[r].token>> \notin cleanups
             /\ \A c \in cleanups : c[2] \notin b.retiring
             /\ Available(b) \subseteq Available(sh)
             /\ Knowing(sh, {}) => Knowing(b, {})
             /\ Past(sh) => Past(b)
  <1> DEFINE targets == {r \in Bound(sh) : <<r, sh.sessions[r].token>> \in cleanups}
             removed == Remove(sh, targets, TRUE)
             names == {c[2] : c \in cleanups}
             b == [removed EXCEPT !.retiring = @ \ names]
  <1>1. Cleaned(sh, cleanups) = b
    BY DEF Cleaned
  <1>2. /\ Sound(removed) /\ Bound(removed) \subseteq Bound(sh) \ targets
        /\ Available(removed) \subseteq Available(sh)
        /\ Follows(sh, removed)
        /\ Knowing(sh, targets) => Knowing(removed, {})
        /\ Past(sh) => Past(removed)
    BY RemoveSound
  <1>3. Knowing(sh, {}) => Knowing(sh, targets)
    BY DEF Knowing
  <1> HIDE DEF targets, removed, names
  <1>4. /\ Sound(b) /\ Follows(removed, b) /\ b.sessions = removed.sessions
        /\ b.alive = removed.alive
        /\ b.lastUnavailable = removed.lastUnavailable
        /\ b.retiring = removed.retiring \ names
    BY <1>2, ForgetSound
  <1> HIDE DEF b
  <1>5. /\ Bound(b) = Bound(removed) /\ Available(b) = Available(removed)
        /\ Knowing(b, {}) <=> Knowing(removed, {})
    BY <1>4, SameSessions
  <1>6. \A r \in Bound(b) : <<r, b.sessions[r].token>> \notin cleanups
    <2>1. \A r \in Bound(removed) : removed.sessions[r].token = sh.sessions[r].token
      BY <1>2 DEF Follows
    <2> QED
      BY <2>1, <1>2, <1>4, <1>5 DEF targets
  <1>7. Follows(sh, b)
    BY <1>2, <1>4, FollowsChain
  <1>8. Past(sh) => Past(b)
    BY <1>2, <1>4, <1>5 DEF Past
  <1>9. \A c \in cleanups : c[2] \notin b.retiring
    BY <1>4 DEF names
  <1> QED
    BY <1>1, <1>2, <1>3, <1>4, <1>5, <1>6, <1>7, <1>8, <1>9

\* A send to sessions that have room changes their mailboxes alone.
LEMMA QueuedSound ==
  ASSUME NEW sh, Sound(sh), NEW R \in SUBSET (Bound(sh) \ Full(sh))
  PROVE  LET b == Queued(sh, R)
         IN  /\ Sound(b) /\ Follows(sh, b)
             /\ Bound(b) = Bound(sh) /\ Live(b) = Live(sh) /\ Available(b) = Available(sh)
             /\ Tagged(b) = Tagged(sh)
             /\ \A Q \in SUBSET Bound(sh) : TokensOf(b, Q) = TokensOf(sh, Q)
             /\ \A r \in Bound(sh) : b.sessions[r].known = sh.sessions[r].known
             /\ \A Q : Knowing(b, Q) <=> Knowing(sh, Q)
             /\ b.lastUnavailable = sh.lastUnavailable /\ b.alive = sh.alive
             /\ b.reported = sh.reported
             /\ \A r \in Bound(sh) : b.sessions[r].box = sh.sessions[r].box
                                                         + (IF r \in R THEN 1 ELSE 0)
  <1> DEFINE f == [r \in Resources |-> IF r \in R THEN [sh.sessions[r] EXCEPT !.box = @ + 1]
                                                  ELSE sh.sessions[r]]
             b == [sh EXCEPT !.sessions = f]
  <1>1. Queued(sh, R) = b
    BY DEF Queued
  <1>2. sh \in Shards /\ Bound(sh) \subseteq Resources
    BY DEF Sound, Bound
  <1>3. ASSUME NEW r \in Bound(sh)
        PROVE  /\ f[r] \in Sessions
               /\ f[r].token = sh.sessions[r].token
               /\ f[r].available = sh.sessions[r].available
               /\ f[r].tagged = sh.sessions[r].tagged
               /\ f[r].known = sh.sessions[r].known
               /\ f[r].box = sh.sessions[r].box + (IF r \in R THEN 1 ELSE 0)
    <2> DEFINE s == sh.sessions[r]
    <2>1. s \in Sessions
      BY <1>2, <1>3, BoundIsSession
    <2>2. CASE r \in R
      <3>1. f[r] = [s EXCEPT !.box = s.box + 1]
        BY <2>2, <1>2, <1>3
      <3>2. ~(s.box >= Capacity)
        BY <2>2 DEF Full
      <3> HIDE DEF s, f
      <3> QED
        BY <2>1, <2>2, <3>1, <3>2, ShardAssumption DEF Sessions, s
    <2>3. CASE r \notin R
      <3>1. f[r] = s
        BY <2>3, <1>2, <1>3
      <3> HIDE DEF s, f
      <3> QED
        BY <2>1, <2>3, <3>1, ShardAssumption DEF Sessions, s
    <2> QED
      BY <2>2, <2>3
  <1>4. \A r \in Resources \ Bound(sh) : f[r] = None /\ sh.sessions[r] = None
    BY DEF Bound
  <1>5. f = [r \in Resources |-> f[r]]
    OBVIOUS
  <1> HIDE DEF f
  <1>6. Rewrites(sh, f)
    <2>1. \A r \in Bound(sh) : f[r] # None /\ sh.sessions[r] # None
      BY <1>3, NoneIsNoSession DEF Bound
    <2>2. \A r \in Resources : f[r] \in Sessions \cup {None}
      BY <1>3, <1>4
    <2> QED
      BY <1>2, <1>3, <1>4, <1>5, <2>1, <2>2 DEF Rewrites
  <1>7. /\ Sound(b) /\ Follows(sh, b) /\ Bound(b) = Bound(sh) /\ Live(b) = Live(sh)
        /\ \A Q \in SUBSET Bound(sh) : TokensOf(b, Q) = TokensOf(sh, Q)
        /\ b.sessions = f /\ b.lastUnavailable = sh.lastUnavailable /\ b.alive = sh.alive
        /\ b.reported = sh.reported
    BY <1>6, RewriteSound
  <1> HIDE DEF b
  <1>8. Available(b) = Available(sh) /\ Tagged(b) = Tagged(sh)
    BY <1>3, <1>7 DEF Available, Tagged
  <1>9. \A Q : Knowing(b, Q) <=> Knowing(sh, Q)
    <2>1. \A r \in Available(sh) : /\ b.sessions[r].known = sh.sessions[r].known
                                   /\ TokensOf(b, Available(b) \ {r})
                                        = TokensOf(sh, Available(sh) \ {r})
      BY <1>3, <1>7, <1>8 DEF Available
    <2> QED
      BY <2>1, <1>7, <1>8 DEF Knowing
  <1> QED
    BY <1>1, <1>3, <1>7, <1>8, <1>9

\* All that is said of a shard between two operations.
Fit(sh) == Sound(sh) /\ Knowing(sh, {}) /\ Past(sh)

LEMMA RemoveFit ==
  ASSUME NEW sh, Fit(sh), NEW targets \in SUBSET Bound(sh), NEW recorded \in BOOLEAN
  PROVE  /\ Fit(Remove(sh, targets, recorded))
         /\ Follows(sh, Remove(sh, targets, recorded))
  <1>1. Knowing(sh, targets)
    BY DEF Fit, Knowing
  <1> QED
    BY <1>1, RemoveSound DEF Fit

LEMMA CleanedFit ==
  ASSUME NEW sh, Fit(sh), NEW cleanups
  PROVE  Fit(Cleaned(sh, cleanups)) /\ Follows(sh, Cleaned(sh, cleanups))
  BY CleanedSound DEF Fit

LEMMA QueuedFit ==
  ASSUME NEW sh, Fit(sh), NEW R \in SUBSET (Bound(sh) \ Full(sh))
  PROVE  Fit(Queued(sh, R)) /\ Follows(sh, Queued(sh, R))
  <1> DEFINE b == Queued(sh, R)
  <1>1. /\ Sound(b) /\ Follows(sh, b) /\ Available(b) = Available(sh)
        /\ Knowing(b, {}) <=> Knowing(sh, {})
        /\ b.lastUnavailable = sh.lastUnavailable
    BY QueuedSound DEF Fit
  <1> HIDE DEF b
  <1>2. Fit(b) /\ Follows(sh, b)
    BY <1>1 DEF Fit, Past
  <1> QED
    BY <1>2 DEF b

LEMMA SentFit ==
  ASSUME NEW sh, Fit(sh), NEW R \in SUBSET Bound(sh)
  PROVE  Fit(Sent(sh, R)) /\ Follows(sh, Sent(sh, R))
  <1> DEFINE lost == (R \ Live(sh)) \cup ((R \cap Live(sh)) \cap Full(sh))
             queued == Queued(sh, R \ lost)
  <1>1. Sent(sh, R) = Remove(queued, lost, TRUE)
    BY DEF Sent
  <1>2. R \ lost \in SUBSET (Bound(sh) \ Full(sh)) /\ lost \in SUBSET Bound(sh)
    OBVIOUS
  <1> HIDE DEF lost
  <1>3. Fit(queued) /\ Follows(sh, queued) /\ Bound(queued) = Bound(sh)
    BY <1>2, QueuedFit, QueuedSound DEF Fit
  <1> HIDE DEF queued
  <1>4. Fit(Remove(queued, lost, TRUE)) /\ Follows(queued, Remove(queued, lost, TRUE))
    BY <1>2, <1>3, RemoveFit
  <1> QED
    BY <1>1, <1>3, <1>4, FollowsChain

-----------------------------------------------------------------------------
(* What is lost *)

\* The available sessions of a that b has not got.
Gone(a, b) == Available(a) \ Bound(b)

\* Whoever lives in a and not in b is excused, or has not the room for n stanzas
\* and for one presence of everyone who is gone.
Lost(a, b, n, X) ==
  \A r \in Live(a) \ Live(b) :
    r \in X \/ a.sessions[r].box + n + Cardinality(Gone(a, b) \ {r}) > Capacity

\* b comes from a by removals and n stanzas for each session: what is lost and
\* what is in a mailbox is accounted for.
Worn(a, b, n, X) ==
  /\ Follows(a, b)
  /\ Available(b) \subseteq Available(a)
  /\ Tagged(b) \subseteq Tagged(a)
  /\ Lost(a, b, n, X)
  /\ \A r \in Live(b) :
       b.sessions[r].box <= a.sessions[r].box + n + Cardinality(Gone(a, b))

\* A session that falls with others has no room for their announcements, those
\* of the others alone: without it the set would be complete, too.
LEMMA FallForCause ==
  ASSUME NEW sh \in Shards, NEW targets \in SUBSET Bound(sh),
         NEW r \in Falls(sh, targets) \ targets
  PROVE  /\ r \in Hearers(sh)
         /\ sh.sessions[r].box
              + Cardinality((Falls(sh, targets) \ {r}) \cap Available(sh)) > Capacity
  <1> DEFINE F == Falls(sh, targets)
             less == F \ {r}
             A == Available(sh)
  <1>1. /\ F \in Complements(sh, targets)
        /\ \A R \in Complements(sh, targets) : F \subseteq R
    BY FallsLeast
  <1>2. r \in F /\ r \notin targets
    OBVIOUS
  <1> HIDE DEF F
  <1>3. /\ targets \subseteq F /\ F \subseteq targets \cup Hearers(sh) /\ Complete(sh, F)
        /\ Hearers(sh) \subseteq Bound(sh)
    BY <1>1 DEF Complements, Hearers, Live
  <1>4. /\ IsFiniteSet(F \cap A) /\ Cardinality(F \cap A) \in Nat
        /\ Cardinality(less \cap A) \in Nat /\ Cardinality(less \cap A) <= Cardinality(F \cap A)
    <2>1. F \cap A \in SUBSET Bound(sh) /\ less \cap A \in SUBSET Bound(sh)
      BY DEF Available
    <2> QED
      BY <2>1, BoundIsFinite, FS_Subset
  <1>5. \A q \in Hearers(sh) : sh.sessions[q].box \in Nat
    BY <1>3, BoundIsSession, ShardAssumption
  <1>6. ASSUME sh.sessions[r].box + Cardinality(less \cap A) <= Capacity
        PROVE  FALSE
    <2>1. ASSUME NEW q \in Hearers(sh) \ less
          PROVE  sh.sessions[q].box + Cardinality(less \cap A) <= Capacity
      <3>1. CASE q = r
        BY <1>6, <3>1
      <3>2. CASE q # r
        <4>1. sh.sessions[q].box + Cardinality(F \cap A) <= Capacity
          BY <1>3, <2>1, <3>2 DEF Complete
        <4> QED
          BY <1>4, <1>5, <2>1, <4>1, ShardAssumption
      <3> QED
        BY <3>1, <3>2
    <2>2. Complete(sh, less)
      BY <2>1 DEF Complete
    <2>3. less = targets \cup (less \ targets) /\ less \ targets \in SUBSET (Hearers(sh) \ targets)
      BY <1>2, <1>3
    <2>4. less \in Complements(sh, targets)
      BY <2>2, <2>3 DEF Complements
    <2> QED
      BY <1>1, <1>2, <2>4
  <1>7. r \in Hearers(sh)
    BY <1>2, <1>3
  <1>8. sh.sessions[r].box + Cardinality(less \cap A) > Capacity
    BY <1>4, <1>5, <1>6, <1>7, ShardAssumption
  <1> QED
    BY <1>7, <1>8 DEF F

LEMMA GoneIsFinite ==
  ASSUME NEW a, NEW b, NEW S \in SUBSET Gone(a, b)
  PROVE  IsFiniteSet(S) /\ Cardinality(S) \in Nat
  <1>1. S \in SUBSET Bound(a)
    BY DEF Gone, Available
  <1> QED
    BY <1>1, BoundIsFinite

\* A removal takes its targets, and others for cause.
LEMMA RemoveWorn ==
  ASSUME NEW sh, Sound(sh), NEW targets \in SUBSET Bound(sh), NEW recorded \in BOOLEAN
  PROVE  Worn(sh, Remove(sh, targets, recorded), 0, targets)
  <1> DEFINE b == Remove(sh, targets, recorded)
             F == Falls(sh, targets)
  <1>1. sh \in Shards /\ Follows(sh, b) /\ Available(b) \subseteq Available(sh)
    BY RemoveSound DEF Sound
  <1>2. \A r \in Live(sh) : sh.sessions[r].box \in Nat
    BY <1>1, BoundIsSession, ShardAssumption DEF Live
  <1>3. CASE targets = {}
    <2>1. b = sh
      BY <1>3 DEF Remove
    <2> HIDE DEF b
    <2>2. Cardinality(Gone(sh, b)) \in Nat
      BY GoneIsFinite
    <2>3. Worn(sh, b, 0, targets)
      BY <1>1, <1>2, <2>1, <2>2 DEF Worn, Lost
    <2> QED
      BY <2>3 DEF b
  <1>4. CASE targets # {}
    <2>1. /\ \A r \in Resources : b.sessions[r] = Left(sh, F, r)
          /\ Bound(b) = Bound(sh) \ F
          /\ Tagged(b) = Tagged(sh) \ F
          /\ Live(b) = Live(sh) \ F
      BY <1>1, <1>4, RemoveReads DEF Sound
    <2>2. /\ F \subseteq Bound(sh) /\ Available(sh) \subseteq Bound(sh)
          /\ Bound(sh) \subseteq Resources
      BY <1>1, FallsProperties DEF Available, Bound
    <2>3. \A r \in F \ targets :
            sh.sessions[r].box + Cardinality((F \ {r}) \cap Available(sh)) > Capacity
      BY <1>1, FallForCause
    <2>4. \A r \in Bound(sh) \ F :
            /\ r \in Hearers(sh) => Left(sh, F, r).box = sh.sessions[r].box
                                                          + Cardinality(F \cap Available(sh))
            /\ r \notin Hearers(sh) => Left(sh, F, r) = sh.sessions[r]
      BY <1>1, <2>2, LeftSession
    <2> HIDE DEF b, F
    <2>5. Gone(sh, b) = F \cap Available(sh)
      BY <2>1, <2>2 DEF Gone
    <2>6. \A r : Gone(sh, b) \ {r} = (F \ {r}) \cap Available(sh)
      BY <2>5
    <2>7. Cardinality(Gone(sh, b)) \in Nat /\ \A r : Cardinality(Gone(sh, b) \ {r}) \in Nat
      BY GoneIsFinite
    <2>8. \A r \in Live(sh) \ Live(b) :
             r \in targets \/ sh.sessions[r].box + 0 + Cardinality(Gone(sh, b) \ {r}) > Capacity
      <3> SUFFICES ASSUME NEW r \in Live(sh) \ Live(b), r \notin targets
                   PROVE  sh.sessions[r].box + 0 + Cardinality(Gone(sh, b) \ {r}) > Capacity
        OBVIOUS
      <3>1. r \in F \ targets
        BY <2>1
      <3>2. sh.sessions[r].box + Cardinality(Gone(sh, b) \ {r}) > Capacity
        BY <2>3, <2>6, <3>1
      <3>3. sh.sessions[r].box \in Nat /\ Cardinality(Gone(sh, b) \ {r}) \in Nat
        BY <1>2, <2>7
      <3> QED
        BY <3>2, <3>3
    <2>9. \A r \in Live(b) : /\ r \in Live(sh) /\ r \in Bound(sh) \ F
                             /\ b.sessions[r] = Left(sh, F, r)
      BY <2>1, <2>2 DEF Live
    <2>10. \A r \in Live(b) :
             b.sessions[r].box <= sh.sessions[r].box + 0 + Cardinality(Gone(sh, b))
      <3> SUFFICES ASSUME NEW r \in Live(b)
                   PROVE  b.sessions[r].box <= sh.sessions[r].box + 0 + Cardinality(Gone(sh, b))
        OBVIOUS
      <3>1. \/ b.sessions[r].box = sh.sessions[r].box + Cardinality(Gone(sh, b))
            \/ b.sessions[r].box = sh.sessions[r].box
        BY <2>4, <2>5, <2>9
      <3>2. sh.sessions[r].box \in Nat /\ Cardinality(Gone(sh, b)) \in Nat
        BY <1>2, <2>7, <2>9
      <3> QED
        BY <3>1, <3>2
    <2>11. Worn(sh, b, 0, targets)
      BY <1>1, <2>1, <2>8, <2>10 DEF Worn, Lost, b
    <2> QED
      BY <2>11 DEF b
  <1> QED
    BY <1>3, <1>4

LEMMA BoxIsNatural ==
  ASSUME NEW sh \in Shards, NEW r \in Bound(sh)
  PROVE  sh.sessions[r].box \in Nat /\ sh.sessions[r].box <= Capacity
  BY BoundIsSession, ShardAssumption

\* One loss after another: what has gone in either part has gone in the whole.
LEMMA LostChain ==
  ASSUME NEW a \in Shards, NEW b \in Shards, NEW c, NEW n \in Nat, NEW m \in Nat, NEW X, NEW Y,
         Worn(a, b, n, X), Lost(b, c, m, Y), Bound(c) \subseteq Bound(b)
  PROVE  Lost(a, c, n + m, X \cup (Y \cap Live(b)))
  <1> SUFFICES ASSUME NEW r \in Live(a) \ Live(c), r \notin X, r \notin Y \cap Live(b)
               PROVE  a.sessions[r].box + (n + m) + Cardinality(Gone(a, c) \ {r}) > Capacity
    BY DEF Lost
  <1> DEFINE P == Gone(a, b) \ {r}
             Q == Gone(b, c) \ {r}
             W == Gone(a, c) \ {r}
             x == a.sessions[r].box
  <1>1. P \cup Q \subseteq W /\ P \cap Q = {}
    <2>1. Available(b) \subseteq Bound(b) /\ Available(b) \subseteq Available(a)
      BY DEF Worn, Available
    <2> QED
      BY <2>1 DEF Gone
  <1>2. /\ IsFiniteSet(P) /\ IsFiniteSet(Q) /\ IsFiniteSet(W)
        /\ Cardinality(P) \in Nat /\ Cardinality(Q) \in Nat /\ Cardinality(W) \in Nat
    BY GoneIsFinite
  <1>3. x \in Nat
    BY BoxIsNatural DEF Live
  <1> HIDE DEF P, Q, W, x
  <1>4. Cardinality(P) + Cardinality(Q) <= Cardinality(W)
    <2>1. /\ IsFiniteSet(P \cup Q)
          /\ Cardinality(P \cup Q) = Cardinality(P) + Cardinality(Q) - Cardinality(P \cap Q)
      BY <1>2, FS_Union
    <2>2. Cardinality(P \cap Q) = 0
      BY <1>1, FS_EmptySet
    <2>3. Cardinality(P \cup Q) <= Cardinality(W)
      BY <1>1, <1>2, FS_Subset
    <2> QED
      BY <1>2, <2>1, <2>2, <2>3
  <1>5. CASE r \notin Live(b)
    <2>1. x + n + Cardinality(P) > Capacity
      BY <1>5 DEF Worn, Lost, P, x
    <2> QED
      BY <1>2, <1>3, <1>4, <2>1, ShardAssumption DEF W, x
  <1>6. CASE r \in Live(b)
    <2> DEFINE y == b.sessions[r].box
    <2>1. y <= x + n + Cardinality(Gone(a, b)) /\ y \in Nat
      BY <1>6, BoxIsNatural DEF Worn, x, Live
    <2>2. Gone(a, b) = P
      BY <1>6 DEF Gone, Live, P
    <2>3. y + m + Cardinality(Q) > Capacity
      BY <1>6 DEF Lost, Q
    <2> HIDE DEF y
    <2> QED
      BY <1>2, <1>3, <1>4, <2>1, <2>2, <2>3, ShardAssumption DEF W, x
  <1> QED
    BY <1>5, <1>6

LEMMA LostWeaker ==
  ASSUME NEW a \in Shards, NEW b, NEW n \in Nat, NEW m \in Nat, n <= m, NEW X, NEW Y,
         Lost(a, b, n, X), X \cap Live(a) \subseteq Y
  PROVE  Lost(a, b, m, Y)
  <1> SUFFICES ASSUME NEW r \in Live(a) \ Live(b), r \notin Y
               PROVE  a.sessions[r].box + m + Cardinality(Gone(a, b) \ {r}) > Capacity
    BY DEF Lost
  <1> DEFINE x == a.sessions[r].box
             k == Cardinality(Gone(a, b) \ {r})
  <1>1. x \in Nat /\ k \in Nat
    BY BoxIsNatural, GoneIsFinite DEF Live
  <1>2. x + n + k > Capacity
    BY DEF Lost
  <1> HIDE DEF x, k
  <1>3. x + m + k > Capacity
    BY <1>1, <1>2, ShardAssumption
  <1> QED
    BY <1>3 DEF x, k

LEMMA NobodyLost ==
  ASSUME NEW a, NEW b, NEW n, Live(a) \subseteq Live(b)
  PROVE  Lost(a, b, n, {})
  BY DEF Lost

\* A stanza for each of a set of sessions that have room for it.
LEMMA QueuedWorn ==
  ASSUME NEW sh, Sound(sh), NEW R \in SUBSET (Bound(sh) \ Full(sh))
  PROVE  Worn(sh, Queued(sh, R), 1, {})
  <1> DEFINE b == Queued(sh, R)
  <1>1. /\ Follows(sh, b) /\ Available(b) = Available(sh) /\ Tagged(b) = Tagged(sh)
        /\ Live(b) = Live(sh) /\ sh \in Shards
        /\ \A r \in Bound(sh) : b.sessions[r].box = sh.sessions[r].box
                                                    + (IF r \in R THEN 1 ELSE 0)
    BY QueuedSound DEF Sound
  <1> HIDE DEF b
  <1>2. Cardinality(Gone(sh, b)) \in Nat
    BY GoneIsFinite
  <1>3. ASSUME NEW r \in Live(b)
        PROVE  b.sessions[r].box <= sh.sessions[r].box + 1 + Cardinality(Gone(sh, b))
    <2>1. r \in Bound(sh) /\ sh.sessions[r].box \in Nat
      BY <1>1, BoxIsNatural DEF Live
    <2>2. b.sessions[r].box = sh.sessions[r].box + (IF r \in R THEN 1 ELSE 0)
      BY <1>1, <2>1
    <2> QED
      BY <1>2, <2>1, <2>2
  <1>4. Worn(sh, b, 1, {})
    BY <1>1, <1>3, NobodyLost DEF Worn
  <1> QED
    BY <1>4 DEF b

\* A batch of sends loses whoever is full.
LEMMA SentLost ==
  ASSUME NEW sh, Sound(sh), NEW R \in SUBSET Bound(sh)
  PROVE  Lost(sh, Sent(sh, R), 1, {}) /\ Follows(sh, Sent(sh, R))
  <1> DEFINE lost == (R \ Live(sh)) \cup ((R \cap Live(sh)) \cap Full(sh))
             queued == Queued(sh, R \ lost)
             b == Remove(queued, lost, TRUE)
  <1>1. Sent(sh, R) = b
    BY DEF Sent
  <1>2. R \ lost \in SUBSET (Bound(sh) \ Full(sh)) /\ lost \in SUBSET Bound(sh)
        /\ \A r \in lost \cap Live(sh) : r \in Full(sh)
    OBVIOUS
  <1> HIDE DEF lost
  <1>3. /\ Sound(queued) /\ Follows(sh, queued) /\ Bound(queued) = Bound(sh)
        /\ Live(queued) = Live(sh) /\ Worn(sh, queued, 1, {})
    BY <1>2, QueuedSound, QueuedWorn
  <1> HIDE DEF queued
  <1>4. Worn(queued, b, 0, lost)
    BY <1>2, <1>3, RemoveWorn
  <1>5. Lost(queued, b, 0, lost) /\ Follows(queued, b) /\ Bound(b) \subseteq Bound(queued)
    BY <1>4 DEF Worn, Follows
  <1>6. sh \in Shards /\ queued \in Shards
    BY <1>3 DEF Sound
  <1> HIDE DEF b
  <1>7. Lost(sh, b, 1 + 0, {} \cup (lost \cap Live(queued)))
    BY <1>3, <1>5, <1>6, LostChain
  <1>8. Lost(sh, b, 1, {})
    <2> SUFFICES ASSUME NEW r \in Live(sh) \ Live(b)
                 PROVE  sh.sessions[r].box + 1 + Cardinality(Gone(sh, b) \ {r}) > Capacity
      BY DEF Lost
    <2>1. \/ r \in lost \cap Live(sh)
          \/ sh.sessions[r].box + (1 + 0) + Cardinality(Gone(sh, b) \ {r}) > Capacity
      BY <1>3, <1>7 DEF Lost
    <2>2. sh.sessions[r].box \in Nat /\ Cardinality(Gone(sh, b) \ {r}) \in Nat
      BY <1>6, BoxIsNatural, GoneIsFinite DEF Live
    <2>3. CASE r \in lost \cap Live(sh)
      <3>1. sh.sessions[r].box >= Capacity
        BY <1>2, <2>3 DEF Full
      <3> QED
        BY <2>2, <3>1, ShardAssumption
    <2> QED
      BY <2>1, <2>2, <2>3, ShardAssumption
  <1> QED
    BY <1>1, <1>3, <1>5, <1>8, FollowsChain

LEMMA OneLess ==
  ASSUME NEW S, IsFiniteSet(S), NEW e
  PROVE  Cardinality(S \ {e}) >= Cardinality(S) - 1
  <1>1. Cardinality(S) \in Nat
    BY FS_CardinalityType
  <1>2. Cardinality(S \ {e}) = IF e \in S THEN Cardinality(S) - 1 ELSE Cardinality(S)
    BY FS_RemoveElement
  <1> QED
    BY <1>1, <1>2

\* The siblings of r are told something, and those that have no room for it are
\* removed with their cascade. The presence of r itself, new in c, makes no
\* difference to the others: r falls only after more than a mailbox of them.
LEMMA ToldLost ==
  ASSUME NEW sh, Sound(sh), NEW c, Sound(c), NEW r, NEW full \in SUBSET Bound(c),
         r \notin full, full \subseteq Full(sh),
         Bound(c) = Bound(sh), Live(sh) \ {r} \subseteq Live(c),
         Available(c) \subseteq Available(sh) \cup {r},
         \A q \in Live(c) \ {r} : c.sessions[q].box <= sh.sessions[q].box + 1,
         r \in Live(c) => c.sessions[r].box = 0
  PROVE  Lost(sh, Remove(c, full, TRUE), 1, {r} \ Live(c))
  <1> DEFINE b == Remove(c, full, TRUE)
             F == Falls(c, full)
             A == Available(c)
  <1>1. sh \in Shards /\ c \in Shards
    BY DEF Sound
  <1>2. CASE full = {}
    <2>1. b = c
      BY <1>2 DEF Remove
    <2>2. Lost(sh, c, 1, {r} \ Live(c))
      BY DEF Lost
    <2> QED
      BY <2>1, <2>2
  <1>3. CASE full # {}
    <2>1. Bound(b) = Bound(c) \ F /\ Live(b) = Live(c) \ F
      BY <1>1, <1>3, RemoveReads DEF Sound
    <2>2. \A q \in F \ full : c.sessions[q].box + Cardinality((F \ {q}) \cap A) > Capacity
      BY <1>1, FallForCause
    <2> HIDE DEF b, F
    <2> SUFFICES ASSUME NEW q \in Live(sh) \ Live(b), q \notin {r} \ Live(c)
                 PROVE  sh.sessions[q].box + 1 + Cardinality(Gone(sh, b) \ {q}) > Capacity
      BY DEF Lost, b
    <2> DEFINE G == Gone(sh, b) \ {q}
               x == sh.sessions[q].box
    <2>3. q \in Live(c) /\ q \in F /\ q \in Bound(sh)
      BY <2>1 DEF Live
    <2>4. x \in Nat /\ c.sessions[q].box \in Nat
      BY <1>1, <2>3, BoxIsNatural
    <2>5. IsFiniteSet(G) /\ Cardinality(G) \in Nat
      BY GoneIsFinite
    <2>6. \A S \in SUBSET G : Cardinality(S) \in Nat /\ Cardinality(S) <= Cardinality(G)
      BY <2>5, FS_Subset, FS_CardinalityType
    <2>7. ((F \ {q}) \cap A) \ {r} \in SUBSET G
      BY <2>1 DEF Gone
    <2> HIDE DEF G, x, A
    <2>8. CASE q \in full
      <3>1. x >= Capacity
        BY <2>8 DEF Full, x
      <3> QED
        BY <3>1, <2>4, <2>5, ShardAssumption DEF x, G
    <2>9. CASE q \notin full /\ r \notin (F \ {q}) \cap A
      <3>1. (F \ {q}) \cap A \in SUBSET G
        BY <2>7, <2>9
      <3>2. c.sessions[q].box + Cardinality((F \ {q}) \cap A) > Capacity
        BY <2>2, <2>3, <2>9
      <3>3. c.sessions[q].box <= x + 1
        <4>1. CASE q = r
          BY <4>1, <2>3, <2>4
        <4>2. CASE q # r
          BY <4>2, <2>3 DEF x
        <4> QED
          BY <4>1, <4>2
      <3>4. /\ Cardinality((F \ {q}) \cap A) \in Nat
            /\ Cardinality((F \ {q}) \cap A) <= Cardinality(G)
        BY <3>1, <2>6
      <3>5. x + 1 + Cardinality(G) > Capacity
        BY <3>2, <3>3, <3>4, <2>4, <2>5, ShardAssumption
      <3> QED
        BY <3>5 DEF x, G
    <2>10. CASE q \notin full /\ r \in (F \ {q}) \cap A
      <3> DEFINE S == (F \ {r}) \cap A
      <3>1. r \in Live(c)
        <4>1. r \in F \ full
          BY <2>10
        <4>2. F \ full \subseteq Hearers(c)
          BY <1>1, FallForCause DEF F
        <4> QED
          BY <4>1, <4>2 DEF Hearers
      <3>2. 0 + Cardinality(S) > Capacity
        BY <2>2, <2>10, <3>1
      <3>3. S \ {q} \in SUBSET G
        BY <2>7
      <3>4. S \in SUBSET Bound(c)
        BY DEF Available, A
      <3>5. IsFiniteSet(S) /\ Cardinality(S) \in Nat
        BY <3>4, BoundIsFinite
      <3> HIDE DEF S
      <3>6. Cardinality(S \ {q}) >= Cardinality(S) - 1
        BY <3>5, OneLess
      <3>7. Cardinality(S \ {q}) \in Nat /\ Cardinality(S \ {q}) <= Cardinality(G)
        BY <3>3, <2>6
      <3>8. x + 1 + Cardinality(G) > Capacity
        BY <3>2, <3>5, <3>6, <3>7, <2>4, <2>5, ShardAssumption
      <3> QED
        BY <3>8 DEF x, G
    <2> QED
      BY <2>8, <2>9, <2>10
  <1> QED
    BY <1>2, <1>3

\* Who is lost depends on the sessions and the living alone.
LEMMA LostSame ==
  ASSUME NEW a, NEW b, NEW c, NEW n, NEW X, Lost(a, b, n, X),
         c.sessions = b.sessions, c.alive = b.alive
  PROVE  Lost(a, c, n, X)
  <1>1. Live(c) = Live(b) /\ Bound(c) = Bound(b)
    BY SameSessions
  <1>2. Gone(a, c) = Gone(a, b)
    BY <1>1 DEF Gone
  <1> QED
    BY <1>1, <1>2 DEF Lost

-----------------------------------------------------------------------------
(* Presence *)

\* The siblings that are told of a session, and what they make of it.
Siblings(sh, r) == (Live(sh) \cap Available(sh)) \ {r}

\* A session tells its siblings of a presence: those with room hear of it, the
\* others are removed.
LEMMA AnnouncedFit ==
  ASSUME NEW sh, Fit(sh), NEW r \in Live(sh), NEW available \in BOOLEAN
  PROVE  /\ Fit(Announced(sh, r, available)) /\ Follows(sh, Announced(sh, r, available))
         /\ Lost(sh, Announced(sh, r, available), 1, {})
  <1> DEFINE others == (Live(sh) \cap Available(sh)) \ {r}
             full == others \cap Full(sh)
             t == sh.sessions[r].token
             told == Queued(sh, others \ full)
             source == [sh.sessions[r] EXCEPT
                          !.box = 0,
                          !.available = available,
                          !.known = IF ~available THEN {}
                                    ELSE IF sh.sessions[r].available THEN @
                                    ELSE TokensOf(sh, Available(sh) \ {r})]
             informed == [s \in Resources |->
                            IF s = r THEN source
                            ELSE IF s \in others \ full
                              THEN [told.sessions[s] EXCEPT
                                      !.known = IF available THEN @ \cup {t} ELSE @ \ {t}]
                              ELSE told.sessions[s]]
             changed == [told EXCEPT !.sessions = informed]
             removed == Remove(changed, full, TRUE)
             time == IF available THEN FALSE
                     ELSE removed.lastUnavailable
                            \/ (Available(sh) # {} /\ Available(removed) = {})
             b == [removed EXCEPT !.lastUnavailable = time]
  <1>1. Announced(sh, r, available) = b
    BY DEF Announced
  <1>2. /\ sh \in Shards /\ Distinct(sh) /\ Bound(sh) \subseteq Resources
        /\ r \in Bound(sh) /\ others \subseteq Bound(sh) /\ full \subseteq others
        /\ Available(sh) \subseteq Bound(sh)
    BY DEF Fit, Sound, Bound, Live, Available
  <1>3. others \ full \in SUBSET (Bound(sh) \ Full(sh))
    BY <1>2
  <1>4. /\ Sound(told) /\ Follows(sh, told)
        /\ Bound(told) = Bound(sh) /\ Live(told) = Live(sh) /\ Available(told) = Available(sh)
        /\ \A Q \in SUBSET Bound(sh) : TokensOf(told, Q) = TokensOf(sh, Q)
        /\ \A q \in Bound(sh) : told.sessions[q].known = sh.sessions[q].known
        /\ told.lastUnavailable = sh.lastUnavailable
        /\ \A q \in Bound(sh) : told.sessions[q].box = sh.sessions[q].box
                                    + (IF q \in others \ full THEN 1 ELSE 0)
    BY <1>3, QueuedSound DEF Fit
  <1>5. /\ told \in Shards
        /\ \A q \in Bound(sh) : /\ told.sessions[q] \in Sessions
                                /\ told.sessions[q].token = sh.sessions[q].token
                                /\ q \in Available(sh) <=> told.sessions[q].available
    BY <1>2, <1>4, BoundIsSession DEF Sound, Follows, Available
  <1>6. t \in Tokens
    BY <1>2, BoundIsSession
  <1>7. /\ source \in Sessions /\ source.token = t /\ source.available = available
        /\ source.box = 0
        /\ available => source.known = TokensOf(sh, Available(sh) \ {r})
    <2> DEFINE s == sh.sessions[r]
               news == TokensOf(sh, Available(sh) \ {r})
    <2>1. s \in Sessions
      BY <1>2, BoundIsSession
    <2>2. news \in SUBSET Tokens
      BY <1>2, BoundIsSession DEF TokensOf
    <2>3. s.available => s.known = news
      BY <1>2 DEF Fit, Knowing, Available, Live
    <2> HIDE DEF s, news
    <2>4. source = [s EXCEPT !.box = 0, !.available = available,
                             !.known = IF ~available THEN {}
                                       ELSE IF s.available THEN s.known ELSE news]
      BY DEF s, news
    <2> HIDE DEF source
    <2> DEFINE known == IF ~available THEN {} ELSE news
    <2>5. source = [s EXCEPT !.box = 0, !.available = available, !.known = known]
      BY <2>1, <2>3, <2>4 DEF Sessions
    <2>6. known \in SUBSET Tokens /\ (available => known = news) /\ 0 \in 0 .. Capacity
      BY <2>2, ShardAssumption
    <2> HIDE DEF known
    <2>7. /\ source \in Sessions /\ source.token = s.token /\ source.available = available
          /\ source.known = known /\ source.box = 0
      BY <2>1, <2>5, <2>6 DEF Sessions
    <2> QED
      BY <2>6, <2>7 DEF s, news
  <1> HIDE DEF source, others, full, t, told
  <1>8. ASSUME NEW q \in Bound(sh), q # r
        PROVE  /\ informed[q] \in Sessions
               /\ informed[q].token = sh.sessions[q].token
               /\ informed[q].box = told.sessions[q].box
               /\ q \in Available(sh) <=> informed[q].available
               /\ q \in others \ full =>
                    informed[q].known = IF available THEN sh.sessions[q].known \cup {t}
                                                     ELSE sh.sessions[q].known \ {t}
    <2> DEFINE s == told.sessions[q]
    <2>1. s \in Sessions /\ s.token = sh.sessions[q].token /\ s.known = sh.sessions[q].known
          /\ (q \in Available(sh) <=> s.available)
      BY <1>4, <1>5
    <2>2. CASE q \in others \ full
      <3>1. informed[q] = [s EXCEPT !.known = IF available THEN s.known \cup {t}
                                                           ELSE s.known \ {t}]
        BY <2>2, <1>2, <1>8
      <3> HIDE DEF s, informed
      <3> QED
        BY <2>1, <3>1, <1>6 DEF Sessions, s
    <2>3. CASE q \notin others \ full
      <3>1. informed[q] = s
        BY <2>3, <1>2, <1>8
      <3> HIDE DEF s, informed
      <3> QED
        BY <2>1, <2>3, <3>1 DEF s
    <2> QED
      BY <2>2, <2>3
  <1>9. informed[r] = source
    BY <1>2
  <1>10. \A q \in Resources \ Bound(sh) : informed[q] = None /\ told.sessions[q] = None
    <2>1. \A q \in Resources \ Bound(sh) : told.sessions[q] = None
      BY <1>4 DEF Bound
    <2> QED
      BY <2>1, <1>2
  <1>11. informed = [s \in Resources |-> informed[s]]
    OBVIOUS
  <1> HIDE DEF informed
  <1>12. \A q \in Bound(sh) : informed[q] \in Sessions /\ informed[q].token = sh.sessions[q].token
    BY <1>7, <1>8, <1>9 DEF t
  <1>13. Rewrites(told, informed)
    <2>1. \A q \in Bound(sh) : informed[q] # None /\ told.sessions[q] # None
      BY <1>5, <1>12, NoneIsNoSession
    <2>2. \A q \in Resources : informed[q] \in Sessions \cup {None}
      BY <1>10, <1>12
    <2> QED
      BY <1>4, <1>5, <1>10, <1>11, <1>12, <2>1, <2>2 DEF Rewrites
  <1>14. /\ Sound(changed) /\ Follows(told, changed)
         /\ Bound(changed) = Bound(sh) /\ Live(changed) = Live(sh)
         /\ \A R \in SUBSET Bound(sh) : TokensOf(changed, R) = TokensOf(sh, R)
         /\ changed.sessions = informed /\ changed.lastUnavailable = sh.lastUnavailable
    BY <1>4, <1>13, RewriteSound
  <1> HIDE DEF changed
  <1>15. Available(changed) = IF available THEN Available(sh) \cup {r} ELSE Available(sh) \ {r}
    <2>1. r \in Available(changed) <=> available
      BY <1>2, <1>7, <1>9, <1>14 DEF Available
    <2>2. \A q \in Bound(sh) : q # r => (q \in Available(changed) <=> q \in Available(sh))
      BY <1>8, <1>14 DEF Available
    <2>3. Available(changed) \subseteq Bound(sh)
      BY <1>14 DEF Available
    <2> QED
      BY <2>1, <2>2, <2>3, <1>2
  <1>16. Knowing(changed, full)
    <2> SUFFICES ASSUME NEW q \in (Live(changed) \cap Available(changed)) \ full
                 PROVE  changed.sessions[q].known = TokensOf(changed, Available(changed) \ {q})
      BY DEF Knowing
    <2>1. TokensOf(changed, Available(changed) \ {q}) = TokensOf(sh, Available(changed) \ {q})
      BY <1>14 DEF Available
    <2>2. q \in Bound(sh) /\ q \in Live(sh)
      BY <1>14 DEF Live
    <2>3. CASE q = r
      <3>1. available
        BY <2>3, <1>15
      <3>2. Available(changed) \ {q} = Available(sh) \ {r}
        BY <2>3, <3>1, <1>15
      <3> QED
        BY <2>1, <2>3, <3>1, <3>2, <1>7, <1>9, <1>14
    <2>4. CASE q # r
      <3>1. q \in others \ full
        BY <2>2, <2>4, <1>15 DEF others
      <3>2. sh.sessions[q].known = TokensOf(sh, Available(sh) \ {q})
        BY <3>1 DEF Fit, Knowing, others
      <3>3. changed.sessions[q].known = IF available THEN sh.sessions[q].known \cup {t}
                                                     ELSE sh.sessions[q].known \ {t}
        BY <3>1, <2>2, <2>4, <1>8, <1>14
      <3>4. /\ TokensOf(sh, Available(sh) \ {q}) \ {t} = TokensOf(sh, (Available(sh) \ {r}) \ {q})
            /\ TokensOf(sh, Available(sh) \ {q}) \cup {t}
                 = TokensOf(sh, (Available(sh) \cup {r}) \ {q})
        <4>1. Available(sh) \in SUBSET Bound(sh)
          BY <1>2
        <4>2. Distinct(sh) /\ q \in Bound(sh) /\ r \in Bound(sh)
          BY <2>2, <1>2
        <4>3. /\ TokensOf(sh, Available(sh) \ {q}) \ {sh.sessions[r].token}
                   = TokensOf(sh, (Available(sh) \ {r}) \ {q})
              /\ q # r => TokensOf(sh, Available(sh) \ {q}) \cup {sh.sessions[r].token}
                            = TokensOf(sh, (Available(sh) \cup {r}) \ {q})
          BY <4>1, <4>2 DEF TokensOf, Distinct
        <4> QED
          BY <4>3, <2>4 DEF t
      <3> QED
        BY <2>1, <3>2, <3>3, <3>4, <1>15
    <2> QED
      BY <2>3, <2>4
  <1>17. full \in SUBSET Bound(changed)
    BY <1>2, <1>14
  <1>18. /\ Sound(removed) /\ Available(removed) \subseteq Available(changed)
         /\ Follows(changed, removed)
         /\ Knowing(removed, {})
         /\ Past(changed) => Past(removed)
    BY <1>14, <1>16, <1>17, RemoveSound
  <1> HIDE DEF removed
  <1>19. time \in BOOLEAN
    BY <1>18 DEF Sound, Shards
  <1> HIDE DEF time
  <1>20. /\ Sound(b) /\ Follows(removed, b) /\ b.lastUnavailable = time
         /\ b.sessions = removed.sessions /\ b.alive = removed.alive
    BY <1>18, <1>19, TimeSound
  <1> HIDE DEF b
  <1>21. Available(b) = Available(removed) /\ (Knowing(b, {}) <=> Knowing(removed, {}))
    BY <1>20, SameSessions
  <1>22. Past(b)
    <2>1. CASE available
      BY <2>1, <1>20 DEF Past, time
    <2>2. CASE ~available
      <3>1. Past(changed)
        BY <2>2, <1>14, <1>15 DEF Past, Fit
      <3> QED
        BY <2>2, <3>1, <1>18, <1>20, <1>21 DEF Past, time
    <2> QED
      BY <2>1, <2>2
  <1>23. Follows(sh, b)
    <2>1. Follows(sh, changed)
      BY <1>4, <1>14, FollowsChain
    <2>2. Follows(changed, b)
      BY <1>18, <1>20, FollowsChain
    <2> QED
      BY <2>1, <2>2, FollowsChain
  <1>24. Lost(sh, b, 1, {})
    <2>1. Lost(sh, removed, 1, {r} \ Live(changed))
      <3>1. \A q \in Live(changed) \ {r} : changed.sessions[q].box <= sh.sessions[q].box + 1
        <4> SUFFICES ASSUME NEW q \in Live(changed) \ {r}
                     PROVE  changed.sessions[q].box <= sh.sessions[q].box + 1
          OBVIOUS
        <4>1. q \in Bound(sh) /\ sh.sessions[q].box \in Nat
          BY <1>2, <1>14, BoxIsNatural DEF Live
        <4>2. changed.sessions[q].box = sh.sessions[q].box
                                          + (IF q \in others \ full THEN 1 ELSE 0)
          BY <4>1, <1>4, <1>8, <1>14
        <4> QED
          BY <4>1, <4>2
      <3>2. changed.sessions[r].box = 0
        BY <1>7, <1>9, <1>14
      <3>3. r \notin full /\ full \subseteq Full(sh)
        BY DEF full, others
      <3> QED
        BY <3>1, <3>2, <3>3, <1>14, <1>15, <1>17, ToldLost DEF Fit, removed
    <2>2. {r} \ Live(changed) = {}
      BY <1>14
    <2> QED
      BY <2>1, <2>2, <1>20, LostSame
  <1> QED
    BY <1>1, <1>18, <1>20, <1>21, <1>22, <1>23, <1>24 DEF Fit

\* The shard once the flag of a token is cleared.
Without(sh, t) == [sh EXCEPT !.alive = @ \ {t}]

LEMMA WithoutSound ==
  ASSUME NEW sh, Sound(sh), NEW r \in Bound(sh)
  PROVE  LET b == Without(sh, sh.sessions[r].token)
         IN  /\ Sound(b) /\ b.sessions = sh.sessions
             /\ b.alive = sh.alive \ {sh.sessions[r].token}
             /\ b.reported = sh.reported /\ b.retiring = sh.retiring
             /\ b.terminated = sh.terminated /\ b.lastUnavailable = sh.lastUnavailable
             /\ Live(b) = Live(sh) \ {r}
  <1> DEFINE t == sh.sessions[r].token
             b == Without(sh, t)
  <1> HIDE DEF t
  <1>1. /\ b \in Shards /\ b.sessions = sh.sessions /\ b.alive = sh.alive \ {t}
        /\ b.reported = sh.reported /\ b.retiring = sh.retiring /\ b.count = sh.count
        /\ b.terminated = sh.terminated /\ b.lastUnavailable = sh.lastUnavailable
    BY DEF Sound, Shards, Without
  <1> HIDE DEF b
  <1>2. Bound(b) = Bound(sh) /\ (Distinct(b) <=> Distinct(sh))
    BY <1>1, SameSessions
  <1>3. Sound(b)
    BY <1>1, <1>2 DEF Sound, Counted
  <1>4. Live(b) = Live(sh) \ {r}
    BY <1>1, <1>2 DEF Live, Sound, Distinct, t
  <1> QED
    BY <1>1, <1>3, <1>4 DEF b, t

\* A session that ends its presence withdraws it from its siblings.
LEMMA WithdrawnFit ==
  ASSUME NEW sh, Fit(sh), NEW r \in Live(sh)
  PROVE  LET b == Withdrawn(sh, r)
         IN  /\ Fit(b) /\ Follows(Without(sh, sh.sessions[r].token), b)
             /\ Lost(sh, b, 1, {r})
  <1> DEFINE t == sh.sessions[r].token
             was == sh.sessions[r].available
             silent == [sh.sessions[r] EXCEPT !.available = FALSE, !.box = 0, !.known = {}]
             dead == [sh EXCEPT !.alive = @ \ {t}, !.sessions[r] = silent]
             others == Live(dead) \cap Available(dead)
             full == others \cap Full(dead)
             told == Queued(dead, others \ full)
             informed == [s \in Resources |->
                            IF s \in others \ full
                              THEN [told.sessions[s] EXCEPT !.known = @ \ {t}]
                              ELSE told.sessions[s]]
             changed == [told EXCEPT !.sessions = informed]
             removed == IF was THEN Remove(changed, full, TRUE) ELSE dead
             time == removed.lastUnavailable \/ (Available(sh) # {} /\ Available(removed) = {})
             names == IF was THEN removed.retiring \cup {t} ELSE removed.retiring
             b == [removed EXCEPT !.retiring = names, !.lastUnavailable = time]
             mortal == Without(sh, t)
             quiet == [sh.sessions EXCEPT ![r] = silent]
  <1>1. Withdrawn(sh, r) = b
    BY DEF Withdrawn
  <1>2. /\ sh \in Shards /\ Sound(sh) /\ Distinct(sh) /\ Bound(sh) \subseteq Resources
        /\ r \in Bound(sh) /\ Available(sh) \subseteq Bound(sh) /\ t \in Tokens
        /\ was \in BOOLEAN
    BY BoundIsSession DEF Fit, Sound, Bound, Live, Available
  <1>3. /\ Sound(mortal) /\ mortal.sessions = sh.sessions
        /\ mortal.alive = sh.alive \ {t} /\ mortal.lastUnavailable = sh.lastUnavailable
        /\ Live(mortal) = Live(sh) \ {r}
    BY <1>2, WithoutSound
  <1>4. dead = [mortal EXCEPT !.sessions = quiet]
    BY <1>2 DEF Without, Shards
  <1>5. silent \in Sessions /\ silent.token = t /\ ~silent.available
    <2> DEFINE s == sh.sessions[r]
    <2>1. s \in Sessions /\ 0 \in 0 .. Capacity
      BY <1>2, BoundIsSession, ShardAssumption
    <2> HIDE DEF s
    <2>2. LET w == [s EXCEPT !.available = FALSE, !.box = 0, !.known = {}]
          IN  w \in Sessions /\ w.token = s.token /\ ~w.available
      BY <2>1 DEF Sessions
    <2> QED
      BY <2>2 DEF s
  <1>6. /\ quiet \in [Resources -> Sessions \cup {None}]
        /\ quiet[r] = silent /\ \A q \in Resources : q # r => quiet[q] = sh.sessions[q]
    BY <1>2, <1>5 DEF Shards
  <1> HIDE DEF mortal, quiet, silent, dead
  <1>7. Rewrites(mortal, quiet)
    BY <1>2, <1>3, <1>5, <1>6, SameSessions, NoneIsNoSession DEF Rewrites, Bound
  <1>8. /\ Sound(dead) /\ Follows(mortal, dead)
        /\ Bound(dead) = Bound(sh) /\ Live(dead) = Live(sh) \ {r}
        /\ \A R \in SUBSET Bound(sh) : TokensOf(dead, R) = TokensOf(sh, R)
        /\ dead.sessions = quiet /\ dead.lastUnavailable = sh.lastUnavailable
    <2>1. Bound(mortal) = Bound(sh) /\ \A R : TokensOf(mortal, R) = TokensOf(sh, R)
      BY <1>3, SameSessions
    <2> QED
      BY <1>3, <1>4, <1>7, <2>1, RewriteSound
  <1>9. Available(dead) = Available(sh) \ {r}
    BY <1>2, <1>5, <1>6, <1>8 DEF Available
  <1>10. others = Siblings(sh, r) /\ others \ full \in SUBSET (Bound(dead) \ Full(dead))
         /\ full \in SUBSET Bound(sh)
    BY <1>2, <1>8, <1>9 DEF Siblings
  <1> HIDE DEF others, full, t
  <1>11. /\ Sound(told) /\ Follows(dead, told)
         /\ Bound(told) = Bound(dead) /\ Live(told) = Live(dead)
         /\ Available(told) = Available(dead)
         /\ \A Q \in SUBSET Bound(dead) : TokensOf(told, Q) = TokensOf(dead, Q)
         /\ \A q \in Bound(dead) : told.sessions[q].known = dead.sessions[q].known
         /\ told.lastUnavailable = dead.lastUnavailable
         /\ \A q \in Bound(dead) : told.sessions[q].box = dead.sessions[q].box
                                       + (IF q \in others \ full THEN 1 ELSE 0)
    BY <1>8, <1>10, QueuedSound
  <1> HIDE DEF told
  <1>12. ASSUME NEW q \in Bound(sh)
         PROVE  /\ informed[q] \in Sessions
                /\ informed[q].token = told.sessions[q].token
                /\ informed[q].available = told.sessions[q].available
                /\ informed[q].box = told.sessions[q].box
                /\ q \in others \ full => informed[q].known = sh.sessions[q].known \ {t}
    <2> DEFINE s == told.sessions[q]
    <2>1. s \in Sessions
      BY <1>8, <1>11, BoundIsSession DEF Sound
    <2>2. CASE q \in others \ full
      <3>1. informed[q] = [s EXCEPT !.known = s.known \ {t}]
        BY <2>2, <1>2
      <3>2. s.known = sh.sessions[q].known
        BY <2>2, <1>2, <1>6, <1>8, <1>10, <1>11 DEF Siblings
      <3> HIDE DEF s, informed
      <3> QED
        BY <2>1, <3>1, <3>2 DEF Sessions, s
    <2>3. CASE q \notin others \ full
      <3>1. informed[q] = s
        BY <2>3, <1>2
      <3> HIDE DEF s, informed
      <3> QED
        BY <2>1, <2>3, <3>1 DEF s
    <2> QED
      BY <2>2, <2>3
  <1>13. \A q \in Resources \ Bound(sh) : informed[q] = None /\ told.sessions[q] = None
    <2>1. \A q \in Resources \ Bound(sh) : told.sessions[q] = None
      BY <1>8, <1>11 DEF Bound
    <2> QED
      BY <2>1, <1>2, <1>10 DEF Siblings, Live
  <1>14. informed = [s \in Resources |-> informed[s]]
    OBVIOUS
  <1> HIDE DEF informed
  <1>15. Rewrites(told, informed)
    <2>1. \A q \in Bound(sh) : informed[q] # None /\ told.sessions[q] # None
      BY <1>8, <1>11, <1>12, NoneIsNoSession DEF Bound
    <2>2. \A q \in Resources : informed[q] \in Sessions \cup {None}
      BY <1>12, <1>13
    <2> QED
      BY <1>8, <1>11, <1>12, <1>13, <1>14, <2>1, <2>2 DEF Rewrites
  <1>16. /\ Sound(changed) /\ Follows(told, changed)
         /\ Bound(changed) = Bound(sh) /\ Live(changed) = Live(sh) \ {r}
         /\ \A R \in SUBSET Bound(sh) : TokensOf(changed, R) = TokensOf(sh, R)
         /\ changed.sessions = informed /\ changed.lastUnavailable = sh.lastUnavailable
    BY <1>8, <1>11, <1>15, RewriteSound
  <1> HIDE DEF changed
  <1>17. Available(changed) = Available(sh) \ {r}
    <2>1. Available(changed) = Available(told)
      BY <1>8, <1>11, <1>12, <1>16 DEF Available
    <2> QED
      BY <2>1, <1>9, <1>11
  <1>18. Knowing(changed, full)
    <2> SUFFICES ASSUME NEW q \in (Live(changed) \cap Available(changed)) \ full
                 PROVE  changed.sessions[q].known = TokensOf(changed, Available(changed) \ {q})
      BY DEF Knowing
    <2>1. TokensOf(changed, Available(changed) \ {q}) = TokensOf(sh, (Available(sh) \ {r}) \ {q})
      BY <1>2, <1>16, <1>17
    <2>2. q \in Bound(sh) /\ q \in Live(sh) /\ q # r /\ q \in Available(sh) /\ q \in others \ full
      BY <1>10, <1>16, <1>17 DEF Live, Siblings
    <2>3. sh.sessions[q].known = TokensOf(sh, Available(sh) \ {q})
      BY <2>2 DEF Fit, Knowing
    <2>4. changed.sessions[q].known = sh.sessions[q].known \ {t}
      BY <2>2, <1>12, <1>16
    <2>5. TokensOf(sh, Available(sh) \ {q}) \ {t} = TokensOf(sh, (Available(sh) \ {r}) \ {q})
      BY <2>2, <1>2 DEF TokensOf, Distinct, t
    <2> QED
      BY <2>1, <2>3, <2>4, <2>5
  <1>19. full \in SUBSET Bound(changed)
    BY <1>10, <1>16
  <1>20. /\ Sound(removed) /\ Available(removed) \subseteq Available(sh)
         /\ Follows(mortal, removed)
         /\ Knowing(removed, {}) /\ Past(removed)
    <2>1. CASE was
      <3>1. removed = Remove(changed, full, TRUE)
        BY <2>1
      <3>2. Past(changed)
        BY <1>16, <1>17 DEF Past, Fit
      <3>3. Follows(mortal, changed)
        BY <1>8, <1>11, <1>16, FollowsChain
      <3>4. /\ Sound(removed) /\ Available(removed) \subseteq Available(changed)
            /\ Follows(changed, removed) /\ Knowing(removed, {}) /\ Past(removed)
        <4>1. LET c == Remove(changed, full, TRUE)
              IN  /\ Sound(c) /\ Available(c) \subseteq Available(changed)
                  /\ Follows(changed, c) /\ Knowing(c, {}) /\ Past(c)
          BY <3>2, <1>16, <1>18, <1>19, RemoveSound
        <4> HIDE DEF removed
        <4> QED
          BY <4>1, <3>1
      <3> HIDE DEF removed
      <3> QED
        BY <3>3, <3>4, <1>17, FollowsChain
    <2>2. CASE ~was
      <3>1. removed = dead
        BY <2>2
      <3>2. Available(dead) = Available(sh)
        BY <2>2, <1>9 DEF Available
      <3>3. Past(dead)
        BY <3>2, <1>8 DEF Past, Fit
      <3>4. Knowing(dead, {})
        <4> SUFFICES ASSUME NEW q \in Live(dead) \cap Available(dead)
                     PROVE  dead.sessions[q].known = TokensOf(dead, Available(dead) \ {q})
          BY DEF Knowing
        <4>1. q \in Live(sh) /\ q # r /\ q \in Available(sh) /\ q \in Resources
          BY <1>2, <1>8, <3>2
        <4>2. dead.sessions[q].known = sh.sessions[q].known
          BY <4>1, <1>6, <1>8
        <4>3. sh.sessions[q].known = TokensOf(sh, Available(sh) \ {q})
          BY <4>1 DEF Fit, Knowing
        <4> QED
          BY <4>2, <4>3, <3>2, <1>2, <1>8
      <3> HIDE DEF removed
      <3> QED
        BY <3>1, <3>2, <3>3, <3>4, <1>8
    <2> QED
      BY <2>1, <2>2, <1>2
  <1>28. Lost(sh, removed, 1, {r})
    <2>1. CASE was
      <3>1. \A q \in Live(changed) \ {r} : changed.sessions[q].box <= sh.sessions[q].box + 1
        <4> SUFFICES ASSUME NEW q \in Live(changed) \ {r}
                     PROVE  changed.sessions[q].box <= sh.sessions[q].box + 1
          OBVIOUS
        <4>1. q \in Bound(sh) /\ q \in Resources /\ sh.sessions[q].box \in Nat
          BY <1>2, <1>16, BoxIsNatural DEF Live
        <4>2. dead.sessions[q] = sh.sessions[q]
          BY <4>1, <1>6, <1>8
        <4>3. changed.sessions[q].box = sh.sessions[q].box
                                          + (IF q \in others \ full THEN 1 ELSE 0)
          BY <4>1, <4>2, <1>8, <1>11, <1>12, <1>16
        <4> QED
          BY <4>1, <4>3
      <3>2. r \notin Live(changed) /\ Live(sh) \ {r} \subseteq Live(changed)
        BY <1>16
      <3>3. r \notin full /\ full \subseteq Full(sh)
        <4>1. \A q \in full : q # r /\ q \in Bound(sh) /\ dead.sessions[q].box >= Capacity
          BY <1>8, <1>9 DEF full, others, Full
        <4>2. \A q \in full : dead.sessions[q] = sh.sessions[q]
          BY <4>1, <1>2, <1>6, <1>8
        <4> QED
          BY <4>1, <4>2 DEF Full
      <3>4. Available(changed) \subseteq Available(sh) \cup {r}
        BY <1>17
      <3>5. Lost(sh, Remove(changed, full, TRUE), 1, {r} \ Live(changed))
        BY <3>1, <3>2, <3>3, <3>4, <1>2, <1>16, <1>19, ToldLost
      <3>6. {r} \ Live(changed) = {r}
        BY <3>2
      <3> QED
        BY <2>1, <3>5, <3>6
    <2>2. CASE ~was
      BY <2>2, <1>8 DEF Lost
    <2> QED
      BY <2>1, <2>2, <1>2
  <1> HIDE DEF removed
  <1>21. time \in BOOLEAN /\ names \in SUBSET Tokens
    BY <1>2, <1>20 DEF Sound, Shards, t
  <1>22. names \subseteq removed.retiring \cup TokensOf(mortal, Bound(mortal))
    <2>1. t \in TokensOf(mortal, Bound(mortal))
      BY <1>2, <1>3, SameSessions DEF TokensOf, t
    <2> QED
      BY <2>1
  <1> HIDE DEF time, names
  <1>23. /\ b \in Shards /\ b.sessions = removed.sessions /\ b.alive = removed.alive
         /\ b.count = removed.count /\ b.lastUnavailable = time /\ b.retiring = names
         /\ b.reported = removed.reported /\ b.terminated = removed.terminated
    BY <1>20, <1>21 DEF Sound, Shards
  <1> HIDE DEF b
  <1>24. /\ Bound(b) = Bound(removed) /\ Available(b) = Available(removed)
         /\ Distinct(b) <=> Distinct(removed)
         /\ Knowing(b, {}) <=> Knowing(removed, {})
    BY <1>23, SameSessions
  <1>25. Sound(b)
    BY <1>20, <1>23, <1>24 DEF Sound, Counted
  <1>26. Past(b)
    BY <1>20, <1>23, <1>24 DEF Past, time
  <1>27. Follows(mortal, b)
    BY <1>20, <1>22, <1>23, <1>24 DEF Follows
  <1>29. Lost(sh, b, 1, {r})
    BY <1>23, <1>28, LostSame
  <1> QED
    BY <1>1, <1>20, <1>24, <1>25, <1>26, <1>27, <1>29 DEF Fit, mortal, t

\* A session changes, but for its token and what it says and knows of presence.
LEMMA TouchedFit ==
  ASSUME NEW sh, Fit(sh), NEW r \in Bound(sh), NEW s \in Sessions,
         s.token = sh.sessions[r].token, s.available = sh.sessions[r].available,
         s.known = sh.sessions[r].known
  PROVE  LET b == [sh EXCEPT !.sessions = [sh.sessions EXCEPT ![r] = s]]
         IN  /\ Fit(b) /\ Follows(sh, b) /\ Bound(b) = Bound(sh) /\ Live(b) = Live(sh)
             /\ b.alive = sh.alive /\ b.reported = sh.reported /\ b.retiring = sh.retiring
             /\ b.terminated = sh.terminated
  <1> DEFINE f == [sh.sessions EXCEPT ![r] = s]
             b == [sh EXCEPT !.sessions = f]
  <1>1. Sound(sh) /\ sh \in Shards /\ r \in Resources /\ Bound(sh) \subseteq Resources
    BY DEF Fit, Sound, Bound
  <1>2. /\ f \in [Resources -> Sessions \cup {None}]
        /\ \A q \in Resources : f[q] = IF q = r THEN s ELSE sh.sessions[q]
    BY <1>1 DEF Shards
  <1> HIDE DEF f
  <1>3. Rewrites(sh, f)
    BY <1>1, <1>2, NoneIsNoSession DEF Rewrites, Bound
  <1>4. /\ Sound(b) /\ Follows(sh, b) /\ Bound(b) = Bound(sh) /\ Live(b) = Live(sh)
        /\ \A R \in SUBSET Bound(sh) : TokensOf(b, R) = TokensOf(sh, R)
        /\ b.sessions = f /\ b.lastUnavailable = sh.lastUnavailable
        /\ b.alive = sh.alive /\ b.reported = sh.reported /\ b.retiring = sh.retiring
        /\ b.terminated = sh.terminated
    BY <1>1, <1>3, RewriteSound
  <1> HIDE DEF b
  <1>5. Available(b) = Available(sh)
    BY <1>1, <1>2, <1>4 DEF Available
  <1>6. Knowing(b, {})
    <2>1. \A q \in Live(sh) \cap Available(sh) :
             /\ b.sessions[q].known = sh.sessions[q].known
             /\ TokensOf(b, Available(sh) \ {q}) = TokensOf(sh, Available(sh) \ {q})
      BY <1>1, <1>2, <1>4 DEF Available, Live
    <2> QED
      BY <2>1, <1>4, <1>5 DEF Knowing, Fit
  <1>7. Past(b)
    BY <1>4, <1>5 DEF Past, Fit
  <1> QED
    BY <1>4, <1>6, <1>7 DEF Fit, b, f

-----------------------------------------------------------------------------
(* The inductive invariant *)

\* Tokens are given out in turn. The stream of a session knows its resource,
\* and so does the cleanup it left.
Places ==
  /\ \A t \in Tokens :
       /\ stream[t].pc = "none" <=> t > next
       /\ stream[t].pc \in {"held", "ended", "dropping"} => stream[t].resource \in Resources
  /\ \A r \in Bound(shard) :
       LET t == shard.sessions[r].token
       IN  /\ t <= next
           /\ stream[t].pc \in {"held", "ended", "dropping"} => stream[t].resource = r
  /\ \A c \in pending :
       /\ stream[c[2]].pc = "gone"
       /\ \A r \in Bound(shard) : shard.sessions[r].token = c[2] => r = c[1]

Streams == [Tokens -> [pc : {"none", "held", "ended", "dropping", "gone"},
                       resource : Resources \cup {None}]]

Shape ==
  /\ pending \subseteq Resources \X Tokens
  /\ next \in 0 .. MaxToken
  /\ state \in {"Running", "Stopping", "Failed"}
  /\ stream \in Streams

Core == Fit(shard) /\ Shape /\ Places /\ RetirementReported /\ NothingLeaks

Copies == found \subseteq Resources \X Tokens /\ strays = {}

IInv == Core /\ Copies

LEMMA IInvImplies ==
  ASSUME IInv
  PROVE  RetirementReported /\ NothingStays /\ SiblingsAreTrue
  <1>1. TypeOK
    BY DEF IInv, Core, Copies, Shape, Streams, Fit, Sound, TypeOK
  <1>2. CountMatches /\ CopiesStayInSnapshot /\ LastUnavailableIsPast
    BY DEF IInv, Core, Copies, Fit, Sound, Counted, Past, CountMatches,
           CopiesStayInSnapshot, LastUnavailableIsPast
  <1>3. NoGhostSiblings
    BY DEF IInv, Core, Fit, Knowing, NoGhostSiblings
  <1> QED
    BY <1>1, <1>2, <1>3 DEF IInv, Core, NothingStays, SiblingsAreTrue

LEMMA InitIInv == Init => IInv
  <1> SUFFICES ASSUME Init PROVE IInv
    OBVIOUS
  <1>1. Bound(shard) = {}
    BY DEF Init, Bound
  <1>2. Available(shard) = {} /\ Live(shard) = {} /\ TokensOf(shard, Bound(shard)) = {}
    BY <1>1 DEF Available, Live, TokensOf
  <1>3. shard \in Shards
    BY ShardAssumption DEF Init, Shards
  <1>4. Counted(shard)
    BY <1>1, FS_EmptySet DEF Init, Counted
  <1>5. Fit(shard)
    BY <1>1, <1>2, <1>3, <1>4 DEF Fit, Sound, Distinct, Knowing, Past
  <1>6. Shape
    BY ShardAssumption DEF Init, Shape, Streams
  <1>7. Places
    <2>1. \A t \in Tokens : stream[t].pc = "none" /\ t > next
      BY ShardAssumption DEF Init, Tokens
    <2>2. pending = {}
      BY DEF Init
    <2> QED
      BY <1>1, <2>1, <2>2 DEF Places
  <1>8. RetirementReported /\ NothingLeaks /\ Copies
    BY DEF Init, RetirementReported, NothingLeaks, Copies
  <1> QED
    BY <1>5, <1>6, <1>7, <1>8 DEF IInv, Core

-----------------------------------------------------------------------------
(* Operations under the lock *)

\* Nothing in a shard is of a stream that is gone.
Clean(sh) ==
  \A t \in Tokens : stream[t].pc = "gone" => t \notin TokensOf(sh, Bound(sh)) \cup sh.retiring

LEMMA CleanFollows ==
  ASSUME NEW a, NEW b, Clean(a), Follows(a, b)
  PROVE  Clean(b)
  BY DEF Clean, Follows, TokensOf

\* What a set of cleanups leaves is clean, if they are for the right places and
\* for all that is left of the streams in G.
LEMMA CleanedClean ==
  ASSUME Core, NEW cleanups \in SUBSET (Resources \X Tokens), NEW G \in SUBSET Tokens,
         \A c \in cleanups : \A r \in Bound(shard) : shard.sessions[r].token = c[2] => r = c[1],
         \A t \in G : \/ \E c \in cleanups : c[2] = t
                     \/ t \notin TokensOf(shard, Bound(shard)) \cup shard.retiring
  PROVE  LET b == Cleaned(shard, cleanups)
         IN  \A t \in G : t \notin TokensOf(b, Bound(b)) \cup b.retiring
  <1> DEFINE b == Cleaned(shard, cleanups)
  <1>1. /\ Follows(shard, b)
        /\ \A r \in Bound(b) : <<r, b.sessions[r].token>> \notin cleanups
        /\ \A c \in cleanups : c[2] \notin b.retiring
    BY CleanedSound DEF Core, Fit
  <1> HIDE DEF b
  <1>2. ASSUME NEW t \in G, t \in TokensOf(b, Bound(b)) \cup b.retiring
        PROVE  FALSE
    <2>1. t \in TokensOf(shard, Bound(shard)) \cup shard.retiring
      BY <1>1, <1>2 DEF Follows, TokensOf
    <2>2. PICK c \in cleanups : c[2] = t
      BY <1>2, <2>1
    <2>3. t \in TokensOf(b, Bound(b))
      BY <1>1, <1>2, <2>2
    <2>4. PICK r \in Bound(b) : b.sessions[r].token = t
      BY <2>3 DEF TokensOf
    <2>5. r \in Bound(shard) /\ shard.sessions[r].token = t
      BY <1>1, <2>4 DEF Follows
    <2>6. r = c[1]
      BY <2>2, <2>5
    <2>7. c = <<r, t>>
      BY <2>2, <2>6
    <2> QED
      BY <1>1, <2>2, <2>4, <2>7
  <1> QED
    BY <1>2 DEF b

\* The cleanups that wait make the shard clean.
LEMMA LockedFit ==
  ASSUME Core, Serving
  PROVE  Fit(Locked) /\ Follows(shard, Locked) /\ Clean(Locked)
  <1>1. CASE pending = {}
    <2>1. Locked = shard
      BY <1>1 DEF Locked
    <2>2. Clean(shard)
      BY <1>1 DEF Core, NothingLeaks, Clean
    <2> QED
      BY <2>1, <2>2, FollowsItself DEF Core
  <1>2. CASE pending # {}
    <2> DEFINE b == Cleaned(shard, pending)
               G == {t \in Tokens : stream[t].pc = "gone"}
    <2>1. Locked = b
      BY <1>2 DEF Locked
    <2>2. Fit(b) /\ Follows(shard, b)
      BY CleanedFit DEF Core
    <2>3. /\ pending \in SUBSET (Resources \X Tokens)
          /\ \A c \in pending : \A r \in Bound(shard) :
                shard.sessions[r].token = c[2] => r = c[1]
      BY DEF Core, Shape, Places
    <2>4. \A t \in G : \/ \E c \in pending : c[2] = t
                      \/ t \notin TokensOf(shard, Bound(shard)) \cup shard.retiring
      BY DEF Core, NothingLeaks
    <2>5. \A t \in G : t \notin TokensOf(b, Bound(b)) \cup b.retiring
      BY <2>3, <2>4, CleanedClean
    <2> HIDE DEF b
    <2>6. Clean(b)
      BY <2>5 DEF Clean
    <2> QED
      BY <2>1, <2>2, <2>6
  <1> QED
    BY <1>1, <1>2

LEMMA OperationKeeps ==
  ASSUME Core, Serving, NEW b, Fit(b), Follows(Locked, b), Done(b), UNCHANGED <<router, stream>>
  PROVE  Core'
  <1>1. Follows(shard, b) /\ Clean(b)
    BY LockedFit, FollowsChain, CleanFollows
  <1>2. shard' = b /\ pending' = {} /\ next' = next /\ state' = state /\ stream' = stream
    BY DEF Done, router
  <1>3. Shape'
    BY <1>2 DEF Core, Shape
  <1>4. Places'
    BY <1>1, <1>2 DEF Core, Places, Follows, Bound
  <1>5. RetirementReported'
    BY <1>1, <1>2 DEF Core, RetirementReported, Follows, Held
  <1>6. NothingLeaks'
    BY <1>1, <1>2 DEF NothingLeaks, Clean, TokensOf, Bound
  <1>7. Fit(shard)'
    BY <1>2 DEF Fit, Sound, Distinct, Counted, Knowing, Past, Bound, Live, Available, TokensOf
  <1> QED
    BY <1>3, <1>4, <1>5, <1>6, <1>7 DEF Core

-----------------------------------------------------------------------------
(* The actions that register nothing and end nothing *)

LEMMA TakeKeeps ==
  ASSUME Core, NEW t \in Tokens, Take(t)
  PROVE  Core'
  <1>1. PICK r \in Resources :
          /\ Owns(shard, r, t) /\ shard.sessions[r].box > 0
          /\ \E left \in {shard.sessions[r].box - 1, 0} :
               shard' = [shard EXCEPT !.sessions[r].box = left]
    BY DEF Take
  <1>11. PICK left \in {shard.sessions[r].box - 1, 0} :
          shard' = [shard EXCEPT !.sessions[r].box = left]
    BY <1>1
  <1> DEFINE s == [shard.sessions[r] EXCEPT !.box = left]
             b == [shard EXCEPT !.sessions = [shard.sessions EXCEPT ![r] = s]]
  <1>2. r \in Bound(shard) /\ shard \in Shards
    BY <1>1 DEF Owns, Bound, Core, Fit, Sound
  <1>3. shard' = b
    BY <1>11, <1>2 DEF Shards
  <1>4. /\ s \in Sessions /\ s.token = shard.sessions[r].token
        /\ s.available = shard.sessions[r].available /\ s.known = shard.sessions[r].known
    BY <1>11, <1>1, <1>2, BoundIsSession, ShardAssumption DEF Sessions
  <1> HIDE DEF s
  <1>5. /\ Fit(b) /\ Follows(shard, b)
        /\ b.alive = shard.alive /\ b.reported = shard.reported /\ b.retiring = shard.retiring
        /\ b.terminated = shard.terminated
    BY <1>2, <1>4, TouchedFit DEF Core
  <1> HIDE DEF b
  <1>6. /\ pending' = pending /\ next' = next /\ state' = state /\ stream' = stream
    BY DEF Take, router
  <1>7. Shape' /\ RetirementReported'
    BY <1>3, <1>5, <1>6 DEF Core, Shape, RetirementReported
  <1>8. Places'
    BY <1>3, <1>5, <1>6 DEF Core, Places, Follows, Bound
  <1>9. NothingLeaks'
    BY <1>3, <1>5, <1>6 DEF Core, NothingLeaks, Follows, Bound, TokensOf, Serving
  <1>10. Fit(shard)'
    BY <1>3, <1>5 DEF Fit, Sound, Distinct, Counted, Knowing, Past, Bound, Live, Available, TokensOf
  <1> QED
    BY <1>7, <1>8, <1>9, <1>10 DEF Core

LEMMA TagTouches ==
  ASSUME Core, NEW t \in Tokens, Tag(t) \/ Untag(t)
  PROVE  /\ Serving /\ UNCHANGED <<router, stream>>
         /\ \E b : Fit(b) /\ Follows(Locked, b) /\ Live(b) = Live(Locked) /\ Done(b)
  <1>1. Serving /\ UNCHANGED <<router, stream>>
    BY DEF Tag, Untag
  <1>2. PICK r \in Resources : \E tagged \in BOOLEAN, cut \in BOOLEAN :
          /\ Owns(Locked, r, t)
          /\ Done([Locked EXCEPT !.sessions[r].tagged = tagged,
                                 !.sessions[r].box = IF cut THEN 0 ELSE @])
    <2>1. CASE Tag(t)
      BY <2>1 DEF Tag
    <2>2. CASE Untag(t)
      BY <2>2 DEF Untag, Tagged, Bound
    <2> QED
      BY <2>1, <2>2
  <1>3. PICK tagged \in BOOLEAN, cut \in BOOLEAN :
          Done([Locked EXCEPT !.sessions[r].tagged = tagged,
                              !.sessions[r].box = IF cut THEN 0 ELSE @])
    BY <1>2
  <1> DEFINE sh == Locked
             s == [sh.sessions[r] EXCEPT !.tagged = tagged, !.box = IF cut THEN 0 ELSE @]
             b == [sh EXCEPT !.sessions = [sh.sessions EXCEPT ![r] = s]]
  <1>4. Fit(sh)
    BY <1>1, LockedFit
  <1> HIDE DEF sh
  <1>5. r \in Bound(sh) /\ sh \in Shards
    BY <1>2, <1>4 DEF Owns, Bound, Fit, Sound, sh
  <1>6. /\ s \in Sessions /\ s.token = sh.sessions[r].token
        /\ s.available = sh.sessions[r].available /\ s.known = sh.sessions[r].known
    <2> DEFINE w == sh.sessions[r]
               box == IF cut THEN 0 ELSE w.box
    <2>1. w \in Sessions
      BY <1>5, BoundIsSession
    <2>2. box \in 0 .. Capacity
      BY <2>1, ShardAssumption DEF Sessions
    <2>3. s = [w EXCEPT !.tagged = tagged, !.box = box]
      BY <2>1 DEF Sessions
    <2> HIDE DEF w, box, s
    <2> QED
      BY <2>1, <2>2, <2>3 DEF Sessions, w
  <1>7. [sh EXCEPT !.sessions[r].tagged = tagged, !.sessions[r].box = IF cut THEN 0 ELSE @] = b
    BY <1>5, BoundIsSession DEF Shards, Sessions
  <1> HIDE DEF s
  <1>8. Fit(b) /\ Follows(sh, b) /\ Live(b) = Live(sh)
    BY <1>4, <1>5, <1>6, TouchedFit
  <1>9. Done(b)
    BY <1>3, <1>7 DEF sh
  <1> HIDE DEF b
  <1> QED
    BY <1>1, <1>8, <1>9 DEF sh

LEMMA TagKeeps ==
  ASSUME Core, NEW t \in Tokens, Tag(t) \/ Untag(t)
  PROVE  Core'
  BY TagTouches, OperationKeeps

LEMMA SetPresenceKeeps ==
  ASSUME Core, NEW t \in Tokens, NEW available \in BOOLEAN, SetPresence(t, available)
  PROVE  Core'
  <1>1. /\ Serving /\ UNCHANGED <<router, stream>>
        /\ \E r \in Resources : Owns(Locked, r, t) /\ Done(Announced(Locked, r, available))
    BY DEF SetPresence
  <1>2. PICK r \in Resources : Owns(Locked, r, t) /\ Done(Announced(Locked, r, available))
    BY <1>1
  <1>3. Fit(Locked) /\ r \in Live(Locked)
    BY <1>1, <1>2, LockedFit DEF Owns, Live, Bound
  <1> QED
    BY <1>1, <1>2, <1>3, AnnouncedFit, OperationKeeps

\* A delivery loses whoever has no room for it, and may lose the tagged
\* sessions.
LEMMA DeliveryLoses ==
  ASSUME Core, DeliveryStep
  PROVE  /\ Serving /\ UNCHANGED <<router, stream>>
         /\ \E b : Fit(b) /\ Follows(Locked, b) /\ Lost(Locked, b, 1, Tagged(Locked)) /\ Done(b)
  <1> DEFINE sh == Locked
  <1>1. Serving /\ UNCHANGED <<router, stream>>
    BY DEF DeliveryStep, DeliverFull, DeliverBare, DeliverPresence, DeliverToTagged,
           FindTagged, DeliverCopies
  <1>2. Fit(sh)
    BY <1>1, LockedFit
  <1>3. \A c : Reach(c) \subseteq SUBSET (Bound(c) \ Full(c))
    BY DEF Reach, Live
  <1>4. SUFFICES \E b : Fit(b) /\ Follows(sh, b) /\ Lost(sh, b, 1, Tagged(sh)) /\ Done(b)
    BY <1>1
  <1> HIDE DEF sh
  <1>11. sh \in Shards /\ Sound(sh)
    BY <1>2 DEF Fit, Sound
  <1>12. \A b : Live(sh) \subseteq Live(b) => Lost(sh, b, 1, Tagged(sh))
    BY DEF Lost
  <1>13. ASSUME NEW b, NEW n \in {0, 1}, NEW X, Lost(sh, b, n, X),
                X \cap Live(sh) \subseteq Tagged(sh)
         PROVE  Lost(sh, b, 1, Tagged(sh))
    BY <1>11, <1>13, LostWeaker
  <1>14. ASSUME NEW R \in SUBSET Bound(sh)
         PROVE  Lost(sh, Sent(sh, R), 1, Tagged(sh))
    BY <1>11, <1>13, SentLost
  <1>15. ASSUME NEW R \in SUBSET Bound(sh), R \cap Live(sh) \subseteq Tagged(sh)
         PROVE  Lost(sh, Remove(sh, R, TRUE), 1, Tagged(sh))
    <2>1. Lost(sh, Remove(sh, R, TRUE), 0, R)
      BY <1>11, RemoveWorn DEF Worn
    <2> QED
      BY <1>13, <1>15, <2>1
  <1>16. ASSUME NEW R \in SUBSET (Bound(sh) \ Full(sh))
         PROVE  Lost(sh, Queued(sh, R), 1, Tagged(sh))
    BY <1>11, <1>12, QueuedSound
  <1>5. ASSUME NEW r \in Resources, DeliverFull(r)
        PROVE  \E b : Fit(b) /\ Follows(sh, b) /\ Lost(sh, b, 1, Tagged(sh)) /\ Done(b)
    <2> DEFINE removed == Remove(sh, {r}, TRUE)
    <2>1. CASE Done(sh)
      BY <2>1, <1>2, <1>12, FollowsItself
    <2>2. CASE r \in Live(sh) \ Full(sh) /\ Done(Queued(sh, {r}))
      <3>1. {r} \in SUBSET (Bound(sh) \ Full(sh))
        BY <2>2 DEF Live
      <3> QED
        BY <3>1, <2>2, <1>2, <1>16, QueuedFit
    <2>3. CASE r \notin Live(sh) /\ \E R \in Reach(removed) : Done(Queued(removed, R))
      <3>1. r \in Bound(sh) /\ \E R \in Reach(removed) : Done(Queued(removed, R))
        BY <2>3, <1>5 DEF DeliverFull, sh
      <3>2. Fit(removed) /\ Follows(sh, removed) /\ Lost(sh, removed, 1, Tagged(sh))
        BY <2>3, <3>1, <1>2, <1>15, RemoveFit
      <3>3. PICK R \in Reach(removed) : Done(Queued(removed, R))
        BY <3>1
      <3> HIDE DEF removed
      <3>4. R \in SUBSET (Bound(removed) \ Full(removed))
        BY <1>3
      <3>5. Fit(Queued(removed, R)) /\ Follows(removed, Queued(removed, R))
        BY <3>2, <3>4, QueuedFit
      <3>6. Live(Queued(removed, R)) = Live(removed) /\ Bound(Queued(removed, R)) = Bound(removed)
        BY <3>2, <3>4, QueuedSound DEF Fit
      <3>7. Lost(sh, Queued(removed, R), 1, Tagged(sh))
        BY <3>2, <3>6 DEF Lost, Gone
      <3> QED
        BY <3>2, <3>3, <3>5, <3>7, FollowsChain
    <2> QED
      BY <1>5, <2>1, <2>2, <2>3 DEF DeliverFull, sh
  <1>6. ASSUME DeliverBare
        PROVE  \E b : Fit(b) /\ Follows(sh, b) /\ Lost(sh, b, 1, Tagged(sh)) /\ Done(b)
    <2>1. PICK R \in Reach(sh) : Done(Queued(sh, R))
      BY <1>6 DEF DeliverBare, sh
    <2>2. R \in SUBSET (Bound(sh) \ Full(sh))
      BY <1>3
    <2> QED
      BY <2>1, <2>2, <1>2, <1>16, QueuedFit
  <1>7. ASSUME DeliverPresence
        PROVE  \E b : Fit(b) /\ Follows(sh, b) /\ Lost(sh, b, 1, Tagged(sh)) /\ Done(b)
    <2> DEFINE R == Available(sh)
    <2>1. Done(Sent(sh, R)) \/ Done(Remove(sh, R \ Live(sh), TRUE))
      BY <1>7 DEF DeliverPresence, sh
    <2>2. R \in SUBSET Bound(sh) /\ R \ Live(sh) \in SUBSET Bound(sh)
      BY DEF Available
    <2>3. Lost(sh, Sent(sh, R), 1, Tagged(sh)) /\ Fit(Sent(sh, R)) /\ Follows(sh, Sent(sh, R))
      BY <2>2, <1>2, <1>14, SentFit
    <2>4. LET b == Remove(sh, R \ Live(sh), TRUE)
          IN  Lost(sh, b, 1, Tagged(sh)) /\ Fit(b) /\ Follows(sh, b)
      BY <2>2, <1>2, <1>15, RemoveFit
    <2> HIDE DEF R
    <2> QED
      BY <2>1, <2>3, <2>4
  <1>8. ASSUME DeliverToTagged
        PROVE  \E b : Fit(b) /\ Follows(sh, b) /\ Lost(sh, b, 1, Tagged(sh)) /\ Done(b)
    <2> DEFINE R == Tagged(sh)
    <2>1. Done(Sent(sh, R)) \/ Done(Remove(sh, R, TRUE))
      BY <1>8 DEF DeliverToTagged, sh
    <2>2. R \in SUBSET Bound(sh)
      BY DEF Tagged
    <2>3. Lost(sh, Sent(sh, R), 1, Tagged(sh)) /\ Fit(Sent(sh, R)) /\ Follows(sh, Sent(sh, R))
      BY <2>2, <1>2, <1>14, SentFit
    <2>4. LET b == Remove(sh, R, TRUE)
          IN  Lost(sh, b, 1, Tagged(sh)) /\ Fit(b) /\ Follows(sh, b)
      BY <2>2, <1>2, <1>15, RemoveFit
    <2> HIDE DEF R
    <2> QED
      BY <2>1, <2>3, <2>4
  <1>9. ASSUME FindTagged
        PROVE  \E b : Fit(b) /\ Follows(sh, b) /\ Lost(sh, b, 1, Tagged(sh)) /\ Done(b)
    <2>1. Done(sh)
      BY <1>9 DEF FindTagged, sh
    <2> QED
      BY <2>1, <1>2, <1>12, FollowsItself
  <1>10. ASSUME DeliverCopies
         PROVE  \E b : Fit(b) /\ Follows(sh, b) /\ Lost(sh, b, 1, Tagged(sh)) /\ Done(b)
    <2>1. Done(Sent(sh, CopyTargets(sh))) /\ CopyTargets(sh) \in SUBSET Bound(sh)
      BY <1>10 DEF DeliverCopies, CopyTargets, Tagged, sh
    <2> QED
      BY <2>1, <1>2, <1>14, SentFit
  <1> QED
    BY <1>5, <1>6, <1>7, <1>8, <1>9, <1>10 DEF DeliveryStep

LEMMA DeliveryKeeps ==
  ASSUME Core, DeliveryStep
  PROVE  Core'
  BY DeliveryLoses, OperationKeeps

LEMMA RetireAccountKeeps ==
  ASSUME Core, RetireAccount
  PROVE  Core'
  <1> DEFINE sh == Locked
             a == [sh EXCEPT !.lastUnavailable = FALSE]
             b == Remove(a, Bound(sh), FALSE)
  <1>1. Serving /\ Done(b) /\ UNCHANGED <<router, stream>>
    BY DEF RetireAccount
  <1>2. Fit(sh)
    BY <1>1, LockedFit
  <1> HIDE DEF sh
  <1>3. /\ Sound(a) /\ Follows(sh, a) /\ a.lastUnavailable = FALSE
        /\ a.sessions = sh.sessions /\ a.alive = sh.alive
    BY <1>2, TimeSound DEF Fit
  <1> HIDE DEF a
  <1>4. Fit(a) /\ Bound(a) = Bound(sh)
    BY <1>2, <1>3, SameSessions DEF Fit, Past
  <1>5. Fit(b) /\ Follows(a, b)
    BY <1>4, RemoveFit
  <1> HIDE DEF b
  <1>6. Follows(sh, b)
    BY <1>3, <1>5, FollowsChain
  <1> QED
    BY <1>1, <1>5, <1>6, OperationKeeps DEF sh

LEMMA FinishPresenceKeeps ==
  ASSUME Core, NEW t \in Tokens, FinishPresence(t)
  PROVE  Core'
  <1>1. CASE Serving
    <2> DEFINE sh == Locked
               b == [sh EXCEPT !.retiring = @ \ {t}]
    <2>1. Done(b) /\ UNCHANGED <<router, stream>>
      BY <1>1 DEF FinishPresence
    <2>2. Fit(sh)
      BY <1>1, LockedFit
    <2> HIDE DEF sh
    <2>3. /\ Sound(b) /\ Follows(sh, b) /\ b.sessions = sh.sessions /\ b.alive = sh.alive
          /\ b.lastUnavailable = sh.lastUnavailable
      BY <2>2, ForgetSound DEF Fit
    <2> HIDE DEF b
    <2>4. Fit(b)
      BY <2>2, <2>3, SameSessions DEF Fit, Past
    <2> QED
      BY <1>1, <2>1, <2>3, <2>4, OperationKeeps DEF sh
  <1>2. CASE ~Serving
    <2>1. UNCHANGED <<shard, pending, next, state, stream>>
      BY <1>2 DEF FinishPresence, router
    <2> QED
      BY <2>1 DEF Core, Shape, Places, RetirementReported, NothingLeaks, Serving, Fit, Sound,
                  Distinct, Counted, Knowing, Past, Bound, Live, Available, TokensOf
  <1> QED
    BY <1>1, <1>2

-----------------------------------------------------------------------------
(* Registration *)

\* A shard with one session more.
Registered(sh, r, t) ==
  [sh EXCEPT !.sessions[r] = [token |-> t, box |-> 0, available |-> FALSE,
                              tagged |-> FALSE, known |-> {}],
             !.alive = @ \cup {t},
             !.count = @ + 1]

LEMMA RegisteredFit ==
  ASSUME NEW sh, Fit(sh), NEW r \in Resources \ Bound(sh),
         NEW t \in Tokens, t \notin TokensOf(sh, Bound(sh)),
         Cardinality(Bound(sh)) < Limit
  PROVE  LET b == Registered(sh, r, t)
         IN  /\ Fit(b)
             /\ Bound(b) = Bound(sh) \cup {r}
             /\ b.sessions[r].token = t
             /\ \A q \in Bound(sh) : b.sessions[q].token = sh.sessions[q].token
             /\ b.alive = sh.alive \cup {t}
             /\ b.reported = sh.reported /\ b.retiring = sh.retiring
             /\ b.terminated = sh.terminated
  <1> DEFINE s == [token |-> t, box |-> 0, available |-> FALSE, tagged |-> FALSE, known |-> {}]
             f == [sh.sessions EXCEPT ![r] = s]
             b == Registered(sh, r, t)
  <1>1. sh \in Shards /\ Distinct(sh) /\ sh.count = Cardinality(Bound(sh))
    BY DEF Fit, Sound, Counted
  <1>2. s \in Sessions /\ s.token = t /\ ~s.available
    BY ShardAssumption DEF Sessions
  <1> HIDE DEF s
  <1>3. /\ f \in [Resources -> Sessions \cup {None}]
        /\ f[r] = s /\ \A q \in Resources : q # r => f[q] = sh.sessions[q]
    BY <1>1, <1>2 DEF Shards
  <1>4. IsFiniteSet(Bound(sh)) /\ Cardinality(Bound(sh)) \in Nat
    BY BoundIsFinite
  <1>5. sh.count + 1 \in 0 .. Limit /\ Cardinality(Bound(sh) \cup {r}) = sh.count + 1
    <2>1. Cardinality(Bound(sh) \cup {r}) = Cardinality(Bound(sh)) + 1
      BY <1>4, FS_AddElement
    <2> QED
      BY <2>1, <1>1, <1>4, ShardAssumption
  <1>6. b = [sh EXCEPT !.sessions = f, !.alive = sh.alive \cup {t}, !.count = sh.count + 1]
    BY DEF Registered, s
  <1> HIDE DEF b, f
  <1>7. /\ b \in Shards /\ b.sessions = f /\ b.alive = sh.alive \cup {t}
        /\ b.count = sh.count + 1 /\ b.lastUnavailable = sh.lastUnavailable
        /\ b.reported = sh.reported /\ b.retiring = sh.retiring
        /\ b.terminated = sh.terminated
    BY <1>1, <1>3, <1>5, <1>6 DEF Shards
  <1>8. Bound(b) = Bound(sh) \cup {r}
    BY <1>2, <1>3, <1>7, NoneIsNoSession DEF Bound
  <1>9. /\ b.sessions[r] = s
        /\ \A q \in Bound(sh) : q # r /\ b.sessions[q] = sh.sessions[q]
    BY <1>3, <1>7 DEF Bound
  <1>10. Available(b) = Available(sh) /\ Live(b) = Live(sh) \cup {r}
    BY <1>2, <1>7, <1>8, <1>9 DEF Available, Live, TokensOf
  <1>11. \A R \in SUBSET Bound(sh) : TokensOf(b, R) = TokensOf(sh, R)
    BY <1>9 DEF TokensOf
  <1>12. Distinct(b)
    BY <1>1, <1>2, <1>8, <1>9 DEF Distinct, TokensOf
  <1>13. Counted(b)
    BY <1>5, <1>7, <1>8 DEF Counted
  <1>14. Knowing(b, {})
    <2> SUFFICES ASSUME NEW q \in Live(b) \cap Available(b)
                 PROVE  b.sessions[q].known = TokensOf(b, Available(b) \ {q})
      BY DEF Knowing
    <2>1. q \in Live(sh) /\ q \in Available(sh) /\ q \in Bound(sh)
      BY <1>10 DEF Available
    <2>2. sh.sessions[q].known = TokensOf(sh, Available(sh) \ {q})
      BY <2>1 DEF Fit, Knowing
    <2>3. Available(sh) \ {q} \in SUBSET Bound(sh)
      BY DEF Available
    <2> QED
      BY <2>1, <2>2, <2>3, <1>9, <1>10, <1>11
  <1>15. Past(b)
    BY <1>7, <1>10 DEF Past, Fit
  <1> QED
    BY <1>2, <1>7, <1>8, <1>9, <1>12, <1>13, <1>14, <1>15 DEF Fit, Sound, b, s

LEMMA RegisterKeeps ==
  ASSUME Core, Register
  PROVE  Core'
  <1> DEFINE sh == Locked
             swept == Remove(sh, Bound(sh) \ Live(sh), TRUE)
             t == next + 1
             full == Cardinality(Bound(swept)) >= Limit
  <1>1. /\ Serving /\ next < MaxToken /\ state' = state
        /\ full => Done(swept) /\ UNCHANGED <<next, stream>>
        /\ ~full => \E r \in Resources \ Bound(swept) :
             /\ Done(Registered(swept, r, t))
             /\ next' = t
             /\ stream' = [stream EXCEPT ![t] = [pc |-> "held", resource |-> r]]
    BY DEF Register, Registered
  <1>2. Fit(sh) /\ Follows(shard, sh) /\ Clean(sh)
    BY <1>1, LockedFit
  <1>3. Fit(swept) /\ Follows(sh, swept)
    BY <1>2, RemoveFit
  <1>4. CASE full
    BY <1>1, <1>3, <1>4, OperationKeeps DEF router
  <1>5. CASE ~full
    <2> HIDE DEF swept, sh
    <2>1. Follows(shard, swept) /\ Clean(swept)
      BY <1>2, <1>3, FollowsChain, CleanFollows
    <2>2. PICK r \in Resources \ Bound(swept) :
             /\ Done(Registered(swept, r, t))
             /\ next' = t
             /\ stream' = [stream EXCEPT ![t] = [pc |-> "held", resource |-> r]]
      BY <1>1, <1>5
    <2> DEFINE b == Registered(swept, r, t)
    <2>3. t \in Tokens /\ next \in Nat /\ t \in Nat
      <3>1. next \in 0 .. MaxToken /\ next < MaxToken
        BY DEF Core, Shape, Register
      <3> QED
        BY <3>1, ShardAssumption DEF Tokens
    <2>4. \A q \in Bound(swept) : /\ q \in Bound(shard)
                                 /\ swept.sessions[q].token = shard.sessions[q].token
                                 /\ swept.sessions[q].token \in Tokens
                                 /\ swept.sessions[q].token <= next
      BY <1>3, <2>1, BoundIsSession DEF Follows, Core, Places, Fit, Sound
    <2>5. t \notin TokensOf(swept, Bound(swept))
      BY <2>3, <2>4, ShardAssumption DEF TokensOf, Tokens
    <2>6. Cardinality(Bound(swept)) < Limit
      BY <1>5, BoundIsFinite, ShardAssumption
    <2> HIDE DEF t
    <2>7. /\ Fit(b)
          /\ Bound(b) = Bound(swept) \cup {r}
          /\ b.sessions[r].token = t
          /\ \A q \in Bound(swept) : b.sessions[q].token = swept.sessions[q].token
          /\ b.alive = swept.alive \cup {t}
          /\ b.reported = swept.reported /\ b.retiring = swept.retiring
      BY <1>3, <2>3, <2>5, <2>6, RegisteredFit
    <2>8. shard' = b /\ pending' = {}
      BY <2>2 DEF Done
    <2> HIDE DEF b
    <2>9. /\ stream' \in Streams
          /\ stream'[t].pc = "held" /\ stream'[t].resource = r
          /\ \A u \in Tokens : u # t => stream'[u] = stream[u]
      BY <2>2, <2>3 DEF Core, Shape, Streams
    <2>10. Shape'
      <3>1. state' = state /\ next' \in 0 .. MaxToken
        BY <1>1, <2>2, <2>3, ShardAssumption DEF Tokens
      <3> QED
        BY <3>1, <2>8, <2>9 DEF Core, Shape
    <2>11. Places'
      <3>1. \A u \in Tokens : (u > t <=> u > next /\ u # t)
        BY <2>3, ShardAssumption DEF Tokens, t
      <3>2. ASSUME NEW u \in Tokens
            PROVE  /\ stream'[u].pc = "none" <=> u > next'
                   /\ stream'[u].pc \in {"held", "ended", "dropping"}
                        => stream'[u].resource \in Resources
        BY <2>2, <2>3, <2>9, <3>1 DEF Core, Places, t
      <3>3. ASSUME NEW q \in Bound(b)
            PROVE  /\ b.sessions[q].token <= next'
                   /\ stream'[b.sessions[q].token].pc \in {"held", "ended", "dropping"}
                        => stream'[b.sessions[q].token].resource = q
        <4>1. CASE q = r
          BY <4>1, <2>2, <2>3, <2>7, <2>9
        <4>2. CASE q # r
          <5>1. /\ q \in Bound(shard) /\ b.sessions[q].token = shard.sessions[q].token
                /\ b.sessions[q].token \in Tokens /\ b.sessions[q].token <= next
            BY <4>2, <2>4, <2>7
          <5>2. b.sessions[q].token # t /\ b.sessions[q].token <= t
            BY <5>1, <2>3, ShardAssumption DEF Tokens, t
          <5> QED
            BY <5>1, <5>2, <2>2, <2>9 DEF Core, Places
        <4> QED
          BY <4>1, <4>2
      <3>4. Bound(shard)' = Bound(b)
        BY <2>8 DEF Bound
      <3> QED
        BY <3>2, <3>3, <3>4, <2>8 DEF Places
    <2>12. RetirementReported'
      BY <2>1, <2>7, <2>8, <2>9 DEF Core, RetirementReported, Follows, Held
    <2>13. NothingLeaks'
      <3>1. \A u \in Tokens : stream'[u].pc = "gone" =>
               u \notin TokensOf(b, Bound(b)) \cup b.retiring
        BY <2>1, <2>7, <2>9 DEF Clean, TokensOf
      <3> QED
        BY <3>1, <2>8 DEF NothingLeaks, TokensOf, Bound
    <2>14. Fit(shard)'
      BY <2>7, <2>8 DEF Fit, Sound, Distinct, Counted, Knowing, Past, Bound, Live, Available,
                        TokensOf
    <2> QED
      BY <2>10, <2>11, <2>12, <2>13, <2>14 DEF Core
  <1> QED
    BY <1>4, <1>5

-----------------------------------------------------------------------------
(* The end of a stream *)

\* A stream that is served no more moves on, and leaves the shard as b.
LEMMA StreamMoves ==
  ASSUME Core, NEW t \in Tokens, NEW pc \in {"ended", "dropping"},
         stream[t].pc \in {"held", "ended"},
         stream' = [stream EXCEPT ![t].pc = pc],
         next' = next, state' = state,
         NEW b, shard' = b, Fit(b),
         b.terminated = shard.terminated,
         \A r \in Bound(b) : r \in Bound(shard) /\ b.sessions[r].token = shard.sessions[r].token,
         \A u \in Held : u # t /\ u \notin b.alive => u \in b.reported,
         \/ pending' = {} /\ Clean(b)
         \/ pending' = pending /\ b.retiring \subseteq shard.retiring
  PROVE  Core'
  <1>1. /\ stream' \in Streams
        /\ stream'[t].pc = pc /\ stream'[t].resource = stream[t].resource
        /\ \A u \in Tokens : u # t => stream'[u] = stream[u]
    BY DEF Core, Shape, Streams
  <1>2. Shape'
    BY <1>1 DEF Core, Shape
  <1>3. Bound(shard)' = Bound(b)
    BY DEF Bound
  <1>4. Places'
    <2>1. \A u \in Tokens :
            /\ stream'[u].pc = "none" <=> u > next'
            /\ stream'[u].pc \in {"held", "ended", "dropping"}
                 => stream'[u].resource \in Resources
      BY <1>1 DEF Core, Places
    <2>2. \A r \in Bound(b) : b.sessions[r].token \in Tokens
      BY BoundIsSession DEF Fit, Sound
    <2>3. ASSUME NEW r \in Bound(b)
          PROVE  /\ b.sessions[r].token <= next'
                 /\ stream'[b.sessions[r].token].pc \in {"held", "ended", "dropping"}
                      => stream'[b.sessions[r].token].resource = r
      BY <1>1, <2>2 DEF Core, Places
    <2>4. ASSUME NEW c \in pending'
          PROVE  /\ stream'[c[2]].pc = "gone"
                 /\ \A r \in Bound(b) : b.sessions[r].token = c[2] => r = c[1]
      <3>1. c \in pending /\ c[2] \in Tokens
        BY DEF Core, Shape
      <3> QED
        BY <3>1, <1>1 DEF Core, Places
    <2> QED
      BY <1>3, <2>1, <2>3, <2>4 DEF Places
  <1>5. RetirementReported'
    BY <1>1 DEF RetirementReported, Held
  <1>6. NothingLeaks'
    <2> SUFFICES ASSUME Serving', NEW u \in Tokens, stream'[u].pc = "gone",
                        ~ \E c \in pending' : c[2] = u
                 PROVE  u \notin TokensOf(b, Bound(b)) \cup b.retiring
      BY DEF NothingLeaks, TokensOf, Bound
    <2>1. Serving /\ stream[u].pc = "gone"
      BY <1>1 DEF Serving
    <2>2. CASE Clean(b)
      BY <2>1, <2>2 DEF Clean
    <2>3. CASE pending' = pending /\ b.retiring \subseteq shard.retiring
      BY <2>1, <2>3 DEF Core, NothingLeaks, TokensOf
    <2> QED
      BY <2>2, <2>3
  <1>7. Fit(shard)'
    BY DEF Fit, Sound, Distinct, Counted, Knowing, Past, Bound, Live, Available, TokensOf
  <1> QED
    BY <1>2, <1>4, <1>5, <1>6, <1>7 DEF Core

LEMMA EndPresenceKeeps ==
  ASSUME Core, NEW t \in Tokens, EndPresence(t)
  PROVE  Core'
  <1> DEFINE sh == Locked
  <1>1. /\ stream[t].pc = "held" /\ stream' = [stream EXCEPT ![t].pc = "ended"]
        /\ next' = next /\ state' = state
    BY DEF EndPresence, router
  <1>2. \A u \in Held : u \notin shard.alive => u \in shard.reported
    BY DEF Core, RetirementReported, Held
  <1>3. CASE ~Serving
    <2>1. shard' = shard /\ pending' = pending
      BY <1>3 DEF EndPresence
    <2> QED
      BY <1>1, <1>2, <2>1, StreamMoves DEF Core
  <1>4. ASSUME Serving, NEW r \in Resources, Owns(sh, r, t), Done(Withdrawn(sh, r))
        PROVE  Core'
    <2> DEFINE b == Withdrawn(sh, r)
               a == Without(sh, t)
    <2>1. Fit(sh) /\ Follows(shard, sh) /\ Clean(sh)
      BY <1>4, LockedFit
    <2>2. r \in Live(sh) /\ sh.sessions[r].token = t /\ r \in Bound(sh)
      BY <1>4 DEF Owns, Live, Bound
    <2>3. Fit(b) /\ Follows(a, b)
      BY <2>1, <2>2, WithdrawnFit
    <2>4. shard' = b /\ pending' = {}
      BY <1>4 DEF Done
    <2> HIDE DEF sh
    <2>5. /\ a.sessions = sh.sessions /\ a.alive = sh.alive \ {t} /\ a.reported = sh.reported
          /\ a.retiring = sh.retiring /\ a.terminated = sh.terminated
      BY <2>1, <2>2, WithoutSound DEF Fit
    <2> HIDE DEF b, a
    <2>6. Bound(a) = Bound(sh) /\ \A R : TokensOf(a, R) = TokensOf(sh, R)
      BY <2>5, SameSessions
    <2>7. Clean(b)
      <3>1. Clean(a)
        BY <2>1, <2>5, <2>6 DEF Clean
      <3> QED
        BY <3>1, <2>3, CleanFollows
    <2>8. \A q \in Bound(b) : q \in Bound(shard) /\ b.sessions[q].token = shard.sessions[q].token
      BY <2>1, <2>3, <2>5, <2>6 DEF Follows
    <2>9. b.terminated = shard.terminated
      BY <2>1, <2>3, <2>5 DEF Follows
    <2>10. \A u \in Held : u # t /\ u \notin b.alive => u \in b.reported
      BY <1>2, <2>1, <2>3, <2>5 DEF Follows
    <2> QED
      BY <1>1, <2>3, <2>4, <2>7, <2>8, <2>9, <2>10, StreamMoves
  <1>5. ASSUME Serving, Done([sh EXCEPT !.reported = @ \ {t}])
        PROVE  Core'
    <2> DEFINE b == [sh EXCEPT !.reported = @ \ {t}]
    <2>1. Fit(sh) /\ Follows(shard, sh) /\ Clean(sh)
      BY <1>5, LockedFit
    <2>2. shard' = b /\ pending' = {}
      BY <1>5 DEF Done
    <2> HIDE DEF sh
    <2>3. /\ b \in Shards /\ b.sessions = sh.sessions /\ b.alive = sh.alive
          /\ b.reported = sh.reported \ {t} /\ b.count = sh.count
          /\ b.retiring = sh.retiring /\ b.terminated = sh.terminated
          /\ b.lastUnavailable = sh.lastUnavailable
      BY <2>1 DEF Fit, Sound, Shards
    <2> HIDE DEF b
    <2>4. /\ Bound(b) = Bound(sh) /\ \A R : TokensOf(b, R) = TokensOf(sh, R)
          /\ Available(b) = Available(sh)
          /\ Distinct(b) <=> Distinct(sh)
          /\ Knowing(b, {}) <=> Knowing(sh, {})
      BY <2>3, SameSessions
    <2>5. Fit(b)
      BY <2>1, <2>3, <2>4 DEF Fit, Sound, Counted, Past
    <2>6. Clean(b)
      BY <2>1, <2>3, <2>4 DEF Clean
    <2>7. /\ \A q \in Bound(b) : q \in Bound(shard) /\ b.sessions[q].token = shard.sessions[q].token
          /\ b.terminated = shard.terminated
      BY <2>1, <2>3, <2>4 DEF Follows
    <2>8. \A u \in Held : u # t /\ u \notin b.alive => u \in b.reported
      BY <1>2, <2>1, <2>3 DEF Follows
    <2> QED
      BY <1>1, <2>2, <2>5, <2>6, <2>7, <2>8, StreamMoves
  <1> QED
    BY <1>3, <1>4, <1>5 DEF EndPresence

LEMMA DropKeeps ==
  ASSUME Core, NEW t \in Tokens, Drop(t)
  PROVE  Core'
  <1> DEFINE b == [shard EXCEPT !.alive = @ \ {t}, !.reported = @ \ {t}]
  <1>1. /\ stream[t].pc \in {"held", "ended"} /\ stream' = [stream EXCEPT ![t].pc = "dropping"]
        /\ next' = next /\ state' = state /\ pending' = pending /\ shard' = b
    BY DEF Drop, router
  <1>2. /\ b \in Shards /\ b.sessions = shard.sessions /\ b.alive = shard.alive \ {t}
        /\ b.reported = shard.reported \ {t} /\ b.count = shard.count
        /\ b.retiring = shard.retiring /\ b.terminated = shard.terminated
        /\ b.lastUnavailable = shard.lastUnavailable
    BY DEF Core, Fit, Sound, Shards
  <1> HIDE DEF b
  <1>3. /\ Bound(b) = Bound(shard) /\ \A R : TokensOf(b, R) = TokensOf(shard, R)
        /\ Available(b) = Available(shard)
        /\ Distinct(b) <=> Distinct(shard)
    BY <1>2, SameSessions
  <1>4. Knowing(b, {})
    <2>1. Live(b) \subseteq Live(shard)
      BY <1>2, <1>3 DEF Live
    <2> QED
      BY <2>1, <1>2, <1>3 DEF Core, Fit, Knowing
  <1>5. Fit(b)
    BY <1>2, <1>3, <1>4 DEF Core, Fit, Sound, Counted, Past
  <1>6. \A u \in Held : u # t /\ u \notin b.alive => u \in b.reported
    BY <1>2 DEF Core, RetirementReported, Held
  <1> QED
    BY <1>1, <1>2, <1>3, <1>5, <1>6, StreamMoves

LEMMA CleanupKeeps ==
  ASSUME Core, NEW t \in Tokens, Cleanup(t)
  PROVE  Core'
  <1> DEFINE cleanup == <<stream[t].resource, t>>
  <1>1. /\ stream[t].pc = "dropping" /\ next' = next /\ state' = state
        /\ stream' = [stream EXCEPT ![t] = [pc |-> "gone", resource |-> None]]
    BY DEF Cleanup, router
  <1>2. /\ stream' \in Streams
        /\ stream'[t].pc = "gone"
        /\ \A u \in Tokens : u # t => stream'[u] = stream[u]
    BY <1>1 DEF Core, Shape, Streams
  <1>3. /\ cleanup \in Resources \X Tokens /\ cleanup[2] = t
        /\ \A r \in Bound(shard) : shard.sessions[r].token = cleanup[2] => r = cleanup[1]
    BY <1>1 DEF Core, Places
  <1> HIDE DEF cleanup
  <1>4. /\ \A u \in Tokens : (stream'[u].pc = "none" <=> u > next')
        /\ \A u \in Tokens : stream'[u].pc \in {"held", "ended", "dropping"}
                               => stream'[u].resource \in Resources
    BY <1>1, <1>2 DEF Core, Places
  <1>5. \A u \in Tokens : stream'[u].pc = "held" => stream[u].pc = "held"
    BY <1>2
  <1>6. CASE Serving /\ Done(Cleaned(shard, pending \cup {cleanup}))
    <2> DEFINE cleanups == pending \cup {cleanup}
               b == Cleaned(shard, cleanups)
               G == {u \in Tokens : stream'[u].pc = "gone"}
    <2>1. shard' = b /\ pending' = {}
      BY <1>6 DEF Done
    <2>2. Fit(b) /\ Follows(shard, b)
      BY CleanedFit DEF Core
    <2>3. \A u \in G : u \notin TokensOf(b, Bound(b)) \cup b.retiring
      <3>1. /\ cleanups \in SUBSET (Resources \X Tokens)
            /\ \A c \in cleanups : \A r \in Bound(shard) :
                 shard.sessions[r].token = c[2] => r = c[1]
        BY <1>3 DEF Core, Shape, Places
      <3>2. \A u \in G : \/ \E c \in cleanups : c[2] = u
                         \/ u \notin TokensOf(shard, Bound(shard)) \cup shard.retiring
        BY <1>2, <1>3, <1>6 DEF Core, NothingLeaks
      <3>3. G \in SUBSET Tokens
        OBVIOUS
      <3> HIDE DEF cleanups, G
      <3> QED
        BY <3>1, <3>2, <3>3, CleanedClean
    <2> HIDE DEF b
    <2>4. Bound(shard)' = Bound(b)
      BY <2>1 DEF Bound
    <2>5. Shape'
      BY <1>1, <1>2, <2>1 DEF Core, Shape
    <2>6. \A r \in Bound(b) : b.sessions[r].token \in Tokens
      BY <2>2, BoundIsSession DEF Fit, Sound
    <2>7. Places'
      <3>1. ASSUME NEW r \in Bound(b)
            PROVE  /\ b.sessions[r].token <= next'
                   /\ stream'[b.sessions[r].token].pc \in {"held", "ended", "dropping"}
                        => stream'[b.sessions[r].token].resource = r
        BY <1>1, <1>2, <2>2, <2>6 DEF Core, Places, Follows
      <3> QED
        BY <1>4, <2>1, <2>4, <3>1 DEF Places
    <2>8. RetirementReported'
      BY <1>5, <2>1, <2>2 DEF Core, RetirementReported, Follows, Held
    <2>9. NothingLeaks'
      BY <2>1, <2>3, <2>4 DEF NothingLeaks, TokensOf
    <2>10. Fit(shard)'
      BY <2>1, <2>2 DEF Fit, Sound, Distinct, Counted, Knowing, Past, Bound, Live, Available,
                        TokensOf
    <2> QED
      BY <2>5, <2>7, <2>8, <2>9, <2>10 DEF Core
  <1>7. CASE shard' = shard /\ \/ pending' = pending \cup {cleanup}
                               \/ ~Serving /\ pending' = pending
    <2>1. Bound(shard)' = Bound(shard)
      BY <1>7 DEF Bound
    <2>2. Shape'
      BY <1>1, <1>2, <1>3, <1>7 DEF Core, Shape
    <2>3. \A r \in Bound(shard) : shard.sessions[r].token \in Tokens
      BY BoundIsSession DEF Core, Fit, Sound
    <2>4. Places'
      <3>1. ASSUME NEW r \in Bound(shard)
            PROVE  /\ shard.sessions[r].token <= next'
                   /\ stream'[shard.sessions[r].token].pc \in {"held", "ended", "dropping"}
                        => stream'[shard.sessions[r].token].resource = r
        BY <1>1, <1>2, <2>3 DEF Core, Places
      <3>2. ASSUME NEW c \in pending'
            PROVE  /\ stream'[c[2]].pc = "gone"
                   /\ \A r \in Bound(shard) : shard.sessions[r].token = c[2] => r = c[1]
        <4>1. c \in pending \/ c = cleanup
          BY <1>7
        <4>2. c \in pending => c[2] \in Tokens /\ stream[c[2]].pc = "gone"
          BY DEF Core, Shape, Places
        <4> QED
          BY <4>1, <4>2, <1>2, <1>3 DEF Core, Places
      <3> QED
        BY <1>4, <1>7, <2>1, <3>1, <3>2 DEF Places
    <2>5. RetirementReported'
      BY <1>5, <1>7 DEF Core, RetirementReported
    <2>6. NothingLeaks'
      <3>1. Serving' <=> Serving
        BY <1>1, <1>7 DEF Serving
      <3> SUFFICES ASSUME Serving, NEW u \in Tokens, stream'[u].pc = "gone",
                          ~ \E c \in pending' : c[2] = u
                   PROVE  u \notin TokensOf(shard, Bound(shard)) \cup shard.retiring
        BY <1>7, <3>1 DEF NothingLeaks, TokensOf, Bound
      <3>2. u # t /\ ~ \E c \in pending : c[2] = u
        BY <1>3, <1>7
      <3> QED
        BY <3>2, <1>2 DEF Core, NothingLeaks
    <2>7. Fit(shard)'
      BY <1>7 DEF Core, Fit, Sound, Distinct, Counted, Knowing, Past, Bound, Live, Available,
                  TokensOf
    <2> QED
      BY <2>2, <2>4, <2>5, <2>6, <2>7 DEF Core
  <1> QED
    BY <1>6, <1>7 DEF Cleanup, Deferred, cleanup

-----------------------------------------------------------------------------
(* The life of the router *)

LEMMA TerminatedFit ==
  ASSUME NEW sh, Fit(sh)
  PROVE  LET b == Terminated(sh)
         IN  /\ Fit(b) /\ Bound(b) = {}
             /\ b.terminated = TRUE
             /\ sh.reported \subseteq b.reported
             /\ \A t \in Held : t \in sh.alive /\ t \notin b.alive => t \in b.reported
  <1> DEFINE b == Terminated(sh)
             T == TokensOf(sh, Bound(sh))
             none == [r \in Resources |-> None]
  <1>1. sh \in Shards /\ T \subseteq Tokens
    BY BoundIsSession DEF Fit, Sound, TokensOf
  <1>2. none \in [Resources -> Sessions \cup {None}] /\ \A r \in Resources : none[r] = None
    OBVIOUS
  <1>3. b = [sh EXCEPT !.terminated = TRUE, !.alive = sh.alive \ T,
                       !.reported = sh.reported \cup (T \cap Held), !.sessions = none,
                       !.count = 0, !.retiring = {}, !.lastUnavailable = FALSE]
    BY DEF Terminated
  <1> DEFINE left == sh.alive \ T
             told == sh.reported \cup (T \cap Held)
  <1> HIDE DEF b, none
  <1>4. /\ b \in Shards /\ b.sessions = none /\ b.count = 0 /\ b.lastUnavailable = FALSE
        /\ b.terminated = TRUE /\ b.alive = left /\ b.reported = told
    <2>1. /\ left \in SUBSET Tokens /\ told \in SUBSET Tokens /\ {} \in SUBSET Tokens
          /\ 0 \in 0 .. Limit
      BY <1>1, ShardAssumption DEF Shards
    <2>2. b = [sh EXCEPT !.terminated = TRUE, !.alive = left, !.reported = told,
                         !.sessions = none, !.count = 0, !.retiring = {},
                         !.lastUnavailable = FALSE]
      BY <1>3
    <2> HIDE DEF left, told
    <2> QED
      BY <1>1, <1>2, <2>1, <2>2 DEF Shards
  <1>5. Bound(b) = {}
    BY <1>2, <1>4 DEF Bound
  <1>6. Counted(b)
    BY <1>4, <1>5, FS_EmptySet DEF Counted
  <1>7. Fit(b)
    BY <1>4, <1>5, <1>6 DEF Fit, Sound, Distinct, Knowing, Past, Live, Available
  <1> QED
    BY <1>4, <1>5, <1>7 DEF b

LEMMA RouterKeeps ==
  ASSUME Core, RouterStep
  PROVE  Core'
  <1>1. CASE RetireAccount
    BY <1>1, RetireAccountKeeps
  <1>2. CASE Stop \/ PanicElsewhere
    <2>1. /\ shard' = shard /\ pending' = pending /\ next' = next /\ stream' = stream
          /\ state = "Running" /\ state' \in {"Stopping", "Failed"}
      BY <1>2 DEF Stop, PanicElsewhere
    <2>2. Shape' /\ Places' /\ RetirementReported'
      BY <2>1 DEF Core, Shape, Places, RetirementReported, Bound
    <2>3. NothingLeaks'
      BY <2>1 DEF Core, NothingLeaks, Serving, TokensOf, Bound
    <2>4. Fit(shard)'
      BY <2>1 DEF Core, Fit, Sound, Distinct, Counted, Knowing, Past, Bound, Live, Available,
                  TokensOf
    <2> QED
      BY <2>2, <2>3, <2>4 DEF Core
  <1>3. ASSUME NEW sh, Fit(sh), Follows(shard, sh), shard' = Terminated(sh),
               pending' \subseteq pending, next' = next, stream' = stream,
               state' \in {"Running", "Stopping", "Failed"}
        PROVE  Core'
    <2> DEFINE b == Terminated(sh)
    <2>1. /\ Fit(b) /\ Bound(b) = {} /\ b.terminated = TRUE
          /\ sh.reported \subseteq b.reported
          /\ \A t \in Held : t \in sh.alive /\ t \notin b.alive => t \in b.reported
      BY <1>3, TerminatedFit
    <2>2. shard' = b
      BY <1>3
    <2> HIDE DEF b
    <2>3. Bound(shard)' = {}
      BY <2>1, <2>2 DEF Bound
    <2>4. Shape' /\ Places'
      BY <1>3, <2>3 DEF Core, Shape, Places
    <2>5. RetirementReported'
      BY <1>3, <2>1, <2>2 DEF Core, RetirementReported, Follows, Held
    <2>6. NothingLeaks'
      BY <2>1, <2>2 DEF NothingLeaks, Serving
    <2>7. Fit(shard)'
      BY <2>1, <2>2 DEF Fit, Sound, Distinct, Counted, Knowing, Past, Bound, Live, Available,
                        TokensOf
    <2> QED
      BY <2>4, <2>5, <2>6, <2>7 DEF Core
  <1>4. CASE Panic
    <2>1. Fit(Locked) /\ Follows(shard, Locked)
      BY <1>4, LockedFit DEF Panic
    <2>2. /\ shard' = Terminated(Locked) /\ pending' = {} /\ next' = next /\ stream' = stream
          /\ state' = IF state = "Running" THEN "Failed" ELSE state
      BY <1>4 DEF Panic, Done
    <2>3. state' \in {"Running", "Stopping", "Failed"}
      BY <2>2 DEF Core, Shape
    <2> QED
      BY <1>3, <2>1, <2>2, <2>3
  <1>5. CASE Terminate
    <2>1. /\ shard' = Terminated(shard) /\ pending' = pending /\ next' = next
          /\ stream' = stream /\ state' = state
      BY <1>5 DEF Terminate, router
    <2>2. state' \in {"Running", "Stopping", "Failed"}
      BY <2>1 DEF Core, Shape
    <2> QED
      BY <1>3, <2>1, <2>2, FollowsItself DEF Core
  <1> QED
    BY <1>1, <1>2, <1>4, <1>5 DEF RouterStep

-----------------------------------------------------------------------------
(* Every loss has a cause *)

\* The tokens whose flag is set are those of streams that are there.
Flags == \A t \in shard.alive : stream[t].pc \in {"held", "ended"}

\* The causes of LosesForCause other than a mailbox that is full.
Excused(r) ==
  \/ stream'[shard.sessions[r].token] # stream[shard.sessions[r].token]
  \/ shard.sessions[r].tagged
  \/ Bound(shard') = {}

\* b is what is left of the shard, whatever the step adds to it.
LEMMA CauseOf ==
  ASSUME Core, NEW b, NEW X, Lost(shard, b, 1, X),
         \A q \in Gone(shard, b) : shard.sessions[q].token \notin TokensOf(shard', Bound(shard')),
         \A r \in Live(shard) \cap Live(b) : shard.sessions[r].token \in shard'.alive,
         \A r \in X \cap Live(shard) : Excused(r)
  PROVE  LosesForCause
  <1> SUFFICES ASSUME NEW r \in Live(shard), shard.sessions[r].token \notin shard'.alive,
                      ~Excused(r)
               PROVE  LET fell == {q \in Available(shard) \ {r} :
                             shard.sessions[q].token \notin TokensOf(shard', Bound(shard'))}
                      IN  shard.sessions[r].box + 1 + Cardinality(fell) > Capacity
    BY DEF LosesForCause, Excused
  <1> DEFINE fell == {q \in Available(shard) \ {r} :
                        shard.sessions[q].token \notin TokensOf(shard', Bound(shard'))}
             G == Gone(shard, b) \ {r}
             x == shard.sessions[r].box
  <1>1. x + 1 + Cardinality(G) > Capacity
    BY DEF Lost
  <1>2. G \subseteq fell
    BY DEF Gone
  <1>3. fell \in SUBSET Bound(shard) /\ x \in Nat
    BY BoxIsNatural DEF Available, Live, Core, Fit, Sound
  <1>4. IsFiniteSet(fell) /\ Cardinality(fell) \in Nat
    BY <1>3, BoundIsFinite
  <1>5. Cardinality(G) \in Nat
    BY GoneIsFinite
  <1> HIDE DEF fell, G, x
  <1>6. Cardinality(G) <= Cardinality(fell)
    BY <1>2, <1>4, FS_Subset
  <1>7. x + 1 + Cardinality(fell) > Capacity
    BY <1>1, <1>3, <1>4, <1>5, <1>6, ShardAssumption
  <1> QED
    BY <1>7 DEF fell, x

\* A step without a registration.
LEMMA CauseOfStep ==
  ASSUME Core, NEW b, shard' = b, NEW X, Lost(shard, b, 1, X),
         \A q \in Bound(b) : q \in Bound(shard) /\ b.sessions[q].token = shard.sessions[q].token,
         \A r \in X \cap Live(shard) : Excused(r)
  PROVE  LosesForCause
  <1>1. \A q \in Gone(shard, b) : shard.sessions[q].token \notin TokensOf(b, Bound(b))
    BY DEF Gone, Available, TokensOf, Core, Fit, Sound, Distinct
  <1>2. \A r \in Live(shard) \cap Live(b) : shard.sessions[r].token \in b.alive
    BY DEF Live
  <1> QED
    BY <1>1, <1>2, CauseOf

LEMMA CauseWhenAlive ==
  ASSUME shard'.alive = shard.alive
  PROVE  LosesForCause
  BY DEF LosesForCause, Live

LEMMA CauseWhenEmpty ==
  ASSUME NEW b, shard' = b, Bound(b) = {}
  PROVE  LosesForCause
  BY DEF LosesForCause

LEMMA FlagsKept ==
  ASSUME Flags, shard'.alive \subseteq shard.alive, UNCHANGED stream
  PROVE  Flags'
  BY DEF Flags

\* Deferred cleanups take the sessions they name, and others for cause.
LEMMA CleanedWorn ==
  ASSUME NEW sh, Sound(sh), NEW cleanups
  PROVE  Worn(sh, Cleaned(sh, cleanups), 0,
              {r \in Bound(sh) : <<r, sh.sessions[r].token>> \in cleanups})
  <1> DEFINE targets == {r \in Bound(sh) : <<r, sh.sessions[r].token>> \in cleanups}
             removed == Remove(sh, targets, TRUE)
             names == {c[2] : c \in cleanups}
             b == [removed EXCEPT !.retiring = @ \ names]
  <1>1. Cleaned(sh, cleanups) = b
    BY DEF Cleaned
  <1>2. Sound(removed) /\ Worn(sh, removed, 0, targets)
    BY RemoveSound, RemoveWorn
  <1> HIDE DEF targets, removed, names
  <1>3. Follows(removed, b) /\ b.sessions = removed.sessions /\ b.alive = removed.alive
    BY <1>2, ForgetSound
  <1> HIDE DEF b
  <1>4. /\ Bound(b) = Bound(removed) /\ Available(b) = Available(removed)
        /\ Tagged(b) = Tagged(removed) /\ Live(b) = Live(removed)
    BY <1>3, SameSessions
  <1>5. Follows(sh, b)
    BY <1>2, <1>3, FollowsChain DEF Worn
  <1>6. Worn(sh, b, 0, targets)
    BY <1>2, <1>3, <1>4, <1>5, LostSame DEF Worn, Gone
  <1> QED
    BY <1>1, <1>6 DEF targets

LEMMA WornWeaker ==
  ASSUME NEW a \in Shards, NEW b, NEW X, Worn(a, b, 0, X), X \cap Live(a) = {}
  PROVE  Worn(a, b, 0, {})
  <1>1. Lost(a, b, 0, {})
    BY LostWeaker DEF Worn
  <1> QED
    BY <1>1 DEF Worn

\* The cleanups that wait are of streams that are gone, whose sessions are dead.
LEMMA LockedWorn ==
  ASSUME Core, Flags
  PROVE  Worn(shard, Locked, 0, {})
  <1>1. Sound(shard) /\ shard \in Shards
    BY DEF Core, Fit, Sound
  <1>2. CASE pending = {}
    <2>1. Locked = Remove(shard, {}, TRUE)
      BY <1>2 DEF Locked, Remove
    <2> QED
      BY <1>1, <2>1, RemoveWorn
  <1>3. CASE pending # {}
    <2> DEFINE targets == {r \in Bound(shard) : <<r, shard.sessions[r].token>> \in pending}
    <2>1. Worn(shard, Locked, 0, targets)
      BY <1>1, <1>3, CleanedWorn DEF Locked
    <2>2. \A c \in pending : stream[c[2]].pc = "gone"
      BY DEF Core, Places
    <2>3. \A r \in targets : stream[shard.sessions[r].token].pc = "gone"
      BY <2>2
    <2>4. targets \cap Live(shard) = {}
      BY <2>3 DEF Flags, Live
    <2> QED
      BY <1>1, <2>1, <2>4, WornWeaker
  <1> QED
    BY <1>2, <1>3

\* An operation that leaves the shard as b accounts for what it loses itself.
LEMMA OperationCause ==
  ASSUME Core, Flags, Serving, NEW b, shard' = b, NEW X, Lost(Locked, b, 1, X),
         \A q \in Bound(b) : q \in Bound(Locked) /\ b.sessions[q].token = Locked.sessions[q].token,
         \A r \in X \cap Live(Locked) : Excused(r)
  PROVE  LosesForCause
  <1> DEFINE sh == Locked
  <1>1. Worn(shard, sh, 0, {}) /\ Fit(sh)
    BY LockedWorn, LockedFit
  <1>2. shard \in Shards /\ sh \in Shards
    BY <1>1 DEF Core, Fit, Sound
  <1>3. Lost(sh, b, 1, X) /\ \A r \in X \cap Live(sh) : Excused(r)
    OBVIOUS
  <1>4. \A q \in Bound(b) : q \in Bound(sh) /\ b.sessions[q].token = sh.sessions[q].token
    OBVIOUS
  <1> HIDE DEF sh
  <1>5. Lost(shard, b, 0 + 1, {} \cup (X \cap Live(sh)))
    BY <1>1, <1>2, <1>3, <1>4, LostChain
  <1>6. Lost(shard, b, 1, X \cap Live(sh))
    BY <1>5
  <1>7. \A q \in Bound(b) : q \in Bound(shard) /\ b.sessions[q].token = shard.sessions[q].token
    BY <1>1, <1>4 DEF Worn, Follows
  <1> QED
    BY <1>3, <1>6, <1>7, CauseOfStep

LEMMA PlainCause ==
  ASSUME Core, Flags, Serving, UNCHANGED stream, NEW b, shard' = b, NEW X,
         Follows(Locked, b), Lost(Locked, b, 1, X),
         \A r \in X \cap Live(Locked) : Excused(r)
  PROVE  LosesForCause /\ Flags'
  <1>1. Follows(shard, Locked)
    BY LockedFit
  <1>2. b.alive \subseteq shard.alive
    BY <1>1 DEF Follows
  <1>3. \A q \in Bound(b) : q \in Bound(Locked) /\ b.sessions[q].token = Locked.sessions[q].token
    BY DEF Follows
  <1> QED
    BY <1>2, <1>3, OperationCause, FlagsKept

LEMMA TagCause ==
  ASSUME Core, Flags, NEW t \in Tokens, Tag(t) \/ Untag(t)
  PROVE  LosesForCause /\ Flags'
  <1>1. /\ Serving /\ UNCHANGED stream
        /\ \E b : Follows(Locked, b) /\ Live(b) = Live(Locked) /\ Done(b)
    BY TagTouches
  <1>2. PICK b : Follows(Locked, b) /\ Live(b) = Live(Locked) /\ Done(b)
    BY <1>1
  <1>3. Lost(Locked, b, 1, {}) /\ shard' = b
    BY <1>2, NobodyLost DEF Done
  <1> QED
    BY <1>1, <1>2, <1>3, PlainCause

LEMMA SetPresenceCause ==
  ASSUME Core, Flags, NEW t \in Tokens, NEW available \in BOOLEAN, SetPresence(t, available)
  PROVE  LosesForCause /\ Flags'
  <1>1. /\ Serving /\ UNCHANGED stream
        /\ \E r \in Resources : Owns(Locked, r, t) /\ Done(Announced(Locked, r, available))
    BY DEF SetPresence
  <1>2. PICK r \in Resources : Owns(Locked, r, t) /\ Done(Announced(Locked, r, available))
    BY <1>1
  <1>3. Fit(Locked) /\ r \in Live(Locked)
    BY <1>1, <1>2, LockedFit DEF Owns, Live, Bound
  <1> DEFINE b == Announced(Locked, r, available)
  <1>4. Follows(Locked, b) /\ Lost(Locked, b, 1, {}) /\ shard' = b
    BY <1>2, <1>3, AnnouncedFit DEF Done
  <1> HIDE DEF b
  <1> QED
    BY <1>1, <1>4, PlainCause

LEMMA DeliveryCause ==
  ASSUME Core, Flags, DeliveryStep
  PROVE  LosesForCause /\ Flags'
  <1>1. /\ Serving /\ UNCHANGED stream
        /\ \E b : Follows(Locked, b) /\ Lost(Locked, b, 1, Tagged(Locked)) /\ Done(b)
    BY DeliveryLoses
  <1>2. PICK b : Follows(Locked, b) /\ Lost(Locked, b, 1, Tagged(Locked)) /\ Done(b)
    BY <1>1
  <1>3. \A r \in Tagged(Locked) : Excused(r)
    BY LockedWorn DEF Worn, Tagged, Excused
  <1>4. shard' = b
    BY <1>2 DEF Done
  <1> QED
    BY <1>1, <1>2, <1>3, <1>4, PlainCause

LEMMA FinishPresenceCause ==
  ASSUME Core, Flags, NEW t \in Tokens, FinishPresence(t)
  PROVE  LosesForCause /\ Flags'
  <1>1. UNCHANGED stream
    BY DEF FinishPresence
  <1>2. CASE ~Serving
    <2>1. shard' = shard
      BY <1>2 DEF FinishPresence
    <2> QED
      BY <1>1, <2>1, CauseWhenAlive, FlagsKept
  <1>3. CASE Serving
    <2> DEFINE sh == Locked
               b == [sh EXCEPT !.retiring = @ \ {t}]
    <2>1. shard' = b
      BY <1>3 DEF FinishPresence, Done
    <2>2. Sound(sh)
      BY <1>3, LockedFit DEF Fit
    <2> HIDE DEF sh
    <2>3. Follows(sh, b) /\ b.sessions = sh.sessions /\ b.alive = sh.alive
      BY <2>2, ForgetSound
    <2> HIDE DEF b
    <2>4. Lost(sh, b, 1, {})
      BY <2>3, SameSessions, NobodyLost
    <2> QED
      BY <1>1, <1>3, <2>1, <2>3, <2>4, PlainCause DEF sh
  <1> QED
    BY <1>2, <1>3

\* An ending stream is the cause of its own loss.
LEMMA EndPresenceCause ==
  ASSUME Core, Flags, NEW t \in Tokens, EndPresence(t)
  PROVE  LosesForCause /\ Flags'
  <1> DEFINE sh == Locked
  <1>1. /\ stream[t].pc = "held" /\ stream' = [stream EXCEPT ![t].pc = "ended"]
        /\ stream \in Streams
    BY DEF EndPresence, Core, Shape
  <1>2. /\ stream'[t].pc = "ended" /\ stream'[t] # stream[t]
        /\ \A u \in Tokens : u # t => stream'[u] = stream[u]
    BY <1>1 DEF Streams
  <1>3. shard.alive \subseteq Tokens
    BY DEF Core, Fit, Sound, Shards
  <1>4. ASSUME shard'.alive \subseteq shard.alive
        PROVE  Flags'
    BY <1>2, <1>3, <1>4 DEF Flags
  <1>5. CASE ~Serving
    <2>1. shard' = shard
      BY <1>5 DEF EndPresence
    <2> QED
      BY <1>4, <2>1, CauseWhenAlive
  <1>6. ASSUME Serving, NEW r \in Resources, Owns(sh, r, t), Done(Withdrawn(sh, r))
        PROVE  LosesForCause /\ Flags'
    <2> DEFINE b == Withdrawn(sh, r)
               a == Without(sh, t)
    <2>1. Fit(sh) /\ Follows(shard, sh)
      BY <1>6, LockedFit
    <2>2. r \in Live(sh) /\ sh.sessions[r].token = t /\ r \in Bound(sh)
      BY <1>6 DEF Owns, Live, Bound
    <2>3. Follows(a, b) /\ Lost(sh, b, 1, {r})
      BY <2>1, <2>2, WithdrawnFit
    <2>4. shard' = b
      BY <1>6 DEF Done
    <2> HIDE DEF sh
    <2>5. a.sessions = sh.sessions /\ a.alive = sh.alive \ {t}
      BY <2>1, <2>2, WithoutSound DEF Fit
    <2> HIDE DEF b, a
    <2>6. Bound(a) = Bound(sh)
      BY <2>5, SameSessions
    <2>7. /\ \A q \in Bound(b) : q \in Bound(sh) /\ b.sessions[q].token = sh.sessions[q].token
          /\ b.alive \subseteq shard.alive
      BY <2>1, <2>3, <2>5, <2>6 DEF Follows
    <2>8. \A q \in {r} \cap Live(sh) : Excused(q)
      BY <1>2, <2>1, <2>2 DEF Excused, Follows
    <2>9. LosesForCause
      BY <1>6, <2>3, <2>4, <2>7, <2>8, OperationCause DEF sh
    <2> QED
      BY <1>4, <2>4, <2>7, <2>9
  <1>7. ASSUME Serving, Done([sh EXCEPT !.reported = @ \ {t}])
        PROVE  LosesForCause /\ Flags'
    <2> DEFINE b == [sh EXCEPT !.reported = @ \ {t}]
    <2>1. Fit(sh) /\ Follows(shard, sh)
      BY <1>7, LockedFit
    <2>2. shard' = b
      BY <1>7 DEF Done
    <2> HIDE DEF sh
    <2>3. b.sessions = sh.sessions /\ b.alive = sh.alive
      BY <2>1 DEF Fit, Sound, Shards
    <2> HIDE DEF b
    <2>4. Lost(sh, b, 1, {}) /\ Bound(b) = Bound(sh)
      BY <2>3, SameSessions, NobodyLost
    <2>5. LosesForCause
      BY <1>7, <2>2, <2>3, <2>4, OperationCause DEF sh
    <2> QED
      BY <1>4, <2>1, <2>2, <2>3, <2>5 DEF Follows
  <1> QED
    BY <1>5, <1>6, <1>7 DEF EndPresence

LEMMA DropCause ==
  ASSUME Core, Flags, NEW t \in Tokens, Drop(t)
  PROVE  LosesForCause /\ Flags'
  <1>1. /\ stream[t].pc \in {"held", "ended"} /\ stream' = [stream EXCEPT ![t].pc = "dropping"]
        /\ stream \in Streams /\ shard \in Shards
        /\ shard' = [shard EXCEPT !.alive = @ \ {t}, !.reported = @ \ {t}]
    BY DEF Drop, Core, Shape, Fit, Sound
  <1>2. shard'.alive = shard.alive \ {t} /\ shard.alive \subseteq Tokens
    BY <1>1 DEF Shards
  <1>3. stream'[t] # stream[t] /\ \A u \in Tokens : u # t => stream'[u] = stream[u]
    BY <1>1 DEF Streams
  <1>4. LosesForCause
    BY <1>2, <1>3 DEF LosesForCause, Live
  <1> QED
    BY <1>2, <1>3, <1>4 DEF Flags

\* A cleanup, however late, names the session of a stream that is gone, and
\* leaves alone the one that has the resource now.
LEMMA CleanupCause ==
  ASSUME Core, Flags, NEW t \in Tokens, Cleanup(t)
  PROVE  LosesForCause /\ Flags'
  <1> DEFINE cleanup == <<stream[t].resource, t>>
  <1>1. /\ stream[t].pc = "dropping" /\ stream \in Streams
        /\ stream' = [stream EXCEPT ![t] = [pc |-> "gone", resource |-> None]]
        /\ shard \in Shards /\ Sound(shard)
    BY DEF Cleanup, Core, Shape, Fit, Sound
  <1>2. \A u \in Tokens : u # t => stream'[u] = stream[u]
    BY <1>1 DEF Streams
  <1>3. t \notin shard.alive /\ shard.alive \subseteq Tokens
    BY <1>1 DEF Flags, Shards
  <1>4. ASSUME shard'.alive \subseteq shard.alive
        PROVE  Flags'
    BY <1>2, <1>3, <1>4 DEF Flags
  <1>5. CASE Done(Cleaned(shard, pending \cup {cleanup}))
    <2> DEFINE cleanups == pending \cup {cleanup}
               b == Cleaned(shard, cleanups)
               targets == {r \in Bound(shard) : <<r, shard.sessions[r].token>> \in cleanups}
    <2>1. shard' = b
      BY <1>5 DEF Done
    <2>2. Worn(shard, b, 0, targets)
      BY <1>1, CleanedWorn
    <2>3. \A c \in cleanups : c[2] \notin shard.alive
      BY <1>3 DEF Core, Places, Flags
    <2>4. targets \cap Live(shard) = {}
      BY <2>3 DEF Live
    <2> HIDE DEF b, targets
    <2>5. Lost(shard, b, 1, {})
      BY <1>1, <2>2, <2>4, LostWeaker DEF Worn
    <2>6. /\ \A q \in Bound(b) : q \in Bound(shard) /\ b.sessions[q].token = shard.sessions[q].token
          /\ b.alive \subseteq shard.alive
      BY <2>2 DEF Worn, Follows
    <2>7. LosesForCause
      BY <2>1, <2>5, <2>6, CauseOfStep
    <2> QED
      BY <1>4, <2>1, <2>6, <2>7
  <1>6. CASE shard' = shard
    BY <1>4, <1>6, CauseWhenAlive
  <1> QED
    BY <1>5, <1>6 DEF Cleanup

LEMMA RouterCause ==
  ASSUME Core, Flags, RouterStep
  PROVE  LosesForCause /\ Flags'
  <1>1. UNCHANGED stream
    BY DEF RouterStep, RetireAccount, Stop, Panic, PanicElsewhere, Terminate
  <1>2. CASE Stop \/ PanicElsewhere
    <2>1. shard' = shard
      BY <1>2 DEF Stop, PanicElsewhere
    <2> QED
      BY <1>1, <2>1, CauseWhenAlive, FlagsKept
  <1>3. CASE RetireAccount
    <2> DEFINE sh == Locked
               a == [sh EXCEPT !.lastUnavailable = FALSE]
               b == Remove(a, Bound(sh), FALSE)
    <2>1. Serving /\ shard' = b
      BY <1>3 DEF RetireAccount, Done
    <2>2. Sound(sh) /\ Follows(shard, sh)
      BY <2>1, LockedFit DEF Fit
    <2> HIDE DEF sh
    <2>3. Sound(a) /\ Follows(sh, a) /\ a.sessions = sh.sessions
      BY <2>2, TimeSound
    <2> HIDE DEF a
    <2>4. Bound(a) = Bound(sh)
      BY <2>3, SameSessions
    <2>5. Bound(b) \subseteq Bound(a) \ Bound(sh) /\ Follows(a, b)
      BY <2>3, <2>4, RemoveSound
    <2> HIDE DEF b
    <2>6. Bound(b) = {} /\ b.alive \subseteq shard.alive
      BY <2>2, <2>3, <2>4, <2>5 DEF Follows
    <2> QED
      BY <1>1, <2>1, <2>6, CauseWhenEmpty, FlagsKept
  <1>4. ASSUME NEW sh, Fit(sh), Follows(shard, sh), shard' = Terminated(sh)
        PROVE  LosesForCause /\ Flags'
    <2> DEFINE b == Terminated(sh)
    <2>1. Bound(b) = {}
      BY <1>4, TerminatedFit
    <2>2. b.alive = sh.alive \ TokensOf(sh, Bound(sh))
      BY <1>4 DEF Terminated, Fit, Sound, Shards
    <2>3. shard' = b
      BY <1>4
    <2> HIDE DEF b
    <2>4. b.alive \subseteq shard.alive
      BY <1>4, <2>2 DEF Follows
    <2> QED
      BY <1>1, <2>1, <2>3, <2>4, CauseWhenEmpty, FlagsKept
  <1>5. CASE Panic
    <2>1. Fit(Locked) /\ Follows(shard, Locked) /\ shard' = Terminated(Locked)
      BY <1>5, LockedFit DEF Panic, Done
    <2> QED
      BY <1>4, <2>1
  <1>6. CASE Terminate
    BY <1>4, <1>6, FollowsItself DEF Terminate, Core
  <1> QED
    BY <1>2, <1>3, <1>5, <1>6 DEF RouterStep

\* A registration sweeps out the dead, and its token is new.
LEMMA RegisterCause ==
  ASSUME Core, Flags, Register
  PROVE  LosesForCause /\ Flags'
  <1> DEFINE sh == Locked
             swept == Remove(sh, Bound(sh) \ Live(sh), TRUE)
             t == next + 1
             full == Cardinality(Bound(swept)) >= Limit
  <1>1. /\ Serving /\ next < MaxToken
        /\ full => Done(swept) /\ UNCHANGED stream
        /\ ~full => \E r \in Resources \ Bound(swept) :
             /\ Done(Registered(swept, r, t))
             /\ stream' = [stream EXCEPT ![t] = [pc |-> "held", resource |-> r]]
    BY DEF Register, Registered
  <1>2. Fit(sh) /\ Follows(shard, sh) /\ Worn(shard, sh, 0, {})
    BY <1>1, LockedFit, LockedWorn
  <1> HIDE DEF sh
  <1>3. Fit(swept) /\ Follows(sh, swept) /\ Worn(sh, swept, 0, Bound(sh) \ Live(sh))
    BY <1>2, RemoveFit, RemoveWorn DEF Fit
  <1>4. Lost(sh, swept, 1, {})
    <2>1. Lost(sh, swept, 0, Bound(sh) \ Live(sh)) /\ sh \in Shards
      BY <1>2, <1>3 DEF Worn, Fit, Sound
    <2>2. (Bound(sh) \ Live(sh)) \cap Live(sh) \subseteq {}
      OBVIOUS
    <2> HIDE DEF swept
    <2> QED
      BY <2>1, <2>2, LostWeaker
  <1> HIDE DEF swept
  <1>5. CASE full
    <2>1. shard' = swept
      BY <1>1, <1>5 DEF Done
    <2> QED
      BY <1>1, <1>3, <1>4, <1>5, <2>1, PlainCause DEF sh
  <1>6. CASE ~full
    <2>1. PICK r \in Resources \ Bound(swept) :
             /\ Done(Registered(swept, r, t))
             /\ stream' = [stream EXCEPT ![t] = [pc |-> "held", resource |-> r]]
      BY <1>1, <1>6
    <2> DEFINE b == Registered(swept, r, t)
    <2>2. t \in Tokens /\ next \in Nat /\ t \in Nat
      <3>1. next \in 0 .. MaxToken /\ next < MaxToken
        BY <1>1 DEF Core, Shape
      <3> QED
        BY <3>1, ShardAssumption DEF Tokens
    <2>3. \A q \in Bound(shard) : /\ shard.sessions[q].token \in Tokens
                                 /\ shard.sessions[q].token <= next
      BY BoundIsSession DEF Core, Places, Fit, Sound
    <2>4. t \notin TokensOf(shard, Bound(shard))
      BY <2>2, <2>3, ShardAssumption DEF TokensOf, Tokens
    <2>5. Follows(shard, swept)
      BY <1>2, <1>3, FollowsChain
    <2>6. t \notin TokensOf(swept, Bound(swept))
      BY <2>4, <2>5 DEF Follows, TokensOf
    <2>7. Cardinality(Bound(swept)) < Limit
      BY <1>6, BoundIsFinite, ShardAssumption
    <2> HIDE DEF t
    <2>8. /\ Bound(b) = Bound(swept) \cup {r} /\ b.sessions[r].token = t
          /\ \A q \in Bound(swept) : b.sessions[q].token = swept.sessions[q].token
          /\ b.alive = swept.alive \cup {t}
      BY <1>3, <2>2, <2>6, <2>7, RegisteredFit
    <2>9. shard' = b
      BY <2>1 DEF Done
    <2> HIDE DEF b
    <2>10. Lost(shard, swept, 1, {})
      <3>1. shard \in Shards /\ sh \in Shards /\ Bound(swept) \subseteq Bound(sh)
        BY <1>2, <1>3 DEF Core, Fit, Sound, Follows
      <3>2. Lost(shard, swept, 0 + 1, {} \cup ({} \cap Live(sh)))
        BY <1>2, <1>4, <3>1, LostChain
      <3> QED
        BY <3>2
    <2>11. \A q \in Gone(shard, swept) : shard.sessions[q].token \notin TokensOf(b, Bound(b))
      <3> SUFFICES ASSUME NEW q \in Gone(shard, swept), NEW p \in Bound(b),
                          b.sessions[p].token = shard.sessions[q].token
                   PROVE  FALSE
        BY DEF TokensOf
      <3>1. q \in Bound(shard) /\ q \notin Bound(swept)
        BY DEF Gone, Available
      <3>2. p # r
        BY <2>4, <2>8, <3>1 DEF TokensOf
      <3>3. p \in Bound(shard) /\ p \in Bound(swept)
            /\ shard.sessions[p].token = shard.sessions[q].token
        BY <2>5, <2>8, <3>2 DEF Follows
      <3> QED
        BY <3>1, <3>3 DEF Core, Fit, Sound, Distinct
    <2>12. \A q \in Live(shard) \cap Live(swept) : shard.sessions[q].token \in b.alive
      BY <2>5, <2>8 DEF Live, Follows
    <2>13. LosesForCause
      BY <2>9, <2>10, <2>11, <2>12, CauseOf
    <2>14. Flags'
      <3>1. b.alive \subseteq shard.alive \cup {t} /\ shard.alive \subseteq Tokens
        BY <2>5, <2>8 DEF Follows, Core, Fit, Sound, Shards
      <3>2. stream'[t].pc = "held" /\ \A u \in Tokens : u # t => stream'[u] = stream[u]
        BY <2>1, <2>2 DEF Core, Shape, Streams
      <3> QED
        BY <2>9, <3>1, <3>2 DEF Flags
    <2> QED
      BY <2>13, <2>14
  <1> QED
    BY <1>5, <1>6

LEMMA NextHasCause ==
  ASSUME Core, Flags, [Next]_vars
  PROVE  LosesForCause /\ Flags'
  <1>1. CASE UNCHANGED vars
    <2>1. shard' = shard /\ UNCHANGED stream
      BY <1>1 DEF vars
    <2> QED
      BY <2>1, CauseWhenAlive, FlagsKept
  <1>2. ASSUME NEW t \in Tokens, Take(t)
        PROVE  LosesForCause /\ Flags'
    <2>1. /\ UNCHANGED stream
          /\ \E r \in Resources : \E left : shard' = [shard EXCEPT !.sessions[r].box = left]
      BY <1>2 DEF Take
    <2>2. shard'.alive = shard.alive
      BY <2>1 DEF Core, Fit, Sound, Shards
    <2> QED
      BY <2>1, <2>2, CauseWhenAlive, FlagsKept
  <1>3. ASSUME NEW t \in Tokens, StreamStep(t)
        PROVE  LosesForCause /\ Flags'
    BY <1>2, <1>3, TagCause, SetPresenceCause, EndPresenceCause, FinishPresenceCause,
       DropCause, CleanupCause DEF StreamStep
  <1> QED
    BY <1>1, <1>3, RegisterCause, DeliveryCause, RouterCause DEF Next

-----------------------------------------------------------------------------
(* The theorems *)

LEMMA CopiesKeep ==
  ASSUME IInv, Next
  PROVE  Copies'
  <1>1. CASE UNCHANGED copying
    BY <1>1 DEF IInv, Copies, copying
  <1>2. CASE FindTagged
    <2> DEFINE sh == Locked
    <2>1. strays' = strays
          /\ found' = {<<r, sh.sessions[r].token>> : r \in Tagged(sh) \cap Live(sh)}
      BY <1>2 DEF FindTagged
    <2>2. sh \in Shards
      BY <1>2, LockedFit DEF FindTagged, IInv, Fit, Sound
    <2> HIDE DEF sh
    <2>3. \A r \in Tagged(sh) \cap Live(sh) : r \in Resources /\ sh.sessions[r].token \in Tokens
      BY <2>2, BoundIsSession DEF Tagged
    <2> QED
      BY <2>1, <2>3 DEF IInv, Copies
  <1>3. CASE DeliverCopies
    <2> DEFINE sh == Locked
               R == CopyTargets(sh)
    <2>1. found' = {} /\ strays' = TokensOf(sh, (R \cap Live(sh)) \ Full(sh)) \ {f[2] : f \in found}
      BY <1>3 DEF DeliverCopies
    <2> HIDE DEF sh
    <2>2. \A r \in R : <<r, sh.sessions[r].token>> \in found
      BY DEF CopyTargets
    <2>3. \A r \in R : \E f \in found : f[2] = sh.sessions[r].token
      <3> SUFFICES ASSUME NEW r \in R PROVE \E f \in found : f[2] = sh.sessions[r].token
        OBVIOUS
      <3>1. <<r, sh.sessions[r].token>> \in found
        BY <2>2
      <3> WITNESS <<r, sh.sessions[r].token>> \in found
      <3> QED
        OBVIOUS
    <2> HIDE DEF R
    <2> QED
      BY <2>1, <2>3 DEF Copies, TokensOf
  <1>4. UNCHANGED copying \/ FindTagged \/ DeliverCopies
    BY DEF Next, Register, StreamStep, Take, Tag, Untag, SetPresence, EndPresence,
           FinishPresence, Drop, Cleanup, DeliveryStep, DeliverFull, DeliverBare,
           DeliverPresence, DeliverToTagged, RouterStep, RetireAccount, Stop, Panic,
           PanicElsewhere, Terminate
  <1> QED
    BY <1>1, <1>2, <1>3, <1>4

LEMMA NextKeepsIInv ==
  ASSUME IInv, [Next]_vars
  PROVE  IInv'
  <1>1. CASE UNCHANGED vars
    BY <1>1 DEF vars, IInv, Copies, Core, Shape, Places, RetirementReported, NothingLeaks,
                Serving, Fit, Sound, Distinct, Counted, Knowing, Past, Bound, Live, Available,
                TokensOf
  <1>2. CASE Next
    <2>1. Core
      BY DEF IInv
    <2>2. CASE Register
      BY <2>1, <2>2, RegisterKeeps, CopiesKeep, <1>2 DEF IInv
    <2>3. ASSUME NEW t \in Tokens, StreamStep(t)
          PROVE  Core'
      BY <2>1, <2>3, TakeKeeps, TagKeeps, SetPresenceKeeps, EndPresenceKeeps,
         FinishPresenceKeeps, DropKeeps, CleanupKeeps DEF StreamStep
    <2> QED
      BY <1>2, <2>1, <2>2, <2>3, DeliveryKeeps, RouterKeeps, CopiesKeep DEF Next, IInv
  <1> QED
    BY <1>1, <1>2

\* The inductive invariant: the shard is fit between two operations, tokens and
\* resources belong together, and what has ended is accounted for.
THEOREM Invariance == Spec => []IInv
  BY InitIInv, NextKeepsIInv, PTL DEF Spec

\* A stream whose session is dead finds a reported cause, whatever removed the
\* session and whenever the stream comes to look (remove_session, terminate,
\* wait_retired).
THEOREM EveryRetirementReported == Spec => []RetirementReported
  BY Invariance, IInvImplies, PTL

\* What dropped registrations leave in a shard in service is waiting for a
\* cleanup, copies reach no newcomer, and the counter of sessions is right
\* after every cascade (RegistrationCleanup::drop, deliver_copies,
\* remove_with_targets).
THEOREM NothingEverStays == Spec => []NothingStays
  BY Invariance, IInvImplies, PTL

\* No available session believes in a sibling that has gone, and no time of the
\* last unavailability is kept while somebody is available (remove_session,
\* presence, end_presence, record_last_unavailable).
THEOREM SiblingsAreAlwaysTrue == Spec => []SiblingsAreTrue
  BY Invariance, IInvImplies, PTL

LEMMA InitFlags == Init => Flags
  BY DEF Init, Flags

\* A live session is lost to nothing but its own stream, a mailbox without room
\* for a stanza and the presence of everyone who falls with it, the retirement
\* of the tagged sessions or the end of them all, however long the cascade and
\* however late the cleanup (remove_with_targets, remove_session,
\* Shard::cleanup).
THEOREM LossHasCause == Spec => LostForCause
  <1>1. Init => IInv /\ Flags
    BY InitIInv, InitFlags
  <1>2. IInv /\ Flags /\ [Next]_vars => IInv' /\ Flags' /\ LosesForCause
    BY NextKeepsIInv, NextHasCause DEF IInv
  <1>3. IInv /\ Flags /\ [Next]_vars => [LosesForCause]_vars
    BY <1>2
  <1> QED
    BY <1>1, <1>2, <1>3, PTL DEF Spec, LostForCause
=============================================================================
