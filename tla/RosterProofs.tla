---------------------------- MODULE RosterProofs ----------------------------
(***************************************************************************)
(* Proofs about the subscription state of the local accounts: for any      *)
(* finite set of accounts, any quotas and any sequence of operations.      *)
(***************************************************************************)
EXTENDS Roster, FiniteSetTheorems, TLAPS

(***************************************************************************)
(* The inductive invariant.  No conjunct about the two copies is inductive *)
(* by itself: an approval keeps Mirrored only because the requester waits  *)
(* (RequestsAgree), a request keeps RequestsAgree only because the sides   *)
(* agree on the subscription (Mirrored), and a new account keeps both only *)
(* because nothing was left behind under its name (NothingInherited).      *)
(***************************************************************************)
IInv ==
    /\ TypeOK
    /\ Mirrored
    /\ RequestsAgree
    /\ OneDecision
    /\ NothingInherited
    /\ ConsentFirst

\* An empty server satisfies the invariant.
LEMMA InitIInv == Init => IInv
  BY DEF Init, IInv, TypeOK, Mirrored, RequestsAgree, OneDecision,
         NothingInherited, ConsentFirst, Pairs

\* A roster set that adds or renames a contact.
LEMMA UpdateStep ==
  ASSUME NEW s \in Accounts, NEW t \in Accounts, IInv, Update(s, t)
  PROVE  IInv'
<1>1. TypeOK'
  BY DEF IInv, TypeOK, Update, Pairs
<1>2. Mirrored'
  BY DEF IInv, Mirrored, Update
<1>3. RequestsAgree'
  BY DEF IInv, RequestsAgree, Update
<1>4. OneDecision'
  BY DEF IInv, OneDecision, Update
<1>5. NothingInherited'
  BY DEF IInv, NothingInherited, Update
<1>6. ConsentFirst'
  BY DEF IInv, ConsentFirst, Update
<1> QED
  BY <1>1, <1>2, <1>3, <1>4, <1>5, <1>6 DEF IInv

\* A request to a contact that already grants it.
LEMMA RequestGrantedStep ==
  ASSUME NEW s \in Accounts, NEW t \in Accounts, IInv, RequestGranted(s, t)
  PROVE  IInv'
<1>1. TypeOK'
  BY DEF IInv, TypeOK, RequestGranted, With, Without
<1>2. Mirrored'
  BY DEF IInv, Mirrored, RequestGranted, With
<1>3. RequestsAgree'
  BY DEF IInv, RequestsAgree, OneDecision, RequestGranted, Without
<1>4. OneDecision'
  BY DEF IInv, OneDecision, RequestGranted
<1>5. NothingInherited'
  BY DEF IInv, NothingInherited, RequestGranted, With, Without
<1>6. ConsentFirst'
  BY DEF IInv, ConsentFirst, RequestGranted
<1> QED
  BY <1>1, <1>2, <1>3, <1>4, <1>5, <1>6 DEF IInv

\* A request that meets an approval in advance.
LEMMA RequestPreApprovedStep ==
  ASSUME NEW s \in Accounts, NEW t \in Accounts, IInv, RequestPreApproved(s, t)
  PROVE  IInv'
<1>1. TypeOK'
  BY DEF IInv, TypeOK, RequestPreApproved, With, Without, Pairs
<1>2. Mirrored'
  BY DEF IInv, Mirrored, RequestPreApproved, With
<1>3. RequestsAgree'
  BY DEF IInv, RequestsAgree, OneDecision, RequestPreApproved, Without
<1>4. OneDecision'
  BY DEF IInv, OneDecision, RequestPreApproved
<1>5. NothingInherited'
  BY DEF IInv, NothingInherited, RequestPreApproved, With, Without
<1>6. ConsentFirst'
  BY DEF IInv, ConsentFirst, RequestPreApproved
<1> QED
  BY <1>1, <1>2, <1>3, <1>4, <1>5, <1>6 DEF IInv

\* A request that has to wait.
LEMMA RequestPendingStep ==
  ASSUME NEW s \in Accounts, NEW t \in Accounts, IInv, RequestPending(s, t)
  PROVE  IInv'
<1>1. TypeOK'
  BY DEF IInv, TypeOK, RequestPending, With, Pairs
<1>2. Mirrored'
  BY DEF IInv, Mirrored, RequestPending
<1>3. RequestsAgree'
  BY DEF IInv, Mirrored, RequestsAgree, RequestPending, With
<1>4. OneDecision'
  BY DEF IInv, OneDecision, RequestPending
<1>5. NothingInherited'
  BY DEF IInv, NothingInherited, RequestPending, With
<1>6. ConsentFirst'
  BY DEF IInv, ConsentFirst, RequestPending
<1> QED
  BY <1>1, <1>2, <1>3, <1>4, <1>5, <1>6 DEF IInv

\* An approval in advance.
LEMMA PreApproveStep ==
  ASSUME NEW s \in Accounts, NEW t \in Accounts, IInv, PreApprove(s, t)
  PROVE  IInv'
<1>1. TypeOK'
  BY DEF IInv, TypeOK, PreApprove, Pairs
<1>2. Mirrored'
  BY DEF IInv, Mirrored, PreApprove
<1>3. RequestsAgree'
  BY DEF IInv, RequestsAgree, PreApprove
<1>4. OneDecision'
  BY DEF IInv, OneDecision, PreApprove
<1>5. NothingInherited'
  BY DEF IInv, NothingInherited, PreApprove
<1>6. ConsentFirst'
  BY DEF IInv, ConsentFirst, PreApprove
<1> QED
  BY <1>1, <1>2, <1>3, <1>4, <1>5, <1>6 DEF IInv

\* An approval: the request the requester waits for is the one resolved.
LEMMA ApproveStep ==
  ASSUME NEW s \in Accounts, NEW t \in Accounts, IInv, Approve(s, t)
  PROVE  IInv'
<1>1. TypeOK'
  BY DEF IInv, TypeOK, Approve, With, Without, Pairs
<1>2. Mirrored'
  BY DEF IInv, Mirrored, RequestsAgree, Approve, With
<1>3. RequestsAgree'
  BY DEF IInv, Mirrored, RequestsAgree, OneDecision, Approve, Without
<1>4. OneDecision'
  BY DEF IInv, OneDecision, Approve, With
<1>5. NothingInherited'
  BY DEF IInv, NothingInherited, Approve, With, Without
<1>6. ConsentFirst'
  BY DEF IInv, ConsentFirst, Approve, With
<1> QED
  BY <1>1, <1>2, <1>3, <1>4, <1>5, <1>6 DEF IInv

\* A refusal or a revocation.
LEMMA CancelStep ==
  ASSUME NEW s \in Accounts, NEW t \in Accounts, IInv, Cancel(s, t)
  PROVE  IInv'
<1>1. TypeOK'
  BY DEF IInv, TypeOK, Cancel, Without
<1>2. Mirrored'
  BY DEF IInv, Mirrored, Cancel, Without
<1>3. RequestsAgree'
  BY DEF IInv, RequestsAgree, Cancel, Without
<1>4. OneDecision'
  BY DEF IInv, OneDecision, Cancel
<1>5. NothingInherited'
  BY DEF IInv, NothingInherited, Cancel, Without
<1>6. ConsentFirst'
  BY DEF IInv, ConsentFirst, Cancel
<1> QED
  BY <1>1, <1>2, <1>3, <1>4, <1>5, <1>6 DEF IInv

\* A withdrawal.
LEMMA UnsubscribeStep ==
  ASSUME NEW s \in Accounts, NEW t \in Accounts, IInv, Unsubscribe(s, t)
  PROVE  IInv'
<1>1. TypeOK'
  BY DEF IInv, TypeOK, Unsubscribe, Without
<1>2. Mirrored'
  BY DEF IInv, Mirrored, Unsubscribe, Without
<1>3. RequestsAgree'
  BY DEF IInv, RequestsAgree, Unsubscribe, Without
<1>4. OneDecision'
  BY DEF IInv, OneDecision, Unsubscribe, Without
<1>5. NothingInherited'
  BY DEF IInv, NothingInherited, Unsubscribe, Without
<1>6. ConsentFirst'
  BY DEF IInv, ConsentFirst, Unsubscribe, Without
<1> QED
  BY <1>1, <1>2, <1>3, <1>4, <1>5, <1>6 DEF IInv

\* A roster set that removes a contact.
LEMMA RemoveItemStep ==
  ASSUME NEW s \in Accounts, NEW t \in Accounts, IInv, RemoveItem(s, t)
  PROVE  IInv'
<1>1. TypeOK'
  BY DEF IInv, TypeOK, RemoveItem
<1>2. Mirrored'
  BY DEF IInv, Mirrored, RemoveItem
<1>3. RequestsAgree'
  BY DEF IInv, RequestsAgree, RemoveItem
<1>4. OneDecision'
  BY DEF IInv, OneDecision, RemoveItem
<1>5. NothingInherited'
  BY DEF IInv, NothingInherited, RemoveItem
<1>6. ConsentFirst'
  BY DEF IInv, ConsentFirst, RemoveItem
<1> QED
  BY <1>1, <1>2, <1>3, <1>4, <1>5, <1>6 DEF IInv

\* The deletion of an account: whoever kept a copy is found either through
\* the account's items or through its stored requests.
LEMMA DeleteStep ==
  ASSUME NEW a \in Accounts, IInv, Delete(a)
  PROVE  IInv'
<1>1. TypeOK'
  BY DEF IInv, TypeOK, Delete
<1>2. Mirrored'
  BY DEF IInv, Mirrored, Delete, Of
<1>3. RequestsAgree'
  BY DEF IInv, RequestsAgree, Delete, Of
<1>4. OneDecision'
  BY DEF IInv, OneDecision, Delete
<1>5. NothingInherited'
  BY DEF IInv, TypeOK, Mirrored, RequestsAgree, NothingInherited, Delete, Of, Pairs
<1>6. ConsentFirst'
  BY DEF IInv, ConsentFirst, Delete
<1> QED
  BY <1>1, <1>2, <1>3, <1>4, <1>5, <1>6 DEF IInv

\* The creation of an account.
LEMMA CreateStep ==
  ASSUME NEW a \in Accounts, IInv, Create(a)
  PROVE  IInv'
<1>1. TypeOK'
  BY DEF IInv, TypeOK, Create
<1>2. Mirrored'
  BY DEF IInv, TypeOK, Mirrored, NothingInherited, Create
<1>3. RequestsAgree'
  BY DEF IInv, TypeOK, RequestsAgree, NothingInherited, Create
<1>4. OneDecision'
  BY DEF IInv, OneDecision, Create
<1>5. NothingInherited'
  BY DEF IInv, NothingInherited, Create
<1>6. ConsentFirst'
  BY DEF IInv, ConsentFirst, Create
<1> QED
  BY <1>1, <1>2, <1>3, <1>4, <1>5, <1>6 DEF IInv

\* Every step keeps the invariant.
LEMMA NextIInv == IInv /\ [Next]_vars => IInv'
<1> SUFFICES ASSUME IInv, [Next]_vars
             PROVE  IInv'
  OBVIOUS
<1>1. ASSUME NEW s \in Accounts, NEW t \in Accounts, Operation(s, t)
      PROVE  IInv'
  <2>1. CASE Update(s, t)
    BY <2>1, UpdateStep
  <2>2. CASE RequestGranted(s, t)
    BY <2>2, RequestGrantedStep
  <2>3. CASE RequestPreApproved(s, t)
    BY <2>3, RequestPreApprovedStep
  <2>4. CASE RequestPending(s, t)
    BY <2>4, RequestPendingStep
  <2>5. CASE PreApprove(s, t)
    BY <2>5, PreApproveStep
  <2>6. CASE Approve(s, t)
    BY <2>6, ApproveStep
  <2>7. CASE Cancel(s, t)
    BY <2>7, CancelStep
  <2>8. CASE Unsubscribe(s, t)
    BY <2>8, UnsubscribeStep
  <2>9. CASE RemoveItem(s, t)
    BY <2>9, RemoveItemStep
  <2> QED
    BY <1>1, <2>1, <2>2, <2>3, <2>4, <2>5, <2>6, <2>7, <2>8, <2>9 DEF Operation
<1>2. ASSUME NEW a \in Accounts, Delete(a)
      PROVE  IInv'
  BY <1>2, DeleteStep
<1>3. ASSUME NEW a \in Accounts, Create(a)
      PROVE  IInv'
  BY <1>3, CreateStep
<1>4. CASE UNCHANGED vars
  BY <1>4 DEF vars, IInv, TypeOK, Mirrored, RequestsAgree, OneDecision,
              NothingInherited, ConsentFirst
<1> QED
  BY <1>1, <1>2, <1>3, <1>4 DEF Next

\* The invariant holds in every reachable state.
THEOREM Invariance == Spec => []IInv
<1>1. Init => IInv
  BY InitIInv
<1>2. IInv /\ [Next]_vars => IInv'
  BY NextIInv
<1> QED
  BY <1>1, <1>2, PTL DEF Spec

\* The relations stay over the accounts, and what an item says has an item.
THEOREM TypeCorrect == Spec => []TypeOK
<1>1. IInv => TypeOK
  BY DEF IInv
<1> QED
  BY <1>1, Invariance, PTL

\* The two copies of a subscription never part: what the subscriber's item
\* says and what the grantor's item says is the same, for every pair of
\* accounts and after every operation of state.rs and forget_account.
THEOREM SubscriptionsMirrored == Spec => []Mirrored
<1>1. IInv => Mirrored
  BY DEF IInv
<1> QED
  BY <1>1, Invariance, PTL

\* A subscription request is stored with the contact exactly as long as the
\* requester's item says it waits.
THEOREM RequestsNeverOneSided == Spec => []RequestsAgree
<1>1. IInv => RequestsAgree
  BY DEF IInv
<1> QED
  BY <1>1, Invariance, PTL

\* A contact is never granted and approved in advance, or waiting and
\* decided, at once.
THEOREM DecisionsExclusive == Spec => []OneDecision
<1>1. IInv => OneDecision
  BY DEF IInv
<1> QED
  BY <1>1, Invariance, PTL

\* So the two copies of all that lies between two accounts always agree.
THEOREM CopiesNeverPart == Spec => []CopiesAgree
<1>1. Mirrored /\ RequestsAgree /\ OneDecision => CopiesAgree
  BY DEF CopiesAgree
<1> QED
  BY <1>1, SubscriptionsMirrored, RequestsNeverOneSided, DecisionsExclusive, PTL

\* After forget_account no trace of a subscription to or from the account is
\* left, so its name can be given out again.
THEOREM NamesInheritNothing == Spec => []NothingInherited
<1>1. IInv => NothingInherited
  BY DEF IInv
<1> QED
  BY <1>1, Invariance, PTL

\* Nobody is granted presence without the owner's standing consent.
THEOREM GrantsNeedConsent == Spec => []ConsentFirst
<1>1. IInv => ConsentFirst
  BY DEF IInv
<1> QED
  BY <1>1, Invariance, PTL

-----------------------------------------------------------------------------
(* The quotas.                                                             *)

\* Every owner has at most n entries in the table.
Bounded(r, n) == \A o \in Accounts : Cardinality(Row(r, o)) <= n

\* An owner's entries can be counted.
LEMMA RowFinite ==
  ASSUME NEW r, NEW o
  PROVE  IsFiniteSet(Row(r, o)) /\ Cardinality(Row(r, o)) \in Nat
<1>1. Row(r, o) \subseteq Accounts
  BY DEF Row
<1> QED
  BY <1>1, AccountsAssumption, FS_Subset, FS_CardinalityType

\* Taking entries away keeps a table within its bound.
LEMMA Shrinking ==
  ASSUME NEW r, NEW q, NEW n \in Nat, Bounded(r, n), q \subseteq r
  PROVE  Bounded(q, n)
<1> SUFFICES ASSUME NEW o \in Accounts
             PROVE  Cardinality(Row(q, o)) <= n
  BY DEF Bounded
<1>1. Row(q, o) \subseteq Row(r, o)
  BY DEF Row
<1>2. Cardinality(Row(q, o)) <= Cardinality(Row(r, o))
  BY <1>1, RowFinite, FS_Subset
<1>3. Cardinality(Row(r, o)) <= n
  BY DEF Bounded
<1> QED
  BY <1>2, <1>3, RowFinite

\* So does writing one entry that is there or finds room.
LEMMA Growing ==
  ASSUME NEW r, NEW q, NEW n \in Nat, NEW s \in Accounts, NEW t \in Accounts,
         Bounded(r, n), q \subseteq r \cup {<<s, t>>},
         <<s, t>> \in r \/ Cardinality(Row(r, s)) < n
  PROVE  Bounded(q, n)
<1>1. CASE <<s, t>> \in r
  <2>1. q \subseteq r
    BY <1>1
  <2> QED
    BY <2>1, Shrinking
<1>2. CASE Cardinality(Row(r, s)) < n
  <2> SUFFICES ASSUME NEW o \in Accounts
               PROVE  Cardinality(Row(q, o)) <= n
    BY DEF Bounded
  <2>1. CASE o = s
    <3>1. Row(q, o) \subseteq Row(r, s) \cup {t}
      BY <2>1 DEF Row
    <3>2. /\ IsFiniteSet(Row(r, s) \cup {t})
          /\ Cardinality(Row(r, s) \cup {t}) <= Cardinality(Row(r, s)) + 1
      <4>1. /\ IsFiniteSet(Row(r, s) \cup {t})
            /\ \/ Cardinality(Row(r, s) \cup {t}) = Cardinality(Row(r, s))
               \/ Cardinality(Row(r, s) \cup {t}) = Cardinality(Row(r, s)) + 1
        BY RowFinite, FS_AddElement
      <4> QED
        BY <4>1, RowFinite
    <3>3. Cardinality(Row(q, o)) <= Cardinality(Row(r, s) \cup {t})
      BY <3>1, <3>2, FS_Subset
    <3>4. Cardinality(Row(r, s) \cup {t}) \in Nat
      BY <3>2, FS_CardinalityType
    <3> QED
      BY <1>2, <3>2, <3>3, <3>4, RowFinite
  <2>2. CASE o # s
    <3>1. Row(q, o) \subseteq Row(r, o)
      BY <2>2 DEF Row
    <3>2. Cardinality(Row(q, o)) <= Cardinality(Row(r, o))
      BY <3>1, RowFinite, FS_Subset
    <3>3. Cardinality(Row(r, o)) <= n
      BY DEF Bounded
    <3> QED
      BY <3>2, <3>3, RowFinite
  <2> QED
    BY <2>1, <2>2
<1> QED
  BY <1>1, <1>2

\* Every step keeps both tables within their quotas.
LEMMA NextWithinQuota == TypeOK /\ WithinQuota /\ [Next]_vars => WithinQuota'
<1> SUFFICES ASSUME TypeOK, WithinQuota, [Next]_vars
             PROVE  Bounded(item', MaxItems) /\ Bounded(pending', MaxPending)
  BY DEF Bounded, WithinQuota, Row
<1>1. Bounded(item, MaxItems) /\ Bounded(pending, MaxPending)
  BY DEF Bounded, WithinQuota
<1>2. MaxItems \in Nat /\ MaxPending \in Nat
  BY QuotaAssumption
<1>3. ASSUME item' \subseteq item
      PROVE  Bounded(item', MaxItems)
  BY <1>1, <1>2, <1>3, Shrinking
<1>4. ASSUME pending' \subseteq pending
      PROVE  Bounded(pending', MaxPending)
  BY <1>1, <1>2, <1>4, Shrinking
<1>5. ASSUME NEW s \in Accounts, NEW t \in Accounts,
             item' \subseteq item \cup {<<s, t>>}, Admits(s, t)
      PROVE  Bounded(item', MaxItems)
  BY <1>1, <1>2, <1>5, Growing DEF Admits
<1>6. ASSUME NEW s \in Accounts, NEW t \in Accounts,
             pending' \subseteq pending \cup {<<s, t>>}, Room(s, t)
      PROVE  Bounded(pending', MaxPending)
  BY <1>1, <1>2, <1>6, Growing DEF Room
<1>7. ASSUME NEW s \in Accounts, NEW t \in Accounts, Operation(s, t)
      PROVE  Bounded(item', MaxItems) /\ Bounded(pending', MaxPending)
  <2>1. CASE Update(s, t)
    <3>1. item' \subseteq item \cup {<<s, t>>} /\ Admits(s, t)
      BY <2>1 DEF Update
    <3>2. pending' \subseteq pending
      BY <2>1 DEF Update
    <3> QED
      BY <3>1, <3>2, <1>5, <1>4
  <2>2. CASE RequestGranted(s, t)
    <3>1. item' \subseteq item
      BY <2>2 DEF RequestGranted
    <3>2. pending' \subseteq pending
      BY <2>2 DEF RequestGranted
    <3> QED
      BY <3>1, <3>2, <1>3, <1>4
  <2>3. CASE RequestPreApproved(s, t)
    <3>1. item' \subseteq item \/ (item' \subseteq item \cup {<<s, t>>} /\ Admits(s, t))
      BY <2>3 DEF RequestPreApproved, With
    <3>2. pending' \subseteq pending
      BY <2>3 DEF RequestPreApproved
    <3> QED
      BY <3>1, <3>2, <1>3, <1>5, <1>4
  <2>4. CASE RequestPending(s, t)
    <3>1. item' \subseteq item \/ (item' \subseteq item \cup {<<s, t>>} /\ Admits(s, t))
      BY <2>4 DEF RequestPending, With
    <3>2. pending' \subseteq pending \cup {<<t, s>>} /\ Room(t, s)
      BY <2>4 DEF RequestPending
    <3> QED
      BY <3>1, <3>2, <1>3, <1>5, <1>6
  <2>5. CASE PreApprove(s, t)
    <3>1. item' \subseteq item \/ (item' \subseteq item \cup {<<s, t>>} /\ Admits(s, t))
      BY <2>5 DEF PreApprove, TypeOK
    <3>2. pending' \subseteq pending
      BY <2>5 DEF PreApprove
    <3> QED
      BY <3>1, <3>2, <1>3, <1>5, <1>4
  <2>6. CASE Approve(s, t)
    <3>1. item' \subseteq item \/ (item' \subseteq item \cup {<<s, t>>} /\ Admits(s, t))
      BY <2>6 DEF Approve, With
    <3>2. pending' \subseteq pending
      BY <2>6 DEF Approve
    <3> QED
      BY <3>1, <3>2, <1>3, <1>5, <1>4
  <2>7. CASE Cancel(s, t)
    <3>1. item' \subseteq item
      BY <2>7 DEF Cancel
    <3>2. pending' \subseteq pending
      BY <2>7 DEF Cancel
    <3> QED
      BY <3>1, <3>2, <1>3, <1>4
  <2>8. CASE Unsubscribe(s, t)
    <3>1. item' \subseteq item
      BY <2>8 DEF Unsubscribe
    <3>2. pending' \subseteq pending
      BY <2>8 DEF Unsubscribe, Without
    <3> QED
      BY <3>1, <3>2, <1>3, <1>4
  <2>9. CASE RemoveItem(s, t)
    <3>1. item' \subseteq item
      BY <2>9 DEF RemoveItem
    <3>2. pending' \subseteq pending
      BY <2>9 DEF RemoveItem
    <3> QED
      BY <3>1, <3>2, <1>3, <1>4
  <2> QED
    BY <1>7, <2>1, <2>2, <2>3, <2>4, <2>5, <2>6, <2>7, <2>8, <2>9 DEF Operation
<1>8. ASSUME NEW a \in Accounts, Delete(a)
      PROVE  Bounded(item', MaxItems) /\ Bounded(pending', MaxPending)
  <2>1. item' \subseteq item /\ pending' \subseteq pending
    BY <1>8 DEF Delete
  <2> QED
    BY <2>1, <1>3, <1>4
<1>9. ASSUME NEW a \in Accounts, Create(a)
      PROVE  Bounded(item', MaxItems) /\ Bounded(pending', MaxPending)
  <2>1. item' \subseteq item /\ pending' \subseteq pending
    BY <1>9 DEF Create
  <2> QED
    BY <2>1, <1>3, <1>4
<1>10. CASE UNCHANGED vars
  <2>1. item' \subseteq item /\ pending' \subseteq pending
    BY <1>10 DEF vars
  <2> QED
    BY <2>1, <1>3, <1>4
<1> QED
  BY <1>7, <1>8, <1>9, <1>10 DEF Next

\* No sequence of operations takes a roster or a queue of requests past its
\* quota, also where one transaction writes in the rosters of both parties.
THEOREM QuotasHold == Spec => []WithinQuota
<1>1. Init => WithinQuota
  <2> SUFFICES ASSUME Init
               PROVE  WithinQuota
    OBVIOUS
  <2>1. \A o \in Accounts : Row(item, o) = {} /\ Row(pending, o) = {}
    BY DEF Init, Row
  <2>2. Cardinality({}) = 0
    BY FS_EmptySet
  <2> QED
    BY <2>1, <2>2, QuotaAssumption DEF WithinQuota
<1>2. TypeOK /\ WithinQuota /\ [Next]_vars => WithinQuota'
  BY NextWithinQuota
<1> QED
  BY <1>1, <1>2, TypeCorrect, PTL DEF Spec
=============================================================================
