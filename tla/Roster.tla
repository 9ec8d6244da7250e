------------------------------- MODULE Roster -------------------------------
(***************************************************************************)
(* The subscription state of the local accounts: roster items, the         *)
(* requests waiting for a decision and the pre-approvals                   *)
(* (crates/lonewolf-extension/src/roster, over lonewolf-storage's roster   *)
(* tables).  A subscription is kept twice, once in the roster of each      *)
(* party, and a request twice again, so every operation has to keep the    *)
(* two copies in step, through refusals, removals and account deletion.    *)
(*                                                                         *)
(* Every operation is one write transaction (one writer at a time in redb) *)
(* and is therefore one action; an operation that returns an error drops   *)
(* its transaction and changes nothing, so an error is a guard that is     *)
(* FALSE.  The relations are sets of pairs: <<a, b>> \in to says that the  *)
(* item a keeps for b has state `to' or `both', <<a, b>> \in pending that  *)
(* a request of b waits in a's PENDING table.  Contacts on other servers,  *)
(* names, groups, roster versions and the byte quota are left out.         *)
(***************************************************************************)
EXTENDS Naturals, FiniteSets

CONSTANTS Accounts,    \* the bare JIDs of this server's hosts
          MaxItems,    \* RosterQuota.max_items
          MaxPending   \* max_pending_subscription_requests

ASSUME AccountsAssumption == IsFiniteSet(Accounts)
ASSUME QuotaAssumption == MaxItems \in Nat \ {0} /\ MaxPending \in Nat \ {0}

Pairs == Accounts \X Accounts

VARIABLES
    accounts,  \* the accounts that exist in storage
    item,      \* <<owner, contact>>: the owner keeps an item for the contact
    to,        \* SubscriptionState To or Both
    from,      \* SubscriptionState From or Both
    out,       \* RosterSubscription.pending_out
    approved,  \* RosterSubscription.approved
    pending,   \* <<owner, sender>>: the PENDING table
    consent    \* history: <<owner, contact>>, the owner's last word was yes

vars == <<accounts, item, to, from, out, approved, pending, consent>>

Init ==
    /\ accounts = {}
    /\ item = {}
    /\ to = {}
    /\ from = {}
    /\ out = {}
    /\ approved = {}
    /\ pending = {}
    /\ consent = {}

-----------------------------------------------------------------------------
(* What a write does to the two tables.                                    *)

\* The entries of owner o in a table.
Row(r, o) == {x \in Accounts : <<o, x>> \in r}

\* put_roster_item (admit_item): an item that exists is always rewritten, a
\* new one must fit the owner's quota.  Otherwise the operation fails.
Admits(o, c) ==
    \/ <<o, c>> \in item
    \/ Cardinality(Row(item, o)) < MaxItems

\* Mutant: one request too many is stored.
Room_OneMore(o, s) ==
    \/ <<o, s>> \in pending
    \/ Cardinality(Row(pending, o)) <= MaxPending

\* put_pending_request: a repeated request replaces the stored one, a new one
\* must find room.
Room(o, s) ==
    \/ <<o, s>> \in pending
    \/ Cardinality(Row(pending, o)) < MaxPending

\* add the pair p to the relation r when the condition holds, or take it out
With(r, c, p) == IF c THEN r \cup {p} ELSE r
Without(r, c, p) == IF c THEN r \ {p} ELSE r

-----------------------------------------------------------------------------
(* The operations a session of account s starts, its contact being t.      *)

\* RosterSet::Update: the item is written with the subscription it has.
Update(s, t) ==
    /\ s \in accounts
    /\ Admits(s, t)
    /\ item' = item \cup {<<s, t>>}
    /\ UNCHANGED <<accounts, to, from, out, approved, pending, consent>>

\* request_subscription.  The contact already grants: the requester's item is
\* brought in line if it still waits.
RequestGranted(s, t) ==
    /\ {s, t} \subseteq accounts
    /\ <<t, s>> \in from
    /\ LET settles == <<s, t>> \in out /\ <<s, t>> \notin to
       IN  /\ to' = With(to, settles, <<s, t>>)
           /\ out' = Without(out, settles, <<s, t>>)
    /\ UNCHANGED <<accounts, item, from, approved, pending, consent>>

\* request_subscription.  The contact approved in advance: both items change
\* in the transaction, and the approval is used up.
RequestPreApproved(s, t) ==
    /\ {s, t} \subseteq accounts
    /\ <<t, s>> \notin from
    /\ <<t, s>> \in approved
    /\ <<s, t>> \in to \/ Admits(s, t)
    /\ LET subscribes == <<s, t>> \notin to
       IN  /\ to' = With(to, subscribes, <<s, t>>)
           /\ out' = Without(out, subscribes, <<s, t>>)
           /\ item' = With(item, subscribes, <<s, t>>)
    /\ from' = from \cup {<<t, s>>}
    /\ approved' = approved \ {<<t, s>>}
    /\ UNCHANGED <<accounts, pending, consent>>

\* request_subscription.  Nothing is decided: the request is stored with the
\* contact and marked in the requester's item.
RequestPending(s, t) ==
    /\ {s, t} \subseteq accounts
    /\ <<t, s>> \notin from
    /\ <<t, s>> \notin approved
    /\ Room(t, s)
    /\ LET asks == <<s, t>> \notin out /\ <<s, t>> \notin to
       IN  /\ asks => Admits(s, t)
           /\ out' = With(out, asks, <<s, t>>)
           /\ item' = With(item, asks, <<s, t>>)
    /\ pending' = pending \cup {<<t, s>>}
    /\ UNCHANGED <<accounts, to, from, approved, consent>>

\* send_subscription, `subscribed' without a request to answer: the approval
\* is kept for later.  The contact need not exist.
PreApprove(s, t) ==
    /\ s \in accounts
    /\ <<s, t>> \notin from
    /\ <<s, t>> \notin pending
    /\ <<s, t>> \in approved \/ Admits(s, t)
    /\ item' = item \cup {<<s, t>>}
    /\ approved' = approved \cup {<<s, t>>}
    /\ consent' = consent \cup {<<s, t>>}
    /\ UNCHANGED <<accounts, to, from, out, pending>>

\* approve_subscription: the requester's item first, then the stored request
\* and the sender's grant; without a request it becomes a pre-approval.
Approve(s, t) ==
    /\ {s, t} \subseteq accounts
    /\ LET settles  == <<t, s>> \in out /\ <<t, s>> \notin to
           resolves == <<s, t>> \in pending /\ <<s, t>> \notin from
           early    == ~resolves /\ <<s, t>> \notin from /\ <<s, t>> \notin approved
       IN  /\ resolves \/ early => Admits(s, t)
           /\ to' = With(to, settles, <<t, s>>)
           /\ out' = Without(out, settles, <<t, s>>)
           /\ from' = With(from, resolves, <<s, t>>)
           /\ approved' = With(approved, early, <<s, t>>)
           /\ item' = With(item, resolves \/ early, <<s, t>>)
    /\ pending' = pending \ {<<s, t>>}
    /\ consent' = consent \cup {<<s, t>>}
    /\ UNCHANGED accounts

\* Mutant: a revocation leaves the subscriber's item as it is.
Cancel_OneSided(s, t) ==
    /\ s \in accounts
    /\ out' = Without(out, t \in accounts /\ <<s, t>> \in pending, <<t, s>>)
    /\ pending' = pending \ {<<s, t>>}
    /\ from' = from \ {<<s, t>>}
    /\ approved' = approved \ {<<s, t>>}
    /\ consent' = consent \ {<<s, t>>}
    /\ UNCHANGED <<accounts, item, to>>

\* Mutant: a refusal leaves the approval in advance.
Cancel_KeepsApproval(s, t) ==
    /\ s \in accounts
    /\ LET route == t \in accounts
                    /\ (<<s, t>> \in pending \/ <<s, t>> \in from)
       IN  /\ to' = Without(to, route, <<t, s>>)
           /\ out' = Without(out, route, <<t, s>>)
    /\ pending' = pending \ {<<s, t>>}
    /\ from' = from \ {<<s, t>>}
    /\ consent' = consent \ {<<s, t>>}
    /\ UNCHANGED <<accounts, item, approved>>

\* cancel_subscription and the `unsubscribed' branch of send_subscription: a
\* refusal, a revocation or the withdrawal of a pre-approval.
Cancel(s, t) ==
    /\ s \in accounts
    /\ LET route == t \in accounts
                    /\ (<<s, t>> \in pending \/ <<s, t>> \in from)
       IN  /\ to' = Without(to, route, <<t, s>>)
           /\ out' = Without(out, route, <<t, s>>)
    /\ pending' = pending \ {<<s, t>>}
    /\ from' = from \ {<<s, t>>}
    /\ approved' = approved \ {<<s, t>>}
    /\ consent' = consent \ {<<s, t>>}
    /\ UNCHANGED <<accounts, item>>

\* unsubscribe (withdraw_subscription): also retracts a request.
Unsubscribe(s, t) ==
    /\ s \in accounts
    /\ LET known == t \in accounts
       IN  /\ pending' = Without(pending, known, <<t, s>>)
           /\ from' = Without(from, known, <<t, s>>)
    /\ to' = to \ {<<s, t>>}
    /\ out' = out \ {<<s, t>>}
    /\ UNCHANGED <<accounts, item, approved, consent>>

\* Mutant: the owner's own request stays with the contact.
RemoveItem_KeepsRequest(s, t) ==
    /\ s \in accounts
    /\ <<s, t>> \in item
    /\ LET gone == {<<s, t>>} \cup (IF t \in accounts THEN {<<t, s>>} ELSE {})
       IN  /\ to' = to \ gone
           /\ from' = from \ gone
           /\ out' = out \ gone
           /\ pending' = pending \ {<<s, t>>}
    /\ item' = item \ {<<s, t>>}
    /\ approved' = approved \ {<<s, t>>}
    /\ consent' = consent \ {<<s, t>>}
    /\ UNCHANGED accounts

\* RosterSet::Remove (remove_item): the item with all it holds, the requests
\* of both sides and the contact's subscriptions; the contact's pre-approval
\* is its own decision and stays.
RemoveItem(s, t) ==
    /\ s \in accounts
    /\ <<s, t>> \in item
    /\ LET gone == {<<s, t>>} \cup (IF t \in accounts THEN {<<t, s>>} ELSE {})
       IN  /\ to' = to \ gone
           /\ from' = from \ gone
           /\ out' = out \ gone
           /\ pending' = pending \ gone
    /\ item' = item \ {<<s, t>>}
    /\ approved' = approved \ {<<s, t>>}
    /\ consent' = consent \ {<<s, t>>}
    /\ UNCHANGED accounts

\* The pairs whose owner is a.
Of(a) == {a} \X Accounts

\* Mutant: requests of contacts without an item are only dropped.
Delete_ItemsOnly(a) ==
    /\ LET others == accounts \ {a}
           kept   == {c \in others : <<a, c>> \in item} \X {a}
       IN  /\ to' = to \ (kept \cup Of(a))
           /\ out' = out \ (kept \cup Of(a))
           /\ from' = from \ (kept \cup Of(a))
           /\ pending' = pending \ (kept \cup Of(a))
    /\ item' = item \ Of(a)
    /\ approved' = approved \ Of(a)
    /\ consent' = consent \ Of(a)
    /\ accounts' = accounts \ {a}

\* account_deletion's delete with the roster's forget_account: first the
\* contacts a has items for lose every subscription to a, then the senders
\* of requests a has no item for lose their request, then a's roster is
\* cleared.
Delete(a) ==
    /\ LET others == accounts \ {a}
           kept   == {c \in others : <<a, c>> \in item} \X {a}
           asking == {c \in others : <<a, c>> \in pending /\ <<a, c>> \notin item} \X {a}
       IN  /\ to' = to \ (kept \cup asking \cup Of(a))
           /\ out' = out \ (kept \cup asking \cup Of(a))
           /\ from' = from \ (kept \cup Of(a))
           /\ pending' = pending \ (kept \cup Of(a))
    /\ item' = item \ Of(a)
    /\ approved' = approved \ Of(a)
    /\ consent' = consent \ Of(a)
    /\ accounts' = accounts \ {a}

\* create of the admin API
Create(a) ==
    /\ a \notin accounts
    /\ accounts' = accounts \cup {a}
    /\ UNCHANGED <<item, to, from, out, approved, pending, consent>>

Operation(s, t) ==
    \/ Update(s, t)
    \/ RequestGranted(s, t)
    \/ RequestPreApproved(s, t)
    \/ RequestPending(s, t)
    \/ PreApprove(s, t)
    \/ Approve(s, t)
    \/ Cancel(s, t)
    \/ Unsubscribe(s, t)
    \/ RemoveItem(s, t)

Next ==
    \/ \E s, t \in Accounts : Operation(s, t)
    \/ \E a \in Accounts : Delete(a) \/ Create(a)

Spec == Init /\ [][Next]_vars

-----------------------------------------------------------------------------
(* Properties.                                                             *)

\* The relations are over the accounts; what an item says needs an item.
TypeOK ==
    /\ accounts \subseteq Accounts
    /\ item \subseteq Pairs
    /\ to \subseteq item
    /\ from \subseteq item
    /\ out \subseteq item
    /\ approved \subseteq item
    /\ pending \subseteq Pairs
    /\ consent \subseteq Pairs

\* The two copies of a subscription agree: a's item says it is subscribed to
\* b exactly when b's item says it grants a, after any mix of requests,
\* answers, removals and deletions on either side, a itself included.
Mirrored ==
    \A a, b \in accounts : <<a, b>> \in to <=> <<b, a>> \in from

\* The two copies of a request agree: a's item says it waits for b exactly
\* when b still has a's request stored, so no request is lost from one side
\* (nobody would ever answer) or left on one side (it would be answered twice).
RequestsAgree ==
    \A a, b \in accounts : <<a, b>> \in out <=> <<b, a>> \in pending

\* A contact is in one of the states of the protocol: a request that waits is
\* neither granted nor approved in advance, and a pre-approval is used up by
\* the grant it led to (it would otherwise outlive the subscription and let
\* the contact back in without asking).
OneDecision ==
    /\ approved \cap from = {}
    /\ pending \cap (from \cup approved) = {}

\* The two copies of what lies between two accounts agree, on the
\* subscription, on the request and on the decision about it (state.rs,
\* which writes both copies in one transaction).
CopiesAgree == Mirrored /\ RequestsAgree /\ OneDecision

\* An account that does not exist has no roster and no request, nobody is
\* subscribed to it, waits for it or grants it: a deleted account's name,
\* when it is given out again, inherits no subscription.
NothingInherited ==
    \A p \in Pairs :
        /\ p[1] \notin accounts => p \notin item \cup pending
        /\ p[2] \notin accounts => p \notin to \cup from \cup out \cup pending

\* Presence is granted, now or in advance, only to a contact the owner said
\* yes to and has not since refused or removed.
ConsentFirst == from \cup approved \subseteq consent

\* Neither quota is exceeded, whichever operation writes.
WithinQuota ==
    \A a \in Accounts :
        /\ Cardinality(Row(item, a)) <= MaxItems
        /\ Cardinality(Row(pending, a)) <= MaxPending
=============================================================================
