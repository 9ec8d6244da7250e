---------------------------- MODULE RosterRemote ----------------------------
(* A subscription between two accounts on two servers, both of them this     *)
(* program. Each server keeps its own half of it and tells the other one by  *)
(* presence stanzas that a link carries in order and may lose               *)
(* (lonewolf-extension/src/roster/subscription.rs, state.rs). The order of   *)
(* an account (see Order) makes one operation on it, with what it sends, one *)
(* step. Both accounts have one resource, which stays available: its later   *)
(* changes of presence are not modelled (see Presence).                      *)
EXTENDS Naturals, Sequences

CONSTANTS MaxOps,     \* what the two users and their administrators ask for
          MaxLosses   \* stanzas the links lose or the other server refuses

BoundsAssumption == MaxOps \in Nat /\ MaxLosses \in Nat

VARIABLES account,  \* account[s]: the user of server s has an account
          item,     \* item[s]: s's roster item for the other user
          pending,  \* pending[s]: s keeps a request of the other user
          link,     \* link[s]: the stanzas under way to s, in order
          shown,    \* shown[s]: s's user sees the other one available
          ops, losses,
          settled   \* the request that nothing has disturbed since, if any

vars == <<account, item, pending, link, shown, ops, losses, settled>>

Sides    == {"a", "b"}
Other(s) == CHOOSE t \in Sides : t # s

(* state::RosterSubscription: `to` and `from` are the two bits of its state. *)
Default == [stored |-> FALSE, to |-> FALSE, from |-> FALSE, out |-> FALSE, approved |-> FALSE]

Unsettled == [by |-> "none", wants |-> FALSE]

Init == /\ account = [s \in Sides |-> TRUE]
        /\ item = [s \in Sides |-> Default]
        /\ pending = [s \in Sides |-> FALSE]
        /\ link = [s \in Sides |-> <<>>]
        /\ shown = [s \in Sides |-> FALSE]
        /\ ops = 0 /\ losses = 0
        /\ settled = Unsettled

-----------------------------------------------------------------------------
(* What happens to one half.                                                 *)

grants(s) == item[s].from

set_pending_out(i)     == IF i.out \/ i.to THEN i ELSE [i EXCEPT !.out = TRUE, !.stored = TRUE]
withdraw_outbound(i)   == [i EXCEPT !.to = FALSE, !.out = FALSE]
approve_pending_out(i) == IF i.out /\ ~i.to THEN [i EXCEPT !.to = TRUE, !.out = FALSE] ELSE i
pre_approve(i)         == IF i.from THEN i ELSE [i EXCEPT !.approved = TRUE, !.stored = TRUE]
grant(i)               == [i EXCEPT !.from = TRUE, !.approved = FALSE, !.stored = TRUE]
without_from(i)        == [i EXCEPT !.from = FALSE]

(* cancel_subscription for a contact elsewhere: the pre-approval goes too.   *)
cancel_subscription(i) == [without_from(i) EXCEPT !.approved = FALSE]

Quiet == \A s \in Sides : link[s] = <<>>

(* What s tells the other side, in this order.                               *)
Tell(s, stanzas) == link' = [link EXCEPT ![Other(s)] = @ \o stanzas]

(* route_current_presence and route_unavailable_presence: what the resource  *)
(* of the account says of itself, addressed to the other user.               *)
Present == "available"
Gone    == "unavailable"

When(condition, stanza) == IF condition THEN <<stanza>> ELSE <<>>

Change(s, new) == item' = [item EXCEPT ![s] = new]

Resolve(s, still) == pending' = [pending EXCEPT ![s] = still]

-----------------------------------------------------------------------------
(* send_remote_subscription: the user of s sends a stanza to the other one.  *)

Ask(s) == /\ account[s] /\ ops < MaxOps
          /\ ops' = ops + 1
          /\ UNCHANGED <<account, shown, losses>>

(* A user asks; the stanza goes out even when the half says it is granted.   *)
SendSubscribe(s) ==
  /\ Ask(s)
  /\ Change(s, set_pending_out(item[s]))
  /\ Tell(s, <<"subscribe">>)
  /\ settled' = IF Quiet THEN [by |-> s, wants |-> TRUE] ELSE Unsettled
  /\ UNCHANGED pending

(* Variant: nothing goes out when this half knows of no subscription. *)
SendUnsubscribe_IfKnown(s) ==
  /\ Ask(s)
  /\ Change(s, withdraw_outbound(item[s]))
  /\ Tell(s, When(item[s].to \/ item[s].out, "unsubscribe"))
  /\ settled' = [by |-> s, wants |-> FALSE] /\ UNCHANGED pending

SendUnsubscribe(s) ==
  /\ Ask(s)
  /\ Change(s, withdraw_outbound(item[s]))
  /\ Tell(s, <<"unsubscribe">>)
  /\ settled' = [by |-> s, wants |-> FALSE] /\ UNCHANGED pending

(* An approval that resolves a request goes out, with the presence; any      *)
(* other is kept as a pre-approval.                                          *)
SendSubscribed(s) ==
  /\ Ask(s) /\ settled' = Unsettled
  /\ IF pending[s] /\ ~grants(s)
     THEN /\ Change(s, grant(item[s]))
          /\ Resolve(s, FALSE)
          /\ Tell(s, <<"subscribed", Present>>)
     ELSE /\ Change(s, pre_approve(item[s]))
          /\ UNCHANGED <<pending, link>>

SendUnsubscribed(s) ==
  /\ Ask(s) /\ settled' = Unsettled
  /\ Change(s, cancel_subscription(item[s]))
  /\ Resolve(s, FALSE)
  /\ Tell(s, When(pending[s] \/ grants(s), "unsubscribed") \o When(grants(s), Gone))

(* notify_removed_remote_contact: the resources are shown gone only to whom  *)
(* they were shown.                                                          *)
Farewell(s) ==
  Tell(s, When(grants(s), Gone)
          \o When(item[s].to \/ item[s].out, "unsubscribe")
          \o When(grants(s) \/ pending[s], "unsubscribed"))

RemoveItem(s) ==
  /\ Ask(s) /\ settled' = Unsettled
  /\ item[s].stored
  /\ Farewell(s)
  /\ Change(s, Default)
  /\ Resolve(s, FALSE)

(* forget_account: an account that is deleted takes leave of every contact,  *)
(* and of whoever waits for its answer. Its sessions end with it.            *)
DeleteAccount(s) ==
  /\ account[s] /\ ops < MaxOps
  /\ account' = [account EXCEPT ![s] = FALSE]
  /\ Farewell(s)
  /\ Change(s, Default)
  /\ Resolve(s, FALSE)
  /\ shown' = [shown EXCEPT ![s] = FALSE]
  /\ ops' = ops + 1 /\ settled' = Unsettled
  /\ UNCHANGED losses

CreateAccount(s) ==
  /\ ~account[s] /\ ops < MaxOps
  /\ account' = [account EXCEPT ![s] = TRUE]
  /\ ops' = ops + 1 /\ settled' = Unsettled
  /\ UNCHANGED <<item, pending, link, shown, losses>>

-----------------------------------------------------------------------------
(* receive_remote: a stanza of the other user reaches s.                     *)

Arrives(s, stanza) == link[s] # <<>> /\ Head(link[s]) = stanza

(* The stanza is taken from the link and the replies go the other way.       *)
Reply(s, stanzas) ==
  link' = [link EXCEPT ![s] = Tail(@), ![Other(s)] = @ \o stanzas]

Received == UNCHANGED <<account, ops, losses, settled>>

NoAccount(s) == /\ link[s] # <<>> /\ ~account[s]
                /\ Reply(s, <<>>) /\ Received
                /\ UNCHANGED <<item, pending, shown>>

ReceiveSubscribe(s) ==
  /\ account[s] /\ Arrives(s, "subscribe") /\ Received /\ UNCHANGED shown
  /\ CASE grants(s) ->
            Reply(s, <<"subscribed">>) /\ UNCHANGED <<item, pending>>
       [] ~grants(s) /\ item[s].approved ->
            /\ Change(s, grant(item[s]))
            /\ Reply(s, <<"subscribed", Present>>)
            /\ UNCHANGED pending
       [] OTHER -> Reply(s, <<>>) /\ Resolve(s, TRUE) /\ UNCHANGED item

(* The recipient has as many requests as it may keep.                        *)
RefuseSubscribe(s) ==
  /\ account[s] /\ Arrives(s, "subscribe") /\ losses < MaxLosses
  /\ ~grants(s) /\ ~item[s].approved /\ ~pending[s]
  /\ losses' = losses + 1
  /\ Reply(s, <<>>)
  /\ settled' = Unsettled
  /\ UNCHANGED <<account, item, pending, shown, ops>>

ReceiveSubscribed(s) ==
  /\ account[s] /\ Arrives(s, "subscribed") /\ Received
  /\ Change(s, approve_pending_out(item[s]))
  /\ Reply(s, <<>>) /\ UNCHANGED <<pending, shown>>

ReceiveUnsubscribe(s) ==
  /\ account[s] /\ Arrives(s, "unsubscribe") /\ Received
  /\ Change(s, without_from(item[s]))
  /\ Resolve(s, FALSE)
  /\ Reply(s, When(pending[s] \/ grants(s), "unsubscribed") \o When(grants(s), Gone))
  /\ UNCHANGED shown

ReceiveUnsubscribed(s) ==
  /\ account[s] /\ Arrives(s, "unsubscribed") /\ Received
  /\ Change(s, withdraw_outbound(item[s]))
  /\ Reply(s, <<>>) /\ UNCHANGED <<pending, shown>>

ReceivePresence(s) ==
  /\ account[s] /\ (Arrives(s, Present) \/ Arrives(s, Gone)) /\ Received
  /\ shown' = [shown EXCEPT ![s] = (Head(link[s]) = Present)]
  /\ Reply(s, <<>>) /\ UNCHANGED <<item, pending>>

(* The stream ends before the other server has read the stanza.              *)
Lose(s) ==
  /\ link[s] # <<>> /\ losses < MaxLosses
  /\ losses' = losses + 1
  /\ Reply(s, <<>>)
  /\ settled' = Unsettled
  /\ UNCHANGED <<account, item, pending, shown, ops>>

-----------------------------------------------------------------------------
Next == \E s \in Sides :
          \/ SendSubscribe(s) \/ SendUnsubscribe(s)
          \/ SendSubscribed(s) \/ SendUnsubscribed(s)
          \/ RemoveItem(s) \/ DeleteAccount(s) \/ CreateAccount(s)
          \/ NoAccount(s) \/ ReceiveSubscribe(s) \/ RefuseSubscribe(s)
          \/ ReceiveSubscribed(s) \/ ReceiveUnsubscribe(s) \/ ReceiveUnsubscribed(s)
          \/ ReceivePresence(s) \/ Lose(s)

Spec == Init /\ [][Next]_vars

-----------------------------------------------------------------------------
(* Nobody is shown someone who has taken back the leave to be seen: with     *)
(* nothing lost, once the links are empty, a subscription one server         *)
(* believes in is granted by the other, and whoever is shown as available    *)
(* has granted it.                                                           *)
Truthful ==
  losses = 0 /\ Quiet =>
    \A s \in Sides : /\ item[s].to => grants(Other(s))
                     /\ shown[s] => grants(Other(s))

(* Whatever was lost before, asking again puts both halves right: after an   *)
(* unsubscribe that arrives neither server believes in the subscription nor  *)
(* keeps a request, and after a subscribe that met no older stanza on its    *)
(* way the asker has what it asked for, or its request is kept.              *)
Heals ==
  Quiet /\ settled.by # "none" =>
    LET s == settled.by
        t == Other(s)
    IN  IF settled.wants
        THEN account[t] => \/ item[s].to /\ grants(t)
                           \/ (item[s].to \/ item[s].out) /\ pending[t]
        ELSE /\ ~item[s].to /\ ~item[s].out
             /\ account[t] => ~grants(t) /\ ~pending[t]

(* The two halves of a subscription agree wherever the stanzas that would    *)
(* make them agree have arrived.                                             *)
HalvesAgree == Truthful /\ Heals
=============================================================================
