----------------------------- MODULE MCPresence -----------------------------
(***************************************************************************)
(* Presence with two accounts, whose updates, ends of sessions and changes *)
(* of subscriptions overlap.                                               *)
(***************************************************************************)
EXTENDS Presence, TLC

Symmetry == Permutations(Accounts)
=============================================================================
