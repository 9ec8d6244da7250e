------------------------------ MODULE MCShard ------------------------------
(***************************************************************************)
(* Shard with two resources that three sessions take in turn, with carbons *)
(* and mailboxes of one entry, so that removing one can overflow the other.*)
(* ShardProofs shows the invariants for any number of sessions.            *)
(***************************************************************************)
EXTENDS Shard, TLC

Symmetry == Permutations(Resources)
=============================================================================
