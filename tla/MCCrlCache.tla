----------------------------- MODULE MCCrlCache -----------------------------
(***************************************************************************)
(* CrlCache with two links that have the same distribution point, which    *)
(* serves an old list or a newer one.  The links differ in nothing.        *)
(***************************************************************************)
EXTENDS CrlCache

CONSTANTS u1, other, l1, l2

List(this, next, number, signed) ==
  [this |-> this, next |-> next, number |-> number, cost |-> 1,
   revokes |-> "nothing", signed |-> signed]

SharedPoints == [l \in {l1, l2} |-> <<<<other, u1, u1>>>>]
SharedLists == {List(0, 1, 1, FALSE), List(1, 4, 2, TRUE)}

Links == Permutations({l1, l2})
=============================================================================
