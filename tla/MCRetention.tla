----------------------------- MODULE MCRetention -----------------------------
(***************************************************************************)
(* A small instance of Retention: one begin, retried, one finish of its    *)
(* first ceremony, one instance on the clock of the database and one four  *)
(* behind it, and a transaction that may wait for one.  receipt_ttl is two *)
(* more than challenge_ttl, less than skew and wait, and the skew exceeds  *)
(* the grace.                                                              *)
(***************************************************************************)
EXTENDS Retention, TLC

CONSTANTS b1, f1, x1, x2, i1, i2

Symmetry == Permutations(Calls)

FinishTargets == (f1 :> x1)

InstanceOffsets == (Database :> 4) @@ (i1 :> 0) @@ (i2 :> 4)
=============================================================================
