--------------------------- MODULE MCProductQueue ---------------------------
(* Instances of ProductQueue for TLC. *)
EXTENDS ProductQueue, TLC

(* A .cfg cannot write a negative number. *)
MoreOrLess == {-1, 1, 2}

(* Users, join keys and payment references are each interchangeable in     *)
(* every definition.                                                       *)
Interchangeable ==
  Permutations(Users) \cup Permutations(Keys) \cup Permutations(References)
=============================================================================
