--------------------------- MODULE MCBookMutation ---------------------------
(***************************************************************************)
(* Instances of BookMutation for TLC.                                      *)
(***************************************************************************)
EXTENDS BookMutation, TLC

CONSTANTS title, v1

OneField == {title}
OnePredicate == {[field |-> title, value |-> v1]}
Symmetry == Permutations(Ids)
=============================================================================
