------------------------------ MODULE MCEntTx ------------------------------
(***************************************************************************)
(* Instances of EntTx for TLC.                                             *)
(***************************************************************************)
EXTENDS EntTx, TLC

Symmetry == Permutations(Txs) \cup Permutations(Hooks)
=============================================================================
