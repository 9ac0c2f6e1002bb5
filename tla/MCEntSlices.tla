----------------------------- MODULE MCEntSlices -----------------------------
(***************************************************************************)
(* Instances of EntSlices for TLC.                                         *)
(***************************************************************************)
EXTENDS EntSlices, TLC

Hook(name, how, ops) == [name |-> name, how |-> how, ops |-> ops]

MCHooks == {Hook("log", "Unless", {"create"}), Hook("no", "Reject", {"delete"})}

Symmetry == Permutations(Chains) \cup Permutations(Queries)
=============================================================================
