----------------------------- MODULE MCBookQuery -----------------------------
(***************************************************************************)
(* Instances of BookQuery for TLC.                                         *)
(***************************************************************************)
EXTENDS BookQuery

CONSTANTS b1, b2, b3

MCPredicates == {{b1, b2}}
MCHidden == {b2}
MCStacks == {<<"traverser", "around">>, <<"around">>, <<"nil">>}
=============================================================================
