----------------------------- MODULE MCAdminApp -----------------------------
(***************************************************************************)
(* Instances of AdminApp for TLC.                                          *)
(***************************************************************************)
EXTENDS AdminApp, TLC

Q(m, t, i, v) == [method |-> m, target |-> t, id |-> i, vsn |-> v]

(* One request at a time, of every kind.                                   *)
AllQueries ==
  {Q(m, t, BadId, FALSE) : m \in {"GET", "POST"}, t \in Targets} \cup
  {Q("GET", "detail", i, v) : i \in Ids, v \in BOOLEAN}

(* Two at a time: the two forms of a record, and the list.                 *)
PairQueries ==
  {Q("GET", "detail", i, v) : i \in Ids, v \in BOOLEAN} \cup
  {Q("GET", "list", BadId, FALSE), Q("POST", "detail", CHOOSE i \in Ids : TRUE, FALSE)}

Symmetry == Permutations(Requests)
=============================================================================
