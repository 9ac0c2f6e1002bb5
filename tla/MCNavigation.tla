---------------------------- MODULE MCNavigation ----------------------------
(***************************************************************************)
(* Instances of Navigation for TLC.                                        *)
(***************************************************************************)
EXTENDS Navigation

Books == <<"books">>
Plain == {<<"78">>, <<".", " ">>}
Percent == {<<"x">>, <<"x", "%">>, <<"%", "78">>}

Attribute(name, type) == [name |-> name, type |-> type]
Node(name, table, id, fields) ==
  [name |-> name, label |-> <<name>>, table |-> table, view |-> FALSE, oneID |-> TRUE,
   id |-> Attribute("id", id), fields |-> fields]

Book == Node("Book", Books, "string", <<Attribute("title", "string"), Attribute("pages", "uint16")>>)
Tag(table) == Node("Tag", table, "string", <<>>)

OneEntity == {<<Book>>}

(* Two entities, whose tables may clash or not name a page; and entities   *)
(* that the generator has to refuse.                                       *)
AnySchema ==
  {<<Book, Tag(table)>> : table \in {<<"x">>, <<"_", "x">>, Books, <<".">>, <<".", ".">>, <<"_">>}} \cup
  {<<[Book EXCEPT !.view = TRUE]>>, <<[Book EXCEPT !.oneID = FALSE]>>,
   <<[Book EXCEPT !.id.type = "uuid"]>>, <<[Book EXCEPT !.fields[1].type = "bytes"]>>,
   <<Tag(<<"x", "/">>)>>, <<Tag(<<>>)>>}

(* Accepted below the root, with and without the trailing slash, one that  *)
(* is two segments deep, and ones New refuses.                             *)
MountedBases == {<<"/", "control">>, <<"/", "control", "/">>, <<"/", "x", "/", "books">>,
                 <<"control">>, <<"/", ".", ".">>, <<"/", "/", "x">>, <<"/", "%", "2F">>}
AnyBases == MountedBases \cup {<<>>, <<"/">>}

Words == {"/", "books", "x", "%", "78"}
UpToTwo == UNION {[1 .. n -> Words] : n \in 0 .. 2}
Tails == UpToTwo \cup {<<"/">> \o s \o t : s \in {<<"books", "/">>, <<"books">>}, t \in UpToTwo}

(* What follows the base path, or starts the path, is anything of up to    *)
(* two tokens, or an entity's route and then anything of up to two.        *)
Typed == Tails \cup {<<"/", "control">> \o s : s \in Tails}
FewTyped == {<<"/", "books">>, <<"/", "/", "books">>, <<"/", "books", "/">>, <<"/", "x">>}
=============================================================================
