------------------------------ MODULE Registry ------------------------------
(***************************************************************************)
(* From an Ent schema to the registry of an App: what the extension of     *)
(* Ent's code generator accepts (entc/extension.go), the registry that the *)
(* generated AdminRegistry returns (entc/template/admin.tmpl), and what    *)
(* New accepts (app.go).                                                   *)
(*                                                                         *)
(* Names are strings; a table or a label is text as in UrlPath, a label    *)
(* without its spaces and cases.  Of a field only its name and its type or *)
(* kind are modelled; "" is a kind, a name or a label that is empty.       *)
(***************************************************************************)
EXTENDS UrlPath

(* fieldKind; "" is an error.                                              *)
fieldKind(type) ==
  CASE type \in {"int", "int8", "int16", "int32"} -> "int"
    [] type \in {"uint", "uint8", "uint16", "uint32"} -> "uint"
    [] type \in {"float32", "float64"} -> "float64"
    [] type \in {"string", "int64", "uint64", "bool", "time", "enum", "uuid", "json"} -> type
    [] OTHER -> ""

validID(node) == node.id.type \in {"string", "int", "int64"}

validRoute(route) == route # <<>> /\ ~Mentions(route, {"/", "?"})

(* A mutant of validateGraph: only the ids need a kind.                    *)
validateGraphIds(graph) ==
  \A i \in DOMAIN graph :
    ~graph[i].view /\ graph[i].oneID /\ validID(graph[i]) /\ validRoute(graph[i].table)

validateGraph(graph) ==
  \A i \in DOMAIN graph :
    LET node == graph[i]
    IN  /\ ~node.view /\ node.oneID /\ validID(node) /\ validRoute(node.table)
        /\ \A f \in {node.id} \cup Range(node.fields) : fieldKind(f.type) # ""

humanLabel(text) == SelectSeq(text, LAMBDA c : c \notin {"_", "-", " "})

(* Its entities are ordered by name, which nothing here depends on.        *)
AdminRegistry(graph) ==
  LET Field(f) == [name |-> f.name, kind |-> fieldKind(f.type)]
  IN [i \in DOMAIN graph |->
       [name |-> graph[i].name, label |-> humanLabel(graph[i].label),
        plural |-> humanLabel(graph[i].table), route |-> graph[i].table,
        id |-> Field(graph[i].id), fields |-> [f \in DOMAIN graph[i].fields |-> Field(graph[i].fields[f])],
        reader |-> TRUE]]

-----------------------------------------------------------------------------

validEntity(entity) ==
  /\ entity.name # "" /\ entity.label # <<>> /\ entity.plural # <<>>
  /\ validRoute(entity.route) /\ entity.route \notin Dots
  /\ entity.reader
  /\ entity.id.name # "" /\ entity.id.kind # ""
  /\ \A f \in Range(entity.fields) : f.name \notin {"", entity.id.name} /\ f.kind # ""
  /\ \A f, g \in DOMAIN entity.fields : entity.fields[f].name = entity.fields[g].name => f = g

(* A mutant of validateRegistry: entities may share a route.               *)
validateRegistryEach(registry) == \A i \in DOMAIN registry : validEntity(registry[i])

validateRegistry(registry) ==
  /\ \A i \in DOMAIN registry : validEntity(registry[i])
  /\ \A i, j \in DOMAIN registry : registry[i].route = registry[j].route => i = j
=============================================================================
