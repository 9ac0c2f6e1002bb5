----------------------------- MODULE Navigation -----------------------------
(***************************************************************************)
(* From a schema to its pages: the generator accepts the schema or not,    *)
(* New the generated registry, and then a visitor types URLs and follows   *)
(* links.  A page shows the links the templates put on it; following one   *)
(* makes the browser resolve its href and send it, and net/http decode it  *)
(* into r.URL.Path, which serveHTTP matches.                               *)
(***************************************************************************)
EXTENDS Registry

CONSTANTS RawBases,     \* values of Config.BasePath
          Schemas,      \* Ent's graphs of schemas: gen.Graph.Nodes
          IdTexts,      \* Record.ID strings the rows may have
          TypedPaths    \* r.URL.Path values a visitor may send by hand

(* What Ent's loader makes sure of before the extensions are called.       *)
LoadedByEnt(graph) ==
  /\ \A i, j \in DOMAIN graph : graph[i].name = graph[j].name => i = j
  /\ \A i \in DOMAIN graph :
       LET node == graph[i]
       IN  /\ "" \notin {node.name, node.id.name} /\ humanLabel(node.label) # <<>>
           /\ \A f, g \in DOMAIN node.fields : node.fields[f].name = node.fields[g].name => f = g
           /\ \A f \in DOMAIN node.fields : node.fields[f].name \notin {"", node.id.name}

ASSUME SchemasAssumption == \A graph \in Schemas : LoadedByEnt(graph)

(* What is written in a URL is a sequence of tokens.                       *)
ASSUME TextAssumption ==
  /\ RawBases \cup IdTexts \cup TypedPaths \subseteq Seq(STRING)
  /\ \A graph \in Schemas :
       graph \in Seq(Range(graph)) /\ \A i \in DOMAIN graph : graph[i].table \in Seq(STRING)

VARIABLES stage,    \* the schema, generated or refused, and New has served or refused it
          graph, raw,
          base,     \* App.basePath
          registry, \* App.registry
          rows,     \* the IDs the reader of each entity has
          path,     \* r.URL.Path of the last request
          wanted,   \* what the link that was followed names; NoMatch if typed
          got,      \* what the path matched
          links     \* the links of the page that was shown

app == <<graph, raw, base, registry>>
vars == <<stage, app, rows, path, wanted, got, links>>

Link(target, href) == [target |-> target, href |-> href]

(* The links of the page that answers a match: pageComponent's own, then   *)
(* the ones of the page inside it.  A record that is gone shows an error   *)
(* page.                                                                   *)
LinksOf(m) ==
  {Link(Index, pathFor(base, <<>>)), Link(Asset, pathFor(base, vsnAssetPath))} \cup
  CASE m.kind = "index" -> {Link(ListOf(e), entityPath(base, registry[e].route)) : e \in DOMAIN registry}
    [] m.kind = "list" ->
         {Link(Detail(m.entity, id), recordPath(base, registry[m.entity].route, id)) : id \in rows[m.entity]}
    [] m.kind = "detail" /\ m.id \in rows[m.entity] ->
         {Link(ListOf(m.entity), entityPath(base, registry[m.entity].route)),
          Link(m, recordPath(base, registry[m.entity].route, m.id))}
    [] OTHER -> {}

Init ==
  /\ stage = "schema" /\ graph \in Schemas /\ raw \in RawBases
  /\ base = <<>> /\ registry = <<>> /\ rows = <<>>
  /\ path = <<>> /\ wanted = NoMatch /\ got = NoMatch /\ links = {}

NoVisit == UNCHANGED <<rows, path, wanted, got, links>>

Generate ==
  /\ stage = "schema"
  /\ IF validateGraph(graph)
       THEN stage' = "generated" /\ registry' = AdminRegistry(graph)
       ELSE stage' = "refused" /\ UNCHANGED registry
  /\ NoVisit /\ UNCHANGED <<graph, raw, base>>

NewFails ==
  /\ stage = "generated" /\ (normalizeBasePath(raw) = <<>> \/ ~validateRegistry(registry))
  /\ stage' = "failed"
  /\ NoVisit /\ UNCHANGED app

(* The visitor starts at the base path.                                    *)
New ==
  /\ stage = "generated" /\ normalizeBasePath(raw) # <<>> /\ validateRegistry(registry)
  /\ stage' = "serving"
  /\ base' = normalizeBasePath(raw)
  /\ rows' \in [DOMAIN registry -> SUBSET IdTexts]
  /\ path' = base' /\ wanted' = NoMatch
  /\ got' = match(base', registry, path') /\ links' = {Link(Index, pathFor(base', <<>>))}
  /\ UNCHANGED <<graph, raw, registry>>

Request(p) ==
  /\ stage = "serving"
  /\ path' = p
  /\ got' = match(base, registry, p)
  /\ links' = LinksOf(got')
  /\ UNCHANGED <<stage, app, rows>>

Type(p) == Request(p) /\ wanted' = NoMatch

(* What a browser sends for an href: a dot segment at its end is resolved  *)
(* away.  An href starts with a slash, and New refuses the bases and the   *)
(* routes that would put such a segment anywhere else.                     *)
Resolved(href) ==
  LET slashes == {1} \cup {i \in DOMAIN href : href[i] = "/"}
      last    == Max(slashes)
      parent  == Max({1} \cup {i \in slashes : i < last})
      name    == SubSeq(href, last + 1, Len(href))
  IN  IF name = <<".">> THEN SubSeq(href, 1, last)
      ELSE IF name = <<".", ".">> THEN SubSeq(href, 1, parent) ELSE href

(* A malformed href is answered 400 by net/http; the visitor stays.        *)
Follow(l) ==
  LET sent == PathUnescape(Resolved(l.href))
  IN  sent.ok /\ Request(sent.text) /\ wanted' = l.target

HostWrites ==
  /\ stage = "serving"
  /\ \E e \in DOMAIN registry, ids \in SUBSET IdTexts : rows' = [rows EXCEPT ![e] = ids]
  /\ UNCHANGED <<stage, app, path, wanted, got, links>>

Next ==
  \/ Generate \/ NewFails \/ New
  \/ (\E p \in TypedPaths : Type(p)) \/ (\E l \in links : Follow(l)) \/ HostWrites

Spec == Init /\ [][Next]_vars

-----------------------------------------------------------------------------

(* An App that New refuses to make of a generated registry fails because   *)
(* of its base path or because its tables do not name the pages: two are   *)
(* the same, or one is a dot segment or has no letter for a label.         *)
(* Whatever else New asks for, the generator has seen to                   *)
(* (docs/architecture.md:106-108).                                         *)
Ambiguous == \E i, j \in DOMAIN graph :
  \/ i # j /\ graph[i].table = graph[j].table
  \/ graph[i].table \in Dots \/ humanLabel(graph[i].table) = <<>>
GeneratedStarts == stage = "failed" => normalizeBasePath(raw) = <<>> \/ Ambiguous

(* Every link leads to what it names: the browser can follow the ordinary  *)
(* link of a record and receive its page (docs/architecture.md:173-175),   *)
(* whatever has been typed before and however the path of the page it was  *)
(* found on was spelled.                                                   *)
LinksLeadHome == wanted # NoMatch => got = wanted

(* The handler's own root is one of its pages: the consumer mounts it at   *)
(* the path supplied as BasePath (docs/architecture.md:131-132).           *)
HomeIsServed == stage = "serving" /\ path = PathUnescape(base).text => got = Index

(* Below the root a path with an empty segment matches nothing             *)
(* (TestAppRejectsAmbiguousPaths, app_test.go:267-278).                    *)
AmbiguousBelowRoot == base # Slash /\ HasEmptySegment(path) => got = NoMatch
=============================================================================
