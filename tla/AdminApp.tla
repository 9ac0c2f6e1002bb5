------------------------------ MODULE AdminApp ------------------------------
(***************************************************************************)
(* The request path of the admin handler: App.ServeHTTP, the middleware    *)
(* New wraps around it, serveHTTP and its four pages, the generated Reader *)
(* and the Templ renderer.                                                 *)
(*                                                                         *)
(* net/http runs one goroutine per request, so requests are processes that *)
(* share nothing but the host's table.  A step of a request is what it     *)
(* does between two points where the rest of the world can matter to it:   *)
(* the table may change, its context may be cancelled (a deadline put on   *)
(* it by a middleware) and its client may go away at any moment.           *)
(*                                                                         *)
(* Outside src/, and modelled from how the code uses them: the rows (an    *)
(* Ent client over database/sql), net/http's ResponseWriter and Templ's    *)
(* runtime.  URL paths are already resolved here to a target; UrlPath and  *)
(* Navigation model how.                                                   *)
(***************************************************************************)
EXTENDS Integers, FiniteSets

CONSTANTS
  Requests,         \* requests that can be in progress at once
  Ids,              \* primary keys: Go ints, so finitely many
  BadId,            \* an id segment that is not a primary key: /books/abc
  Fields,           \* Entity.Fields, by name
  Sensitive,        \* those with Field.Sensitive
  Values,           \* what a field can hold
  Redacted,         \* "Redacted"
  NoRow,            \* table[i] when row i does not exist
  Queries,          \* the requests clients send
  MiddlewareCount,  \* len(Config.Middleware)
  PageSize          \* defaultPageSize

Methods == {"GET", "HEAD", "POST"}
Targets == {"unknown", "index", "list", "detail", "asset"}
Query == [method : Methods, target : Targets, id : Ids \cup {BadId}, vsn : BOOLEAN]

ASSUME IdsAssumption == BadId \notin Ids /\ IsFiniteSet(Ids)
ASSUME FieldsAssumption == Sensitive \subseteq Fields
ASSUME TextAssumption == Redacted \notin Values
ASSUME NoRowAssumption == NoRow \notin [Fields -> Values]
ASSUME QueriesAssumption == Queries \subseteq Query /\ Queries # {}
ASSUME MiddlewareAssumption == MiddlewareCount \in Nat
ASSUME PageSizeAssumption == PageSize \in Nat \ {0}

VARIABLES
  table,    \* the host's rows
  pc,       \* what each request does next
  query,    \* the http.Request: method, matched path, HX-Request
  ctx,      \* r.Context(): live, past its deadline, or cancelled by the client going away
  layer,    \* the middleware it is about to enter; App when it reaches serveHTTP
  passed,   \* the middlewares that have called their next handler
  page,     \* the view.Page to be answered with
  header,   \* w.Header(): may change until the handler returns
  status,   \* the status on the wire, 0 before the first WriteHeader
  sent,     \* the headers on the wire: those set at the first WriteHeader
  body      \* what has been written after them

vars == <<table, pc, query, ctx, layer, passed, page, header, status, sent, body>>

-----------------------------------------------------------------------------
(* Rows, pages and bodies.                                                 *)

Rows == [Fields -> Values]
Present == {i \in Ids : table[i] # NoRow}

PageOf(kind, code, S) == [kind |-> kind, status |-> code, rows |-> [i \in S |-> table[i]]]
NoPage == PageOf("none", 0, {})
ErrorPage(code) == PageOf("error", code, {})

(* A mutant of CellText: the sensitive branch is lost.                     *)
CellTextPlain(f, value) == value

(* fieldValue: a sensitive field is shown as Redacted, whatever it holds.  *)
CellText(f, value) == IF f \in Sensitive THEN Redacted ELSE value

Cells(p) == {[id |-> i, field |-> f, text |-> CellText(f, p.rows[i][f])] :
               i \in DOMAIN p.rows, f \in Fields}

(* isVSNRequest decides between the two representations of a record; list, *)
(* index and error pages have only one.                                    *)
FormOf(q, p) == CASE p.kind = "refusal" -> "refusal"
                  [] p.kind = "asset"   -> "script"
                  [] p.kind = "detail" /\ q.vsn -> "fragment"
                  [] OTHER -> "document"

NoBody == [form |-> "none", stage |-> "empty", cells |-> {}, errText |-> FALSE]

-----------------------------------------------------------------------------
(* The handler chain: New wraps from the last middleware to the first, so  *)
(* middleware i calls what the loop had built when it got to i, and the    *)
(* handler New keeps is the last one wrapped.                              *)

(* A mutant of Outermost: the wrapping loop stops at i > 0.                *)
OutermostSkipped == IF MiddlewareCount > 0 THEN 2 ELSE 1

App == MiddlewareCount + 1
Layers == 1 .. MiddlewareCount
Inner(i) == i + 1
Outermost == 1

Init ==
  /\ table \in [Ids -> Rows \cup {NoRow}]
  /\ pc = [r \in Requests |-> "idle"]
  /\ query \in [Requests -> Queries]
  /\ ctx = [r \in Requests |-> "live"]
  /\ layer = [r \in Requests |-> Outermost]
  /\ passed = [r \in Requests |-> {}]
  /\ page = [r \in Requests |-> NoPage]
  /\ header = [r \in Requests |-> {}]
  /\ status = [r \in Requests |-> 0]
  /\ sent = [r \in Requests |-> {}]
  /\ body = [r \in Requests |-> NoBody]

Goto(r, from, to) == pc[r] = from /\ pc' = [pc EXCEPT ![r] = to]
Reply(r, p) == page' = [page EXCEPT ![r] = p]
wire == <<status, sent, body>>

(* WriteHeader: the first call fixes the status and takes the headers as   *)
(* they are; a later one is ignored ("superfluous response.WriteHeader").  *)
WriteHeader(r, code) ==
  IF status[r] = 0
    THEN /\ status' = [status EXCEPT ![r] = code]
         /\ sent' = [sent EXCEPT ![r] = header'[r]]
    ELSE UNCHANGED <<status, sent>>

-----------------------------------------------------------------------------
(* Everybody else.                                                         *)

(* The host writes its own table, one row at a time.                       *)
HostWrites ==
  /\ \E i \in Ids, v \in Rows \cup {NoRow} : table' = [table EXCEPT ![i] = v]
  /\ UNCHANGED <<pc, query, ctx, layer, passed, page, header, wire>>

Arrive(r) ==
  /\ Goto(r, "idle", "middleware")
  /\ \E q \in Queries : query' = [query EXCEPT ![r] = q]
  /\ UNCHANGED <<table, ctx, layer, passed, page, header, wire>>

(* A middleware's deadline passes, or the client closes the connection.    *)
Cancel(r) ==
  /\ pc[r] \notin {"idle", "done"}
  /\ ctx[r] = "live"
  /\ \E c \in {"deadline", "gone"} : ctx' = [ctx EXCEPT ![r] = c]
  /\ UNCHANGED <<table, pc, query, layer, passed, page, header, wire>>

(* The next request takes the slot of a finished one.                      *)
Recycle(r) ==
  /\ Goto(r, "done", "idle")
  /\ ctx' = [ctx EXCEPT ![r] = "live"]
  /\ layer' = [layer EXCEPT ![r] = Outermost]
  /\ passed' = [passed EXCEPT ![r] = {}]
  /\ Reply(r, NoPage)
  /\ header' = [header EXCEPT ![r] = {}]
  /\ status' = [status EXCEPT ![r] = 0]
  /\ sent' = [sent EXCEPT ![r] = {}]
  /\ body' = [body EXCEPT ![r] = NoBody]
  /\ UNCHANGED <<table, query>>

-----------------------------------------------------------------------------
(* The middleware chain.                                                   *)

Pass(r) ==
  /\ pc[r] = "middleware" /\ layer[r] \in Layers
  /\ layer' = [layer EXCEPT ![r] = Inner(layer[r])]
  /\ passed' = [passed EXCEPT ![r] = @ \cup {layer[r]}]
  /\ UNCHANGED <<table, pc, query, ctx, page, header, wire>>

(* A middleware answers by itself, an authentication failure say, and does *)
(* not call its next handler.                                              *)
Refuse(r) ==
  /\ layer[r] \in Layers
  /\ Goto(r, "middleware", "write")
  /\ Reply(r, PageOf("refusal", 403, {}))
  /\ UNCHANGED <<table, query, ctx, layer, passed, header, wire>>

-----------------------------------------------------------------------------
(* serveHTTP: the path is looked up before the method is looked at.        *)

Routed(r) == pc[r] = "middleware" /\ layer[r] = App
ReadOnly(q) == q.method \in {"GET", "HEAD"}

UnknownPath(r) ==
  /\ Routed(r) /\ query[r].target = "unknown"
  /\ pc' = [pc EXCEPT ![r] = "write"]
  /\ Reply(r, ErrorPage(404))
  /\ UNCHANGED <<table, query, ctx, layer, passed, header, wire>>

MethodNotAllowed(r) ==
  /\ Routed(r) /\ query[r].target # "unknown" /\ ~ReadOnly(query[r])
  /\ pc' = [pc EXCEPT ![r] = "write"]
  /\ header' = [header EXCEPT ![r] = @ \cup {"Allow"}]
  /\ Reply(r, ErrorPage(405))
  /\ UNCHANGED <<table, query, ctx, layer, passed, wire>>

ServeIndex(r) ==
  /\ Routed(r) /\ query[r].target = "index" /\ ReadOnly(query[r])
  /\ pc' = [pc EXCEPT ![r] = "write"]
  /\ Reply(r, PageOf("index", 200, {}))
  /\ UNCHANGED <<table, query, ctx, layer, passed, header, wire>>

ServeVSNAsset(r) ==
  /\ Routed(r) /\ query[r].target = "asset" /\ ReadOnly(query[r])
  /\ pc' = [pc EXCEPT ![r] = "write"]
  /\ header' = [header EXCEPT ![r] = @ \cup {"Script", "Immutable"}]
  /\ Reply(r, PageOf("asset", 200, {}))
  /\ UNCHANGED <<table, query, ctx, layer, passed, wire>>

(* A mutant of ServeList: the method is not looked at.                     *)
ServeListAnyMethod(r) ==
  /\ Routed(r) /\ query[r].target = "list"
  /\ pc' = [pc EXCEPT ![r] = "read"]
  /\ UNCHANGED <<table, query, ctx, layer, passed, page, header, wire>>

ServeList(r) ==
  /\ Routed(r) /\ query[r].target = "list" /\ ReadOnly(query[r])
  /\ pc' = [pc EXCEPT ![r] = "read"]
  /\ UNCHANGED <<table, query, ctx, layer, passed, page, header, wire>>

(* A mutant of ServeDetail: only fragment requests add Vary.               *)
ServeDetailVaryOnFragment(r) ==
  /\ Routed(r) /\ query[r].target = "detail" /\ ReadOnly(query[r])
  /\ pc' = [pc EXCEPT ![r] = "read"]
  /\ header' = [header EXCEPT ![r] = IF query[r].vsn THEN @ \cup {"Vary"} ELSE @]
  /\ UNCHANGED <<table, query, ctx, layer, passed, page, wire>>

(* Vary is added before the reader is asked, so error answers carry it too. *)
ServeDetail(r) ==
  /\ Routed(r) /\ query[r].target = "detail" /\ ReadOnly(query[r])
  /\ pc' = [pc EXCEPT ![r] = "read"]
  /\ header' = [header EXCEPT ![r] = @ \cup {"Vary"}]
  /\ UNCHANGED <<table, query, ctx, layer, passed, page, wire>>

-----------------------------------------------------------------------------
(* The generated reader: one SELECT, so one instant of the table.          *)

Answer(r, p) ==
  /\ Goto(r, "read", "write")
  /\ Reply(r, p)
  /\ UNCHANGED <<table, query, ctx, layer, passed, header, wire>>

(* A mutant of List: an off-by-one LIMIT.                                  *)
ListOverLimit(r) ==
  /\ query[r].target = "list"
  /\ \E S \in SUBSET Present :
       /\ Cardinality(S) = (IF Cardinality(Present) < PageSize THEN Cardinality(Present)
                            ELSE PageSize + 1)
       /\ Answer(r, PageOf("list", 200, S))

(* List: LIMIT PageSize and no ORDER BY, so any PageSize of the rows.      *)
List(r) ==
  /\ query[r].target = "list"
  /\ \E S \in SUBSET Present :
       /\ Cardinality(S) = (IF Cardinality(Present) < PageSize THEN Cardinality(Present)
                            ELSE PageSize)
       /\ Answer(r, PageOf("list", 200, S))

(* A mutant of Get: nobody asks whether the row was found.                *)
GetUnchecked(r) ==
  /\ query[r].target = "detail" /\ query[r].id \in Ids
  /\ Answer(r, PageOf("detail", 200, {query[r].id}))

(* Get: the id is parsed, the row is looked up, NotFound is translated.    *)
Get(r) ==
  /\ query[r].target = "detail" /\ query[r].id \in Ids
  /\ Answer(r, IF query[r].id \in Present THEN PageOf("detail", 200, {query[r].id})
               ELSE ErrorPage(404))

(* The query fails, as it does in a cancelled context, or the id does not  *)
(* parse: an error that is not ErrNotFound.                                *)
ReadFails(r) ==
  /\ query[r].target \in {"list", "detail"}
  /\ Answer(r, ErrorPage(500))

-----------------------------------------------------------------------------
(* writeHTMLStatus: the status goes out before anything is rendered.  The  *)
(* middleware's refusal and the script set theirs by writing.              *)

Write(r) ==
  /\ Goto(r, "write", IF page[r].kind = "refusal" THEN "done" ELSE "render")
  /\ header' = [header EXCEPT ![r] = IF page[r].kind \in {"refusal", "asset"} THEN @
                                     ELSE @ \cup {"Html"}]
  /\ WriteHeader(r, page[r].status)
  /\ body' = [body EXCEPT ![r].form = FormOf(query[r], page[r])]
  /\ UNCHANGED <<table, query, ctx, layer, passed, page>>

(* The Templ components.  Each checks ctx.Err() when it is entered: the    *)
(* document's shell, then the page in it (the fragment has no shell), then *)
(* one fieldValue per cell.                                                *)

Extend(r, part) ==
  /\ pc[r] = "render"
  /\ body' = [body EXCEPT ![r] = part]
  /\ UNCHANGED <<table, pc, query, ctx, layer, passed, page, header, status, sent>>

pageComponent(r) ==
  /\ ctx[r] = "live" /\ body[r].form = "document" /\ body[r].stage = "empty"
  /\ Extend(r, [body[r] EXCEPT !.stage = "shell"])

(* The page inside the shell, by its kind, or the fragment without one.    *)
Enter(r, kind, form) ==
  /\ ctx[r] = "live" /\ page[r].kind = kind
  /\ body[r].form = form /\ body[r].stage = (IF form = "document" THEN "shell" ELSE "empty")
  /\ Extend(r, [body[r] EXCEPT !.stage = "content"])

indexPage(r) == Enter(r, "index", "document")
listPage(r) == Enter(r, "list", "document")
detailPage(r) == Enter(r, "detail", "document")
errorPage(r) == Enter(r, "error", "document")
detailFragment(r) == Enter(r, "detail", "fragment")

OpenContent(r) ==
  indexPage(r) \/ listPage(r) \/ detailPage(r) \/ errorPage(r) \/ detailFragment(r)

fieldValue(r) ==
  /\ ctx[r] = "live" /\ body[r].stage = "content"
  /\ \E c \in Cells(page[r]) \ body[r].cells : Extend(r, [body[r] EXCEPT !.cells = @ \cup {c}])

(* A mutant of Rendered: a document without its last cells is closed.      *)
RenderedEarly(r) ==
  \/ body[r].form = "script"
  \/ body[r].stage = "content"

(* No component is left to enter: the rest is plain markup.                *)
Rendered(r) ==
  \/ body[r].form = "script"
  \/ body[r].stage = "content" /\ body[r].cells = Cells(page[r])

(* The last markup is written and Templ's buffer is released.              *)
Finish(r) ==
  /\ Rendered(r)
  /\ Goto(r, "render", "done")
  /\ body' = [body EXCEPT ![r].stage = "closed"]
  /\ UNCHANGED <<table, query, ctx, layer, passed, page, header, status, sent>>

(* A mutant of RenderFails: only a broken connection ends the rendering.   *)
RenderFailsWhenGone(r) ==
  /\ ctx[r] = "gone"
  /\ Goto(r, "render", "done")
  /\ header' = [header EXCEPT ![r] = (@ \ {"Html", "Script", "Immutable"}) \cup {"Text"}]
  /\ WriteHeader(r, 500)
  /\ body' = [body EXCEPT ![r].errText = TRUE]
  /\ UNCHANGED <<table, query, ctx, layer, passed, page>>

(* A component finds its context cancelled, or a write to a client that    *)
(* has gone fails.  What was written stays written, and http.Error adds    *)
(* its text and asks for a 500.                                            *)
RenderFails(r) ==
  /\ ctx[r] = "gone" \/ (ctx[r] = "deadline" /\ ~Rendered(r))
  /\ Goto(r, "render", "done")
  /\ header' = [header EXCEPT ![r] = (@ \ {"Html", "Script", "Immutable"}) \cup {"Text"}]
  /\ WriteHeader(r, 500)
  /\ body' = [body EXCEPT ![r].errText = TRUE]
  /\ UNCHANGED <<table, query, ctx, layer, passed, page>>

-----------------------------------------------------------------------------
(* The steps of the goroutine that serves r.                               *)
Chain(r) == Pass(r) \/ Refuse(r)
Serve(r) == \/ UnknownPath(r) \/ MethodNotAllowed(r)
            \/ ServeIndex(r) \/ ServeVSNAsset(r) \/ ServeList(r) \/ ServeDetail(r)
Read(r) == List(r) \/ Get(r) \/ ReadFails(r)
Render(r) == \/ Write(r) \/ pageComponent(r) \/ OpenContent(r) \/ fieldValue(r)
             \/ Finish(r) \/ RenderFails(r)

Handle(r) == Chain(r) \/ Serve(r) \/ Read(r) \/ Render(r)

Next ==
  \/ HostWrites
  \/ \E r \in Requests : Arrive(r) \/ Cancel(r) \/ Recycle(r) \/ Handle(r)

Spec == Init /\ [][Next]_vars

(* The Go scheduler runs every goroutine that can run.                     *)
Fairness == \A r \in Requests : WF_vars(Handle(r))
FairSpec == Spec /\ Fairness

-----------------------------------------------------------------------------
(* Properties.                                                             *)

Kinds == {"none", "refusal", "error", "index", "list", "detail", "asset"}
Statuses == {0, 200, 403, 404, 405, 500}
Headers == {"Vary", "Allow", "Html", "Script", "Immutable", "Text"}
Cell == [id : Ids, field : Fields, text : Values \cup {Redacted}]
Selections == UNION {[S -> Rows] : S \in SUBSET Ids}
Pages == [kind : Kinds, status : Statuses, rows : Selections]
Bodies == [form : {"none", "refusal", "script", "fragment", "document"},
           stage : {"empty", "shell", "content", "closed"},
           cells : SUBSET Cell, errText : BOOLEAN]

(* Every variable keeps its type; a page never holds a row that was not in *)
(* the table, nor a cell a text that is neither a value nor Redacted.      *)
TypeOK ==
  /\ table \in [Ids -> Rows \cup {NoRow}]
  /\ pc \in [Requests -> {"idle", "middleware", "read", "write", "render", "done"}]
  /\ query \in [Requests -> Query]
  /\ ctx \in [Requests -> {"live", "deadline", "gone"}]
  /\ layer \in [Requests -> Layers \cup {App}]
  /\ passed \in [Requests -> SUBSET Layers]
  /\ page \in [Requests -> Pages]
  /\ header \in [Requests -> SUBSET Headers]
  /\ status \in [Requests -> Statuses]
  /\ sent \in [Requests -> SUBSET Headers]
  /\ body \in [Requests -> Bodies]

(* Middleware protects the complete handler (config.go:20): whatever the   *)
(* app itself answers, and every row it holds, is behind all of the        *)
(* middlewares, and one is entered only when all outer ones have called    *)
(* their next handler, in the declared order.                              *)
MiddlewareFirst ==
  \A r \in Requests :
    /\ \A i \in passed[r] : 1 .. i \subseteq passed[r]
    /\ pc[r] = "read" \/ page[r].kind \notin {"none", "refusal"} => passed[r] = Layers

(* Only GET and HEAD reach a page or the reader, and a 405 on the wire     *)
(* always names the methods that would do (app.go:90-94).                  *)
ReadsOnlyOnGetOrHead ==
  \A r \in Requests :
    /\ pc[r] = "read" \/ page[r].kind \in {"index", "list", "detail", "asset"}
         => ReadOnly(query[r])
    /\ status[r] = 405 => "Allow" \in sent[r] /\ ~ReadOnly(query[r])

(* A cache between the clients and the app may hand one client's answer to *)
(* another that asks for the same URL.  If the app has answered a URL in   *)
(* both forms then both answers said Vary: HX-Request on the wire, so the  *)
(* fragment is never handed to a navigation, nor a page to the preview.    *)
CacheSafe ==
  \A r, s \in Requests :
    /\ status[r] # 0 /\ query[r].target = query[s].target /\ query[r].id = query[s].id
    /\ body[r].form = "fragment" /\ body[s].form = "document" /\ ReadOnly(query[s])
    => "Vary" \in sent[r] /\ "Vary" \in sent[s]

(* What a complete answer must show: every field of every row of its page. *)
Whole(r) ==
  /\ body[r].stage = "closed" /\ ~body[r].errText
  /\ \A i \in DOMAIN page[r].rows, f \in Fields :
       \E c \in body[r].cells : c.id = i /\ c.field = f

(* An answer is cut short, or has an error text in it, only if the request *)
(* was cancelled while it was served: no other failure loses part of a     *)
(* page that has been announced with its status.                           *)
TruncatedOnlyIfCancelled ==
  \A r \in Requests :
    pc[r] = "done" /\ ctx[r] = "live" /\ body[r].form # "refusal" => Whole(r)

(* Every request is answered, under the fairness of the scheduler, if its  *)
(* middlewares and the database each return.                               *)
EveryRequestAnswered ==
  \A r \in Requests : pc[r] = "middleware" ~> pc[r] = "done" /\ status[r] # 0

-----------------------------------------------------------------------------
(* The refinement mapping to ReadService: a question is settled when the   *)
(* page to answer it with is fixed, shown when the handler returns.        *)

Phase(r) == CASE pc[r] = "idle" -> "idle"
              [] pc[r] \in {"middleware", "read"} -> "asked"
              [] pc[r] \in {"write", "render"} -> "settled"
              [] OTHER -> "shown"
Shown(row) == [f \in Fields |-> IF f \in Sensitive THEN Redacted ELSE row[f]]

Service == INSTANCE ReadService WITH
  phase     <- [r \in Requests |-> Phase(r)],
  cancelled <- [r \in Requests |-> ctx[r] # "live"],
  answer    <- [r \in Requests |->
                  [status |-> page[r].status,
                   rows |-> [i \in DOMAIN page[r].rows |-> Shown(page[r].rows[i])]]],
  shown     <- [r \in Requests |-> IF pc[r] = "done" THEN body[r].cells ELSE {}]

(* The handler answers every question as ReadService promises: from one    *)
(* instant of the table between the request's arrival and its answer, no   *)
(* row missing, none invented, nothing sensitive, nothing written to the   *)
(* table.                                                                  *)
Implements == Service!Spec
=============================================================================
