--------------------------- MODULE AdminAppProofs ---------------------------
(***************************************************************************)
(* Proofs about AdminApp, for any sets of requests, keys, fields and       *)
(* values, any number of middlewares and any page size.                    *)
(***************************************************************************)
EXTENDS AdminApp, FiniteSetTheorems, TLAPS

-----------------------------------------------------------------------------
(* Typing.                                                                 *)

(* The rows picked for a page are rows: PageOf never shows a missing one   *)
(* if it is given keys that are present (app.go:377-387).                  *)
LEMMA PageOfType ==
  ASSUME TypeOK, NEW S \in SUBSET Present, NEW kind \in Kinds, NEW code \in Statuses
  PROVE  PageOf(kind, code, S) \in Pages
<1>1. S \in SUBSET Ids /\ \A i \in S : table[i] \in Rows
  BY DEF TypeOK, Present
<1>2. [i \in S |-> table[i]] \in [S -> Rows]
  BY <1>1
<1>3. [i \in S |-> table[i]] \in Selections
  BY <1>1, <1>2 DEF Selections
<1> QED
  BY <1>3 DEF PageOf, Pages

(* The pages without rows: errors, refusals, the index, the script.        *)
LEMMA BarePageType ==
  ASSUME NEW kind \in Kinds, NEW code \in Statuses
  PROVE  PageOf(kind, code, {}) \in Pages
<1>1. [i \in {} |-> table[i]] \in [{} -> Rows]
  OBVIOUS
<1>2. [i \in {} |-> table[i]] \in Selections
  BY <1>1 DEF Selections
<1> QED
  BY <1>2 DEF PageOf, Pages

(* A cell of a page shows a value of the table or Redacted                 *)
(* (page.templ:134-140).                                                   *)
LEMMA CellsType ==
  ASSUME NEW p \in Pages
  PROVE  Cells(p) \in SUBSET Cell
<1>1. PICK S \in SUBSET Ids : p.rows \in [S -> Rows]
  BY DEF Pages, Selections
<1>2. \A i \in DOMAIN p.rows, f \in Fields : i \in Ids /\ p.rows[i][f] \in Values
  BY <1>1 DEF Rows
<1>3. \A i \in DOMAIN p.rows, f \in Fields :
        [id |-> i, field |-> f, text |-> CellText(f, p.rows[i][f])] \in Cell
  BY <1>2 DEF Cell, CellText
<1> QED
  BY <1>3 DEF Cells

LEMMA InitTypeOK == Init => TypeOK
<1> SUFFICES ASSUME Init PROVE TypeOK
  OBVIOUS
<1>1. NoPage \in Pages
  BY BarePageType DEF NoPage, Kinds, Statuses
<1>2. NoBody \in Bodies
  BY DEF NoBody, Bodies
<1>3. Outermost \in Layers \cup {App}
  BY MiddlewareAssumption DEF Outermost, Layers, App
<1>4. query \in [Requests -> Query]
  BY QueriesAssumption DEF Init
<1> QED
  BY <1>1, <1>2, <1>3, <1>4 DEF Init, TypeOK, Statuses

(* Each step of the handler keeps the types.                               *)
LEMMA NextTypeOK == TypeOK /\ [Next]_vars => TypeOK'
<1> SUFFICES ASSUME TypeOK, [Next]_vars PROVE TypeOK'
  OBVIOUS
<1> USE DEF Kinds, Statuses, Headers
<1>1. ASSUME HostWrites PROVE TypeOK'
  BY <1>1 DEF HostWrites, TypeOK, wire
<1>2. ASSUME NEW r \in Requests, Arrive(r) PROVE TypeOK'
  BY <1>2, QueriesAssumption DEF Arrive, Goto, TypeOK, wire
<1>3. ASSUME NEW r \in Requests, Cancel(r) PROVE TypeOK'
  BY <1>3 DEF Cancel, TypeOK, wire
<1>4. ASSUME NEW r \in Requests, Recycle(r) PROVE TypeOK'
  <2>1. NoPage \in Pages
    BY BarePageType DEF NoPage
  <2>2. NoBody \in Bodies
    BY DEF NoBody, Bodies
  <2>3. Outermost \in Layers \cup {App}
    BY MiddlewareAssumption DEF Outermost, Layers, App
  <2> QED
    BY <1>4, <2>1, <2>2, <2>3 DEF Recycle, Goto, Reply, TypeOK
<1>5. ASSUME NEW r \in Requests, Chain(r) PROVE TypeOK'
  <2>1. CASE Pass(r)
    <3>1. Inner(layer[r]) \in Layers \cup {App}
      BY <2>1, MiddlewareAssumption DEF Pass, Inner, Layers, App
    <3> QED
      BY <2>1, <3>1 DEF Pass, TypeOK, wire
  <2>2. CASE Refuse(r)
    <3>1. PageOf("refusal", 403, {}) \in Pages
      BY BarePageType
    <3> QED
      BY <2>2, <3>1 DEF Refuse, Goto, Reply, TypeOK, wire
  <2> QED
    BY <1>5, <2>1, <2>2 DEF Chain
<1>6. ASSUME NEW r \in Requests, Serve(r) PROVE TypeOK'
  <2>1. /\ ErrorPage(404) \in Pages /\ ErrorPage(405) \in Pages
        /\ PageOf("index", 200, {}) \in Pages /\ PageOf("asset", 200, {}) \in Pages
    BY BarePageType DEF ErrorPage
  <2>2. CASE UnknownPath(r)
    BY <2>1, <2>2 DEF UnknownPath, Reply, TypeOK, wire
  <2>3. CASE MethodNotAllowed(r)
    BY <2>1, <2>3 DEF MethodNotAllowed, Reply, TypeOK, wire
  <2>4. CASE ServeIndex(r)
    BY <2>1, <2>4 DEF ServeIndex, Reply, TypeOK, wire
  <2>5. CASE ServeVSNAsset(r)
    BY <2>1, <2>5 DEF ServeVSNAsset, Reply, TypeOK, wire
  <2>6. CASE ServeList(r)
    BY <2>6 DEF ServeList, TypeOK, wire
  <2>7. CASE ServeDetail(r)
    BY <2>7 DEF ServeDetail, TypeOK, wire
  <2> QED
    BY <1>6, <2>2, <2>3, <2>4, <2>5, <2>6, <2>7 DEF Serve
<1>7. ASSUME NEW r \in Requests, Read(r) PROVE TypeOK'
  <2>1. ASSUME NEW p \in Pages, Answer(r, p) PROVE TypeOK'
    BY <2>1 DEF Answer, Goto, Reply, TypeOK, wire
  <2>2. CASE List(r)
    <3>1. PICK S \in SUBSET Present : Answer(r, PageOf("list", 200, S))
      BY <2>2 DEF List
    <3>2. PageOf("list", 200, S) \in Pages
      BY PageOfType
    <3> QED
      BY <2>1, <3>1, <3>2
  <2>3. CASE Get(r)
    <3>1. CASE query[r].id \in Present
      <4>1. PageOf("detail", 200, {query[r].id}) \in Pages
        BY <3>1, PageOfType
      <4> QED
        BY <2>1, <2>3, <3>1, <4>1 DEF Get
    <3>2. CASE query[r].id \notin Present
      BY <2>1, <2>3, <3>2, BarePageType DEF Get, ErrorPage
    <3> QED
      BY <3>1, <3>2
  <2>4. CASE ReadFails(r)
    BY <2>1, <2>4, BarePageType DEF ReadFails, ErrorPage
  <2> QED
    BY <1>7, <2>2, <2>3, <2>4 DEF Read
<1>8. ASSUME NEW r \in Requests, Render(r) PROVE TypeOK'
  <2>1. body[r] \in Bodies /\ page[r] \in Pages
    BY DEF TypeOK
  <2>2. ASSUME NEW b \in Bodies, Extend(r, b) PROVE TypeOK'
    BY <2>2 DEF Extend, TypeOK
  <2>3. CASE Write(r)
    <3>1. [body[r] EXCEPT !.form = FormOf(query[r], page[r])] \in Bodies
      BY <2>1 DEF Bodies, FormOf
    <3>2. body' \in [Requests -> Bodies]
      BY <2>3, <3>1 DEF Write, TypeOK
    <3>3. header' \in [Requests -> SUBSET Headers]
      BY <2>3 DEF Write, TypeOK
    <3>4. status' \in [Requests -> Statuses]
      BY <2>1, <2>3 DEF Write, WriteHeader, TypeOK, Pages
    <3>5. sent' \in [Requests -> SUBSET Headers]
      BY <2>3, <3>3 DEF Write, WriteHeader, TypeOK
    <3> QED
      BY <2>3, <3>2, <3>3, <3>4, <3>5 DEF Write, Goto, TypeOK
  <2>4. CASE pageComponent(r)
    <3>1. [body[r] EXCEPT !.stage = "shell"] \in Bodies
      BY <2>1 DEF Bodies
    <3> QED
      BY <2>2, <2>4, <3>1 DEF pageComponent
  <2>5. CASE OpenContent(r)
    <3>1. [body[r] EXCEPT !.stage = "content"] \in Bodies
      BY <2>1 DEF Bodies
    <3> QED
      BY <2>2, <2>5, <3>1 DEF OpenContent, indexPage, listPage, detailPage, errorPage,
         detailFragment, Enter
  <2>6. CASE fieldValue(r)
    <3>1. PICK c \in Cells(page[r]) : Extend(r, [body[r] EXCEPT !.cells = @ \cup {c}])
      BY <2>6 DEF fieldValue
    <3>2. c \in Cell
      BY <2>1, <3>1, CellsType
    <3>3. [body[r] EXCEPT !.cells = @ \cup {c}] \in Bodies
      BY <2>1, <3>2 DEF Bodies
    <3> QED
      BY <2>2, <3>1, <3>3
  <2>7. CASE Finish(r)
    <3>1. [body[r] EXCEPT !.stage = "closed"] \in Bodies
      BY <2>1 DEF Bodies
    <3> QED
      BY <2>7, <3>1 DEF Finish, Goto, TypeOK
  <2>8. CASE RenderFails(r)
    <3>1. [body[r] EXCEPT !.errText = TRUE] \in Bodies
      BY <2>1 DEF Bodies
    <3>2. header' \in [Requests -> SUBSET Headers]
      BY <2>8 DEF RenderFails, TypeOK
    <3>3. status' \in [Requests -> Statuses] /\ sent' \in [Requests -> SUBSET Headers]
      BY <2>8, <3>2 DEF RenderFails, WriteHeader, TypeOK
    <3> QED
      BY <2>8, <3>1, <3>2, <3>3 DEF RenderFails, Goto, TypeOK
  <2> QED
    BY <1>8, <2>3, <2>4, <2>5, <2>6, <2>7, <2>8 DEF Render
<1>9. CASE UNCHANGED vars
  BY <1>9 DEF vars, TypeOK
<1> QED
  BY <1>1, <1>2, <1>3, <1>4, <1>5, <1>6, <1>7, <1>8, <1>9 DEF Next, Handle

(* In every state of every behaviour each variable has its type: in        *)
(* particular a page holds only rows that were in the table and a body     *)
(* only values or Redacted.                                                *)
THEOREM TypeCorrect == Spec => []TypeOK
BY InitTypeOK, NextTypeOK, PTL DEF Spec

-----------------------------------------------------------------------------
(* The inductive invariant.  None of the safety properties of AdminApp is  *)
(* inductive alone: each speaks of the end of a request and rests on what  *)
(* its earlier steps have set up, which the parts below record.            *)

(* How far the request has got, and so what it cannot have done yet.       *)
ProgressInv(r) ==
  /\ pc[r] \in {"idle", "middleware", "read"} => page[r].kind = "none" /\ page[r].status = 0
  /\ pc[r] \in {"write", "render", "done"} => page[r].kind # "none" /\ page[r].status # 0
  /\ pc[r] \in {"render", "done"} <=> status[r] # 0
  /\ status[r] # 0 => status[r] = page[r].status
  /\ status[r] # 0 <=> body[r].form # "none"

(* The chain is entered from the outside in, and left only at its end.     *)
ChainInv(r) ==
  /\ layer[r] \in Layers \cup {App} /\ passed[r] = 1 .. layer[r] - 1
  /\ pc[r] = "idle" => layer[r] = Outermost
  /\ pc[r] = "read" \/ page[r].kind \notin {"none", "refusal"} => layer[r] = App

(* The page was chosen by the request's target and method.                 *)
MethodInv(r) ==
  /\ pc[r] = "read" => ReadOnly(query[r])
  /\ page[r].kind \in {"index", "list", "detail", "asset"} =>
       ReadOnly(query[r]) /\ page[r].status = 200
  /\ page[r].kind = "detail" => query[r].target = "detail"
  /\ page[r].kind = "refusal" => page[r].status = 403
  /\ page[r].status = 405 => ~ReadOnly(query[r])
  /\ page[r].status = 405 /\ pc[r] = "write" => "Allow" \in header[r]
  /\ status[r] = 405 => "Allow" \in sent[r]

(* Vary is there before the record is asked for, so it is on the wire.     *)
DetailAnswer(r) ==
  query[r].target = "detail" /\ ReadOnly(query[r]) /\ page[r].kind # "refusal"
VaryInv(r) ==
  /\ DetailAnswer(r) /\ pc[r] \in {"read", "write"} => "Vary" \in header[r]
  /\ DetailAnswer(r) /\ status[r] # 0 => "Vary" \in sent[r]

(* What is written so far belongs to the page, and only a page that is     *)
(* written in full is closed.                                              *)
RenderInv(r) ==
  /\ status[r] # 0 => body[r].form = FormOf(query[r], page[r])
  /\ page[r].kind = "asset" => DOMAIN page[r].rows = {}
  /\ body[r].errText => ctx[r] # "live"
  /\ body[r].stage = "closed" => body[r].form = "script" \/ body[r].cells = Cells(page[r])
  /\ pc[r] = "done" /\ body[r].form # "refusal" => body[r].stage = "closed" \/ body[r].errText
  /\ status[r] = 0 => body[r] = NoBody

RequestInv(r) ==
  ProgressInv(r) /\ ChainInv(r) /\ MethodInv(r) /\ VaryInv(r) /\ RenderInv(r)

IInv == TypeOK /\ \A r \in Requests : RequestInv(r)

(* Requests share nothing but the table, so a step that leaves alone what  *)
(* belongs to a request leaves its invariant alone.                        *)
Own(r) == <<pc[r], query[r], ctx[r], layer[r], passed[r],
            page[r], header[r], status[r], sent[r], body[r]>>

LEMMA OwnInv ==
  ASSUME NEW r \in Requests, RequestInv(r), UNCHANGED Own(r)
  PROVE  RequestInv(r)'
<1>1. Cells(page[r])' = Cells(page[r])
  BY DEF Own, Cells, CellText
<1>2. FormOf(query[r], page[r])' = FormOf(query[r], page[r])
  BY DEF Own, FormOf
<1> QED
  BY <1>1, <1>2 DEF Own, RequestInv, ProgressInv, ChainInv, MethodInv, VaryInv, RenderInv,
                    DetailAnswer, ReadOnly, NoBody

LEMMA InitIInv == Init => IInv
<1> SUFFICES ASSUME Init, NEW r \in Requests PROVE RequestInv(r)
  BY InitTypeOK DEF IInv
<1>1. 1 .. Outermost - 1 = {} /\ Outermost \in Layers \cup {App}
  BY MiddlewareAssumption DEF Outermost, Layers, App
<1>2. ProgressInv(r)
  BY DEF Init, ProgressInv, NoPage, PageOf, NoBody
<1>3. ChainInv(r)
  BY <1>1 DEF Init, ChainInv, NoPage, PageOf
<1>4. MethodInv(r) /\ VaryInv(r)
  BY DEF Init, MethodInv, VaryInv, NoPage, PageOf
<1>5. RenderInv(r)
  BY DEF Init, RenderInv, NoPage, PageOf, NoBody
<1> QED
  BY <1>2, <1>3, <1>4, <1>5 DEF RequestInv

(* One step of request r keeps r's own invariant, action by action.        *)
LEMMA ArriveInv ==
  ASSUME NEW r \in Requests, TypeOK, RequestInv(r), Arrive(r) PROVE RequestInv(r)'
<1>1. /\ pc[r] = "idle" /\ pc'[r] = "middleware"
      /\ UNCHANGED <<ctx[r], layer[r], passed[r], page[r], header[r], status[r], sent[r], body[r]>>
  BY DEF Arrive, Goto, TypeOK, wire
<1>2. page[r].kind = "none" /\ status[r] = 0 /\ body[r] = NoBody
  BY <1>1 DEF RequestInv, ProgressInv, RenderInv
<1>3. page[r].status = 0
  BY <1>1 DEF RequestInv, ProgressInv
<1> QED
  BY <1>1, <1>2, <1>3 DEF RequestInv, ProgressInv, ChainInv, MethodInv, VaryInv, RenderInv,
     DetailAnswer, NoBody

LEMMA CancelInv ==
  ASSUME NEW r \in Requests, TypeOK, RequestInv(r), Cancel(r) PROVE RequestInv(r)'
<1>1. /\ pc'[r] = pc[r] /\ pc[r] # "done" /\ ctx'[r] # "live"
      /\ UNCHANGED <<query[r], layer[r], passed[r], page[r], header[r], status[r], sent[r], body[r]>>
  BY DEF Cancel, TypeOK, wire
<1>2. Cells(page[r])' = Cells(page[r]) /\ FormOf(query[r], page[r])' = FormOf(query[r], page[r])
  BY <1>1 DEF Cells, CellText, FormOf
<1> QED
  BY <1>1, <1>2 DEF RequestInv, ProgressInv, ChainInv, MethodInv, VaryInv, RenderInv,
     DetailAnswer, ReadOnly, NoBody

LEMMA RecycleInv ==
  ASSUME NEW r \in Requests, TypeOK, RequestInv(r), Recycle(r) PROVE RequestInv(r)'
<1>1. /\ pc'[r] = "idle" /\ layer'[r] = Outermost /\ passed'[r] = {}
      /\ page'[r] = NoPage /\ status'[r] = 0 /\ body'[r] = NoBody
  BY DEF Recycle, Goto, Reply, TypeOK
<1>2. 1 .. Outermost - 1 = {} /\ Outermost \in Layers \cup {App}
  BY MiddlewareAssumption DEF Outermost, Layers, App
<1>3. page'[r].kind = "none" /\ page'[r].status = 0
  BY <1>1 DEF NoPage, PageOf
<1> QED
  BY <1>1, <1>2, <1>3 DEF RequestInv, ProgressInv, ChainInv, MethodInv, VaryInv, RenderInv,
     DetailAnswer, NoBody

(* A request whose page is being fixed has nothing on the wire yet.        *)
LEMMA NothingSent ==
  ASSUME NEW r \in Requests, RequestInv(r), pc[r] \in {"idle", "middleware", "read", "write"}
  PROVE  status[r] = 0 /\ body[r] = NoBody
BY DEF RequestInv, ProgressInv, RenderInv

LEMMA ChainStepInv ==
  ASSUME NEW r \in Requests, TypeOK, RequestInv(r), Chain(r) PROVE RequestInv(r)'
<1>1. pc[r] = "middleware" /\ layer[r] \in Layers /\ status[r] = 0 /\ body[r] = NoBody
  BY NothingSent DEF Chain, Pass, Refuse, Goto
<1>2. page[r].kind = "none" /\ page[r].status = 0 /\ passed[r] = 1 .. layer[r] - 1
  BY <1>1 DEF RequestInv, ProgressInv, ChainInv
<1>3. CASE Pass(r)
  <2>1. /\ layer'[r] = layer[r] + 1 /\ passed'[r] = passed[r] \cup {layer[r]}
        /\ UNCHANGED <<pc[r], query[r], ctx[r], page[r], header[r], status[r], sent[r], body[r]>>
    BY <1>3 DEF Pass, Inner, TypeOK, wire
  <2>2. layer'[r] \in Layers \cup {App} /\ passed'[r] = 1 .. layer'[r] - 1
    BY <1>1, <1>2, <2>1, MiddlewareAssumption DEF Layers, App
  <2>3. ProgressInv(r)'
    BY <1>1, <1>2, <2>1 DEF ProgressInv, NoBody
  <2>4. pc'[r] = "middleware" /\ page'[r].kind = "none"
    BY <1>1, <1>2, <2>1
  <2>5. ChainInv(r)'
    BY <2>2, <2>4 DEF ChainInv
  <2>6. MethodInv(r)' /\ VaryInv(r)' /\ RenderInv(r)'
    BY <1>1, <1>2, <2>1 DEF MethodInv, VaryInv, RenderInv, NoBody
  <2> QED
    BY <2>3, <2>5, <2>6 DEF RequestInv
<1>4. CASE Refuse(r)
  <2>1. /\ pc'[r] = "write" /\ page'[r].kind = "refusal" /\ page'[r].status = 403
        /\ UNCHANGED <<query[r], ctx[r], layer[r], passed[r], header[r], status[r], sent[r], body[r]>>
    BY <1>4 DEF Refuse, Goto, Reply, PageOf, TypeOK, wire
  <2> QED
    BY <1>1, <1>2, <2>1 DEF RequestInv, ProgressInv, ChainInv, MethodInv, VaryInv, RenderInv,
       DetailAnswer, NoBody
<1> QED
  BY <1>3, <1>4 DEF Chain

LEMMA ServeInv ==
  ASSUME NEW r \in Requests, TypeOK, RequestInv(r), Serve(r) PROVE RequestInv(r)'
<1>1. pc[r] = "middleware" /\ layer[r] = App /\ status[r] = 0 /\ body[r] = NoBody
  BY NothingSent DEF Serve, UnknownPath, MethodNotAllowed, ServeIndex, ServeVSNAsset,
     ServeList, ServeDetail, Routed
<1>2. UNCHANGED <<query[r], ctx[r], layer[r], passed[r], status[r], sent[r], body[r]>>
  BY DEF Serve, UnknownPath, MethodNotAllowed, ServeIndex, ServeVSNAsset, ServeList, ServeDetail, wire
<1>3. page[r].kind = "none" /\ page[r].status = 0
  BY <1>1 DEF RequestInv, ProgressInv
<1>4. \/ /\ pc'[r] = "write" /\ page'[r].kind = "error" /\ page'[r].status = 404
         /\ query[r].target # "detail"
      \/ /\ pc'[r] = "write" /\ page'[r].kind = "error" /\ page'[r].status = 405
         /\ ~ReadOnly(query[r]) /\ "Allow" \in header'[r]
      \/ /\ pc'[r] = "write" /\ page'[r].kind \in {"index", "asset"} /\ page'[r].status = 200
         /\ ReadOnly(query[r]) /\ query[r].target # "detail" /\ DOMAIN page'[r].rows = {}
      \/ /\ pc'[r] = "read" /\ page'[r] = page[r] /\ ReadOnly(query[r])
         /\ query[r].target = "list" \/ "Vary" \in header'[r]
  BY DEF Serve, UnknownPath, MethodNotAllowed, ServeIndex, ServeVSNAsset, ServeList, ServeDetail,
     Routed, Reply, ErrorPage, PageOf, TypeOK
<1> QED
  BY <1>1, <1>2, <1>3, <1>4 DEF RequestInv, ProgressInv, ChainInv, MethodInv, VaryInv, RenderInv,
     DetailAnswer, NoBody, ReadOnly

LEMMA ReadInv ==
  ASSUME NEW r \in Requests, TypeOK, RequestInv(r), Read(r) PROVE RequestInv(r)'
<1>1. /\ pc[r] = "read" /\ pc'[r] = "write"
      /\ UNCHANGED <<query[r], ctx[r], layer[r], passed[r], header[r], status[r], sent[r], body[r]>>
  BY DEF Read, List, Get, ReadFails, Answer, Goto, TypeOK, wire
<1>2. \/ page'[r].kind = "error" /\ page'[r].status \in {404, 500}
      \/ page'[r].kind = "list" /\ page'[r].status = 200
      \/ page'[r].kind = "detail" /\ page'[r].status = 200 /\ query[r].target = "detail"
  BY DEF Read, List, Get, ReadFails, Answer, Reply, PageOf, ErrorPage, TypeOK
<1>3. status[r] = 0 /\ body[r] = NoBody /\ ReadOnly(query[r]) /\ layer[r] = App
  BY <1>1, NothingSent DEF RequestInv, MethodInv, ChainInv
<1> QED
  BY <1>1, <1>2, <1>3 DEF RequestInv, ProgressInv, ChainInv, MethodInv, VaryInv, RenderInv,
     DetailAnswer, NoBody, ReadOnly

LEMMA WriteInv ==
  ASSUME NEW r \in Requests, TypeOK, RequestInv(r), Write(r) PROVE RequestInv(r)'
<1>1. pc[r] = "write" /\ status[r] = 0 /\ body[r] = NoBody /\ page[r].kind # "none"
      /\ page[r].status # 0
  BY NothingSent DEF Write, Goto, RequestInv, ProgressInv
<1>2. /\ pc'[r] = (IF page[r].kind = "refusal" THEN "done" ELSE "render")
      /\ header[r] \subseteq header'[r]
      /\ status'[r] = page[r].status /\ sent'[r] = header'[r]
      /\ body'[r] = [NoBody EXCEPT !.form = FormOf(query[r], page[r])]
      /\ UNCHANGED <<query[r], ctx[r], layer[r], passed[r], page[r]>>
  BY <1>1 DEF Write, Goto, WriteHeader, TypeOK
<1>3. /\ body'[r].form = FormOf(query[r], page[r]) /\ body'[r].stage = "empty"
      /\ body'[r].errText = FALSE
  BY <1>2 DEF NoBody
<1>4. /\ FormOf(query[r], page[r]) # "none"
      /\ page[r].kind = "refusal" => FormOf(query[r], page[r]) = "refusal"
      /\ FormOf(query[r], page[r])' = FormOf(query[r], page[r])
  BY <1>2 DEF FormOf
<1>5. ProgressInv(r)' /\ ChainInv(r)'
  BY <1>1, <1>2, <1>3, <1>4 DEF RequestInv, ProgressInv, ChainInv
<1>6. MethodInv(r)'
  BY <1>1, <1>2 DEF RequestInv, MethodInv, ReadOnly
<1>7. VaryInv(r)'
  BY <1>1, <1>2 DEF RequestInv, VaryInv, DetailAnswer, ReadOnly
<1>8. RenderInv(r)'
  BY <1>1, <1>2, <1>3, <1>4 DEF RequestInv, RenderInv
<1> QED
  BY <1>5, <1>6, <1>7, <1>8 DEF RequestInv

(* Once the status is out only the body, the header map and the program    *)
(* counter still change.                                                   *)
LEMMA RenderStepInv ==
  ASSUME NEW r \in Requests, TypeOK, RequestInv(r), RenderInv(r)', status[r] # 0,
         pc'[r] \in {"render", "done"}, body'[r].form = body[r].form,
         UNCHANGED <<query[r], layer[r], passed[r], page[r], status[r], sent[r]>>
  PROVE  RequestInv(r)'
<1>1. pc[r] \in {"render", "done"} /\ page[r].kind # "none" /\ page[r].status # 0
  BY DEF RequestInv, ProgressInv
<1>2. ProgressInv(r)' /\ ChainInv(r)'
  BY <1>1 DEF RequestInv, ProgressInv, ChainInv
<1>3. MethodInv(r)' /\ VaryInv(r)'
  BY <1>1 DEF RequestInv, MethodInv, VaryInv, DetailAnswer, ReadOnly
<1> QED
  BY <1>2, <1>3 DEF RequestInv

LEMMA ComponentInv ==
  ASSUME NEW r \in Requests, TypeOK, RequestInv(r), pageComponent(r) \/ OpenContent(r) \/ fieldValue(r)
  PROVE  RequestInv(r)'
<1>1. pc[r] = "render" /\ status[r] # 0
  BY DEF pageComponent, OpenContent, indexPage, listPage, detailPage, errorPage,
     detailFragment, Enter, fieldValue, Extend, RequestInv, ProgressInv
<1>2. body[r] \in Bodies
  BY DEF TypeOK
<1>3. UNCHANGED <<pc[r], query[r], ctx[r], layer[r], passed[r], page[r], status[r], sent[r]>>
  BY DEF pageComponent, OpenContent, indexPage, listPage, detailPage, errorPage,
     detailFragment, Enter, fieldValue, Extend
<1>4. /\ body'[r].form = body[r].form /\ body'[r].errText = body[r].errText
      /\ body'[r].stage # "closed"
  <2>1. CASE pageComponent(r)
    BY <1>2, <2>1 DEF pageComponent, Extend, TypeOK, Bodies
  <2>2. CASE OpenContent(r)
    BY <1>2, <2>2 DEF OpenContent, indexPage, listPage, detailPage, errorPage, detailFragment,
       Enter, Extend, TypeOK, Bodies
  <2>3. CASE fieldValue(r)
    BY <1>2, <2>3 DEF fieldValue, Extend, TypeOK, Bodies
  <2> QED
    BY <2>1, <2>2, <2>3
<1>5. FormOf(query[r], page[r])' = FormOf(query[r], page[r])
  BY <1>3 DEF FormOf
<1>6. RenderInv(r)'
  BY <1>1, <1>3, <1>4, <1>5 DEF RequestInv, RenderInv
<1> QED
  BY <1>1, <1>3, <1>4, <1>6, RenderStepInv

LEMMA FinishInv ==
  ASSUME NEW r \in Requests, TypeOK, RequestInv(r), Finish(r) PROVE RequestInv(r)'
<1>1. pc[r] = "render" /\ pc'[r] = "done" /\ status[r] # 0
      /\ UNCHANGED <<query[r], ctx[r], layer[r], passed[r], page[r], status[r], sent[r]>>
  BY DEF Finish, Goto, TypeOK, RequestInv, ProgressInv
<1>2. /\ body'[r].form = body[r].form /\ body'[r].errText = body[r].errText
      /\ body'[r].stage = "closed" /\ body'[r].cells = body[r].cells
  BY DEF Finish, TypeOK, Bodies
<1>3. body[r].form = "script" \/ body[r].cells = Cells(page[r])
  BY DEF Finish, Rendered
<1>4. FormOf(query[r], page[r])' = FormOf(query[r], page[r]) /\ Cells(page[r])' = Cells(page[r])
  BY <1>1 DEF FormOf, Cells, CellText
<1>5. RenderInv(r)'
  BY <1>1, <1>2, <1>3, <1>4 DEF RequestInv, RenderInv
<1> QED
  BY <1>1, <1>2, <1>5, RenderStepInv

LEMMA RenderFailsInv ==
  ASSUME NEW r \in Requests, TypeOK, RequestInv(r), RenderFails(r) PROVE RequestInv(r)'
<1>1. pc[r] = "render" /\ pc'[r] = "done" /\ status[r] # 0 /\ ctx[r] # "live"
  BY DEF RenderFails, Goto, TypeOK, RequestInv, ProgressInv
<1>2. UNCHANGED <<query[r], ctx[r], layer[r], passed[r], page[r], status[r], sent[r]>>
  BY <1>1 DEF RenderFails, WriteHeader
<1>3. /\ body'[r].form = body[r].form /\ body'[r].errText = TRUE
      /\ body'[r].stage = body[r].stage /\ body'[r].cells = body[r].cells
  BY DEF RenderFails, TypeOK, Bodies
<1>4. FormOf(query[r], page[r])' = FormOf(query[r], page[r]) /\ Cells(page[r])' = Cells(page[r])
  BY <1>2 DEF FormOf, Cells, CellText
<1>5. RenderInv(r)'
  BY <1>1, <1>2, <1>3, <1>4 DEF RequestInv, RenderInv
<1> QED
  BY <1>1, <1>2, <1>3, <1>5, RenderStepInv

(* A request's step touches the state of no other request.                 *)
LEMMA OthersKept ==
  ASSUME TypeOK, NEW r \in Requests, Arrive(r) \/ Cancel(r) \/ Recycle(r) \/ Handle(r)
  PROVE  \A s \in Requests : s # r => UNCHANGED Own(s)
<1> SUFFICES ASSUME NEW s \in Requests, s # r PROVE UNCHANGED Own(s)
  OBVIOUS
<1> USE DEF TypeOK, Own, wire, Goto, Reply, WriteHeader
<1>1. CASE Arrive(r) \/ Cancel(r) \/ Recycle(r)
  BY <1>1 DEF Arrive, Cancel, Recycle
<1>2. CASE Chain(r)
  BY <1>2 DEF Chain, Pass, Refuse
<1>3. CASE Serve(r)
  BY <1>3 DEF Serve, UnknownPath, MethodNotAllowed, ServeIndex, ServeVSNAsset, ServeList, ServeDetail
<1>4. CASE Read(r)
  BY <1>4 DEF Read, List, Get, ReadFails, Answer
<1>5. CASE Render(r)
  BY <1>5 DEF Render, Write, pageComponent, OpenContent, indexPage, listPage, detailPage,
     errorPage, detailFragment, Enter, fieldValue, Finish, RenderFails, Extend
<1> QED
  BY <1>1, <1>2, <1>3, <1>4, <1>5 DEF Handle
LEMMA NextIInv == IInv /\ [Next]_vars => IInv'
<1> SUFFICES ASSUME IInv, [Next]_vars, NEW s \in Requests PROVE RequestInv(s)'
  BY NextTypeOK DEF IInv
<1>1. TypeOK /\ RequestInv(s)
  BY DEF IInv
<1>2. CASE HostWrites \/ UNCHANGED vars
  BY <1>1, <1>2, OwnInv DEF HostWrites, vars, wire, Own
<1>3. ASSUME NEW r \in Requests, r # s, Arrive(r) \/ Cancel(r) \/ Recycle(r) \/ Handle(r)
      PROVE  RequestInv(s)'
  <2>1. UNCHANGED Own(s)
    BY <1>1, <1>3, OthersKept
  <2> QED
    BY <1>1, <2>1, OwnInv
<1>4. CASE Arrive(s) \/ Cancel(s) \/ Recycle(s)
  BY <1>1, <1>4, ArriveInv, CancelInv, RecycleInv
<1>5. CASE Handle(s)
  BY <1>1, <1>5, ChainStepInv, ServeInv, ReadInv, WriteInv, ComponentInv, FinishInv, RenderFailsInv
     DEF Handle, Render
<1> QED
  BY <1>2, <1>3, <1>4, <1>5 DEF Next

(* The invariant the theorems below rest on.                               *)
THEOREM Inductive == Spec => []IInv
BY InitIInv, NextIInv, PTL DEF Spec

-----------------------------------------------------------------------------
(* What follows from it.                                                   *)

(* However many middlewares New was given, no page of the app and no read  *)
(* happens before each of them has let the request through, in order       *)
(* (app.go:48-54, config.go:20).                                           *)
THEOREM AlwaysMiddlewareFirst == Spec => []MiddlewareFirst
<1>1. IInv => MiddlewareFirst
  <2> SUFFICES ASSUME IInv, NEW r \in Requests
               PROVE  /\ \A i \in passed[r] : 1 .. i \subseteq passed[r]
                      /\ pc[r] = "read" \/ page[r].kind \notin {"none", "refusal"}
                           => passed[r] = Layers
    BY DEF MiddlewareFirst
  <2>1. layer[r] \in Layers \cup {App} /\ passed[r] = 1 .. layer[r] - 1
    BY DEF IInv, RequestInv, ChainInv
  <2>2. layer[r] \in Nat
    BY <2>1, MiddlewareAssumption DEF Layers, App
  <2>3. \A i \in passed[r] : 1 .. i \subseteq passed[r]
    BY <2>1, <2>2
  <2>4. layer[r] = App => passed[r] = Layers
    BY <2>1, MiddlewareAssumption DEF Layers, App
  <2> QED
    BY <2>3, <2>4 DEF IInv, RequestInv, ChainInv
<1> QED
  BY <1>1, Inductive, PTL

(* A page or a read is only ever caused by GET or HEAD, and a 405 names    *)
(* them (app.go:90-94).                                                    *)
THEOREM AlwaysReadOnly == Spec => []ReadsOnlyOnGetOrHead
<1>1. IInv => ReadsOnlyOnGetOrHead
  BY DEF IInv, RequestInv, MethodInv, ProgressInv, ReadsOnlyOnGetOrHead
<1> QED
  BY <1>1, Inductive, PTL

(* For any two requests to one URL answered in different forms, both       *)
(* answers carry Vary on the wire (app.go:145).                            *)
THEOREM AlwaysCacheSafe == Spec => []CacheSafe
<1>1. IInv => CacheSafe
  <2> SUFFICES ASSUME IInv, NEW r \in Requests, NEW s \in Requests,
                      status[r] # 0, query[r].target = query[s].target,
                      body[r].form = "fragment", body[s].form = "document", ReadOnly(query[s])
               PROVE  "Vary" \in sent[r] /\ "Vary" \in sent[s]
    BY DEF CacheSafe
  <2>1. \A q \in {r, s} : RequestInv(q)
    BY DEF IInv
  <2>2. page[r].kind = "detail" /\ query[r].target = "detail" /\ ReadOnly(query[r])
    BY <2>1 DEF RequestInv, RenderInv, MethodInv, FormOf
  <2>3. "Vary" \in sent[r]
    BY <2>1, <2>2 DEF RequestInv, VaryInv, DetailAnswer
  <2>4. status[s] # 0 /\ page[s].kind # "refusal"
    BY <2>1 DEF RequestInv, ProgressInv, RenderInv, FormOf
  <2>5. "Vary" \in sent[s]
    BY <2>1, <2>2, <2>4 DEF RequestInv, VaryInv, DetailAnswer
  <2> QED
    BY <2>3, <2>5
<1> QED
  BY <1>1, Inductive, PTL

(* An answer that lacks part of its page belongs to a cancelled request    *)
(* (render.go:15-19, page_templ.go:18).                                    *)
THEOREM AlwaysWholeUnlessCancelled == Spec => []TruncatedOnlyIfCancelled
<1>1. IInv => TruncatedOnlyIfCancelled
  <2> SUFFICES ASSUME IInv, NEW r \in Requests,
                      pc[r] = "done", ctx[r] = "live", body[r].form # "refusal"
               PROVE  Whole(r)
    BY DEF TruncatedOnlyIfCancelled
  <2>1. RequestInv(r) /\ body[r] \in Bodies
    BY DEF IInv, TypeOK
  <2>2. body[r].errText = FALSE /\ body[r].stage = "closed"
    BY <2>1 DEF RequestInv, RenderInv, Bodies
  <2>3. CASE body[r].form = "script"
    <3>1. page[r].kind = "asset" /\ DOMAIN page[r].rows = {}
      BY <2>1, <2>3 DEF RequestInv, ProgressInv, RenderInv, FormOf
    <3> QED
      BY <2>2, <3>1 DEF Whole
  <2>4. CASE body[r].cells = Cells(page[r])
    <3>1. ASSUME NEW i \in DOMAIN page[r].rows, NEW f \in Fields
          PROVE  \E c \in body[r].cells : c.id = i /\ c.field = f
      <4>1. [id |-> i, field |-> f, text |-> CellText(f, page[r].rows[i][f])] \in body[r].cells
        BY <2>4 DEF Cells
      <4> QED
        BY <4>1
    <3> QED
      BY <2>2, <3>1 DEF Whole
  <2> QED
    BY <2>1, <2>2, <2>3, <2>4 DEF RequestInv, RenderInv
<1> QED
  BY <1>1, Inductive, PTL

-----------------------------------------------------------------------------
(* The handler implements ReadService.  Besides the invariant the mapping  *)
(* needs to know that a body shows only cells of its page, and that pages  *)
(* other than lists and records have none.                                 *)

Rowless == {"none", "refusal", "error", "index", "asset"}
ShownInv(r) ==
  /\ body[r].cells \subseteq Cells(page[r])
  /\ page[r].kind \in Rowless => DOMAIN page[r].rows = {}
RefinementInv == IInv /\ \A r \in Requests : ShownInv(r)

LEMMA NoRowsNoCells ==
  ASSUME NEW p, DOMAIN p.rows = {} PROVE Cells(p) = {}
BY DEF Cells

LEMMA InitRefinementInv == Init => RefinementInv
<1> SUFFICES ASSUME Init, NEW r \in Requests PROVE ShownInv(r)
  BY InitIInv DEF RefinementInv
<1> QED
  BY DEF Init, ShownInv, NoPage, PageOf, NoBody

(* Until its page is being rendered a request has no cells, whatever page  *)
(* it gets.                                                                *)
LEMMA NoCellsYet ==
  ASSUME NEW r \in Requests, RequestInv(r), pc[r] # "render", pc[r] # "done",
         body'[r] = body[r], page'[r].kind \in Rowless => DOMAIN page'[r].rows = {}
  PROVE  ShownInv(r)'
<1>1. body[r] = NoBody
  BY DEF RequestInv, ProgressInv, RenderInv
<1> QED
  BY <1>1 DEF ShownInv, NoBody

LEMMA NextShownInv ==
  ASSUME IInv, NEW r \in Requests, ShownInv(r), Arrive(r) \/ Cancel(r) \/ Recycle(r) \/ Handle(r)
  PROVE  ShownInv(r)'
<1>1. TypeOK /\ RequestInv(r) /\ body[r] \in Bodies
  BY DEF IInv, TypeOK
<1>2. CASE body'[r].cells = body[r].cells /\ page'[r] = page[r]
  <2>1. Cells(page[r])' = Cells(page[r])
    BY <1>2 DEF Cells, CellText
  <2> QED
    BY <1>2, <2>1 DEF ShownInv
<1>3. CASE Arrive(r) \/ Cancel(r)
  BY <1>2, <1>3 DEF Arrive, Cancel, wire
<1>4. CASE Recycle(r)
  BY <1>1, <1>4 DEF Recycle, Reply, ShownInv, NoBody, NoPage, PageOf, TypeOK
<1>5. CASE Chain(r)
  <2>1. CASE Pass(r)
    BY <1>2, <2>1 DEF Pass, wire
  <2>2. CASE Refuse(r)
    <3>1. pc[r] = "middleware" /\ body' = body /\ DOMAIN page'[r].rows = {}
      BY <1>1, <2>2 DEF Refuse, Goto, Reply, PageOf, wire, TypeOK
    <3> QED
      BY <1>1, <3>1, NoCellsYet
  <2> QED
    BY <1>5, <2>1, <2>2 DEF Chain
<1>6. CASE Serve(r)
  <2>1. /\ pc[r] = "middleware" /\ body' = body
        /\ page'[r] = page[r] \/ DOMAIN page'[r].rows = {}
    BY <1>1, <1>6 DEF Serve, UnknownPath, MethodNotAllowed, ServeIndex, ServeVSNAsset, ServeList,
       ServeDetail, Routed, Reply, ErrorPage, PageOf, wire, TypeOK
  <2> QED
    BY <1>1, <1>2, <2>1, NoCellsYet
<1>7. CASE Read(r)
  <2>1. /\ pc[r] = "read" /\ body' = body
        /\ page'[r].kind \in {"list", "detail"} \/ DOMAIN page'[r].rows = {}
    BY <1>1, <1>7 DEF Read, List, Get, ReadFails, Answer, Goto, Reply, ErrorPage, PageOf, wire, TypeOK
  <2> QED
    BY <1>1, <2>1, NoCellsYet DEF Rowless
<1>8. CASE Render(r)
  <2>1. page' = page
    BY <1>8 DEF Render, Write, pageComponent, OpenContent, indexPage, listPage, detailPage,
       errorPage, detailFragment, Enter, fieldValue, Finish, RenderFails, Extend
  <2>2. CASE fieldValue(r)
    <3>1. PICK c \in Cells(page[r]) : body'[r].cells = body[r].cells \cup {c}
      BY <1>1, <2>2 DEF fieldValue, Extend, TypeOK, Bodies
    <3>2. Cells(page[r])' = Cells(page[r])
      BY <2>1 DEF Cells, CellText
    <3> QED
      BY <2>1, <3>1, <3>2 DEF ShownInv
  <2>3. CASE ~fieldValue(r)
    <3>1. body'[r].cells = body[r].cells
      BY <1>1, <1>8, <2>3 DEF Render, Write, pageComponent, OpenContent, indexPage, listPage,
         detailPage, errorPage, detailFragment, Enter, Finish, RenderFails, Extend, TypeOK, Bodies
    <3> QED
      BY <1>2, <2>1, <3>1
  <2> QED
    BY <2>2, <2>3
<1> QED
  BY <1>3, <1>4, <1>5, <1>6, <1>7, <1>8 DEF Handle

LEMMA NextRefinementInv == RefinementInv /\ [Next]_vars => RefinementInv'
<1> SUFFICES ASSUME RefinementInv, [Next]_vars, NEW s \in Requests PROVE ShownInv(s)'
  BY NextIInv DEF RefinementInv
<1>1. IInv /\ TypeOK /\ ShownInv(s)
  BY DEF RefinementInv, IInv
<1>2. ASSUME UNCHANGED Own(s) PROVE ShownInv(s)'
  <2>1. Cells(page[s])' = Cells(page[s])
    BY <1>2 DEF Own, Cells, CellText
  <2> QED
    BY <1>1, <1>2, <2>1 DEF Own, ShownInv
<1>3. CASE HostWrites \/ UNCHANGED vars
  BY <1>2, <1>3 DEF HostWrites, vars, wire, Own
<1>4. ASSUME NEW r \in Requests, Arrive(r) \/ Cancel(r) \/ Recycle(r) \/ Handle(r)
      PROVE  ShownInv(s)'
  BY <1>1, <1>2, <1>4, OthersKept, NextShownInv
<1> QED
  BY <1>3, <1>4 DEF Next

(* The mapping: what ReadService sees of a page and of its cells.          *)
Settled(p) == [status |-> p.status, rows |-> [i \in DOMAIN p.rows |-> Shown(p.rows[i])]]

LEMMA MapPage ==
  ASSUME NEW kind, NEW code, NEW S
  PROVE  Settled(PageOf(kind, code, S)) = [status |-> code, rows |-> Service!VisibleRows(S)]
BY DEF Settled, PageOf, Shown, Service!VisibleRows, Service!Visible

LEMMA MapCells ==
  ASSUME NEW p PROVE Service!Cells(Settled(p).rows) = Cells(p)
<1> DEFINE rows == Settled(p).rows
<1>1. DOMAIN rows = DOMAIN p.rows
  BY DEF Settled
<1>2. \A i \in DOMAIN p.rows, f \in Fields : rows[i][f] = CellText(f, p.rows[i][f])
  BY DEF Settled, Shown, CellText
<1> HIDE DEF rows
<1>3. Service!Cells(rows) = Cells(p)
  BY <1>1, <1>2 DEF Service!Cells, Cells
<1> QED
  BY <1>3 DEF rows

LEMMA InitMaps == Init => Service!Init
<1> SUFFICES ASSUME Init PROVE Service!Init
  OBVIOUS
<1>1. \A r \in Requests : Settled(page[r]) = Service!Unsettled
  BY MapPage DEF Init, NoPage, Service!Unsettled, Service!Bare
<1> QED
  BY <1>1 DEF Init, Settled, Phase, Service!Init, Rows, Service!Rows

(* A step of r that changes none of the other requests changes each mapped *)
(* variable at r only.                                                     *)
MapKept(r) ==
  \A s \in Requests : s # r => UNCHANGED <<pc[s], ctx[s], page[s], body[s]>>

LEMMA SettleMaps ==
  ASSUME NEW r \in Requests, MapKept(r), UNCHANGED <<table, query, ctx>>,
         pc[r] \in {"middleware", "read"}, pc'[r] = "write",
         Settled(page'[r]) \in Service!Promised(query[r])
  PROVE  Service!Settle(r)
BY DEF MapKept, Service!Settle, Phase, Settled

LEMMA ShowMaps ==
  ASSUME NEW r \in Requests, MapKept(r), UNCHANGED <<table, query, ctx, page>>,
         pc[r] \in {"write", "render"}, pc'[r] = "done",
         body'[r].cells \subseteq Cells(page[r]),
         ctx[r] # "live" \/ body'[r].cells = Cells(page[r])
  PROVE  Service!Show(r)
<1>1. Service!Cells(Settled(page[r]).rows) = Cells(page[r])
  BY MapCells
<1>2. \A s \in Requests : Phase(s)' = IF s = r THEN "shown" ELSE Phase(s)
  BY DEF MapKept, Phase
<1>3. Phase(r) = "settled"
  BY DEF Phase
<1>4. UNCHANGED <<table, query, [s \in Requests |-> ctx[s] # "live"],
                  [s \in Requests |-> Settled(page[s])]>>
  BY DEF Settled
<1>5. \A s \in Requests : (IF pc[s] = "done" THEN body[s].cells ELSE {})' =
        IF s = r THEN body'[r].cells ELSE IF pc[s] = "done" THEN body[s].cells ELSE {}
  BY DEF MapKept
<1> DEFINE ph == [s \in Requests |-> Phase(s)]
           ca == [s \in Requests |-> ctx[s] # "live"]
           an == [s \in Requests |->
                    [status |-> page[s].status,
                     rows |-> [i \in DOMAIN page[s].rows |-> Shown(page[s].rows[i])]]]
           sh == [s \in Requests |-> IF pc[s] = "done" THEN body[s].cells ELSE {}]
           C  == body'[r].cells
<1>6. Service!Cells(an[r].rows) = Cells(page[r])
  BY <1>1 DEF Settled
<1>7. sh' = [sh EXCEPT ![r] = C] /\ ph' = [ph EXCEPT ![r] = "shown"] /\ ph[r] = "settled"
  BY <1>2, <1>3, <1>5
<1>8. UNCHANGED <<ca, an>> /\ (ca[r] \/ C = Cells(page[r]))
  BY <1>4
<1>9. Service!Show(r) <=>
        /\ ph[r] = "settled" /\ ph' = [ph EXCEPT ![r] = "shown"]
        /\ \E D \in SUBSET Service!Cells(an[r].rows) :
             (ca[r] \/ D = Service!Cells(an[r].rows)) /\ sh' = [sh EXCEPT ![r] = D]
        /\ UNCHANGED <<table, query, ca, an>>
  BY DEF Service!Show
<1>10. C \subseteq Cells(page[r])
  OBVIOUS
<1> HIDE DEF ph, ca, an, sh, C
<1> QED
  BY <1>4, <1>6, <1>7, <1>8, <1>9, <1>10

LEMMA StutterMaps ==
  ASSUME NEW r \in Requests, MapKept(r), UNCHANGED <<table, query, ctx, page>>,
         pc'[r] # "done", pc[r] # "done", Phase(r)' = Phase(r)
  PROVE  UNCHANGED Service!vars
<1>1. \A s \in Requests : Phase(s)' = Phase(s)
  BY DEF MapKept, Phase
<1>2. \A s \in Requests : (IF pc[s] = "done" THEN body[s].cells ELSE {})' =
                          IF pc[s] = "done" THEN body[s].cells ELSE {}
  BY DEF MapKept
<1> QED
  BY <1>1, <1>2 DEF Service!vars, Settled

-----------------------------------------------------------------------------
(* Which step of ReadService each action is.                               *)

LEMMA HostWritesMaps ==
  ASSUME HostWrites PROVE Service!HostWrites
BY DEF HostWrites, Service!HostWrites, Rows, Service!Rows, wire, Phase

LEMMA ArriveMaps ==
  ASSUME TypeOK, NEW r \in Requests, Arrive(r) PROVE Service!Ask(r)
<1>1. \A s \in Requests : Phase(s)' = IF s = r THEN "asked" ELSE Phase(s)
  BY DEF Arrive, Goto, Phase, TypeOK
<1>2. \A s \in Requests : (IF pc[s] = "done" THEN body[s].cells ELSE {})' =
                          IF pc[s] = "done" THEN body[s].cells ELSE {}
  BY DEF Arrive, Goto, TypeOK, wire
<1>3. Phase(r) = "idle"
  BY DEF Arrive, Goto, Phase
<1> QED
  BY <1>1, <1>2, <1>3 DEF Arrive, Service!Ask

LEMMA CancelMaps ==
  ASSUME TypeOK, NEW r \in Requests, Cancel(r) PROVE Service!Cancel(r)
<1>1. \A s \in Requests : (ctx[s] # "live")' = IF s = r THEN TRUE ELSE ctx[s] # "live"
  BY DEF Cancel, TypeOK
<1>2. Phase(r) \in {"asked", "settled"}
  BY DEF Cancel, TypeOK, Phase
<1>3. UNCHANGED <<table, query, [s \in Requests |-> Phase(s)], page, body, pc>>
  BY DEF Cancel, wire, Phase
<1> QED
  BY <1>1, <1>2, <1>3 DEF Service!Cancel

LEMMA RecycleMaps ==
  ASSUME TypeOK, NEW r \in Requests, Recycle(r) PROVE Service!Forget(r)
<1>1. \A s \in Requests : Phase(s)' = IF s = r THEN "idle" ELSE Phase(s)
  BY DEF Recycle, Goto, Phase, TypeOK
<1>2. \A s \in Requests : (IF pc[s] = "done" THEN body[s].cells ELSE {})' =
        IF s = r THEN {} ELSE IF pc[s] = "done" THEN body[s].cells ELSE {}
  BY DEF Recycle, Goto, TypeOK
<1>3. Phase(r) = "shown"
  BY DEF Recycle, Goto, Phase
<1>4. \A s \in Requests : (ctx[s] # "live")' = IF s = r THEN FALSE ELSE ctx[s] # "live"
  BY DEF Recycle, TypeOK
<1>5. \A s \in Requests : Settled(page[s])' = IF s = r THEN Service!Unsettled ELSE Settled(page[s])
  <2>1. Settled(NoPage)' = Settled(PageOf("none", 0, {}))
    BY DEF Settled, NoPage, PageOf
  <2>2. Settled(NoPage)' = Service!Unsettled
    BY <2>1, MapPage DEF Service!Unsettled, Service!Bare
  <2>3. \A s \in Requests : page'[s] = IF s = r THEN NoPage' ELSE page[s]
    BY DEF Recycle, Reply, TypeOK, NoPage, PageOf
  <2> QED
    BY <2>2, <2>3 DEF Settled
<1>6. UNCHANGED <<table, query>>
  BY DEF Recycle
<1> HIDE DEF Phase, Settled
<1> QED
  BY <1>1, <1>2, <1>3, <1>4, <1>5, <1>6 DEF Service!Forget, Settled

LEMMA OwnMapKept ==
  ASSUME TypeOK, NEW r \in Requests, Arrive(r) \/ Cancel(r) \/ Recycle(r) \/ Handle(r)
  PROVE  MapKept(r)
BY OthersKept DEF MapKept, Own

LEMMA ChainMaps ==
  ASSUME RefinementInv, NEW r \in Requests, Chain(r)
  PROVE  Service!Settle(r) \/ UNCHANGED Service!vars
<1>1. TypeOK /\ MapKept(r)
  BY OwnMapKept DEF RefinementInv, IInv, Handle
<1>2. CASE Pass(r)
  <2>1. UNCHANGED <<table, pc, query, ctx, page>> /\ pc[r] = "middleware"
    BY <1>2 DEF Pass
  <2> QED
    BY <1>1, <2>1, StutterMaps DEF Phase
<1>3. CASE Refuse(r)
  <2>1. /\ UNCHANGED <<table, query, ctx>> /\ pc[r] = "middleware" /\ pc'[r] = "write"
        /\ page'[r] = PageOf("refusal", 403, {})
    BY <1>1, <1>3 DEF Refuse, Goto, Reply, TypeOK
  <2>2. Settled(page'[r]) = Service!Bare(403)
    BY <2>1, MapPage DEF Service!Bare
  <2>3. Settled(page'[r]) \in Service!Promised(query[r])
    BY <2>2 DEF Service!Promised, Service!Answers
  <2> QED
    BY <1>1, <2>1, <2>3, SettleMaps
<1> QED
  BY <1>2, <1>3 DEF Chain

LEMMA ServeMaps ==
  ASSUME RefinementInv, NEW r \in Requests, Serve(r)
  PROVE  Service!Settle(r) \/ UNCHANGED Service!vars
<1>1. TypeOK /\ MapKept(r) /\ pc[r] = "middleware" /\ UNCHANGED <<table, query, ctx>>
  BY OwnMapKept DEF RefinementInv, IInv, Handle, Serve, UnknownPath, MethodNotAllowed, ServeIndex,
     ServeVSNAsset, ServeList, ServeDetail, Routed
<1>2. ASSUME NEW kind, NEW code, pc'[r] = "write", page'[r] = PageOf(kind, code, {}),
             Service!Bare(code) \in Service!Promised(query[r])
      PROVE  Service!Settle(r)
  <2>1. Settled(page'[r]) = Service!Bare(code)
    BY <1>2, MapPage DEF Service!Bare
  <2> QED
    BY <1>1, <1>2, <2>1, SettleMaps
<1>3. CASE UnknownPath(r)
  <2>1. Service!Bare(404) \in Service!Promised(query[r])
    BY <1>3 DEF UnknownPath, Service!Promised, Service!Answers
  <2> QED
    BY <1>1, <1>2, <1>3, <2>1 DEF UnknownPath, Reply, ErrorPage, TypeOK
<1>4. CASE MethodNotAllowed(r)
  <2>1. Service!Bare(405) \in Service!Promised(query[r])
    BY <1>4 DEF MethodNotAllowed, ReadOnly, Service!Promised, Service!Answers
  <2> QED
    BY <1>1, <1>2, <1>4, <2>1 DEF MethodNotAllowed, Reply, ErrorPage, TypeOK
<1>5. CASE ServeIndex(r)
  <2>1. Service!Bare(200) \in Service!Promised(query[r])
    BY <1>5 DEF ServeIndex, ReadOnly, Service!Promised, Service!Answers
  <2> QED
    BY <1>1, <1>2, <1>5, <2>1 DEF ServeIndex, Reply, TypeOK
<1>6. CASE ServeVSNAsset(r)
  <2>1. Service!Bare(200) \in Service!Promised(query[r])
    BY <1>6 DEF ServeVSNAsset, ReadOnly, Service!Promised, Service!Answers
  <2> QED
    BY <1>1, <1>2, <1>6, <2>1 DEF ServeVSNAsset, Reply, TypeOK
<1>7. CASE ServeList(r) \/ ServeDetail(r)
  <2>1. pc'[r] = "read" /\ page' = page
    BY <1>1, <1>7 DEF ServeList, ServeDetail, TypeOK
  <2> QED
    BY <1>1, <2>1, StutterMaps DEF Phase
<1> QED
  BY <1>3, <1>4, <1>5, <1>6, <1>7 DEF Serve

(* A list has all rows that are present, or a full page of them.           *)
LEMMA ListedPage ==
  ASSUME NEW S \in SUBSET Present,
         Cardinality(S) = (IF Cardinality(Present) < PageSize THEN Cardinality(Present) ELSE PageSize)
  PROVE  S \in {T \in SUBSET Ids : Service!Page(T)}
<1>1. Present \in SUBSET Ids /\ IsFiniteSet(Present) /\ Service!Present = Present
  BY IdsAssumption, FS_Subset DEF Present, Service!Present
<1>2. Cardinality(Present) \in Nat /\ (Cardinality(Present) = Cardinality(S) => Present = S)
  BY <1>1, FS_Subset, FS_CardinalityType
<1>3. IF Cardinality(Present) <= PageSize THEN S = Present ELSE Cardinality(S) = PageSize
  BY <1>2, PageSizeAssumption
<1>4. \A T : Service!Cardinality(T) = Cardinality(T)
  BY DEF Service!Cardinality, Cardinality
<1>5. Service!Page(S)
  BY <1>1, <1>3, <1>4 DEF Service!Page
<1> QED
  BY <1>1, <1>5

LEMMA ReadMaps ==
  ASSUME RefinementInv, NEW r \in Requests, Read(r) PROVE Service!Settle(r)
<1>1. /\ TypeOK /\ RequestInv(r) /\ MapKept(r) /\ pc[r] = "read" /\ pc'[r] = "write"
      /\ UNCHANGED <<table, query, ctx>>
  BY OwnMapKept DEF RefinementInv, IInv, Handle, Read, List, Get, ReadFails, Answer, Goto, TypeOK
<1>2. query[r].method \in {"GET", "HEAD"}
  BY <1>1 DEF RequestInv, MethodInv, ReadOnly
<1>3. ASSUME NEW p, Answer(r, p), Settled(p) \in Service!Promised(query[r])
      PROVE  Service!Settle(r)
  <2>1. page'[r] = p
    BY <1>1, <1>3 DEF Answer, Reply, TypeOK
  <2> QED
    BY <1>1, <1>3, <2>1, SettleMaps
<1>4. \A code : Settled(ErrorPage(code)) = Service!Bare(code)
  BY MapPage DEF ErrorPage, Service!Bare
<1>5. CASE List(r)
  <2>1. PICK S \in SUBSET Present :
          /\ Answer(r, PageOf("list", 200, S))
          /\ Cardinality(S) = (IF Cardinality(Present) < PageSize THEN Cardinality(Present) ELSE PageSize)
    BY <1>5 DEF List
  <2>2. Settled(PageOf("list", 200, S)) = Service!Listing(S)
    BY MapPage DEF Service!Listing
  <2>3. S \in {T \in SUBSET Ids : Service!Page(T)} /\ query[r].target = "list"
    BY <1>5, <2>1, ListedPage DEF List
  <2>4. Service!Listing(S) \in Service!Promised(query[r])
    BY <1>2, <2>3 DEF Service!Promised, Service!Answers
  <2> QED
    BY <1>3, <2>1, <2>2, <2>4
<1>6. CASE Get(r)
  <2>1. query[r].target = "detail" /\ Service!Present = Present
    BY <1>6 DEF Get, Present, Service!Present
  <2>2. CASE query[r].id \in Present
    <3>1. Settled(PageOf("detail", 200, {query[r].id})) = Service!Listing({query[r].id})
      BY MapPage DEF Service!Listing
    <3>2. Service!Listing({query[r].id}) \in Service!Promised(query[r])
      BY <1>2, <2>1, <2>2 DEF Service!Promised, Service!Answers
    <3> QED
      BY <1>3, <1>6, <2>2, <3>1, <3>2 DEF Get
  <2>3. CASE query[r].id \notin Present
    <3>1. Service!Bare(404) \in Service!Promised(query[r])
      BY <1>2, <2>1, <2>3 DEF Service!Promised, Service!Answers
    <3> QED
      BY <1>3, <1>4, <1>6, <2>3, <3>1 DEF Get
  <2> QED
    BY <2>2, <2>3
<1>7. CASE ReadFails(r)
  <2>1. Service!Bare(500) \in Service!Promised(query[r])
    BY DEF Service!Promised, Service!Answers
  <2> QED
    BY <1>3, <1>4, <1>7, <2>1 DEF ReadFails
<1> QED
  BY <1>5, <1>6, <1>7 DEF Read

(* What is shown when the handler returns: every cell of the page, or      *)
(* those written before the request was cancelled.                         *)
LEMMA RenderMaps ==
  ASSUME RefinementInv, NEW r \in Requests, Render(r)
  PROVE  Service!Show(r) \/ UNCHANGED Service!vars
<1>1. /\ TypeOK /\ RequestInv(r) /\ ShownInv(r) /\ MapKept(r) /\ body[r] \in Bodies
      /\ UNCHANGED <<table, query, ctx, page>> /\ pc[r] \in {"write", "render"}
  BY OwnMapKept DEF RefinementInv, IInv, TypeOK, Handle, Render, Write, pageComponent, OpenContent,
     indexPage, listPage, detailPage, errorPage, detailFragment, Enter, fieldValue, Finish,
     RenderFails, Extend, Goto
<1>2. CASE Write(r)
  <2>1. /\ pc'[r] = IF page[r].kind = "refusal" THEN "done" ELSE "render"
        /\ body'[r].cells = body[r].cells
    BY <1>1, <1>2 DEF Write, Goto, TypeOK, Bodies
  <2>2. CASE page[r].kind = "refusal"
    <3>1. Cells(page[r]) = {}
      BY <1>1, <2>2, NoRowsNoCells DEF ShownInv, Rowless
    <3> QED
      BY <1>1, <2>1, <2>2, <3>1, ShowMaps DEF ShownInv
  <2>3. CASE page[r].kind # "refusal"
    <3>1. Phase(r)' = Phase(r)
      BY <1>1, <2>1, <2>3 DEF Phase
    <3> QED
      BY <1>1, <2>1, <2>3, <3>1, StutterMaps
  <2> QED
    BY <2>2, <2>3
<1>3. CASE pageComponent(r) \/ OpenContent(r) \/ fieldValue(r)
  <2>1. pc' = pc
    BY <1>3 DEF pageComponent, OpenContent, indexPage, listPage, detailPage, errorPage,
       detailFragment, Enter, fieldValue, Extend
  <2>2. Phase(r)' = Phase(r)
    BY <2>1 DEF Phase
  <2> QED
    BY <1>1, <2>1, <2>2, StutterMaps
<1>4. CASE Finish(r)
  <2>1. pc'[r] = "done" /\ body'[r].cells = body[r].cells
    BY <1>1, <1>4 DEF Finish, Goto, TypeOK, Bodies
  <2>2. CASE body[r].form = "script"
    <3>1. page[r].kind = "asset"
      BY <1>1, <2>2 DEF RequestInv, ProgressInv, RenderInv, FormOf
    <3>2. Cells(page[r]) = {}
      BY <1>1, <3>1, NoRowsNoCells DEF ShownInv, Rowless
    <3> QED
      BY <1>1, <2>1, <3>2, ShowMaps DEF ShownInv
  <2>3. CASE body[r].cells = Cells(page[r])
    BY <1>1, <2>1, <2>3, ShowMaps
  <2> QED
    BY <1>4, <2>2, <2>3 DEF Finish, Rendered
<1>5. CASE RenderFails(r)
  <2>1. pc'[r] = "done" /\ body'[r].cells = body[r].cells /\ ctx[r] # "live"
    BY <1>1, <1>5 DEF RenderFails, Goto, TypeOK, Bodies
  <2> QED
    BY <1>1, <2>1, ShowMaps DEF ShownInv
<1> QED
  BY <1>2, <1>3, <1>4, <1>5 DEF Render

LEMMA NextMaps == RefinementInv /\ [Next]_vars => [Service!Next]_(Service!vars)
<1> SUFFICES ASSUME RefinementInv, [Next]_vars PROVE [Service!Next]_(Service!vars)
  OBVIOUS
<1>1. TypeOK
  BY DEF RefinementInv, IInv
<1>2. CASE HostWrites
  BY <1>2, HostWritesMaps DEF Service!Next
<1>3. ASSUME NEW r \in Requests, Arrive(r) \/ Cancel(r) \/ Recycle(r)
      PROVE  Service!Next
  BY <1>1, <1>3, ArriveMaps, CancelMaps, RecycleMaps DEF Service!Next
<1>4. ASSUME NEW r \in Requests, Handle(r)
      PROVE  Service!Next \/ UNCHANGED Service!vars
  BY <1>4, ChainMaps, ServeMaps, ReadMaps, RenderMaps DEF Service!Next, Handle
<1>5. CASE UNCHANGED vars
  BY <1>5 DEF vars, Service!vars, Phase
<1> QED
  BY <1>2, <1>3, <1>4, <1>5 DEF Next

(* Every behaviour of the handler is one that ReadService allows, for any  *)
(* number of requests in progress, any table and any page size: an answer  *)
(* comes from one instant of the table between the request's arrival and   *)
(* its answer, lists what the page size allows, shows nothing sensitive,   *)
(* and is shown in full unless its request was cancelled.                  *)
THEOREM Refinement == Spec => Implements
<1>1. Spec => []RefinementInv
  BY InitRefinementInv, NextRefinementInv, PTL DEF Spec
<1>2. Spec => Service!Spec
  BY <1>1, InitMaps, NextMaps, PTL DEF Spec, Service!Spec
<1> QED
  BY <1>2 DEF Implements
=============================================================================
