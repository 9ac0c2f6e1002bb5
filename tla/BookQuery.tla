------------------------------ MODULE BookQuery ------------------------------
(***************************************************************************)
(* The generated query builders: Where, Limit, Offset and Clone build a    *)
(* query; the methods that answer it set its limit, fields and operation,  *)
(* let the interceptors of its client prepare and surround it, and run one *)
(* SELECT.  A query may be answered again, and be cloned at any time.      *)
(*                                                                         *)
(* A query is used by one goroutine.  Rows are picked in no order, and the *)
(* table may be another one for every statement.  A predicate is the set   *)
(* of rows it lets through.  Interceptors refuse or call the next querier  *)
(* once, and their own errors are not NotFoundErrors; the schema has no    *)
(* edges, so a query has no path.  The statement (sqlgraph) and the scan   *)
(* of its columns are external.                                            *)
(***************************************************************************)
EXTENDS Integers, Sequences, FiniteSets, Functions

CONSTANTS Ids, Queries,
          Predicates,   \* those the caller adds
          Hidden,       \* the rows that a Traverser hides
          Stacks,       \* lists of interceptors that a client may have
          MaxUses       \* calls of the caller's

ASSUME IdsAssumption == IsFiniteSet(Ids)       \* a table has finitely many rows
ASSUME QueriesAssumption == Queries # {}
ASSUME PredicatesAssumption == Predicates \subseteq SUBSET Ids /\ Hidden \subseteq Ids
ASSUME StacksAssumption == Stacks \subseteq Seq({"traverser", "around", "nil"})
ASSUME UsesAssumption == MaxUses \in Nat

VARIABLES
  inters,    \* the client's interceptors, which every query has
  made,      \* the queries there are
  ctx,       \* q.ctx: whose QueryContext it points at
  context,   \* the QueryContexts
  where,     \* the rows that all of q.predicates let through
  asked,     \* what the caller has built, or Spent
  pc, call,  \* the method that is answering
  answer,    \* what the last one said, until the caller goes on
  uses

query == <<inters, made, ctx, context, where, asked>>
vars == <<query, pc, call, answer, uses>>

Columns == {"id", "title"}
Names == Columns \cup {"unknown"}
Methods == {"All", "Count", "First", "FirstID", "Only", "OnlyID", "IDs", "Exist",
            "Select", "Int", "GroupBy"}
Answers == {"none", "rows", "notFound", "notSingular", "no", "error"}

(* A limit or offset of 0 is a nil pointer, an operation None is not set.  *)
None == "none"
NewContext == [limit |-> 0, offset |-> 0, fields |-> <<>>, op |-> None]
Unlimited == [where |-> Ids, limit |-> 0, offset |-> 0]
Spent == [where |-> {}, limit |-> 2, offset |-> 0]
Idle == [query |-> CHOOSE q \in Queries : TRUE, method |-> "All", at |-> 0, asked |-> Spent]
Nothing == [method |-> "All", kind |-> "none", ids |-> {}, rows |-> {}, matching |-> {},
            context |-> NewContext, asked |-> Spent]

Context(q) == context[ctx[q]]

Init ==
  /\ inters \in Stacks
  /\ made = {} /\ ctx = [q \in Queries |-> q]
  /\ context = [q \in Queries |-> NewContext]
  /\ where = [q \in Queries |-> Ids] /\ asked = [q \in Queries |-> Unlimited]
  /\ pc = "idle" /\ call = Idle /\ answer = Nothing /\ uses = 0

-----------------------------------------------------------------------------
(* Building.                                                               *)

Use == pc = "idle" /\ uses < MaxUses /\ uses' = uses + 1 /\ answer' = Nothing
Build == Use /\ UNCHANGED <<inters, pc, call>>

Query(q) ==
  /\ Build /\ q \notin made
  /\ made' = made \cup {q}
  /\ UNCHANGED <<ctx, context, where, asked>>

(* What the caller asks for is remembered as long as it is not spent.      *)
Ask(q, what) == asked' = [asked EXCEPT ![q] = IF @ = Spent THEN Spent ELSE what]

Where(q, p) ==
  /\ Build /\ q \in made
  /\ where' = [where EXCEPT ![q] = @ \cap p]
  /\ Ask(q, [asked[q] EXCEPT !.where = @ \cap p])
  /\ UNCHANGED <<made, ctx, context>>

Limit(q, n) ==
  /\ Build /\ q \in made
  /\ context' = [context EXCEPT ![ctx[q]].limit = n]
  /\ Ask(q, [asked[q] EXCEPT !.limit = n])
  /\ UNCHANGED <<made, ctx, where>>

Offset(q, n) ==
  /\ Build /\ q \in made
  /\ context' = [context EXCEPT ![ctx[q]].offset = n]
  /\ Ask(q, [asked[q] EXCEPT !.offset = n])
  /\ UNCHANGED <<made, ctx, where>>

Copy(q, c) ==
  /\ Build /\ q \in made /\ c \notin made
  /\ made' = made \cup {c}
  /\ where' = [where EXCEPT ![c] = where[q]]
  /\ asked' = [asked EXCEPT ![c] = asked[q]]

(* A mutant of Clone: the clone shares the context of the query.           *)
CloneShallow(q, c) == Copy(q, c) /\ ctx' = [ctx EXCEPT ![c] = ctx[q]] /\ UNCHANGED context

Clone(q, c) == Copy(q, c) /\ context' = [context EXCEPT ![c] = Context(q)] /\ UNCHANGED ctx

-----------------------------------------------------------------------------
(* Answering.                                                              *)

IdMethods == {"FirstID", "OnlyID", "Exist", "IDs"}

(* A mutant of setContextOp: the innermost method sets the operation.      *)
setContextOpAlways(has, op) == op

(* The context of the call gets the operation unless it has one.           *)
setContextOp(has, op) == IF has = None THEN op ELSE has

(* The operation of a call: the method hands its own to setContextOp, and  *)
(* then each method that it calls does.                                    *)
OpOf(m) ==
  LET own == setContextOp(None, m)
      IDs(has) == setContextOp(setContextOp(has, "IDs"), "Select")
  IN CASE m \in {"First", "Only"} -> setContextOp(own, "All")
       [] m \in {"FirstID", "OnlyID"} -> IDs(own)
       [] m = "Exist" -> IDs(setContextOp(own, "FirstID"))
       [] m = "IDs" -> setContextOp(own, "Select")
       [] m = "Int" -> setContextOp(None, "Select")
       [] OTHER -> own

(* A mutant of LimitOf: Only asks for one row more than the limit.         *)
LimitOfOneMore(m, c) ==
  CASE m \in {"First", "FirstID", "Exist"} -> 1
    [] m \in {"Only", "OnlyID"} -> c.limit + 1
    [] OTHER -> c.limit

LimitOf(m, c) ==
  CASE m \in {"First", "FirstID", "Exist"} -> 1
    [] m \in {"Only", "OnlyID"} -> 2
    [] OTHER -> c.limit

(* Select adds to the fields, GroupBy replaces them.                       *)
FieldsOf(m, f, c) ==
  CASE m \in IdMethods -> Append(c.fields, "id")
    [] m \in {"Select", "Int"} -> Append(c.fields, f)
    [] m = "GroupBy" -> <<f>>
    [] OTHER -> c.fields

LeavesNothing == {"All", "Count"}

(* A mutant of After: the query of a Count is not prepared.                *)
AfterUnprepared(m, fields) ==
  IF m = "Int" /\ Len(fields) > 1 THEN "refused" ELSE IF m = "Count" THEN "around" ELSE "prepare"

(* Ints is not achievable when selecting more than 1 field.                *)
After(m, fields) == IF m = "Int" /\ Len(fields) > 1 THEN "refused" ELSE "prepare"

Call(q, m, f) ==
  /\ Use /\ q \in made
  /\ LET c == Context(q)
     IN context' = [context EXCEPT ![ctx[q]] =
          [limit  |-> LimitOf(m, c), offset |-> c.offset, fields |-> FieldsOf(m, f, c),
           op     |-> OpOf(m)]]
  /\ asked' = [asked EXCEPT ![q] = IF m \in LeavesNothing THEN @ ELSE Spent]
  /\ pc' = After(m, FieldsOf(m, f, Context(q)))
  /\ call' = [query |-> q, method |-> m, at |-> 1, asked |-> asked[q]]
  /\ UNCHANGED <<inters, made, ctx, where>>

Say(kind, ids, rows) ==
  /\ pc' = "idle" /\ call' = Idle
  /\ answer' = [method |-> call.method, kind |-> kind, ids |-> ids, rows |-> rows,
                matching |-> rows \cap where[call.query],
                context |-> Context(call.query), asked |-> call.asked]
  /\ UNCHANGED uses

Fails == Say("error", {}, {})

Refused == pc = "refused" /\ Fails /\ UNCHANGED query

GoesOn(next, at) ==
  /\ pc' = next /\ call' = [call EXCEPT !.at = at]
  /\ UNCHANGED <<inters, made, ctx, context, asked, answer, uses>>

(* prepareQuery: the Traversers in their order, each once; then the fields.*)
Traverse ==
  /\ pc = "prepare" /\ call.at <= Len(inters) /\ inters[call.at] # "nil"
  /\ IF inters[call.at] = "traverser"
       THEN where' = [where EXCEPT ![call.query] = @ \ Hidden]
       ELSE UNCHANGED where
  /\ GoesOn("prepare", call.at + 1)

TraverseFails ==
  /\ pc = "prepare" /\ call.at <= Len(inters) /\ inters[call.at] \in {"nil", "traverser"}
  /\ Fails /\ UNCHANGED query

ValidFields == Range(Context(call.query).fields) \subseteq Columns

CheckFields ==
  /\ pc = "prepare" /\ call.at > Len(inters)
  /\ IF ValidFields THEN GoesOn("around", 1) /\ UNCHANGED where
                    ELSE Fails /\ UNCHANGED query

(* withInterceptors: a Traverser only passes the query on.                 *)
Intercept ==
  /\ pc = "around" /\ call.at <= Len(inters)
  /\ GoesOn("around", call.at + 1) /\ UNCHANGED where

InterceptorRefuses ==
  /\ pc = "around" /\ call.at <= Len(inters) /\ inters[call.at] = "around"
  /\ Fails /\ UNCHANGED query

-----------------------------------------------------------------------------
(* The statement, and what the method makes of its rows.                   *)

Least(m, n) == IF m <= n THEN m ELSE n

(* Which rows LIMIT and OFFSET leave is up to the database.                *)
Picked(rows, limit, offset) ==
  LET left == IF Cardinality(rows) > offset THEN Cardinality(rows) - offset ELSE 0
      n == IF limit = 0 THEN left ELSE Least(limit, left)
  IN {S \in SUBSET rows : Cardinality(S) = n}

(* What is counted or grouped below a limit is not modelled.               *)
Selected(m, rows, c) ==
  IF m \in {"Count", "GroupBy"}
  THEN IF c.limit = 0 /\ c.offset = 0 THEN {rows} ELSE SUBSET rows
  ELSE Picked(rows, c.limit, c.offset)

(* Every field is a column; only one column can be scanned into ids.       *)
ScanFails(m, c) == m \in IdMethods /\ Len(c.fields) > 1

KindOfRows(m, n) ==
  CASE m = "Exist" -> IF n = 0 THEN "no" ELSE "rows"
    [] m \in {"First", "FirstID", "Only", "OnlyID", "Int"} /\ n = 0 -> "notFound"
    [] m \in {"Only", "OnlyID"} /\ n > 1 -> "notSingular"
    [] m = "Int" /\ n > 1 -> "error"
    [] OTHER -> "rows"

(* A mutant of KindOf: Exist takes every error for an answer.              *)
KindOfNoErrors(m, n, failed) ==
  IF failed THEN IF m = "Exist" THEN "no" ELSE "error" ELSE KindOfRows(m, n)

KindOf(m, n, failed) == IF failed THEN "error" ELSE KindOfRows(m, n)

Statement ==
  /\ pc = "around" /\ call.at > Len(inters)
  /\ \E rows \in SUBSET Ids, fails \in BOOLEAN :
       LET m == call.method
           c == Context(call.query)
       IN \E S \in Selected(m, rows \cap where[call.query], c) :
            LET kind == KindOf(m, Cardinality(S), fails \/ ScanFails(m, c))
            IN Say(kind, IF kind = "rows" THEN S ELSE {}, rows)
  /\ UNCHANGED query

Next ==
  \/ \E q \in Queries :
       \/ Query(q) \/ Limit(q, 1) \/ Offset(q, 1)
       \/ \E p \in Predicates : Where(q, p)
       \/ \E c \in Queries : Clone(q, c)
       \/ \E m \in Methods, f \in Names : Call(q, m, f)
  \/ Refused \/ Traverse \/ TraverseFails \/ CheckFields
  \/ Intercept \/ InterceptorRefuses \/ Statement

Spec == Init /\ [][Next]_vars

-----------------------------------------------------------------------------

Wishes == [where : SUBSET Ids, limit : 0 .. 2, offset : 0 .. 1]
Contexts == [limit : 0 .. 2, offset : 0 .. 1, fields : Seq(Names), op : Methods \cup {None}]

TypeOK ==
  /\ inters \in Stacks /\ made \subseteq Queries /\ ctx \in [Queries -> Queries]
  /\ context \in [Queries -> Contexts] /\ where \in [Queries -> SUBSET Ids]
  /\ asked \in [Queries -> Wishes]
  /\ pc \in {"idle", "refused", "prepare", "around"} /\ uses \in 0 .. MaxUses
  /\ call \in [query : Queries, method : Methods, at : 0 .. Len(inters) + 1, asked : Wishes]
  /\ answer.kind \in Answers /\ answer.ids \subseteq answer.rows

Visible(rows) == IF "traverser" \in Range(inters) THEN rows \ Hidden ELSE rows

(* No method finds what a Traverser hides, however the query was built and *)
(* answered before (book_query.go:307-317, and its callers).               *)
HiddenStaysHidden == answer.ids = Visible(answer.ids)

(* A book that Only returns is the only one there is, and where Exist says *)
(* no or a method NotFound there is none, whatever limit the query had     *)
(* (book_query.go:106-108, 219; an offset would skip some).                *)
SoleOrNone ==
  answer.context.offset = 0 =>
    /\ answer.kind = "rows" /\ answer.method \in {"Only", "OnlyID"} => Cardinality(answer.matching) = 1
    /\ answer.kind \in {"no", "notFound"} => answer.matching = {}

(* A query whose own limit and fields have not been spent, by a First say, *)
(* answers all that was asked for, in whole: that it was counted or listed *)
(* before makes no difference, and what is done to a query none to its     *)
(* clone (book_query.go:241-242).                                          *)
UnspentAnswersAll ==
  answer.kind = "rows" /\ answer.method \in LeavesNothing /\ answer.asked # Spent =>
    /\ answer.context.fields = <<>>
    /\ LET wanted == Visible(answer.rows \cap answer.asked.where)
       IN answer.ids \in Selected(answer.method, wanted, answer.asked)

(* The interceptors see the operation the caller has called, not one of    *)
(* the methods it is made of (ent.go:525-532).                             *)
OpAsCalled ==
  answer.kind = "rows" => answer.context.op = IF answer.method = "Int" THEN "Select" ELSE answer.method
=============================================================================
