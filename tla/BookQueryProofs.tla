-------------------------- MODULE BookQueryProofs --------------------------
(***************************************************************************)
(* Proofs about BookQuery, for any table, any interceptors, any number of  *)
(* queries and of uses of them.                                            *)
(***************************************************************************)
EXTENDS BookQuery, SequenceTheorems, FiniteSetTheorems, TLAPS

-----------------------------------------------------------------------------
(* The invariant.                                                          *)

(* Every query points at its own QueryContext: what is done to one query   *)
(* reaches no other.                                                       *)
OwnContext == ctx = [q \in Queries |-> q]

(* What the caller has asked for is what the query holds, as long as no    *)
(* method has spent it; only what a Traverser hides may be gone already.   *)
AskedInv ==
  \A q \in Queries :
    asked[q] # Spent =>
      /\ context[q].limit = asked[q].limit /\ context[q].offset = asked[q].offset
      /\ context[q].fields = <<>>
      /\ Visible(where[q]) = Visible(asked[q].where)

(* A method that is answering has set its limit and operation; a Count or  *)
(* an All has left alone what was asked for.                               *)
CallInv ==
  pc # "idle" =>
    LET c == context[call.query]
    IN /\ answer = Nothing
       /\ c.op = OpOf(call.method) /\ c.limit = LimitOf(call.method, c)
       /\ call.method \in LeavesNothing => call.asked = asked[call.query]

(* The predicates of each Traverser passed so far have been added.         *)
Traversed(n) ==
  \A i \in 1 .. n : i <= Len(inters) /\ inters[i] = "traverser" => where[call.query] \cap Hidden = {}
TraversedInv ==
  /\ pc = "prepare" => call.at >= 1 /\ Traversed(call.at - 1)
  /\ pc = "around" => call.at >= 1 /\ Traversed(Len(inters))

AnswerInv == HiddenStaysHidden /\ SoleOrNone /\ UnspentAnswersAll /\ OpAsCalled

IInv == TypeOK /\ OwnContext /\ AskedInv /\ CallInv /\ TraversedInv /\ AnswerInv

-----------------------------------------------------------------------------
(* The operators.                                                          *)

LEMMA StackType == ASSUME TypeOK PROVE inters \in Seq({"traverser", "around", "nil"}) /\ Len(inters) \in Nat
BY StacksAssumption DEF TypeOK

(* The outermost operation wins, but a selector's Int hands on none of its *)
(* own.                                                                    *)
LEMMA OpOfCall ==
  ASSUME NEW m \in Methods
  PROVE  OpOf(m) = IF m = "Int" THEN "Select" ELSE m
BY DEF Methods, OpOf, setContextOp, None

LEMMA NoAnswer == ASSUME answer = Nothing PROVE AnswerInv
BY DEF Nothing, NewContext, AnswerInv, HiddenStaysHidden, SoleOrNone, UnspentAnswersAll, OpAsCalled, Visible

LEMMA ContextChanges ==
  ASSUME NEW c \in Contexts
  PROVE  [c EXCEPT !.limit = 1] \in Contexts /\ [c EXCEPT !.offset = 1] \in Contexts
<1>1. c.limit \in 0 .. 2 /\ c.offset \in 0 .. 1 /\ c.fields \in Seq(Names) /\ c.op \in Methods \cup {None}
  BY DEF Contexts
<1> QED
  BY <1>1 DEF Contexts

LEMMA ContextTypes ==
  ASSUME NEW c \in Contexts
  PROVE  \A m \in Methods, f \in Names :
              [limit |-> LimitOf(m, c), offset |-> c.offset, fields |-> FieldsOf(m, f, c), op |-> OpOf(m)] \in Contexts
<1>1. c.limit \in 0 .. 2 /\ c.offset \in 0 .. 1 /\ c.fields \in Seq(Names) /\ c.op \in Methods \cup {None}
  BY DEF Contexts
<1>2. ASSUME NEW m \in Methods, NEW f \in Names
      PROVE  LimitOf(m, c) \in 0 .. 2 /\ FieldsOf(m, f, c) \in Seq(Names) /\ OpOf(m) \in Methods
  <2>1. "id" \in Names
    BY DEF Names, Columns
  <2>2. Append(c.fields, "id") \in Seq(Names) /\ Append(c.fields, f) \in Seq(Names) /\ <<f>> \in Seq(Names)
    BY <1>1, <2>1, AppendProperties
  <2>3. FieldsOf(m, f, c) \in Seq(Names)
    BY <1>1, <2>2 DEF FieldsOf
  <2>4. LimitOf(m, c) \in 0 .. 2
    BY <1>1 DEF LimitOf
  <2>5. OpOf(m) \in Methods
    BY OpOfCall DEF Methods
  <2> QED
    BY <2>3, <2>4, <2>5
<1> QED
  BY <1>1, <1>2 DEF Contexts

LEMMA InitIInv == Init => IInv
<1> SUFFICES ASSUME Init PROVE IInv
  OBVIOUS
<1>1. NewContext \in Contexts
  <2>1. <<>> \in Seq(Names)
    OBVIOUS
  <2> QED
    BY <2>1 DEF NewContext, Contexts
<1>2. Unlimited \in Wishes
  BY DEF Unlimited, Wishes
<1>3. Len(inters) \in Nat
  BY StacksAssumption DEF Init
<1>4. Idle \in [query : Queries, method : Methods, at : 0 .. Len(inters) + 1, asked : Wishes]
  BY <1>3, QueriesAssumption DEF Idle, Methods, Spent, Wishes
<1>5. TypeOK
  BY <1>1, <1>2, <1>4, UsesAssumption DEF Init, TypeOK, Wishes, Nothing, Answers
<1>6. OwnContext /\ AskedInv
  BY DEF Init, OwnContext, AskedInv, NewContext, Unlimited
<1>7. CallInv /\ TraversedInv
  BY DEF Init, CallInv, TraversedInv
<1> QED
  BY <1>5, <1>6, <1>7, NoAnswer DEF Init, IInv

-----------------------------------------------------------------------------
(* Building.                                                               *)

LEMMA UseType == ASSUME TypeOK, Use PROVE uses' \in 0 .. MaxUses /\ answer' = Nothing /\ Nothing.kind \in Answers /\ Nothing.ids \subseteq Nothing.rows
BY UsesAssumption DEF TypeOK, Use, Nothing, Answers

(* A step that builds keeps what is said of calls.                         *)
LEMMA BuildKept ==
  ASSUME IInv, Build
  PROVE  CallInv' /\ TraversedInv' /\ AnswerInv' /\ (TypeOK' <=>
           /\ made' \subseteq Queries /\ ctx' \in [Queries -> Queries]
           /\ context' \in [Queries -> Contexts] /\ where' \in [Queries -> SUBSET Ids]
           /\ asked' \in [Queries -> Wishes])
<1>1. pc' = "idle" /\ pc = "idle" /\ answer' = Nothing /\ call' = call /\ inters' = inters
  BY DEF Build, Use
<1>2. CallInv' /\ TraversedInv'
  BY <1>1 DEF CallInv, TraversedInv
<1>3. AnswerInv'
  BY <1>1 DEF Nothing, NewContext, AnswerInv, HiddenStaysHidden, SoleOrNone, UnspentAnswersAll, OpAsCalled, Visible
<1>4. uses' \in 0 .. MaxUses /\ answer'.kind \in Answers /\ answer'.ids \subseteq answer'.rows
  BY UseType DEF IInv, Build
<1> QED
  BY <1>1, <1>2, <1>3, <1>4 DEF IInv, TypeOK, Wishes

LEMMA QueryKept == ASSUME IInv, NEW q \in Queries, Query(q) PROVE IInv'
<1>1. UNCHANGED <<ctx, context, where, asked, inters>> /\ Build /\ made' = made \cup {q}
  BY DEF Query, Build
<1>2. CallInv' /\ TraversedInv' /\ AnswerInv' /\ TypeOK'
  BY <1>1, BuildKept DEF IInv, TypeOK, Wishes
<1>3. OwnContext' /\ AskedInv'
  BY <1>1 DEF IInv, OwnContext, AskedInv, Visible
<1> QED
  BY <1>2, <1>3 DEF IInv

LEMMA WhereKept == ASSUME IInv, NEW q \in Queries, NEW p \in Predicates, Where(q, p) PROVE IInv'
<1>1. /\ UNCHANGED <<made, ctx, context, inters>> /\ Build /\ where' = [where EXCEPT ![q] = @ \cap p]
      /\ asked' = [asked EXCEPT ![q] = IF @ = Spent THEN Spent ELSE [asked[q] EXCEPT !.where = @ \cap p]]
  BY DEF Where, Ask, Build
<1>2. p \subseteq Ids
  BY PredicatesAssumption
<1>3. asked[q] \in Wishes /\ Spent \in Wishes
  BY DEF IInv, TypeOK, Wishes, Spent
<1>4. asked' \in [Queries -> Wishes]
  BY <1>1, <1>3 DEF IInv, TypeOK, Wishes
<1>5. CallInv' /\ TraversedInv' /\ AnswerInv' /\ TypeOK'
  BY <1>1, <1>2, <1>4, BuildKept DEF IInv, TypeOK
<1>6. OwnContext'
  BY <1>1 DEF IInv, OwnContext
<1>7. AskedInv'
  <2> SUFFICES ASSUME NEW s \in Queries, asked'[s] # Spent
               PROVE  /\ context'[s].limit = asked'[s].limit /\ context'[s].offset = asked'[s].offset
                      /\ context'[s].fields = <<>>
                      /\ Visible(where[s])' = Visible(asked[s].where)'
    BY DEF AskedInv
  <2>1. CASE s = q
    <3>1. /\ asked[q] # Spent /\ asked'[q] = [asked[q] EXCEPT !.where = @ \cap p]
          /\ where'[q] = where[q] \cap p
      BY <1>1, <2>1 DEF IInv, TypeOK
    <3>2. asked'[q].where = asked[q].where \cap p /\ asked'[q].limit = asked[q].limit /\ asked'[q].offset = asked[q].offset
      BY <1>3, <3>1 DEF Wishes
    <3>3. /\ context[q].limit = asked[q].limit /\ context[q].offset = asked[q].offset
          /\ context[q].fields = <<>> /\ Visible(where[q]) = Visible(asked[q].where)
      BY <3>1 DEF IInv, AskedInv
    <3>4. Visible(where[q])' = Visible(asked[q].where)'
      BY <1>1, <3>1, <3>2, <3>3 DEF Visible
    <3>5. context'[q] = context[q]
      BY <1>1
    <3> QED
      BY <2>1, <3>2, <3>3, <3>4, <3>5
  <2>2. CASE s # q
    BY <1>1, <2>2 DEF IInv, TypeOK, AskedInv, Visible
  <2> QED
    BY <2>1, <2>2
<1> QED
  BY <1>5, <1>6, <1>7 DEF IInv

LEMMA LimitKept == ASSUME IInv, NEW q \in Queries, Limit(q, 1) PROVE IInv'
<1>1. /\ UNCHANGED <<made, ctx, where, inters>> /\ Build
      /\ context' = [context EXCEPT ![q] = [context[q] EXCEPT !.limit = 1]]
      /\ asked' = [asked EXCEPT ![q] = IF @ = Spent THEN Spent ELSE [asked[q] EXCEPT !.limit = 1]]
  BY DEF Limit, Ask, Build, IInv, OwnContext
<1>2. asked[q] \in Wishes /\ Spent \in Wishes
  BY DEF IInv, TypeOK, Wishes, Spent
<1>3. asked' \in [Queries -> Wishes] /\ context' \in [Queries -> Contexts]
  <2>1. [asked[q] EXCEPT !.limit = 1] \in Wishes
    BY <1>2 DEF Wishes
  <2>2. [context[q] EXCEPT !.limit = 1] \in Contexts
    BY ContextChanges DEF IInv, TypeOK
  <2> QED
    BY <1>1, <1>2, <2>1, <2>2 DEF IInv, TypeOK
<1>4. CallInv' /\ TraversedInv' /\ AnswerInv' /\ TypeOK'
  BY <1>1, <1>3, BuildKept DEF IInv, TypeOK
<1>5. OwnContext'
  BY <1>1 DEF IInv, OwnContext
<1>6. AskedInv'
  <2> SUFFICES ASSUME NEW s \in Queries, asked'[s] # Spent
               PROVE  /\ context'[s].limit = asked'[s].limit /\ context'[s].offset = asked'[s].offset
                      /\ context'[s].fields = <<>>
                      /\ Visible(where[s])' = Visible(asked[s].where)'
    BY DEF AskedInv
  <2>1. CASE s = q
    <3>1. /\ asked[q] # Spent /\ asked'[q] = [asked[q] EXCEPT !.limit = 1]
          /\ context'[q] = [context[q] EXCEPT !.limit = 1] /\ context[q] \in Contexts
      BY <1>1, <2>1 DEF IInv, TypeOK
    <3>2. /\ asked'[q].where = asked[q].where
          /\ asked'[q].limit = 1 /\ asked'[q].offset = asked[q].offset
          /\ context'[q].limit = 1 /\ context'[q].offset = context[q].offset
          /\ context'[q].fields = context[q].fields
      BY <1>2, <3>1 DEF Contexts, Wishes
    <3>3. /\ context[q].limit = asked[q].limit /\ context[q].offset = asked[q].offset
          /\ context[q].fields = <<>> /\ Visible(where[q]) = Visible(asked[q].where)
      BY <3>1 DEF IInv, AskedInv
    <3>4. Visible(where[q])' = Visible(where[q]) /\ Visible(asked[q].where)' = Visible(asked[q].where)
      BY <1>1, <3>2 DEF Visible
    <3> QED
      BY <2>1, <3>2, <3>3, <3>4
  <2>2. CASE s # q
    BY <1>1, <2>2 DEF IInv, TypeOK, AskedInv, Visible
  <2> QED
    BY <2>1, <2>2
<1> QED
  BY <1>4, <1>5, <1>6 DEF IInv

LEMMA OffsetKept == ASSUME IInv, NEW q \in Queries, Offset(q, 1) PROVE IInv'
<1>1. /\ UNCHANGED <<made, ctx, where, inters>> /\ Build
      /\ context' = [context EXCEPT ![q] = [context[q] EXCEPT !.offset = 1]]
      /\ asked' = [asked EXCEPT ![q] = IF @ = Spent THEN Spent ELSE [asked[q] EXCEPT !.offset = 1]]
  BY DEF Offset, Ask, Build, IInv, OwnContext
<1>2. asked[q] \in Wishes /\ Spent \in Wishes
  BY DEF IInv, TypeOK, Wishes, Spent
<1>3. asked' \in [Queries -> Wishes] /\ context' \in [Queries -> Contexts]
  <2>1. [asked[q] EXCEPT !.offset = 1] \in Wishes
    BY <1>2 DEF Wishes
  <2>2. [context[q] EXCEPT !.offset = 1] \in Contexts
    BY ContextChanges DEF IInv, TypeOK
  <2> QED
    BY <1>1, <1>2, <2>1, <2>2 DEF IInv, TypeOK
<1>4. CallInv' /\ TraversedInv' /\ AnswerInv' /\ TypeOK'
  BY <1>1, <1>3, BuildKept DEF IInv, TypeOK
<1>5. OwnContext'
  BY <1>1 DEF IInv, OwnContext
<1>6. AskedInv'
  <2> SUFFICES ASSUME NEW s \in Queries, asked'[s] # Spent
               PROVE  /\ context'[s].limit = asked'[s].limit /\ context'[s].offset = asked'[s].offset
                      /\ context'[s].fields = <<>>
                      /\ Visible(where[s])' = Visible(asked[s].where)'
    BY DEF AskedInv
  <2>1. CASE s = q
    <3>1. /\ asked[q] # Spent /\ asked'[q] = [asked[q] EXCEPT !.offset = 1]
          /\ context'[q] = [context[q] EXCEPT !.offset = 1] /\ context[q] \in Contexts
      BY <1>1, <2>1 DEF IInv, TypeOK
    <3>2. /\ asked'[q].where = asked[q].where
          /\ asked'[q].offset = 1 /\ asked'[q].limit = asked[q].limit
          /\ context'[q].offset = 1 /\ context'[q].limit = context[q].limit
          /\ context'[q].fields = context[q].fields
      BY <1>2, <3>1 DEF Contexts, Wishes
    <3>3. /\ context[q].limit = asked[q].limit /\ context[q].offset = asked[q].offset
          /\ context[q].fields = <<>> /\ Visible(where[q]) = Visible(asked[q].where)
      BY <3>1 DEF IInv, AskedInv
    <3>4. Visible(where[q])' = Visible(where[q]) /\ Visible(asked[q].where)' = Visible(asked[q].where)
      BY <1>1, <3>2 DEF Visible
    <3> QED
      BY <2>1, <3>2, <3>3, <3>4
  <2>2. CASE s # q
    BY <1>1, <2>2 DEF IInv, TypeOK, AskedInv, Visible
  <2> QED
    BY <2>1, <2>2
<1> QED
  BY <1>4, <1>5, <1>6 DEF IInv

(* A clone starts with a context of its own that says the same.            *)
LEMMA CloneKept == ASSUME IInv, NEW q \in Queries, NEW c \in Queries, Clone(q, c) PROVE IInv'
<1>1. /\ UNCHANGED <<ctx, inters>> /\ Build /\ q \in made /\ made' = made \cup {c}
      /\ context' = [context EXCEPT ![c] = context[q]]
      /\ where' = [where EXCEPT ![c] = where[q]] /\ asked' = [asked EXCEPT ![c] = asked[q]]
  BY DEF Clone, Copy, Context, Build, IInv, OwnContext
<1>2. CallInv' /\ TraversedInv' /\ AnswerInv' /\ TypeOK'
  BY <1>1, BuildKept DEF IInv, TypeOK, Wishes
<1>3. OwnContext' /\ AskedInv'
  <2> SUFFICES ASSUME NEW s \in Queries, asked'[s] # Spent
               PROVE  /\ context'[s].limit = asked'[s].limit /\ context'[s].offset = asked'[s].offset
                      /\ context'[s].fields = <<>>
                      /\ Visible(where[s])' = Visible(asked[s].where)'
    BY <1>1 DEF IInv, OwnContext, AskedInv
  <2> DEFINE o == IF s = c THEN q ELSE s
  <2>1. o \in Queries /\ asked'[s] = asked[o] /\ context'[s] = context[o] /\ where'[s] = where[o]
    BY <1>1 DEF IInv, TypeOK
  <2> HIDE DEF o
  <2> QED
    BY <1>1, <2>1 DEF IInv, AskedInv, Visible
<1> QED
  BY <1>2, <1>3 DEF IInv

-----------------------------------------------------------------------------
(* Answering.                                                              *)

LEMMA CallKept == ASSUME IInv, NEW q \in Queries, NEW m \in Methods, NEW f \in Names, Call(q, m, f) PROVE IInv'
<1> DEFINE c == context[q]
           d == [limit |-> LimitOf(m, c), offset |-> c.offset, fields |-> FieldsOf(m, f, c), op |-> OpOf(m)]
<1>1. /\ UNCHANGED <<inters, made, ctx, where>> /\ Use
      /\ context' = [context EXCEPT ![q] = d]
      /\ asked' = [asked EXCEPT ![q] = IF m \in LeavesNothing THEN @ ELSE Spent]
      /\ pc' \in {"refused", "prepare"}
      /\ call' = [query |-> q, method |-> m, at |-> 1, asked |-> asked[q]]
  BY DEF Call, Context, After, IInv, OwnContext
<1>2. c \in Contexts /\ d \in Contexts
  BY ContextTypes DEF IInv, TypeOK
<1>3. context'[q] = d /\ d.limit = LimitOf(m, c) /\ d.offset = c.offset /\ d.fields = FieldsOf(m, f, c) /\ d.op = OpOf(m)
  BY <1>1 DEF IInv, TypeOK
<1> HIDE DEF d
<1>4. answer' = Nothing /\ uses' \in 0 .. MaxUses /\ Nothing.kind \in Answers /\ Nothing.ids \subseteq Nothing.rows
  BY <1>1, UseType DEF IInv
<1>5. TypeOK'
  <2>1. Spent \in Wishes
    BY DEF Spent, Wishes
  <2>2. asked' \in [Queries -> Wishes] /\ context' \in [Queries -> Contexts]
    BY <1>1, <1>2, <2>1 DEF IInv, TypeOK, Wishes
  <2>3. call' \in [query : Queries, method : Methods, at : 0 .. Len(inters) + 1, asked : Wishes]
    BY <1>1, StackType DEF IInv, TypeOK
  <2> QED
    BY <1>1, <1>4, <2>2, <2>3 DEF IInv, TypeOK, Wishes
<1>6. OwnContext' /\ AnswerInv'
  BY <1>1, <1>4 DEF IInv, OwnContext, Nothing, NewContext, AnswerInv, HiddenStaysHidden, SoleOrNone, UnspentAnswersAll,
     OpAsCalled, Visible
<1>7. AskedInv'
  <2> SUFFICES ASSUME NEW s \in Queries, asked'[s] # Spent
               PROVE  /\ context'[s].limit = asked'[s].limit /\ context'[s].offset = asked'[s].offset
                      /\ context'[s].fields = <<>>
                      /\ Visible(where[s])' = Visible(asked[s].where)'
    BY DEF AskedInv
  <2>1. CASE s = q
    <3>1. m \in LeavesNothing /\ asked'[q] = asked[q]
      BY <1>1, <2>1 DEF IInv, TypeOK
    <3>2. d.limit = c.limit /\ d.fields = c.fields
      BY <1>3, <3>1 DEF LeavesNothing, LimitOf, FieldsOf, IdMethods
    <3> QED
      BY <1>1, <1>3, <2>1, <3>1, <3>2 DEF IInv, AskedInv, Visible
  <2>2. CASE s # q
    BY <1>1, <2>2 DEF IInv, TypeOK, AskedInv, Visible
  <2> QED
    BY <2>1, <2>2
<1>8. CallInv'
  <2>1. call'.query = q /\ call'.method = m /\ call'.asked = asked[q]
    BY <1>1
  <2>2. LimitOf(m, d) = d.limit
    BY <1>3 DEF LimitOf
  <2>3. m \in LeavesNothing => asked'[q] = asked[q]
    BY <1>1 DEF IInv, TypeOK
  <2> QED
    BY <1>3, <1>4, <2>1, <2>2, <2>3 DEF CallInv
<1>9. TraversedInv'
  BY <1>1 DEF TraversedInv, Traversed
<1> QED
  BY <1>5, <1>6, <1>7, <1>8, <1>9 DEF IInv

(* A step towards the answer changes the predicates of the query at most,  *)
(* and hides no more than a Traverser does.                                *)
LEMMA GoesOnKept ==
  ASSUME IInv, pc # "idle", NEW next \in {"prepare", "around"}, NEW at \in 0 .. Len(inters) + 1, GoesOn(next, at),
         where' \in [Queries -> SUBSET Ids],
         \A s \in Queries : Visible(where'[s]) = Visible(where[s]),
         TraversedInv'
  PROVE  IInv'
<1>1. /\ pc' = next /\ call' = [call EXCEPT !.at = at]
      /\ UNCHANGED <<inters, made, ctx, context, asked, answer, uses>>
  BY DEF GoesOn
<1>2. call' \in [query : Queries, method : Methods, at : 0 .. Len(inters) + 1, asked : Wishes]
  BY <1>1 DEF IInv, TypeOK
<1>3. call'.query = call.query /\ call'.method = call.method /\ call'.asked = call.asked
  BY <1>1 DEF IInv, TypeOK
<1>4. TypeOK'
  BY <1>1, <1>2 DEF IInv, TypeOK
<1>5. OwnContext' /\ AnswerInv'
  BY <1>1 DEF IInv, OwnContext, AnswerInv, HiddenStaysHidden, SoleOrNone, UnspentAnswersAll, OpAsCalled,
     Visible, Selected, Picked
<1>6. AskedInv'
  BY <1>1 DEF IInv, AskedInv, Visible
<1>7. CallInv'
  BY <1>1, <1>3 DEF IInv, CallInv
<1> QED
  BY <1>4, <1>5, <1>6, <1>7 DEF IInv

LEMMA TraverseKept == ASSUME IInv, Traverse PROVE IInv'
<1> DEFINE q == call.query
<1>1. /\ pc = "prepare" /\ call.at <= Len(inters) /\ GoesOn("prepare", call.at + 1)
      /\ IF inters[call.at] = "traverser" THEN where' = [where EXCEPT ![q] = @ \ Hidden] ELSE where' = where
  BY DEF Traverse
<1>2. /\ q \in Queries /\ call.at \in Nat /\ call.at >= 1 /\ Len(inters) \in Nat /\ call.at + 1 \in 0 .. Len(inters) + 1
      /\ inters \in Seq({"traverser", "around", "nil"})
  BY <1>1, StackType DEF IInv, TypeOK, TraversedInv
<1>3. where' \in [Queries -> SUBSET Ids] /\ where'[q] \subseteq where[q]
  BY <1>1, <1>2 DEF IInv, TypeOK
<1>4. ASSUME NEW s \in Queries PROVE Visible(where'[s]) = Visible(where[s])
  <2>1. CASE inters[call.at] = "traverser"
    <3>1. "traverser" \in Range(inters)
      BY <1>1, <1>2, <2>1 DEF Range
    <3>2. where'[s] \ Hidden = where[s] \ Hidden
      BY <1>1, <1>2, <2>1 DEF IInv, TypeOK
    <3> QED
      BY <3>1, <3>2 DEF Visible
  <2>2. CASE inters[call.at] # "traverser"
    BY <1>1, <2>2
  <2> QED
    BY <2>1, <2>2
<1>5. /\ pc' = "prepare" /\ call'.query = q /\ call'.at = call.at + 1 /\ inters' = inters
  BY <1>1 DEF GoesOn, IInv, TypeOK
<1>6. TraversedInv'
  <2>1. ASSUME NEW i \in 1 .. call.at, i <= Len(inters), inters[i] = "traverser"
        PROVE  where'[q] \cap Hidden = {}
    <3>1. CASE i = call.at
      BY <1>1, <1>2, <2>1, <3>1 DEF IInv, TypeOK
    <3>2. CASE i # call.at
      <4>1. i \in 1 .. (call.at - 1)
        BY <1>2, <3>2
      <4>2. where[q] \cap Hidden = {}
        BY <1>1, <2>1, <4>1 DEF IInv, TraversedInv, Traversed
      <4> QED
        BY <1>3, <4>2
    <3> QED
      BY <3>1, <3>2
  <2>2. call'.at - 1 = call.at /\ call'.at >= 1
    BY <1>2, <1>5
  <2> QED
    BY <1>5, <2>1, <2>2 DEF TraversedInv, Traversed
<1> QED
  BY <1>1, <1>2, <1>3, <1>4, <1>6, GoesOnKept

LEMMA CheckFieldsGoesOn ==
  ASSUME IInv, pc = "prepare", call.at > Len(inters), GoesOn("around", 1), UNCHANGED where
  PROVE  IInv'
<1>1. call.at \in Nat /\ Len(inters) \in Nat /\ 1 \in 0 .. Len(inters) + 1 /\ where \in [Queries -> SUBSET Ids]
  BY StackType DEF IInv, TypeOK
<1>2. pc' = "around" /\ call'.query = call.query /\ call'.at = 1 /\ inters' = inters
  BY DEF GoesOn, IInv, TypeOK
<1>3. Traversed(Len(inters))
  <2>1. Traversed(call.at - 1) /\ \A i \in 1 .. Len(inters) : i \in 1 .. (call.at - 1)
    BY <1>1 DEF IInv, TraversedInv
  <2> QED
    BY <2>1 DEF Traversed
<1>4. TraversedInv'
  BY <1>2, <1>3 DEF TraversedInv, Traversed
<1> QED
  BY <1>1, <1>4, GoesOnKept

LEMMA InterceptKept == ASSUME IInv, Intercept PROVE IInv'
<1>1. pc = "around" /\ call.at <= Len(inters) /\ GoesOn("around", call.at + 1) /\ UNCHANGED where
  BY DEF Intercept
<1>2. call.at \in Nat /\ call.at + 1 \in 0 .. Len(inters) + 1 /\ where \in [Queries -> SUBSET Ids]
  BY <1>1, StackType DEF IInv, TypeOK
<1>3. pc' = "around" /\ call'.query = call.query /\ call'.at = call.at + 1 /\ inters' = inters
  BY <1>1 DEF GoesOn, IInv, TypeOK
<1>4. TraversedInv'
  BY <1>1, <1>2, <1>3 DEF IInv, TraversedInv, Traversed
<1> QED
  BY <1>1, <1>2, <1>4, GoesOnKept

-----------------------------------------------------------------------------
(* The answers.                                                            *)

(* An answer of the right kind is all there is to keep when a method ends. *)
LEMMA SayKept ==
  ASSUME IInv, NEW kind \in Answers, NEW ids, NEW rows, ids \subseteq rows, Say(kind, ids, rows), UNCHANGED query,
         AnswerInv'
  PROVE  IInv'
<1>1. pc' = "idle" /\ call' = Idle /\ answer'.kind = kind /\ answer'.ids = ids /\ answer'.rows = rows /\ uses' = uses
  BY DEF Say
<1>2. Idle \in [query : Queries, method : Methods, at : 0 .. Len(inters) + 1, asked : Wishes]
  BY StackType, QueriesAssumption DEF IInv, Idle, Methods, Spent, Wishes
<1>3. TypeOK'
  BY <1>1, <1>2 DEF IInv, TypeOK, query
<1>4. OwnContext' /\ AskedInv'
  BY DEF IInv, OwnContext, AskedInv, Visible, query
<1>5. CallInv' /\ TraversedInv'
  BY <1>1 DEF CallInv, TraversedInv
<1> QED
  BY <1>3, <1>4, <1>5 DEF IInv

LEMMA FailsKept == ASSUME IInv, Fails, UNCHANGED query PROVE IInv'
<1>1. /\ Say("error", {}, {}) /\ answer'.kind = "error" /\ answer'.ids = {}
  BY DEF Fails, Say
<1>2. AnswerInv'
  BY <1>1 DEF AnswerInv, HiddenStaysHidden, SoleOrNone, UnspentAnswersAll, OpAsCalled, Visible
<1> QED
  BY <1>1, <1>2, SayKept DEF Answers

(* How many rows LIMIT and OFFSET leave.                                   *)
LEMMA PickedSize ==
  ASSUME NEW rows, IsFiniteSet(rows), NEW limit \in Nat, NEW S \in Picked(rows, limit, 0)
  PROVE  /\ S \subseteq rows /\ Cardinality(S) \in Nat /\ Cardinality(rows) \in Nat
         /\ Cardinality(S) = IF limit = 0 \/ Cardinality(rows) <= limit THEN Cardinality(rows) ELSE limit
<1>1. Cardinality(rows) \in Nat
  BY FS_CardinalityType
<1> QED
  BY <1>1 DEF Picked, Least

LEMMA PickedRows ==
  ASSUME NEW rows, NEW m, NEW c, NEW S \in Selected(m, rows, c)
  PROVE  S \subseteq rows
BY DEF Selected, Picked

LEMMA StatementKept == ASSUME IInv, Statement PROVE IInv'
<1> DEFINE m == call.method
           q == call.query
           c == context[q]
<1>a. PICK rows \in SUBSET Ids, fails \in BOOLEAN :
        \E S \in Selected(m, rows \cap where[q], c) :
          LET kind == KindOf(m, Cardinality(S), fails \/ ScanFails(m, c))
          IN  Say(kind, IF kind = "rows" THEN S ELSE {}, rows)
  BY DEF Statement, Context, IInv, OwnContext, TypeOK
<1>1. PICK S \in Selected(m, rows \cap where[q], c) :
        LET kind == KindOf(m, Cardinality(S), fails \/ ScanFails(m, c))
        IN  Say(kind, IF kind = "rows" THEN S ELSE {}, rows)
  BY <1>a
<1> DEFINE kind == KindOf(m, Cardinality(S), fails \/ ScanFails(m, c))
           ids == IF kind = "rows" THEN S ELSE {}
           found == rows \cap where[q]
<1>2. pc = "around" /\ UNCHANGED query
  BY DEF Statement
<1>3. m \in Methods /\ q \in Queries /\ c \in Contexts /\ ctx[q] = q
  BY DEF IInv, TypeOK, OwnContext
<1>4. S \subseteq found /\ ids \subseteq found /\ ids \subseteq rows
  BY PickedRows
<1>5. IsFiniteSet(found) /\ Cardinality(S) \in Nat
  BY <1>4, IdsAssumption, FS_Subset, FS_CardinalityType
<1>6. answer' = [method |-> m, kind |-> kind, ids |-> ids, rows |-> rows, matching |-> found,
                 context |-> c, asked |-> call.asked]
  BY <1>1, <1>3 DEF Say, Context
<1>7. kind \in Answers
  BY DEF KindOf, KindOfRows, Answers
<1>8. Visible(where[q]) = where[q]
  <2>1. CASE "traverser" \in Range(inters)
    <3>1. PICK i \in 1 .. Len(inters) : inters[i] = "traverser"
      BY <2>1, StackType DEF IInv, Range
    <3>2. where[q] \cap Hidden = {}
      BY <1>2, <3>1, StackType DEF IInv, TraversedInv, Traversed
    <3> QED
      BY <3>2 DEF Visible
  <2> QED
    BY <2>1 DEF Visible
<1>9. HiddenStaysHidden'
  <2>1. Visible(ids) = ids
    BY <1>4, <1>8 DEF Visible
  <2> QED
    BY <1>2, <1>6, <2>1 DEF HiddenStaysHidden, Visible, query
<1>10. SoleOrNone'
  <2> SUFFICES ASSUME c.offset = 0
               PROVE  /\ kind = "rows" /\ m \in {"Only", "OnlyID"} => Cardinality(found) = 1
                      /\ kind \in {"no", "notFound"} => found = {}
    BY <1>6 DEF SoleOrNone
  <2>1. kind = "rows" /\ m \in {"Only", "OnlyID"} => Cardinality(S) = 1
    BY <1>5 DEF KindOf, KindOfRows
  <2>2. kind \in {"no", "notFound"} => Cardinality(S) = 0 /\ m \notin {"Count", "GroupBy"}
    BY DEF KindOf, KindOfRows
  <2>3. m \notin {"Count", "GroupBy"} => S \in Picked(found, c.limit, 0)
    BY DEF Selected
  <2>4. c.limit \in Nat
    BY <1>3 DEF Contexts
  <2>5. m \in {"Only", "OnlyID"} => c.limit = 2
    BY <1>2 DEF IInv, CallInv, LimitOf
  <2>6. CASE kind = "rows" /\ m \in {"Only", "OnlyID"}
    BY <1>5, <2>1, <2>3, <2>4, <2>5, <2>6, PickedSize
  <2>7. CASE kind \in {"no", "notFound"}
    <3>1. Cardinality(found) = 0
      BY <1>5, <2>2, <2>3, <2>4, <2>7, PickedSize
    <3> QED
      BY <1>5, <2>7, <3>1, FS_EmptySet
  <2> QED
    BY <2>6, <2>7
<1>11. UnspentAnswersAll'
  <2> SUFFICES ASSUME kind = "rows", m \in LeavesNothing, call.asked # Spent
               PROVE  c.fields = <<>> /\ S \in Selected(m, Visible(rows \cap call.asked.where), call.asked)
    BY <1>2, <1>6 DEF UnspentAnswersAll, Visible, query
  <2>1. call.asked = asked[q]
    BY <1>2 DEF IInv, CallInv
  <2>2. /\ c.limit = call.asked.limit /\ c.offset = call.asked.offset /\ c.fields = <<>>
        /\ Visible(where[q]) = Visible(call.asked.where)
    BY <1>3, <2>1 DEF IInv, AskedInv
  <2>3. found = Visible(rows \cap call.asked.where)
    BY <1>8, <2>2 DEF Visible
  <2>4. Selected(m, found, c) = Selected(m, found, call.asked)
    BY <2>2 DEF Selected
  <2> QED
    BY <2>2, <2>3, <2>4
<1>12. OpAsCalled'
  BY <1>2, <1>3, <1>6, OpOfCall DEF IInv, CallInv, OpAsCalled
<1> HIDE DEF m, q, c, kind, ids, found
<1> QED
  BY <1>1, <1>2, <1>4, <1>7, <1>9, <1>10, <1>11, <1>12, SayKept DEF AnswerInv, kind, ids

LEMMA NextIInv == IInv /\ [Next]_vars => IInv'
<1> SUFFICES ASSUME IInv, [Next]_vars PROVE IInv'
  OBVIOUS
<1>1. ASSUME NEW q \in Queries, Query(q) \/ Limit(q, 1) \/ Offset(q, 1) PROVE IInv'
  BY <1>1, QueryKept, LimitKept, OffsetKept
<1>2. ASSUME NEW q \in Queries, NEW p \in Predicates, Where(q, p) PROVE IInv'
  BY <1>2, WhereKept
<1>3. ASSUME NEW q \in Queries, NEW c \in Queries, Clone(q, c) PROVE IInv'
  BY <1>3, CloneKept
<1>4. ASSUME NEW q \in Queries, NEW m \in Methods, NEW f \in Names, Call(q, m, f) PROVE IInv'
  BY <1>4, CallKept
<1>5. CASE Refused \/ TraverseFails \/ InterceptorRefuses
  BY <1>5, FailsKept DEF Refused, TraverseFails, InterceptorRefuses
<1>6. CASE CheckFields
  BY <1>6, FailsKept, CheckFieldsGoesOn DEF CheckFields
<1>7. CASE Traverse \/ Intercept \/ Statement
  BY <1>7, TraverseKept, InterceptKept, StatementKept
<1>8. CASE UNCHANGED vars
  <2>1. TypeOK' /\ OwnContext' /\ AskedInv' /\ CallInv' /\ TraversedInv'
    BY <1>8 DEF vars, query, IInv, TypeOK, OwnContext, AskedInv, CallInv, TraversedInv, Traversed, Visible
  <2>2. AnswerInv'
    BY <1>8 DEF vars, query, IInv, AnswerInv, HiddenStaysHidden, SoleOrNone, UnspentAnswersAll, OpAsCalled,
       Visible, Selected, Picked
  <2> QED
    BY <2>1, <2>2 DEF IInv
<1> QED
  BY <1>1, <1>2, <1>3, <1>4, <1>5, <1>6, <1>7, <1>8 DEF Next

LEMMA Inductive == Spec => []IInv
BY InitIInv, NextIInv, PTL DEF Spec

-----------------------------------------------------------------------------
(* The theorems.                                                           *)

(* Every variable keeps its type, the QueryContexts among them.            *)
THEOREM Typing == Spec => []TypeOK
<1>1. IInv => TypeOK
  BY DEF IInv
<1> QED
  BY <1>1, Inductive, PTL

(* No method returns a row that a Traverser of the client hides, however   *)
(* the query was built, cloned and answered before (book_query.go:307-317).*)
THEOREM NothingHidden == Spec => []HiddenStaysHidden
<1>1. IInv => HiddenStaysHidden
  BY DEF IInv, AnswerInv
<1> QED
  BY <1>1, Inductive, PTL

(* Only returns a book only if it is the only one, and no method says that *)
(* there is none if there is one (book_query.go:106-108, 219).             *)
THEOREM OnlyIsSole == Spec => []SoleOrNone
<1>1. IInv => SoleOrNone
  BY DEF IInv, AnswerInv
<1> QED
  BY <1>1, Inductive, PTL

(* A query that has not been spent answers what was asked of it, and of no *)
(* other query it was cloned from or into (book_query.go:241-242).         *)
THEOREM UnspentInFull == Spec => []UnspentAnswersAll
<1>1. IInv => UnspentAnswersAll
  BY DEF IInv, AnswerInv
<1> QED
  BY <1>1, Inductive, PTL

(* The interceptors see the operation that the caller asked for            *)
(* (ent.go:525-532).                                                       *)
THEOREM CalledOperation == Spec => []OpAsCalled
<1>1. IInv => OpAsCalled
  BY DEF IInv, AnswerInv
<1> QED
  BY <1>1, Inductive, PTL
=============================================================================
