----------------------------- MODULE BookMutation -----------------------------
(***************************************************************************)
(* An update or delete of books by a generated builder: its mutation is    *)
(* filled in, then Save or Exec runs the client's hooks around the SQL     *)
(* statement; and the same builder may then be used again.  A hook sees    *)
(* the mutation before and after the statement; it may change it, refuse   *)
(* it, hand on the mutation of another builder in its place, and ask the   *)
(* mutations it has for the old values of the fields and for the ids they  *)
(* are about.  Meanwhile others write the table.                           *)
(*                                                                         *)
(* A hook calls its next mutator at most once; what it hands on it got in  *)
(* this Save, or made in it and executes in no other way.  The table is    *)
(* external, modelled from how the builders use sqlgraph.                  *)
(***************************************************************************)
EXTENDS Integers

CONSTANTS Ids, Fields, Values,
          Predicates,  \* those used, as field = value
          Mutations,   \* the BookMutation structs, behind pointers
          Own,         \* the one of the builder
          Unset,       \* a field the mutation does not set (nil)
          NoId,        \* the id of a mutation without one (nil)
          NoRow,       \* table[i] when row i does not exist
          Ops,         \* the builders used: BookUpdateOne, BookUpdate, ...
          MadeOps,     \* the builders whose mutation a hook hands on
          HookCount    \* hooks of the client when the builder was made

Rows == [Fields -> Values]
UpdateOps == {"UpdateOne", "Update"}
DeleteOps == {"DeleteOne", "Delete"}

ASSUME OpsAssumption == Ops \subseteq UpdateOps \cup DeleteOps
(* No other builder lets go of its mutation (Mutation()).                  *)
ASSUME MadeAssumption == MadeOps \subseteq UpdateOps \cup {"Create"}
ASSUME NilAssumption == Unset \notin Values /\ NoRow \notin Rows /\ NoId \notin Ids
ASSUME PredicateAssumption == Predicates \subseteq [field : Fields, value : Values]
ASSUME OwnAssumption == Own \in Mutations
ASSUME HookAssumption == HookCount \in Nat

VARIABLES
  table,     \* the books
  mine,      \* the row with each mutation's id, while it is as that one changed it
  kind,      \* the builder, and so its statement
  mutation,  \* the structs
  old,       \* what each one's first oldValue has memoized
  answers,   \* the rows from which it has then answered the Old functions
  told,      \* what IDs has returned before the statement, and of which mutation
  pc, hook,  \* how far Save has got, and in which hook
  given,     \* the mutation given to each hook, and to the statement
  made,      \* the mutations that hooks have made in this Save
  result     \* what Save returned, and the rows its statement selected

rows == <<table, mine>>
chain == <<pc, hook, given, made, result>>
vars == <<rows, kind, mutation, old, answers, told, chain>>

One(o) == o \in {"UpdateOne", "DeleteOne"}
NotTold == [asked |-> FALSE, of |-> Own, ids |-> {}, hidden |-> {}]
Nothing == [ok |-> FALSE, touched |-> {}]

(* newBookMutation; closure: whose oldValue m has, with that one's done.   *)
New(o, i, m) == [op |-> o, id |-> i, change |-> [f \in Fields |-> Unset], where |-> {},
                 done |-> FALSE, closure |-> m]
IdsFor(o) == IF One(o) THEN Ids ELSE {NoId}

(* withBookID has nothing memoized, withBook the given node.               *)
Unasked == [asked |-> FALSE, ok |-> FALSE, row |-> NoRow, mine |-> FALSE]
Memos(o, i) ==
  {Unasked} \cup {[asked |-> TRUE, ok |-> TRUE, row |-> row, mine |-> FALSE] :
                    row \in IF o = "UpdateOne" THEN {table[i]} \ {NoRow} ELSE {}}

(* The rows its predicates select; DeleteOneID adds one on the id.         *)
Matching(u) == {i \in Ids : /\ table[i] # NoRow
                            /\ u.op = "DeleteOne" => i = u.id
                            /\ \A p \in u.where : table[i][p.field] = p.value}

Init ==
  /\ table \in [Ids -> Rows \cup {NoRow}]
  /\ mine = [m \in Mutations |-> {}]
  /\ kind \in Ops
  /\ \E i \in IdsFor(kind) :
       /\ mutation = [m \in Mutations |-> New(kind, i, m)]
       /\ \E memo \in Memos(kind, i) : old = [m \in Mutations |-> IF m = Own THEN memo ELSE Unasked]
  /\ answers = [m \in Mutations |-> {}] /\ told = NotTold
  /\ pc = "build" /\ hook = 0 /\ result = Nothing
  /\ given = [n \in 1 .. HookCount + 1 |-> Own] /\ made = {}

(* Others write the table: what IDs told is then about another table.      *)
HostWrites ==
  /\ \E i \in Ids, row \in Rows \cup {NoRow} :
       /\ table' = [table EXCEPT ![i] = row]
       /\ mine' = [m \in Mutations |-> mine[m] \ {i}]
  /\ told' = NotTold
  /\ UNCHANGED <<kind, mutation, old, answers, chain>>

-----------------------------------------------------------------------------
(* What the caller does to the builder, and a hook to the mutations it has. *)

InHook == pc \in {"before", "after"}
Held == IF InHook THEN made \cup {given[hook]} ELSE {Own}
CanChange == pc = "before" \/ (pc = "build" /\ kind \in UpdateOps)

SetField(m, f, v) ==
  /\ CanChange /\ m \in Held
  /\ mutation' = [mutation EXCEPT ![m].change[f] = v]
  /\ UNCHANGED <<rows, kind, old, answers, told, chain>>

ResetField(m, f) ==
  /\ CanChange /\ m \in Held
  /\ mutation' = [mutation EXCEPT ![m].change[f] = Unset]
  /\ UNCHANGED <<rows, kind, old, answers, told, chain>>

Where(m, p) ==
  /\ pc \in {"build", "before"} /\ m \in Held
  /\ mutation' = [mutation EXCEPT ![m].where = @ \cup {p}]
  /\ told' = IF m = told.of THEN NotTold ELSE told
  /\ UNCHANGED <<rows, kind, old, answers, chain>>

(* A hook makes a builder of its own, for its mutation.                    *)
Make(m) ==
  /\ pc = "before" /\ m \notin made \cup {Own, mutation[Own].closure}
  /\ made' = made \cup {m}
  /\ \E o \in MadeOps : \E i \in IdsFor(o) :
       /\ mutation' = [mutation EXCEPT ![m] = New(o, i, m)]
       /\ \E memo \in Memos(o, i) : old' = [old EXCEPT ![m] = memo]
  /\ mine' = [mine EXCEPT ![m] = {}] /\ answers' = [answers EXCEPT ![m] = {}]
  /\ UNCHANGED <<table, kind, told, pc, hook, given, result>>

-----------------------------------------------------------------------------
(* What a hook asks of a mutation.                                         *)

(* m.Client().Book.Get: the row as it is now, or an error, also that a     *)
(* Traverser hides it.                                                     *)
Fetch(c, i) == {[asked |-> TRUE, ok |-> FALSE, row |-> NoRow, mine |-> FALSE]} \cup
               {[asked |-> TRUE, ok |-> TRUE, row |-> row, mine |-> i \in mine[c]] :
                  row \in {table[i]} \ {NoRow}}

MayAskOld(m) == InHook /\ m \in Held /\ mutation[m].op = "UpdateOne"
AskedOld == UNCHANGED <<rows, kind, mutation, told, chain>>
Answer(c, o) == /\ old' = [old EXCEPT ![c] = o]
                /\ answers' = [answers EXCEPT ![c] = @ \cup ({o.row} \ {NoRow})]

(* A mutant of OldField: nothing is memoized.                              *)
OldFieldEachTime(m) ==
  LET c == mutation[m].closure IN
  /\ MayAskOld(m) /\ AskedOld
  /\ \E o \in IF mutation[c].done THEN {Unasked} ELSE Fetch(c, mutation[m].id) : Answer(c, o)

(* A mutant of OldField: it may be asked first when the row is written.    *)
OldFieldAfterwards(m) ==
  LET c == mutation[m].closure IN
  /\ MayAskOld(m) /\ AskedOld
  /\ \E o \in IF old[c].asked THEN {old[c]} ELSE Fetch(c, mutation[m].id) : Answer(c, o)

(* A mutant of OldField: the error of Get is lost.                         *)
OldFieldNoError(m) ==
  LET c == mutation[m].closure IN
  /\ MayAskOld(m) /\ AskedOld
  /\ \E o \in Fetch(c, mutation[m].id) : old' = [old EXCEPT ![c] = [o EXCEPT !.ok = TRUE]]
  /\ UNCHANGED answers

(* OldTitle, OldAuthor, OldPublished: fetched once, and never first asked  *)
(* when the mutation that the closure was made for is done; an error stays *)
(* as well.                                                                *)
OldField(m) ==
  LET c == mutation[m].closure IN
  /\ MayAskOld(m) /\ AskedOld
  /\ \E o \in IF old[c].asked THEN {old[c]}
              ELSE IF mutation[c].done THEN {[Unasked EXCEPT !.asked = TRUE]}
              ELSE Fetch(c, mutation[m].id) : Answer(c, o)

Told(m, ids, hidden) == told' = [asked |-> TRUE, of |-> m, ids |-> ids, hidden |-> hidden]

(* A mutant of IDs: the predicates are not passed on.                      *)
IDsOfAll(m) ==
  /\ pc = "before" /\ m \in Held
  /\ IF One(mutation[m].op) THEN Told(m, {mutation[m].id}, {})
     ELSE Told(m, {i \in Ids : table[i] # NoRow}, {})
  /\ UNCHANGED <<rows, kind, mutation, old, answers, chain>>

(* A mutation of one knows its id; the others query for their predicates,  *)
(* and the client's Traversers hide some of the rows; an error tells       *)
(* nothing.  (After the statement IDs is about the table as it then is.)   *)
IDs(m) ==
  /\ pc = "before" /\ m \in Held
  /\ LET u == mutation[m] IN
     \/ One(u.op) /\ Told(m, {u.id}, {})
     \/ /\ u.op \in {"Update", "Delete"}
        /\ \E hidden \in SUBSET Matching(u) : Told(m, Matching(u) \ hidden, hidden)
  /\ UNCHANGED <<rows, kind, mutation, old, answers, chain>>

-----------------------------------------------------------------------------
(* Save: the hooks from the first to the last, the statement, and back.    *)

Enter(h, m) == /\ hook' = h /\ given' = [given EXCEPT ![h] = m]
               /\ pc' = (IF h <= HookCount THEN "before" ELSE "exec")

(* BookDeleteOne.Exec, outside the hooks: no row is NotFound.              *)
Outcome(r) == [r EXCEPT !.ok = @ /\ ~(kind = "DeleteOne" /\ r.touched = {})]
Leave(h, r) ==
  /\ hook' = h
  /\ IF h >= 1 THEN pc' = "after" /\ result' = r
     ELSE pc' = "returned" /\ result' = Outcome(r)
Untouched == UNCHANGED <<rows, kind, mutation, old, answers, told>>

Save == pc = "build" /\ Enter(1, Own) /\ Untouched /\ UNCHANGED <<made, result>>

(* The next mutator gets the mutation the hook was given, or one it made.  *)
CallNext(m) == /\ pc = "before" /\ m \in Held /\ Enter(hook + 1, m)
               /\ Untouched /\ UNCHANGED <<made, result>>

Refuse == pc = "before" /\ Leave(hook - 1, Nothing) /\ Untouched /\ UNCHANGED <<given, made>>

(* A hook returns what its next mutator returned, or an error of its own.  *)
Return ==
  /\ pc = "after"
  /\ \E r \in {result, Nothing} : Leave(hook - 1, r)
  /\ Untouched /\ UNCHANGED <<given, made>>

(* "Set the mutation to the builder": its old struct is overwritten.       *)
Final == given[HookCount + 1]
Overwritten == [mutation EXCEPT ![Own] = mutation[Final]]

(* sqlSave and sqlExec: the statement is the builder's, its predicates,    *)
(* fields and id those of the mutation; an update of one that finds no row *)
(* is an error.                                                            *)
Selected(u) == IF kind = "UpdateOne" THEN Matching(u) \cap {u.id} ELSE Matching(u)
Written(u, row) == [f \in Fields |-> IF u.change[f] = Unset THEN row[f] ELSE u.change[f]]

Changed == {i \in Ids : table'[i] # table[i]}

Touch(u, S) ==
  /\ table' = [i \in Ids |-> IF i \notin S THEN table[i]
                             ELSE IF kind \in DeleteOps THEN NoRow ELSE Written(u, table[i])]
  /\ mine' = [m \in Mutations |->
       IF m = u.closure THEN mine[m] \cup (Changed \cap {u.id}) ELSE mine[m] \ Changed]
  /\ mutation' = [Overwritten EXCEPT ![Own].done = TRUE]
  /\ Leave(HookCount, [ok |-> TRUE, touched |-> S])

Execute ==
  /\ pc = "exec"
  /\ LET u == mutation[Final] IN
     IF kind = "UpdateOne" /\ Selected(u) = {}
       THEN Leave(HookCount, Nothing) /\ mutation' = Overwritten /\ UNCHANGED rows
       ELSE Touch(u, Selected(u))
  /\ UNCHANGED <<kind, old, answers, told, given, made>>

(* The statement fails; a delete is marked as done all the same.           *)
ExecuteFails ==
  /\ pc = "exec"
  /\ mutation' = [Overwritten EXCEPT ![Own].done = @ \/ kind \in DeleteOps]
  /\ Leave(HookCount, Nothing)
  /\ UNCHANGED <<rows, kind, old, answers, told, given, made>>

(* The caller uses the builder once more: the mutation is as Save left it. *)
(* What it cannot reach any more is forgotten.                             *)
Alive(c) == c = mutation[Own].closure

Reuse ==
  /\ pc = "returned"
  /\ pc' = "build" /\ hook' = 0 /\ told' = NotTold /\ result' = Nothing /\ made' = {}
  /\ given' = [n \in 1 .. HookCount + 1 |-> Own]
  /\ mutation' = [m \in Mutations |-> IF m = Own THEN mutation[Own] ELSE New("Create", NoId, m)]
  /\ mine' = [c \in Mutations |-> IF Alive(c) THEN mine[c] ELSE {}]
  /\ old' = [c \in Mutations |-> IF Alive(c) THEN old[c] ELSE Unasked]
  /\ answers' = [c \in Mutations |-> IF Alive(c) THEN answers[c] ELSE {}]
  /\ UNCHANGED <<table, kind>>

Next ==
  \/ HostWrites
  \/ \E m \in Mutations :
       \/ \E f \in Fields : ResetField(m, f) \/ \E v \in Values : SetField(m, f, v)
       \/ \E p \in Predicates : Where(m, p)
       \/ Make(m) \/ OldField(m) \/ IDs(m) \/ CallNext(m)
  \/ Save \/ Refuse \/ Return \/ Execute \/ ExecuteFails \/ Reuse

Spec == Init /\ [][Next]_vars

-----------------------------------------------------------------------------

Structs == [op : UpdateOps \cup DeleteOps \cup {"Create"}, id : Ids \cup {NoId},
            change : [Fields -> Values \cup {Unset}], where : SUBSET Predicates,
            done : BOOLEAN, closure : Mutations]
Memo == [asked : BOOLEAN, ok : BOOLEAN, row : Rows \cup {NoRow}, mine : BOOLEAN]

TypeOK ==
  /\ table \in [Ids -> Rows \cup {NoRow}]
  /\ mine \in [Mutations -> SUBSET Ids]
  /\ kind \in Ops
  /\ mutation \in [Mutations -> Structs]
  /\ old \in [Mutations -> Memo]
  /\ \A c \in Mutations : old[c].ok <=> old[c].row # NoRow
  /\ answers \in [Mutations -> SUBSET Rows]
  /\ told \in [asked : BOOLEAN, of : Mutations, ids : SUBSET Ids, hidden : SUBSET Ids]
  /\ pc \in {"build", "before", "exec", "after", "returned"} /\ hook \in 0 .. HookCount + 1
  /\ given \in [1 .. HookCount + 1 -> Mutations] /\ made \subseteq Mutations
  /\ result \in [ok : BOOLEAN, touched : SUBSET Ids]

(* The old values of one mutation, told by different Old functions, before *)
(* and after the statement and when the builder is used again, were once   *)
(* together in its row: they are not a mixture of two versions of it       *)
(* (mutation.go:72-79).  A mutation that was handed on answers, from then  *)
(* on, for the builder's as well, with its own one row (ent.go:505).       *)
OldFromOneRow == \A c \in Mutations : \A row1, row2 \in answers[c] : row1 = row2

(* What the builder's own mutation tells as an old value is never what it  *)
(* has written (mutation.go:73-74), as long as no other takes its place:   *)
(* NoOldPostMutation is about those.                                       *)
OldBeforeOwnWrite == old[Own].ok => ~old[Own].mine

(* "querying old values post mutation is not allowed" (mutation.go:74):    *)
(* what a mutation tells as an old value is never what it has written.  It *)
(* does not hold of one that was handed on: the builder's copy of it gets  *)
(* its oldValue, which asks the original whether it is done.               *)
NoOldPostMutation == \A c \in Mutations : old[c].ok => ~old[c].mine

(* The ids a hook is told before the statement are the ones it touches,    *)
(* but for what a Traverser hid, if that mutation gets to the statement,   *)
(* it is a mutation of such a statement, nobody else wrote the table, and  *)
(* its predicates did not change since (mutation.go:123-126).              *)
IdsWillBeTouched ==
  /\ pc = "returned" /\ result.ok
  /\ told.asked /\ told.of = Final /\ mutation[told.of].op = kind
  => told.ids = result.touched \ told.hidden
=============================================================================
