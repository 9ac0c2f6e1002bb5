------------------------- MODULE BookMutationProofs -------------------------
(***************************************************************************)
(* Proofs about BookMutation, for any number of rows, fields, values,      *)
(* mutations and hooks, and every kind of builder.                         *)
(***************************************************************************)
EXTENDS BookMutation, TLAPS

-----------------------------------------------------------------------------
(* Typing, with where in the chain a hook can be, and which mutations it   *)
(* can have: the builder's and those made in this Save.  Every mutation    *)
(* but the builder's has its own closure, and those of one have an id.     *)

HookInv == /\ pc \in {"before", "after"} => hook \in 1 .. HookCount
           /\ pc = "build" => hook = 0
           /\ pc = "exec" => hook = HookCount + 1
           /\ \A n \in 1 .. HookCount + 1 : given[n] \in made \cup {Own}
ClosureInv == \A m \in Mutations : /\ m # Own => mutation[m].closure = m
                                   /\ One(mutation[m].op) => mutation[m].id \in Ids

Results == [ok : BOOLEAN, touched : SUBSET Ids]
Tellings == [asked : BOOLEAN, of : Mutations, ids : SUBSET Ids, hidden : SUBSET Ids]
Sound(o) == o \in Memo /\ (o.ok <=> o.row # NoRow) /\ (o.ok => o.asked)
MemoInv == \A c \in Mutations : Sound(old[c])

Typed == TypeOK /\ HookInv /\ ClosureInv /\ MemoInv

(* The parts of Typed by the steps that change them.                       *)
DataTyped == /\ table \in [Ids -> Rows \cup {NoRow}] /\ mine \in [Mutations -> SUBSET Ids]
             /\ kind \in Ops
StructsTyped == mutation \in [Mutations -> Structs] /\ ClosureInv
OldTyped == /\ old \in [Mutations -> Memo] /\ MemoInv
            /\ answers \in [Mutations -> SUBSET Rows]
ChainTyped == /\ pc \in {"build", "before", "exec", "after", "returned"}
              /\ hook \in 0 .. HookCount + 1
              /\ given \in [1 .. HookCount + 1 -> Mutations] /\ made \subseteq Mutations
              /\ result \in Results /\ HookInv

LEMMA TypedParts ==
  Typed <=> DataTyped /\ StructsTyped /\ OldTyped /\ ChainTyped /\ told \in Tellings
BY DEF Typed, DataTyped, StructsTyped, OldTyped, ChainTyped, TypeOK, MemoInv, Sound, Results, Tellings

LEMMA Constants == /\ NotTold \in Tellings /\ Nothing \in Results /\ Sound(Unasked)
                   /\ ~NotTold.asked /\ ~Nothing.ok
BY OwnAssumption, NilAssumption DEF NotTold, Tellings, Nothing, Results, Sound, Unasked, Memo

LEMMA NewType ==
  ASSUME NEW o \in UpdateOps \cup DeleteOps \cup {"Create"}, NEW i \in IdsFor(o),
         NEW m \in Mutations
  PROVE  /\ New(o, i, m) \in Structs /\ New(o, i, m).closure = m
         /\ One(New(o, i, m).op) => New(o, i, m).id \in Ids
<1>1. [f \in Fields |-> Unset] \in [Fields -> Values \cup {Unset}]
  OBVIOUS
<1> QED
  BY <1>1 DEF New, Structs, IdsFor

(* What is memoized from the start: nothing, or a row of the table.        *)
LEMMA MemosType ==
  ASSUME DataTyped, NEW o \in UpdateOps \cup DeleteOps \cup {"Create"}, NEW i \in IdsFor(o),
         NEW memo \in Memos(o, i)
  PROVE  Sound(memo) /\ ~memo.mine
<1>1. CASE memo = Unasked
  BY <1>1, Constants DEF Unasked
<1>2. CASE \E row \in IF o = "UpdateOne" THEN {table[i]} \ {NoRow} ELSE {} :
             memo = [asked |-> TRUE, ok |-> TRUE, row |-> row, mine |-> FALSE]
  <2>1. o = "UpdateOne" /\ i \in Ids
    BY <1>2 DEF IdsFor, One
  <2>2. table[i] \in Rows \cup {NoRow}
    BY <2>1 DEF DataTyped
  <2> QED
    BY <1>2, <2>2 DEF Sound, Memo
<1> QED
  BY <1>1, <1>2 DEF Memos

LEMMA InitTyped == Init => Typed
<1> SUFFICES ASSUME Init PROVE Typed
  OBVIOUS
<1>1. DataTyped /\ kind \in UpdateOps \cup DeleteOps \cup {"Create"}
  BY OpsAssumption DEF Init, DataTyped
<1>2. PICK i \in IdsFor(kind) :
        /\ mutation = [m \in Mutations |-> New(kind, i, m)]
        /\ \E memo \in Memos(kind, i) : old = [m \in Mutations |-> IF m = Own THEN memo ELSE Unasked]
  BY DEF Init
<1>3. StructsTyped
  <2>1. \A m \in Mutations : /\ New(kind, i, m) \in Structs /\ New(kind, i, m).closure = m
                             /\ One(New(kind, i, m).op) => New(kind, i, m).id \in Ids
    BY <1>1, <1>2, NewType
  <2> HIDE DEF New
  <2> QED
    BY <1>2, <2>1 DEF StructsTyped, ClosureInv
<1>4. OldTyped
  <2>1. PICK memo \in Memos(kind, i) : old = [m \in Mutations |-> IF m = Own THEN memo ELSE Unasked]
    BY <1>2
  <2>2. Sound(memo) /\ Sound(Unasked)
    BY <1>1, MemosType, Constants
  <2>3. \A c \in Mutations : Sound(old[c])
    BY <2>1, <2>2
  <2>4. old \in [Mutations -> Memo]
    BY <2>1, <2>2 DEF Sound
  <2> QED
    BY <2>3, <2>4 DEF OldTyped, MemoInv, Init
<1>5. ChainTyped
  BY HookAssumption, OwnAssumption, Constants DEF ChainTyped, HookInv, Init
<1>6. told \in Tellings
  BY Constants DEF Init
<1> QED
  BY <1>1, <1>3, <1>4, <1>5, <1>6, TypedParts

-----------------------------------------------------------------------------
(* What the steps do to each part.                                         *)

LEMMA HeldType ==
  ASSUME Typed, NEW m \in Held
  PROVE  m \in Mutations /\ m \in made \cup {Own}
BY OwnAssumption DEF Typed, TypeOK, HookInv, Held, InHook

(* A struct with a field set or reset, and one with another predicate.     *)
LEMMA ChangeStruct ==
  ASSUME StructsTyped, NEW m \in Mutations, NEW f \in Fields, NEW v \in Values \cup {Unset},
         mutation' = [mutation EXCEPT ![m].change[f] = v]
  PROVE  /\ StructsTyped'
         /\ \A n \in Mutations : /\ mutation'[n].op = mutation[n].op /\ mutation'[n].id = mutation[n].id
                                 /\ mutation'[n].where = mutation[n].where
                                 /\ mutation'[n].done = mutation[n].done
                                 /\ mutation'[n].closure = mutation[n].closure
<1> DEFINE new == [mutation[m] EXCEPT !.change[f] = v]
<1>1. mutation' = [mutation EXCEPT ![m] = new]
  OBVIOUS
<1>2. mutation[m] \in Structs /\ mutation[m].change \in [Fields -> Values \cup {Unset}]
  BY DEF StructsTyped, Structs
<1>3. [mutation[m].change EXCEPT ![f] = v] \in [Fields -> Values \cup {Unset}]
  BY <1>2
<1>4. new = [mutation[m] EXCEPT !.change = [mutation[m].change EXCEPT ![f] = v]]
  BY <1>2 DEF Structs
<1>5. /\ new \in Structs /\ new.op = mutation[m].op /\ new.id = mutation[m].id
      /\ new.where = mutation[m].where /\ new.done = mutation[m].done
      /\ new.closure = mutation[m].closure
  BY <1>2, <1>3, <1>4 DEF Structs
<1> HIDE DEF new
<1> QED
  BY <1>1, <1>5 DEF StructsTyped, ClosureInv

LEMMA WhereStruct ==
  ASSUME StructsTyped, NEW m \in Mutations, NEW p \in Predicates,
         mutation' = [mutation EXCEPT ![m].where = @ \cup {p}]
  PROVE  /\ StructsTyped'
         /\ \A n \in Mutations : /\ n # m => mutation'[n] = mutation[n]
                                 /\ mutation'[n].op = mutation[n].op /\ mutation'[n].id = mutation[n].id
                                 /\ mutation'[n].done = mutation[n].done
                                 /\ mutation'[n].closure = mutation[n].closure
<1> DEFINE new == [mutation[m] EXCEPT !.where = @ \cup {p}]
<1>1. mutation' = [mutation EXCEPT ![m] = new]
  OBVIOUS
<1>2. mutation[m] \in Structs
  BY DEF StructsTyped
<1>3. /\ new \in Structs /\ new.op = mutation[m].op /\ new.id = mutation[m].id
      /\ new.done = mutation[m].done /\ new.closure = mutation[m].closure
  BY <1>2 DEF Structs
<1> HIDE DEF new
<1> QED
  BY <1>1, <1>3 DEF StructsTyped, ClosureInv

(* The builder's struct is overwritten, and done may be set.               *)
LEMMA OverwrittenType ==
  ASSUME Typed, NEW d \in BOOLEAN,
         mutation' = Overwritten \/ mutation' = [Overwritten EXCEPT ![Own].done = d]
  PROVE  /\ Final \in Mutations /\ StructsTyped'
         /\ \A m \in Mutations : m # Own => mutation'[m] = mutation[m]
         /\ mutation'[Own].closure = mutation[Final].closure
         /\ mutation'[Own].op = mutation[Final].op /\ mutation'[Own].id = mutation[Final].id
         /\ mutation'[Own].done \in {d, mutation[Final].done}
         /\ mutation' # Overwritten => mutation'[Own].done = d
<1>1. HookCount + 1 \in 1 .. HookCount + 1
  BY HookAssumption
<1>2. Final \in Mutations /\ mutation[Final] \in Structs /\ Own \in Mutations
  BY <1>1, OwnAssumption DEF Typed, TypeOK, Final
<1>3. mutation' = [mutation EXCEPT ![Own] = mutation'[Own]]
  BY <1>2 DEF Overwritten, Typed, TypeOK
<1>4. /\ mutation'[Own] \in {mutation[Final], [mutation[Final] EXCEPT !.done = d]}
      /\ mutation' # Overwritten => mutation'[Own] = [mutation[Final] EXCEPT !.done = d]
  BY <1>2 DEF Overwritten, Typed, TypeOK
<1>5. /\ mutation'[Own] \in Structs
      /\ mutation'[Own].closure = mutation[Final].closure
      /\ mutation'[Own].op = mutation[Final].op /\ mutation'[Own].id = mutation[Final].id
      /\ mutation'[Own].done \in {d, mutation[Final].done}
      /\ mutation' # Overwritten => mutation'[Own].done = d
  BY <1>2, <1>4 DEF Structs
<1>6. \A m \in Mutations : m # Own => mutation'[m] = mutation[m]
  BY <1>3 DEF Typed, TypeOK
<1>7. StructsTyped'
  <2>1. mutation' \in [Mutations -> Structs]
    BY <1>3, <1>5, <1>2 DEF Typed, TypeOK
  <2>2. ClosureInv'
    <3> SUFFICES ASSUME NEW m \in Mutations
                 PROVE  /\ m # Own => mutation'[m].closure = m
                        /\ One(mutation'[m].op) => mutation'[m].id \in Ids
      BY DEF ClosureInv
    <3>1. CASE m = Own
      BY <1>2, <1>5, <3>1 DEF Typed, ClosureInv, One
    <3>2. CASE m # Own
      BY <1>6, <3>2 DEF Typed, ClosureInv, One
    <3> QED
      BY <3>1, <3>2
  <2> QED
    BY <2>1, <2>2 DEF StructsTyped
<1> QED
  BY <1>2, <1>5, <1>6, <1>7

LEMMA EnterType ==
  ASSUME Typed, NEW h \in 1 .. HookCount + 1, NEW m \in made \cup {Own}, Enter(h, m),
         UNCHANGED <<made, result>>
  PROVE  ChainTyped' /\ pc' \in {"before", "exec"}
<1>1. given' = [given EXCEPT ![h] = m] /\ m \in Mutations
  BY OwnAssumption DEF Enter, Typed, TypeOK
<1>2. \A n \in 1 .. HookCount + 1 : given'[n] \in made \cup {Own}
  BY <1>1 DEF Typed, TypeOK, HookInv
<1>3. given' \in [1 .. HookCount + 1 -> Mutations]
  BY <1>1 DEF Typed, TypeOK
<1> QED
  BY <1>2, <1>3, HookAssumption DEF Enter, ChainTyped, HookInv, Typed, TypeOK, Results

LEMMA LeaveType ==
  ASSUME Typed, NEW h \in 0 .. HookCount, NEW r \in Results, Leave(h, r),
         UNCHANGED <<given, made>>
  PROVE  /\ ChainTyped'
         /\ \/ pc' = "after" /\ result' = r
            \/ /\ pc' = "returned" /\ result'.touched = r.touched
               /\ result'.ok => r.ok /\ ~(kind = "DeleteOne" /\ r.touched = {})
<1>1. /\ Outcome(r) \in Results /\ Outcome(r).touched = r.touched
      /\ Outcome(r).ok => r.ok /\ ~(kind = "DeleteOne" /\ r.touched = {})
  BY DEF Outcome, Results
<1> QED
  BY <1>1, HookAssumption DEF Leave, ChainTyped, HookInv, Typed, TypeOK

(* What Get returns is sound, and as it is now (client.go:294).            *)
LEMMA FetchType ==
  ASSUME Typed, NEW c \in Mutations, NEW i \in Ids, NEW o \in Fetch(c, i)
  PROVE  Sound(o) /\ o.asked /\ (o.ok => o.mine = (i \in mine[c]))
<1>1. CASE o = [asked |-> TRUE, ok |-> FALSE, row |-> NoRow, mine |-> FALSE]
  BY <1>1 DEF Sound, Memo
<1>2. CASE \E row \in {table[i]} \ {NoRow} :
             o = [asked |-> TRUE, ok |-> TRUE, row |-> row, mine |-> i \in mine[c]]
  BY <1>2 DEF Sound, Memo, Typed, TypeOK
<1> QED
  BY <1>1, <1>2 DEF Fetch

(* What an Old function finds: what is memoized, or the row now.           *)
LEMMA OldFieldOutcome ==
  ASSUME Typed, NEW m \in Mutations, OldField(m), NEW c, c = mutation[m].closure
  PROVE  /\ c \in Mutations
         /\ \E o : /\ old' = [old EXCEPT ![c] = o] /\ Sound(o) /\ o.asked
                   /\ answers' = [answers EXCEPT ![c] = @ \cup ({o.row} \ {NoRow})]
                   /\ old[c].asked => o = old[c]
                   /\ ~old[c].asked /\ o.ok =>
                        ~mutation[c].done /\ o.mine = (mutation[m].id \in mine[c])
<1>1. c \in Mutations /\ mutation[m].id \in Ids
  <2>1. mutation[m] \in Structs /\ mutation[m].op = "UpdateOne"
    BY DEF Typed, TypeOK, OldField, MayAskOld
  <2>2. c \in Mutations
    BY <2>1 DEF Structs
  <2>3. One(mutation[m].op)
    BY <2>1 DEF One
  <2>4. mutation[m].id \in Ids
    BY <2>3 DEF Typed, ClosureInv
  <2> QED
    BY <2>2, <2>4
<1>2. PICK o \in IF old[c].asked THEN {old[c]}
                 ELSE IF mutation[c].done THEN {[Unasked EXCEPT !.asked = TRUE]}
                 ELSE Fetch(c, mutation[m].id) : Answer(c, o)
  BY DEF OldField
<1>3. CASE old[c].asked
  BY <1>1, <1>2, <1>3 DEF Answer, Typed, MemoInv
<1>4. CASE ~old[c].asked /\ mutation[c].done
  <2>1. Sound(o) /\ o.asked /\ ~o.ok
    BY <1>2, <1>4 DEF Unasked, Sound, Memo
  <2> QED
    BY <1>1, <1>2, <1>4, <2>1 DEF Answer
<1>5. CASE ~old[c].asked /\ ~mutation[c].done
  BY <1>1, <1>2, <1>5, FetchType DEF Answer
<1> QED
  BY <1>3, <1>4, <1>5

LEMMA OldFieldTyped ==
  ASSUME Typed, NEW m \in Mutations, OldField(m)
  PROVE  OldTyped'
<1> DEFINE c == mutation[m].closure
<1>1. PICK o : /\ old' = [old EXCEPT ![c] = o] /\ Sound(o)
               /\ answers' = [answers EXCEPT ![c] = @ \cup ({o.row} \ {NoRow})]
  BY OldFieldOutcome
<1>2. old' \in [Mutations -> Memo] /\ \A d \in Mutations : old'[d] = old[d] \/ old'[d] = o
  BY <1>1 DEF Typed, TypeOK, Sound
<1>3. {o.row} \ {NoRow} \subseteq Rows
  BY <1>1 DEF Sound, Memo
<1>4. answers' \in [Mutations -> SUBSET Rows]
  BY <1>1, <1>3 DEF Typed, TypeOK
<1> QED
  BY <1>1, <1>2, <1>4 DEF OldTyped, MemoInv, Typed

LEMMA WrittenType ==
  ASSUME NEW u \in Structs, NEW row \in Rows
  PROVE  Written(u, row) \in Rows
BY DEF Written, Rows, Structs

(* The statement writes rows that are there.                               *)
LEMMA TouchType ==
  ASSUME Typed, NEW u \in Structs, Touch(u, Selected(u)), kind' = kind
  PROVE  DataTyped' /\ Selected(u) \subseteq Ids
<1>1. Selected(u) \subseteq Ids /\ \A i \in Selected(u) : table[i] \in Rows
  BY DEF Selected, Matching, Typed, TypeOK
<1>2. \A i \in Selected(u) : Written(u, table[i]) \in Rows
  BY <1>1, WrittenType
<1>3. table' \in [Ids -> Rows \cup {NoRow}]
  <2> DEFINE new(i) == IF i \notin Selected(u) THEN table[i]
                       ELSE IF kind \in DeleteOps THEN NoRow ELSE Written(u, table[i])
  <2>1. \A i \in Ids : new(i) \in Rows \cup {NoRow}
    BY <1>2 DEF Typed, TypeOK
  <2>2. table' = [i \in Ids |-> new(i)]
    BY DEF Touch
  <2> QED
    BY <2>1, <2>2
<1>4. mine' \in [Mutations -> SUBSET Ids]
  <2>1. Changed \subseteq Ids
    BY DEF Changed
  <2> QED
    BY <2>1 DEF Touch, Typed, TypeOK
<1> QED
  BY <1>1, <1>3, <1>4 DEF DataTyped, Typed, TypeOK

LEMMA IDsType ==
  ASSUME Typed, NEW m \in Mutations, IDs(m)
  PROVE  told' \in Tellings
<1>1. PICK ids \in SUBSET Ids, hidden \in SUBSET Ids : Told(m, ids, hidden)
  <2>1. Matching(mutation[m]) \subseteq Ids
    BY DEF Matching
  <2>2. One(mutation[m].op) => {mutation[m].id} \subseteq Ids
    BY DEF Typed, ClosureInv
  <2> QED
    BY <2>1, <2>2 DEF IDs
<1> QED
  BY <1>1 DEF Told, Tellings

LEMMA MakeType ==
  ASSUME Typed, NEW m \in Mutations, Make(m)
  PROVE  /\ StructsTyped' /\ OldTyped' /\ ChainTyped' /\ DataTyped'
         /\ \A n \in Mutations : n # m => mutation'[n] = mutation[n] /\ old'[n] = old[n]
<1>0. PICK o \in MadeOps : \E i \in IdsFor(o) :
        /\ mutation' = [mutation EXCEPT ![m] = New(o, i, m)]
        /\ \E memo \in Memos(o, i) : old' = [old EXCEPT ![m] = memo]
  BY DEF Make
<1>1. PICK i \in IdsFor(o) :
        /\ mutation' = [mutation EXCEPT ![m] = New(o, i, m)]
        /\ \E memo \in Memos(o, i) : old' = [old EXCEPT ![m] = memo]
  BY <1>0
<1>2. PICK memo \in Memos(o, i) : old' = [old EXCEPT ![m] = memo]
  BY <1>1
<1>3. DataTyped /\ o \in UpdateOps \cup DeleteOps \cup {"Create"}
  BY TypedParts, MadeAssumption
<1>4. /\ New(o, i, m) \in Structs /\ New(o, i, m).closure = m
      /\ One(New(o, i, m).op) => New(o, i, m).id \in Ids
  BY <1>3, NewType
<1>5. Sound(memo)
  BY <1>3, MemosType
<1>6. \A n \in Mutations : n # m => mutation'[n] = mutation[n] /\ old'[n] = old[n]
  BY <1>1, <1>2 DEF Typed, TypeOK
<1>7. mutation'[m] = New(o, i, m) /\ old'[m] = memo
  BY <1>1, <1>2 DEF Typed, TypeOK
<1>8. StructsTyped'
  <2>1. mutation' \in [Mutations -> Structs]
    BY <1>1, <1>4 DEF Typed, TypeOK
  <2> QED
    BY <1>4, <1>6, <1>7, <2>1 DEF StructsTyped, ClosureInv, Typed
<1>9. OldTyped'
  <2>1. old' \in [Mutations -> Memo] /\ answers' \in [Mutations -> SUBSET Rows]
    BY <1>2, <1>5 DEF Sound, Typed, TypeOK, Make
  <2> QED
    BY <1>5, <1>6, <1>7, <2>1 DEF OldTyped, MemoInv, Typed
<1>10. ChainTyped' /\ DataTyped'
  BY DEF Make, ChainTyped, DataTyped, HookInv, Typed, TypeOK, Results
<1> QED
  BY <1>6, <1>8, <1>9, <1>10

LEMMA ReuseType ==
  ASSUME Typed, Reuse
  PROVE  StructsTyped' /\ OldTyped' /\ ChainTyped' /\ DataTyped' /\ told' \in Tellings
<1>1. StructsTyped'
  <2>1. \A m \in Mutations : /\ New("Create", NoId, m) \in Structs /\ New("Create", NoId, m).closure = m
                             /\ ~One(New("Create", NoId, m).op)
    <3>1. NoId \in IdsFor("Create")
      BY DEF IdsFor, One
    <3>2. \A m \in Mutations : New("Create", NoId, m) \in Structs /\ New("Create", NoId, m).closure = m
      BY <3>1, NewType
    <3> QED
      BY <3>2 DEF New, One
  <2>2. mutation' = [m \in Mutations |-> IF m = Own THEN mutation[Own] ELSE New("Create", NoId, m)]
    BY DEF Reuse
  <2> HIDE DEF New
  <2>3. mutation' \in [Mutations -> Structs]
    BY <2>1, <2>2 DEF Typed, TypeOK
  <2>4. ClosureInv'
    BY <2>1, <2>2 DEF Typed, ClosureInv
  <2> QED
    BY <2>3, <2>4 DEF StructsTyped
<1>2. OldTyped'
  <2>1. old' = [c \in Mutations |-> IF Alive(c) THEN old[c] ELSE Unasked] /\ Sound(Unasked)
    BY Constants DEF Reuse
  <2>2. \A c \in Mutations : Sound(old'[c])
    BY <2>1 DEF Typed, MemoInv
  <2>3. old' \in [Mutations -> Memo]
    BY <2>1 DEF Typed, TypeOK, Sound
  <2>4. answers' \in [Mutations -> SUBSET Rows]
    BY DEF Reuse, Typed, TypeOK
  <2> QED
    BY <2>2, <2>3, <2>4 DEF OldTyped, MemoInv
<1>3. ChainTyped' /\ told' \in Tellings
  BY HookAssumption, OwnAssumption, Constants DEF Reuse, ChainTyped, HookInv
<1>4. DataTyped'
  BY DEF Reuse, DataTyped, Typed, TypeOK
<1> QED
  BY <1>1, <1>2, <1>3, <1>4

LEMMA NextTyped == Typed /\ [Next]_vars => Typed'
<1> SUFFICES ASSUME Typed, [Next]_vars PROVE Typed'
  OBVIOUS
<1>0. DataTyped /\ StructsTyped /\ OldTyped /\ ChainTyped /\ told \in Tellings
  BY TypedParts
<1>a. UNCHANGED <<rows, kind>> => DataTyped'
  BY <1>0 DEF DataTyped, rows
<1>b. UNCHANGED mutation => StructsTyped'
  BY <1>0 DEF StructsTyped, ClosureInv
<1>c. UNCHANGED <<old, answers>> => OldTyped'
  BY <1>0 DEF OldTyped, MemoInv, Sound
<1>d. UNCHANGED chain => ChainTyped'
  BY <1>0 DEF ChainTyped, HookInv, chain
<1>e. ASSUME DataTyped', StructsTyped', OldTyped', ChainTyped', told' \in Tellings PROVE Typed'
  BY <1>e DEF Typed, DataTyped, StructsTyped, OldTyped, ChainTyped, TypeOK, MemoInv, Sound, Results, Tellings
<1>f. NotTold \in Tellings /\ Nothing \in Results /\ Own \in Mutations
  BY Constants, OwnAssumption
<1>1. CASE HostWrites
  <2>1. DataTyped'
    BY <1>0, <1>1 DEF HostWrites, DataTyped
  <2> QED
    BY <1>1, <2>1, <1>b, <1>c, <1>d, <1>e, <1>f DEF HostWrites
<1>2. ASSUME NEW m \in Mutations, NEW f \in Fields,
             ResetField(m, f) \/ \E v \in Values : SetField(m, f, v)
      PROVE  Typed'
  <2>1. PICK v \in Values \cup {Unset} : mutation' = [mutation EXCEPT ![m].change[f] = v]
    BY <1>2 DEF ResetField, SetField
  <2>2. UNCHANGED <<rows, kind, old, answers, told, chain>>
    BY <1>2 DEF ResetField, SetField
  <2>3. StructsTyped'
    BY <1>0, <2>1, ChangeStruct
  <2> QED
    BY <2>2, <2>3, <1>0, <1>a, <1>c, <1>d, <1>e
<1>3. ASSUME NEW m \in Mutations, NEW p \in Predicates, Where(m, p) PROVE Typed'
  <2>1. StructsTyped'
    BY <1>0, <1>3, WhereStruct DEF Where
  <2>2. UNCHANGED <<rows, kind, old, answers, chain>> /\ told' \in Tellings
    BY <1>0, <1>3, <1>f DEF Where
  <2> QED
    BY <2>1, <2>2, <1>a, <1>c, <1>d, <1>e
<1>4. ASSUME NEW m \in Mutations, Make(m) PROVE Typed'
  <2>1. told' = told
    BY <1>4 DEF Make
  <2> QED
    BY <1>0, <1>4, <2>1, MakeType, <1>e
<1>5. ASSUME NEW m \in Mutations, OldField(m) PROVE Typed'
  <2>1. UNCHANGED <<rows, kind, mutation, told, chain>>
    BY <1>5 DEF OldField, AskedOld
  <2> QED
    BY <1>0, <1>5, <2>1, OldFieldTyped, <1>a, <1>b, <1>d, <1>e
<1>6. ASSUME NEW m \in Mutations, IDs(m) PROVE Typed'
  <2>1. UNCHANGED <<rows, kind, mutation, old, answers, chain>>
    BY <1>6 DEF IDs
  <2> QED
    BY <1>6, <2>1, IDsType, <1>a, <1>b, <1>c, <1>d, <1>e
<1>7. Untouched => DataTyped' /\ StructsTyped' /\ OldTyped' /\ told' \in Tellings
  BY <1>0, <1>a, <1>b, <1>c DEF Untouched
<1>8. CASE Save
  <2>1. 1 \in 1 .. HookCount + 1 /\ Own \in made \cup {Own}
    BY HookAssumption
  <2> QED
    BY <1>7, <1>8, <2>1, EnterType, <1>e DEF Save
<1>9. ASSUME NEW m \in Mutations, CallNext(m) PROVE Typed'
  <2>1. hook + 1 \in 1 .. HookCount + 1 /\ m \in made \cup {Own}
    BY <1>0, <1>9, HookAssumption, HeldType DEF CallNext, ChainTyped, HookInv
  <2> QED
    BY <1>7, <1>9, <2>1, EnterType, <1>e DEF CallNext
<1>10. CASE Refuse
  <2>1. hook - 1 \in 0 .. HookCount
    BY <1>0, <1>10, HookAssumption DEF Refuse, ChainTyped, HookInv
  <2> QED
    BY <1>7, <1>10, <2>1, <1>f, LeaveType, <1>e DEF Refuse
<1>11. CASE Return
  <2>1. hook - 1 \in 0 .. HookCount
    BY <1>0, <1>11, HookAssumption DEF Return, ChainTyped, HookInv
  <2>2. PICK r \in Results : Leave(hook - 1, r)
    BY <1>0, <1>11, <1>f DEF Return, ChainTyped
  <2> QED
    BY <1>7, <1>11, <2>1, <2>2, LeaveType, <1>e DEF Return
<1>12. HookCount \in 0 .. HookCount
  BY HookAssumption
<1>13. CASE Execute
  <2> DEFINE u == mutation[Final]
  <2>1. u \in Structs
    BY HookAssumption DEF Final, Typed, TypeOK
  <2> HIDE DEF u
  <2>2. CASE Leave(HookCount, Nothing) /\ mutation' = Overwritten /\ UNCHANGED rows
    <3>1. ChainTyped'
      BY <1>12, <1>13, <1>f, <2>2, LeaveType DEF Execute
    <3>2. StructsTyped'
      BY <2>2, OverwrittenType
    <3> QED
      BY <1>0, <1>13, <2>2, <3>1, <3>2, <1>a, <1>c, <1>e DEF Execute
  <2>3. CASE Touch(u, Selected(u))
    <3>1. DataTyped' /\ Selected(u) \subseteq Ids
      BY <1>13, <2>1, <2>3, TouchType DEF Execute
    <3>2. [ok |-> TRUE, touched |-> Selected(u)] \in Results
      BY <3>1 DEF Results
    <3>3. ChainTyped'
      BY <1>12, <1>13, <2>3, <3>2, LeaveType DEF Execute, Touch
    <3>4. StructsTyped'
      BY <2>3, OverwrittenType DEF Touch
    <3> QED
      BY <1>0, <1>13, <3>1, <3>3, <3>4, <1>c, <1>e DEF Execute
  <2> QED
    BY <1>13, <2>2, <2>3 DEF Execute, u
<1>14. CASE ExecuteFails
  <2>1. \E d \in BOOLEAN : mutation' = [Overwritten EXCEPT ![Own].done = d]
    BY <1>14 DEF ExecuteFails
  <2>2. StructsTyped'
    BY <2>1, OverwrittenType
  <2>3. ChainTyped'
    BY <1>12, <1>14, <1>f, LeaveType DEF ExecuteFails
  <2> QED
    BY <1>0, <1>14, <2>2, <2>3, <1>a, <1>c, <1>e DEF ExecuteFails
<1>15. CASE Reuse
  BY <1>15, ReuseType, <1>e
<1>16. CASE UNCHANGED vars
  BY <1>0, <1>16, <1>a, <1>b, <1>c, <1>d, <1>e DEF vars
<1> QED
  BY <1>1, <1>2, <1>3, <1>4, <1>5, <1>6, <1>8, <1>9, <1>10, <1>11, <1>13, <1>14, <1>15, <1>16 DEF Next

(* Every variable of a mutation keeps its type, and what is memoized as    *)
(* the old value is a row or nothing, never a part of an error.            *)
THEOREM TypeCorrect == Spec => []TypeOK
<1>1. Typed => TypeOK
  BY DEF Typed
<1>2. Spec => []Typed
  BY InitTyped, NextTyped, PTL DEF Spec
<1> QED
  BY <1>1, <1>2, PTL

-----------------------------------------------------------------------------
(* The old values.  As long as the builder's struct has its own closure,   *)
(* nothing is memoized first once it is done, and before that no row holds *)
(* what it wrote.  What is memoized stays, so that all the answers of a    *)
(* closure come from one row.                                              *)

OwnInv == /\ mutation[Own].closure = Own /\ mine[Own] # {} => mutation[Own].done
          /\ old[Own].ok => ~old[Own].mine
AnswersInv == \A c \in Mutations : \A row \in answers[c] : old[c].ok /\ row = old[c].row
OldInv == Typed /\ OwnInv /\ AnswersInv

LEMMA InitOld == Init => OldInv
<1> SUFFICES ASSUME Init PROVE OldInv
  OBVIOUS
<1>1. Typed
  BY InitTyped
<1>2. PICK i \in IdsFor(kind) : \E memo \in Memos(kind, i) :
             old = [m \in Mutations |-> IF m = Own THEN memo ELSE Unasked]
  BY DEF Init
<1>3. PICK memo \in Memos(kind, i) : old[Own] = memo
  BY <1>2, OwnAssumption
<1>4. DataTyped /\ kind \in UpdateOps \cup DeleteOps \cup {"Create"}
  BY <1>1, TypedParts, OpsAssumption DEF DataTyped
<1>5. ~old[Own].mine
  BY <1>3, <1>4, MemosType
<1>6. mine[Own] = {} /\ \A c \in Mutations : answers[c] = {}
  BY OwnAssumption DEF Init
<1> QED
  BY <1>1, <1>5, <1>6 DEF OldInv, OwnInv, AnswersInv

(* Steps that ask nothing.                                                 *)
LEMMA UnaskedStep ==
  ASSUME OldInv, Typed', UNCHANGED <<old, answers>>, mine'[Own] \subseteq mine[Own],
         mutation'[Own].closure = mutation[Own].closure, mutation'[Own].done = mutation[Own].done
  PROVE  OldInv'
<1>1. OwnInv'
  BY DEF OldInv, OwnInv
<1>2. AnswersInv'
  BY DEF OldInv, AnswersInv
<1> QED
  BY <1>1, <1>2 DEF OldInv

(* The statement: the builder's struct has its own closure afterwards only *)
(* if no other mutation got there.                                         *)
LEMMA StatementStep ==
  ASSUME OldInv, Typed', UNCHANGED <<old, answers>>,
         mutation'[Own].closure = mutation[Final].closure,
         \/ mutation'[Own].done
         \/ mine' = mine /\ (mutation[Final].done => mutation'[Own].done)
  PROVE  OldInv'
<1>1. Final \in Mutations
  BY HookAssumption DEF Final, OldInv, Typed, TypeOK
<1>2. mutation'[Own].closure = Own => Final = Own
  BY <1>1 DEF OldInv, Typed, ClosureInv
<1>3. OwnInv'
  BY <1>2 DEF OldInv, OwnInv
<1>4. AnswersInv'
  BY DEF OldInv, AnswersInv
<1> QED
  BY <1>3, <1>4 DEF OldInv

LEMMA OldFieldKeeps ==
  ASSUME OldInv, Typed', NEW m \in Mutations, OldField(m)
  PROVE  OldInv'
<1> DEFINE c == mutation[m].closure
<1>1. UNCHANGED <<mine, mutation>>
  BY DEF OldField, AskedOld, rows
<1>2. c \in Mutations /\ (c = Own => m = Own)
  BY OldFieldOutcome DEF OldInv, Typed, ClosureInv
<1>3. PICK o : /\ old' = [old EXCEPT ![c] = o] /\ Sound(o)
               /\ answers' = [answers EXCEPT ![c] = @ \cup ({o.row} \ {NoRow})]
               /\ old[c].asked => o = old[c]
               /\ ~old[c].asked /\ o.ok =>
                    ~mutation[c].done /\ o.mine = (mutation[m].id \in mine[c])
  BY OldFieldOutcome DEF OldInv
<1> HIDE DEF c
<1>4. /\ old'[c] = o /\ \A d \in Mutations : d # c => old'[d] = old[d]
      /\ answers'[c] = answers[c] \cup ({o.row} \ {NoRow})
      /\ \A d \in Mutations : d # c => answers'[d] = answers[d]
  BY <1>2, <1>3 DEF OldInv, Typed, TypeOK
<1>5. AnswersInv'
  <2> SUFFICES ASSUME NEW d \in Mutations, NEW row \in answers'[d]
               PROVE  old'[d].ok /\ row = old'[d].row
    BY DEF AnswersInv
  <2>1. CASE d # c
    BY <1>4, <2>1 DEF OldInv, AnswersInv
  <2>2. CASE d = c /\ row \in answers[c]
    <3>1. old[c].ok /\ row = old[c].row /\ old[c].asked
      BY <1>2, <2>2 DEF OldInv, AnswersInv, Typed, MemoInv, Sound
    <3> QED
      BY <1>3, <1>4, <2>2, <3>1
  <2>3. CASE d = c /\ row = o.row /\ row # NoRow
    BY <1>3, <1>4, <2>3 DEF Sound
  <2> QED
    BY <1>4, <2>1, <2>2, <2>3
<1>6. OwnInv'
  <2>1. CASE c # Own
    BY <1>1, <1>4, <2>1, OwnAssumption DEF OldInv, OwnInv
  <2>2. CASE c = Own /\ old[c].asked
    BY <1>1, <1>3, <1>4, <2>2 DEF OldInv, OwnInv
  <2>3. CASE c = Own /\ ~old[c].asked
    <3>1. mutation[Own].closure = Own
      BY <1>2, <2>3 DEF c
    <3>2. o.ok => mine[Own] = {} /\ o.mine = (mutation[m].id \in mine[Own])
      BY <1>3, <2>3, <3>1 DEF OldInv, OwnInv
    <3>3. o.ok => ~o.mine
      BY <3>2
    <3> QED
      BY <1>1, <1>4, <2>3, <3>3 DEF OldInv, OwnInv
  <2> QED
    BY <2>1, <2>2, <2>3
<1> QED
  BY <1>5, <1>6 DEF OldInv

LEMMA NextOld == OldInv /\ [Next]_vars => OldInv'
<1> SUFFICES ASSUME OldInv, [Next]_vars PROVE OldInv'
  OBVIOUS
<1>0. Typed /\ TypeOK /\ Typed' /\ Own \in Mutations /\ StructsTyped
  BY NextTyped, OwnAssumption DEF OldInv, Typed, TypeOK, StructsTyped
<1>1. CASE HostWrites
  BY <1>0, <1>1, UnaskedStep DEF HostWrites
<1>2. ASSUME NEW m \in Mutations, NEW f \in Fields,
             ResetField(m, f) \/ \E v \in Values : SetField(m, f, v)
      PROVE  OldInv'
  <2>1. PICK v \in Values \cup {Unset} : mutation' = [mutation EXCEPT ![m].change[f] = v]
    BY <1>2 DEF ResetField, SetField
  <2>2. UNCHANGED <<old, answers, mine>>
    BY <1>2 DEF ResetField, SetField, rows
  <2> QED
    BY <1>0, <2>1, <2>2, ChangeStruct, UnaskedStep
<1>3. ASSUME NEW m \in Mutations, NEW p \in Predicates, Where(m, p) PROVE OldInv'
  BY <1>0, <1>3, WhereStruct, UnaskedStep DEF Where, rows
<1>4. ASSUME NEW m \in Mutations, Make(m) PROVE OldInv'
  <2>1. /\ m # Own /\ mine'[Own] = mine[Own] /\ answers'[m] = {}
        /\ \A n \in Mutations : n # m => answers'[n] = answers[n]
    BY <1>0, <1>4 DEF Make, TypeOK
  <2>2. \A n \in Mutations : n # m => mutation'[n] = mutation[n] /\ old'[n] = old[n]
    BY <1>0, <1>4, MakeType
  <2>3. OwnInv' /\ AnswersInv'
    BY <1>0, <2>1, <2>2 DEF OldInv, OwnInv, AnswersInv
  <2> QED
    BY <1>0, <2>3 DEF OldInv
<1>5. ASSUME NEW m \in Mutations, OldField(m) PROVE OldInv'
  BY <1>0, <1>5, OldFieldKeeps
<1>6. CASE UNCHANGED <<mine, mutation, old, answers>>
  BY <1>0, <1>6, UnaskedStep
<1>7. CASE Execute
  <2>1. UNCHANGED <<old, answers>>
    BY <1>7 DEF Execute
  <2>2. CASE mutation' = Overwritten /\ UNCHANGED rows
    <3>1. mine' = mine /\ mutation'[Own] = mutation[Final]
      BY <1>0, <2>2 DEF Overwritten, TypeOK, rows
    <3> QED
      BY <1>0, <2>1, <3>1, StatementStep
  <2>3. CASE mutation' = [Overwritten EXCEPT ![Own].done = TRUE]
    <3>1. mutation'[Own].done
      BY <1>0, <2>3 DEF Overwritten, TypeOK, Structs
    <3>2. mutation'[Own].closure = mutation[Final].closure
      BY <1>0, <2>3, OverwrittenType
    <3> QED
      BY <1>0, <2>1, <3>1, <3>2, StatementStep
  <2> QED
    BY <1>7, <2>2, <2>3 DEF Execute, Touch
<1>8. CASE ExecuteFails
  <2>1. /\ UNCHANGED <<old, answers, mine>>
        /\ mutation' = [Overwritten EXCEPT ![Own].done = @ \/ kind \in DeleteOps]
    BY <1>8 DEF ExecuteFails, rows
  <2>2. /\ mutation'[Own].closure = mutation[Final].closure
        /\ mutation[Final].done => mutation'[Own].done
    <3>1. Final \in Mutations /\ mutation[Final] \in Structs
      BY <1>0, HookAssumption DEF Final, TypeOK
    <3>2. mutation'[Own] = [mutation[Final] EXCEPT !.done = @ \/ kind \in DeleteOps]
      BY <1>0, <2>1, <3>1 DEF Overwritten, TypeOK
    <3> QED
      BY <3>1, <3>2 DEF Structs
  <2> QED
    BY <1>0, <2>1, <2>2, StatementStep
<1>9. CASE Reuse
  <2>1. mutation'[Own] = mutation[Own] /\ mine'[Own] \subseteq mine[Own]
    BY <1>0, <1>9 DEF Reuse, TypeOK
  <2>2. \A c \in Mutations : \/ old'[c] = old[c] /\ answers'[c] = answers[c]
                             \/ old'[c] = Unasked /\ answers'[c] = {}
    BY <1>9 DEF Reuse
  <2>3. OwnInv' /\ AnswersInv'
    BY <1>0, <2>1, <2>2 DEF OldInv, OwnInv, AnswersInv, Unasked
  <2> QED
    BY <1>0, <2>3 DEF OldInv
<1>10. CASE (\E m \in Mutations : IDs(m) \/ CallNext(m)) \/ Save \/ Refuse \/ Return \/ UNCHANGED vars
  BY <1>6, <1>10 DEF IDs, CallNext, Save, Refuse, Return, Untouched, vars, rows
<1> QED
  BY <1>1, <1>2, <1>3, <1>4, <1>5, <1>7, <1>8, <1>9, <1>10 DEF Next

(* What the builder's own mutation tells as an old value is never what it  *)
(* has written, whatever hooks ask and hand on (mutation.go:73-74): another *)
(* mutation that is handed on takes its place, and its closure with it.    *)
THEOREM AlwaysOldBeforeOwnWrite == Spec => []OldBeforeOwnWrite
<1>1. OldInv => OldBeforeOwnWrite
  BY DEF OldInv, OwnInv, OldBeforeOwnWrite
<1>2. Spec => []OldInv
  BY InitOld, NextOld, PTL DEF Spec
<1> QED
  BY <1>1, <1>2, PTL

(* All the old values that one mutation tells were once together in its    *)
(* row, whichever Old functions are asked, and when, and when it has been  *)
(* handed on as well (mutation.go:72-79).                                  *)
THEOREM AlwaysOldFromOneRow == Spec => []OldFromOneRow
<1>1. OldInv => OldFromOneRow
  BY DEF OldInv, AnswersInv, OldFromOneRow
<1>2. Spec => []OldInv
  BY InitOld, NextOld, PTL DEF Spec
<1> QED
  BY <1>1, <1>2, PTL

-----------------------------------------------------------------------------
(* The ids.  Until the statement, what IDs told is what the mutation will  *)
(* select, without what was hidden.  After it, if that mutation got there  *)
(* and is of its kind, it is what was touched; but for a delete of one     *)
(* that found no row, which fails only outside the hooks.                  *)

Promise(u) == IF One(u.op) THEN told.ids = {u.id} /\ told.hidden = {}
              ELSE told.hidden \subseteq Matching(u) /\ told.ids = Matching(u) \ told.hidden
Kept(r) == told.ids = r.touched \ told.hidden \/ (kind = "DeleteOne" /\ r.touched = {})
Applies == told.of = Final /\ mutation[told.of].op = kind

IdsInv == told.asked =>
            /\ pc # "build" /\ told.of \in made \cup {Own}
            /\ pc \in {"before", "exec"} => Promise(mutation[told.of])
            /\ pc = "after" /\ result.ok /\ Applies => Kept(result)
            /\ pc = "returned" /\ result.ok /\ Applies => told.ids = result.touched \ told.hidden

(* Steps of the hooks that leave the statement of the mutation told alone. *)
LEMMA SameIds ==
  ASSUME Typed, IdsInv, pc \notin {"after", "returned"} \/ mutation' = mutation,
         UNCHANGED <<table, kind, told, pc, given, result>>, made \subseteq made',
         told.asked => /\ mutation'[told.of].op = mutation[told.of].op
                       /\ mutation'[told.of].id = mutation[told.of].id
                       /\ mutation'[told.of].where = mutation[told.of].where
  PROVE  IdsInv'
<1>1. told.asked => Matching(mutation[told.of])' = Matching(mutation[told.of])
  BY DEF Matching
<1>2. told.asked /\ Promise(mutation[told.of]) => Promise(mutation[told.of])'
  BY <1>1 DEF Promise
<1>3. pc \in {"after", "returned"} => (Applies' <=> Applies)
  BY DEF Applies, Final
<1> QED
  BY <1>2, <1>3 DEF IdsInv, Kept

LEMMA EnterIds ==
  ASSUME IdsInv, pc = "before" \/ ~told.asked, NEW h, NEW m, Enter(h, m), Untouched, UNCHANGED made
  PROVE  IdsInv'
<1>1. pc' \in {"before", "exec"}
  BY DEF Enter
<1>2. told.asked => Promise(mutation[told.of])'
  BY DEF IdsInv, Promise, Matching, Untouched, rows
<1> QED
  BY <1>1, <1>2 DEF IdsInv, Untouched

LEMMA LeaveIds ==
  ASSUME Typed, IdsInv, NEW h \in 0 .. HookCount, NEW r \in Results, Leave(h, r),
         pc # "build", told.asked /\ r.ok /\ Applies' => Kept(r),
         UNCHANGED <<kind, told, given, made>>
  PROVE  IdsInv'
<1>1. CASE pc' = "after" /\ result' = r
  BY <1>1 DEF IdsInv, Kept
<1>2. CASE /\ pc' = "returned" /\ result'.touched = r.touched
           /\ result'.ok => r.ok /\ ~(kind = "DeleteOne" /\ r.touched = {})
  BY <1>2 DEF IdsInv, Kept
<1> QED
  BY <1>1, <1>2, LeaveType

(* The statement selects what the hooks were promised.                     *)
LEMMA SelectedKept ==
  ASSUME NEW u, Promise(u), u.op = kind, kind = "UpdateOne" => Selected(u) # {},
         NEW r, r.touched = Selected(u)
  PROVE  Kept(r)
<1>1. CASE kind = "UpdateOne"
  BY <1>1 DEF Selected, Promise, One, Kept
<1>2. CASE kind = "DeleteOne"
  <2>1. Selected(u) \subseteq {u.id} /\ told.ids = {u.id} /\ told.hidden = {}
    BY <1>2 DEF Selected, Matching, Promise, One
  <2> QED
    BY <1>2, <2>1 DEF Kept
<1>3. CASE kind \notin {"UpdateOne", "DeleteOne"}
  BY <1>3 DEF Selected, Promise, One, Kept
<1> QED
  BY <1>1, <1>2, <1>3

LEMMA NextIds == Typed /\ IdsInv /\ [Next]_vars => IdsInv'
<1> SUFFICES ASSUME Typed, IdsInv, [Next]_vars PROVE IdsInv'
  OBVIOUS
<1>0. /\ TypeOK /\ HookInv /\ StructsTyped /\ Own \in Mutations
      /\ result \in Results /\ Nothing \in Results /\ ~Nothing.ok /\ ~NotTold.asked
  BY Constants, OwnAssumption DEF Typed, TypeOK, StructsTyped, Results
<1>1. CASE HostWrites \/ Reuse
  BY <1>0, <1>1 DEF HostWrites, Reuse, IdsInv
<1>2. ASSUME NEW m \in Mutations, NEW f \in Fields,
             ResetField(m, f) \/ \E v \in Values : SetField(m, f, v)
      PROVE  IdsInv'
  <2>1. PICK v \in Values \cup {Unset} : mutation' = [mutation EXCEPT ![m].change[f] = v]
    BY <1>2 DEF ResetField, SetField
  <2>2. UNCHANGED <<table, kind, told, pc, given, made, result>> /\ pc \notin {"after", "returned"}
    BY <1>2 DEF ResetField, SetField, rows, chain, CanChange
  <2>3. told.of \in Mutations
    BY <1>0 DEF TypeOK
  <2> QED
    BY <1>0, <2>1, <2>2, <2>3, ChangeStruct, SameIds
<1>3. ASSUME NEW m \in Mutations, NEW p \in Predicates, Where(m, p) PROVE IdsInv'
  <2>1. CASE m = told.of
    BY <1>0, <1>3, <2>1 DEF Where, IdsInv
  <2>2. CASE m # told.of
    <3>1. told.of \in Mutations /\ mutation'[told.of] = mutation[told.of]
      BY <1>0, <1>3, <2>2 DEF Where, TypeOK
    <3>2. UNCHANGED <<table, kind, told, pc, given, made, result>> /\ pc \notin {"after", "returned"}
      BY <1>3, <2>2 DEF Where, rows, chain
    <3> QED
      BY <3>1, <3>2, SameIds
  <2> QED
    BY <2>1, <2>2
<1>4. ASSUME NEW m \in Mutations, Make(m) PROVE IdsInv'
  <2>1. told.asked => told.of # m /\ told.of \in Mutations
    BY <1>0, <1>4 DEF Make, IdsInv, TypeOK
  <2>2. told.asked => mutation'[told.of] = mutation[told.of]
    BY <1>4, <2>1, MakeType
  <2>3. /\ UNCHANGED <<table, kind, told, pc, given, result>> /\ pc \notin {"after", "returned"}
        /\ made \subseteq made'
    BY <1>4 DEF Make
  <2> QED
    BY <2>2, <2>3, SameIds
<1>5. ASSUME NEW m \in Mutations, OldField(m) PROVE IdsInv'
  BY <1>5, SameIds DEF OldField, AskedOld, rows, chain
<1>6. ASSUME NEW m \in Mutations, IDs(m) PROVE IdsInv'
  <2>1. /\ pc' = "before" /\ m \in made' \cup {Own} /\ told'.of = m
        /\ UNCHANGED <<table, mutation>>
    BY <1>6, HeldType DEF IDs, Told, rows, chain
  <2>2. Promise(mutation[m])'
    BY <1>6, <2>1 DEF IDs, Told, Promise, Matching, One
  <2> QED
    BY <2>1, <2>2 DEF IdsInv
<1>7. CASE Save
  BY <1>7, EnterIds DEF Save, IdsInv
<1>8. ASSUME NEW m \in Mutations, CallNext(m) PROVE IdsInv'
  BY <1>8, EnterIds DEF CallNext
<1>9. CASE Refuse
  <2>1. hook - 1 \in 0 .. HookCount
    BY <1>0, <1>9, HookAssumption DEF Refuse, HookInv
  <2> QED
    BY <1>0, <1>9, <2>1, LeaveIds DEF Refuse, Untouched
<1>10. CASE Return
  <2>1. hook - 1 \in 0 .. HookCount
    BY <1>0, <1>10, HookAssumption DEF Return, HookInv
  <2>2. PICK r \in {result, Nothing} : Leave(hook - 1, r)
    BY <1>10 DEF Return
  <2>3. UNCHANGED <<kind, told, given, made, mutation>>
    BY <1>10 DEF Return, Untouched
  <2>4. told.asked /\ r.ok /\ Applies' => Kept(r)
    BY <1>0, <1>10, <2>2, <2>3 DEF Return, IdsInv, Applies, Final
  <2> QED
    BY <1>0, <1>10, <2>1, <2>2, <2>3, <2>4, LeaveIds DEF Return
<1>11. CASE Execute \/ ExecuteFails
  <2>1. /\ UNCHANGED <<kind, told, given, made>> /\ HookCount \in 0 .. HookCount /\ pc = "exec"
    BY <1>11, HookAssumption DEF Execute, ExecuteFails
  <2>2. CASE Leave(HookCount, Nothing)
    BY <1>0, <2>1, <2>2, LeaveIds
  <2>3. CASE Touch(mutation[Final], Selected(mutation[Final]))
             /\ (kind = "UpdateOne" => Selected(mutation[Final]) # {})
    <3> DEFINE u == mutation[Final]
               r == [ok |-> TRUE, touched |-> Selected(u)]
    <3>1. Selected(u) \subseteq Ids
      BY DEF Selected, Matching
    <3>2. Leave(HookCount, r) /\ r \in Results /\ r.touched = Selected(u)
      BY <2>3, <3>1 DEF Touch, Results
    <3>3. /\ Final' = Final /\ Final \in Mutations /\ mutation'[Final].op = u.op
      <4>1. Final' = Final
        BY <2>1 DEF Final
      <4> QED
        BY <1>0, <2>3, <4>1, OverwrittenType DEF Touch
    <3> HIDE DEF r, u
    <3>4. told.asked /\ Applies' => Kept(r)
      <4> SUFFICES ASSUME told.asked, Applies' PROVE Kept(r)
        OBVIOUS
      <4>1. told.of = Final /\ u.op = kind
        BY <2>1, <3>3 DEF Applies
      <4>2. Promise(u)
        BY <2>1, <4>1 DEF IdsInv, u
      <4> QED
        BY <2>3, <3>2, <4>1, <4>2, SelectedKept DEF u
    <3> QED
      BY <2>1, <3>2, <3>4, LeaveIds
  <2> QED
    BY <1>11, <2>2, <2>3 DEF Execute, ExecuteFails
<1>12. CASE UNCHANGED vars
  BY <1>12, SameIds DEF vars, rows, chain
<1> QED
  BY <1>1, <1>2, <1>3, <1>4, <1>5, <1>6, <1>7, <1>8, <1>9, <1>10, <1>11, <1>12 DEF Next

(* The ids a hook is told before the statement are the ones it touches,    *)
(* but for the rows that a Traverser hid from the query, as long as that   *)
(* mutation is the one that gets to the statement, with its predicates as  *)
(* they were, and nobody else writes (mutation.go:123-126).                *)
THEOREM AlwaysIdsWillBeTouched == Spec => []IdsWillBeTouched
<1>1. IdsInv => IdsWillBeTouched
  BY DEF IdsInv, IdsWillBeTouched, Applies
<1>2. Init => IdsInv
  BY Constants DEF Init, IdsInv
<1>3. Spec => [](Typed /\ IdsInv)
  BY InitTyped, NextTyped, NextIds, <1>2, PTL DEF Spec
<1> QED
  BY <1>1, <1>3, PTL
=============================================================================
