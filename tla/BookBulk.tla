------------------------------- MODULE BookBulk -------------------------------
(***************************************************************************)
(* BookCreateBulk.Save: the builders' mutators are chained, each one's     *)
(* hooks around the next one's mutator, with one INSERT of all rows in the *)
(* middle.  Level by level the chain is                                    *)
(*                                                                         *)
(*   hooks of builder 1, base 1, hooks of builder 2, base 2, ..., INSERT   *)
(*                                                                         *)
(* and it is then left in the opposite order.  The hooks are the client's, *)
(* the same for every builder.  A hook calls its next mutator at most once *)
(* and until then may set and reset fields of the mutation it got, or hand *)
(* on another one instead.                                                 *)
(***************************************************************************)
EXTENDS Integers

CONSTANTS Builders,     \* how many builders there are
          HookCount     \* how many hooks each of them has

ASSUME SizeAssumption == Builders \in Nat \ {0} /\ HookCount \in Nat

VARIABLES
  complete,  \* the builders whose mutation has all required fields
  other,     \* what has been handed on in its place, at the present builder
  spec,      \* the builders whose specs[i] has been made
  bad,       \* those of them made from a mutation without all required fields
  inserted,  \* the builders whose row is in the table
  ids,       \* the builders whose mutation has an id
  done,      \* those whose mutation is done
  pc,        \* entering or leaving the chain
  level,     \* which level of it
  ok,        \* no error so far
  late,      \* a hook has failed when its next mutator had succeeded
  answered   \* a hook has returned a book without calling its next mutator

vars == <<complete, other, spec, bad, inserted, ids, done, pc, level, ok, late, answered>>

All == 1 .. Builders
Depth == HookCount + 1                  \* levels of one builder
Levels == 1 .. Builders * Depth
BuilderAt(n) == 1 + ((n - 1) \div Depth)
IsHook(n) == n % Depth # 0

Init ==
  /\ complete \in SUBSET All /\ other = "no"
  /\ spec = {} /\ bad = {} /\ inserted = {} /\ ids = {} /\ done = {}
  /\ pc = "enter" /\ level = 1 /\ ok = TRUE /\ late = FALSE /\ answered = FALSE

Descend == pc' = "enter" /\ level' = level + 1
Ascend(n, good) ==
  /\ pc' = IF n = 0 THEN "returned" ELSE "leave"
  /\ level' = n /\ ok' = good
mutations == <<complete, other>>
rows == <<spec, bad, inserted, ids, done>>

-----------------------------------------------------------------------------
(* The hooks.                                                              *)

(* The hook changes the mutation it got, or hands on another.              *)
CallNext ==
  /\ pc = "enter" /\ IsHook(level)
  /\ \/ /\ other = "no" /\ UNCHANGED other
        /\ \E c \in SUBSET {BuilderAt(level)} : complete' = (complete \ {BuilderAt(level)}) \cup c
     \/ other' \in {"complete", "incomplete"} /\ UNCHANGED complete
  /\ Descend
  /\ UNCHANGED <<rows, ok, late, answered>>

Refuse ==
  /\ pc = "enter" /\ IsHook(level)
  /\ Ascend(level - 1, FALSE)
  /\ UNCHANGED <<mutations, rows, late, answered>>

Answer ==
  /\ pc = "enter" /\ IsHook(level)
  /\ Ascend(level - 1, TRUE)
  /\ answered' = TRUE
  /\ UNCHANGED <<mutations, rows, late>>

Return ==
  /\ pc = "leave" /\ IsHook(level)
  /\ \E good \in {ok, FALSE} : Ascend(level - 1, good) /\ late' = (late \/ (ok /\ ~good))
  /\ UNCHANGED <<mutations, rows, answered>>

-----------------------------------------------------------------------------
(* The base mutator of each builder.                                       *)

AtBase == ~IsHook(level)

CheckFails ==
  /\ pc = "enter" /\ AtBase /\ BuilderAt(level) \notin complete
  /\ Ascend(level - 1, FALSE)
  /\ UNCHANGED <<mutations, rows, late, answered>>

(* createSpec, from what was handed on; check has looked at the builder's  *)
(* own mutation.                                                           *)
HandedComplete == IF other = "no" THEN BuilderAt(level) \in complete ELSE other = "complete"
Made == /\ spec' = spec \cup {BuilderAt(level)}
        /\ bad' = IF HandedComplete THEN bad ELSE bad \cup {BuilderAt(level)}

(* A mutant of CreateSpec: the last builder is sent on as well.            *)
CreateSpecLastToo ==
  /\ pc = "enter" /\ AtBase /\ BuilderAt(level) \in complete
  /\ Made /\ Descend /\ other' = "no"
  /\ UNCHANGED <<complete, inserted, ids, done, ok, late, answered>>

(* check passes, createSpec, and on to the next builder's mutator.         *)
CreateSpec ==
  /\ pc = "enter" /\ AtBase /\ BuilderAt(level) \in complete
  /\ BuilderAt(level) < Builders
  /\ Made /\ Descend /\ other' = "no"
  /\ UNCHANGED <<complete, inserted, ids, done, ok, late, answered>>

Identify(b) == ids' = ids \cup {b} /\ done' = done \cup {b}

(* A mutant of BatchCreate: a statement per row, of which one may fail.    *)
BatchCreateRowByRow ==
  /\ pc = "enter" /\ level = Builders * Depth /\ Builders \in complete
  /\ Made
  /\ \E S \in SUBSET spec' :
       /\ inserted' = S
       /\ IF S = spec' THEN Identify(Builders) ELSE UNCHANGED <<ids, done>>
       /\ Ascend(level - 1, S = spec')
  /\ UNCHANGED <<mutations, late, answered>>

(* A mutant of BatchCreate: a column may be NULL.                          *)
BatchCreateNullable ==
  /\ pc = "enter" /\ level = Builders * Depth /\ Builders \in complete
  /\ Made
  /\ \/ inserted' = spec' /\ Identify(Builders) /\ Ascend(level - 1, TRUE)
     \/ Ascend(level - 1, FALSE) /\ UNCHANGED <<inserted, ids, done>>
  /\ UNCHANGED <<mutations, late, answered>>

(* The last one: one INSERT of all specs, all of it or none.  No column of *)
(* the table may be NULL (migrate/schema.go).                              *)
BatchCreate ==
  /\ pc = "enter" /\ level = Builders * Depth /\ Builders \in complete
  /\ Made
  /\ \/ bad' = {} /\ inserted' = spec' /\ Identify(Builders) /\ Ascend(level - 1, TRUE)
     \/ Ascend(level - 1, FALSE) /\ UNCHANGED <<inserted, ids, done>>
  /\ UNCHANGED <<mutations, late, answered>>

(* A mutant of Leave: the error of the next builder's mutator is ignored.  *)
LeaveIgnoringError ==
  /\ pc = "leave" /\ AtBase
  /\ Identify(BuilderAt(level))
  /\ Ascend(level - 1, TRUE)
  /\ UNCHANGED <<mutations, spec, bad, inserted, late, answered>>

(* Back from the next builder's mutator: an error is passed on, otherwise  *)
(* the mutation gets its id.                                               *)
Leave ==
  /\ pc = "leave" /\ AtBase
  /\ IF ok THEN Identify(BuilderAt(level)) ELSE UNCHANGED <<ids, done>>
  /\ Ascend(level - 1, ok)
  /\ UNCHANGED <<mutations, spec, bad, inserted, late, answered>>

Next == \/ CallNext \/ Refuse \/ Answer \/ Return
        \/ CheckFails \/ CreateSpec \/ BatchCreate \/ Leave

Spec == Init /\ [][Next]_vars

-----------------------------------------------------------------------------

TypeOK ==
  /\ other \in {"no", "complete", "incomplete"} /\ complete \subseteq All /\ spec \subseteq All /\ bad \subseteq All
  /\ inserted \subseteq All /\ ids \subseteq All /\ done \subseteq All
  /\ pc \in {"enter", "leave", "returned"} /\ level \in Levels \cup {0}
  /\ ok \in BOOLEAN /\ late \in BOOLEAN /\ answered \in BOOLEAN

(* A book without its required fields is never in the table.  That check   *)
(* finds them missing is not enough: it looks at the builder's mutation,   *)
(* and the spec is made from the one that was handed on                    *)
(* (book_create.go:147-152); the columns that are NOT NULL see to the rest.*)
OnlyComplete == inserted \cap bad = {}

(* All the books are created or none, and if Save reports an error none    *)
(* is, unless a hook turned a success into that error.                     *)
AllOrNothing ==
  /\ inserted \in {{}, All}
  /\ pc = "returned" /\ ~ok /\ ~late => inserted = {}

(* Save creates the Book entities in the database (book_create.go:131) if   *)
(* it reports no error.  A hook that answers by itself does so for the     *)
(* whole batch, since the INSERT is in the innermost mutator: Save then    *)
(* returns books that are not there.                                       *)
SaveCreates == pc = "returned" /\ ok /\ ~answered => inserted = All

(* The ID of a mutation is only available if it was provided to the builder *)
(* or after it was returned from the database (mutation.go:114-115), and a *)
(* mutation is done when its row is there; with the same exception.        *)
IdsFromDatabase == ~answered => ids \cup done \subseteq inserted
=============================================================================
