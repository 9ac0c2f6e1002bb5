----------------------------- MODULE ReadService -----------------------------
(***************************************************************************)
(* What the admin handler promises, with everything about HOW left out.    *)
(*                                                                         *)
(* The host owns a table and changes it whenever it likes; the admin never *)
(* does.  A question is settled in one instant against the table of that   *)
(* instant: every row of the answer comes from the same table, a row that  *)
(* is there is found, one that is not is reported as not found.  Of a      *)
(* settled answer the client is then shown every cell, with sensitive      *)
(* fields redacted; only if the request was cancelled may some of them be  *)
(* missing.                                                                *)
(*                                                                         *)
(* AdminApp implements this specification (property Implements there).     *)
(***************************************************************************)
EXTENDS Integers, FiniteSets

CONSTANTS Requests,   \* the requests that can be in progress at once
          Ids,        \* primary keys of the one entity's rows
          Fields,     \* its fields, the primary key excluded
          Sensitive,  \* those declared Sensitive in the schema
          Values,     \* what a field can hold
          Redacted,   \* what is shown for a sensitive field
          NoRow,      \* table[i] when there is no row i
          Queries,    \* the questions clients ask
          PageSize    \* the most rows a list shows

VARIABLES table,      \* the host's table
          phase,      \* where each request is
          query,      \* what it asks
          cancelled,  \* its context was cancelled, or its client has gone
          answer,     \* its settled answer
          shown       \* the cells its client was sent

vars == <<table, phase, query, cancelled, answer, shown>>

Rows == [Fields -> Values]
Present == {i \in Ids : table[i] # NoRow}

(* A row as the outside may see it. *)
Visible(row) == [f \in Fields |-> IF f \in Sensitive THEN Redacted ELSE row[f]]
VisibleRows(S) == [i \in S |-> Visible(table[i])]
Bare(status) == [status |-> status, rows |-> VisibleRows({})]
Listing(S) == [status |-> 200, rows |-> VisibleRows(S)]

(* Every row fits on the page, or as many rows as it holds.  The rows left *)
(* out are not specified: List asks for no order.                          *)
Page(S) ==
  /\ S \subseteq Present
  /\ IF Cardinality(Present) <= PageSize THEN S = Present ELSE Cardinality(S) = PageSize

(* The answers that the question q may get right now: the path is looked   *)
(* up before the method is looked at.                                      *)
Answers(q) ==
  IF q.target = "unknown" THEN {Bare(404)}
  ELSE IF q.method \notin {"GET", "HEAD"} THEN {Bare(405)}
  ELSE CASE q.target = "list"   -> {Listing(S) : S \in {T \in SUBSET Ids : Page(T)}}
         [] q.target = "detail" -> IF q.id \in Present THEN {Listing({q.id})} ELSE {Bare(404)}
         [] OTHER               -> {Bare(200)}
Promised(q) == {Bare(403), Bare(500)} \cup Answers(q)

Cells(rows) == {[id |-> i, field |-> f, text |-> rows[i][f]] : i \in DOMAIN rows, f \in Fields}

Unsettled == Bare(0)

Init ==
  /\ table \in [Ids -> Rows \cup {NoRow}]
  /\ phase = [r \in Requests |-> "idle"]
  /\ query \in [Requests -> Queries]
  /\ cancelled = [r \in Requests |-> FALSE]
  /\ answer = [r \in Requests |-> Unsettled]
  /\ shown = [r \in Requests |-> {}]

HostWrites ==
  /\ \E i \in Ids, v \in Rows \cup {NoRow} : table' = [table EXCEPT ![i] = v]
  /\ UNCHANGED <<phase, query, cancelled, answer, shown>>

Ask(r) ==
  /\ phase[r] = "idle"
  /\ phase' = [phase EXCEPT ![r] = "asked"]
  /\ \E q \in Queries : query' = [query EXCEPT ![r] = q]
  /\ UNCHANGED <<table, cancelled, answer, shown>>

Cancel(r) ==
  /\ phase[r] \in {"asked", "settled"}
  /\ cancelled' = [cancelled EXCEPT ![r] = TRUE]
  /\ UNCHANGED <<table, phase, query, answer, shown>>

Settle(r) ==
  /\ phase[r] = "asked"
  /\ phase' = [phase EXCEPT ![r] = "settled"]
  /\ \E a \in Promised(query[r]) : answer' = [answer EXCEPT ![r] = a]
  /\ UNCHANGED <<table, query, cancelled, shown>>

Show(r) ==
  /\ phase[r] = "settled"
  /\ phase' = [phase EXCEPT ![r] = "shown"]
  /\ \E C \in SUBSET Cells(answer[r].rows) :
       /\ cancelled[r] \/ C = Cells(answer[r].rows)
       /\ shown' = [shown EXCEPT ![r] = C]
  /\ UNCHANGED <<table, query, cancelled, answer>>

Forget(r) ==
  /\ phase[r] = "shown"
  /\ phase' = [phase EXCEPT ![r] = "idle"]
  /\ cancelled' = [cancelled EXCEPT ![r] = FALSE]
  /\ answer' = [answer EXCEPT ![r] = Unsettled]
  /\ shown' = [shown EXCEPT ![r] = {}]
  /\ UNCHANGED <<table, query>>

Next ==
  \/ HostWrites
  \/ \E r \in Requests : Ask(r) \/ Cancel(r) \/ Settle(r) \/ Show(r) \/ Forget(r)

Spec == Init /\ [][Next]_vars
=============================================================================
