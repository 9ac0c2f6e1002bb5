--------------------------- MODULE ExampleLifecycle ---------------------------
(***************************************************************************)
(* The life of the example program around the admin: each instance opens   *)
(* the SQLite file, creates the schema, seeds an empty table, builds the   *)
(* handler and listens; any step may fail, which ends the instance, and an *)
(* instance may be killed at any point and started again.  The file stays. *)
(***************************************************************************)
EXTENDS Integers, FiniteSets

CONSTANTS Instances,      \* processes started on the same database file
          Titles,         \* the books Seed inserts
          MaxOwn,         \* bound on the application's own books
          OutsideWriter   \* something else than a listening instance writes books

ASSUME TitlesAssumption == IsFiniteSet(Titles) /\ Titles # {}
ASSUME BoundAssumption == MaxOwn \in Nat /\ OutsideWriter \in BOOLEAN

VARIABLES schema,   \* the books table exists
          copies,   \* how many rows there are of each seeded title
          own,      \* how many of the application's own rows
          pruned,   \* the application has deleted a seeded row
          pc,       \* what each instance has done so far
          found     \* the count its Seed has read

vars == <<schema, copies, own, pruned, pc, found>>

(* The rows of the seeded titles, each told apart by its copy.             *)
SeededRows == UNION {{t} \X (1 .. copies[t]) : t \in Titles}
Total == own + Cardinality(SeededRows)

Init ==
  /\ schema = FALSE
  /\ copies = [t \in Titles |-> 0]
  /\ own = 0
  /\ pruned = FALSE
  /\ pc = [i \in Instances |-> "off"]
  /\ found = [i \in Instances |-> 0]

Goto(i, from, to) == pc[i] = from /\ pc' = [pc EXCEPT ![i] = to]

(* Open: the client is made, nothing is written yet.                       *)
Open(i) ==
  /\ Goto(i, "off", "opened")
  /\ found' = [found EXCEPT ![i] = 0]
  /\ UNCHANGED <<schema, copies, own, pruned>>

CreateSchema(i) ==
  /\ Goto(i, "opened", "migrated")
  /\ schema' = TRUE
  /\ UNCHANGED <<copies, own, pruned, found>>

(* A mutant of CountBooks: its error is ignored, and with it comes a 0.    *)
CountBooksErrorIgnored(i) ==
  /\ Goto(i, "migrated", "counted")
  /\ \E n \in {0, Total} : found' = [found EXCEPT ![i] = n]
  /\ UNCHANGED <<schema, copies, own, pruned>>

(* A mutant of CountBooks: the seeded books are taken to be there.         *)
CountBooksBeyondSeed(i) ==
  /\ Goto(i, "migrated", "counted")
  /\ found' = [found EXCEPT ![i] = Total - Cardinality(Titles)]
  /\ UNCHANGED <<schema, copies, own, pruned>>

(* Seed: the books are counted and, by a later statement, inserted.        *)
CountBooks(i) ==
  /\ Goto(i, "migrated", "counted")
  /\ found' = [found EXCEPT ![i] = Total]
  /\ UNCHANGED <<schema, copies, own, pruned>>

SkipSeed(i) ==
  /\ found[i] > 0
  /\ Goto(i, "counted", "seeded")
  /\ UNCHANGED <<schema, copies, own, pruned, found>>

(* A mutant of InsertSeed: a statement per book, of which one may fail.    *)
InsertSeedOneByOne(i) ==
  /\ found[i] = 0
  /\ \E done \in SUBSET Titles :
       /\ Goto(i, "counted", IF done = Titles THEN "seeded" ELSE "off")
       /\ copies' = [t \in Titles |-> copies[t] + (IF t \in done THEN 1 ELSE 0)]
  /\ UNCHANGED <<schema, own, pruned, found>>

(* One INSERT of all of them: all or none.                                 *)
InsertSeed(i) ==
  /\ found[i] = 0
  /\ Goto(i, "counted", "seeded")
  /\ copies' = [t \in Titles |-> copies[t] + 1]
  /\ UNCHANGED <<schema, own, pruned, found>>

(* NewHandler and ListenAndServe.                                          *)
Listen(i) ==
  /\ Goto(i, "seeded", "listening")
  /\ UNCHANGED <<schema, copies, own, pruned, found>>

(* Any of the steps returns an error, or the instance is killed: log.Fatal *)
(* or the end of main.                                                     *)
Stop(i) ==
  /\ pc[i] # "off"
  /\ pc' = [pc EXCEPT ![i] = "off"]
  /\ UNCHANGED <<schema, copies, own, pruned, found>>

(* The application's own writes.                                           *)
MayWrite == schema /\ (OutsideWriter \/ \E i \in Instances : pc[i] = "listening")

AddBook ==
  /\ MayWrite /\ own < MaxOwn
  /\ own' = own + 1
  /\ UNCHANGED <<schema, copies, pruned, pc, found>>

DeleteBook ==
  /\ MayWrite
  /\ \/ own > 0 /\ own' = own - 1 /\ UNCHANGED <<copies, pruned>>
     \/ /\ \E t \in Titles : copies[t] > 0 /\ copies' = [copies EXCEPT ![t] = @ - 1]
        /\ pruned' = TRUE /\ UNCHANGED own
  /\ UNCHANGED <<schema, pc, found>>

Start(i) == CreateSchema(i) \/ CountBooks(i) \/ SkipSeed(i) \/ InsertSeed(i) \/ Listen(i)

Next == AddBook \/ DeleteBook \/ \E i \in Instances : Open(i) \/ Start(i) \/ Stop(i)

Spec == Init /\ [][Next]_vars

-----------------------------------------------------------------------------

TypeOK ==
  /\ schema \in BOOLEAN /\ pruned \in BOOLEAN
  /\ copies \in [Titles -> Nat]
  /\ own \in 0 .. MaxOwn
  /\ pc \in [Instances -> {"off", "opened", "migrated", "counted", "seeded", "listening"}]
  /\ found \in [Instances -> Nat]

(* Restarting the example does not duplicate records (example/app.go:32),  *)
(* however often it was killed while it started and whatever the           *)
(* application has deleted in between.                                     *)
NoDuplicates == \A t \in Titles : copies[t] <= 1

(* A start that was cut short never leaves some of the seeded books        *)
(* without the others: with no deletion they are all there or none is.     *)
NeverHalfSeeded == ~pruned => \A t, u \in Titles : copies[t] = copies[u]

(* Seed inserts when the database is empty (example/app.go:31), so never   *)
(* next to records that are already there.                                 *)
SeedOnlyIntoEmpty ==
  [][\A t \in Titles : copies'[t] > copies[t] => Total = 0]_vars
=============================================================================
