------------------------ MODULE ExampleLifecycleProofs ------------------------
(***************************************************************************)
(* Proofs about ExampleLifecycle.  A start that is cut short leaves none   *)
(* of the seeded books without the others, whatever else uses the file;    *)
(* that a restart does not duplicate them takes that no one else does.     *)
(***************************************************************************)
EXTENDS ExampleLifecycle, FiniteSetTheorems, FunctionTheorems, TLAPS

-----------------------------------------------------------------------------
(* Counting rows.                                                          *)

Counts == copies \in [Titles -> Nat] /\ own \in 0 .. MaxOwn

LEMMA SeededRowsFinite ==
  ASSUME copies \in [Titles -> Nat]
  PROVE  IsFiniteSet(SeededRows)
<1> DEFINE rows == [t \in Titles |-> {t} \X (1 .. copies[t])]
           All == {rows[t] : t \in Titles}
<1>1. IsFiniteSet(All)
  <2>1. rows \in Surjection(Titles, All)
    BY DEF Surjection
  <2> QED
    BY <2>1, TitlesAssumption, FS_Surjection
<1>2. \A S \in All : IsFiniteSet(S)
  <2> SUFFICES ASSUME NEW t \in Titles PROVE IsFiniteSet({t} \X (1 .. copies[t]))
    OBVIOUS
  <2>1. IsFiniteSet({t})
    BY FS_Singleton
  <2>2. IsFiniteSet(1 .. copies[t])
    <3>1. copies[t] \in Int /\ 1 \in Int
      OBVIOUS
    <3> QED
      BY <3>1, FS_Interval
  <2> QED
    BY <2>1, <2>2, FS_Product
<1>3. SeededRows = UNION All
  BY DEF SeededRows
<1> QED
  BY <1>1, <1>2, <1>3, FS_UNION

(* The count is 0 exactly if there is no row of any kind.                  *)
LEMMA TotalCounts ==
  ASSUME Counts
  PROVE  /\ Total \in Nat
         /\ Total = 0 <=> own = 0 /\ \A t \in Titles : copies[t] = 0
<1>1. IsFiniteSet(SeededRows) /\ own \in Nat
  BY SeededRowsFinite, BoundAssumption DEF Counts
<1>2. /\ Cardinality(SeededRows) \in Nat
      /\ Cardinality(SeededRows) = 0 <=> SeededRows = {}
  BY <1>1, FS_CardinalityType, FS_EmptySet
<1>3. SeededRows = {} <=> \A t \in Titles : copies[t] = 0
  <2>1. ASSUME NEW t \in Titles, copies[t] # 0 PROVE SeededRows # {}
    <3>1. 1 \in 1 .. copies[t]
      BY <2>1 DEF Counts
    <3>2. <<t, 1>> \in {t} \X (1 .. copies[t])
      BY <3>1
    <3> QED
      BY <3>2 DEF SeededRows
  <2>2. ASSUME \A t \in Titles : copies[t] = 0 PROVE SeededRows = {}
    <3>1. \A t \in Titles : {t} \X (1 .. copies[t]) = {}
      BY <2>2
    <3> QED
      BY <3>1 DEF SeededRows
  <2> QED
    BY <2>1, <2>2
<1> QED
  BY <1>1, <1>2, <1>3 DEF Total

-----------------------------------------------------------------------------
(* With any number of instances, and writers outside of them.              *)

(* As long as nothing was deleted, the titles are all seeded equally often.*)
AnyInv == TypeOK /\ NeverHalfSeeded

LEMMA InitAny == Init => AnyInv
<1> SUFFICES ASSUME Init PROVE AnyInv
  OBVIOUS
<1>1. copies \in [Titles -> Nat] /\ own \in 0 .. MaxOwn
  BY BoundAssumption DEF Init
<1> QED
  BY <1>1 DEF Init, AnyInv, TypeOK, NeverHalfSeeded

LEMMA NextAny == AnyInv /\ [Next]_vars => AnyInv'
<1> SUFFICES ASSUME AnyInv, [Next]_vars PROVE AnyInv'
  OBVIOUS
<1> USE DEF AnyInv
<1>0. Total \in Nat
  BY TotalCounts DEF Counts, TypeOK
<1>1. ASSUME NEW i \in Instances, Open(i) PROVE AnyInv'
  BY <1>1 DEF Open, Goto, TypeOK, NeverHalfSeeded
<1>2. ASSUME NEW i \in Instances, CreateSchema(i) PROVE AnyInv'
  BY <1>2 DEF CreateSchema, Goto, TypeOK, NeverHalfSeeded
<1>3. ASSUME NEW i \in Instances, CountBooks(i) PROVE AnyInv'
  BY <1>0, <1>3 DEF CountBooks, Goto, TypeOK, NeverHalfSeeded
<1>4. ASSUME NEW i \in Instances, SkipSeed(i) PROVE AnyInv'
  BY <1>4 DEF SkipSeed, Goto, TypeOK, NeverHalfSeeded
<1>5. ASSUME NEW i \in Instances, InsertSeed(i) PROVE AnyInv'
  <2>1. /\ copies' = [t \in Titles |-> copies[t] + 1] /\ UNCHANGED pruned
    BY <1>5 DEF InsertSeed
  <2>2. copies' \in [Titles -> Nat]
    BY <2>1 DEF TypeOK
  <2>3. NeverHalfSeeded'
    BY <2>1 DEF NeverHalfSeeded
  <2> QED
    BY <1>5, <2>2, <2>3 DEF InsertSeed, Goto, TypeOK
<1>6. ASSUME NEW i \in Instances, Listen(i) \/ Stop(i) PROVE AnyInv'
  BY <1>6 DEF Listen, Stop, Goto, TypeOK, NeverHalfSeeded
<1>7. CASE AddBook
  <2>1. own' \in 0 .. MaxOwn
    BY <1>7, BoundAssumption DEF AddBook, TypeOK
  <2> QED
    BY <1>7, <2>1 DEF AddBook, TypeOK, NeverHalfSeeded
<1>8. CASE DeleteBook
  <2>1. CASE own > 0 /\ own' = own - 1 /\ UNCHANGED <<copies, pruned>>
    <3>1. own' \in 0 .. MaxOwn
      BY <2>1, BoundAssumption DEF TypeOK
    <3> QED
      BY <1>8, <2>1, <3>1 DEF DeleteBook, TypeOK, NeverHalfSeeded
  <2>2. CASE /\ \E t \in Titles : copies[t] > 0 /\ copies' = [copies EXCEPT ![t] = copies[t] - 1]
             /\ pruned' = TRUE /\ UNCHANGED own
    <3>1. copies' \in [Titles -> Nat]
      BY <2>2 DEF TypeOK
    <3> QED
      BY <1>8, <2>2, <3>1 DEF DeleteBook, TypeOK, NeverHalfSeeded
  <2> QED
    BY <1>8, <2>1, <2>2 DEF DeleteBook
<1>9. CASE UNCHANGED vars
  BY <1>9 DEF vars, TypeOK, NeverHalfSeeded
<1> QED
  BY <1>1, <1>2, <1>3, <1>4, <1>5, <1>6, <1>7, <1>8, <1>9 DEF Next, Start

LEMMA AlwaysAny == Spec => []AnyInv
BY InitAny, NextAny, PTL DEF Spec

(* The type invariant: in particular the counts stay natural numbers.      *)
THEOREM TypeCorrect == Spec => []TypeOK
<1>1. AnyInv => TypeOK
  BY DEF AnyInv
<1> QED
  BY <1>1, AlwaysAny, PTL

(* Whatever number of instances start, stop and are killed on the file,    *)
(* and whoever else writes to it: the books that Seed inserts by one       *)
(* statement (example/app.go:45-64) are all there or none is, until one is *)
(* deleted.                                                                *)
THEOREM NeverHalf == Spec => []NeverHalfSeeded
<1>1. AnyInv => NeverHalfSeeded
  BY DEF AnyInv
<1> QED
  BY <1>1, AlwaysAny, PTL

-----------------------------------------------------------------------------
(* With the one instance that the example is meant to be, and no one else  *)
(* on its file.  Seed inserts by what it has counted earlier, which is     *)
(* right as long as the count has not become stale meanwhile.              *)

Alone == (\A i, j \in Instances : i = j) /\ ~OutsideWriter

CountIsFresh == \A i \in Instances : pc[i] = "counted" => found[i] = Total

AloneInv == AnyInv /\ CountIsFresh /\ NoDuplicates

LEMMA InitAlone == Init => AloneInv
BY InitAny DEF Init, AloneInv, CountIsFresh, NoDuplicates

(* An insertion finds the table empty.                                     *)
LEMMA InsertsIntoEmpty ==
  ASSUME AloneInv, NEW i \in Instances, InsertSeed(i)
  PROVE  Total = 0 /\ \A t \in Titles : copies[t] = 0
<1>1. found[i] = 0 /\ pc[i] = "counted"
  BY DEF InsertSeed, Goto
<1>2. Total = 0
  BY <1>1 DEF AloneInv, CountIsFresh
<1> QED
  BY <1>2, TotalCounts DEF AloneInv, AnyInv, TypeOK, Counts

(* Every other step leaves the copies as they are, or takes one away.      *)
LEMMA CopiesOnlyBySeed ==
  ASSUME TypeOK, [Next]_vars, \A i \in Instances : ~InsertSeed(i)
  PROVE  \A t \in Titles : copies'[t] <= copies[t]
<1>1. CASE UNCHANGED copies
  BY <1>1 DEF TypeOK
<1>2. CASE \E t \in Titles : copies[t] > 0 /\ copies' = [copies EXCEPT ![t] = copies[t] - 1]
  BY <1>2 DEF TypeOK
<1> QED
  BY <1>1, <1>2 DEF Next, Start, Open, CreateSchema, CountBooks, SkipSeed, Listen, Stop,
                    AddBook, DeleteBook, vars

(* Someone can only write while the instance listens, and then it is past  *)
(* its count; any other step of the instance leaves its count behind.      *)
LEMMA NextFresh == ASSUME Alone PROVE AloneInv /\ [Next]_vars => CountIsFresh'
<1> SUFFICES ASSUME AloneInv, [Next]_vars, NEW i \in Instances, pc'[i] = "counted"
             PROVE  found'[i] = Total'
  BY DEF CountIsFresh
<1> USE DEF AloneInv, AnyInv
<1>1. \A j \in Instances : j = i
  BY DEF Alone
<1>2. pc \in [Instances -> {"off", "opened", "migrated", "counted", "seeded", "listening"}]
      /\ found \in [Instances -> Nat]
  BY DEF TypeOK
<1>3. CASE CountBooks(i)
  <2>1. found'[i] = Total /\ UNCHANGED <<copies, own>>
    BY <1>2, <1>3 DEF CountBooks
  <2> QED
    BY <2>1 DEF Total, SeededRows
<1>4. CASE UNCHANGED vars
  BY <1>4 DEF vars, CountIsFresh, Total, SeededRows
<1>5. CASE AddBook \/ DeleteBook
  <2>1. MayWrite /\ pc' = pc
    BY <1>5 DEF AddBook, DeleteBook
  <2>2. PICK j \in Instances : pc[j] = "listening"
    BY <2>1 DEF MayWrite, Alone
  <2> QED
    BY <1>1, <2>1, <2>2
<1>6. CASE Open(i) \/ CreateSchema(i) \/ SkipSeed(i) \/ InsertSeed(i) \/ Listen(i) \/ Stop(i)
  BY <1>2, <1>6 DEF Open, CreateSchema, SkipSeed, InsertSeed, Listen, Stop, Goto
<1> QED
  BY <1>1, <1>3, <1>4, <1>5, <1>6 DEF Next, Start

LEMMA NextAlone == ASSUME Alone PROVE AloneInv /\ [Next]_vars => AloneInv'
<1> SUFFICES ASSUME AloneInv, [Next]_vars PROVE AloneInv'
  OBVIOUS
<1>1. AnyInv' /\ CountIsFresh'
  BY NextAny, NextFresh DEF AloneInv
<1>2. NoDuplicates'
  <2>1. ASSUME NEW i \in Instances, InsertSeed(i) PROVE NoDuplicates'
    <3>1. \A t \in Titles : copies[t] = 0
      BY <2>1, InsertsIntoEmpty
    <3>2. copies' = [t \in Titles |-> copies[t] + 1]
      BY <2>1 DEF InsertSeed
    <3> QED
      BY <3>1, <3>2 DEF NoDuplicates
  <2>2. ASSUME \A i \in Instances : ~InsertSeed(i) PROVE NoDuplicates'
    <3>1. \A t \in Titles : copies'[t] <= copies[t] /\ copies[t] <= 1
      BY <2>2, CopiesOnlyBySeed DEF AloneInv, AnyInv, NoDuplicates
    <3>2. \A t \in Titles : copies[t] \in Nat /\ copies'[t] \in Nat
      BY <1>1 DEF AloneInv, AnyInv, TypeOK
    <3> QED
      BY <3>1, <3>2 DEF NoDuplicates
  <2> QED
    BY <2>1, <2>2
<1> QED
  BY <1>1, <1>2 DEF AloneInv

LEMMA AlwaysAlone == ASSUME Alone PROVE Spec => []AloneInv
<1>1. AloneInv /\ [Next]_vars => AloneInv'
  BY NextAlone
<1> QED
  BY <1>1, InitAlone, PTL DEF Spec

(* One instance, restarted and killed as often as you like, with the       *)
(* application adding and deleting books in between: no seeded book is     *)
(* there twice (example/app.go:32-44).                                     *)
THEOREM NoneTwice == ASSUME Alone PROVE Spec => []NoDuplicates
<1>1. AloneInv => NoDuplicates
  BY DEF AloneInv
<1> QED
  BY <1>1, AlwaysAlone, PTL

(* And it only ever seeds an empty table.                                  *)
THEOREM SeedsEmpty == ASSUME Alone PROVE Spec => SeedOnlyIntoEmpty
<1>1. AloneInv /\ [Next]_vars => [\A t \in Titles : copies'[t] > copies[t] => Total = 0]_vars
  <2> SUFFICES ASSUME AloneInv, [Next]_vars, NEW t \in Titles, copies'[t] > copies[t]
               PROVE  Total = 0
    OBVIOUS
  <2>1. AnyInv'
    BY NextAny DEF AloneInv
  <2>2. copies[t] \in Nat /\ copies'[t] \in Nat
    BY <2>1 DEF AloneInv, AnyInv, TypeOK
  <2>3. PICK i \in Instances : InsertSeed(i)
    BY <2>2, CopiesOnlyBySeed DEF AloneInv, AnyInv
  <2> QED
    BY <2>3, InsertsIntoEmpty
<1> QED
  BY <1>1, AlwaysAlone, PTL DEF Spec, SeedOnlyIntoEmpty
=============================================================================
