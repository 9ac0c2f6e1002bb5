--------------------------- MODULE BookBulkProofs ---------------------------
(***************************************************************************)
(* Proofs about BookBulk, for any number of builders and of hooks.         *)
(***************************************************************************)
EXTENDS BookBulk, TLAPS

-----------------------------------------------------------------------------
(* The levels of the chain: a level is a builder and a place among its     *)
(* hooks and its base mutator.                                             *)

LEMMA Sizes == /\ Builders \in Nat /\ Builders >= 1
               /\ Depth \in Nat /\ Depth >= 1
BY SizeAssumption DEF Depth

(* Two integers that differ, differ by a whole multiple of d.              *)
LEMMA Apart ==
  ASSUME NEW d \in Nat, NEW q \in Int, NEW r \in Int, q + 1 <= r
  PROVE  q * d + d <= r * d
<1>1. PICK k \in Nat : r = q + 1 + k
  <2>1. r - q - 1 \in Nat /\ r = q + 1 + (r - q - 1)
    OBVIOUS
  <2> QED
    BY <2>1
<1>2. r * d = q * d + d + k * d
  BY <1>1
<1>3. k * d \in Nat
  BY <1>1
<1> QED
  BY <1>2, <1>3

(* Division with remainder, and that there is only one.                    *)
LEMMA Division ==
  ASSUME NEW n \in Nat, NEW d \in Nat, d >= 1
  PROVE  /\ n \div d \in Nat /\ n % d \in 0 .. (d - 1)
         /\ n = (n \div d) * d + (n % d)
OBVIOUS

LEMMA OneQuotient ==
  ASSUME NEW d \in Nat, NEW q \in Int, NEW r \in Int, NEW i \in 0 .. (d - 1), NEW j \in 0 .. (d - 1),
         q * d + i = r * d + j
  PROVE  q = r /\ i = j
<1>1. ~(q + 1 <= r)
  BY Apart
<1>2. ~(r + 1 <= q)
  BY Apart
<1>3. q = r
  BY <1>1, <1>2
<1> QED
  BY <1>3

LEMMA Quotient ==
  ASSUME NEW n \in Nat, NEW d \in Nat, NEW q \in Int, NEW i \in 0 .. (d - 1), n = q * d + i
  PROVE  n \div d = q /\ n % d = i
<1> DEFINE r == n \div d
           j == n % d
<1>1. r \in Int /\ j \in 0 .. (d - 1) /\ n = r * d + j
  BY Division
<1> HIDE DEF r, j
<1>2. q * d + i = r * d + j
  BY <1>1
<1>3. q = r /\ i = j
  BY <1>1, <1>2, OneQuotient
<1> QED
  BY <1>3 DEF r, j

LEMMA Multiple ==
  ASSUME NEW d \in Nat, d >= 1, NEW q \in Int, q * d \in Nat
  PROVE  (q * d) % d = 0
<1> DEFINE k == 0
           n == q * d
<1>1. n \in Nat /\ k \in 0 .. (d - 1) /\ n = q * d + k
  OBVIOUS
<1> HIDE DEF k, n
<1>2. n % d = k
  BY <1>1, Quotient
<1> QED
  BY <1>2 DEF k, n

(* The builder of a level is found from its place below the builder's base.*)
LEMMA PlaceOf ==
  ASSUME NEW n \in Int, NEW c \in Nat, NEW i \in 1 .. Depth, n = c * Depth + i
  PROVE  n >= 1 /\ BuilderAt(n) = c + 1 /\ (IsHook(n) <=> i < Depth)
<1>1. c * Depth \in Nat /\ n - 1 \in Nat /\ n \in Nat /\ n >= 1
  BY Sizes
<1>2. BuilderAt(n) = c + 1
  <2> DEFINE m == n - 1
             k == i - 1
  <2>1. m \in Nat /\ k \in 0 .. (Depth - 1) /\ m = c * Depth + k
    BY <1>1, Sizes
  <2> HIDE DEF m, k
  <2>2. m \div Depth = c
    BY <2>1, Sizes, Quotient
  <2> QED
    BY <2>2 DEF BuilderAt, m
<1>3. CASE i < Depth
  <2>1. i \in 0 .. (Depth - 1)
    BY <1>3, Sizes
  <2>2. n % Depth = i
    BY <2>1, <1>1, Sizes, Quotient
  <2> QED
    BY <1>1, <1>2, <1>3, <2>2 DEF IsHook
<1>4. CASE ~(i < Depth)
  <2> DEFINE q == c + 1
  <2>1. q \in Int /\ n = q * Depth
    BY <1>4, Sizes
  <2> HIDE DEF q
  <2>2. (q * Depth) % Depth = 0
    BY <2>1, <1>1, Sizes, Multiple
  <2>3. n % Depth = 0
    BY <2>1, <2>2
  <2> QED
    BY <1>1, <1>2, <1>4, <2>3 DEF IsHook
<1> QED
  BY <1>3, <1>4

(* Every level has such a place.                                           *)
LEMMA HasPlace ==
  ASSUME NEW n \in Levels
  PROVE  /\ BuilderAt(n) \in All
         /\ \E i \in 1 .. Depth : n = (BuilderAt(n) - 1) * Depth + i
<1> DEFINE q == (n - 1) \div Depth
           i == (n - 1) % Depth
<1>1. n \in Nat /\ n - 1 \in Nat /\ n <= Builders * Depth
  BY Sizes DEF Levels
<1>2. q \in Nat /\ i \in 0 .. (Depth - 1) /\ n - 1 = q * Depth + i
  BY <1>1, Sizes, Division
<1>3. BuilderAt(n) = q + 1 /\ BuilderAt(n) - 1 = q
  BY <1>2 DEF BuilderAt
<1>4. q < Builders
  <2>1. SUFFICES ASSUME ~(q < Builders) PROVE FALSE
    OBVIOUS
  <2> HIDE DEF q, i
  <2>2. q = Builders \/ Builders + 1 <= q
    BY <2>1, <1>2, Sizes
  <2>3. Builders * Depth <= q * Depth
    BY <2>2, <1>2, Sizes, Apart
  <2> QED
    BY <2>3, <1>1, <1>2, Sizes
<1> HIDE DEF q, i
<1>5. n = q * Depth + (i + 1) /\ i + 1 \in 1 .. Depth
  BY <1>1, <1>2, Sizes
<1> QED
  BY <1>2, <1>3, <1>4, <1>5, Sizes DEF All

(* Where the chain goes on: from a hook to the same builder's next level,  *)
(* from a base mutator to the next builder's first.                        *)
LEMMA NextLevel ==
  ASSUME NEW n \in Levels
  PROVE  /\ IsHook(n) => n + 1 \in Levels /\ BuilderAt(n + 1) = BuilderAt(n)
         /\ ~IsHook(n) /\ BuilderAt(n) < Builders => n + 1 \in Levels /\ BuilderAt(n + 1) = BuilderAt(n) + 1
<1> DEFINE c == BuilderAt(n) - 1
<1>1. PICK i \in 1 .. Depth : n = c * Depth + i
  BY HasPlace
<1>2. c \in Nat /\ BuilderAt(n) = c + 1 /\ c + 1 <= Builders /\ n \in Nat
  BY HasPlace, Sizes DEF All, Levels
<1> HIDE DEF c
<1>3. c * Depth \in Nat /\ c * Depth + Depth <= Builders * Depth /\ Builders * Depth \in Nat
  BY <1>2, Sizes, Apart
<1>4. n >= 1 /\ (IsHook(n) <=> i < Depth)
  BY <1>1, <1>2, PlaceOf
<1>5. ASSUME IsHook(n)
      PROVE  n + 1 \in Levels /\ BuilderAt(n + 1) = BuilderAt(n)
  <2> DEFINE k == i + 1
             m == n + 1
  <2>1. k \in 1 .. Depth /\ m \in Int /\ m = c * Depth + k
    BY <1>1, <1>2, <1>4, <1>5, Sizes
  <2>2. m <= Builders * Depth /\ m >= 1
    BY <1>3, <1>4, <2>1, Sizes
  <2> HIDE DEF k, m
  <2>3. BuilderAt(m) = c + 1
    BY <2>1, <1>2, PlaceOf
  <2> QED
    BY <1>2, <2>1, <2>2, <2>3, Sizes DEF m, Levels
<1>6. ASSUME ~IsHook(n), BuilderAt(n) < Builders
      PROVE  n + 1 \in Levels /\ BuilderAt(n + 1) = BuilderAt(n) + 1
  <2> DEFINE k == 1
             m == n + 1
             d == c + 1
  <2>1. k \in 1 .. Depth /\ m \in Int /\ d \in Nat /\ m = d * Depth + k
    BY <1>1, <1>2, <1>4, <1>6, Sizes
  <2>2. d + 1 <= Builders
    BY <1>2, <1>6, Sizes
  <2> HIDE DEF k, m, d
  <2>3. BuilderAt(m) = d + 1 /\ m >= 1
    BY <2>1, PlaceOf
  <2>4. d * Depth + Depth <= Builders * Depth /\ d * Depth \in Nat
    BY <2>1, <2>2, Sizes, Apart
  <2>5. m \in Levels
    BY <1>3, <2>1, <2>3, <2>4, Sizes DEF Levels
  <2> QED
    BY <1>2, <2>3, <2>5 DEF m, d
<1> QED
  BY <1>5, <1>6

(* The chain starts at the first builder, and its innermost mutator is the *)
(* last one's.                                                             *)
LEMMA Ends ==
  /\ 1 \in Levels /\ BuilderAt(1) = 1
  /\ Builders * Depth \in Levels /\ BuilderAt(Builders * Depth) = Builders
<1>1. Builders * Depth >= 1 /\ Builders * Depth \in Nat
  <2> DEFINE z == 0
  <2>1. z \in Int /\ z + 1 <= Builders /\ z * Depth = 0
    BY Sizes
  <2> HIDE DEF z
  <2>2. z * Depth + Depth <= Builders * Depth
    BY <2>1, Sizes, Apart
  <2> QED
    BY <2>1, <2>2, Sizes
<1>2. BuilderAt(1) = 1
  <2> DEFINE c == 0
             k == 1
             m == 1
  <2>1. c \in Nat /\ k \in 1 .. Depth /\ m \in Int /\ m = c * Depth + k
    BY Sizes
  <2> HIDE DEF c, k, m
  <2>2. BuilderAt(m) = c + 1
    BY <2>1, PlaceOf
  <2> QED
    BY <2>2 DEF c, m
<1>3. BuilderAt(Builders * Depth) = Builders
  <2> DEFINE c == Builders - 1
             k == Depth
             m == Builders * Depth
  <2>1. c \in Nat /\ k \in 1 .. Depth /\ m \in Int /\ m = c * Depth + k
    BY Sizes
  <2> HIDE DEF c, k, m
  <2>2. BuilderAt(m) = c + 1
    BY <2>1, PlaceOf
  <2> QED
    BY <2>2, Sizes DEF c, m
<1> QED
  BY <1>1, <1>2, <1>3 DEF Levels

-----------------------------------------------------------------------------
(* The invariant.                                                          *)

(* On the way in nothing has failed and nothing is in the table: there is  *)
(* a spec of every builder before the present one, and of no other.        *)
EnterInv ==
  pc = "enter" =>
    /\ level \in Levels /\ ok /\ ~late /\ ~answered
    /\ spec = {b \in All : b < BuilderAt(level)} /\ bad \subseteq spec
    /\ inserted = {} /\ ids = {} /\ done = {}

(* On the way out the rows are there or not, all of them, and the result   *)
(* of a mutator says which, as far as no hook has taken part in it.        *)
LeaveInv ==
  pc # "enter" =>
    /\ level \in Levels \cup {0} /\ (level = 0 <=> pc = "returned")
    /\ inserted = {} \/ (inserted = All /\ bad = {})
    /\ ok /\ ~answered => inserted = All
    /\ ~ok /\ ~late => inserted = {}
    /\ ~answered => ids \cup done \subseteq inserted

IInv == TypeOK /\ EnterInv /\ LeaveInv

LEMMA InitIInv == Init => IInv
<1> SUFFICES ASSUME Init PROVE IInv
  OBVIOUS
<1>1. {b \in All : b < BuilderAt(level)} = {}
  BY Ends, Sizes DEF Init, All
<1> QED
  BY <1>1, Ends DEF Init, IInv, TypeOK, EnterInv, LeaveInv

(* What leaving a mutator with a result makes of the place in the chain.   *)
LEMMA AscendPlace ==
  ASSUME level \in Levels, NEW good \in BOOLEAN, Ascend(level - 1, good)
  PROVE  /\ pc' \in {"leave", "returned"} /\ level' \in Levels \cup {0} /\ ok' = good
         /\ level' = 0 <=> pc' = "returned"
<1>1. level \in Nat /\ level <= Builders * Depth /\ Builders * Depth \in Nat
  BY Sizes DEF Levels
<1> QED
  BY <1>1 DEF Ascend, Levels

LEMMA CallNextKept == ASSUME IInv, CallNext PROVE IInv'
<1>1. /\ level \in Levels /\ IsHook(level) /\ pc = "enter" /\ pc' = "enter" /\ level' = level + 1
      /\ UNCHANGED <<spec, bad, inserted, ids, done, ok, late, answered>>
  BY DEF CallNext, Descend, IInv, EnterInv, rows
<1>2. level' \in Levels /\ BuilderAt(level') = BuilderAt(level) /\ BuilderAt(level) \in All
  BY <1>1, NextLevel, HasPlace
<1>3. complete' \subseteq All /\ other' \in {"no", "complete", "incomplete"}
  BY <1>2 DEF CallNext, IInv, TypeOK
<1>4. TypeOK'
  BY <1>1, <1>2, <1>3 DEF IInv, TypeOK
<1>5. EnterInv' /\ LeaveInv'
  BY <1>1, <1>2 DEF IInv, EnterInv, LeaveInv
<1> QED
  BY <1>4, <1>5 DEF IInv

(* Going back at a hook or at the check: nothing has been inserted yet.    *)
LEMMA RefuseKept == ASSUME IInv, Refuse \/ Answer \/ CheckFails PROVE IInv'
<1>1. /\ level \in Levels /\ pc = "enter" /\ UNCHANGED <<complete, other, spec, bad, inserted, ids, done, late>>
      /\ \/ Ascend(level - 1, FALSE) /\ answered' = answered
         \/ Ascend(level - 1, TRUE) /\ answered' = TRUE
  BY DEF Refuse, Answer, CheckFails, IInv, EnterInv, rows, mutations
<1>2. /\ pc' \in {"leave", "returned"} /\ level' \in Levels \cup {0} /\ (level' = 0 <=> pc' = "returned")
      /\ (~ok' /\ answered' = answered) \/ (ok' /\ answered')
  BY <1>1, AscendPlace
<1>3. ok' \in BOOLEAN /\ answered' \in BOOLEAN
  BY <1>1 DEF Ascend, IInv, TypeOK
<1>4. TypeOK'
  BY <1>1, <1>2, <1>3 DEF IInv, TypeOK
<1>5. EnterInv' /\ LeaveInv'
  BY <1>1, <1>2 DEF IInv, EnterInv, LeaveInv
<1> QED
  BY <1>4, <1>5 DEF IInv

LEMMA ReturnKept == ASSUME IInv, Return PROVE IInv'
<1>1. PICK good \in {ok, FALSE} : Ascend(level - 1, good) /\ late' = (late \/ (ok /\ ~good))
  BY DEF Return
<1>2. /\ level \in Levels /\ pc = "leave" /\ good \in BOOLEAN
      /\ UNCHANGED <<complete, other, spec, bad, inserted, ids, done, answered>>
  BY <1>1 DEF Return, IInv, TypeOK, LeaveInv, rows, mutations
<1>3. pc' \in {"leave", "returned"} /\ level' \in Levels \cup {0} /\ (level' = 0 <=> pc' = "returned") /\ ok' = good
  BY <1>1, <1>2, AscendPlace
<1>4. TypeOK'
  BY <1>1, <1>2, <1>3 DEF IInv, TypeOK
<1>5. EnterInv' /\ LeaveInv'
  BY <1>1, <1>2, <1>3 DEF IInv, EnterInv, LeaveInv
<1> QED
  BY <1>4, <1>5 DEF IInv

(* The spec of the present builder joins those of the ones before it.      *)
LEMMA MadeSpecs ==
  ASSUME IInv, pc = "enter", Made
  PROVE  /\ spec' = {b \in All : b < BuilderAt(level) + 1} /\ bad' \subseteq spec'
         /\ spec' \subseteq All
<1>1. BuilderAt(level) \in All /\ spec = {b \in All : b < BuilderAt(level)} /\ bad \subseteq spec
  BY HasPlace DEF IInv, EnterInv
<1>2. BuilderAt(level) \in Int /\ All \subseteq Int
  BY <1>1, Sizes DEF All
<1>3. spec' = {b \in All : b < BuilderAt(level) + 1}
  <2> DEFINE m == BuilderAt(level)
  <2>1. spec' = {b \in All : b < m} \cup {m} /\ m \in Int /\ m \in All
    BY <1>1, <1>2 DEF Made
  <2> HIDE DEF m
  <2>2. \A b \in All : b < m + 1 <=> (b < m \/ b = m)
    BY <1>2, <2>1
  <2>3. {b \in All : b < m} \cup {m} = {b \in All : b < m + 1}
    BY <2>1, <2>2
  <2> QED
    BY <2>1, <2>3 DEF m
<1> QED
  BY <1>1, <1>3 DEF Made

LEMMA CreateSpecKept == ASSUME IInv, CreateSpec PROVE IInv'
<1>1. /\ level \in Levels /\ ~IsHook(level) /\ BuilderAt(level) < Builders /\ Made /\ pc = "enter"
      /\ pc' = "enter" /\ level' = level + 1 /\ other' = "no"
      /\ UNCHANGED <<complete, inserted, ids, done, ok, late, answered>>
  BY DEF CreateSpec, AtBase, Descend, IInv, EnterInv
<1>2. level' \in Levels /\ BuilderAt(level') = BuilderAt(level) + 1
  BY <1>1, NextLevel
<1>3. spec' = {b \in All : b < BuilderAt(level')} /\ bad' \subseteq spec' /\ spec' \subseteq All
  BY <1>1, <1>2, MadeSpecs
<1>4. TypeOK'
  BY <1>1, <1>2, <1>3 DEF IInv, TypeOK
<1>5. EnterInv' /\ LeaveInv'
  BY <1>1, <1>2, <1>3 DEF IInv, EnterInv, LeaveInv
<1> QED
  BY <1>4, <1>5 DEF IInv

(* The statement has a row of every builder.                               *)
LEMMA BatchCreateKept == ASSUME IInv, BatchCreate PROVE IInv'
<1>1. /\ pc = "enter" /\ level \in Levels /\ level = Builders * Depth /\ Made
      /\ inserted = {} /\ ids = {} /\ done = {} /\ ~late /\ ~answered
      /\ UNCHANGED <<complete, other, late, answered>>
  BY DEF BatchCreate, IInv, EnterInv, mutations
<1>2. spec' = All /\ bad' \subseteq All /\ Builders \in All
  <2>1. BuilderAt(level) = Builders
    BY <1>1, Ends
  <2>2. spec' = {b \in All : b < Builders + 1} /\ bad' \subseteq spec'
    BY <1>1, <2>1, MadeSpecs
  <2> QED
    BY <2>2, Sizes DEF All
<1>3. CASE bad' = {} /\ inserted' = spec' /\ Identify(Builders) /\ Ascend(level - 1, TRUE)
  <2>1. pc' \in {"leave", "returned"} /\ level' \in Levels \cup {0} /\ (level' = 0 <=> pc' = "returned") /\ ok' = TRUE
    BY <1>1, <1>3, AscendPlace
  <2>2. ids' = {Builders} /\ done' = {Builders} /\ inserted' = All
    BY <1>1, <1>2, <1>3 DEF Identify
  <2> QED
    BY <1>1, <1>2, <1>3, <2>1, <2>2 DEF IInv, TypeOK, EnterInv, LeaveInv
<1>4. CASE Ascend(level - 1, FALSE) /\ UNCHANGED <<inserted, ids, done>>
  <2>1. pc' \in {"leave", "returned"} /\ level' \in Levels \cup {0} /\ (level' = 0 <=> pc' = "returned") /\ ok' = FALSE
    BY <1>1, <1>4, AscendPlace
  <2> QED
    BY <1>1, <1>2, <1>4, <2>1 DEF IInv, TypeOK, EnterInv, LeaveInv
<1> QED
  BY <1>3, <1>4 DEF BatchCreate

LEMMA LeaveKept == ASSUME IInv, Leave PROVE IInv'
<1>1. /\ level \in Levels /\ pc = "leave" /\ Ascend(level - 1, ok) /\ ok \in BOOLEAN
      /\ UNCHANGED <<complete, other, spec, bad, inserted, late, answered>>
  BY DEF Leave, IInv, TypeOK, LeaveInv, mutations
<1>2. pc' \in {"leave", "returned"} /\ level' \in Levels \cup {0} /\ (level' = 0 <=> pc' = "returned") /\ ok' = ok
  BY <1>1, AscendPlace
<1>3. BuilderAt(level) \in All
  BY <1>1, HasPlace
<1>4. \/ ok /\ ids' = ids \cup {BuilderAt(level)} /\ done' = done \cup {BuilderAt(level)}
      \/ ~ok /\ ids' = ids /\ done' = done
  BY DEF Leave, Identify
<1>5. TypeOK'
  BY <1>1, <1>2, <1>3, <1>4 DEF IInv, TypeOK
<1>6. EnterInv' /\ LeaveInv'
  BY <1>1, <1>2, <1>3, <1>4 DEF IInv, EnterInv, LeaveInv
<1> QED
  BY <1>5, <1>6 DEF IInv

LEMMA NextIInv == IInv /\ [Next]_vars => IInv'
<1> SUFFICES ASSUME IInv, [Next]_vars PROVE IInv'
  OBVIOUS
<1>1. CASE UNCHANGED vars
  BY <1>1 DEF vars, IInv, TypeOK, EnterInv, LeaveInv
<1> QED
  BY <1>1, CallNextKept, RefuseKept, ReturnKept, CreateSpecKept, BatchCreateKept, LeaveKept DEF Next

LEMMA Inductive == Spec => []IInv
BY InitIInv, NextIInv, PTL DEF Spec

-----------------------------------------------------------------------------
(* The theorems.                                                           *)

(* The variables keep their types: a level of the chain is always one of a *)
(* builder's (BookCreateBulk.Save never indexes past its builders).        *)
THEOREM Typing == Spec => []TypeOK
<1>1. IInv => TypeOK
  BY DEF IInv
<1> QED
  BY <1>1, Inductive, PTL

(* No row is inserted from a mutation that lacks a required field, however *)
(* the hooks replace mutations after check has looked at them.             *)
THEOREM CompleteRows == Spec => []OnlyComplete
<1>1. IInv => OnlyComplete
  BY DEF IInv, TypeOK, EnterInv, LeaveInv, OnlyComplete
<1> QED
  BY <1>1, Inductive, PTL

(* One INSERT in the innermost mutator: whatever the hooks of whichever    *)
(* builders do, all books are created or none, and none if Save reports an *)
(* error that was there before the statement.                              *)
THEOREM WholeBatch == Spec => []AllOrNothing
<1>1. IInv => AllOrNothing
  BY DEF IInv, TypeOK, EnterInv, LeaveInv, AllOrNothing
<1> QED
  BY <1>1, Inductive, PTL

(* Save returns no books that are not in the table, unless a hook answered *)
(* by itself.                                                              *)
THEOREM SavedIsThere == Spec => []SaveCreates
<1>1. IInv => SaveCreates
  BY DEF IInv, TypeOK, EnterInv, LeaveInv, SaveCreates
<1> QED
  BY <1>1, Inductive, PTL

(* A mutation has the id of a row and counts as done only when its row is  *)
(* in the table, with the same exception.                                  *)
THEOREM IdsOfRows == Spec => []IdsFromDatabase
<1>1. IInv => IdsFromDatabase
  BY DEF IInv, TypeOK, EnterInv, LeaveInv, IdsFromDatabase
<1> QED
  BY <1>1, Inductive, PTL
=============================================================================
