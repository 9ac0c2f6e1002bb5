--------------------------- MODULE EntSlicesProofs ---------------------------
(***************************************************************************)
(* Proofs about EntSlices: with any number of builders, chains and queries *)
(* and arrays of any capacity, sharing and appending in place is never     *)
(* seen.  Every step of the slices is one of the lists of EntLists.  And   *)
(* hooks run in the order of the list, of whatever length, by induction    *)
(* over the set of the numbers of hooks that have been wrapped.            *)
(***************************************************************************)
EXTENDS EntSlices, SequenceTheorems, FiniteSetTheorems, WellFoundedInduction, TLAPS

-----------------------------------------------------------------------------
(* Slices: what is read through one before and after an append.            *)

Cells == Hooks \cup {Empty}
Arrays == UNION {[1 .. n -> Cells] : n \in 0 .. MaxCap}
Slices == [array : Nat, len : Nat]

LEMMA ArrayIsSeq ==
  ASSUME NEW a \in Arrays
  PROVE  a \in Seq(Cells) /\ Len(a) \in Nat /\ Len(a) <= MaxCap /\ DOMAIN a = 1 .. Len(a)
BY BoundsAssumption DEF Arrays

LEMMA SeqIsArray ==
  ASSUME NEW n \in Nat, n <= MaxCap, NEW a \in [1 .. n -> Cells]
  PROVE  a \in Arrays /\ Len(a) = n
BY BoundsAssumption DEF Arrays

LEMMA NilSlice ==
  ASSUME NEW hp \in Seq(Arrays)
  PROVE  Nil \in Slices /\ IsSlice(hp, Nil) /\ Elements(hp, Nil) = <<>> /\ Nil.array = 0 /\ Nil.len = 0
BY DEF Nil, Slices, IsSlice, Capacity, Elements

LEMMA ElementsAre ==
  ASSUME NEW hp \in Seq(Arrays), NEW s \in Slices, IsSlice(hp, s)
  PROVE  /\ Elements(hp, s) \in Seq(Cells) /\ Len(Elements(hp, s)) = s.len
         /\ s.array = 0 => s.len = 0
         /\ s.array # 0 => /\ s.array \in 1 .. Len(hp) /\ hp[s.array] \in Arrays
                           /\ s.len <= Len(hp[s.array])
         /\ \A i \in 1 .. s.len : Elements(hp, s)[i] = hp[s.array][i]
<1>1. s.array \in Nat /\ s.len \in Nat /\ Len(hp) \in Nat
  BY DEF Slices
<1>2. CASE s.array = 0
  BY <1>1, <1>2 DEF IsSlice, Capacity, Elements
<1>3. CASE s.array # 0
  <2>1. s.array \in 1 .. Len(hp)
    BY <1>1, <1>3 DEF IsSlice
  <2>2. hp[s.array] \in Arrays
    BY <2>1
  <2> DEFINE a == hp[s.array]
  <2>3. a \in Seq(Cells) /\ Len(a) \in Nat /\ s.len <= Len(a)
    BY <1>1, <1>3, <2>2, ArrayIsSeq DEF IsSlice, Capacity
  <2>4. Elements(hp, s) = SubSeq(a, 1, s.len)
    BY <1>3 DEF Elements
  <2> HIDE DEF a
  <2>5. SubSeq(a, 1, s.len) \in Seq(Cells) /\ Len(SubSeq(a, 1, s.len)) = s.len
        /\ \A i \in 1 .. s.len : SubSeq(a, 1, s.len)[i] = a[i]
    BY <1>1, <2>3
  <2> QED
    BY <1>3, <2>1, <2>2, <2>3, <2>4, <2>5 DEF a
<1> QED
  BY <1>2, <1>3

(* Two heaps that agree on what a slice covers agree on its elements.      *)
Agree(hp, hq, s) ==
  s.array # 0 => /\ s.array <= Len(hq) /\ s.len <= Len(hq[s.array])
                 /\ \A i \in 1 .. s.len : hq[s.array][i] = hp[s.array][i]

LEMMA SameElements ==
  ASSUME NEW hp \in Seq(Arrays), NEW hq \in Seq(Arrays), NEW s \in Slices, IsSlice(hp, s),
         Agree(hp, hq, s)
  PROVE  IsSlice(hq, s) /\ Elements(hq, s) = Elements(hp, s)
<1>1. s.array \in Nat /\ s.len \in Nat /\ Len(hp) \in Nat /\ Len(hq) \in Nat
  BY DEF Slices
<1>2. IsSlice(hq, s)
  <2>1. CASE s.array = 0
    BY <1>1, <2>1, ElementsAre DEF IsSlice, Capacity
  <2>2. CASE s.array # 0
    BY <1>1, <2>2 DEF IsSlice, Capacity, Agree
  <2> QED
    BY <2>1, <2>2
<1>3. /\ Elements(hq, s) \in Seq(Cells) /\ Len(Elements(hq, s)) = s.len
      /\ Elements(hp, s) \in Seq(Cells) /\ Len(Elements(hp, s)) = s.len
  BY <1>2, ElementsAre
<1>4. \A i \in 1 .. s.len : Elements(hq, s)[i] = Elements(hp, s)[i]
  <2> TAKE i \in 1 .. s.len
  <2>1. s.array # 0
    BY <1>1, ElementsAre
  <2> QED
    BY <1>2, <2>1, ElementsAre DEF Agree
<1> QED
  BY <1>2, <1>3, <1>4, SeqEqual

(* What hq has that hp has not: the list in array a behind cell at.        *)
Written(hp, hq, a, at, list) ==
  /\ hq \in Seq(Arrays) /\ Len(hq) = Len(hp)
  /\ \A b \in 1 .. Len(hp) : b # a => hq[b] = hp[b]
  /\ Len(hq[a]) = Len(hp[a])
  /\ \A i \in 1 .. Len(hp[a]) :
       hq[a][i] = IF i \in at + 1 .. at + Len(list) THEN list[i - at] ELSE hp[a][i]

LEMMA WriteCells ==
  ASSUME NEW hp \in Seq(Arrays), NEW a \in 1 .. Len(hp), NEW at \in Nat,
         NEW list \in Seq(Cells), at + Len(list) <= Len(hp[a])
  PROVE  Written(hp, Write(hp, a, at, list), a, at, list)
<1> DEFINE n == Len(hp[a])
           cell(i) == IF i \in at + 1 .. at + Len(list) THEN list[i - at] ELSE hp[a][i]
           new == [i \in 1 .. n |-> cell(i)]
<1>1. hp[a] \in Seq(Cells) /\ n \in Nat /\ n <= MaxCap /\ DOMAIN hp[a] = 1 .. n
  BY ArrayIsSeq
<1>2. \A i \in 1 .. n : cell(i) \in Cells
  <2> TAKE i \in 1 .. n
  <2>1. CASE i \in at + 1 .. at + Len(list)
    <3>1. i - at \in 1 .. Len(list)
      BY <2>1
    <3> QED
      BY <2>1, <3>1
  <2>2. CASE i \notin at + 1 .. at + Len(list)
    BY <1>1, <2>2
  <2> QED
    BY <2>1, <2>2
<1>3. Write(hp, a, at, list) = [hp EXCEPT ![a] = new]
  BY <1>1 DEF Write
<1>4. \A i \in 1 .. n : new[i] = cell(i)
  OBVIOUS
<1> HIDE DEF cell
<1>5. new \in [1 .. n -> Cells]
  BY <1>2
<1>6. new \in Arrays /\ Len(new) = n
  BY <1>1, <1>5, SeqIsArray
<1> HIDE DEF new, n
<1>7. /\ [hp EXCEPT ![a] = new] \in Seq(Arrays) /\ Len([hp EXCEPT ![a] = new]) = Len(hp)
      /\ [hp EXCEPT ![a] = new][a] = new
      /\ \A b \in 1 .. Len(hp) : b # a => [hp EXCEPT ![a] = new][b] = hp[b]
  BY <1>6
<1> QED
  BY <1>3, <1>4, <1>6, <1>7 DEF cell, n, Written

(* What an append may result in, in place or in a new array; Chain.Append  *)
(* always makes the array.                                                 *)
Appended(hp, s, list) == AppendTo(hp, s, list) \cup Allocate(hp, Elements(hp, s) \o list)

(* Of what a slice u covers an append through s may touch nothing.         *)
Beside(s, u) == u.array = 0 \/ u.array # s.array \/ u.len <= s.len

LEMMA Concatenated ==
  ASSUME NEW hp \in Seq(Arrays), NEW s \in Slices, IsSlice(hp, s), NEW list \in Seq(Cells)
  PROVE  /\ Elements(hp, s) \o list \in Seq(Cells)
         /\ Len(Elements(hp, s) \o list) = s.len + Len(list)
         /\ \A i \in 1 .. s.len : (Elements(hp, s) \o list)[i] = Elements(hp, s)[i]
         /\ \A i \in s.len + 1 .. s.len + Len(list) : (Elements(hp, s) \o list)[i] = list[i - s.len]
<1>1. Elements(hp, s) \in Seq(Cells) /\ Len(Elements(hp, s)) = s.len
  BY ElementsAre
<1>2. s.len \in Nat /\ Len(list) \in Nat
  BY DEF Slices
<1> DEFINE first == Elements(hp, s)
<1> HIDE DEF first
<1>3. /\ first \o list \in Seq(Cells) /\ Len(first \o list) = Len(first) + Len(list)
      /\ \A i \in 1 .. Len(first) + Len(list) :
           (first \o list)[i] = IF i <= Len(first) THEN first[i] ELSE list[i - Len(first)]
  BY <1>1, ConcatProperties DEF first
<1>4. Len(first) = s.len
  BY <1>1 DEF first
<1>5. /\ \A i \in 1 .. s.len : (first \o list)[i] = first[i]
      /\ \A i \in s.len + 1 .. s.len + Len(list) : (first \o list)[i] = list[i - s.len]
  BY <1>2, <1>3, <1>4
<1> QED
  BY <1>3, <1>4, <1>5 DEF first

LEMMA Allocated ==
  ASSUME NEW hp \in Seq(Arrays), NEW list \in Seq(Cells), Len(list) <= MaxCap,
         NEW r \in Allocate(hp, list)
  PROVE  /\ r.heap \in Seq(Arrays) /\ Len(r.heap) = Len(hp) + 1
         /\ r.slice \in Slices /\ r.slice.array = Len(hp) + 1 /\ r.slice.len = Len(list)
         /\ IsSlice(r.heap, r.slice) /\ Elements(r.heap, r.slice) = list
         /\ \A u \in Slices : IsSlice(hp, u) =>
              IsSlice(r.heap, u) /\ Elements(r.heap, u) = Elements(hp, u)
<1>1. PICK cap \in Len(list) .. MaxCap :
        r = [heap  |-> Append(hp, [i \in 1 .. cap |-> IF i <= Len(list) THEN list[i] ELSE Empty]),
             slice |-> [array |-> Len(hp) + 1, len |-> Len(list)]]
  BY DEF Allocate
<1> DEFINE a == [i \in 1 .. cap |-> IF i <= Len(list) THEN list[i] ELSE Empty]
<1>2. cap \in Nat /\ cap <= MaxCap /\ Len(list) \in Nat /\ Len(list) <= cap /\ Len(hp) \in Nat
  BY BoundsAssumption
<1>3. a \in [1 .. cap -> Cells] /\ \A i \in 1 .. Len(list) : a[i] = list[i]
  <2>1. \A i \in 1 .. Len(list) : list[i] \in Cells /\ i \in 1 .. cap /\ i <= Len(list)
    BY <1>2
  <2>2. \A i \in 1 .. cap : i <= Len(list) => i \in 1 .. Len(list)
    BY <1>2
  <2>3. Empty \in Cells
    BY DEF Cells
  <2> QED
    BY <2>1, <2>2, <2>3
<1>4. r.heap = Append(hp, a) /\ r.slice = [array |-> Len(hp) + 1, len |-> Len(list)]
  BY <1>1
<1> HIDE DEF a
<1>5. a \in Arrays /\ Len(a) = cap
  BY <1>2, <1>3, SeqIsArray
<1>6. /\ r.heap \in Seq(Arrays) /\ Len(r.heap) = Len(hp) + 1 /\ r.heap[Len(hp) + 1] = a
      /\ \A b \in 1 .. Len(hp) : r.heap[b] = hp[b]
  BY <1>4, <1>5
<1>7. r.slice \in Slices /\ r.slice.array = Len(hp) + 1 /\ r.slice.len = Len(list)
  BY <1>2, <1>4 DEF Slices
<1>8. IsSlice(r.heap, r.slice)
  BY <1>2, <1>5, <1>6, <1>7 DEF IsSlice, Capacity
<1>9. Elements(r.heap, r.slice) = list
  <2>1. /\ Elements(r.heap, r.slice) \in Seq(Cells) /\ Len(Elements(r.heap, r.slice)) = Len(list)
        /\ \A i \in 1 .. Len(list) : Elements(r.heap, r.slice)[i] = a[i]
    BY <1>6, <1>7, <1>8, ElementsAre
  <2> QED
    BY <1>3, <2>1, SeqEqual
<1>10. ASSUME NEW u \in Slices, IsSlice(hp, u)
       PROVE  IsSlice(r.heap, u) /\ Elements(r.heap, u) = Elements(hp, u)
  <2>1. u.array # 0 => u.array \in 1 .. Len(hp) /\ u.len <= Len(hp[u.array])
    BY <1>10, ElementsAre
  <2>2. Agree(hp, r.heap, u)
    BY <1>2, <1>6, <1>10, <2>1, ElementsAre DEF Agree, Slices
  <2> QED
    BY <1>6, <1>10, <2>2, SameElements
<1> QED
  BY <1>6, <1>7, <1>8, <1>9, <1>10

(* The result of an append reads as the concatenation, and what lies       *)
(* beside it is left alone: its array is the old one or a new one.         *)
LEMMA AppendedReads ==
  ASSUME NEW hp \in Seq(Arrays), NEW s \in Slices, IsSlice(hp, s), NEW list \in Seq(Cells),
         s.len + Len(list) <= MaxCap, NEW r \in Appended(hp, s, list)
  PROVE  /\ r.heap \in Seq(Arrays) /\ Len(r.heap) <= Len(hp) + 1
         /\ r.slice \in Slices /\ r.slice.array \in {s.array, Len(hp) + 1}
         /\ r.slice.len = s.len + Len(list)
         /\ IsSlice(r.heap, r.slice) /\ Elements(r.heap, r.slice) = Elements(hp, s) \o list
         /\ \A u \in Slices : IsSlice(hp, u) /\ Beside(s, u) =>
              IsSlice(r.heap, u) /\ Elements(r.heap, u) = Elements(hp, u)
<1> DEFINE whole == Elements(hp, s) \o list
<1>1. /\ whole \in Seq(Cells) /\ Len(whole) = s.len + Len(list)
      /\ s.len \in Nat /\ s.array \in Nat /\ Len(list) \in Nat /\ Len(hp) \in Nat
  BY Concatenated DEF Slices
<1>2. CASE r \in Allocate(hp, whole)
  <2>1. whole \in Seq(Cells) /\ Len(whole) = s.len + Len(list) /\ Len(whole) <= MaxCap
    BY <1>1
  <2>2. r \in Allocate(hp, whole)
    BY <1>2
  <2> HIDE DEF whole
  <2>3. /\ r.heap \in Seq(Arrays) /\ Len(r.heap) = Len(hp) + 1
        /\ r.slice \in Slices /\ r.slice.array = Len(hp) + 1 /\ r.slice.len = Len(whole)
        /\ IsSlice(r.heap, r.slice) /\ Elements(r.heap, r.slice) = whole
        /\ \A u \in Slices : IsSlice(hp, u) =>
             IsSlice(r.heap, u) /\ Elements(r.heap, u) = Elements(hp, u)
    BY <2>1, <2>2, Allocated
  <2>4. Elements(r.heap, r.slice) = Elements(hp, s) \o list
    BY <2>3 DEF whole
  <2> QED
    BY <1>1, <2>1, <2>3, <2>4
<1>3. CASE r \notin Allocate(hp, whole)
  <2>1. /\ s.len + Len(list) <= Capacity(hp, s)
        /\ r = [heap  |-> IF list = <<>> THEN hp ELSE Write(hp, s.array, s.len, list),
                slice |-> [s EXCEPT !.len = s.len + Len(list)]]
    BY <1>3 DEF Appended, AppendTo
  <2>2. /\ r.slice = [s EXCEPT !.len = s.len + Len(list)]
        /\ r.heap = IF list = <<>> THEN hp ELSE Write(hp, s.array, s.len, list)
    BY <2>1
  <2>3. r.slice \in Slices /\ r.slice.array = s.array /\ r.slice.len = s.len + Len(list)
    BY <1>1, <2>2 DEF Slices
  <2>4. CASE list = <<>>
    <3>1. Len(list) = 0 /\ r.heap = hp /\ r.slice.len = s.len
      BY <1>1, <2>2, <2>3, <2>4
    <3>2. r.slice = s
      BY <2>3, <3>1 DEF Slices
    <3>3. Elements(hp, s) \o list = Elements(hp, s)
      <4>1. Elements(hp, s) \in Seq(Cells)
        BY ElementsAre
      <4> QED
        BY <2>4, <4>1
    <3> QED
      BY <1>1, <2>3, <3>1, <3>2, <3>3
  <2>5. CASE list # <<>>
    <3>1. Len(list) > 0 /\ s.array # 0
      <4>1. Len(list) # 0
        BY <2>5
      <4> QED
        BY <1>1, <2>1, <4>1 DEF Capacity
    <3>2. s.array \in 1 .. Len(hp) /\ s.len + Len(list) <= Len(hp[s.array])
      BY <2>1, <3>1, ElementsAre DEF Capacity
    <3>3. r.heap = Write(hp, s.array, s.len, list)
      BY <2>2, <2>5
    <3>4. /\ r.heap \in Seq(Arrays) /\ Len(r.heap) = Len(hp)
          /\ \A b \in 1 .. Len(hp) : b # s.array => r.heap[b] = hp[b]
          /\ Len(r.heap[s.array]) = Len(hp[s.array])
          /\ \A i \in 1 .. Len(hp[s.array]) : r.heap[s.array][i] =
               IF i \in s.len + 1 .. s.len + Len(list) THEN list[i - s.len] ELSE hp[s.array][i]
      <4>1. Written(hp, Write(hp, s.array, s.len, list), s.array, s.len, list)
        BY <1>1, <3>2, WriteCells
      <4> QED
        BY <3>3, <4>1 DEF Written
    <3>5. Len(hp[s.array]) \in Nat
      BY <3>2, ArrayIsSeq
    <3>6. IsSlice(r.heap, r.slice)
      BY <1>1, <2>3, <3>2, <3>4, <3>5 DEF IsSlice, Capacity
    <3>7. Elements(r.heap, r.slice) = whole
      <4>1. /\ Elements(r.heap, r.slice) \in Seq(Cells)
            /\ Len(Elements(r.heap, r.slice)) = s.len + Len(list)
            /\ \A i \in 1 .. s.len + Len(list) : Elements(r.heap, r.slice)[i] = r.heap[s.array][i]
        <5>1. r.heap \in Seq(Arrays) /\ r.slice \in Slices /\ IsSlice(r.heap, r.slice)
          BY <2>3, <3>4, <3>6
        <5>2. /\ Elements(r.heap, r.slice) \in Seq(Cells)
              /\ Len(Elements(r.heap, r.slice)) = r.slice.len
              /\ \A i \in 1 .. r.slice.len :
                   Elements(r.heap, r.slice)[i] = r.heap[r.slice.array][i]
          BY <5>1, ElementsAre
        <5> QED
          BY <2>3, <5>2
      <4>2. ASSUME NEW i \in 1 .. s.len + Len(list) PROVE r.heap[s.array][i] = whole[i]
        <5>1. i \in 1 .. Len(hp[s.array])
          BY <1>1, <3>2, <3>5
        <5>2. CASE i \in 1 .. s.len
          <6>1. whole[i] = Elements(hp, s)[i] /\ Elements(hp, s)[i] = hp[s.array][i]
            BY <5>2, Concatenated, ElementsAre
          <6> QED
            BY <1>1, <3>4, <5>1, <5>2, <6>1
        <5>3. CASE i \in s.len + 1 .. s.len + Len(list)
          <6>1. whole[i] = list[i - s.len]
            BY <5>3, Concatenated
          <6> QED
            BY <3>4, <5>1, <5>3, <6>1
        <5> QED
          BY <1>1, <5>2, <5>3
      <4> HIDE DEF whole
      <4> QED
        BY <1>1, <4>1, <4>2, SeqEqual
    <3>8. ASSUME NEW u \in Slices, IsSlice(hp, u), Beside(s, u)
          PROVE  IsSlice(r.heap, u) /\ Elements(r.heap, u) = Elements(hp, u)
      <4>1. /\ u.len \in Nat /\ u.array \in Nat
            /\ u.array # 0 => u.array \in 1 .. Len(hp) /\ u.len <= Len(hp[u.array])
        BY <3>8, ElementsAre DEF Slices
      <4>2. CASE u.array # s.array
        <5>1. u.array # 0 => u.array <= Len(r.heap) /\ r.heap[u.array] = hp[u.array]
          BY <1>1, <3>4, <4>1, <4>2
        <5>2. Agree(hp, r.heap, u)
          BY <4>1, <5>1 DEF Agree
        <5> QED
          BY <3>4, <3>8, <5>2, SameElements
      <4>3. CASE u.array = s.array
        <5>1. u.len <= s.len
          BY <3>1, <3>8, <4>3 DEF Beside
        <5>2. \A i \in 1 .. u.len : r.heap[s.array][i] = hp[s.array][i]
          <6> TAKE i \in 1 .. u.len
          <6>1. i \in 1 .. Len(hp[s.array]) /\ i \notin s.len + 1 .. s.len + Len(list)
            BY <1>1, <3>1, <3>5, <4>1, <4>3, <5>1
          <6> QED
            BY <3>4, <6>1
        <5>3. Agree(hp, r.heap, u)
          BY <1>1, <3>1, <3>4, <4>1, <4>3, <5>2 DEF Agree
        <5> QED
          BY <3>4, <3>8, <5>3, SameElements
      <4> QED
        BY <4>2, <4>3
    <3> QED
      BY <1>1, <2>3, <3>4, <3>6, <3>7, <3>8
  <2> QED
    BY <2>4, <2>5
<1> QED
  BY <1>2, <1>3

-----------------------------------------------------------------------------
(* Who shares an array with whom.                                          *)

(* Those that append to their slice or are given a new array: no two of    *)
(* them share one.  Builders and the App take over the slice of another,   *)
(* which may grow behind what they see of it.                              *)
Owners == {Client, Host} \cup Chains \cup Queries
GivenBy(h, o) == (h \in Builders /\ o = Client) \/ (h = App /\ o = Host)

Shared(h, o) == h # o /\ slice[h].array = slice[o].array /\ slice[h].array # 0

SharingInv == \A h \in Holders, o \in Owners :
                Shared(h, o) => GivenBy(h, o) /\ slice[h].len <= slice[o].len

MadeInv == made \subseteq Holders /\ Host \in made

HeapInv ==
  /\ heap \in Seq(Arrays) /\ Len(heap) <= MaxArrays
  /\ slice \in [Holders -> Slices] /\ \A h \in Holders : IsSlice(heap, slice[h])
  /\ MadeInv

HooksInv == \A h \in Holders : ListOf(h) \in Seq(Hooks)

IInv == HeapInv /\ SharingInv /\ HooksInv

LEMMA OwnersHold == /\ Owners \subseteq Holders
                    /\ \A o, p \in Owners : ~GivenBy(o, p)
BY HoldersAssumption DEF Owners, Holders, GivenBy

LEMMA HooksAreCells == Seq(Hooks) \subseteq Seq(Cells)
BY DEF Cells

LEMMA SliceOf ==
  ASSUME HeapInv, NEW h \in Holders
  PROVE  /\ slice[h] \in Slices /\ IsSlice(heap, slice[h])
         /\ slice[h].array \in Nat /\ slice[h].array <= Len(heap) /\ slice[h].len \in Nat
<1>1. slice[h] \in Slices /\ IsSlice(heap, slice[h])
  BY DEF HeapInv
<1> QED
  BY <1>1 DEF HeapInv, Slices, IsSlice

LEMMA ListsAre ==
  ASSUME IInv, NEW h \in Holders
  PROVE  ListOf(h) \in Seq(Hooks) /\ Len(ListOf(h)) = slice[h].len
<1>1. heap \in Seq(Arrays) /\ slice[h] \in Slices /\ IsSlice(heap, slice[h])
  BY SliceOf DEF IInv, HeapInv
<1>2. Len(Elements(heap, slice[h])) = slice[h].len
  BY <1>1, ElementsAre
<1> QED
  BY <1>2 DEF IInv, HooksInv, ListOf

LEMMA InitIInv == Init => IInv
<1> SUFFICES ASSUME Init PROVE IInv
  OBVIOUS
<1>1. heap = <<>> /\ heap \in Seq(Arrays) /\ Len(heap) = 0 /\ Len(heap) <= MaxArrays
  BY BoundsAssumption DEF Init
<1>2. Nil \in Slices /\ IsSlice(heap, Nil) /\ Elements(heap, Nil) = <<>> /\ Nil.array = 0
  BY <1>1, NilSlice
<1>3. \A h \in Holders : slice[h] = Nil
  BY DEF Init
<1>4. HeapInv
  BY <1>1, <1>2, <1>3 DEF Init, HeapInv, MadeInv, Holders
<1>5. SharingInv
  BY <1>2, <1>3 DEF SharingInv, Shared
<1>6. HooksInv
  <2>1. <<>> \in Seq(Hooks)
    OBVIOUS
  <2> QED
    BY <1>2, <1>3, <2>1 DEF HooksInv, ListOf
<1> QED
  BY <1>4, <1>5, <1>6 DEF IInv

-----------------------------------------------------------------------------
(* The steps.  An owner that is given a result of an append to its slice,  *)
(* or to nil, has a longer list, and no other list has changed.            *)

GetsAppended(o, s, list) ==
  /\ s \in {slice[o], Nil} /\ list \in Seq(Hooks)
  /\ s.len + Len(list) <= MaxCap /\ Len(heap) < MaxArrays
  /\ Put(o, Appended(heap, s, list))

OnlyList(o, list) == /\ ListOf(o)' = list
                     /\ \A h \in Holders : h # o => ListOf(h)' = ListOf(h)

LEMMA PutAppended ==
  ASSUME IInv, NEW o \in Owners, NEW s, NEW list, GetsAppended(o, s, list), MadeInv'
  PROVE  IInv' /\ OnlyList(o, Elements(heap, s) \o list)
<1> USE DEF IInv
<1>1. /\ heap \in Seq(Arrays) /\ Len(heap) \in Nat /\ Len(heap) < MaxArrays
      /\ o \in Holders /\ list \in Seq(Hooks) /\ list \in Seq(Cells)
      /\ slice \in [Holders -> Slices]
  BY OwnersHold, HooksAreCells DEF HeapInv, GetsAppended
<1>2. /\ s \in Slices /\ IsSlice(heap, s) /\ s.array \in {0, slice[o].array}
      /\ s.array # 0 => s = slice[o]
      /\ Elements(heap, s) \in Seq(Hooks)
  <2>1. slice[o] \in Slices /\ IsSlice(heap, slice[o]) /\ Elements(heap, slice[o]) \in Seq(Hooks)
    BY <1>1, SliceOf DEF HooksInv, ListOf
  <2>2. Nil \in Slices /\ IsSlice(heap, Nil) /\ Elements(heap, Nil) = <<>> /\ Nil.array = 0
    BY <1>1, NilSlice
  <2>3. <<>> \in Seq(Hooks)
    OBVIOUS
  <2> QED
    BY <2>1, <2>2, <2>3 DEF GetsAppended
<1>3. PICK r \in Appended(heap, s, list) :
        heap' = r.heap /\ slice' = [slice EXCEPT ![o] = r.slice]
  BY DEF GetsAppended, Put
<1>4. /\ r.heap \in Seq(Arrays) /\ Len(r.heap) <= Len(heap) + 1
      /\ r.slice \in Slices /\ r.slice.array \in {s.array, Len(heap) + 1}
      /\ r.slice.len = s.len + Len(list)
      /\ IsSlice(r.heap, r.slice) /\ Elements(r.heap, r.slice) = Elements(heap, s) \o list
      /\ \A u \in Slices : IsSlice(heap, u) /\ Beside(s, u) =>
           IsSlice(r.heap, u) /\ Elements(r.heap, u) = Elements(heap, u)
  <2>1. s.len + Len(list) <= MaxCap
    BY DEF GetsAppended
  <2> QED
    BY <1>1, <1>2, <2>1, AppendedReads
<1>5. slice'[o] = r.slice /\ \A h \in Holders : h # o => slice'[h] = slice[h]
  BY <1>1, <1>3
<1>6. \A h \in Holders : h # o => Beside(s, slice[h])
  <2> SUFFICES ASSUME NEW h \in Holders, h # o, slice[h].array = s.array, s.array # 0
               PROVE  slice[h].len <= s.len
    BY DEF Beside
  <2>1. s = slice[o] /\ Shared(h, o)
    BY <1>2 DEF Shared
  <2> QED
    BY <2>1 DEF SharingInv
<1>7. ASSUME NEW h \in Holders, h # o
      PROVE  IsSlice(heap', slice'[h]) /\ Elements(heap', slice'[h]) = Elements(heap, slice[h])
  <2>1. slice[h] \in Slices /\ IsSlice(heap, slice[h]) /\ Beside(s, slice[h])
    BY <1>6, <1>7, SliceOf
  <2> QED
    BY <1>3, <1>4, <1>5, <1>7, <2>1
<1>8. OnlyList(o, Elements(heap, s) \o list)
  BY <1>3, <1>4, <1>5, <1>7 DEF OnlyList, ListOf
<1>9. HeapInv'
  <2>1. Len(heap') <= MaxArrays
    BY <1>1, <1>3, <1>4, BoundsAssumption
  <2>2. slice' \in [Holders -> Slices]
    BY <1>1, <1>3, <1>4
  <2>3. \A h \in Holders : IsSlice(heap', slice'[h])
    BY <1>3, <1>4, <1>5, <1>7
  <2>4. heap' \in Seq(Arrays)
    BY <1>3, <1>4
  <2> QED
    BY <2>1, <2>2, <2>3, <2>4 DEF HeapInv, Holders
<1>10. HooksInv'
  <2>1. Elements(heap, s) \o list \in Seq(Hooks)
    BY <1>1, <1>2
  <2> QED
    BY <1>8, <2>1 DEF OnlyList, HooksInv
<1>11. SharingInv'
  <2> SUFFICES ASSUME NEW h \in Holders, NEW p \in Owners, Shared(h, p)'
               PROVE  GivenBy(h, p) /\ slice'[h].len <= slice'[p].len
    BY DEF SharingInv, GivenBy, Holders, Owners
  <2>1. h # p /\ slice'[h].array = slice'[p].array /\ slice'[h].array # 0 /\ p \in Holders
    BY OwnersHold DEF Shared
  <2>2. /\ slice[h].array <= Len(heap) /\ slice[p].array <= Len(heap)
        /\ slice[h].array \in Nat /\ slice[p].array \in Nat
        /\ slice[h].len \in Nat /\ slice[p].len \in Nat /\ s.len \in Nat /\ Len(list) \in Nat
    BY <1>1, <1>2, <2>1, SliceOf DEF Slices
  <2>3. CASE h # o /\ p # o
    BY <1>5, <2>1, <2>3 DEF SharingInv, Shared
  <2>4. CASE h = o
    <3>1. slice'[p] = slice[p] /\ r.slice.array = slice[p].array /\ slice[p].array # 0
      BY <1>5, <2>1, <2>4
    <3>2. slice[p].array = s.array
      BY <1>1, <1>4, <2>2, <3>1
    <3>3. Shared(o, p)
      BY <1>2, <2>1, <2>4, <3>1, <3>2 DEF Shared
    <3> QED
      BY <2>1, <3>3, OwnersHold DEF SharingInv
  <2>5. CASE p = o
    <3>1. slice'[h] = slice[h] /\ r.slice.array = slice[h].array /\ slice[h].array # 0
      BY <1>5, <2>1, <2>5
    <3>2. slice[h].array = s.array
      BY <1>1, <1>4, <2>2, <3>1
    <3>3. Shared(h, o) /\ s = slice[o]
      BY <1>2, <2>1, <2>5, <3>1, <3>2 DEF Shared
    <3>4. GivenBy(h, o) /\ slice[h].len <= slice[o].len
      BY <3>3 DEF SharingInv
    <3> QED
      BY <1>4, <1>5, <2>2, <2>5, <3>1, <3>3, <3>4
  <2> QED
    BY <2>3, <2>4, <2>5
<1> QED
  BY <1>8, <1>9, <1>10, <1>11

(* Builders and the App take over a slice; nothing is written.             *)
LEMMA ShareGiven ==
  ASSUME IInv, NEW h \in Holders \ Owners, NEW o \in Owners, GivenBy(h, o),
         Share(h, slice[o]), MadeInv'
  PROVE  IInv' /\ OnlyList(h, ListOf(o))
<1> USE DEF IInv
<1>1. /\ heap' = heap /\ slice' = [slice EXCEPT ![h] = slice[o]]
      /\ slice \in [Holders -> Slices] /\ o \in Holders /\ h # o
  BY OwnersHold DEF Share, HeapInv
<1>2. slice'[h] = slice[o] /\ \A g \in Holders : g # h => slice'[g] = slice[g]
  BY <1>1
<1>3. OnlyList(h, ListOf(o))
  BY <1>1, <1>2 DEF OnlyList, ListOf
<1>4. HeapInv'
  <2>1. slice' \in [Holders -> Slices]
    BY <1>1
  <2>2. \A g \in Holders : IsSlice(heap', slice'[g])
    BY <1>1, <1>2 DEF HeapInv
  <2> QED
    BY <1>1, <2>1, <2>2 DEF HeapInv, Holders
<1>5. HooksInv'
  BY <1>1, <1>3 DEF OnlyList, HooksInv
<1>6. SharingInv'
  <2> SUFFICES ASSUME NEW g \in Holders, NEW p \in Owners, Shared(g, p)'
               PROVE  GivenBy(g, p) /\ slice'[g].len <= slice'[p].len
    BY DEF SharingInv, GivenBy, Holders, Owners
  <2>1. slice'[p] = slice[p] /\ g # p /\ slice'[g].array = slice[p].array /\ slice'[g].array # 0
    BY <1>2, OwnersHold DEF Shared
  <2>2. CASE g # h
    BY <1>2, <2>1, <2>2 DEF SharingInv, Shared
  <2>3. CASE g = h /\ p = o
    <3>1. slice[o].len \in Nat
      BY <1>1, SliceOf
    <3> QED
      BY <1>2, <2>1, <2>3, <3>1
  <2>4. CASE g = h /\ p # o
    <3>1. Shared(o, p)
      BY <1>2, <2>1, <2>4 DEF Shared
    <3> QED
      BY <1>1, <3>1, OwnersHold DEF SharingInv
  <2> QED
    BY <2>2, <2>3, <2>4
<1> QED
  BY <1>3, <1>4, <1>5, <1>6

LEMMA ShareNil ==
  ASSUME IInv, NEW q \in Owners, Share(q, Nil), MadeInv'
  PROVE  IInv' /\ OnlyList(q, <<>>)
<1> USE DEF IInv
<1>1. /\ heap' = heap /\ heap \in Seq(Arrays) /\ slice' = [slice EXCEPT ![q] = Nil]
      /\ slice \in [Holders -> Slices] /\ q \in Holders
  BY OwnersHold DEF Share, HeapInv
<1>2. Nil \in Slices /\ IsSlice(heap, Nil) /\ Elements(heap, Nil) = <<>> /\ Nil.array = 0
  BY <1>1, NilSlice
<1>3. slice'[q] = Nil /\ \A g \in Holders : g # q => slice'[g] = slice[g]
  BY <1>1
<1>4. OnlyList(q, <<>>)
  BY <1>1, <1>2, <1>3 DEF OnlyList, ListOf
<1>5. HeapInv'
  <2>1. slice' \in [Holders -> Slices]
    BY <1>1, <1>2
  <2>2. \A g \in Holders : IsSlice(heap', slice'[g])
    BY <1>1, <1>2, <1>3 DEF HeapInv
  <2> QED
    BY <1>1, <2>1, <2>2 DEF HeapInv, Holders
<1>6. HooksInv'
  <2>1. <<>> \in Seq(Hooks)
    OBVIOUS
  <2> QED
    BY <1>4, <2>1 DEF OnlyList, HooksInv
<1>7. SharingInv'
  <2> SUFFICES ASSUME NEW g \in Holders, NEW p \in Owners, Shared(g, p)'
               PROVE  GivenBy(g, p) /\ slice'[g].len <= slice'[p].len
    BY DEF SharingInv, GivenBy, Holders, Owners
  <2>1. /\ g # p /\ slice'[g].array = slice'[p].array /\ slice'[g].array # 0 /\ p \in Holders
        /\ g # q /\ p # q
    BY <1>2, <1>3, OwnersHold DEF Shared
  <2> QED
    BY <1>3, <2>1 DEF SharingInv, Shared
<1> QED
  BY <1>4, <1>5, <1>6, <1>7

(* The host writes into its array what its own list then reads; an App on  *)
(* the same array sees nothing of it, because the host leaves alone what   *)
(* it has handed over.                                                     *)
LEMMA HostSetsOwn ==
  ASSUME IInv, HostSets
  PROVE  IInv' /\ \E seq \in [DOMAIN ListOf(Host) -> Hooks] : OnlyList(Host, seq)
<1> USE DEF IInv
<1>1. PICK i \in 1 .. slice[Host].len, hook \in Hooks :
        /\ slice[App].array # slice[Host].array \/ i > slice[App].len
        /\ heap' = Write(heap, slice[Host].array, i - 1, <<hook>>)
  BY DEF HostSets
<1> DEFINE a == slice[Host].array
<1>2. /\ heap \in Seq(Arrays) /\ UNCHANGED <<slice, made>> /\ Host \in Holders /\ Host \in Owners
      /\ slice[Host] \in Slices /\ IsSlice(heap, slice[Host]) /\ slice[Host].len \in Nat
  BY SliceOf DEF HeapInv, HostSets, Holders, Owners
<1>3. a # 0 /\ a \in 1 .. Len(heap) /\ slice[Host].len <= Len(heap[a]) /\ Len(heap[a]) \in Nat
  <2>1. a # 0
    BY <1>2, ElementsAre
  <2>2. a \in 1 .. Len(heap) /\ heap[a] \in Arrays /\ slice[Host].len <= Len(heap[a])
    BY <1>2, <2>1, ElementsAre
  <2> QED
    BY <2>1, <2>2, ArrayIsSeq
<1>4. /\ heap' \in Seq(Arrays) /\ Len(heap') = Len(heap)
      /\ \A b \in 1 .. Len(heap) : b # a => heap'[b] = heap[b]
      /\ Len(heap'[a]) = Len(heap[a])
      /\ \A j \in 1 .. Len(heap[a]) : heap'[a][j] = IF j = i THEN hook ELSE heap[a][j]
  <2>1. <<hook>> \in Seq(Cells) /\ Len(<<hook>>) = 1 /\ i - 1 \in Nat /\ <<hook>>[1] = hook
    BY DEF Cells
  <2>2. (i - 1) + Len(<<hook>>) <= Len(heap[a])
    BY <1>2, <1>3, <2>1
  <2>3. Written(heap, heap', a, i - 1, <<hook>>)
    BY <1>1, <1>2, <1>3, <2>1, <2>2, WriteCells
  <2>4. ASSUME NEW j \in 1 .. Len(heap[a])
        PROVE  heap'[a][j] = IF j = i THEN hook ELSE heap[a][j]
    <3>1. heap'[a][j] = IF j \in (i - 1) + 1 .. (i - 1) + Len(<<hook>>)
                        THEN <<hook>>[j - (i - 1)] ELSE heap[a][j]
      BY <2>3 DEF Written
    <3>2. (j \in (i - 1) + 1 .. (i - 1) + Len(<<hook>>)) <=> j = i
      BY <2>1
    <3>3. j = i => j - (i - 1) = 1
      BY <2>1
    <3> QED
      BY <2>1, <3>1, <3>2, <3>3
  <2> QED
    BY <2>3, <2>4 DEF Written
<1> HIDE DEF a
<1>5. ASSUME NEW h \in Holders, h # Host
      PROVE  IsSlice(heap', slice[h]) /\ Elements(heap', slice[h]) = Elements(heap, slice[h])
  <2>1. /\ slice[h] \in Slices /\ IsSlice(heap, slice[h]) /\ slice[h].len \in Nat
        /\ slice[h].array # 0 => slice[h].array \in 1 .. Len(heap) /\ slice[h].len <= Len(heap[slice[h].array])
    BY <1>2, SliceOf, ElementsAre
  <2>2. slice[h].array = a => h = App /\ i > slice[App].len
    <3> SUFFICES ASSUME slice[h].array = a PROVE h = App /\ i > slice[App].len
      OBVIOUS
    <3>1. Shared(h, Host)
      BY <1>3, <1>5 DEF Shared, a
    <3>2. h = App
      BY <1>2, <3>1, HoldersAssumption DEF SharingInv, GivenBy
    <3> QED
      BY <1>1, <3>2 DEF a
  <2>3. Agree(heap, heap', slice[h])
    <3>1. CASE slice[h].array # a
      BY <1>4, <2>1, <3>1 DEF Agree
    <3>2. CASE slice[h].array = a
      BY <1>3, <1>4, <2>1, <2>2, <3>2 DEF Agree
    <3> QED
      BY <3>1, <3>2
  <2> QED
    BY <1>2, <1>4, <2>1, <2>3, SameElements
<1>6. IsSlice(heap', slice[Host])
  BY <1>2, <1>3, <1>4 DEF IsSlice, Capacity, a
<1>7. /\ Elements(heap', slice[Host]) \in [1 .. slice[Host].len -> Hooks]
      /\ Elements(heap', slice[Host]) \in Seq(Hooks)
      /\ DOMAIN ListOf(Host) = 1 .. slice[Host].len
  <2> DEFINE new == Elements(heap', slice[Host])
             old == Elements(heap, slice[Host])
  <2>1. /\ new \in Seq(Cells) /\ Len(new) = slice[Host].len
        /\ \A j \in 1 .. slice[Host].len : new[j] = heap'[a][j]
    BY <1>2, <1>4, <1>6, ElementsAre DEF a
  <2>2. /\ old \in Seq(Hooks) /\ Len(old) = slice[Host].len
        /\ \A j \in 1 .. slice[Host].len : old[j] = heap[a][j]
    BY <1>2, ElementsAre DEF a, HooksInv, ListOf
  <2>3. ListOf(Host) = old
    BY DEF ListOf
  <2> HIDE DEF new, old
  <2>4. \A j \in 1 .. slice[Host].len : new[j] \in Hooks
    <3> TAKE j \in 1 .. slice[Host].len
    <3>1. j \in 1 .. Len(heap[a]) /\ old[j] \in Hooks
      BY <1>2, <1>3, <2>2
    <3> QED
      BY <1>4, <2>1, <2>2, <3>1
  <2>5. new \in [1 .. slice[Host].len -> Hooks] /\ new \in Seq(Hooks)
    BY <1>2, <2>1, <2>4
  <2> QED
    BY <2>2, <2>3, <2>5 DEF new
<1>8. OnlyList(Host, Elements(heap', slice[Host]))
  BY <1>2, <1>5 DEF OnlyList, ListOf
<1>9. IInv'
  <2>1. HeapInv'
    BY <1>2, <1>4, <1>5, <1>6 DEF HeapInv, MadeInv, Holders
  <2>2. HooksInv'
    BY <1>2, <1>7, <1>8 DEF OnlyList, HooksInv, ListOf
  <2>3. SharingInv'
    BY <1>2 DEF SharingInv, Shared
  <2> QED
    BY <2>1, <2>2, <2>3
<1> QED
  BY <1>7, <1>8, <1>9

-----------------------------------------------------------------------------
(* Each operation keeps the invariant, and is one on the lists.            *)

LEMMA Keeps == ASSUME NEW o \in Holders, NEW seq, OnlyList(o, seq) PROVE Lists!Keep(o, seq)
BY DEF OnlyList, Lists!Keep

LEMMA PutWider ==
  ASSUME NEW h, NEW results, NEW wider, results \subseteq wider, Put(h, results)
  PROVE  Put(h, wider)
BY DEF Put

LEMMA AppendHostsMaps ==
  ASSUME IInv, NEW o \in Owners, AppendHosts(o)
  PROVE  IInv' /\ Lists!Grow(o, ListOf(Host))
<1>1. o \in Holders /\ Host \in Holders /\ made' = made /\ MadeInv'
  BY OwnersHold DEF AppendHosts, IInv, HeapInv, MadeInv, Holders
<1>2. GetsAppended(o, slice[o], ListOf(Host))
  <2>1. ListOf(Host) \in Seq(Hooks) /\ Len(ListOf(Host)) = slice[Host].len
    BY <1>1, ListsAre
  <2>2. Put(o, Appended(heap, slice[o], ListOf(Host)))
    BY PutWider DEF AppendHosts, Appended
  <2> QED
    BY <2>1, <2>2 DEF GetsAppended, AppendHosts, Fits
<1>3. IInv' /\ OnlyList(o, ListOf(o) \o ListOf(Host))
  BY <1>1, <1>2, PutAppended DEF ListOf
<1>4. Lists!Keep(o, ListOf(o) \o ListOf(Host))
  BY <1>1, <1>3, Keeps
<1> QED
  BY <1>1, <1>3, <1>4 DEF Lists!Grow, AppendHosts

LEMMA HostAppendsMaps ==
  ASSUME IInv, HostAppends
  PROVE  IInv' /\ Lists!HostAppends
<1>1. Host \in Holders /\ Host \in Owners /\ made' = made /\ MadeInv' /\ Host \in made
  BY DEF HostAppends, IInv, HeapInv, MadeInv, Holders, Owners
<1>2. PICK hook \in Hooks : Put(Host, AppendTo(heap, slice[Host], <<hook>>))
  BY DEF HostAppends
<1>3. GetsAppended(Host, slice[Host], <<hook>>)
  <2>1. <<hook>> \in Seq(Hooks) /\ Len(<<hook>>) = 1
    OBVIOUS
  <2>2. Put(Host, Appended(heap, slice[Host], <<hook>>))
    BY <1>2, PutWider DEF Appended
  <2> QED
    BY <2>1, <2>2 DEF GetsAppended, HostAppends, Fits
<1>4. IInv' /\ OnlyList(Host, ListOf(Host) \o <<hook>>)
  BY <1>1, <1>3, PutAppended DEF ListOf
<1>5. Lists!Keep(Host, ListOf(Host) \o <<hook>>)
  BY <1>1, <1>4, Keeps
<1> QED
  BY <1>1, <1>4, <1>5 DEF Lists!HostAppends, Lists!Grow

(* A new holder, with a list in a new array of its own, or none.           *)
LEMMA NewAppended ==
  ASSUME IInv, NEW d \in Owners, Make(d), NEW list \in Seq(Hooks), Fits(Len(list)),
         Put(d, Appended(heap, Nil, list))
  PROVE  IInv' /\ Lists!New(d, list)
<1>1. d \in Holders /\ MadeInv' /\ heap \in Seq(Arrays)
  BY OwnersHold DEF Make, IInv, HeapInv, MadeInv
<1>2. Elements(heap, Nil) \o list = list /\ Nil.len + Len(list) = Len(list)
  <2>1. Elements(heap, Nil) = <<>> /\ Nil.len = 0
    BY <1>1, NilSlice
  <2> QED
    BY <2>1
<1>3. GetsAppended(d, Nil, list)
  BY <1>2 DEF GetsAppended, Fits
<1>4. IInv' /\ OnlyList(d, list)
  BY <1>1, <1>2, <1>3, PutAppended
<1>5. Lists!Keep(d, list)
  BY <1>1, <1>4, Keeps
<1> QED
  BY <1>4, <1>5 DEF Lists!New, Make

LEMMA CopyMaps ==
  ASSUME IInv, NEW d \in Owners, NEW h \in Holders, Make(d), Fits(slice[h].len),
         Put(d, CopyOf(ListOf(h)))
  PROVE  IInv' /\ Lists!New(d, ListOf(h))
<1>1. ListOf(h) \in Seq(Hooks) /\ Len(ListOf(h)) = slice[h].len
  BY ListsAre
<1>2. Put(d, Appended(heap, Nil, ListOf(h)))
  BY PutWider DEF CopyOf, Appended
<1> QED
  BY <1>1, <1>2, NewAppended

LEMMA ChainAppendMaps ==
  ASSUME IInv, NEW c \in Chains, NEW d \in Chains, NEW h \in {Host} \cup Chains,
         ChainAppend(c, d, h)
  PROVE  IInv' /\ h \in made /\ c \in made /\ Lists!New(d, ListOf(c) \o ListOf(h))
<1> DEFINE list == ListOf(c) \o ListOf(h)
           r == [heap |-> Append(heap, list), slice |-> [array |-> Len(heap) + 1, len |-> Len(list)]]
<1>1. /\ Put(d, {r}) /\ Make(d) /\ h \in made /\ c \in made
      /\ Fits(slice[c].len + slice[h].len)
  BY DEF ChainAppend
<1>2. c \in Holders /\ h \in Holders /\ d \in Owners /\ heap \in Seq(Arrays)
  BY DEF Holders, Owners, IInv, HeapInv
<1>3. list \in Seq(Hooks) /\ Len(list) = slice[c].len + slice[h].len /\ Len(list) \in Nat
  <2>1. /\ ListOf(c) \in Seq(Hooks) /\ Len(ListOf(c)) = slice[c].len
        /\ ListOf(h) \in Seq(Hooks) /\ Len(ListOf(h)) = slice[h].len
    BY <1>2, ListsAre
  <2> QED
    BY <2>1
<1> HIDE DEF list
<1>4. r \in Allocate(heap, list)
  <2>1. Len(list) \in Len(list) .. MaxCap
    BY <1>1, <1>3, BoundsAssumption DEF Fits
  <2>2. [i \in 1 .. Len(list) |-> IF i <= Len(list) THEN list[i] ELSE Empty] = list
    BY <1>3
  <2> QED
    BY <2>1, <2>2 DEF Allocate
<1>5. Elements(heap, Nil) \o list = list
  <2>1. Elements(heap, Nil) = <<>>
    BY <1>2, NilSlice
  <2> QED
    BY <1>3, <2>1
<1>6. Put(d, Appended(heap, Nil, list))
  <2>1. {r} \subseteq Appended(heap, Nil, list)
    BY <1>4, <1>5 DEF Appended
  <2> HIDE DEF r
  <2> QED
    BY <1>1, <2>1, PutWider
<1>7. Fits(Len(list))
  BY <1>1, <1>3
<1>8. IInv' /\ Lists!New(d, list)
  BY <1>1, <1>2, <1>3, <1>6, <1>7, NewAppended
<1> QED
  BY <1>1, <1>8 DEF list

LEMMA NewBuilderMaps ==
  ASSUME IInv, NEW b \in Builders, NewBuilder(b)
  PROVE  IInv' /\ Lists!New(b, ListOf(Client))
<1>1. b \in Holders \ Owners /\ Client \in Owners /\ GivenBy(b, Client) /\ MadeInv'
  BY HoldersAssumption DEF Holders, Owners, GivenBy, NewBuilder, Make, IInv, HeapInv, MadeInv
<1>2. IInv' /\ OnlyList(b, ListOf(Client))
  BY <1>1, ShareGiven DEF NewBuilder
<1>3. Lists!Keep(b, ListOf(Client))
  BY <1>1, <1>2, Keeps
<1> QED
  BY <1>2, <1>3 DEF Lists!New, NewBuilder, Make

LEMMA NewAppMaps ==
  ASSUME IInv, NewApp
  PROVE  IInv' /\ Lists!New(App, ListOf(Host))
<1>1. App \in Holders \ Owners /\ Host \in Owners /\ GivenBy(App, Host) /\ MadeInv'
  BY HoldersAssumption DEF Holders, Owners, GivenBy, NewApp, Make, IInv, HeapInv, MadeInv
<1>2. IInv' /\ OnlyList(App, ListOf(Host))
  BY <1>1, ShareGiven DEF NewApp
<1>3. Lists!Keep(App, ListOf(Host))
  BY <1>1, <1>2, Keeps
<1> QED
  BY <1>2, <1>3 DEF Lists!New, NewApp, Make

LEMMA NewQueryMaps ==
  ASSUME IInv, NEW q \in Queries, NewQuery(q)
  PROVE  IInv' /\ Lists!New(q, <<>>)
<1>1. q \in Holders /\ q \in Owners /\ MadeInv'
  BY DEF Holders, Owners, NewQuery, Make, IInv, HeapInv, MadeInv
<1>2. IInv' /\ OnlyList(q, <<>>)
  BY <1>1, ShareNil DEF NewQuery
<1>3. Lists!Keep(q, <<>>)
  BY <1>1, <1>2, Keeps
<1> QED
  BY <1>2, <1>3 DEF Lists!New, NewQuery, Make

LEMMA HostSetsMaps ==
  ASSUME IInv, HostSets
  PROVE  IInv' /\ Lists!HostChanges
<1>1. PICK seq \in [DOMAIN ListOf(Host) -> Hooks] : OnlyList(Host, seq)
  BY HostSetsOwn
<1>2. Host \in Holders
  BY DEF Holders
<1>3. Lists!Keep(Host, seq)
  BY <1>1, <1>2, Keeps
<1> QED
  BY <1>1, <1>2, <1>3, HostSetsOwn DEF Lists!HostChanges, HostSets

(* The abstract list of a holder.                                          *)
LEMMA ListMaps == \A h \in Holders : [g \in Holders |-> ListOf(g)][h] = ListOf(h)
OBVIOUS

LEMMA NextMaps == IInv /\ [Next]_vars => IInv' /\ [Lists!Next]_(Lists!vars)
<1> SUFFICES ASSUME IInv, [Next]_vars PROVE IInv' /\ [Lists!Next]_(Lists!vars)
  OBVIOUS
<1>0. /\ {Client, Host} \subseteq Holders /\ Client \in Owners
      /\ Queries \subseteq Holders /\ Queries \subseteq Owners
      /\ Chains \subseteq Holders /\ Chains \subseteq Owners
  BY DEF Holders, Owners
<1>1. CASE ClientUse
  <2>1. IInv' /\ Lists!Grow(Client, ListOf(Host))
    BY <1>0, <1>1, AppendHostsMaps DEF ClientUse
  <2> QED
    BY <1>0, <2>1, ListMaps DEF Lists!Next, Lists!Add
<1>2. CASE NewApp
  <2>1. IInv' /\ Lists!New(App, ListOf(Host))
    BY <1>2, NewAppMaps
  <2> QED
    BY <1>0, <2>1, ListMaps DEF Lists!Next, Lists!Take
<1>3. CASE HostSets
  BY <1>3, HostSetsMaps DEF Lists!Next
<1>4. CASE HostAppends
  BY <1>4, HostAppendsMaps DEF Lists!Next
<1>5. ASSUME NEW b \in Builders, NewBuilder(b) PROVE IInv' /\ Lists!Next
  <2>1. IInv' /\ Lists!New(b, ListOf(Client))
    BY <1>5, NewBuilderMaps
  <2> QED
    BY <1>0, <2>1, ListMaps DEF Lists!Next, Lists!Take
<1>6. ASSUME NEW q \in Queries, NewQuery(q) PROVE IInv' /\ Lists!Next
  BY <1>6, NewQueryMaps DEF Lists!Next, Lists!Take
<1>7. ASSUME NEW q \in Queries, Where(q) PROVE IInv' /\ Lists!Next
  <2>1. IInv' /\ Lists!Grow(q, ListOf(Host))
    BY <1>0, <1>7, AppendHostsMaps DEF Where
  <2> QED
    BY <1>0, <2>1, ListMaps DEF Lists!Next, Lists!Add
<1>8. ASSUME NEW q \in Queries, NEW c \in Queries, CloneQuery(q, c) PROVE IInv' /\ Lists!Next
  <2>1. IInv' /\ Lists!New(c, ListOf(q)) /\ q \in made
    BY <1>0, <1>8, CopyMaps DEF CloneQuery
  <2> QED
    BY <1>0, <2>1, ListMaps DEF Lists!Next, Lists!Clone
<1>9. ASSUME NEW c \in Chains, NewChain(c) PROVE IInv' /\ Lists!Next
  <2>1. IInv' /\ Lists!New(c, ListOf(Host))
    BY <1>0, <1>9, CopyMaps DEF NewChain
  <2> QED
    BY <1>0, <2>1, ListMaps DEF Lists!Next, Lists!Chain
<1>10. ASSUME NEW c \in Chains, NEW d \in Chains, NEW h \in {Host} \cup Chains, ChainAppend(c, d, h)
       PROVE  IInv' /\ Lists!Next
  <2>1. IInv' /\ h \in made /\ c \in made /\ Lists!New(d, ListOf(c) \o ListOf(h))
    BY <1>10, ChainAppendMaps
  <2>2. CASE h = Host
    BY <1>0, <2>1, <2>2, ListMaps DEF Lists!Next, Lists!Chain
  <2>3. CASE h \in Chains
    BY <1>0, <2>1, <2>3, ListMaps DEF Lists!Next, Lists!Chain
  <2> QED
    BY <2>2, <2>3
<1>11. CASE UNCHANGED vars
  <2>1. IInv'
    BY <1>11 DEF vars, IInv, HeapInv, MadeInv, SharingInv, Shared, HooksInv, ListOf
  <2> QED
    BY <1>11, <2>1 DEF vars, Lists!vars, ListOf
<1> QED
  BY <1>1, <1>2, <1>3, <1>4, <1>5, <1>6, <1>7, <1>8, <1>9, <1>10, <1>11 DEF Next

LEMMA Inductive == Spec => []IInv
<1>1. IInv /\ [Next]_vars => IInv'
  BY NextMaps
<1> QED
  BY <1>1, InitIInv, PTL DEF Spec

(* The type invariant: in particular no slice ever reaches behind its      *)
(* array, and no list ever has a zero value in it.                         *)
THEOREM TypeCorrect == Spec => []TypeOK
<1>1. IInv => TypeOK
  <2> SUFFICES ASSUME IInv PROVE TypeOK
    OBVIOUS
  <2>1. \A h \in Holders : Range(ListOf(h)) \subseteq Hooks
    BY DEF IInv, HooksInv, Range
  <2> QED
    BY <2>1 DEF TypeOK, IInv, HeapInv, MadeInv, Arrays, Cells
<1> QED
  BY <1>1, Inductive, PTL

(* Whatever shares an array with what: however many clients, builders,     *)
(* chains and queries there are and however much room append leaves in the *)
(* arrays it makes, every holder has the list it was promised              *)
(* (client.go:212, book_query.go:247-252, hook.go:165-199, app.go:46).     *)
THEOREM Refinement == Spec => Implements
<1>1. Init => Lists!Init
  <2> SUFFICES ASSUME Init PROVE Lists!Init
    OBVIOUS
  <2>1. \A h \in Holders : ListOf(h) = <<>>
    BY DEF Init, ListOf, Elements, Nil
  <2> QED
    BY <2>1 DEF Init, Lists!Init, Holders, Lists!Holders
<1> QED
  BY <1>1, NextMaps, Inductive, PTL DEF Spec, Implements, Lists!Spec

-----------------------------------------------------------------------------
(* What running a list of hooks does.                                      *)

(* Claims about all numbers, made of the set of those they hold of.        *)
LEMMA Induction ==
  ASSUME NEW P, 0 \in P, \A n \in Nat : n \in P => n + 1 \in P
  PROVE  Nat \subseteq P
<1> SUFFICES ASSUME Nat \ P # {} PROVE FALSE
  OBVIOUS
<1>1. PICK n \in Nat \ P : \A k \in Nat \ P : ~(<<k, n>> \in OpToRel(<, Nat))
  <2>1. IsWellFoundedOn(OpToRel(<, Nat), Nat) /\ Nat \ P \subseteq Nat
    BY NatLessThanWellFounded
  <2> HIDE DEF OpToRel
  <2> QED
    BY <2>1, WFMin
<1>2. \A k \in Nat \ P : ~(k < n)
  BY <1>1 DEF OpToRel
<1>3. n # 0 /\ n - 1 \in Nat /\ n = (n - 1) + 1 /\ n - 1 < n
  OBVIOUS
<1>4. n - 1 \in P
  BY <1>2, <1>3
<1> QED
  BY <1>3, <1>4

Results == [entered : Seq(STRING), executed : BOOLEAN]

LEMMA StatementType == Statement \in Results
BY DEF Statement, Results

LEMMA WrapType ==
  ASSUME NEW hook \in Hooks, NEW r \in Results, NEW op
  PROVE  Wrap(hook, r, op) \in Results
<1>1. hook.name \in STRING
  BY HooksAssumption
<1>2. <<hook.name>> \o r.entered \in Seq(STRING) /\ <<>> \in Seq(STRING)
  BY <1>1 DEF Results
<1>3. [entered |-> <<>>, executed |-> FALSE] \in Results
  BY DEF Results
<1>4. [r EXCEPT !.entered = <<hook.name>> \o @] \in Results
  BY <1>2 DEF Results
<1> QED
  BY <1>3, <1>4 DEF Wrap

(* The mutators that wrapping a list makes, from the statement out.        *)
Upto(m, w, list, op) ==
  /\ w[0] = Statement
  /\ \A n \in 1 .. m : w[n] = Wrap(list[Len(list) + 1 - n], w[n - 1], op)
Wrapped(w, list, op) == w \in [0 .. Len(list) -> Results] /\ Upto(Len(list), w, list, op)

LEMMA WrappedExist ==
  ASSUME NEW list \in Seq(Hooks), NEW op
  PROVE  \E w : Wrapped(w, list, op) /\ Run(list, op) = w[Len(list)]
<1> DEFINE len == Len(list)
           hook(n) == list[len + 1 - n]
           P == {m \in Nat : m <= len => \E w \in [0 .. m -> Results] : Upto(m, w, list, op)}
           recursive(w) == w = [n \in 0 .. len |-> IF n = 0 THEN Statement ELSE Wrap(hook(n), w[n - 1], op)]
<1>1. len \in Nat /\ \A n \in 1 .. len : hook(n) \in Hooks
  OBVIOUS
<1>2. 0 \in P
  <2> DEFINE w == [n \in 0 .. 0 |-> Statement]
  <2>1. w \in [0 .. 0 -> Results] /\ Upto(0, w, list, op)
    BY StatementType DEF Upto
  <2> QED
    BY <2>1
<1>3. ASSUME NEW m \in Nat, m \in P PROVE m + 1 \in P
  <2> SUFFICES ASSUME m + 1 <= len PROVE \E w \in [0 .. m + 1 -> Results] : Upto(m + 1, w, list, op)
    OBVIOUS
  <2>1. PICK v \in [0 .. m -> Results] : Upto(m, v, list, op)
    BY <1>1, <1>3
  <2> DEFINE last == Wrap(hook(m + 1), v[m], op)
             w == [n \in 0 .. m + 1 |-> IF n = m + 1 THEN last ELSE v[n]]
  <2>2. last \in Results
    <3>1. hook(m + 1) \in Hooks /\ v[m] \in Results
      BY <1>1, <2>1
    <3> QED
      BY <3>1, WrapType
  <2> HIDE DEF last
  <2>3. w \in [0 .. m + 1 -> Results] /\ w[0] = Statement
    BY <2>1, <2>2 DEF Upto
  <2>4. ASSUME NEW n \in 1 .. m + 1 PROVE w[n] = Wrap(hook(n), w[n - 1], op)
    <3>1. CASE n = m + 1
      <4>1. w[n] = last /\ w[n - 1] = v[m]
        BY <3>1
      <4> QED
        BY <3>1, <4>1 DEF last
    <3>2. CASE n # m + 1
      <4>1. w[n] = v[n] /\ n \in 1 .. m /\ w[n - 1] = v[n - 1]
        BY <3>2
      <4> QED
        BY <2>1, <4>1 DEF Upto
    <3> QED
      BY <3>1, <3>2
  <2> HIDE DEF w
  <2> QED
    BY <2>3, <2>4 DEF Upto
<1> HIDE DEF P
<1>4. len \in P
  BY <1>1, <1>2, <1>3, Induction
<1>5. PICK v \in [0 .. len -> Results] : Upto(len, v, list, op)
  BY <1>4 DEF P
<1>6. recursive(v)
  <2>1. \A n \in 0 .. len : v[n] = IF n = 0 THEN Statement ELSE Wrap(hook(n), v[n - 1], op)
    BY <1>1, <1>5 DEF Upto
  <2> QED
    BY <1>5, <2>1
<1> DEFINE w == CHOOSE w : recursive(w)
<1>7. recursive(w)
  BY <1>6
<1>8. Run(list, op) = w[len]
  BY DEF Run
<1> HIDE DEF w
<1>9. w = [n \in 0 .. len |-> w[n]] /\ Upto(len, w, list, op)
  <2>1. \A n \in 0 .. len : w[n] = IF n = 0 THEN Statement ELSE Wrap(hook(n), w[n - 1], op)
    BY <1>7
  <2>2. DOMAIN w = 0 .. len /\ w = [n \in 0 .. len |-> w[n]]
    BY <1>7
  <2>3. w[0] = Statement
    BY <1>1, <2>1
  <2>4. \A n \in 1 .. len : w[n] = Wrap(hook(n), w[n - 1], op)
    BY <1>1, <2>1
  <2> QED
    BY <2>2, <2>3, <2>4 DEF Upto
<1>10. \A n \in 0 .. len : w[n] \in Results
  <2> DEFINE Q == {n \in Nat : n <= len => w[n] \in Results}
  <2>1. 0 \in Q
    BY <1>9, StatementType DEF Upto
  <2>2. ASSUME NEW n \in Nat, n \in Q PROVE n + 1 \in Q
    <3> SUFFICES ASSUME n + 1 <= len PROVE w[n + 1] \in Results
      OBVIOUS
    <3>1. n + 1 \in 1 .. len /\ (n + 1) - 1 = n /\ w[n] \in Results
      BY <1>1, <2>2
    <3>2. w[n + 1] = Wrap(hook(n + 1), w[n], op) /\ hook(n + 1) \in Hooks
      BY <1>1, <1>9, <3>1 DEF Upto
    <3> QED
      BY <3>1, <3>2, WrapType
  <2> HIDE DEF Q
  <2>3. Nat \subseteq Q
    BY <2>1, <2>2, Induction
  <2> QED
    BY <1>1, <2>3 DEF Q
<1> QED
  BY <1>8, <1>9, <1>10 DEF Wrapped

(* What has become of the hooks from the m-th on: those that are reached,  *)
(* and what the mutator made of them must do.                              *)
Rejects(list, op, i) == Condition(list[i], op) /\ list[i].how = "Reject"
Reached(list, op, m) ==
  {i \in m .. Len(list) : Condition(list[i], op) /\ ~\E j \in m .. i : Rejects(list, op, j)}
Positions(pos, r, list, R) ==
  /\ pos \in [R -> 1 .. Len(r.entered)]
  /\ \A i, j \in R : i < j => pos[i] < pos[j]
  /\ \A i \in R : r.entered[pos[i]] = list[i].name
RunFrom(r, list, op, m) ==
  /\ r.executed <=> ~\E i \in m .. Len(list) : Rejects(list, op, i)
  /\ IsFiniteSet(Reached(list, op, m)) /\ Cardinality(Reached(list, op, m)) = Len(r.entered)
  /\ \E pos : Positions(pos, r, list, Reached(list, op, m))

LEMMA RunNothing ==
  ASSUME NEW list \in Seq(Hooks), NEW op
  PROVE  RunFrom(Statement, list, op, Len(list) + 1)
<1> DEFINE m == Len(list) + 1
<1>1. Len(list) \in Nat /\ m .. Len(list) = {}
  OBVIOUS
<1>2. Reached(list, op, m) = {}
  BY <1>1 DEF Reached
<1>3. Statement.executed = TRUE /\ Statement.entered = <<>>
  BY DEF Statement
<1>4. Positions(<<>>, Statement, list, {})
  BY <1>3 DEF Positions
<1>5. IsFiniteSet({}) /\ Cardinality({}) = 0
  BY FS_EmptySet
<1> QED
  BY <1>1, <1>2, <1>3, <1>4, <1>5 DEF RunFrom

LEMMA RunOneMore ==
  ASSUME NEW list \in Seq(Hooks), NEW m \in 1 .. Len(list), NEW op, NEW r \in Results,
         RunFrom(r, list, op, m + 1)
  PROVE  RunFrom(Wrap(list[m], r, op), list, op, m)
<1> DEFINE len == Len(list)
           R == Reached(list, op, m + 1)
           Q == Reached(list, op, m)
           s == Wrap(list[m], r, op)
<1>1. len \in Nat /\ m \in Nat /\ m \in m .. len /\ list[m] \in Hooks
  OBVIOUS
<1>2. \A i : i \in m .. len <=> i = m \/ i \in m + 1 .. len
  BY <1>1
<1>3. r.executed <=> ~\E i \in m + 1 .. len : Rejects(list, op, i)
  BY DEF RunFrom
<1>4. IsFiniteSet(R) /\ Cardinality(R) = Len(r.entered)
  BY DEF RunFrom
<1>5. PICK pos : Positions(pos, r, list, R)
  BY DEF RunFrom
<1>6. r.entered \in Seq(STRING) /\ Len(r.entered) \in Nat /\ list[m].name \in STRING
  BY <1>1, HooksAssumption DEF Results
<1>7. CASE ~Condition(list[m], op)
  <2>1. s = r /\ ~Rejects(list, op, m)
    BY <1>7 DEF Wrap, Rejects
  <2>2. Q = R
    <3>1. ASSUME NEW i \in m + 1 .. len
          PROVE  (\E j \in m .. i : Rejects(list, op, j)) <=> \E j \in m + 1 .. i : Rejects(list, op, j)
      BY <1>1, <2>1
    <3> QED
      BY <1>2, <1>7, <3>1 DEF Reached
  <2>3. (\E i \in m .. len : Rejects(list, op, i)) <=> \E i \in m + 1 .. len : Rejects(list, op, i)
    BY <1>2, <2>1
  <2> HIDE DEF Q, R, s
  <2>4. RunFrom(r, list, op, m)
    BY <1>3, <1>4, <1>5, <2>2, <2>3 DEF RunFrom, Q, R
  <2> QED
    BY <2>1, <2>4 DEF s
<1>8. CASE Condition(list[m], op) /\ list[m].how = "Reject"
  <2>1. Rejects(list, op, m) /\ s = [entered |-> <<>>, executed |-> FALSE]
    BY <1>8 DEF Wrap, Rejects
  <2>2. Q = {}
    <3> SUFFICES ASSUME NEW i \in Q PROVE FALSE
      OBVIOUS
    <3>1. i \in m .. len /\ m \in m .. i /\ ~\E j \in m .. i : Rejects(list, op, j)
      BY <1>1 DEF Reached
    <3> QED
      BY <2>1, <3>1
  <2>3. Positions(<<>>, s, list, {})
    BY <2>1 DEF Positions
  <2>4. IsFiniteSet({}) /\ Cardinality({}) = 0
    BY FS_EmptySet
  <2>5. s.executed = FALSE /\ Len(s.entered) = 0
    BY <2>1
  <2>6. \E i \in m .. len : Rejects(list, op, i)
    BY <1>1, <2>1
  <2>7. s.executed <=> ~\E i \in m .. len : Rejects(list, op, i)
    BY <2>5, <2>6
  <2> HIDE DEF s, Q
  <2>8. \E p : Positions(p, s, list, Q)
    BY <2>2, <2>3
  <2>9. RunFrom(s, list, op, m)
    BY <2>2, <2>4, <2>5, <2>7, <2>8 DEF RunFrom, Q
  <2> QED
    BY <2>9 DEF s
<1>9. CASE Condition(list[m], op) /\ list[m].how # "Reject"
  <2> DEFINE e == <<list[m].name>> \o r.entered
             moved == [i \in Q |-> IF i = m THEN 1 ELSE pos[i] + 1]
  <2>1. s = [r EXCEPT !.entered = e] /\ ~Rejects(list, op, m)
    BY <1>9 DEF Wrap, Rejects
  <2>2. s.executed = r.executed /\ s.entered = e
    BY <2>1 DEF Results
  <2>3. /\ Len(e) = Len(r.entered) + 1 /\ e[1] = list[m].name
        /\ \A k \in 1 .. Len(r.entered) : e[k + 1] = r.entered[k]
    BY <1>6
  <2>4. Q = R \cup {m} /\ m \notin R /\ \A i \in R : i \in Nat /\ m < i
    <3>1. ASSUME NEW i \in m + 1 .. len
          PROVE  (\E j \in m .. i : Rejects(list, op, j)) <=> \E j \in m + 1 .. i : Rejects(list, op, j)
      BY <1>1, <2>1
    <3>2. ~\E j \in m .. m : Rejects(list, op, j)
      BY <1>1, <2>1
    <3>3. m \in Q
      BY <1>1, <1>9, <3>2 DEF Reached
    <3>4. \A i \in m + 1 .. len : i \in Q <=> i \in R
      BY <1>2, <3>1 DEF Reached
    <3>5. R \subseteq m + 1 .. len /\ Q \subseteq m .. len
      BY DEF Reached
    <3> QED
      BY <1>1, <1>2, <3>3, <3>4, <3>5
  <2>5. (\E i \in m .. len : Rejects(list, op, i)) <=> \E i \in m + 1 .. len : Rejects(list, op, i)
    BY <1>2, <2>1
  <2>6. IsFiniteSet(Q) /\ Cardinality(Q) = Len(e)
    <3> HIDE DEF Q, R, e
    <3>1. IsFiniteSet(R \cup {m}) /\ Cardinality(R \cup {m}) = Cardinality(R) + 1
      BY <1>4, <2>4, FS_AddElement
    <3> QED
      BY <1>4, <2>3, <2>4, <3>1
  <2>7. Positions(moved, s, list, Q)
    <3>1. /\ pos \in [R -> 1 .. Len(r.entered)]
          /\ \A i, j \in R : i < j => pos[i] < pos[j]
          /\ \A i \in R : r.entered[pos[i]] = list[i].name
      BY <1>5 DEF Positions
    <3> HIDE DEF Q, R, e
    <3>2. moved[m] = 1 /\ \A i \in R : moved[i] = pos[i] + 1
      BY <2>4
    <3>3. \A i \in Q : moved[i] \in 1 .. Len(e)
      BY <1>6, <2>3, <2>4, <3>1, <3>2
    <3>4. moved \in [Q -> 1 .. Len(e)]
      BY <3>3
    <3> HIDE DEF moved
    <3>5. \A i, j \in Q : i < j => moved[i] < moved[j]
      <4> SUFFICES ASSUME NEW i \in Q, NEW j \in Q, i < j PROVE moved[i] < moved[j]
        OBVIOUS
      <4>1. j \in R
        BY <1>1, <2>4
      <4>2. pos[j] \in Nat /\ pos[j] >= 1 /\ moved[j] = pos[j] + 1
        BY <1>6, <3>1, <3>2, <4>1
      <4>3. CASE i = m
        BY <3>2, <4>2, <4>3
      <4>4. CASE i \in R
        <5>1. pos[i] \in Nat /\ pos[i] < pos[j] /\ moved[i] = pos[i] + 1
          BY <1>6, <3>1, <3>2, <4>1, <4>4
        <5> QED
          BY <4>2, <5>1
      <4> QED
        BY <2>4, <4>3, <4>4
    <3>6. \A i \in Q : e[moved[i]] = list[i].name
      <4> TAKE i \in Q
      <4>1. CASE i = m
        BY <2>3, <3>2, <4>1
      <4>2. CASE i \in R
        <5>1. pos[i] \in 1 .. Len(r.entered) /\ r.entered[pos[i]] = list[i].name
          BY <3>1, <4>2
        <5>2. e[pos[i] + 1] = r.entered[pos[i]]
          BY <2>3, <5>1
        <5> QED
          BY <3>2, <4>2, <5>1, <5>2
      <4> QED
        BY <2>4, <4>1, <4>2
    <3> QED
      BY <2>2, <3>4, <3>5, <3>6 DEF Positions
  <2>8. s.executed <=> ~\E i \in m .. len : Rejects(list, op, i)
    BY <1>3, <2>2, <2>5, Zenon
  <2> HIDE DEF Q, s, e, moved
  <2>9. \E p : Positions(p, s, list, Q)
    BY <2>7
  <2>10. RunFrom(s, list, op, m)
    BY <2>2, <2>6, <2>8, <2>9 DEF RunFrom, Q
  <2> QED
    BY <2>10 DEF s
<1> QED
  BY <1>7, <1>8, <1>9

LEMMA RunIs ==
  ASSUME NEW list \in Seq(Hooks), NEW op
  PROVE  RunFrom(Run(list, op), list, op, 1) /\ Run(list, op) \in Results
<1>1. PICK w : Wrapped(w, list, op) /\ Run(list, op) = w[Len(list)]
  BY WrappedExist
<1> DEFINE len == Len(list)
           P == {n \in Nat : n <= len => RunFrom(w[n], list, op, len + 1 - n)}
<1>2. len \in Nat /\ w \in [0 .. len -> Results] /\ w[0] = Statement
      /\ \A n \in 1 .. len : w[n] = Wrap(list[len + 1 - n], w[n - 1], op)
  BY <1>1 DEF Wrapped, Upto
<1>3. 0 \in P
  BY <1>2, RunNothing
<1>4. ASSUME NEW n \in Nat, n \in P PROVE n + 1 \in P
  <2> SUFFICES ASSUME n + 1 <= len PROVE RunFrom(w[n + 1], list, op, len + 1 - (n + 1))
    OBVIOUS
  <2> DEFINE m == len + 1 - (n + 1)
  <2>1. m \in 1 .. len /\ m + 1 = len + 1 - n /\ n + 1 \in 1 .. len /\ (n + 1) - 1 = n
    BY <1>2
  <2>2. w[n] \in Results /\ RunFrom(w[n], list, op, m + 1) /\ w[n + 1] = Wrap(list[m], w[n], op)
    BY <1>2, <1>4, <2>1
  <2> HIDE DEF m
  <2>3. RunFrom(Wrap(list[m], w[n], op), list, op, m)
    BY <2>1, <2>2, RunOneMore
  <2> QED
    BY <2>2, <2>3 DEF m
<1> HIDE DEF P
<1>5. len \in P
  BY <1>2, <1>3, <1>4, Induction
<1>6. len + 1 - len = 1 /\ w[len] \in Results
  BY <1>2
<1> QED
  BY <1>1, <1>5, <1>6 DEF P

(* However a chain or the hooks of a client have come about, the mutation  *)
(* passes those that apply from the first to the last, up to one that      *)
(* rejects it (client.go:210, hook.go:116-163, 176-184).                   *)
THEOREM AlwaysRunsAsListed == Spec => []RunsAsListed
<1>1. IInv => RunsAsListed
  <2> SUFFICES ASSUME IInv, NEW h \in (Builders \cup Chains) \cap made, NEW op \in AllOps
               PROVE  LET list == ListOf(h)
                          applies(i) == (list[i].how = "Unless") # (op \in list[i].ops)
                          reached == {i \in DOMAIN list : applies(i) /\ ~\E j \in 1 .. i : applies(j) /\ list[j].how = "Reject"}
                          run == Run(list, op)
                      IN  /\ run.executed <=> ~\E i \in DOMAIN list : applies(i) /\ list[i].how = "Reject"
                          /\ Len(run.entered) = Cardinality(reached)
                          /\ \A i, j \in reached : i < j => \E k, l \in DOMAIN run.entered :
                               k < l /\ run.entered[k] = list[i].name /\ run.entered[l] = list[j].name
    BY DEF RunsAsListed
  <2> DEFINE list == ListOf(h)
             applies(i) == (list[i].how = "Unless") # (op \in list[i].ops)
             reached == {i \in DOMAIN list : applies(i) /\ ~\E j \in 1 .. i : applies(j) /\ list[j].how = "Reject"}
             run == Run(list, op)
  <2>1. list \in Seq(Hooks)
    BY DEF IInv, HooksInv, Holders
  <2> HIDE DEF list
  <2>2. DOMAIN list = 1 .. Len(list) /\ Len(list) \in Nat
    BY <2>1
  <2>3. RunFrom(run, list, op, 1) /\ run \in Results
    BY <2>1, RunIs
  <2> HIDE DEF run
  <2>4. \A i \in DOMAIN list : applies(i) <=> Condition(list[i], op)
    BY DEF Condition, HasOp
  <2>5. \A i \in DOMAIN list : applies(i) /\ list[i].how = "Reject" <=> Rejects(list, op, i)
    BY <2>4 DEF Rejects
  <2>6. reached = Reached(list, op, 1)
    <3>1. \A i \in DOMAIN list : \A j \in 1 .. i : j \in DOMAIN list
      BY <2>2
    <3>2. \A i \in DOMAIN list : (\E j \in 1 .. i : applies(j) /\ list[j].how = "Reject")
                                 <=> \E j \in 1 .. i : Rejects(list, op, j)
      BY <2>5, <3>1
    <3> HIDE DEF applies
    <3> QED
      BY <2>2, <2>4, <3>2 DEF Reached
  <2>7. (\E i \in DOMAIN list : applies(i) /\ list[i].how = "Reject")
        <=> \E i \in 1 .. Len(list) : Rejects(list, op, i)
    BY <2>2, <2>5
  <2> HIDE DEF applies, reached
  <2>8. run.executed <=> ~\E i \in DOMAIN list : applies(i) /\ list[i].how = "Reject"
    BY <2>3, <2>7 DEF RunFrom
  <2>9. Len(run.entered) = Cardinality(reached)
    BY <2>3, <2>6 DEF RunFrom
  <2>10. ASSUME NEW i \in reached, NEW j \in reached, i < j
         PROVE  \E k, l \in DOMAIN run.entered :
                  k < l /\ run.entered[k] = list[i].name /\ run.entered[l] = list[j].name
    <3>1. PICK pos : Positions(pos, run, list, reached)
      BY <2>3, <2>6 DEF RunFrom
    <3>2. DOMAIN run.entered = 1 .. Len(run.entered)
      BY <2>3 DEF Results
    <3>3. /\ pos[i] \in DOMAIN run.entered /\ pos[j] \in DOMAIN run.entered /\ pos[i] < pos[j]
          /\ run.entered[pos[i]] = list[i].name /\ run.entered[pos[j]] = list[j].name
      BY <2>10, <3>1, <3>2 DEF Positions
    <3> QED
      BY <3>3
  <2> QED
    BY <2>8, <2>9, <2>10 DEF list, applies, reached, run
<1> QED
  BY <1>1, Inductive, PTL
=============================================================================
