------------------------------- MODULE GoSlice -------------------------------
(***************************************************************************)
(* Go slices.  Two slices may look at the same array, and append writes    *)
(* into that array as long as it has room: what one holder of a slice      *)
(* appends may then be what another one sees.                              *)
(*                                                                         *)
(* The heap is a sequence of arrays, an array the sequence of its cells.   *)
(* A slice is the index of its array (0 for nil) and its length; as an     *)
(* argument a list of elements is a TLA+ sequence.                         *)
(***************************************************************************)
EXTENDS Integers, Sequences

CONSTANTS Empty,    \* the zero value, in the cells behind the last element
          MaxCap    \* no array has more cells

Nil == [array |-> 0, len |-> 0]
Elements(heap, s) == IF s.array = 0 THEN <<>> ELSE SubSeq(heap[s.array], 1, s.len)
Capacity(heap, s) == IF s.array = 0 THEN 0 ELSE Len(heap[s.array])

(* A new array: append may make it larger than it has to be.               *)
Allocate(heap, list) ==
  {[heap  |-> Append(heap, [i \in 1 .. cap |-> IF i <= Len(list) THEN list[i] ELSE Empty]),
    slice |-> [array |-> Len(heap) + 1, len |-> Len(list)]] : cap \in Len(list) .. MaxCap}

Write(heap, array, at, list) ==
  [heap EXCEPT ![array] = [i \in DOMAIN @ |-> IF i \in at + 1 .. at + Len(list)
                                              THEN list[i - at] ELSE @[i]]]

(* append(s, list...): the heaps and slices it may result in.              *)
AppendTo(heap, s, list) ==
  IF s.len + Len(list) <= Capacity(heap, s)
  THEN {[heap  |-> IF list = <<>> THEN heap ELSE Write(heap, s.array, s.len, list),
         slice |-> [s EXCEPT !.len = @ + Len(list)]]}
  ELSE Allocate(heap, Elements(heap, s) \o list)

IsSlice(heap, s) ==
  /\ s.array \in 0 .. Len(heap)
  /\ s.len \in 0 .. Capacity(heap, s)
=============================================================================
