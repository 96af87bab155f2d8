------------------------- MODULE SelectiveIntervals -------------------------
(***************************************************************************)
(* The configuration of selective recording: the intervals of instances of *)
(* one region are added one by one, in the order of the file, to a vector  *)
(* that scorep_selective_check_exit walks from its start                   *)
(* (scorep_selective_parser.c, SCOREP_Vector.c).  The position is found by *)
(* a binary search with a comparison that returns an int8_t.               *)
(***************************************************************************)
EXTENDS Integers, SequencesExt

(* The conversion to int8_t keeps the low eight bits.                      *)
AsInt8(x) == ((x + 128) % 256) - 128

(* mutant: the search goes on in the wrong half                            *)
CompareSwapped(value, item) == AsInt8(item.first - value)

CompareIntervals(value, item) == AsInt8(value - item.first)

(* A round of the loop in SCOREP_Vector_LowerBound, which has done its     *)
(* work when no items are left to look at.                                 *)
Round(seq, value, range) ==
    LET half == range.size \div 2 IN
    IF range.size = 0 THEN range
    ELSE IF CompareIntervals(value, seq[range.left + half + 1]) > 0
    THEN [left |-> range.left + half + 1, size |-> range.size - half - 1]
    ELSE [left |-> range.left, size |-> half]

(* The loop; there are no more rounds than items.                          *)
Search(seq, value) ==
    LET search[rounds \in Nat] ==
          IF rounds = 0 THEN [left |-> 0, size |-> Len(seq)]
          ELSE Round(seq, value, search[rounds - 1])
    IN search

(* The index, from 0, of the first item that is not less than value.       *)
LowerBound(seq, value) == Search(seq, value)[Len(seq)].left

AddInterval(seq, interval) ==
    InsertAt(seq, LowerBound(seq, interval.first) + 1, interval)
=============================================================================
