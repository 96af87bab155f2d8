---------------------------- MODULE MCCreateWait ----------------------------
(* Model-checking instances of CreateWait.                                 *)
EXTENDS CreateWait, TLC

CONSTANTS w1, w2, w3, o1

(* w1 and w2 may reuse each other's location; a thread that is detached or *)
(* cancelled has a start routine of its own.                               *)
TwoRoutines == [t \in Workers |-> IF t = w3 THEN "g" ELSE "f"]

Symmetry == Permutations({w1, w2} \cap Workers)
=============================================================================
