--------------------------- MODULE MCTransaction ---------------------------
(* Instances of Transaction for TLC.                                       *)
EXTENDS Transaction, TLC
CONSTANTS o1, o2
OneOutput  == {o1}
TwoOutputs == {o1, o2}
OneTag     == {1}
TwoTags    == {1, 2}
Swapped    == Permutations({o1, o2})
============================================================================
