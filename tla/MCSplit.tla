------------------------------- MODULE MCSplit ------------------------------
(* Split for TLC: sizes that are and are not multiples of the group, no    *)
(* group, empty dimensions.                                                *)
EXTENDS Split

SmallScores == 0..3
SmallSizes == {0, 1, 4, 7}
SmallLocals == 0..3
=============================================================================
