------------------------------ MODULE MCSwdLink ------------------------------
(* An instance of SwdLink for TLC: eight words in two regions.  Blocks begin   *)
(* in the middle of a region, on its last word, and near the last address.     *)
EXTENDS SwdLink

MCStarts == {2, 6}
MCCounts == {1, 3}
=============================================================================
