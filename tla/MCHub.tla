------------------------------- MODULE MCHub -------------------------------
(* Instances of Hub for TLC: a data phase of two clocks, recovered by       *)
(* exactly two, and recoveries of zero to two clocks asked for by a host.   *)
EXTENDS Hub

MCCycleCounts == 0..2
=============================================================================
