---------------------------- MODULE MCUsageStats ----------------------------
(* Bounded instances of UsageStats; the constants are set in the cfgs.     *)
EXTENDS UsageStats, TLC

Symmetry == Permutations(Profiles)

\* Nothing is claimed of states after an overlap; they are not explored further.
NotRaced == ~raced
=============================================================================
