----------------------------- MODULE MCPeakStats ----------------------------
(***************************************************************************)
(* Instances of the peak delay statistics for TLC.                         *)
(***************************************************************************)
EXTENDS PeakStats, TLC

CONSTANTS t1, t2, t3

ThreeCallers == {t1, t2, t3}
\* With two jiffies to a second and an unsigned int of 1024 values the longer delay wraps
\* around to the smaller number of milliseconds.
TwoDelays == {1, 3}
Symmetry == Permutations(ThreeCallers)
=============================================================================
