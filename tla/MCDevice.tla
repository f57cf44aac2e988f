------------------------------ MODULE MCDevice ------------------------------
(***************************************************************************)
(* Instances of the device for TLC: a root process and a user process, one *)
(* system call, a user id and two program names.                           *)
(***************************************************************************)
EXTENDS Device, TLC

CONSTANTS root, user, u1, g1, g2

TwoProcs == {root, user}
OneRoot == {root}
OneUid == {u1}
TwoProgs == {g1, g2}
SomeLimits == {0, 2}
Symmetry == Permutations(TwoProgs)
=============================================================================
