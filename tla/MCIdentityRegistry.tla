------------------------- MODULE MCIdentityRegistry -------------------------
(***************************************************************************)
(* Instances of the identity registry for TLC: two user ids that share a   *)
(* bucket, a program name in the other one.                                *)
(***************************************************************************)
EXTENDS IdentityRegistry, TLC

CONSTANTS u1, u2, p1, c1, c2, c3, w1, w2, r1

TwoUids == {u1, u2}
OneProg == {p1}
TwoBuckets == [k \in TwoUids \cup OneProg |-> IF k \in TwoUids THEN 1 ELSE 2]
ThreeCells == {c1, c2, c3}
TwoWriters == {w1, w2}
OneReader == {r1}
OneOrThree == {1, 3}
Symmetry == Permutations(ThreeCells) \cup Permutations(TwoWriters)
=============================================================================
