-------------------------- MODULE MCSyscallRegistry -------------------------
(***************************************************************************)
(* Instances of the system call registry for TLC: two numbers that share a *)
(* bucket.                                                                 *)
(***************************************************************************)
EXTENDS SyscallRegistry

CONSTANTS s1, s2, bucket, c1, c2, c3, w1, w2, r1

TwoSysNums == {s1, s2}
SharedBucket == [n \in TwoSysNums |-> bucket]
ThreeCells == {c1, c2, c3}
OneWriter == {w1}
TwoWriters == {w1, w2}
OneReader == {r1}
=============================================================================
