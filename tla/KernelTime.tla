----------------------------- MODULE KernelTime -----------------------------
(***************************************************************************)
(* The kernel's clock arithmetic, as the module uses it.                   *)
(***************************************************************************)
EXTENDS Integers

CONSTANTS
    HZ,          \* jiffies per second
    UIntRange    \* how many values an unsigned int has, 2^32

\* The lengths of a second for which the kernel converts by multiplying.
ASSUME HZAssumption == HZ \in Nat \ {0} /\ 1000 % HZ = 0
ASSUME UIntRangeAssumption == UIntRange \in Nat \ {0}

\* Milliseconds as an unsigned int.  A negative j stands for the unsigned long 2^64
\* above, whose conversion is the same.
jiffies_to_msecs(j) == ((1000 \div HZ) * j) % UIntRange
=============================================================================
