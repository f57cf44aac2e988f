------------------------- MODULE ThrottleRefinement -------------------------
(***************************************************************************)
(* The refinement mapping from the throttling core to the rate limiter it  *)
(* implements.  A caller's phase is read off its program counter; a window *)
(* is closing from the moment epoch_handler reads max_syscalls_per_sec     *)
(* until it stores the value in curr_syscalls.                             *)
(***************************************************************************)
EXTENDS Throttle

PhaseOf(t) ==
    CASE pc[t] \in {"user", "classify"} -> "out"
      [] pc[t] = "call" -> IF t \in monitored THEN "admitted" ELSE "exempt"
      [] OTHER -> "pending"

phases == [t \in Threads |-> PhaseOf(t)]
windowState == IF epc \in {"sample", "refill"} THEN "closing" ELSE "open"

RL == INSTANCE RateLimiter WITH
        Callers <- Threads,
        DefaultLimit <- DefaultMax,
        LimitRequests <- MaxArgs,
        on <- is_monitor_active,
        limit <- max_syscalls_per_sec,
        budget <- curr_syscalls,
        window <- windowState,
        offer <- max,
        phase <- phases

\* The wrapper, the epoch handler and the ioctl operations together implement the
\* rate limiter: no call that is subject to the limit runs without a token of the
\* current epoch, unless the monitor was seen off while the call was pending.
ImplementsRateLimiter == RL!Spec
=============================================================================
