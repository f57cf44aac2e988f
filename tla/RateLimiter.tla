---------------------------- MODULE RateLimiter -----------------------------
(***************************************************************************)
(* What the throttling core promises, without wait queue, timer or atomic  *)
(* counters: a call that is subject to the limit is admitted either        *)
(* against one unit of the current window's budget or because the monitor  *)
(* is off; the budget grows only when a window closes, once per window,    *)
(* and then to the limit that was in force when it began to close.         *)
(***************************************************************************)
EXTENDS Integers

CONSTANTS
    Callers,        \* threads that invoke registered system calls
    DefaultLimit,   \* the limit and the budget at the start
    LimitRequests   \* the values a configuration command may ask for

VARIABLES
    on,       \* 1 while the limit is enforced, 0 while it is not
    limit,    \* the configured number of calls per window
    budget,   \* admissions left in this window
    window,   \* "open", or "closing" between the latch and the refill
    offer,    \* the limit latched for the next window, 0 while none is
    phase     \* each caller: out, exempt, pending or admitted

vars == <<on, limit, budget, window, offer, phase>>

Init ==
    /\ on = 1
    /\ limit = DefaultLimit
    /\ budget = DefaultLimit
    /\ window = "open"
    /\ offer = 0
    /\ phase = [c \in Callers |-> "out"]

Move(c, from, to) ==
    /\ phase[c] = from
    /\ phase' = [phase EXCEPT ![c] = to]

\* A call the limit does not apply to: the caller is not registered, or the
\* monitor was off when the call was made.
Exempt(c) ==
    /\ Move(c, "out", "exempt")
    /\ UNCHANGED <<on, limit, budget, window, offer>>

Request(c) ==
    /\ Move(c, "out", "pending")
    /\ UNCHANGED <<on, limit, budget, window, offer>>

\* Admission within the limit.
Admit(c) ==
    /\ Move(c, "pending", "admitted")
    /\ budget > 0
    /\ budget' = budget - 1
    /\ UNCHANGED <<on, limit, window, offer>>

\* Admission without limit, only while the monitor is off.
Bypass(c) ==
    /\ Move(c, "pending", "admitted")
    /\ on = 0
    /\ UNCHANGED <<on, limit, budget, window, offer>>

\* A pending call is interrupted.
Abort(c) ==
    /\ Move(c, "pending", "out")
    /\ UNCHANGED <<on, limit, budget, window, offer>>

Return(c) ==
    /\ \/ Move(c, "admitted", "out")
       \/ Move(c, "exempt", "out")
    /\ UNCHANGED <<on, limit, budget, window, offer>>

CloseWindow ==
    /\ on = 1
    /\ window = "open"
    /\ window' = "closing"
    /\ offer' = limit
    /\ UNCHANGED <<on, limit, budget, phase>>

Refill ==
    /\ window = "closing"
    /\ window' = "open"
    /\ budget' = offer
    /\ offer' = 0
    /\ UNCHANGED <<on, limit, phase>>

Switch ==
    /\ on' = 1 - on
    /\ UNCHANGED <<limit, budget, window, offer, phase>>

SetLimit(l) ==
    /\ l > 0
    /\ limit' = l
    /\ UNCHANGED <<on, budget, window, offer, phase>>

Next ==
    \/ \E c \in Callers :
          \/ Exempt(c) \/ Request(c) \/ Admit(c) \/ Bypass(c) \/ Abort(c)
          \/ Return(c)
    \/ CloseWindow
    \/ Refill
    \/ Switch
    \/ \E l \in LimitRequests : SetLimit(l)

Spec == Init /\ [][Next]_vars
=============================================================================
