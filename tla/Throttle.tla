------------------------------ MODULE Throttle ------------------------------
(***************************************************************************)
(* The throttling core of the module: the token loop of throttling_wrapper *)
(* (src/throttling_api.c), the wait queue thrott_wq, the epoch timer       *)
(* (src/throttling_hidden.c) and the ioctl-side operations that touch them *)
(* (switch_on_monitor, switch_off_monitor, set_max_syscall).               *)
(*                                                                         *)
(* One step is one access to shared state: any number of threads run the   *)
(* wrapper, the timer softirq runs epoch_handler, and any number of root   *)
(* processes sit in the ioctl handler, which takes no lock for these       *)
(* operations.                                                             *)
(*                                                                         *)
(* The module is one slice of those functions.  What the identity lookup   *)
(* answers is a free choice here (module SyscallRegistry has the lookup of *)
(* the original system call), the delay handed to check_and_set_statistic  *)
(* is in PeakStats, and the purely statistical writes (sum_blocked,        *)
(* exponential, start_time, elapsed) are in ThreadStats; nothing in this   *)
(* module reads them.                                                      *)
(***************************************************************************)
EXTENDS Integers, FiniteSets

CONSTANTS
    Threads,    \* threads that invoke a registered system call
    Admins,     \* root processes that may be inside the ioctl handler
    MaxArgs,    \* the ints handed to IOCTL_SET_MAX_CALLS
    Signalled   \* the threads that may receive a signal while they wait

ASSUME ThreadsAssumption == IsFiniteSet(Threads)
ASSUME MaxArgsAssumption == MaxArgs \subseteq Int
ASSUME SignalledAssumption == Signalled \subseteq Threads

VARIABLES
    is_monitor_active,     \* 1 while the monitor is on
    max_syscalls_per_sec,  \* the configured limit
    curr_syscalls,         \* tokens left in the running epoch
    blocked_thread,        \* how many threads are blocked, as counted
    peak_blocked,          \* info_threads.peak_blocked
    pc,                    \* where each thread is in throttling_wrapper
    monitored,             \* the threads whose need_mon is true
    to_call,               \* the local to_call of each thread
    signal_pending,        \* the threads with a signal to handle
    wait_ret,              \* what wait_event_interruptible will return
    thrott_wq,             \* threads queued and not yet made runnable
    timer,                 \* whether epoch_timer is pending
    epc,                   \* where the timer softirq is in epoch_handler
    max,                   \* the local max of epoch_handler, 0 when not live
    apc                    \* where each root process is in its ioctl

threadVars == <<pc, monitored, to_call, signal_pending, wait_ret>>
timerVars  == <<timer, epc, max, peak_blocked>>
vars == <<is_monitor_active, max_syscalls_per_sec, curr_syscalls,
          blocked_thread, thrott_wq, threadVars, timerVars, apc>>

\* The value the module gives to MAX, and to the first epoch's tokens.
DefaultMax == 3

Counted == {"prepare", "eval_active", "eval_curr", "schedule", "unblock"}
ThreadPCs == {"user", "classify", "take", "check_off", "block", "call"}
                 \cup Counted
EpochPCs == {"none", "sample", "refill", "wake", "rearm"}
AdminPCs == {"idle", "off_wake", "off_cleanup", "on_setup"}

Init ==
    /\ is_monitor_active = 1
    /\ max_syscalls_per_sec = DefaultMax
    /\ curr_syscalls = DefaultMax
    /\ blocked_thread = 0
    /\ peak_blocked = 0
    /\ pc = [t \in Threads |-> "user"]
    /\ monitored = {}
    /\ to_call = [t \in Threads |-> "NULL"]
    /\ signal_pending = {}
    /\ wait_ret = [t \in Threads |-> "0"]
    /\ thrott_wq = {}
    /\ timer = "pending"          \* init_module has run core_setup
    /\ epc = "none"
    /\ max = 0
    /\ apc = [a \in Admins |-> "idle"]

-----------------------------------------------------------------------------
(***************************************************************************)
(* throttling_wrapper                                                      *)
(***************************************************************************)
Goto(t, label) == pc' = [pc EXCEPT ![t] = label]

\* The dispatcher jumps to the wrapper, which looks at the monitor first.  With
\* the monitor off it goes straight to original_system_call, to_call still NULL.
Enter(t) ==
    /\ pc[t] = "user"
    /\ Goto(t, IF is_monitor_active = 0 THEN "call" ELSE "classify")
    /\ UNCHANGED <<is_monitor_active, max_syscalls_per_sec, curr_syscalls,
                   blocked_thread, monitored, to_call, signal_pending,
                   wait_ret, thrott_wq, timerVars, apc>>

\* check_uid, check_progname and the lookup of the original system call.  Either
\* answer of the checks is possible; the system call is one that stays registered.
Classify(t) ==
    /\ pc[t] = "classify"
    /\ to_call' = [to_call EXCEPT ![t] = "original"]
    /\ \/ /\ monitored' = monitored \cup {t}
          /\ Goto(t, "take")
       \/ /\ Goto(t, "call")
          /\ UNCHANGED monitored
    /\ UNCHANGED <<is_monitor_active, max_syscalls_per_sec, curr_syscalls,
                   blocked_thread, signal_pending, wait_ret, thrott_wq,
                   timerVars, apc>>

\* Mutant: atomic_dec instead of atomic_dec_if_positive.
TakeTokenBlindly(t) ==
    /\ pc[t] = "take"
    /\ curr_syscalls' = curr_syscalls - 1
    /\ Goto(t, IF curr_syscalls > 0 THEN "call" ELSE "check_off")
    /\ UNCHANGED <<is_monitor_active, max_syscalls_per_sec, blocked_thread,
                   monitored, to_call, signal_pending, wait_ret, thrott_wq,
                   timerVars, apc>>

\* The condition of the while loop: atomic_dec_if_positive(&curr_syscalls) < 0.
TakeToken(t) ==
    /\ pc[t] = "take"
    /\ \/ /\ curr_syscalls > 0
          /\ curr_syscalls' = curr_syscalls - 1
          /\ Goto(t, "call")
       \/ /\ curr_syscalls <= 0
          /\ Goto(t, "check_off")
          /\ UNCHANGED curr_syscalls
    /\ UNCHANGED <<is_monitor_active, max_syscalls_per_sec, blocked_thread,
                   monitored, to_call, signal_pending, wait_ret, thrott_wq,
                   timerVars, apc>>

\* No token: the loop is left if the monitor is off by now.
CheckOff(t) ==
    /\ pc[t] = "check_off"
    /\ Goto(t, IF is_monitor_active = 0 THEN "call" ELSE "block")
    /\ UNCHANGED <<is_monitor_active, max_syscalls_per_sec, curr_syscalls,
                   blocked_thread, monitored, to_call, signal_pending,
                   wait_ret, thrott_wq, timerVars, apc>>

\* atomic64_inc(&blocked_thread); start_time = jiffies.
Block(t) ==
    /\ pc[t] = "block"
    /\ blocked_thread' = blocked_thread + 1
    /\ Goto(t, "prepare")
    /\ UNCHANGED <<is_monitor_active, max_syscalls_per_sec, curr_syscalls,
                   monitored, to_call, signal_pending, wait_ret, thrott_wq,
                   timerVars, apc>>

\* wait_event_interruptible, first half of a round (prepare_to_wait_event): the
\* thread queues itself before it looks at the condition, unless a signal is
\* already pending.
Prepare(t) ==
    /\ pc[t] = "prepare"
    /\ \/ /\ t \in signal_pending
          /\ wait_ret' = [wait_ret EXCEPT ![t] = "-EINTR"]
          /\ thrott_wq' = thrott_wq \ {t}
       \/ /\ t \notin signal_pending
          /\ wait_ret' = [wait_ret EXCEPT ![t] = "0"]
          /\ thrott_wq' = thrott_wq \cup {t}
    /\ Goto(t, "eval_active")
    /\ UNCHANGED <<is_monitor_active, max_syscalls_per_sec, curr_syscalls,
                   blocked_thread, monitored, to_call, signal_pending,
                   timerVars, apc>>

\* The condition holds: finish_wait takes the thread off the queue and the wait
\* returns 0.
FinishWait(t) ==
    /\ thrott_wq' = thrott_wq \ {t}
    /\ wait_ret' = [wait_ret EXCEPT ![t] = "0"]
    /\ Goto(t, "unblock")

\* The condition's first operand: atomic_read(&is_monitor_active) == 0.
EvalActive(t) ==
    /\ pc[t] = "eval_active"
    /\ \/ /\ is_monitor_active = 0
          /\ FinishWait(t)
       \/ /\ is_monitor_active # 0
          /\ Goto(t, "eval_curr")
          /\ UNCHANGED <<thrott_wq, wait_ret>>
    /\ UNCHANGED <<is_monitor_active, max_syscalls_per_sec, curr_syscalls,
                   blocked_thread, monitored, to_call, signal_pending,
                   timerVars, apc>>

\* The condition's second operand: atomic_read(&curr_syscalls) > 0.
EvalCurr(t) ==
    /\ pc[t] = "eval_curr"
    /\ \/ /\ curr_syscalls > 0
          /\ FinishWait(t)
       \/ /\ curr_syscalls <= 0
          /\ Goto(t, IF wait_ret[t] = "0" THEN "schedule" ELSE "unblock")
          /\ UNCHANGED <<thrott_wq, wait_ret>>
    /\ UNCHANGED <<is_monitor_active, max_syscalls_per_sec, curr_syscalls,
                   blocked_thread, monitored, to_call, signal_pending,
                   timerVars, apc>>

\* schedule(): the thread sleeps until somebody takes it off the queue, and then
\* starts another round.
Schedule(t) ==
    /\ pc[t] = "schedule"
    /\ t \notin thrott_wq
    /\ Goto(t, "prepare")
    /\ UNCHANGED <<is_monitor_active, max_syscalls_per_sec, curr_syscalls,
                   blocked_thread, monitored, to_call, signal_pending,
                   wait_ret, thrott_wq, timerVars, apc>>

\* A signal arrives during the wait and makes the thread runnable.
Signal(t) ==
    /\ t \in Signalled
    /\ t \notin signal_pending
    /\ pc[t] \in Counted \ {"unblock"}
    /\ signal_pending' = signal_pending \cup {t}
    /\ thrott_wq' = thrott_wq \ {t}
    /\ UNCHANGED <<is_monitor_active, max_syscalls_per_sec, curr_syscalls,
                   blocked_thread, pc, monitored, to_call, wait_ret,
                   timerVars, apc>>

\* Back in user mode: the wrapper's locals are gone and a pending signal has been
\* handled on the way.
Return(t) ==
    /\ Goto(t, "user")
    /\ to_call' = [to_call EXCEPT ![t] = "NULL"]
    /\ monitored' = monitored \ {t}
    /\ signal_pending' = signal_pending \ {t}

\* Mutant: -EINTR is returned before the count goes down.
UnblockAfterReturn(t) ==
    /\ pc[t] = "unblock"
    /\ wait_ret' = [wait_ret EXCEPT ![t] = "0"]
    /\ \/ /\ wait_ret[t] = "-EINTR"
          /\ Return(t)
          /\ UNCHANGED blocked_thread
       \/ /\ wait_ret[t] = "0"
          /\ blocked_thread' = blocked_thread - 1
          /\ Goto(t, "take")
          /\ UNCHANGED <<to_call, monitored, signal_pending>>
    /\ UNCHANGED <<is_monitor_active, max_syscalls_per_sec, curr_syscalls,
                   thrott_wq, timerVars, apc>>

\* atomic64_dec_return(&blocked_thread), then return -EINTR or another attempt.
Unblock(t) ==
    /\ pc[t] = "unblock"
    /\ blocked_thread' = blocked_thread - 1
    /\ wait_ret' = [wait_ret EXCEPT ![t] = "0"]
    /\ \/ /\ wait_ret[t] = "-EINTR"
          /\ Return(t)
       \/ /\ wait_ret[t] = "0"
          /\ Goto(t, "take")
          /\ UNCHANGED <<to_call, monitored, signal_pending>>
    /\ UNCHANGED <<is_monitor_active, max_syscalls_per_sec, curr_syscalls,
                   thrott_wq, timerVars, apc>>

\* original_system_call: to_call(regs), or -ENOSYS when to_call is NULL.
Call(t) ==
    /\ pc[t] = "call"
    /\ Return(t)
    /\ UNCHANGED <<is_monitor_active, max_syscalls_per_sec, curr_syscalls,
                   blocked_thread, wait_ret, thrott_wq, timerVars, apc>>

-----------------------------------------------------------------------------
(***************************************************************************)
(* epoch_handler, in the timer softirq.  wake_up_all and                   *)
(* wake_up_interruptible both make every queued thread runnable: the       *)
(* waiters of wait_event_interruptible are not exclusive.                  *)
(***************************************************************************)
\* Mutant: as for exclusive waiters, only one thread is woken.
WakeUpOne ==
    IF thrott_wq = {}
    THEN UNCHANGED thrott_wq
    ELSE \E t \in thrott_wq : thrott_wq' = thrott_wq \ {t}

WakeUp == thrott_wq' = {}

\* The timer expires (it is no longer pending) and the handler looks at the
\* monitor: off, it returns and the timer stays stopped; on, it reads the limit.
EpochBegin ==
    /\ timer = "pending"
    /\ epc = "none"
    /\ timer' = "stopped"
    /\ \/ /\ is_monitor_active = 0
          /\ UNCHANGED <<epc, max>>
       \/ /\ is_monitor_active # 0
          /\ max' = max_syscalls_per_sec
          /\ epc' = "sample"
    /\ UNCHANGED <<is_monitor_active, max_syscalls_per_sec, curr_syscalls,
                   blocked_thread, peak_blocked, thrott_wq, threadVars, apc>>

\* The number of blocked threads is sampled into the statistics.
EpochSample ==
    /\ epc = "sample"
    /\ epc' = "refill"
    /\ peak_blocked' = IF blocked_thread > peak_blocked
                       THEN blocked_thread ELSE peak_blocked
    /\ UNCHANGED <<is_monitor_active, max_syscalls_per_sec, curr_syscalls,
                   blocked_thread, thrott_wq, threadVars, timer, max, apc>>

\* Mutant: the tokens left over are kept (atomic_add for atomic_set).
EpochRefillAdding ==
    /\ epc = "refill"
    /\ epc' = "wake"
    /\ curr_syscalls' = curr_syscalls + max
    /\ max' = 0
    /\ UNCHANGED <<is_monitor_active, max_syscalls_per_sec, blocked_thread,
                   thrott_wq, threadVars, timer, peak_blocked, apc>>

\* atomic_set(&curr_syscalls, max), the last use of max.
EpochRefill ==
    /\ epc = "refill"
    /\ epc' = "wake"
    /\ curr_syscalls' = max
    /\ max' = 0
    /\ UNCHANGED <<is_monitor_active, max_syscalls_per_sec, blocked_thread,
                   thrott_wq, threadVars, timer, peak_blocked, apc>>

EpochWake ==
    /\ epc = "wake"
    /\ epc' = "rearm"
    /\ WakeUp
    /\ UNCHANGED <<is_monitor_active, max_syscalls_per_sec, curr_syscalls,
                   blocked_thread, threadVars, timer, max, peak_blocked, apc>>

\* Mutant: the timer is not armed for the next epoch.
EpochNoRearm ==
    /\ epc = "rearm"
    /\ epc' = "none"
    /\ UNCHANGED <<is_monitor_active, max_syscalls_per_sec, curr_syscalls,
                   blocked_thread, thrott_wq, threadVars, timer, max,
                   peak_blocked, apc>>

\* mod_timer(&epoch_timer, jiffies + HZ).
EpochRearm ==
    /\ epc = "rearm"
    /\ epc' = "none"
    /\ timer' = "pending"
    /\ UNCHANGED <<is_monitor_active, max_syscalls_per_sec, curr_syscalls,
                   blocked_thread, thrott_wq, threadVars, max, peak_blocked,
                   apc>>

-----------------------------------------------------------------------------
(***************************************************************************)
(* switch_off_monitor, switch_on_monitor, set_max_syscall                  *)
(***************************************************************************)
AdminGoto(a, label) == apc' = [apc EXCEPT ![a] = label]

\* atomic_cmpxchg(&is_monitor_active, 1, 0); -EALREADY changes nothing.
SwitchOff(a) ==
    /\ apc[a] = "idle"
    /\ is_monitor_active = 1
    /\ is_monitor_active' = 0
    /\ AdminGoto(a, "off_wake")
    /\ UNCHANGED <<max_syscalls_per_sec, curr_syscalls, blocked_thread,
                   thrott_wq, threadVars, timerVars>>

\* wake_up_all(&thrott_wq).
SwitchOffWake(a) ==
    /\ apc[a] = "off_wake"
    /\ WakeUp
    /\ AdminGoto(a, "off_cleanup")
    /\ UNCHANGED <<is_monitor_active, max_syscalls_per_sec, curr_syscalls,
                   blocked_thread, threadVars, timerVars>>

\* Mutant: timer_delete_sync is forgotten.
SwitchOffNoCleanup(a) ==
    /\ apc[a] = "off_cleanup"
    /\ AdminGoto(a, "idle")
    /\ UNCHANGED <<is_monitor_active, max_syscalls_per_sec, curr_syscalls,
                   blocked_thread, thrott_wq, threadVars, timerVars>>

\* core_cleanup: timer_delete_sync waits for a running handler and leaves the
\* timer stopped, whoever had started it.
SwitchOffCleanup(a) ==
    /\ apc[a] = "off_cleanup"
    /\ epc = "none"
    /\ timer' = "stopped"
    /\ AdminGoto(a, "idle")
    /\ UNCHANGED <<is_monitor_active, max_syscalls_per_sec, curr_syscalls,
                   blocked_thread, thrott_wq, threadVars, epc, max,
                   peak_blocked>>

\* atomic_cmpxchg(&is_monitor_active, 0, 1); -EALREADY changes nothing.
SwitchOn(a) ==
    /\ apc[a] = "idle"
    /\ is_monitor_active = 0
    /\ is_monitor_active' = 1
    /\ AdminGoto(a, "on_setup")
    /\ UNCHANGED <<max_syscalls_per_sec, curr_syscalls, blocked_thread,
                   thrott_wq, threadVars, timerVars>>

\* core_setup: timer_setup and mod_timer.  timer_setup on a timer that is still
\* pending corrupts the timer wheel: it may then expire or be lost.
SwitchOnSetup(a) ==
    /\ apc[a] = "on_setup"
    /\ \/ timer' = "pending"
       \/ timer = "pending" /\ timer' = "stopped"
    /\ AdminGoto(a, "idle")
    /\ UNCHANGED <<is_monitor_active, max_syscalls_per_sec, curr_syscalls,
                   blocked_thread, thrott_wq, threadVars, epc, max,
                   peak_blocked>>

\* Mutant: a limit of zero is accepted.
SetMaxUnchecked(a, new_max) ==
    /\ apc[a] = "idle"
    /\ new_max >= 0
    /\ max_syscalls_per_sec' = new_max
    /\ UNCHANGED <<is_monitor_active, curr_syscalls, blocked_thread,
                   thrott_wq, threadVars, timerVars, apc>>

\* atomic_xchg(&max_syscalls_per_sec, new_max); -EINVAL changes nothing.
SetMax(a, new_max) ==
    /\ apc[a] = "idle"
    /\ new_max > 0
    /\ max_syscalls_per_sec' = new_max
    /\ UNCHANGED <<is_monitor_active, curr_syscalls, blocked_thread,
                   thrott_wq, threadVars, timerVars, apc>>

-----------------------------------------------------------------------------
\* The steps a thread takes by itself between entering the wrapper and calling
\* the original system call.
Wrapper(t) ==
    \/ Classify(t) \/ TakeToken(t) \/ CheckOff(t) \/ Block(t) \/ Prepare(t)
    \/ EvalActive(t) \/ EvalCurr(t) \/ Schedule(t) \/ Unblock(t)

EpochHandler ==
    EpochBegin \/ EpochSample \/ EpochRefill \/ EpochWake \/ EpochRearm

\* The steps that finish a switch that has begun.
FinishSwitch(a) ==
    SwitchOffWake(a) \/ SwitchOffCleanup(a) \/ SwitchOnSetup(a)

Next ==
    \/ \E t \in Threads : Enter(t) \/ Wrapper(t) \/ Call(t) \/ Signal(t)
    \/ EpochHandler
    \/ \E a \in Admins :
          \/ SwitchOff(a) \/ SwitchOn(a) \/ FinishSwitch(a)
          \/ \E new_max \in MaxArgs : SetMax(a, new_max)

Spec == Init /\ [][Next]_vars

\* The kernel keeps running a thread that is runnable inside the wrapper, a root
\* process inside its ioctl, and an expired timer.  Nobody has to invoke a system
\* call, to send a signal or to change the configuration, and the original system
\* call may block for ever.
Fairness ==
    /\ \A t \in Threads : WF_vars(Wrapper(t))
    /\ WF_vars(EpochHandler)
    /\ \A a \in Admins : WF_vars(FinishSwitch(a))

FairSpec == Spec /\ Fairness

-----------------------------------------------------------------------------
(***************************************************************************)
(* Properties                                                              *)
(***************************************************************************)
TypeOK ==
    /\ is_monitor_active \in {0, 1}
    /\ max_syscalls_per_sec \in Nat \ {0}
    /\ curr_syscalls \in Nat
    /\ blocked_thread \in Int
    /\ peak_blocked \in Nat
    /\ pc \in [Threads -> ThreadPCs]
    /\ monitored \subseteq Threads
    /\ to_call \in [Threads -> {"NULL", "original"}]
    /\ signal_pending \subseteq Threads
    /\ wait_ret \in [Threads -> {"0", "-EINTR"}]
    /\ thrott_wq \subseteq Threads
    /\ timer \in {"pending", "stopped"}
    /\ epc \in EpochPCs
    /\ max \in Nat
    /\ apc \in [Admins -> AdminPCs]

\* The threads that have been counted in and not yet counted out.
Blocked == {t \in Threads : pc[t] \in Counted}

\* blocked_thread is exactly the number of threads between the atomic64_inc and
\* the atomic64_dec of the wrapper, whichever way each of them left its wait
\* (token, monitor off, signal): the statistics sample a true number.
BlockedCountExact == blocked_thread = Cardinality(Blocked)

\* A thread that sleeps although its condition holds is about to be woken: by the
\* root process that switched the monitor off and has not called wake_up_all yet,
\* or by the epoch handler that refilled the tokens and has not woken yet.
NoLostWakeup ==
    \A t \in Threads : pc[t] = "schedule" /\ t \in thrott_wq =>
        /\ is_monitor_active = 0 => \E a \in Admins : apc[a] = "off_wake"
        /\ curr_syscalls > 0 => epc = "wake"

\* While the monitor is on and no switch is under way, the epoch timer is pending
\* or its handler is running: somebody is going to refill the tokens.
ActiveMonitorHasTimer ==
    is_monitor_active = 1 /\ (\A a \in Admins : apc[a] = "idle")
        => timer = "pending" \/ epc # "none"

\* switch_on_monitor never re-initialises a timer that is pending or whose
\* handler is running (timer_setup is not allowed on such a timer).
TimerSetupOnIdleTimer ==
    \A a \in Admins : apc[a] = "on_setup" => timer = "stopped" /\ epc = "none"

\* Throttling_wrapper always reaches the original system call: to_call is not
\* NULL when it is used (otherwise the caller gets -ENOSYS).
OriginalAlwaysCalled ==
    \A t \in Threads : pc[t] = "call" => to_call[t] = "original"

\* A thread is only blocked temporarily: a sleeping thread is eventually woken,
\* by a refill, by the monitor being switched off or by a signal.
Asleep(t) == pc[t] = "schedule" /\ t \in thrott_wq
SleepersAreWoken == \A t \in Threads : Asleep(t) ~> ~Asleep(t)

\* Once the monitor is off for good every blocked thread goes, and nobody blocks
\* any more.
OffReleasesEverybody == <>[](is_monitor_active = 0) => <>[](Blocked = {})

\* The wait is a competition that a thread may lose in every epoch; but once the other
\* threads stay away and the monitor is no longer switched, it gets its system call,
\* however often it was woken for nothing and whatever limit is set meanwhile.
LoneThreadGetsThrough ==
    \A t \in Threads :
        <>[](/\ \A u \in Threads \ {t} : pc[u] = "user"
            /\ \A a \in Admins : apc[a] = "idle")
            => []<>(pc[t] \in {"user", "call"})
=============================================================================
