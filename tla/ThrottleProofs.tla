--------------------------- MODULE ThrottleProofs ---------------------------
(***************************************************************************)
(* Theorems about the throttling core, for every set of threads, of root   *)
(* processes and of requested limits.                                      *)
(***************************************************************************)
EXTENDS ThrottleRefinement, FiniteSetTheorems, TLAPS

-----------------------------------------------------------------------------
(***************************************************************************)
(* Type correctness                                                        *)
(***************************************************************************)

\* Every step of the core keeps every variable in its range; in particular
\* curr_syscalls never becomes negative (atomic_dec_if_positive) and the limit
\* stays positive (set_max_syscall refuses the rest).
LEMMA TypeStep == TypeOK /\ [Next]_vars => TypeOK'
<1> SUFFICES ASSUME TypeOK, [Next]_vars PROVE TypeOK'
  OBVIOUS
<1> USE DEF TypeOK, ThreadPCs, Counted, EpochPCs, AdminPCs, threadVars,
            timerVars, Goto, AdminGoto
<1>1. ASSUME NEW t \in Threads, Enter(t) \/ Classify(t) \/ TakeToken(t)
      PROVE  TypeOK'
  BY <1>1 DEF Enter, Classify, TakeToken
<1>2. ASSUME NEW t \in Threads, CheckOff(t) \/ Block(t) \/ Prepare(t)
      PROVE  TypeOK'
  BY <1>2 DEF CheckOff, Block, Prepare
<1>3. ASSUME NEW t \in Threads, EvalActive(t) \/ EvalCurr(t) \/ Schedule(t)
      PROVE  TypeOK'
  BY <1>3 DEF EvalActive, EvalCurr, Schedule, FinishWait
<1>4. ASSUME NEW t \in Threads, Signal(t) \/ Unblock(t) \/ Call(t)
      PROVE  TypeOK'
  BY <1>4 DEF Signal, Unblock, Call, Return
<1>5. ASSUME EpochHandler PROVE TypeOK'
  BY <1>5 DEF EpochHandler, EpochBegin, EpochSample, EpochRefill, EpochWake,
              EpochRearm, WakeUp
<1>6. ASSUME NEW a \in Admins, SwitchOff(a) \/ SwitchOn(a) \/ FinishSwitch(a)
      PROVE  TypeOK'
  BY <1>6 DEF SwitchOff, SwitchOn, FinishSwitch, SwitchOffWake,
              SwitchOffCleanup, SwitchOnSetup, WakeUp
<1>7. ASSUME NEW a \in Admins, NEW new_max \in MaxArgs, SetMax(a, new_max)
      PROVE  TypeOK'
  BY <1>7, MaxArgsAssumption DEF SetMax
<1>8. CASE UNCHANGED vars
  BY <1>8 DEF vars
<1> QED
  BY <1>1, <1>2, <1>3, <1>4, <1>5, <1>6, <1>7, <1>8 DEF Next, Wrapper

\* The type invariant of the core: counters, program counters and queues stay in
\* their ranges whatever threads, handler and root processes do.
THEOREM TypeCorrect == Spec => []TypeOK
<1>1. Init => TypeOK
  BY DEF Init, TypeOK, DefaultMax, ThreadPCs, EpochPCs, AdminPCs
<1> QED
  BY <1>1, TypeStep, PTL DEF Spec

-----------------------------------------------------------------------------
(***************************************************************************)
(* No lost wakeup.  The property speaks of threads that sleep.  What makes *)
(* it inductive is that a thread has queued itself before it evaluates the *)
(* condition: from the moment it has seen the monitor on, switching the    *)
(* monitor off leaves a wake_up_all still to come.                         *)
(***************************************************************************)
WakePending ==
    \A t \in Threads :
        /\ /\ pc[t] \in {"eval_curr", "schedule"}
           /\ t \in thrott_wq
           /\ is_monitor_active = 0
           => \E a \in Admins : apc[a] = "off_wake"
        /\ /\ pc[t] = "schedule"
           /\ t \in thrott_wq
           /\ curr_syscalls > 0
           => epc = "wake"

\* No step of a thread, of the epoch handler or of a switch leaves a queued thread
\* that has seen its condition false without a waker once the condition is true.
LEMMA WakePendingStep == TypeOK /\ WakePending /\ [Next]_vars => WakePending'
<1> SUFFICES ASSUME TypeOK, WakePending, [Next]_vars PROVE WakePending'
  OBVIOUS
<1> USE DEF WakePending
<1>1. ASSUME NEW t \in Threads,
             Enter(t) \/ Classify(t) \/ CheckOff(t) \/ Block(t)
      PROVE  WakePending'
  BY <1>1 DEF TypeOK, Enter, Classify, CheckOff, Block, Goto, timerVars
<1>2. ASSUME NEW t \in Threads, TakeToken(t) PROVE WakePending'
  BY <1>2 DEF TypeOK, TakeToken, Goto, timerVars
<1>3. ASSUME NEW t \in Threads, Prepare(t) PROVE WakePending'
  BY <1>3 DEF TypeOK, Prepare, Goto, timerVars
<1>4. ASSUME NEW t \in Threads, EvalActive(t) PROVE WakePending'
  BY <1>4 DEF TypeOK, EvalActive, FinishWait, Goto, timerVars
<1>5. ASSUME NEW t \in Threads, EvalCurr(t) PROVE WakePending'
  BY <1>5 DEF TypeOK, EvalCurr, FinishWait, Goto, timerVars
<1>6. ASSUME NEW t \in Threads, Schedule(t) \/ Signal(t) PROVE WakePending'
  BY <1>6 DEF TypeOK, Schedule, Signal, Goto, timerVars
<1>7. ASSUME NEW t \in Threads, Unblock(t) \/ Call(t) PROVE WakePending'
  BY <1>7 DEF TypeOK, Unblock, Call, Return, Goto, timerVars
<1>8. ASSUME EpochHandler PROVE WakePending'
  BY <1>8 DEF TypeOK, EpochHandler, EpochBegin, EpochSample, EpochRefill,
              EpochWake, EpochRearm, WakeUp, threadVars
<1>9. ASSUME NEW a \in Admins, SwitchOff(a) \/ SwitchOn(a)
      PROVE  WakePending'
  BY <1>9 DEF TypeOK, SwitchOff, SwitchOn, AdminGoto, threadVars, timerVars
<1>10. ASSUME NEW a \in Admins, FinishSwitch(a) PROVE WakePending'
  <2>1. CASE SwitchOffWake(a)
    BY <2>1 DEF SwitchOffWake, WakeUp
  <2>2. CASE SwitchOffCleanup(a) \/ SwitchOnSetup(a)
    BY <2>2 DEF TypeOK, SwitchOffCleanup, SwitchOnSetup, AdminGoto, threadVars
  <2> QED
    BY <1>10, <2>1, <2>2 DEF FinishSwitch
<1>11. ASSUME NEW a \in Admins, NEW new_max \in MaxArgs, SetMax(a, new_max)
       PROVE  WakePending'
  BY <1>11 DEF SetMax, threadVars, timerVars
<1>12. CASE UNCHANGED vars
  BY <1>12 DEF vars, threadVars, timerVars
<1> QED
  BY <1>1, <1>2, <1>3, <1>4, <1>5, <1>6, <1>7, <1>8, <1>9, <1>10, <1>11, <1>12
     DEF Next, Wrapper

\* No wakeup is lost between a thread's evaluation of its wait condition and its
\* going to sleep, for any number of threads and of concurrent switches of the
\* monitor: a thread asleep with its condition true is about to be woken.
THEOREM WakeupsAreNotLost == Spec => []NoLostWakeup
<1>1. Init => WakePending
  BY DEF Init, WakePending
<1>2. WakePending => NoLostWakeup
  BY DEF WakePending, NoLostWakeup
<1> QED
  BY <1>1, <1>2, TypeCorrect, WakePendingStep, PTL DEF Spec

-----------------------------------------------------------------------------
(***************************************************************************)
(* The number of blocked threads                                           *)
(***************************************************************************)

\* Cardinality after one element joins or leaves a finite set: what the
\* atomic64_inc and the atomic64_dec of the wrapper have to match.
LEMMA AddOne == ASSUME NEW S, IsFiniteSet(S), NEW x, x \notin S
                PROVE  Cardinality(S \cup {x}) = Cardinality(S) + 1
  BY FS_AddElement

\* The same for a thread that is counted out.
LEMMA RemoveOne == ASSUME NEW S, IsFiniteSet(S), NEW x \in S
                   PROVE  Cardinality(S \ {x}) = Cardinality(S) - 1
  BY FS_RemoveElement

\* Only Block and Unblock change the set of counted threads, by the thread that
\* takes the step, and they change blocked_thread by one in the same step.
LEMMA BlockedStep ==
    TypeOK /\ BlockedCountExact /\ [Next]_vars => BlockedCountExact'
<1> SUFFICES ASSUME TypeOK, BlockedCountExact, [Next]_vars
             PROVE  BlockedCountExact'
  OBVIOUS
<1> USE DEF BlockedCountExact
<1>fin. IsFiniteSet(Blocked)
  BY ThreadsAssumption, FS_Subset DEF Blocked
<1>same. ASSUME Blocked' = Blocked, blocked_thread' = blocked_thread
         PROVE  BlockedCountExact'
  BY <1>same
<1>1. ASSUME NEW t \in Threads,
             Enter(t) \/ Classify(t) \/ TakeToken(t) \/ CheckOff(t) \/ Call(t)
      PROVE  BlockedCountExact'
  <2>1. Blocked' = Blocked /\ blocked_thread' = blocked_thread
    BY <1>1 DEF TypeOK, Blocked, Counted, Enter, Classify, TakeToken, CheckOff,
                Call, Return, Goto
  <2> QED
    BY <2>1, <1>same
<1>2. ASSUME NEW t \in Threads, Block(t) PROVE BlockedCountExact'
  <2>1. t \notin Blocked /\ Blocked' = Blocked \cup {t}
    BY <1>2 DEF TypeOK, Blocked, Counted, Block, Goto
  <2>2. blocked_thread' = blocked_thread + 1
    BY <1>2 DEF Block
  <2> QED
    BY <2>1, <2>2, <1>fin, AddOne
<1>3. ASSUME NEW t \in Threads,
             Prepare(t) \/ EvalActive(t) \/ EvalCurr(t) \/ Schedule(t)
               \/ Signal(t)
      PROVE  BlockedCountExact'
  <2>1. Blocked' = Blocked /\ blocked_thread' = blocked_thread
    BY <1>3 DEF TypeOK, Blocked, Counted, Prepare, EvalActive, EvalCurr,
                Schedule, Signal, FinishWait, Goto
  <2> QED
    BY <2>1, <1>same
<1>4. ASSUME NEW t \in Threads, Unblock(t) PROVE BlockedCountExact'
  <2>1. t \in Blocked /\ Blocked' = Blocked \ {t}
    BY <1>4 DEF TypeOK, Blocked, Counted, Unblock, Return, Goto
  <2>2. blocked_thread' = blocked_thread - 1
    BY <1>4 DEF Unblock
  <2> QED
    BY <2>1, <2>2, <1>fin, RemoveOne
<1>5. ASSUME EpochHandler PROVE BlockedCountExact'
  <2>1. Blocked' = Blocked /\ blocked_thread' = blocked_thread
    BY <1>5 DEF Blocked, EpochHandler, EpochBegin, EpochSample, EpochRefill,
                EpochWake, EpochRearm, threadVars
  <2> QED
    BY <2>1, <1>same
<1>6. ASSUME NEW a \in Admins,
             \/ SwitchOff(a) \/ SwitchOn(a) \/ FinishSwitch(a)
             \/ \E new_max \in MaxArgs : SetMax(a, new_max)
      PROVE  BlockedCountExact'
  <2>1. Blocked' = Blocked /\ blocked_thread' = blocked_thread
    BY <1>6 DEF Blocked, SwitchOff, SwitchOn, FinishSwitch, SwitchOffWake,
                SwitchOffCleanup, SwitchOnSetup, SetMax, threadVars
  <2> QED
    BY <2>1, <1>same
<1>7. CASE UNCHANGED vars
  <2>1. Blocked' = Blocked /\ blocked_thread' = blocked_thread
    BY <1>7 DEF Blocked, vars, threadVars
  <2> QED
    BY <2>1, <1>same
<1> QED
  BY <1>1, <1>2, <1>3, <1>4, <1>5, <1>6, <1>7 DEF Next, Wrapper

\* blocked_thread always equals the number of threads inside the wrapper's wait,
\* for every finite set of threads and whichever way each of them leaves.
THEOREM BlockedCountIsExact == Spec => []BlockedCountExact
<1>1. Init => BlockedCountExact
  <2> SUFFICES ASSUME Init PROVE BlockedCountExact
    OBVIOUS
  <2>1. Blocked = {}
    BY DEF Init, Blocked, Counted
  <2> QED
    BY <2>1, FS_EmptySet DEF Init, BlockedCountExact
<1> QED
  BY <1>1, TypeCorrect, BlockedStep, PTL DEF Spec

-----------------------------------------------------------------------------
(***************************************************************************)
(* The epoch timer, when the switches of the monitor do not overlap        *)
(***************************************************************************)

\* At most one root process is inside the ioctl handler.
OneSwitcher == \A a, b \in Admins : a = b

\* What a switch in progress has done so far to the flag and to the timer, and
\* what it leaves behind: on with a live timer, or off with a dead one.
SwitchState ==
    /\ \A a \in Admins :
          /\ apc[a] \in {"off_wake", "off_cleanup"} => is_monitor_active = 0
          /\ apc[a] = "on_setup" =>
                is_monitor_active = 1 /\ timer = "stopped" /\ epc = "none"
    /\ (\A a \in Admins : apc[a] = "idle") =>
          IF is_monitor_active = 1 THEN timer = "pending" \/ epc # "none"
                                   ELSE timer = "stopped" /\ epc = "none"

\* The flag, the timer and the place of the single root process keep step.
LEMMA SwitchStateStep ==
    OneSwitcher /\ TypeOK /\ SwitchState /\ [Next]_vars => SwitchState'
<1> SUFFICES ASSUME OneSwitcher, TypeOK, SwitchState, [Next]_vars
             PROVE  SwitchState'
  OBVIOUS
<1> USE DEF SwitchState
<1>1. ASSUME UNCHANGED <<is_monitor_active, timerVars, apc>>
      PROVE  SwitchState'
  BY <1>1 DEF timerVars
<1>2. ASSUME NEW t \in Threads,
             Enter(t) \/ Wrapper(t) \/ Call(t) \/ Signal(t)
      PROVE  SwitchState'
  <2>1. UNCHANGED <<is_monitor_active, timerVars, apc>>
    BY <1>2 DEF Enter, Wrapper, Call, Signal, Classify, TakeToken, CheckOff,
                Block, Prepare, EvalActive, EvalCurr, Schedule, Unblock
  <2> QED
    BY <2>1, <1>1
<1>3. ASSUME EpochHandler PROVE SwitchState'
  <2>1. ASSUME NEW a \in Admins, apc[a] # "idle" PROVE SwitchState'
    BY <1>3, <2>1 DEF TypeOK, EpochHandler, EpochBegin, EpochSample,
                      EpochRefill, EpochWake, EpochRearm
  <2>2. CASE \A a \in Admins : apc[a] = "idle"
    BY <1>3, <2>2 DEF TypeOK, EpochHandler, EpochBegin, EpochSample,
                      EpochRefill, EpochWake, EpochRearm
  <2> QED
    BY <2>1, <2>2
<1>4. ASSUME NEW a \in Admins, SwitchOff(a) \/ SwitchOn(a)
      PROVE  SwitchState'
  <2>1. \A b \in Admins : apc[b] = "idle"
    BY <1>4 DEF OneSwitcher, SwitchOff, SwitchOn
  <2> QED
    BY <1>4, <2>1 DEF TypeOK, SwitchOff, SwitchOn, AdminGoto, timerVars,
                      OneSwitcher
<1>5. ASSUME NEW a \in Admins, FinishSwitch(a) PROVE SwitchState'
  BY <1>5 DEF TypeOK, FinishSwitch, SwitchOffWake, SwitchOffCleanup,
              SwitchOnSetup, AdminGoto, timerVars, OneSwitcher
<1>6. ASSUME NEW a \in Admins, NEW new_max \in MaxArgs, SetMax(a, new_max)
      PROVE  SwitchState'
  BY <1>6, <1>1 DEF SetMax
<1>7. CASE UNCHANGED vars
  BY <1>7, <1>1 DEF vars
<1> QED
  BY <1>2, <1>3, <1>4, <1>5, <1>6, <1>7 DEF Next

\* While at most one root process switches the monitor at a time, an active
\* monitor always has a live epoch timer, so every epoch ends with a refill.
THEOREM TimerFollowsMonitor == OneSwitcher /\ Spec => []ActiveMonitorHasTimer
<1>1. Init => SwitchState
  BY DEF Init, SwitchState
<1>2. SwitchState => ActiveMonitorHasTimer
  BY DEF SwitchState, ActiveMonitorHasTimer
<1>3. OneSwitcher => OneSwitcher'
  BY DEF OneSwitcher
<1> QED
  BY <1>1, <1>2, <1>3, TypeCorrect, SwitchStateStep, PTL DEF Spec

\* Under the same condition timer_setup only ever meets a timer at rest.
THEOREM TimerSetupIsLegal == OneSwitcher /\ Spec => []TimerSetupOnIdleTimer
<1>1. Init => SwitchState
  BY DEF Init, SwitchState
<1>2. SwitchState => TimerSetupOnIdleTimer
  BY DEF SwitchState, TimerSetupOnIdleTimer
<1>3. OneSwitcher => OneSwitcher'
  BY DEF OneSwitcher
<1> QED
  BY <1>1, <1>2, <1>3, TypeCorrect, SwitchStateStep, PTL DEF Spec

-----------------------------------------------------------------------------
(***************************************************************************)
(* The core implements the rate limiter                                    *)
(***************************************************************************)

\* need_mon is only true of a thread that has been classified, and stays true of
\* a thread that is waiting for admission.
MonitoredOK ==
    \A t \in Threads :
        /\ pc[t] \in {"user", "classify"} => t \notin monitored
        /\ pc[t] \notin {"user", "classify", "call"} => t \in monitored

\* need_mon is set exactly for the threads that classified themselves as subject to
\* the limit and have not returned.
LEMMA MonitoredStep == TypeOK /\ MonitoredOK /\ [Next]_vars => MonitoredOK'
<1> SUFFICES ASSUME TypeOK, MonitoredOK, [Next]_vars PROVE MonitoredOK'
  OBVIOUS
<1> USE DEF MonitoredOK
<1>1. ASSUME NEW t \in Threads, Enter(t) \/ Wrapper(t) \/ Call(t) \/ Signal(t)
      PROVE  MonitoredOK'
  <2>1. CASE Enter(t) \/ Classify(t) \/ TakeToken(t) \/ CheckOff(t) \/ Block(t)
    BY <2>1 DEF TypeOK, Enter, Classify, TakeToken, CheckOff, Block, Goto
  <2>2. CASE \/ Prepare(t) \/ EvalActive(t) \/ EvalCurr(t) \/ Schedule(t)
             \/ Signal(t)
    BY <2>2 DEF TypeOK, Prepare, EvalActive, EvalCurr, Schedule, Signal,
                FinishWait, Goto, Counted
  <2>3. CASE Unblock(t) \/ Call(t)
    BY <2>3 DEF TypeOK, Unblock, Call, Return, Goto
  <2> QED
    BY <1>1, <2>1, <2>2, <2>3 DEF Wrapper
<1>2. ASSUME UNCHANGED threadVars PROVE MonitoredOK'
  BY <1>2 DEF threadVars
<1>3. ASSUME EpochHandler PROVE MonitoredOK'
  BY <1>2, <1>3 DEF EpochHandler, EpochBegin, EpochSample, EpochRefill,
                    EpochWake, EpochRearm
<1>4. ASSUME NEW a \in Admins,
             \/ SwitchOff(a) \/ SwitchOn(a) \/ FinishSwitch(a)
             \/ \E new_max \in MaxArgs : SetMax(a, new_max)
      PROVE  MonitoredOK'
  BY <1>2, <1>4 DEF SwitchOff, SwitchOn, FinishSwitch, SwitchOffWake,
                    SwitchOffCleanup, SwitchOnSetup, SetMax
<1>5. CASE UNCHANGED vars
  BY <1>2, <1>5 DEF vars
<1> QED
  BY <1>1, <1>3, <1>4, <1>5 DEF Next

\* A step that moves one thread moves one caller, and nobody else.
LEMMA PhaseOfOne ==
    ASSUME TypeOK, NEW t \in Threads, NEW label,
           pc' = [pc EXCEPT ![t] = label],
           \A u \in Threads \ {t} : u \in monitored' <=> u \in monitored
    PROVE  phases' = [phases EXCEPT ![t] = PhaseOf(t)']
<1>1. \A u \in Threads \ {t} : PhaseOf(u)' = PhaseOf(u)
  BY DEF PhaseOf, TypeOK
<1> QED
  BY <1>1 DEF phases

\* Steps of the timer softirq and of root processes move no caller.
LEMMA PhaseUnchanged == UNCHANGED threadVars => phases' = phases
  BY DEF threadVars, phases, PhaseOf

\* A step of a thread in the wrapper is a step of one caller of the rate limiter,
\* or changes nothing the rate limiter sees.
LEMMA ThreadStepRefines ==
    ASSUME TypeOK, MonitoredOK, NEW t \in Threads,
           Enter(t) \/ Wrapper(t) \/ Call(t) \/ Signal(t)
    PROVE  RL!Next \/ UNCHANGED RL!vars
<1> DEFINE Rest == UNCHANGED <<is_monitor_active, max_syscalls_per_sec,
                               windowState, max>>
<1>rest. Rest
  BY DEF Enter, Wrapper, Call, Signal, Classify, TakeToken, CheckOff, Block,
         Prepare, EvalActive, EvalCurr, Schedule, Unblock, timerVars,
         windowState
<1>ph. phases[t] = PhaseOf(t)
  BY DEF phases
<1> HIDE DEF Rest
<1>1. CASE Enter(t)
  <2>1. PICK label \in {"call", "classify"} :
           pc' = [pc EXCEPT ![t] = label] /\ monitored' = monitored
    BY <1>1 DEF Enter, Goto
  <2>2. phases' = [phases EXCEPT ![t] = PhaseOf(t)']
    BY <2>1, PhaseOfOne
  <2>3. PhaseOf(t) = "out" /\ PhaseOf(t)' \in {"exempt", "out"}
    BY <1>1, <2>1 DEF PhaseOf, TypeOK, MonitoredOK, Enter
  <2>4. curr_syscalls' = curr_syscalls
    BY <1>1 DEF Enter
  <2>5. CASE PhaseOf(t)' = "exempt"
    <3>1. RL!Exempt(t)
      BY <2>2, <2>3, <2>4, <2>5, <1>rest, <1>ph
         DEF Rest, RL!Exempt, RL!Move
    <3> QED
      BY <3>1 DEF RL!Next
  <2>6. CASE PhaseOf(t)' = "out"
    <3>1. phases' = phases
      BY <2>2, <2>3, <2>6 DEF phases
    <3> QED
      BY <3>1, <2>4, <1>rest DEF Rest, RL!vars
  <2> QED
    BY <2>3, <2>5, <2>6
<1>2. CASE Classify(t)
  <2>1. PICK label \in {"call", "take"} :
           /\ pc' = [pc EXCEPT ![t] = label]
           /\ monitored' = IF label = "take" THEN monitored \cup {t}
                                             ELSE monitored
    BY <1>2 DEF Classify, Goto
  <2>2. phases' = [phases EXCEPT ![t] = PhaseOf(t)']
    BY <2>1, PhaseOfOne
  <2>3. PhaseOf(t) = "out" /\ PhaseOf(t)' \in {"exempt", "pending"}
    BY <1>2, <2>1 DEF PhaseOf, TypeOK, MonitoredOK, Classify
  <2>4. curr_syscalls' = curr_syscalls
    BY <1>2 DEF Classify
  <2>5. RL!Exempt(t) \/ RL!Request(t)
    BY <2>2, <2>3, <2>4, <1>rest, <1>ph
       DEF Rest, RL!Exempt, RL!Request, RL!Move
  <2> QED
    BY <2>5 DEF RL!Next
<1>3. CASE TakeToken(t)
  <2>1. PICK label \in {"call", "check_off"} :
           /\ pc' = [pc EXCEPT ![t] = label]
           /\ monitored' = monitored
           /\ label = "call" => /\ curr_syscalls > 0
                                /\ curr_syscalls' = curr_syscalls - 1
           /\ label = "check_off" => curr_syscalls' = curr_syscalls
    BY <1>3 DEF TakeToken, Goto
  <2>2. phases' = [phases EXCEPT ![t] = PhaseOf(t)']
    BY <2>1, PhaseOfOne
  <2>3. PhaseOf(t) = "pending"
    BY <1>3 DEF PhaseOf, TakeToken
  <2>4. CASE label = "call"
    <3>1. PhaseOf(t)' = "admitted"
      BY <1>3, <2>1, <2>4 DEF PhaseOf, TypeOK, MonitoredOK, TakeToken
    <3>2. RL!Admit(t)
      BY <3>1, <2>1, <2>2, <2>3, <2>4, <1>rest, <1>ph
         DEF Rest, RL!Admit, RL!Move
    <3> QED
      BY <3>2 DEF RL!Next
  <2>5. CASE label = "check_off"
    <3>1. PhaseOf(t)' = "pending"
      BY <2>1, <2>5 DEF PhaseOf, TypeOK
    <3>2. phases' = phases
      BY <3>1, <2>2, <2>3 DEF phases
    <3> QED
      BY <3>2, <2>1, <2>5, <1>rest DEF Rest, RL!vars
  <2> QED
    BY <2>4, <2>5
<1>4. CASE CheckOff(t)
  <2>1. PICK label \in {"call", "block"} :
           /\ pc' = [pc EXCEPT ![t] = label]
           /\ monitored' = monitored
           /\ label = "call" => is_monitor_active = 0
    BY <1>4 DEF CheckOff, Goto
  <2>2. phases' = [phases EXCEPT ![t] = PhaseOf(t)']
    BY <2>1, PhaseOfOne
  <2>3. PhaseOf(t) = "pending" /\ curr_syscalls' = curr_syscalls
    BY <1>4 DEF PhaseOf, CheckOff
  <2>4. CASE label = "call"
    <3>1. PhaseOf(t)' = "admitted"
      BY <1>4, <2>1, <2>4 DEF PhaseOf, TypeOK, MonitoredOK, CheckOff
    <3>2. RL!Bypass(t)
      BY <3>1, <2>1, <2>2, <2>3, <2>4, <1>rest, <1>ph
         DEF Rest, RL!Bypass, RL!Move
    <3> QED
      BY <3>2 DEF RL!Next
  <2>5. CASE label = "block"
    <3>1. PhaseOf(t)' = "pending"
      BY <2>1, <2>5 DEF PhaseOf, TypeOK
    <3>2. phases' = phases
      BY <3>1, <2>2, <2>3 DEF phases
    <3> QED
      BY <3>2, <2>3, <1>rest DEF Rest, RL!vars
  <2> QED
    BY <2>4, <2>5
<1>5. CASE Block(t) \/ Prepare(t) \/ EvalActive(t) \/ EvalCurr(t) \/ Schedule(t)
  <2>1. PICK label \in Counted :
           pc' = [pc EXCEPT ![t] = label] /\ monitored' = monitored
    BY <1>5 DEF Block, Prepare, EvalActive, EvalCurr, Schedule, FinishWait,
                Goto, Counted
  <2>2. phases' = [phases EXCEPT ![t] = PhaseOf(t)']
    BY <2>1, PhaseOfOne
  <2>3. PhaseOf(t) = "pending" /\ PhaseOf(t)' = "pending"
    BY <1>5, <2>1 DEF PhaseOf, TypeOK, Counted, Block, Prepare, EvalActive,
                      EvalCurr, Schedule
  <2>4. phases' = phases
    BY <2>2, <2>3 DEF phases
  <2>5. curr_syscalls' = curr_syscalls
    BY <1>5 DEF Block, Prepare, EvalActive, EvalCurr, Schedule
  <2> QED
    BY <2>4, <2>5, <1>rest DEF Rest, RL!vars
<1>6. CASE Signal(t)
  <2>1. phases' = phases
    BY <1>6 DEF Signal, phases, PhaseOf
  <2> QED
    BY <2>1, <1>6, <1>rest DEF Rest, RL!vars, Signal
<1>7. CASE Unblock(t)
  <2>1. PICK label \in {"user", "take"} :
           /\ pc' = [pc EXCEPT ![t] = label]
           /\ \A u \in Threads \ {t} : u \in monitored' <=> u \in monitored
    BY <1>7 DEF Unblock, Return, Goto
  <2>2. phases' = [phases EXCEPT ![t] = PhaseOf(t)']
    BY <2>1, PhaseOfOne
  <2>3. /\ PhaseOf(t) = "pending"
        /\ PhaseOf(t)' \in {"pending", "out"}
        /\ curr_syscalls' = curr_syscalls
    BY <1>7, <2>1 DEF PhaseOf, TypeOK, Unblock
  <2>4. CASE PhaseOf(t)' = "out"
    <3>1. RL!Abort(t)
      BY <2>2, <2>3, <2>4, <1>rest, <1>ph DEF Rest, RL!Abort, RL!Move
    <3> QED
      BY <3>1 DEF RL!Next
  <2>5. CASE PhaseOf(t)' = "pending"
    <3>1. phases' = phases
      BY <2>2, <2>3, <2>5 DEF phases
    <3> QED
      BY <3>1, <2>3, <1>rest DEF Rest, RL!vars
  <2> QED
    BY <2>3, <2>4, <2>5
<1>8. CASE Call(t)
  <2>1. /\ pc' = [pc EXCEPT ![t] = "user"]
        /\ \A u \in Threads \ {t} : u \in monitored' <=> u \in monitored
    BY <1>8 DEF Call, Return, Goto
  <2>2. phases' = [phases EXCEPT ![t] = PhaseOf(t)']
    BY <2>1, PhaseOfOne
  <2>3. /\ PhaseOf(t) \in {"admitted", "exempt"}
        /\ PhaseOf(t)' = "out"
        /\ curr_syscalls' = curr_syscalls
    BY <1>8, <2>1 DEF PhaseOf, TypeOK, Call
  <2>4. RL!Return(t)
    BY <2>2, <2>3, <1>rest, <1>ph DEF Rest, RL!Return, RL!Move
  <2> QED
    BY <2>4 DEF RL!Next
<1> QED
  BY <1>1, <1>2, <1>3, <1>4, <1>5, <1>6, <1>7, <1>8 DEF Wrapper

\* A step of epoch_handler closes the window, refills the budget or is invisible.
LEMMA EpochStepRefines ==
    ASSUME TypeOK, EpochHandler
    PROVE  RL!Next \/ UNCHANGED RL!vars
<1>ph. phases' = phases
  BY PhaseUnchanged DEF EpochHandler, EpochBegin, EpochSample, EpochRefill,
                        EpochWake, EpochRearm
<1>1. CASE EpochBegin
  <2>1. CASE is_monitor_active = 0
    BY <1>1, <2>1, <1>ph DEF EpochBegin, windowState, RL!vars
  <2>2. CASE is_monitor_active # 0
    <3>1. RL!CloseWindow
      BY <1>1, <2>2, <1>ph DEF TypeOK, EpochBegin, windowState, RL!CloseWindow
    <3> QED
      BY <3>1 DEF RL!Next
  <2> QED
    BY <2>1, <2>2
<1>2. CASE EpochSample \/ EpochWake \/ EpochRearm
  BY <1>2, <1>ph DEF EpochSample, EpochWake, EpochRearm, windowState, RL!vars
<1>3. CASE EpochRefill
  <2>1. RL!Refill
    BY <1>3, <1>ph DEF EpochRefill, windowState, RL!Refill
  <2> QED
    BY <2>1 DEF RL!Next
<1> QED
  BY <1>1, <1>2, <1>3 DEF EpochHandler

\* A step of a root process switches the monitor, sets the limit or is invisible.
LEMMA AdminStepRefines ==
    ASSUME TypeOK, NEW a \in Admins,
           \/ SwitchOff(a) \/ SwitchOn(a) \/ FinishSwitch(a)
           \/ \E new_max \in MaxArgs : SetMax(a, new_max)
    PROVE  RL!Next \/ UNCHANGED RL!vars
<1>ph. phases' = phases
  BY PhaseUnchanged DEF SwitchOff, SwitchOn, FinishSwitch, SwitchOffWake,
                        SwitchOffCleanup, SwitchOnSetup, SetMax
<1>1. CASE SwitchOff(a) \/ SwitchOn(a)
  <2>1. RL!Switch
    BY <1>1, <1>ph DEF SwitchOff, SwitchOn, windowState, timerVars, RL!Switch
  <2> QED
    BY <2>1 DEF RL!Next
<1>2. CASE FinishSwitch(a)
  BY <1>2, <1>ph DEF FinishSwitch, SwitchOffWake, SwitchOffCleanup,
                     SwitchOnSetup, windowState, timerVars, RL!vars
<1>3. ASSUME NEW new_max \in MaxArgs, SetMax(a, new_max)
      PROVE  RL!Next
  <2>1. RL!SetLimit(new_max)
    BY <1>3, <1>ph DEF SetMax, windowState, timerVars, RL!SetLimit
  <2> QED
    BY <2>1 DEF RL!Next
<1> QED
  BY <1>1, <1>2, <1>3

\* The safety part of what the module is for: wrapper, epoch handler and ioctl
\* operations, at the granularity of their atomic accesses, implement the rate
\* limiter for every set of threads and of concurrent root processes.
THEOREM Refinement == Spec => ImplementsRateLimiter
<1>1. Init => RL!Init
  BY DEF Init, RL!Init, phases, PhaseOf, windowState, DefaultMax
<1>2. Init => MonitoredOK
  BY DEF Init, MonitoredOK
<1>3. TypeOK /\ MonitoredOK /\ [Next]_vars => [RL!Next]_(RL!vars)
  <2> SUFFICES ASSUME TypeOK, MonitoredOK, [Next]_vars
               PROVE  RL!Next \/ UNCHANGED RL!vars
    OBVIOUS
  <2>1. CASE UNCHANGED vars
    <3>1. phases' = phases
      BY <2>1, PhaseUnchanged DEF vars
    <3> QED
      BY <3>1, <2>1 DEF vars, timerVars, windowState, RL!vars
  <2>2. ASSUME NEW t \in Threads, Enter(t) \/ Wrapper(t) \/ Call(t) \/ Signal(t)
        PROVE  RL!Next \/ UNCHANGED RL!vars
    BY <2>2, ThreadStepRefines
  <2>3. CASE EpochHandler
    BY <2>3, EpochStepRefines
  <2>4. ASSUME NEW a \in Admins,
               \/ SwitchOff(a) \/ SwitchOn(a) \/ FinishSwitch(a)
               \/ \E new_max \in MaxArgs : SetMax(a, new_max)
        PROVE  RL!Next \/ UNCHANGED RL!vars
    BY <2>4, AdminStepRefines
  <2> QED
    BY <2>1, <2>2, <2>3, <2>4 DEF Next
<1> QED
  BY <1>1, <1>2, <1>3, TypeCorrect, MonitoredStep, PTL
     DEF Spec, ImplementsRateLimiter, RL!Spec
=============================================================================
