------------------------------ MODULE PeakStats -----------------------------
(***************************************************************************)
(* The peak delay of one registered system call, with the user id and the  *)
(* program name it belongs to.  Threads that were delayed come through     *)
(* check_and_set_statistic: the comparison is made without a lock, the     *)
(* three fields are written under stats_lock.  get_syscall_stats copies    *)
(* the three fields without the lock, the delay in milliseconds.           *)
(*                                                                         *)
(* The entry stays registered here (module SyscallRegistry has its         *)
(* lifetime).  A caller stands for a thread with its own user id and its   *)
(* own program name.  strscpy copies the sixteen bytes of a name a word at *)
(* a time: a name has a front and a back, written and read one after the   *)
(* other.                                                                  *)
(***************************************************************************)
EXTENDS KernelTime

CONSTANTS
    Callers,   \* threads, each with its user id and program name
    Delays,    \* the delays, in jiffies, a call may have suffered
    Nobody     \* neither a user id nor a name of a caller

ASSUME CallersAssumption == Nobody \notin Callers
ASSUME DelaysAssumption == Delays \subseteq Nat \ {0}

VARIABLES
    peak_delay, peak_uid, peak_prog_name,  \* the entry's syscall_stats
    stats_lock,                            \* who holds the lock
    pc, delay,                             \* each caller: place, local delay
    rpc, report,                           \* get_syscall_stats: place, to_ret
    delayed,                               \* history: the delays that were handed in
    settled,                               \* history: the peak when last no caller was
                                           \* in check_and_set_statistic
    base                                   \* history: settled when get_syscall_stats
                                           \* began to read

statVars   == <<peak_delay, peak_uid, peak_prog_name>>
readerVars == <<rpc, report>>
history    == <<delayed, settled, base>>
vars == <<statVars, stats_lock, pc, delay, readerVars, history>>

NoName == [front |-> Nobody, back |-> Nobody]
NoReport == [peak_delay |-> 0, peak_uid |-> Nobody, peak_prog_name |-> NoName]

\* As register_system_call leaves it: no delay, uid 0, the name not set.
Init ==
    /\ peak_delay = 0
    /\ peak_uid = Nobody
    /\ peak_prog_name = NoName
    /\ stats_lock = Nobody
    /\ pc = [t \in Callers |-> "user"]
    /\ delay = [t \in Callers |-> 0]
    /\ rpc = "idle"
    /\ report = NoReport
    /\ delayed = {}
    /\ settled = 0
    /\ base = 0

Goto(t, label) == pc' = [pc EXCEPT ![t] = label]

\* A delayed thread reaches original_system_call with delay > 0.
Delayed(t, d) ==
    /\ pc[t] = "user"
    /\ delay' = [delay EXCEPT ![t] = d]
    /\ delayed' = delayed \cup {<<t, d>>}
    /\ Goto(t, "compare")
    /\ UNCHANGED <<statVars, stats_lock, readerVars, settled, base>>

Done(t) ==
    /\ Goto(t, "user")
    /\ delay' = [delay EXCEPT ![t] = 0]
    /\ settled' = IF \A u \in Callers \ {t} : pc[u] = "user"
                  THEN peak_delay ELSE settled

\* Mutant: the delay is not compared with the peak.
CompareNothing(t) ==
    /\ pc[t] = "compare"
    /\ Goto(t, "lock")
    /\ UNCHANGED <<statVars, stats_lock, delay, readerVars, history>>

\* peak_delay < delay, read without the lock.
Compare(t) ==
    /\ pc[t] = "compare"
    /\ \/ /\ peak_delay < delay[t]
          /\ Goto(t, "lock")
          /\ UNCHANGED <<delay, settled>>
       \/ /\ peak_delay >= delay[t]
          /\ Done(t)
    /\ UNCHANGED <<statVars, stats_lock, readerVars, delayed, base>>

\* Mutant: the fields are written without stats_lock.
LockNothing(t) ==
    /\ pc[t] = "lock"
    /\ Goto(t, "delay")
    /\ UNCHANGED <<statVars, stats_lock, delay, readerVars, history>>

Lock(t) ==
    /\ pc[t] = "lock"
    /\ stats_lock = Nobody
    /\ stats_lock' = t
    /\ Goto(t, "delay")
    /\ UNCHANGED <<statVars, delay, readerVars, history>>

SetDelay(t) ==
    /\ pc[t] = "delay"
    /\ peak_delay' = delay[t]
    /\ Goto(t, "uid")
    /\ UNCHANGED <<peak_uid, peak_prog_name, stats_lock, delay, readerVars, history>>

SetUid(t) ==
    /\ pc[t] = "uid"
    /\ peak_uid' = t
    /\ Goto(t, "front")
    /\ UNCHANGED <<peak_delay, peak_prog_name, stats_lock, delay, readerVars, history>>

SetName(t, from, to) ==
    /\ pc[t] = from
    /\ peak_prog_name' = [peak_prog_name EXCEPT ![from] = t]
    /\ Goto(t, to)
    /\ UNCHANGED <<peak_delay, peak_uid, stats_lock, delay, readerVars, history>>

SetNameFront(t) == SetName(t, "front", "back")
SetNameBack(t)  == SetName(t, "back", "unlock")

Unlock(t) ==
    /\ pc[t] = "unlock"
    /\ stats_lock' = Nobody
    /\ Done(t)
    /\ UNCHANGED <<statVars, readerVars, delayed, base>>

-----------------------------------------------------------------------------
(***************************************************************************)
(* get_syscall_stats, once it has found the entry                          *)
(***************************************************************************)
UnchangedByReader == UNCHANGED <<statVars, stats_lock, pc, delay, delayed, settled>>

ReadDelay ==
    /\ rpc = "idle"
    /\ rpc' = "uid"
    /\ report' = [report EXCEPT !.peak_delay = jiffies_to_msecs(peak_delay)]
    /\ base' = settled
    /\ UnchangedByReader

ReadUid ==
    /\ rpc = "uid"
    /\ rpc' = "front"
    /\ report' = [report EXCEPT !.peak_uid = peak_uid]
    /\ UNCHANGED base
    /\ UnchangedByReader

ReadName(from, to) ==
    /\ rpc = from
    /\ rpc' = to
    /\ report' = [report EXCEPT !.peak_prog_name[from] = peak_prog_name[from]]
    /\ UNCHANGED base
    /\ UnchangedByReader

ReadNameFront == ReadName("front", "back")
ReadNameBack  == ReadName("back", "done")

ReturnReport ==
    /\ rpc = "done"
    /\ rpc' = "idle"
    /\ report' = NoReport
    /\ base' = 0
    /\ UnchangedByReader

-----------------------------------------------------------------------------
check_and_set_statistic(t) ==
    \/ \E d \in Delays : Delayed(t, d)
    \/ Compare(t) \/ Lock(t) \/ SetDelay(t) \/ SetUid(t)
    \/ SetNameFront(t) \/ SetNameBack(t) \/ Unlock(t)

get_syscall_stats ==
    ReadDelay \/ ReadUid \/ ReadNameFront \/ ReadNameBack \/ ReturnReport

Next == (\E t \in Callers : check_and_set_statistic(t)) \/ get_syscall_stats

Spec == Init /\ [][Next]_vars

-----------------------------------------------------------------------------
(***************************************************************************)
(* Properties                                                              *)
(***************************************************************************)
\* Whenever stats_lock is free the stored delay, user id and program name are those
\* of one and the same delayed call, however many callers have written them.
PeakOfOneCall ==
    stats_lock = Nobody /\ peak_delay # 0 =>
        /\ peak_prog_name = [front |-> peak_uid, back |-> peak_uid]
        /\ <<peak_uid, peak_delay>> \in delayed

\* Who was delayed for at least so long; nobody, if that is no time at all.
Worst(least) ==
    {call[1] : call \in {c \in delayed : c[2] >= least}}
        \cup (IF least = 0 THEN {Nobody} ELSE {})

\* What the unlocked comparison and the unlocked read cannot lose: a peak that stood
\* when no caller was in check_and_set_statistic is never lowered afterwards, whoever
\* compared when, and a report that get_syscall_stats begins later is not made of
\* anything smaller.  Its delay is one that a call suffered, of at least that peak, and
\* so are its user id and each word of its name.  No more than that: while updates
\* overlap the report the delay, the user id and the two words may be of four
\* different calls, where the documentation promises the delay with "the corresponding
\* program-name and user-ID".
SettledPeakIsKept ==
    /\ peak_delay >= settled
    /\ rpc # "idle" =>
        \E d \in {0} \cup {call[2] : call \in delayed} :
            d >= base /\ report.peak_delay = jiffies_to_msecs(d)
    /\ rpc \in {"front", "back", "done"} => report.peak_uid \in Worst(base)
    /\ rpc \in {"back", "done"} => report.peak_prog_name.front \in Worst(base)
    /\ rpc = "done" => report.peak_prog_name.back \in Worst(base)

\* Once the callers are out of check_and_set_statistic the stored peak is at least
\* every delay that was handed in.
PeakIsMaximum ==
    (\A t \in Callers : pc[t] = "user") =>
        \A call \in delayed : call[2] <= peak_delay
=============================================================================
