----------------------------- MODULE ThreadStats ----------------------------
(***************************************************************************)
(* The statistics about blocked threads: what epoch_handler adds to        *)
(* info_threads and to the exponential mean at every expiry, the on-time   *)
(* that switch_on_monitor and switch_off_monitor keep in start_time and    *)
(* elapsed, and what get_thread_stats reads of all this while they change  *)
(* it.  Time is in jiffies, a report is in milliseconds; the timer may be  *)
(* served late.                                                            *)
(*                                                                         *)
(* How many threads are blocked when an epoch ends is a free choice here   *)
(* (module Throttle counts them), and one root process switches the        *)
(* monitor.                                                                *)
(***************************************************************************)
EXTENDS KernelTime

CONSTANTS
    MaxBlocked,   \* the largest number of blocked threads considered
    MaxJiffies    \* bound: how long the model runs

ASSUME MaxBlockedAssumption == MaxBlocked \in Nat
ASSUME MaxJiffiesAssumption == MaxJiffies \in Nat

VARIABLES
    jiffies,
    is_monitor_active,
    start_time, elapsed,            \* info_threads: the running interval, the past
    sum_blocked, peak_blocked,      \* info_threads: the samples
    exponential,                    \* the exponential mean, times 1024
    expires,                        \* when epoch_timer is due, 0 if it is stopped
    epc, curr_blocked,              \* epoch_handler: place and local
    apc,                            \* the root process that switches the monitor
    rpc, temp, report,              \* get_thread_stats: place, local and to_ret; a
                                    \* negative temp is the unsigned long 2^64 above
    epochs, last_epoch,             \* history: samples taken, when the last one was
                                    \* begun
    interval, last,                 \* history: the ticks of the running on-interval,
                                    \* those of the on-interval before it
    settled, began                  \* history: no switch under way since the report
                                    \* was begun, and the on-time when it was begun

statVars   == <<sum_blocked, peak_blocked, exponential>>
readerVars == <<rpc, temp, report>>
epochVars  == <<expires, epc, curr_blocked, epochs, last_epoch>>
onTime     == <<interval, last>>
begun      == <<settled, began>>
vars == <<jiffies, is_monitor_active, start_time, elapsed, statVars, epochVars, apc,
          readerVars, onTime, begun>>

NoReport == [elapsed |-> 0, sum_blocked |-> 0, peak_blocked |-> 0, mean |-> 0]

\* The module has been loaded, core_setup has run.
Init ==
    /\ jiffies = 1
    /\ is_monitor_active = 1
    /\ start_time = 1
    /\ elapsed = 0
    /\ sum_blocked = 0
    /\ peak_blocked = 0
    /\ exponential = 0
    /\ expires = 1 + HZ
    /\ epc = "none"
    /\ curr_blocked = 0
    /\ apc = "idle"
    /\ rpc = "idle"
    /\ temp = 0
    /\ report = NoReport
    /\ epochs = 0
    /\ last_epoch = 1
    /\ interval = 0
    /\ last = 0
    /\ settled = FALSE
    /\ began = 0

\* An on-interval runs from core_setup until switch_off_monitor has read the clock.
Running == (is_monitor_active = 1 /\ apc # "on_setup") \/ apc = "off_time"

\* The on-time of the last two intervals, the running one included.
OnTime == last + interval

Unsettle == settled' = FALSE /\ began' = 0

Tick ==
    /\ jiffies < MaxJiffies
    /\ jiffies' = jiffies + 1
    /\ interval' = IF Running THEN interval + 1 ELSE interval
    /\ UNCHANGED <<is_monitor_active, start_time, elapsed, statVars, epochVars, apc,
                   readerVars, last, begun>>

-----------------------------------------------------------------------------
(***************************************************************************)
(* epoch_handler                                                           *)
(***************************************************************************)
\* The timer expires; the handler returns if the monitor is off, else it reads the
\* number of blocked threads.
EpochBegin ==
    /\ expires # 0
    /\ expires <= jiffies
    /\ epc = "none"
    /\ expires' = 0
    /\ \/ /\ is_monitor_active = 0
          /\ UNCHANGED <<epc, curr_blocked, epochs, last_epoch>>
       \/ /\ is_monitor_active # 0
          /\ curr_blocked' \in 0 .. MaxBlocked
          /\ epc' = "sum"
          /\ epochs' = epochs + 1
          /\ last_epoch' = jiffies
    /\ UNCHANGED <<jiffies, is_monitor_active, start_time, elapsed, statVars, apc,
                   readerVars, onTime, begun>>

EpochSum ==
    /\ epc = "sum"
    /\ epc' = "peak"
    /\ sum_blocked' = sum_blocked + curr_blocked
    /\ UNCHANGED <<jiffies, is_monitor_active, start_time, elapsed, peak_blocked,
                   exponential, expires, curr_blocked, epochs, last_epoch, apc,
                   readerVars, onTime, begun>>

EpochPeak ==
    /\ epc = "peak"
    /\ epc' = "mean"
    /\ peak_blocked' = IF curr_blocked > peak_blocked
                       THEN curr_blocked ELSE peak_blocked
    /\ UNCHANGED <<jiffies, is_monitor_active, start_time, elapsed, sum_blocked,
                   exponential, expires, curr_blocked, epochs, last_epoch, apc,
                   readerVars, onTime, begun>>

\* Mutant: the sample is not divided.
MeanUnscaled(mean, sample) ==
    IF mean = 0 THEN sample ELSE mean - (mean \div 4) + sample

\* mean = 3/4 mean + 1/4 sample in fixed point; a mean of 0 is replaced.
Mean(mean, sample) ==
    IF mean = 0 THEN sample ELSE mean - (mean \div 4) + (sample \div 4)

EpochMean ==
    /\ epc = "mean"
    /\ epc' = "rearm"
    /\ exponential' = Mean(exponential, curr_blocked * 1024)
    /\ curr_blocked' = 0
    /\ UNCHANGED <<jiffies, is_monitor_active, start_time, elapsed, sum_blocked,
                   peak_blocked, expires, epochs, last_epoch, apc, readerVars,
                   onTime, begun>>

EpochRearm ==
    /\ epc = "rearm"
    /\ epc' = "none"
    /\ expires' = jiffies + HZ
    /\ UNCHANGED <<jiffies, is_monitor_active, start_time, elapsed, statVars,
                   curr_blocked, epochs, last_epoch, apc, readerVars,
                   onTime, begun>>

-----------------------------------------------------------------------------
(***************************************************************************)
(* switch_off_monitor and switch_on_monitor                                *)
(***************************************************************************)
SwitchOff ==
    /\ apc = "idle"
    /\ is_monitor_active = 1
    /\ is_monitor_active' = 0
    /\ apc' = "off_time"
    /\ Unsettle
    /\ UNCHANGED <<jiffies, start_time, elapsed, statVars, epochVars, readerVars,
                   onTime>>

\* Mutant: the operands are swapped.
SwitchOffTimeSwapped ==
    /\ apc = "off_time"
    /\ apc' = "off_cleanup"
    /\ elapsed' = start_time - jiffies
    /\ last' = interval
    /\ interval' = 0
    /\ UNCHANGED <<jiffies, is_monitor_active, start_time, statVars, epochVars,
                   readerVars, begun>>

\* temp = jiffies - start_time; elapsed = temp.
SwitchOffTime ==
    /\ apc = "off_time"
    /\ apc' = "off_cleanup"
    /\ elapsed' = jiffies - start_time
    /\ last' = interval
    /\ interval' = 0
    /\ UNCHANGED <<jiffies, is_monitor_active, start_time, statVars, epochVars,
                   readerVars, begun>>

\* core_cleanup: waits for a running handler and stops the timer.
SwitchOffCleanup ==
    /\ apc = "off_cleanup"
    /\ epc = "none"
    /\ apc' = "idle"
    /\ expires' = 0
    /\ UNCHANGED <<jiffies, is_monitor_active, start_time, elapsed, statVars, epc,
                   curr_blocked, epochs, last_epoch, readerVars, onTime, begun>>

SwitchOn ==
    /\ apc = "idle"
    /\ is_monitor_active = 0
    /\ is_monitor_active' = 1
    /\ apc' = "on_setup"
    /\ Unsettle
    /\ UNCHANGED <<jiffies, start_time, elapsed, statVars, epochVars, readerVars,
                   onTime>>

\* Mutant: the timer is armed for now instead of a second later.
SwitchOnSetupAtOnce ==
    /\ apc = "on_setup"
    /\ apc' = "idle"
    /\ start_time' = jiffies
    /\ expires' = jiffies
    /\ UNCHANGED <<jiffies, is_monitor_active, elapsed, statVars, epc, curr_blocked,
                   epochs, last_epoch, readerVars, onTime, begun>>

\* core_setup.
SwitchOnSetup ==
    /\ apc = "on_setup"
    /\ apc' = "idle"
    /\ start_time' = jiffies
    /\ expires' = jiffies + HZ
    /\ UNCHANGED <<jiffies, is_monitor_active, elapsed, statVars, epc, curr_blocked,
                   epochs, last_epoch, readerVars, onTime, begun>>

-----------------------------------------------------------------------------
(***************************************************************************)
(* get_thread_stats                                                        *)
(***************************************************************************)
UnchangedByReader ==
    UNCHANGED <<jiffies, is_monitor_active, start_time, elapsed, statVars, epochVars,
                apc, onTime>>

\* get_thread_stats(1): the report is the exponential mean.
ReadMean ==
    /\ rpc = "idle"
    /\ rpc' = "done"
    /\ report' = [NoReport EXCEPT !.mean = exponential]
    /\ UNCHANGED <<temp, begun>>
    /\ UnchangedByReader

\* get_thread_stats(0), from here to ReadPeak.
ReadElapsed ==
    /\ rpc = "idle"
    /\ rpc' = "flag"
    /\ temp' = elapsed
    /\ IF apc = "idle" THEN settled' = TRUE /\ began' = OnTime ELSE Unsettle
    /\ UNCHANGED report
    /\ UnchangedByReader

\* Mutant: the running interval is added to that of a monitor that is off, too.
ReadFlagIgnored ==
    /\ rpc = "flag"
    /\ rpc' = "jiffies"
    /\ UNCHANGED <<temp, report, begun>>
    /\ UnchangedByReader

\* The running interval is added if the monitor is on: jiffies - start_time, read one
\* after the other.
ReadFlag ==
    /\ rpc = "flag"
    /\ rpc' = IF is_monitor_active # 0 THEN "jiffies" ELSE "sum"
    /\ UNCHANGED <<temp, report, begun>>
    /\ UnchangedByReader

Add(from, to, amount) ==
    /\ rpc = from
    /\ rpc' = to
    /\ temp' = temp + amount
    /\ UNCHANGED <<report, begun>>
    /\ UnchangedByReader

ReadJiffies == Add("jiffies", "start", jiffies)
ReadStart   == Add("start", "sum", -start_time)

ReadSum ==
    /\ rpc = "sum"
    /\ rpc' = "peak"
    /\ report' = [report EXCEPT !.sum_blocked = sum_blocked,
                                !.elapsed = jiffies_to_msecs(temp)]
    /\ temp' = 0
    /\ UNCHANGED begun
    /\ UnchangedByReader

ReadPeak ==
    /\ rpc = "peak"
    /\ rpc' = "done"
    /\ report' = [report EXCEPT !.peak_blocked = peak_blocked]
    /\ UNCHANGED <<temp, begun>>
    /\ UnchangedByReader

ReturnReport ==
    /\ rpc = "done"
    /\ rpc' = "idle"
    /\ report' = NoReport
    /\ Unsettle
    /\ UNCHANGED temp
    /\ UnchangedByReader

-----------------------------------------------------------------------------
Next ==
    \/ Tick
    \/ EpochBegin \/ EpochSum \/ EpochPeak \/ EpochMean \/ EpochRearm
    \/ SwitchOff \/ SwitchOffTime \/ SwitchOffCleanup \/ SwitchOn \/ SwitchOnSetup
    \/ ReadMean \/ ReadElapsed \/ ReadFlag \/ ReadJiffies \/ ReadStart \/ ReadSum \/ ReadPeak
    \/ ReturnReport

Spec == Init /\ [][Next]_vars

-----------------------------------------------------------------------------
(***************************************************************************)
(* Properties                                                              *)
(***************************************************************************)
TypeOK ==
    /\ jiffies \in Nat
    /\ is_monitor_active \in {0, 1}
    /\ start_time \in Nat /\ elapsed \in Nat
    /\ sum_blocked \in Nat /\ peak_blocked \in Nat /\ exponential \in Nat
    /\ expires \in Nat
    /\ epc \in {"none", "sum", "peak", "mean", "rearm"}
    /\ curr_blocked \in 0 .. MaxBlocked
    /\ apc \in {"idle", "off_time", "off_cleanup", "on_setup"}
    /\ rpc \in {"idle", "flag", "jiffies", "start", "sum", "peak", "done"}
    /\ temp \in Int
    /\ report \in [elapsed : Nat, sum_blocked : Nat, peak_blocked : Nat, mean : Nat]
    /\ epochs \in Nat /\ last_epoch \in Nat
    /\ interval \in Nat /\ last \in Nat
    /\ settled \in BOOLEAN /\ began \in Nat

\* Between two epochs the three statistics belong together: the exponential mean
\* never leaves the range of the samples although it is computed with truncating
\* shifts, the sum is at most the peak in every epoch, and once a blocked thread has
\* been sampled neither sum, peak nor mean ever says that there was none.  A mean that
\* get_thread_stats(1) reports, whenever it is read, is of samples up to the peak.
StatisticsCoherent ==
    /\ epc \in {"none", "rearm"} =>
        /\ exponential <= 1024 * peak_blocked
        /\ peak_blocked <= sum_blocked
        /\ sum_blocked <= peak_blocked * epochs
        /\ peak_blocked > 0 => exponential > 0
    /\ report.mean <= 1024 * peak_blocked

\* The tokens are never refilled twice within a second, also when the monitor is
\* switched off and on again in between.
EpochsAreOneSecondApart ==
    [][epochs' # epochs => jiffies >= last_epoch + HZ]_vars

\* What get_thread_stats(0) reports when no switch was under way, although elapsed,
\* flag, clock and start_time are read one after the other while time passes: the
\* on-time of the last interval that is over plus that of the running one, as it was at
\* some moment of the report, in milliseconds modulo the range of an unsigned int.  The
\* intervals before the last are not in it, whatever the comment above the read of
\* elapsed says ("intervalli di accensione precedenti"): switch_off_monitor overwrites
\* elapsed.
ReportedOnTime ==
    rpc \in {"peak", "done"} /\ settled =>
        \E t \in began .. OnTime : report.elapsed = jiffies_to_msecs(t)
=============================================================================
