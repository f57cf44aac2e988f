-------------------------- MODULE ThreadStatsProofs -------------------------
(***************************************************************************)
(* The theorems about the statistics of blocked threads, for every HZ,     *)
(* every number of blocked threads and every length of time.               *)
(***************************************************************************)
EXTENDS ThreadStats, TLAPS

\* The conversion of a difference that went below zero is no less an unsigned int.
LEMMA MsecsIsUInt ==
    ASSUME NEW j \in Int
    PROVE  jiffies_to_msecs(j) \in Nat
<1>1. 1000 \div HZ \in Int
    BY HZAssumption
<1>2. (1000 \div HZ) * j \in Int
    BY <1>1
<1> QED
    BY <1>2, UIntRangeAssumption DEF jiffies_to_msecs

\* The clock is ahead of what was read from it.
ClockInv == start_time <= jiffies /\ last_epoch <= jiffies

LEMMA TypeInit == Init => TypeOK /\ ClockInv
<1>1. Init => settled \in BOOLEAN
    BY Zenon DEF Init
<1> QED
    BY <1>1, HZAssumption, MaxBlockedAssumption DEF Init, TypeOK, ClockInv, NoReport

LEMMA TypeStep == TypeOK /\ ClockInv /\ [Next]_vars => (TypeOK /\ ClockInv)'
<1> SUFFICES ASSUME TypeOK, ClockInv, [Next]_vars PROVE (TypeOK /\ ClockInv)'
    OBVIOUS
<1> USE HZAssumption, MaxBlockedAssumption
    DEF TypeOK, ClockInv, OnTime, Running, statVars, readerVars, epochVars, onTime, begun
<1>1. CASE Tick
    BY <1>1 DEF Tick
<1>2. CASE EpochBegin
    BY <1>2 DEF EpochBegin
<1>3. CASE EpochSum
    BY <1>3 DEF EpochSum
<1>4. CASE EpochPeak
    BY <1>4 DEF EpochPeak
<1>5. CASE EpochMean
    BY <1>5 DEF EpochMean, Mean
<1>6. CASE EpochRearm
    BY <1>6 DEF EpochRearm
<1>7. CASE SwitchOff
    BY <1>7 DEF SwitchOff, Unsettle
<1>8. CASE SwitchOffTime
    BY <1>8 DEF SwitchOffTime
<1>9. CASE SwitchOffCleanup
    BY <1>9 DEF SwitchOffCleanup
<1>10. CASE SwitchOn
    BY <1>10 DEF SwitchOn, Unsettle
<1>11. CASE SwitchOnSetup
    BY <1>11 DEF SwitchOnSetup
<1>12. CASE ReadElapsed
    <2>1. settled' \in BOOLEAN
        BY <1>12, Zenon DEF ReadElapsed, Unsettle
    <2> QED
        BY <1>12, <2>1 DEF ReadElapsed, NoReport, Unsettle, UnchangedByReader
<1>13. CASE ReadFlag
    BY <1>13 DEF ReadFlag, UnchangedByReader
<1>14. CASE ReadJiffies
    BY <1>14 DEF ReadJiffies, Add, UnchangedByReader
<1>15. CASE ReadStart
    BY <1>15 DEF ReadStart, Add, UnchangedByReader
<1>16. CASE ReadSum
    <2>1. PICK ms \in Nat : ms = jiffies_to_msecs(temp)
        BY MsecsIsUInt
    <2>2. report' = [report EXCEPT !.sum_blocked = sum_blocked, !.elapsed = ms]
        BY <1>16, <2>1 DEF ReadSum
    <2>3. report'.elapsed = ms /\ report' \in
            [elapsed : Nat, sum_blocked : Nat, peak_blocked : Nat, mean : Nat]
        BY <2>2
    <2> QED
        BY <1>16, <2>3 DEF ReadSum, UnchangedByReader
<1>17. CASE ReadPeak
    BY <1>17 DEF ReadPeak, UnchangedByReader
<1>18. CASE ReturnReport
    <2>1. settled' \in BOOLEAN
        BY <1>18, Zenon DEF ReturnReport, Unsettle
    <2> QED
        BY <1>18, <2>1 DEF ReturnReport, NoReport, Unsettle, UnchangedByReader
<1>19. CASE ReadMean
    BY <1>19 DEF ReadMean, NoReport, UnchangedByReader
<1>20. CASE UNCHANGED vars
    BY <1>20 DEF vars
<1> QED
    BY <1>1, <1>2, <1>3, <1>4, <1>5, <1>6, <1>7, <1>8, <1>9, <1>10, <1>11,
       <1>12, <1>13, <1>14, <1>15, <1>16, <1>17, <1>18, <1>19, <1>20 DEF Next

-----------------------------------------------------------------------------
(***************************************************************************)
(* The timer                                                               *)
(***************************************************************************)
\* However it was armed, the timer is not due before a second has passed since the
\* last epoch began.
DueInv == expires # 0 => last_epoch + HZ <= expires

LEMMA DueInit == Init => DueInv
BY HZAssumption DEF Init, DueInv

LEMMA DueStep == TypeOK /\ ClockInv /\ DueInv /\ [Next]_vars => DueInv'
<1> SUFFICES ASSUME TypeOK, ClockInv, DueInv, [Next]_vars PROVE DueInv'
    OBVIOUS
<1> USE HZAssumption, MaxBlockedAssumption
    DEF TypeOK, ClockInv, DueInv, statVars, readerVars, epochVars, onTime, begun
<1>1. CASE EpochBegin
    BY <1>1 DEF EpochBegin
<1>2. CASE EpochRearm
    BY <1>2 DEF EpochRearm
<1>3. CASE SwitchOffCleanup
    BY <1>3 DEF SwitchOffCleanup
<1>4. CASE SwitchOnSetup
    BY <1>4 DEF SwitchOnSetup
<1>5. CASE Tick \/ EpochSum \/ EpochPeak \/ EpochMean \/ SwitchOff
             \/ SwitchOffTime \/ SwitchOn \/ ReadMean \/ ReadElapsed \/ ReadFlag \/ ReadJiffies
             \/ ReadStart \/ ReadSum \/ ReadPeak \/ ReturnReport
    BY <1>5 DEF Tick, EpochSum, EpochPeak, EpochMean, Mean, SwitchOff, Unsettle,
        SwitchOffTime, SwitchOn, ReadMean, ReadElapsed, NoReport, UnchangedByReader,
        ReadFlag, ReadJiffies, Add, ReadStart, ReadSum, ReadPeak,
        ReturnReport
<1>6. CASE UNCHANGED vars
    BY <1>6 DEF vars
<1> QED
    BY <1>1, <1>2, <1>3, <1>4, <1>5, <1>6 DEF Next

-----------------------------------------------------------------------------
(***************************************************************************)
(* The samples                                                             *)
(***************************************************************************)
\* What the statistics say while epoch_handler brings them up to date one by one:
\* first all three are of the epochs before, then the sum has the new sample, then the
\* peak, and last the mean.  The peak only grows, so a mean read earlier stays below.
SampleInv ==
    /\ exponential <= 1024 * peak_blocked
    /\ report.mean <= 1024 * peak_blocked
    /\ epc # "none" => epochs >= 1
    /\ epc \in {"none", "sum", "rearm"} =>
        peak_blocked <= sum_blocked /\ (peak_blocked > 0 => exponential > 0)
    /\ epc \in {"none", "rearm"} => sum_blocked <= peak_blocked * epochs
    /\ epc = "sum" => sum_blocked <= peak_blocked * (epochs - 1)
    /\ epc = "peak" =>
        /\ peak_blocked <= sum_blocked - curr_blocked
        /\ sum_blocked - curr_blocked <= peak_blocked * (epochs - 1)
        /\ peak_blocked > 0 => exponential > 0
    /\ epc = "mean" =>
        /\ curr_blocked <= peak_blocked /\ peak_blocked <= sum_blocked
        /\ sum_blocked <= peak_blocked * epochs
        /\ exponential = 0 => peak_blocked = curr_blocked

LEMMA TimesMonotone ==
    ASSUME NEW a \in Nat, NEW b \in Nat, a <= b, NEW n \in Nat
    PROVE  a * n <= b * n
<1>1. PICK d \in Nat : b = a + d
    <2>1. b - a \in Nat /\ b = a + (b - a)
        OBVIOUS
    <2> QED
        BY <2>1
<1>2. (a + d) * n = a * n + d * n /\ d * n \in Nat /\ a * n \in Nat
    OBVIOUS
<1> QED
    BY <1>1, <1>2

LEMMA TimesNext ==
    ASSUME NEW p \in Nat, NEW n \in Nat, n >= 1
    PROVE  p * (n - 1) \in Nat /\ p * n = p * (n - 1) + p
OBVIOUS

\* The step of the mean keeps it at or below a bound that it and the sample respect.
LEMMA MeanBounded ==
    ASSUME NEW mean \in Nat, NEW sample \in Nat, NEW p \in Nat,
           mean <= 1024 * p, sample <= 1024 * p
    PROVE  /\ Mean(mean, sample) \in Nat /\ Mean(mean, sample) <= 1024 * p
           /\ mean > 0 => Mean(mean, sample) > 0
           /\ mean = 0 => Mean(mean, sample) = sample
BY DEF Mean

LEMMA SampleInit == Init => SampleInv
BY DEF Init, SampleInv, NoReport

LEMMA SampleStep == TypeOK /\ SampleInv /\ [Next]_vars => SampleInv'
<1> SUFFICES ASSUME TypeOK, SampleInv, [Next]_vars PROVE SampleInv'
    OBVIOUS
<1> USE HZAssumption, MaxBlockedAssumption
    DEF TypeOK, SampleInv, statVars, readerVars, epochVars, onTime, begun
<1>1. CASE EpochBegin
    <2>1. epochs' = epochs \/ epochs' - 1 = epochs
        BY <1>1 DEF EpochBegin
    <2> QED
        BY <1>1, <2>1 DEF EpochBegin
<1>2. CASE EpochSum
    BY <1>2 DEF EpochSum
<1>3. CASE EpochPeak
    <2> DEFINE p == peak_blocked'
    <2>1. /\ p \in Nat /\ peak_blocked <= p /\ curr_blocked <= p
          /\ p = peak_blocked \/ p = curr_blocked
          /\ peak_blocked > 0 => exponential > 0
          /\ peak_blocked = 0 => p = curr_blocked
        BY <1>3 DEF EpochPeak
    <2>2. peak_blocked * (epochs - 1) <= p * (epochs - 1)
        BY <1>3, <2>1, TimesMonotone DEF EpochPeak
    <2>3. p * (epochs - 1) \in Nat /\ p * epochs = p * (epochs - 1) + p
        BY <1>3, <2>1, TimesNext DEF EpochPeak
    <2>4. peak_blocked * (epochs - 1) \in Nat
        BY <1>3, TimesNext DEF EpochPeak
    <2>5. sum_blocked <= p * epochs
        BY <1>3, <2>1, <2>2, <2>3, <2>4 DEF EpochPeak
    <2> HIDE DEF p
    <2> QED
        BY <1>3, <2>1, <2>5 DEF EpochPeak, p
<1>4. CASE EpochMean
    <2>1. curr_blocked * 1024 \in Nat /\ curr_blocked * 1024 <= 1024 * peak_blocked
        BY <1>4 DEF EpochMean
    <2>2. /\ exponential' \in Nat /\ exponential' <= 1024 * peak_blocked
          /\ exponential > 0 => exponential' > 0
          /\ exponential = 0 => exponential' = curr_blocked * 1024
        BY <1>4, <2>1, MeanBounded DEF EpochMean
    <2> QED
        BY <1>4, <2>1, <2>2 DEF EpochMean
<1>5. CASE EpochRearm
    BY <1>5 DEF EpochRearm
<1>6. CASE Tick \/ SwitchOff \/ SwitchOffTime \/ SwitchOffCleanup \/ SwitchOn
             \/ SwitchOnSetup
    BY <1>6 DEF Tick, SwitchOff, Unsettle, SwitchOffTime, SwitchOffCleanup, SwitchOn,
        SwitchOnSetup
<1>7. CASE ReadElapsed \/ ReadFlag \/ ReadJiffies \/ ReadStart \/ ReadSum
             \/ ReadPeak \/ ReadMean \/ ReturnReport
    <2>1. report'.mean \in {report.mean, exponential, 0}
        <3>1. CASE ReadSum
            BY <3>1 DEF ReadSum
        <3>2. CASE ReadPeak
            BY <3>2 DEF ReadPeak
        <3>3. CASE ReadMean
            BY <3>3 DEF ReadMean, NoReport
        <3>4. CASE ReturnReport
            BY <3>4 DEF ReturnReport, NoReport
        <3>5. CASE ReadElapsed \/ ReadFlag \/ ReadJiffies \/ ReadStart
            BY <3>5 DEF ReadElapsed, ReadFlag, ReadJiffies, ReadStart, Add
        <3> QED
            BY <1>7, <3>1, <3>2, <3>3, <3>4, <3>5
    <2>2. UnchangedByReader
        BY <1>7 DEF ReadElapsed, ReadFlag, ReadJiffies, Add, ReadStart, ReadSum,
            ReadPeak, ReadMean, ReturnReport
    <2> QED
        BY <2>1, <2>2 DEF UnchangedByReader
<1>8. CASE UNCHANGED vars
    BY <1>8 DEF vars
<1> QED
    BY <1>1, <1>2, <1>3, <1>4, <1>5, <1>6, <1>7, <1>8 DEF Next

-----------------------------------------------------------------------------
(***************************************************************************)
(* The reports                                                             *)
(***************************************************************************)
\* elapsed is the last interval that is over, and the clock is as far from start_time
\* as the running one is long.
ElapsedInv ==
    /\ elapsed = last
    /\ apc \in {"off_time", "off_cleanup"} => is_monitor_active = 0
    /\ IF Running THEN jiffies - start_time = interval ELSE interval = 0

\* What a report that met no switch has in temp; "start": the clock was read, the start
\* of the interval was not.
ReadInv ==
    settled =>
        /\ apc = "idle" /\ rpc # "idle"
        /\ began <= OnTime
        /\ rpc \in {"flag", "jiffies"} => temp = elapsed
        /\ rpc \in {"jiffies", "start"} => is_monitor_active = 1
        /\ rpc = "start" => temp - start_time \in began .. OnTime
        /\ rpc = "sum" => temp \in began .. OnTime

ReportInv == ElapsedInv /\ ReadInv

LEMMA ReportInit == Init => ReportInv
BY DEF Init, ReportInv, ElapsedInv, ReadInv, Running

LEMMA ReportInvStep == TypeOK /\ ReportInv /\ [Next]_vars => ReportInv'
<1> SUFFICES ASSUME TypeOK, ReportInv, [Next]_vars PROVE ReportInv'
    OBVIOUS
<1> USE HZAssumption, MaxBlockedAssumption
    DEF TypeOK, ReportInv, ElapsedInv, ReadInv, OnTime, Running, statVars, readerVars,
        epochVars, onTime, begun
<1>1. CASE Tick
    BY <1>1 DEF Tick
<1>2. CASE SwitchOff
    BY <1>2 DEF SwitchOff, Unsettle
<1>3. CASE SwitchOffTime
    BY <1>3 DEF SwitchOffTime
<1>4. CASE SwitchOffCleanup
    BY <1>4 DEF SwitchOffCleanup
<1>5. CASE SwitchOn
    BY <1>5 DEF SwitchOn, Unsettle
<1>6. CASE SwitchOnSetup
    BY <1>6 DEF SwitchOnSetup
<1>7. CASE ReadElapsed
    BY <1>7 DEF ReadElapsed, Unsettle, UnchangedByReader
<1>8. CASE ReadFlag
    BY <1>8 DEF ReadFlag, UnchangedByReader
<1>9. CASE ReadJiffies
    BY <1>9 DEF ReadJiffies, Add, UnchangedByReader
<1>10. CASE ReadStart
    BY <1>10 DEF ReadStart, Add, UnchangedByReader
<1>11. CASE ReadSum
    BY <1>11 DEF ReadSum, UnchangedByReader
<1>12. CASE ReadPeak
    BY <1>12 DEF ReadPeak, UnchangedByReader
<1>13. CASE ReadMean
    BY <1>13 DEF ReadMean, UnchangedByReader
<1>14. CASE ReturnReport
    BY <1>14 DEF ReturnReport, Unsettle, UnchangedByReader
<1>15. CASE EpochBegin \/ EpochSum \/ EpochPeak \/ EpochMean \/ EpochRearm
    BY <1>15 DEF EpochBegin, EpochSum, EpochPeak, EpochMean, EpochRearm
<1>16. CASE UNCHANGED vars
    BY <1>16 DEF vars
<1> QED
    BY <1>1, <1>2, <1>3, <1>4, <1>5, <1>6, <1>7, <1>8, <1>9, <1>10, <1>11,
       <1>12, <1>13, <1>14, <1>15, <1>16 DEF Next

LEMMA IntervalGrows ==
    ASSUME NEW a \in Int, NEW b \in Int, NEW c \in Int, b <= c, NEW t \in a .. b
    PROVE  t \in a .. c
OBVIOUS

\* A value once in the report stays right: began is as it was, the on-time only grows.
LEMMA OnTimeStep ==
    TypeOK /\ TypeOK' /\ ReportInv /\ ReportedOnTime /\ [Next]_vars
        => ReportedOnTime'
<1> SUFFICES ASSUME TypeOK, TypeOK', ReportInv, ReportedOnTime, [Next]_vars,
                    rpc' \in {"peak", "done"}, settled'
             PROVE  \E t \in began' .. OnTime' : report'.elapsed = jiffies_to_msecs(t)
    BY DEF ReportedOnTime, jiffies_to_msecs
<1> USE HZAssumption, MaxBlockedAssumption
    DEF TypeOK, OnTime, Running, statVars, readerVars, epochVars, onTime, begun
<1>1. CASE ReadSum
    <2>1. /\ temp \in began .. OnTime /\ began' = began /\ OnTime' = OnTime
          /\ report'.elapsed = jiffies_to_msecs(temp)
        BY <1>1 DEF ReadSum, UnchangedByReader, ReportInv, ReadInv
    <2> QED
        BY <2>1
<1>2. CASE ~ ReadSum
    <2>1. /\ settled /\ rpc \in {"peak", "done"}
          /\ began' = began /\ report'.elapsed = report.elapsed
          /\ OnTime <= OnTime'
        <3>1. CASE Tick
            BY <3>1 DEF Tick
        <3>2. CASE ReadPeak
            BY <3>2 DEF ReadPeak, UnchangedByReader
        <3>3. CASE ReadMean
            BY <3>3 DEF ReadMean, UnchangedByReader, ReportInv, ReadInv
        <3>4. CASE ReadElapsed \/ ReadFlag \/ ReadJiffies \/ ReadStart \/ ReturnReport
            <4>1. rpc' \notin {"peak", "done"}
                BY <3>4 DEF ReadElapsed, ReadFlag, ReadJiffies, Add, ReadStart,
                    ReturnReport
            <4> QED
                BY <4>1
        <3>5. CASE SwitchOff \/ SwitchOffTime \/ SwitchOffCleanup \/ SwitchOn
                     \/ SwitchOnSetup
            BY <3>5 DEF SwitchOff, SwitchOffTime, SwitchOffCleanup, SwitchOn,
                SwitchOnSetup, Unsettle, ReportInv, ReadInv
        <3>6. CASE EpochBegin \/ EpochSum \/ EpochPeak \/ EpochMean \/ EpochRearm
            <4>1. UNCHANGED <<readerVars, onTime, begun>>
                BY <3>6 DEF EpochBegin, EpochSum, EpochPeak, EpochMean, EpochRearm
            <4> QED
                BY <4>1
        <3>7. CASE UNCHANGED vars
            BY <3>7 DEF vars
        <3> QED
            BY <1>2, <3>1, <3>2, <3>3, <3>4, <3>5, <3>6, <3>7 DEF Next
    <2>2. PICK t \in began .. OnTime : report.elapsed = jiffies_to_msecs(t)
        BY <2>1 DEF ReportedOnTime
    <2>3. began \in Int /\ OnTime \in Int /\ OnTime' \in Int
        OBVIOUS
    <2>4. t \in began .. OnTime'
        BY <2>1, <2>3, IntervalGrows
    <2>5. report'.elapsed = jiffies_to_msecs(t) /\ began' = began
        BY <2>1, <2>2
    <2> QED
        BY <2>4, <2>5
<1> QED
    BY <1>1, <1>2

-----------------------------------------------------------------------------
\* Every reachable state of the statistics is well typed: elapsed, start_time and the
\* mean of epoch_handler and switch_off_monitor never go below zero, although they
\* come from differences and truncating shifts.
THEOREM TypeCorrect == Spec => []TypeOK
BY TypeInit, TypeStep, PTL DEF Spec

\* What epoch_handler leaves behind after every epoch is coherent, for any samples.
THEOREM SamplesAreCoherent == Spec => []StatisticsCoherent
<1>1. SampleInv => StatisticsCoherent
    BY DEF SampleInv, StatisticsCoherent
<1> QED
    BY <1>1, TypeInit, TypeStep, SampleInit, SampleStep, PTL DEF Spec

\* epoch_handler never refills the tokens twice within a second, whatever switches
\* arm and delete its timer.
THEOREM RefillsAreOneSecondApart == Spec => EpochsAreOneSecondApart
<1>1. ASSUME TypeOK, DueInv, [Next]_vars
      PROVE  [epochs' # epochs => jiffies >= last_epoch + HZ]_vars
    <2>1. CASE EpochBegin
        BY <1>1, <2>1, HZAssumption DEF EpochBegin, DueInv, TypeOK
    <2>2. CASE ~ EpochBegin
        <3>1. epochs' = epochs
            BY <1>1, <2>2
            DEF Next, vars, Tick, EpochSum, EpochPeak, EpochMean, EpochRearm, SwitchOff,
                SwitchOffTime, SwitchOffCleanup, SwitchOn, SwitchOnSetup, ReadElapsed,
                ReadFlag, ReadJiffies, ReadStart, ReadSum, ReadPeak, ReadMean, ReturnReport, Add,
                UnchangedByReader, epochVars
        <3> QED
            BY <3>1
    <2> QED
        BY <2>1, <2>2
<1> QED
    BY <1>1, TypeInit, TypeStep, DueInit, DueStep, PTL DEF Spec, EpochsAreOneSecondApart

\* What get_thread_stats(0) reports when no switch is under way is the last on-interval
\* plus the running one, converted to an unsigned int of milliseconds, for every length
\* of a jiffy, every width of the result and any run time, wrapped around or not.
THEOREM ReportsAreOnTime == Spec => []ReportedOnTime
<1>1. Init => ReportedOnTime
    BY DEF Init, ReportedOnTime
<1> QED
    BY <1>1, TypeInit, TypeStep, ReportInit, ReportInvStep, OnTimeStep, PTL DEF Spec
=============================================================================
