--------------------------- MODULE PeakStatsProofs --------------------------
(***************************************************************************)
(* The theorems about the peak delay statistics, for any set of callers    *)
(* and any delays: what is stored is of one call, and what was the peak    *)
(* when nobody updated it is lost neither to late updates nor to reports.  *)
(***************************************************************************)
EXTENDS PeakStats, TLAPS

Holding == {"delay", "uid", "front", "back", "unlock"}
Names == [front : Callers \cup {Nobody}, back : Callers \cup {Nobody}]

TypeInv ==
    /\ peak_delay \in Nat
    /\ stats_lock \in Callers \cup {Nobody}
    /\ pc \in [Callers -> {"user", "compare", "lock"} \cup Holding]
    /\ delay \in [Callers -> Nat]
    /\ rpc \in {"idle", "uid", "front", "back", "done"}
    /\ report \in [peak_delay : Nat, peak_uid : Callers \cup {Nobody},
                   peak_prog_name : Names]
    /\ peak_uid \in Callers \cup {Nobody}
    /\ peak_prog_name \in Names
    /\ delayed \subseteq Callers \X Nat
    /\ settled \in Nat /\ base \in Nat

\* stats_lock is held by the one caller that writes, and what that caller has written
\* so far is of its own call.
LockInv == \A t \in Callers : pc[t] \in Holding <=> stats_lock = t
HandedIn == \A t \in Callers : pc[t] # "user" => <<t, delay[t]>> \in delayed
WrittenInv ==
    \A t \in Callers :
        /\ pc[t] \in {"uid", "front", "back", "unlock"} => peak_delay = delay[t]
        /\ pc[t] \in {"front", "back", "unlock"} => peak_uid = t
        /\ pc[t] \in {"back", "unlock"} => peak_prog_name.front = t
        /\ pc[t] = "unlock" => peak_prog_name.back = t

PeakInv == TypeInv /\ LockInv /\ HandedIn /\ WrittenInv /\ PeakOfOneCall

-----------------------------------------------------------------------------
\* The conversion of a number of jiffies is an unsigned int.
LEMMA MsecsIsUInt ==
    ASSUME NEW j \in Int
    PROVE  jiffies_to_msecs(j) \in Nat
<1>1. 1000 \div HZ \in Int
    BY HZAssumption
<1>2. (1000 \div HZ) * j \in Int
    BY <1>1
<1> QED
    BY <1>2, UIntRangeAssumption DEF jiffies_to_msecs

LEMMA PeakInit == Init => PeakInv
<1> SUFFICES ASSUME Init PROVE PeakInv
    OBVIOUS
<1> USE DEF Init
<1>1. TypeInv
    BY DEF TypeInv, NoReport, NoName, Names
<1>2. LockInv /\ HandedIn /\ WrittenInv
    BY CallersAssumption DEF LockInv, HandedIn, WrittenInv, Holding
<1>3. PeakOfOneCall
    BY DEF PeakOfOneCall
<1> QED
    BY <1>1, <1>2, <1>3 DEF PeakInv

\* A step of a caller in check_and_set_statistic.
LEMMA CallerStep ==
    ASSUME PeakInv, NEW t \in Callers, check_and_set_statistic(t)
    PROVE  PeakInv'
<1> USE CallersAssumption, DelaysAssumption
    DEF PeakInv, TypeInv, Names, LockInv, HandedIn, WrittenInv, PeakOfOneCall,
        Holding, Goto, readerVars, statVars, history
<1>1. ASSUME NEW d \in Delays, Delayed(t, d) PROVE PeakInv'
    BY <1>1 DEF Delayed
<1>2. CASE Compare(t)
    BY <1>2 DEF Compare, Done
<1>3. CASE Lock(t)
    BY <1>3 DEF Lock
<1>4. CASE SetDelay(t)
    BY <1>4 DEF SetDelay
<1>5. CASE SetUid(t)
    BY <1>5 DEF SetUid
<1>6. CASE SetNameFront(t)
    BY <1>6 DEF SetNameFront, SetName
<1>7. CASE SetNameBack(t)
    BY <1>7 DEF SetNameBack, SetName
<1>8. CASE Unlock(t)
    <2>1. peak_prog_name = [front |-> t, back |-> t]
        BY <1>8 DEF Unlock
    <2> QED
        BY <1>8, <2>1 DEF Unlock, Done
<1> QED
    BY <1>1, <1>2, <1>3, <1>4, <1>5, <1>6, <1>7, <1>8 DEF check_and_set_statistic

\* A step of get_syscall_stats.
LEMMA ReaderStep == PeakInv /\ get_syscall_stats => PeakInv'
<1> SUFFICES ASSUME PeakInv, get_syscall_stats PROVE PeakInv'
    OBVIOUS
<1>1. UnchangedByReader
    BY DEF get_syscall_stats, ReadDelay, ReadUid, ReadNameFront, ReadNameBack, ReadName,
        ReturnReport
<1>2. (LockInv /\ HandedIn /\ WrittenInv /\ PeakOfOneCall)'
    BY <1>1 DEF UnchangedByReader, PeakInv, LockInv, HandedIn, WrittenInv,
        PeakOfOneCall, statVars
<1>3. TypeInv'
    <2> USE DEF PeakInv, TypeInv, Names, UnchangedByReader, statVars
    <2>1. CASE ReadDelay
        <3>1. PICK ms \in Nat : ms = jiffies_to_msecs(peak_delay)
            BY MsecsIsUInt
        <3>2. report' = [report EXCEPT !.peak_delay = ms] /\ rpc' = "uid" /\ base' = settled
            BY <2>1, <3>1 DEF ReadDelay
        <3> QED
            BY <1>1, <3>2
    <2>2. CASE ReadUid
        BY <1>1, <2>2 DEF ReadUid
    <2>3. CASE ReadNameFront
        BY <1>1, <2>3 DEF ReadNameFront, ReadName
    <2>4. CASE ReadNameBack
        BY <1>1, <2>4 DEF ReadNameBack, ReadName
    <2>5. CASE ReturnReport
        BY <1>1, <2>5 DEF ReturnReport, NoReport, NoName
    <2> QED
        BY <2>1, <2>2, <2>3, <2>4, <2>5 DEF get_syscall_stats
<1> QED
    BY <1>2, <1>3 DEF PeakInv

LEMMA PeakStep == PeakInv /\ [Next]_vars => PeakInv'
<1> SUFFICES ASSUME PeakInv, [Next]_vars PROVE PeakInv'
    OBVIOUS
<1>1. CASE Next
    BY <1>1, CallerStep, ReaderStep DEF Next
<1>2. CASE UNCHANGED vars
    BY <1>2 DEF PeakInv, TypeInv, LockInv, HandedIn, WrittenInv, PeakOfOneCall,
                vars, statVars, readerVars, history
<1> QED
    BY <1>1, <1>2

-----------------------------------------------------------------------------
(***************************************************************************)
(* The settled peak                                                        *)
(***************************************************************************)
\* Whoever has passed the comparison since the callers were last all outside brings more
\* than the peak of that moment; what is stored is of calls delayed at least so long;
\* a report began at some such moment or later.
AheadInv ==
    /\ peak_delay >= settled
    /\ \A t \in Callers : pc[t] \in {"lock"} \cup Holding => delay[t] > settled
StoredInv ==
    /\ peak_delay \in {0} \cup {call[2] : call \in delayed}
    /\ peak_uid \in Worst(settled)
    /\ peak_prog_name.front \in Worst(settled)
    /\ peak_prog_name.back \in Worst(settled)

KeptInv == AheadInv /\ StoredInv /\ base <= settled /\ SettledPeakIsKept

LEMMA KeptInit == Init => KeptInv
<1> SUFFICES ASSUME Init PROVE KeptInv
    OBVIOUS
<1>1. Nobody \in Worst(0)
    BY DEF Worst
<1>2. AheadInv /\ base <= settled /\ SettledPeakIsKept
    BY DEF Init, AheadInv, SettledPeakIsKept, Holding
<1>3. StoredInv
    BY <1>1 DEF Init, StoredInv, NoName
<1> QED
    BY <1>2, <1>3 DEF KeptInv

\* Less delay is asked for and more calls were delayed: nobody leaves the set.
LEMMA WorstGrows ==
    ASSUME TypeInv, delayed \subseteq delayed',
           NEW m \in Nat, NEW n \in Nat, m <= n
    PROVE  Worst(n) \subseteq Worst(m)'
<1> SUFFICES ASSUME NEW x \in Worst(n) PROVE x \in Worst(m)'
    OBVIOUS
<1>1. CASE n = 0 /\ x = Nobody
    BY <1>1 DEF Worst
<1>2. CASE \E c \in delayed : c[2] >= n /\ x = c[1]
    <2>1. PICK c \in delayed : c[2] >= n /\ x = c[1]
        BY <1>2
    <2>2. c \in delayed' /\ c[2] >= m
        BY <2>1 DEF TypeInv
    <2> QED
        BY <2>1, <2>2 DEF Worst
<1> QED
    BY <1>1, <1>2 DEF Worst

\* What a report holds stays right while callers go on.
LEMMA ReportKept ==
    ASSUME TypeInv, SettledPeakIsKept, delayed \subseteq delayed',
           UNCHANGED <<rpc, report, base>>, peak_delay' >= settled'
    PROVE  SettledPeakIsKept'
<1>1. Worst(base) \subseteq Worst(base)'
    <2>1. PICK b \in Nat : b = base
        BY DEF TypeInv
    <2>2. Worst(b) \subseteq Worst(b)'
        BY <2>1, WorstGrows
    <2> QED
        BY <2>1, <2>2 DEF Worst
<1>2. {0} \cup {call[2] : call \in delayed} \subseteq {0} \cup {call[2] : call \in delayed'}
    OBVIOUS
<1>3. ASSUME rpc' # "idle"
      PROVE  \E d \in {0} \cup {call[2] : call \in delayed'} :
                d >= base' /\ report'.peak_delay = jiffies_to_msecs(d)
    BY <1>2, <1>3 DEF SettledPeakIsKept
<1> QED
    BY <1>1, <1>3 DEF SettledPeakIsKept, jiffies_to_msecs

LEMMA CallerKeeps ==
    ASSUME PeakInv, PeakInv', KeptInv, NEW t \in Callers, check_and_set_statistic(t)
    PROVE  KeptInv'
<1> USE CallersAssumption, DelaysAssumption
<1>1. delayed \subseteq delayed' /\ UNCHANGED <<rpc, report, base>>
    BY DEF check_and_set_statistic, Delayed, Compare, Done, Lock, SetDelay, SetUid,
        SetNameFront, SetNameBack, SetName, Unlock, readerVars, history
<1>2. settled' = settled \/ (settled' = peak_delay /\ peak_delay' = peak_delay)
    BY DEF check_and_set_statistic, Delayed, Compare, Done, Lock, SetDelay, SetUid,
        SetNameFront, SetNameBack, SetName, Unlock, statVars, history
<1>3. settled' >= settled
    BY <1>2 DEF PeakInv, TypeInv, KeptInv, AheadInv
<1>4. AheadInv'
    <2> USE DEF PeakInv, TypeInv, LockInv, WrittenInv, KeptInv, AheadInv, Holding, Goto,
            statVars, history
    <2>1. ASSUME NEW d \in Delays, Delayed(t, d) PROVE AheadInv'
        BY <2>1 DEF Delayed
    <2>2. CASE Compare(t)
        BY <2>2 DEF Compare, Done
    <2>3. CASE Lock(t)
        BY <2>3 DEF Lock
    <2>4. CASE SetDelay(t)
        BY <2>4 DEF SetDelay
    <2>5. CASE SetUid(t)
        BY <2>5 DEF SetUid
    <2>6. CASE SetNameFront(t)
        BY <2>6 DEF SetNameFront, SetName
    <2>7. CASE SetNameBack(t)
        BY <2>7 DEF SetNameBack, SetName
    <2>8. CASE Unlock(t)
        BY <2>8 DEF Unlock, Done
    <2> QED
        BY <2>1, <2>2, <2>3, <2>4, <2>5, <2>6, <2>7, <2>8 DEF check_and_set_statistic
<1>5. StoredInv'
    <2>1. PICK n \in Nat : n = settled'
        BY DEF PeakInv, TypeInv
    <2>2. \A w : w \in Worst(settled) /\ settled' = settled => w \in Worst(n)'
        BY <1>1, <2>1, WorstGrows DEF PeakInv, TypeInv
    <2>3. pc[t] \in {"lock"} \cup Holding /\ settled' = settled => t \in Worst(n)'
        <3> SUFFICES ASSUME pc[t] \in {"lock"} \cup Holding, settled' = settled
                     PROVE  t \in Worst(n)'
            OBVIOUS
        <3>1. <<t, delay[t]>> \in delayed'
            BY <1>1 DEF PeakInv, HandedIn, Holding
        <3>2. <<t, delay[t]>>[1] = t /\ <<t, delay[t]>>[2] >= n
            BY <2>1 DEF PeakInv, TypeInv, KeptInv, AheadInv
        <3> QED
            BY <3>1, <3>2 DEF Worst
    <2>4. peak_delay' \in {0} \cup {call[2] : call \in delayed'}
        <3>1. CASE SetDelay(t)
            <4>1. <<t, delay[t]>> \in delayed' /\ peak_delay' = <<t, delay[t]>>[2]
                BY <1>1, <3>1 DEF SetDelay, PeakInv, HandedIn
            <4> QED
                BY <4>1
        <3>2. CASE ~ SetDelay(t)
            <4>1. peak_delay' = peak_delay
                BY <3>2 DEF check_and_set_statistic, Delayed, Compare, Lock, SetUid,
                    SetNameFront, SetNameBack, SetName, Unlock, statVars
            <4> QED
                BY <1>1, <4>1 DEF KeptInv, StoredInv
        <3> QED
            BY <3>1, <3>2
    <2>5. CASE settled' = settled
        <3>1. /\ peak_uid' \in {peak_uid, t}
              /\ peak_prog_name'.front \in {peak_prog_name.front, t}
              /\ peak_prog_name'.back \in {peak_prog_name.back, t}
              /\ UNCHANGED <<peak_uid, peak_prog_name>> \/ pc[t] \in Holding
            BY DEF check_and_set_statistic, Delayed, Compare, Lock, SetDelay, SetUid,
                SetNameFront, SetNameBack, SetName, Unlock, statVars, PeakInv, TypeInv,
                Names, Holding
        <3>2. /\ peak_uid' \in Worst(n)' /\ peak_prog_name'.front \in Worst(n)'
              /\ peak_prog_name'.back \in Worst(n)'
            BY <2>2, <2>3, <2>5, <3>1 DEF KeptInv, StoredInv, Holding
        <3> QED
            BY <2>1, <2>4, <3>2 DEF StoredInv, Worst
    <2>6. CASE settled' # settled
        <3>1. /\ stats_lock' = Nobody /\ settled' = peak_delay'
              /\ UNCHANGED <<peak_delay, peak_uid, peak_prog_name>>
            BY <2>6 DEF check_and_set_statistic, Delayed, Compare, Done, Lock, SetDelay,
                SetUid, SetNameFront, SetNameBack, SetName, Unlock, statVars, history,
                PeakInv, TypeInv, LockInv, Holding
        <3>2. peak_delay' # 0
            BY <1>3, <2>6, <3>1 DEF PeakInv, TypeInv
        <3>3. /\ peak_prog_name'.front = peak_uid' /\ peak_prog_name'.back = peak_uid'
              /\ <<peak_uid', peak_delay'>> \in delayed'
            BY <3>1, <3>2 DEF PeakInv, PeakOfOneCall
        <3>4. peak_uid' \in Worst(settled)'
            <4>1. settled' \in Nat /\ <<peak_uid', peak_delay'>>[1] = peak_uid'
                  /\ <<peak_uid', peak_delay'>>[2] >= settled'
                BY <3>1 DEF PeakInv, TypeInv
            <4> QED
                BY <3>3, <4>1 DEF Worst
        <3> QED
            BY <2>4, <3>3, <3>4 DEF StoredInv
    <2> QED
        BY <2>5, <2>6
<1>6. base' <= settled'
    BY <1>1, <1>3 DEF PeakInv, TypeInv, KeptInv
<1>7. SettledPeakIsKept'
    BY <1>1, <1>4, ReportKept DEF PeakInv, KeptInv, AheadInv
<1> QED
    BY <1>4, <1>5, <1>6, <1>7 DEF KeptInv

LEMMA ReaderKeeps == PeakInv /\ PeakInv' /\ KeptInv /\ get_syscall_stats => KeptInv'
<1> SUFFICES ASSUME PeakInv, PeakInv', KeptInv, get_syscall_stats PROVE KeptInv'
    OBVIOUS
<1>1. UnchangedByReader
    BY DEF get_syscall_stats, ReadDelay, ReadUid, ReadNameFront, ReadNameBack, ReadName,
        ReturnReport
<1>2. AheadInv' /\ StoredInv'
    BY <1>1 DEF UnchangedByReader, statVars, KeptInv, AheadInv, StoredInv, Worst
<1>3. base' \in {base, settled, 0}
    BY DEF get_syscall_stats, ReadDelay, ReadUid, ReadNameFront, ReadNameBack, ReadName,
        ReturnReport
<1>4. base' <= settled'
    BY <1>1, <1>3 DEF UnchangedByReader, PeakInv, TypeInv, KeptInv
<1>5. Worst(settled) \subseteq Worst(base)'
    <2>1. PICK b \in Nat, n \in Nat : b = base' /\ n = settled
        BY DEF PeakInv, TypeInv
    <2>2. b <= n
        BY <1>1, <1>4, <2>1 DEF UnchangedByReader
    <2>3. Worst(n) \subseteq Worst(b)'
        BY <1>1, <2>2, WorstGrows DEF UnchangedByReader, PeakInv
    <2> QED
        BY <2>1, <2>3 DEF Worst
<1>6. SettledPeakIsKept'
    <2>1. /\ peak_delay' >= settled' /\ delayed' = delayed
          /\ peak_uid \in Worst(base)' /\ peak_prog_name.front \in Worst(base)'
          /\ peak_prog_name.back \in Worst(base)'
        BY <1>1, <1>2, <1>5 DEF UnchangedByReader, statVars, KeptInv, AheadInv, StoredInv
    <2>2. CASE ReadDelay
        <3>1. /\ report'.peak_delay = jiffies_to_msecs(peak_delay) /\ rpc' = "uid"
              /\ base' = settled
            BY <2>2 DEF ReadDelay, PeakInv, TypeInv
        <3>2. peak_delay >= base'
            BY <3>1 DEF KeptInv, AheadInv
        <3>3. peak_delay \in {0} \cup {call[2] : call \in delayed'}
            BY <2>1 DEF KeptInv, StoredInv
        <3>4. \E d \in {0} \cup {call[2] : call \in delayed'} :
                d >= base' /\ report'.peak_delay = jiffies_to_msecs(d)
            BY <3>1, <3>2, <3>3
        <3> QED
            BY <2>1, <3>1, <3>4 DEF SettledPeakIsKept, jiffies_to_msecs
    <2>3. CASE ReturnReport
        BY <2>1, <2>3 DEF ReturnReport, SettledPeakIsKept
    <2>4. CASE ReadUid \/ ReadNameFront \/ ReadNameBack
        <3>1. /\ rpc # "idle" /\ base' = base
              /\ report'.peak_delay = report.peak_delay
            BY <2>4 DEF ReadUid, ReadNameFront, ReadNameBack, ReadName, PeakInv, TypeInv
        <3>2. \E d \in {0} \cup {call[2] : call \in delayed'} :
                d >= base' /\ report'.peak_delay = jiffies_to_msecs(d)
            BY <2>1, <3>1 DEF KeptInv, SettledPeakIsKept
        <3>3. Worst(base)' = Worst(base)
            BY <2>1, <3>1 DEF Worst
        <3>4. /\ rpc' \in {"front", "back", "done"} => report'.peak_uid \in Worst(base)'
              /\ rpc' \in {"back", "done"} =>
                    report'.peak_prog_name.front \in Worst(base)'
              /\ rpc' = "done" => report'.peak_prog_name.back \in Worst(base)'
            <4>1. CASE ReadUid
                BY <2>1, <4>1 DEF ReadUid, PeakInv, TypeInv
            <4>2. CASE ReadNameFront
                BY <2>1, <3>3, <4>2 DEF ReadNameFront, ReadName, PeakInv, TypeInv, Names,
                    KeptInv, SettledPeakIsKept
            <4>3. CASE ReadNameBack
                BY <2>1, <3>3, <4>3 DEF ReadNameBack, ReadName, PeakInv, TypeInv, Names,
                    KeptInv, SettledPeakIsKept
            <4> QED
                BY <2>4, <4>1, <4>2, <4>3
        <3> QED
            BY <2>1, <3>2, <3>4 DEF SettledPeakIsKept, jiffies_to_msecs
    <2> QED
        BY <2>2, <2>3, <2>4 DEF get_syscall_stats
<1> QED
    BY <1>2, <1>4, <1>6 DEF KeptInv

LEMMA KeptStep == PeakInv /\ PeakInv' /\ KeptInv /\ [Next]_vars => KeptInv'
<1> SUFFICES ASSUME PeakInv, PeakInv', KeptInv, [Next]_vars PROVE KeptInv'
    OBVIOUS
<1>1. CASE Next
    BY <1>1, CallerKeeps, ReaderKeeps DEF Next
<1>2. CASE UNCHANGED vars
    <2>1. SettledPeakIsKept'
        BY <1>2, ReportKept DEF PeakInv, KeptInv, AheadInv, vars, statVars, readerVars,
            history
    <2> QED
        BY <1>2, <2>1 DEF KeptInv, AheadInv, StoredInv, Worst, vars, statVars, readerVars,
            history
<1> QED
    BY <1>1, <1>2

-----------------------------------------------------------------------------
\* Under stats_lock, which only the update takes, the stored triple is that of one
\* delayed call whenever the lock is free, for any number of callers of
\* check_and_set_statistic.
THEOREM StoredPeakIsOfOneCall == Spec => []PeakOfOneCall
<1>1. PeakInv => PeakOfOneCall
    BY DEF PeakInv
<1> QED
    BY <1>1, PeakInit, PeakStep, PTL DEF Spec

\* A peak that stood when no caller was in check_and_set_statistic is never lowered, and
\* no later report of get_syscall_stats is made of shorter delays or of callers that
\* were delayed less, for any number of callers, any delays and any overlap of updates
\* and reports.
THEOREM SettledPeakStays == Spec => []SettledPeakIsKept
<1>1. KeptInv => SettledPeakIsKept
    BY DEF KeptInv
<1> QED
    BY <1>1, PeakInit, PeakStep, KeptInit, KeptStep, PTL DEF Spec
=============================================================================
