------------------------ MODULE ModuleLifecycleProofs -----------------------
(***************************************************************************)
(* The safety properties of the module's life cycle hold for any number of *)
(* threads, of loads, of pages and of page tables.  The inductive          *)
(* invariant Inv says, for every place of insmod and rmmod, what the       *)
(* dispatcher, the device, the timer and the table of system calls are     *)
(* like, and for every thread in which code it is and why that code may    *)
(* be gone.                                                                *)
(***************************************************************************)
EXTENDS ModuleLifecycle, SyscallTableFinderProofs

Coming == {"search", "patch", "patched", "chrdev", "class", "device", "setup"}
Patched == {"chrdev", "class", "device", "setup", "live", "c_patch"}
Restored == {"c_dev", "c_off", "c_sync", "c_free"}

\* Which code is resident and where the dispatcher leads, by the place of insmod
\* and rmmod.
LoadInv ==
    /\ mpc = "search" <=> spc # "idle"
    /\ mpc = "unloaded" => resident = 0 /\ (dispatcher # Untouched => failed)
    /\ mpc # "unloaded" => resident = loads /\ loads >= 1
    /\ failed => mpc = "unloaded" /\ dispatcher # Untouched
    /\ abandoned \subseteq 1 .. loads
    /\ mpc \in {"search", "patch"} \cup Restored => dispatcher = Untouched
    /\ mpc \in {"patched", "c_patched"} => dispatcher = Torn
    /\ mpc \in Patched => dispatcher = resident
    /\ mpc \notin {"unloaded", "search"} =>
           hacked_syscall_tbl \in [page : 0 .. NPages - 1, offset : Offsets]

\* What of the device is registered, and who may have it open.
DevInv ==
    /\ mpc \in {"unloaded", "search", "patch", "patched", "chrdev", "c_off", "c_sync",
                "c_free"} => dev = {}
    /\ mpc = "class" => dev = {"chrdev"}
    /\ mpc = "device" => dev = {"chrdev", "class"}
    /\ \A u \in Admins : apc[u] # "out" => mpc \in {"setup", "live"}

\* A timer that is pending with the monitor off, and which no switch_off_monitor is about
\* to delete, was armed by core_setup that way; cleanup_rcu leaves no other behind.
TimerInv ==
    /\ TimerGoesWithModule
    /\ resident \in timers /\ is_monitor_active = 0 /\ (\A u \in Admins : apc[u] # "off")
           => resident \in stray
    /\ mpc \in Coming \ {"setup"} => resident \notin timers
    /\ mpc \in {"c_sync", "c_free"} => is_monitor_active = 0

\* The routine is not a wrapper, or that of a load removed with calls registered.
NoHook(word) == word < 0 => -word \in abandoned

\* The place of entry n in the table that was found.
At(n, p, o) ==
    /\ p = PageOf(hacked_syscall_tbl.page, hacked_syscall_tbl.offset, n)
    /\ o = OffsetOf(hacked_syscall_tbl.offset, n)

\* Where words point to a wrapper of this load, its entry is registered.
HookInv ==
    /\ memory \in [Pages -> [Offsets -> Int]]
    /\ \A p \in Pages, o \in Offsets :
           \/ NoHook(memory[p][o])
           \/ memory[p][o] = -resident /\ \E n \in registered : At(n, p, o)
    /\ \A n \in SysNums : NoHook(original[n])
    /\ \A t \in Threads : NoHook(to_call[t])
    /\ registered # {} => mpc \in {"setup", "live"} \cup Going
    /\ registered # {} /\ mpc \in Going => resident \in abandoned

\* Who is in which code, and why he is there when the code is not.
ThreadInv ==
    /\ \A t \in Threads : tpc[t] \in Inside =>
           tcode[t] \in 1 .. loads /\ tnr[t] \in SysNums
    /\ \A t \in Threads : tpc[t] \in Inside /\ tcode[t] # resident =>
           t \in caught \/ failed \/ tcode[t] \in abandoned
    /\ mpc \in {"search", "patch", "patched"} =>
           \A t \in Threads : tpc[t] \in Inside => tcode[t] # resident
    /\ mpc \in Restored =>
           \A t \in Threads : tpc[t] \in Inside => t \in caught

\* The walks cleanup_rcu has to fear are those that began after synchronize_rcu.
GraceInv ==
    \A t \in Threads : tpc[t] \in Walks /\ tcode[t] = resident =>
        /\ tent[t] \in registered \cup {NoEntry} \/ t \in late
        /\ mpc = "c_sync" => t \in gp \cup late
        /\ mpc = "c_free" => t \in late

\* The inductive invariant.
Inv == /\ TypeOK /\ SearchInv /\ LoadInv /\ DevInv /\ TimerInv
       /\ HookInv /\ ThreadInv /\ GraceInv

-----------------------------------------------------------------------------
\* Everything that is no step of insmod, rmmod, the device or the timer: threads and
\* (de)registrations leave the life cycle alone.
Elsewhere ==
    /\ page_table' = page_table
    /\ spc' = spc /\ k' = k /\ i' = i /\ hacked_syscall_tbl' = hacked_syscall_tbl
    /\ mpc' = mpc /\ loads' = loads /\ resident' = resident
    /\ dispatcher' = dispatcher /\ dev' = dev
    /\ timers' = timers /\ is_monitor_active' = is_monitor_active /\ apc' = apc
    /\ failed' = failed /\ abandoned' = abandoned /\ stray' = stray

\* What the device's functions and the timer leave alone: everything but the monitor.
OnlyCore ==
    /\ UNCHANGED <<machineVars, searchVars, loadVars, tableVars, gp, threadVars>>
    /\ UNCHANGED <<caught, late, failed, abandoned>>

LEMMA CoreStep ==
    ASSUME (\E u \in Admins : RootProcess(u)) \/ EpochHandler
    PROVE  OnlyCore
<1>1. ASSUME NEW u \in Admins, RootProcess(u) PROVE OnlyCore
    BY <1>1 DEF RootProcess, Open, Close, SwitchOff, SwitchOffCleanup, SwitchOn,
       SwitchOnSetup, OnlyCore, history
<1> QED
    BY <1>1 DEF EpochHandler, OnlyCore

\* What a thread leaves alone.
LEMMA ThreadStep ==
    ASSUME NEW t \in Threads, Thread(t)
    PROVE  /\ Elsewhere
           /\ memory' = memory /\ registered' = registered /\ original' = original
<1>1. ASSUME NEW n \in SysNums, Dispatch(t, n)
      PROVE  /\ Elsewhere
             /\ memory' = memory /\ registered' = registered /\ original' = original
    BY <1>1 DEF Dispatch, Elsewhere, machineVars, searchVars, loadVars, coreVars,
       tableVars, history
<1>2. CASE Call(t)
    BY <1>2 DEF Call, Elsewhere, machineVars, searchVars, loadVars, coreVars,
       tableVars, history
<1>3. CASE WrapperOff(t)
    BY <1>3 DEF WrapperOff, Elsewhere, machineVars, searchVars, loadVars, coreVars,
       tableVars, history
<1>4. CASE WalkBegin(t)
    BY <1>4 DEF WalkBegin, Elsewhere, machineVars, searchVars, loadVars, coreVars,
       tableVars, history
<1>5. CASE WrapperOn(t)
    BY <1>5 DEF WrapperOn, Elsewhere, machineVars, searchVars, loadVars, coreVars,
       tableVars, history
<1>6. CASE WalkEnd(t)
    BY <1>6 DEF WalkEnd, Elsewhere, machineVars, searchVars, loadVars, coreVars,
       tableVars, history
<1>7. CASE Wake(t)
    BY <1>7 DEF Wake, Elsewhere, machineVars, searchVars, loadVars, coreVars,
       tableVars, history
<1>8. CASE Return(t)
    BY <1>8 DEF Return, Elsewhere, machineVars, searchVars, loadVars, coreVars,
       tableVars, history
<1> QED
    BY <1>1, <1>2, <1>3, <1>4, <1>5, <1>6, <1>7, <1>8 DEF Thread

\* The steps of the life cycle, and all others.
LEMMA Steps ==
    ASSUME [Next]_vars
    PROVE  \/ init_module
           \/ RestoreFirst \/ RestoreRest \/ dev_cleanup \/ CleanupOff \/ CleanupSync
           \/ CleanupEnd \/ Rmmod \/ (\E u \in Admins : RootProcess(u))
           \/ EpochHandler \/ Elsewhere
<1>1. ASSUME NEW n \in SysNums, CleanupFree(n) PROVE Elsewhere
    BY <1>1
    DEF CleanupFree, Elsewhere, machineVars, searchVars, loadVars, coreVars, history
<1>2. ASSUME NEW n \in SysNums, Register(n) \/ Deregister(n) PROVE Elsewhere
    BY <1>2
    DEF Register, Deregister, Elsewhere, searchVars, loadVars, coreVars, history
<1>3. CASE UNCHANGED vars
    BY <1>3 DEF vars, Elsewhere, machineVars, searchVars, loadVars, coreVars, history
<1> QED
    BY <1>1, <1>2, <1>3, ThreadStep DEF Next, cleanup_module, RootProcesses

-----------------------------------------------------------------------------
\* What init_module leaves behind when it fails.
LEMMA InitFailsStep ==
    ASSUME InitFails
    PROVE  /\ mpc' = "unloaded" /\ resident' = 0 /\ loads' = loads
           /\ dispatcher' = dispatcher /\ abandoned' = abandoned
           /\ failed' <=> dispatcher # Untouched
    BY Zenon DEF InitFails

\* A failure leaves the patch exactly if failed records it.
LEMMA LoadFails ==
    ASSUME TypeOK, LoadInv, mpc # "unloaded", InitFails, spc' = "idle"
    PROVE  LoadInv'
<1>1. mpc' = "unloaded" /\ resident' = 0 /\ (dispatcher' # Untouched <=> failed')
    BY InitFailsStep
<1>2. abandoned' \subseteq 1 .. loads'
    BY InitFailsStep DEF LoadInv
<1> QED
    BY <1>1, <1>2 DEF LoadInv, Patched, Restored

\* The dispatcher follows insmod and rmmod; FindDispatcher is where the table the
\* search found becomes the one that is used.
LEMMA LoadKeeps ==
    ASSUME TypeOK, SearchInv, LoadInv, [Next]_vars
    PROVE  LoadInv'
<1> USE DEF TypeOK, LoadInv, Coming, Patched, Restored, Going, Step, machineVars,
       searchVars, loadVars, coreVars, tableVars, threadVars, history
<1>1. CASE Insmod
    BY <1>1 DEF Insmod, SearchStart
<1>2. CASE SearchStep
    <2>1. spc' # "idle"
        BY <1>2 DEF SearchStep, Search, syscall_table_finder, CheckSecondPage,
           MatchPattern, NextPage
    <2> QED
        BY <1>2, <2>1 DEF SearchStep
<1>3. CASE FindDispatcher
    <2>1. hacked_syscall_tbl # NoTable =>
              hacked_syscall_tbl \in [page : 0 .. NPages - 1, offset : Offsets]
        BY <1>3, GeometryAssumption
        DEF FindDispatcher, SearchInv, SearchTypeInv, FoundInv, Pages, Offsets
    <2>2. CASE InitFails
        BY <1>3, <2>2, LoadFails DEF FindDispatcher
    <2>3. CASE ~ InitFails
        <3>1. /\ mpc' = "patch" /\ loads' = loads /\ resident' = resident /\ spc' = "idle"
              /\ dispatcher' = dispatcher /\ failed' = failed /\ abandoned' = abandoned
              /\ hacked_syscall_tbl' = hacked_syscall_tbl
            BY <1>3, <2>3 DEF FindDispatcher
        <3>2. ~ failed'
            BY <1>3, <3>1, Zenon DEF FindDispatcher
        <3>3. mpc = "search" /\ hacked_syscall_tbl # NoTable
            BY <1>3, <2>3 DEF FindDispatcher
        <3> QED
            BY <2>1, <3>1, <3>2, <3>3
    <2> QED
        BY <2>2, <2>3
<1>4. CASE PatchFirst
    BY <1>4 DEF PatchFirst
<1>5. CASE PatchRest
    BY <1>5 DEF PatchRest
<1>6. CASE RegisterChrdev
    <2>1. spc' = "idle"
        BY <1>6 DEF RegisterChrdev
    <2>2. CASE InitFails
        BY <1>6, <2>1, <2>2, LoadFails DEF RegisterChrdev
    <2>3. CASE ~ InitFails
        <3>1. /\ mpc' = "class" /\ loads' = loads /\ resident' = resident /\ spc' = "idle"
              /\ dispatcher' = dispatcher /\ failed' = failed /\ abandoned' = abandoned
              /\ hacked_syscall_tbl' = hacked_syscall_tbl
            BY <1>6, <2>3 DEF RegisterChrdev
        <3>2. ~ failed'
            BY <1>6, <3>1, Zenon DEF RegisterChrdev
        <3> QED
            BY <1>6, <3>1, <3>2 DEF RegisterChrdev
    <2> QED
        BY <2>2, <2>3
<1>7. CASE ClassCreate
    <2>1. spc' = "idle"
        BY <1>7 DEF ClassCreate
    <2>2. CASE InitFails
        BY <1>7, <2>1, <2>2, LoadFails DEF ClassCreate
    <2>3. CASE ~ InitFails
        <3>1. /\ mpc' = "device" /\ loads' = loads /\ resident' = resident /\ spc' = "idle"
              /\ dispatcher' = dispatcher /\ failed' = failed /\ abandoned' = abandoned
              /\ hacked_syscall_tbl' = hacked_syscall_tbl
            BY <1>7, <2>3 DEF ClassCreate
        <3>2. ~ failed'
            BY <1>7, <3>1, Zenon DEF ClassCreate
        <3> QED
            BY <1>7, <3>1, <3>2 DEF ClassCreate
    <2> QED
        BY <2>2, <2>3
<1>8. CASE DeviceCreate
    <2>1. spc' = "idle"
        BY <1>8 DEF DeviceCreate
    <2>2. CASE InitFails
        BY <1>8, <2>1, <2>2, LoadFails DEF DeviceCreate
    <2>3. CASE ~ InitFails
        <3>1. /\ mpc' = "setup" /\ loads' = loads /\ resident' = resident /\ spc' = "idle"
              /\ dispatcher' = dispatcher /\ failed' = failed /\ abandoned' = abandoned
              /\ hacked_syscall_tbl' = hacked_syscall_tbl
            BY <1>8, <2>3 DEF DeviceCreate
        <3>2. ~ failed'
            BY <1>8, <3>1, Zenon DEF DeviceCreate
        <3> QED
            BY <1>8, <3>1, <3>2 DEF DeviceCreate
    <2> QED
        BY <2>2, <2>3
<1>9. CASE CoreSetup
    BY <1>9 DEF CoreSetup
<1>10. CASE RestoreFirst
    BY <1>10 DEF RestoreFirst
<1>11. CASE RestoreRest
    BY <1>11 DEF RestoreRest
<1>12. CASE dev_cleanup
    BY <1>12 DEF dev_cleanup
<1>13. CASE CleanupOff
    BY <1>13 DEF CleanupOff
<1>14. CASE CleanupSync
    BY <1>14 DEF CleanupSync
<1>15. CASE CleanupEnd
    BY <1>15 DEF CleanupEnd
<1>16. CASE Rmmod
    BY <1>16 DEF Rmmod
<1>17. CASE OnlyCore
    BY <1>17 DEF OnlyCore
<1>18. CASE Elsewhere
    BY <1>18 DEF Elsewhere
<1> QED
    BY <1>1, <1>2, <1>3, <1>4, <1>5, <1>6, <1>7, <1>8, <1>9, <1>10, <1>11, <1>12,
       <1>13, <1>14, <1>15, <1>16, <1>17, <1>18, CoreStep, Steps DEF
       init_module

\* dev_init and dev_cleanup; rmmod is refused while the device is open.
LEMMA DevKeeps ==
    ASSUME TypeOK, DevInv, [Next]_vars
    PROVE  DevInv'
<1> USE DEF TypeOK, DevInv, Going, Step, machineVars, searchVars, loadVars,
       coreVars, tableVars, threadVars, history
<1>1. CASE Insmod
    BY <1>1 DEF Insmod, SearchStart
<1>2. CASE SearchStep
    BY <1>2 DEF SearchStep
<1>3. CASE FindDispatcher
    BY <1>3 DEF FindDispatcher, InitFails
<1>4. CASE PatchFirst
    BY <1>4 DEF PatchFirst
<1>5. CASE PatchRest
    BY <1>5 DEF PatchRest
<1>6. CASE RegisterChrdev
    BY <1>6 DEF RegisterChrdev, InitFails
<1>7. CASE ClassCreate
    BY <1>7 DEF ClassCreate, InitFails
<1>8. CASE DeviceCreate
    BY <1>8 DEF DeviceCreate, InitFails
<1>9. CASE CoreSetup
    BY <1>9 DEF CoreSetup
<1>10. CASE RestoreFirst
    BY <1>10 DEF RestoreFirst
<1>11. CASE RestoreRest
    BY <1>11 DEF RestoreRest
<1>12. CASE dev_cleanup
    BY <1>12 DEF dev_cleanup
<1>13. CASE CleanupOff
    BY <1>13 DEF CleanupOff
<1>14. CASE CleanupSync
    BY <1>14 DEF CleanupSync
<1>15. CASE CleanupEnd
    BY <1>15 DEF CleanupEnd
<1>16. CASE Rmmod
    BY <1>16 DEF Rmmod
<1>17. ASSUME NEW u \in Admins, RootProcess(u) PROVE DevInv'
    <2>1. mpc' = mpc /\ dev' = dev
        BY <1>17, CoreStep DEF OnlyCore
    <2>2. \A v \in Admins : apc'[v] # "out" => apc[v] # "out" \/ mpc \in {"setup", "live"}
        <3>1. CASE Open(u)
            BY <3>1 DEF Open, UserStep
        <3>2. CASE ~ Open(u)
            <4>1. apc[u] # "out" /\ apc' = [apc EXCEPT ![u] = apc'[u]]
                BY <1>17, <3>2 DEF RootProcess, Close, SwitchOff, SwitchOffCleanup,
                   SwitchOn, SwitchOnSetup, UserStep
            <4> QED
                BY <4>1
        <3> QED
            BY <3>1, <3>2
    <2> QED
        BY <2>1, <2>2
<1>18. CASE EpochHandler
    BY <1>18 DEF EpochHandler
<1>19. CASE Elsewhere
    BY <1>19 DEF Elsewhere
<1> QED
    BY <1>1, <1>2, <1>3, <1>4, <1>5, <1>6, <1>7, <1>8, <1>9, <1>10, <1>11, <1>12,
       <1>13, <1>14, <1>15, <1>16, <1>17, <1>18, <1>19, Steps DEF
       init_module

\* The switches of the monitor and CleanupOff, whose early return leaves the timer.
LEMMA TimerKeeps ==
    ASSUME TypeOK, LoadInv, DevInv, TimerInv, [Next]_vars
    PROVE  TimerInv'
<1> USE DEF TypeOK, LoadInv, DevInv, TimerInv, TimerGoesWithModule, Coming, Patched, Restored, Going,
       Step, machineVars, searchVars, loadVars, coreVars, tableVars, threadVars,
       history
<1>1. CASE Insmod
    BY <1>1 DEF Insmod, SearchStart
<1>2. CASE SearchStep
    BY <1>2 DEF SearchStep
<1>3. CASE FindDispatcher
    BY <1>3 DEF FindDispatcher, InitFails
<1>4. CASE PatchFirst
    BY <1>4 DEF PatchFirst
<1>5. CASE PatchRest
    BY <1>5 DEF PatchRest
<1>6. CASE RegisterChrdev
    BY <1>6 DEF RegisterChrdev, InitFails
<1>7. CASE ClassCreate
    BY <1>7 DEF ClassCreate, InitFails
<1>8. CASE DeviceCreate
    BY <1>8 DEF DeviceCreate, InitFails
<1>9. CASE CoreSetup
    BY <1>9 DEF CoreSetup, core_setup
<1>10. CASE RestoreFirst
    BY <1>10 DEF RestoreFirst
<1>11. CASE RestoreRest
    BY <1>11 DEF RestoreRest
<1>12. CASE dev_cleanup
    BY <1>12 DEF dev_cleanup
<1>13. CASE CleanupOff
    BY <1>13 DEF CleanupOff, core_cleanup
<1>14. CASE CleanupSync
    BY <1>14 DEF CleanupSync
<1>15. CASE CleanupEnd
    BY <1>15 DEF CleanupEnd
<1>16. CASE Rmmod
    BY <1>16 DEF Rmmod
<1>17. ASSUME NEW u \in Admins, RootProcess(u) PROVE TimerInv'
    <2> USE DEF UserStep
    <2>1. CASE Open(u)
        BY <2>1 DEF Open
    <2>2. CASE Close(u)
        BY <2>2 DEF Close
    <2>3. CASE SwitchOff(u)
        BY <2>3 DEF SwitchOff
    <2>4. CASE SwitchOffCleanup(u)
        BY <2>4 DEF SwitchOffCleanup, core_cleanup
    <2>5. CASE SwitchOn(u)
        BY <2>5 DEF SwitchOn
    <2>6. CASE SwitchOnSetup(u)
        BY <2>6 DEF SwitchOnSetup, core_setup
    <2> QED
        BY <1>17, <2>1, <2>2, <2>3, <2>4, <2>5, <2>6 DEF RootProcess
<1>18. CASE EpochHandler
    BY <1>18 DEF EpochHandler
<1>19. CASE Elsewhere
    BY <1>19 DEF Elsewhere
<1> QED
    BY <1>1, <1>2, <1>3, <1>4, <1>5, <1>6, <1>7, <1>8, <1>9, <1>10, <1>11, <1>12,
       <1>13, <1>14, <1>15, <1>16, <1>17, <1>18, <1>19, Steps DEF
       init_module

-----------------------------------------------------------------------------
\* Registrations change the table only while no search is under way.
LEMMA SearchInvKeeps ==
    ASSUME SearchInv, LoadInv, DevInv, [Next]_vars
    PROVE  SearchInv'
<1> USE DEF machineVars, searchVars
<1>1. CASE Insmod
    BY <1>1, SearchBegins DEF Insmod, SearchInv
<1>2. CASE SearchStep
    BY <1>2, SearchKeeps DEF SearchStep
<1>3. ASSUME UNCHANGED page_table, spc' = "idle", UNCHANGED <<k, i, hacked_syscall_tbl>>
      PROVE  SearchInv'
    BY <1>3 DEF SearchInv, MapInv, SearchTypeInv, LoopInv, FoundInv
<1>4. CASE FindDispatcher
    BY <1>3, <1>4 DEF FindDispatcher
<1>5. ASSUME NEW n \in SysNums, Register(n) \/ Deregister(n)
      PROVE  SearchInv'
    BY <1>3, <1>5 DEF Register, Deregister, LoadInv, DevInv
<1>6. ASSUME UNCHANGED <<machineVars, searchVars>>
      PROVE  SearchInv'
    BY <1>6, TablesStay DEF SearchInv, SearchTypeInv, LoopInv, FoundInv
<1>7. CASE PatchFirst \/ PatchRest \/ RegisterChrdev \/ ClassCreate \/ DeviceCreate
              \/ CoreSetup
    BY <1>6, <1>7
    DEF PatchFirst, PatchRest, RegisterChrdev, ClassCreate, DeviceCreate, CoreSetup
<1>8. CASE RestoreFirst \/ RestoreRest \/ dev_cleanup \/ CleanupOff \/ CleanupSync
              \/ CleanupEnd \/ Rmmod
    BY <1>6, <1>8
    DEF RestoreFirst, RestoreRest, dev_cleanup, CleanupOff, CleanupSync, CleanupEnd,
       Rmmod
<1>9. CASE \E n \in SysNums : CleanupFree(n)
    BY <1>6, <1>9 DEF CleanupFree
<1>10. CASE (\E u \in Admins : RootProcess(u)) \/ EpochHandler
    BY <1>6, <1>10, CoreStep DEF OnlyCore
<1>11. ASSUME NEW t \in Threads, Thread(t)
       PROVE  SearchInv'
    BY <1>6, <1>11, ThreadStep DEF Elsewhere
<1>12. CASE UNCHANGED vars
    BY <1>6, <1>12 DEF vars
<1> QED
    BY <1>1, <1>2, <1>4, <1>5, <1>7, <1>8, <1>9, <1>10, <1>11, <1>12
    DEF Next, init_module, cleanup_module, RootProcesses

-----------------------------------------------------------------------------
\* Different entries of the table are different words of memory.
LEMMA EntriesApart ==
    ASSUME NEW tab \in [page : 0 .. NPages - 1, offset : Offsets],
           NEW n \in SysNums, NEW m \in SysNums
    PROVE  /\ PageOf(tab.page, tab.offset, n) \in Pages
           /\ OffsetOf(tab.offset, n) \in Offsets
           /\ PageOf(tab.page, tab.offset, n) = PageOf(tab.page, tab.offset, m)
                  /\ OffsetOf(tab.offset, n) = OffsetOf(tab.offset, m) => n = m
<1>1. n \in 0 .. SEVENTH_NI_SYSCALL /\ m \in 0 .. SEVENTH_NI_SYSCALL
    BY SysNumsAssumption
<1>2. tab.page \in 0 .. NPages - 1 /\ tab.offset \in 0 .. PageWords - 1
    BY DEF Offsets
<1> QED
    BY <1>1, <1>2, GeometryAssumption DEF PageOf, OffsetOf, Pages, Offsets

\* An entry of the table leads to a wrapper of this load only if it is registered.
LEMMA EntryIs ==
    ASSUME HookInv, LoadInv, TypeOK, mpc \notin {"unloaded", "search"}, NEW n \in SysNums
    PROVE  /\ EntryOf(n) \in Int
           /\ NoHook(EntryOf(n)) \/ (EntryOf(n) = -resident /\ n \in registered)
<1> DEFINE p == PageOf(hacked_syscall_tbl.page, hacked_syscall_tbl.offset, n)
           o == OffsetOf(hacked_syscall_tbl.offset, n)
<1>1. hacked_syscall_tbl \in [page : 0 .. NPages - 1, offset : Offsets]
    BY DEF LoadInv
<1>2. p \in Pages /\ o \in Offsets
    BY <1>1, EntriesApart
<1>3. EntryOf(n) = memory[p][o]
    BY DEF EntryOf, Word
<1>4. EntryOf(n) \in Int
    BY <1>2, <1>3 DEF HookInv
<1>5. \/ NoHook(memory[p][o])
      \/ memory[p][o] = -resident /\ \E m \in registered : At(m, p, o)
    BY <1>2 DEF HookInv
<1>6. ASSUME NEW m \in registered, At(m, p, o) PROVE m = n
    BY <1>1, <1>6, EntriesApart DEF At, TypeOK
<1> HIDE DEF p, o
<1> QED
    BY <1>3, <1>4, <1>5, <1>6

\* The types; words of the table are integers.
LEMMA TypeKeeps ==
    ASSUME TypeOK, SearchInv', LoadInv, DevInv, HookInv, ThreadInv, [Next]_vars
    PROVE  TypeOK'
<1> USE DEF TypeOK, Step, Inside, Walks, Going, NoEntry, Torn, Untouched,
       machineVars, searchVars, loadVars, coreVars, tableVars, threadVars, history
<1>0. SearchTypeInv' /\ MaxLoads \in Nat
    BY MaxLoadsAssumption DEF SearchInv
<1> USE DEF SearchTypeInv
<1>1. CASE Insmod
    BY <1>1, <1>0 DEF Insmod, SearchStart
<1>2. CASE SearchStep
    BY <1>2, <1>0 DEF SearchStep, Search, syscall_table_finder, CheckSecondPage,
       MatchPattern, NextPage
<1>3. CASE FindDispatcher
    BY <1>3, <1>0 DEF FindDispatcher, InitFails
<1>4. CASE PatchFirst
    BY <1>4, <1>0 DEF PatchFirst
<1>5. CASE PatchRest
    BY <1>5, <1>0 DEF PatchRest
<1>6. CASE RegisterChrdev
    <2>1. /\ mpc' \in {"unloaded", "class", "device", "setup"} /\ loads' = loads
          /\ resident' \in {0, resident} /\ dispatcher' = dispatcher
        BY <1>6 DEF RegisterChrdev, InitFails
    <2>2. dev' \subseteq {"chrdev", "class", "device"}
        BY <1>6 DEF RegisterChrdev
    <2> QED
        BY <1>6, <1>0, <2>1, <2>2 DEF RegisterChrdev
<1>7. CASE ClassCreate
    <2>1. /\ mpc' \in {"unloaded", "class", "device", "setup"} /\ loads' = loads
          /\ resident' \in {0, resident} /\ dispatcher' = dispatcher
        BY <1>7 DEF ClassCreate, InitFails
    <2>2. dev' \subseteq {"chrdev", "class", "device"}
        BY <1>7 DEF ClassCreate
    <2> QED
        BY <1>7, <1>0, <2>1, <2>2 DEF ClassCreate
<1>8. CASE DeviceCreate
    <2>1. /\ mpc' \in {"unloaded", "class", "device", "setup"} /\ loads' = loads
          /\ resident' \in {0, resident} /\ dispatcher' = dispatcher
        BY <1>8 DEF DeviceCreate, InitFails
    <2>2. dev' \subseteq {"chrdev", "class", "device"}
        BY <1>8 DEF DeviceCreate
    <2> QED
        BY <1>8, <1>0, <2>1, <2>2 DEF DeviceCreate
<1>9. CASE CoreSetup
    BY <1>9, <1>0 DEF CoreSetup, core_setup, LoadInv
<1>10. CASE RestoreFirst
    BY <1>10, <1>0 DEF RestoreFirst
<1>11. CASE RestoreRest
    BY <1>11, <1>0 DEF RestoreRest
<1>12. CASE dev_cleanup
    BY <1>12, <1>0 DEF dev_cleanup
<1>13. CASE CleanupOff
    BY <1>13, <1>0 DEF CleanupOff, core_cleanup
<1>14. CASE CleanupSync
    BY <1>14, <1>0 DEF CleanupSync
<1>15. ASSUME NEW n \in SysNums, CleanupFree(n) PROVE TypeOK'
    BY <1>15, <1>0 DEF CleanupFree
<1>16. CASE CleanupEnd
    BY <1>16, <1>0 DEF CleanupEnd
<1>17. CASE Rmmod
    BY <1>17, <1>0 DEF Rmmod
<1>18. ASSUME NEW n \in SysNums, Register(n) PROVE TypeOK'
    <2>1. EntryOf(n) \in Int
        BY <1>18, EntryIs DEF Register, DevInv
    <2> QED
        BY <1>18, <1>0, <2>1 DEF Register
<1>19. ASSUME NEW n \in SysNums, Deregister(n) PROVE TypeOK'
    BY <1>19, <1>0 DEF Deregister
<1>20. ASSUME NEW u \in Admins, RootProcess(u) PROVE TypeOK'
    <2>1. apc' \in [Admins -> {"out", "open", "off", "on"}] /\ is_monitor_active' \in {0, 1}
        BY <1>20 DEF RootProcess, Open, Close, SwitchOff, SwitchOffCleanup, SwitchOn,
           SwitchOnSetup, UserStep
    <2>2. timers' \subseteq 1 .. loads
        <3>1. CASE SwitchOnSetup(u)
            BY <3>1 DEF SwitchOnSetup, core_setup, UserStep, DevInv, LoadInv
        <3>2. CASE ~ SwitchOnSetup(u)
            BY <1>20, <3>2 DEF RootProcess, Open, Close, SwitchOff, SwitchOffCleanup,
               SwitchOn, core_cleanup
        <3> QED
            BY <3>1, <3>2
    <2>3. OnlyCore
        BY <1>20, CoreStep
    <2> QED
        BY <1>0, <2>1, <2>2, <2>3 DEF OnlyCore
<1>21. CASE EpochHandler
    BY <1>21, <1>0 DEF EpochHandler
<1>22. ASSUME NEW t \in Threads, NEW n \in SysNums, Dispatch(t, n) PROVE TypeOK'
    BY <1>22, <1>0 DEF Dispatch, Goto
<1>23. ASSUME NEW t \in Threads, Call(t) PROVE TypeOK'
    <2>1. mpc \notin {"unloaded", "search"} /\ tnr[t] \in SysNums
        BY <1>23 DEF Call, Runs, LoadInv, ThreadInv
    <2>2. EntryOf(tnr[t]) \in Int
        BY <2>1, EntryIs
    <2> QED
        BY <1>23, <1>0, <2>2 DEF Call, Goto, Leave
<1>24. ASSUME NEW t \in Threads, WrapperOff(t) PROVE TypeOK'
    BY <1>24, <1>0 DEF WrapperOff, Goto, Leave, Runs
<1>25. ASSUME NEW t \in Threads, WrapperOn(t) PROVE TypeOK'
    BY <1>25, <1>0 DEF WrapperOn, Goto, Runs
<1>26. ASSUME NEW t \in Threads, WalkBegin(t) PROVE TypeOK'
    BY <1>26, <1>0 DEF WalkBegin, Goto, Runs
<1>27. ASSUME NEW t \in Threads, WalkEnd(t) PROVE TypeOK'
    <2>1. tnr[t] \in SysNums
        BY <1>27 DEF WalkEnd, Runs, ThreadInv
    <2>2. to_call' \in [Threads -> Int]
        BY <1>27, <2>1 DEF WalkEnd
    <2>3. /\ tpc' \in [Threads -> {"user", "lost"} \cup Inside]
          /\ tcode' \in [Threads -> Int]
        BY <1>27, <2>2 DEF WalkEnd, CallOriginal, Goto
    <2>4. tent' \in [Threads -> SysNums \cup {NoEntry}]
        BY <1>27 DEF WalkEnd
    <2> QED
        BY <1>27, <1>0, <2>2, <2>3, <2>4 DEF WalkEnd
<1>28. ASSUME NEW t \in Threads, Wake(t) PROVE TypeOK'
    BY <1>28, <1>0 DEF Wake, Goto, Runs, CallOriginal
<1>29. ASSUME NEW t \in Threads, Return(t) PROVE TypeOK'
    BY <1>29, <1>0 DEF Return, Goto, Leave, Runs
<1>30. CASE UNCHANGED vars
    BY <1>30 DEF vars
<1> QED
    BY <1>1, <1>2, <1>3, <1>4, <1>5, <1>6, <1>7, <1>8, <1>9, <1>10, <1>11, <1>12,
       <1>13, <1>14, <1>15, <1>16, <1>17, <1>18, <1>19, <1>20, <1>21, <1>22, <1>23,
       <1>24, <1>25, <1>26, <1>27, <1>28, <1>29, <1>30, Zenon DEF Next,
       init_module, cleanup_module, RootProcesses, Thread

\* A registration saves a word that is no wrapper of this load, and a deregistration
\* puts it back: wrappers stay behind only for registered or abandoned calls.
LEMMA HookKeeps ==
    ASSUME TypeOK, TypeOK', LoadInv, DevInv, HookInv, ThreadInv, [Next]_vars
    PROVE  HookInv'
<1> USE DEF TypeOK, LoadInv, HookInv, NoHook, At, Step, Going, Restored, Patched,
       machineVars, searchVars, loadVars, coreVars, tableVars, threadVars, history
<1>1. CASE Insmod
    BY <1>1 DEF Insmod, SearchStart
<1>2. CASE SearchStep
    BY <1>2 DEF SearchStep, Search, syscall_table_finder, CheckSecondPage,
       MatchPattern, NextPage
<1>3. CASE FindDispatcher
    BY <1>3 DEF FindDispatcher, InitFails
<1>4. CASE PatchFirst
    BY <1>4 DEF PatchFirst
<1>5. CASE PatchRest
    BY <1>5 DEF PatchRest
<1>6. CASE RegisterChrdev
    BY <1>6 DEF RegisterChrdev, InitFails
<1>7. CASE ClassCreate
    BY <1>7 DEF ClassCreate, InitFails
<1>8. CASE DeviceCreate
    BY <1>8 DEF DeviceCreate, InitFails
<1>9. CASE CoreSetup
    BY <1>9 DEF CoreSetup
<1>10. CASE RestoreFirst
    BY <1>10 DEF RestoreFirst
<1>11. CASE RestoreRest
    BY <1>11 DEF RestoreRest
<1>12. CASE dev_cleanup
    BY <1>12 DEF dev_cleanup
<1>13. CASE CleanupOff
    BY <1>13 DEF CleanupOff
<1>14. CASE CleanupSync
    BY <1>14 DEF CleanupSync
<1>15. ASSUME NEW n \in SysNums, CleanupFree(n) PROVE HookInv'
    BY <1>15 DEF CleanupFree
<1>16. CASE CleanupEnd
    BY <1>16 DEF CleanupEnd
<1>17. CASE Rmmod
    BY <1>17 DEF Rmmod
<1>18. ASSUME NEW n \in SysNums, Register(n) PROVE HookInv'
    <2> DEFINE pn == PageOf(hacked_syscall_tbl.page, hacked_syscall_tbl.offset, n)
               on == OffsetOf(hacked_syscall_tbl.offset, n)
    <2>1. mpc \in {"setup", "live"} /\ n \notin registered /\ n \in registered'
        BY <1>18 DEF Register, DevInv
    <2>2. pn \in Pages /\ on \in Offsets
        BY <2>1, EntriesApart
    <2>3. NoHook(EntryOf(n))
        BY <2>1, EntryIs
    <2>4. memory' = [memory EXCEPT ![pn][on] = -resident]
        BY <1>18 DEF Register, SetEntry
    <2>5. memory' \in [Pages -> [Offsets -> Int]]
        BY <2>2, <2>4
    <2>6. ASSUME NEW p \in Pages, NEW o \in Offsets
          PROVE  \/ NoHook(memory'[p][o])
                 \/ memory'[p][o] = -resident /\ \E m \in registered' : At(m, p, o)
        <3>1. CASE p = pn /\ o = on
            BY <2>1, <2>2, <2>4, <3>1
        <3>2. CASE ~ (p = pn /\ o = on)
            <4>1. memory'[p][o] = memory[p][o]
                BY <2>2, <2>4, <3>2
            <4> QED
                BY <1>18, <4>1 DEF Register
        <3> QED
            BY <3>1, <3>2
    <2>7. \A m \in SysNums : NoHook(original'[m])
        BY <1>18, <2>3 DEF Register
    <2> HIDE DEF pn, on
    <2> QED
        BY <1>18, <2>1, <2>5, <2>6, <2>7 DEF Register
<1>19. ASSUME NEW n \in SysNums, Deregister(n) PROVE HookInv'
    <2> DEFINE pn == PageOf(hacked_syscall_tbl.page, hacked_syscall_tbl.offset, n)
               on == OffsetOf(hacked_syscall_tbl.offset, n)
    <2>1. mpc \in {"setup", "live"} /\ registered' = registered \ {n}
        BY <1>19 DEF Deregister, DevInv
    <2>2. pn \in Pages /\ on \in Offsets
        BY <2>1, EntriesApart
    <2>3. memory' = [memory EXCEPT ![pn][on] = original[n]]
        BY <1>19 DEF Deregister, SetEntry
    <2>4. memory' \in [Pages -> [Offsets -> Int]]
        BY <2>2, <2>3
    <2>5. ASSUME NEW p \in Pages, NEW o \in Offsets
          PROVE  \/ NoHook(memory'[p][o])
                 \/ memory'[p][o] = -resident /\ \E m \in registered' : At(m, p, o)
        <3>1. CASE p = pn /\ o = on
            BY <2>2, <2>3, <3>1
        <3>2. CASE ~ (p = pn /\ o = on)
            <4>1. memory'[p][o] = memory[p][o]
                BY <2>2, <2>3, <3>2
            <4>2. \A m \in registered : At(m, p, o) => m # n
                BY <3>2
            <4> QED
                BY <2>1, <4>1, <4>2
        <3> QED
            BY <3>1, <3>2
    <2> HIDE DEF pn, on
    <2> QED
        BY <1>19, <2>1, <2>4, <2>5 DEF Deregister
<1>20. CASE OnlyCore
    BY <1>20 DEF OnlyCore
<1>21. ASSUME NEW t \in Threads, NEW n \in SysNums, Dispatch(t, n) PROVE HookInv'
    BY <1>21 DEF Dispatch, Goto
<1>22. ASSUME NEW t \in Threads, Call(t) PROVE HookInv'
    BY <1>22 DEF Call, Goto, Leave, Runs
<1>23. ASSUME NEW t \in Threads, WrapperOff(t) PROVE HookInv'
    BY <1>23 DEF WrapperOff, Goto, Leave, Runs
<1>24. ASSUME NEW t \in Threads, WrapperOn(t) PROVE HookInv'
    BY <1>24 DEF WrapperOn, Goto, Runs
<1>25. ASSUME NEW t \in Threads, WalkBegin(t) PROVE HookInv'
    BY <1>25 DEF WalkBegin, Goto, Runs
<1>26. ASSUME NEW t \in Threads, WalkEnd(t) PROVE HookInv'
    <2>1. tnr[t] \in SysNums
        BY <1>26 DEF WalkEnd, Runs, ThreadInv, Inside, Walks
    <2>2. \A u \in Threads : NoHook(to_call'[u])
        BY <1>26, <2>1 DEF WalkEnd
    <2> QED
        BY <1>26, <2>2 DEF WalkEnd
<1>27. ASSUME NEW t \in Threads, Wake(t) PROVE HookInv'
    BY <1>27 DEF Wake, Goto, Runs, CallOriginal
<1>28. ASSUME NEW t \in Threads, Return(t) PROVE HookInv'
    BY <1>28 DEF Return, Goto, Leave, Runs
<1>29. CASE UNCHANGED vars
    BY <1>29 DEF vars
<1> QED
    BY <1>1, <1>2, <1>3, <1>4, <1>5, <1>6, <1>7, <1>8, <1>9, <1>10, <1>11, <1>12,
       <1>13, <1>14, <1>15, <1>16, <1>17, <1>18, <1>19, <1>20, <1>21, <1>22, <1>23,
       <1>24, <1>25, <1>26, <1>27, <1>28, <1>29, CoreStep, Zenon DEF Next,
       init_module, cleanup_module, RootProcesses, Thread

\* A thread comes into code through the dispatcher or through a word of the table.
LEMMA ThreadKeeps ==
    ASSUME TypeOK, TypeOK', LoadInv, LoadInv', DevInv, HookInv, ThreadInv, [Next]_vars
    PROVE  ThreadInv'
<1> USE DEF TypeOK, LoadInv, ThreadInv, Inside, Walks, Going, Restored, Patched,
       Step, Torn, Untouched, machineVars, searchVars, loadVars, coreVars,
       tableVars, threadVars, history
<1>1. CASE Insmod
    BY <1>1 DEF Insmod, SearchStart
<1>2. CASE SearchStep
    BY <1>2 DEF SearchStep, Search, syscall_table_finder, CheckSecondPage,
       MatchPattern, NextPage
<1>3. CASE FindDispatcher
    BY <1>3 DEF FindDispatcher, InitFails
<1>4. CASE PatchFirst
    BY <1>4 DEF PatchFirst
<1>5. CASE PatchRest
    BY <1>5 DEF PatchRest
<1>6. CASE RegisterChrdev
    BY <1>6 DEF RegisterChrdev, InitFails
<1>7. CASE ClassCreate
    BY <1>7 DEF ClassCreate, InitFails
<1>8. CASE DeviceCreate
    BY <1>8 DEF DeviceCreate, InitFails
<1>9. CASE CoreSetup
    BY <1>9 DEF CoreSetup
<1>10. CASE RestoreFirst
    BY <1>10 DEF RestoreFirst
<1>11. CASE RestoreRest
    BY <1>11 DEF RestoreRest
<1>12. CASE dev_cleanup
    BY <1>12 DEF dev_cleanup
<1>13. CASE CleanupOff
    BY <1>13 DEF CleanupOff
<1>14. CASE CleanupSync
    BY <1>14 DEF CleanupSync
<1>15. ASSUME NEW n \in SysNums, CleanupFree(n) PROVE ThreadInv'
    BY <1>15 DEF CleanupFree
<1>16. CASE CleanupEnd
    BY <1>16 DEF CleanupEnd
<1>17. CASE Rmmod
    BY <1>17 DEF Rmmod
<1>18. ASSUME NEW n \in SysNums, Register(n) PROVE ThreadInv'
    BY <1>18 DEF Register
<1>19. ASSUME NEW n \in SysNums, Deregister(n) PROVE ThreadInv'
    BY <1>19 DEF Deregister
<1>20. CASE OnlyCore
    BY <1>20 DEF OnlyCore
<1>21. ASSUME NEW t \in Threads, NEW n \in SysNums, Dispatch(t, n) PROVE ThreadInv'
    BY <1>21 DEF Dispatch, Goto
<1>22. ASSUME NEW t \in Threads, Call(t) PROVE ThreadInv'
    <2>1. tcode[t] = resident /\ tcode[t] \in 1 .. loads /\ tnr[t] \in SysNums
          /\ mpc \notin {"unloaded", "search", "patch", "patched"}
        BY <1>22 DEF Call, Runs
    <2>2. EntryOf(tnr[t]) \in Int /\ (EntryOf(tnr[t]) < 0 =>
              - EntryOf(tnr[t]) = resident \/ - EntryOf(tnr[t]) \in abandoned)
        BY <2>1, EntryIs DEF NoHook
    <2>3. CASE EntryOf(tnr[t]) < 0
        <3>1. /\ tpc' = [tpc EXCEPT ![t] = "wrapper"]
              /\ tcode' = [tcode EXCEPT ![t] = - EntryOf(tnr[t])]
              /\ tnr' = tnr /\ caught' = caught
            BY <1>22, <2>3 DEF Call, Goto
        <3> QED
            BY <1>22, <2>1, <2>2, <2>3, <3>1 DEF Call, Runs
    <2>4. CASE ~ (EntryOf(tnr[t]) < 0)
        BY <1>22, <2>4 DEF Call, Goto, Leave
    <2> QED
        BY <2>3, <2>4
<1>23. ASSUME NEW t \in Threads, WrapperOff(t) PROVE ThreadInv'
    BY <1>23 DEF WrapperOff, Goto, Leave, Runs
<1>24. ASSUME NEW t \in Threads, WrapperOn(t) PROVE ThreadInv'
    BY <1>24 DEF WrapperOn, Goto, Runs
<1>25. ASSUME NEW t \in Threads, WalkBegin(t) PROVE ThreadInv'
    BY <1>25 DEF WalkBegin, Goto, Runs
<1>26. ASSUME NEW t \in Threads, WalkEnd(t) PROVE ThreadInv'
    <2>1. tcode[t] = resident /\ mpc \notin {"unloaded", "search", "patch", "patched"}
        BY <1>26 DEF WalkEnd, Runs
    <2>2. to_call'[t] \in Int /\ (to_call'[t] < 0 => - to_call'[t] \in abandoned)
        BY <1>26, <2>1 DEF WalkEnd, HookInv, NoHook, Runs
    <2>3. tcode'[t] = resident \/ tcode'[t] \in abandoned
        BY <1>26, <2>1, <2>2 DEF WalkEnd, CallOriginal
    <2>4. tpc' = [tpc EXCEPT ![t] = tpc'[t]] /\ tcode' = [tcode EXCEPT ![t] = tcode'[t]]
        BY <1>26 DEF WalkEnd, CallOriginal, Goto
    <2>5. tpc[t] \in Inside
        BY <1>26 DEF WalkEnd, Runs
    <2> QED
        BY <1>26, <2>1, <2>3, <2>4, <2>5 DEF WalkEnd
<1>27. ASSUME NEW t \in Threads, Wake(t) PROVE ThreadInv'
    <2>1. tcode[t] = resident /\ mpc \notin {"unloaded", "search", "patch", "patched"}
        BY <1>27 DEF Wake, Runs
    <2>2. to_call[t] \in Int /\ (to_call[t] < 0 => - to_call[t] \in abandoned)
        BY DEF HookInv, NoHook
    <2>3. tcode'[t] = resident \/ tcode'[t] \in abandoned
        BY <1>27, <2>1, <2>2 DEF Wake, CallOriginal
    <2> QED
        BY <1>27, <2>1, <2>3 DEF Wake, CallOriginal, Goto, Runs
<1>28. ASSUME NEW t \in Threads, Return(t) PROVE ThreadInv'
    BY <1>28 DEF Return, Goto, Leave, Runs
<1>29. CASE UNCHANGED vars
    BY <1>29 DEF vars
<1> QED
    BY <1>1, <1>2, <1>3, <1>4, <1>5, <1>6, <1>7, <1>8, <1>9, <1>10, <1>11, <1>12,
       <1>13, <1>14, <1>15, <1>16, <1>17, <1>18, <1>19, <1>20, <1>21, <1>22, <1>23,
       <1>24, <1>25, <1>26, <1>27, <1>28, <1>29, CoreStep, Zenon DEF Next,
       init_module, cleanup_module, RootProcesses, Thread

\* synchronize_rcu returns when the walks begun before it are over.
LEMMA GraceKeeps ==
    ASSUME TypeOK, TypeOK', LoadInv, DevInv, HookInv, ThreadInv, GraceInv, [Next]_vars
    PROVE  GraceInv'
<1> USE DEF TypeOK, LoadInv, ThreadInv, GraceInv, Inside, Walks, Going, Step,
       NoEntry, machineVars, searchVars, loadVars, coreVars, tableVars, threadVars,
       history
<1>1. CASE Insmod
    BY <1>1 DEF Insmod, SearchStart
<1>2. CASE SearchStep
    BY <1>2 DEF SearchStep, Search, syscall_table_finder, CheckSecondPage,
       MatchPattern, NextPage
<1>3. CASE FindDispatcher
    BY <1>3 DEF FindDispatcher, InitFails
<1>4. CASE PatchFirst
    BY <1>4 DEF PatchFirst
<1>5. CASE PatchRest
    BY <1>5 DEF PatchRest
<1>6. CASE RegisterChrdev
    BY <1>6 DEF RegisterChrdev, InitFails
<1>7. CASE ClassCreate
    BY <1>7 DEF ClassCreate, InitFails
<1>8. CASE DeviceCreate
    BY <1>8 DEF DeviceCreate, InitFails
<1>9. CASE CoreSetup
    BY <1>9 DEF CoreSetup
<1>10. CASE RestoreFirst
    BY <1>10 DEF RestoreFirst
<1>11. CASE RestoreRest
    BY <1>11 DEF RestoreRest
<1>12. CASE dev_cleanup
    BY <1>12 DEF dev_cleanup
<1>13. CASE CleanupOff
    BY <1>13 DEF CleanupOff
<1>14. CASE CleanupSync
    BY <1>14 DEF CleanupSync
<1>15. ASSUME NEW n \in SysNums, CleanupFree(n) PROVE GraceInv'
    BY <1>15 DEF CleanupFree
<1>16. CASE CleanupEnd
    BY <1>16 DEF CleanupEnd
<1>17. CASE Rmmod
    BY <1>17 DEF Rmmod
<1>18. ASSUME NEW n \in SysNums, Register(n) PROVE GraceInv'
    BY <1>18 DEF Register
<1>19. ASSUME NEW n \in SysNums, Deregister(n) PROVE GraceInv'
    BY <1>19 DEF Deregister
<1>20. CASE OnlyCore
    BY <1>20 DEF OnlyCore
<1>21. ASSUME NEW t \in Threads, NEW n \in SysNums, Dispatch(t, n) PROVE GraceInv'
    BY <1>21 DEF Dispatch, Goto
<1>22. ASSUME NEW t \in Threads, Call(t) PROVE GraceInv'
    BY <1>22 DEF Call, Goto, Leave, Runs
<1>23. ASSUME NEW t \in Threads, WrapperOff(t) PROVE GraceInv'
    BY <1>23 DEF WrapperOff, Goto, Leave, Runs
<1>24. ASSUME NEW t \in Threads, WrapperOn(t) PROVE GraceInv'
    BY <1>24 DEF WrapperOn, Goto, Runs
<1>25. ASSUME NEW t \in Threads, WalkBegin(t) PROVE GraceInv'
    BY <1>25 DEF WalkBegin, Goto, Runs
<1>26. ASSUME NEW t \in Threads, WalkEnd(t) PROVE GraceInv'
    BY <1>26 DEF WalkEnd, Goto, Runs, CallOriginal
<1>27. ASSUME NEW t \in Threads, Wake(t) PROVE GraceInv'
    BY <1>27 DEF Wake, Goto, Runs, CallOriginal
<1>28. ASSUME NEW t \in Threads, Return(t) PROVE GraceInv'
    BY <1>28 DEF Return, Goto, Leave, Runs
<1>29. CASE UNCHANGED vars
    BY <1>29 DEF vars
<1> QED
    BY <1>1, <1>2, <1>3, <1>4, <1>5, <1>6, <1>7, <1>8, <1>9, <1>10, <1>11, <1>12,
       <1>13, <1>14, <1>15, <1>16, <1>17, <1>18, <1>19, <1>20, <1>21, <1>22, <1>23,
       <1>24, <1>25, <1>26, <1>27, <1>28, <1>29, CoreStep, Zenon DEF Next,
       init_module, cleanup_module, RootProcesses, Thread

-----------------------------------------------------------------------------
LEMMA InvInit == Init => Inv
<1> SUFFICES ASSUME Init PROVE Inv
    OBVIOUS
<1>0. PICK m \in Machines : memory = m.memory /\ page_table = m.page_table
    BY DEF Init
<1>1. MapInv
    BY <1>0, MachinesAssumption DEF MapInv
<1>2. 0 \in Pages /\ 0 \in Offsets /\ MaxLoads \in Nat
    BY GeometryAssumption, MaxLoadsAssumption DEF Pages, Offsets
<1>3. TypeOK
    <2>1. apc \in [Admins -> {"out", "open", "off", "on"}]
        BY DEF Init
    <2>2. /\ original \in [SysNums -> Int] /\ tcode \in [Threads -> Int]
          /\ to_call \in [Threads -> Int]
          /\ tpc \in [Threads -> {"user", "lost"} \cup Inside]
          /\ tnr \in [Threads -> SysNums \cup {NoEntry}]
          /\ tent \in [Threads -> SysNums \cup {NoEntry}]
        BY DEF Init
    <2> QED
        BY <1>2, <2>1, <2>2 DEF Init, TypeOK
<1>4. SearchInv
    BY <1>1, <1>2 DEF Init, SearchInv, SearchTypeInv, LoopInv, FoundInv
<1>5. LoadInv /\ DevInv /\ TimerInv
    BY DEF Init, LoadInv, DevInv, TimerInv, TimerGoesWithModule, Coming,
       Patched, Restored, Untouched
<1>6. HookInv
    <2>1. memory \in [Pages -> [Offsets -> Nat]]
        BY <1>0, MachinesAssumption
    <2> QED
        BY <2>1 DEF Init, HookInv, NoHook
<1>7. ThreadInv /\ GraceInv
    BY DEF Init, ThreadInv, GraceInv, Inside, Walks, Restored
<1> QED
    BY <1>3, <1>4, <1>5, <1>6, <1>7 DEF Inv

LEMMA InvNext == Inv /\ [Next]_vars => Inv'
<1> SUFFICES ASSUME Inv, [Next]_vars PROVE Inv'
    OBVIOUS
<1> USE DEF Inv
<1>1. SearchInv'
    BY SearchInvKeeps
<1>2. TypeOK'
    BY <1>1, TypeKeeps
<1>3. LoadInv' /\ DevInv' /\ TimerInv'
    BY LoadKeeps, DevKeeps, TimerKeeps
<1>4. HookInv'
    BY <1>2, HookKeeps
<1>5. ThreadInv'
    BY <1>2, <1>3, ThreadKeeps
<1>6. GraceInv'
    BY <1>2, GraceKeeps
<1> QED
    BY <1>1, <1>2, <1>3, <1>4, <1>5, <1>6

LEMMA InvHolds == Spec => []Inv
<1> QED
    BY InvInit, InvNext, PTL DEF Spec

\* Every variable of the life cycle keeps its type: loads are numbered within the
\* bound, the search stays inside its pages, and threads stand in known places.
THEOREM TypeCorrect == Spec => []TypeOK
<1>1. Inv => TypeOK
    BY DEF Inv
<1> QED
    BY <1>1, InvHolds, PTL

\* validate_page reads no word of a page that is not in memory, whatever the page
\* tables look like.
THEOREM SearchStaysInMemory == Spec => []SearchReadsPresentPages
<1>1. Inv => SearchReadsPresentPages
    BY SearchIsSafe DEF Inv
<1> QED
    BY <1>1, InvHolds, PTL

\* syscall_table_finder ends with the first table in memory if there is one, and with
\* none if there is not.
THEOREM SearchIsExact == Spec => []SearchFindsFirstTable
<1>1. Inv => SearchFindsFirstTable
    BY SearchIsRight DEF Inv
<1> QED
    BY <1>1, InvHolds, PTL

\* x64_sys_call jumps only into code that is in memory, unless init_module failed in
\* dev_init.
THEOREM DispatcherIsRestored == Spec => []DispatcherLeadsToModule
<1>1. Inv => DispatcherLeadsToModule
    <2> SUFFICES ASSUME Inv, dispatcher \notin {Untouched, Torn}, dispatcher # resident
                 PROVE  failed
        BY DEF DispatcherLeadsToModule
    <2> QED
        BY DEF Inv, TypeOK, LoadInv, Patched, Restored, Going
<1> QED
    BY <1>1, InvHolds, PTL

\* cleanup_module releases code that a thread is in only in the three cases named.
THEOREM RemovalIsSafe == Spec => []OrderlyRemovalIsSafe
<1>1. Inv => OrderlyRemovalIsSafe
    BY DEF Inv, ThreadInv, OrderlyRemovalIsSafe
<1> QED
    BY <1>1, InvHolds, PTL

\* No walk that was under way when cleanup_rcu called synchronize_rcu meets a freed
\* entry.
THEOREM ReadersAreWaitedFor == Spec => []CleanupWaitsForReaders
<1>1. Inv => CleanupWaitsForReaders
    BY DEF Inv, GraceInv, CleanupWaitsForReaders
<1> QED
    BY <1>1, InvHolds, PTL

\* After a failed init_module and after cleanup_module nothing of the device is left.
THEOREM DeviceIsReleased == Spec => []DeviceGoesWithModule
<1>1. Inv => DeviceGoesWithModule
    BY DEF Inv, LoadInv, DevInv, DeviceGoesWithModule
<1> QED
    BY <1>1, InvHolds, PTL

\* A timer outlives its load only if core_setup armed it with the monitor off, for any
\* number of root processes whose switches overlap each other and init_module in any
\* way: cleanup_rcu's switch_off_monitor deletes every other.
THEOREM TimerIsStopped == Spec => []TimerGoesWithModule
<1>1. Inv => TimerGoesWithModule
    BY DEF Inv, TimerInv
<1> QED
    BY <1>1, InvHolds, PTL
=============================================================================
