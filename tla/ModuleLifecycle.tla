--------------------------- MODULE ModuleLifecycle --------------------------
(***************************************************************************)
(* Loading and removing the kernel module while the system runs:           *)
(* init_module (the search of module SyscallTableFinder, the patch of the  *)
(* dispatcher x64_sys_call, dev_init, core_setup) and cleanup_module (the  *)
(* patch undone, dev_cleanup, cleanup_rcu), with threads that go through   *)
(* the patched dispatcher and the wrapper, and root processes that open    *)
(* the device, register system calls and switch the monitor, all at once:  *)
(* the ioctl takes no lock.                                                *)
(*                                                                         *)
(* Loads are numbered: load g puts the module's code at an address of its  *)
(* own, the word -g stands for its throttling_wrapper, and its epoch_timer *)
(* is the load's own.  The registrations are one step each here; what      *)
(* counts is which code is resident, which entries are allocated, which    *)
(* timers are pending and who is where.                                    *)
(***************************************************************************)
EXTENDS SyscallTableFinder, FiniteSets

CONSTANTS
    Threads,    \* threads that invoke system calls
    Admins,     \* root processes that use the device
    SysNums,    \* the system call numbers they invoke
    Machines,   \* the memory and the page tables the module may find
    MaxLoads    \* bound: how often the module is loaded

ASSUME SysNumsAssumption == SysNums \subseteq 0 .. SEVENTH_NI_SYSCALL
ASSUME MaxLoadsAssumption == MaxLoads \in Nat
\* The page tables lead to page tables, and no word points into the module yet.
ASSUME MachinesAssumption ==
    \A m \in Machines :
        /\ m.memory \in [Pages -> [Offsets -> Nat]]
        /\ "pml4" \in DOMAIN m.page_table
        /\ \A t \in DOMAIN m.page_table, p \in Pages :
              \A n \in {PML4[p], PDP[p], PDE[p], PTE[p]} :
                  /\ m.page_table[t][n].next \in DOMAIN m.page_table
                  /\ m.page_table[t][n].frame \in Nat

NoEntry == -1
Untouched == 0   \* the dispatcher's own first instruction
Torn == -1       \* some of its five bytes are overwritten

VARIABLES
    mpc,               \* insmod or rmmod: its place
    loads, resident,   \* loads so far; the load whose code is in memory, or 0
    dispatcher,        \* Untouched, Torn, or the load whose code it jumps to
    dev,               \* what dev_init has registered
    timers,            \* the loads whose epoch_timer is pending
    is_monitor_active,
    apc,               \* each root process: its place in the device's functions
    registered,        \* the numbers whose entries are in hacked_syscall_hash
    original,          \* their original_syscall
    gp,                \* the readers synchronize_rcu waits for
    tpc, tnr, tcode,   \* each thread: place, number, the load whose code it is in
    tent, to_call,     \* the entry it stands on, the routine it found
    \* history
    caught,            \* threads that were inside when the dispatcher was restored
    late,              \* threads whose walk began after synchronize_rcu was called
    failed,            \* did init_module fail with the dispatcher patched?
    abandoned,         \* loads removed with system calls still registered
    stray              \* the pending timers that core_setup armed with the monitor off

loadVars   == <<mpc, loads, resident, dispatcher, dev>>
coreVars   == <<timers, is_monitor_active, apc>>
tableVars  == <<registered, original>>
threadVars == <<tpc, tnr, tcode, tent, to_call>>
history    == <<caught, late, failed, abandoned, stray>>
vars == <<machineVars, searchVars, loadVars, coreVars, tableVars, gp, threadVars,
          history>>

Walks == {"walk", "stat"}
Inside == {"call", "wrapper", "checked", "asleep", "woken", "original"} \cup Walks
Going == {"c_patch", "c_patched", "c_dev", "c_off", "c_sync", "c_free"}

Init ==
    /\ \E m \in Machines : memory = m.memory /\ page_table = m.page_table
    /\ spc = "idle" /\ k = 0 /\ i = 0 /\ hacked_syscall_tbl = NoTable
    /\ mpc = "unloaded" /\ loads = 0 /\ resident = 0
    /\ dispatcher = Untouched
    /\ dev = {}
    /\ timers = {} /\ is_monitor_active = 1
    /\ apc = [u \in Admins |-> "out"]
    /\ registered = {}
    /\ original = [n \in SysNums |-> 0]
    /\ gp = {}
    /\ tpc = [t \in Threads |-> "user"]
    /\ tnr = [t \in Threads |-> NoEntry]
    /\ tcode = [t \in Threads |-> 0]
    /\ tent = [t \in Threads |-> NoEntry]
    /\ to_call = [t \in Threads |-> 0]
    /\ caught = {} /\ late = {} /\ abandoned = {} /\ stray = {}
    /\ failed = FALSE

-----------------------------------------------------------------------------
(***************************************************************************)
(* init_module                                                             *)
(***************************************************************************)
Step(from, to) == mpc = from /\ mpc' = to

\* insmod, itself a system call: fresh variables, then init_system_call_table.
Insmod ==
    /\ Step("unloaded", "search")
    /\ loads < MaxLoads
    /\ dispatcher = Untouched
    /\ loads' = loads + 1
    /\ resident' = loads + 1
    /\ is_monitor_active' = 1
    /\ registered' = {}
    /\ original' = [n \in SysNums |-> 0]
    /\ SearchStart
    /\ UNCHANGED <<machineVars, dispatcher, dev, timers, apc, gp, threadVars,
                   history>>

\* init_module returns -1 and the kernel releases the module's code.
InitFails ==
    /\ mpc' = "unloaded"
    /\ resident' = 0
    /\ failed' = (dispatcher # Untouched)
    /\ UNCHANGED <<loads, dispatcher, caught, late, abandoned, stray>>

SearchStep ==
    /\ mpc = "search"
    /\ Search
    /\ UNCHANGED <<loadVars, coreVars, tableVars, gp, threadVars, history>>

\* The end of the search: no table, or the address of x64_sys_call by a kprobe, which
\* may fail too.
FindDispatcher ==
    /\ mpc = "search"
    /\ spc = "done"
    /\ spc' = "idle"
    /\ \/ InitFails
       \/ /\ hacked_syscall_tbl # NoTable
          /\ mpc' = "patch"
          /\ UNCHANGED <<loads, resident, dispatcher, history>>
    /\ UNCHANGED <<machineVars, k, i, hacked_syscall_tbl, dev, coreVars, tableVars, gp,
                   threadVars>>

\* memcpy of the jump over the dispatcher's first instruction, between begin_ and
\* end_syscall_table_hack: five bytes, not one store.
PatchFirst ==
    /\ Step("patch", "patched")
    /\ dispatcher' = Torn
    /\ UNCHANGED <<machineVars, searchVars, loads, resident, dev, coreVars, tableVars,
                   gp, threadVars, history>>

PatchRest ==
    /\ Step("patched", "chrdev")
    /\ dispatcher' = resident
    /\ UNCHANGED <<machineVars, searchVars, loads, resident, dev, coreVars, tableVars,
                   gp, threadVars, history>>

\* dev_init: what was registered before the failure is released.
RegisterChrdev ==
    /\ mpc = "chrdev"
    /\ \/ InitFails /\ UNCHANGED dev
       \/ /\ mpc' = "class"
          /\ dev' = dev \cup {"chrdev"}
          /\ UNCHANGED <<loads, resident, dispatcher, history>>
    /\ UNCHANGED <<machineVars, searchVars, coreVars, tableVars, gp, threadVars>>

ClassCreate ==
    /\ mpc = "class"
    /\ \/ InitFails /\ dev' = dev \ {"chrdev"}
       \/ /\ mpc' = "device"
          /\ dev' = dev \cup {"class"}
          /\ UNCHANGED <<loads, resident, dispatcher, history>>
    /\ UNCHANGED <<machineVars, searchVars, coreVars, tableVars, gp, threadVars>>

\* Mutant: the character device stays registered.
DeviceCreateKeepsMajor ==
    /\ mpc = "device"
    /\ \/ InitFails /\ dev' = dev \ {"class"}
       \/ /\ mpc' = "setup"
          /\ dev' = dev \cup {"device"}
          /\ UNCHANGED <<loads, resident, dispatcher, history>>
    /\ UNCHANGED <<machineVars, searchVars, coreVars, tableVars, gp, threadVars>>

DeviceCreate ==
    /\ mpc = "device"
    /\ \/ InitFails /\ dev' = dev \ {"class", "chrdev"}
       \/ /\ mpc' = "setup"
          /\ dev' = dev \cup {"device"}
          /\ UNCHANGED <<loads, resident, dispatcher, history>>
    /\ UNCHANGED <<machineVars, searchVars, coreVars, tableVars, gp, threadVars>>

\* core_setup: timer_setup and mod_timer, whatever the flag says by now.
core_setup ==
    /\ timers' = timers \cup {resident}
    /\ stray' = IF is_monitor_active = 0 THEN stray \cup {resident}
                                         ELSE stray \ {resident}

\* core_cleanup: timer_delete_sync.
core_cleanup ==
    /\ timers' = timers \ {resident}
    /\ stray' = stray \ {resident}

\* init_module calls core_setup, which cannot fail, and is done.
CoreSetup ==
    /\ Step("setup", "live")
    /\ core_setup
    /\ UNCHANGED <<machineVars, searchVars, loads, resident, dispatcher, dev,
                   is_monitor_active, apc, tableVars, gp, threadVars, caught, late,
                   failed, abandoned>>

-----------------------------------------------------------------------------
(***************************************************************************)
(* cleanup_module                                                          *)
(***************************************************************************)
\* Mutant: cleanup_system_call_table is forgotten.
RmmodKeepsPatch ==
    /\ Step("live", "c_dev")
    /\ \A u \in Admins : apc[u] = "out"
    /\ abandoned' = IF registered = {} THEN abandoned ELSE abandoned \cup {resident}
    /\ UNCHANGED <<machineVars, searchVars, loads, resident, dispatcher, dev, coreVars,
                   tableVars, gp, threadVars, caught, late, failed, stray>>

\* rmmod is refused while the device is open (fops.owner).
Rmmod ==
    /\ Step("live", "c_patch")
    /\ \A u \in Admins : apc[u] = "out"
    /\ abandoned' = IF registered = {} THEN abandoned ELSE abandoned \cup {resident}
    /\ UNCHANGED <<machineVars, searchVars, loads, resident, dispatcher, dev, coreVars,
                   tableVars, gp, threadVars, caught, late, failed, stray>>

\* cleanup_system_call_table writes the five bytes back.
RestoreFirst ==
    /\ Step("c_patch", "c_patched")
    /\ dispatcher' = Torn
    /\ UNCHANGED <<machineVars, searchVars, loads, resident, dev, coreVars, tableVars,
                   gp, threadVars, history>>

RestoreRest ==
    /\ Step("c_patched", "c_dev")
    /\ dispatcher' = Untouched
    /\ caught' = {t \in Threads : tpc[t] \in Inside}
    /\ UNCHANGED <<machineVars, searchVars, loads, resident, dev, coreVars, tableVars,
                   gp, threadVars, late, failed, abandoned, stray>>

dev_cleanup ==
    /\ Step("c_dev", "c_off")
    /\ dev' = dev \ {"device", "class", "chrdev"}
    /\ UNCHANGED <<machineVars, searchVars, loads, resident, dispatcher, coreVars,
                   tableVars, gp, threadVars, history>>

\* Mutant: cleanup_rcu clears the flag but leaves the timer.
CleanupOffKeepsTimer ==
    /\ Step("c_off", "c_sync")
    /\ is_monitor_active' = 0
    /\ gp' = {t \in Threads : tpc[t] \in Walks}
    /\ UNCHANGED <<machineVars, searchVars, loads, resident, dispatcher, dev, timers,
                   apc, tableVars, threadVars, history>>

\* cleanup_rcu: switch_off_monitor, which does nothing when the monitor is off
\* already, and the call of synchronize_rcu.
CleanupOff ==
    /\ Step("c_off", "c_sync")
    /\ IF is_monitor_active = 1 THEN core_cleanup ELSE UNCHANGED <<timers, stray>>
    /\ is_monitor_active' = 0
    /\ gp' = {t \in Threads : tpc[t] \in Walks}
    /\ UNCHANGED <<machineVars, searchVars, loads, resident, dispatcher, dev, apc,
                   tableVars, threadVars, caught, late, failed, abandoned>>

\* Mutant: the entries are freed without a grace period.
CleanupSyncNone ==
    /\ Step("c_sync", "c_free")
    /\ UNCHANGED <<machineVars, searchVars, loads, resident, dispatcher, dev, coreVars,
                   tableVars, gp, threadVars, history>>

\* Mutant: synchronize_rcu replaced by waiting for everybody inside the wrapper, who
\* may be in a system call that never returns.
CleanupSyncAll ==
    /\ Step("c_sync", "c_free")
    /\ \A t \in Threads : tpc[t] \notin Inside
    /\ UNCHANGED <<machineVars, searchVars, loads, resident, dispatcher, dev, coreVars,
                   tableVars, gp, threadVars, history>>

\* synchronize_rcu returns.
CleanupSync ==
    /\ Step("c_sync", "c_free")
    /\ gp = {}
    /\ UNCHANGED <<machineVars, searchVars, loads, resident, dispatcher, dev, coreVars,
                   tableVars, gp, threadVars, history>>

\* hash_del_rcu and kfree of one entry; the table of system calls is left as it is.
\* The tables of user ids and program names are emptied in the same way.
CleanupFree(n) ==
    /\ mpc = "c_free"
    /\ n \in registered
    /\ registered' = registered \ {n}
    /\ UNCHANGED <<machineVars, searchVars, loadVars, coreVars, original, gp,
                   threadVars, history>>

\* cleanup_module returns and the kernel releases the module's code.
CleanupEnd ==
    /\ Step("c_free", "unloaded")
    /\ registered = {}
    /\ resident' = 0
    /\ UNCHANGED <<machineVars, searchVars, loads, dispatcher, dev, coreVars, tableVars,
                   gp, threadVars, history>>

-----------------------------------------------------------------------------
(***************************************************************************)
(* A root process: open, ioctl, close                                      *)
(***************************************************************************)
UserStep(u, from, to) == apc[u] = from /\ apc' = [apc EXCEPT ![u] = to]

\* The device can be opened as soon as it has been created, and no longer once the
\* removal has begun.
Open(u) ==
    /\ UserStep(u, "out", "open")
    /\ "device" \in dev
    /\ mpc \notin Going
    /\ UNCHANGED <<machineVars, searchVars, loadVars, timers, is_monitor_active,
                   tableVars, gp, threadVars, history>>

Close(u) ==
    /\ UserStep(u, "open", "out")
    /\ UNCHANGED <<machineVars, searchVars, loadVars, timers, is_monitor_active,
                   tableVars, gp, threadVars, history>>

\* A store to entry n of the table that the search found.
SetEntry(n, word) ==
    LET p == hacked_syscall_tbl.page
        o == hacked_syscall_tbl.offset
    IN  memory' = [memory EXCEPT ![PageOf(p, o, n)][OffsetOf(o, n)] = word]

EntryOf(n) == Word(hacked_syscall_tbl.page, hacked_syscall_tbl.offset, n)

Register(n) ==
    /\ \E u \in Admins : apc[u] = "open"
    /\ n \notin registered
    /\ registered' = registered \cup {n}
    /\ original' = [original EXCEPT ![n] = EntryOf(n)]
    /\ SetEntry(n, -resident)
    /\ UNCHANGED <<page_table, searchVars, loadVars, coreVars, gp, threadVars, history>>

\* Mutant: the table entry is not restored.
DeregisterKeepsHook(n) ==
    /\ \E u \in Admins : apc[u] = "open"
    /\ n \in registered
    /\ \A t \in Threads : tpc[t] \in Walks => tent[t] # n
    /\ registered' = registered \ {n}
    /\ UNCHANGED <<machineVars, searchVars, loadVars, coreVars, original, gp,
                   threadVars, history>>

\* The entry is freed after a grace period: nobody stands on it any more.
Deregister(n) ==
    /\ \E u \in Admins : apc[u] = "open"
    /\ n \in registered
    /\ \A t \in Threads : tpc[t] \in Walks => tent[t] # n
    /\ registered' = registered \ {n}
    /\ SetEntry(n, original[n])
    /\ UNCHANGED <<page_table, searchVars, loadVars, coreVars, original, gp, threadVars,
                   history>>

\* switch_off_monitor: the flag first, then core_cleanup.
SwitchOff(u) ==
    /\ UserStep(u, "open", "off")
    /\ is_monitor_active = 1
    /\ is_monitor_active' = 0
    /\ UNCHANGED <<machineVars, searchVars, loadVars, timers, tableVars, gp, threadVars,
                   history>>

SwitchOffCleanup(u) ==
    /\ UserStep(u, "off", "open")
    /\ core_cleanup
    /\ UNCHANGED <<machineVars, searchVars, loadVars, is_monitor_active, tableVars, gp,
                   threadVars, caught, late, failed, abandoned>>

\* switch_on_monitor: the flag first, then core_setup.
SwitchOn(u) ==
    /\ UserStep(u, "open", "on")
    /\ is_monitor_active = 0
    /\ is_monitor_active' = 1
    /\ UNCHANGED <<machineVars, searchVars, loadVars, timers, tableVars, gp, threadVars,
                   history>>

SwitchOnSetup(u) ==
    /\ UserStep(u, "on", "open")
    /\ core_setup
    /\ UNCHANGED <<machineVars, searchVars, loadVars, is_monitor_active, tableVars, gp,
                   threadVars, caught, late, failed, abandoned>>

\* epoch_handler: with the monitor off it does not arm the timer again.
EpochHandler ==
    /\ resident \in timers
    /\ is_monitor_active = 0
    /\ timers' = timers \ {resident}
    /\ stray' = stray \ {resident}
    /\ UNCHANGED <<machineVars, searchVars, loadVars, is_monitor_active, apc,
                   tableVars, gp, threadVars, caught, late, failed, abandoned>>

-----------------------------------------------------------------------------
(***************************************************************************)
(* Threads that invoke a system call                                       *)
(***************************************************************************)
Goto(t, label) == tpc' = [tpc EXCEPT ![t] = label]

\* A thread goes on in module code only as long as that code is there; what it does
\* after that is undefined.
Runs(t, label) == tpc[t] = label /\ tcode[t] = resident

\* Back in user mode.
Leave(t) ==
    /\ Goto(t, "user")
    /\ tnr' = [tnr EXCEPT ![t] = NoEntry]
    /\ tcode' = [tcode EXCEPT ![t] = 0]
    /\ to_call' = [to_call EXCEPT ![t] = 0]
    /\ caught' = caught \ {t}

\* x64_sys_call.  The half-written instruction leads nowhere; the dispatcher's own
\* code does not involve the module.
Dispatch(t, n) ==
    /\ tpc[t] = "user"
    /\ dispatcher # Untouched
    /\ IF dispatcher = Torn
       THEN Goto(t, "lost") /\ UNCHANGED <<tnr, tcode>>
       ELSE /\ Goto(t, "call")
            /\ tnr' = [tnr EXCEPT ![t] = n]
            /\ tcode' = [tcode EXCEPT ![t] = dispatcher]
    /\ UNCHANGED <<machineVars, searchVars, loadVars, coreVars, tableVars, gp, tent,
                   to_call, history>>

\* call: the jump through the table, to a service routine or to a wrapper.
Call(t) ==
    /\ Runs(t, "call")
    /\ IF EntryOf(tnr[t]) < 0
       THEN /\ Goto(t, "wrapper")
            /\ tcode' = [tcode EXCEPT ![t] = - EntryOf(tnr[t])]
            /\ UNCHANGED <<tnr, to_call, caught>>
       ELSE Leave(t)
    /\ UNCHANGED <<machineVars, searchVars, loadVars, coreVars, tableVars, gp, tent,
                   late, failed, abandoned, stray>>

\* throttling_wrapper with the monitor off: -ENOSYS.
WrapperOff(t) ==
    /\ Runs(t, "wrapper")
    /\ is_monitor_active = 0
    /\ Leave(t)
    /\ UNCHANGED <<machineVars, searchVars, loadVars, coreVars, tableVars, gp, tent,
                   late, failed, abandoned, stray>>

\* to_call(regs): the routine, which may be the wrapper of another load.
CallOriginal(t, routine) ==
    /\ Goto(t, "original")
    /\ tcode' = IF routine < 0 THEN [tcode EXCEPT ![t] = - routine] ELSE tcode

\* The wrapper found the monitor on; it is not yet in the read-side section.
WrapperOn(t) ==
    /\ Runs(t, "wrapper")
    /\ is_monitor_active = 1
    /\ Goto(t, "checked")
    /\ UNCHANGED <<machineVars, searchVars, loadVars, coreVars, tableVars, gp, tnr,
                   tcode, tent, to_call, history>>

\* The walks of throttling_wrapper and of check_and_set_statistic: rcu_read_lock and
\* some entry of the bucket, if there is one.
WalkBegin(t) ==
    /\ \/ Runs(t, "checked") /\ Goto(t, "walk")
       \/ Runs(t, "woken") /\ Goto(t, "stat")
    /\ \E n \in registered \cup {NoEntry} : tent' = [tent EXCEPT ![t] = n]
    /\ late' = IF mpc \in {"c_sync", "c_free"} THEN late \cup {t} ELSE late
    /\ UNCHANGED <<machineVars, searchVars, loadVars, coreVars, tableVars, gp, tnr,
                   tcode, to_call, caught, failed, abandoned, stray>>

\* rcu_read_unlock.  The lookup keeps the routine it found; the thread gets a token
\* or has to wait, and calls the routine.
WalkEnd(t) ==
    /\ \E label \in Walks : Runs(t, label)
    /\ tent[t] \in registered \cup {NoEntry}
    /\ to_call' = IF tpc[t] = "walk" /\ tent[t] = tnr[t]
                  THEN [to_call EXCEPT ![t] = original[tnr[t]]] ELSE to_call
    /\ \/ tpc[t] = "walk" /\ Goto(t, "asleep") /\ UNCHANGED tcode
       \/ CallOriginal(t, to_call'[t])
    /\ tent' = [tent EXCEPT ![t] = NoEntry]
    /\ gp' = gp \ {t}
    /\ late' = late \ {t}
    /\ UNCHANGED <<machineVars, searchVars, loadVars, coreVars, tableVars, tnr, caught,
                   failed, abandoned, stray>>

\* After a refill, or with the monitor off, the thread gets through; one that finds no
\* token sleeps again.  A delay within a jiffy is none.
Wake(t) ==
    /\ Runs(t, "asleep")
    /\ resident \in timers \/ is_monitor_active = 0
    /\ \/ Goto(t, "woken") /\ UNCHANGED tcode
       \/ CallOriginal(t, to_call[t])
    /\ UNCHANGED <<machineVars, searchVars, loadVars, coreVars, tableVars, gp, tnr, tent,
                   to_call, history>>

\* The service routine returns into the wrapper, or a signal ends the wait.
Return(t) ==
    /\ Runs(t, "original") \/ Runs(t, "asleep")
    /\ Leave(t)
    /\ UNCHANGED <<machineVars, searchVars, loadVars, coreVars, tableVars, gp, tent,
                   late, failed, abandoned, stray>>

-----------------------------------------------------------------------------
init_module ==
    \/ Insmod \/ SearchStep \/ FindDispatcher \/ PatchFirst \/ PatchRest
    \/ RegisterChrdev \/ ClassCreate \/ DeviceCreate \/ CoreSetup

cleanup_module ==
    \/ RestoreFirst \/ RestoreRest \/ dev_cleanup \/ CleanupOff \/ CleanupSync
    \/ (\E n \in SysNums : CleanupFree(n)) \/ CleanupEnd

\* A root process with the device; whoever has it open may register.
RootProcess(u) ==
    \/ Open(u) \/ Close(u)
    \/ SwitchOff(u) \/ SwitchOffCleanup(u) \/ SwitchOn(u) \/ SwitchOnSetup(u)

RootProcesses ==
    \/ Rmmod
    \/ \E n \in SysNums : Register(n) \/ Deregister(n)
    \/ \E u \in Admins : RootProcess(u)

Thread(t) ==
    \/ \E n \in SysNums : Dispatch(t, n)
    \/ Call(t) \/ WrapperOff(t) \/ WrapperOn(t) \/ WalkBegin(t) \/ WalkEnd(t)
    \/ Wake(t) \/ Return(t)

Next ==
    \/ init_module \/ cleanup_module \/ RootProcesses \/ EpochHandler
    \/ \E t \in Threads : Thread(t)

Spec == Init /\ [][Next]_vars

\* cleanup_module runs on, and a walk inside rcu_read_lock comes to its end; nothing
\* is assumed of a thread that sleeps or is in a service routine.
FairSpec ==
    /\ Spec
    /\ WF_vars(cleanup_module)
    /\ \A t \in Threads : WF_vars(WalkEnd(t))

-----------------------------------------------------------------------------
(***************************************************************************)
(* Properties                                                              *)
(***************************************************************************)
TypeOK ==
    /\ spc \in {"idle", "page", "offset", "match", "done"}
    /\ k \in Pages /\ i \in Offsets
    /\ hacked_syscall_tbl \in [page : Pages, offset : Offsets] \cup {NoTable}
    /\ mpc \in {"unloaded", "search", "patch", "patched", "chrdev", "class", "device",
                "setup", "live"} \cup Going
    /\ loads \in 0 .. MaxLoads /\ resident \in 0 .. loads
    /\ dispatcher \in {Torn, Untouched} \cup 1 .. loads
    /\ dev \subseteq {"chrdev", "class", "device"}
    /\ timers \subseteq 1 .. loads /\ is_monitor_active \in {0, 1}
    /\ apc \in [Admins -> {"out", "open", "off", "on"}]
    /\ registered \subseteq SysNums
    /\ original \in [SysNums -> Int]
    /\ gp \subseteq Threads
    /\ tpc \in [Threads -> {"user", "lost"} \cup Inside]
    /\ tnr \in [Threads -> SysNums \cup {NoEntry}]
    /\ tcode \in [Threads -> Int]
    /\ tent \in [Threads -> SysNums \cup {NoEntry}]
    /\ to_call \in [Threads -> Int]

\* The dispatcher leads to the code of a load only while that code is in memory, also
\* after a load that failed; the exception is a failure in dev_init, after the patch.
DispatcherLeadsToModule ==
    dispatcher \notin {Untouched, Torn} /\ dispatcher # resident => failed

\* A thread finds itself in code that has been released only if it was inside when
\* the dispatcher was restored, if init_module failed after the patch, or if the code
\* belonged to a load that was removed with system calls still registered: a removal
\* with nothing registered and nobody inside is safe.
OrderlyRemovalIsSafe ==
    \A t \in Threads : tpc[t] \in Inside /\ tcode[t] # resident =>
        t \in caught \/ failed \/ tcode[t] \in abandoned

\* A walk that cleanup_rcu's synchronize_rcu had to wait for, or one that ended
\* before, never stands on a freed entry; only walks begun later do.
CleanupWaitsForReaders ==
    \A t \in Threads : tpc[t] \in Walks /\ tent[t] # NoEntry /\ tcode[t] = resident =>
        tent[t] \in registered \/ t \in late

\* When init_module has failed in any of its steps, or cleanup_module is over, nothing
\* of the device is left behind.
DeviceGoesWithModule ==
    resident = 0 => dev = {} /\ \A u \in Admins : apc[u] = "out"

\* The timer of a load, whose handler is module code, is pending after that code has
\* been released only if core_setup armed it with the monitor off already, which takes
\* a switch that overlaps another switch or init_module: then cleanup_rcu's
\* switch_off_monitor returns early and leaves the timer.  Switches one after the other,
\* however many and whenever, leave no timer behind.
TimerGoesWithModule == \A g \in timers : g = resident \/ g \in stray

\* A removal that has begun ends, whatever the threads inside the wrapper wait for,
\* if no walk was cut short by an earlier removal.
RemovalTerminates ==
    mpc = "c_patch" /\ (\A t \in Threads : tpc[t] \in Walks => tcode[t] = resident)
        ~> mpc = "unloaded"
=============================================================================
