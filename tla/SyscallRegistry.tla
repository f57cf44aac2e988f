--------------------------- MODULE SyscallRegistry --------------------------
(***************************************************************************)
(* The registered system calls: the patched system call table, the flags   *)
(* of syscall_array, the hash table of hacked_syscall entries and their    *)
(* number sys_len.  Writers are root processes in register_system_call and *)
(* deregister_system_call; readers are threads that invoke a system call   *)
(* and reach throttling_wrapper through the patched table (its lookup of   *)
(* the original and the lookup of check_and_set_statistic), and processes  *)
(* in get_syscall_stats.                                                   *)
(*                                                                         *)
(* One step is one access to state that the other side reads without the   *)
(* lock.  An entry and its syscall_stats are allocated and freed together  *)
(* and are one cell here.  The monitor stays on (module Throttle has the   *)
(* jump the wrapper makes when it is off).                                 *)
(***************************************************************************)
EXTENDS Integers, FiniteSets, RcuHash

CONSTANTS
    SysNums,    \* system call numbers
    BucketOf,   \* the bucket of hacked_syscall_hash of each number
    Writers,    \* root processes that may be inside the ioctl handler
    Readers     \* threads that invoke system calls or ask for statistics

Wrapper == "throttling_wrapper"

ASSUME SysNumsAssumption == NULL \notin SysNums /\ Wrapper \notin SysNums
ASSUME WrapperAssumption == Wrapper # NULL
ASSUME WritersAssumption == NULL \notin Writers
ASSUME CellsAssumption == IsFiniteSet(Cells)

Buckets == {BucketOf[n] : n \in SysNums}

VARIABLES
    hacked_syscall_tbl,   \* the table: a number stands for its own service routine
    syscall_array,        \* 1 for the numbers under observation
    hacked_syscall_hash,  \* the table of entries
    sys_len,              \* how many entries it has
    entry,                \* the contents of each cell
    allocated,            \* the cells between kmalloc and kfree
    write_lock,           \* who holds the lock
    wpc, wnr, wcell, gp,  \* each writer: place, safe_nr, entry, awaited readers
    rpc, rnr, rcell,      \* each reader: place, number, node it stands on
    to_call,              \* what each reader found
    reading               \* the readers between rcu_read_lock and _unlock

tableVars  == <<hacked_syscall_tbl, syscall_array, hacked_syscall_hash, sys_len>>
memoryVars == <<entry, allocated>>
writerVars == <<write_lock, wpc, wnr, wcell, gp>>
readerVars == <<rpc, rnr, rcell, to_call, reading>>
vars == <<tableVars, memoryVars, writerVars, readerVars>>

NoEntry == [syscall_nr |-> NULL, original_syscall |-> NULL]

WriterPCs == {"idle", "reg_lock", "reg_exists", "reg_hack", "reg_mark",
              "reg_add", "reg_unlock", "der_restore", "der_unmark", "der_del",
              "der_unlock", "der_sync", "efault"}
Walks == {"lookup_walk", "stat_walk", "get_walk"}
ReaderPCs == {"user", "wrapper", "delayed", "call"} \cup Walks

Init ==
    /\ hacked_syscall_tbl = [n \in SysNums |-> n]
    /\ syscall_array = [n \in SysNums |-> 0]
    /\ hacked_syscall_hash = EmptyTable(Buckets)
    /\ sys_len = 0
    /\ entry = [c \in Cells |-> NoEntry]
    /\ allocated = {}
    /\ write_lock = NULL
    /\ wpc = [w \in Writers |-> "idle"]
    /\ wnr = [w \in Writers |-> NULL]
    /\ wcell = [w \in Writers |-> NULL]
    /\ gp = [w \in Writers |-> {}]
    /\ rpc = [r \in Readers |-> "user"]
    /\ rnr = [r \in Readers |-> NULL]
    /\ rcell = [r \in Readers |-> NULL]
    /\ to_call = [r \in Readers |-> NULL]
    /\ reading = {}

-----------------------------------------------------------------------------
(***************************************************************************)
(* register_system_call                                                    *)
(***************************************************************************)
WGoto(w, label) == wpc' = [wpc EXCEPT ![w] = label]

\* The ioctl is over: the writer's locals are gone.
WReturn(w) ==
    /\ WGoto(w, "idle")
    /\ wnr' = [wnr EXCEPT ![w] = NULL]
    /\ wcell' = [wcell EXCEPT ![w] = NULL]

\* kfree.
Free(c) ==
    /\ allocated' = allocated \ {c}
    /\ entry' = [entry EXCEPT ![c] = NoEntry]

\* Mutant: kmalloc may fail and nobody looks.
RegisterAllocUnchecked(w, n) ==
    /\ wpc[w] = "idle"
    /\ \E c \in (Cells \ allocated) \cup {NULL} :
          /\ allocated' = allocated \cup ({c} \ {NULL})
          /\ entry' = IF c = NULL THEN entry
                      ELSE [entry EXCEPT ![c].syscall_nr = n]
          /\ wcell' = [wcell EXCEPT ![w] = c]
    /\ wnr' = [wnr EXCEPT ![w] = n]
    /\ WGoto(w, "reg_lock")
    /\ UNCHANGED <<tableVars, write_lock, gp, readerVars>>

\* Both kmallocs succeed (-ENOMEM changes nothing); stats and syscall_nr are set.
RegisterAlloc(w, n) ==
    /\ wpc[w] = "idle"
    /\ \E c \in Cells \ allocated :
          /\ allocated' = allocated \cup {c}
          /\ entry' = [entry EXCEPT ![c].syscall_nr = n]
          /\ wcell' = [wcell EXCEPT ![w] = c]
    /\ wnr' = [wnr EXCEPT ![w] = n]
    /\ WGoto(w, "reg_lock")
    /\ UNCHANGED <<tableVars, write_lock, gp, readerVars>>

\* Mutant: syscall_array is not looked at.
RegisterLockUnchecked(w) ==
    /\ wpc[w] = "reg_lock"
    /\ write_lock = NULL
    /\ write_lock' = w
    /\ WGoto(w, "reg_hack")
    /\ UNCHANGED <<tableVars, memoryVars, wnr, wcell, gp, readerVars>>

\* spin_lock(&write_lock), then the test of syscall_array.
RegisterLock(w) ==
    /\ wpc[w] = "reg_lock"
    /\ write_lock = NULL
    /\ write_lock' = w
    /\ WGoto(w, IF syscall_array[wnr[w]] = 1 THEN "reg_exists" ELSE "reg_hack")
    /\ UNCHANGED <<tableVars, memoryVars, wnr, wcell, gp, readerVars>>

\* Mutant: -EEXIST without kfree.
RegisterExistsLeaking(w) ==
    /\ wpc[w] = "reg_exists"
    /\ write_lock' = NULL
    /\ WReturn(w)
    /\ UNCHANGED <<tableVars, memoryVars, gp, readerVars>>

\* Already registered: unlock, free both, -EEXIST.
RegisterExists(w) ==
    /\ wpc[w] = "reg_exists"
    /\ write_lock' = NULL
    /\ Free(wcell[w])
    /\ WReturn(w)
    /\ UNCHANGED <<tableVars, gp, readerVars>>

\* The table entry is saved and replaced by the wrapper.
RegisterHack(w) ==
    /\ wpc[w] = "reg_hack"
    /\ entry' = [entry EXCEPT ![wcell[w]].original_syscall =
                                    hacked_syscall_tbl[wnr[w]]]
    /\ hacked_syscall_tbl' = [hacked_syscall_tbl EXCEPT ![wnr[w]] = Wrapper]
    /\ WGoto(w, "reg_mark")
    /\ UNCHANGED <<syscall_array, hacked_syscall_hash, sys_len, allocated,
                   write_lock, wnr, wcell, gp, readerVars>>

RegisterMark(w) ==
    /\ wpc[w] = "reg_mark"
    /\ syscall_array' = [syscall_array EXCEPT ![wnr[w]] = 1]
    /\ WGoto(w, "reg_add")
    /\ UNCHANGED <<hacked_syscall_tbl, hacked_syscall_hash, sys_len, memoryVars,
                   write_lock, wnr, wcell, gp, readerVars>>

RegisterAdd(w) ==
    /\ wpc[w] = "reg_add"
    /\ hacked_syscall_hash' =
          HashAdd(hacked_syscall_hash, BucketOf[wnr[w]], wcell[w])
    /\ WGoto(w, "reg_unlock")
    /\ UNCHANGED <<hacked_syscall_tbl, syscall_array, sys_len, memoryVars,
                   write_lock, wnr, wcell, gp, readerVars>>

\* atomic_inc_return(&sys_len); spin_unlock; the entry now belongs to the table.
RegisterUnlock(w) ==
    /\ wpc[w] = "reg_unlock"
    /\ sys_len' = sys_len + 1
    /\ write_lock' = NULL
    /\ WReturn(w)
    /\ UNCHANGED <<hacked_syscall_tbl, syscall_array, hacked_syscall_hash,
                   memoryVars, gp, readerVars>>

-----------------------------------------------------------------------------
(***************************************************************************)
(* deregister_system_call                                                  *)
(***************************************************************************)
\* What hash_for_each_possible_rcu can find for a number.
Matching(n) ==
    {c \in hacked_syscall_hash.linked : entry[c].syscall_nr = n}

\* spin_lock, the test of syscall_array (-ENOENT changes nothing) and the search,
\* which no other writer can disturb.  Not found: unlock and -EFAULT.
DeregisterLock(w, n) ==
    /\ wpc[w] = "idle"
    /\ write_lock = NULL
    /\ syscall_array[n] = 1
    /\ IF Matching(n) # {}
       THEN /\ \E c \in Matching(n) : wcell' = [wcell EXCEPT ![w] = c]
            /\ write_lock' = w
            /\ WGoto(w, "der_restore")
       ELSE /\ WGoto(w, "efault")
            /\ UNCHANGED <<wcell, write_lock>>
    /\ wnr' = [wnr EXCEPT ![w] = n]
    /\ UNCHANGED <<tableVars, memoryVars, gp, readerVars>>

DeregisterRestore(w) ==
    /\ wpc[w] = "der_restore"
    /\ hacked_syscall_tbl' = [hacked_syscall_tbl EXCEPT
                                ![wnr[w]] = entry[wcell[w]].original_syscall]
    /\ WGoto(w, "der_unmark")
    /\ UNCHANGED <<syscall_array, hacked_syscall_hash, sys_len, memoryVars,
                   write_lock, wnr, wcell, gp, readerVars>>

DeregisterUnmark(w) ==
    /\ wpc[w] = "der_unmark"
    /\ syscall_array' = [syscall_array EXCEPT ![wnr[w]] = 0]
    /\ WGoto(w, "der_del")
    /\ UNCHANGED <<hacked_syscall_tbl, hacked_syscall_hash, sys_len, memoryVars,
                   write_lock, wnr, wcell, gp, readerVars>>

DeregisterDel(w) ==
    /\ wpc[w] = "der_del"
    /\ hacked_syscall_hash' = HashDel(hacked_syscall_hash, wcell[w])
    /\ WGoto(w, "der_unlock")
    /\ UNCHANGED <<hacked_syscall_tbl, syscall_array, sys_len, memoryVars,
                   write_lock, wnr, wcell, gp, readerVars>>

\* atomic_dec_return(&sys_len); spin_unlock; synchronize_rcu is called, and has to
\* wait for the readers that are inside a read-side section by now.
DeregisterUnlock(w) ==
    /\ wpc[w] = "der_unlock"
    /\ sys_len' = sys_len - 1
    /\ write_lock' = NULL
    /\ gp' = [gp EXCEPT ![w] = reading]
    /\ WGoto(w, "der_sync")
    /\ UNCHANGED <<hacked_syscall_tbl, syscall_array, hacked_syscall_hash,
                   memoryVars, wnr, wcell, readerVars>>

\* Mutant: synchronize_rcu is forgotten.
DeregisterFreeAtOnce(w) ==
    /\ wpc[w] = "der_sync"
    /\ gp' = [gp EXCEPT ![w] = {}]
    /\ Free(wcell[w])
    /\ WReturn(w)
    /\ UNCHANGED <<tableVars, write_lock, readerVars>>

\* synchronize_rcu returns; both structures are freed.
DeregisterFree(w) ==
    /\ wpc[w] = "der_sync"
    /\ gp[w] = {}
    /\ Free(wcell[w])
    /\ WReturn(w)
    /\ UNCHANGED <<tableVars, write_lock, gp, readerVars>>

-----------------------------------------------------------------------------
(***************************************************************************)
(* The readers                                                             *)
(***************************************************************************)
RGoto(r, label) == rpc' = [rpc EXCEPT ![r] = label]

\* rcu_read_lock and the head of the bucket.
WalkBegin(r, n, label) ==
    /\ reading' = reading \cup {r}
    /\ rcell' = [rcell EXCEPT ![r] = hacked_syscall_hash.head[BucketOf[n]]]
    /\ RGoto(r, label)

\* The node is another system call's: on to the next one.
WalkNext(r) ==
    /\ rcell[r] # NULL
    /\ entry[rcell[r]].syscall_nr # rnr[r]
    /\ rcell' = [rcell EXCEPT ![r] = hacked_syscall_hash.next[rcell[r]]]
    /\ UNCHANGED <<tableVars, memoryVars, writerVars, rpc, rnr, to_call, reading>>

\* Mutant: the first node of the bucket is taken for the right one.
FoundAny(r) == rcell[r] # NULL

Found(r) == rcell[r] # NULL /\ entry[rcell[r]].syscall_nr = rnr[r]

\* Mutant: a walk that finds its entry returns without rcu_read_unlock.
WalkEndLocked(r) ==
    /\ rcell[r] = NULL \/ Found(r)
    /\ rcell' = [rcell EXCEPT ![r] = NULL]
    /\ IF Found(r) THEN UNCHANGED <<reading, gp>>
       ELSE /\ reading' = reading \ {r}
            /\ gp' = [w \in Writers |-> gp[w] \ {r}]

\* The loop is over; rcu_read_unlock lets the grace periods that wait for the
\* reader go on.
WalkEnd(r) ==
    /\ rcell[r] = NULL \/ Found(r)
    /\ reading' = reading \ {r}
    /\ rcell' = [rcell EXCEPT ![r] = NULL]
    /\ gp' = [w \in Writers |-> gp[w] \ {r}]

\* The dispatcher jumps through the table; only the wrapper is of interest here.
Dispatch(r, n) ==
    /\ rpc[r] = "user"
    /\ hacked_syscall_tbl[n] = Wrapper
    /\ rnr' = [rnr EXCEPT ![r] = n]
    /\ RGoto(r, "wrapper")
    /\ UNCHANGED <<tableVars, memoryVars, writerVars, rcell, to_call, reading>>

LookupBegin(r) ==
    /\ rpc[r] = "wrapper"
    /\ WalkBegin(r, rnr[r], "lookup_walk")
    /\ UNCHANGED <<tableVars, memoryVars, writerVars, rnr, to_call>>

LookupNext(r) ==
    /\ rpc[r] = "lookup_walk"
    /\ WalkNext(r)

\* to_call is set if the entry was found.  The thread may then have been delayed by
\* the throttling core or not.
LookupEnd(r) ==
    /\ rpc[r] = "lookup_walk"
    /\ WalkEnd(r)
    /\ to_call' = [to_call EXCEPT ![r] =
            IF Found(r) THEN entry[rcell[r]].original_syscall ELSE NULL]
    /\ \E label \in {"delayed", "call"} : RGoto(r, label)
    /\ UNCHANGED <<tableVars, memoryVars, write_lock, wpc, wnr, wcell, rnr>>

\* check_and_set_statistic: another search for the same number, which uses the
\* entry's statistics if it is still there (module PeakStats).
StatBegin(r) ==
    /\ rpc[r] = "delayed"
    /\ WalkBegin(r, rnr[r], "stat_walk")
    /\ UNCHANGED <<tableVars, memoryVars, writerVars, rnr, to_call>>

StatNext(r) ==
    /\ rpc[r] = "stat_walk"
    /\ WalkNext(r)

StatEnd(r) ==
    /\ rpc[r] = "stat_walk"
    /\ WalkEnd(r)
    /\ RGoto(r, "call")
    /\ UNCHANGED <<tableVars, memoryVars, write_lock, wpc, wnr, wcell, rnr,
                   to_call>>

RReturn(r) ==
    /\ RGoto(r, "user")
    /\ rnr' = [rnr EXCEPT ![r] = NULL]
    /\ to_call' = [to_call EXCEPT ![r] = NULL]

\* to_call(regs), or -ENOSYS if there is nothing to call.
Call(r) ==
    /\ rpc[r] = "call"
    /\ RReturn(r)
    /\ UNCHANGED <<tableVars, memoryVars, writerVars, rcell, reading>>

\* get_syscall_stats: search, copy the statistics, -ENOENT when there is no entry.
GetBegin(r, n) ==
    /\ rpc[r] = "user"
    /\ rnr' = [rnr EXCEPT ![r] = n]
    /\ WalkBegin(r, n, "get_walk")
    /\ UNCHANGED <<tableVars, memoryVars, writerVars, to_call>>

GetNext(r) ==
    /\ rpc[r] = "get_walk"
    /\ WalkNext(r)

GetEnd(r) ==
    /\ rpc[r] = "get_walk"
    /\ WalkEnd(r)
    /\ RReturn(r)
    /\ UNCHANGED <<tableVars, memoryVars, write_lock, wpc, wnr, wcell>>

-----------------------------------------------------------------------------
Register(w) ==
    \/ \E n \in SysNums : RegisterAlloc(w, n)
    \/ RegisterLock(w) \/ RegisterExists(w) \/ RegisterHack(w)
    \/ RegisterMark(w) \/ RegisterAdd(w) \/ RegisterUnlock(w)

Deregister(w) ==
    \/ \E n \in SysNums : DeregisterLock(w, n)
    \/ DeregisterRestore(w) \/ DeregisterUnmark(w) \/ DeregisterDel(w)
    \/ DeregisterUnlock(w) \/ DeregisterFree(w)

\* The steps inside a read-side critical section, which does not sleep.
Section(r) ==
    \/ LookupNext(r) \/ LookupEnd(r) \/ StatNext(r) \/ StatEnd(r)
    \/ GetNext(r) \/ GetEnd(r)

Reader(r) ==
    \/ \E n \in SysNums : Dispatch(r, n) \/ GetBegin(r, n)
    \/ LookupBegin(r) \/ StatBegin(r) \/ Call(r)
    \/ Section(r)

Next ==
    \/ \E w \in Writers : Register(w) \/ Deregister(w)
    \/ \E r \in Readers : Reader(r)

Spec == Init /\ [][Next]_vars

\* A read-side critical section runs to its end, and a grace period that is over is
\* noticed.
Fairness ==
    /\ \A r \in Readers : WF_vars(Section(r))
    /\ \A w \in Writers : WF_vars(DeregisterFree(w))

FairSpec == Spec /\ Fairness

-----------------------------------------------------------------------------
(***************************************************************************)
(* Properties                                                              *)
(***************************************************************************)
TypeOK ==
    /\ hacked_syscall_tbl \in [SysNums -> SysNums \cup {Wrapper, NULL}]
    /\ syscall_array \in [SysNums -> {0, 1}]
    /\ hacked_syscall_hash \in [head : [Buckets -> Cells \cup {NULL}],
                                next : [Cells -> Cells \cup {NULL}],
                                linked : SUBSET Cells]
    /\ sys_len \in Int
    /\ entry \in [Cells -> [syscall_nr : SysNums \cup {NULL},
                            original_syscall : SysNums \cup {Wrapper, NULL}]]
    /\ allocated \subseteq Cells
    /\ write_lock \in Writers \cup {NULL}
    /\ wpc \in [Writers -> WriterPCs]
    /\ wnr \in [Writers -> SysNums \cup {NULL}]
    /\ wcell \in [Writers -> Cells \cup {NULL}]
    /\ gp \in [Writers -> SUBSET Readers]
    /\ rpc \in [Readers -> ReaderPCs]
    /\ rnr \in [Readers -> SysNums \cup {NULL}]
    /\ rcell \in [Readers -> Cells \cup {NULL}]
    /\ to_call \in [Readers -> SysNums \cup {Wrapper, NULL}]
    /\ reading \subseteq Readers

\* No reader of the hash table ever stands on memory that has been freed: the grace
\* period that deregister_system_call waits for between hash_del_rcu and kfree
\* covers every walk that may still reach the entry, also through the next pointer
\* of another removed entry.
NoUseAfterFree == \A r \in Readers : rcell[r] # NULL => rcell[r] \in allocated

\* Whenever write_lock is free the four records of what is registered agree: the
\* flag, the patched table, exactly one entry, and sys_len; deregister_system_call
\* therefore never meets a system call that is marked as hacked but has no entry
\* ("something went wrong").
RegistryConsistent ==
    /\ \A w \in Writers : wpc[w] # "efault"
    /\ write_lock = NULL =>
           /\ \A n \in SysNums :
                 /\ syscall_array[n] = 1 => /\ hacked_syscall_tbl[n] = Wrapper
                                            /\ Cardinality(Matching(n)) = 1
                 /\ syscall_array[n] = 0 => /\ hacked_syscall_tbl[n] = n
                                            /\ Matching(n) = {}
           /\ sys_len = Cardinality(hacked_syscall_hash.linked)

\* What the wrapper calls is the service routine of the number it was invoked with,
\* never the wrapper again and never another routine, also when the system call is
\* deregistered and registered again while the thread is blocked.
CallsItsOwnOriginal ==
    \A r \in Readers : to_call[r] # NULL => to_call[r] = rnr[r]

\* Every allocated entry is in the table or in the hands of exactly one writer, who
\* will free or link it: no path of register or deregister leaks or frees twice.
NoLeak ==
    /\ \A c \in allocated : \/ c \in hacked_syscall_hash.linked
                            \/ \E w \in Writers : wcell[w] = c
    /\ hacked_syscall_hash.linked \subseteq allocated
    /\ \A v, w \in Writers : v # w /\ wcell[v] # NULL => wcell[v] # wcell[w]

\* The wrapper always finds the entry of the system call that led to it.
OriginalAlwaysFound ==
    \A r \in Readers : rpc[r] = "call" => to_call[r] # NULL

\* A deregistration that waits for its grace period comes to its end, however many
\* new readers keep entering the table.
DeregisterTerminates ==
    \A w \in Writers : wpc[w] = "der_sync" ~> wpc[w] = "idle"
=============================================================================
