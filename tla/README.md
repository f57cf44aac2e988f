# TLA+ models of the system call throttling module

The repository is a Linux kernel module that limits how often registered system
calls may be invoked by registered users and programs, and a user program that
configures it. This directory holds TLA+ models of the module's own logic, the
TLC configurations that check them and TLAPS proofs of the results that matter
most. Paths are relative to the repository (`src/throttling_api.c` and so on).

## 1. The system

| Component | Source | State it keeps | Operations |
|---|---|---|---|
| Throttling core | `throttling_api.c` (`throttling_wrapper`, `switch_on_monitor`, `switch_off_monitor`, `set_max_syscall`), `throttling_hidden.c` | `is_monitor_active`, `max_syscalls_per_sec`, `curr_syscalls` (tokens), `blocked_thread`, the wait queue `thrott_wq`, `epoch_timer` | take a token or wait, refill every second, switch on and off, set the limit |
| System call registry | `throttling_api.c` (`register_system_call`, `deregister_system_call`, the lookups), `my_usctm.c` (dispatcher) | the patched table, `syscall_array`, `hacked_syscall_hash`, `sys_len` | register, deregister, look up the original, search for statistics |
| Identity registry | `throttling_api.c` (`register_user_id` ... `get_all_progs`) | `uid_hash`, `prog_hash`, `uids_len`, `prog_name_len` | register, deregister, check, list |
| Thread statistics | `epoch_handler`, the switches, `get_thread_stats` | `info_threads`, `exponential` | sample, account on-time, report |
| System call statistics | `check_and_set_statistic`, `get_syscall_stats` | `peak_delay`, `peak_uid`, `peak_prog_name` per entry | compare, update under `stats_lock`, report |
| Device | `throttling_dev.c`, `include/throttling.h` | buffers of the call under way | eighteen ioctls: validation, privileges, copies, dispatch |
| User interface | `user/interface.c` | the array of a listing | a menu of single ioctls and two-call listings |
| Module life cycle | `throttling_mod.c`, `cleanup_rcu`, `dev_init`, the patch of the dispatcher | module parameters, device class, saved instruction bytes | load, unload |
| System call table search | `my_usctm.c`, `my_vtpmo.c` | `hacked_syscall_tbl` | walk page tables, recognise the table |
| Example load | `user/user.c` | none | threads that call `open` in a loop |

**Interaction.** A thread that invokes a registered system call is sent by the
patched table to `throttling_wrapper`. The wrapper reads the monitor flag, the
identity registry (without lock, under RCU), the system call registry (same), and
then competes for tokens. The timer softirq refills the tokens, samples the number
of blocked threads and wakes the queue. Root processes inside the ioctl handler
change everything concurrently: the registries under `write_lock`, the monitor and
the limit by single atomic accesses and with no lock at all. Any process may ask
for statistics and listings at the same time. `init_module` searches the kernel's
memory for the system call table, patches the first instruction of the dispatcher
and only then creates the device and starts the timer; `cleanup_module` undoes this
in another order, and waits for none of the threads that are inside.

**What is hard here.** Wake-ups that race with going to sleep; switches that race
with each other and with the timer; entries that are freed while walkers stand on
them; the order in which the wrapper is published and its data becomes available;
threads asleep for seconds in the wrapper while their system call is deregistered;
statistics that are compared, written and read by different parties; listings
whose size is fixed before the walk; code, entries and a timer that go away under
the threads that use them; failures half way through loading.

## 2. Modules

| Module | Models | Composes |
|---|---|---|
| `Throttle` | throttling core | |
| `RateLimiter` | what the core promises (abstract) | |
| `ThrottleRefinement` | the refinement mapping | `Throttle`, `RateLimiter` |
| `ThrottleProofs` | theorems about the core | `ThrottleRefinement` |
| `RcuHash` | the kernel's RCU hash table, as far as the module uses it (external) | |
| `SyscallRegistry` | system call registry and its readers | `RcuHash` |
| `SyscallRegistryProofs` | theorems about the registry | `SyscallRegistry` |
| `IdentityRegistry` | user ids, program names, identity check, listings | `RcuHash` |
| `IdentityRegistryProofs` | theorems about it | `IdentityRegistry` |
| `KernelTime` | `jiffies_to_msecs` (external) | |
| `ThreadStats` | statistics about blocked threads | `KernelTime` |
| `ThreadStatsProofs` | theorems about these statistics | `ThreadStats` |
| `PeakStats` | the peak delay of one system call | `KernelTime` |
| `PeakStatsProofs` | theorems about it | `PeakStats` |
| `Device` | ioctl handler and user program | |
| `DeviceProofs` | theorems about it | `Device` |
| `SyscallTableFinder` | the search for the system call table, `sys_vtpmo` | |
| `SyscallTableFinderProofs` | the loop invariant of the search | `SyscallTableFinder` |
| `ModuleLifecycle` | loading and removing the module under running threads | `SyscallTableFinder`; the switches as two steps, the registrations as one |
| `ModuleLifecycleProofs` | theorems about the life cycle | `ModuleLifecycle`, `SyscallTableFinderProofs` |
| `MC*` | constants for TLC | the module after `MC` |

One step is one access to state that somebody else may touch in between: an
atomic operation, a store to a table, a pointer that a walker follows, the
acquisition or release of a lock (with the reads that only the lock's holder can
disturb). `PROJECT.json` maps every definition to its lines.

- **Throttle.** `Enter` to `Call` follow the wrapper: the early jump when the
  monitor is off, classification, `atomic_dec_if_positive`, the second look at
  the monitor, the count of blocked threads, and `wait_event_interruptible` taken
  apart into prepare, evaluate flag, evaluate tokens, schedule, finish. `EpochBegin`
  to `EpochRearm` are the handler, `SwitchOff...`/`SwitchOn...` the switches with
  `core_cleanup` (waits for a running handler) and `core_setup`. Which identity a
  thread has is a free choice; the statistics nobody reads here are in `ThreadStats`.
- **SyscallRegistry.** An entry with its statistics is one cell of memory. A
  writer is in `register_system_call` or `deregister_system_call`; the order
  "save original, patch table, set flag, add entry, count" is the code's. A reader
  walks node by node; `synchronize_rcu` is a set of readers it still has to wait
  for (`gp`), fixed when it is called.
- **IdentityRegistry.** The same discipline for two tables; the checking thread
  goes through `check_uid`, then `check_progname`; a listing walks every bucket. A
  program name is compared after truncation, so a key stands for at most
  `TASK_COMM_LEN - 1` characters.
- **ThreadStats.** Time passes in jiffies, the timer may be late, the number of
  blocked threads at an expiry is a free choice, the mean is computed with the
  code's truncating shifts. `get_thread_stats(0)` reads `elapsed`, the flag, the clock,
  `start_time` and the samples in separate steps, adds them up in its local `temp` and
  reports `jiffies_to_msecs(temp)`, an unsigned int; `get_thread_stats(1)` reports the
  exponential mean. History variables record how long the monitor has really been on,
  in the running interval and in the one before.
- **PeakStats.** Comparison, lock, the stores, unlock; a reader of the same fields. A
  name is sixteen bytes that `strscpy` copies a word at a time, so it has a front and a
  back. History variables keep the peak that stood when last nobody was under way
  (`settled`), and what it was when a report began (`base`).
- **Device.** Every command with arguments one below and one beyond the valid
  range; privilege check between the two switches; every copy and allocation may
  fail. A registry is its set and its length, which change one after the other
  under `write_lock`. The user program's listings are two calls with time between.
- **SyscallTableFinder.** Memory is a function from pages and offsets to words, the
  page tables are a function from table names to entries (valid, large, next table,
  frame). `sys_vtpmo` is an operator over them; the loops over pages and offsets are
  three actions. `Present` and `IsTable` are the reference definitions: what the
  processor does with an address, and what a table in memory is.
- **ModuleLifecycle.** One action per step of `init_module` that can fail or that
  others can see, with the failure as its other disjunct; the same for
  `cleanup_module` with `cleanup_rcu`. The patch is two steps with the instruction
  torn in between. Loads are numbered; the word `-g` in memory is the wrapper of load
  `g`, so that a table entry left behind by one load is met by threads of the next.
  A thread goes on only while the code it is in is resident; between its look at the
  monitor (`WrapperOn`) and its `rcu_read_lock` (`WalkBegin`) a removal may go on. Any
  number of root processes (`Admins`) have the device open; a switch is two steps, the
  flag and then the timer, and overlaps the switches of the others and `init_module`'s
  `core_setup`. `Register` and `Deregister` are single steps here; their interleavings
  are the subject of `SyscallRegistry`. Exceptions that the code really has are history
  variables: `failed` (`dev_init` failed after the patch), `abandoned` (loads removed
  with system calls registered), `caught` (threads inside when the dispatcher was
  restored), `late` (walks begun after `synchronize_rcu` was called) and `stray` (timers
  that `core_setup` armed with the monitor off).

## 3. Runs

| Run | Result | What it shows |
|---|---|---|
| `throttle_core` | pass | `BlockedCountExact`, `NoLostWakeup`, `ActiveMonitorHasTimer`, `TimerSetupOnIdleTimer`, `ImplementsRateLimiter` (refinement), `SleepersAreWoken`, `OffReleasesEverybody`, `LoneThreadGetsThrough`, with valid and invalid limits |
| `off_enosys` | violation | `OriginalAlwaysCalled` |
| `two_switchers` | violation | `SleepersAreWoken` with two root processes |
| `syscall_registry` | pass | `NoUseAfterFree`, `RegistryConsistent`, `CallsItsOwnOriginal`, `NoLeak`, `DeregisterTerminates` |
| `lookup_miss` | violation | `OriginalAlwaysFound` |
| `identity_registry` | pass | `NoUseAfterFree`, `LengthsExact`, `NoMissedIdentity`, `ListingFitsWithoutDuplicates`, `NoLeak` |
| `thread_stats` | pass | `StatisticsCoherent`, `ReportedOnTime`, `EpochsAreOneSecondApart` |
| `peak_consistent` | pass | `PeakOfOneCall`, `SettledPeakIsKept` |
| `peak_not_maximum` | violation | `PeakIsMaximum` |
| `device_calls` | pass | `OnlyRootChanges`, `ListingFitsTheArray`, `QuietListingIsComplete`, `BuffersAreFreed` |
| `number_swapped` | violation | `NumberIsOfItsKind` |
| `module_removal` | pass | `SearchReadsPresentPages`, `SearchFindsFirstTable`, `DispatcherLeadsToModule`, `OrderlyRemovalIsSafe`, `CleanupWaitsForReaders`, `DeviceGoesWithModule`, `TimerGoesWithModule`, `RemovalTerminates` |

The runs of `Throttle`, `SyscallRegistry`, `ThreadStats`, `Device` and
`ModuleLifecycle` also check the type invariant.

**Bounds.**
- Core: two threads and one root process; the limit can be set to 1, and then one
  thread holds the last token while the other waits. Limits asked for include 0 and
  -1. One thread may be signalled. The safety properties are proved for any number of
  threads (section 6).
- System call registry: two numbers in one bucket (a list of length two, so a
  removed node can point to another removed node), three cells (two linked, one
  being prepared or awaiting its grace period), two writers, one reader: readers do
  not influence each other, and the theorem of section 6 covers any number.
- Identity registry: two user ids in one bucket, a program name in another.
- Thread statistics: two jiffies per second, seven jiffies, up to two blocked
  threads: three epochs, or an off and on cycle between two epochs, or three
  switch-offs. An unsigned int has 2048 values, so that a report of five jiffies (2500
  ms) wraps around.
- Peak statistics: three callers, delays of one and three jiffies; an unsigned int has
  1024 values, so that the larger delay (1500 ms) wraps around in a report.
- Device: a root and a user process, one system call (arguments -1, 0, 1), one
  user id, two program names.
- Life cycle: one thread, two root processes, two loads (the second one meets what the
  first one left in the table), two system calls of which one is an unused number. A
  page has four words and a table four entries, so that a table fits a page exactly at
  one offset and crosses into the next at three. The search covers two pages and the
  one behind them. 16 machines: a table that crosses from the second page into the
  third, with pages that are missing at each level of the page tables and with large
  pages; and, with every page in memory, a table that fills the second page exactly,
  one from the last word of the first page with another behind it, and one that begins
  behind the pages that are searched. For any number of threads, root processes, loads
  and pages, and for any contents of memory, see section 6.

**Symmetry** is used over cells, writers, callers or names that the constants do not
tell apart, and in no run with a liveness property; `device_calls` permutes the
program names and checks an action property that does not mention them.

**Fairness.** `Throttle`: weak fairness of each thread inside the wrapper (the
scheduler runs runnable threads; a sleeping thread has no enabled step), of the
epoch handler (an armed timer expires) and of a root process that is in the
middle of a switch. Nothing is assumed about signals, new calls or new switches.
`SyscallRegistry`: a read-side critical section does not sleep and so runs to its
end, and a grace period that is over is noticed. `ModuleLifecycle`: the process in
`cleanup_module` runs on, and a walk inside `rcu_read_lock` ends; nothing is assumed
of threads that sleep or are in a service routine. The other modules have safety
properties only.

**Deadlock** is checked in every run but `module_removal`: there the system may
really stop, when the module has been removed for the last time or a thread is in
code that is gone. `ThreadStats` stops the clock at its bound, but the switches and
the reader can always go on.

## 4. What the code does differently from what it says

Each of these is a run that fails, and what fails is the sentence quoted in
`PROJECT.json`.

1. `off_enosys`. With the monitor off, `throttling_wrapper` jumps to
   `original_system_call` before it has set `to_call`; the caller gets `-ENOSYS`.
2. `two_switchers`. `switch_off_monitor` clears the flag long before it deletes
   the timer. A `switch_on_monitor` in between starts a timer that the first one
   then deletes: the monitor is on, nobody refills, blocked threads sleep on.
3. `lookup_miss`. The table points to the wrapper before the entry is in the hash
   table, and the entry goes while threads are on their way to the lookup; such a
   thread gets `-ENOSYS`.
4. `peak_not_maximum`. The comparison with the peak is outside the lock and not
   repeated inside; a smaller delay can overwrite a larger one.
5. `number_swapped`. `get_lenght` answers 0 with user ids and 1 with system
   calls; the listings of the user program are sized by the wrong number.

Others are visible in the models as the exact exceptions of properties that hold:

- `ReportedOnTime`: `switch_off_monitor` overwrites `elapsed` instead of adding to it
  (`throttling_api.c:330`), so a report holds the last interval that is over and the
  running one; all earlier ones are lost, although the comment at line 380 calls what is
  read there "gli intervalli di accensione precedenti". The property states this sum and
  would not hold of code that kept all intervals. The result of `jiffies_to_msecs` has
  32 bits (line 388): after 49.7 days on, the reported time starts again at zero.
  Between the flag and `core_setup` of `switch_on_monitor`, `get_thread_stats` counts the
  previous interval again (line 384), so only reports that no switch overlaps are right.
- `SettledPeakIsKept`: `get_syscall_stats` reads the fields without `stats_lock` (line
  427). `src/README.md:74` promises the peak delay "and the corresponding program-name
  and user-ID"; a report that an update overlaps can have the delay of one call, the user
  id of a second and a name made of two others, so that promise is not kept. What does
  hold is that none of these calls was delayed for less than the peak that stood before
  the callers under way came in.
- `BuffersAreFreed` names the two ways in which the handler loses a buffer.
- `LoneThreadGetsThrough` promises a token only to a thread that is left alone: the
  wait has no order (line 755).
- `DispatcherLeadsToModule`: when `dev_init` fails, `init_module` returns an error
  with the dispatcher still patched (`throttling_mod.c:59`); the kernel releases the
  code that every system call now jumps to.
- `OrderlyRemovalIsSafe`: `cleanup_rcu` frees the entries but does not put the
  original routines back into the table (`throttling_api.c:624`), so a later load
  dispatches into a wrapper that is gone; and nobody waits for threads that are
  asleep in the wrapper or in a service routine called from it.
- `CleanupWaitsForReaders`: `synchronize_rcu` comes before the entries are unlinked
  (line 618); walks that begin later stand on entries that are freed under them.
- `TimerGoesWithModule`: switches take no lock, and the device exists before
  `core_setup` of `init_module` (`throttling_mod.c:65`). A switch-on that sets the flag, a
  whole switch-off, and then the `core_setup` of the first leave a pending timer with the
  monitor off; so does a switch-off before `init_module` gets to `core_setup`. The
  `switch_off_monitor` in `cleanup_rcu` then returns early, and if the module is removed
  within the second the timer expires in code that is gone.
- A thread that meets the half-written five bytes of the patch (`my_usctm.c:281`) is
  lost; no property promises it anything.

Read in the source and not in a model: `cleanup_rcu` frees entries without their
statistics; two menu items of `user/interface.c` (line 116) test the value of an
earlier input; and line 230 divides the sum of the samples by milliseconds and prints
the quotient as threads per second.

## 5. What the passing properties say

- *A call subject to the limit runs against a token of the current epoch or
  because the monitor was seen off*: `ImplementsRateLimiter`. The refill sets the
  budget to the limit that was in force when the handler began, once per epoch.
- *Nobody is forgotten*: `NoLostWakeup`, `SleepersAreWoken`,
  `OffReleasesEverybody` (one switch of the monitor at a time).
- *The kernel's rules are kept*: no walk on freed memory, no leak; and, as long as one
  root process at a time switches, no `timer_setup` on a live timer
  (`TimerSetupOnIdleTimer`) and no active monitor without a timer
  (`ActiveMonitorHasTimer`). With two that switch at once both can fail:
  `two_switchers` shows the second.
- *Refills are a second apart*: `EpochsAreOneSecondApart`, again with one root process at
  a time.
- *What is registered is one fact, not four*: `RegistryConsistent`,
  `LengthsExact`. *The wrapper calls the routine it stands for*:
  `CallsItsOwnOriginal`.
- *An unlocked walk does not miss what stays*: `NoMissedIdentity`.
- *Buffers sized earlier suffice later*: `ListingFitsWithoutDuplicates` in the
  kernel, `ListingFitsTheArray` in the user program.
- *The search is exact*: it reads no page that is not in memory, although it asks only
  for the page of the last entry, and it finds the first table at whatever offset:
  `SearchReadsPresentPages`, `SearchFindsFirstTable`.
- *A removal with nothing registered and nobody inside is safe*:
  `OrderlyRemovalIsSafe`; *nothing of the module stays behind*:
  `DeviceGoesWithModule`, `TimerGoesWithModule`, `DispatcherLeadsToModule`; *and it
  ends*, whatever the threads inside wait for: `RemovalTerminates`.

## 6. Proofs

`ThrottleProofs` (constants: any finite set of threads, any set of root processes,
any integers as limits):

- `TypeCorrect`: the type invariant is inductive; `curr_syscalls` stays in Nat.
- `WakeupsAreNotLost`: `NoLostWakeup` speaks of sleeping threads only. The
  inductive `WakePending` begins earlier, when a queued thread has seen the flag.
  It holds for any number of concurrent switches.
- `BlockedCountIsExact`: induction with the cardinality lemmas of finite sets.
- `TimerFollowsMonitor`, `TimerSetupIsLegal`: from `SwitchState`, which says what a
  switch in progress has done to flag and timer, under `OneSwitcher` (at most one
  root process); run `two_switchers` shows that the hypothesis is needed.
- `Refinement`: every step of `Throttle` is a step of `RateLimiter` or a stutter
  under the mapping of `ThrottleRefinement`, with `MonitoredOK` as invariant.

`SyscallRegistryProofs` (any system calls, buckets, cells, writers, readers):

- `TypeCorrect`: `TypeOK` with `LocalsOK` (a writer under way has its number and
  its node).
- `WalksAreSafe`: `NoUseAfterFree`. A reader may stand on a removed node and go on
  along its stale next pointer, so the property alone is not inductive. `RcuInv`
  says that every node a reader can still reach is *protected* by this reader: it
  is linked, or its remover has not called `synchronize_rcu`, or that grace period
  waits for this reader; that protection is handed on along next pointers; that
  nodes outside the table have one owner; and that no node has two predecessors,
  so that unlinking it leaves no pointer behind.
- `RecordsAgree`, `OwnOriginal`, `EntriesAreOwned`: `RegistryConsistent`,
  `CallsItsOwnOriginal` and `NoLeak`, from `RegistryInv`. It adds to `RcuInv` which of
  the four records the holder of the lock has already changed at each of its places
  (`RecordsOK`, `LengthOK`), who has an allocated entry in hand (`HandsOK`), and that an
  entry carries the number it was made for and, once the table has been patched, that
  number's own routine (`EntriesOK`). The last also holds of removed entries until they
  are freed, so that a walker that stands on one still reads the right routine
  (`FoundOriginal`). The removal step needs that no number is in the table twice, the
  length needs the cardinality lemmas of finite sets.

`IdentityRegistryProofs` (any user ids and names, buckets, cells, writers, readers; the
table of a key is decided by the key, user ids and names being disjoint):

- `NoFreedNode`, `ExactLengths`, `NodesAreOwned`: from `SafeInv`, which is the argument
  of `WalksAreSafe` for two tables at once. A node belongs to the table of its key's
  kind; protection is stated per reader and table; a length is behind by what the one
  holder of the lock has yet to count.
- `NobodyMissed`: `NoMissedIdentity`. That a walk has a node before it is
  reachability along next pointers. Induction over paths is out of the provers' reach,
  so `Reach` is defined with closed sets: a node is reachable if every set that holds
  the start and is closed under next holds the node. What the proof needs of it then
  follows by choosing a set: a node that is reachable and not here is reachable from
  the next one (`ReachNext`); `hash_del_rcu` hides no node but the removed one, also
  from a walker that stands on a removed node (`DelReach`); `hash_add_rcu` changes
  nothing for a walker among protected nodes (`AddReach`). `CheckInv` says that every
  linked node is reachable from its bucket and that a key which has been registered
  since the thread entered is reachable from where its walk stands.
- `ListedOnce`: `ListingFitsWithoutDuplicates`. A key can be removed and registered
  again in the same bucket while a listing is under way, and the listing must not meet
  the new node. `ListInv` says that along the nodes a reader may walk the bucket never
  changes and no key comes twice (also from removed nodes into the table), and that no
  key which was copied is still reachable; a removal lets a walker meet nothing new
  (`DelReachOld`), and a new node is in front of every walk.

`DeviceProofs` (any processes, root or not, keys and arguments; `NULL` is no kind of
registry):

- `DeviceTypes`, `ListingsFit`, `QuietListings`, `BuffersFreed`: from `DeviceInv`, which
  says which command a process can have at each place of the handler (`PlacesOK`), what
  is known of its argument before the checks (`ArgsOK`), which length the holder of
  `write_lock` has yet to change (`LengthsOK`), how much a listing has copied
  (`ListingsOK`), who has a kernel buffer (`BuffersOK`), and, of a listing that nothing
  has disturbed, that it knows the number of names and has every one of them before or
  behind it (`QuietOK`).
- `RootOnly`: `OnlyRootChanges`, an action property. The step that counts a key comes
  after the privilege check of the same process, which `PlacesOK` remembers.

`PeakStatsProofs` (any callers, delays and reports):

- `StoredPeakIsOfOneCall`: `PeakInv` says who holds `stats_lock` and which of the fields
  the holder has written.
- `SettledPeakStays`: `SettledPeakIsKept`. A caller that compared long ago may still
  overwrite the peak, so the property is not inductive. `KeptInv` adds that every caller
  which has passed its comparison has a delay above the settled peak (`AheadInv`), and
  that what is stored, also half-written, is of calls that were delayed for at least
  that long (`StoredInv`).

`ThreadStatsProofs` (any length of a second that divides 1000, any run time, any number of
blocked threads, any range of an unsigned int):

- `TypeCorrect`, `SamplesAreCoherent` (`SampleInv`: the same relation in the middle of
  the handler).
- `RefillsAreOneSecondApart`: an action property. `DueInv` says that a pending timer
  is never due earlier than a second after the last expiry.
- `ReportsAreOnTime`: `ElapsedInv` says that `elapsed` is the interval before and
  `start_time` the beginning of the running one, `ReadInv` what a report that met no switch
  has added up so far, compared with the on-time when it began and now. `MsecsIsUInt`
  keeps the conversion opaque: the argument is about ticks.

`ModuleLifecycleProofs` (any threads, root processes, loads, pages, contents of memory
and page tables; the assumptions are that page tables lead to page tables, that no word points
into the module at the start and that the numbers lie inside the table):

- `SearchStaysInMemory`, `SearchIsExact`: from `SearchInv` of
  `SyscallTableFinderProofs`, the loop invariant (no table begins before the place
  that is being looked at). Its lemma `VtpmoExact` says that `sys_vtpmo` finds a frame
  exactly if the processor does, `PagesOfTable` that the first and the last page of a
  table are all of its pages.
- `DispatcherIsRestored`, `DeviceIsReleased`, `TimerIsStopped`: `LoadInv`, `DevInv`
  and `TimerInv` say what is patched, registered and armed at each place of
  `init_module` and `cleanup_module`. `TimerInv` is about any number of overlapping
  switches: a timer that is pending with the monitor off is stray, or somebody is still
  between the flag and `core_cleanup`, who has the device open and so holds up `rmmod`.
- `RemovalIsSafe`: `HookInv` says that a word which points to a wrapper belongs to an
  abandoned load or to a registered entry of this one (this needs that the entries of
  the table are different words, `EntriesApart`); `ThreadInv` says in whose code a
  thread is, and that after the dispatcher is restored everybody inside is `caught`.
- `ReadersAreWaitedFor`: `GraceInv`, the state of the grace period of `cleanup_rcu`.
- `TypeCorrect`, together with these.

TLC checked every strengthened invariant before it was proved. Every invariant and
every action property of the passing runs is proved, and the refinement. Only
model-checked are the liveness properties, which need fairness: `SleepersAreWoken`,
`OffReleasesEverybody`, `LoneThreadGetsThrough`, `DeregisterTerminates` and
`RemovalTerminates`. The violations of section 4 are TLC's counterexamples.

## 7. Not modelled

- `user/user.c`, a test load: the threads of `Throttle` stand for it.
- Printing, logging and the reading of input in the user program.
- The assembly that reads and writes CR0, CR3 and CR4, and the kprobe that finds
  `x64_sys_call` (it succeeds or fails).
- Pages of a gigabyte, which `sys_vtpmo` does not tell from page tables; the kernel
  maps none in the range that is searched.
- Frame numbers beyond 31 bits (eight terabytes of memory), which `sys_vtpmo` returns
  as an int.
- Other parts of the kernel at the time of the search: memory and page tables stay as
  they are while it goes on. A page that is unmapped between `sys_vtpmo`'s answer
  (`my_usctm.c:104`, `139`) and the reads that rely on it (110-120) is outside the model.
- Lengths of a second that do not divide 1000 (`HZ` = 300), for which the kernel's
  `jiffies_to_msecs` rounds.
- What `timer_setup` on a pending timer does to the timer: in `ModuleLifecycle` the timer
  is pending afterwards. Whether it can happen is `TimerSetupOnIdleTimer` of `Throttle`.
- 64-bit wrap-around of jiffies and of `sum_blocked`.
- Scheduling latency: a thread that is runnable runs at some time.

## 8. Plan

1. Proofs: the two RCU registries share their argument; the lemmas about `RcuHash`
   (lists, reachability) could serve `SyscallRegistryProofs` too.
2. Composition: the core with the detailed system call registry, so that a blocked
   thread outlives the registration of its system call (`ModuleLifecycle` has this
   with registrations as single steps).
