------------------------------- MODULE Device -------------------------------
(***************************************************************************)
(* The character device: throttling_ioctl as its callers see it, and the   *)
(* listings of the user program, which ask for a number, allocate an array *)
(* of that size and then ask for the keys.                                 *)
(*                                                                         *)
(* What lies behind the handler is modelled in the other modules and is    *)
(* abstract here: a registry is a set of keys and its length, which change *)
(* one after the other under write_lock; the monitor is a flag.  What this *)
(* module adds is the handler's own control: the order of validation,      *)
(* privilege check and copies, the buffers it allocates and frees, and the *)
(* time that passes between the two calls of a listing.                    *)
(***************************************************************************)
EXTENDS Integers, FiniteSets, FiniteSetsExt

CONSTANTS
    Procs,        \* processes that have the device open
    Root,         \* those whose effective user id is 0
    NR_syscalls,  \* the size of the system call table
    Uids,         \* user ids
    Progs,        \* program names
    Limits,       \* arguments of IOCTL_SET_MAX_CALLS
    DefaultMax,   \* the initial limit
    NULL          \* no value

ASSUME ProcsAssumption == Root \subseteq Procs /\ NULL \notin Procs
ASSUME NumbersAssumption ==
    NR_syscalls \in Nat \ {0} /\ Limits \subseteq Int /\ DefaultMax \in Nat \ {0}

Kinds == {"sys", "uid", "prog"}
ASSUME NullAssumption == NULL \notin Kinds

SysNums == 0 .. NR_syscalls - 1
KeysOf(kind) == CASE kind = "sys"  -> SysNums
                  [] kind = "uid"  -> Uids
                  [] kind = "prog" -> Progs

\* A command: what it is about, and for most of them of which kind.
Cmd(op, kind) == [op |-> op, kind |-> kind]
Commands == [op : {"register", "deregister", "check", "get_all"}, kind : Kinds]
            \cup [op : {"set_max", "monitor_on", "monitor_off", "thread_stats",
                        "syscall_stats", "get_number", "unknown"}, kind : {NULL}]

\* The first switch of the handler serves everybody, the second one only root.
Queries == {c \in Commands : c.op \in {"check", "get_all", "thread_stats",
                                       "syscall_stats", "get_number"}}

\* The arguments a process may pass: one beyond the valid ones on either side.
Numbers == -1 .. NR_syscalls
Arguments(c) ==
    CASE c.op \in {"register", "deregister", "check"} ->
            IF c.kind = "sys" THEN Numbers ELSE KeysOf(c.kind)
      [] c.op = "syscall_stats" -> Numbers
      [] c.op = "get_all"       -> {0}
      [] c.op = "thread_stats"  -> -1 .. 2
      [] c.op = "get_number"    -> -1 .. 3
      [] c.op = "set_max"       -> Limits
      [] OTHER                  -> {NULL}

VARIABLES
    registered,           \* the registered keys of each kind
    len,                  \* sys_len, uids_len and prog_name_len
    is_monitor_active, max_syscalls_per_sec,
    write_lock,           \* who holds the lock
    pc, cmd, arg,         \* each process: place, command and its argument
    kbuf,                 \* has the call a kernel buffer?
    in_max, todo, got,    \* its listing: limit, keys not looked at, keys copied
    ret, answer,          \* its return value and the number that was written back
    lkind,                \* what its user program is listing
    quiet                 \* history: no registry changed since its GET_NUMBER

kernelVars == <<registered, len, is_monitor_active, max_syscalls_per_sec, write_lock>>
callVars   == <<cmd, arg, lkind>>
walkVars   == <<in_max, todo, got>>
vars == <<kernelVars, pc, callVars, kbuf, walkVars, ret, answer, quiet>>

Init ==
    /\ registered = [kind \in Kinds |-> {}]
    /\ len = [kind \in Kinds |-> 0]
    /\ is_monitor_active = 1
    /\ max_syscalls_per_sec = DefaultMax
    /\ write_lock = NULL
    /\ pc = [p \in Procs |-> "menu"]
    /\ cmd = [p \in Procs |-> Cmd("unknown", NULL)]
    /\ arg = [p \in Procs |-> NULL]
    /\ kbuf = [p \in Procs |-> FALSE]
    /\ in_max = [p \in Procs |-> 0]
    /\ todo = [p \in Procs |-> {}]
    /\ got = [p \in Procs |-> {}]
    /\ ret = [p \in Procs |-> NULL]
    /\ answer = [p \in Procs |-> 0]
    /\ lkind = [p \in Procs |-> NULL]
    /\ quiet = [p \in Procs |-> FALSE]

-----------------------------------------------------------------------------
(***************************************************************************)
(* The user program                                                        *)
(***************************************************************************)
\* A single ioctl, by the menu or by any other program.
Request(p, c, a) ==
    /\ pc[p] = "menu"
    /\ pc' = [pc EXCEPT ![p] = "ioctl"]
    /\ cmd' = [cmd EXCEPT ![p] = c]
    /\ arg' = [arg EXCEPT ![p] = a]
    /\ UNCHANGED <<kernelVars, lkind, kbuf, walkVars, ret, answer, quiet>>

\* Items 1 to 9 change something, items 10 to 15 ask.
ChangeItems(p) == \E c \in Commands \ Queries : \E a \in Arguments(c) : Request(p, c, a)
QueryItems(p)  == \E c \in Queries : \E a \in Arguments(c) : Request(p, c, a)

\* The number that stands for a kind in IOCTL_GET_NUMBER.
Choice == [sys |-> 0, uid |-> 1, prog |-> 2]

\* Items 16 to 18: first the number of keys.
ListNumber(p, kind) ==
    /\ pc[p] = "menu"
    /\ pc' = [pc EXCEPT ![p] = "ioctl"]
    /\ cmd' = [cmd EXCEPT ![p] = Cmd("get_number", NULL)]
    /\ arg' = [arg EXCEPT ![p] = Choice[kind]]
    /\ lkind' = [lkind EXCEPT ![p] = kind]
    /\ UNCHANGED <<kernelVars, kbuf, walkVars, ret, answer, quiet>>

ListSyscalls(p) == ListNumber(p, "sys")
ListUids(p)     == ListNumber(p, "uid")
ListProgs(p)    == ListNumber(p, "prog")

\* There is something to list: an array of that size, and the second call.
Continues(p) ==
    /\ lkind[p] # NULL
    /\ cmd[p].op = "get_number"
    /\ ret[p] = "0"
    /\ answer[p] # 0

ListAll(p) ==
    /\ pc[p] = "returned"
    /\ Continues(p)
    /\ pc' = [pc EXCEPT ![p] = "ioctl"]
    /\ cmd' = [cmd EXCEPT ![p] = Cmd("get_all", lkind[p])]
    /\ arg' = [arg EXCEPT ![p] = answer[p]]
    /\ ret' = [ret EXCEPT ![p] = NULL]
    /\ answer' = [answer EXCEPT ![p] = 0]
    /\ UNCHANGED <<kernelVars, lkind, kbuf, walkVars, quiet>>

\* The outcome is printed and the menu comes back.
ToMenu(p) ==
    /\ pc[p] = "returned"
    /\ ~ Continues(p)
    /\ pc' = [pc EXCEPT ![p] = "menu"]
    /\ cmd' = [cmd EXCEPT ![p] = Cmd("unknown", NULL)]
    /\ arg' = [arg EXCEPT ![p] = NULL]
    /\ kbuf' = [kbuf EXCEPT ![p] = FALSE]
    /\ in_max' = [in_max EXCEPT ![p] = 0]
    /\ todo' = [todo EXCEPT ![p] = {}]
    /\ got' = [got EXCEPT ![p] = {}]
    /\ ret' = [ret EXCEPT ![p] = NULL]
    /\ answer' = [answer EXCEPT ![p] = 0]
    /\ lkind' = [lkind EXCEPT ![p] = NULL]
    /\ quiet' = [quiet EXCEPT ![p] = FALSE]
    /\ UNCHANGED kernelVars

-----------------------------------------------------------------------------
(***************************************************************************)
(* throttling_ioctl                                                        *)
(***************************************************************************)
Return(p, value) ==
    /\ pc' = [pc EXCEPT ![p] = "returned"]
    /\ ret' = [ret EXCEPT ![p] = value]

\* Mutant: the effective user id is not looked at.
MayEveryone(p) == TRUE

\* The check between the two switches.
May(p) == cmd[p] \in Queries \/ p \in Root

Denied(p) ==
    /\ pc[p] = "ioctl"
    /\ ~ May(p)
    /\ Return(p, "EPERM")
    /\ UNCHANGED <<kernelVars, callVars, kbuf, walkVars, answer, quiet>>

\* Mutant: an off-by-one at the end of the table.
ValidUpTo(c, a) ==
    CASE c.op = "get_all" -> a # 0
      [] c.op = "syscall_stats" \/ (c.kind = "sys" /\ c.op # "get_all") ->
            a \in 0 .. NR_syscalls
      [] c.op = "thread_stats" -> a \in 0 .. 1
      [] c.op = "get_number"   -> a \in 0 .. 2
      [] c.op = "set_max"      -> a > 0
      [] c.op = "unknown"      -> FALSE
      [] OTHER                 -> TRUE

\* The range checks (that of IOCTL_SET_MAX_CALLS is made by set_max_syscall).
Valid(c, a) ==
    CASE c.op = "get_all" -> a # 0
      [] c.op = "syscall_stats" \/ (c.kind = "sys" /\ c.op # "get_all") ->
            a \in SysNums
      [] c.op = "thread_stats" -> a \in 0 .. 1
      [] c.op = "get_number"   -> a \in 0 .. 2
      [] c.op = "set_max"      -> a > 0
      [] c.op = "unknown"      -> FALSE
      [] OTHER                 -> TRUE

\* copy_from_user, get_user or strncpy_from_user fails, or the copy of a small
\* answer does, or the kmalloc of the operation: nothing has been changed yet.
FailCodes(op) ==
    IF op \in {"register", "get_all", "thread_stats", "syscall_stats"}
    THEN {"EFAULT", "ENOMEM"} ELSE {"EFAULT"}

Fails(p) ==
    /\ pc[p] = "ioctl"
    /\ May(p)
    /\ cmd[p].op \notin {"monitor_on", "monitor_off", "unknown"}
    /\ \E e \in FailCodes(cmd[p].op) : Return(p, e)
    /\ UNCHANGED <<kernelVars, callVars, kbuf, walkVars, answer, quiet>>

\* The argument is out of range, a listing asks for nothing, or there is no such
\* command; IOCTL_CHECK_SYSCALL answers -1, which is -EPERM.
InvalidCode(op) ==
    CASE op = "check"   -> "EPERM"
      [] op = "get_all" -> "EFAULT"
      [] OTHER          -> "EINVAL"

Invalid(p) ==
    /\ pc[p] = "ioctl"
    /\ May(p)
    /\ ~ Valid(cmd[p], arg[p])
    /\ Return(p, InvalidCode(cmd[p].op))
    /\ UNCHANGED <<kernelVars, callVars, kbuf, walkVars, answer, quiet>>

\* The handler is past its checks and about to serve the command.
Serves(p, op) ==
    /\ pc[p] = "ioctl"
    /\ May(p)
    /\ cmd[p].op = op
    /\ Valid(cmd[p], arg[p])

-----------------------------------------------------------------------------
\* The second switch.

\* register_*: -EEXIST, or the key becomes visible; its length follows.
Register(p) ==
    /\ Serves(p, "register")
    /\ write_lock = NULL
    /\ IF arg[p] \in registered[cmd[p].kind]
       THEN /\ Return(p, "EEXIST")
            /\ UNCHANGED <<registered, write_lock, quiet>>
       ELSE /\ registered' = [registered EXCEPT ![cmd[p].kind] = @ \cup {arg[p]}]
            /\ write_lock' = p
            /\ quiet' = [q \in Procs |-> FALSE]
            /\ pc' = [pc EXCEPT ![p] = "count"]
            /\ UNCHANGED ret
    /\ UNCHANGED <<len, is_monitor_active, max_syscalls_per_sec, callVars, kbuf,
                   walkVars, answer>>

\* deregister_*: -ENOENT, or the key disappears; its length follows.
Deregister(p) ==
    /\ Serves(p, "deregister")
    /\ write_lock = NULL
    /\ IF arg[p] \notin registered[cmd[p].kind]
       THEN /\ Return(p, "ENOENT")
            /\ UNCHANGED <<registered, write_lock, quiet>>
       ELSE /\ registered' = [registered EXCEPT ![cmd[p].kind] = @ \ {arg[p]}]
            /\ write_lock' = p
            /\ quiet' = [q \in Procs |-> FALSE]
            /\ pc' = [pc EXCEPT ![p] = "count"]
            /\ UNCHANGED ret
    /\ UNCHANGED <<len, is_monitor_active, max_syscalls_per_sec, callVars, kbuf,
                   walkVars, answer>>

\* The length is adjusted and the lock released.
Count(p) ==
    /\ pc[p] = "count"
    /\ len' = [len EXCEPT ![cmd[p].kind] =
                    IF cmd[p].op = "register" THEN @ + 1 ELSE @ - 1]
    /\ write_lock' = NULL
    /\ Return(p, "0")
    /\ UNCHANGED <<registered, is_monitor_active, max_syscalls_per_sec, callVars,
                   kbuf, walkVars, answer, quiet>>

SetMax(p) ==
    /\ Serves(p, "set_max")
    /\ max_syscalls_per_sec' = arg[p]
    /\ Return(p, "0")
    /\ UNCHANGED <<registered, len, is_monitor_active, write_lock, callVars, kbuf,
                   walkVars, answer, quiet>>

\* The compare-and-exchange of either switch, -EALREADY when it fails.
Switch(p, op, from, to) ==
    /\ Serves(p, op)
    /\ is_monitor_active' = to
    /\ Return(p, IF is_monitor_active = from THEN "0" ELSE "EALREADY")
    /\ UNCHANGED <<registered, len, max_syscalls_per_sec, write_lock, callVars, kbuf,
                   walkVars, answer, quiet>>

-----------------------------------------------------------------------------
\* The first switch.

\* check_syscall, check_uid and check_progname.
IsRegistered(kind, k) == IF k \in registered[kind] THEN 1 ELSE 0

Check(p) ==
    /\ Serves(p, "check")
    /\ answer' = [answer EXCEPT ![p] = IsRegistered(cmd[p].kind, arg[p])]
    /\ Return(p, "0")
    /\ UNCHANGED <<kernelVars, callVars, kbuf, walkVars, quiet>>

\* Mutant: the program names get the number of user ids.
get_lenght_uids(choose) ==
    CASE choose = 0 -> len["uid"]
      [] choose = 1 -> len["sys"]
      [] OTHER      -> len["uid"]

get_lenght(choose) ==
    CASE choose = 0 -> len["uid"]
      [] choose = 1 -> len["sys"]
      [] OTHER      -> len["prog"]

GetNumber(p) ==
    /\ Serves(p, "get_number")
    /\ answer' = [answer EXCEPT ![p] = get_lenght(arg[p])]
    /\ quiet' = [quiet EXCEPT ![p] = write_lock = NULL]
    /\ Return(p, "0")
    /\ UNCHANGED <<kernelVars, callVars, kbuf, walkVars>>

\* get_thread_stats and get_syscall_stats return a buffer of their own; the latter
\* frees it when the system call is not registered.
ThreadStats(p) ==
    /\ Serves(p, "thread_stats")
    /\ kbuf' = [kbuf EXCEPT ![p] = TRUE]
    /\ pc' = [pc EXCEPT ![p] = "copy_out"]
    /\ UNCHANGED <<kernelVars, callVars, walkVars, ret, answer, quiet>>

SyscallStats(p) ==
    /\ Serves(p, "syscall_stats")
    /\ IF arg[p] \in registered["sys"]
       THEN /\ kbuf' = [kbuf EXCEPT ![p] = TRUE]
            /\ pc' = [pc EXCEPT ![p] = "copy_out"]
            /\ UNCHANGED ret
       ELSE /\ Return(p, "ENOENT")
            /\ UNCHANGED kbuf
    /\ UNCHANGED <<kernelVars, callVars, walkVars, answer, quiet>>

\* Mutant: the caller's limit is forgotten.
BufferSizeOfAll(kind, max) == len[kind]

\* The smaller of the length and the caller's limit.
BufferSize(kind, max) == Min({len[kind], max})

\* get_all_*: the buffer is sized before the walk; one of size zero is no memory.
GetAll(p, kind) ==
    /\ Serves(p, "get_all")
    /\ cmd[p].kind = kind
    /\ in_max' = [in_max EXCEPT ![p] = BufferSize(kind, arg[p])]
    /\ kbuf' = [kbuf EXCEPT ![p] = in_max'[p] > 0]
    /\ todo' = [todo EXCEPT ![p] = KeysOf(kind)]
    /\ got' = [got EXCEPT ![p] = {}]
    /\ pc' = [pc EXCEPT ![p] = "walk"]
    /\ UNCHANGED <<kernelVars, callVars, ret, answer, quiet>>

get_all_syscalls(p) == GetAll(p, "sys")
get_all_uids(p)     == GetAll(p, "uid")
get_all_progs(p)    == GetAll(p, "prog")

\* The numbers are looked at in ascending order, hash tables in the order of their
\* buckets, which is left open here.
Visits(kind, keys) == IF kind = "sys" /\ keys # {} THEN {Min(keys)} ELSE keys

Walk(p) ==
    /\ pc[p] = "walk"
    /\ Cardinality(got[p]) < in_max[p]
    /\ \E k \in Visits(cmd[p].kind, todo[p]) :
          /\ todo' = [todo EXCEPT ![p] = @ \ {k}]
          /\ got' = [got EXCEPT ![p] = @ \cup ({k} \cap registered[cmd[p].kind])]
    /\ UNCHANGED <<kernelVars, pc, callVars, kbuf, in_max, ret, answer, quiet>>

\* The buffer is full or there are no more keys.  When nothing was copied the call
\* returns at once, with the buffer it has.
WalkEnd(p) ==
    /\ pc[p] = "walk"
    /\ Cardinality(got[p]) >= in_max[p] \/ todo[p] = {}
    /\ IF got[p] = {}
       THEN Return(p, "0")
       ELSE pc' = [pc EXCEPT ![p] = "copy_out"] /\ UNCHANGED ret
    /\ UNCHANGED <<kernelVars, callVars, kbuf, walkVars, answer, quiet>>

\* Mutant: the buffer is freed only when the copy went well.
CopyOutFreeAtEnd(p) ==
    /\ pc[p] = "copy_out"
    /\ \E e \in {"0", "EFAULT"} :
          /\ kbuf' = [kbuf EXCEPT ![p] = cmd[p].op = "thread_stats" \/ e = "EFAULT"]
          /\ Return(p, e)
    /\ UNCHANGED <<kernelVars, callVars, walkVars, answer, quiet>>

\* The copies to user space, each of which may fail; the buffer is freed either way,
\* but that of get_thread_stats never is.
CopyOut(p) ==
    /\ pc[p] = "copy_out"
    /\ kbuf' = [kbuf EXCEPT ![p] = cmd[p].op = "thread_stats"]
    /\ \E e \in {"0", "EFAULT"} : Return(p, e)
    /\ UNCHANGED <<kernelVars, callVars, walkVars, answer, quiet>>

-----------------------------------------------------------------------------
User(p) ==
    \/ ChangeItems(p) \/ QueryItems(p)
    \/ ListSyscalls(p) \/ ListUids(p) \/ ListProgs(p) \/ ListAll(p)
    \/ ToMenu(p)

throttling_ioctl(p) ==
    \/ Denied(p) \/ Fails(p) \/ Invalid(p)
    \/ Register(p) \/ Deregister(p) \/ Count(p) \/ SetMax(p)
    \/ Switch(p, "monitor_on", 0, 1) \/ Switch(p, "monitor_off", 1, 0)
    \/ Check(p) \/ GetNumber(p) \/ ThreadStats(p) \/ SyscallStats(p)
    \/ get_all_syscalls(p) \/ get_all_uids(p) \/ get_all_progs(p)
    \/ Walk(p) \/ WalkEnd(p) \/ CopyOut(p)

Next == \E p \in Procs : User(p) \/ throttling_ioctl(p)

Spec == Init /\ [][Next]_vars

-----------------------------------------------------------------------------
(***************************************************************************)
(* Properties                                                              *)
(***************************************************************************)
TypeOK ==
    /\ \A kind \in Kinds : registered[kind] \subseteq KeysOf(kind)
    /\ len \in [Kinds -> Nat]
    /\ is_monitor_active \in {0, 1}
    /\ max_syscalls_per_sec \in Nat \ {0}
    /\ write_lock \in Procs \cup {NULL}
    /\ pc \in [Procs -> {"menu", "ioctl", "count", "walk", "copy_out", "returned"}]
    /\ cmd \in [Procs -> Commands]
    /\ kbuf \in [Procs -> BOOLEAN]
    /\ in_max \in [Procs -> Nat]
    /\ \A p \in Procs : todo[p] \cup got[p] \subseteq UNION {KeysOf(k) : k \in Kinds}
    /\ ret \in [Procs -> {NULL, "0", "EPERM", "EFAULT", "EINVAL", "EEXIST", "ENOENT",
                          "ENOMEM", "EALREADY"}]
    /\ answer \in [Procs -> Nat]
    /\ lkind \in [Procs -> Kinds \cup {NULL}]
    /\ quiet \in [Procs -> BOOLEAN]

\* Only a root process changes what is registered, the limit or the monitor, through
\* whatever sequence of calls the others make at the same time.
OnlyRootChanges ==
    [][<<registered, len, is_monitor_active, max_syscalls_per_sec>>' #
            <<registered, len, is_monitor_active, max_syscalls_per_sec>>
         => \E p \in Root : pc'[p] # pc[p]]_vars

\* A listing never writes more keys than the array of the caller holds, although
\* keys are registered between the call that gave the array its size and the walk.
ListingFitsTheArray ==
    \A p \in Procs : cmd[p].op = "get_all" => Cardinality(got[p]) <= arg[p]

\* When nothing is registered or deregistered from the first call of a listing of
\* the program names to its end, the user program is shown all of them.
QuietListingIsComplete ==
    \A p \in Procs :
        pc[p] = "returned" /\ lkind[p] = "prog" /\ quiet[p] /\ ret[p] = "0"
        /\ ~ Continues(p) => got[p] = registered["prog"]

\* A call that returns has freed the buffer it was given, also when a copy to user
\* space failed half way; the exceptions are get_thread_stats, whose buffer is never
\* freed, and a listing whose last key was deregistered between sizing and walk.
BuffersAreFreed ==
    \A p \in Procs : pc[p] = "returned" /\ kbuf[p] =>
        \/ cmd[p].op = "thread_stats"
        \/ cmd[p].op = "get_all" /\ got[p] = {}

\* IOCTL_GET_NUMBER answers 0 with the number of system calls, 1 with that of user
\* ids and 2 with that of program names.
NumberIsOfItsKind ==
    \A p \in Procs :
        pc[p] = "returned" /\ lkind[p] # NULL /\ cmd[p].op = "get_number"
        /\ quiet[p] /\ ret[p] = "0" => answer[p] = Cardinality(registered[lkind[p]])
=============================================================================
