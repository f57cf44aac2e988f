---------------------------- MODULE DeviceProofs ----------------------------
(***************************************************************************)
(* Theorems about the device, for every set of processes, keys and limits. *)
(***************************************************************************)
EXTENDS Device, FiniteSetTheorems, TLAPS

-----------------------------------------------------------------------------
(***************************************************************************)
(* The invariant.  What a process is at says which command it may have,    *)
(* and what the command says bounds its argument; the lengths are exact    *)
(* but for what the holder of write_lock has yet to count.                 *)
(***************************************************************************)
Keys == UNION {KeysOf(k) : k \in Kinds}

PlacesOK ==
    /\ registered \in [Kinds -> SUBSET Keys]
    /\ todo \in [Procs -> SUBSET Keys]
    /\ got \in [Procs -> SUBSET Keys]
    /\ DOMAIN arg = Procs
    /\ \A p \in Procs : pc[p] = "menu" => lkind[p] = NULL
    /\ \A p \in Procs : pc[p] = "count" =>
          p \in Root /\ write_lock = p /\ cmd[p].op \in {"register", "deregister"}
    /\ \A p \in Procs : write_lock = p => pc[p] = "count"
    /\ \A p \in Procs : pc[p] = "walk" => cmd[p].op = "get_all"
    /\ \A p \in Procs : pc[p] = "copy_out" =>
          cmd[p].op \in {"get_all", "thread_stats", "syscall_stats"}
    /\ \A p \in Procs : lkind[p] # NULL =>
          \/ cmd[p].op = "get_number" /\ arg[p] = Choice[lkind[p]]
          \/ cmd[p].op = "get_all" /\ cmd[p].kind = lkind[p]

\* What is known of an argument before it is checked.
ArgsOK ==
    \A p \in Procs :
        /\ cmd[p].op \in {"register", "deregister"} /\ cmd[p].kind # "sys"
              => arg[p] \in KeysOf(cmd[p].kind)
        /\ cmd[p].op = "set_max" => arg[p] \in Int
        /\ cmd[p].op = "get_all" => arg[p] \in Nat

\* A length differs from the number of keys only while its kind is being counted.
LengthsOK ==
    /\ \A k \in Kinds : IsFiniteSet(registered[k])
    /\ \A k \in Kinds : \/ len[k] = Cardinality(registered[k])
                        \/ \E p \in Procs : pc[p] = "count" /\ cmd[p].kind = k
    /\ \A p \in Procs : pc[p] = "count" =>
          Cardinality(registered[cmd[p].kind]) =
              IF cmd[p].op = "register" THEN len[cmd[p].kind] + 1
                                        ELSE len[cmd[p].kind] - 1

\* A listing has copied nothing before its walk, and at no time more than it may.
ListingsOK ==
    \A p \in Procs :
        /\ IsFiniteSet(got[p])
        /\ cmd[p].op # "get_all" \/ pc[p] \in {"menu", "ioctl"} => got[p] = {}
        /\ pc[p] = "walk" => Cardinality(got[p]) <= in_max[p] /\ in_max[p] <= arg[p]
        /\ cmd[p].op = "get_all" => Cardinality(got[p]) <= arg[p]

\* Who has a kernel buffer.
BuffersOK ==
    \A p \in Procs : kbuf[p] =>
        \/ pc[p] \in {"walk", "copy_out"}
        \/ pc[p] = "returned" /\ \/ cmd[p].op = "thread_stats"
                                 \/ cmd[p].op = "get_all" /\ got[p] = {}

\* A listing of the program names that nothing has disturbed knows their number and
\* has every one of them before or behind it.
QuietOK ==
    \A p \in Procs : quiet[p] =>
        /\ write_lock = NULL
        /\ lkind[p] = "prog" =>
              /\ cmd[p].op = "get_number" /\ pc[p] = "returned" /\ ret[p] = "0"
                    => answer[p] = Cardinality(registered["prog"])
              /\ cmd[p].op = "get_all" => arg[p] = Cardinality(registered["prog"])
              /\ pc[p] = "walk" => /\ in_max[p] = Cardinality(registered["prog"])
                                   /\ got[p] \subseteq registered["prog"]
                                   /\ registered["prog"] \subseteq got[p] \cup todo[p]
              /\ pc[p] = "copy_out" => got[p] = registered["prog"]
              /\ cmd[p].op = "get_all" /\ pc[p] = "returned" /\ ret[p] = "0"
                    => got[p] = registered["prog"]

DeviceInv ==
    TypeOK /\ PlacesOK /\ ArgsOK /\ LengthsOK /\ ListingsOK /\ BuffersOK /\ QuietOK

-----------------------------------------------------------------------------
(***************************************************************************)
(* What the handler has checked before it serves a command.                *)
(***************************************************************************)
\* The smaller of two numbers is one of them and not above either.
LEMMA MinOfTwo ==
    ASSUME NEW a \in Int, NEW b \in Int
    PROVE  Min({a, b}) \in {a, b} /\ Min({a, b}) <= a /\ Min({a, b}) <= b
<1>1. \E x \in {a, b} : \A y \in {a, b} : x <= y
  <2>1. CASE a <= b
    BY <2>1
  <2>2. CASE ~(a <= b)
    BY <2>2
  <2> QED
    BY <2>1, <2>2
<1>2. Min({a, b}) \in {a, b} /\ \A y \in {a, b} : Min({a, b}) <= y
  BY <1>1 DEF Min
<1> QED
  BY <1>2

\* Only root gets past the privilege check with a command that is no query.
LEMMA ServesRoot ==
    ASSUME NEW p \in Procs, NEW op, Serves(p, op),
           op \in {"register", "deregister", "set_max", "monitor_on", "monitor_off"}
    PROVE  p \in Root
  BY DEF Serves, May, Queries

\* A registration works on a key of its kind.
LEMMA ServesKey ==
    ASSUME TypeOK, ArgsOK, NEW p \in Procs, NEW op \in {"register", "deregister"},
           Serves(p, op)
    PROVE  cmd[p].kind \in Kinds /\ arg[p] \in KeysOf(cmd[p].kind)
<1>1. cmd[p] \in Commands /\ cmd[p].op = op
  BY DEF TypeOK, Serves
<1>2. cmd[p].kind \in Kinds
  BY <1>1 DEF Commands
<1>3. CASE cmd[p].kind = "sys"
  BY <1>1, <1>2, <1>3 DEF Serves, Valid, KeysOf
<1>4. CASE cmd[p].kind # "sys"
  BY <1>1, <1>2, <1>4 DEF ArgsOK
<1> QED
  BY <1>3, <1>4

\* The limit is positive.
LEMMA ServesLimit ==
    ASSUME TypeOK, ArgsOK, NEW p \in Procs, Serves(p, "set_max")
    PROVE  arg[p] \in Nat \ {0}
<1>1. cmd[p] \in Commands /\ cmd[p].op = "set_max"
  BY DEF TypeOK, Serves
<1>2. cmd[p].kind # "sys"
  BY <1>1, NullAssumption DEF Commands, Kinds
<1>3. arg[p] > 0
  BY <1>1, <1>2 DEF Serves, Valid
<1>4. arg[p] \in Int
  BY <1>1 DEF ArgsOK
<1> QED
  BY <1>3, <1>4

-----------------------------------------------------------------------------
\* A process that returns from the handler, having changed no registry and copied
\* nothing.
LEMMA ReturnKeeps ==
    ASSUME DeviceInv, NEW p \in Procs, pc[p] = "ioctl",
           NEW e \in {"0", "EPERM", "EFAULT", "EINVAL", "EEXIST", "ENOENT", "ENOMEM",
                      "EALREADY"},
           e = "0" => cmd[p].op \notin {"get_number", "get_all"},
           Return(p, e),
           NEW v \in Nat, answer' = [answer EXCEPT ![p] = v],
           is_monitor_active' \in {0, 1}, max_syscalls_per_sec' \in Nat \ {0},
           UNCHANGED <<registered, len, write_lock, callVars, kbuf, walkVars, quiet>>
    PROVE  DeviceInv'
<1> USE DEF DeviceInv, Return, callVars, walkVars
<1>1. TypeOK'
  BY DEF TypeOK
<1>2. PlacesOK'
  BY DEF TypeOK, PlacesOK
<1>3. ArgsOK'
  BY DEF ArgsOK
<1>4. LengthsOK'
  BY DEF TypeOK, LengthsOK
<1>5. ListingsOK'
  BY DEF TypeOK, ListingsOK
<1>6. BuffersOK'
  BY DEF TypeOK, BuffersOK
<1>7. QuietOK'
  BY DEF TypeOK, QuietOK
<1> QED
  BY <1>1, <1>2, <1>3, <1>4, <1>5, <1>6, <1>7

\* The steps of the user program.
LEMMA UserKeeps ==
    ASSUME DeviceInv, NEW p \in Procs, User(p)
    PROVE  DeviceInv'
<1> USE NullAssumption
<1> USE DEF DeviceInv, callVars, walkVars, kernelVars
<1>1. ASSUME NEW c \in Commands, NEW a \in Arguments(c), Request(p, c, a)
      PROVE  DeviceInv'
  <2> USE <1>1 DEF Request
  <2>1. TypeOK'
    BY DEF TypeOK
  <2>2. PlacesOK'
    BY DEF TypeOK, PlacesOK
  <2>3. ArgsOK'
    <3>1. c.op \in {"register", "deregister"} /\ c.kind # "sys" => a \in KeysOf(c.kind)
      BY DEF Arguments
    <3>2. c.op = "set_max" => a \in Int
      BY NumbersAssumption DEF Arguments
    <3>3. c.op = "get_all" => a \in Nat
      BY DEF Arguments
    <3> QED
      BY <3>1, <3>2, <3>3 DEF TypeOK, PlacesOK, ArgsOK
  <2>4. LengthsOK'
    BY DEF TypeOK, LengthsOK
  <2>5. ListingsOK'
    <3>1. got[p] = {} /\ Cardinality(got[p]) = 0
      BY FS_EmptySet DEF ListingsOK
    <3>2. c.op = "get_all" => a \in Nat /\ 0 <= a
      BY DEF Arguments
    <3>3. /\ got' = got /\ in_max' = in_max
          /\ pc'[p] = "ioctl" /\ cmd'[p] = c /\ arg'[p] = a
          /\ \A q \in Procs : q # p => pc'[q] = pc[q] /\ cmd'[q] = cmd[q] /\ arg'[q] = arg[q]
      BY DEF TypeOK, PlacesOK
    <3> HIDE <1>1
    <3> QED
      BY <3>1, <3>2, <3>3 DEF ListingsOK
  <2>6. BuffersOK'
    BY DEF TypeOK, BuffersOK
  <2>7. QuietOK'
    BY DEF TypeOK, PlacesOK, QuietOK, Kinds
  <2> QED
    BY <2>1, <2>2, <2>3, <2>4, <2>5, <2>6, <2>7
<1>2. ASSUME NEW kind \in Kinds, ListNumber(p, kind)
      PROVE  DeviceInv'
  <2> USE <1>2 DEF ListNumber
  <2>1. TypeOK'
    BY DEF TypeOK, Cmd, Commands
  <2>2. PlacesOK'
    BY DEF TypeOK, PlacesOK, Cmd
  <2>3. ArgsOK'
    BY DEF TypeOK, ArgsOK, PlacesOK, Cmd
  <2>4. LengthsOK'
    BY DEF TypeOK, LengthsOK
  <2>5. ListingsOK'
    BY DEF TypeOK, PlacesOK, ListingsOK, Cmd
  <2>6. BuffersOK'
    BY DEF TypeOK, BuffersOK
  <2>7. QuietOK'
    BY DEF TypeOK, PlacesOK, QuietOK, Cmd
  <2> QED
    BY <2>1, <2>2, <2>3, <2>4, <2>5, <2>6, <2>7
<1>3. CASE ListAll(p)
  <2> USE <1>3 DEF ListAll, Continues
  <2>1. TypeOK'
    BY DEF TypeOK, Cmd, Commands
  <2>2. PlacesOK'
    BY DEF TypeOK, PlacesOK, Cmd
  <2>3. ArgsOK'
    BY DEF TypeOK, ArgsOK, PlacesOK, Cmd
  <2>4. LengthsOK'
    BY DEF TypeOK, LengthsOK
  <2>5. ListingsOK'
    <3>1. got[p] = {} /\ Cardinality(got[p]) = 0
      BY FS_EmptySet DEF ListingsOK
    <3>2. /\ got' = got /\ in_max' = in_max
          /\ pc'[p] = "ioctl" /\ arg'[p] \in Nat /\ 0 <= arg'[p]
          /\ \A q \in Procs : q # p => pc'[q] = pc[q] /\ cmd'[q] = cmd[q] /\ arg'[q] = arg[q]
      BY DEF TypeOK, PlacesOK
    <3>3. Cardinality(got[p]) <= arg'[p]
      BY <3>1, <3>2
    <3> HIDE <1>3
    <3> QED
      BY <3>1, <3>2, <3>3 DEF ListingsOK
  <2>6. BuffersOK'
    BY DEF TypeOK, BuffersOK
  <2>7. QuietOK'
    BY DEF TypeOK, PlacesOK, QuietOK, Cmd
  <2> QED
    BY <2>1, <2>2, <2>3, <2>4, <2>5, <2>6, <2>7
<1>4. CASE ToMenu(p)
  <2> USE <1>4 DEF ToMenu
  <2>1. TypeOK'
    BY DEF TypeOK, Cmd, Commands
  <2>2. PlacesOK'
    BY DEF TypeOK, PlacesOK, Cmd
  <2>3. ArgsOK'
    BY DEF TypeOK, ArgsOK, PlacesOK, Cmd
  <2>4. LengthsOK'
    BY DEF TypeOK, LengthsOK
  <2>5. ListingsOK'
    BY FS_EmptySet DEF TypeOK, PlacesOK, ListingsOK, Cmd
  <2>6. BuffersOK'
    BY DEF TypeOK, BuffersOK
  <2>7. QuietOK'
    BY DEF TypeOK, PlacesOK, QuietOK, Cmd
  <2> QED
    BY <2>1, <2>2, <2>3, <2>4, <2>5, <2>6, <2>7
<1> QED
  BY <1>1, <1>2, <1>3, <1>4
     DEF User, ChangeItems, QueryItems, Queries, ListSyscalls, ListUids, ListProgs, Kinds
\* The steps of the handler that only return: refusals, failures, the limit, the
\* switches and the checks.
LEMMA ReturningKeeps ==
    ASSUME DeviceInv, NEW p \in Procs,
           \/ Denied(p) \/ Fails(p) \/ Invalid(p) \/ SetMax(p) \/ Check(p)
           \/ Switch(p, "monitor_on", 0, 1) \/ Switch(p, "monitor_off", 1, 0)
    PROVE  DeviceInv'
<1> DEFINE Codes == {"0", "EPERM", "EFAULT", "EINVAL", "EEXIST", "ENOENT", "ENOMEM",
                     "EALREADY"}
<1> USE DEF kernelVars
<1>1. answer[p] \in Nat /\ answer = [answer EXCEPT ![p] = answer[p]]
  BY DEF DeviceInv, TypeOK
<1>2. is_monitor_active \in {0, 1} /\ max_syscalls_per_sec \in Nat \ {0}
  BY DEF DeviceInv, TypeOK
<1>3. CASE Denied(p)
  BY <1>1, <1>2, <1>3, ReturnKeeps DEF Denied
<1>4. CASE Fails(p)
  <2>1. PICK e \in FailCodes(cmd[p].op) : Return(p, e)
    BY <1>4 DEF Fails
  <2>2. e \in Codes /\ e # "0"
    BY DEF FailCodes
  <2> QED
    BY <1>1, <1>2, <1>4, <2>1, <2>2, ReturnKeeps DEF Fails
<1>5. CASE Invalid(p)
  <2>1. InvalidCode(cmd[p].op) \in Codes /\ InvalidCode(cmd[p].op) # "0"
    BY DEF InvalidCode
  <2> QED
    BY <1>1, <1>2, <1>5, <2>1, ReturnKeeps DEF Invalid
<1>6. CASE SetMax(p)
  BY <1>1, <1>2, <1>6, ServesLimit, ReturnKeeps DEF SetMax, Serves, DeviceInv
<1>7. CASE Check(p)
  <2>1. IsRegistered(cmd[p].kind, arg[p]) \in Nat
    BY DEF IsRegistered
  <2> QED
    BY <1>2, <1>7, <2>1, ReturnKeeps DEF Check, Serves
<1>8. CASE Switch(p, "monitor_on", 0, 1)
  BY <1>1, <1>2, <1>8, ReturnKeeps DEF Switch, Serves
<1>9. CASE Switch(p, "monitor_off", 1, 0)
  BY <1>1, <1>2, <1>9, ReturnKeeps DEF Switch, Serves
<1> QED
  BY <1>3, <1>4, <1>5, <1>6, <1>7, <1>8, <1>9

\* At most one process is between registering or removing a key and counting it.
LEMMA OneCounts ==
    ASSUME PlacesOK, NEW p \in Procs, NEW q \in Procs, pc[p] = "count", pc[q] = "count"
    PROVE  p = q
  BY DEF PlacesOK

\* Putting a key into a registry, or taking one out, under the lock.
LEMMA ChangeKeeps ==
    ASSUME DeviceInv, NEW p \in Procs, NEW op \in {"register", "deregister"},
           Serves(p, op), write_lock = NULL,
           NEW R \in SUBSET Keys,
           registered' = [registered EXCEPT ![cmd[p].kind] = R],
           R \subseteq KeysOf(cmd[p].kind), IsFiniteSet(R),
           Cardinality(R) = IF op = "register" THEN Cardinality(registered[cmd[p].kind]) + 1
                                               ELSE Cardinality(registered[cmd[p].kind]) - 1,
           write_lock' = p,
           quiet' = [q \in Procs |-> FALSE],
           pc' = [pc EXCEPT ![p] = "count"],
           UNCHANGED <<len, is_monitor_active, max_syscalls_per_sec, callVars, kbuf,
                       walkVars, ret, answer>>
    PROVE  DeviceInv'
<1> USE ProcsAssumption DEF DeviceInv, callVars, walkVars
<1>1. cmd[p].kind \in Kinds /\ cmd[p].op = op /\ pc[p] = "ioctl" /\ p \in Root
  BY ServesKey, ServesRoot DEF Serves
<1>2. \A q \in Procs : pc[q] # "count"
  BY DEF PlacesOK
<1>3. TypeOK'
  <2>1. \A k \in Kinds : registered'[k] \subseteq KeysOf(k)
    BY <1>1 DEF TypeOK, PlacesOK
  <2>2. \A q \in Procs : (todo[q] \cup got[q])' \subseteq UNION {KeysOf(k) : k \in Kinds}
    BY DEF TypeOK
  <2> QED
    BY <2>1, <2>2 DEF TypeOK
<1>4. PlacesOK'
  BY <1>1, <1>2 DEF TypeOK, PlacesOK
<1>5. ArgsOK'
  BY DEF ArgsOK
<1>6. LengthsOK'
  <2>1. \A k \in Kinds : len[k] = Cardinality(registered[k])
    BY <1>2 DEF LengthsOK
  <2>2. /\ registered'[cmd[p].kind] = R
        /\ \A k \in Kinds : k # cmd[p].kind => registered'[k] = registered[k]
    BY <1>1 DEF PlacesOK
  <2>3. pc'[p] = "count" /\ \A q \in Procs : pc'[q] = "count" => q = p
    BY <1>2 DEF TypeOK
  <2> QED
    BY <1>1, <2>1, <2>2, <2>3 DEF LengthsOK
<1>7. ListingsOK'
  BY <1>1 DEF TypeOK, ListingsOK
<1>8. BuffersOK'
  BY <1>1 DEF TypeOK, BuffersOK
<1>9. QuietOK'
  BY DEF QuietOK
<1> QED
  BY <1>3, <1>4, <1>5, <1>6, <1>7, <1>8, <1>9

\* Registration and deregistration.
LEMMA RegistrationKeeps ==
    ASSUME DeviceInv, NEW p \in Procs, Register(p) \/ Deregister(p) \/ Count(p)
    PROVE  DeviceInv'
<1> DEFINE kind == cmd[p].kind
           S == registered[kind]
<1>1. answer[p] \in Nat /\ answer = [answer EXCEPT ![p] = answer[p]]
  BY DEF DeviceInv, TypeOK
<1>2. is_monitor_active \in {0, 1} /\ max_syscalls_per_sec \in Nat \ {0}
  BY DEF DeviceInv, TypeOK
<1>3. CASE Register(p)
  <2>1. kind \in Kinds /\ arg[p] \in KeysOf(kind)
    BY <1>3, ServesKey DEF Register, DeviceInv
  <2>2. S \subseteq KeysOf(kind) /\ IsFiniteSet(S) /\ KeysOf(kind) \subseteq Keys
    BY <2>1 DEF DeviceInv, TypeOK, LengthsOK, Keys
  <2>3. CASE arg[p] \in S
    BY <1>1, <1>2, <1>3, <2>3, ReturnKeeps DEF Register, Serves
  <2>4. CASE arg[p] \notin S
    <3>1. registered' = [registered EXCEPT ![kind] = S \cup {arg[p]}]
      BY <1>3, <2>1, <2>4 DEF Register, DeviceInv, PlacesOK
    <3>2. IsFiniteSet(S \cup {arg[p]}) /\ Cardinality(S \cup {arg[p]}) = Cardinality(S) + 1
      BY <2>2, <2>4, FS_AddElement
    <3>3. /\ Serves(p, "register") /\ write_lock = NULL /\ write_lock' = p
          /\ quiet' = [q \in Procs |-> FALSE]
          /\ pc' = [pc EXCEPT ![p] = "count"]
          /\ UNCHANGED <<len, is_monitor_active, max_syscalls_per_sec, callVars, kbuf,
                         walkVars, ret, answer>>
      BY <1>3, <2>4 DEF Register
    <3>4. S \cup {arg[p]} \in SUBSET Keys /\ S \cup {arg[p]} \subseteq KeysOf(kind)
      BY <2>1, <2>2
    <3> HIDE <1>3
    <3> QED
      BY <3>1, <3>2, <3>3, <3>4, ChangeKeeps
  <2> QED
    BY <2>3, <2>4
<1>4. CASE Deregister(p)
  <2>1. kind \in Kinds /\ arg[p] \in KeysOf(kind)
    BY <1>4, ServesKey DEF Deregister, DeviceInv
  <2>2. S \subseteq KeysOf(kind) /\ IsFiniteSet(S) /\ KeysOf(kind) \subseteq Keys
    BY <2>1 DEF DeviceInv, TypeOK, LengthsOK, Keys
  <2>3. CASE arg[p] \notin S
    BY <1>1, <1>2, <1>4, <2>3, ReturnKeeps DEF Deregister, Serves
  <2>4. CASE arg[p] \in S
    <3>1. registered' = [registered EXCEPT ![kind] = S \ {arg[p]}]
      BY <1>4, <2>1, <2>4 DEF Deregister, DeviceInv, PlacesOK
    <3>2. IsFiniteSet(S \ {arg[p]}) /\ Cardinality(S \ {arg[p]}) = Cardinality(S) - 1
      BY <2>2, <2>4, FS_RemoveElement
    <3>3. /\ Serves(p, "deregister") /\ write_lock = NULL /\ write_lock' = p
          /\ quiet' = [q \in Procs |-> FALSE]
          /\ pc' = [pc EXCEPT ![p] = "count"]
          /\ UNCHANGED <<len, is_monitor_active, max_syscalls_per_sec, callVars, kbuf,
                         walkVars, ret, answer>>
      BY <1>4, <2>4 DEF Deregister
    <3>4. S \ {arg[p]} \in SUBSET Keys /\ S \ {arg[p]} \subseteq KeysOf(kind)
      BY <2>1, <2>2
    <3> HIDE <1>4
    <3> QED
      BY <3>1, <3>2, <3>3, <3>4, ChangeKeeps
  <2> QED
    BY <2>3, <2>4
<1>5. CASE Count(p)
  <2> USE <1>5 DEF Count, Return, DeviceInv, callVars, walkVars
  <2>1. /\ kind \in Kinds /\ cmd[p].op \in {"register", "deregister"}
        /\ write_lock = p /\ \A q \in Procs : pc[q] = "count" => q = p
    BY OneCounts DEF TypeOK, PlacesOK, Commands
  <2>2. Cardinality(S) \in Nat
    BY <2>1, FS_CardinalityType DEF LengthsOK
  <2>3. len' = [len EXCEPT ![kind] = Cardinality(S)]
    <3>1. len[kind] \in Nat
      BY <2>1 DEF TypeOK
    <3>2. Cardinality(S) = IF cmd[p].op = "register" THEN len[kind] + 1 ELSE len[kind] - 1
      BY DEF LengthsOK
    <3> QED
      BY <2>1, <3>1, <3>2 DEF TypeOK
  <2>4. TypeOK'
    BY <2>2, <2>3 DEF TypeOK
  <2>5. PlacesOK'
    BY <2>1, ProcsAssumption DEF TypeOK, PlacesOK
  <2>6. ArgsOK'
    BY DEF ArgsOK
  <2>7. LengthsOK'
    <3>1. \A k \in Kinds : k # kind => len[k] = Cardinality(registered[k])
      BY <2>1 DEF LengthsOK
    <3>2. \A k \in Kinds : len'[k] = Cardinality(registered[k])
      BY <2>1, <2>3, <3>1 DEF TypeOK
    <3>3. \A q \in Procs : pc'[q] # "count"
      BY <2>1 DEF TypeOK
    <3> QED
      BY <3>2, <3>3 DEF LengthsOK
  <2>8. ListingsOK'
    BY <2>1 DEF TypeOK, ListingsOK
  <2>9. BuffersOK'
    BY <2>1 DEF TypeOK, BuffersOK
  <2>10. QuietOK'
    BY <2>1, ProcsAssumption DEF TypeOK, QuietOK
  <2> QED
    BY <2>4, <2>5, <2>6, <2>7, <2>8, <2>9, <2>10
<1> QED
  BY <1>3, <1>4, <1>5

\* The answers: a number, or a buffer of statistics.
LEMMA AnswersKeep ==
    ASSUME DeviceInv, NEW p \in Procs, GetNumber(p) \/ ThreadStats(p) \/ SyscallStats(p)
    PROVE  DeviceInv'
<1> USE DEF callVars, walkVars, kernelVars, Serves
<1>1. CASE GetNumber(p)
  <2> USE <1>1 DEF GetNumber, Return, DeviceInv
  <2>1. get_lenght(arg[p]) \in Nat
    BY DEF TypeOK, get_lenght, Kinds
  <2>2. TypeOK'
    BY <2>1 DEF TypeOK
  <2>3. PlacesOK'
    BY DEF TypeOK, PlacesOK
  <2>4. ArgsOK'
    BY DEF ArgsOK
  <2>5. LengthsOK'
    BY DEF TypeOK, LengthsOK
  <2>6. ListingsOK'
    BY DEF TypeOK, ListingsOK
  <2>7. BuffersOK'
    BY DEF TypeOK, BuffersOK
  <2>8. QuietOK'
    <3>1. ASSUME write_lock = NULL, lkind[p] = "prog"
          PROVE  answer'[p] = Cardinality(registered["prog"])
      <4>1. arg[p] = 2
        <5>1. arg[p] = Choice["prog"]
          BY <3>1, NullAssumption DEF PlacesOK, Kinds
        <5> QED
          BY <5>1 DEF Choice
      <4>2. \A q \in Procs : pc[q] # "count"
        BY <3>1, ProcsAssumption DEF PlacesOK
      <4>3. len["prog"] = Cardinality(registered["prog"])
        BY <4>2 DEF LengthsOK, Kinds
      <4> QED
        BY <4>1, <4>3 DEF TypeOK, get_lenght
    <3>2. /\ quiet'[p] => write_lock = NULL
          /\ pc'[p] = "returned" /\ cmd'[p].op = "get_number"
          /\ UNCHANGED <<write_lock, lkind, registered, cmd, arg, in_max, todo, got>>
          /\ \A q \in Procs : q # p =>
                /\ quiet'[q] = quiet[q] /\ pc'[q] = pc[q]
                /\ ret'[q] = ret[q] /\ answer'[q] = answer[q]
      BY DEF TypeOK
    <3> HIDE <1>1
    <3> QED
      BY <3>1, <3>2 DEF QuietOK
  <2> QED
    BY <2>2, <2>3, <2>4, <2>5, <2>6, <2>7, <2>8
<1>2. ASSUME /\ pc[p] = "ioctl" /\ cmd[p].op \in {"thread_stats", "syscall_stats"}
             /\ kbuf' = [kbuf EXCEPT ![p] = TRUE]
             /\ pc' = [pc EXCEPT ![p] = "copy_out"]
             /\ UNCHANGED <<kernelVars, callVars, walkVars, ret, answer, quiet>>
      PROVE  DeviceInv'
  <2> USE <1>2, NullAssumption DEF DeviceInv
  <2>1. TypeOK'
    BY DEF TypeOK
  <2>2. PlacesOK'
    BY DEF TypeOK, PlacesOK
  <2>3. ArgsOK'
    BY DEF ArgsOK
  <2>4. LengthsOK'
    BY DEF TypeOK, LengthsOK
  <2>5. ListingsOK'
    BY DEF TypeOK, ListingsOK
  <2>6. BuffersOK'
    BY DEF TypeOK, BuffersOK
  <2>7. QuietOK'
    <3>1. lkind[p] = NULL
      BY DEF PlacesOK
    <3> QED
      BY <3>1 DEF TypeOK, QuietOK, Kinds
  <2> QED
    BY <2>1, <2>2, <2>3, <2>4, <2>5, <2>6, <2>7
<1>3. CASE ThreadStats(p)
  BY <1>2, <1>3 DEF ThreadStats
<1>4. CASE SyscallStats(p)
  <2>1. CASE arg[p] \in registered["sys"]
    BY <1>2, <1>4, <2>1 DEF SyscallStats
  <2>2. CASE arg[p] \notin registered["sys"]
    <3>1. answer[p] \in Nat /\ answer = [answer EXCEPT ![p] = answer[p]]
          /\ is_monitor_active \in {0, 1} /\ max_syscalls_per_sec \in Nat \ {0}
      BY DEF DeviceInv, TypeOK
    <3> QED
      BY <1>4, <2>2, <3>1, ReturnKeeps DEF SyscallStats
  <2> QED
    BY <2>1, <2>2
<1> QED
  BY <1>1, <1>3, <1>4

\* A listing sizes its buffer.
LEMMA GetAllKeeps ==
    ASSUME DeviceInv, NEW p \in Procs, NEW kind \in Kinds, GetAll(p, kind)
    PROVE  DeviceInv'
<1> DEFINE size == Min({len[kind], arg[p]})
<1>1. size \in {len[kind], arg[p]} /\ size \in Nat /\ size <= arg[p]
      /\ len[kind] \in Nat /\ arg[p] \in Nat
  <2>1. len[kind] \in Nat /\ arg[p] \in Nat
    BY DEF DeviceInv, TypeOK, ArgsOK, GetAll, Serves
  <2>2. size \in {len[kind], arg[p]} /\ size <= arg[p]
    <3>1. len[kind] \in Int /\ arg[p] \in Int
      BY <2>1
    <3> QED
      BY <3>1, MinOfTwo
  <2> QED
    BY <2>1, <2>2
<1>2. /\ pc[p] = "ioctl" /\ cmd[p].op = "get_all" /\ cmd[p].kind = kind
      /\ in_max' = [in_max EXCEPT ![p] = size]
      /\ todo' = [todo EXCEPT ![p] = KeysOf(kind)]
      /\ got' = [got EXCEPT ![p] = {}]
      /\ pc' = [pc EXCEPT ![p] = "walk"]
      /\ UNCHANGED <<kernelVars, callVars, ret, answer, quiet>>
  BY DEF GetAll, Serves, BufferSize
<1>3. kbuf' = [kbuf EXCEPT ![p] = size > 0]
  <2>1. in_max'[p] = size
    BY <1>2 DEF DeviceInv, TypeOK
  <2> QED
    BY <2>1 DEF GetAll
<1> HIDE DEF size
<1> USE DEF DeviceInv, callVars, kernelVars
<1>4. TypeOK'
  <2>1. kbuf' \in [Procs -> BOOLEAN]
    BY <1>3 DEF TypeOK
  <2>2. in_max' \in [Procs -> Nat]
    BY <1>1, <1>2 DEF TypeOK
  <2>3. \A q \in Procs : (todo[q] \cup got[q])' \subseteq UNION {KeysOf(k) : k \in Kinds}
    BY <1>2 DEF TypeOK, PlacesOK
  <2>4. pc' \in [Procs -> {"menu", "ioctl", "count", "walk", "copy_out", "returned"}]
    BY <1>2 DEF TypeOK
  <2> QED
    BY <1>2, <2>1, <2>2, <2>3, <2>4 DEF TypeOK
<1>5. PlacesOK'
  <2>1. todo' \in [Procs -> SUBSET Keys] /\ got' \in [Procs -> SUBSET Keys]
    BY <1>2 DEF PlacesOK, Keys
  <2> QED
    BY <1>2, <2>1 DEF TypeOK, PlacesOK
<1>6. ArgsOK'
  BY <1>2 DEF ArgsOK
<1>7. LengthsOK'
  BY <1>2 DEF TypeOK, LengthsOK
<1>8. ListingsOK'
  <2>1. got'[p] = {} /\ Cardinality(got'[p]) = 0 /\ IsFiniteSet(got'[p])
    BY <1>2, FS_EmptySet DEF PlacesOK
  <2>2. in_max'[p] = size /\ arg' = arg /\ cmd' = cmd
    BY <1>2 DEF TypeOK
  <2>3. \A q \in Procs : q # p =>
           got'[q] = got[q] /\ in_max'[q] = in_max[q] /\ pc'[q] = pc[q]
    BY <1>2 DEF TypeOK, PlacesOK
  <2>4. 0 <= size /\ 0 <= arg[p] /\ size <= arg[p]
    BY <1>1
  <2> QED
    BY <2>1, <2>2, <2>3, <2>4 DEF ListingsOK
<1>9. BuffersOK'
  <2>1. pc'[p] = "walk" /\ cmd' = cmd
    BY <1>2 DEF TypeOK
  <2>2. \A q \in Procs : q # p => got'[q] = got[q] /\ kbuf'[q] = kbuf[q] /\ pc'[q] = pc[q]
    BY <1>2, <1>3 DEF TypeOK, PlacesOK
  <2> QED
    BY <2>1, <2>2 DEF BuffersOK
<1>10. QuietOK'
  <2>1. ASSUME quiet[p], lkind[p] = "prog"
        PROVE  size = Cardinality(registered["prog"]) /\ kind = "prog"
               /\ arg[p] = Cardinality(registered["prog"])
    <3>1. kind = "prog"
      BY <1>2, <2>1, NullAssumption DEF PlacesOK, Kinds
    <3>2. write_lock = NULL /\ arg[p] = Cardinality(registered["prog"])
      BY <1>2, <2>1 DEF QuietOK
    <3>3. len["prog"] = Cardinality(registered["prog"])
      BY <3>2, ProcsAssumption DEF PlacesOK, LengthsOK, Kinds
    <3> QED
      BY <1>1, <3>1, <3>2, <3>3
  <2>2. /\ in_max'[p] = size /\ got'[p] = {} /\ todo'[p] = KeysOf(kind) /\ pc'[p] = "walk"
        /\ UNCHANGED <<write_lock, lkind, registered, cmd, arg, ret, answer, quiet>>
        /\ cmd[p].op = "get_all"
        /\ \A q \in Procs : q # p => /\ pc'[q] = pc[q] /\ got'[q] = got[q]
                                     /\ in_max'[q] = in_max[q] /\ todo'[q] = todo[q]
    BY <1>2 DEF TypeOK, PlacesOK
  <2>3. registered["prog"] \subseteq KeysOf("prog")
    BY DEF TypeOK, Kinds
  <2> QED
    BY <2>1, <2>2, <2>3 DEF QuietOK
<1> QED
  BY <1>4, <1>5, <1>6, <1>7, <1>8, <1>9, <1>10

\* A listing looks at one key.
LEMMA WalkKeeps ==
    ASSUME DeviceInv, NEW p \in Procs, Walk(p)
    PROVE  DeviceInv'
<1> DEFINE R == registered[cmd[p].kind]
<1>1. PICK k \in Visits(cmd[p].kind, todo[p]) :
         /\ todo' = [todo EXCEPT ![p] = todo[p] \ {k}]
         /\ got' = [got EXCEPT ![p] = got[p] \cup ({k} \cap R)]
  BY DEF Walk, DeviceInv, PlacesOK
<1>2. /\ pc[p] = "walk" /\ Cardinality(got[p]) < in_max[p]
      /\ UNCHANGED <<kernelVars, pc, callVars, kbuf, in_max, ret, answer, quiet>>
  BY DEF Walk
<1>3. cmd[p].op = "get_all" /\ cmd[p].kind \in Kinds
  BY <1>2 DEF DeviceInv, PlacesOK, TypeOK, Commands
<1>4. R \subseteq KeysOf(cmd[p].kind) /\ R \subseteq Keys
  BY <1>3 DEF DeviceInv, TypeOK, PlacesOK
<1> HIDE DEF R
<1> USE DEF DeviceInv, callVars, kernelVars
<1>5. PlacesOK'
  <2>1. todo' \in [Procs -> SUBSET Keys] /\ got' \in [Procs -> SUBSET Keys]
    BY <1>1, <1>4 DEF PlacesOK
  <2> QED
    BY <1>2, <2>1 DEF PlacesOK
<1>6. TypeOK'
  <2>1. \A q \in Procs : (todo[q] \cup got[q])' \subseteq UNION {KeysOf(j) : j \in Kinds}
    BY <1>5 DEF PlacesOK, Keys
  <2> QED
    BY <1>2, <2>1 DEF TypeOK
<1>7. ArgsOK'
  BY <1>2 DEF ArgsOK
<1>8. LengthsOK'
  BY <1>2 DEF LengthsOK
<1>9. ListingsOK'
  <2>1. IsFiniteSet(got[p]) /\ Cardinality(got[p]) \in Nat
    BY FS_CardinalityType DEF ListingsOK
  <2>2. got'[p] = got[p] \/ got'[p] = got[p] \cup {k}
    BY <1>1 DEF PlacesOK
  <2>3. IsFiniteSet(got'[p]) /\ Cardinality(got'[p]) <= Cardinality(got[p]) + 1
        /\ Cardinality(got'[p]) \in Nat
    BY <2>1, <2>2, FS_AddElement, FS_CardinalityType
  <2>4. in_max[p] \in Nat /\ arg[p] \in Nat /\ in_max[p] <= arg[p]
    BY <1>2, <1>3 DEF TypeOK, ArgsOK, ListingsOK
  <2>5. Cardinality(got'[p]) <= in_max[p] /\ Cardinality(got'[p]) <= arg[p]
    BY <1>2, <2>1, <2>3, <2>4
  <2>6. \A q \in Procs : q # p => got'[q] = got[q]
    BY <1>1 DEF PlacesOK
  <2>7. UNCHANGED <<pc, cmd, arg, in_max>>
    BY <1>2
  <2> QED
    BY <1>2, <1>3, <2>3, <2>4, <2>5, <2>6, <2>7 DEF ListingsOK
<1>10. BuffersOK'
  <2>1. \A q \in Procs : q # p => got'[q] = got[q]
    BY <1>1 DEF PlacesOK
  <2> QED
    BY <1>2, <2>1 DEF BuffersOK
<1>11. QuietOK'
  <2>1. got'[p] = got[p] \cup ({k} \cap R) /\ todo'[p] = todo[p] \ {k}
    BY <1>1 DEF PlacesOK
  <2>2. ASSUME lkind[p] = "prog" PROVE R = registered["prog"]
    BY <1>3, <2>2, NullAssumption DEF PlacesOK, Kinds, R
  <2>3. \A q \in Procs : q # p => got'[q] = got[q] /\ todo'[q] = todo[q]
    BY <1>1 DEF PlacesOK
  <2>4. UNCHANGED <<pc, cmd, arg, in_max, lkind, quiet, ret, answer, write_lock, registered>>
    BY <1>2
  <2> QED
    BY <1>2, <2>1, <2>2, <2>3, <2>4 DEF QuietOK
<1> QED
  BY <1>5, <1>6, <1>7, <1>8, <1>9, <1>10, <1>11

\* A listing stops, and its keys are copied to the user.
LEMMA ListingEndKeeps ==
    ASSUME DeviceInv, NEW p \in Procs, WalkEnd(p) \/ CopyOut(p)
    PROVE  DeviceInv'
<1> USE DEF DeviceInv, callVars, walkVars, kernelVars
<1>1. CASE WalkEnd(p)
  <2>1. /\ pc[p] = "walk" /\ UNCHANGED <<kernelVars, callVars, kbuf, walkVars, answer, quiet>>
        /\ \/ /\ got[p] = {} /\ pc' = [pc EXCEPT ![p] = "returned"]
              /\ ret' = [ret EXCEPT ![p] = "0"]
           \/ pc' = [pc EXCEPT ![p] = "copy_out"] /\ ret' = ret
    BY <1>1 DEF WalkEnd, Return
  <2>2. Cardinality(got[p]) >= in_max[p] \/ todo[p] = {}
    BY <1>1 DEF WalkEnd
  <2>3. cmd[p].op = "get_all"
    BY <2>1 DEF PlacesOK
  <2> HIDE <1>1
  <2>4. TypeOK'
    BY <2>1 DEF TypeOK
  <2>5. PlacesOK'
    BY <2>1, <2>3 DEF TypeOK, PlacesOK
  <2>6. ArgsOK'
    BY <2>1 DEF ArgsOK
  <2>7. LengthsOK'
    BY <2>1 DEF TypeOK, LengthsOK
  <2>8. ListingsOK'
    BY <2>1, <2>3 DEF TypeOK, ListingsOK
  <2>9. BuffersOK'
    BY <2>1, <2>3 DEF TypeOK, BuffersOK
  <2>10. QuietOK'
    <3>1. ASSUME quiet[p], lkind[p] = "prog" PROVE got[p] = registered["prog"]
      <4>1. /\ in_max[p] = Cardinality(registered["prog"])
            /\ got[p] \subseteq registered["prog"]
            /\ registered["prog"] \subseteq got[p] \cup todo[p]
        BY <2>1, <3>1 DEF QuietOK
      <4>2. IsFiniteSet(registered["prog"]) /\ IsFiniteSet(got[p])
        BY DEF LengthsOK, ListingsOK, Kinds
      <4>3. Cardinality(registered["prog"]) \in Nat /\ Cardinality(got[p]) \in Nat
        BY <4>2, FS_CardinalityType
      <4>4. CASE todo[p] = {}
        BY <4>1, <4>4
      <4>5. CASE Cardinality(got[p]) >= in_max[p]
        <5>1. Cardinality(got[p]) <= Cardinality(registered["prog"])
          BY <4>1, <4>2, FS_Subset
        <5>2. Cardinality(registered["prog"]) = Cardinality(got[p])
          BY <4>1, <4>3, <4>5, <5>1
        <5> QED
          BY <4>1, <4>2, <5>2, FS_Subset
      <4> QED
        BY <2>2, <4>4, <4>5
    <3>2. /\ pc'[p] \in {"copy_out", "returned"}
          /\ UNCHANGED <<cmd, arg, in_max, todo, got, lkind, quiet, answer, write_lock,
                         registered>>
          /\ \A q \in Procs : q # p => pc'[q] = pc[q] /\ ret'[q] = ret[q]
      BY <2>1 DEF TypeOK
    <3> QED
      BY <2>3, <3>1, <3>2 DEF QuietOK
  <2> QED
    BY <2>4, <2>5, <2>6, <2>7, <2>8, <2>9, <2>10
<1>2. CASE CopyOut(p)
  <2>1. PICK e \in {"0", "EFAULT"} :
           /\ pc[p] = "copy_out" /\ UNCHANGED <<kernelVars, callVars, walkVars, answer, quiet>>
           /\ pc' = [pc EXCEPT ![p] = "returned"]
           /\ ret' = [ret EXCEPT ![p] = e]
           /\ kbuf' = [kbuf EXCEPT ![p] = cmd[p].op = "thread_stats"]
    BY <1>2 DEF CopyOut, Return
  <2> HIDE <1>2
  <2>2. TypeOK'
    <3>1. kbuf' \in [Procs -> BOOLEAN]
      BY <2>1 DEF TypeOK
    <3> QED
      BY <2>1, <3>1 DEF TypeOK
  <2>3. PlacesOK'
    BY <2>1 DEF TypeOK, PlacesOK
  <2>4. ArgsOK'
    BY <2>1 DEF ArgsOK
  <2>5. LengthsOK'
    BY <2>1 DEF TypeOK, LengthsOK
  <2>6. ListingsOK'
    BY <2>1 DEF TypeOK, ListingsOK
  <2>7. BuffersOK'
    <3>1. /\ kbuf'[p] => cmd[p].op = "thread_stats"
          /\ \A q \in Procs : q # p => kbuf'[q] = kbuf[q] /\ pc'[q] = pc[q]
          /\ pc'[p] = "returned" /\ cmd' = cmd /\ got' = got
      BY <2>1 DEF TypeOK
    <3> QED
      BY <3>1 DEF BuffersOK
  <2>8. QuietOK'
    <3>1. lkind[p] = "prog" => cmd[p].op \in {"get_number", "get_all"}
      BY NullAssumption DEF PlacesOK, Kinds
    <3>2. cmd[p].op # "get_number"
      BY <2>1 DEF PlacesOK
    <3> QED
      BY <2>1, <3>1, <3>2 DEF TypeOK, QuietOK
  <2> QED
    BY <2>2, <2>3, <2>4, <2>5, <2>6, <2>7, <2>8
<1> QED
  BY <1>1, <1>2

\* The invariant is inductive.
LEMMA DeviceStep == DeviceInv /\ [Next]_vars => DeviceInv'
<1>1. ASSUME DeviceInv, UNCHANGED vars PROVE DeviceInv'
  <2> USE <1>1 DEF DeviceInv, vars, kernelVars, callVars, walkVars
  <2>1. TypeOK' /\ PlacesOK' /\ ArgsOK' /\ LengthsOK'
    BY DEF TypeOK, PlacesOK, ArgsOK, LengthsOK
  <2>2. ListingsOK' /\ BuffersOK' /\ QuietOK'
    BY DEF ListingsOK, BuffersOK, QuietOK
  <2> QED
    BY <2>1, <2>2
<1>2. ASSUME DeviceInv, NEW p \in Procs, throttling_ioctl(p) PROVE DeviceInv'
  <2>1. CASE get_all_syscalls(p) \/ get_all_uids(p) \/ get_all_progs(p)
    BY <1>2, <2>1, GetAllKeeps DEF get_all_syscalls, get_all_uids, get_all_progs, Kinds
  <2> QED
    BY <1>2, <2>1, ReturningKeeps, RegistrationKeeps, AnswersKeep, WalkKeeps,
       ListingEndKeeps DEF throttling_ioctl
<1> QED
  BY <1>1, <1>2, UserKeeps DEF Next

\* It holds when the module has just been loaded.
LEMMA DeviceInit == Init => DeviceInv
<1> SUFFICES ASSUME Init PROVE DeviceInv
  OBVIOUS
<1> USE NumbersAssumption, ProcsAssumption, FS_EmptySet DEF Init, Cmd
<1>1. TypeOK
  <2>1. Cmd("unknown", NULL) \in Commands
    BY DEF Commands
  <2> QED
    BY <2>1 DEF TypeOK
<1>2. PlacesOK /\ ArgsOK
  BY DEF PlacesOK, ArgsOK
<1>3. LengthsOK /\ ListingsOK
  BY DEF LengthsOK, ListingsOK
<1>4. BuffersOK /\ QuietOK
  BY DEF BuffersOK, QuietOK
<1> QED
  BY <1>1, <1>2, <1>3, <1>4 DEF DeviceInv

-----------------------------------------------------------------------------
\* The type invariant of the device: whatever the callers pass, only keys of its kind
\* get into a registry, only positive limits are set, and no length goes below zero.
THEOREM DeviceTypes == Spec => []TypeOK
<1>1. DeviceInv => TypeOK
  BY DEF DeviceInv
<1> QED
  BY <1>1, DeviceInit, DeviceStep, PTL DEF Spec

\* A listing never writes more keys than the array of the caller holds, also when
\* keys are registered after the call that gave the array its size.
THEOREM ListingsFit == Spec => []ListingFitsTheArray
<1>1. DeviceInv => ListingFitsTheArray
  BY DEF DeviceInv, ListingsOK, ListingFitsTheArray
<1> QED
  BY <1>1, DeviceInit, DeviceStep, PTL DEF Spec

\* When no registry changes from the first call of a listing of the program names to
\* its end, the user is shown all of them.
THEOREM QuietListings == Spec => []QuietListingIsComplete
<1>1. DeviceInv => QuietListingIsComplete
  <2> SUFFICES ASSUME DeviceInv, NEW p \in Procs, pc[p] = "returned", lkind[p] = "prog",
                      quiet[p], ret[p] = "0", ~ Continues(p)
               PROVE  got[p] = registered["prog"]
    BY DEF QuietListingIsComplete
  <2> USE DEF DeviceInv
  <2>1. cmd[p].op \in {"get_number", "get_all"} /\ lkind[p] # NULL
    BY NullAssumption DEF PlacesOK, Kinds
  <2>2. CASE cmd[p].op = "get_all"
    BY <2>2 DEF QuietOK
  <2>3. CASE cmd[p].op = "get_number"
    <3>1. got[p] = {}
      BY <2>3 DEF ListingsOK
    <3>2. answer[p] = 0 /\ answer[p] = Cardinality(registered["prog"])
      BY <2>1, <2>3 DEF Continues, QuietOK
    <3>3. registered["prog"] = {}
      BY <3>2, FS_EmptySet DEF LengthsOK, Kinds
    <3> QED
      BY <3>1, <3>3
  <2> QED
    BY <2>1, <2>2, <2>3
<1> QED
  BY <1>1, DeviceInit, DeviceStep, PTL DEF Spec

\* A call that returns has freed its kernel buffer, but for the two leaks that the
\* property names.
THEOREM BuffersFreed == Spec => []BuffersAreFreed
<1>1. DeviceInv => BuffersAreFreed
  BY DEF DeviceInv, BuffersOK, BuffersAreFreed
<1> QED
  BY <1>1, DeviceInit, DeviceStep, PTL DEF Spec

\* What OnlyRootChanges says of one step.
RootChanges ==
    <<registered, len, is_monitor_active, max_syscalls_per_sec>>' #
            <<registered, len, is_monitor_active, max_syscalls_per_sec>>
         => \E p \in Root : pc'[p] # pc[p]

\* The step that counts a key comes after the privilege check, but the process that
\* takes it passed the check.
LEMMA RootStep == DeviceInv /\ [Next]_vars => [RootChanges]_vars
<1> SUFFICES ASSUME DeviceInv, NEW p \in Procs, User(p) \/ throttling_ioctl(p)
             PROVE  RootChanges
  BY DEF Next
<1> DEFINE Same == UNCHANGED <<registered, len, is_monitor_active, max_syscalls_per_sec>>
<1> USE DEF kernelVars
<1>1. CASE User(p)
  <2>1. Same
    BY <1>1 DEF User, ChangeItems, QueryItems, Request, ListSyscalls, ListUids, ListProgs,
                ListNumber, ListAll, ToMenu
  <2> QED
    BY <2>1 DEF RootChanges
<1>2. CASE Denied(p) \/ Fails(p) \/ Invalid(p) \/ Check(p) \/ GetNumber(p)
           \/ ThreadStats(p) \/ SyscallStats(p) \/ Walk(p) \/ WalkEnd(p) \/ CopyOut(p)
           \/ get_all_syscalls(p) \/ get_all_uids(p) \/ get_all_progs(p)
  <2>1. Same
    BY <1>2 DEF Denied, Fails, Invalid, Check, GetNumber, ThreadStats, SyscallStats, Walk,
                WalkEnd, CopyOut, get_all_syscalls, get_all_uids, get_all_progs, GetAll
  <2> QED
    BY <2>1 DEF RootChanges
<1>3. CASE Register(p) \/ Deregister(p)
  <2>1. p \in Root
    BY <1>3, ServesRoot DEF Register, Deregister
  <2>2. pc[p] = "ioctl" /\ pc'[p] # "ioctl"
    BY <1>3 DEF Register, Deregister, Serves, Return, DeviceInv, TypeOK
  <2> QED
    BY <2>1, <2>2 DEF RootChanges
<1>4. CASE SetMax(p) \/ Switch(p, "monitor_on", 0, 1) \/ Switch(p, "monitor_off", 1, 0)
  <2>1. p \in Root
    BY <1>4, ServesRoot DEF SetMax, Switch
  <2>2. pc[p] = "ioctl" /\ pc'[p] = "returned"
    BY <1>4 DEF SetMax, Switch, Serves, Return, DeviceInv, TypeOK
  <2> QED
    BY <2>1, <2>2 DEF RootChanges
<1>5. CASE Count(p)
  <2>1. p \in Root /\ pc[p] = "count" /\ pc'[p] = "returned"
    BY <1>5 DEF Count, Return, DeviceInv, TypeOK, PlacesOK
  <2> QED
    BY <2>1 DEF RootChanges
<1> QED
  BY <1>1, <1>2, <1>3, <1>4, <1>5 DEF throttling_ioctl

\* Only root processes change what is registered, the lengths, the limit and the
\* monitor, whatever the others call at the same time.
THEOREM RootOnly == Spec => OnlyRootChanges
<1>1. [][RootChanges]_vars => OnlyRootChanges
  BY PTL DEF OnlyRootChanges, RootChanges
<1> QED
  BY <1>1, DeviceInit, DeviceStep, RootStep, PTL DEF Spec
=============================================================================
