-------------------------- MODULE IdentityRegistry --------------------------
(***************************************************************************)
(* The registered user ids and program names: two RCU hash tables with     *)
(* their lengths, changed under write_lock by register_user_id,            *)
(* deregister_user_id, register_prog_name and deregister_prog_name, read   *)
(* without it by check_uid and check_progname (which decide in the wrapper *)
(* whether a thread is throttled) and by the listings get_all_uids and     *)
(* get_all_progs.                                                          *)
(*                                                                         *)
(* A key is a user id or a program name; program names are compared after  *)
(* the truncation every entry point applies, so a key stands for a name of *)
(* at most TASK_COMM_LEN - 1 characters.  One step is one access to state  *)
(* that the other side reads without the lock.                             *)
(***************************************************************************)
EXTENDS Integers, FiniteSets, Sequences, RcuHash

CONSTANTS
    Uids,       \* user ids
    Progs,      \* program names
    HashSize,   \* buckets of each table
    BucketOf,   \* the bucket of each key
    Writers,    \* root processes that may be inside the ioctl handler
    Readers,    \* threads in the wrapper, or processes that ask for a listing
    ListMax     \* the lengths a listing may ask for

Keys == Uids \cup Progs
Buckets == 1 .. HashSize
Kinds == {"uid", "prog"}

ASSUME KeysAssumption == Uids \cap Progs = {} /\ NULL \notin Keys
ASSUME BucketsAssumption == HashSize \in Nat \ {0} /\ BucketOf \in [Keys -> Buckets]
ASSUME WritersAssumption == NULL \notin Writers
ASSUME ListMaxAssumption == ListMax \subseteq Nat

VARIABLES
    hash,                 \* uid_hash and prog_hash
    len,                  \* uids_len and prog_name_len
    key,                  \* the uid or name in each cell
    allocated,            \* the cells between kmalloc and kfree
    write_lock,           \* who holds the lock
    wpc, wkey, wcell, gp, \* each writer: place, key, node, awaited readers
    rpc, rkind, rcell,    \* each reader: place, table, node it stands on
    who,                  \* each checking reader: its user id and program name
    need_mon,             \* each checking reader: is it to be throttled?
    in_max, bucket, list, \* each listing: limit, bucket, what it has copied
    reading,              \* the readers between rcu_read_lock and _unlock
    steady                \* history: the keys registered ever since the reader
                          \* entered the wrapper

tableVars  == <<hash, len>>
memoryVars == <<key, allocated>>
writerVars == <<write_lock, wpc, wkey, wcell, gp>>
checkVars  == <<who, need_mon>>
listVars   == <<in_max, bucket, list>>
readerVars == <<rpc, rkind, rcell, checkVars, listVars, reading>>
vars == <<tableVars, memoryVars, writerVars, readerVars, steady>>

KindOf(k) == IF k \in Uids THEN "uid" ELSE "prog"
WriterPCs == {"idle", "reg_lock", "reg_exists", "reg_add", "reg_unlock",
              "der_del", "der_unlock", "der_sync"}
ReaderPCs == {"user", "check_uid", "uid_walk", "check_prog", "prog_walk", "decided",
              "list_begin", "list_walk", "listed"}

Init ==
    /\ hash = [k \in Kinds |-> EmptyTable(Buckets)]
    /\ len = [k \in Kinds |-> 0]
    /\ key = [c \in Cells |-> NULL]
    /\ allocated = {}
    /\ write_lock = NULL
    /\ wpc = [w \in Writers |-> "idle"]
    /\ wkey = [w \in Writers |-> NULL]
    /\ wcell = [w \in Writers |-> NULL]
    /\ gp = [w \in Writers |-> {}]
    /\ rpc = [r \in Readers |-> "user"]
    /\ rkind = [r \in Readers |-> "uid"]
    /\ rcell = [r \in Readers |-> NULL]
    /\ who = [r \in Readers |-> [uid |-> NULL, prog |-> NULL]]
    /\ need_mon = [r \in Readers |-> 0]
    /\ in_max = [r \in Readers |-> 0]
    /\ bucket = [r \in Readers |-> 1]
    /\ list = [r \in Readers |-> <<>>]
    /\ reading = {}
    /\ steady = [r \in Readers |-> {}]

\* The keys that are in their table.
Registered == {key[c] : c \in hash["uid"].linked \cup hash["prog"].linked}

-----------------------------------------------------------------------------
(***************************************************************************)
(* register_user_id and register_prog_name; deregister_user_id and         *)
(* deregister_prog_name.                                                   *)
(***************************************************************************)
WGoto(w, label) == wpc' = [wpc EXCEPT ![w] = label]

WReturn(w) ==
    /\ WGoto(w, "idle")
    /\ wkey' = [wkey EXCEPT ![w] = NULL]
    /\ wcell' = [wcell EXCEPT ![w] = NULL]

Free(c) ==
    /\ allocated' = allocated \ {c}
    /\ key' = [key EXCEPT ![c] = NULL]

\* kmalloc (-ENOMEM changes nothing), and the key is stored.
Alloc(w, k) ==
    /\ wpc[w] = "idle"
    /\ \E c \in Cells \ allocated :
          /\ allocated' = allocated \cup {c}
          /\ key' = [key EXCEPT ![c] = k]
          /\ wcell' = [wcell EXCEPT ![w] = c]
    /\ wkey' = [wkey EXCEPT ![w] = k]
    /\ WGoto(w, "reg_lock")
    /\ UNCHANGED <<tableVars, write_lock, gp, readerVars, steady>>

\* The nodes hash_for_each_possible_rcu finds for a key.
Matching(k) == {c \in hash[KindOf(k)].linked : key[c] = k}

\* Mutant: the key is added without a search for it.
LockUnchecked(w) ==
    /\ wpc[w] = "reg_lock"
    /\ write_lock = NULL
    /\ write_lock' = w
    /\ WGoto(w, "reg_add")
    /\ UNCHANGED <<tableVars, memoryVars, wkey, wcell, gp, readerVars, steady>>

\* spin_lock, then the search for the same key, which no writer can disturb.
Lock(w) ==
    /\ wpc[w] = "reg_lock"
    /\ write_lock = NULL
    /\ write_lock' = w
    /\ WGoto(w, IF Matching(wkey[w]) # {} THEN "reg_exists" ELSE "reg_add")
    /\ UNCHANGED <<tableVars, memoryVars, wkey, wcell, gp, readerVars, steady>>

\* Mutant: -EEXIST without kfree.
ExistsLeaking(w) ==
    /\ wpc[w] = "reg_exists"
    /\ write_lock' = NULL
    /\ WReturn(w)
    /\ UNCHANGED <<tableVars, memoryVars, gp, readerVars, steady>>

\* -EEXIST: unlock and free the node that is not needed.
Exists(w) ==
    /\ wpc[w] = "reg_exists"
    /\ write_lock' = NULL
    /\ Free(wcell[w])
    /\ WReturn(w)
    /\ UNCHANGED <<tableVars, gp, readerVars, steady>>

Add(w) ==
    /\ wpc[w] = "reg_add"
    /\ hash' = [hash EXCEPT ![KindOf(wkey[w])] =
                    HashAdd(@, BucketOf[wkey[w]], wcell[w])]
    /\ WGoto(w, "reg_unlock")
    /\ UNCHANGED <<len, memoryVars, write_lock, wkey, wcell, gp, readerVars, steady>>

Unlock(w) ==
    /\ wpc[w] = "reg_unlock"
    /\ len' = [len EXCEPT ![KindOf(wkey[w])] = @ + 1]
    /\ write_lock' = NULL
    /\ WReturn(w)
    /\ UNCHANGED <<hash, memoryVars, gp, readerVars, steady>>

\* spin_lock and the search; a key that is not there changes nothing (-ENOENT).
DeregisterLock(w, k) ==
    /\ wpc[w] = "idle"
    /\ write_lock = NULL
    /\ \E c \in Matching(k) : wcell' = [wcell EXCEPT ![w] = c]
    /\ wkey' = [wkey EXCEPT ![w] = k]
    /\ write_lock' = w
    /\ WGoto(w, "der_del")
    /\ UNCHANGED <<tableVars, memoryVars, gp, readerVars, steady>>

\* hash_del_rcu; the key is no longer registered for anybody.
Del(w) ==
    /\ wpc[w] = "der_del"
    /\ hash' = [hash EXCEPT ![KindOf(wkey[w])] = HashDel(@, wcell[w])]
    /\ steady' = [r \in Readers |-> steady[r] \ {wkey[w]}]
    /\ WGoto(w, "der_unlock")
    /\ UNCHANGED <<len, memoryVars, write_lock, wkey, wcell, gp, readerVars>>

\* The length goes down, spin_unlock, and synchronize_rcu has to wait for the
\* readers that are inside a read-side section by now.
DeregisterUnlock(w) ==
    /\ wpc[w] = "der_unlock"
    /\ len' = [len EXCEPT ![KindOf(wkey[w])] = @ - 1]
    /\ write_lock' = NULL
    /\ gp' = [gp EXCEPT ![w] = reading]
    /\ WGoto(w, "der_sync")
    /\ UNCHANGED <<hash, memoryVars, wkey, wcell, readerVars, steady>>

\* Mutant: synchronize_rcu is forgotten.
DeregisterFreeAtOnce(w) ==
    /\ wpc[w] = "der_sync"
    /\ gp' = [gp EXCEPT ![w] = {}]
    /\ Free(wcell[w])
    /\ WReturn(w)
    /\ UNCHANGED <<tableVars, write_lock, readerVars, steady>>

DeregisterFree(w) ==
    /\ wpc[w] = "der_sync"
    /\ gp[w] = {}
    /\ Free(wcell[w])
    /\ WReturn(w)
    /\ UNCHANGED <<tableVars, write_lock, gp, readerVars, steady>>

register_user_id(w) ==
    \/ \E u \in Uids : Alloc(w, u)
    \/ wkey[w] \in Uids /\ (Lock(w) \/ Exists(w) \/ Add(w) \/ Unlock(w))

register_prog_name(w) ==
    \/ \E p \in Progs : Alloc(w, p)
    \/ wkey[w] \in Progs /\ (Lock(w) \/ Exists(w) \/ Add(w) \/ Unlock(w))

deregister_user_id(w) ==
    \/ \E u \in Uids : DeregisterLock(w, u)
    \/ wkey[w] \in Uids /\ (Del(w) \/ DeregisterUnlock(w) \/ DeregisterFree(w))

deregister_prog_name(w) ==
    \/ \E p \in Progs : DeregisterLock(w, p)
    \/ wkey[w] \in Progs /\ (Del(w) \/ DeregisterUnlock(w) \/ DeregisterFree(w))

-----------------------------------------------------------------------------
(***************************************************************************)
(* The identity check of throttling_wrapper: check_uid, and check_progname *)
(* when the user id is not registered.                                     *)
(***************************************************************************)
RGoto(r, label) == rpc' = [rpc EXCEPT ![r] = label]

\* A thread with a user id and a program name enters the wrapper.
Enter(r, u, p) ==
    /\ rpc[r] = "user"
    /\ who' = [who EXCEPT ![r] = [uid |-> u, prog |-> p]]
    /\ steady' = [steady EXCEPT ![r] = Registered]
    /\ RGoto(r, "check_uid")
    /\ UNCHANGED <<tableVars, memoryVars, writerVars, rkind, rcell, need_mon,
                   listVars, reading>>

\* rcu_read_lock and the head of the key's bucket.
CheckBegin(r, kind, label) ==
    /\ reading' = reading \cup {r}
    /\ rkind' = [rkind EXCEPT ![r] = kind]
    /\ rcell' = [rcell EXCEPT ![r] = hash[kind].head[BucketOf[who[r][kind]]]]
    /\ RGoto(r, label)
    /\ UNCHANGED <<tableVars, memoryVars, writerVars, checkVars, listVars, steady>>

CheckNext(r) ==
    /\ rcell[r] # NULL
    /\ key[rcell[r]] # who[r][rkind[r]]
    /\ rcell' = [rcell EXCEPT ![r] = hash[rkind[r]].next[rcell[r]]]
    /\ UNCHANGED <<tableVars, memoryVars, writerVars, rpc, rkind, checkVars,
                   listVars, reading, steady>>

\* rcu_read_unlock.
ReadUnlock(r) ==
    /\ reading' = reading \ {r}
    /\ rcell' = [rcell EXCEPT ![r] = NULL]
    /\ gp' = [w \in Writers |-> gp[w] \ {r}]

\* The search is over, with the answer 1 or 0.
CheckEnd(r, after0) ==
    /\ \/ /\ rcell[r] # NULL
          /\ key[rcell[r]] = who[r][rkind[r]]
          /\ need_mon' = [need_mon EXCEPT ![r] = 1]
          /\ RGoto(r, "decided")
       \/ /\ rcell[r] = NULL
          /\ need_mon' = [need_mon EXCEPT ![r] = 0]
          /\ RGoto(r, after0)
    /\ ReadUnlock(r)
    /\ UNCHANGED <<tableVars, memoryVars, write_lock, wpc, wkey, wcell, rkind, who,
                   listVars, steady>>

check_uid(r) ==
    \/ rpc[r] = "check_uid" /\ CheckBegin(r, "uid", "uid_walk")
    \/ rpc[r] = "uid_walk" /\ (CheckNext(r) \/ CheckEnd(r, "check_prog"))

check_progname(r) ==
    \/ rpc[r] = "check_prog" /\ CheckBegin(r, "prog", "prog_walk")
    \/ rpc[r] = "prog_walk" /\ (CheckNext(r) \/ CheckEnd(r, "decided"))

\* The thread goes its way, throttled or not, and comes back to user mode.
Leave(r) ==
    /\ rpc[r] = "decided"
    /\ who' = [who EXCEPT ![r] = [uid |-> NULL, prog |-> NULL]]
    /\ need_mon' = [need_mon EXCEPT ![r] = 0]
    /\ rkind' = [rkind EXCEPT ![r] = "uid"]
    /\ steady' = [steady EXCEPT ![r] = {}]
    /\ RGoto(r, "user")
    /\ UNCHANGED <<tableVars, memoryVars, writerVars, rcell, listVars, reading>>

-----------------------------------------------------------------------------
(***************************************************************************)
(* get_all_uids and get_all_progs: hash_for_each goes through every bucket *)
(* and copies at most in_max keys.                                         *)
(***************************************************************************)
\* The buffer is sized by the length of this moment, outside any section.
ListSize(r, kind, max) ==
    /\ rpc[r] = "user"
    /\ rkind' = [rkind EXCEPT ![r] = kind]
    /\ in_max' = [in_max EXCEPT ![r] = IF len[kind] < max THEN len[kind] ELSE max]
    /\ RGoto(r, "list_begin")
    /\ UNCHANGED <<tableVars, memoryVars, writerVars, rcell, checkVars, bucket, list,
                   reading, steady>>

ListBegin(r) ==
    /\ rpc[r] = "list_begin"
    /\ reading' = reading \cup {r}
    /\ rcell' = [rcell EXCEPT ![r] = hash[rkind[r]].head[1]]
    /\ RGoto(r, "list_walk")
    /\ UNCHANGED <<tableVars, memoryVars, writerVars, rkind, checkVars, listVars,
                   steady>>

\* Mutant: in_max is not looked at.
ListCopyUnbounded(r) ==
    /\ rpc[r] = "list_walk"
    /\ rcell[r] # NULL
    /\ list' = [list EXCEPT ![r] = Append(@, key[rcell[r]])]
    /\ rcell' = [rcell EXCEPT ![r] = hash[rkind[r]].next[rcell[r]]]
    /\ UNCHANGED <<tableVars, memoryVars, writerVars, rpc, rkind, checkVars, in_max,
                   bucket, reading, steady>>

ListCopy(r) ==
    /\ rpc[r] = "list_walk"
    /\ rcell[r] # NULL
    /\ Len(list[r]) < in_max[r]
    /\ list' = [list EXCEPT ![r] = Append(@, key[rcell[r]])]
    /\ rcell' = [rcell EXCEPT ![r] = hash[rkind[r]].next[rcell[r]]]
    /\ UNCHANGED <<tableVars, memoryVars, writerVars, rpc, rkind, checkVars, in_max,
                   bucket, reading, steady>>

ListNextBucket(r) ==
    /\ rpc[r] = "list_walk"
    /\ rcell[r] = NULL
    /\ bucket[r] < HashSize
    /\ bucket' = [bucket EXCEPT ![r] = @ + 1]
    /\ rcell' = [rcell EXCEPT ![r] = hash[rkind[r]].head[bucket[r] + 1]]
    /\ UNCHANGED <<tableVars, memoryVars, writerVars, rpc, rkind, checkVars, in_max,
                   list, reading, steady>>

\* The buffer is full, or there are no more buckets.
ListEnd(r) ==
    /\ rpc[r] = "list_walk"
    /\ \/ rcell[r] # NULL /\ Len(list[r]) >= in_max[r]
       \/ rcell[r] = NULL /\ bucket[r] = HashSize
    /\ ReadUnlock(r)
    /\ RGoto(r, "listed")
    /\ UNCHANGED <<tableVars, memoryVars, write_lock, wpc, wkey, wcell, rkind,
                   checkVars, listVars, steady>>

\* The list is handed over to the caller.
ListReturn(r) ==
    /\ rpc[r] = "listed"
    /\ rkind' = [rkind EXCEPT ![r] = "uid"]
    /\ in_max' = [in_max EXCEPT ![r] = 0]
    /\ bucket' = [bucket EXCEPT ![r] = 1]
    /\ list' = [list EXCEPT ![r] = <<>>]
    /\ RGoto(r, "user")
    /\ UNCHANGED <<tableVars, memoryVars, writerVars, rcell, checkVars, reading,
                   steady>>

Listing(r, kind) ==
    \/ \E max \in ListMax : ListSize(r, kind, max)
    \/ /\ rkind[r] = kind
       /\ \/ ListBegin(r) \/ ListCopy(r) \/ ListNextBucket(r) \/ ListEnd(r)
          \/ ListReturn(r)

get_all_uids(r) == Listing(r, "uid")
get_all_progs(r) == Listing(r, "prog")

-----------------------------------------------------------------------------
Next ==
    \/ \E w \in Writers :
          \/ register_user_id(w) \/ register_prog_name(w)
          \/ deregister_user_id(w) \/ deregister_prog_name(w)
    \/ \E r \in Readers :
          \/ \E u \in Uids, p \in Progs : Enter(r, u, p)
          \/ check_uid(r) \/ check_progname(r) \/ Leave(r)
          \/ get_all_uids(r) \/ get_all_progs(r)

Spec == Init /\ [][Next]_vars

-----------------------------------------------------------------------------
(***************************************************************************)
(* Properties                                                              *)
(***************************************************************************)
\* Neither the identity check of the wrapper nor a listing ever stands on memory
\* that has been freed by a deregistration.
NoUseAfterFree == \A r \in Readers : rcell[r] # NULL => rcell[r] \in allocated

\* Whenever write_lock is free each length is the number of nodes of its table and
\* no key is there twice, so that one deregistration is enough to remove it.
LengthsExact ==
    write_lock = NULL =>
        /\ \A kind \in Kinds : len[kind] = Cardinality(hash[kind].linked)
        /\ \A k \in Keys : Cardinality(Matching(k)) <= 1

\* A thread whose user id or program name stays registered from its entry into the
\* wrapper until the checks are done is throttled, whatever else is registered and
\* deregistered in the meantime: the unlocked walks never miss it.
NoMissedIdentity ==
    \A r \in Readers : rpc[r] = "decided" /\ need_mon[r] = 0 =>
        who[r].uid \notin steady[r] /\ who[r].prog \notin steady[r]

\* A listing fits the buffer that was sized before the walk began, and names every
\* key once, even if keys are removed and registered again behind the walker.
ListingFitsWithoutDuplicates ==
    \A r \in Readers :
        /\ Len(list[r]) <= in_max[r]
        /\ \A i, j \in 1 .. Len(list[r]) : i # j => list[r][i] # list[r][j]

\* Every allocated node is in a table or in the hands of exactly one writer.
NoLeak ==
    /\ \A c \in allocated : \/ \E kind \in Kinds : c \in hash[kind].linked
                            \/ \E w \in Writers : wcell[w] = c
    /\ \A kind \in Kinds : hash[kind].linked \subseteq allocated
    /\ \A v, w \in Writers : v # w /\ wcell[v] # NULL => wcell[v] # wcell[w]
=============================================================================
