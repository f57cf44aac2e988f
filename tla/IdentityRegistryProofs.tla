----------------------- MODULE IdentityRegistryProofs -----------------------
(***************************************************************************)
(* Theorems about the registered user ids and program names, for every set *)
(* of keys, buckets, root processes and threads.                           *)
(***************************************************************************)
EXTENDS IdentityRegistry, FiniteSetTheorems, TLAPS

-----------------------------------------------------------------------------
(***************************************************************************)
(* The invariant.                                                          *)
(***************************************************************************)
Table == [head : [Buckets -> Cells \cup {NULL}],
          next : [Cells -> Cells \cup {NULL}],
          linked : SUBSET Cells]

TypesOK ==
    /\ hash \in [Kinds -> Table]
    /\ len \in [Kinds -> Nat]
    /\ key \in [Cells -> Keys \cup {NULL}]
    /\ allocated \subseteq Cells
    /\ write_lock \in Writers \cup {NULL}
    /\ wpc \in [Writers -> WriterPCs]
    /\ wkey \in [Writers -> Keys \cup {NULL}]
    /\ wcell \in [Writers -> Cells \cup {NULL}]
    /\ gp \in [Writers -> SUBSET Readers]
    /\ rpc \in [Readers -> ReaderPCs]
    /\ rkind \in [Readers -> Kinds]
    /\ rcell \in [Readers -> Cells \cup {NULL}]
    /\ who \in [Readers -> [uid : Uids \cup {NULL}, prog : Progs \cup {NULL}]]
    /\ need_mon \in [Readers -> {0, 1}]
    /\ in_max \in [Readers -> Nat]
    /\ bucket \in [Readers -> Buckets]
    /\ list \in [Readers -> Seq(Keys)]
    /\ reading \subseteq Readers
    /\ steady \in [Readers -> SUBSET Keys]

Walks == {"uid_walk", "prog_walk", "list_walk"}
Private == {"reg_lock", "reg_exists", "reg_add"}
Removed == {"der_unlock", "der_sync"}
Locked == {"reg_exists", "reg_add", "reg_unlock", "der_del", "der_unlock"}

\* The locals of a writer or a reader are set while it is under way.
LocalsOK ==
    /\ \A w \in Writers : IF wpc[w] = "idle" THEN wcell[w] = NULL
                          ELSE wkey[w] \in Keys /\ wcell[w] \in Cells
    /\ \A r \in Readers :
          /\ rpc[r] \in {"check_uid", "uid_walk", "check_prog", "prog_walk", "decided"}
                => who[r].uid \in Uids /\ who[r].prog \in Progs
          /\ rpc[r] = "uid_walk" => rkind[r] = "uid"
          /\ rpc[r] = "prog_walk" => rkind[r] = "prog"
          /\ rpc[r] \notin {"list_walk", "listed"} => list[r] = <<>> /\ bucket[r] = 1

Linked(kind) == hash[kind].linked
Succ(kind) == hash[kind].next
InTable(c) == \E kind \in Kinds : c \in Linked(kind)

\* The lock is held by whoever is between lock and unlock; a node is in a table or a
\* writer's own, and then no other writer's.
OwnersOK ==
    /\ \A w \in Writers : write_lock = w <=> wpc[w] \in Locked
    /\ \A kind \in Kinds : Linked(kind) \subseteq allocated
    /\ \A w \in Writers : wpc[w] \in Private \cup Removed =>
                             wcell[w] \in allocated /\ ~ InTable(wcell[w])
    /\ \A w \in Writers : wpc[w] \in {"reg_unlock", "der_del"} =>
                             wcell[w] \in Linked(KindOf(wkey[w]))
    /\ \A v, w \in Writers :
          v # w /\ wpc[v] \in Private \cup Removed /\ wpc[w] \in Private \cup Removed
             => wcell[v] # wcell[w]
    /\ \A c \in allocated : InTable(c) \/ \E w \in Writers : wcell[w] = c

\* A node carries the key it was made for; no key is in a table twice.
KeysOK ==
    /\ \A w \in Writers : wpc[w] # "idle" => key[wcell[w]] = wkey[w]
    /\ \A kind \in Kinds : \A c \in Linked(kind) : key[c] \in Keys /\ KindOf(key[c]) = kind
    /\ \A kind \in Kinds : \A c, d \in Linked(kind) : key[c] = key[d] => c = d
    /\ \A w \in Writers : wpc[w] = "reg_add" => Matching(wkey[w]) = {}

\* The buckets of a table are lists: no node has two predecessors.
IsLists(h) ==
    /\ \A b \in Buckets : h.head[b] \in h.linked \cup {NULL}
    /\ \A c \in h.linked : h.next[c] \in h.linked \cup {NULL}
    /\ \A a, b \in Buckets : h.head[a] = h.head[b] /\ h.head[a] # NULL => a = b
    /\ \A c, d \in h.linked : h.next[c] = h.next[d] /\ h.next[c] # NULL => c = d
    /\ \A b \in Buckets, c \in h.linked : h.head[b] # NULL => h.head[b] # h.next[c]

ListsOK ==
    /\ \A kind \in Kinds : IsLists(hash[kind])
    /\ \A w \in Writers : wpc[w] = "der_unlock" =>
          Succ(KindOf(wkey[w]))[wcell[w]] \in Linked(KindOf(wkey[w])) \cup {NULL, wcell[w]}

\* Node c of a table cannot be freed before reader r leaves its section.
Protects(r, kind, c) ==
    \/ c \in Linked(kind)
    \/ \E w \in Writers : /\ wcell[w] = c
                          /\ KindOf(wkey[w]) = kind
                          /\ \/ wpc[w] = "der_unlock"
                             \/ wpc[w] = "der_sync" /\ r \in gp[w]

\* Every reader stands on a node it protects, and protection is handed on along the
\* next pointers, also those of removed nodes.
ReadersOK ==
    /\ \A r \in Readers : r \in reading <=> rpc[r] \in Walks
    /\ \A w \in Writers : gp[w] \subseteq reading
    /\ \A r \in Readers : rcell[r] # NULL =>
          r \in reading /\ Protects(r, rkind[r], rcell[r])
    /\ \A r \in Readers : \A kind \in Kinds : \A c \in Cells :
          Protects(r, kind, c) /\ Succ(kind)[c] # NULL => Protects(r, kind, Succ(kind)[c])

\* A length is behind by what the holder of the lock has yet to count.
LengthsOK ==
    /\ \A kind \in Kinds : IsFiniteSet(Linked(kind))
    /\ \A kind \in Kinds :
          \/ len[kind] = Cardinality(Linked(kind))
          \/ \E w \in Writers :
                wpc[w] \in {"reg_unlock", "der_unlock"} /\ KindOf(wkey[w]) = kind
    /\ \A w \in Writers : wpc[w] = "reg_unlock" =>
          Cardinality(Linked(KindOf(wkey[w]))) = len[KindOf(wkey[w])] + 1
    /\ \A w \in Writers : wpc[w] = "der_unlock" =>
          Cardinality(Linked(KindOf(wkey[w]))) = len[KindOf(wkey[w])] - 1

NodesInv == TypesOK /\ LocalsOK /\ OwnersOK /\ KeysOK /\ ListsOK /\ LengthsOK
SafeInv == NodesInv /\ ReadersOK

-----------------------------------------------------------------------------
(***************************************************************************)
(* The table.                                                              *)
(***************************************************************************)
\* hash_add_rcu keeps the buckets lists.
LEMMA AddLists ==
    ASSUME NEW h \in Table, IsLists(h), NEW b \in Buckets, NEW c \in Cells, c \notin h.linked
    PROVE  /\ HashAdd(h, b, c) \in Table
           /\ IsLists(HashAdd(h, b, c))
           /\ HashAdd(h, b, c).linked = h.linked \cup {c}
           /\ HashAdd(h, b, c).head = [h.head EXCEPT ![b] = c]
           /\ HashAdd(h, b, c).next = [h.next EXCEPT ![c] = h.head[b]]
<1> USE NullAssumption DEF Table
<1> DEFINE g == HashAdd(h, b, c)
<1>1. /\ g.linked = h.linked \cup {c}
      /\ g.head = [h.head EXCEPT ![b] = c]
      /\ g.next = [h.next EXCEPT ![c] = h.head[b]]
      /\ g = [head |-> g.head, next |-> g.next, linked |-> g.linked]
  BY DEF HashAdd
<1> HIDE DEF g
<1>2. g \in Table
  BY <1>1
<1>3. IsLists(g)
  BY <1>1 DEF IsLists
<1> QED
  BY <1>1, <1>2, <1>3 DEF g

\* hash_del_rcu keeps the buckets lists; the removed node leads into its old list.
LEMMA DelLists ==
    ASSUME NEW h \in Table, IsLists(h), NEW c \in h.linked
    PROVE  /\ HashDel(h, c) \in Table
           /\ IsLists(HashDel(h, c))
           /\ HashDel(h, c).linked = h.linked \ {c}
           /\ \A b \in Buckets : HashDel(h, c).head[b] =
                 IF h.head[b] = c THEN h.next[c] ELSE h.head[b]
           /\ \A d \in Cells : HashDel(h, c).next[d] =
                 IF d \in h.linked \ {c} /\ h.next[d] = c THEN h.next[c] ELSE h.next[d]
           /\ h.next[c] \in (h.linked \ {c}) \cup {NULL, c}
<1> USE NullAssumption DEF Table
<1> DEFINE g == HashDel(h, c)
<1>1. /\ g.linked = h.linked \ {c}
      /\ g.head = [b \in Buckets |-> IF h.head[b] = c THEN h.next[c] ELSE h.head[b]]
      /\ g.next = [d \in Cells |-> IF d \in h.linked \ {c} /\ h.next[d] = c
                                   THEN h.next[c] ELSE h.next[d]]
      /\ g = [head |-> g.head, next |-> g.next, linked |-> g.linked]
  BY DEF HashDel
<1> HIDE DEF g
<1>2. g \in Table
  BY <1>1
<1>3. IsLists(g)
  <2>1. \A b \in Buckets : g.head[b] \in g.linked \cup {NULL}
    BY <1>1 DEF IsLists
  <2>2. \A d \in g.linked : g.next[d] \in g.linked \cup {NULL}
    BY <1>1 DEF IsLists
  <2>3. \A a, b \in Buckets : g.head[a] = g.head[b] /\ g.head[a] # NULL => a = b
    BY <1>1 DEF IsLists
  <2>4. \A d, e \in g.linked : g.next[d] = g.next[e] /\ g.next[d] # NULL => d = e
    BY <1>1 DEF IsLists
  <2>5. \A b \in Buckets, d \in g.linked : g.head[b] # NULL => g.head[b] # g.next[d]
    BY <1>1 DEF IsLists
  <2> QED
    BY <2>1, <2>2, <2>3, <2>4, <2>5 DEF IsLists
<1>4. h.next[c] \in (h.linked \ {c}) \cup {NULL, c}
  BY DEF IsLists
<1> QED
  BY <1>1, <1>2, <1>3, <1>4 DEF g

\* The kind of a key.
LEMMA KindOfType == \A k : KindOf(k) \in Kinds
  BY DEF KindOf, Kinds

\* At most one writer is between lock and unlock.
LEMMA OneHolder ==
    ASSUME OwnersOK, NEW v \in Writers, NEW w \in Writers,
           wpc[v] \in Locked, wpc[w] \in Locked
    PROVE  v = w
  BY DEF OwnersOK

\* A node that is not in a table is no other writer's.
LEMMA OwnNode ==
    ASSUME NodesInv, NEW v \in Writers, NEW w \in Writers, v # w,
           wpc[w] \in Private \cup Removed
    PROVE  wcell[v] # wcell[w]
<1>1. wcell[w] \in Cells /\ ~ InTable(wcell[w])
  BY DEF NodesInv, LocalsOK, OwnersOK, Private, Removed
<1>2. CASE wpc[v] \in Private \cup Removed
  BY <1>2 DEF NodesInv, OwnersOK
<1>3. CASE wpc[v] \in {"reg_unlock", "der_del"}
  BY <1>1, <1>3, KindOfType DEF NodesInv, OwnersOK, InTable
<1>4. CASE wpc[v] = "idle"
  BY <1>1, <1>4, NullAssumption DEF NodesInv, LocalsOK
<1> QED
  BY <1>2, <1>3, <1>4 DEF NodesInv, TypesOK, WriterPCs, Private, Removed

\* A step that changes neither the tables nor what the readers protect keeps them.
LEMMA ReadersKept ==
    ASSUME SafeInv,
           UNCHANGED <<hash, rpc, rkind, rcell, reading>>,
           \A w \in Writers : gp'[w] \subseteq reading,
           \A r \in Readers : \A kind \in Kinds : \A c \in Cells :
               Protects(r, kind, c)' <=> Protects(r, kind, c)
    PROVE  ReadersOK'
<1>1. \A r \in Readers : rkind[r] \in Kinds /\ (rcell[r] # NULL => rcell[r] \in Cells)
  BY DEF SafeInv, NodesInv, TypesOK
<1>2. \A kind \in Kinds : \A c \in Cells :
         Succ(kind)[c] # NULL => Succ(kind)[c] \in Cells
  BY DEF SafeInv, NodesInv, TypesOK, Succ, Table
<1>3. \A kind : Succ(kind)' = Succ(kind)
  BY DEF Succ
<1> QED
  BY <1>1, <1>2, <1>3 DEF SafeInv, ReadersOK

-----------------------------------------------------------------------------
(***************************************************************************)
(* The steps, whichever of the two tables they are about.                  *)
(***************************************************************************)
WriterStep(w) ==
    \/ \E k \in Keys : Alloc(w, k) \/ DeregisterLock(w, k)
    \/ Lock(w) \/ Exists(w) \/ Add(w) \/ Unlock(w)
    \/ Del(w) \/ DeregisterUnlock(w) \/ DeregisterFree(w)

Begin(r) ==
    \/ rpc[r] = "check_uid" /\ CheckBegin(r, "uid", "uid_walk")
    \/ rpc[r] = "check_prog" /\ CheckBegin(r, "prog", "prog_walk")

Found(r) ==
    \/ rpc[r] = "uid_walk" /\ CheckEnd(r, "check_prog")
    \/ rpc[r] = "prog_walk" /\ CheckEnd(r, "decided")

ReaderStep(r) ==
    \/ \E u \in Uids, p \in Progs : Enter(r, u, p)
    \/ Begin(r)
    \/ rpc[r] \in {"uid_walk", "prog_walk"} /\ CheckNext(r)
    \/ Found(r)
    \/ Leave(r)
    \/ \E kind \in Kinds, max \in ListMax : ListSize(r, kind, max)
    \/ ListBegin(r) \/ ListCopy(r) \/ ListNextBucket(r) \/ ListEnd(r) \/ ListReturn(r)

\* Every step is one of them.
LEMMA Steps ==
    Next => (\E w \in Writers : WriterStep(w)) \/ (\E r \in Readers : ReaderStep(r))
<1>1. ASSUME NEW w \in Writers, register_user_id(w) \/ register_prog_name(w)
      PROVE  WriterStep(w)
  BY <1>1 DEF register_user_id, register_prog_name, WriterStep, Keys
<1>2. ASSUME NEW w \in Writers, deregister_user_id(w) \/ deregister_prog_name(w)
      PROVE  WriterStep(w)
  BY <1>2 DEF deregister_user_id, deregister_prog_name, WriterStep, Keys
<1>3. ASSUME NEW r \in Readers, check_uid(r) \/ check_progname(r) PROVE ReaderStep(r)
  BY <1>3 DEF check_uid, check_progname, ReaderStep, Begin, Found
<1>4. ASSUME NEW r \in Readers, get_all_uids(r) \/ get_all_progs(r) PROVE ReaderStep(r)
  BY <1>4 DEF get_all_uids, get_all_progs, Listing, ReaderStep, Kinds
<1> QED
  BY <1>1, <1>2, <1>3, <1>4 DEF Next, ReaderStep

\* Every step of a writer keeps the types and the locals.
LEMMA WriterTypes ==
    ASSUME NodesInv, NEW w \in Writers, WriterStep(w)
    PROVE  TypesOK' /\ LocalsOK'
<1> USE NullAssumption, KeysAssumption
<1> USE DEF NodesInv, TypesOK, LocalsOK, WriterPCs, WGoto, WReturn, Free, tableVars,
            memoryVars, readerVars, checkVars, listVars
<1>1. CASE \E k \in Keys : Alloc(w, k)
  BY <1>1 DEF Alloc
<1>2. ASSUME NEW k \in Keys, DeregisterLock(w, k) PROVE TypesOK' /\ LocalsOK'
  <2>1. PICK c \in Cells : wcell' = [wcell EXCEPT ![w] = c]
    BY <1>2, KindOfType DEF DeregisterLock, Matching, Table
  <2> QED
    BY <1>2, <2>1 DEF DeregisterLock
<1>3. CASE Lock(w)
  BY <1>3 DEF Lock
<1>4. CASE Exists(w)
  BY <1>4 DEF Exists
<1>5. CASE Add(w)
  <2>1. KindOf(wkey[w]) \in Kinds /\ BucketOf[wkey[w]] \in Buckets /\ wcell[w] \in Cells
    BY <1>5, KindOfType, BucketsAssumption DEF Add
  <2>2. wcell[w] \notin hash[KindOf(wkey[w])].linked
    BY <1>5, KindOfType DEF Add, OwnersOK, Private, InTable, Linked
  <2>3. HashAdd(hash[KindOf(wkey[w])], BucketOf[wkey[w]], wcell[w]) \in Table
    <3>1. hash[KindOf(wkey[w])] \in Table /\ IsLists(hash[KindOf(wkey[w])])
      BY <2>1 DEF ListsOK
    <3> QED
      BY <2>1, <2>2, <3>1, AddLists
  <2>4. hash' \in [Kinds -> Table]
    BY <1>5, <2>3 DEF Add
  <2> QED
    BY <1>5, <2>4 DEF Add
<1>6. CASE Unlock(w)
  <2>1. KindOf(wkey[w]) \in Kinds
    BY KindOfType
  <2> QED
    BY <1>6, <2>1 DEF Unlock
<1>7. CASE Del(w)
  <2>1. KindOf(wkey[w]) \in Kinds /\ wcell[w] \in hash[KindOf(wkey[w])].linked
    BY <1>7, KindOfType DEF Del, OwnersOK, Linked
  <2>2. HashDel(hash[KindOf(wkey[w])], wcell[w]) \in Table
    BY <2>1, DelLists DEF ListsOK
  <2>3. hash' \in [Kinds -> Table]
    BY <1>7, <2>2 DEF Del
  <2> QED
    BY <1>7, <2>3 DEF Del
<1>8. CASE DeregisterUnlock(w)
  <2>1. KindOf(wkey[w]) \in Kinds /\ len[KindOf(wkey[w])] - 1 \in Nat
    <3>1. KindOf(wkey[w]) \in Kinds
      BY KindOfType
    <3>2. Cardinality(Linked(KindOf(wkey[w]))) \in Nat
      BY <3>1, FS_CardinalityType DEF LengthsOK
    <3> QED
      BY <1>8, <3>1, <3>2 DEF DeregisterUnlock, LengthsOK
  <2> QED
    BY <1>8, <2>1 DEF DeregisterUnlock
<1>9. CASE DeregisterFree(w)
  BY <1>9 DEF DeregisterFree
<1> QED
  BY <1>1, <1>2, <1>3, <1>4, <1>5, <1>6, <1>7, <1>8, <1>9 DEF WriterStep

\* Every step of a reader keeps the types and the locals.
LEMMA ReaderTypes ==
    ASSUME SafeInv, NEW r \in Readers, ReaderStep(r)
    PROVE  TypesOK' /\ LocalsOK'
<1> USE NullAssumption, KeysAssumption, BucketsAssumption, ListMaxAssumption
<1> USE DEF SafeInv, NodesInv, TypesOK, LocalsOK, ReaderPCs, RGoto, ReadUnlock, tableVars,
            memoryVars, writerVars, checkVars, listVars
<1>1. CASE \E u \in Uids, p \in Progs : Enter(r, u, p)
  <2>1. Registered \subseteq Keys
    BY DEF Registered, KeysOK, Linked, Kinds
  <2> QED
    BY <1>1, <2>1 DEF Enter
<1>2. CASE Begin(r)
  <2>1. ASSUME NEW kind \in Kinds, NEW b \in Buckets
        PROVE  hash[kind].head[b] \in Cells \cup {NULL}
    BY DEF Table
  <2>2. "uid" \in Kinds /\ "prog" \in Kinds
    BY DEF Kinds
  <2>3. CASE rpc[r] = "check_uid" /\ CheckBegin(r, "uid", "uid_walk")
    <3>1. BucketOf[who[r]["uid"]] \in Buckets
      BY <2>3 DEF Keys
    <3> QED
      BY <2>1, <2>2, <2>3, <3>1 DEF CheckBegin
  <2>4. CASE rpc[r] = "check_prog" /\ CheckBegin(r, "prog", "prog_walk")
    <3>1. BucketOf[who[r]["prog"]] \in Buckets
      BY <2>4 DEF Keys
    <3> QED
      BY <2>1, <2>2, <2>4, <3>1 DEF CheckBegin
  <2> QED
    BY <1>2, <2>3, <2>4 DEF Begin
<1>3. CASE rpc[r] \in {"uid_walk", "prog_walk"} /\ CheckNext(r)
  BY <1>3 DEF CheckNext, Table
<1>4. CASE Found(r)
  <2>1. /\ UNCHANGED <<hash, len, key, allocated, write_lock, wpc, wkey, wcell, rkind, who,
                      in_max, bucket, list, steady>>
        /\ rcell' = [rcell EXCEPT ![r] = NULL]
        /\ reading' \subseteq reading
        /\ gp' = [v \in Writers |-> gp[v] \ {r}]
    BY <1>4 DEF Found, CheckEnd
  <2>2. \E a \in {0, 1}, p \in {"check_prog", "decided"} :
           need_mon' = [need_mon EXCEPT ![r] = a] /\ rpc' = [rpc EXCEPT ![r] = p]
    BY <1>4 DEF Found, CheckEnd
  <2>3. rpc[r] \in {"uid_walk", "prog_walk"}
    BY <1>4 DEF Found
  <2> HIDE <1>4
  <2> QED
    BY <2>1, <2>2, <2>3
<1>5. CASE Leave(r)
  BY <1>5 DEF Leave, Kinds
<1>6. CASE \E kind \in Kinds, max \in ListMax : ListSize(r, kind, max)
  BY <1>6 DEF ListSize
<1>7. CASE ListBegin(r)
  BY <1>7 DEF ListBegin, Table, Buckets
<1>8. CASE ListCopy(r)
  <2>1. key[rcell[r]] \in Keys
    <3>1. ASSUME NEW v \in Writers, wcell[v] = rcell[r], wpc[v] # "idle"
          PROVE  key[rcell[r]] \in Keys
      BY <3>1 DEF KeysOK
    <3> QED
      BY <1>8, <3>1 DEF ListCopy, ReadersOK, Protects, KeysOK
  <2> QED
    BY <1>8, <2>1 DEF ListCopy, Table
<1>9. CASE ListNextBucket(r)
  <2>1. bucket[r] + 1 \in Buckets
    BY <1>9 DEF ListNextBucket, Buckets
  <2> QED
    BY <1>9, <2>1 DEF ListNextBucket, Table
<1>10. CASE ListEnd(r)
  BY <1>10 DEF ListEnd
<1>11. CASE ListReturn(r)
  BY <1>11 DEF ListReturn, Kinds, Buckets
<1> QED
  BY <1>1, <1>2, <1>3, <1>4, <1>5, <1>6, <1>7, <1>8, <1>9, <1>10, <1>11 DEF ReaderStep

-----------------------------------------------------------------------------
(***************************************************************************)
(* The writers.                                                            *)
(***************************************************************************)
\* The lists and the lengths stay as they are when no table, no length and no writer
\* that is about to count changes.
LEMMA TablesKept ==
    ASSUME NodesInv, NEW w \in Writers, UNCHANGED <<hash, len>>,
           wpc[w] \notin {"reg_unlock", "der_unlock"},
           wpc'[w] \notin {"reg_unlock", "der_unlock"},
           \A v \in Writers : v # w =>
              wpc'[v] = wpc[v] /\ wkey'[v] = wkey[v] /\ wcell'[v] = wcell[v]
    PROVE  ListsOK' /\ LengthsOK'
<1> USE DEF Linked, Succ
<1>1. ListsOK'
  BY DEF NodesInv, ListsOK
<1>2. LengthsOK'
  BY DEF NodesInv, LengthsOK
<1> QED
  BY <1>1, <1>2

\* What the readers protect stays the same unless a node is removed or a grace period
\* begins.
LEMMA ProtectionKept ==
    ASSUME NEW w \in Writers, UNCHANGED <<hash, gp>>,
           wpc[w] # "der_unlock", wpc[w] = "der_sync" => gp[w] = {},
           wpc'[w] \notin Removed,
           \A v \in Writers : v # w =>
              wpc'[v] = wpc[v] /\ wkey'[v] = wkey[v] /\ wcell'[v] = wcell[v]
    PROVE  \A r \in Readers : \A kind \in Kinds : \A x \in Cells :
              Protects(r, kind, x)' <=> Protects(r, kind, x)
<1> SUFFICES ASSUME NEW r \in Readers, NEW kind \in Kinds, NEW x \in Cells
             PROVE  Protects(r, kind, x)' <=> Protects(r, kind, x)
  OBVIOUS
<1> DEFINE Holds(v) == /\ wcell[v] = x /\ KindOf(wkey[v]) = kind
                       /\ \/ wpc[v] = "der_unlock"
                          \/ wpc[v] = "der_sync" /\ r \in gp[v]
<1>1. ~ Holds(w) /\ ~ Holds(w)'
  BY DEF Removed
<1>2. \A v \in Writers : v # w => (Holds(v)' <=> Holds(v))
  OBVIOUS
<1>3. \A v \in Writers : Holds(v)' <=> Holds(v)
  BY <1>1, <1>2
<1>4. Linked(kind)' = Linked(kind)
  BY DEF Linked
<1> QED
  BY <1>3, <1>4 DEF Protects

\* kmalloc.
LEMMA AllocSafe ==
    ASSUME SafeInv, NEW w \in Writers, NEW k \in Keys, Alloc(w, k)
    PROVE  OwnersOK' /\ KeysOK' /\ ListsOK' /\ LengthsOK' /\ ReadersOK'
<1> USE NullAssumption, KeysAssumption, WritersAssumption
<1>1. PICK c \in Cells : /\ c \notin allocated
                         /\ allocated' = allocated \cup {c}
                         /\ key' = [key EXCEPT ![c] = k]
                         /\ wcell' = [wcell EXCEPT ![w] = c]
  BY DEF Alloc
<1>2. /\ wpc[w] = "idle" /\ wpc' = [wpc EXCEPT ![w] = "reg_lock"]
      /\ wkey' = [wkey EXCEPT ![w] = k]
      /\ UNCHANGED <<hash, len, write_lock, gp, rpc, rkind, rcell, reading>>
  BY DEF Alloc, WGoto, tableVars, readerVars
<1> HIDE DEF Alloc
<1> USE DEF SafeInv, NodesInv, TypesOK, LocalsOK, Linked, Succ, InTable
<1>3. ~ InTable(c) /\ \A v \in Writers : wpc[v] # "idle" => wcell[v] # c
  <2>1. \A v \in Writers : wpc[v] # "idle" => wcell[v] \in allocated
    <3>1. ASSUME NEW v \in Writers, wpc[v] # "idle" PROVE wcell[v] \in allocated
      <4>1. CASE wpc[v] \in {"reg_unlock", "der_del"}
        BY <4>1, KindOfType DEF OwnersOK
      <4>2. CASE wpc[v] \in Private \cup Removed
        BY <4>2 DEF OwnersOK
      <4> QED
        BY <3>1, <4>1, <4>2 DEF Private, Removed, WriterPCs
    <3> QED
      BY <3>1
  <2> QED
    BY <1>1, <2>1 DEF OwnersOK
<1>4. OwnersOK'
  <2>1. \A v \in Writers : write_lock' = v <=> wpc'[v] \in Locked
    BY <1>1, <1>2, <1>3 DEF OwnersOK, Locked
  <2>2. \A kind \in Kinds : Linked(kind)' \subseteq allocated'
    BY <1>1, <1>2, <1>3 DEF OwnersOK
  <2>3. \A v \in Writers : wpc'[v] \in Private \cup Removed =>
                             wcell'[v] \in allocated' /\ ~ InTable(wcell[v])'
    BY <1>1, <1>2, <1>3 DEF OwnersOK, Private, Removed
  <2>4. \A v \in Writers : wpc'[v] \in {"reg_unlock", "der_del"} =>
                             wcell'[v] \in Linked(KindOf(wkey[v]))'
    BY <1>1, <1>2, <1>3 DEF OwnersOK
  <2>5. \A u, v \in Writers :
          u # v /\ wpc'[u] \in Private \cup Removed /\ wpc'[v] \in Private \cup Removed
             => wcell'[u] # wcell'[v]
    BY <1>1, <1>2, <1>3 DEF OwnersOK, Private, Removed
  <2>6. \A x \in allocated' : InTable(x)' \/ \E v \in Writers : wcell'[v] = x
    <3>1. ASSUME NEW x \in allocated, NEW v \in Writers, wcell[v] = x
          PROVE  \E u \in Writers : wcell'[u] = x
      <4>1. v # w
        BY <1>2, <3>1
      <4> QED
        BY <1>1, <3>1, <4>1
    <3>2. wcell'[w] = c
      BY <1>1
    <3> QED
      BY <1>1, <1>2, <3>1, <3>2 DEF OwnersOK
  <2> QED
    BY <2>1, <2>2, <2>3, <2>4, <2>5, <2>6 DEF OwnersOK
<1>5. KeysOK'
  BY <1>1, <1>2, <1>3, KindOfType DEF KeysOK, Matching
<1>6. ListsOK' /\ LengthsOK'
  BY <1>1, <1>2, TablesKept
<1>7. ReadersOK'
  <2>1. \A r \in Readers : \A kind \in Kinds : \A x \in Cells :
           Protects(r, kind, x)' <=> Protects(r, kind, x)
    <3>1. /\ UNCHANGED <<hash, gp>> /\ wpc'[w] \notin Removed
          /\ wpc[w] # "der_unlock" /\ (wpc[w] = "der_sync" => gp[w] = {})
          /\ \A v \in Writers : v # w =>
                wpc'[v] = wpc[v] /\ wkey'[v] = wkey[v] /\ wcell'[v] = wcell[v]
      BY <1>1, <1>2 DEF Removed
    <3> QED
      BY <3>1, ProtectionKept
  <2> QED
    BY <1>2, <2>1, ReadersKept DEF ReadersOK
<1> QED
  BY <1>4, <1>5, <1>6, <1>7

\* The lock and the search of a registration.
LEMMA LockSafe ==
    ASSUME SafeInv, NEW w \in Writers, Lock(w)
    PROVE  OwnersOK' /\ KeysOK' /\ ListsOK' /\ LengthsOK' /\ ReadersOK'
<1> USE NullAssumption, KeysAssumption, WritersAssumption
<1>1. /\ wpc[w] = "reg_lock" /\ write_lock = NULL /\ write_lock' = w
      /\ wpc' = [wpc EXCEPT ![w] = IF Matching(wkey[w]) # {} THEN "reg_exists" ELSE "reg_add"]
      /\ UNCHANGED <<hash, len, key, allocated, wkey, wcell, gp, rpc, rkind, rcell, reading>>
  BY DEF Lock, WGoto, tableVars, memoryVars, readerVars
<1> USE DEF SafeInv, NodesInv, TypesOK, LocalsOK, Linked, Succ, InTable
<1>2. OwnersOK'
  <2>1. \A v \in Writers : write_lock' = v <=> wpc'[v] \in Locked
    BY <1>1 DEF OwnersOK, Locked
  <2>2. \A kind \in Kinds : Linked(kind)' \subseteq allocated'
    BY <1>1 DEF OwnersOK
  <2>3. \A v \in Writers : wpc'[v] \in Private \cup Removed =>
                             wcell'[v] \in allocated' /\ ~ InTable(wcell[v])'
    BY <1>1 DEF OwnersOK, Private, Removed
  <2>4. \A v \in Writers : wpc'[v] \in {"reg_unlock", "der_del"} =>
                             wcell'[v] \in Linked(KindOf(wkey[v]))'
    BY <1>1 DEF OwnersOK
  <2>5. \A u, v \in Writers :
          u # v /\ wpc'[u] \in Private \cup Removed /\ wpc'[v] \in Private \cup Removed
             => wcell'[u] # wcell'[v]
    BY <1>1 DEF OwnersOK, Private, Removed
  <2>6. \A x \in allocated' : InTable(x)' \/ \E v \in Writers : wcell'[v] = x
    BY <1>1 DEF OwnersOK
  <2> QED
    BY <2>1, <2>2, <2>3, <2>4, <2>5, <2>6 DEF OwnersOK
<1>3. KeysOK'
  BY <1>1 DEF KeysOK, Matching
<1>4. ListsOK' /\ LengthsOK'
  BY <1>1, TablesKept
<1>5. ReadersOK'
  <2>1. \A r \in Readers : \A kind \in Kinds : \A x \in Cells :
           Protects(r, kind, x)' <=> Protects(r, kind, x)
    <3>1. /\ UNCHANGED <<hash, gp>> /\ wpc'[w] \notin Removed
          /\ wpc[w] # "der_unlock" /\ (wpc[w] = "der_sync" => gp[w] = {})
          /\ \A v \in Writers : v # w =>
                wpc'[v] = wpc[v] /\ wkey'[v] = wkey[v] /\ wcell'[v] = wcell[v]
      BY <1>1 DEF Removed
    <3> QED
      BY <3>1, ProtectionKept
  <2> QED
    BY <1>1, <2>1, ReadersKept DEF ReadersOK
<1> QED
  BY <1>2, <1>3, <1>4, <1>5

\* -EEXIST.
LEMMA ExistsSafe ==
    ASSUME SafeInv, NEW w \in Writers, Exists(w)
    PROVE  OwnersOK' /\ KeysOK' /\ ListsOK' /\ LengthsOK' /\ ReadersOK'
<1> USE NullAssumption, KeysAssumption, WritersAssumption
<1>1. /\ wpc[w] = "reg_exists" /\ write_lock' = NULL
      /\ wpc' = [wpc EXCEPT ![w] = "idle"]
      /\ wkey' = [wkey EXCEPT ![w] = NULL]
      /\ wcell' = [wcell EXCEPT ![w] = NULL]
      /\ allocated' = allocated \ {wcell[w]}
      /\ key' = [key EXCEPT ![wcell[w]] = NULL]
      /\ UNCHANGED <<hash, len, gp, rpc, rkind, rcell, reading>>
  BY DEF Exists, WGoto, WReturn, Free, tableVars, readerVars
<1>2. \A v \in Writers : v # w => wcell[v] # wcell[w]
  BY <1>1, OwnNode DEF SafeInv, Private
<1> USE DEF SafeInv, NodesInv, TypesOK, LocalsOK, Linked, Succ, InTable
<1>3. wcell[w] \in Cells /\ ~ InTable(wcell[w])
  BY <1>1 DEF OwnersOK, Private
<1>4. OwnersOK'
  <2>1. \A v \in Writers : write_lock' = v <=> wpc'[v] \in Locked
    BY <1>1, <1>2, <1>3 DEF OwnersOK, Locked
  <2>2. \A kind \in Kinds : Linked(kind)' \subseteq allocated'
    BY <1>1, <1>2, <1>3 DEF OwnersOK
  <2>3. \A v \in Writers : wpc'[v] \in Private \cup Removed =>
                             wcell'[v] \in allocated' /\ ~ InTable(wcell[v])'
    BY <1>1, <1>2, <1>3 DEF OwnersOK, Private, Removed
  <2>4. \A v \in Writers : wpc'[v] \in {"reg_unlock", "der_del"} =>
                             wcell'[v] \in Linked(KindOf(wkey[v]))'
    BY <1>1, <1>2, <1>3 DEF OwnersOK
  <2>5. \A u, v \in Writers :
          u # v /\ wpc'[u] \in Private \cup Removed /\ wpc'[v] \in Private \cup Removed
             => wcell'[u] # wcell'[v]
    BY <1>1, <1>2, <1>3 DEF OwnersOK, Private, Removed
  <2>6. \A x \in allocated' : InTable(x)' \/ \E v \in Writers : wcell'[v] = x
    BY <1>1, <1>2, <1>3 DEF OwnersOK
  <2> QED
    BY <2>1, <2>2, <2>3, <2>4, <2>5, <2>6 DEF OwnersOK
<1>5. KeysOK'
  BY <1>1, <1>2, <1>3, KindOfType DEF KeysOK, Matching
<1>6. ListsOK' /\ LengthsOK'
  BY <1>1, TablesKept
<1>7. ReadersOK'
  <2>1. \A r \in Readers : \A kind \in Kinds : \A x \in Cells :
           Protects(r, kind, x)' <=> Protects(r, kind, x)
    <3>1. /\ UNCHANGED <<hash, gp>> /\ wpc'[w] \notin Removed
          /\ wpc[w] # "der_unlock" /\ (wpc[w] = "der_sync" => gp[w] = {})
          /\ \A v \in Writers : v # w =>
                wpc'[v] = wpc[v] /\ wkey'[v] = wkey[v] /\ wcell'[v] = wcell[v]
      BY <1>1 DEF Removed
    <3> QED
      BY <3>1, ProtectionKept
  <2> QED
    BY <1>1, <2>1, ReadersKept DEF ReadersOK
<1> QED
  BY <1>4, <1>5, <1>6, <1>7

\* The lock and the search of a deregistration.
LEMMA DeregisterLockSafe ==
    ASSUME SafeInv, NEW w \in Writers, NEW k \in Keys, DeregisterLock(w, k)
    PROVE  OwnersOK' /\ KeysOK' /\ ListsOK' /\ LengthsOK' /\ ReadersOK'
<1> USE NullAssumption, KeysAssumption, WritersAssumption
<1>1. PICK c \in Linked(KindOf(k)) : key[c] = k /\ wcell' = [wcell EXCEPT ![w] = c]
  BY DEF DeregisterLock, Matching, Linked
<1>2. /\ wpc[w] = "idle" /\ write_lock = NULL /\ write_lock' = w
      /\ wpc' = [wpc EXCEPT ![w] = "der_del"]
      /\ wkey' = [wkey EXCEPT ![w] = k]
      /\ UNCHANGED <<hash, len, key, allocated, gp, rpc, rkind, rcell, reading>>
  BY DEF DeregisterLock, WGoto, tableVars, memoryVars, readerVars
<1> HIDE DEF DeregisterLock
<1> USE DEF SafeInv, NodesInv, TypesOK, LocalsOK, Linked, Succ, InTable
<1>3. OwnersOK'
  BY <1>1, <1>2, KindOfType DEF OwnersOK, Private, Removed, Locked
<1>4. KeysOK'
  BY <1>1, <1>2, KindOfType DEF KeysOK, Matching
<1>5. ListsOK' /\ LengthsOK'
  BY <1>1, <1>2, TablesKept
<1>6. ReadersOK'
  <2>1. \A r \in Readers : \A kind \in Kinds : \A x \in Cells :
           Protects(r, kind, x)' <=> Protects(r, kind, x)
    <3>1. /\ UNCHANGED <<hash, gp>> /\ wpc'[w] \notin Removed
          /\ wpc[w] # "der_unlock" /\ (wpc[w] = "der_sync" => gp[w] = {})
          /\ \A v \in Writers : v # w =>
                wpc'[v] = wpc[v] /\ wkey'[v] = wkey[v] /\ wcell'[v] = wcell[v]
      BY <1>1, <1>2 DEF Removed
    <3> QED
      BY <3>1, ProtectionKept
  <2> QED
    BY <1>2, <2>1, ReadersKept DEF ReadersOK
<1> QED
  BY <1>3, <1>4, <1>5, <1>6

\* Adding one node makes a table longer by one.
LEMMA AddOne ==
    ASSUME NEW S, IsFiniteSet(S), NEW x, x \notin S, NEW T, T = S \cup {x}
    PROVE  IsFiniteSet(T) /\ Cardinality(T) = Cardinality(S) + 1
  BY FS_AddElement

\* Removing one node makes a table shorter by one.
LEMMA RemoveOne ==
    ASSUME NEW S, IsFiniteSet(S), NEW x \in S, NEW T, T = S \ {x}
    PROVE  IsFiniteSet(T) /\ Cardinality(T) = Cardinality(S) - 1
  BY FS_RemoveElement

\* hash_add_rcu.
LEMMA AddSafe ==
    ASSUME SafeInv, NEW w \in Writers, Add(w)
    PROVE  OwnersOK' /\ KeysOK' /\ ListsOK' /\ LengthsOK' /\ ReadersOK'
<1> USE NullAssumption, KeysAssumption, WritersAssumption
<1>a. /\ KindOf(wkey[w]) \in Kinds /\ BucketOf[wkey[w]] \in Buckets
      /\ wcell[w] \in Cells /\ wcell[w] \in allocated /\ ~ InTable(wcell[w])
      /\ wkey[w] \in Keys /\ wpc[w] = "reg_add"
  BY KindOfType, BucketsAssumption DEF Add, SafeInv, NodesInv, LocalsOK, OwnersOK, Private
<1>b. PICK c \in Cells, k \in Kinds, b \in Buckets :
            c = wcell[w] /\ k = KindOf(wkey[w]) /\ b = BucketOf[wkey[w]]
  BY <1>a
<1>1. /\ wpc[w] = "reg_add" /\ wpc' = [wpc EXCEPT ![w] = "reg_unlock"]
      /\ UNCHANGED <<len, key, allocated, write_lock, wkey, wcell, gp, rpc, rkind, rcell,
                     reading>>
  BY <1>b DEF Add, WGoto, memoryVars, readerVars
<1>2. /\ k \in Kinds /\ b \in Buckets /\ c \in Cells /\ c \in allocated /\ ~ InTable(c)
      /\ hash[k] \in Table /\ IsLists(hash[k])
  BY <1>a, <1>b DEF SafeInv, NodesInv, TypesOK, ListsOK
<1>3. /\ IsLists(hash'[k])
      /\ Linked(k)' = Linked(k) \cup {c}
      /\ hash'[k].head = [hash[k].head EXCEPT ![b] = c]
      /\ Succ(k)' = [Succ(k) EXCEPT ![c] = hash[k].head[b]]
      /\ \A j \in Kinds : j # k => hash'[j] = hash[j]
  <2>1. hash'[k] = HashAdd(hash[k], b, c) /\ \A j \in Kinds : j # k => hash'[j] = hash[j]
    BY <1>2, <1>b DEF Add, SafeInv, NodesInv, TypesOK
  <2>2. c \notin hash[k].linked
    BY <1>2 DEF InTable, Linked
  <2> QED
    BY <1>2, <2>1, <2>2, AddLists DEF Linked, Succ
<1>4. /\ \A j \in Kinds : j # k => Linked(j)' = Linked(j) /\ Succ(j)' = Succ(j)
      /\ \A j \in Kinds : c \notin Linked(j)
      /\ \A v \in Writers : v # w => wcell[v] # c
      /\ \A v \in Writers : wpc[v] \in Locked => v = w
  BY <1>1, <1>2, <1>3, <1>b, OwnNode DEF Linked, Succ, InTable, SafeInv, NodesInv, OwnersOK,
                                   Private, Locked
<1>l. \A j \in Kinds : hash'[j].linked = hash[j].linked \cup (IF j = k THEN {c} ELSE {})
  BY <1>3, <1>4 DEF Linked
<1> USE DEF SafeInv, NodesInv, TypesOK, LocalsOK
<1>5. OwnersOK'
  <2>1. \A v \in Writers : write_lock' = v <=> wpc'[v] \in Locked
    BY <1>1 DEF OwnersOK, Locked
  <2>2. \A j \in Kinds : Linked(j)' \subseteq allocated'
    BY <1>1, <1>2, <1>l DEF OwnersOK, Linked
  <2>3. \A v \in Writers : wpc'[v] \in Private \cup Removed =>
                             wcell'[v] \in allocated' /\ ~ InTable(wcell[v])'
    BY <1>1, <1>4, <1>b, <1>l DEF OwnersOK, Private, Removed, InTable, Linked
  <2>4. \A v \in Writers : wpc'[v] \in {"reg_unlock", "der_del"} =>
                             wcell'[v] \in Linked(KindOf(wkey[v]))'
    BY <1>1, <1>2, <1>3, <1>4, <1>b DEF Locked
  <2>5. \A u, v \in Writers :
          u # v /\ wpc'[u] \in Private \cup Removed /\ wpc'[v] \in Private \cup Removed
             => wcell'[u] # wcell'[v]
    BY <1>1 DEF OwnersOK, Private, Removed
  <2>6. \A x \in allocated' : InTable(x)' \/ \E v \in Writers : wcell'[v] = x
    <3>1. \A x : InTable(x) => InTable(x)'
      BY <1>l DEF InTable, Linked
    <3> HIDE DEF Linked, InTable
    <3> QED
      BY <1>1, <3>1 DEF OwnersOK
  <2> QED
    BY <2>1, <2>2, <2>3, <2>4, <2>5, <2>6 DEF OwnersOK
<1>6. KeysOK'
  <2>1. key[c] = wkey[w] /\ \A x \in Linked(k) : key[x] # wkey[w]
    BY <1>1, <1>b DEF KeysOK, Matching, Linked
  <2>2. \A j \in Kinds : \A x \in Linked(j)' : key'[x] \in Keys /\ KindOf(key'[x]) = j
    BY <1>1, <1>l, <2>1, <1>a, <1>b DEF KeysOK, Linked
  <2>3. \A j \in Kinds : \A x, y \in Linked(j)' : key'[x] = key'[y] => x = y
    <3>1. ASSUME NEW j \in Kinds, NEW x \in hash'[j].linked, NEW y \in hash'[j].linked,
                 key[x] = key[y]
          PROVE  x = y
      <4>1. CASE x \in Linked(j) /\ y \in Linked(j)
        BY <3>1, <4>1 DEF KeysOK
      <4>2. CASE x \notin Linked(j)
        BY <1>l, <2>1, <3>1, <4>2 DEF Linked
      <4>3. CASE y \notin Linked(j)
        BY <1>l, <2>1, <3>1, <4>3 DEF Linked
      <4> QED
        BY <4>1, <4>2, <4>3
    <3> QED
      BY <1>1, <3>1 DEF Linked
  <2>4. \A v \in Writers : wpc'[v] = "reg_add" => FALSE
    BY <1>1, <1>4 DEF Locked
  <2> QED
    BY <1>1, <2>2, <2>3, <2>4 DEF KeysOK
<1>7. ListsOK'
  <2>1. \A j \in Kinds : IsLists(hash'[j])
    BY <1>3 DEF ListsOK
  <2>2. \A v \in Writers : wpc'[v] # "der_unlock"
    BY <1>1, <1>4 DEF Locked
  <2> QED
    BY <2>1, <2>2 DEF ListsOK
<1>8. LengthsOK'
  <2>1. /\ IsFiniteSet(Linked(k)')
        /\ Cardinality(Linked(k)') = Cardinality(Linked(k)) + 1
    BY <1>2, <1>3, <1>4, AddOne DEF LengthsOK
  <2>2. \A v \in Writers : wpc[v] \notin {"reg_unlock", "der_unlock"}
    BY <1>1, <1>4 DEF Locked
  <2>3. \A j \in Kinds : len[j] = Cardinality(Linked(j))
    BY <2>2 DEF LengthsOK
  <2>4. \A v \in Writers : wpc'[v] \in {"reg_unlock", "der_unlock"} <=> v = w
    BY <1>1, <2>2
  <2>5. \A j \in Kinds : IsFiniteSet(Linked(j)')
    <3>1. \A j \in Kinds : IsFiniteSet(Linked(j))
      BY DEF LengthsOK
    <3> HIDE DEF SafeInv, NodesInv, TypesOK, LocalsOK
    <3> QED
      BY <1>4, <2>1, <3>1
  <2>6. \A j \in Kinds : j # k => len'[j] = Cardinality(Linked(j)')
    BY <1>1, <1>4, <2>3
  <2>7. KindOf(wkey'[w]) = k /\ wpc'[w] = "reg_unlock"
        /\ Cardinality(Linked(k)') = len'[k] + 1
    BY <1>1, <1>2, <1>b, <2>1, <2>3
  <2> HIDE DEF SafeInv, NodesInv, TypesOK, LocalsOK
  <2> QED
    BY <2>4, <2>5, <2>6, <2>7 DEF LengthsOK
<1>9. ReadersOK'
  <2>1. ASSUME NEW r \in Readers, NEW j \in Kinds, NEW x \in Cells
        PROVE  Protects(r, j, x)' <=> Protects(r, j, x) \/ (j = k /\ x = c)
    BY <1>1, <1>l, <1>b DEF Protects, Linked
  <2>2. ASSUME NEW r \in Readers, NEW j \in Kinds, NEW x \in Cells, Protects(r, j, x)',
               Succ(j)'[x] # NULL
        PROVE  Protects(r, j, Succ(j)[x])'
    <3>1. CASE j = k /\ x = c
      <4>1. Succ(k)'[c] = hash[k].head[b]
        BY <1>2, <1>3 DEF Table, Succ
      <4>2. Succ(k)'[c] \in Linked(k)
        BY <1>2, <2>2, <3>1, <4>1 DEF IsLists, Linked
      <4> QED
        BY <1>3, <3>1, <4>2 DEF Protects
    <3>2. CASE ~(j = k /\ x = c)
      <4>1. Succ(j)'[x] = Succ(j)[x]
        BY <1>2, <1>3, <1>4, <3>2 DEF Succ, Table
      <4>2. Protects(r, j, Succ(j)[x]) /\ Succ(j)[x] \in Cells
        BY <2>1, <2>2, <3>2, <4>1 DEF ReadersOK, Succ, Table
      <4> QED
        BY <2>1, <4>1, <4>2
    <3> QED
      BY <3>1, <3>2
  <2>3. \A r \in Readers : rcell'[r] # NULL =>
           r \in reading' /\ Protects(r, rkind[r], rcell[r])'
    BY <1>1, <2>1 DEF ReadersOK
  <2> QED
    BY <1>1, <2>2, <2>3 DEF ReadersOK
<1> QED
  BY <1>5, <1>6, <1>7, <1>8, <1>9

\* The length goes up and the lock is free.
LEMMA UnlockSafe ==
    ASSUME SafeInv, NEW w \in Writers, Unlock(w)
    PROVE  OwnersOK' /\ KeysOK' /\ ListsOK' /\ LengthsOK' /\ ReadersOK'
<1> USE NullAssumption, KeysAssumption, WritersAssumption
<1>a. KindOf(wkey[w]) \in Kinds /\ wcell[w] \in Linked(KindOf(wkey[w]))
  BY KindOfType DEF Unlock, SafeInv, NodesInv, OwnersOK
<1>b. PICK k \in Kinds : k = KindOf(wkey[w])
  BY <1>a
<1>1. /\ wpc[w] = "reg_unlock" /\ write_lock' = NULL
      /\ wpc' = [wpc EXCEPT ![w] = "idle"]
      /\ wkey' = [wkey EXCEPT ![w] = NULL]
      /\ wcell' = [wcell EXCEPT ![w] = NULL]
      /\ len' = [len EXCEPT ![k] = @ + 1]
      /\ UNCHANGED <<hash, key, allocated, gp, rpc, rkind, rcell, reading>>
  BY <1>b DEF Unlock, WGoto, WReturn, memoryVars, readerVars
<1>2. \A v \in Writers : wpc[v] \in Locked => v = w
  BY <1>1 DEF SafeInv, NodesInv, OwnersOK, Locked
<1> USE DEF SafeInv, NodesInv, TypesOK, LocalsOK, Linked, Succ, InTable
<1>3. OwnersOK'
  <2>1. \A v \in Writers : write_lock' = v <=> wpc'[v] \in Locked
    BY <1>1, <1>2 DEF Locked
  <2>2. \A kind \in Kinds : Linked(kind)' \subseteq allocated'
    BY <1>1 DEF OwnersOK
  <2>3. \A v \in Writers : wpc'[v] \in Private \cup Removed =>
                             wcell'[v] \in allocated' /\ ~ InTable(wcell[v])'
    BY <1>1 DEF OwnersOK, Private, Removed
  <2>4. \A v \in Writers : wpc'[v] \in {"reg_unlock", "der_del"} =>
                             wcell'[v] \in Linked(KindOf(wkey[v]))'
    BY <1>1 DEF OwnersOK
  <2>5. \A u, v \in Writers :
          u # v /\ wpc'[u] \in Private \cup Removed /\ wpc'[v] \in Private \cup Removed
             => wcell'[u] # wcell'[v]
    BY <1>1 DEF OwnersOK, Private, Removed
  <2>6. \A x \in allocated' : InTable(x)' \/ \E v \in Writers : wcell'[v] = x
    <3>1. ASSUME NEW x \in allocated, ~ InTable(x), NEW v \in Writers, wcell[v] = x
          PROVE  wcell'[v] = x
      BY <1>1, <1>a, <3>1
    <3> QED
      BY <1>1, <3>1 DEF OwnersOK
  <2> QED
    BY <2>1, <2>2, <2>3, <2>4, <2>5, <2>6 DEF OwnersOK
<1>4. KeysOK'
  BY <1>1 DEF KeysOK, Matching
<1>5. ListsOK'
  BY <1>1 DEF ListsOK
<1>6. LengthsOK'
  <2>1. \A j \in Kinds : len'[j] = Cardinality(Linked(j))
    <3>1. Cardinality(Linked(k)) = len[k] + 1
      BY <1>1, <1>b DEF LengthsOK
    <3>2. \A j \in Kinds : j # k => len[j] = Cardinality(Linked(j))
      BY <1>1, <1>2, <1>b DEF LengthsOK, Locked
    <3> HIDE DEF Linked
    <3> QED
      BY <1>1, <3>1, <3>2
  <2>2. \A v \in Writers : wpc'[v] \notin {"reg_unlock", "der_unlock"}
    BY <1>1, <1>2 DEF Locked
  <2> QED
    BY <1>1, <2>1, <2>2 DEF LengthsOK
<1>7. ReadersOK'
  <2>1. \A r \in Readers : \A kind \in Kinds : \A x \in Cells :
           Protects(r, kind, x)' <=> Protects(r, kind, x)
    <3>1. /\ UNCHANGED <<hash, gp>> /\ wpc'[w] \notin Removed
          /\ wpc[w] # "der_unlock" /\ (wpc[w] = "der_sync" => gp[w] = {})
          /\ \A v \in Writers : v # w =>
                wpc'[v] = wpc[v] /\ wkey'[v] = wkey[v] /\ wcell'[v] = wcell[v]
      BY <1>1 DEF Removed
    <3> QED
      BY <3>1, ProtectionKept
  <2> QED
    BY <1>1, <2>1, ReadersKept DEF ReadersOK
<1> QED
  BY <1>3, <1>4, <1>5, <1>6, <1>7

\* The length goes down, the lock is free, and the grace period begins.
LEMMA DeregisterUnlockSafe ==
    ASSUME SafeInv, NEW w \in Writers, DeregisterUnlock(w)
    PROVE  OwnersOK' /\ KeysOK' /\ ListsOK' /\ LengthsOK' /\ ReadersOK'
<1> USE NullAssumption, KeysAssumption, WritersAssumption
<1>a. KindOf(wkey[w]) \in Kinds /\ wcell[w] \in Cells
  BY KindOfType DEF DeregisterUnlock, SafeInv, NodesInv, LocalsOK
<1>b. PICK k \in Kinds, c \in Cells : k = KindOf(wkey[w]) /\ c = wcell[w]
  BY <1>a
<1>1. /\ wpc[w] = "der_unlock" /\ write_lock' = NULL
      /\ wpc' = [wpc EXCEPT ![w] = "der_sync"]
      /\ gp' = [gp EXCEPT ![w] = reading]
      /\ len' = [len EXCEPT ![k] = @ - 1]
      /\ UNCHANGED <<hash, key, allocated, wkey, wcell, rpc, rkind, rcell, reading>>
  BY <1>b DEF DeregisterUnlock, WGoto, memoryVars, readerVars
<1>2. \A v \in Writers : wpc[v] \in Locked => v = w
  BY <1>1 DEF SafeInv, NodesInv, OwnersOK, Locked
<1> USE DEF SafeInv, NodesInv, TypesOK, LocalsOK, Linked, Succ, InTable
<1>3. OwnersOK'
  <2>1. \A v \in Writers : write_lock' = v <=> wpc'[v] \in Locked
    BY <1>1, <1>2 DEF Locked
  <2>2. \A kind \in Kinds : Linked(kind)' \subseteq allocated'
    BY <1>1 DEF OwnersOK
  <2>3. \A v \in Writers : wpc'[v] \in Private \cup Removed =>
                             wcell'[v] \in allocated' /\ ~ InTable(wcell[v])'
    BY <1>1 DEF OwnersOK, Private, Removed
  <2>4. \A v \in Writers : wpc'[v] \in {"reg_unlock", "der_del"} =>
                             wcell'[v] \in Linked(KindOf(wkey[v]))'
    BY <1>1 DEF OwnersOK
  <2>5. \A u, v \in Writers :
          u # v /\ wpc'[u] \in Private \cup Removed /\ wpc'[v] \in Private \cup Removed
             => wcell'[u] # wcell'[v]
    BY <1>1 DEF OwnersOK, Private, Removed
  <2>6. \A x \in allocated' : InTable(x)' \/ \E v \in Writers : wcell'[v] = x
    BY <1>1 DEF OwnersOK
  <2> QED
    BY <2>1, <2>2, <2>3, <2>4, <2>5, <2>6 DEF OwnersOK
<1>4. KeysOK'
  BY <1>1 DEF KeysOK, Matching
<1>5. ListsOK'
  BY <1>1 DEF ListsOK
<1>6. LengthsOK'
  <2>1. \A j \in Kinds : len'[j] = Cardinality(Linked(j))
    <3>1. Cardinality(Linked(k)) = len[k] - 1
      BY <1>1, <1>b DEF LengthsOK
    <3>2. \A j \in Kinds : j # k => len[j] = Cardinality(Linked(j))
      BY <1>1, <1>2, <1>b DEF LengthsOK, Locked
    <3> HIDE DEF Linked
    <3> QED
      BY <1>1, <3>1, <3>2
  <2>2. \A v \in Writers : wpc'[v] \notin {"reg_unlock", "der_unlock"}
    BY <1>1, <1>2 DEF Locked
  <2> QED
    BY <1>1, <2>1, <2>2 DEF LengthsOK
<1>7. ReadersOK'
  <2>1. \A r \in Readers : \A j \in Kinds : \A x \in Cells :
           /\ r \in reading => (Protects(r, j, x)' <=> Protects(r, j, x))
           /\ r \notin reading => (Protects(r, j, x)' <=> x \in Linked(j))
    <3>1. \A v \in Writers : v # w =>
             wpc'[v] = wpc[v] /\ gp'[v] = gp[v] /\ wpc[v] # "der_unlock"
      BY <1>1, <1>2 DEF Locked
    <3>2. wpc'[w] = "der_sync" /\ gp'[w] = reading
      BY <1>1
    <3>3. \A v \in Writers : gp[v] \subseteq reading
      BY DEF ReadersOK
    <3> QED
      BY <1>1, <3>1, <3>2, <3>3 DEF Protects
  <2>2. ASSUME NEW r \in Readers, NEW j \in Kinds, NEW x \in Cells, Protects(r, j, x)',
               Succ(j)'[x] # NULL
        PROVE  Protects(r, j, Succ(j)[x])'
    <3>1. Succ(j)'[x] = Succ(j)[x] /\ Succ(j)[x] \in Cells
      BY <1>1, <2>2 DEF Table
    <3>2. CASE r \in reading
      <4>1. Protects(r, j, Succ(j)[x])
        BY <2>1, <2>2, <3>1, <3>2 DEF ReadersOK
      <4> QED
        BY <2>1, <3>1, <3>2, <4>1
    <3>3. CASE r \notin reading
      <4>1. x \in Linked(j)
        BY <2>1, <2>2, <3>3
      <4>2. Succ(j)[x] \in Linked(j)
        BY <2>2, <3>1, <4>1 DEF ListsOK, IsLists
      <4> QED
        BY <2>1, <3>1, <3>3, <4>2
    <3> QED
      BY <3>2, <3>3
  <2>3. \A r \in Readers : rcell'[r] # NULL =>
           r \in reading' /\ Protects(r, rkind[r], rcell[r])'
    BY <1>1, <2>1 DEF ReadersOK
  <2> QED
    BY <1>1, <2>2, <2>3 DEF ReadersOK
<1> QED
  BY <1>3, <1>4, <1>5, <1>6, <1>7

\* kfree after the grace period.
LEMMA DeregisterFreeSafe ==
    ASSUME SafeInv, NEW w \in Writers, DeregisterFree(w)
    PROVE  OwnersOK' /\ KeysOK' /\ ListsOK' /\ LengthsOK' /\ ReadersOK'
<1> USE NullAssumption, KeysAssumption, WritersAssumption
<1>1. /\ wpc[w] = "der_sync" /\ gp[w] = {}
      /\ wpc' = [wpc EXCEPT ![w] = "idle"]
      /\ wkey' = [wkey EXCEPT ![w] = NULL]
      /\ wcell' = [wcell EXCEPT ![w] = NULL]
      /\ allocated' = allocated \ {wcell[w]}
      /\ key' = [key EXCEPT ![wcell[w]] = NULL]
      /\ UNCHANGED <<hash, len, write_lock, gp, rpc, rkind, rcell, reading>>
  BY DEF DeregisterFree, WGoto, WReturn, Free, tableVars, readerVars
<1>2. \A v \in Writers : v # w => wcell[v] # wcell[w]
  BY <1>1, OwnNode DEF SafeInv, Removed
<1> USE DEF SafeInv, NodesInv, TypesOK, LocalsOK, Linked, Succ, InTable
<1>3. wcell[w] \in Cells /\ ~ InTable(wcell[w])
  BY <1>1 DEF OwnersOK, Removed
<1>4. OwnersOK'
  <2>1. \A v \in Writers : write_lock' = v <=> wpc'[v] \in Locked
    BY <1>1 DEF OwnersOK, Locked
  <2>2. \A kind \in Kinds : Linked(kind)' \subseteq allocated'
    BY <1>1, <1>3 DEF OwnersOK
  <2>3. \A v \in Writers : wpc'[v] \in Private \cup Removed =>
                             wcell'[v] \in allocated' /\ ~ InTable(wcell[v])'
    BY <1>1, <1>2 DEF OwnersOK, Private, Removed
  <2>4. \A v \in Writers : wpc'[v] \in {"reg_unlock", "der_del"} =>
                             wcell'[v] \in Linked(KindOf(wkey[v]))'
    BY <1>1 DEF OwnersOK
  <2>5. \A u, v \in Writers :
          u # v /\ wpc'[u] \in Private \cup Removed /\ wpc'[v] \in Private \cup Removed
             => wcell'[u] # wcell'[v]
    BY <1>1 DEF OwnersOK, Private, Removed
  <2>6. \A x \in allocated' : InTable(x)' \/ \E v \in Writers : wcell'[v] = x
    BY <1>1, <1>2 DEF OwnersOK
  <2> QED
    BY <2>1, <2>2, <2>3, <2>4, <2>5, <2>6 DEF OwnersOK
<1>5. KeysOK'
  BY <1>1, <1>2, <1>3, KindOfType DEF KeysOK, Matching
<1>6. ListsOK' /\ LengthsOK'
  BY <1>1, TablesKept
<1>7. ReadersOK'
  <2>1. \A r \in Readers : \A kind \in Kinds : \A x \in Cells :
           Protects(r, kind, x)' <=> Protects(r, kind, x)
    <3>1. /\ UNCHANGED <<hash, gp>> /\ wpc'[w] \notin Removed
          /\ wpc[w] # "der_unlock" /\ (wpc[w] = "der_sync" => gp[w] = {})
          /\ \A v \in Writers : v # w =>
                wpc'[v] = wpc[v] /\ wkey'[v] = wkey[v] /\ wcell'[v] = wcell[v]
      BY <1>1 DEF Removed
    <3> QED
      BY <3>1, ProtectionKept
  <2> QED
    BY <1>1, <2>1, ReadersKept DEF ReadersOK
<1> QED
  BY <1>4, <1>5, <1>6, <1>7

\* hash_del_rcu.  The remover protects the node from now on.
LEMMA DelSafe ==
    ASSUME SafeInv, NEW w \in Writers, Del(w)
    PROVE  OwnersOK' /\ KeysOK' /\ ListsOK' /\ LengthsOK' /\ ReadersOK'
<1> USE NullAssumption, KeysAssumption, WritersAssumption
<1>a. KindOf(wkey[w]) \in Kinds /\ wcell[w] \in Linked(KindOf(wkey[w])) /\ wcell[w] \in Cells
  BY KindOfType DEF Del, SafeInv, NodesInv, LocalsOK, OwnersOK
<1>b. PICK c \in Cells, k \in Kinds : c = wcell[w] /\ k = KindOf(wkey[w])
  BY <1>a
<1>1. /\ wpc[w] = "der_del" /\ wpc' = [wpc EXCEPT ![w] = "der_unlock"]
      /\ UNCHANGED <<len, key, allocated, write_lock, wkey, wcell, gp, rpc, rkind, rcell,
                     reading>>
  BY <1>b DEF Del, WGoto, memoryVars, readerVars
<1>2. c \in Linked(k) /\ hash[k] \in Table /\ IsLists(hash[k])
  BY <1>a, <1>b DEF SafeInv, NodesInv, TypesOK, ListsOK
<1>3. /\ IsLists(hash'[k])
      /\ \A j \in Kinds : j # k => hash'[j] = hash[j]
      /\ hash'[k].linked = hash[k].linked \ {c}
      /\ \A d \in Cells : hash'[k].next[d] =
            IF d \in hash[k].linked \ {c} /\ hash[k].next[d] = c
            THEN hash[k].next[c] ELSE hash[k].next[d]
      /\ hash[k].next[c] \in (hash[k].linked \ {c}) \cup {NULL, c}
  <2>1. hash'[k] = HashDel(hash[k], c) /\ \A j \in Kinds : j # k => hash'[j] = hash[j]
    BY <1>2, <1>b DEF Del, SafeInv, NodesInv, TypesOK
  <2>2. c \in hash[k].linked
    BY <1>2 DEF Linked
  <2> QED
    BY <1>2, <2>1, <2>2, DelLists
<1>4. /\ \A j \in Kinds : j # k => c \notin hash[j].linked
      /\ \A v \in Writers : v # w /\ wpc[v] # "idle" => wcell[v] # c
      /\ \A v \in Writers : wpc[v] \in Locked => v = w
  <2>1. \A j \in Kinds : j # k => c \notin hash[j].linked
    BY <1>2 DEF SafeInv, NodesInv, KeysOK, Linked
  <2>2. \A v \in Writers : wpc[v] \in Locked => v = w
    BY <1>1 DEF SafeInv, NodesInv, OwnersOK, Locked
  <2>3. \A v \in Writers : v # w /\ wpc[v] # "idle" => wpc[v] \in Private \cup Removed
    BY <2>2 DEF Locked, Private, Removed, SafeInv, NodesInv, TypesOK, WriterPCs
  <2>4. \A v \in Writers : wpc[v] \in Private \cup Removed => wcell[v] # c
    BY <1>2 DEF SafeInv, NodesInv, OwnersOK, InTable
  <2> QED
    BY <2>1, <2>2, <2>3, <2>4
<1>l. \A j \in Kinds : hash'[j].linked = hash[j].linked \ {c}
  BY <1>3, <1>4
<1> USE DEF SafeInv, NodesInv, TypesOK, LocalsOK
<1>5. OwnersOK'
  <2>1. \A v \in Writers : write_lock' = v <=> wpc'[v] \in Locked
    BY <1>1 DEF OwnersOK, Locked
  <2>2. \A j \in Kinds : Linked(j)' \subseteq allocated'
    BY <1>1, <1>l DEF OwnersOK, Linked
  <2>3. \A v \in Writers : wpc'[v] \in Private \cup Removed =>
                             wcell'[v] \in allocated' /\ ~ InTable(wcell[v])'
    <3>1. wcell[w] \in allocated /\ ~ InTable(wcell[w])'
      BY <1>1, <1>2, <1>b, <1>l DEF OwnersOK, InTable, Linked
    <3>2. \A v \in Writers : v # w /\ wpc[v] \in Private \cup Removed =>
             wcell[v] \in allocated /\ ~ InTable(wcell[v])'
      BY <1>1, <1>l DEF OwnersOK, InTable, Linked
    <3>3. \A v \in Writers : v # w => wpc'[v] = wpc[v]
      BY <1>1
    <3> QED
      BY <1>1, <3>1, <3>2, <3>3
  <2>4. \A v \in Writers : wpc'[v] \in {"reg_unlock", "der_del"} =>
                             wcell'[v] \in Linked(KindOf(wkey[v]))'
    BY <1>1, <1>4 DEF Locked
  <2>5. \A u, v \in Writers :
          u # v /\ wpc'[u] \in Private \cup Removed /\ wpc'[v] \in Private \cup Removed
             => wcell'[u] # wcell'[v]
    BY <1>1, <1>4, <1>b DEF OwnersOK, Private, Removed
  <2>6. \A x \in allocated' : InTable(x)' \/ \E v \in Writers : wcell'[v] = x
    <3>1. \A x : InTable(x) => InTable(x)' \/ x = wcell[w]
      BY <1>b, <1>l DEF InTable, Linked
    <3> HIDE DEF Linked, InTable
    <3> QED
      BY <1>1, <3>1 DEF OwnersOK
  <2> QED
    BY <2>1, <2>2, <2>3, <2>4, <2>5, <2>6 DEF OwnersOK
<1>6. KeysOK'
  <2>1. \A j \in Kinds : \A x \in Linked(j)' : key'[x] \in Keys /\ KindOf(key'[x]) = j
    BY <1>1, <1>l DEF KeysOK, Linked
  <2>2. \A j \in Kinds : \A x, y \in Linked(j)' : key'[x] = key'[y] => x = y
    BY <1>1, <1>l DEF KeysOK, Linked
  <2>3. \A v \in Writers : wpc'[v] # "reg_add"
    BY <1>1, <1>4 DEF Locked
  <2> QED
    BY <1>1, <2>1, <2>2, <2>3 DEF KeysOK
<1>7. ListsOK'
  <2>1. \A j \in Kinds : IsLists(hash'[j])
    BY <1>3 DEF ListsOK
  <2>2. \A v \in Writers : wpc'[v] = "der_unlock" => v = w
    BY <1>1, <1>4 DEF Locked
  <2>3. hash'[k].next[c] = hash[k].next[c]
    BY <1>3
  <2>4. KindOf(wkey'[w]) = k /\ wcell'[w] = c
    BY <1>1, <1>b
  <2> QED
    BY <1>1, <1>3, <1>b, <2>1, <2>2, <2>3, <2>4 DEF ListsOK, Succ, Linked
<1>8. LengthsOK'
  <2>1. /\ IsFiniteSet(Linked(k)')
        /\ Cardinality(Linked(k)') = Cardinality(Linked(k)) - 1
    <3>1. IsFiniteSet(Linked(k)) /\ Linked(k)' = Linked(k) \ {c}
      BY <1>l DEF LengthsOK, Linked
    <3> HIDE DEF Linked, SafeInv, NodesInv
    <3> QED
      BY <1>2, <3>1, RemoveOne
  <2>2. \A v \in Writers : wpc[v] \notin {"reg_unlock", "der_unlock"}
    BY <1>1, <1>4 DEF Locked
  <2>3. \A j \in Kinds : len[j] = Cardinality(Linked(j))
    BY <2>2 DEF LengthsOK
  <2>4. \A v \in Writers : wpc'[v] \in {"reg_unlock", "der_unlock"} <=> v = w
    BY <1>1, <2>2
  <2>5. \A j \in Kinds : j # k => Linked(j)' = Linked(j)
    BY <1>3 DEF Linked
  <2>6. \A j \in Kinds : IsFiniteSet(Linked(j)')
    <3>1. \A j \in Kinds : IsFiniteSet(Linked(j))
      BY DEF LengthsOK
    <3> HIDE DEF SafeInv, NodesInv, TypesOK, LocalsOK
    <3> QED
      BY <2>1, <2>5, <3>1
  <2>7. \A j \in Kinds : j # k => len'[j] = Cardinality(Linked(j)')
    BY <1>1, <2>3, <2>5
  <2>8. KindOf(wkey'[w]) = k /\ wpc'[w] = "der_unlock"
        /\ Cardinality(Linked(k)') = len'[k] - 1
    BY <1>1, <1>2, <1>b, <2>1, <2>3
  <2> HIDE DEF SafeInv, NodesInv, TypesOK, LocalsOK
  <2> QED
    BY <2>4, <2>6, <2>7, <2>8 DEF LengthsOK
<1>9. ReadersOK'
  <2>1. ASSUME NEW r \in Readers, NEW j \in Kinds, NEW x \in Cells
        PROVE  Protects(r, j, x)' <=> Protects(r, j, x)
    <3>1. \A v \in Writers : v # w => wpc'[v] = wpc[v]
      BY <1>1
    <3>2. wpc[w] = "der_del" /\ wpc'[w] = "der_unlock"
      BY <1>1
    <3>3. \A v \in Writers : wpc[v] # "der_unlock"
      BY <1>1, <1>4 DEF Locked
    <3>4. Protects(r, j, x)' <=> \/ x \in hash'[j].linked
                                 \/ x = c /\ j = k
                                 \/ \E v \in Writers :
                                       /\ wcell[v] = x /\ KindOf(wkey[v]) = j
                                       /\ wpc[v] = "der_sync" /\ r \in gp[v]
      BY <1>1, <1>b, <3>1, <3>2, <3>3 DEF Protects, Linked
    <3>5. x \in hash[j].linked <=> x \in hash'[j].linked \/ (x = c /\ j = k)
      BY <1>2, <1>3, <1>4 DEF Linked
    <3> QED
      BY <3>3, <3>4, <3>5 DEF Protects, Linked
  <2>2. ASSUME NEW r \in Readers, NEW j \in Kinds, NEW x \in Cells, Protects(r, j, x)',
               Succ(j)'[x] # NULL
        PROVE  Protects(r, j, Succ(j)[x])'
    <3>1. Succ(j)'[x] = Succ(j)[x] \/ (j = k /\ Succ(k)[x] = c /\ Succ(j)'[x] = Succ(k)[c])
      BY <1>3 DEF Succ
    <3>2. \A y \in Cells : Protects(r, j, y) /\ Succ(j)[y] # NULL =>
             Succ(j)[y] \in Cells /\ Protects(r, j, Succ(j)[y])
      BY DEF ReadersOK, Succ, Table
    <3>3. Protects(r, j, x)
      BY <2>1, <2>2
    <3>4. CASE Succ(j)'[x] = Succ(j)[x]
      <4>1. Succ(j)[x] \in Cells /\ Protects(r, j, Succ(j)[x])
        BY <2>2, <3>2, <3>3, <3>4
      <4> QED
        BY <2>1, <3>4, <4>1
    <3>5. CASE j = k /\ Succ(k)[x] = c /\ Succ(j)'[x] = Succ(k)[c]
      <4>1. Protects(r, j, c)
        BY <1>2, <3>5 DEF Protects
      <4>2. Succ(k)[c] \in Cells /\ Protects(r, j, Succ(k)[c])
        BY <2>2, <3>2, <3>5, <4>1
      <4> QED
        BY <2>1, <3>5, <4>2
    <3> QED
      BY <3>1, <3>4, <3>5
  <2>3. \A r \in Readers : rcell'[r] # NULL =>
           r \in reading' /\ Protects(r, rkind[r], rcell[r])'
    BY <1>1, <2>1 DEF ReadersOK
  <2> QED
    BY <1>1, <2>2, <2>3 DEF ReadersOK
<1> QED
  BY <1>5, <1>6, <1>7, <1>8, <1>9

-----------------------------------------------------------------------------
(***************************************************************************)
(* The readers.                                                            *)
(***************************************************************************)
\* No reader changes the nodes.
LEMMA NodesKept ==
    ASSUME OwnersOK, KeysOK, ListsOK, LengthsOK,
           UNCHANGED <<hash, len, key, allocated, write_lock, wpc, wkey, wcell>>
    PROVE  OwnersOK' /\ KeysOK' /\ ListsOK' /\ LengthsOK'
<1> USE DEF Linked, Succ, InTable
<1>1. OwnersOK'
  BY DEF OwnersOK
<1>2. KeysOK'
  BY DEF KeysOK, Matching
<1>3. ListsOK'
  BY DEF ListsOK, IsLists
<1>4. LengthsOK'
  BY DEF LengthsOK
<1> QED
  BY <1>1, <1>2, <1>3, <1>4

\* The first node of a bucket, and the one after a protected node, are protected.
LEMMA HeadProtected ==
    ASSUME SafeInv, NEW r \in Readers, NEW kind \in Kinds, NEW b \in Buckets,
           hash[kind].head[b] # NULL
    PROVE  Protects(r, kind, hash[kind].head[b])
  BY DEF SafeInv, NodesInv, ListsOK, IsLists, Protects, Linked

\* A step of a reader outside the sections keeps the readers.
LEMMA OutsideSafe ==
    ASSUME SafeInv, NEW r \in Readers, NEW label \in ReaderPCs \ Walks, rpc[r] \notin Walks,
           rpc' = [rpc EXCEPT ![r] = label], \A q \in Readers : q # r => rkind'[q] = rkind[q],
           UNCHANGED <<hash, rcell, reading, wpc, wkey, wcell, gp>>
    PROVE  ReadersOK'
<1> USE DEF SafeInv, NodesInv, TypesOK
<1>1. \A q \in Readers : q \in reading' <=> rpc'[q] \in Walks
  BY DEF ReadersOK
<1>2. \A q \in Readers : \A kind \in Kinds : \A x \in Cells :
         Protects(q, kind, x)' <=> Protects(q, kind, x)
  BY DEF Protects, Linked
<1>3. rcell[r] = NULL
  BY DEF ReadersOK
<1>4. \A q \in Readers : rcell'[q] # NULL => q \in reading' /\ Protects(q, rkind[q], rcell[q])'
  BY <1>2, <1>3 DEF ReadersOK
<1>5. \A kind \in Kinds : \A c \in Cells :
         Succ(kind)[c] # NULL => Succ(kind)[c] \in Cells
  BY DEF Succ, Table
<1>6. \A kind : Succ(kind)' = Succ(kind)
  BY DEF Succ
<1> QED
  BY <1>1, <1>2, <1>4, <1>5, <1>6 DEF ReadersOK

\* A reader that enters a section, or goes on in it, to a protected node.
LEMMA InsideSafe ==
    ASSUME SafeInv, NEW r \in Readers, rpc'[r] \in Walks,
           NEW x \in Cells \cup {NULL}, x # NULL => Protects(r, rkind'[r], x),
           rcell' = [rcell EXCEPT ![r] = x], reading' = reading \cup {r},
           \A q \in Readers : q # r => rpc'[q] = rpc[q] /\ rkind'[q] = rkind[q],
           rkind'[r] \in Kinds,
           UNCHANGED <<hash, wpc, wkey, wcell, gp>>
    PROVE  ReadersOK'
<1> USE DEF SafeInv, NodesInv, TypesOK
<1>1. \A q \in Readers : q \in reading' <=> rpc'[q] \in Walks
  BY DEF ReadersOK
<1>2. \A q \in Readers : \A kind \in Kinds : \A y \in Cells :
         Protects(q, kind, y)' <=> Protects(q, kind, y)
  BY DEF Protects, Linked
<1>3. \A q \in Readers : rcell'[q] # NULL => q \in reading' /\ Protects(q, rkind[q], rcell[q])'
  <2>1. ASSUME NEW q \in Readers, q # r, rcell'[q] # NULL
        PROVE  q \in reading' /\ Protects(q, rkind[q], rcell[q])'
    BY <1>2, <2>1 DEF ReadersOK
  <2>2. ASSUME rcell'[r] # NULL
        PROVE  r \in reading' /\ Protects(r, rkind[r], rcell[r])'
    BY <1>2, <2>2
  <2> QED
    BY <2>1, <2>2
<1>4. \A kind \in Kinds : \A c \in Cells :
         Succ(kind)[c] # NULL => Succ(kind)[c] \in Cells
  BY DEF Succ, Table
<1>5. \A kind : Succ(kind)' = Succ(kind)
  BY DEF Succ
<1>6. \A w \in Writers : gp'[w] \subseteq reading'
  BY DEF ReadersOK
<1> QED
  BY <1>1, <1>2, <1>3, <1>4, <1>5, <1>6 DEF ReadersOK

\* A reader that leaves its section protects the nodes of the table, and of a removal
\* that has not begun its grace period.
LEMMA LeaveSafe ==
    ASSUME SafeInv, NEW r \in Readers, NEW label \in ReaderPCs \ Walks,
           rpc' = [rpc EXCEPT ![r] = label], ReadUnlock(r),
           UNCHANGED <<hash, wpc, wkey, wcell, rkind>>
    PROVE  ReadersOK'
<1> USE DEF SafeInv, NodesInv, TypesOK, ReadUnlock
<1>1. \A q \in Readers : q \in reading' <=> rpc'[q] \in Walks
  BY DEF ReadersOK
<1>2. \A q \in Readers : q # r => \A kind \in Kinds : \A y \in Cells :
         Protects(q, kind, y)' <=> Protects(q, kind, y)
  BY DEF Protects, Linked
<1>3. \A kind \in Kinds : \A y \in Cells :
         Protects(r, kind, y)' <=>
            \/ y \in Linked(kind)
            \/ \E w \in Writers :
                  wcell[w] = y /\ KindOf(wkey[w]) = kind /\ wpc[w] = "der_unlock"
  BY DEF Protects, Linked
<1>4. \A q \in Readers : rcell'[q] # NULL => q \in reading' /\ Protects(q, rkind[q], rcell[q])'
  BY <1>2 DEF ReadersOK
<1>5. \A kind \in Kinds : \A c \in Cells :
         Succ(kind)[c] # NULL => Succ(kind)[c] \in Cells
  BY DEF Succ, Table
<1>6. \A kind : Succ(kind)' = Succ(kind)
  BY DEF Succ
<1>7. \A w \in Writers : gp'[w] \subseteq reading'
  BY DEF ReadersOK
<1>8. ASSUME NEW kind \in Kinds, NEW y \in Cells, Protects(r, kind, y)', Succ(kind)[y] # NULL
      PROVE  Protects(r, kind, Succ(kind)[y])'
  <2>1. CASE y \in Linked(kind)
    <3>1. Succ(kind)[y] \in Linked(kind)
      BY <1>8, <2>1 DEF ListsOK, IsLists, Succ, Linked
    <3> QED
      BY <1>3, <1>5, <1>6, <1>8, <3>1
  <2>2. ASSUME NEW w \in Writers, wcell[w] = y, KindOf(wkey[w]) = kind, wpc[w] = "der_unlock"
        PROVE  Protects(r, kind, Succ(kind)[y])'
    <3>1. Succ(kind)[y] \in Linked(kind) \cup {NULL, y}
      BY <2>2 DEF ListsOK
    <3> QED
      BY <1>3, <1>5, <1>6, <1>8, <2>2, <3>1
  <2> QED
    BY <1>3, <1>8, <2>1, <2>2
<1>9. ASSUME NEW q \in Readers, q # r, NEW kind \in Kinds, NEW y \in Cells,
             Protects(q, kind, y)', Succ(kind)[y] # NULL
      PROVE  Protects(q, kind, Succ(kind)[y])'
  BY <1>2, <1>5, <1>6, <1>9 DEF ReadersOK
<1>10. ASSUME NEW q \in Readers, NEW kind \in Kinds, NEW y \in Cells,
              Protects(q, kind, y)', (Succ(kind)[y] # NULL)'
       PROVE  Protects(q, kind, Succ(kind)[y])'
  <2>1. Succ(kind)[y] # NULL
    BY <1>6, <1>10
  <2>2. CASE q = r
    BY <1>8, <1>10, <2>1, <2>2
  <2>3. CASE q # r
    BY <1>9, <1>10, <2>1, <2>3
  <2> QED
    BY <2>2, <2>3
<1> HIDE DEF SafeInv, NodesInv, TypesOK, ReadUnlock
<1> QED
  BY <1>1, <1>4, <1>7, <1>10 DEF ReadersOK

\* Every step of a reader keeps the readers safe.
LEMMA ReaderSafe ==
    ASSUME SafeInv, NEW r \in Readers, ReaderStep(r)
    PROVE  ReadersOK'
<1> USE DEF RGoto, tableVars, memoryVars, writerVars, ReaderPCs, Walks
<1>t. /\ rpc \in [Readers -> ReaderPCs] /\ rkind \in [Readers -> Kinds]
      /\ rcell \in [Readers -> Cells \cup {NULL}]
      /\ r \in reading <=> rpc[r] \in Walks
      /\ reading \subseteq Readers
  BY DEF SafeInv, NodesInv, TypesOK, ReadersOK
<1>1. CASE \E u \in Uids, p \in Progs : Enter(r, u, p)
  BY <1>1, OutsideSafe DEF Enter
<1>2. CASE Begin(r)
  <2>1. ASSUME NEW kind \in Kinds, NEW label \in {"uid_walk", "prog_walk"},
               BucketOf[who[r][kind]] \in Buckets, CheckBegin(r, kind, label)
        PROVE  ReadersOK'
    <3>1. PICK x : x = hash[kind].head[BucketOf[who[r][kind]]]
      OBVIOUS
    <3>2. x \in Cells \cup {NULL} /\ (x # NULL => Protects(r, kind, x))
      BY <2>1, <3>1, HeadProtected DEF SafeInv, NodesInv, TypesOK, Table
    <3> QED
      BY <1>t, <2>1, <3>1, <3>2, InsideSafe DEF CheckBegin
  <2>2. /\ rpc[r] = "check_uid" => BucketOf[who[r]["uid"]] \in Buckets
        /\ rpc[r] = "check_prog" => BucketOf[who[r]["prog"]] \in Buckets
    BY BucketsAssumption DEF SafeInv, NodesInv, LocalsOK, Keys
  <2> QED
    BY <1>2, <2>1, <2>2 DEF Begin, Kinds
<1>3. CASE (rpc[r] \in {"uid_walk", "prog_walk"} /\ CheckNext(r)) \/ ListCopy(r)
  <2>1. PICK x : x = hash[rkind[r]].next[rcell[r]]
    OBVIOUS
  <2>2. /\ rpc[r] \in Walks /\ rcell[r] # NULL /\ rcell' = [rcell EXCEPT ![r] = x]
        /\ UNCHANGED <<rpc, rkind, reading, hash, wpc, wkey, wcell, gp>>
    BY <1>3, <2>1 DEF CheckNext, ListCopy
  <2> HIDE <1>3
  <2>3. x \in Cells \cup {NULL} /\ (x # NULL => Protects(r, rkind[r], x))
    BY <1>t, <2>1, <2>2 DEF SafeInv, NodesInv, TypesOK, Table, ReadersOK, Succ
  <2> QED
    BY <1>t, <2>2, <2>3, InsideSafe
<1>4. CASE ListNextBucket(r)
  <2>1. bucket[r] + 1 \in Buckets
    BY <1>4, BucketsAssumption DEF ListNextBucket, SafeInv, NodesInv, TypesOK, Buckets
  <2>2. PICK x : x = hash[rkind[r]].head[bucket[r] + 1]
    OBVIOUS
  <2>3. /\ rpc[r] \in Walks /\ rcell' = [rcell EXCEPT ![r] = x]
        /\ UNCHANGED <<rpc, rkind, reading, hash, wpc, wkey, wcell, gp>>
    BY <1>4, <2>2 DEF ListNextBucket
  <2>4. x \in Cells \cup {NULL} /\ (x # NULL => Protects(r, rkind[r], x))
    BY <1>t, <2>1, <2>2, HeadProtected DEF SafeInv, NodesInv, TypesOK, Table
  <2> QED
    BY <1>t, <2>3, <2>4, InsideSafe
<1>5. CASE ListBegin(r)
  <2>1. 1 \in Buckets
    BY BucketsAssumption DEF Buckets
  <2>2. PICK x : x = hash[rkind[r]].head[1]
    OBVIOUS
  <2>3. x \in Cells \cup {NULL} /\ (x # NULL => Protects(r, rkind[r], x))
    BY <1>t, <2>1, <2>2, HeadProtected DEF SafeInv, NodesInv, TypesOK, Table
  <2> QED
    BY <1>5, <1>t, <2>2, <2>3, InsideSafe DEF ListBegin
<1>6. CASE Found(r)
  BY <1>6, LeaveSafe DEF Found, CheckEnd
<1>7. CASE ListEnd(r)
  BY <1>7, LeaveSafe DEF ListEnd
<1>8. CASE Leave(r)
  BY <1>8, <1>t, OutsideSafe DEF Leave
<1>9. CASE \E kind \in Kinds, max \in ListMax : ListSize(r, kind, max)
  BY <1>9, <1>t, OutsideSafe DEF ListSize
<1>10. CASE ListReturn(r)
  BY <1>10, <1>t, OutsideSafe DEF ListReturn
<1> QED
  BY <1>1, <1>2, <1>3, <1>4, <1>5, <1>6, <1>7, <1>8, <1>9, <1>10 DEF ReaderStep

\* Every step keeps the invariant.
LEMMA SafeStep == SafeInv /\ [Next]_vars => SafeInv'
<1> SUFFICES ASSUME SafeInv, [Next]_vars PROVE SafeInv'
  OBVIOUS
<1>1. ASSUME NEW w \in Writers, WriterStep(w) PROVE SafeInv'
  <2>1. OwnersOK' /\ KeysOK' /\ ListsOK' /\ LengthsOK' /\ ReadersOK'
    BY <1>1, AllocSafe, LockSafe, ExistsSafe, AddSafe, UnlockSafe, DeregisterLockSafe,
       DelSafe, DeregisterUnlockSafe, DeregisterFreeSafe DEF WriterStep
  <2> QED
    BY <1>1, <2>1, WriterTypes DEF SafeInv, NodesInv
<1>2. ASSUME NEW r \in Readers, ReaderStep(r) PROVE SafeInv'
  <2>1. UNCHANGED <<hash, len, key, allocated, write_lock, wpc, wkey, wcell>>
    BY <1>2 DEF ReaderStep, Enter, Begin, CheckBegin, CheckNext, Found, CheckEnd, Leave,
                ListSize, ListBegin, ListCopy, ListNextBucket, ListEnd, ListReturn,
                tableVars, memoryVars, writerVars
  <2> QED
    BY <1>2, <2>1, NodesKept, ReaderTypes, ReaderSafe DEF SafeInv, NodesInv
<1>3. ASSUME UNCHANGED vars PROVE SafeInv'
  <2> USE <1>3 DEF vars, tableVars, memoryVars, writerVars, readerVars, checkVars, listVars
  <2>1. TypesOK' /\ LocalsOK'
    BY DEF SafeInv, NodesInv, TypesOK, LocalsOK
  <2>2. OwnersOK' /\ KeysOK' /\ ListsOK' /\ LengthsOK'
    BY NodesKept DEF SafeInv, NodesInv
  <2>3. ReadersOK'
    BY DEF SafeInv, ReadersOK, Protects, Linked, Succ
  <2> QED
    BY <2>1, <2>2, <2>3 DEF SafeInv, NodesInv
<1> QED
  BY <1>1, <1>2, <1>3, Steps

\* The invariant holds at the start.
LEMMA SafeInit == Init => SafeInv
<1> SUFFICES ASSUME Init PROVE SafeInv
  OBVIOUS
<1> USE NullAssumption, WritersAssumption, BucketsAssumption
<1> USE DEF Init, EmptyTable, Linked, Succ, InTable
<1>1. TypesOK
  BY DEF TypesOK, Table, WriterPCs, ReaderPCs, Kinds, Buckets
<1>2. LocalsOK
  BY DEF LocalsOK
<1>3. OwnersOK
  BY DEF OwnersOK, Private, Removed, Locked
<1>4. KeysOK
  BY DEF KeysOK
<1>5. ListsOK
  BY DEF ListsOK, IsLists
<1>6. LengthsOK
  BY FS_EmptySet DEF LengthsOK
<1>7. ReadersOK
  BY DEF ReadersOK, Protects, Walks
<1> QED
  BY <1>1, <1>2, <1>3, <1>4, <1>5, <1>6, <1>7 DEF SafeInv, NodesInv

\* Neither an identity check nor a listing ever stands on freed memory, however the
\* registrations and deregistrations of both tables interleave with the walks.
THEOREM NoFreedNode == Spec => []NoUseAfterFree
<1>1. SafeInv => NoUseAfterFree
  BY DEF SafeInv, NodesInv, TypesOK, OwnersOK, ReadersOK, Protects, NoUseAfterFree, Removed
<1> QED
  BY <1>1, SafeInit, SafeStep, PTL DEF Spec

\* Whenever the lock is free each length is the number of nodes of its table, and a
\* key has at most one node.
THEOREM ExactLengths == Spec => []LengthsExact
<1>1. ASSUME SafeInv, write_lock = NULL
      PROVE  /\ \A kind \in Kinds : len[kind] = Cardinality(hash[kind].linked)
             /\ \A k \in Keys : Cardinality(Matching(k)) <= 1
  <2>1. \A kind \in Kinds : len[kind] = Cardinality(hash[kind].linked)
    BY <1>1, WritersAssumption DEF SafeInv, NodesInv, OwnersOK, LengthsOK, Linked, Locked
  <2>2. ASSUME NEW k \in Keys PROVE Cardinality(Matching(k)) <= 1
    <3>1. \A c, d \in Matching(k) : c = d
      BY <1>1, KindOfType DEF SafeInv, NodesInv, KeysOK, Matching, Linked
    <3>2. CASE Matching(k) = {}
      BY <3>2, FS_EmptySet
    <3>3. ASSUME NEW c \in Matching(k) PROVE Cardinality(Matching(k)) <= 1
      <4>1. Matching(k) = {c}
        BY <3>1, <3>3
      <4> QED
        BY <4>1, FS_Singleton
    <3> QED
      BY <3>2, <3>3
  <2> QED
    BY <2>1, <2>2
<1>2. SafeInv => LengthsExact
  BY <1>1 DEF LengthsExact
<1> QED
  BY <1>2, SafeInit, SafeStep, PTL DEF Spec

\* Every allocated node is in a table or in the hands of exactly one writer, so that
\* nothing is leaked and nothing is freed twice.
THEOREM NodesAreOwned == Spec => []NoLeak
<1>1. ASSUME SafeInv PROVE NoLeak
  <2>1. \A v, w \in Writers : v # w /\ wcell[v] # NULL => wcell[v] # wcell[w]
    <3>1. ASSUME NEW v \in Writers, NEW w \in Writers, v # w, wcell[v] # NULL,
                 wcell[v] = wcell[w]
          PROVE  FALSE
      <4>1. wpc[v] # "idle" /\ wpc[w] # "idle"
        BY <1>1, <3>1 DEF SafeInv, NodesInv, LocalsOK
      <4>2. wpc[v] \notin Private \cup Removed /\ wpc[w] \notin Private \cup Removed
        BY <1>1, <3>1, OwnNode DEF SafeInv
      <4>3. wpc[v] \in Locked /\ wpc[w] \in Locked
        BY <1>1, <4>1, <4>2 DEF SafeInv, NodesInv, TypesOK, WriterPCs, Private, Removed, Locked
      <4> QED
        BY <1>1, <3>1, <4>3, OneHolder DEF SafeInv, NodesInv
    <3> QED
      BY <3>1
  <2> QED
    BY <1>1, <2>1 DEF SafeInv, NodesInv, OwnersOK, InTable, Linked, NoLeak
<1>2. SafeInv => NoLeak
  BY <1>1
<1> QED
  BY <1>2, SafeInit, SafeStep, PTL DEF Spec

-----------------------------------------------------------------------------
(***************************************************************************)
(* What a walk can still meet.  Reachability along the next pointers is    *)
(* stated with closed sets: t can be reached from x if it is in every set  *)
(* that holds x and the successor of each of its members.                  *)
(***************************************************************************)
Closed(h, S) == \A y \in S : h.next[y] # NULL => h.next[y] \in S
Reach(h, x, t) == \A S \in SUBSET Cells : x \in S /\ Closed(h, S) => t \in S

\* A node can be reached from itself.
LEMMA ReachSelf == \A h : \A x \in Cells : Reach(h, x, x)
  BY DEF Reach

\* What can be reached, and is not here, can be reached from the next node.
LEMMA ReachNext ==
    ASSUME NEW h \in Table, NEW x \in Cells, NEW t \in Cells, Reach(h, x, t), t # x
    PROVE  h.next[x] # NULL /\ Reach(h, h.next[x], t)
<1>1. h.next[x] # NULL
  <2> SUFFICES ASSUME h.next[x] = NULL PROVE FALSE
    OBVIOUS
  <2>1. Closed(h, {x})
    BY DEF Closed
  <2> QED
    BY <2>1 DEF Reach
<1>2. ASSUME NEW S \in SUBSET Cells, h.next[x] \in S, Closed(h, S) PROVE t \in S
  <2>1. S \cup {x} \in SUBSET Cells /\ Closed(h, S \cup {x})
    BY <1>2 DEF Closed
  <2>2. t \in S \cup {x}
    BY <2>1 DEF Reach
  <2> QED
    BY <2>2
<1> QED
  BY <1>1, <1>2 DEF Reach

\* What can be reached from the next node can be reached from here.
LEMMA ReachBack ==
    ASSUME NEW h \in Table, NEW x \in Cells, NEW t, h.next[x] # NULL, Reach(h, h.next[x], t)
    PROVE  Reach(h, x, t)
  BY DEF Reach, Closed

\* hash_del_rcu hides no node but the removed one from a walker.
LEMMA DelReach ==
    ASSUME NEW h \in Table, IsLists(h), NEW c \in h.linked, NEW x \in Cells, NEW t \in Cells,
           Reach(h, x, t), t # c
    PROVE  Reach(HashDel(h, c), x, t)
<1> USE NullAssumption
<1>1. PICK g : g = HashDel(h, c)
  OBVIOUS
<1>2. /\ c \in Cells
      /\ \A d \in Cells : g.next[d] =
            IF d \in h.linked \ {c} /\ h.next[d] = c THEN h.next[c] ELSE h.next[d]
  BY <1>1, DelLists DEF Table
<1>3. ASSUME NEW S \in SUBSET Cells, x \in S, Closed(g, S) PROVE t \in S
  <2>1. CASE h.next[c] \in S \cup {NULL}
    <3>1. Closed(h, S \cup {c})
      BY <1>2, <1>3, <2>1 DEF Closed
    <3>2. t \in S \cup {c}
      BY <1>2, <1>3, <3>1 DEF Reach
    <3> QED
      BY <3>2
  <2>2. CASE h.next[c] \notin S \cup {NULL}
    <3>1. Closed(h, S)
      BY <1>2, <1>3, <2>2 DEF Closed
    <3> QED
      BY <1>3, <3>1 DEF Reach
  <2> QED
    BY <2>1, <2>2
<1> QED
  BY <1>1, <1>3 DEF Reach

\* hash_del_rcu lets a walker meet nothing new.
LEMMA DelReachOld ==
    ASSUME NEW h \in Table, IsLists(h), NEW c \in h.linked, NEW x \in Cells, NEW t,
           Reach(HashDel(h, c), x, t)
    PROVE  Reach(h, x, t)
<1> USE NullAssumption
<1>1. PICK g : g = HashDel(h, c)
  OBVIOUS
<1>2. /\ c \in Cells
      /\ \A d \in Cells : g.next[d] =
            IF d \in h.linked \ {c} /\ h.next[d] = c THEN h.next[c] ELSE h.next[d]
  BY <1>1, DelLists DEF Table
<1>3. ASSUME NEW S \in SUBSET Cells, x \in S, Closed(h, S) PROVE t \in S
  <2>1. Closed(g, S)
    BY <1>2, <1>3 DEF Closed
  <2> QED
    BY <1>1, <1>3, <2>1 DEF Reach
<1> QED
  BY <1>3 DEF Reach

\* hash_add_rcu changes nothing for a walker among other nodes.
LEMMA AddReach ==
    ASSUME NEW h \in Table, NEW b \in Buckets, NEW c \in Cells, NEW x \in Cells, NEW t,
           NEW P \in SUBSET Cells, Closed(h, P), c \notin P, x \in P
    PROVE  Reach(HashAdd(h, b, c), x, t) <=> Reach(h, x, t)
<1> USE NullAssumption
<1>1. PICK g : g = HashAdd(h, b, c)
  OBVIOUS
<1>2. \A d \in P : g.next[d] = h.next[d]
  BY <1>1 DEF HashAdd, Table
<1>3. ASSUME Reach(h, x, t), NEW S \in SUBSET Cells, x \in S, Closed(g, S) PROVE t \in S
  <2>1. Closed(h, S \cap P) /\ x \in S \cap P
    BY <1>2, <1>3 DEF Closed
  <2> QED
    BY <1>3, <2>1 DEF Reach
<1>4. ASSUME Reach(g, x, t), NEW S \in SUBSET Cells, x \in S, Closed(h, S) PROVE t \in S
  <2>1. Closed(g, S \cap P) /\ x \in S \cap P
    BY <1>2, <1>4 DEF Closed
  <2> QED
    BY <1>4, <2>1 DEF Reach
<1>5. Reach(h, x, t) => Reach(g, x, t)
  BY <1>3 DEF Reach
<1>6. Reach(g, x, t) => Reach(h, x, t)
  BY <1>4 DEF Reach
<1> QED
  BY <1>1, <1>5, <1>6

-----------------------------------------------------------------------------
(***************************************************************************)
(* The identity check misses nobody.                                       *)
(***************************************************************************)
\* Every linked node can be reached from the head of its key's bucket.
ReachOK ==
    \A kind \in Kinds : \A t \in Linked(kind) :
        LET head == hash[kind].head[BucketOf[key[t]]]
        IN  head # NULL /\ Reach(hash[kind], head, t)

\* The walk for key k has a node with that key before it.
Ahead(r, kind, k) ==
    /\ rcell[r] # NULL
    /\ \E t \in Linked(kind) : key[t] = k /\ Reach(hash[kind], rcell[r], t)

\* A key that stays registered is before the walk for it, and a walk that is over
\* without it was for a key that has been deregistered.
ChecksOK ==
    \A r \in Readers :
        /\ \A k \in steady[r] : \E t \in Linked(KindOf(k)) : key[t] = k
        /\ rpc[r] = "uid_walk" /\ who[r].uid \in steady[r] => Ahead(r, "uid", who[r].uid)
        /\ rpc[r] = "prog_walk" /\ who[r].prog \in steady[r] => Ahead(r, "prog", who[r].prog)
        /\ rpc[r] \in {"check_prog", "prog_walk"} => who[r].uid \notin steady[r]
        /\ rpc[r] = "decided" /\ need_mon[r] = 0 =>
              who[r].uid \notin steady[r] /\ who[r].prog \notin steady[r]

CheckInv == SafeInv /\ ReachOK /\ ChecksOK

\* Keys that stay registered stay found, and walks keep them ahead.
LEMMA ChecksKept ==
    ASSUME CheckInv, UNCHANGED <<rpc, who, need_mon, rkind>>,
           \A r \in Readers : steady'[r] \subseteq steady[r],
           \A r \in Readers : \A k \in steady'[r] :
              \E t \in Linked(KindOf(k))' : key'[t] = k,
           \A r \in Readers : \A k \in steady'[r] :
              Ahead(r, rkind[r], k) => Ahead(r, rkind[r], k)'
    PROVE  ChecksOK'
<1>1. ASSUME NEW r \in Readers, rpc[r] = "uid_walk", who[r].uid \in steady'[r]
      PROVE  Ahead(r, "uid", who[r].uid)'
  <2>1. rkind[r] = "uid" /\ Ahead(r, "uid", who[r].uid)
    BY <1>1 DEF CheckInv, ChecksOK, SafeInv, NodesInv, LocalsOK
  <2> QED
    BY <1>1, <2>1 DEF Ahead, Linked
<1>2. ASSUME NEW r \in Readers, rpc[r] = "prog_walk", who[r].prog \in steady'[r]
      PROVE  Ahead(r, "prog", who[r].prog)'
  <2>1. rkind[r] = "prog" /\ Ahead(r, "prog", who[r].prog)
    BY <1>2 DEF CheckInv, ChecksOK, SafeInv, NodesInv, LocalsOK
  <2> QED
    BY <1>2, <2>1 DEF Ahead, Linked
<1> QED
  BY <1>1, <1>2 DEF CheckInv, ChecksOK

\* A step of a writer that does not change the tables.
LEMMA SameTables ==
    ASSUME CheckInv, UNCHANGED <<hash, rpc, rkind, rcell, who, need_mon, steady>>,
           \A kind \in Kinds : \A t \in Linked(kind) : key'[t] = key[t]
    PROVE  ReachOK' /\ ChecksOK'
<1>1. \A kind \in Kinds : Linked(kind)' = Linked(kind)
  BY DEF Linked
<1>2. ReachOK'
  BY <1>1 DEF CheckInv, ReachOK
<1>3. \A r \in Readers : \A k \in steady'[r] : \E t \in Linked(KindOf(k))' : key'[t] = k
  <2>1. ASSUME NEW r \in Readers, NEW k \in steady[r]
        PROVE  \E t \in Linked(KindOf(k)) : key[t] = k
    BY DEF CheckInv, ChecksOK
  <2> QED
    BY <1>1, <2>1, KindOfType
<1>4. \A r \in Readers : \A k \in steady'[r] : Ahead(r, rkind[r], k) => Ahead(r, rkind[r], k)'
  <2>1. \A r \in Readers : rkind[r] \in Kinds
    BY DEF CheckInv, SafeInv, NodesInv, TypesOK
  <2> QED
    BY <1>1, <2>1 DEF Ahead
<1> QED
  BY <1>2, <1>3, <1>4, ChecksKept

\* The nodes a reader protects are closed under next.
LEMMA ProtectedClosed ==
    ASSUME SafeInv, NEW r \in Readers, NEW kind \in Kinds
    PROVE  Closed(hash[kind], {x \in Cells : Protects(r, kind, x)})
  BY DEF SafeInv, NodesInv, TypesOK, Table, ReadersOK, Closed, Succ

\* So are the nodes of a table.
LEMMA LinkedClosed ==
    ASSUME NEW h \in Table, IsLists(h) PROVE Closed(h, h.linked)
  BY DEF IsLists, Closed

\* hash_add_rcu.
LEMMA AddChecks ==
    ASSUME CheckInv, NEW w \in Writers, Add(w)
    PROVE  ReachOK' /\ ChecksOK'
<1> USE NullAssumption
<1>a. /\ KindOf(wkey[w]) \in Kinds /\ BucketOf[wkey[w]] \in Buckets
      /\ wcell[w] \in Cells /\ ~ InTable(wcell[w]) /\ key[wcell[w]] = wkey[w]
      /\ wpc[w] = "reg_add"
  BY KindOfType, BucketsAssumption
     DEF Add, CheckInv, SafeInv, NodesInv, LocalsOK, OwnersOK, Private, KeysOK
<1>b. PICK c \in Cells, k \in Kinds, b \in Buckets :
            c = wcell[w] /\ k = KindOf(wkey[w]) /\ b = BucketOf[wkey[w]]
  BY <1>a
<1>c. PICK h, g : h = hash[k] /\ g = hash'[k]
  OBVIOUS
<1>1. UNCHANGED <<key, rpc, rkind, rcell, who, need_mon, steady>>
  BY DEF Add, memoryVars, readerVars, checkVars
<1>2. h \in Table /\ IsLists(h) /\ c \notin h.linked
  BY <1>a, <1>b, <1>c DEF CheckInv, SafeInv, NodesInv, TypesOK, ListsOK, InTable, Linked
<1>3. g = HashAdd(h, b, c) /\ \A j \in Kinds : j # k => hash'[j] = hash[j]
  BY <1>b, <1>c DEF Add, CheckInv, SafeInv, NodesInv, TypesOK
<1>4. /\ g.linked = h.linked \cup {c} /\ g \in Table
      /\ g.head = [h.head EXCEPT ![b] = c]
      /\ g.next = [h.next EXCEPT ![c] = h.head[b]]
  BY <1>2, <1>3, AddLists
<1>5. \A r \in Readers : ~ Protects(r, k, c)
  <2>1. \A v \in Writers : v # w => wcell[v] # c
    BY <1>a, <1>b, OwnNode DEF CheckInv, SafeInv, Private
  <2> QED
    BY <1>a, <1>b, <2>1 DEF Protects, InTable
<1>6. ReachOK'
  <2>1. ASSUME NEW t \in g.linked
        PROVE  g.head[BucketOf[key[t]]] # NULL /\ Reach(g, g.head[BucketOf[key[t]]], t)
    <3>1. CASE t = c
      <4>1. g.head[BucketOf[key[t]]] = c
        BY <1>2, <1>4, <1>a, <1>b, <3>1 DEF Table
      <4> QED
        BY <3>1, <4>1, ReachSelf
    <3>2. CASE t # c
      <4>1. t \in h.linked /\ t \in Cells
        BY <1>2, <1>4, <3>2 DEF Table
      <4>2. PICK a \in Buckets, x \in Cells : /\ a = BucketOf[key[t]] /\ x = h.head[a]
                                              /\ Reach(h, x, t) /\ x \in h.linked
        <5>1. h.head[BucketOf[key[t]]] # NULL /\ Reach(h, h.head[BucketOf[key[t]]], t)
          BY <4>1, <1>c DEF CheckInv, ReachOK, Linked
        <5>2. BucketOf[key[t]] \in Buckets
          BY <4>1, <1>c, BucketsAssumption DEF CheckInv, SafeInv, NodesInv, KeysOK, Linked
        <5>3. h.head[BucketOf[key[t]]] \in h.linked
          BY <1>2, <5>1, <5>2 DEF IsLists
        <5> QED
          BY <1>2, <5>1, <5>2, <5>3 DEF Table
      <4>3. Reach(g, x, t)
        <5>1. Closed(h, h.linked) /\ h.linked \in SUBSET Cells
          BY <1>2, LinkedClosed DEF Table
        <5> QED
          BY <1>2, <1>3, <4>2, <5>1, AddReach
      <4>4. CASE a = b
        <5>1. g.head[a] = c /\ g.next[c] = x /\ x # NULL
          BY <1>2, <1>4, <4>2, <4>4 DEF Table
        <5>2. Reach(g, c, t)
          BY <1>4, <4>3, <5>1, ReachBack
        <5> QED
          BY <4>2, <5>1, <5>2
      <4>5. CASE a # b
        <5>1. g.head[a] = x
          BY <1>2, <1>4, <4>2, <4>5 DEF Table
        <5> QED
          BY <4>2, <4>3, <5>1
      <4> QED
        BY <4>4, <4>5
    <3> QED
      BY <3>1, <3>2
  <2> QED
    BY <1>1, <1>3, <1>c, <2>1 DEF CheckInv, ReachOK, Linked
<1>7. \A j \in Kinds : hash[j].linked \subseteq hash'[j].linked
  BY <1>3, <1>4, <1>c
<1>8. \A r \in Readers : \A i \in steady'[r] : \E t \in Linked(KindOf(i))' : key'[t] = i
  BY <1>1, <1>7, KindOfType DEF CheckInv, ChecksOK, Linked
<1>9. ASSUME NEW r \in Readers, NEW i \in steady'[r], Ahead(r, rkind[r], i)
      PROVE  Ahead(r, rkind[r], i)'
  <2>1. PICK j \in Kinds : j = rkind[r]
    BY DEF CheckInv, SafeInv, NodesInv, TypesOK
  <2>2. PICK x \in Cells : x = rcell[r] /\ Protects(r, j, x)
    BY <1>9, <2>1 DEF Ahead, CheckInv, SafeInv, NodesInv, TypesOK, ReadersOK
  <2>3. PICK t \in hash[j].linked : key[t] = i /\ Reach(hash[j], x, t)
    BY <1>9, <2>1, <2>2 DEF Ahead, Linked
  <2>4. Reach(hash'[j], x, t)
    <3>1. CASE j = k
      <4>1. PICK P \in SUBSET Cells : P = {y \in Cells : Protects(r, k, y)}
        OBVIOUS
      <4>2. Closed(h, P) /\ c \notin P /\ x \in P
        BY <1>5, <1>c, <2>2, <3>1, <4>1, ProtectedClosed DEF CheckInv
      <4> QED
        BY <1>2, <1>3, <1>c, <2>3, <3>1, <4>2, AddReach
    <3>2. CASE j # k
      BY <1>3, <2>3, <3>2
    <3> QED
      BY <3>1, <3>2
  <2> QED
    BY <1>1, <1>7, <1>9, <2>1, <2>2, <2>3, <2>4 DEF Ahead, Linked
<1> QED
  BY <1>1, <1>6, <1>8, <1>9, ChecksKept

\* hash_del_rcu, which takes its key out of what stays registered.
LEMMA DelChecks ==
    ASSUME CheckInv, NEW w \in Writers, Del(w)
    PROVE  ReachOK' /\ ChecksOK'
<1> USE NullAssumption
<1>a. KindOf(wkey[w]) \in Kinds /\ wcell[w] \in Linked(KindOf(wkey[w])) /\ wcell[w] \in Cells
      /\ key[wcell[w]] = wkey[w]
  BY KindOfType DEF Del, CheckInv, SafeInv, NodesInv, LocalsOK, OwnersOK, KeysOK
<1>b. PICK c \in Cells, k \in Kinds : c = wcell[w] /\ k = KindOf(wkey[w])
  BY <1>a
<1>c. PICK h, g : h = hash[k] /\ g = hash'[k]
  OBVIOUS
<1>1. /\ UNCHANGED <<key, rpc, rkind, rcell, who, need_mon>>
      /\ steady' = [r \in Readers |-> steady[r] \ {wkey[w]}]
  BY DEF Del, memoryVars, readerVars, checkVars
<1>2. h \in Table /\ IsLists(h) /\ c \in h.linked
  BY <1>a, <1>b, <1>c DEF CheckInv, SafeInv, NodesInv, TypesOK, ListsOK, Linked
<1>3. g = HashDel(h, c) /\ \A j \in Kinds : j # k => hash'[j] = hash[j]
  BY <1>b, <1>c DEF Del, CheckInv, SafeInv, NodesInv, TypesOK
<1>4. /\ g.linked = h.linked \ {c}
      /\ \A b \in Buckets : g.head[b] = IF h.head[b] = c THEN h.next[c] ELSE h.head[b]
  BY <1>2, <1>3, DelLists
<1>5. ReachOK'
  <2>1. ASSUME NEW t \in g.linked
        PROVE  g.head[BucketOf[key[t]]] # NULL /\ Reach(g, g.head[BucketOf[key[t]]], t)
    <3>1. t \in h.linked /\ t \in Cells /\ t # c
      BY <1>2, <1>4 DEF Table
    <3>2. PICK a \in Buckets, x \in Cells :
             a = BucketOf[key[t]] /\ x = h.head[a] /\ Reach(h, x, t)
      <4>1. h.head[BucketOf[key[t]]] # NULL /\ Reach(h, h.head[BucketOf[key[t]]], t)
        BY <3>1, <1>c DEF CheckInv, ReachOK, Linked
      <4>2. BucketOf[key[t]] \in Buckets
        BY <3>1, <1>c, BucketsAssumption DEF CheckInv, SafeInv, NodesInv, KeysOK, Linked
      <4> QED
        BY <1>2, <4>1, <4>2 DEF Table
    <3>3. CASE x = c
      <4>1. h.next[c] # NULL /\ Reach(h, h.next[c], t)
        BY <1>2, <3>1, <3>2, <3>3, ReachNext
      <4>2. h.next[c] \in Cells
        BY <1>2, <4>1 DEF Table
      <4>3. Reach(g, h.next[c], t)
        BY <1>2, <1>3, <3>1, <4>1, <4>2, DelReach
      <4> QED
        BY <1>4, <3>2, <3>3, <4>1, <4>3
    <3>4. CASE x # c
      <4>1. Reach(g, x, t)
        BY <1>2, <1>3, <3>1, <3>2, DelReach
      <4> QED
        BY <1>4, <3>2, <3>4, <4>1
    <3> QED
      BY <3>3, <3>4
  <2> QED
    BY <1>1, <1>3, <1>c, <2>1 DEF CheckInv, ReachOK, Linked
<1>6. \A j \in Kinds : \A t \in hash[j].linked : key[t] # wkey[w] => t \in hash'[j].linked
  BY <1>3, <1>4, <1>a, <1>b, <1>c
<1>7. \A r \in Readers : steady'[r] \subseteq steady[r] /\ wkey[w] \notin steady'[r]
  BY <1>1
<1>8. \A r \in Readers : \A i \in steady'[r] : \E t \in Linked(KindOf(i))' : key'[t] = i
  <2>1. ASSUME NEW r \in Readers, NEW i \in steady'[r]
        PROVE  \E t \in Linked(KindOf(i))' : key'[t] = i
    <3>1. PICK t \in Linked(KindOf(i)) : key[t] = i
      BY <1>7 DEF CheckInv, ChecksOK
    <3>2. t \in Linked(KindOf(i))'
      BY <1>6, <1>7, <3>1, KindOfType DEF Linked
    <3> QED
      BY <1>1, <3>1, <3>2
  <2> QED
    BY <2>1
<1>9. ASSUME NEW r \in Readers, NEW i \in steady'[r], Ahead(r, rkind[r], i)
      PROVE  Ahead(r, rkind[r], i)'
  <2>1. PICK j \in Kinds : j = rkind[r]
    BY DEF CheckInv, SafeInv, NodesInv, TypesOK
  <2>2. PICK x \in Cells : x = rcell[r]
    BY <1>9 DEF Ahead, CheckInv, SafeInv, NodesInv, TypesOK
  <2>3. PICK t \in hash[j].linked : key[t] = i /\ Reach(hash[j], x, t)
    BY <1>9, <2>1, <2>2 DEF Ahead, Linked
  <2>4. t # c /\ t \in hash'[j].linked /\ t \in Cells
    <3>1. key[t] # wkey[w]
      BY <1>7, <2>3
    <3> QED
      BY <1>6, <1>a, <1>b, <2>3, <3>1 DEF CheckInv, SafeInv, NodesInv, TypesOK, Table
  <2>5. Reach(hash'[j], x, t)
    <3>1. CASE j = k
      BY <1>2, <1>3, <1>c, <2>3, <2>4, <3>1, DelReach
    <3>2. CASE j # k
      BY <1>3, <2>3, <3>2
    <3> QED
      BY <3>1, <3>2
  <2> QED
    BY <1>1, <1>9, <2>1, <2>2, <2>3, <2>4, <2>5 DEF Ahead, Linked
<1> QED
  BY <1>1, <1>5, <1>7, <1>8, <1>9, ChecksKept

\* Every step of a writer keeps the checks.
LEMMA WriterChecks ==
    ASSUME CheckInv, NEW w \in Writers, WriterStep(w)
    PROVE  ReachOK' /\ ChecksOK'
<1> USE DEF tableVars, memoryVars, readerVars, checkVars
<1>1. ASSUME NEW k \in Keys, Alloc(w, k) PROVE ReachOK' /\ ChecksOK'
  <2>1. \A kind \in Kinds : \A t \in Linked(kind) : t \in allocated /\ t \in Cells
    BY DEF CheckInv, SafeInv, NodesInv, TypesOK, Table, OwnersOK, Linked
  <2>2. \A t \in allocated : key'[t] = key[t]
    BY <1>1 DEF Alloc, CheckInv, SafeInv, NodesInv, TypesOK
  <2>3. UNCHANGED <<hash, rpc, rkind, rcell, who, need_mon, steady>>
    BY <1>1 DEF Alloc
  <2> QED
    BY <2>1, <2>2, <2>3, SameTables
<1>2. CASE Exists(w) \/ DeregisterFree(w)
  <2>1. ~ InTable(wcell[w]) /\ wcell[w] \in Cells
    BY <1>2 DEF Exists, DeregisterFree, CheckInv, SafeInv, NodesInv, LocalsOK, OwnersOK,
                Private, Removed
  <2>2. key' = [key EXCEPT ![wcell[w]] = NULL]
    BY <1>2 DEF Exists, DeregisterFree, Free
  <2>3. \A kind \in Kinds : \A t \in Linked(kind) : key'[t] = key[t]
    BY <2>1, <2>2 DEF InTable, Linked, CheckInv, SafeInv, NodesInv, TypesOK, Table
  <2>4. UNCHANGED <<hash, rpc, rkind, rcell, who, need_mon, steady>>
    BY <1>2 DEF Exists, DeregisterFree
  <2> QED
    BY <2>3, <2>4, SameTables
<1>3. CASE Lock(w) \/ Unlock(w) \/ DeregisterUnlock(w) \/ \E k \in Keys : DeregisterLock(w, k)
  <2>1. UNCHANGED <<hash, key, rpc, rkind, rcell, who, need_mon, steady>>
    BY <1>3 DEF Lock, Unlock, DeregisterUnlock, DeregisterLock
  <2> QED
    BY <2>1, SameTables
<1> QED
  BY <1>1, <1>2, <1>3, AddChecks, DelChecks DEF WriterStep

\* Every step of a reader keeps the checks.
LEMMA ReaderChecks ==
    ASSUME CheckInv, NEW r \in Readers, ReaderStep(r)
    PROVE  ReachOK' /\ ChecksOK'
<1> USE DEF RGoto, ReadUnlock, tableVars, memoryVars, writerVars, checkVars, listVars
<1>1. UNCHANGED <<hash, key>>
  BY DEF ReaderStep, Enter, Begin, CheckBegin, CheckNext, Found, CheckEnd, Leave,
         ListSize, ListBegin, ListCopy, ListNextBucket, ListEnd, ListReturn
<1>2. ReachOK'
  BY <1>1 DEF CheckInv, ReachOK, Linked
<1>3. \A kind : Linked(kind)' = Linked(kind)
  BY <1>1 DEF Linked
<1>t. /\ rpc \in [Readers -> ReaderPCs] /\ rcell \in [Readers -> Cells \cup {NULL}]
      /\ who \in [Readers -> [uid : Uids \cup {NULL}, prog : Progs \cup {NULL}]]
      /\ need_mon \in [Readers -> {0, 1}] /\ steady \in [Readers -> SUBSET Keys]
      /\ rkind \in [Readers -> Kinds]
  BY DEF CheckInv, SafeInv, NodesInv, TypesOK
<1>q. \A q \in Readers : q # r => /\ rpc'[q] = rpc[q] /\ rcell'[q] = rcell[q]
                                  /\ who'[q] = who[q] /\ need_mon'[q] = need_mon[q]
                                  /\ steady'[q] = steady[q]
  BY <1>t DEF ReaderStep, Enter, Begin, CheckBegin, CheckNext, Found, CheckEnd, Leave,
              ListSize, ListBegin, ListCopy, ListNextBucket, ListEnd, ListReturn
<1>4. SUFFICES ASSUME CheckInv, ReaderStep(r)
               PROVE  /\ \A k \in steady'[r] : \E t \in Linked(KindOf(k)) : key[t] = k
                      /\ rpc'[r] = "uid_walk" /\ who'[r].uid \in steady'[r] =>
                            Ahead(r, "uid", who[r].uid)'
                      /\ rpc'[r] = "prog_walk" /\ who'[r].prog \in steady'[r] =>
                            Ahead(r, "prog", who[r].prog)'
                      /\ rpc'[r] \in {"check_prog", "prog_walk"} => who'[r].uid \notin steady'[r]
                      /\ rpc'[r] = "decided" /\ need_mon'[r] = 0 =>
                            who'[r].uid \notin steady'[r] /\ who'[r].prog \notin steady'[r]
  <2>1. \A q \in Readers : q # r =>
           /\ Ahead(q, "uid", who[q].uid)' <=> Ahead(q, "uid", who[q].uid)
           /\ Ahead(q, "prog", who[q].prog)' <=> Ahead(q, "prog", who[q].prog)
    BY <1>1, <1>3, <1>q DEF Ahead
  <2> QED
    BY <1>1, <1>2, <1>3, <1>q, <2>1, <1>4 DEF CheckInv, ChecksOK
<1>s. \A k \in steady[r] : \E t \in Linked(KindOf(k)) : key[t] = k
  BY DEF CheckInv, ChecksOK
<1>5. CASE \E u \in Uids, p \in Progs : Enter(r, u, p)
  <2>1. rpc'[r] = "check_uid" /\ steady'[r] = Registered
    BY <1>5, <1>t DEF Enter
  <2>2. \A k \in Registered : \E t \in Linked(KindOf(k)) : key[t] = k
    BY DEF Registered, CheckInv, SafeInv, NodesInv, KeysOK, Linked, Kinds
  <2> QED
    BY <2>1, <2>2
<1>6. CASE Begin(r)
  <2>1. ASSUME NEW kind \in Kinds, NEW k \in steady[r], KindOf(k) = kind, who[r][kind] = k,
               rcell'[r] = hash[kind].head[BucketOf[k]]
        PROVE  /\ rcell'[r] # NULL
               /\ \E t \in Linked(kind) : key[t] = k /\ Reach(hash[kind], rcell'[r], t)
    <3>1. PICK t \in Linked(kind) : key[t] = k
      BY <1>s, <2>1
    <3> QED
      BY <2>1, <3>1 DEF CheckInv, ReachOK
  <2>2. CASE rpc[r] = "check_uid" /\ CheckBegin(r, "uid", "uid_walk")
    <3>1. /\ rpc'[r] = "uid_walk" /\ UNCHANGED <<who, steady>>
          /\ rcell'[r] = hash["uid"].head[BucketOf[who[r]["uid"]]]
          /\ who[r].uid \in Uids
      BY <1>t, <2>2 DEF CheckBegin, CheckInv, SafeInv, NodesInv, LocalsOK
    <3>2. ASSUME who[r].uid \in steady[r] PROVE Ahead(r, "uid", who[r].uid)'
      <4>1. KindOf(who[r]["uid"]) = "uid" /\ "uid" \in Kinds
        BY <3>1 DEF KindOf, Kinds
      <4> QED
        BY <1>1, <1>3, <2>1, <3>1, <3>2, <4>1 DEF Ahead
    <3> QED
      BY <1>s, <3>1, <3>2
  <2>3. CASE rpc[r] = "check_prog" /\ CheckBegin(r, "prog", "prog_walk")
    <3>1. /\ rpc'[r] = "prog_walk" /\ UNCHANGED <<who, steady>>
          /\ rcell'[r] = hash["prog"].head[BucketOf[who[r]["prog"]]]
          /\ who[r].prog \in Progs /\ who[r].uid \notin steady[r]
      BY <1>t, <2>3 DEF CheckBegin, CheckInv, SafeInv, NodesInv, LocalsOK, ChecksOK
    <3>2. ASSUME who[r].prog \in steady[r] PROVE Ahead(r, "prog", who[r].prog)'
      <4>1. KindOf(who[r]["prog"]) = "prog" /\ "prog" \in Kinds
        BY <3>1, KeysAssumption DEF KindOf, Kinds
      <4> QED
        BY <1>1, <1>3, <2>1, <3>1, <3>2, <4>1 DEF Ahead
    <3> QED
      BY <1>s, <3>1, <3>2
  <2> QED
    BY <1>6, <2>2, <2>3 DEF Begin
<1>7. CASE rpc[r] \in {"uid_walk", "prog_walk"} /\ CheckNext(r)
  <2>1. /\ UNCHANGED <<rpc, who, need_mon, steady>>
        /\ rcell'[r] = hash[rkind[r]].next[rcell[r]]
        /\ rcell[r] # NULL /\ key[rcell[r]] # who[r][rkind[r]]
    BY <1>7, <1>t DEF CheckNext
  <2>2. ASSUME NEW kind \in Kinds, NEW k, rkind[r] = kind, who[r][kind] = k, Ahead(r, kind, k)
        PROVE  Ahead(r, kind, k)'
    <3>1. PICK t \in Linked(kind) : key[t] = k /\ Reach(hash[kind], rcell[r], t)
      BY <2>2 DEF Ahead
    <3>2. hash[kind] \in Table /\ t \in Cells /\ rcell[r] \in Cells /\ t # rcell[r]
      BY <1>t, <2>1, <2>2, <3>1 DEF CheckInv, SafeInv, NodesInv, TypesOK, Table, Linked
    <3>3. hash[kind].next[rcell[r]] # NULL /\ Reach(hash[kind], hash[kind].next[rcell[r]], t)
      BY <3>1, <3>2, ReachNext
    <3> QED
      BY <1>1, <1>3, <2>1, <2>2, <3>1, <3>3 DEF Ahead
  <2>3. rpc[r] = "uid_walk" /\ who[r].uid \in steady[r] => Ahead(r, "uid", who[r].uid)'
    <3> SUFFICES ASSUME rpc[r] = "uid_walk", who[r].uid \in steady[r]
                 PROVE  Ahead(r, "uid", who[r].uid)'
      OBVIOUS
    <3>1. PICK k : k = who[r].uid
      OBVIOUS
    <3>2. rkind[r] = "uid" /\ Ahead(r, "uid", k) /\ who[r]["uid"] = k /\ "uid" \in Kinds
      BY <3>1 DEF CheckInv, ChecksOK, SafeInv, NodesInv, LocalsOK, Kinds
    <3>3. Ahead(r, "uid", k)'
      BY <2>2, <3>2
    <3> QED
      BY <2>1, <3>1, <3>3 DEF Ahead
  <2>4. rpc[r] = "prog_walk" /\ who[r].prog \in steady[r] => Ahead(r, "prog", who[r].prog)'
    <3> SUFFICES ASSUME rpc[r] = "prog_walk", who[r].prog \in steady[r]
                 PROVE  Ahead(r, "prog", who[r].prog)'
      OBVIOUS
    <3>1. PICK k : k = who[r].prog
      OBVIOUS
    <3>2. rkind[r] = "prog" /\ Ahead(r, "prog", k) /\ who[r]["prog"] = k /\ "prog" \in Kinds
      BY <3>1 DEF CheckInv, ChecksOK, SafeInv, NodesInv, LocalsOK, Kinds
    <3>3. Ahead(r, "prog", k)'
      BY <2>2, <3>2
    <3> QED
      BY <2>1, <3>1, <3>3 DEF Ahead
  <2> QED
    BY <2>1, <2>3, <2>4, <1>7, <1>s DEF CheckInv, ChecksOK
<1>8. CASE Found(r)
  <2>1. /\ rpc[r] \in {"uid_walk", "prog_walk"} /\ UNCHANGED <<who, steady>>
        /\ rpc'[r] = "check_prog" => rpc[r] = "uid_walk"
        /\ rpc'[r] \in {"check_prog", "decided"}
        /\ need_mon'[r] = 0 \/ rpc'[r] = "check_prog" => rcell[r] = NULL
        /\ rpc'[r] = "decided" /\ need_mon'[r] = 0 => rpc[r] = "prog_walk"
    BY <1>8, <1>t DEF Found, CheckEnd
  <2>2. rcell[r] = NULL => /\ rpc[r] = "uid_walk" => who[r].uid \notin steady[r]
                           /\ rpc[r] = "prog_walk" => who[r].prog \notin steady[r]
    BY DEF CheckInv, ChecksOK, Ahead
  <2>3. rpc[r] = "prog_walk" => who[r].uid \notin steady[r]
    BY DEF CheckInv, ChecksOK
  <2> HIDE <1>8
  <2> QED
    BY <2>1, <2>2, <2>3, <1>s
<1>9. CASE Leave(r)
  BY <1>9, <1>t DEF Leave
<1>10. CASE \/ \E kind \in Kinds, max \in ListMax : ListSize(r, kind, max)
            \/ ListBegin(r) \/ ListCopy(r) \/ ListNextBucket(r) \/ ListEnd(r) \/ ListReturn(r)
  <2>1. rpc'[r] \in {"list_begin", "list_walk", "listed", "user"} /\ steady' = steady
    BY <1>10, <1>t DEF ListSize, ListBegin, ListCopy, ListNextBucket, ListEnd, ListReturn
  <2> QED
    BY <2>1, <1>s
<1> QED
  BY <1>5, <1>6, <1>7, <1>8, <1>9, <1>10 DEF ReaderStep

\* Every step keeps the checks.
LEMMA CheckStep == CheckInv /\ [Next]_vars => CheckInv'
<1>1. ASSUME CheckInv, UNCHANGED vars PROVE ReachOK' /\ ChecksOK'
  BY <1>1, SameTables DEF vars, tableVars, memoryVars, readerVars, checkVars
<1> QED
  BY <1>1, SafeStep, Steps, WriterChecks, ReaderChecks DEF CheckInv

\* The checks hold at the start.
LEMMA CheckInit == Init => CheckInv
  BY SafeInit DEF CheckInv, ReachOK, ChecksOK, Init, EmptyTable, Linked

\* A thread whose user id or program name stays registered from its entry into the
\* wrapper until the checks are done is throttled: check_uid and check_progname find
\* it whatever else is registered and deregistered around them.
THEOREM NobodyMissed == Spec => []NoMissedIdentity
<1>1. CheckInv => NoMissedIdentity
  BY DEF CheckInv, ChecksOK, NoMissedIdentity
<1> QED
  BY <1>1, CheckInit, CheckStep, PTL DEF Spec

-----------------------------------------------------------------------------
(***************************************************************************)
(* A listing names every key once.                                         *)
(***************************************************************************)
\* Along the nodes a reader may walk, the bucket stays the same and no key comes
\* twice.
HeadsOrdered ==
    \A kind \in Kinds : \A b \in Buckets :
        hash[kind].head[b] # NULL => BucketOf[key[hash[kind].head[b]]] = b

NodesOrdered(r) ==
    \A kind \in Kinds : \A y \in Cells :
        Protects(r, kind, y) /\ Succ(kind)[y] # NULL =>
            /\ BucketOf[key[Succ(kind)[y]]] = BucketOf[key[y]]
            /\ \A z \in Cells : Reach(hash[kind], Succ(kind)[y], z) => key[z] # key[y]

OrderOK == \A r \in Readers : HeadsOrdered /\ NodesOrdered(r)

\* A listing has copied keys of the buckets up to its own, and none it can still meet.
CopiedOK(r) ==
    /\ Len(list[r]) <= in_max[r]
    /\ \A i, j \in 1 .. Len(list[r]) : i # j => list[r][i] # list[r][j]
    /\ \A i \in 1 .. Len(list[r]) : BucketOf[list[r][i]] <= bucket[r]

AheadOK(r) ==
    rpc[r] = "list_walk" /\ rcell[r] # NULL =>
        /\ BucketOf[key[rcell[r]]] = bucket[r]
        /\ \A z \in Cells : Reach(hash[rkind[r]], rcell[r], z) =>
              \A i \in 1 .. Len(list[r]) : list[r][i] # key[z]

ListingsOK == \A r \in Readers : CopiedOK(r) /\ AheadOK(r)

ListInv == SafeInv /\ OrderOK /\ ListingsOK

\* What can be reached from a protected node is protected.
LEMMA ReachProtected ==
    ASSUME SafeInv, NEW r \in Readers, NEW kind \in Kinds, NEW x \in Cells, NEW z \in Cells,
           Protects(r, kind, x), Reach(hash[kind], x, z)
    PROVE  Protects(r, kind, z)
<1>1. Closed(hash[kind], {y \in Cells : Protects(r, kind, y)})
  BY ProtectedClosed
<1>2. z \in {y \in Cells : Protects(r, kind, y)}
  BY <1>1 DEF Reach
<1> QED
  BY <1>2

\* What can be reached from a protected node has a key of the same bucket.
LEMMA ReachBucket ==
    ASSUME SafeInv, NEW r \in Readers, NodesOrdered(r), NEW kind \in Kinds, NEW x \in Cells,
           NEW z \in Cells, Protects(r, kind, x), Reach(hash[kind], x, z)
    PROVE  BucketOf[key[z]] = BucketOf[key[x]]
<1>1. PICK S \in SUBSET Cells :
         S = {y \in Cells : Protects(r, kind, y) /\ BucketOf[key[y]] = BucketOf[key[x]]}
  OBVIOUS
<1>2. \A y \in Cells : Succ(kind)[y] # NULL => Succ(kind)[y] \in Cells
  BY DEF SafeInv, NodesInv, TypesOK, Table, Succ
<1>3. Closed(hash[kind], S)
  BY <1>1, <1>2 DEF NodesOrdered, SafeInv, ReadersOK, Closed, Succ
<1>4. z \in S
  BY <1>1, <1>3 DEF Reach
<1> QED
  BY <1>1, <1>4

\* A step that changes no table and no key a reader may still meet.
LEMMA OrderKept ==
    ASSUME ListInv, SafeInv', hash' = hash,
           \A kind \in Kinds : \A t \in Linked(kind) : key'[t] = key[t],
           \A r \in Readers : \A kind \in Kinds : \A x \in Cells :
              Protects(r, kind, x)' => Protects(r, kind, x) /\ key'[x] = key[x]
    PROVE  /\ OrderOK'
           /\ \A r \in Readers : \A kind \in Kinds : \A x, z \in Cells :
                 Protects(r, kind, x)' /\ Reach(hash[kind], x, z) => key'[z] = key[z]
<1> SUFFICES ASSUME NEW r \in Readers
             PROVE  /\ HeadsOrdered' /\ NodesOrdered(r)'
                    /\ \A kind \in Kinds : \A x, z \in Cells :
                          Protects(r, kind, x)' /\ Reach(hash[kind], x, z) => key'[z] = key[z]
  BY DEF OrderOK
<1>1. HeadsOrdered'
  BY DEF HeadsOrdered, ListInv, OrderOK, SafeInv, NodesInv, ListsOK, IsLists, Linked
<1>2. ASSUME NEW kind \in Kinds, NEW x \in Cells, NEW z \in Cells,
             Protects(r, kind, x)', Reach(hash[kind], x, z)
      PROVE  key'[z] = key[z]
  <2>1. Closed(hash[kind], {y \in Cells : Protects(r, kind, y)'})
    <3>1. \A y \in Cells : Protects(r, kind, y)' /\ Succ(kind)'[y] # NULL =>
             Protects(r, kind, Succ(kind)[y])'
      BY DEF SafeInv, ReadersOK
    <3>2. \A y \in Cells : Succ(kind)'[y] # NULL => Succ(kind)'[y] \in Cells
      BY DEF SafeInv, NodesInv, TypesOK, Table, Succ
    <3>3. Succ(kind)' = hash[kind].next
      BY DEF Succ
    <3>4. ASSUME NEW y \in Cells, Protects(r, kind, y)', hash[kind].next[y] # NULL
          PROVE  hash[kind].next[y] \in Cells /\ Protects(r, kind, hash[kind].next[y])'
      BY <3>1, <3>2, <3>3, <3>4
    <3> QED
      BY <3>4 DEF Closed
  <2>2. z \in {y \in Cells : Protects(r, kind, y)'}
    BY <1>2, <2>1 DEF Reach
  <2> QED
    BY <2>2
<1>3. NodesOrdered(r)'
  <2> SUFFICES ASSUME NEW kind \in Kinds, NEW y \in Cells, Protects(r, kind, y)',
                      Succ(kind)'[y] # NULL
               PROVE  /\ BucketOf[key'[Succ(kind)'[y]]] = BucketOf[key'[y]]
                      /\ \A z \in Cells : Reach(hash'[kind], Succ(kind)'[y], z) =>
                            key'[z] # key'[y]
    BY DEF NodesOrdered
  <2>1. PICK x \in Cells : x = Succ(kind)[y] /\ x = Succ(kind)'[y] /\ x # NULL
    BY DEF ListInv, SafeInv, NodesInv, TypesOK, Table, Succ
  <2>2. Protects(r, kind, x)'
    BY <2>1 DEF SafeInv, ReadersOK
  <2>3. key'[y] = key[y] /\ key'[x] = key[x] /\ Protects(r, kind, y)
    BY <2>2
  <2>4. /\ BucketOf[key[x]] = BucketOf[key[y]]
        /\ \A z \in Cells : Reach(hash[kind], x, z) => key[z] # key[y]
    <3>1. NodesOrdered(r)
      BY DEF ListInv, OrderOK
    <3>2. Succ(kind)[y] # NULL
      BY <2>1
    <3>3. /\ BucketOf[key[Succ(kind)[y]]] = BucketOf[key[y]]
          /\ \A z \in Cells : Reach(hash[kind], Succ(kind)[y], z) => key[z] # key[y]
      BY <2>3, <3>1, <3>2 DEF NodesOrdered
    <3> QED
      BY <2>1, <3>3
  <2>5. \A z \in Cells : Reach(hash[kind], x, z) => key'[z] = key[z]
    BY <1>2, <2>2
  <2> QED
    BY <2>1, <2>3, <2>4, <2>5
<1> QED
  BY <1>1, <1>2, <1>3

\* A step of a writer that changes no table keeps the listings.
LEMMA SameListings ==
    ASSUME ListInv, SafeInv', UNCHANGED <<hash, rpc, rkind, rcell, in_max, bucket, list>>,
           \A kind \in Kinds : \A t \in Linked(kind) : key'[t] = key[t],
           \A r \in Readers : \A kind \in Kinds : \A x \in Cells :
              Protects(r, kind, x)' => Protects(r, kind, x) /\ key'[x] = key[x]
    PROVE  OrderOK' /\ ListingsOK'
<1>1. /\ OrderOK'
      /\ \A r \in Readers : \A kind \in Kinds : \A x, z \in Cells :
            Protects(r, kind, x)' /\ Reach(hash[kind], x, z) => key'[z] = key[z]
  BY OrderKept
<1>2. ASSUME NEW r \in Readers PROVE CopiedOK(r)'
  BY DEF ListInv, ListingsOK, CopiedOK
<1>3. ASSUME NEW r \in Readers, rpc[r] = "list_walk", rcell[r] # NULL
      PROVE  /\ BucketOf[key'[rcell[r]]] = bucket[r]
             /\ \A z \in Cells : Reach(hash[rkind[r]], rcell[r], z) =>
                   \A i \in 1 .. Len(list[r]) : list[r][i] # key'[z]
  <2>1. PICK kind \in Kinds, x \in Cells : kind = rkind[r] /\ x = rcell[r]
    BY <1>3 DEF ListInv, SafeInv, NodesInv, TypesOK
  <2>2. Protects(r, kind, x)'
    BY <1>3, <2>1 DEF SafeInv, ReadersOK
  <2>3. \A z \in Cells : Reach(hash[kind], x, z) => key'[z] = key[z]
    BY <1>1, <2>2
  <2>4. key'[x] = key[x]
    BY <2>2
  <2> QED
    BY <1>3, <2>1, <2>3, <2>4 DEF ListInv, ListingsOK, AheadOK
<1>4. ASSUME NEW r \in Readers PROVE AheadOK(r)'
  BY <1>3 DEF AheadOK
<1> QED
  BY <1>1, <1>2, <1>4 DEF ListingsOK

\* What a reader may meet next, in terms of the table itself.
LEMMA NextOrdered ==
    ASSUME ListInv, NEW r \in Readers, NEW j \in Kinds, NEW y \in Cells, Protects(r, j, y),
           NEW x, x = hash[j].next[y], x # NULL
    PROVE  /\ x \in Cells /\ Protects(r, j, x)
           /\ BucketOf[key[x]] = BucketOf[key[y]]
           /\ \A z \in Cells : Reach(hash[j], x, z) => key[z] # key[y]
<1>1. Succ(j)[y] = x /\ x \in Cells
  BY DEF ListInv, SafeInv, NodesInv, TypesOK, Table, Succ
<1>2. Protects(r, j, Succ(j)[y])
  BY <1>1 DEF ListInv, SafeInv, ReadersOK
<1>3. /\ BucketOf[key[Succ(j)[y]]] = BucketOf[key[y]]
      /\ \A z \in Cells : Reach(hash[j], Succ(j)[y], z) => key[z] # key[y]
  BY <1>1 DEF ListInv, OrderOK, NodesOrdered
<1> QED
  BY <1>1, <1>2, <1>3

\* hash_add_rcu.  The new node comes first in its bucket, before every walk there.
LEMMA AddListings ==
    ASSUME ListInv, SafeInv', NEW w \in Writers, Add(w)
    PROVE  OrderOK' /\ ListingsOK'
<1> USE NullAssumption
<1>a. /\ KindOf(wkey[w]) \in Kinds /\ BucketOf[wkey[w]] \in Buckets
      /\ wcell[w] \in Cells /\ ~ InTable(wcell[w]) /\ key[wcell[w]] = wkey[w]
      /\ wpc[w] = "reg_add"
  BY KindOfType, BucketsAssumption
     DEF Add, ListInv, SafeInv, NodesInv, LocalsOK, OwnersOK, Private, KeysOK
<1>b. PICK c \in Cells, k \in Kinds, b \in Buckets :
            c = wcell[w] /\ k = KindOf(wkey[w]) /\ b = BucketOf[wkey[w]]
  BY <1>a
<1>c. PICK h, g : h = hash[k] /\ g = hash'[k]
  OBVIOUS
<1>1. /\ UNCHANGED <<key, rpc, rkind, rcell, in_max, bucket, list, wkey, wcell, gp>>
      /\ wpc' = [wpc EXCEPT ![w] = "reg_unlock"]
  BY DEF Add, WGoto, memoryVars, readerVars, listVars
<1>2. h \in Table /\ IsLists(h) /\ c \notin h.linked
  BY <1>a, <1>b, <1>c DEF ListInv, SafeInv, NodesInv, TypesOK, ListsOK, InTable, Linked
<1>3. g = HashAdd(h, b, c) /\ \A j \in Kinds : j # k => hash'[j] = hash[j]
  BY <1>b, <1>c DEF Add, ListInv, SafeInv, NodesInv, TypesOK
<1>4. /\ g.linked = h.linked \cup {c}
      /\ \A a \in Buckets : g.head[a] = IF a = b THEN c ELSE h.head[a]
      /\ \A y \in Cells : g.next[y] = IF y = c THEN h.head[b] ELSE h.next[y]
  <2>1. /\ g.linked = h.linked \cup {c}
        /\ g.head = [h.head EXCEPT ![b] = c]
        /\ g.next = [h.next EXCEPT ![c] = h.head[b]]
    BY <1>2, <1>3, AddLists
  <2> QED
    BY <1>2, <2>1 DEF Table
<1>5. ASSUME NEW r \in Readers
      PROVE  /\ ~ Protects(r, k, c)
             /\ \A j \in Kinds : \A y \in Cells :
                   Protects(r, j, y)' => Protects(r, j, y) \/ (j = k /\ y = c)
  <2>1. \A v \in Writers : v # w => wcell[v] # c /\ wpc'[v] = wpc[v]
    BY <1>1, <1>a, <1>b, OwnNode DEF ListInv, SafeInv, Private
  <2>2. wpc'[w] = "reg_unlock"
    BY <1>1 DEF ListInv, SafeInv, NodesInv, TypesOK
  <2>3. ~ Protects(r, k, c)
    BY <1>a, <1>b, <2>1 DEF Protects, InTable
  <2>4. \A j \in Kinds :
           hash'[j].linked \subseteq hash[j].linked \cup (IF j = k THEN {c} ELSE {})
    BY <1>3, <1>4, <1>c
  <2> QED
    BY <1>1, <2>1, <2>2, <2>3, <2>4 DEF Protects, Linked
<1>6. ASSUME NEW r \in Readers, NEW j \in Kinds, NEW x \in Cells, NEW z \in Cells,
             Protects(r, j, x), Reach(hash'[j], x, z)
      PROVE  Reach(hash[j], x, z)
  <2>1. CASE j = k
    <3>1. PICK P \in SUBSET Cells : P = {y \in Cells : Protects(r, k, y)}
      OBVIOUS
    <3>2. Closed(h, P) /\ c \notin P /\ x \in P
      BY <1>5, <1>6, <1>c, <2>1, <3>1, ProtectedClosed DEF ListInv
    <3> QED
      BY <1>2, <1>3, <1>6, <1>c, <2>1, <3>2, AddReach
  <2>2. CASE j # k
    BY <1>3, <1>6, <2>2
  <2> QED
    BY <2>1, <2>2
<1>7. ASSUME NEW r \in Readers PROVE HeadsOrdered'
  <2>1. HeadsOrdered
    BY DEF ListInv, OrderOK
  <2>2. \A a \in Buckets : g.head[a] # NULL => BucketOf[key[g.head[a]]] = a
    BY <1>4, <1>a, <1>b, <1>c, <2>1 DEF HeadsOrdered
  <2> QED
    BY <1>1, <1>3, <1>c, <2>1, <2>2 DEF HeadsOrdered
<1>8. ASSUME NEW r \in Readers PROVE NodesOrdered(r)'
  <2> SUFFICES ASSUME NEW j \in Kinds, NEW y \in Cells, Protects(r, j, y)',
                      hash'[j].next[y] # NULL
               PROVE  /\ BucketOf[key[hash'[j].next[y]]] = BucketOf[key[y]]
                      /\ \A z \in Cells :
                              Reach(hash'[j], hash'[j].next[y], z) => key[z] # key[y]
    BY <1>1 DEF NodesOrdered, Succ
  <2>1. CASE j = k /\ y = c
    <3>1. PICK x \in Cells : x = h.head[b] /\ x = hash'[j].next[y] /\ x # NULL /\ x \in h.linked
      BY <1>2, <1>4, <1>c, <2>1 DEF IsLists, Table
    <3>2. BucketOf[key[x]] = b
      BY <1>c, <3>1 DEF ListInv, OrderOK, HeadsOrdered
    <3>3. ASSUME NEW z \in Cells, Reach(g, x, z) PROVE key[z] # key[c]
      <4>1. Closed(h, h.linked) /\ h.linked \in SUBSET Cells
        BY <1>2, LinkedClosed DEF Table
      <4>2. Reach(h, x, z)
        BY <1>2, <1>3, <3>1, <3>3, <4>1, AddReach
      <4>3. z \in h.linked
        BY <3>1, <4>1, <4>2 DEF Reach
      <4> QED
        BY <1>a, <1>b, <1>c, <4>3 DEF ListInv, SafeInv, NodesInv, KeysOK, Matching
    <3> QED
      BY <1>a, <1>b, <1>c, <2>1, <3>1, <3>2, <3>3
  <2>2. CASE ~(j = k /\ y = c)
    <3>1. PICK x : x = hash[j].next[y] /\ x = hash'[j].next[y] /\ x # NULL
      BY <1>3, <1>4, <1>c, <2>2
    <3>2. Protects(r, j, y)
      BY <1>5, <2>2
    <3>3. /\ x \in Cells /\ Protects(r, j, x)
          /\ BucketOf[key[x]] = BucketOf[key[y]]
          /\ \A z \in Cells : Reach(hash[j], x, z) => key[z] # key[y]
      <4>1. x = hash[j].next[y] /\ x # NULL
        BY <3>1
      <4> HIDE <3>1
      <4> QED
        BY <3>2, <4>1, NextOrdered
    <3> QED
      BY <1>6, <3>1, <3>2, <3>3
  <2> QED
    BY <2>1, <2>2
<1>9. ASSUME NEW r \in Readers PROVE CopiedOK(r)' /\ AheadOK(r)'
  <2>1. CopiedOK(r)'
    BY <1>1 DEF ListInv, ListingsOK, CopiedOK
  <2>2. ASSUME rpc[r] = "list_walk", rcell[r] # NULL
        PROVE  /\ BucketOf[key[rcell[r]]] = bucket[r]
               /\ \A z \in Cells : Reach(hash'[rkind[r]], rcell[r], z) =>
                     \A i \in 1 .. Len(list[r]) : list[r][i] # key[z]
    <3>1. PICK j \in Kinds, x \in Cells : j = rkind[r] /\ x = rcell[r] /\ Protects(r, j, x)
      BY <2>2 DEF ListInv, SafeInv, NodesInv, TypesOK, ReadersOK
    <3>2. \A z \in Cells : Reach(hash'[j], x, z) => Reach(hash[j], x, z)
      BY <1>6, <3>1
    <3> QED
      BY <2>2, <3>1, <3>2 DEF ListInv, ListingsOK, AheadOK
  <2> QED
    BY <1>1, <2>1, <2>2 DEF AheadOK
<1> QED
  BY <1>7, <1>8, <1>9 DEF OrderOK, ListingsOK

\* hash_del_rcu.  A walk meets nothing it would not have met before.
LEMMA DelListings ==
    ASSUME ListInv, SafeInv', NEW w \in Writers, Del(w)
    PROVE  OrderOK' /\ ListingsOK'
<1> USE NullAssumption
<1>a. KindOf(wkey[w]) \in Kinds /\ wcell[w] \in Linked(KindOf(wkey[w])) /\ wcell[w] \in Cells
      /\ wpc[w] = "der_del"
  BY KindOfType DEF Del, ListInv, SafeInv, NodesInv, LocalsOK, OwnersOK
<1>b. PICK c \in Cells, k \in Kinds : c = wcell[w] /\ k = KindOf(wkey[w])
  BY <1>a
<1>c. PICK h, g : h = hash[k] /\ g = hash'[k]
  OBVIOUS
<1>1. /\ UNCHANGED <<key, rpc, rkind, rcell, in_max, bucket, list, wkey, wcell, gp>>
      /\ wpc' = [wpc EXCEPT ![w] = "der_unlock"]
  BY DEF Del, WGoto, memoryVars, readerVars, listVars
<1>2. h \in Table /\ IsLists(h) /\ c \in h.linked
  BY <1>a, <1>b, <1>c DEF ListInv, SafeInv, NodesInv, TypesOK, ListsOK, Linked
<1>3. g = HashDel(h, c) /\ \A j \in Kinds : j # k => hash'[j] = hash[j]
  BY <1>b, <1>c DEF Del, ListInv, SafeInv, NodesInv, TypesOK
<1>4. /\ g.linked = h.linked \ {c}
      /\ \A b \in Buckets : g.head[b] = IF h.head[b] = c THEN h.next[c] ELSE h.head[b]
      /\ \A d \in Cells : g.next[d] =
            IF d \in h.linked \ {c} /\ h.next[d] = c THEN h.next[c] ELSE h.next[d]
  BY <1>2, <1>3, DelLists
<1>5. ASSUME NEW r \in Readers, NEW j \in Kinds, NEW y \in Cells, Protects(r, j, y)'
      PROVE  Protects(r, j, y)
  <2>1. \A v \in Writers : v # w => wpc'[v] = wpc[v]
    BY <1>1
  <2>2. hash'[j].linked \subseteq hash[j].linked
    BY <1>3, <1>4, <1>c
  <2>3. c \in Linked(k)
    BY <1>2, <1>c DEF Linked
  <2> QED
    BY <1>1, <1>5, <1>b, <2>1, <2>2, <2>3 DEF Protects, Linked
<1>6. ASSUME NEW j \in Kinds, NEW x \in Cells, NEW z \in Cells, Reach(hash'[j], x, z)
      PROVE  Reach(hash[j], x, z)
  <2>1. CASE j = k
    BY <1>2, <1>3, <1>6, <1>c, <2>1, DelReachOld
  <2>2. CASE j # k
    BY <1>3, <1>6, <2>2
  <2> QED
    BY <2>1, <2>2
<1>7. ASSUME NEW r \in Readers, NEW j \in Kinds, NEW y \in Cells, Protects(r, j, y),
             hash[j].next[y] # NULL
      PROVE  /\ hash[j].next[y] \in Cells
             /\ BucketOf[key[hash[j].next[y]]] = BucketOf[key[y]]
             /\ \A z \in Cells : Reach(hash[j], hash[j].next[y], z) => key[z] # key[y]
  BY <1>7, NextOrdered
<1>8. ASSUME NEW r \in Readers PROVE HeadsOrdered' /\ NodesOrdered(r)'
  <2>1. Protects(r, k, c)
    BY <1>2, <1>c DEF Protects, Linked
  <2>2. HeadsOrdered'
    <3>1. HeadsOrdered
      BY DEF ListInv, OrderOK
    <3>2. ASSUME NEW a \in Buckets, g.head[a] # NULL PROVE BucketOf[key[g.head[a]]] = a
      <4>1. CASE h.head[a] = c
        <5>1. BucketOf[key[c]] = a
          BY <1>c, <3>1, <4>1 DEF HeadsOrdered
        <5>2. g.head[a] = h.next[c]
          BY <1>4, <4>1
        <5> QED
          BY <1>7, <1>c, <2>1, <3>2, <5>1, <5>2
      <4>2. CASE h.head[a] # c
        BY <1>4, <1>c, <3>1, <3>2, <4>2 DEF HeadsOrdered
      <4> QED
        BY <4>1, <4>2
    <3> QED
      BY <1>1, <1>3, <1>c, <3>1, <3>2 DEF HeadsOrdered
  <2>3. NodesOrdered(r)'
    <3> SUFFICES ASSUME NEW j \in Kinds, NEW y \in Cells, Protects(r, j, y)',
                        hash'[j].next[y] # NULL
                 PROVE  /\ BucketOf[key[hash'[j].next[y]]] = BucketOf[key[y]]
                        /\ \A z \in Cells :
                              Reach(hash'[j], hash'[j].next[y], z) => key[z] # key[y]
      BY <1>1 DEF NodesOrdered, Succ
    <3>1. Protects(r, j, y)
      BY <1>5
    <3>2. CASE hash'[j].next[y] = hash[j].next[y]
      <4>1. PICK x : x = hash[j].next[y]
        OBVIOUS
      <4>2. /\ x \in Cells /\ BucketOf[key[x]] = BucketOf[key[y]]
            /\ \A z \in Cells : Reach(hash[j], x, z) => key[z] # key[y]
        BY <1>7, <3>1, <3>2, <4>1
      <4> QED
        BY <1>6, <3>2, <4>1, <4>2
    <3>3. CASE hash'[j].next[y] # hash[j].next[y]
      <4>1. j = k /\ h.next[y] = c /\ hash'[j].next[y] = h.next[c]
        BY <1>3, <1>4, <1>c, <3>3
      <4>2. /\ BucketOf[key[c]] = BucketOf[key[y]]
            /\ \A z \in Cells : Reach(h, c, z) => key[z] # key[y]
        BY <1>7, <1>c, <3>1, <4>1
      <4>3. PICK x : x = h.next[c] /\ x # NULL
        BY <4>1
      <4>4. x \in Cells /\ BucketOf[key[x]] = BucketOf[key[c]]
        BY <1>7, <1>c, <2>1, <4>3
      <4>5. ASSUME NEW z \in Cells, Reach(hash'[j], x, z) PROVE key[z] # key[y]
        <5>1. Reach(h, x, z)
          BY <1>6, <1>c, <4>1, <4>4, <4>5
        <5>2. Reach(h, c, z)
          BY <1>2, <4>3, <5>1, ReachBack
        <5> QED
          BY <4>2, <5>2
      <4> QED
        BY <4>1, <4>2, <4>3, <4>4, <4>5
    <3> QED
      BY <3>2, <3>3
  <2> QED
    BY <2>2, <2>3
<1>9. ASSUME NEW r \in Readers PROVE CopiedOK(r)' /\ AheadOK(r)'
  <2>1. CopiedOK(r)'
    BY <1>1 DEF ListInv, ListingsOK, CopiedOK
  <2>2. ASSUME rpc[r] = "list_walk", rcell[r] # NULL
        PROVE  /\ BucketOf[key[rcell[r]]] = bucket[r]
               /\ \A z \in Cells : Reach(hash'[rkind[r]], rcell[r], z) =>
                     \A i \in 1 .. Len(list[r]) : list[r][i] # key[z]
    <3>1. PICK j \in Kinds, x \in Cells : j = rkind[r] /\ x = rcell[r]
      BY <2>2 DEF ListInv, SafeInv, NodesInv, TypesOK
    <3>2. \A z \in Cells : Reach(hash'[j], x, z) => Reach(hash[j], x, z)
      BY <1>6, <3>1
    <3> QED
      BY <2>2, <3>1, <3>2 DEF ListInv, ListingsOK, AheadOK
  <2> QED
    BY <1>1, <2>1, <2>2 DEF AheadOK
<1> QED
  BY <1>8, <1>9 DEF OrderOK, ListingsOK

\* Every step of a writer keeps the order and the listings.
LEMMA WriterListings ==
    ASSUME ListInv, SafeInv', NEW w \in Writers, WriterStep(w)
    PROVE  OrderOK' /\ ListingsOK'
<1> USE NullAssumption
<1> USE DEF tableVars, memoryVars, readerVars, listVars, WGoto, WReturn
<1>t. /\ wpc \in [Writers -> WriterPCs] /\ wcell \in [Writers -> Cells \cup {NULL}]
      /\ gp \in [Writers -> SUBSET Readers] /\ key \in [Cells -> Keys \cup {NULL}]
      /\ wkey \in [Writers -> Keys \cup {NULL}]
      /\ \A kind \in Kinds : Linked(kind) \subseteq Cells /\ Linked(kind) \subseteq allocated
  BY DEF ListInv, SafeInv, NodesInv, TypesOK, Table, OwnersOK, Linked
<1>1. ASSUME NEW k \in Keys, Alloc(w, k) PROVE OrderOK' /\ ListingsOK'
  <2>1. \A x \in allocated : key'[x] = key[x]
    BY <1>1, <1>t DEF Alloc, ListInv, SafeInv, NodesInv, TypesOK
  <2>2. UNCHANGED <<hash, rpc, rkind, rcell, in_max, bucket, list>>
    BY <1>1 DEF Alloc
  <2>3. ASSUME NEW r \in Readers, NEW kind \in Kinds, NEW x \in Cells, Protects(r, kind, x)'
        PROVE  Protects(r, kind, x) /\ key'[x] = key[x]
    <3>1. Protects(r, kind, x)
      <4>1. wpc'[w] = "reg_lock" /\ \A v \in Writers : v # w =>
               wpc'[v] = wpc[v] /\ wcell'[v] = wcell[v] /\ wkey'[v] = wkey[v]
        BY <1>1, <1>t DEF Alloc
      <4>2. gp' = gp /\ hash' = hash
        BY <1>1 DEF Alloc
      <4> HIDE <1>1
      <4> QED
        BY <2>3, <4>1, <4>2 DEF Protects, Linked
    <3>2. x \in allocated
      BY <1>t, <3>1 DEF Protects, ListInv, SafeInv, NodesInv, OwnersOK, Removed
    <3> QED
      BY <2>1, <3>1, <3>2
  <2> QED
    BY <1>t, <2>1, <2>2, <2>3, SameListings
<1>2. CASE Exists(w) \/ DeregisterFree(w)
  <2>1. /\ key' = [key EXCEPT ![wcell[w]] = NULL] /\ wpc'[w] = "idle"
        /\ \A v \in Writers : v # w =>
              wpc'[v] = wpc[v] /\ wcell'[v] = wcell[v] /\ wkey'[v] = wkey[v]
        /\ UNCHANGED <<gp, hash, rpc, rkind, rcell, in_max, bucket, list>>
        /\ wpc[w] \in Private \cup Removed
    BY <1>2, <1>t DEF Exists, DeregisterFree, Free, Private, Removed
  <2> HIDE <1>2
  <2>2. /\ \A kind \in Kinds : wcell[w] \notin Linked(kind)
        /\ \A v \in Writers : v # w => wcell[v] # wcell[w]
    BY <2>1, OwnNode DEF ListInv, SafeInv, NodesInv, OwnersOK, InTable
  <2>3. \A x \in Cells : x # wcell[w] => key'[x] = key[x]
    BY <1>t, <2>1
  <2>4. ASSUME NEW r \in Readers, NEW kind \in Kinds, NEW x \in Cells, Protects(r, kind, x)'
        PROVE  Protects(r, kind, x) /\ x # wcell[w]
    <3>1. Linked(kind)' = Linked(kind)
      BY <2>1 DEF Linked
    <3>2. CASE x \in Linked(kind)
      BY <2>2, <3>2 DEF Protects
    <3>3. CASE x \notin Linked(kind)
      <4>1. PICK v \in Writers : /\ wcell'[v] = x /\ KindOf(wkey'[v]) = kind
                                 /\ \/ wpc'[v] = "der_unlock"
                                    \/ wpc'[v] = "der_sync" /\ r \in gp'[v]
        BY <2>4, <3>1, <3>3 DEF Protects
      <4>2. v # w
        BY <2>1, <4>1
      <4> QED
        BY <2>1, <2>2, <4>1, <4>2 DEF Protects
    <3> QED
      BY <3>2, <3>3
  <2>5. \A kind \in Kinds : \A t \in Linked(kind) : key'[t] = key[t]
    BY <1>t, <2>2, <2>3
  <2> QED
    BY <2>1, <2>3, <2>4, <2>5, SameListings
<1>3. CASE Lock(w) \/ Unlock(w) \/ \E k \in Keys : DeregisterLock(w, k)
  <2>1. /\ UNCHANGED <<hash, key, gp, rpc, rkind, rcell, in_max, bucket, list>>
        /\ wpc'[w] \notin {"der_unlock", "der_sync"}
        /\ \A v \in Writers : v # w =>
              wpc'[v] = wpc[v] /\ wcell'[v] = wcell[v] /\ wkey'[v] = wkey[v]
    BY <1>3, <1>t DEF Lock, Unlock, DeregisterLock
  <2> HIDE <1>3
  <2>2. ASSUME NEW r \in Readers, NEW kind \in Kinds, NEW x \in Cells, Protects(r, kind, x)'
        PROVE  Protects(r, kind, x)
    BY <2>1, <2>2 DEF Protects, Linked
  <2> QED
    BY <2>1, <2>2, SameListings
<1>4. CASE DeregisterUnlock(w)
  <2>1. /\ UNCHANGED <<hash, key, wcell, wkey, rpc, rkind, rcell, in_max, bucket, list>>
        /\ wpc[w] = "der_unlock"
        /\ \A v \in Writers : v # w => wpc'[v] = wpc[v] /\ gp'[v] = gp[v]
    BY <1>4, <1>t DEF DeregisterUnlock
  <2>2. ASSUME NEW r \in Readers, NEW kind \in Kinds, NEW x \in Cells, Protects(r, kind, x)'
        PROVE  Protects(r, kind, x)
    BY <2>1, <2>2 DEF Protects, Linked
  <2> QED
    BY <2>1, <2>2, SameListings
<1> QED
  BY <1>1, <1>2, <1>3, <1>4, AddListings, DelListings DEF WriterStep

\* A listing that goes to the first node of a bucket.
LEMMA HeadAhead ==
    ASSUME ListInv, NEW r \in Readers, NEW kind \in Kinds, NEW b \in Buckets,
           NEW x, x = hash[kind].head[b], x # NULL
    PROVE  /\ x \in Cells /\ BucketOf[key[x]] = b
           /\ \A z \in Cells : Reach(hash[kind], x, z) => BucketOf[key[z]] = b
<1>1. x \in Cells /\ Protects(r, kind, x)
  BY HeadProtected DEF ListInv, SafeInv, NodesInv, TypesOK, Table
<1>2. BucketOf[key[x]] = b /\ NodesOrdered(r)
  BY DEF ListInv, OrderOK, HeadsOrdered
<1>3. ASSUME NEW z \in Cells, Reach(hash[kind], x, z) PROVE BucketOf[key[z]] = b
  BY <1>1, <1>2, <1>3, ReachBucket DEF ListInv
<1> QED
  BY <1>1, <1>2, <1>3

\* A key that is not in the list is copied.
LEMMA AppendCopied ==
    ASSUME NEW s \in Seq(Keys), NEW e \in Keys, NEW t, t = Append(s, e),
           \A i, j \in 1 .. Len(s) : i # j => s[i] # s[j],
           \A i \in 1 .. Len(s) : s[i] # e
    PROVE  /\ Len(t) = Len(s) + 1
           /\ \A i \in 1 .. Len(t) : (i \in 1 .. Len(s) /\ t[i] = s[i]) \/ t[i] = e
           /\ \A i, j \in 1 .. Len(t) : i # j => t[i] # t[j]
<1>1. Len(t) = Len(s) + 1 /\ Len(s) \in Nat
  OBVIOUS
<1>2. \A i \in 1 .. Len(s) : t[i] = s[i]
  OBVIOUS
<1>3. t[Len(s) + 1] = e
  OBVIOUS
<1>4. \A i \in 1 .. Len(t) : i \in 1 .. Len(s) \/ i = Len(s) + 1
  BY <1>1
<1> QED
  BY <1>1, <1>2, <1>3, <1>4

\* Every step of a reader keeps the order and the listings.
LEMMA ReaderListings ==
    ASSUME ListInv, SafeInv', NEW r \in Readers, ReaderStep(r)
    PROVE  OrderOK' /\ ListingsOK'
<1> USE NullAssumption
<1> USE DEF RGoto, ReadUnlock, tableVars, memoryVars, writerVars, checkVars, listVars
<1>1. UNCHANGED <<hash, key, wpc, wkey, wcell>>
  BY DEF ReaderStep, Enter, Begin, CheckBegin, CheckNext, Found, CheckEnd, Leave,
         ListSize, ListBegin, ListCopy, ListNextBucket, ListEnd, ListReturn
<1>t. /\ rpc \in [Readers -> ReaderPCs] /\ rcell \in [Readers -> Cells \cup {NULL}]
      /\ rkind \in [Readers -> Kinds] /\ in_max \in [Readers -> Nat]
      /\ bucket \in [Readers -> Buckets] /\ list \in [Readers -> Seq(Keys)]
      /\ gp \in [Writers -> SUBSET Readers]
      /\ rpc[r] \notin {"list_walk", "listed"} => list[r] = <<>> /\ bucket[r] = 1
  BY DEF ListInv, SafeInv, NodesInv, TypesOK, LocalsOK
<1>2. OrderOK'
  <2>1. \A v \in Writers : gp'[v] \subseteq gp[v]
    BY <1>t DEF ReaderStep, Enter, Begin, CheckBegin, CheckNext, Found, CheckEnd, Leave,
                ListSize, ListBegin, ListCopy, ListNextBucket, ListEnd, ListReturn
  <2>2. \A q \in Readers : \A kind \in Kinds : \A x \in Cells :
           Protects(q, kind, x)' => Protects(q, kind, x)
    BY <1>1, <2>1 DEF Protects, Linked
  <2> QED
    BY <1>1, <2>2, OrderKept
<1>q. \A q \in Readers : q # r => /\ rpc'[q] = rpc[q] /\ rcell'[q] = rcell[q]
                                  /\ rkind'[q] = rkind[q] /\ in_max'[q] = in_max[q]
                                  /\ bucket'[q] = bucket[q] /\ list'[q] = list[q]
  BY <1>t DEF ReaderStep, Enter, Begin, CheckBegin, CheckNext, Found, CheckEnd, Leave,
              ListSize, ListBegin, ListCopy, ListNextBucket, ListEnd, ListReturn
<1>3. ASSUME NEW q \in Readers, q # r PROVE CopiedOK(q)' /\ AheadOK(q)'
  BY <1>1, <1>3, <1>q DEF ListInv, ListingsOK, CopiedOK, AheadOK
<1>4. SUFFICES ASSUME ListInv, ReaderStep(r) PROVE CopiedOK(r)' /\ AheadOK(r)'
  BY <1>2, <1>3, <1>4 DEF ListingsOK
<1>5. CopiedOK(r) /\ AheadOK(r)
  BY DEF ListInv, ListingsOK
<1>6. ASSUME list'[r] = <<>>, in_max'[r] \in Nat, rpc'[r] # "list_walk"
      PROVE  CopiedOK(r)' /\ AheadOK(r)'
  BY <1>6 DEF CopiedOK, AheadOK
<1>7. ASSUME list'[r] = list[r], in_max'[r] = in_max[r], bucket'[r] = bucket[r],
             rpc'[r] # "list_walk" \/ rcell'[r] = NULL
      PROVE  CopiedOK(r)' /\ AheadOK(r)'
  BY <1>5, <1>7 DEF CopiedOK, AheadOK
<1>8. CASE \E u \in Uids, p \in Progs : Enter(r, u, p)
  BY <1>7, <1>8, <1>t DEF Enter
<1>9. CASE Begin(r)
  BY <1>7, <1>9, <1>t DEF Begin, CheckBegin
<1>10. CASE rpc[r] \in {"uid_walk", "prog_walk"} /\ CheckNext(r)
  BY <1>7, <1>10, <1>t DEF CheckNext
<1>11. CASE Found(r)
  BY <1>7, <1>11, <1>t DEF Found, CheckEnd
<1>12. CASE Leave(r)
  BY <1>7, <1>12, <1>t DEF Leave
<1>13. CASE \E kind \in Kinds, max \in ListMax : ListSize(r, kind, max)
  <2>1. list'[r] = <<>> /\ rpc'[r] = "list_begin"
    BY <1>13, <1>t DEF ListSize
  <2>2. in_max'[r] \in Nat
    BY DEF SafeInv, NodesInv, TypesOK
  <2> QED
    BY <1>6, <2>1, <2>2
<1>14. CASE ListBegin(r)
  <2>1. /\ list'[r] = <<>> /\ bucket'[r] = 1 /\ rkind'[r] = rkind[r] /\ in_max'[r] = in_max[r]
        /\ rcell'[r] = hash[rkind[r]].head[1] /\ 1 \in Buckets
    BY <1>14, <1>t, BucketsAssumption DEF ListBegin, Buckets
  <2>2. rcell'[r] # NULL => BucketOf[key[rcell'[r]]] = 1
    BY <1>t, <2>1, HeadAhead
  <2> QED
    BY <1>1, <1>t, <2>1, <2>2 DEF CopiedOK, AheadOK
<1>15. CASE ListCopy(r)
  <2>a. PICK kind \in Kinds, x \in Cells : kind = rkind[r] /\ x = rcell[r]
    BY <1>15, <1>t DEF ListCopy
  <2>b. PICK s, e, n : s = list[r] /\ e = key[x] /\ n = hash[kind].next[x]
    OBVIOUS
  <2>1. /\ s = list[r] /\ kind = rkind[r] /\ x = rcell[r] /\ e = key[x]
        /\ n = hash[kind].next[x]
    BY <2>a, <2>b
  <2>2. /\ rpc[r] = "list_walk" /\ list'[r] = Append(s, e) /\ rcell'[r] = n
        /\ Len(s) < in_max[r] /\ rkind'[r] = kind /\ in_max'[r] = in_max[r]
        /\ bucket'[r] = bucket[r] /\ x # NULL
    BY <1>15, <1>t, <2>1 DEF ListCopy
  <2> HIDE <1>15
  <2>3. Protects(r, kind, x)
    BY <2>1, <2>2 DEF ListInv, SafeInv, ReadersOK
  <2>4. s \in Seq(Keys) /\ e \in Keys
    <3>1. ASSUME NEW v \in Writers, wcell[v] = x, wpc[v] # "idle" PROVE e \in Keys
      BY <2>1, <3>1 DEF ListInv, SafeInv, NodesInv, LocalsOK, KeysOK
    <3> QED
      BY <1>t, <2>1, <2>3, <3>1 DEF Protects, ListInv, SafeInv, NodesInv, KeysOK
  <2>5. /\ \A i, j \in 1 .. Len(s) : i # j => s[i] # s[j]
        /\ \A i \in 1 .. Len(s) : BucketOf[s[i]] <= bucket[r]
        /\ BucketOf[e] = bucket[r]
        /\ \A z \in Cells : Reach(hash[kind], x, z) => \A i \in 1 .. Len(s) : s[i] # key[z]
    BY <1>5, <2>1, <2>2 DEF CopiedOK, AheadOK
  <2>6. \A i \in 1 .. Len(s) : s[i] # e
    BY <2>1, <2>5, ReachSelf
  <2>7. PICK t : t = Append(s, e)
    OBVIOUS
  <2>8. /\ Len(t) = Len(s) + 1
        /\ \A i \in 1 .. Len(t) : (i \in 1 .. Len(s) /\ t[i] = s[i]) \/ t[i] = e
        /\ \A i, j \in 1 .. Len(t) : i # j => t[i] # t[j]
    BY <2>4, <2>5, <2>6, <2>7, AppendCopied
  <2>9. CopiedOK(r)'
    <3>1. Len(s) \in Nat /\ in_max[r] \in Nat /\ bucket[r] \in Int
      BY <1>t, <2>4, BucketsAssumption DEF Buckets
    <3>2. Len(t) <= in_max[r]
      BY <2>2, <2>8, <3>1
    <3>3. \A i \in 1 .. Len(t) : BucketOf[t[i]] <= bucket[r]
      BY <2>5, <2>8, <3>1
    <3> QED
      BY <2>2, <2>7, <2>8, <3>2, <3>3 DEF CopiedOK
  <2>10. ASSUME n # NULL
         PROVE  /\ BucketOf[key[n]] = bucket[r]
                /\ \A z \in Cells : Reach(hash[kind], n, z) =>
                      \A i \in 1 .. Len(t) : t[i] # key[z]
    <3>1. /\ BucketOf[key[n]] = BucketOf[e]
          /\ \A z \in Cells : Reach(hash[kind], n, z) => key[z] # e
      <4>1. n = hash[kind].next[x] /\ e = key[x]
        BY <2>1
      <4> HIDE <2>a, <2>b, <2>1
      <4> QED
        BY <2>3, <2>10, <4>1, NextOrdered
    <3>2. ASSUME NEW z \in Cells, Reach(hash[kind], n, z) PROVE Reach(hash[kind], x, z)
      <4>1. hash[kind] \in Table
        BY DEF ListInv, SafeInv, NodesInv, TypesOK
      <4> QED
        BY <2>1, <2>10, <3>2, <4>1, ReachBack
    <3> QED
      BY <2>5, <2>8, <3>1, <3>2
  <2> QED
    BY <1>1, <2>2, <2>7, <2>9, <2>10 DEF AheadOK
<1>16. CASE ListNextBucket(r)
  <2>a. bucket[r] + 1 \in Buckets
    BY <1>16, <1>t, BucketsAssumption DEF ListNextBucket, Buckets
  <2>b. PICK kind \in Kinds, b \in Buckets : kind = rkind[r] /\ b = bucket[r] + 1
    BY <1>t, <2>a
  <2>c. PICK s, x : s = list[r] /\ x = hash[kind].head[b]
    OBVIOUS
  <2>1. s = list[r] /\ kind = rkind[r] /\ b = bucket[r] + 1 /\ x = hash[kind].head[b]
    BY <2>b, <2>c
  <2>2. /\ rcell'[r] = x /\ list'[r] = s /\ in_max'[r] = in_max[r] /\ rkind'[r] = kind
        /\ bucket'[r] = b
    BY <1>16, <1>t, <2>1 DEF ListNextBucket
  <2>3. /\ Len(s) <= in_max[r]
        /\ \A i, j \in 1 .. Len(s) : i # j => s[i] # s[j]
        /\ \A i \in 1 .. Len(s) : BucketOf[s[i]] <= bucket[r]
    BY <1>5, <2>1 DEF CopiedOK
  <2>4. bucket[r] \in Int /\ b \in Int /\ \A i \in 1 .. Len(s) : BucketOf[s[i]] \in Int
    BY <1>t, <2>1, BucketsAssumption DEF Buckets
  <2>5. \A i \in 1 .. Len(s) : BucketOf[s[i]] <= b /\ BucketOf[s[i]] # b
    BY <2>1, <2>3, <2>4
  <2>6. ASSUME x # NULL
        PROVE  /\ BucketOf[key[x]] = b
               /\ \A z \in Cells : Reach(hash[kind], x, z) => BucketOf[key[z]] = b
    <3>1. x = hash[kind].head[b]
      BY <2>1
    <3> HIDE <2>1, <2>b, <2>c
    <3> QED
      BY <2>6, <3>1, HeadAhead
  <2> QED
    BY <1>1, <2>2, <2>3, <2>5, <2>6 DEF CopiedOK, AheadOK
<1>17. CASE ListEnd(r)
  BY <1>7, <1>17, <1>t DEF ListEnd
<1>18. CASE ListReturn(r)
  BY <1>6, <1>18, <1>t DEF ListReturn
<1> QED
  BY <1>8, <1>9, <1>10, <1>11, <1>12, <1>13, <1>14, <1>15, <1>16, <1>17, <1>18 DEF ReaderStep

\* Every step keeps the listings.
LEMMA ListStep == ListInv /\ [Next]_vars => ListInv'
<1>1. ASSUME ListInv, UNCHANGED vars PROVE OrderOK' /\ ListingsOK'
  <2> USE <1>1 DEF vars, tableVars, memoryVars, writerVars, readerVars, listVars
  <2>1. SafeInv'
    BY SafeStep DEF ListInv
  <2>2. \A q \in Readers : \A kind \in Kinds : \A x \in Cells :
           Protects(q, kind, x)' => Protects(q, kind, x)
    BY DEF Protects, Linked
  <2> QED
    BY <2>1, <2>2, SameListings
<1> QED
  BY <1>1, SafeStep, Steps, WriterListings, ReaderListings DEF ListInv

\* The listings hold at the start.
LEMMA ListInit == Init => ListInv
<1> SUFFICES ASSUME Init PROVE ListInv
  OBVIOUS
<1>1. SafeInv
  BY SafeInit
<1>2. OrderOK
  BY DEF OrderOK, HeadsOrdered, NodesOrdered, Init, EmptyTable, Succ
<1>3. ListingsOK
  BY DEF ListingsOK, CopiedOK, AheadOK, Init
<1> QED
  BY <1>1, <1>2, <1>3 DEF ListInv

\* A listing fits the buffer that get_all_uids and get_all_progs sized before the walk,
\* and names no key twice, even if keys are removed and registered again behind the
\* walker.
THEOREM ListedOnce == Spec => []ListingFitsWithoutDuplicates
<1>1. ListInv => ListingFitsWithoutDuplicates
  BY DEF ListInv, ListingsOK, CopiedOK, ListingFitsWithoutDuplicates
<1> QED
  BY <1>1, ListInit, ListStep, PTL DEF Spec
=============================================================================
