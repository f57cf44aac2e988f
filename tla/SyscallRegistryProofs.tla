----------------------- MODULE SyscallRegistryProofs ------------------------
(***************************************************************************)
(* Theorems about the system call registry, for every set of system calls, *)
(* buckets, root processes and threads.                                    *)
(***************************************************************************)
EXTENDS SyscallRegistry, FiniteSetTheorems, TLAPS

-----------------------------------------------------------------------------
(***************************************************************************)
(* Type correctness.  The locals of a writer or a reader are set exactly   *)
(* while it is under way, which is what makes the types inductive.         *)
(***************************************************************************)
LocalsOK ==
    /\ \A w \in Writers : wpc[w] # "idle" => wnr[w] \in SysNums
    /\ \A w \in Writers : wpc[w] \notin {"idle", "efault"} => wcell[w] \in Cells
    /\ \A r \in Readers : rpc[r] # "user" => rnr[r] \in SysNums

TypeInv == TypeOK /\ LocalsOK

\* Adding a node keeps the table a table.
LEMMA HashAddType ==
    ASSUME NEW h \in [head : [Buckets -> Cells \cup {NULL}],
                      next : [Cells -> Cells \cup {NULL}],
                      linked : SUBSET Cells],
           NEW b \in Buckets, NEW c \in Cells
    PROVE  HashAdd(h, b, c) \in [head : [Buckets -> Cells \cup {NULL}],
                                 next : [Cells -> Cells \cup {NULL}],
                                 linked : SUBSET Cells]
  BY DEF HashAdd

\* Removing a node keeps the table a table.
LEMMA HashDelType ==
    ASSUME NEW h \in [head : [Buckets -> Cells \cup {NULL}],
                      next : [Cells -> Cells \cup {NULL}],
                      linked : SUBSET Cells],
           NEW c \in Cells
    PROVE  HashDel(h, c) \in [head : [Buckets -> Cells \cup {NULL}],
                              next : [Cells -> Cells \cup {NULL}],
                              linked : SUBSET Cells]
  BY DEF HashDel

\* Every step of register_system_call keeps the types.
LEMMA RegisterType ==
    ASSUME TypeInv, NEW w \in Writers, Register(w)
    PROVE  TypeInv'
<1> USE DEF TypeInv, TypeOK, LocalsOK, WriterPCs, WGoto, WReturn, Free, NoEntry
<1>1. CASE \E n \in SysNums : RegisterAlloc(w, n)
  BY <1>1 DEF RegisterAlloc, tableVars, readerVars
<1>2. CASE RegisterLock(w)
  BY <1>2 DEF RegisterLock, tableVars, memoryVars, readerVars
<1>3. CASE RegisterExists(w)
  BY <1>3 DEF RegisterExists, tableVars, readerVars
<1>4. CASE RegisterHack(w)
  BY <1>4 DEF RegisterHack, readerVars
<1>5. CASE RegisterMark(w)
  BY <1>5 DEF RegisterMark, memoryVars, readerVars
<1>6. CASE RegisterAdd(w)
  <2>1. BucketOf[wnr[w]] \in Buckets /\ wcell[w] \in Cells
    BY <1>6 DEF RegisterAdd, Buckets
  <2>2. hacked_syscall_hash' \in [head : [Buckets -> Cells \cup {NULL}],
                                  next : [Cells -> Cells \cup {NULL}],
                                  linked : SUBSET Cells]
    BY <1>6, <2>1, HashAddType DEF RegisterAdd
  <2> QED
    BY <1>6, <2>2 DEF RegisterAdd, memoryVars, readerVars
<1>7. CASE RegisterUnlock(w)
  BY <1>7 DEF RegisterUnlock, memoryVars, readerVars
<1> QED
  BY <1>1, <1>2, <1>3, <1>4, <1>5, <1>6, <1>7 DEF Register

\* Every step of deregister_system_call keeps the types.
LEMMA DeregisterType ==
    ASSUME TypeInv, NEW w \in Writers, Deregister(w)
    PROVE  TypeInv'
<1> USE DEF TypeInv, TypeOK, LocalsOK, WriterPCs, WGoto, WReturn, Free, NoEntry
<1>1. ASSUME NEW n \in SysNums, DeregisterLock(w, n) PROVE TypeInv'
  <2>1. CASE Matching(n) # {}
    <3>1. PICK c \in Cells : wcell' = [wcell EXCEPT ![w] = c]
      BY <1>1, <2>1 DEF DeregisterLock, Matching
    <3> QED
      BY <1>1, <2>1, <3>1 DEF DeregisterLock, tableVars, memoryVars, readerVars
  <2>2. CASE Matching(n) = {}
    BY <1>1, <2>2 DEF DeregisterLock, tableVars, memoryVars, readerVars
  <2> QED
    BY <2>1, <2>2
<1>2. CASE DeregisterRestore(w)
  BY <1>2 DEF DeregisterRestore, memoryVars, readerVars
<1>3. CASE DeregisterUnmark(w)
  BY <1>3 DEF DeregisterUnmark, memoryVars, readerVars
<1>4. CASE DeregisterDel(w)
  <2>1. hacked_syscall_hash' \in [head : [Buckets -> Cells \cup {NULL}],
                                  next : [Cells -> Cells \cup {NULL}],
                                  linked : SUBSET Cells]
    BY <1>4, HashDelType DEF DeregisterDel
  <2> QED
    BY <1>4, <2>1 DEF DeregisterDel, memoryVars, readerVars
<1>5. CASE DeregisterUnlock(w)
  BY <1>5 DEF DeregisterUnlock, memoryVars, readerVars
<1>6. CASE DeregisterFree(w)
  BY <1>6 DEF DeregisterFree, tableVars, readerVars
<1> QED
  BY <1>1, <1>2, <1>3, <1>4, <1>5, <1>6 DEF Deregister

\* Every step of a reader keeps the types.
LEMMA ReaderType ==
    ASSUME TypeInv, NEW r \in Readers, Reader(r)
    PROVE  TypeInv'
<1> USE DEF TypeInv, TypeOK, LocalsOK, ReaderPCs, Walks, RGoto
<1>1. CASE \E n \in SysNums : Dispatch(r, n)
  BY <1>1 DEF Dispatch, tableVars, memoryVars, writerVars
<1>2. CASE \E n \in SysNums : GetBegin(r, n)
  BY <1>2 DEF GetBegin, WalkBegin, Buckets, tableVars, memoryVars, writerVars
<1>3. CASE LookupBegin(r) \/ StatBegin(r)
  BY <1>3 DEF LookupBegin, StatBegin, WalkBegin, Buckets, tableVars, memoryVars,
              writerVars
<1>4. CASE Call(r)
  BY <1>4 DEF Call, RReturn, tableVars, memoryVars, writerVars
<1>5. CASE LookupNext(r) \/ StatNext(r) \/ GetNext(r)
  BY <1>5 DEF LookupNext, StatNext, GetNext, WalkNext, tableVars, memoryVars,
              writerVars
<1>6. CASE LookupEnd(r)
  BY <1>6 DEF LookupEnd, WalkEnd, Found, tableVars, memoryVars
<1>7. CASE StatEnd(r)
  BY <1>7 DEF StatEnd, WalkEnd, tableVars, memoryVars
<1>8. CASE GetEnd(r)
  BY <1>8 DEF GetEnd, WalkEnd, RReturn, tableVars, memoryVars
<1> QED
  BY <1>1, <1>2, <1>3, <1>4, <1>5, <1>6, <1>7, <1>8 DEF Reader, Section

\* The types are inductive together with the locals.
LEMMA TypeStep == TypeInv /\ [Next]_vars => TypeInv'
<1>1. ASSUME TypeInv, UNCHANGED vars PROVE TypeInv'
  BY <1>1 DEF TypeInv, TypeOK, LocalsOK, vars, tableVars, memoryVars, writerVars,
              readerVars
<1> QED
  BY <1>1, RegisterType, DeregisterType, ReaderType DEF Next

\* The types hold at the start.
LEMMA TypeInit == Init => TypeInv
  BY DEF Init, TypeInv, TypeOK, LocalsOK, WriterPCs, ReaderPCs, EmptyTable, NoEntry

\* The type invariant of the registry: tables, entries and the locals of writers
\* and readers stay in their ranges; in particular only allocated memory, never a
\* null pointer, is linked into the hash table.
THEOREM TypeCorrect == Spec => []TypeOK
<1>1. TypeInv => TypeOK
  BY DEF TypeInv
<1> QED
  BY <1>1, TypeInit, TypeStep, PTL DEF Spec

-----------------------------------------------------------------------------
(***************************************************************************)
(* No use after free.  A reader may stand on a node that has been removed  *)
(* and walk on along next pointers that are no longer maintained.  What it *)
(* needs is that every node it can still reach is protected from being     *)
(* freed by this very reader: the node is in the table, or its remover has *)
(* not begun its grace period, or that grace period waits for the reader.  *)
(***************************************************************************)
Head == hacked_syscall_hash.head
Succ == hacked_syscall_hash.next
Linked == hacked_syscall_hash.linked

\* The writers that have a node of their own, which is not in the table.
Private == {"reg_lock", "reg_exists", "reg_hack", "reg_mark", "reg_add"}
Removed == {"der_unlock", "der_sync"}
Removing == {"der_restore", "der_unmark", "der_del"}
Locked == {"reg_exists", "reg_hack", "reg_mark", "reg_add", "reg_unlock",
           "der_restore", "der_unmark", "der_del", "der_unlock"}

\* Node c cannot be freed before reader r leaves its section.
Protects(r, c) ==
    \/ c \in Linked
    \/ \E w \in Writers : /\ wcell[w] = c
                          /\ \/ wpc[w] = "der_unlock"
                             \/ wpc[w] = "der_sync" /\ r \in gp[w]

\* The lock is held by whoever is between lock and unlock, and every node that is
\* not in the table has one owner.
OwnersOK ==
    /\ \A w \in Writers : wpc[w] \in Locked => write_lock = w
    /\ Linked \subseteq allocated
    /\ \A w \in Writers : wpc[w] \in Private \cup Removed =>
                             wcell[w] \in allocated \ Linked
    /\ \A w \in Writers : wpc[w] \in Removing => wcell[w] \in Linked
    /\ \A v, w \in Writers :
          v # w /\ wpc[v] \in Private \cup Removed /\ wpc[w] \in Private \cup Removed
             => wcell[v] # wcell[w]

\* The buckets are lists: they lead from linked nodes to linked nodes, and no node
\* has two predecessors, so that removing one never leaves a pointer to it.
ListsOK ==
    /\ \A b \in Buckets : Head[b] \in Linked \cup {NULL}
    /\ \A c \in Linked : Succ[c] \in Linked \cup {NULL}
    /\ \A b1, b2 \in Buckets : Head[b1] = Head[b2] /\ Head[b1] # NULL => b1 = b2
    /\ \A c, d \in Linked : Succ[c] = Succ[d] /\ Succ[c] # NULL => c = d
    /\ \A b \in Buckets, c \in Linked : Head[b] # NULL => Head[b] # Succ[c]
    /\ \A w \in Writers : wpc[w] = "der_unlock" =>
          Succ[wcell[w]] \in Linked \cup {NULL, wcell[w]}

\* Every reader stands on a node it protects, and protection is handed on along the
\* next pointers, also those of removed nodes.
ReadersOK ==
    /\ \A r \in Readers : r \in reading <=> rpc[r] \in Walks
    /\ \A w \in Writers : gp[w] \subseteq reading
    /\ \A r \in Readers : rcell[r] # NULL => r \in reading /\ Protects(r, rcell[r])
    /\ \A r \in reading : \A c \in Cells :
          Protects(r, c) /\ Succ[c] # NULL => Protects(r, Succ[c])

RcuInv == TypeInv /\ OwnersOK /\ ListsOK /\ ReadersOK

\* What a reader protects has not been freed.
LEMMA ProtectedIsAllocated ==
    ASSUME OwnersOK, NEW r \in Readers, NEW c \in Cells, Protects(r, c)
    PROVE  c \in allocated
  BY DEF OwnersOK, Protects, Removed

\* A step of a writer that changes neither the table nor what the readers inside a
\* section protect keeps the readers.
LEMMA ReadersKept ==
    ASSUME TypeInv, ReadersOK,
           UNCHANGED <<hacked_syscall_hash, rpc, rcell, reading>>,
           \A w \in Writers : gp'[w] \subseteq reading,
           \A r \in reading : \A c \in Cells : Protects(r, c)' <=> Protects(r, c)
    PROVE  ReadersOK'
<1>1. \A r \in Readers : rcell[r] # NULL => rcell[r] \in Cells
  BY DEF TypeInv, TypeOK
<1>2. \A c \in Cells : Succ[c] # NULL => Succ[c] \in Cells
  BY DEF TypeInv, TypeOK, Succ
<1>3. Succ' = Succ
  BY DEF Succ
<1> QED
  BY <1>1, <1>2, <1>3 DEF ReadersOK

\* Every step of register_system_call keeps the owners, the lists and the readers.
LEMMA RegisterRcu ==
    ASSUME RcuInv, NEW w \in Writers, Register(w)
    PROVE  OwnersOK' /\ ListsOK' /\ ReadersOK'
<1> USE NullAssumption, WritersAssumption
<1> USE DEF RcuInv, TypeInv, TypeOK, LocalsOK, WGoto, WReturn, Free, Head, Succ, Linked
<1>1. CASE \E n \in SysNums : RegisterAlloc(w, n)
  <2>1. PICK n \in SysNums : RegisterAlloc(w, n)
    BY <1>1
  <2>2. OwnersOK'
    BY <2>1 DEF RegisterAlloc, tableVars, readerVars, OwnersOK, Private, Removed,
                Removing, Locked
  <2>3. ListsOK'
    BY <2>1 DEF RegisterAlloc, tableVars, readerVars, ListsOK
  <2>4. ReadersOK'
    <3>1. \A r \in reading : \A c \in Cells : Protects(r, c)' <=> Protects(r, c)
      BY <2>1 DEF RegisterAlloc, tableVars, Protects
    <3> QED
      BY <2>1, <3>1, ReadersKept DEF RegisterAlloc, tableVars, readerVars, ReadersOK
  <2> QED
    BY <2>2, <2>3, <2>4
<1>2. CASE RegisterLock(w)
  <2>1. OwnersOK'
    BY <1>2 DEF RegisterLock, tableVars, memoryVars, readerVars, OwnersOK, Private,
                Removed, Removing, Locked
  <2>2. ListsOK'
    BY <1>2 DEF RegisterLock, tableVars, memoryVars, readerVars, ListsOK
  <2>3. ReadersOK'
    <3>1. \A r \in reading : \A c \in Cells : Protects(r, c)' <=> Protects(r, c)
      BY <1>2 DEF RegisterLock, tableVars, Protects
    <3> QED
      BY <1>2, <3>1, ReadersKept DEF RegisterLock, tableVars, readerVars, ReadersOK
  <2> QED
    BY <2>1, <2>2, <2>3
<1>3. CASE RegisterExists(w)
  <2>1. OwnersOK'
    BY <1>3 DEF RegisterExists, tableVars, readerVars, OwnersOK, Private, Removed,
                Removing, Locked
  <2>2. ListsOK'
    BY <1>3 DEF RegisterExists, tableVars, readerVars, ListsOK
  <2>3. ReadersOK'
    <3>1. \A r \in reading : \A c \in Cells : Protects(r, c)' <=> Protects(r, c)
      BY <1>3 DEF RegisterExists, tableVars, Protects
    <3> QED
      BY <1>3, <3>1, ReadersKept DEF RegisterExists, tableVars, readerVars, ReadersOK
  <2> QED
    BY <2>1, <2>2, <2>3
<1>4. CASE RegisterHack(w) \/ RegisterMark(w)
  <2>1. OwnersOK'
    BY <1>4 DEF RegisterHack, RegisterMark, memoryVars, readerVars, OwnersOK, Private,
                Removed, Removing, Locked
  <2>2. ListsOK'
    BY <1>4 DEF RegisterHack, RegisterMark, memoryVars, readerVars, ListsOK
  <2>3. ReadersOK'
    <3>1. \A r \in reading : \A c \in Cells : Protects(r, c)' <=> Protects(r, c)
      BY <1>4 DEF RegisterHack, RegisterMark, tableVars, Protects
    <3> QED
      BY <1>4, <3>1, ReadersKept DEF RegisterHack, RegisterMark, tableVars, readerVars, ReadersOK
  <2> QED
    BY <2>1, <2>2, <2>3
<1>5. CASE RegisterAdd(w)
  <2> DEFINE c == wcell[w]
             b == BucketOf[wnr[w]]
  <2>1. b \in Buckets /\ c \in Cells /\ c \notin Linked /\ c \in allocated
    BY <1>5 DEF RegisterAdd, Buckets, OwnersOK, Private
  <2>2. /\ Linked' = Linked \cup {c}
        /\ Head' = [Head EXCEPT ![b] = c]
        /\ Succ' = [Succ EXCEPT ![c] = Head[b]]
    BY <1>5 DEF RegisterAdd, HashAdd
  <2>3. UNCHANGED <<allocated, write_lock, wcell, gp, reading, rcell, rpc>>
        /\ wpc' = [wpc EXCEPT ![w] = "reg_unlock"] /\ wpc[w] = "reg_add"
    BY <1>5 DEF RegisterAdd, memoryVars, readerVars
  <2> HIDE <1>5
  <2>4. OwnersOK'
    BY <2>1, <2>2, <2>3 DEF OwnersOK, Private, Removed, Removing, Locked
  <2>5. ListsOK'
    <3>1. write_lock = w /\ \A v \in Writers : wpc[v] # "der_unlock"
      BY <2>3 DEF OwnersOK, Locked
    <3> QED
      BY <2>1, <2>2, <2>3, <3>1 DEF ListsOK
  <2>6. ReadersOK'
    <3>1. ASSUME NEW r \in Readers, NEW x \in Cells
          PROVE  Protects(r, x)' <=> Protects(r, x) \/ x = c
      BY <2>2, <2>3 DEF Protects
    <3>2. ASSUME NEW r \in Readers, r \in reading', NEW x \in Cells, Protects(r, x)',
                 Succ'[x] # NULL
          PROVE  Protects(r, Succ[x])'
      <4>1. CASE x = c
        BY <2>1, <2>2, <3>2, <4>1 DEF ListsOK, Protects
      <4>2. CASE x # c
        BY <2>1, <2>2, <2>3, <3>1, <3>2, <4>2 DEF ReadersOK
      <4> QED
        BY <4>1, <4>2
    <3> QED
      BY <2>3, <3>1, <3>2 DEF ReadersOK
  <2> QED
    BY <2>4, <2>5, <2>6
<1>6. CASE RegisterUnlock(w)
  <2>1. OwnersOK'
    BY <1>6 DEF RegisterUnlock, memoryVars, readerVars, OwnersOK, Private, Removed,
                Removing, Locked
  <2>2. ListsOK'
    BY <1>6 DEF RegisterUnlock, memoryVars, readerVars, ListsOK
  <2>3. ReadersOK'
    <3>1. \A r \in reading : \A c \in Cells : Protects(r, c)' <=> Protects(r, c)
      BY <1>6 DEF RegisterUnlock, tableVars, Protects
    <3> QED
      BY <1>6, <3>1, ReadersKept DEF RegisterUnlock, tableVars, readerVars, ReadersOK
  <2> QED
    BY <2>1, <2>2, <2>3
<1> QED
  BY <1>1, <1>2, <1>3, <1>4, <1>5, <1>6 DEF Register

\* Every step of deregister_system_call keeps the owners, the lists and the readers.
LEMMA DeregisterRcu ==
    ASSUME RcuInv, NEW w \in Writers, Deregister(w)
    PROVE  OwnersOK' /\ ListsOK' /\ ReadersOK'
<1> USE NullAssumption, WritersAssumption
<1> USE DEF RcuInv, TypeInv, TypeOK, LocalsOK, WGoto, WReturn, Free, Head, Succ, Linked
<1>1. CASE \E n \in SysNums : DeregisterLock(w, n)
  <2>1. PICK n \in SysNums : DeregisterLock(w, n)
    BY <1>1
  <2>2. /\ wpc[w] = "idle"
        /\ UNCHANGED <<hacked_syscall_hash, allocated, gp, reading, rcell, rpc>>
        /\ \/ /\ \E c \in Linked : wcell' = [wcell EXCEPT ![w] = c]
              /\ write_lock = NULL /\ write_lock' = w
              /\ wpc' = [wpc EXCEPT ![w] = "der_restore"]
           \/ /\ UNCHANGED <<wcell, write_lock>>
              /\ wpc' = [wpc EXCEPT ![w] = "efault"]
    BY <2>1 DEF DeregisterLock, Matching, tableVars, memoryVars, readerVars
  <2> HIDE <1>1
  <2>3. OwnersOK'
    <3>1. ASSUME NEW c \in Linked, wcell' = [wcell EXCEPT ![w] = c],
                 write_lock = NULL, write_lock' = w,
                 wpc' = [wpc EXCEPT ![w] = "der_restore"]
          PROVE  OwnersOK'
      BY <2>2, <3>1 DEF OwnersOK, Private, Removed, Removing, Locked
    <3>2. CASE /\ UNCHANGED <<wcell, write_lock>>
               /\ wpc' = [wpc EXCEPT ![w] = "efault"]
      BY <2>2, <3>2 DEF OwnersOK, Private, Removed, Removing, Locked
    <3> QED
      BY <2>2, <3>1, <3>2
  <2>4. ListsOK'
    BY <2>2 DEF ListsOK
  <2>5. ReadersOK'
    <3>1. \A r \in reading : \A c \in Cells : Protects(r, c)' <=> Protects(r, c)
      BY <2>2 DEF Protects
    <3> QED
      BY <2>2, <3>1, ReadersKept DEF ReadersOK
  <2> QED
    BY <2>3, <2>4, <2>5
<1>2. CASE DeregisterRestore(w) \/ DeregisterUnmark(w)
  <2>1. OwnersOK'
    BY <1>2 DEF DeregisterRestore, DeregisterUnmark, memoryVars, readerVars, OwnersOK,
                Private, Removed, Removing, Locked
  <2>2. ListsOK'
    BY <1>2 DEF DeregisterRestore, DeregisterUnmark, memoryVars, readerVars, ListsOK
  <2>3. ReadersOK'
    <3>1. \A r \in reading : \A c \in Cells : Protects(r, c)' <=> Protects(r, c)
      BY <1>2 DEF DeregisterRestore, DeregisterUnmark, Protects
    <3> QED
      BY <1>2, <3>1, ReadersKept DEF DeregisterRestore, DeregisterUnmark, readerVars,
                                     ReadersOK
  <2> QED
    BY <2>1, <2>2, <2>3
<1>3. CASE DeregisterDel(w)
  <2> DEFINE c == wcell[w]
  <2>1. c \in Linked /\ c \in Cells
    BY <1>3 DEF DeregisterDel, OwnersOK, Removing
  <2>2. /\ Linked' = Linked \ {c}
        /\ \A b \in Buckets : Head'[b] = IF Head[b] = c THEN Succ[c] ELSE Head[b]
        /\ \A d \in Cells : Succ'[d] = IF d \in Linked \ {c} /\ Succ[d] = c
                                       THEN Succ[c] ELSE Succ[d]
    BY <1>3 DEF DeregisterDel, HashDel
  <2>3. UNCHANGED <<allocated, write_lock, wcell, gp, reading, rcell, rpc>>
        /\ wpc' = [wpc EXCEPT ![w] = "der_unlock"] /\ wpc[w] = "der_del"
    BY <1>3 DEF DeregisterDel, memoryVars, readerVars
  <2> HIDE <1>3
  <2>4. OwnersOK'
    BY <2>1, <2>2, <2>3 DEF OwnersOK, Private, Removed, Removing, Locked
  <2>5. ListsOK'
    <3>1. \A v \in Writers : wpc'[v] = "der_unlock" => v = w
      BY <2>3 DEF OwnersOK, Locked
    <3>2. \A b \in Buckets : Head'[b] \in Linked' \cup {NULL}
      BY <2>1, <2>2 DEF ListsOK
    <3>3. \A d \in Linked' : Succ'[d] \in Linked' \cup {NULL}
      BY <2>1, <2>2 DEF ListsOK
    <3>4. \A b1, b2 \in Buckets : Head'[b1] = Head'[b2] /\ Head'[b1] # NULL => b1 = b2
      BY <2>1, <2>2 DEF ListsOK
    <3>5. \A d, e \in Linked' : Succ'[d] = Succ'[e] /\ Succ'[d] # NULL => d = e
      BY <2>1, <2>2 DEF ListsOK
    <3>6. \A b \in Buckets, d \in Linked' : Head'[b] # NULL => Head'[b] # Succ'[d]
      BY <2>1, <2>2 DEF ListsOK
    <3>7. Succ'[c] \in Linked' \cup {NULL, c}
      BY <2>1, <2>2 DEF ListsOK
    <3> QED
      BY <2>3, <3>1, <3>2, <3>3, <3>4, <3>5, <3>6, <3>7 DEF ListsOK
  <2>6. ReadersOK'
    <3>1. ASSUME NEW r \in Readers, NEW x \in Cells
          PROVE  Protects(r, x)' <=> Protects(r, x)
      <4>1. CASE x = c
        <5>1. Protects(r, x)
          BY <2>1, <4>1 DEF Protects
        <5>2. Protects(r, x)'
          BY <2>3, <4>1 DEF Protects
        <5> QED
          BY <5>1, <5>2
      <4>2. CASE x # c
        BY <2>2, <2>3, <4>2 DEF Protects
      <4> QED
        BY <4>1, <4>2
    <3>2. ASSUME NEW r \in Readers, r \in reading', NEW x \in Cells, Protects(r, x)',
                 Succ'[x] # NULL
          PROVE  Protects(r, Succ[x])'
      <4>1. Protects(r, x)
        BY <3>1, <3>2
      <4>2. Succ'[x] = Succ[x] \/ (Succ[x] = c /\ Succ'[x] = Succ[c])
        BY <2>2
      <4>3. Succ'[x] \in Cells
        BY <2>1, <3>2, <4>2
      <4>4. Protects(r, Succ[x]) \/ Succ[x] = NULL
        BY <2>3, <3>2, <4>1 DEF ReadersOK
      <4>5. c # NULL
        BY <2>1
      <4>6. CASE Succ'[x] = Succ[x]
        BY <3>1, <3>2, <4>3, <4>4, <4>6
      <4>7. CASE Succ[x] = c /\ Succ'[x] = Succ[c]
        <5>1. Protects(r, c)
          BY <4>4, <4>5, <4>7
        <5>2. Protects(r, Succ[c])
          BY <2>1, <2>3, <3>2, <4>7, <5>1 DEF ReadersOK
        <5> QED
          BY <3>1, <4>3, <4>7, <5>2
      <4> QED
        BY <4>2, <4>6, <4>7
    <3> QED
      BY <2>3, <3>1, <3>2 DEF ReadersOK
  <2> QED
    BY <2>4, <2>5, <2>6
<1>4. CASE DeregisterUnlock(w)
  <2>1. OwnersOK'
    BY <1>4 DEF DeregisterUnlock, memoryVars, readerVars, OwnersOK, Private, Removed,
                Removing, Locked
  <2>2. ListsOK'
    BY <1>4 DEF DeregisterUnlock, memoryVars, readerVars, ListsOK
  <2>3. ReadersOK'
    <3>1. \A r \in reading : \A c \in Cells : Protects(r, c)' <=> Protects(r, c)
      BY <1>4 DEF DeregisterUnlock, Protects
    <3>2. \A v \in Writers : gp'[v] \subseteq reading
      BY <1>4 DEF DeregisterUnlock, ReadersOK
    <3> QED
      BY <1>4, <3>1, <3>2, ReadersKept DEF DeregisterUnlock, readerVars
  <2> QED
    BY <2>1, <2>2, <2>3
<1>5. CASE DeregisterFree(w)
  <2>1. OwnersOK'
    BY <1>5 DEF DeregisterFree, tableVars, readerVars, OwnersOK, Private, Removed,
                Removing, Locked
  <2>2. ListsOK'
    BY <1>5 DEF DeregisterFree, tableVars, readerVars, ListsOK
  <2>3. ReadersOK'
    <3>1. \A r \in reading : \A c \in Cells : Protects(r, c)' <=> Protects(r, c)
      BY <1>5 DEF DeregisterFree, tableVars, Protects
    <3> QED
      BY <1>5, <3>1, ReadersKept DEF DeregisterFree, tableVars, readerVars, ReadersOK
  <2> QED
    BY <2>1, <2>2, <2>3
<1> QED
  BY <1>1, <1>2, <1>3, <1>4, <1>5 DEF Deregister

\* Entering a section: the new reader protects what is in the table and the node
\* that is just being removed, and no grace period waits for it.
LEMMA WalkBeginRcu ==
    ASSUME RcuInv, NEW r \in Readers, NEW n \in SysNums, NEW label \in Walks,
           rpc[r] \notin Walks, WalkBegin(r, n, label),
           UNCHANGED <<hacked_syscall_hash, allocated, writerVars>>
    PROVE  OwnersOK' /\ ListsOK' /\ ReadersOK'
<1> USE NullAssumption
<1> USE DEF RcuInv, TypeInv, TypeOK, WalkBegin, RGoto, Head, Succ, Linked, writerVars
<1>1. OwnersOK' /\ ListsOK'
  BY DEF OwnersOK, ListsOK
<1>2. \A q \in Readers : \A c \in Cells : Protects(q, c)' <=> Protects(q, c)
  BY DEF Protects
<1>3. r \notin reading
  BY DEF ReadersOK
<1>4. \A c \in Cells : Protects(r, c) /\ Succ[c] # NULL => Protects(r, Succ[c])
  <2> SUFFICES ASSUME NEW c \in Cells, Protects(r, c), Succ[c] # NULL
               PROVE  Protects(r, Succ[c])
    OBVIOUS
  <2>1. CASE c \in Linked
    BY <2>1 DEF ListsOK, Protects
  <2>2. CASE c \notin Linked
    <3>1. PICK w \in Writers : wcell[w] = c /\ wpc[w] = "der_unlock"
      BY <1>3, <2>2 DEF Protects, ReadersOK
    <3>2. Succ[c] \in Linked \/ Succ[c] = c
      BY <3>1 DEF ListsOK
    <3> QED
      BY <3>2 DEF Protects
  <2> QED
    BY <2>1, <2>2
<1>5. \A q \in reading' : \A c \in Cells :
         Protects(q, c)' /\ Succ'[c] # NULL => Protects(q, Succ[c])'
  BY <1>2, <1>4 DEF ReadersOK
<1>6. \A q \in Readers : rcell'[q] # NULL => q \in reading' /\ Protects(q, rcell[q])'
  <2> SUFFICES ASSUME NEW q \in Readers, rcell'[q] # NULL
               PROVE  q \in reading' /\ Protects(q, rcell[q])'
    OBVIOUS
  <2>1. CASE q = r
    <3>1. rcell'[q] \in Linked
      BY <2>1 DEF ListsOK, Buckets
    <3> QED
      BY <2>1, <3>1 DEF Protects
  <2>2. CASE q # r
    BY <1>2, <2>2 DEF ReadersOK
  <2> QED
    BY <2>1, <2>2
<1>7. (\A q \in Readers : q \in reading' <=> rpc'[q] \in Walks)
      /\ \A w \in Writers : gp'[w] \subseteq reading'
  BY DEF ReadersOK
<1> QED
  BY <1>1, <1>5, <1>6, <1>7 DEF ReadersOK

\* Walking on: protection is handed on along the next pointer.
LEMMA WalkNextRcu ==
    ASSUME RcuInv, NEW r \in Readers, WalkNext(r)
    PROVE  OwnersOK' /\ ListsOK' /\ ReadersOK'
<1> USE NullAssumption
<1> USE DEF RcuInv, TypeInv, TypeOK, WalkNext, Head, Succ, Linked, tableVars,
            memoryVars, writerVars
<1>1. OwnersOK' /\ ListsOK'
  BY DEF OwnersOK, ListsOK
<1>2. \A q \in Readers : \A c \in Cells : Protects(q, c)' <=> Protects(q, c)
  BY DEF Protects
<1>3. rcell'[r] # NULL => Protects(r, rcell'[r])
  BY DEF ReadersOK
<1> QED
  BY <1>1, <1>2, <1>3 DEF ReadersOK

\* Leaving a section: no grace period waits for the reader any more, and what the
\* others protect stays protected.
LEMMA WalkEndRcu ==
    ASSUME RcuInv, NEW r \in Readers, WalkEnd(r),
           NEW label \in ReaderPCs \ Walks, RGoto(r, label),
           UNCHANGED <<hacked_syscall_hash, allocated, write_lock, wpc, wcell>>
    PROVE  OwnersOK' /\ ListsOK' /\ ReadersOK'
<1> USE NullAssumption
<1> USE DEF RcuInv, TypeInv, TypeOK, WalkEnd, RGoto, Head, Succ, Linked
<1>1. OwnersOK' /\ ListsOK'
  BY DEF OwnersOK, ListsOK
<1>2. \A q \in Readers \ {r} : \A c \in Cells : Protects(q, c)' <=> Protects(q, c)
  BY DEF Protects
<1>3. \A q \in reading' : q # r /\ q \in reading
  OBVIOUS
<1>4. \A q \in reading' : \A c \in Cells :
         Protects(q, c)' /\ Succ'[c] # NULL => Protects(q, Succ[c])'
  BY <1>2, <1>3 DEF ReadersOK
<1>5. \A q \in Readers : rcell'[q] # NULL => q \in reading' /\ Protects(q, rcell[q])'
  BY <1>2 DEF ReadersOK
<1>6. (\A q \in Readers : q \in reading' <=> rpc'[q] \in Walks)
      /\ \A w \in Writers : gp'[w] \subseteq reading'
  BY DEF ReadersOK
<1> QED
  BY <1>1, <1>4, <1>5, <1>6 DEF ReadersOK

\* Every step of a reader keeps the owners, the lists and the readers.
LEMMA ReaderRcu ==
    ASSUME RcuInv, NEW r \in Readers, Reader(r)
    PROVE  OwnersOK' /\ ListsOK' /\ ReadersOK'
<1> USE DEF tableVars, memoryVars
<1>1. CASE \E n \in SysNums : Dispatch(r, n)
  <2>1. /\ rpc[r] \notin Walks /\ rpc' = [rpc EXCEPT ![r] = "wrapper"]
        /\ UNCHANGED <<hacked_syscall_hash, allocated, writerVars, rcell, reading>>
    BY <1>1 DEF Dispatch, RGoto, Walks
  <2>2. OwnersOK' /\ ListsOK'
    BY <2>1 DEF RcuInv, OwnersOK, ListsOK, Head, Succ, Linked, writerVars
  <2>3. \A q \in Readers : \A c \in Cells : Protects(q, c)' <=> Protects(q, c)
    BY <2>1 DEF Protects, Linked, writerVars
  <2>4. \A q \in Readers : q \in reading' <=> rpc'[q] \in Walks
    BY <2>1 DEF RcuInv, ReadersOK, TypeInv, TypeOK, Walks
  <2> QED
    BY <2>1, <2>2, <2>3, <2>4
       DEF RcuInv, ReadersOK, TypeInv, TypeOK, Succ, writerVars
<1>2. CASE \E n \in SysNums : GetBegin(r, n)
  BY <1>2, WalkBeginRcu DEF GetBegin, Walks, writerVars
<1>3. CASE LookupBegin(r) \/ StatBegin(r)
  <2>1. rnr[r] \in SysNums
    BY <1>3 DEF RcuInv, TypeInv, LocalsOK, LookupBegin, StatBegin
  <2> QED
    BY <1>3, <2>1, WalkBeginRcu DEF LookupBegin, StatBegin, Walks, writerVars
<1>4. CASE Call(r)
  <2>1. /\ rpc[r] \notin Walks /\ rpc' = [rpc EXCEPT ![r] = "user"]
        /\ UNCHANGED <<hacked_syscall_hash, allocated, writerVars, rcell, reading>>
    BY <1>4 DEF Call, RReturn, RGoto, Walks
  <2>2. OwnersOK' /\ ListsOK'
    BY <2>1 DEF RcuInv, OwnersOK, ListsOK, Head, Succ, Linked, writerVars
  <2>3. \A q \in Readers : \A c \in Cells : Protects(q, c)' <=> Protects(q, c)
    BY <2>1 DEF Protects, Linked, writerVars
  <2>4. \A q \in Readers : q \in reading' <=> rpc'[q] \in Walks
    BY <2>1 DEF RcuInv, ReadersOK, TypeInv, TypeOK, Walks
  <2> QED
    BY <2>1, <2>2, <2>3, <2>4
       DEF RcuInv, ReadersOK, TypeInv, TypeOK, Succ, writerVars
<1>5. CASE LookupNext(r) \/ StatNext(r) \/ GetNext(r)
  BY <1>5, WalkNextRcu DEF LookupNext, StatNext, GetNext
<1>6. CASE LookupEnd(r)
  BY <1>6, WalkEndRcu DEF LookupEnd, ReaderPCs, Walks
<1>7. CASE StatEnd(r)
  BY <1>7, WalkEndRcu DEF StatEnd, ReaderPCs, Walks
<1>8. CASE GetEnd(r)
  BY <1>8, WalkEndRcu DEF GetEnd, RReturn, ReaderPCs, Walks
<1> QED
  BY <1>1, <1>2, <1>3, <1>4, <1>5, <1>6, <1>7, <1>8 DEF Reader, Section

\* The invariant is inductive.
LEMMA RcuStep == RcuInv /\ [Next]_vars => RcuInv'
<1>1. ASSUME RcuInv, UNCHANGED vars PROVE OwnersOK' /\ ListsOK' /\ ReadersOK'
  <2> USE <1>1 DEF RcuInv, vars, tableVars, memoryVars, writerVars, readerVars
  <2>1. OwnersOK' /\ ListsOK'
    BY DEF OwnersOK, ListsOK, Head, Succ, Linked
  <2>2. \A r \in reading : \A c \in Cells : Protects(r, c)' <=> Protects(r, c)
    BY DEF Protects, Linked
  <2>3. \A w \in Writers : gp'[w] \subseteq reading
    BY DEF ReadersOK
  <2> QED
    BY <2>1, <2>2, <2>3, ReadersKept
<1>2. ASSUME RcuInv, Next PROVE OwnersOK' /\ ListsOK' /\ ReadersOK'
  BY <1>2, RegisterRcu, DeregisterRcu, ReaderRcu DEF Next
<1> QED
  BY <1>1, <1>2, TypeStep DEF RcuInv

\* It holds at the start, when there are no nodes.
LEMMA RcuInit == Init => RcuInv
<1> SUFFICES ASSUME Init PROVE RcuInv
  OBVIOUS
<1>1. OwnersOK /\ ListsOK
  BY DEF Init, EmptyTable, OwnersOK, ListsOK, Head, Succ, Linked, Locked, Private,
         Removed, Removing
<1>2. ReadersOK
  BY DEF Init, EmptyTable, ReadersOK, Protects, Succ, Linked, Walks
<1> QED
  BY <1>1, <1>2, TypeInit DEF RcuInv

\* No walk of the hash table, by the wrapper, by check_and_set_statistic or by
\* get_syscall_stats, ever stands on memory that deregister_system_call or
\* register_system_call has freed.
THEOREM WalksAreSafe == Spec => []NoUseAfterFree
<1>1. RcuInv => NoUseAfterFree
  BY ProtectedIsAllocated DEF RcuInv, ReadersOK, NoUseAfterFree, TypeInv, TypeOK
<1> QED
  BY <1>1, RcuInit, RcuStep, PTL DEF Spec
-----------------------------------------------------------------------------
(***************************************************************************)
(* The records agree.  While a writer is between lock and unlock the flag, *)
(* the table, the hash table and sys_len disagree, each by as much as that *)
(* writer has not done yet; the invariant says by how much at every label, *)
(* and that a number no holder of the lock works on is settled.            *)
(***************************************************************************)
\* What the three records say of one number.
Recorded(n, routine, flag, found) ==
    /\ hacked_syscall_tbl[n] = routine
    /\ syscall_array[n] = flag
    /\ found <=> \E c \in Linked : entry[c].syscall_nr = n

Registered(n) == Recorded(n, Wrapper, 1, TRUE)
Unregistered(n) == Recorded(n, n, 0, FALSE)

\* Every allocated cell is in the table or a writer's, and an idle writer has none.
HandsOK ==
    /\ \A w \in Writers : wpc[w] # "efault"
    /\ \A w \in Writers : wpc[w] = "idle" => wcell[w] = NULL
    /\ \A w \in Writers : wpc[w] = "reg_unlock" => wcell[w] \in Linked
    /\ \A w \in Writers : write_lock = w => wpc[w] \in Locked
    /\ \A c \in allocated : c \in Linked \/ \E w \in Writers : wcell[w] = c

\* An entry carries the number it was made for and, once the table has been patched,
\* that number's own service routine; no two linked entries are for one number.
EntriesOK ==
    /\ \A w \in Writers : wpc[w] # "idle" => entry[wcell[w]].syscall_nr = wnr[w]
    /\ \A c, d \in Linked : entry[c].syscall_nr = entry[d].syscall_nr => c = d
    /\ \A c \in Linked : entry[c].original_syscall = entry[c].syscall_nr
    /\ \A w \in Writers : wpc[w] \in Removed \cup {"reg_mark", "reg_add"} =>
          entry[wcell[w]].original_syscall = entry[wcell[w]].syscall_nr

\* What is recorded of the number the holder of the lock works on, and of the others.
RecordsOK ==
    /\ \A w \in Writers :
          /\ wpc[w] = "reg_exists"  => Registered(wnr[w])
          /\ wpc[w] = "reg_hack"    => Unregistered(wnr[w])
          /\ wpc[w] = "reg_mark"    => Recorded(wnr[w], Wrapper, 0, FALSE)
          /\ wpc[w] = "reg_add"     => Recorded(wnr[w], Wrapper, 1, FALSE)
          /\ wpc[w] = "reg_unlock"  => Registered(wnr[w])
          /\ wpc[w] = "der_restore" => Registered(wnr[w])
          /\ wpc[w] = "der_unmark"  => Recorded(wnr[w], wnr[w], 1, TRUE)
          /\ wpc[w] = "der_del"     => Recorded(wnr[w], wnr[w], 0, TRUE)
          /\ wpc[w] = "der_unlock"  => Unregistered(wnr[w])
    /\ \A n \in SysNums : \/ Registered(n)
                          \/ Unregistered(n)
                          \/ \E w \in Writers : wpc[w] \in Locked /\ wnr[w] = n

\* sys_len is behind by what the holder of the lock has yet to count.
LengthOK ==
    LET uncounted == IF \E w \in Writers : wpc[w] = "reg_unlock" THEN 1 ELSE 0
        counted   == IF \E w \in Writers : wpc[w] = "der_unlock" THEN 1 ELSE 0
    IN  sys_len = Cardinality(Linked) - uncounted + counted

\* What a thread has found is the routine of its own number.
CallsOK ==
    \A r \in Readers : to_call[r] # NULL =>
        to_call[r] = rnr[r] /\ rpc[r] \in {"delayed", "stat_walk", "call"}

RegistryInv ==
    RcuInv /\ HandsOK /\ EntriesOK /\ RecordsOK /\ LengthOK /\ CallsOK

\* Removing one element of a finite set makes it one smaller.
LEMMA RemoveOne ==
    ASSUME NEW S, IsFiniteSet(S), NEW x \in S, NEW T, T = S \ {x}
    PROVE  Cardinality(T) = Cardinality(S) - 1
  BY FS_RemoveElement

\* The holder of the lock is the only one between lock and unlock.
LEMMA OneHolder ==
    ASSUME OwnersOK, NEW v \in Writers, NEW w \in Writers,
           wpc[v] \in Locked, wpc[w] \in Locked
    PROVE  v = w
  BY DEF OwnersOK

\* Where nothing is linked, unlinked, counted or about to be, sys_len stays right.
LEMMA LengthKept ==
    ASSUME LengthOK, UNCHANGED <<hacked_syscall_hash, sys_len>>,
           (\E w \in Writers : wpc'[w] = "reg_unlock")
               <=> \E w \in Writers : wpc[w] = "reg_unlock",
           (\E w \in Writers : wpc'[w] = "der_unlock")
               <=> \E w \in Writers : wpc[w] = "der_unlock"
    PROVE  LengthOK'
  BY DEF LengthOK, Linked

\* Every step of register_system_call keeps the records.
LEMMA RegisterRecords ==
    ASSUME RegistryInv, NEW w \in Writers, Register(w)
    PROVE  HandsOK' /\ EntriesOK' /\ RecordsOK' /\ LengthOK' /\ CallsOK'
<1> USE NullAssumption, WritersAssumption, SysNumsAssumption
<1> USE DEF RegistryInv, RcuInv, TypeInv, TypeOK, LocalsOK, WGoto, WReturn, Free, Linked
<1>1. ASSUME NEW n \in SysNums, RegisterAlloc(w, n)
      PROVE  HandsOK' /\ EntriesOK' /\ RecordsOK' /\ LengthOK' /\ CallsOK'
  <2>1. PICK c \in Cells \ allocated :
           /\ wpc[w] = "idle" /\ wpc' = [wpc EXCEPT ![w] = "reg_lock"]
           /\ allocated' = allocated \cup {c}
           /\ entry' = [entry EXCEPT ![c].syscall_nr = n]
           /\ wcell' = [wcell EXCEPT ![w] = c]
           /\ wnr' = [wnr EXCEPT ![w] = n]
           /\ UNCHANGED <<tableVars, write_lock, readerVars>>
    BY <1>1 DEF RegisterAlloc
  <2>2. c \notin Linked /\ \A v \in Writers : wcell[v] = c => wpc[v] = "idle"
    BY <2>1 DEF OwnersOK, HandsOK, Private, Removed, Removing, WriterPCs
  <2> HIDE <1>1
  <2>3. HandsOK'
    BY <2>1, <2>2 DEF HandsOK, Locked, tableVars
  <2>4. EntriesOK'
    BY <2>1, <2>2 DEF EntriesOK, Removed, tableVars, HandsOK
  <2>5. RecordsOK'
    BY <2>1, <2>2 DEF RecordsOK, Registered, Unregistered, Recorded, Locked, tableVars
  <2>6. LengthOK'
    BY <2>1, LengthKept DEF tableVars
  <2>7. CallsOK'
    BY <2>1 DEF CallsOK, readerVars
  <2> QED
    BY <2>3, <2>4, <2>5, <2>6, <2>7
<1>2. CASE RegisterLock(w)
  <2> USE <1>2 DEF RegisterLock, tableVars, memoryVars, readerVars
  <2>1. \A v \in Writers : wpc[v] \notin Locked
    BY DEF OwnersOK
  <2>2. HandsOK'
    BY <2>1 DEF HandsOK, Locked
  <2>3. EntriesOK'
    BY <2>1 DEF EntriesOK, Removed
  <2>4. RecordsOK'
    <3>1. Registered(wnr[w]) \/ Unregistered(wnr[w])
      BY <2>1 DEF RecordsOK
    <3>2. wpc'[w] = "reg_exists" => Registered(wnr[w])'
      BY <3>1 DEF Registered, Unregistered, Recorded
    <3>3. wpc'[w] = "reg_hack" => Unregistered(wnr[w])'
      BY <3>1 DEF Registered, Unregistered, Recorded
    <3>4. \A n \in SysNums : Registered(n)' \/ Unregistered(n)'
      BY <2>1 DEF RecordsOK, Registered, Unregistered, Recorded
    <3>5. \A v \in Writers : v # w => wpc'[v] \notin Locked
      BY <2>1
    <3> QED
      BY <3>2, <3>3, <3>4, <3>5 DEF RecordsOK, Locked
  <2>5. LengthOK'
    BY LengthKept
  <2>6. CallsOK'
    BY DEF CallsOK
  <2> QED
    BY <2>2, <2>3, <2>4, <2>5, <2>6
<1>3. CASE RegisterExists(w)
  <2> USE <1>3 DEF RegisterExists, tableVars, readerVars
  <2>1. \A v \in Writers : v # w => wpc[v] \notin Locked
    BY OneHolder DEF Locked
  <2>2. wcell[w] \in allocated \ Linked /\ \A v \in Writers : v # w => wcell[v] # wcell[w]
    BY <2>1 DEF OwnersOK, HandsOK, Private, Removed, Removing, WriterPCs
  <2>3. HandsOK'
    BY <2>1, <2>2 DEF HandsOK, Locked
  <2>4. EntriesOK'
    BY <2>2 DEF EntriesOK, Removed
  <2>5. RecordsOK'
    BY <2>1, <2>2 DEF RecordsOK, Registered, Unregistered, Recorded, Locked
  <2>6. LengthOK'
    BY LengthKept
  <2>7. CallsOK'
    BY DEF CallsOK
  <2> QED
    BY <2>3, <2>4, <2>5, <2>6, <2>7
<1>4. CASE RegisterHack(w)
  <2> USE <1>4 DEF RegisterHack, readerVars
  <2>1. \A v \in Writers : v # w => wpc[v] \notin Locked
    BY OneHolder DEF Locked
  <2>2. wcell[w] \in allocated \ Linked /\ \A v \in Writers : v # w => wcell[v] # wcell[w]
    BY <2>1 DEF OwnersOK, HandsOK, Private, Removed, Removing, WriterPCs
  <2>3. hacked_syscall_tbl[wnr[w]] = wnr[w]
    BY DEF RecordsOK, Unregistered, Recorded
  <2>4. HandsOK'
    BY <2>1, <2>2 DEF HandsOK, Locked
  <2>5. EntriesOK'
    BY <2>2, <2>3 DEF EntriesOK, Removed
  <2>6. RecordsOK'
    BY <2>1, <2>2 DEF RecordsOK, Registered, Unregistered, Recorded, Locked
  <2>7. LengthOK'
    BY LengthKept
  <2>8. CallsOK'
    BY DEF CallsOK
  <2> QED
    BY <2>4, <2>5, <2>6, <2>7, <2>8
<1>5. CASE RegisterMark(w)
  <2> USE <1>5 DEF RegisterMark, memoryVars, readerVars
  <2>1. \A v \in Writers : v # w => wpc[v] \notin Locked
    BY OneHolder DEF Locked
  <2>2. HandsOK'
    BY <2>1 DEF HandsOK, Locked
  <2>3. EntriesOK'
    BY DEF EntriesOK, Removed
  <2>4. RecordsOK'
    BY <2>1 DEF RecordsOK, Registered, Unregistered, Recorded, Locked
  <2>5. LengthOK'
    BY LengthKept
  <2>6. CallsOK'
    BY DEF CallsOK
  <2> QED
    BY <2>2, <2>3, <2>4, <2>5, <2>6
<1>6. CASE RegisterAdd(w)
  <2>1. \A v \in Writers : v # w => wpc[v] \notin Locked
    BY <1>6, OneHolder DEF RegisterAdd, Locked
  <2>2. /\ wpc[w] = "reg_add" /\ wpc' = [wpc EXCEPT ![w] = "reg_unlock"]
        /\ Linked' = Linked \cup {wcell[w]}
        /\ UNCHANGED <<hacked_syscall_tbl, syscall_array, sys_len, memoryVars,
                       write_lock, wnr, wcell, readerVars>>
    BY <1>6 DEF RegisterAdd, HashAdd
  <2>3. wcell[w] \in Cells \ Linked
    BY <2>2 DEF OwnersOK, Private
  <2> HIDE <1>6
  <2>4. HandsOK'
    BY <2>1, <2>2 DEF HandsOK, Locked, memoryVars
  <2>5. EntriesOK'
    <3>1. \A c \in Linked : entry[c].syscall_nr # entry[wcell[w]].syscall_nr
      BY <2>2 DEF EntriesOK, RecordsOK, Recorded
    <3> QED
      BY <2>2, <3>1 DEF EntriesOK, Removed, memoryVars
  <2>6. RecordsOK'
    BY <2>1, <2>2 DEF RecordsOK, Registered, Unregistered, Recorded, Locked, memoryVars,
                      EntriesOK
  <2>7. LengthOK'
    <3>1. IsFiniteSet(Linked)
      BY CellsAssumption, FS_Subset
    <3>2. Cardinality(Linked') = Cardinality(Linked) + 1
      BY <2>2, <2>3, <3>1, FS_AddElement
    <3>3. Cardinality(Linked) \in Nat
      BY <3>1, FS_CardinalityType
    <3>4. /\ \A v \in Writers : wpc[v] # "reg_unlock" /\ wpc[v] # "der_unlock"
          /\ \A v \in Writers : wpc'[v] # "der_unlock"
          /\ wpc'[w] = "reg_unlock"
      BY <2>1, <2>2 DEF Locked
    <3>5. sys_len = Cardinality(Linked)
      BY <3>3, <3>4 DEF LengthOK
    <3>6. LengthOK' <=> sys_len' = Cardinality(Linked') - 1 + 0
      BY <3>4 DEF LengthOK
    <3> QED
      BY <2>2, <3>2, <3>3, <3>5, <3>6
  <2>8. CallsOK'
    BY <2>2 DEF CallsOK, readerVars
  <2> QED
    BY <2>4, <2>5, <2>6, <2>7, <2>8
<1>7. CASE RegisterUnlock(w)
  <2> USE <1>7 DEF RegisterUnlock, memoryVars, readerVars
  <2>1. \A v \in Writers : v # w => wpc[v] \notin Locked
    BY OneHolder DEF Locked
  <2>2. HandsOK'
    BY <2>1 DEF HandsOK, Locked
  <2>3. EntriesOK'
    BY DEF EntriesOK, Removed
  <2>4. RecordsOK'
    BY <2>1 DEF RecordsOK, Registered, Unregistered, Recorded, Locked
  <2>5. LengthOK'
    <3>1. Cardinality(Linked) \in Nat
      BY CellsAssumption, FS_Subset, FS_CardinalityType
    <3>2. \A v \in Writers : wpc[v] # "der_unlock" /\ wpc'[v] # "der_unlock"
                             /\ wpc'[v] # "reg_unlock"
      BY <2>1 DEF Locked
    <3>3. sys_len = Cardinality(Linked) - 1 + 0
      BY <3>2 DEF LengthOK
    <3>4. LengthOK' <=> sys_len' = Cardinality(Linked') - 0 + 0
      BY <3>2 DEF LengthOK
    <3> QED
      BY <3>1, <3>3, <3>4
  <2>6. CallsOK'
    BY DEF CallsOK
  <2> QED
    BY <2>2, <2>3, <2>4, <2>5, <2>6
<1> QED
  BY <1>1, <1>2, <1>3, <1>4, <1>5, <1>6, <1>7 DEF Register

\* Every step of deregister_system_call keeps the records; in particular the search
\* under the lock finds the entry of a system call that is marked.
LEMMA DeregisterRecords ==
    ASSUME RegistryInv, NEW w \in Writers, Deregister(w)
    PROVE  HandsOK' /\ EntriesOK' /\ RecordsOK' /\ LengthOK' /\ CallsOK'
<1> USE NullAssumption, WritersAssumption, SysNumsAssumption
<1> USE DEF RegistryInv, RcuInv, TypeInv, TypeOK, LocalsOK, WGoto, WReturn, Free, Linked
<1>1. ASSUME NEW n \in SysNums, DeregisterLock(w, n)
      PROVE  HandsOK' /\ EntriesOK' /\ RecordsOK' /\ LengthOK' /\ CallsOK'
  <2>1. \A v \in Writers : wpc[v] \notin Locked
    BY <1>1 DEF DeregisterLock, OwnersOK
  <2>2. Registered(n)
    BY <1>1, <2>1 DEF DeregisterLock, RecordsOK, Unregistered, Recorded
  <2>3. Matching(n) # {}
    BY <2>2 DEF Registered, Recorded, Matching
  <2>4. PICK c \in Linked :
           /\ entry[c].syscall_nr = n
           /\ wcell' = [wcell EXCEPT ![w] = c]
           /\ wpc[w] = "idle" /\ wpc' = [wpc EXCEPT ![w] = "der_restore"]
           /\ write_lock' = w
           /\ wnr' = [wnr EXCEPT ![w] = n]
           /\ UNCHANGED <<tableVars, memoryVars, readerVars>>
    BY <1>1, <2>3 DEF DeregisterLock, Matching
  <2> HIDE <1>1
  <2>5. HandsOK'
    BY <2>1, <2>4 DEF HandsOK, Locked, tableVars, memoryVars
  <2>6. EntriesOK'
    BY <2>4 DEF EntriesOK, Removed, tableVars, memoryVars
  <2>7. RecordsOK'
    <3>1. \A m \in SysNums : Registered(m) \/ Unregistered(m)
      BY <2>1 DEF RecordsOK
    <3>2. \A m \in SysNums : /\ Registered(m)' <=> Registered(m)
                             /\ Unregistered(m)' <=> Unregistered(m)
      BY <2>4 DEF Registered, Unregistered, Recorded, tableVars, memoryVars
    <3>3. wpc'[w] = "der_restore" /\ wnr'[w] = n /\
          \A v \in Writers : v # w => wpc'[v] \notin Locked
      BY <2>1, <2>4
    <3>4. \A m \in SysNums : Registered(m)' \/ Unregistered(m)'
      BY <3>1, <3>2
    <3>5. Registered(n)'
      BY <2>2, <3>2
    <3> QED
      BY <3>3, <3>4, <3>5 DEF RecordsOK, Locked
  <2>8. LengthOK'
    BY <2>4, LengthKept DEF tableVars
  <2>9. CallsOK'
    BY <2>4 DEF CallsOK, readerVars
  <2> QED
    BY <2>5, <2>6, <2>7, <2>8, <2>9
<1>2. CASE DeregisterRestore(w)
  <2> USE <1>2 DEF DeregisterRestore, memoryVars, readerVars
  <2>1. \A v \in Writers : v # w => wpc[v] \notin Locked
    BY OneHolder DEF Locked
  <2>2. entry[wcell[w]].original_syscall = wnr[w]
    BY DEF EntriesOK, OwnersOK, Removing
  <2>3. HandsOK'
    BY <2>1 DEF HandsOK, Locked
  <2>4. EntriesOK'
    BY DEF EntriesOK, Removed
  <2>5. RecordsOK'
    BY <2>1, <2>2 DEF RecordsOK, Registered, Unregistered, Recorded, Locked
  <2>6. LengthOK'
    BY LengthKept
  <2>7. CallsOK'
    BY DEF CallsOK
  <2> QED
    BY <2>3, <2>4, <2>5, <2>6, <2>7
<1>3. CASE DeregisterUnmark(w)
  <2> USE <1>3 DEF DeregisterUnmark, memoryVars, readerVars
  <2>1. \A v \in Writers : v # w => wpc[v] \notin Locked
    BY OneHolder DEF Locked
  <2>2. HandsOK'
    BY <2>1 DEF HandsOK, Locked
  <2>3. EntriesOK'
    BY DEF EntriesOK, Removed
  <2>4. RecordsOK'
    BY <2>1 DEF RecordsOK, Registered, Unregistered, Recorded, Locked
  <2>5. LengthOK'
    BY LengthKept
  <2>6. CallsOK'
    BY DEF CallsOK
  <2> QED
    BY <2>2, <2>3, <2>4, <2>5, <2>6
<1>4. CASE DeregisterDel(w)
  <2>1. \A v \in Writers : v # w => wpc[v] \notin Locked
    BY <1>4, OneHolder DEF DeregisterDel, Locked
  <2>2. /\ wpc[w] = "der_del" /\ wpc' = [wpc EXCEPT ![w] = "der_unlock"]
        /\ Linked' = Linked \ {wcell[w]}
        /\ UNCHANGED <<hacked_syscall_tbl, syscall_array, sys_len, memoryVars,
                       write_lock, wnr, wcell, readerVars>>
    BY <1>4 DEF DeregisterDel, HashDel
  <2>3. wcell[w] \in Linked
    BY <2>2 DEF OwnersOK, Removing
  <2> HIDE <1>4
  <2>4. HandsOK'
    BY <2>1, <2>2 DEF HandsOK, Locked, memoryVars
  <2>5. EntriesOK'
    BY <2>2, <2>3 DEF EntriesOK, Removed, memoryVars
  <2>6. RecordsOK'
    <3>1. \A c \in Linked' : entry[c].syscall_nr # wnr[w]
      BY <2>2, <2>3 DEF EntriesOK
    <3>2. entry[wcell[w]].syscall_nr = wnr[w]
      BY <2>2 DEF EntriesOK
    <3>3. wnr' = wnr /\ wnr[w] \in SysNums
      BY <2>2
    <3>4. Unregistered(wnr[w])'
      BY <2>2, <3>1, <3>3 DEF RecordsOK, Unregistered, Recorded, memoryVars
    <3>5. ASSUME NEW n \in SysNums, n # wnr[w]
          PROVE  Registered(n)' \/ Unregistered(n)'
      <4>1. Registered(n) \/ Unregistered(n)
        BY <2>1, <3>5 DEF RecordsOK
      <4>2. (\E c \in Linked' : entry[c].syscall_nr = n)
               <=> \E c \in Linked : entry[c].syscall_nr = n
        BY <2>2, <3>2, <3>5
      <4> QED
        BY <2>2, <4>1, <4>2 DEF Registered, Unregistered, Recorded, memoryVars
    <3>6. wpc'[w] = "der_unlock" /\ \A v \in Writers : v # w => wpc'[v] \notin Locked
      BY <2>1, <2>2
    <3> QED
      BY <3>3, <3>4, <3>5, <3>6 DEF RecordsOK, Locked
  <2>7. LengthOK'
    <3>1. IsFiniteSet(Linked)
      BY CellsAssumption, FS_Subset
    <3>2. Cardinality(Linked') = Cardinality(Linked) - 1
      <4> HIDE DEF Linked
      <4> QED
        BY <2>2, <2>3, <3>1, RemoveOne
    <3>3. Cardinality(Linked) \in Nat
      BY <3>1, FS_CardinalityType
    <3>4. /\ \A v \in Writers : wpc[v] # "reg_unlock" /\ wpc[v] # "der_unlock"
          /\ \A v \in Writers : wpc'[v] # "reg_unlock"
          /\ wpc'[w] = "der_unlock"
      BY <2>1, <2>2 DEF Locked
    <3>5. sys_len = Cardinality(Linked)
      BY <3>3, <3>4 DEF LengthOK
    <3>6. LengthOK' <=> sys_len' = Cardinality(Linked') - 0 + 1
      BY <3>4 DEF LengthOK
    <3> QED
      BY <2>2, <3>2, <3>3, <3>5, <3>6
  <2>8. CallsOK'
    BY <2>2 DEF CallsOK, readerVars
  <2> QED
    BY <2>4, <2>5, <2>6, <2>7, <2>8
<1>5. CASE DeregisterUnlock(w)
  <2> USE <1>5 DEF DeregisterUnlock, memoryVars, readerVars
  <2>1. \A v \in Writers : v # w => wpc[v] \notin Locked
    BY OneHolder DEF Locked
  <2>2. HandsOK'
    BY <2>1 DEF HandsOK, Locked
  <2>3. EntriesOK'
    BY DEF EntriesOK, Removed
  <2>4. RecordsOK'
    BY <2>1 DEF RecordsOK, Registered, Unregistered, Recorded, Locked
  <2>5. LengthOK'
    <3>1. Cardinality(Linked) \in Nat
      BY CellsAssumption, FS_Subset, FS_CardinalityType
    <3>2. \A v \in Writers : wpc[v] # "reg_unlock" /\ wpc'[v] # "der_unlock"
                             /\ wpc'[v] # "reg_unlock"
      BY <2>1 DEF Locked
    <3>3. sys_len = Cardinality(Linked) - 0 + 1
      BY <3>2 DEF LengthOK
    <3>4. LengthOK' <=> sys_len' = Cardinality(Linked') - 0 + 0
      BY <3>2 DEF LengthOK
    <3> QED
      BY <3>1, <3>3, <3>4
  <2>6. CallsOK'
    BY DEF CallsOK
  <2> QED
    BY <2>2, <2>3, <2>4, <2>5, <2>6
<1>6. CASE DeregisterFree(w)
  <2> USE <1>6 DEF DeregisterFree, tableVars, readerVars
  <2>1. wcell[w] \in allocated \ Linked /\ \A v \in Writers : v # w => wcell[v] # wcell[w]
    BY DEF OwnersOK, HandsOK, Private, Removed, Removing, WriterPCs
  <2>2. HandsOK'
    BY <2>1 DEF HandsOK, Locked
  <2>3. EntriesOK'
    BY <2>1 DEF EntriesOK, Removed
  <2>4. RecordsOK'
    BY <2>1 DEF RecordsOK, Registered, Unregistered, Recorded, Locked
  <2>5. LengthOK'
    BY LengthKept
  <2>6. CallsOK'
    BY DEF CallsOK
  <2> QED
    BY <2>2, <2>3, <2>4, <2>5, <2>6
<1> QED
  BY <1>1, <1>2, <1>3, <1>4, <1>5, <1>6 DEF Deregister

\* A step that leaves the tables, the entries and the writers alone keeps everything
\* but what the threads have found.
LEMMA RecordsKept ==
    ASSUME RegistryInv,
           UNCHANGED <<tableVars, memoryVars, write_lock, wpc, wnr, wcell>>
    PROVE  HandsOK' /\ EntriesOK' /\ RecordsOK' /\ LengthOK'
<1> USE DEF RegistryInv, tableVars, memoryVars, Linked
<1>1. HandsOK' /\ EntriesOK'
  BY DEF HandsOK, EntriesOK
<1>2. RecordsOK'
  BY DEF RecordsOK, Registered, Unregistered, Recorded
<1>3. LengthOK'
  BY LengthKept
<1> QED
  BY <1>1, <1>2, <1>3

\* The entry a thread stands on, linked or removed, has the routine of its number.
LEMMA FoundOriginal ==
    ASSUME RegistryInv, NEW r \in Readers, Found(r)
    PROVE  entry[rcell[r]].original_syscall = rnr[r]
<1>1. Protects(r, rcell[r]) /\ entry[rcell[r]].syscall_nr = rnr[r]
  BY DEF RegistryInv, RcuInv, ReadersOK, Found
<1> QED
  BY <1>1 DEF RegistryInv, EntriesOK, Protects, Removed

\* Every step of a reader keeps the records.
LEMMA ReaderRecords ==
    ASSUME RegistryInv, NEW r \in Readers, Reader(r)
    PROVE  HandsOK' /\ EntriesOK' /\ RecordsOK' /\ LengthOK' /\ CallsOK'
<1>1. UNCHANGED <<tableVars, memoryVars, write_lock, wpc, wnr, wcell>>
  BY DEF Reader, Section, Dispatch, GetBegin, LookupBegin, StatBegin, Call, LookupNext,
         LookupEnd, StatNext, StatEnd, GetNext, GetEnd, WalkNext, writerVars
<1>2. CallsOK'
  <2> USE DEF RegistryInv, RcuInv, TypeInv, TypeOK, CallsOK, RGoto, WalkBegin, RReturn
  <2>1. CASE \E n \in SysNums : Dispatch(r, n) \/ GetBegin(r, n)
    BY <2>1 DEF Dispatch, GetBegin
  <2>2. CASE LookupBegin(r) \/ StatBegin(r) \/ Call(r)
    BY <2>2 DEF LookupBegin, StatBegin, Call
  <2>3. CASE LookupNext(r) \/ StatNext(r) \/ GetNext(r)
    BY <2>3 DEF LookupNext, StatNext, GetNext, WalkNext
  <2>4. CASE LookupEnd(r)
    <3>1. to_call'[r] # NULL => to_call'[r] = rnr[r]
      BY <2>4, FoundOriginal DEF LookupEnd
    <3> QED
      BY <2>4, <3>1 DEF LookupEnd
  <2>5. CASE StatEnd(r) \/ GetEnd(r)
    BY <2>5 DEF StatEnd, GetEnd
  <2> QED
    BY <2>1, <2>2, <2>3, <2>4, <2>5 DEF Reader, Section
<1> QED
  BY <1>1, <1>2, RecordsKept

\* The invariant is inductive.
LEMMA RegistryStep == RegistryInv /\ [Next]_vars => RegistryInv'
<1>1. ASSUME RegistryInv, UNCHANGED vars
      PROVE  HandsOK' /\ EntriesOK' /\ RecordsOK' /\ LengthOK' /\ CallsOK'
  <2>1. CallsOK'
    BY <1>1 DEF vars, readerVars, RegistryInv, CallsOK
  <2> QED
    BY <1>1, <2>1, RecordsKept DEF vars, writerVars
<1>2. ASSUME RegistryInv, Next
      PROVE  HandsOK' /\ EntriesOK' /\ RecordsOK' /\ LengthOK' /\ CallsOK'
  BY <1>2, RegisterRecords, DeregisterRecords, ReaderRecords DEF Next
<1> QED
  BY <1>1, <1>2, RcuStep DEF RegistryInv

\* It holds at the start, when nothing is registered.
LEMMA RegistryInit == Init => RegistryInv
<1> SUFFICES ASSUME Init PROVE RegistryInv
  OBVIOUS
<1> USE WritersAssumption DEF Init, EmptyTable, Linked
<1>1. HandsOK /\ EntriesOK
  BY DEF HandsOK, EntriesOK, Removed
<1>2. RecordsOK
  BY DEF RecordsOK, Registered, Unregistered, Recorded
<1>3. LengthOK
  BY FS_EmptySet DEF LengthOK
<1>4. CallsOK
  BY DEF CallsOK
<1> QED
  BY <1>1, <1>2, <1>3, <1>4, RcuInit DEF RegistryInv

\* Whenever write_lock is free the flag, the patched table, the entries and sys_len
\* agree, and deregister_system_call never meets a marked system call without entry.
THEOREM RecordsAgree == Spec => []RegistryConsistent
<1>1. RegistryInv => RegistryConsistent
  <2> SUFFICES ASSUME RegistryInv PROVE RegistryConsistent
    OBVIOUS
  <2> USE DEF RegistryInv
  <2>1. \A w \in Writers : wpc[w] # "efault"
    BY DEF HandsOK
  <2>2. ASSUME write_lock = NULL PROVE \A w \in Writers : wpc[w] \notin Locked
    BY <2>2, WritersAssumption DEF RcuInv, OwnersOK
  <2>3. ASSUME write_lock = NULL, NEW n \in SysNums, syscall_array[n] = 1
        PROVE  hacked_syscall_tbl[n] = Wrapper /\ Cardinality(Matching(n)) = 1
    <3>1. Registered(n)
      BY <2>2, <2>3 DEF RecordsOK, Unregistered, Recorded
    <3>2. PICK c \in Linked : entry[c].syscall_nr = n
      BY <3>1 DEF Registered, Recorded
    <3>3. Matching(n) = {c}
      BY <3>2 DEF Matching, EntriesOK, Linked
    <3> QED
      BY <3>1, <3>3, FS_Singleton DEF Registered, Recorded
  <2>4. ASSUME write_lock = NULL, NEW n \in SysNums, syscall_array[n] = 0
        PROVE  hacked_syscall_tbl[n] = n /\ Matching(n) = {}
    <3>1. Unregistered(n)
      BY <2>2, <2>4 DEF RecordsOK, Registered, Recorded
    <3> QED
      BY <3>1 DEF Unregistered, Recorded, Matching, Linked
  <2>5. ASSUME write_lock = NULL PROVE sys_len = Cardinality(Linked)
    <3>1. Cardinality(Linked) \in Nat
      BY CellsAssumption, FS_Subset, FS_CardinalityType
         DEF RcuInv, TypeInv, TypeOK, Linked
    <3>2. \A w \in Writers : wpc[w] # "reg_unlock" /\ wpc[w] # "der_unlock"
      BY <2>2, <2>5 DEF Locked
    <3> QED
      BY <3>1, <3>2 DEF LengthOK
  <2> QED
    BY <2>1, <2>3, <2>4, <2>5 DEF RegistryConsistent, Linked
<1> QED
  BY <1>1, RegistryInit, RegistryStep, PTL DEF Spec

\* The wrapper calls the service routine of the number it was invoked with and no
\* other, also when the number is deregistered and registered again meanwhile.
THEOREM OwnOriginal == Spec => []CallsItsOwnOriginal
<1>1. RegistryInv => CallsItsOwnOriginal
  BY DEF RegistryInv, CallsOK, CallsItsOwnOriginal
<1> QED
  BY <1>1, RegistryInit, RegistryStep, PTL DEF Spec

\* No path of register_system_call or deregister_system_call leaks an entry or has
\* two writers own the same one, and what is linked has not been freed.
THEOREM EntriesAreOwned == Spec => []NoLeak
<1>1. RegistryInv => NoLeak
  <2> SUFFICES ASSUME RegistryInv PROVE NoLeak
    OBVIOUS
  <2> USE DEF RegistryInv, RcuInv, TypeInv, TypeOK
  <2>1. \A v, w \in Writers : v # w /\ wcell[v] # NULL => wcell[v] # wcell[w]
    BY OneHolder DEF HandsOK, OwnersOK, Private, Removed, Removing, Locked, WriterPCs
  <2> QED
    BY <2>1 DEF NoLeak, HandsOK, OwnersOK, Linked
<1> QED
  BY <1>1, RegistryInit, RegistryStep, PTL DEF Spec
=============================================================================
