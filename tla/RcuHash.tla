------------------------------- MODULE RcuHash ------------------------------
(***************************************************************************)
(* The kernel's RCU hash table (linux/hashtable.h, linux/rculist.h), as    *)
(* the module uses it: buckets of singly linked nodes that writers change  *)
(* under write_lock while readers walk them inside rcu_read_lock.          *)
(*                                                                         *)
(* A table is a record: the first node of each bucket, the next pointer of *)
(* every node (a removed node keeps its own) and the set of nodes that are *)
(* in the table.                                                           *)
(***************************************************************************)
CONSTANTS
    Cells,    \* the memory kmalloc hands out, one cell per node
    NULL      \* the null pointer

ASSUME NullAssumption == NULL \notin Cells

EmptyTable(Buckets) ==
    [head   |-> [b \in Buckets |-> NULL],
     next   |-> [c \in Cells |-> NULL],
     linked |-> {}]

\* hash_add_rcu: the node becomes the first of its bucket, published by one store.
HashAdd(h, b, c) ==
    [head   |-> [h.head EXCEPT ![b] = c],
     next   |-> [h.next EXCEPT ![c] = h.head[b]],
     linked |-> h.linked \cup {c}]

\* Mutant: hash_del, which also clears the next pointer of the removed node.
HashDelInit(h, c) ==
    [head   |-> [b \in DOMAIN h.head |->
                    IF h.head[b] = c THEN h.next[c] ELSE h.head[b]],
     next   |-> [d \in Cells |->
                    IF d = c THEN NULL
                    ELSE IF d \in h.linked /\ h.next[d] = c
                    THEN h.next[c] ELSE h.next[d]],
     linked |-> h.linked \ {c}]

\* hash_del_rcu: one store makes the predecessor skip the node, whose own next
\* pointer stays for the readers that stand on it.
HashDel(h, c) ==
    [head   |-> [b \in DOMAIN h.head |->
                    IF h.head[b] = c THEN h.next[c] ELSE h.head[b]],
     next   |-> [d \in Cells |->
                    IF d \in h.linked \ {c} /\ h.next[d] = c
                    THEN h.next[c] ELSE h.next[d]],
     linked |-> h.linked \ {c}]
=============================================================================
