--------------------------------- MODULE Lru ---------------------------------
(* library/lru.c: the cache of the subjects and of the objects, a pool of     *)
(* nodes, a hash table with one entry per key and a doubly linked list in the *)
(* order of use, driven by the calls of library/event.c.                      *)
EXTENDS Integers, Sequences, Functions

CONSTANT total      \* nodes of the pool, and entries of the hash table

VARIABLE q          \* the Queue

Nodes == 1 .. total
Keys == 0 .. total - 1
NULL == 0

create_hash == [k \in Keys |-> NULL]

\* The pool is threaded onto the free list, the last node first.
create_queue ==
    [front |-> NULL, end |-> NULL, next |-> [n \in Nodes |-> NULL], prev |-> [n \in Nodes |-> NULL],
     item |-> [n \in Nodes |-> "none"], free |-> [i \in 1 .. total |-> total + 1 - i],
     count |-> 0, hash |-> create_hash, aborted |-> FALSE]

init_lru == create_queue

Init == q = init_lru

-----------------------------------------------------------------------------
qnode_free(c, n) ==
    [c EXCEPT !.item[n] = "none", !.prev[n] = NULL, !.next[n] = NULL, !.free = <<n>> \o @]

\* The node at the head of the free list, taken off it.
qnode_alloc(c) == [c EXCEPT !.free = Tail(@)]

insert_before(c, n, new) ==
    [c EXCEPT !.prev[new] = c.prev[n], !.next = IF c.prev[n] = NULL THEN [@ EXCEPT ![new] = n]
                                                ELSE [@ EXCEPT ![new] = n, ![c.prev[n]] = new],
              !.front = IF c.prev[n] = NULL THEN new ELSE @, !.prev[n] = new]

insert_beginning(c, new) ==
    IF c.front = NULL
    THEN [c EXCEPT !.front = new, !.end = new, !.prev[new] = NULL, !.next[new] = NULL]
    ELSE insert_before(c, c.front, new)

\* Mutant: removing the last node of the list leaves the end of the queue.
remove_node_KeepsEnd(c, n) ==
    IF c.prev[n] = NULL
    THEN LET f == c.next[n]
         IN  IF f = NULL THEN [c EXCEPT !.front = NULL, !.end = NULL]
             ELSE [c EXCEPT !.front = f, !.prev[f] = NULL]
    ELSE IF c.next[c.prev[n]] # n THEN [c EXCEPT !.aborted = TRUE]
    ELSE IF c.next[n] = NULL
         THEN [c EXCEPT !.next[c.prev[n]] = NULL]
    ELSE IF c.prev[c.next[n]] # n THEN [c EXCEPT !.aborted = TRUE]
    ELSE [c EXCEPT !.next[c.prev[n]] = c.next[n], !.prev[c.next[n]] = c.prev[n]]

\* abort() when the neighbours of the node do not point at it
remove_node(c, n) ==
    IF c.prev[n] = NULL
    THEN LET f == c.next[n]
         IN  IF f = NULL THEN [c EXCEPT !.front = NULL, !.end = NULL]
             ELSE [c EXCEPT !.front = f, !.prev[f] = NULL]
    ELSE IF c.next[c.prev[n]] # n THEN [c EXCEPT !.aborted = TRUE]
    ELSE IF c.next[n] = NULL
         THEN [c EXCEPT !.next[c.prev[n]] = NULL, !.end = c.prev[n]]
    ELSE IF c.prev[c.next[n]] # n THEN [c EXCEPT !.aborted = TRUE]
    ELSE [c EXCEPT !.next[c.prev[n]] = c.next[n], !.prev[c.next[n]] = c.prev[n]]

dequeue(c) ==
    IF c.end = NULL THEN c
    ELSE [qnode_free(remove_node(c, c.end), c.end) EXCEPT !.count = @ - 1]

\* abort() when the key is not that of the front node
lru_evict(c, k) ==
    IF c.end = NULL THEN c
    ELSE IF c.hash[k] # c.front THEN [c EXCEPT !.aborted = TRUE]
    ELSE [qnode_free(remove_node([c EXCEPT !.hash[k] = NULL], c.front), c.front)
             EXCEPT !.count = @ - 1]

lru_peek_slot(c, k) == c.hash[k]

\* When every node is in use the one at the end of the list is taken; it is the
\* entry of the new key, not of that node, that is cleared.
enqueue(c, k) ==
    LET full == c.count = total
        room == IF full THEN dequeue([c EXCEPT !.hash[k] = NULL]) ELSE c
    IN  IF room.free = <<>> THEN room
        ELSE [insert_beginning(qnode_alloc(room), Head(room.free))
                 EXCEPT !.hash[k] = Head(room.free), !.count = @ + 1]

check_lru_cache(c, k) ==
    LET n == c.hash[k] IN
    IF n = NULL THEN enqueue(c, k)
    ELSE IF n # c.front
         THEN insert_beginning([remove_node(c, n) EXCEPT !.next[n] = NULL, !.prev[n] = NULL], n)
    ELSE c

-----------------------------------------------------------------------------
(* The callers, in event.c. *)

\* new_event() finds the slot's item, or puts one in.  The process may be gone,
\* which leaves the node without an item.
Use(k) ==
    LET c == check_lru_cache(q, k)
    IN  q' = c \/ q' = [c EXCEPT !.item[c.front] = "set"]

\* new_event() finds an item that is not the one it looks for: it is evicted
\* and the slot is set up again, or given up when that fails.
Replace(k) ==
    LET c == check_lru_cache(lru_evict(check_lru_cache(q, k), k), k)
    IN  /\ lru_peek_slot(q, k) # NULL
        /\ q' = [c EXCEPT !.item[c.front] = "set"] \/ q' = lru_evict(c, k)

\* evict_building_subject()
EvictBuilding(k) ==
    /\ lru_peek_slot(q, k) # NULL /\ q.item[q.hash[k]] = "set"
    /\ q' = lru_evict(check_lru_cache(q, k), k)

\* destroy_queue(): the list is emptied from its end, as often as it counts.
destroy_queue(c) ==
    LET left[n \in 0 .. total] == IF n = 0 THEN c ELSE dequeue(left[n - 1]) IN left[c.count]

\* flush_cache(), when there is anything in the cache: the old one is destroyed.
flush_cache ==
    /\ q.count > 0
    /\ q' = [init_lru EXCEPT !.aborted = destroy_queue(q).aborted \/ destroy_queue(q).end # NULL]

Next == \/ \E k \in Keys : Use(k) \/ Replace(k) \/ EvictBuilding(k)
        \/ flush_cache

Spec == Init /\ [][Next]_q

-----------------------------------------------------------------------------
\* The neighbours in a list of nodes; there is NULL before and after it.
Link(list, i) == IF i \in DOMAIN list THEN list[i] ELSE NULL

\* Following the links from either end meets the nodes of the list, in order.
Linked(c, list) ==
    /\ c.front = Link(list, 1) /\ c.end = Link(list, c.count)
    /\ \A i \in DOMAIN list :
          c.next[list[i]] = Link(list, i + 1) /\ c.prev[list[i]] = Link(list, i - 1)

\* Each key in use has a node of the list for itself.
Hashed(c, list) ==
    /\ {c.hash[k] : k \in Keys} \ {NULL} = Range(list)
    /\ \A k, l \in Keys : c.hash[k] = c.hash[l] => k = l \/ c.hash[k] = NULL

\* The hash table, the list in both directions, the free list and the count
\* describe the same nodes: every node is either free or reached once in the list
\* and once through the hash table.  No call then meets the abort() of
\* remove_node() or lru_evict(), and no key refers to a node that was given to
\* another one when all nodes were in use.
HashMatchesList ==
    /\ ~q.aborted /\ q.count \in 0 .. total
    /\ \E used \in [1 .. q.count -> Nodes] :
          /\ Linked(q, used) /\ Hashed(q, used)
          /\ IsInjective(used)
          /\ IsInjective(q.free) /\ Range(q.free) = Nodes \ Range(used)

=============================================================================
