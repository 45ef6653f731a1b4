---------------------------- MODULE LinkedQueue -----------------------------
(***************************************************************************)
(* The doubly linked Queue of src/src/queue.c, pointer by pointer.         *)
(*                                                                         *)
(* heap holds the nodes that are allocated: following a pointer to a node  *)
(* outside its domain is an access to released memory, and sets undefined. *)
(* An allocation may return any free address, one just released included.  *)
(***************************************************************************)
EXTENDS Integers, Sequences, FiniteSets

CONSTANTS
    Nodes,    \* addresses of nodes; their number bounds the queue
    Values,   \* what is stored (messages)
    NULL

ASSUME NullAssumption == NULL \notin Nodes

VARIABLES
    heap,        \* the allocated nodes and their fields
    head, tail, len,   \* the fields of Queue
    undefined    \* released memory was accessed

queueVars == <<heap, head, tail, len, undefined>>

Live == DOMAIN heap

Node(v, p, n) == [value |-> v, prev |-> p, next |-> n]

(* A field of an allocated node is assigned; the assignment to a released  *)
(* node is lost (or hits memory that is now used for something else).      *)
SetPrev(h, n, p) == IF n \in DOMAIN h THEN [h EXCEPT ![n].prev = p] ELSE h
SetNext(h, n, p) == IF n \in DOMAIN h THEN [h EXCEPT ![n].next = p] ELSE h

Allocate(h, n, x) ==
    [m \in DOMAIN h \cup {n} |-> IF m = n THEN x ELSE h[m]]

Free(h, S) == [n \in DOMAIN h \ S |-> h[n]]

(* queue_create *)
Init ==
    /\ heap = <<>>
    /\ head = NULL /\ tail = NULL /\ len = 0
    /\ undefined = FALSE

-----------------------------------------------------------------------------
queue_push_value_head(v) ==
    \E n \in Nodes \ Live :
        /\ IF len = 0
           THEN /\ heap' = Allocate(heap, n, Node(v, NULL, NULL))
                /\ tail' = n
           ELSE /\ heap' = Allocate(SetPrev(heap, head, n), n,
                                    Node(v, NULL, head))
                /\ UNCHANGED tail
        /\ head' = n
        /\ len' = len + 1
        /\ UNCHANGED undefined

queue_push_value_tail(v) ==
    \E n \in Nodes \ Live :
        /\ IF len = 0
           THEN /\ heap' = Allocate(heap, n, Node(v, NULL, NULL))
                /\ head' = n
           ELSE /\ heap' = Allocate(SetNext(heap, tail, n), n,
                                    Node(v, tail, NULL))
                /\ UNCHANGED head
        /\ tail' = n
        /\ len' = len + 1
        /\ UNCHANGED undefined

(* Mutant: the newest value is taken instead of the oldest. *)
pop_value_of_head ==
    /\ len # 0
    /\ heap' = Free(heap, {head})
    /\ head' = heap[head].next
    /\ len' = len - 1
    /\ UNCHANGED <<tail, undefined>>

(* The new tail's next pointer is not reset, and an emptied queue keeps    *)
(* its head pointer.                                                       *)
queue_pop_value ==
    /\ len # 0
    /\ heap' = Free(heap, {tail})
    /\ tail' = heap[tail].prev
    /\ len' = len - 1
    /\ UNCHANGED <<head, undefined>>

(* The i-th node from the head, and from the tail. *)
Forward ==
    LET f[i \in 1 .. len] == IF i = 1 THEN head ELSE heap[f[i - 1]].next
    IN  f

Backward ==
    LET f[i \in 1 .. len] == IF i = 1 THEN tail ELSE heap[f[i - 1]].prev
    IN  f

(* len nodes are released from the head on; head and tail keep pointing to *)
(* released nodes.                                                         *)
queue_purge ==
    /\ heap' = Free(heap, {Forward[i] : i \in 1 .. len})
    /\ len' = 0
    /\ UNCHANGED <<head, tail, undefined>>

(* Mutant: the neighbours are linked, head and tail are left alone. *)
delete_node_in_the_middle(n) ==
    LET p == heap[n].prev
        q == heap[n].next
    IN  /\ heap' = Free(SetPrev(SetNext(heap, p, q), q, p), {n})
        /\ undefined' = (q # NULL /\ (q \notin Live \/ n = tail))
        /\ len' = len - 1
        /\ UNCHANGED <<head, tail>>

(* A pointer that is not NULL is followed.  The next pointer of the tail   *)
(* is not NULL when it is stale: the write goes to a released node, or to  *)
(* whatever node has been allocated there since, and tail is not updated.  *)
queue_delete_node(n) ==
    LET p == heap[n].prev
        q == heap[n].next
    IN  /\ heap' = Free(SetPrev(SetNext(heap, p, q), q, p), {n})
        /\ head' = IF p = NULL THEN q ELSE head
        /\ tail' = IF q = NULL THEN p ELSE tail
        /\ undefined' = (q # NULL /\ (q \notin Live \/ n = tail))
        /\ len' = len - 1

(* storage_save_queue_messages: queue_get_iterator(queue, EG_START_TAIL)   *)
(* and queue_next_node until it returns NULL; len is not looked at.        *)
SaveMessages ==
    /\ undefined' = (tail # NULL /\ tail \notin Live)
    /\ UNCHANGED <<heap, head, tail, len>>

(* queue_delete_node is called with the node of a queued message.          *)
Next ==
    /\ ~undefined
    /\ \/ \E v \in Values : queue_push_value_head(v)
       \/ \E v \in Values : queue_push_value_tail(v)
       \/ queue_pop_value
       \/ queue_purge
       \/ \E n \in Live : queue_delete_node(n)
       \/ SaveMessages

Spec == Init /\ [][Next]_queueVars

-----------------------------------------------------------------------------
(* Properties *)

(* Both chains have len nodes, they are each other's reverse, and every    *)
(* allocated node is on them: no operation loses a node or cuts the queue, *)
(* although pop and purge leave stale pointers behind.                     *)
WellLinked ==
    ~undefined =>
        /\ len = Cardinality(Live)
        /\ len > 0 =>
            /\ {Forward[i] : i \in 1 .. len} = Live
            /\ \A i \in 1 .. len : Forward[i] = Backward[len + 1 - i]
            /\ heap[head].prev = NULL

(* The refinement mapping: the values from the head to the tail, and which *)
(* of the stale pointers there are.                                        *)
Contents ==
    IF undefined THEN <<>>
    ELSE [i \in 1 .. len |-> heap[Backward[len + 1 - i]].value]

StaleNext == ~undefined /\ len > 0 /\ heap[tail].next # NULL
StaleTail == ~undefined /\ len = 0 /\ tail # NULL

Contract ==
    INSTANCE Deque WITH items <- Contents, stale_next <- StaleNext,
                        stale_tail <- StaleTail

(* The linked queue does what Deque promises: the sequence of its values   *)
(* changes as specified, and undefined behaviour starts in no other way    *)
(* than through the two stale pointers.                                    *)
ImplementsDeque == Contract!Spec
=============================================================================
