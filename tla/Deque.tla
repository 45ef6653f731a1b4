-------------------------------- MODULE Deque -------------------------------
(***************************************************************************)
(* What Queue_t needs of a Queue (src/src/queue.c): a sequence of values   *)
(* from the head to the tail.  The sequence alone is not the whole         *)
(* contract, because two operations leave pointers to released nodes       *)
(* behind, and later operations follow them:                               *)
(*   - after queue_pop_value the next pointer of the new tail is stale,    *)
(*     and queue_delete_node follows it when it deletes the tail;          *)
(*   - after queue_purge the tail pointer is stale, and an iterator that   *)
(*     starts at the tail follows it although the queue is empty.          *)
(* undefined says that one of the two has happened; nothing is promised    *)
(* from then on.  MessageQueue uses the queue through this contract, and   *)
(* LinkedQueue is shown to implement it.                                   *)
(***************************************************************************)
EXTENDS Integers, Sequences

CONSTANT Values

VARIABLES items, stale_next, stale_tail, undefined

dequeVars == <<items, stale_next, stale_tail, undefined>>

Init ==
    /\ items = <<>>
    /\ stale_next = FALSE /\ stale_tail = FALSE /\ undefined = FALSE

PushHead(v) ==
    /\ items' = <<v>> \o items
    /\ stale_tail' = FALSE
    /\ UNCHANGED <<stale_next, undefined>>

PushTail(v) ==
    /\ items' = Append(items, v)
    /\ stale_next' = FALSE /\ stale_tail' = FALSE
    /\ UNCHANGED undefined

Pop ==
    /\ items # <<>>
    /\ items' = SubSeq(items, 1, Len(items) - 1)
    /\ stale_next' = (Len(items) > 1)
    /\ UNCHANGED <<stale_tail, undefined>>

Purge ==
    /\ items' = <<>>
    /\ stale_next' = FALSE
    /\ stale_tail' = (items # <<>> \/ stale_tail)
    /\ UNCHANGED undefined

(* The node of the i-th value is deleted. *)
Delete(i) ==
    /\ ~ (stale_next /\ i = Len(items))
    /\ items' = SubSeq(items, 1, i - 1) \o SubSeq(items, i + 1, Len(items))
    /\ UNCHANGED <<stale_next, stale_tail, undefined>>

(* The tail is deleted or an iterator starts at it, through a stale        *)
(* pointer.  The contents are unknown from here on.                        *)
Fault ==
    /\ stale_next \/ stale_tail
    /\ undefined' = TRUE
    /\ items' = <<>> /\ stale_next' = FALSE /\ stale_tail' = FALSE

Next ==
    /\ ~undefined
    /\ \/ \E v \in Values : PushHead(v) \/ PushTail(v)
       \/ Pop
       \/ Purge
       \/ \E i \in DOMAIN items : Delete(i)
       \/ Fault

Spec == Init /\ [][Next]_dequeVars
=============================================================================
