---------------------------- MODULE MessageQueue ----------------------------
(***************************************************************************)
(* One EagleMQ queue (Queue_t, src/src/queue_t.c) together with the part   *)
(* of the server that drives it: the queue_push, queue_pop, queue_confirm, *)
(* queue_purge, queue_subscribe and queue_unsubscribe handlers of          *)
(* src/src/handlers.c and the periodic server_updater of src/src/eagle.c.  *)
(*                                                                         *)
(* The server is single threaded: a handler runs to completion, and so     *)
(* does a run of server_updater.  Every action below is one such run.      *)
(*                                                                         *)
(* A message is a number, the position in which it was sent; its payload   *)
(* is abstracted away.  Memory is explicit: alloc is the set of messages   *)
(* that are allocated, so that a list that still points to a released      *)
(* message can be told from one that does not.  Once the code touches      *)
(* memory it has released, undefined becomes TRUE and the behaviour stops: *)
(* nothing is claimed about what the server does after that.               *)
(***************************************************************************)
EXTENDS Lists

CONSTANTS
    Clients,      \* clients that may subscribe to the queue
    max_msg,      \* Queue_t.max_msg
    force_push,   \* Queue_t.force_push
    round_robin,  \* Queue_t.round_robin
    Modulus,      \* the number of values of a uint32_t (2^32 in the build)
    Expirations,  \* expire fields of push requests, 0: never expires
    Timeouts,     \* timeout fields of pop requests, 0: no confirmation
    Steps,        \* ms between two runs of server_updater
    Purging,      \* whether clients purge the queue
    MaxPushes,    \* bound: number of push requests
    Horizon,      \* bound: the time at which clients stop sending requests
    MaxTime       \* bound: the last value of the clock

ASSUME QueueAssumption ==
    /\ max_msg \in Nat \ {0}
    /\ force_push \in BOOLEAN /\ round_robin \in BOOLEAN /\ Purging \in BOOLEAN
    /\ Modulus \in Nat \ {0}
    /\ Expirations \subseteq Nat /\ Timeouts \subseteq Nat
    /\ Steps \subseteq Nat \ {0}
    /\ MaxPushes \in Nat /\ Horizon \in Nat /\ MaxTime \in Nat

VARIABLES
    now_timems,   \* server->now_timems, before it is cut to 32 bits
    msg_counter,  \* server->msg_counter
    sent,         \* number of messages sent so far: the last message
    alloc,        \* messages that are allocated
    message,      \* the fields of every message
    queue,        \* Queue_t.queue, from its head (newest) to its tail
    stale_next,   \* the tail node's next pointer refers to a released node
    expire_messages,            \* Queue_t.expire_messages (order irrelevant)
    confirm_messages,           \* Queue_t.confirm_messages
    subscribed_clients_msg,     \* Queue_t.subscribed_clients_msg
    subscribed_clients_notify,  \* Queue_t.subscribed_clients_notify
    undefined     \* the code has accessed released memory

(* History variables: they record what the properties compare the code     *)
(* with, and no action reads them.                                         *)
VARIABLES
    accepted,     \* messages whose push was answered with success
    returned,     \* messages that were ever put back for want of a confirm
    lifetime,     \* the time at which a message expires, 0: never
    deadline,     \* the time up to which a popped message can be confirmed
    share         \* deliveries to each subscriber since the list changed

server_vars == <<now_timems, msg_counter, undefined>>
store_vars  == <<sent, alloc, message, queue, stale_next, expire_messages,
                 confirm_messages>>
sub_vars    == <<subscribed_clients_msg, subscribed_clients_notify>>
hist_vars   == <<accepted, returned, lifetime, deadline, share>>
vars        == <<server_vars, store_vars, sub_vars, hist_vars>>

-----------------------------------------------------------------------------
(* Helpers *)

Messages == 1 .. MaxPushes

(* What is left of a time when it is stored in a uint32_t. *)
U32(time) == time % Modulus

Expires(m) == message[m].expiration # 0

Held == Elems(queue) \cup Elems(confirm_messages)

(* Mutant: the tag is made of the time alone. *)
TagWithoutCounter(counter, time) == <<time, 0>>

(* make_message_tag: the time in the high half, the counter in the low. *)
make_message_tag(counter, time) == <<time, counter>>

Full == Len(queue) >= max_msg

-----------------------------------------------------------------------------
Init ==
    /\ now_timems = 0 /\ msg_counter = 0 /\ undefined = FALSE
    /\ sent = 0 /\ alloc = {} /\ queue = <<>> /\ stale_next = FALSE
    /\ message = [m \in Messages |-> [tag |-> <<0, 0>>, expiration |-> 0,
                                      confirm |-> 0]]
    /\ expire_messages = {} /\ confirm_messages = <<>>
    /\ subscribed_clients_msg = <<>> /\ subscribed_clients_notify = {}
    /\ accepted = {} /\ returned = {}
    /\ lifetime = [m \in Messages |-> 0]
    /\ deadline = [m \in Messages |-> 0]
    /\ share = [c \in Clients |-> 0]

(* A client's request reaches the queue. *)
Request == ~undefined /\ now_timems <= Horizon

-----------------------------------------------------------------------------
(* queue_push *)

(* Mutant: a popped message stays in the expiration index. *)
PopKeepsIndex(m) == expire_messages

(* list_delete_node in pop_message_queue_t *)
PopIndex(m) == expire_messages \ {m}

(* The message that a push creates: create_message, with the tag that      *)
(* make_message_tag builds and the expiration the handler computed.        *)
CreateMessage(m, expire) ==
    /\ sent < MaxPushes
    /\ m = sent + 1
    /\ sent' = m
    /\ msg_counter' = msg_counter + 1
    /\ message' = [message EXCEPT ![m] =
         [tag |-> make_message_tag(msg_counter, U32(now_timems)),
          expiration |-> IF expire = 0 THEN 0 ELSE U32(expire + now_timems),
          confirm |-> 0]]
    /\ lifetime' = [lifetime EXCEPT ![m] =
                      IF expire = 0 THEN 0 ELSE expire + now_timems]

(* push_message_queue_t returns EG_STATUS_ERR, because the message is      *)
(* larger than max_msg_size or because the queue is full: the message it   *)
(* created is neither stored nor released.                                 *)
PushRefused(expire, fits) ==
    /\ Request
    /\ ~fits \/ /\ subscribed_clients_msg = <<>>
                /\ Full
                /\ ~force_push
    /\ CreateMessage(sent + 1, expire)
    /\ alloc' = alloc \cup {sent + 1}
    /\ UNCHANGED <<now_timems, undefined, queue, stale_next, expire_messages,
                   confirm_messages, sub_vars, accepted, returned, deadline,
                   share>>

(* process_subscribed_clients delivers the message, to the client that     *)
(* list_rotate brings to the front or to all of them, and the message is   *)
(* released without being stored.                                          *)
PushDelivered(expire) ==
    /\ Request
    /\ subscribed_clients_msg # <<>>
    /\ CreateMessage(sent + 1, expire)
    /\ accepted' = accepted \cup {sent + 1}
    /\ IF round_robin
       THEN /\ subscribed_clients_msg' = Rotate(subscribed_clients_msg)
            /\ share' = [share EXCEPT ![subscribed_clients_msg'[1]] = @ + 1]
       ELSE /\ share' = [c \in Clients |->
                           IF c \in Elems(subscribed_clients_msg)
                           THEN share[c] + 1 ELSE share[c]]
            /\ UNCHANGED subscribed_clients_msg
    /\ UNCHANGED <<now_timems, undefined, alloc, queue, stale_next,
                   expire_messages, confirm_messages,
                   subscribed_clients_notify, returned, deadline>>

(* Mutant: the message is stored at the tail. *)
PushTail(s, m) == Append(s, m)

(* queue_push_value_head *)
PushHead(s, m) == <<m>> \o s

(* The message is stored at the head.  A full queue with force_push first  *)
(* drops its oldest message, with pop_message_queue_t(queue_t, 0).         *)
PushStored(expire) ==
    LET m == sent + 1
        gone == IF Full THEN {LastOf(queue)} ELSE {}
        index == IF Full THEN PopIndex(LastOf(queue)) ELSE expire_messages
        rest == IF Full THEN AllButLast(queue) ELSE queue
    IN  /\ Request
        /\ subscribed_clients_msg = <<>>
        /\ Full => force_push
        /\ CreateMessage(m, expire)
        /\ alloc' = (alloc \ gone) \cup {m}
        /\ queue' = PushHead(rest, m)
        /\ stale_next' = (rest # <<>> /\ (Full \/ stale_next))
        /\ expire_messages' = IF message'[m].expiration # 0
                              THEN index \cup {m} ELSE index
        /\ accepted' = accepted \cup {m}
        /\ UNCHANGED <<now_timems, undefined, confirm_messages, sub_vars,
                       returned, deadline, share>>

-----------------------------------------------------------------------------
(* queue_pop, queue_confirm, queue_purge *)

(* Mutant: the pointer counts as stale even when the queue is emptied. *)
PopLeavesStale(s) == TRUE

(* queue_pop_value leaves the next pointer of the new tail, if there is    *)
(* one, on the node that it has just released.                             *)
PopStale(s) == Len(s) > 1

(* pop_message_queue_t: the oldest message is released, or kept until it   *)
(* is confirmed.                                                           *)
Pop(timeout) ==
    LET m == LastOf(queue)
    IN  /\ Request
        /\ queue # <<>>
        /\ queue' = AllButLast(queue)
        /\ stale_next' = PopStale(queue)
        /\ expire_messages' = PopIndex(m)
        /\ IF timeout = 0
           THEN /\ alloc' = alloc \ {m}
                /\ UNCHANGED <<message, confirm_messages, deadline>>
           ELSE /\ message' = [message EXCEPT ![m].confirm =
                                 U32(now_timems + timeout)]
                /\ deadline' = [deadline EXCEPT ![m] = now_timems + timeout]
                /\ confirm_messages' = Append(confirm_messages, m)
                /\ UNCHANGED alloc
        /\ UNCHANGED <<server_vars, sent, sub_vars, accepted, returned,
                       lifetime, share>>

(* confirm_message_queue_t: the first unconfirmed message with this tag is *)
(* released.  A tag that no unconfirmed message has changes nothing.       *)
Confirm(tag) ==
    /\ Request
    /\ \E i \in DOMAIN confirm_messages :
        /\ message[confirm_messages[i]].tag = tag
        /\ \A j \in 1 .. i - 1 : message[confirm_messages[j]].tag # tag
        /\ confirm_messages' = Without(confirm_messages, i)
        /\ alloc' = alloc \ {confirm_messages[i]}
    /\ UNCHANGED <<server_vars, sent, message, queue, stale_next,
                   expire_messages, sub_vars, hist_vars>>

(* purge_queue_t: every queued message is released; expire_messages is     *)
(* left as it is.                                                          *)
Purge ==
    /\ Request
    /\ Purging
    /\ queue' = <<>>
    /\ stale_next' = FALSE
    /\ alloc' = alloc \ Elems(queue)
    /\ UNCHANGED <<server_vars, sent, message, expire_messages,
                   confirm_messages, sub_vars, hist_vars>>

-----------------------------------------------------------------------------
(* queue_subscribe, queue_unsubscribe *)

Subscribed == Elems(subscribed_clients_msg) \cup subscribed_clients_notify

(* The handler refuses a client whose subscribed_queues has the queue. *)
MaySubscribe(c) == c \notin Subscribed

Subscribe(c, notify) ==
    /\ Request
    /\ MaySubscribe(c)
    /\ IF notify
       THEN /\ subscribed_clients_notify' = subscribed_clients_notify \cup {c}
            /\ UNCHANGED <<subscribed_clients_msg, share>>
       ELSE /\ subscribed_clients_msg' = Append(subscribed_clients_msg, c)
            /\ share' = [d \in Clients |-> 0]
            /\ UNCHANGED subscribed_clients_notify
    /\ UNCHANGED <<server_vars, store_vars, accepted, returned, lifetime,
                   deadline>>

Unsubscribe(c) ==
    /\ Request
    /\ c \in Subscribed
    /\ subscribed_clients_msg' = Keep(subscribed_clients_msg, Clients \ {c})
    /\ subscribed_clients_notify' = subscribed_clients_notify \ {c}
    /\ share' = IF c \in Elems(subscribed_clients_msg)
                THEN [d \in Clients |-> 0] ELSE share
    /\ UNCHANGED <<server_vars, store_vars, accepted, returned, lifetime,
                   deadline>>

-----------------------------------------------------------------------------
(* server_updater: the clock moves, and process_queues_messages drops the  *)
(* expired messages and puts the unconfirmed ones back.                    *)

(* Mutant: a message expires one clock value late. *)
ExpiredLate(time) == {m \in expire_messages : message[m].expiration < time}

(* Mutant: a message expires one clock value early. *)
ExpiredEarly(time) ==
    {m \in expire_messages : message[m].expiration <= time + 1}

(* Mutant: a message expires only if a run hits its very millisecond. *)
ExpiredOnTheDot(time) ==
    {m \in expire_messages : message[m].expiration = time}

(* process_expired_messages_queue_t deletes these. *)
Expired(time) == {m \in expire_messages : message[m].expiration <= time}

(* Deleting them reads a released message, if one is still indexed, or     *)
(* follows the stale next pointer of the tail (queue_delete_node).         *)
Faulty(time) ==
    \/ ~ (expire_messages \subseteq alloc)
    \/ stale_next /\ LastOf(queue) \in Expired(time)

(* Mutant: a message is due one clock value late. *)
OverdueLate(time) ==
    {m \in Elems(confirm_messages) : message[m].confirm < time}

(* Mutant: the time that is left to confirm is not looked at. *)
OverdueAll(time) == Elems(confirm_messages)

(* Mutant: unconfirmed messages are never looked for. *)
OverdueNever(time) == {}

(* process_unconfirmed_messages_queue_t takes these out of                 *)
(* confirm_messages, and puts back those that have not expired.            *)
Overdue(time) == {m \in Elems(confirm_messages) : message[m].confirm <= time}

(* Mutant: messages with an expiration are not put back. *)
PutBackLasting(time) == {m \in Overdue(time) : ~Expires(m)}

PutBack(time) ==
    {m \in Overdue(time) : Expires(m) => message[m].expiration > time}

(* Mutant: the messages put back stay in confirm_messages as well. *)
UpdateKeepsUnconfirmed(time) ==
    LET back == Keep(confirm_messages, PutBack(time))
    IN  /\ queue' = Keep(queue, Messages \ Expired(time)) \o back
        /\ stale_next' = (stale_next /\ back = <<>>)
        /\ expire_messages' = (expire_messages \ Expired(time))
                              \cup {m \in PutBack(time) : Expires(m)}
        /\ alloc' = alloc \ Expired(time)
        /\ returned' = returned \cup PutBack(time)
        /\ UNCHANGED confirm_messages

UpdateMessages(time) ==
    LET back == Keep(confirm_messages, PutBack(time))
    IN  /\ queue' = Keep(queue, Messages \ Expired(time)) \o back
        /\ stale_next' = (stale_next /\ back = <<>>)
        /\ expire_messages' = (expire_messages \ Expired(time))
                              \cup {m \in PutBack(time) : Expires(m)}
        /\ confirm_messages' = Keep(confirm_messages,
                                    Messages \ Overdue(time))
        /\ alloc' = alloc \ Expired(time)
        /\ returned' = returned \cup PutBack(time)

ServerUpdater(step) ==
    LET now == now_timems + step
    IN  /\ ~undefined
        /\ now <= MaxTime
        /\ now_timems' = now
        /\ msg_counter' = 0
        /\ undefined' = Faulty(U32(now))
        /\ IF Faulty(U32(now))
           THEN UNCHANGED <<queue, stale_next, expire_messages,
                            confirm_messages, alloc, returned>>
           ELSE UpdateMessages(U32(now))
        /\ UNCHANGED <<sent, message, sub_vars, accepted, lifetime, deadline,
                       share>>

-----------------------------------------------------------------------------
Tick == \E step \in Steps : ServerUpdater(step)

Push == \E expire \in Expirations :
            \/ \E fits \in BOOLEAN : PushRefused(expire, fits)
            \/ PushDelivered(expire)
            \/ PushStored(expire)

Next ==
    \/ Push
    \/ \E timeout \in Timeouts : Pop(timeout)
    \/ \E m \in Elems(confirm_messages) : Confirm(message[m].tag)
    \/ Purge
    \/ \E c \in Clients, notify \in BOOLEAN : Subscribe(c, notify)
    \/ \E c \in Clients : Unsubscribe(c)
    \/ Tick

Spec == Init /\ [][Next]_vars

(* The event loop calls server_updater again and again (it returns 100, so *)
(* its time event is rescheduled); nothing makes a client send a request.  *)
FairSpec == Spec /\ WF_vars(Tick)
-----------------------------------------------------------------------------
(* Properties *)

Message == [tag : (0 .. Modulus - 1) \X Nat,
            expiration : 0 .. Modulus - 1, confirm : 0 .. Modulus - 1]

(* The shape of the state; only a non-empty queue has a tail node whose    *)
(* next pointer can be stale (queue_push_value_* resets an empty queue).   *)
TypeOK ==
    /\ now_timems \in Nat /\ msg_counter \in Nat /\ undefined \in BOOLEAN
    /\ sent \in 0 .. MaxPushes
    /\ alloc \subseteq 1 .. sent
    /\ message \in [Messages -> Message]
    /\ queue \in Seq(1 .. sent) /\ confirm_messages \in Seq(1 .. sent)
    /\ stale_next \in BOOLEAN /\ (stale_next => queue # <<>>)
    /\ expire_messages \subseteq 1 .. sent
    /\ subscribed_clients_msg \in Seq(Clients)
    /\ subscribed_clients_notify \subseteq Clients
    /\ accepted \subseteq 1 .. sent /\ returned \subseteq 1 .. sent
    /\ lifetime \in [Messages -> Nat] /\ deadline \in [Messages -> Nat]
    /\ share \in [Clients -> Nat]

(* A stored message is in one place: once in the queue or once among the   *)
(* messages waiting for a confirm, never in both, and it is not released   *)
(* memory there.  Pop, confirm, expiry and redelivery move the same        *)
(* pointer between the three lists of Queue_t.                             *)
HeldOnce ==
    /\ NoRepetition(queue)
    /\ NoRepetition(confirm_messages)
    /\ Elems(queue) \cap Elems(confirm_messages) = {}
    /\ Held \subseteq alloc

(* Among the messages in memory, expire_messages lists those of the queue  *)
(* that have an expiration, and no other: pop takes a message out,         *)
(* redelivery enters it again.                                             *)
ExpireIndex ==
    expire_messages \cap alloc = {m \in Elems(queue) : Expires(m)}

(* No client can get or pop a message whose time is over.                  *)
NoExpiredVisible ==
    ~undefined => \A m \in Elems(queue) :
                      lifetime[m] # 0 => lifetime[m] > now_timems

(* After server_updater no message whose confirm time is over is still     *)
(* waiting for a confirm.                                                  *)
NoOverdue ==
    ~undefined => \A m \in Elems(confirm_messages) : deadline[m] > now_timems

(* An accepted message that was not released is in the queue, or waits for *)
(* its confirm, or its time was over when it could have been put back.     *)
NotLost ==
    \A m \in accepted \cap alloc :
        m \in Held \/ (lifetime[m] # 0 /\ lifetime[m] <= now_timems)

(* Messages that were never put back leave in the order in which they were *)
(* sent, and after all messages that were put back.                        *)
OldestFirst ==
    \A i, j \in DOMAIN queue :
        i < j /\ queue[j] \notin returned
            => queue[i] \notin returned /\ queue[i] > queue[j]

(* Two messages in memory never have the same tag, although msg_counter    *)
(* starts again at each run of server_updater: a confirm names one message.*)
UniqueTags ==
    \A m, n \in alloc : message[m].tag = message[n].tag => m = n

(* While the list of subscribers is the same, none gets two messages more  *)
(* than another.                                                           *)
Balanced ==
    \A c, d \in Elems(subscribed_clients_msg) : share[c] <= share[d] + 1

(* A popped message is back in the queue only when the time to confirm it  *)
(* is over: until then its receiver is the only one that has it.           *)
(* docs/README.md: "If the message is not confirmed for the specified      *)
(* time, the message will be returned to the queue as the oldest".         *)
NotBeforeDeadline ==
    \A m \in Elems(queue) \cap returned : deadline[m] <= now_timems

(* A message leaves the queue as the oldest, or at its expiration, or in a *)
(* purge: no other message is dropped by a pop, a forced push or by        *)
(* server_updater.                                                         *)
LeavesAsOldest ==
    [][\A m \in Elems(queue) \ Elems(queue)' :
          \/ m = LastOf(queue)
          \/ lifetime[m] # 0 /\ lifetime[m] <= now_timems'
          \/ queue' = <<>>]_vars

(* A popped message does not wait for ever: it is confirmed, put back or   *)
(* dropped as expired.                                                     *)
Resolved ==
    \A m \in Messages :
        m \in Elems(confirm_messages)
            ~> (m \notin Elems(confirm_messages) \/ undefined)

(* A queued message that has an expiration does not stay in the queue for  *)
(* ever, even if nobody pops it.                                           *)
ExpiryHappens ==
    \A m \in Messages :
        m \in Elems(queue) /\ lifetime[m] # 0
            ~> (m \notin Elems(queue) \/ undefined)
=============================================================================
