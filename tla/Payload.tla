------------------------------ MODULE Payload -------------------------------
(***************************************************************************)
(* The reference counts of message payloads (Object, src/src/object.c).    *)
(*                                                                         *)
(* A payload is not copied.  A message of a queue refers to it, the same   *)
(* payload may be in several queues (route_push), and every response or    *)
(* event that carries it refers to it from the client's list of responses  *)
(* until it is written to the socket, long after the message has been      *)
(* popped, confirmed or dropped.  The last of them to go releases it.      *)
(*                                                                         *)
(* What a queue does with a push, that is whether the message fits and the *)
(* queue is full, is modelled in MessageQueue: here each outcome that      *)
(* push_message_queue_t can have is possible.  A write event can always be *)
(* created (set_write_event).                                              *)
(***************************************************************************)
EXTENDS Lists

CONSTANTS
    Objects,      \* addresses of payloads
    Clients,
    Queues,
    Bound,        \* the queues bound to the route by the key, as a sequence
    RoundRobin,   \* queues with the round_robin flag
    Subscribable, \* queues that clients subscribe to
    MaxResponses  \* bound: responses of a client with the same payload

ASSUME PayloadAssumption ==
    /\ IsFiniteSet(Clients) /\ IsFiniteSet(Queues)
    /\ Bound \in Seq(Queues) /\ RoundRobin \subseteq Queues
    /\ NoRepetition(Bound)   \* bind_route_t (Broker, ListedOnce)
    /\ Subscribable \subseteq Queues /\ MaxResponses \in Nat

VARIABLES
    live,        \* payloads that are allocated
    refcount,    \* Object.refcount
    messages,    \* for each queue, the payloads of its messages, the ones
                 \* waiting for a confirm included
    leaked,      \* for each queue, the payloads of messages that are
                 \* neither stored nor released
    responses,   \* EagleClient.responses: how often a payload is in it
    subscribed,  \* Queue_t.subscribed_clients_msg
    undefined    \* released memory was accessed

payloadVars == <<live, refcount, messages, leaked, responses, subscribed, undefined>>

PayloadInit ==
    /\ live = {} /\ refcount = [o \in Objects |-> 0]
    /\ messages = [q \in Queues |-> {}] /\ leaked = [q \in Queues |-> {}]
    /\ responses = [c \in Clients |-> [o \in Objects |-> 0]]
    /\ subscribed = [q \in Queues |-> {}]
    /\ undefined = FALSE

-----------------------------------------------------------------------------
(* A handler works on the state as a record, call after call. *)

State == [live |-> live, refcount |-> refcount, messages |-> messages,
          leaked |-> leaked, responses |-> responses, undefined |-> FALSE]

Becomes(s) ==
    /\ live' = s.live /\ refcount' = s.refcount /\ messages' = s.messages
    /\ leaked' = s.leaked /\ responses' = s.responses
    /\ undefined' = s.undefined

(* create_dup_object, with the refcount the handler leaves in it *)
create_dup_object(s, o, count) ==
    [s EXCEPT !.live = @ \cup {o}, !.refcount[o] = count]

(* Mutant: a payload that is handed to a client is not counted. *)
increment_references_count_not(s, o, n) == s

(* increment_references_count, n times *)
increment_references_count(s, o, n) ==
    [s EXCEPT !.refcount[o] = @ + n,
              !.undefined = @ \/ (n > 0 /\ o \notin s.live)]

(* decrement_references_count, n[o] times for each payload o:              *)
(* release_object at 1 and below                                           *)
decrement_references_count(s, n) ==
    [s EXCEPT
       !.live = {o \in s.live : n[o] > 0 => s.refcount[o] > n[o]},
       !.refcount = [o \in Objects |->
           IF s.refcount[o] > n[o] THEN s.refcount[o] - n[o] ELSE 0],
       !.undefined = s.undefined \/ \E o \in Objects :
           \/ n[o] > 0 /\ o \notin s.live
           \/ n[o] > 1 /\ n[o] > s.refcount[o]]

(* Once for each payload in D *)
Once(D) == [o \in Objects |-> IF o \in D THEN 1 ELSE 0]

(* add_object_response, for each client in C *)
add_object_response(s, C, o) ==
    increment_references_count(
        [s EXCEPT !.responses = [c \in Clients |->
            [s.responses[c] EXCEPT ![o] = IF c \in C THEN @ + 1 ELSE @]]],
        o, Cardinality(C))

(* The room that the clients C have for one more response with o. *)
Room(C, o) == \A c \in C : responses[c][o] < MaxResponses

-----------------------------------------------------------------------------
(* What push_message_queue_t can do with a message: refuse it, hand it to  *)
(* the subscribers in "to", or store it, after dropping the messages in    *)
(* "drop" (the oldest one, if the queue is full and has force_push).       *)
Outcome == [refused : BOOLEAN, to : SUBSET Clients, drop : SUBSET Objects]

Outcomes(q) ==
    {w \in Outcome :
        IF w.refused THEN w.to = {} /\ w.drop = {}
        ELSE IF subscribed[q] = {}
        THEN /\ w.to = {}
             /\ w.drop \subseteq messages[q] /\ Cardinality(w.drop) <= 1
        ELSE /\ w.drop = {}
             /\ IF q \in RoundRobin
                THEN w.to \subseteq subscribed[q] /\ Cardinality(w.to) = 1
                ELSE w.to = subscribed[q]}

(* release_message for the messages of q with the payloads D *)
ReleaseMessages(s, q, D) ==
    decrement_references_count([s EXCEPT !.messages[q] = @ \ D], Once(D))

push_message_queue_t(s, q, o, w) ==
    IF w.refused THEN [s EXCEPT !.leaked[q] = @ \cup {o}]
    ELSE IF w.to # {}
    THEN decrement_references_count(add_object_response(s, w.to, o),
                                    Once({o}))
    ELSE [ReleaseMessages(s, q, w.drop) EXCEPT !.messages[q] = @ \cup {o}]

(* queue_push *)
QueuePush(q, o, w) ==
    /\ ~undefined
    /\ o \notin live /\ w \in Outcomes(q)
    /\ Room(w.to, o)
    /\ Becomes(push_message_queue_t(create_dup_object(State, o, 1), q, o, w))
    /\ UNCHANGED subscribed

(* push_message_route_t: each queue of the list gets the message, and the  *)
(* count of its payload, which starts at 0, is increased after each.       *)
push_message_route_t(s, list, o, how) ==
    LET after[i \in 0 .. Len(list)] ==   \* the first i queues have it
          IF i = 0 THEN s
          ELSE increment_references_count(
                 push_message_queue_t(after[i - 1], list[i], o,
                                      how[list[i]]), o, 1)
    IN  after[Len(list)]

(* route_push: to all queues in the list or, for a route with round_robin, *)
(* to one of them.  With a key that does not exist (the list is empty)     *)
(* nothing refers to the payload.                                          *)
RoutePush(list, o, how) ==
    /\ ~undefined
    /\ o \notin live
    /\ \A q \in Elems(list) : how[q] \in Outcomes(q) /\ Room(how[q].to, o)
    /\ Becomes(push_message_route_t(create_dup_object(State, o, 0), list, o,
                                    how))
    /\ UNCHANGED subscribed

(* channel_publish: to the clients C that are subscribed to the topic; the *)
(* handler's own reference is given up at the end.                         *)
ChannelPublish(C, o) ==
    /\ ~undefined
    /\ o \notin live
    /\ Room(C, o)
    /\ Becomes(decrement_references_count(
                 add_object_response(create_dup_object(State, o, 1), C, o),
                 Once({o})))
    /\ UNCHANGED subscribed

(* queue_get: the message stays in the queue. *)
QueueGet(c, q, o) ==
    /\ ~undefined
    /\ o \in messages[q]
    /\ Room({c}, o)
    /\ Becomes(add_object_response(State, {c}, o))
    /\ UNCHANGED subscribed

(* queue_pop without a timeout: the message is released.  With a timeout   *)
(* it is kept, and for its payload the request is a queue_get.             *)
QueuePop(c, q, o) ==
    /\ ~undefined
    /\ o \in messages[q]
    /\ Room({c}, o)
    /\ Becomes(ReleaseMessages(add_object_response(State, {c}, o), q, {o}))
    /\ UNCHANGED subscribed

(* queue_confirm, queue_purge, queue_delete and the expiry of messages     *)
(* release one or more messages of a queue.                                *)
Discard(q, D) ==
    /\ ~undefined
    /\ D # {} /\ D \subseteq messages[q]
    /\ Becomes(ReleaseMessages(State, q, D))
    /\ UNCHANGED subscribed

(* A message that has expired when it should be put back, or that waits    *)
(* for a confirm when its queue is deleted, is forgotten, not released.    *)
Forget(q, o) ==
    /\ ~undefined
    /\ o \in messages[q]
    /\ messages' = [messages EXCEPT ![q] = @ \ {o}]
    /\ leaked' = [leaked EXCEPT ![q] = @ \cup {o}]
    /\ UNCHANGED <<live, refcount, responses, subscribed, undefined>>

(* send_response: a response is written and deleted. *)
SendResponse(c, o) ==
    /\ ~undefined
    /\ responses[c][o] > 0
    /\ Becomes(decrement_references_count(
                 [State EXCEPT !.responses[c][o] = @ - 1], Once({o})))
    /\ UNCHANGED subscribed

(* Mutant: the responses of the client are not released with it. *)
FreeClientOnly(c) ==
    /\ ~undefined
    /\ responses' = [responses EXCEPT ![c] = [o \in Objects |-> 0]]
    /\ subscribed' = [q \in Queues |-> subscribed[q] \ {c}]
    /\ UNCHANGED <<live, refcount, messages, leaked, undefined>>

(* free_client: list_release on the responses that were not sent. *)
FreeClient(c) ==
    /\ ~undefined
    /\ Becomes(decrement_references_count(
                 [State EXCEPT !.responses[c] = [o \in Objects |-> 0]],
                 responses[c]))
    /\ subscribed' = [q \in Queues |-> subscribed[q] \ {c}]

(* queue_subscribe, queue_unsubscribe *)
Subscribe(c, q) ==
    /\ ~undefined
    /\ q \in Subscribable /\ c \notin subscribed[q]
    /\ subscribed' = [subscribed EXCEPT ![q] = @ \cup {c}]
    /\ UNCHANGED <<live, refcount, messages, leaked, responses, undefined>>

Unsubscribe(c, q) ==
    /\ ~undefined
    /\ c \in subscribed[q]
    /\ subscribed' = [subscribed EXCEPT ![q] = @ \ {c}]
    /\ UNCHANGED <<live, refcount, messages, leaked, responses, undefined>>

PayloadNext ==
    \/ \E o \in Objects :
        \/ \E q \in Queues : \E w \in Outcomes(q) : QueuePush(q, o, w)
        \/ \E list \in {Bound} \cup {<<q>> : q \in Elems(Bound)} :
             \E how \in [Elems(list) -> UNION {Outcomes(q) : q \in Queues}] :
                RoutePush(list, o, how)
        \/ \E C \in SUBSET Clients : ChannelPublish(C, o)
        \/ \E c \in Clients : SendResponse(c, o)
        \/ \E c \in Clients, q \in Queues :
             QueueGet(c, q, o) \/ QueuePop(c, q, o)
        \/ \E q \in Queues : Forget(q, o)
    \/ \E q \in Queues : \E D \in SUBSET messages[q] : Discard(q, D)
    \/ \E c \in Clients : FreeClient(c)
    \/ \E c \in Clients, q \in Queues : Subscribe(c, q) \/ Unsubscribe(c, q)

PayloadSpec == PayloadInit /\ [][PayloadNext]_payloadVars

-----------------------------------------------------------------------------
(* Properties *)

(* The messages and responses that refer to a payload: in each queue one   *)
(* message, and of each client as many responses as it has with it.        *)
Holders(o) ==
    Cardinality({q \in Queues : o \in messages[q]})
    + Cardinality({q \in Queues : o \in leaked[q]})
    + Cardinality(UNION {{c} \X (1 .. responses[c][o]) : c \in Clients})

(* The count of a payload is the number of its holders, in whatever order  *)
(* messages are delivered, popped and dropped and responses sent: it is    *)
(* neither released while somebody refers to it nor kept after the last.   *)
RefcountExact ==
    ~undefined => /\ \A o \in live : refcount[o] = Holders(o)
                  /\ \A o \in Objects \ live : Holders(o) = 0

(* No handler accesses a payload that was released.  docs/README.md, on    *)
(* subscribing with QUEUE_SUBSCRIBE_MSG: "after every .queue_push command  *)
(* server automatically sent a message to client"; of routes: "Routes      *)
(* allow you to distribute incoming messages to the queues".               *)
PayloadAlive ==
    /\ ~undefined
    /\ \A q \in Queues : messages[q] \subseteq live
    /\ \A c \in Clients, o \in Objects : responses[c][o] > 0 => o \in live
=============================================================================
