---------------------------- MODULE Connections -----------------------------
(***************************************************************************)
(* The event loop (src/src/event.c, event_epoll.c) and the life of a       *)
(* connection in it (accept_common_handler, create_client, free_client,    *)
(* read_request, send_response and client_timeout in handlers.c).          *)
(*                                                                         *)
(* process_events asks epoll which descriptors are ready and then calls    *)
(* their handlers one after the other, although a handler may close        *)
(* descriptors, and accept gives a closed descriptor to the next           *)
(* connection.  Each call of a handler is an action, and each turn of the  *)
(* loop in send_response; meanwhile the clients send, receive and go.      *)
(*                                                                         *)
(* How a request is read is modelled in Framing, and what it does in the   *)
(* other modules: here it adds a response to a client, its own or, for a   *)
(* subscription, another one, or it is disconnect.  epoll has at any time  *)
(* the descriptors and masks of loop->events.  The only time event is      *)
(* server_updater.                                                         *)
(***************************************************************************)
EXTENDS Integers, Sequences, FiniteSets

CONSTANTS
    Addrs,          \* addresses of EagleClient
    FirstFd,        \* the lowest descriptor that accept can return
    max_clients,    \* server->max_clients
    client_timeout, \* server->client_timeout, 0: none
    Sizes,          \* sizes of responses
    Null,
    MaxResponses    \* bound: responses that are not sent

(* init_server: create_event_loop(server->max_clients + 1) *)
LoopSize == max_clients + 1

(* The descriptors of connections.  accept returns the lowest free one, so *)
(* no more than one is ever refused for its number.                        *)
Fds == FirstFd .. LoopSize

ListenFd == FirstFd - 1

READABLE == "EG_EVENT_READABLE"
WRITABLE == "EG_EVENT_WRITABLE"

(* EagleClient: idle is time(NULL) - last_action, and sentlen the bytes    *)
(* that are sent of the first response.                                    *)
EagleClient ==
    [fd : Fds, idle : Nat, responses : Seq(Sizes), sentlen : Nat]

(* FileEvent, and the entries of loop->fired *)
FileEvent  == [mask : SUBSET {READABLE, WRITABLE}, data : Addrs \cup {Null}]
FiredEvent == [fd : Fds \cup {ListenFd}, mask : SUBSET {READABLE, WRITABLE}]

(* A connection: what the client sent (one request, or the end), and       *)
(* whether there is room for what is sent to it.                           *)
Connection == [input : {"none", "request", "end"}, room : BOOLEAN]

ASSUME ConnectionsAssumption ==
    /\ Null \notin EagleClient \cup FiredEvent \cup Connection
    /\ FirstFd \in Nat \ {0} /\ max_clients \in Nat /\ FirstFd <= LoopSize
    /\ client_timeout \in Nat /\ Sizes \subseteq Nat
    /\ IsFiniteSet(Addrs) /\ Cardinality(Addrs) >= LoopSize - FirstFd
    /\ MaxResponses \in Nat

VARIABLES
    client,   \* for each address, the EagleClient there or Null
    events,   \* loop->events
    fired,    \* the descriptors and masks that are left of loop->fired
    current,  \* the one whose write handler is next, or Null
    polled,   \* in process_events, after event_api_poll

    socket,   \* for each descriptor, the connection or Null
    closed,   \* history: the connections with an event in fired or current
              \* that were closed since
    got       \* history: the bytes that a client has of the response it
              \* is receiving

loop_vars == <<events, fired, current, polled>>
hist_vars == <<closed, got>>
vars == <<client, loop_vars, socket, hist_vars>>

clients == {c \in Addrs : client[c] # Null}

Open == {fd \in Fds : socket[fd] # Null}

Init ==
    /\ client = [c \in Addrs |-> Null]
    /\ events = [fd \in Fds |-> [mask |-> {}, data |-> Null]]
    /\ fired = {} /\ current = Null /\ polled = FALSE
    /\ socket = [fd \in Fds |-> Null]
    /\ closed = {}
    /\ got = [fd \in Fds |-> 0]

-----------------------------------------------------------------------------
(* The clients and time *)

(* A request arrives, or the end of the connection. *)
Arrives(fd, what) ==
    /\ fd \in Open
    /\ socket[fd].input \in (IF what = "end" THEN {"none", "request"}
                                             ELSE {"none"})
    /\ socket' = [socket EXCEPT ![fd].input = what]
    /\ UNCHANGED <<client, loop_vars, hist_vars>>

Receives(fd) ==
    /\ fd \in Open
    /\ ~ socket[fd].room
    /\ socket' = [socket EXCEPT ![fd].room = TRUE]
    /\ UNCHANGED <<client, loop_vars, hist_vars>>

(* A second passes: time(NULL) - client->last_action grows. *)
Clock ==
    /\ \E c \in clients : client[c].idle <= client_timeout
    /\ client' = [c \in Addrs |->
                     IF c \in clients /\ client[c].idle <= client_timeout
                     THEN [client[c] EXCEPT !.idle = @ + 1] ELSE client[c]]
    /\ UNCHANGED <<loop_vars, socket, hist_vars>>

-----------------------------------------------------------------------------
(* File events *)

(* create_file_event, for a descriptor below loop->size *)
create_file_event(fd, mask, c) ==
    events' = [events EXCEPT ![fd] = [mask |-> @.mask \cup {mask},
                                      data |-> c]]

(* Mutant: the write event is left. *)
DeletedReadable(C) ==
    [fd \in Fds |-> IF \E c \in C : client[c].fd = fd
                    THEN [events[fd] EXCEPT !.mask = @ \ {READABLE}]
                    ELSE events[fd]]

(* delete_file_event for both events of the clients in C *)
Deleted(C) ==
    [fd \in Fds |-> IF \E c \in C : client[c].fd = fd
                    THEN [events[fd] EXCEPT !.mask = {}] ELSE events[fd]]

(* The descriptors for which process_events still has something to call,   *)
(* when it has left rest and cur.                                          *)
Pending(rest, cur) ==
    {e.fd : e \in rest} \cup (IF cur = Null THEN {} ELSE {cur.fd})

(* free_client for the clients in C, while rest and cur are pending *)
free_clients(C, rest, cur) ==
    LET fds == {client[c].fd : c \in C} IN
    /\ client' = [c \in Addrs |-> IF c \in C THEN Null ELSE client[c]]
    /\ events' = Deleted(C)
    /\ socket' = [fd \in Fds |-> IF fd \in fds THEN Null ELSE socket[fd]]
    /\ closed' = (closed \cup fds) \cap Pending(rest, cur)
    /\ got' = [fd \in Fds |-> IF fd \in fds THEN 0 ELSE got[fd]]

(* A handler is over that frees nobody. *)
NobodyFreed(rest, cur) == closed' = closed \cap Pending(rest, cur)

-----------------------------------------------------------------------------
(* process_events *)

(* event_api_poll: all that is ready.  The end of a connection may be      *)
(* reported as EPOLLHUP or EPOLLERR too, which becomes WRITABLE.           *)
Ready(fd) ==
    {m \in {READABLE, WRITABLE} :
        \/ m = READABLE /\ m \in events[fd].mask /\ socket[fd].input # "none"
        \/ m = WRITABLE /\ m \in events[fd].mask /\ socket[fd].room
        \/ m = WRITABLE /\ socket[fd].input = "end"}

(* It returns at the latest when server_updater is due.  Connections wait  *)
(* to be accepted or not.                                                  *)
Poll ==
    /\ ~ polled
    /\ polled' = TRUE
    /\ \E waiting \in SUBSET {[fd |-> ListenFd, mask |-> {READABLE}]} :
           fired' = waiting \cup {[fd |-> fd, mask |-> Ready(fd)] :
                                     fd \in {f \in Open : Ready(f) # {}}}
    /\ UNCHANGED <<client, events, current, socket, hist_vars>>

create_client(c, fd) ==
    /\ client' = [client EXCEPT ![c] = [fd |-> fd, idle |-> 0,
                                        responses |-> <<>>, sentlen |-> 0]]
    /\ create_file_event(fd, READABLE, c)
    /\ socket' = [socket EXCEPT ![fd] = [input |-> "none", room |-> TRUE]]

(* accept_tcp_handler, accept_common_handler.  accept returns the lowest   *)
(* descriptor that is free; create_client fails if it is not below         *)
(* loop->size, and so there are never more than max_clients clients when   *)
(* it does not.  The client is at some address that is free.               *)
Accept ==
    LET fd == CHOOSE f \in Fds \ Open : \A g \in Fds \ Open : f <= g
        c == CHOOSE a \in Addrs : a \notin clients
    IN
    /\ polled /\ current = Null
    /\ \E e \in fired : e.fd = ListenFd /\ fired' = fired \ {e}
    /\ \/ /\ fd < LoopSize
          /\ create_client(c, fd)
       \/ /\ fd >= LoopSize
          /\ UNCHANGED <<client, events, socket>>
    /\ UNCHANGED <<current, polled, got>>
    /\ NobodyFreed(fired', Null)

(* process_events takes the next descriptor; its write handler comes next. *)
Take(e) ==
    /\ polled /\ current = Null
    /\ e \in fired /\ e.fd # ListenFd
    /\ fired' = fired \ {e}
    /\ current' = IF WRITABLE \in e.mask THEN e ELSE Null
    /\ UNCHANGED polled

NotReadable(e) ==
    /\ Take(e)
    /\ READABLE \notin e.mask \cap events[e.fd].mask
    /\ NobodyFreed(fired', current')
    /\ UNCHANGED <<client, events, socket, got>>

(* read_request: the client is gone, or its request is disconnect. *)
ReadEnd(e) ==
    /\ Take(e)
    /\ READABLE \in e.mask \cap events[e.fd].mask
    /\ socket[e.fd].input # "none"
    /\ free_clients({events[e.fd].data}, fired', current')

(* The responses that are not sent. *)
Unsent ==
    {r \in clients \X (1 .. MaxResponses) : r[2] <= Len(client[r[1]].responses)}

(* add_response, add_object_response and set_write_event *)
add_response(before, d, size) ==
    /\ Cardinality(Unsent) < MaxResponses
    /\ client' = [before EXCEPT ![d].responses = Append(@, size)]
    /\ create_file_event(before[d].fd, WRITABLE, d)

(* read_request: the request adds a response to some client, or none. *)
ReadRequest(e) ==
    LET active == [client EXCEPT ![events[e.fd].data].idle = 0] IN
    /\ Take(e)
    /\ READABLE \in e.mask \cap events[e.fd].mask
    /\ socket[e.fd].input = "request"
    /\ socket' = [socket EXCEPT ![e.fd].input = "none"]
    /\ \/ \E d \in clients, size \in Sizes : add_response(active, d, size)
       \/ client' = active /\ UNCHANGED events
    /\ NobodyFreed(fired', current')
    /\ UNCHANGED got

(* The write handler is not called: its event was deleted, or not asked    *)
(* for.                                                                    *)
NotWritable ==
    /\ current # Null
    /\ WRITABLE \notin events[current.fd].mask
    /\ current' = Null
    /\ NobodyFreed(fired, Null)
    /\ UNCHANGED <<client, events, fired, polled, socket, got>>

(* In send_response, for the client c. *)
Sending(c) ==
    /\ current # Null
    /\ WRITABLE \in events[current.fd].mask
    /\ c = events[current.fd].data
    /\ UNCHANGED <<fired, polled>>

(* The first response is empty. *)
SendEmpty(c) ==
    /\ Sending(c)
    /\ client[c].responses # <<>> /\ Head(client[c].responses) = 0
    /\ client' = [client EXCEPT ![c].responses = Tail(@)]
    /\ UNCHANGED <<current, events, socket, hist_vars>>

(* Mutant: sentlen is only reset when all responses are sent. *)
WrittenOnly(r, n) ==
    IF r.sentlen + n >= Head(r.responses)
    THEN [r EXCEPT !.idle = 0, !.responses = Tail(@), !.sentlen = @ + n]
    ELSE [r EXCEPT !.idle = 0, !.sentlen = @ + n]

(* n bytes of the first response of the client r are written. *)
Written(r, n) ==
    IF r.sentlen + n = Head(r.responses)
    THEN [r EXCEPT !.idle = 0, !.responses = Tail(@), !.sentlen = 0]
    ELSE [r EXCEPT !.idle = 0, !.sentlen = @ + n]

SendBytes(c, n) ==
    /\ Sending(c)
    /\ client[c].responses # <<>>
    /\ n <= Head(client[c].responses) - client[c].sentlen
    /\ socket[current.fd].room
    /\ client' = [client EXCEPT ![c] = Written(@, n)]
    /\ \E room \in BOOLEAN :
           socket' = [socket EXCEPT ![current.fd].room = room]
    /\ got' = [got EXCEPT ![current.fd] =
                  IF @ + n >= Head(client[c].responses) THEN 0 ELSE @ + n]
    /\ UNCHANGED <<current, events, closed>>

(* There is no room. *)
SendAgain(c) ==
    /\ Sending(c)
    /\ client[c].responses # <<>> /\ Head(client[c].responses) # 0
    /\ ~ socket[current.fd].room
    /\ current' = Null
    /\ NobodyFreed(fired, Null)
    /\ UNCHANGED <<client, events, socket, got>>

(* The connection is broken. *)
SendFails(c) ==
    /\ Sending(c)
    /\ client[c].responses # <<>> /\ Head(client[c].responses) # 0
    /\ socket[current.fd].input = "end"
    /\ current' = Null
    /\ free_clients({c}, fired, Null)

(* All is sent. *)
SendDone(c) ==
    /\ Sending(c)
    /\ client[c].responses = <<>>
    /\ client' = [client EXCEPT ![c].sentlen = 0]
    /\ events' = [events EXCEPT ![current.fd].mask = @ \ {WRITABLE}]
    /\ current' = Null
    /\ NobodyFreed(fired, Null)
    /\ UNCHANGED <<socket, got>>

(* Mutant: a client that has responses is left alone. *)
IdleUnanswered ==
    IF client_timeout = 0 THEN {}
    ELSE {c \in clients : client[c].idle > client_timeout /\
                          client[c].responses = <<>>}

(* The clients that client_timeout frees. *)
Idle ==
    IF client_timeout = 0 THEN {}
    ELSE {c \in clients : client[c].idle > client_timeout}

(* process_time_events: server_updater, which calls client_timeout *)
Updater ==
    /\ polled /\ fired = {} /\ current = Null
    /\ polled' = FALSE
    /\ free_clients(Idle, {}, Null)
    /\ UNCHANGED <<fired, current>>

(* server_updater is not due. *)
NoTimeEvent ==
    /\ polled /\ fired = {} /\ current = Null
    /\ polled' = FALSE
    /\ UNCHANGED <<client, events, fired, current, socket, hist_vars>>

Write == \E c \in clients :
    \/ SendEmpty(c)
    \/ \E n \in 1 .. (IF client[c].responses = <<>> THEN 0
                      ELSE Head(client[c].responses)) : SendBytes(c, n)
    \/ SendAgain(c) \/ SendFails(c) \/ SendDone(c)

Server ==
    \/ Poll
    \/ Accept
    \/ \E e \in fired : NotReadable(e) \/ ReadEnd(e) \/ ReadRequest(e)
    \/ NotWritable
    \/ Write
    \/ Updater \/ NoTimeEvent

Network ==
    \/ \E fd \in Fds, what \in {"request", "end"} : Arrives(fd, what)
    \/ \E fd \in Fds : Receives(fd)

Next == Server \/ Network \/ Clock

Spec == Init /\ [][Next]_vars

(* The server goes on, time passes, and since epoll_wait returns after a   *)
(* tenth of a second at the latest, server_updater is due again and again. *)
FairSpec ==
    Spec /\ WF_vars(Server) /\ WF_vars(Clock) /\ SF_vars(Updater)
-----------------------------------------------------------------------------
(* Properties *)

(* The event loop and the clients agree: a client has its own descriptor,  *)
(* with itself as the argument of the handlers, is always listened to, and *)
(* is to be written to if and only if it has responses (it would wait for  *)
(* them for ever, or the loop would spin).  Nothing is called for any      *)
(* other descriptor, whose data is a released client.                      *)
Armed ==
    /\ \A c \in clients :
        LET e == events[client[c].fd] IN
        /\ client[c].fd \in Open
        /\ e.data = c /\ READABLE \in e.mask
        /\ client[c].responses # <<>> => WRITABLE \in e.mask
        /\ WRITABLE \in e.mask /\ current = Null => client[c].responses # <<>>
    /\ \A fd \in Fds : events[fd].mask # {} =>
        \E c \in clients : client[c].fd = fd

(* An event that epoll reported for a connection that was closed meanwhile *)
(* is not taken for one of the connection that got the same descriptor.    *)
RightConnection ==
    \A e \in fired \cup ({current} \ {Null}) :
        e.fd \in closed => events[e.fd].mask \cap e.mask = {}

(* What a client receives are whole responses, one after the other: the    *)
(* next byte written to it is the next byte of the response it has begun   *)
(* to receive.                                                             *)
NextByte ==
    \A c \in clients : client[c].sentlen = got[client[c].fd]

(* With a timeout, a connection that stays is active again and again, even *)
(* if the client does not receive what was sent to it.                     *)
ActiveAgain ==
    client_timeout # 0 => \A c \in Addrs :
        <>[](c \in clients) => []<>(c \in clients /\ client[c].idle = 0)
=============================================================================
