------------------------------- MODULE Broker -------------------------------
(***************************************************************************)
(* Who knows whom in the server: the clients, the queues, the routes, and  *)
(* the lists through which they refer to each other.  Every reference is   *)
(* kept twice, once on each side, by plain pointers:                       *)
(*   client->declared_queues      and  queue_t->declared_clients           *)
(*   client->subscribed_queues    and  queue_t->subscribed_clients_msg and *)
(*                                     subscribed_clients_notify           *)
(*   route->keys                  and  queue_t->routes                     *)
(* A request, a lost connection, a flush or an automatic deletion (a queue *)
(* without clients, a route without queues, one triggering the other) has  *)
(* to update both sides, or a pointer to released memory stays behind.     *)
(*                                                                         *)
(* A list is a bag: the number of times each value is in it, because the   *)
(* order of these lists decides nothing here.  An object is its address,   *)
(* and an address that was released can be allocated again.  Requests that *)
(* the handlers refuse (permissions, unknown names) change nothing and are *)
(* not actions.  Messages are modelled in MessageQueue.                    *)
(***************************************************************************)
EXTENDS Integers, FiniteSets

CONSTANTS
    Clients,     \* addresses of EagleClient
    Queues,      \* addresses of Queue_t
    Routes,      \* addresses of Route_t
    Keys,        \* routing keys
    QueueNames,  \* names of queues
    RouteNames   \* names of routes

VARIABLES
    clients,     \* server->clients
    queues,      \* server->queues
    routes,      \* server->routes
    queue_name, queue_auto_delete,   \* fields of Queue_t
    route_name, route_auto_delete,   \* fields of Route_t
    declared_queues, subscribed_queues,    \* lists of EagleClient
    declared_clients,                      \* lists of Queue_t
    subscribed_clients_msg, subscribed_clients_notify,
    keys,        \* Route_t.keys: for each key, the list of its queues
    queue_routes \* Queue_t.routes: for each key, the list of its routes

object_vars == <<clients, queues, routes>>
field_vars  == <<queue_name, queue_auto_delete, route_name,
                 route_auto_delete>>
client_vars == <<declared_queues, subscribed_queues, declared_clients,
                 subscribed_clients_msg, subscribed_clients_notify>>
bind_vars   == <<keys, queue_routes>>
vars        == <<object_vars, field_vars, client_vars, bind_vars>>

-----------------------------------------------------------------------------
(* Lists *)

Empty(S) == [x \in S |-> 0]

(* list_delete_value, n times *)
Less(count, n) == IF count > n THEN count - n ELSE 0

IsEmpty(list) == \A x \in DOMAIN list : list[x] = 0

Init ==
    /\ clients = {} /\ queues = {} /\ routes = {}
    /\ queue_name \in [Queues -> QueueNames]
    /\ queue_auto_delete = [q \in Queues |-> FALSE]
    /\ route_name \in [Routes -> RouteNames]
    /\ route_auto_delete = [r \in Routes |-> FALSE]
    /\ declared_queues = [c \in Clients |-> Empty(Queues)]
    /\ subscribed_queues = [c \in Clients |-> Empty(Queues)]
    /\ declared_clients = [q \in Queues |-> Empty(Clients)]
    /\ subscribed_clients_msg = [q \in Queues |-> Empty(Clients)]
    /\ subscribed_clients_notify = [q \in Queues |-> Empty(Clients)]
    /\ keys = [r \in Routes |-> [k \in Keys |-> Empty(Queues)]]
    /\ queue_routes = [q \in Queues |-> [k \in Keys |-> Empty(Routes)]]

-----------------------------------------------------------------------------
(* Clients and queues *)

(* accept_tcp_handler, create_client: a connection is accepted. *)
Connect(c) ==
    /\ c \notin clients
    /\ clients' = clients \cup {c}
    /\ UNCHANGED <<queues, routes, field_vars, client_vars, bind_vars>>

(* find_queue_t: the queue q of a list is the one with the name. *)
Named(q, name) == q \in queues /\ queue_name[q] = name

(* queue_create: the name is free; q is the address of the new queue. *)
QueueCreate(q, name, auto) ==
    /\ clients # {}
    /\ ~ \E p \in queues : Named(p, name)
    /\ q \notin queues
    /\ queues' = queues \cup {q}
    /\ queue_name' = [queue_name EXCEPT ![q] = name]
    /\ queue_auto_delete' = [queue_auto_delete EXCEPT ![q] = auto]
    /\ UNCHANGED <<clients, routes, route_name, route_auto_delete,
                   client_vars, bind_vars>>

(* queue_rename: no queue has the new name. *)
QueueRename(q, name) ==
    /\ clients # {}
    /\ q \in queues
    /\ ~ \E p \in queues : Named(p, name)
    /\ queue_name' = [queue_name EXCEPT ![q] = name]
    /\ UNCHANGED <<object_vars, queue_auto_delete, route_name,
                   route_auto_delete, client_vars, bind_vars>>

(* The client c has in the list a queue with the name of q (find_queue_t   *)
(* on a list of the client).                                               *)
Has(list, c, q) ==
    \E p \in Queues : list[c][p] > 0 /\ queue_name[p] = queue_name[q]

(* Both sides get a new entry. *)
declare_client_queue_t(q, c) ==
    /\ declared_queues' = [declared_queues EXCEPT ![c][q] = @ + 1]
    /\ declared_clients' = [declared_clients EXCEPT ![q][c] = @ + 1]

(* queue_declare: nothing happens if the client has declared a queue with  *)
(* this name.                                                              *)
QueueDeclare(c, q) ==
    /\ c \in clients
    /\ q \in queues
    /\ ~ Has(declared_queues, c, q)
    /\ declare_client_queue_t(q, c)
    /\ UNCHANGED <<object_vars, field_vars, subscribed_queues,
                   subscribed_clients_msg, subscribed_clients_notify,
                   bind_vars>>

(* The client enters one of the queue's two lists. *)
subscribe_client_queue_t(q, c, notify) ==
    /\ subscribed_queues' = [subscribed_queues EXCEPT ![c][q] = @ + 1]
    /\ subscribed_clients_msg' =
         [subscribed_clients_msg EXCEPT ![q][c] = IF notify THEN @ ELSE @ + 1]
    /\ subscribed_clients_notify' =
         [subscribed_clients_notify EXCEPT ![q][c] =
            IF notify THEN @ + 1 ELSE @]

(* Mutant: the second subscription of a client is accepted. *)
QueueSubscribeTwice(c, q, notify) ==
    /\ c \in clients
    /\ declared_queues[c][q] > 0
    /\ subscribe_client_queue_t(q, c, notify)
    /\ UNCHANGED <<object_vars, field_vars, declared_queues,
                   declared_clients, bind_vars>>

(* queue_subscribe *)
QueueSubscribe(c, q, notify) ==
    /\ c \in clients
    /\ declared_queues[c][q] > 0
    /\ ~ Has(subscribed_queues, c, q)
    /\ subscribe_client_queue_t(q, c, notify)
    /\ UNCHANGED <<object_vars, field_vars, declared_queues,
                   declared_clients, bind_vars>>

(* One subscription for messages is removed or, if there is none, all for  *)
(* notifications.                                                          *)
unsubscribe_client_queue_t(q, c) ==
    /\ subscribed_queues' = [subscribed_queues EXCEPT ![c][q] = Less(@, 1)]
    /\ subscribed_clients_msg' =
         [subscribed_clients_msg EXCEPT ![q][c] = Less(@, 1)]
    /\ subscribed_clients_notify' =
         [subscribed_clients_notify EXCEPT ![q][c] =
            IF subscribed_clients_msg[q][c] > 0 THEN @ ELSE 0]

(* queue_unsubscribe *)
QueueUnsubscribe(c, q) ==
    /\ c \in clients
    /\ declared_queues[c][q] > 0
    /\ Has(subscribed_queues, c, q)
    /\ unsubscribe_client_queue_t(q, c)
    /\ UNCHANGED <<object_vars, field_vars, declared_queues,
                   declared_clients, bind_vars>>

-----------------------------------------------------------------------------
(* Deletion *)

(* eject_clients_queue_t: for each client in the lists of the queues in Q, *)
(* list_delete_value on the client's own list.                             *)
EjectClients(list, listed, Q) ==
    [c \in Clients |-> [q \in Queues |->
        IF q \in Q THEN Less(list[c][q], listed[q][c]) ELSE list[c][q]]]

(* The lists of the released objects in S are released with them. *)
Released(lists, S, empty) ==
    [x \in DOMAIN lists |-> IF x \in S THEN empty ELSE lists[x]]

(* Mutant: the routes are not told that the queue is gone. *)
EjectRoutesNot(Q) == keys

(* eject_routes_queue_t, unbind_route_t: the queues in Q are unbound from  *)
(* each route they are linked to.                                          *)
EjectRoutes(Q) ==
    [r \in Routes |-> [k \in Keys |-> [q \in Queues |->
        IF q \in Q THEN Less(keys[r][k][q], queue_routes[q][k][r])
                   ELSE keys[r][k][q]]]]

(* Mutant: routes are not deleted automatically. *)
EmptiedNever(bound, R) == {}

(* unbind_route_t deletes these of the routes R, which it has unbound from *)
(* a queue: they are left without a key, and have the auto_delete flag.    *)
Emptied(bound, R) ==
    {r \in R : route_auto_delete[r] /\ \A k \in Keys : IsEmpty(bound[r][k])}

Linked(Q) ==
    {r \in routes : \E q \in Q, k \in Keys : queue_routes[q][k][r] > 0}

(* Mutant: a deleted route leaves the queues' lists alone. *)
UnlinkRoutesNot(links, bound, R) == links

(* unbind_queues_route_t: the routes in R are taken out of the lists of    *)
(* the queues that they are bound to.                                      *)
UnlinkRoutes(links, bound, R) ==
    [q \in Queues |-> [k \in Keys |-> [r \in Routes |->
        IF r \in R THEN Less(links[q][k][r], bound[r][k][q])
                   ELSE links[q][k][r]]]]

(* delete_queue_t for the queues in Q, then delete_route_t for the routes  *)
(* in R.  The routes that lose their last queue with Q go as well.         *)
Delete(Q, R) ==
    LET bound == EjectRoutes(Q)
        gone  == R \cup Emptied(bound, Linked(Q))
        links == Released(queue_routes, Q, [k \in Keys |-> Empty(Routes)])
    IN  /\ queues' = queues \ Q
        /\ routes' = routes \ gone
        /\ keys' = Released(bound, gone, [k \in Keys |-> Empty(Queues)])
        /\ queue_routes' = UnlinkRoutes(links, bound, gone)

(* The queues in Q are deleted by a request, then the routes in R. *)
DeleteAll(Q, R) ==
    /\ clients # {}
    /\ Delete(Q, R)
    /\ declared_queues' = EjectClients(declared_queues, declared_clients, Q)
    /\ subscribed_queues' =
         EjectClients(EjectClients(subscribed_queues,
                                   subscribed_clients_msg, Q),
                      subscribed_clients_notify, Q)
    /\ declared_clients' = Released(declared_clients, Q, Empty(Clients))
    /\ subscribed_clients_msg' =
         Released(subscribed_clients_msg, Q, Empty(Clients))
    /\ subscribed_clients_notify' =
         Released(subscribed_clients_notify, Q, Empty(Clients))
    /\ UNCHANGED <<clients, field_vars>>

(* queue_delete *)
QueueDelete(q) == q \in queues /\ DeleteAll({q}, {})

(* route_delete *)
RouteDelete(r) == r \in routes /\ DeleteAll({}, {r})

(* flush, with EG_FLUSH_QUEUE_FLAG or EG_FLUSH_ROUTE_FLAG or both: the     *)
(* routes that are left when the queues are gone are deleted next.         *)
Flush(flush_queues, flush_routes) ==
    DeleteAll(IF flush_queues THEN queues ELSE {},
              IF flush_routes THEN routes ELSE {})

-----------------------------------------------------------------------------
(* The end of a connection *)

(* eject_queue_client on the list of one of the client's queues: the       *)
(* client is removed as often as the queue is in the client's own list.    *)
EjectClient(listed, list, c) ==
    [q \in Queues |-> [listed[q] EXCEPT ![c] = Less(@, list[c][q])]]

(* Mutant: queues are not deleted automatically. *)
AbandonedNever(c) == {}

(* process_queue_t deletes these. *)
Abandoned(c) ==
    {q \in queues :
        /\ declared_queues[c][q] > 0
        /\ queue_auto_delete[q]
        /\ IsEmpty(EjectClient(declared_clients, declared_queues, c)[q])}

(* free_client: the client is taken out of the lists of its queues, and    *)
(* the queues with the auto_delete flag that nobody else has declared are  *)
(* deleted, which ejects the clients still subscribed to them.             *)
FreeClient(c) ==
    LET gone   == Abandoned(c)
        msg    == EjectClient(subscribed_clients_msg, subscribed_queues, c)
        notify == [q \in Queues |-> [subscribed_clients_notify[q] EXCEPT
                     ![c] = IF subscribed_queues[c][q] >
                               subscribed_clients_msg[q][c] THEN 0 ELSE @]]
    IN  /\ c \in clients
        /\ clients' = clients \ {c}
        /\ Delete(gone, {})
        /\ declared_queues' = [declared_queues EXCEPT ![c] = Empty(Queues)]
        /\ subscribed_queues' =
             EjectClients(EjectClients(
                 [subscribed_queues EXCEPT ![c] = Empty(Queues)],
                 msg, gone), notify, gone)
        /\ declared_clients' =
             Released(EjectClient(declared_clients, declared_queues, c),
                      gone, Empty(Clients))
        /\ subscribed_clients_msg' = Released(msg, gone, Empty(Clients))
        /\ subscribed_clients_notify' =
             Released(notify, gone, Empty(Clients))
        /\ UNCHANGED field_vars

-----------------------------------------------------------------------------
(* Routes *)

(* route_create *)
RouteCreate(r, name, auto) ==
    /\ clients # {}
    /\ ~ \E p \in routes : route_name[p] = name
    /\ r \notin routes
    /\ routes' = routes \cup {r}
    /\ route_name' = [route_name EXCEPT ![r] = name]
    /\ route_auto_delete' = [route_auto_delete EXCEPT ![r] = auto]
    /\ UNCHANGED <<clients, queues, queue_name, queue_auto_delete,
                   client_vars, bind_vars>>

(* route_rename *)
RouteRename(r, name) ==
    /\ clients # {}
    /\ r \in routes
    /\ ~ \E p \in routes : route_name[p] = name
    /\ route_name' = [route_name EXCEPT ![r] = name]
    /\ UNCHANGED <<object_vars, queue_name, queue_auto_delete,
                   route_auto_delete, client_vars, bind_vars>>

(* The other half of a binding: the queue's list of routes for the key. *)
link_queue_route_t(q, r, k) ==
    [queue_routes EXCEPT ![q][k][r] = IF @ > 0 THEN @ ELSE 1]

unlink_queue_route_t(q, r, k) ==
    [queue_routes EXCEPT ![q][k][r] = Less(@, 1)]

(* A queue is bound by a key once. *)
bind_route_t(r, q, k) ==
    /\ keys[r][k][q] = 0
    /\ keys' = [keys EXCEPT ![r][k][q] = 1]
    /\ queue_routes' = link_queue_route_t(q, r, k)

(* The key exists; the route is deleted if it was the last one and has the *)
(* auto_delete flag.                                                       *)
unbind_route_t(r, q, k) ==
    LET bound == [keys EXCEPT ![r][k][q] = Less(@, 1)]
        gone  == Emptied(bound, {r})
    IN  /\ ~ IsEmpty(keys[r][k])
        /\ routes' = routes \ gone
        /\ keys' = bound
        /\ queue_routes' =
             UnlinkRoutes(unlink_queue_route_t(q, r, k), bound, gone)

(* route_bind *)
RouteBind(r, q, k) ==
    /\ clients # {}
    /\ r \in routes /\ q \in queues
    /\ bind_route_t(r, q, k)
    /\ UNCHANGED <<object_vars, field_vars, client_vars>>

(* route_unbind *)
RouteUnbind(r, q, k) ==
    /\ clients # {}
    /\ r \in routes /\ q \in queues
    /\ unbind_route_t(r, q, k)
    /\ UNCHANGED <<clients, queues, field_vars, client_vars>>

-----------------------------------------------------------------------------
Next ==
    \/ \E c \in Clients : Connect(c) \/ FreeClient(c)
    \/ \E q \in Queues, name \in QueueNames :
          \/ \E auto \in BOOLEAN : QueueCreate(q, name, auto)
          \/ QueueRename(q, name)
    \/ \E c \in Clients, q \in Queues :
          \/ QueueDeclare(c, q)
          \/ \E notify \in BOOLEAN : QueueSubscribe(c, q, notify)
          \/ QueueUnsubscribe(c, q)
    \/ \E q \in Queues : QueueDelete(q)
    \/ \E r \in Routes, name \in RouteNames :
          \/ \E auto \in BOOLEAN : RouteCreate(r, name, auto)
          \/ RouteRename(r, name)
    \/ \E r \in Routes, q \in Queues, k \in Keys :
          RouteBind(r, q, k) \/ RouteUnbind(r, q, k)
    \/ \E r \in Routes : RouteDelete(r)
    \/ \E flush_queues, flush_routes \in BOOLEAN :
          Flush(flush_queues, flush_routes)

Spec == Init /\ [][Next]_vars

-----------------------------------------------------------------------------
(* Properties *)

(* Both sides of every reference agree: a client and a queue, a route and  *)
(* a queue, know each other or do not, whichever of them was deleted,      *)
(* ejected or unbound.                                                     *)
Mirrored ==
    /\ \A c \in Clients, q \in Queues :
        /\ declared_queues[c][q] = declared_clients[q][c]
        /\ subscribed_queues[c][q] = subscribed_clients_msg[q][c] +
                                     subscribed_clients_notify[q][c]
    /\ \A r \in Routes, k \in Keys, q \in Queues :
        keys[r][k][q] = queue_routes[q][k][r]

(* No list refers to a released object: not to a client that has gone, a   *)
(* queue that was deleted by another client, or a route that was deleted   *)
(* with its last queue.                                                    *)
NoDangling ==
    /\ \A c \in Clients, q \in Queues :
        declared_queues[c][q] > 0 \/ subscribed_queues[c][q] > 0 \/
        declared_clients[q][c] > 0 \/ subscribed_clients_msg[q][c] > 0 \/
        subscribed_clients_notify[q][c] > 0
            => c \in clients /\ q \in queues
    /\ \A r \in Routes, k \in Keys, q \in Queues :
        keys[r][k][q] > 0 \/ queue_routes[q][k][r] > 0
            => r \in routes /\ q \in queues

(* Nothing is listed twice: a client has declared a queue once and has one *)
(* subscription to it, and a queue is bound once by a key.  A client's     *)
(* lists are searched by name, and a queue may have been renamed since.    *)
ListedOnce ==
    /\ \A c \in Clients, q \in Queues :
        declared_queues[c][q] <= 1 /\ subscribed_queues[c][q] <= 1
    /\ \A r \in Routes, k \in Keys, q \in Queues : keys[r][k][q] <= 1

(* A queue with the auto_delete flag does not outlive the last client that *)
(* has declared it.                                                        *)
QueueAutoDelete ==
    [][\A q \in queues \cap queues' :
          queue_auto_delete[q] /\ ~ IsEmpty(declared_clients[q])
              => ~ IsEmpty(declared_clients'[q])]_vars

(* A route with the auto_delete flag does not outlive its last binding,    *)
(* whether it is unbound or the queue is deleted, by a request, by a flush *)
(* or automatically.                                                       *)
RouteAutoDelete ==
    [][\A r \in routes \cap routes' :
          route_auto_delete[r] /\ (\E k \in Keys : ~ IsEmpty(keys[r][k]))
              => \E k \in Keys : ~ IsEmpty(keys'[r][k])]_vars
=============================================================================
