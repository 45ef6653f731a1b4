---------------------------- MODULE BrokerProofs ----------------------------
(***************************************************************************)
(* Proofs about Broker, for every value of its constants.                  *)
(***************************************************************************)
EXTENDS Broker, ListProofs

(* The lists of the clients, and those of the queues.                      *)
ClientLists == [Clients -> [Queues -> Nat]]
QueueLists  == [Queues -> [Clients -> Nat]]

(* Those of the routes, and those in which the queues keep their routes.   *)
KeyLists  == [Routes -> [Keys -> [Queues -> Nat]]]
LinkLists == [Queues -> [Keys -> [Routes -> Nat]]]

(* The types of the lists between clients and queues, and what Mirrored,   *)
(* NoDangling and ListedOnce say of a client and a queue.  No part is      *)
(* inductive alone: a deletion removes as many entries from one side as    *)
(* the other side has, and what an unsubscription leaves of the two lists  *)
(* of the queue depends on there being one subscription.                   *)
ClientInv ==
    /\ clients \subseteq Clients /\ queues \subseteq Queues
    /\ declared_queues \in ClientLists
    /\ subscribed_queues \in ClientLists
    /\ declared_clients \in QueueLists
    /\ subscribed_clients_msg \in QueueLists
    /\ subscribed_clients_notify \in QueueLists
    /\ \A c \in Clients, q \in Queues :
         /\ declared_queues[c][q] = declared_clients[q][c]
         /\ subscribed_queues[c][q] = subscribed_clients_msg[q][c] +
                                      subscribed_clients_notify[q][c]
         /\ declared_queues[c][q] <= 1 /\ subscribed_queues[c][q] <= 1
         /\ declared_queues[c][q] > 0 => c \in clients /\ q \in queues
         /\ subscribed_queues[c][q] > 0 => c \in clients /\ q \in queues

(* The same for the lists between routes and queues.                       *)
RouteInv ==
    /\ routes \subseteq Routes /\ queues \subseteq Queues
    /\ keys \in KeyLists /\ queue_routes \in LinkLists
    /\ \A r \in Routes, k \in Keys, q \in Queues :
         /\ keys[r][k][q] = queue_routes[q][k][r]
         /\ keys[r][k][q] <= 1
         /\ keys[r][k][q] > 0 => r \in routes /\ q \in queues

(* Deleting as many as there are leaves none, and deleting leaves a number.*)
LEMMA LessFacts ==
    ASSUME NEW n \in Nat, NEW m \in Nat
    PROVE  /\ Less(n, m) \in Nat /\ Less(n, m) <= n
           /\ n <= m => Less(n, m) = 0
           /\ m = 0 => Less(n, m) = n
BY DEF Less

-----------------------------------------------------------------------------
(* Clients and queues *)

(* What the deletion of the queues in Q leaves of a client's lists.        *)
LEMMA EjectClientsFacts ==
    ASSUME NEW list \in ClientLists,
           NEW listed \in QueueLists, NEW Q
    PROVE  /\ EjectClients(list, listed, Q) \in ClientLists
           /\ \A c \in Clients, q \in Queues :
                EjectClients(list, listed, Q)[c][q] =
                  IF q \in Q THEN Less(list[c][q], listed[q][c])
                             ELSE list[c][q]
<1>1. \A c \in Clients, q \in Queues :
        list[c][q] \in Nat /\ Less(list[c][q], listed[q][c]) \in Nat
  BY LessFacts DEF ClientLists, QueueLists
<1> QED
  BY <1>1 DEF EjectClients, ClientLists

(* The lists of the released queues are empty.                             *)
LEMMA ReleasedFacts ==
    ASSUME NEW listed \in QueueLists, NEW Q
    PROVE  /\ Released(listed, Q, Empty(Clients)) \in QueueLists
           /\ \A c \in Clients, q \in Queues :
                Released(listed, Q, Empty(Clients))[q][c] =
                  IF q \in Q THEN 0 ELSE listed[q][c]
<1>1. Empty(Clients) \in [Clients -> Nat]
      /\ \A c \in Clients : Empty(Clients)[c] = 0
  BY DEF Empty
<1> QED
  BY <1>1 DEF Released, QueueLists

(* What the requests that delete queues leave.                             *)
LEMMA DeleteAllClients ==
    ASSUME ClientInv, NEW Q, NEW R, DeleteAll(Q, R)
    PROVE  ClientInv'
<1>t. /\ clients \subseteq Clients /\ queues \subseteq Queues
      /\ declared_queues \in ClientLists
      /\ subscribed_queues \in ClientLists
      /\ declared_clients \in QueueLists
      /\ subscribed_clients_msg \in QueueLists
      /\ subscribed_clients_notify \in QueueLists
  BY DEF ClientInv
<1>1. clients' = clients /\ queues' = queues \ Q
  BY DEF DeleteAll, Delete
<1> DEFINE once == EjectClients(subscribed_queues, subscribed_clients_msg, Q)
<1>2. /\ declared_queues' = EjectClients(declared_queues, declared_clients, Q)
      /\ subscribed_queues' = EjectClients(once, subscribed_clients_notify, Q)
      /\ declared_clients' = Released(declared_clients, Q, Empty(Clients))
      /\ subscribed_clients_msg' =
           Released(subscribed_clients_msg, Q, Empty(Clients))
      /\ subscribed_clients_notify' =
           Released(subscribed_clients_notify, Q, Empty(Clients))
  BY DEF DeleteAll
<1>3. /\ once \in ClientLists
      /\ \A c \in Clients, q \in Queues :
           once[c][q] = IF q \in Q
                        THEN Less(subscribed_queues[c][q],
                                  subscribed_clients_msg[q][c])
                        ELSE subscribed_queues[c][q]
  BY <1>t, EjectClientsFacts
<1> HIDE DEF once
<1>4. /\ declared_queues' \in ClientLists
      /\ subscribed_queues' \in ClientLists
      /\ \A c \in Clients, q \in Queues :
           /\ declared_queues'[c][q] =
                IF q \in Q THEN Less(declared_queues[c][q],
                                     declared_clients[q][c])
                           ELSE declared_queues[c][q]
           /\ subscribed_queues'[c][q] =
                IF q \in Q THEN Less(once[c][q],
                                     subscribed_clients_notify[q][c])
                           ELSE once[c][q]
  <2>1. /\ declared_queues' \in ClientLists
        /\ \A c \in Clients, q \in Queues :
             declared_queues'[c][q] =
                IF q \in Q THEN Less(declared_queues[c][q],
                                     declared_clients[q][c])
                           ELSE declared_queues[c][q]
    BY <1>t, <1>2, EjectClientsFacts
  <2>2. /\ subscribed_queues' \in ClientLists
        /\ \A c \in Clients, q \in Queues :
             subscribed_queues'[c][q] =
                IF q \in Q THEN Less(once[c][q],
                                     subscribed_clients_notify[q][c])
                           ELSE once[c][q]
    BY <1>t, <1>2, <1>3, EjectClientsFacts
  <2> QED  BY <2>1, <2>2, Zenon
<1>5. /\ declared_clients' \in QueueLists
      /\ subscribed_clients_msg' \in QueueLists
      /\ subscribed_clients_notify' \in QueueLists
      /\ \A c \in Clients, q \in Queues :
           /\ declared_clients'[q][c] =
                IF q \in Q THEN 0 ELSE declared_clients[q][c]
           /\ subscribed_clients_msg'[q][c] =
                IF q \in Q THEN 0 ELSE subscribed_clients_msg[q][c]
           /\ subscribed_clients_notify'[q][c] =
                IF q \in Q THEN 0 ELSE subscribed_clients_notify[q][c]
  BY <1>t, <1>2, ReleasedFacts
<1>6. ASSUME NEW c \in Clients, NEW q \in Queues
      PROVE  /\ declared_queues'[c][q] =
                  IF q \in Q THEN 0 ELSE declared_queues[c][q]
             /\ subscribed_queues'[c][q] =
                  IF q \in Q THEN 0 ELSE subscribed_queues[c][q]
  <2>1. /\ declared_queues[c][q] = declared_clients[q][c]
        /\ subscribed_queues[c][q] = subscribed_clients_msg[q][c] +
                                     subscribed_clients_notify[q][c]
    BY DEF ClientInv
  <2>2. /\ declared_queues[c][q] \in Nat /\ subscribed_queues[c][q] \in Nat
        /\ subscribed_clients_msg[q][c] \in Nat
        /\ subscribed_clients_notify[q][c] \in Nat
    BY <1>t DEF ClientLists, QueueLists
  <2> QED  BY <2>1, <2>2, <1>3, <1>4 DEF Less
<1>7. \A c \in Clients, q \in Queues :
         /\ declared_queues'[c][q] = declared_clients'[q][c]
         /\ subscribed_queues'[c][q] = subscribed_clients_msg'[q][c] +
                                       subscribed_clients_notify'[q][c]
         /\ declared_queues'[c][q] <= 1 /\ subscribed_queues'[c][q] <= 1
         /\ declared_queues'[c][q] > 0 => c \in clients' /\ q \in queues'
         /\ subscribed_queues'[c][q] > 0 => c \in clients' /\ q \in queues'
  BY <1>1, <1>5, <1>6 DEF ClientInv
<1> QED
  BY <1>t, <1>1, <1>4, <1>5, <1>7 DEF ClientInv

(* What the end of a connection leaves of a list of the queues.            *)
LEMMA EjectClientFacts ==
    ASSUME NEW listed \in QueueLists, NEW list \in ClientLists,
           NEW c \in Clients
    PROVE  /\ EjectClient(listed, list, c) \in QueueLists
           /\ \A x \in Clients, q \in Queues :
                EjectClient(listed, list, c)[q][x] =
                  IF x = c THEN Less(listed[q][c], list[c][q])
                           ELSE listed[q][x]
<1>1. \A q \in Queues : Less(listed[q][c], list[c][q]) \in Nat
  BY LessFacts DEF ClientLists, QueueLists
<1> QED
  BY <1>1 DEF EjectClient, QueueLists

(* The client that goes is taken out of every list; the queues that go     *)
(* with it are taken out of the lists of the others, none of whom has      *)
(* declared them.                                                          *)
LEMMA FreeClientClients ==
    ASSUME ClientInv, NEW c \in Clients, FreeClient(c)
    PROVE  ClientInv'
<1> DEFINE gone == Abandoned(c)
           msg == EjectClient(subscribed_clients_msg, subscribed_queues, c)
           notify == [q \in Queues |-> [subscribed_clients_notify[q] EXCEPT
                        ![c] = IF subscribed_queues[c][q] >
                                  subscribed_clients_msg[q][c] THEN 0 ELSE @]]
           own == [subscribed_queues EXCEPT ![c] = Empty(Queues)]
           once == EjectClients(own, msg, gone)
           left == EjectClient(declared_clients, declared_queues, c)
<1>t. /\ clients \subseteq Clients /\ queues \subseteq Queues
      /\ declared_queues \in ClientLists
      /\ subscribed_queues \in ClientLists
      /\ declared_clients \in QueueLists
      /\ subscribed_clients_msg \in QueueLists
      /\ subscribed_clients_notify \in QueueLists
  BY DEF ClientInv
<1>1. clients' = clients \ {c} /\ queues' = queues \ gone
  BY DEF FreeClient, Delete
<1>2. /\ declared_queues' = [declared_queues EXCEPT ![c] = Empty(Queues)]
      /\ subscribed_queues' = EjectClients(once, notify, gone)
      /\ declared_clients' = Released(left, gone, Empty(Clients))
      /\ subscribed_clients_msg' = Released(msg, gone, Empty(Clients))
      /\ subscribed_clients_notify' = Released(notify, gone, Empty(Clients))
  BY DEF FreeClient
<1>g. \A q \in gone : q \in queues /\ IsEmpty(left[q])
  BY DEF Abandoned
<1>p. ASSUME NEW x \in Clients, NEW q \in Queues
      PROVE  /\ declared_queues[x][q] \in Nat
             /\ subscribed_queues[x][q] \in Nat
             /\ subscribed_clients_msg[q][x] \in Nat
             /\ subscribed_clients_notify[q][x] \in Nat
             /\ declared_queues[x][q] = declared_clients[q][x]
             /\ subscribed_queues[x][q] = subscribed_clients_msg[q][x] +
                                          subscribed_clients_notify[q][x]
  BY <1>t DEF ClientInv, ClientLists, QueueLists
<1>3. /\ left \in QueueLists
      /\ \A x \in Clients, q \in Queues :
           left[q][x] = IF x = c THEN 0 ELSE declared_clients[q][x]
  <2>1. /\ left \in QueueLists
        /\ \A x \in Clients, q \in Queues :
             left[q][x] = IF x = c THEN Less(declared_clients[q][c],
                                             declared_queues[c][q])
                                   ELSE declared_clients[q][x]
    BY <1>t, EjectClientFacts
  <2>2. \A q \in Queues :
           Less(declared_clients[q][c], declared_queues[c][q]) = 0
    BY <1>p, LessFacts
  <2> QED  BY <2>1, <2>2
<1>4. /\ msg \in QueueLists
      /\ \A x \in Clients, q \in Queues :
           msg[q][x] = IF x = c THEN 0 ELSE subscribed_clients_msg[q][x]
  <2>1. /\ msg \in QueueLists
        /\ \A x \in Clients, q \in Queues :
             msg[q][x] = IF x = c THEN Less(subscribed_clients_msg[q][c],
                                            subscribed_queues[c][q])
                                  ELSE subscribed_clients_msg[q][x]
    BY <1>t, EjectClientFacts
  <2>2. ASSUME NEW q \in Queues
        PROVE  Less(subscribed_clients_msg[q][c], subscribed_queues[c][q]) = 0
    BY <1>p DEF Less
  <2> QED  BY <2>1, <2>2
<1>5. /\ notify \in QueueLists
      /\ \A x \in Clients, q \in Queues :
           notify[q][x] = IF x = c THEN 0 ELSE subscribed_clients_notify[q][x]
  <2>1. ASSUME NEW q \in Queues
        PROVE  (IF subscribed_queues[c][q] > subscribed_clients_msg[q][c]
                THEN 0 ELSE subscribed_clients_notify[q][c]) = 0
    BY <1>p
  <2> QED  BY <2>1, <1>t DEF QueueLists
<1>6. /\ own \in ClientLists
      /\ \A x \in Clients, q \in Queues :
           own[x][q] = IF x = c THEN 0 ELSE subscribed_queues[x][q]
  BY <1>t DEF ClientLists, Empty
<1>d. /\ declared_queues' \in ClientLists
      /\ \A x \in Clients, q \in Queues :
           declared_queues'[x][q] = IF x = c THEN 0 ELSE declared_queues[x][q]
  BY <1>t, <1>2 DEF ClientLists, Empty
<1> HIDE DEF gone, msg, notify, own, left
<1>7. /\ once \in ClientLists
      /\ \A x \in Clients, q \in Queues :
           once[x][q] = IF q \in gone THEN Less(own[x][q], msg[q][x])
                                      ELSE own[x][q]
  BY <1>4, <1>6, EjectClientsFacts
<1> HIDE DEF once
<1>8. /\ subscribed_queues' \in ClientLists
      /\ \A x \in Clients, q \in Queues :
           subscribed_queues'[x][q] =
             IF q \in gone THEN Less(once[x][q], notify[q][x]) ELSE once[x][q]
  BY <1>2, <1>5, <1>7, EjectClientsFacts
<1>9. /\ declared_clients' \in QueueLists
      /\ subscribed_clients_msg' \in QueueLists
      /\ subscribed_clients_notify' \in QueueLists
      /\ \A x \in Clients, q \in Queues :
           /\ declared_clients'[q][x] =
                IF q \in gone THEN 0 ELSE left[q][x]
           /\ subscribed_clients_msg'[q][x] =
                IF q \in gone THEN 0 ELSE msg[q][x]
           /\ subscribed_clients_notify'[q][x] =
                IF q \in gone THEN 0 ELSE notify[q][x]
  BY <1>2, <1>3, <1>4, <1>5, ReleasedFacts
<1>10. ASSUME NEW x \in Clients, NEW q \in Queues
       PROVE  subscribed_queues'[x][q] =
                IF q \in gone \/ x = c THEN 0 ELSE subscribed_queues[x][q]
  BY <1>4, <1>5, <1>6, <1>7, <1>8, <1>p DEF Less
<1>11. ASSUME NEW x \in Clients, NEW q \in gone, x # c, q \in Queues
       PROVE  declared_queues[x][q] = 0
  <2>1. left[q][x] = 0
    <3>1. DOMAIN left[q] = Clients
      BY <1>3, <1>11 DEF QueueLists
    <3> QED  BY <1>g, <3>1 DEF IsEmpty
  <2> QED  BY <1>3, <1>11, <1>p, <2>1
<1>12. \A x \in Clients, q \in Queues :
         /\ declared_queues'[x][q] = declared_clients'[q][x]
         /\ subscribed_queues'[x][q] = subscribed_clients_msg'[q][x] +
                                       subscribed_clients_notify'[q][x]
         /\ declared_queues'[x][q] <= 1 /\ subscribed_queues'[x][q] <= 1
         /\ declared_queues'[x][q] > 0 => x \in clients' /\ q \in queues'
         /\ subscribed_queues'[x][q] > 0 => x \in clients' /\ q \in queues'
  <2> SUFFICES ASSUME NEW x \in Clients, NEW q \in Queues
      PROVE /\ declared_queues'[x][q] = declared_clients'[q][x]
            /\ subscribed_queues'[x][q] = subscribed_clients_msg'[q][x] +
                                          subscribed_clients_notify'[q][x]
            /\ declared_queues'[x][q] <= 1 /\ subscribed_queues'[x][q] <= 1
            /\ declared_queues'[x][q] > 0 => x \in clients' /\ q \in queues'
            /\ subscribed_queues'[x][q] > 0
                  => x \in clients' /\ q \in queues'
    OBVIOUS
  <2>1. /\ declared_queues[x][q] <= 1 /\ subscribed_queues[x][q] <= 1
        /\ declared_queues[x][q] > 0 => x \in clients /\ q \in queues
        /\ subscribed_queues[x][q] > 0 => x \in clients /\ q \in queues
    BY DEF ClientInv
  <2>2. declared_queues'[x][q] =
          IF x = c \/ q \in gone THEN 0 ELSE declared_queues[x][q]
    BY <1>d, <1>11
  <2>3. declared_queues'[x][q] = declared_clients'[q][x]
    BY <2>2, <1>3, <1>9, <1>p
  <2>4. subscribed_queues'[x][q] = subscribed_clients_msg'[q][x] +
                                   subscribed_clients_notify'[q][x]
    BY <1>4, <1>5, <1>9, <1>10, <1>p
  <2> QED  BY <1>1, <1>10, <2>1, <2>2, <2>3, <2>4
<1> QED
  BY <1>t, <1>1, <1>d, <1>8, <1>9, <1>12 DEF ClientInv

(* A client declares a queue, subscribes to it or unsubscribes.            *)
LEMMA EntryStep ==
    ASSUME ClientInv, NEW c \in Clients, NEW q \in Queues,
           \/ QueueDeclare(c, q)
           \/ \E notify \in BOOLEAN : QueueSubscribe(c, q, notify)
           \/ QueueUnsubscribe(c, q)
    PROVE  ClientInv'
<1>t. /\ clients \subseteq Clients /\ queues \subseteq Queues
      /\ declared_queues \in ClientLists
      /\ subscribed_queues \in ClientLists
      /\ declared_clients \in QueueLists
      /\ subscribed_clients_msg \in QueueLists
      /\ subscribed_clients_notify \in QueueLists
  BY DEF ClientInv
<1>p. ASSUME NEW x \in Clients, NEW p \in Queues
      PROVE  /\ declared_queues[x][p] \in Nat
             /\ subscribed_queues[x][p] \in Nat
             /\ declared_clients[p][x] \in Nat
             /\ subscribed_clients_msg[p][x] \in Nat
             /\ subscribed_clients_notify[p][x] \in Nat
             /\ declared_queues[x][p] = declared_clients[p][x]
             /\ subscribed_queues[x][p] = subscribed_clients_msg[p][x] +
                                          subscribed_clients_notify[p][x]
             /\ declared_queues[x][p] <= 1 /\ subscribed_queues[x][p] <= 1
             /\ declared_queues[x][p] > 0 => x \in clients /\ p \in queues
             /\ subscribed_queues[x][p] > 0 => x \in clients /\ p \in queues
  BY <1>t DEF ClientInv, ClientLists, QueueLists
<1>1. CASE QueueDeclare(c, q)
  <2>1. /\ clients' = clients /\ queues' = queues
        /\ subscribed_queues' = subscribed_queues
        /\ subscribed_clients_msg' = subscribed_clients_msg
        /\ subscribed_clients_notify' = subscribed_clients_notify
        /\ c \in clients /\ q \in queues
    BY <1>1 DEF QueueDeclare, object_vars
  <2>2. declared_queues[c][q] = 0
    BY <1>1, <1>p DEF QueueDeclare, Has
  <2>3. /\ declared_queues' \in ClientLists
        /\ \A x \in Clients, p \in Queues :
             declared_queues'[x][p] =
               IF x = c /\ p = q THEN 1 ELSE declared_queues[x][p]
    BY <1>1, <1>t, <2>2
       DEF QueueDeclare, declare_client_queue_t, ClientLists
  <2>4. /\ declared_clients' \in QueueLists
        /\ \A x \in Clients, p \in Queues :
             declared_clients'[p][x] =
               IF x = c /\ p = q THEN 1 ELSE declared_clients[p][x]
    BY <1>1, <1>t, <1>p, <2>2
       DEF QueueDeclare, declare_client_queue_t, QueueLists
  <2> QED  BY <1>t, <1>p, <2>1, <2>3, <2>4 DEF ClientInv
<1>2. ASSUME NEW notify \in BOOLEAN, QueueSubscribe(c, q, notify)
      PROVE  ClientInv'
  <2>1. /\ clients' = clients /\ queues' = queues
        /\ declared_queues' = declared_queues
        /\ declared_clients' = declared_clients
        /\ c \in clients /\ q \in queues
    BY <1>2, <1>p DEF QueueSubscribe, object_vars
  <2>2. /\ subscribed_queues[c][q] = 0
        /\ subscribed_clients_msg[q][c] = 0
        /\ subscribed_clients_notify[q][c] = 0
    <3>1. subscribed_queues[c][q] = 0
      BY <1>2, <1>p DEF QueueSubscribe, Has
    <3> QED  BY <3>1, <1>p
  <2>3. /\ subscribed_queues' \in ClientLists
        /\ \A x \in Clients, p \in Queues :
             subscribed_queues'[x][p] =
               IF x = c /\ p = q THEN 1 ELSE subscribed_queues[x][p]
    BY <1>2, <1>t, <2>2
       DEF QueueSubscribe, subscribe_client_queue_t, ClientLists
  <2>4. /\ subscribed_clients_msg' \in QueueLists
        /\ \A x \in Clients, p \in Queues :
             subscribed_clients_msg'[p][x] =
               IF x = c /\ p = q THEN (IF notify THEN 0 ELSE 1)
                                 ELSE subscribed_clients_msg[p][x]
    BY <1>2, <1>t, <2>2
       DEF QueueSubscribe, subscribe_client_queue_t, QueueLists
  <2>5. /\ subscribed_clients_notify' \in QueueLists
        /\ \A x \in Clients, p \in Queues :
             subscribed_clients_notify'[p][x] =
               IF x = c /\ p = q THEN (IF notify THEN 1 ELSE 0)
                                 ELSE subscribed_clients_notify[p][x]
    BY <1>2, <1>t, <2>2
       DEF QueueSubscribe, subscribe_client_queue_t, QueueLists
  <2>6. \A x \in Clients, p \in Queues :
           /\ subscribed_queues'[x][p] = subscribed_clients_msg'[p][x] +
                                         subscribed_clients_notify'[p][x]
           /\ subscribed_queues'[x][p] <= 1
           /\ subscribed_queues'[x][p] > 0 => x \in clients' /\ p \in queues'
    BY <1>p, <2>1, <2>3, <2>4, <2>5
  <2> QED  BY <1>t, <1>p, <2>1, <2>3, <2>4, <2>5, <2>6 DEF ClientInv
<1>3. CASE QueueUnsubscribe(c, q)
  <2>1. /\ clients' = clients /\ queues' = queues
        /\ declared_queues' = declared_queues
        /\ declared_clients' = declared_clients
    BY <1>3 DEF QueueUnsubscribe, object_vars
  <2>2. /\ Less(subscribed_queues[c][q], 1) = 0
        /\ Less(subscribed_clients_msg[q][c], 1) = 0
        /\ (IF subscribed_clients_msg[q][c] > 0
            THEN subscribed_clients_notify[q][c] ELSE 0) = 0
    BY <1>p DEF Less
  <2>3. /\ subscribed_queues' \in ClientLists
        /\ \A x \in Clients, p \in Queues :
             subscribed_queues'[x][p] =
               IF x = c /\ p = q THEN 0 ELSE subscribed_queues[x][p]
    BY <1>3, <1>t, <2>2
       DEF QueueUnsubscribe, unsubscribe_client_queue_t, ClientLists
  <2>4. /\ subscribed_clients_msg' \in QueueLists
        /\ \A x \in Clients, p \in Queues :
             subscribed_clients_msg'[p][x] =
               IF x = c /\ p = q THEN 0 ELSE subscribed_clients_msg[p][x]
    BY <1>3, <1>t, <2>2
       DEF QueueUnsubscribe, unsubscribe_client_queue_t, QueueLists
  <2>5. /\ subscribed_clients_notify' \in QueueLists
        /\ \A x \in Clients, p \in Queues :
             subscribed_clients_notify'[p][x] =
               IF x = c /\ p = q THEN 0 ELSE subscribed_clients_notify[p][x]
    BY <1>3, <1>t, <2>2
       DEF QueueUnsubscribe, unsubscribe_client_queue_t, QueueLists
  <2>6. \A x \in Clients, p \in Queues :
           /\ subscribed_queues'[x][p] = subscribed_clients_msg'[p][x] +
                                         subscribed_clients_notify'[p][x]
           /\ subscribed_queues'[x][p] <= 1
           /\ subscribed_queues'[x][p] > 0 => x \in clients' /\ p \in queues'
    BY <1>p, <2>1, <2>3, <2>4, <2>5
  <2> QED  BY <1>t, <1>p, <2>1, <2>3, <2>4, <2>5, <2>6 DEF ClientInv
<1> QED
  BY <1>1, <1>2, <1>3

(* Every step keeps the lists between clients and queues.                  *)
LEMMA ClientStep ==
    ASSUME ClientInv, [Next]_vars
    PROVE  ClientInv'
<1>1. ASSUME UNCHANGED client_vars, clients \subseteq clients',
             queues \subseteq queues',
             clients' \subseteq Clients, queues' \subseteq Queues
      PROVE  ClientInv'
  <2>1. /\ declared_queues' = declared_queues
        /\ subscribed_queues' = subscribed_queues
        /\ declared_clients' = declared_clients
        /\ subscribed_clients_msg' = subscribed_clients_msg
        /\ subscribed_clients_notify' = subscribed_clients_notify
    BY <1>1 DEF client_vars
  <2> QED  BY <1>1, <2>1 DEF ClientInv
<1>t. clients \subseteq Clients /\ queues \subseteq Queues
  BY DEF ClientInv
<1>2. CASE UNCHANGED vars
  BY <1>1, <1>2, <1>t DEF vars, object_vars, client_vars
<1>3. ASSUME NEW c \in Clients, Connect(c)
      PROVE  ClientInv'
  BY <1>1, <1>3, <1>t DEF Connect
<1>4. ASSUME NEW q \in Queues, NEW name \in QueueNames,
             (\E auto \in BOOLEAN : QueueCreate(q, name, auto))
               \/ QueueRename(q, name)
      PROVE  ClientInv'
  BY <1>1, <1>4, <1>t DEF QueueCreate, QueueRename, object_vars
<1>5. ASSUME NEW r \in Routes, NEW name \in RouteNames,
             (\E auto \in BOOLEAN : RouteCreate(r, name, auto))
               \/ RouteRename(r, name)
      PROVE  ClientInv'
  BY <1>1, <1>5, <1>t DEF RouteCreate, RouteRename, object_vars
<1>6. ASSUME NEW r \in Routes, NEW q \in Queues, NEW k \in Keys,
             RouteBind(r, q, k) \/ RouteUnbind(r, q, k)
      PROVE  ClientInv'
  BY <1>1, <1>6, <1>t DEF RouteBind, RouteUnbind, object_vars
<1> QED
  BY <1>2, <1>3, <1>4, <1>5, <1>6, EntryStep, FreeClientClients,
     DeleteAllClients DEF Next, QueueDelete, RouteDelete, Flush

-----------------------------------------------------------------------------
(* Routes and queues *)

(* What the deletion of the queues in Q and the routes in R leaves of the  *)
(* bindings: those of the queues and routes that are left, on both sides.  *)
LEMMA DeleteFacts ==
    ASSUME RouteInv, NEW Q, NEW R, Delete(Q, R)
    PROVE  LET gone == R \cup Emptied(EjectRoutes(Q), Linked(Q))
           IN  /\ queues' = queues \ Q /\ routes' = routes \ gone
               /\ keys' \in KeyLists /\ queue_routes' \in LinkLists
               /\ \A r \in Routes, k \in Keys, q \in Queues :
                    /\ EjectRoutes(Q)[r][k][q] =
                         IF q \in Q THEN 0 ELSE keys[r][k][q]
                    /\ keys'[r][k][q] =
                         IF r \in gone \/ q \in Q THEN 0 ELSE keys[r][k][q]
                    /\ queue_routes'[q][k][r] = keys'[r][k][q]
<1> DEFINE bound == EjectRoutes(Q)
           gone == R \cup Emptied(bound, Linked(Q))
           none == [k \in Keys |-> Empty(Queues)]
           nolink == [k \in Keys |-> Empty(Routes)]
           links == Released(queue_routes, Q, nolink)
<1>1. /\ queues' = queues \ Q
      /\ routes' = routes \ gone
      /\ keys' = Released(bound, gone, none)
      /\ queue_routes' = UnlinkRoutes(links, bound, gone)
  BY DEF Delete
<1>t. keys \in KeyLists /\ queue_routes \in LinkLists
  BY DEF RouteInv
<1>p. ASSUME NEW r \in Routes, NEW k \in Keys, NEW q \in Queues
      PROVE  /\ keys[r][k][q] \in Nat
             /\ queue_routes[q][k][r] = keys[r][k][q]
  BY <1>t DEF RouteInv, KeyLists
<1>2. /\ bound \in KeyLists
      /\ \A r \in Routes, k \in Keys, q \in Queues :
           bound[r][k][q] = IF q \in Q THEN 0 ELSE keys[r][k][q]
  <2>1. ASSUME NEW r \in Routes, NEW k \in Keys, NEW q \in Queues
        PROVE  /\ keys[r][k][q] \in Nat
               /\ Less(keys[r][k][q], queue_routes[q][k][r]) = 0
    BY <1>p DEF Less
  <2> QED  BY <2>1 DEF EjectRoutes, KeyLists
<1>3. /\ links \in LinkLists
      /\ \A r \in Routes, k \in Keys, q \in Queues :
           links[q][k][r] = IF q \in Q THEN 0 ELSE queue_routes[q][k][r]
  <2>1. /\ nolink \in [Keys -> [Routes -> Nat]]
        /\ \A r \in Routes, k \in Keys : nolink[k][r] = 0
    BY DEF Empty
  <2> HIDE DEF nolink
  <2> QED  BY <1>t, <2>1 DEF Released, LinkLists
<1>4. /\ none \in [Keys -> [Queues -> Nat]]
      /\ \A k \in Keys, q \in Queues : none[k][q] = 0
  BY DEF Empty
<1> HIDE DEF bound, gone, none, links
<1>5. /\ keys' \in KeyLists
      /\ \A r \in Routes, k \in Keys, q \in Queues :
           keys'[r][k][q] = IF r \in gone THEN 0 ELSE bound[r][k][q]
  BY <1>1, <1>2, <1>4 DEF Released, KeyLists
<1>6. /\ queue_routes' \in LinkLists
      /\ \A r \in Routes, k \in Keys, q \in Queues :
           queue_routes'[q][k][r] = IF r \in gone THEN 0 ELSE links[q][k][r]
  <2>1. ASSUME NEW r \in Routes, NEW k \in Keys, NEW q \in Queues
        PROVE  /\ links[q][k][r] \in Nat
               /\ Less(links[q][k][r], bound[r][k][q]) = 0
    BY <1>p, <1>2, <1>3 DEF Less
  <2> QED  BY <1>1, <2>1 DEF UnlinkRoutes, LinkLists
<1>7. /\ queues' = queues \ Q /\ routes' = routes \ gone
      /\ keys' \in KeyLists /\ queue_routes' \in LinkLists
      /\ \A r \in Routes, k \in Keys, q \in Queues :
           /\ bound[r][k][q] = IF q \in Q THEN 0 ELSE keys[r][k][q]
           /\ keys'[r][k][q] =
                IF r \in gone \/ q \in Q THEN 0 ELSE keys[r][k][q]
           /\ queue_routes'[q][k][r] = keys'[r][k][q]
  BY <1>1, <1>p, <1>2, <1>3, <1>5, <1>6
<1> QED
  BY <1>7 DEF bound, gone

LEMMA DeleteRoutes ==
    ASSUME RouteInv, NEW Q, NEW R, Delete(Q, R)
    PROVE  RouteInv'
<1> DEFINE gone == R \cup Emptied(EjectRoutes(Q), Linked(Q))
<1>1. /\ queues' = queues \ Q /\ routes' = routes \ gone
      /\ keys' \in KeyLists /\ queue_routes' \in LinkLists
      /\ \A r \in Routes, k \in Keys, q \in Queues :
           /\ keys'[r][k][q] =
                IF r \in gone \/ q \in Q THEN 0 ELSE keys[r][k][q]
           /\ queue_routes'[q][k][r] = keys'[r][k][q]
  BY DeleteFacts
<1> HIDE DEF gone
<1> QED
  BY <1>1 DEF RouteInv

(* The step of RouteAutoDelete.                                            *)
RouteKept ==
    \A r \in routes \cap routes' :
        route_auto_delete[r] /\ (\E k \in Keys : ~ IsEmpty(keys[r][k]))
            => \E k \in Keys : ~ IsEmpty(keys'[r][k])

(* route_unbind.  A route that it deletes had no binding left.             *)
LEMMA UnbindRoutes ==
    ASSUME RouteInv, NEW r \in Routes, NEW q \in Queues, NEW k \in Keys,
           RouteUnbind(r, q, k)
    PROVE  RouteInv' /\ RouteKept
<1> DEFINE bound == [keys EXCEPT ![r][k][q] = Less(@, 1)]
           gone == Emptied(bound, {r})
           links == unlink_queue_route_t(q, r, k)
<1>1. /\ queues' = queues
      /\ routes' = routes \ gone
      /\ keys' = bound
      /\ queue_routes' = UnlinkRoutes(links, bound, gone)
  BY DEF RouteUnbind, unbind_route_t
<1>t. keys \in KeyLists /\ queue_routes \in LinkLists
  BY DEF RouteInv
<1>p. ASSUME NEW s \in Routes, NEW j \in Keys, NEW p \in Queues
      PROVE  /\ keys[s][j][p] \in Nat
             /\ queue_routes[p][j][s] = keys[s][j][p]
             /\ Less(keys[s][j][p], 1) = 0
  BY <1>t DEF RouteInv, KeyLists, Less
<1>2. /\ bound \in KeyLists
      /\ \A s \in Routes, j \in Keys, p \in Queues :
           bound[s][j][p] = IF s = r /\ j = k /\ p = q
                            THEN 0 ELSE keys[s][j][p]
  BY <1>t, <1>p DEF KeyLists
<1>3. /\ links \in LinkLists
      /\ \A s \in Routes, j \in Keys, p \in Queues :
           links[p][j][s] = IF s = r /\ j = k /\ p = q
                            THEN 0 ELSE keys[s][j][p]
  BY <1>t, <1>p DEF LinkLists, unlink_queue_route_t
<1>4. \A s \in gone, j \in Keys, p \in Queues : s = r /\ bound[s][j][p] = 0
  <2>1. \A s \in Routes, j \in Keys : DOMAIN bound[s][j] = Queues
    BY <1>2 DEF KeyLists
  <2> HIDE DEF bound
  <2> QED  BY <2>1 DEF Emptied, IsEmpty
<1> HIDE DEF bound, gone, links
<1>5. /\ queue_routes' \in LinkLists
      /\ \A s \in Routes, j \in Keys, p \in Queues :
           queue_routes'[p][j][s] = links[p][j][s]
  <2>1. ASSUME NEW s \in Routes, NEW j \in Keys, NEW p \in Queues
        PROVE  /\ links[p][j][s] \in Nat
               /\ s \in gone
                    => Less(links[p][j][s], bound[s][j][p]) = links[p][j][s]
    BY <1>p, <1>2, <1>3, <1>4 DEF Less
  <2> QED  BY <1>1, <2>1 DEF UnlinkRoutes, LinkLists
<1>6. keys' \in KeyLists
  BY <1>1, <1>2
<1>7. \A s \in Routes, j \in Keys, p \in Queues :
        /\ keys'[s][j][p] = IF s = r /\ j = k /\ p = q
                            THEN 0 ELSE keys[s][j][p]
        /\ queue_routes'[p][j][s] = keys'[s][j][p]
        /\ s \in gone => keys'[s][j][p] = 0
  BY <1>1, <1>2, <1>3, <1>4, <1>5
<1>8. RouteInv'
  BY <1>1, <1>5, <1>6, <1>7 DEF RouteInv
<1>9. RouteKept
  <2> SUFFICES ASSUME NEW s \in routes \cap routes', route_auto_delete[s],
                      NEW j \in Keys, ~ IsEmpty(keys[s][j])
               PROVE  \E i \in Keys : ~ IsEmpty(keys'[s][i])
    BY DEF RouteKept
  <2>1. CASE s = r
    BY <1>1, <2>1 DEF gone, Emptied
  <2>2. CASE s # r
    <3>1. s \in Routes
      BY DEF RouteInv
    <3>2. /\ DOMAIN keys[s][j] = Queues /\ DOMAIN keys'[s][j] = Queues
      BY <1>t, <1>6, <3>1 DEF KeyLists
    <3> QED  BY <1>7, <2>2, <3>1, <3>2 DEF IsEmpty
  <2> QED  BY <2>1, <2>2
<1> QED
  BY <1>8, <1>9

(* Every step keeps the lists between routes and queues.                   *)
LEMMA RouteStep ==
    ASSUME RouteInv, [Next]_vars
    PROVE  RouteInv'
<1>t. /\ routes \subseteq Routes /\ queues \subseteq Queues
      /\ keys \in KeyLists /\ queue_routes \in LinkLists
  BY DEF RouteInv
<1>1. ASSUME UNCHANGED bind_vars, routes \subseteq routes',
             queues \subseteq queues',
             routes' \subseteq Routes, queues' \subseteq Queues
      PROVE  RouteInv'
  BY <1>1 DEF RouteInv, bind_vars
<1>2. CASE UNCHANGED vars
  BY <1>1, <1>2, <1>t DEF vars, object_vars, bind_vars
<1>3. ASSUME NEW c \in Clients, Connect(c)
      PROVE  RouteInv'
  BY <1>1, <1>3, <1>t DEF Connect
<1>4. ASSUME NEW q \in Queues, NEW name \in QueueNames,
             (\E auto \in BOOLEAN : QueueCreate(q, name, auto))
               \/ QueueRename(q, name)
      PROVE  RouteInv'
  BY <1>1, <1>4, <1>t DEF QueueCreate, QueueRename, object_vars
<1>5. ASSUME NEW r \in Routes, NEW name \in RouteNames,
             (\E auto \in BOOLEAN : RouteCreate(r, name, auto))
               \/ RouteRename(r, name)
      PROVE  RouteInv'
  BY <1>1, <1>5, <1>t DEF RouteCreate, RouteRename, object_vars
<1>6. ASSUME NEW c \in Clients, NEW q \in Queues,
             \/ QueueDeclare(c, q)
             \/ \E notify \in BOOLEAN : QueueSubscribe(c, q, notify)
             \/ QueueUnsubscribe(c, q)
      PROVE  RouteInv'
  BY <1>1, <1>6, <1>t
     DEF QueueDeclare, QueueSubscribe, QueueUnsubscribe, object_vars
<1>7. ASSUME NEW r \in Routes, NEW q \in Queues, NEW k \in Keys,
             RouteBind(r, q, k)
      PROVE  RouteInv'
  <2>1. /\ routes' = routes /\ queues' = queues
        /\ r \in routes /\ q \in queues
        /\ keys[r][k][q] = 0
        /\ keys' = [keys EXCEPT ![r][k][q] = 1]
        /\ queue_routes' = link_queue_route_t(q, r, k)
    BY <1>7 DEF RouteBind, bind_route_t, object_vars
  <2>2. /\ keys' \in KeyLists
        /\ \A s \in Routes, j \in Keys, p \in Queues :
             keys'[s][j][p] = IF s = r /\ j = k /\ p = q
                              THEN 1 ELSE keys[s][j][p]
    BY <1>t, <2>1 DEF KeyLists
  <2>3. queue_routes[q][k][r] = 0
    BY <2>1 DEF RouteInv
  <2>4. /\ queue_routes' \in LinkLists
        /\ \A s \in Routes, j \in Keys, p \in Queues :
             queue_routes'[p][j][s] = IF s = r /\ j = k /\ p = q
                                      THEN 1 ELSE queue_routes[p][j][s]
    BY <1>t, <2>1, <2>3 DEF LinkLists, link_queue_route_t
  <2> QED  BY <1>t, <2>1, <2>2, <2>4 DEF RouteInv
<1>8. ASSUME NEW r \in Routes, NEW q \in Queues, NEW k \in Keys,
             RouteUnbind(r, q, k)
      PROVE  RouteInv'
  BY <1>8, UnbindRoutes
<1>9. ASSUME NEW c \in Clients, FreeClient(c)
      PROVE  RouteInv'
  BY <1>9, DeleteRoutes DEF FreeClient
<1>10. ASSUME NEW Q, NEW R, DeleteAll(Q, R)
       PROVE  RouteInv'
  BY <1>10, DeleteRoutes DEF DeleteAll
<1> QED
  BY <1>2, <1>3, <1>4, <1>5, <1>6, <1>7, <1>8, <1>9, <1>10
     DEF Next, QueueDelete, RouteDelete, Flush

-----------------------------------------------------------------------------
(* Automatic deletion *)

(* A route that a deletion leaves without a binding was bound to one of    *)
(* the deleted queues, so that it was examined and is deleted.             *)
LEMMA DeleteKept ==
    ASSUME RouteInv, NEW Q, NEW R, Delete(Q, R)
    PROVE  RouteKept
<1> DEFINE bound == EjectRoutes(Q)
           gone == R \cup Emptied(bound, Linked(Q))
<1>1. /\ routes' = routes \ gone
      /\ keys' \in KeyLists
      /\ \A r \in Routes, k \in Keys, q \in Queues :
           /\ bound[r][k][q] = IF q \in Q THEN 0 ELSE keys[r][k][q]
           /\ keys'[r][k][q] =
                IF r \in gone \/ q \in Q THEN 0 ELSE keys[r][k][q]
  BY DeleteFacts
<1>t. /\ routes \subseteq Routes
      /\ keys \in KeyLists
      /\ \A r \in Routes, k \in Keys, q \in Queues :
           keys[r][k][q] \in Nat /\ queue_routes[q][k][r] = keys[r][k][q]
  BY DEF RouteInv, KeyLists
<1>b. \A r \in Routes, k \in Keys : DOMAIN bound[r][k] = Queues
  BY DEF EjectRoutes
<1> HIDE DEF bound
<1> SUFFICES ASSUME NEW r \in routes \cap routes', route_auto_delete[r],
                    NEW k \in Keys, ~ IsEmpty(keys[r][k])
             PROVE  \E j \in Keys : ~ IsEmpty(keys'[r][j])
  BY DEF RouteKept
<1>2. r \in Routes /\ r \notin gone
  BY <1>1, <1>t
<1>3. \A j \in Keys : DOMAIN keys[r][j] = Queues /\ DOMAIN keys'[r][j] = Queues
  BY <1>1, <1>t, <1>2 DEF KeyLists
<1>4. CASE r \in Linked(Q)
  <2>1. PICK j \in Keys : ~ IsEmpty(bound[r][j])
    BY <1>2, <1>4 DEF Emptied
  <2>2. PICK q \in Queues : bound[r][j][q] # 0
    BY <2>1, <1>2, <1>b DEF IsEmpty
  <2>3. keys'[r][j][q] # 0
    BY <1>1, <1>2, <2>2
  <2> QED  BY <1>3, <2>3 DEF IsEmpty
<1>5. CASE r \notin Linked(Q)
  <2>1. PICK q \in Queues : keys[r][k][q] # 0
    BY <1>3 DEF IsEmpty
  <2>2. queue_routes[q][k][r] > 0
    BY <1>t, <1>2, <2>1
  <2>3. q \notin Q
    BY <1>5, <2>2 DEF Linked
  <2>4. keys'[r][k][q] # 0
    BY <1>1, <1>2, <2>1, <2>3
  <2> QED  BY <1>3, <2>4 DEF IsEmpty
<1> QED
  BY <1>4, <1>5

(* Every step is one that RouteAutoDelete allows.                          *)
LEMMA RouteKeptStep ==
    ASSUME RouteInv, [Next]_vars
    PROVE  [RouteKept]_vars
<1>1. ASSUME keys' = keys
      PROVE  RouteKept
  BY <1>1 DEF RouteKept
<1>2. ASSUME NEW r \in Routes, NEW q \in Queues, NEW k \in Keys,
             RouteBind(r, q, k)
      PROVE  RouteKept
  <2> SUFFICES ASSUME NEW s \in routes, NEW j \in Keys, ~ IsEmpty(keys[s][j])
               PROVE  ~ IsEmpty(keys'[s][j])
    BY DEF RouteKept
  <2>1. s \in Routes /\ keys \in KeyLists
    BY DEF RouteInv
  <2>2. keys' = [keys EXCEPT ![r][k][q] = 1] /\ keys[r][k][q] = 0
    BY <1>2 DEF RouteBind, bind_route_t
  <2>3. /\ DOMAIN keys[s][j] = Queues /\ DOMAIN keys'[s][j] = Queues
        /\ \A p \in Queues : keys[s][j][p] # 0 => keys'[s][j][p] # 0
    BY <2>1, <2>2 DEF KeyLists
  <2> QED  BY <2>3 DEF IsEmpty
<1>3. ASSUME NEW c \in Clients, FreeClient(c)
      PROVE  RouteKept
  BY <1>3, DeleteKept DEF FreeClient
<1>4. ASSUME NEW Q, NEW R, DeleteAll(Q, R)
      PROVE  RouteKept
  BY <1>4, DeleteKept DEF DeleteAll
<1>5. CASE Next
  <2>1. CASE \E c \in Clients : Connect(c)
    BY <1>1, <2>1 DEF Connect, bind_vars
  <2>2. CASE \E q \in Queues, name \in QueueNames :
               \/ \E auto \in BOOLEAN : QueueCreate(q, name, auto)
               \/ QueueRename(q, name)
    BY <1>1, <2>2 DEF QueueCreate, QueueRename, bind_vars
  <2>3. CASE \E c \in Clients, q \in Queues :
               \/ QueueDeclare(c, q)
               \/ \E notify \in BOOLEAN : QueueSubscribe(c, q, notify)
               \/ QueueUnsubscribe(c, q)
    BY <1>1, <2>3
       DEF QueueDeclare, QueueSubscribe, QueueUnsubscribe, bind_vars
  <2>4. CASE \E r \in Routes, name \in RouteNames :
               \/ \E auto \in BOOLEAN : RouteCreate(r, name, auto)
               \/ RouteRename(r, name)
    BY <1>1, <2>4 DEF RouteCreate, RouteRename, bind_vars
  <2> QED
    BY <1>2, <1>3, <1>4, <1>5, <2>1, <2>2, <2>3, <2>4, UnbindRoutes
       DEF Next, QueueDelete, RouteDelete, Flush
<1> QED
  BY <1>5

(* The step of QueueAutoDelete.                                            *)
QueueKept ==
    \A q \in queues \cap queues' :
        queue_auto_delete[q] /\ ~ IsEmpty(declared_clients[q])
            => ~ IsEmpty(declared_clients'[q])

(* Every step is one that QueueAutoDelete allows: only the end of a        *)
(* connection takes a client off the list of a queue that stays, and then  *)
(* the queue was examined.                                                 *)
LEMMA QueueKeptStep ==
    ASSUME ClientInv, [Next]_vars
    PROVE  [QueueKept]_vars
<1>t. /\ queues \subseteq Queues
      /\ declared_clients \in QueueLists /\ declared_queues \in ClientLists
      /\ \A c \in Clients, q \in Queues :
           declared_queues[c][q] = declared_clients[q][c]
           /\ declared_clients[q][c] \in Nat
  BY DEF ClientInv, QueueLists
<1>1. ASSUME declared_clients' = declared_clients
      PROVE  QueueKept
  BY <1>1 DEF QueueKept
<1>2. ASSUME NEW c \in Clients, NEW q \in Queues, QueueDeclare(c, q)
      PROVE  QueueKept
  <2> SUFFICES ASSUME NEW p \in queues, ~ IsEmpty(declared_clients[p])
               PROVE  ~ IsEmpty(declared_clients'[p])
    BY DEF QueueKept
  <2>1. declared_clients' = [declared_clients EXCEPT ![q][c] = @ + 1]
    BY <1>2 DEF QueueDeclare, declare_client_queue_t
  <2>2. /\ DOMAIN declared_clients[p] = Clients
        /\ DOMAIN declared_clients'[p] = Clients
    BY <1>t, <2>1 DEF QueueLists
  <2>3. PICK x \in Clients : declared_clients[p][x] # 0
    BY <2>2 DEF IsEmpty
  <2>4. /\ declared_clients[p][x] \in Nat
        /\ declared_clients'[p][x] = declared_clients[p][x]
           \/ declared_clients'[p][x] = declared_clients[p][x] + 1
    BY <1>t, <2>1 DEF QueueLists
  <2>5. declared_clients'[p][x] # 0
    BY <2>3, <2>4
  <2> QED  BY <2>2, <2>5 DEF IsEmpty
<1>3. ASSUME NEW Q, NEW R, DeleteAll(Q, R)
      PROVE  QueueKept
  <2> SUFFICES ASSUME NEW q \in queues \cap queues'
               PROVE  declared_clients'[q] = declared_clients[q]
    BY DEF QueueKept
  <2>1. /\ queues' = queues \ Q
        /\ declared_clients' = Released(declared_clients, Q, Empty(Clients))
    BY <1>3 DEF DeleteAll, Delete
  <2>2. q \in DOMAIN declared_clients /\ q \notin Q
    BY <1>t, <2>1 DEF QueueLists
  <2> QED  BY <2>1, <2>2 DEF Released
<1>4. ASSUME NEW c \in Clients, FreeClient(c)
      PROVE  QueueKept
  <2> DEFINE left == EjectClient(declared_clients, declared_queues, c)
             gone == Abandoned(c)
  <2> SUFFICES ASSUME NEW q \in queues \cap queues', queue_auto_delete[q],
                      ~ IsEmpty(declared_clients[q])
               PROVE  ~ IsEmpty(declared_clients'[q])
    BY DEF QueueKept
  <2>1. /\ queues' = queues \ gone
        /\ declared_clients' = Released(left, gone, Empty(Clients))
    BY <1>4 DEF FreeClient, Delete
  <2>2. /\ left \in QueueLists
        /\ \A x \in Clients, p \in Queues :
             left[p][x] = IF x = c THEN Less(declared_clients[p][c],
                                             declared_queues[c][p])
                                   ELSE declared_clients[p][x]
    BY <1>t, EjectClientFacts
  <2>3. q \in Queues /\ q \notin gone
    BY <1>t, <2>1
  <2>4. declared_clients'[q] = left[q]
    BY <2>1, <2>2, <2>3 DEF Released, QueueLists
  <2>5. CASE declared_queues[c][q] > 0
    BY <2>3, <2>4, <2>5 DEF Abandoned
  <2>6. CASE ~ (declared_queues[c][q] > 0)
    <3>1. /\ DOMAIN declared_clients[q] = Clients /\ DOMAIN left[q] = Clients
      BY <1>t, <2>2, <2>3 DEF QueueLists
    <3>2. PICK x \in Clients : declared_clients[q][x] # 0
      BY <3>1 DEF IsEmpty
    <3>3. x # c
      BY <1>t, <2>3, <2>6, <3>2
    <3>4. left[q][x] # 0
      BY <2>2, <2>3, <3>2, <3>3
    <3> QED  BY <2>4, <3>1, <3>4 DEF IsEmpty
  <2> QED  BY <2>5, <2>6
<1>5. CASE Next
  <2>1. CASE \E c \in Clients : Connect(c)
    BY <1>1, <2>1 DEF Connect, client_vars
  <2>2. CASE \E q \in Queues, name \in QueueNames :
               \/ \E auto \in BOOLEAN : QueueCreate(q, name, auto)
               \/ QueueRename(q, name)
    BY <1>1, <2>2 DEF QueueCreate, QueueRename, client_vars
  <2>3. CASE \E c \in Clients, q \in Queues :
               \/ \E notify \in BOOLEAN : QueueSubscribe(c, q, notify)
               \/ QueueUnsubscribe(c, q)
    BY <1>1, <2>3 DEF QueueSubscribe, QueueUnsubscribe
  <2>4. CASE \E r \in Routes, name \in RouteNames :
               \/ \E auto \in BOOLEAN : RouteCreate(r, name, auto)
               \/ RouteRename(r, name)
    BY <1>1, <2>4 DEF RouteCreate, RouteRename, client_vars
  <2>5. CASE \E r \in Routes, q \in Queues, k \in Keys :
               RouteBind(r, q, k) \/ RouteUnbind(r, q, k)
    BY <1>1, <2>5 DEF RouteBind, RouteUnbind, client_vars
  <2> QED
    BY <1>2, <1>3, <1>4, <1>5, <2>1, <2>2, <2>3, <2>4, <2>5
       DEF Next, QueueDelete, RouteDelete, Flush
<1> QED
  BY <1>5

-----------------------------------------------------------------------------
LEMMA InitInv == Init => ClientInv /\ RouteInv
<1> SUFFICES ASSUME Init PROVE ClientInv /\ RouteInv
  OBVIOUS
<1>1. ClientInv
  BY DEF Init, ClientInv, ClientLists, QueueLists, Empty
<1>2. RouteInv
  BY DEF Init, RouteInv, KeyLists, LinkLists, Empty
<1> QED
  BY <1>1, <1>2

LEMMA InductiveInv == Spec => [](ClientInv /\ RouteInv)
<1>1. ClientInv /\ RouteInv /\ [Next]_vars => (ClientInv /\ RouteInv)'
  BY ClientStep, RouteStep
<1> QED
  BY <1>1, InitInv, PTL DEF Spec

(* Both sides of every reference agree, in every history of requests, lost *)
(* connections, flushes and automatic deletions.                           *)
THEOREM MirroredCorrect == Spec => []Mirrored
<1>1. ClientInv /\ RouteInv => Mirrored
  BY DEF ClientInv, RouteInv, Mirrored
<1> QED
  BY <1>1, InductiveInv, PTL

(* No list refers to a released client, queue or route.                    *)
THEOREM NoDanglingCorrect == Spec => []NoDangling
<1>1. ASSUME ClientInv, RouteInv
      PROVE  NoDangling
  <2>1. ASSUME NEW c \in Clients, NEW q \in Queues,
               declared_queues[c][q] > 0 \/ subscribed_queues[c][q] > 0 \/
               declared_clients[q][c] > 0 \/
               subscribed_clients_msg[q][c] > 0 \/
               subscribed_clients_notify[q][c] > 0
        PROVE  c \in clients /\ q \in queues
    <3>1. /\ declared_queues[c][q] = declared_clients[q][c]
          /\ subscribed_queues[c][q] = subscribed_clients_msg[q][c] +
                                       subscribed_clients_notify[q][c]
          /\ declared_queues[c][q] > 0 => c \in clients /\ q \in queues
          /\ subscribed_queues[c][q] > 0 => c \in clients /\ q \in queues
      BY <1>1 DEF ClientInv
    <3>2. /\ subscribed_clients_msg[q][c] \in Nat
          /\ subscribed_clients_notify[q][c] \in Nat
      BY <1>1 DEF ClientInv, QueueLists
    <3> QED  BY <2>1, <3>1, <3>2
  <2>2. \A r \in Routes, k \in Keys, q \in Queues :
          keys[r][k][q] > 0 \/ queue_routes[q][k][r] > 0
              => r \in routes /\ q \in queues
    BY <1>1 DEF RouteInv
  <2> QED  BY <2>1, <2>2 DEF NoDangling
<1> QED
  BY <1>1, InductiveInv, PTL

(* Nothing is listed twice, although the lists are searched by name and a  *)
(* queue may have been renamed since it was listed.                        *)
THEOREM ListedOnceCorrect == Spec => []ListedOnce
<1>1. ClientInv /\ RouteInv => ListedOnce
  BY DEF ClientInv, RouteInv, ListedOnce
<1> QED
  BY <1>1, InductiveInv, PTL

(* A queue with the auto_delete flag goes with the last client that has    *)
(* declared it.                                                            *)
THEOREM QueueAutoDeleteCorrect == Spec => QueueAutoDelete
<1>1. ClientInv /\ [Next]_vars => [QueueKept]_vars
  BY QueueKeptStep
<1>2. Spec => [][QueueKept]_vars
  BY <1>1, InductiveInv, PTL DEF Spec
<1> QED
  BY <1>2 DEF QueueKept, QueueAutoDelete

(* A route with the auto_delete flag goes with its last binding.           *)
THEOREM RouteAutoDeleteCorrect == Spec => RouteAutoDelete
<1>1. RouteInv /\ [Next]_vars => [RouteKept]_vars
  BY RouteKeptStep
<1>2. Spec => [][RouteKept]_vars
  BY <1>1, InductiveInv, PTL DEF Spec
<1> QED
  BY <1>2 DEF RouteKept, RouteAutoDelete
=============================================================================
