-------------------------- MODULE ConnectionsProofs --------------------------
(***************************************************************************)
(* Proofs about Connections, for every value of its constants.             *)
(***************************************************************************)
EXTENDS Connections, FiniteSetTheorems, ListProofs

TypeInv ==
    /\ client \in [Addrs -> EagleClient \cup {Null}]
    /\ events \in [Fds -> FileEvent]
    /\ socket \in [Fds -> Connection \cup {Null}]
    /\ fired \subseteq FiredEvent
    /\ current \in FiredEvent \cup {Null}
    /\ got \in [Fds -> Nat]

(* A handler closes no descriptor but the one it was called for, which is  *)
(* in loop->fired once: so the only closed descriptor for which something  *)
(* is left to be called is the current one, and its events are deleted.    *)
LoopInv ==
    /\ ~ polled => fired = {} /\ current = Null
    /\ \A e, f \in fired : e.fd = f.fd => e = f
    /\ current # Null =>
         current.fd \in Fds /\ \A e \in fired : e.fd # current.fd
    /\ \A fd \in closed :
         current # Null /\ fd = current.fd /\ events[fd].mask = {}

(* What the loop and the socket have for the client c.  It is written to   *)
(* without a response only while send_response is at it; what is sent of   *)
(* the first response is less than all of it.                              *)
Attended(c) ==
    LET r == client[c]
        e == events[r.fd]
    IN  /\ socket[r.fd] # Null
        /\ e.data = c /\ READABLE \in e.mask
        /\ r.responses # <<>> => WRITABLE \in e.mask
        /\ WRITABLE \in e.mask /\ r.responses = <<>>
             => current # Null /\ current.fd = r.fd
        /\ r.sentlen = got[r.fd]
        /\ r.sentlen # 0 => r.responses # <<>> /\ r.sentlen < Head(r.responses)

ClientsInv ==
    /\ socket[LoopSize] = Null
    /\ \A c \in Addrs : client[c] # Null => Attended(c)
    /\ \A fd \in Fds : events[fd].mask # {} =>
         \E c \in Addrs : client[c] # Null /\ client[c].fd = fd
    /\ \A fd \in Fds : socket[fd] = Null => got[fd] = 0

Inv == TypeInv /\ LoopInv /\ ClientsInv

-----------------------------------------------------------------------------
(* Records *)

LEMMA NullFacts ==
    Null \notin EagleClient /\ Null \notin FiredEvent /\ Null \notin Connection
BY ConnectionsAssumption

LEMMA FdFacts ==
    /\ LoopSize \in Nat /\ FirstFd \in Nat
    /\ LoopSize \in Fds /\ ListenFd \notin Fds
    /\ \A fd \in Fds : fd \in Nat /\ FirstFd <= fd /\ fd <= LoopSize
BY ConnectionsAssumption DEF Fds, LoopSize, ListenFd

LEMMA ClientFacts ==
    ASSUME NEW r \in EagleClient
    PROVE  /\ r.fd \in Fds /\ r.idle \in Nat /\ r.sentlen \in Nat
           /\ r.responses \in Seq(Nat) /\ r # Null
           /\ \A i \in Nat : [r EXCEPT !.idle = i] \in EagleClient
<1>1. r.responses \in Seq(Sizes) /\ Sizes \subseteq Nat
  BY ConnectionsAssumption DEF EagleClient
<1>2. r.responses \in Seq(Nat)
  BY <1>1, SeqFacts
<1> QED
  BY <1>2, NullFacts DEF EagleClient

LEMMA EventFacts ==
    ASSUME NEW e \in FileEvent
    PROVE  /\ e.mask \subseteq {READABLE, WRITABLE}
           /\ \A m \in SUBSET {READABLE, WRITABLE}, d \in Addrs :
                [mask |-> m, data |-> d] \in FileEvent
           /\ \A m \in SUBSET {READABLE, WRITABLE} :
                /\ [e EXCEPT !.mask = m] \in FileEvent
                /\ [e EXCEPT !.mask = m].mask = m
                /\ [e EXCEPT !.mask = m].data = e.data
BY DEF FileEvent

LEMMA SocketFacts ==
    ASSUME NEW s \in Connection
    PROVE  /\ \A i \in {"none", "request", "end"} :
                [s EXCEPT !.input = i] \in Connection
           /\ \A b \in BOOLEAN : [s EXCEPT !.room = b] \in Connection
           /\ s # Null
BY NullFacts DEF Connection

LEMMA FiredFacts ==
    ASSUME NEW e \in FiredEvent
    PROVE  e.fd \in Fds \cup {ListenFd} /\ e # Null
BY NullFacts DEF FiredEvent

-----------------------------------------------------------------------------
(* Clients *)

(* Where a client is, what its descriptor is, and that no other has it.    *)
LEMMA Known ==
    ASSUME TypeInv, ClientsInv, NEW c \in Addrs, client[c] # Null
    PROVE  /\ client[c] \in EagleClient /\ client[c].fd \in Fds
           /\ client[c].sentlen \in Nat /\ client[c].responses \in Seq(Nat)
           /\ Attended(c)
           /\ events[client[c].fd] \in FileEvent
           /\ socket[client[c].fd] \in Connection
           /\ got[client[c].fd] \in Nat
           /\ \A d \in Addrs : client[d] # Null /\ client[d].fd = client[c].fd
                => d = c
<1>1. client[c] \in EagleClient
  BY DEF TypeInv
<1>2. /\ client[c].fd \in Fds /\ client[c].sentlen \in Nat
      /\ client[c].responses \in Seq(Nat)
  BY <1>1, ClientFacts
<1>3. Attended(c)
  BY DEF ClientsInv
<1>4. \A d \in Addrs : client[d] # Null /\ client[d].fd = client[c].fd
        => d = c
  BY <1>3 DEF ClientsInv, Attended
<1> QED
  BY <1>1, <1>2, <1>3, <1>4 DEF TypeInv, Attended

(* A descriptor with an event has a client, the argument of its handlers.  *)
LEMMA HandlerData ==
    ASSUME TypeInv, ClientsInv, NEW fd \in Fds, events[fd].mask # {}
    PROVE  LET c == events[fd].data
           IN  c \in Addrs /\ client[c] # Null /\ client[c].fd = fd
<1>1. PICK d \in Addrs : client[d] # Null /\ client[d].fd = fd
  BY DEF ClientsInv
<1>2. events[fd].data = d
  BY <1>1 DEF ClientsInv, Attended
<1> QED
  BY <1>1, <1>2

(* A step that leaves what concerns the client c.                          *)
LEMMA AttendedSame ==
    ASSUME NEW c \in Addrs, Attended(c),
           client'[c].fd = client[c].fd,
           client'[c].responses = client[c].responses,
           client'[c].sentlen = client[c].sentlen,
           events'[client[c].fd] = events[client[c].fd],
           got'[client[c].fd] = got[client[c].fd],
           socket'[client[c].fd] # Null,
           \/ current' = current
           \/ current = Null
           \/ current.fd # client[c].fd
           \/ WRITABLE \notin events[client[c].fd].mask
           \/ client[c].responses # <<>>
    PROVE  Attended(c)'
BY DEF Attended

(* Steps that change no client but for its idle time.                      *)
LEMMA SameClients ==
    ASSUME TypeInv, ClientsInv,
           \A c \in Addrs :
             /\ client'[c] = Null <=> client[c] = Null
             /\ client[c] # Null =>
                  /\ client'[c].fd = client[c].fd
                  /\ client'[c].responses = client[c].responses
                  /\ client'[c].sentlen = client[c].sentlen,
           events' = events, got' = got,
           \A fd \in Fds : socket'[fd] = Null <=> socket[fd] = Null,
           \/ current' = current
           \/ current = Null
           \/ WRITABLE \notin events[current.fd].mask
           \/ \A c \in Addrs : client[c] # Null /\ client[c].fd = current.fd
                => client[c].responses # <<>>
    PROVE  ClientsInv'
<1>1. ASSUME NEW c \in Addrs, client'[c] # Null
      PROVE  Attended(c)'
  <2>1. client[c] # Null /\ Attended(c) /\ client[c].fd \in Fds
    BY <1>1, Known
  <2>2. socket[client[c].fd] # Null
    BY <2>1 DEF Attended
  <2> QED  BY <2>1, <2>2, AttendedSame
<1>2. socket'[LoopSize] = Null
  BY FdFacts DEF ClientsInv
<1>3. \A fd \in Fds : events'[fd].mask # {} =>
        \E c \in Addrs : client'[c] # Null /\ client'[c].fd = fd
  BY DEF ClientsInv
<1>4. \A fd \in Fds : socket'[fd] = Null => got'[fd] = 0
  BY DEF ClientsInv
<1> QED
  BY <1>1, <1>2, <1>3, <1>4 DEF ClientsInv

(* accept has a descriptor below loop->size or is refused, and there is an *)
(* address for the client.                                                 *)
LEMMA FreeFd ==
    ASSUME TypeInv, ClientsInv
    PROVE  LET fd == CHOOSE f \in Fds \ Open : \A g \in Fds \ Open : f <= g
               c == CHOOSE a \in Addrs : a \notin clients
           IN  /\ fd \in Fds /\ socket[fd] = Null
               /\ fd < LoopSize => c \in Addrs /\ client[c] = Null
<1> DEFINE free == Fds \ Open
           Least(f) == \A g \in free : f <= g
           fd == CHOOSE f \in free : Least(f)
           c == CHOOSE a \in Addrs : a \notin clients
<1>1. free \subseteq Nat /\ free # {}
  BY FdFacts DEF ClientsInv, Open
<1>2. \E f \in free : Least(f)
  BY <1>1, LeastNatural
<1>3. fd \in free
  BY <1>2
<1> HIDE DEF fd
<1>4. fd \in Fds /\ socket[fd] = Null
  BY <1>3 DEF Open
<1>5. ASSUME fd < LoopSize, \A a \in Addrs : client[a] # Null
      PROVE  FALSE
  <2> DEFINE I == FirstFd .. LoopSize - 1
             T == I \ {fd}
             f == [a \in Addrs |-> client[a].fd]
  <2>1. /\ IsFiniteSet(I) /\ Cardinality(I) = LoopSize - FirstFd
        /\ fd \in I
    <3>1. /\ FirstFd \in Int /\ LoopSize - 1 \in Int /\ fd \in I
          /\ ~ (FirstFd > LoopSize - 1)
      BY <1>4, <1>5, FdFacts
    <3>2. /\ IsFiniteSet(I)
          /\ Cardinality(I) = IF FirstFd > LoopSize - 1 THEN 0
                              ELSE LoopSize - 1 - FirstFd + 1
      BY <3>1, FS_Interval
    <3> QED  BY <3>1, <3>2, FdFacts
  <2>2. IsFiniteSet(T) /\ Cardinality(T) = LoopSize - FirstFd - 1
    <3> HIDE DEF I
    <3> QED  BY <2>1, FS_RemoveElement
  <2>3. f \in Injection(Addrs, T)
    <3>1. ASSUME NEW a \in Addrs
          PROVE  f[a] \in T
      <4>1. client[a].fd \in Fds /\ socket[client[a].fd] # Null
        BY <1>5, Known DEF Attended
      <4>2. client[a].fd # LoopSize /\ client[a].fd # fd
        BY <1>4, <4>1 DEF ClientsInv
      <4>3. /\ client[a].fd \in Nat /\ LoopSize \in Nat /\ FirstFd \in Nat
            /\ FirstFd <= client[a].fd /\ client[a].fd <= LoopSize
        BY <4>1, FdFacts
      <4>4. client[a].fd \in T
        BY <4>2, <4>3
      <4> QED  BY <4>4
    <3>2. \A a, b \in Addrs : f[a] = f[b] => a = b
      BY <1>5, Known
    <3> HIDE DEF T
    <3> QED  BY <3>1, <3>2 DEF Injection, IsInjective
  <2>4. Cardinality(Addrs) <= Cardinality(T)
    <3> HIDE DEF T, f
    <3> QED  BY <2>2, <2>3, FS_Injection
  <2>5. Cardinality(Addrs) \in Nat /\ Cardinality(Addrs) >= LoopSize - FirstFd
    BY ConnectionsAssumption, FS_CardinalityType
  <2> HIDE DEF T
  <2> QED  BY <2>2, <2>4, <2>5, FdFacts
<1>6. ASSUME fd < LoopSize
      PROVE  c \in Addrs /\ client[c] = Null
  <2>1. \E a \in Addrs : a \notin clients
    BY <1>5, <1>6 DEF clients
  <2> QED  BY <2>1 DEF clients
<1> QED
  BY <1>4, <1>6 DEF fd

(* free_client for the clients in C, one of whom is the current one if     *)
(* there is one.                                                           *)
LEMMA FreeClients ==
    ASSUME TypeInv, ClientsInv, NEW C, NEW rest, NEW cur,
           free_clients(C, rest, cur),
           \A c \in C : c \in Addrs /\ client[c] # Null,
           current # Null => \E c \in C : client[c].fd = current.fd
    PROVE  /\ client' \in [Addrs -> EagleClient \cup {Null}]
           /\ events' \in [Fds -> FileEvent]
           /\ socket' \in [Fds -> Connection \cup {Null}]
           /\ got' \in [Fds -> Nat]
           /\ ClientsInv'
           /\ \A c \in C : events'[client[c].fd].mask = {}
<1> DEFINE fds == {client[c].fd : c \in C}
<1>1. /\ client' = [c \in Addrs |-> IF c \in C THEN Null ELSE client[c]]
      /\ events' = Deleted(C)
      /\ socket' = [fd \in Fds |-> IF fd \in fds THEN Null ELSE socket[fd]]
      /\ got' = [fd \in Fds |-> IF fd \in fds THEN 0 ELSE got[fd]]
  BY DEF free_clients
<1>2. /\ client' \in [Addrs -> EagleClient \cup {Null}]
      /\ socket' \in [Fds -> Connection \cup {Null}]
      /\ got' \in [Fds -> Nat]
  BY <1>1 DEF TypeInv
<1>3. ASSUME NEW fd \in Fds
      PROVE  /\ fd \in fds => events'[fd] = [events[fd] EXCEPT !.mask = {}]
             /\ fd \notin fds => events'[fd] = events[fd]
             /\ events[fd] \in FileEvent
             /\ [events[fd] EXCEPT !.mask = {}] \in FileEvent
             /\ [events[fd] EXCEPT !.mask = {}].mask = {}
  <2>1. events'[fd] = IF \E c \in C : client[c].fd = fd
                      THEN [events[fd] EXCEPT !.mask = {}] ELSE events[fd]
    BY <1>1 DEF Deleted
  <2>2. events[fd] \in FileEvent
    BY DEF TypeInv
  <2> QED  BY <2>1, <2>2, EventFacts
<1>4. events' \in [Fds -> FileEvent]
  BY <1>1, <1>3 DEF Deleted
<1>5. \A c \in C : client[c].fd \in Fds /\ client[c].fd \in fds
  BY Known
<1> HIDE DEF fds
<1>6. ASSUME NEW d \in Addrs, client'[d] # Null
      PROVE  Attended(d)'
  <2>1. client[d] # Null /\ d \notin C /\ client'[d] = client[d]
    BY <1>1, <1>6
  <2>2. client[d].fd \in Fds /\ Attended(d)
    BY <2>1, Known
  <2>3. client[d].fd \notin fds
    BY <2>1, Known DEF fds
  <2>4. /\ events'[client[d].fd] = events[client[d].fd]
        /\ got'[client[d].fd] = got[client[d].fd]
        /\ socket'[client[d].fd] = socket[client[d].fd]
    BY <1>1, <1>3, <2>2, <2>3
  <2>5. current = Null \/ current.fd # client[d].fd
    BY <2>3 DEF fds
  <2>6. socket[client[d].fd] # Null
    BY <2>2 DEF Attended
  <2> QED  BY <2>1, <2>2, <2>4, <2>5, <2>6, AttendedSame
<1>7. socket'[LoopSize] = Null
  BY <1>1, FdFacts DEF ClientsInv
<1>8. ASSUME NEW fd \in Fds, events'[fd].mask # {}
      PROVE  \E c \in Addrs : client'[c] # Null /\ client'[c].fd = fd
  <2>1. fd \notin fds /\ events'[fd] = events[fd]
    BY <1>3, <1>8
  <2>2. PICK c \in Addrs : client[c] # Null /\ client[c].fd = fd
    BY <1>8, <2>1 DEF ClientsInv
  <2>3. c \notin C
    BY <2>1, <2>2 DEF fds
  <2> QED  BY <1>1, <2>2, <2>3
<1>9. \A fd \in Fds : socket'[fd] = Null => got'[fd] = 0
  BY <1>1 DEF ClientsInv
<1>10. ClientsInv'
  BY <1>6, <1>7, <1>8, <1>9 DEF ClientsInv
<1>11. \A c \in C : events'[client[c].fd].mask = {}
  BY <1>3, <1>5
<1> QED
  BY <1>2, <1>4, <1>10, <1>11

-----------------------------------------------------------------------------
(* The event loop *)

(* process_events takes an entry of loop->fired: none of those that were   *)
(* closed before is left.                                                  *)
LEMMA TakeFacts ==
    ASSUME TypeInv, LoopInv, NEW e, Take(e)
    PROVE  /\ e.fd \in Fds /\ current = Null /\ closed = {}
           /\ fired' \subseteq FiredEvent
           /\ current' \in FiredEvent \cup {Null}
           /\ ~ polled' => fired' = {} /\ current' = Null
           /\ \A f, g \in fired' : f.fd = g.fd => f = g
           /\ current' # Null => current' = e /\ current'.fd \in Fds
           /\ \A f \in fired' : f.fd # e.fd
           /\ e.fd \in Pending(fired', current') => current' # Null
<1>1. /\ polled /\ current = Null
      /\ e \in fired /\ e.fd # ListenFd
      /\ fired' = fired \ {e}
      /\ current' = IF WRITABLE \in e.mask THEN e ELSE Null
      /\ polled' = polled
  BY DEF Take
<1>2. e \in FiredEvent /\ e # Null /\ e.fd \in Fds
  BY <1>1, FiredFacts DEF TypeInv
<1>3. closed = {}
  BY <1>1 DEF LoopInv
<1>4. \A f \in fired' : f.fd # e.fd
  BY <1>1 DEF LoopInv
<1>5. \A f, g \in fired' : f.fd = g.fd => f = g
  BY <1>1 DEF LoopInv
<1>6. fired' \subseteq FiredEvent
  BY <1>1 DEF TypeInv
<1> QED
  BY <1>1, <1>2, <1>3, <1>4, <1>5, <1>6 DEF Pending

(* The write handler is over: nothing is left for its descriptor.          *)
LEMMA EndFacts ==
    ASSUME TypeInv, LoopInv, current # Null,
           current' = Null, fired' = fired, polled' = polled,
           closed' \subseteq
             (closed \cup {current.fd}) \cap Pending(fired, Null)
    PROVE  LoopInv'
<1>1. closed' = {}
  BY DEF LoopInv, Pending
<1> QED
  BY <1>1 DEF LoopInv

(* Nothing but the connections and the clients' times changes.             *)
LEMMA QuietLoop ==
    ASSUME TypeInv, LoopInv,
           UNCHANGED <<fired, current, polled, closed, events>>
    PROVE  LoopInv' /\ fired' \subseteq FiredEvent
           /\ current' \in FiredEvent \cup {Null}
BY DEF LoopInv, TypeInv

-----------------------------------------------------------------------------
(* The steps of the clients and of time *)

LEMMA ArrivesStep ==
    ASSUME Inv, NEW fd \in Fds, NEW what \in {"request", "end"},
           Arrives(fd, what)
    PROVE  Inv'
<1>1. /\ socket[fd] # Null
      /\ socket' = [socket EXCEPT ![fd] = [socket[fd] EXCEPT !.input = what]]
      /\ UNCHANGED <<client, events, got>>
      /\ UNCHANGED <<fired, current, polled, closed, events>>
  BY DEF Arrives, Open, loop_vars, hist_vars
<1>2. socket[fd] \in Connection
  BY <1>1 DEF Inv, TypeInv
<1>3. [socket[fd] EXCEPT !.input = what] \in Connection
  BY <1>2, SocketFacts
<1>4. /\ socket' \in [Fds -> Connection \cup {Null}]
      /\ \A g \in Fds : socket'[g] = Null <=> socket[g] = Null
  BY <1>1, <1>2, <1>3, NullFacts DEF Inv, TypeInv
<1>5. LoopInv' /\ fired' \subseteq FiredEvent
      /\ current' \in FiredEvent \cup {Null}
  BY <1>1, QuietLoop DEF Inv
<1>6. ClientsInv'
  BY <1>1, <1>4, SameClients DEF Inv
<1> QED
  BY <1>1, <1>4, <1>5, <1>6 DEF Inv, TypeInv

LEMMA ReceivesStep ==
    ASSUME Inv, NEW fd \in Fds, Receives(fd)
    PROVE  Inv'
<1>1. /\ socket[fd] # Null
      /\ socket' = [socket EXCEPT ![fd] = [socket[fd] EXCEPT !.room = TRUE]]
      /\ UNCHANGED <<client, events, got>>
      /\ UNCHANGED <<fired, current, polled, closed, events>>
  BY DEF Receives, Open, loop_vars, hist_vars
<1>2. socket[fd] \in Connection
  BY <1>1 DEF Inv, TypeInv
<1>3. [socket[fd] EXCEPT !.room = TRUE] \in Connection
  BY <1>2, SocketFacts
<1>4. /\ socket' \in [Fds -> Connection \cup {Null}]
      /\ \A g \in Fds : socket'[g] = Null <=> socket[g] = Null
  BY <1>1, <1>2, <1>3, NullFacts DEF Inv, TypeInv
<1>5. LoopInv' /\ fired' \subseteq FiredEvent
      /\ current' \in FiredEvent \cup {Null}
  BY <1>1, QuietLoop DEF Inv
<1>6. ClientsInv'
  BY <1>1, <1>4, SameClients DEF Inv
<1> QED
  BY <1>1, <1>4, <1>5, <1>6 DEF Inv, TypeInv

LEMMA ClockStep ==
    ASSUME Inv, Clock
    PROVE  Inv'
<1>1. /\ client' = [c \in Addrs |->
                     IF c \in clients /\ client[c].idle <= client_timeout
                     THEN [client[c] EXCEPT !.idle = @ + 1] ELSE client[c]]
      /\ UNCHANGED <<events, socket, got>>
      /\ UNCHANGED <<fired, current, polled, closed, events>>
  BY DEF Clock, loop_vars, hist_vars
<1>2. ASSUME NEW c \in Addrs
      PROVE  /\ client'[c] \in EagleClient \cup {Null}
             /\ client'[c] = Null <=> client[c] = Null
             /\ client[c] # Null =>
                  /\ client'[c].fd = client[c].fd
                  /\ client'[c].responses = client[c].responses
                  /\ client'[c].sentlen = client[c].sentlen
  <2>1. CASE client[c] = Null
    BY <1>1, <2>1 DEF clients
  <2>2. CASE client[c] # Null
    <3>1. client[c] \in EagleClient
      BY <2>2 DEF Inv, TypeInv
    <3>2. client[c].idle + 1 \in Nat
      BY <3>1, ClientFacts
    <3>3. [client[c] EXCEPT !.idle = @ + 1] \in EagleClient
      BY <3>1, <3>2, ClientFacts
    <3>4. /\ [client[c] EXCEPT !.idle = @ + 1].fd = client[c].fd
          /\ [client[c] EXCEPT !.idle = @ + 1].responses = client[c].responses
          /\ [client[c] EXCEPT !.idle = @ + 1].sentlen = client[c].sentlen
      BY <3>1 DEF EagleClient
    <3>5. \/ client'[c] = client[c]
          \/ client'[c] = [client[c] EXCEPT !.idle = @ + 1]
      BY <1>1
    <3> QED  BY <2>2, <3>1, <3>3, <3>4, <3>5, NullFacts
  <2> QED  BY <2>1, <2>2
<1>3. client' \in [Addrs -> EagleClient \cup {Null}]
  BY <1>1, <1>2
<1>4. LoopInv' /\ fired' \subseteq FiredEvent
      /\ current' \in FiredEvent \cup {Null}
  BY <1>1, QuietLoop DEF Inv
<1>5. ClientsInv'
  BY <1>1, <1>2, SameClients DEF Inv
<1> QED
  BY <1>1, <1>3, <1>4, <1>5 DEF Inv, TypeInv

-----------------------------------------------------------------------------
(* The steps of the server *)

LEMMA PollStep ==
    ASSUME Inv, Poll
    PROVE  Inv'
<1>1. /\ ~ polled /\ polled'
      /\ UNCHANGED <<client, events, current, socket, closed, got>>
  BY DEF Poll, hist_vars
<1>2. PICK waiting \in SUBSET {[fd |-> ListenFd, mask |-> {READABLE}]} :
        fired' = waiting \cup {[fd |-> fd, mask |-> Ready(fd)] :
                                 fd \in {f \in Open : Ready(f) # {}}}
  BY DEF Poll
<1>3. current = Null /\ closed = {}
  BY <1>1 DEF Inv, LoopInv
<1>4. ASSUME NEW e \in fired'
      PROVE  /\ e \in FiredEvent
             /\ \/ e = [fd |-> ListenFd, mask |-> {READABLE}]
                \/ e.fd \in Fds /\ e = [fd |-> e.fd, mask |-> Ready(e.fd)]
  BY <1>2 DEF FiredEvent, Open, Ready
<1>5. \A e, f \in fired' : e.fd = f.fd => e = f
  BY <1>4, FdFacts
<1>6. LoopInv'
  BY <1>1, <1>3, <1>5 DEF LoopInv
<1>7. ClientsInv'
  BY <1>1, SameClients DEF Inv
<1> QED
  BY <1>1, <1>4, <1>6, <1>7 DEF Inv, TypeInv

LEMMA NotReadableStep ==
    ASSUME Inv, NEW e, NotReadable(e)
    PROVE  Inv'
<1>1. /\ Take(e) /\ NobodyFreed(fired', current')
      /\ UNCHANGED <<client, events, socket, got>>
  BY DEF NotReadable
<1>2. /\ closed = {} /\ current = Null
      /\ fired' \subseteq FiredEvent
      /\ current' \in FiredEvent \cup {Null}
      /\ ~ polled' => fired' = {} /\ current' = Null
      /\ \A f, g \in fired' : f.fd = g.fd => f = g
      /\ current' # Null => current' = e /\ current'.fd \in Fds
      /\ \A f \in fired' : f.fd # e.fd
  BY <1>1, TakeFacts DEF Inv
<1>3. closed' = {}
  BY <1>1, <1>2 DEF NobodyFreed
<1>4. LoopInv'
  BY <1>2, <1>3 DEF LoopInv
<1>5. ClientsInv'
  BY <1>1, <1>2, SameClients DEF Inv
<1> QED
  BY <1>1, <1>2, <1>4, <1>5 DEF Inv, TypeInv

LEMMA ReadEndStep ==
    ASSUME Inv, NEW e, ReadEnd(e)
    PROVE  Inv'
<1> DEFINE c == events[e.fd].data
<1>1. /\ Take(e) /\ free_clients({c}, fired', current')
      /\ events[e.fd].mask # {}
  BY DEF ReadEnd
<1>2. /\ e.fd \in Fds /\ closed = {} /\ current = Null
      /\ fired' \subseteq FiredEvent
      /\ current' \in FiredEvent \cup {Null}
      /\ ~ polled' => fired' = {} /\ current' = Null
      /\ \A f, g \in fired' : f.fd = g.fd => f = g
      /\ current' # Null => current' = e /\ current'.fd \in Fds
      /\ \A f \in fired' : f.fd # e.fd
      /\ e.fd \in Pending(fired', current') => current' # Null
  BY <1>1, TakeFacts DEF Inv
<1>3. c \in Addrs /\ client[c] # Null /\ client[c].fd = e.fd
  BY <1>1, <1>2, HandlerData DEF Inv
<1> HIDE DEF c
<1>4. /\ client' \in [Addrs -> EagleClient \cup {Null}]
      /\ events' \in [Fds -> FileEvent]
      /\ socket' \in [Fds -> Connection \cup {Null}]
      /\ got' \in [Fds -> Nat]
      /\ ClientsInv'
      /\ events'[e.fd].mask = {}
  <2> DEFINE C == {c}
  <2>1. /\ TypeInv /\ ClientsInv /\ free_clients(C, fired', current')
        /\ \A x \in C : x \in Addrs /\ client[x] # Null
        /\ current # Null => \E x \in C : client[x].fd = current.fd
        /\ c \in C
    BY <1>1, <1>2, <1>3 DEF Inv
  <2> HIDE DEF C
  <2>2. /\ client' \in [Addrs -> EagleClient \cup {Null}]
        /\ events' \in [Fds -> FileEvent]
        /\ socket' \in [Fds -> Connection \cup {Null}]
        /\ got' \in [Fds -> Nat]
        /\ ClientsInv'
        /\ \A x \in C : events'[client[x].fd].mask = {}
    BY <2>1, FreeClients
  <2> QED  BY <1>3, <2>1, <2>2
<1>5. closed' \subseteq {e.fd} \cap Pending(fired', current')
  BY <1>1, <1>2, <1>3 DEF free_clients
<1>6. LoopInv'
  BY <1>2, <1>4, <1>5 DEF LoopInv
<1> QED
  BY <1>2, <1>4, <1>6 DEF Inv, TypeInv

LEMMA NotWritableStep ==
    ASSUME Inv, NotWritable
    PROVE  Inv'
<1>1. /\ current # Null /\ current' = Null
      /\ WRITABLE \notin events[current.fd].mask
      /\ UNCHANGED <<client, events, fired, polled, socket, got>>
      /\ closed' \subseteq closed \cap Pending(fired, Null)
  BY DEF NotWritable, NobodyFreed
<1>2. LoopInv'
  BY <1>1, EndFacts DEF Inv
<1>3. ClientsInv'
  BY <1>1, SameClients DEF Inv
<1> QED
  BY <1>1, <1>2, <1>3 DEF Inv, TypeInv

(* send_response is called for the client that has the descriptor.         *)
LEMMA SendingFacts ==
    ASSUME Inv, NEW c, Sending(c)
    PROVE  /\ current # Null /\ current.fd \in Fds
           /\ c \in Addrs /\ client[c] # Null /\ client[c].fd = current.fd
           /\ fired' = fired /\ polled' = polled
<1>1. /\ current # Null /\ WRITABLE \in events[current.fd].mask
      /\ c = events[current.fd].data
      /\ fired' = fired /\ polled' = polled
  BY DEF Sending
<1>2. current.fd \in Fds
  BY <1>1 DEF Inv, LoopInv
<1>3. events[current.fd].mask # {}
  BY <1>1
<1>4. c \in Addrs /\ client[c] # Null /\ client[c].fd = current.fd
  BY <1>1, <1>2, <1>3, HandlerData DEF Inv
<1> QED
  BY <1>1, <1>2, <1>4

LEMMA SendAgainStep ==
    ASSUME Inv, NEW c, SendAgain(c)
    PROVE  Inv'
<1>1. /\ Sending(c) /\ client[c].responses # <<>> /\ current' = Null
      /\ UNCHANGED <<client, events, socket, got>>
      /\ closed' \subseteq closed \cap Pending(fired, Null)
  BY DEF SendAgain, NobodyFreed
<1>2. /\ current # Null /\ c \in Addrs /\ client[c] # Null
      /\ client[c].fd = current.fd /\ fired' = fired /\ polled' = polled
  BY <1>1, SendingFacts
<1>3. LoopInv'
  BY <1>1, <1>2, EndFacts DEF Inv
<1>4. \A d \in Addrs : client[d] # Null /\ client[d].fd = current.fd
        => client[d].responses # <<>>
  BY <1>1, <1>2, Known DEF Inv
<1>5. ClientsInv'
  BY <1>1, <1>4, SameClients DEF Inv
<1> QED
  BY <1>1, <1>2, <1>3, <1>5 DEF Inv, TypeInv

LEMMA SendFailsStep ==
    ASSUME Inv, NEW c, SendFails(c)
    PROVE  Inv'
<1>1. /\ Sending(c) /\ current' = Null /\ free_clients({c}, fired, Null)
  BY DEF SendFails
<1>2. /\ current # Null /\ c \in Addrs /\ client[c] # Null
      /\ client[c].fd = current.fd /\ fired' = fired /\ polled' = polled
  BY <1>1, SendingFacts
<1>3. closed' \subseteq (closed \cup {current.fd}) \cap Pending(fired, Null)
  BY <1>1, <1>2 DEF free_clients
<1>4. LoopInv'
  BY <1>1, <1>2, <1>3, EndFacts DEF Inv
<1>5. /\ client' \in [Addrs -> EagleClient \cup {Null}]
      /\ events' \in [Fds -> FileEvent]
      /\ socket' \in [Fds -> Connection \cup {Null}]
      /\ got' \in [Fds -> Nat]
      /\ ClientsInv'
  <2> DEFINE C == {c}
  <2>1. /\ TypeInv /\ ClientsInv /\ free_clients(C, fired, Null)
        /\ \A x \in C : x \in Addrs /\ client[x] # Null
        /\ current # Null => \E x \in C : client[x].fd = current.fd
    BY <1>1, <1>2 DEF Inv
  <2> HIDE DEF C
  <2> QED  BY <2>1, FreeClients
<1> QED
  BY <1>1, <1>2, <1>4, <1>5 DEF Inv, TypeInv

LEMMA UpdaterStep ==
    ASSUME Inv, Updater \/ NoTimeEvent
    PROVE  Inv'
<1>1. /\ fired = {} /\ current = Null
      /\ fired' = fired /\ current' = current
  BY DEF Updater, NoTimeEvent
<1>2. closed = {}
  BY <1>1 DEF Inv, LoopInv
<1>3. CASE NoTimeEvent
  <2>1. UNCHANGED <<client, events, socket, closed, got>>
    BY <1>3 DEF NoTimeEvent, hist_vars
  <2>2. ClientsInv'
    BY <1>1, <2>1, SameClients DEF Inv
  <2>3. LoopInv'
    BY <1>1, <1>2, <2>1 DEF LoopInv
  <2> QED  BY <1>1, <2>1, <2>2, <2>3 DEF Inv, TypeInv
<1>4. CASE Updater
  <2>1. free_clients(Idle, {}, Null)
    BY <1>4 DEF Updater
  <2>2. \A c \in Idle : c \in Addrs /\ client[c] # Null
    BY DEF Idle, clients
  <2>3. /\ client' \in [Addrs -> EagleClient \cup {Null}]
        /\ events' \in [Fds -> FileEvent]
        /\ socket' \in [Fds -> Connection \cup {Null}]
        /\ got' \in [Fds -> Nat]
        /\ ClientsInv'
    BY <1>1, <2>1, <2>2, FreeClients DEF Inv
  <2>4. closed' = {}
    BY <2>1 DEF free_clients, Pending
  <2>5. LoopInv'
    BY <1>1, <2>4 DEF LoopInv
  <2> QED  BY <1>1, <2>3, <2>5 DEF Inv, TypeInv
<1> QED
  BY <1>3, <1>4

(* Steps that concern one client, at the descriptor fd.                    *)
LEMMA OneClient ==
    ASSUME TypeInv, ClientsInv, NEW c \in Addrs, NEW fd \in Fds,
           \/ client[c] = Null /\ socket[fd] = Null /\ fd # LoopSize
           \/ client[c] # Null /\ client[c].fd = fd,
           client'[c] # Null, client'[c].fd = fd, Attended(c)',
           \A x \in Addrs \ {c} :
             /\ client'[x] = Null <=> client[x] = Null
             /\ client[x] # Null =>
                  /\ client'[x].fd = client[x].fd
                  /\ client'[x].responses = client[x].responses
                  /\ client'[x].sentlen = client[x].sentlen,
           \A g \in Fds \ {fd} :
             /\ events'[g] = events[g] /\ got'[g] = got[g]
             /\ socket'[g] = Null <=> socket[g] = Null,
           current' = current \/ current = Null \/ current.fd = fd
    PROVE  ClientsInv'
<1>0. fd # LoopSize /\ socket'[fd] # Null
  <2>1. client[c] # Null => socket[client[c].fd] # Null
    BY Known DEF Attended
  <2>2. socket[LoopSize] = Null
    BY DEF ClientsInv
  <2> QED  BY <2>1, <2>2 DEF Attended
<1>1. ASSUME NEW x \in Addrs, client'[x] # Null, x # c
      PROVE  Attended(x)'
  <2>1. client[x] # Null /\ Attended(x) /\ client[x].fd \in Fds
    BY <1>1, Known
  <2>2. socket[client[x].fd] # Null
    BY <2>1 DEF Attended
  <2>3. client[x].fd # fd
    BY <1>1, <2>1, <2>2, Known
  <2>4. /\ events'[client[x].fd] = events[client[x].fd]
        /\ got'[client[x].fd] = got[client[x].fd]
        /\ socket'[client[x].fd] # Null
    BY <2>1, <2>2, <2>3
  <2>5. /\ client'[x].fd = client[x].fd
        /\ client'[x].responses = client[x].responses
        /\ client'[x].sentlen = client[x].sentlen
    BY <1>1, <2>1
  <2>6. current' = current \/ current = Null \/ current.fd # client[x].fd
    BY <2>3
  <2> QED  BY <2>1, <2>4, <2>5, <2>6, AttendedSame
<1>2. socket'[LoopSize] = Null
  BY <1>0, FdFacts DEF ClientsInv
<1>3. ASSUME NEW g \in Fds, events'[g].mask # {}
      PROVE  \E x \in Addrs : client'[x] # Null /\ client'[x].fd = g
  <2>1. CASE g = fd
    BY <2>1
  <2>2. CASE g # fd
    <3>1. events[g].mask # {}
      BY <1>3, <2>2
    <3>2. PICK x \in Addrs : client[x] # Null /\ client[x].fd = g
      BY <3>1 DEF ClientsInv
    <3>3. x # c
      BY <2>2, <3>2
    <3> QED  BY <3>2, <3>3
  <2> QED  BY <2>1, <2>2
<1>4. \A g \in Fds : socket'[g] = Null => got'[g] = 0
  BY <1>0 DEF ClientsInv
<1>5. \A x \in Addrs : client'[x] # Null => Attended(x)'
  BY <1>1
<1> QED
  BY <1>2, <1>3, <1>4, <1>5 DEF ClientsInv

LEMMA AcceptStep ==
    ASSUME Inv, Accept
    PROVE  Inv'
<1>0. PICK fd \in Fds : \E c :
        /\ socket[fd] = Null
        /\ fd < LoopSize => c \in Addrs /\ client[c] = Null
        /\ \/ fd < LoopSize /\ create_client(c, fd)
           \/ UNCHANGED <<client, events, socket>>
  <2> DEFINE f == CHOOSE x \in Fds \ Open : \A g \in Fds \ Open : x <= g
             a == CHOOSE x \in Addrs : x \notin clients
  <2>1. /\ f \in Fds /\ socket[f] = Null
        /\ f < LoopSize => a \in Addrs /\ client[a] = Null
    BY FreeFd DEF Inv
  <2>2. \/ f < LoopSize /\ create_client(a, f)
        \/ UNCHANGED <<client, events, socket>>
    BY DEF Accept
  <2> HIDE DEF f, a
  <2> QED  BY <2>1, <2>2
<1>1. PICK c : /\ socket[fd] = Null
               /\ fd < LoopSize => c \in Addrs /\ client[c] = Null
               /\ \/ fd < LoopSize /\ create_client(c, fd)
                  \/ UNCHANGED <<client, events, socket>>
  BY <1>0
<1>2. /\ polled /\ current = Null /\ current' = Null /\ polled' = polled
      /\ got' = got
      /\ \E e \in fired : fired' = fired \ {e}
      /\ closed' \subseteq closed
  BY DEF Accept, NobodyFreed
<1>3. closed' = {}
  BY <1>2 DEF Inv, LoopInv
<1>4. LoopInv' /\ fired' \subseteq FiredEvent
  BY <1>2, <1>3 DEF Inv, LoopInv, TypeInv
<1>5. CASE UNCHANGED <<client, events, socket>>
  <2>1. ClientsInv'
    BY <1>2, <1>5, SameClients DEF Inv
  <2> QED  BY <1>2, <1>4, <1>5, <2>1 DEF Inv, TypeInv
<1>6. CASE fd < LoopSize /\ create_client(c, fd)
  <2> DEFINE r == [fd |-> fd, idle |-> 0, responses |-> <<>>, sentlen |-> 0]
             ev == [mask |-> events[fd].mask \cup {READABLE}, data |-> c]
             s == [input |-> "none", room |-> TRUE]
  <2>1. /\ client' = [client EXCEPT ![c] = r]
        /\ events' = [events EXCEPT ![fd] = ev]
        /\ socket' = [socket EXCEPT ![fd] = s]
    BY <1>6 DEF create_client, create_file_event
  <2>2. c \in Addrs /\ client[c] = Null
    BY <1>1, <1>6
  <2>3. events[fd].mask = {}
    <3>1. ASSUME events[fd].mask # {}
          PROVE  FALSE
      <4>1. PICK d \in Addrs : client[d] # Null /\ client[d].fd = fd
        BY <1>1, <3>1 DEF Inv, ClientsInv
      <4> QED  BY <1>1, <4>1 DEF Inv, ClientsInv, Attended
    <3> QED  BY <3>1
  <2>4. r \in EagleClient /\ ev \in FileEvent /\ s \in Connection
    BY <1>1, <2>2, <2>3 DEF EagleClient, FileEvent, Connection
  <2>5. /\ client \in [Addrs -> EagleClient \cup {Null}]
        /\ events \in [Fds -> FileEvent]
        /\ socket \in [Fds -> Connection \cup {Null}]
        /\ got \in [Fds -> Nat]
    BY DEF Inv, TypeInv
  <2>6. /\ r.fd = fd /\ r.responses = <<>> /\ r.sentlen = 0
        /\ ev.data = c /\ ev.mask = {READABLE}
        /\ r # Null /\ s # Null
    BY <2>3, <2>4, NullFacts
  <2> HIDE DEF r, ev, s
  <2>7. /\ client' \in [Addrs -> EagleClient \cup {Null}]
        /\ events' \in [Fds -> FileEvent]
        /\ socket' \in [Fds -> Connection \cup {Null}]
        /\ client'[c] = r /\ events'[fd] = ev /\ socket'[fd] = s
        /\ \A x \in Addrs \ {c} : client'[x] = client[x]
        /\ \A g \in Fds \ {fd} :
             events'[g] = events[g] /\ socket'[g] = socket[g]
    BY <1>1, <2>1, <2>2, <2>4, <2>5
  <2>8. got'[fd] = 0
    BY <1>1, <1>2 DEF Inv, ClientsInv
  <2>9. WRITABLE \notin {READABLE}
    BY DEF READABLE, WRITABLE
  <2>10. Attended(c)'
    <3>1. /\ client'[c].fd = fd /\ client'[c].responses = <<>>
          /\ client'[c].sentlen = 0 /\ socket'[fd] # Null
          /\ events'[fd].data = c /\ events'[fd].mask = {READABLE}
      BY <2>6, <2>7
    <3> QED  BY <2>8, <2>9, <3>1 DEF Attended
  <2>11. fd # LoopSize
    BY <1>1, <1>6, FdFacts
  <2>12. ClientsInv'
    <3>1. client'[c] # Null /\ client'[c].fd = fd
      BY <2>6, <2>7
    <3>2. \A x \in Addrs \ {c} :
             /\ client'[x] = Null <=> client[x] = Null
             /\ client[x] # Null =>
                  /\ client'[x].fd = client[x].fd
                  /\ client'[x].responses = client[x].responses
                  /\ client'[x].sentlen = client[x].sentlen
      BY <2>7
    <3>3. \A g \in Fds \ {fd} :
             /\ events'[g] = events[g] /\ got'[g] = got[g]
             /\ socket'[g] = Null <=> socket[g] = Null
      BY <1>2, <2>7
    <3> QED
      BY <1>1, <1>2, <2>2, <2>10, <2>11, <3>1, <3>2, <3>3, OneClient DEF Inv
  <2> QED  BY <1>2, <1>4, <2>5, <2>7, <2>12 DEF Inv, TypeInv
<1> QED
  BY <1>1, <1>5, <1>6

(* A client record r after one of its fields was changed.                  *)
LEMMA ClientUpdates ==
    ASSUME NEW r \in EagleClient
    PROVE  /\ \A i \in Nat :
                LET u == [r EXCEPT !.idle = i]
                IN  /\ u \in EagleClient /\ u.fd = r.fd
                    /\ u.responses = r.responses /\ u.sentlen = r.sentlen
           /\ \A s \in Seq(Sizes) :
                LET u == [r EXCEPT !.responses = s]
                IN  /\ u \in EagleClient /\ u.fd = r.fd
                    /\ u.responses = s /\ u.sentlen = r.sentlen
           /\ \A n \in Nat :
                LET u == [r EXCEPT !.sentlen = n]
                IN  /\ u \in EagleClient /\ u.fd = r.fd
                    /\ u.responses = r.responses /\ u.sentlen = n
           /\ r.responses \in Seq(Sizes)
BY DEF EagleClient

LEMMA AppendHead ==
    ASSUME NEW S, NEW s \in Seq(S), NEW x \in S
    PROVE  /\ Append(s, x) \in Seq(S) /\ Append(s, x) # <<>>
           /\ s # <<>> => Head(Append(s, x)) = Head(s)
<1>1. Append(s, x) \in Seq(S) /\ Append(s, x) # <<>>
  <2>1. Append(s, x) \in Seq(S) /\ Elems(Append(s, x)) = Elems(s) \cup {x}
    BY AppendFacts
  <2>2. Elems(Append(s, x)) # {}
    BY <2>1
  <2> QED  BY <2>1, <2>2, SeqFacts
<1>2. ASSUME s # <<>>
      PROVE  Head(Append(s, x)) = Head(s)
  <2>1. 1 \in 1 .. Len(s) /\ Append(s, x)[1] = s[1]
    BY <1>2
  <2>2. Head(Append(s, x)) = Append(s, x)[1]
    BY <1>1
  <2> QED  BY <1>2, <2>1, <2>2
<1> QED
  BY <1>1, <1>2

LEMMA ReadRequestStep ==
    ASSUME Inv, NEW e, ReadRequest(e)
    PROVE  Inv'
<1>1. /\ Take(e) /\ NobodyFreed(fired', current')
      /\ events[e.fd].mask # {}
      /\ socket[e.fd].input = "request"
      /\ socket' = [socket EXCEPT ![e.fd] =
                       [socket[e.fd] EXCEPT !.input = "none"]]
      /\ got' = got
  BY DEF ReadRequest
<1>2. /\ e.fd \in Fds /\ closed = {} /\ current = Null
      /\ fired' \subseteq FiredEvent
      /\ current' \in FiredEvent \cup {Null}
      /\ ~ polled' => fired' = {} /\ current' = Null
      /\ \A f, g \in fired' : f.fd = g.fd => f = g
      /\ current' # Null => current' = e /\ current'.fd \in Fds
      /\ \A f \in fired' : f.fd # e.fd
  BY <1>1, TakeFacts DEF Inv
<1>3. PICK c \in Addrs :
        events[e.fd].data = c /\ client[c] # Null /\ client[c].fd = e.fd
  BY <1>1, <1>2, HandlerData DEF Inv
<1>4. closed' = {}
  BY <1>1, <1>2 DEF NobodyFreed
<1>5. LoopInv'
  BY <1>2, <1>4 DEF LoopInv
<1>6. /\ socket' \in [Fds -> Connection \cup {Null}]
      /\ \A g \in Fds : socket'[g] = Null <=> socket[g] = Null
  <2>1. socket[e.fd] \in Connection
    BY <1>3, Known DEF Inv
  <2>2. [socket[e.fd] EXCEPT !.input = "none"] \in Connection
    BY <2>1, SocketFacts
  <2> QED  BY <1>1, <1>2, <2>1, <2>2, NullFacts DEF Inv, TypeInv
<1> DEFINE active == [client EXCEPT ![c].idle = 0]
<1>7. /\ active \in [Addrs -> EagleClient \cup {Null}]
      /\ \A x \in Addrs :
           /\ active[x] = Null <=> client[x] = Null
           /\ client[x] # Null =>
                /\ active[x] \in EagleClient
                /\ active[x].fd = client[x].fd
                /\ active[x].responses = client[x].responses
                /\ active[x].sentlen = client[x].sentlen
  <2> DEFINE u == [client[c] EXCEPT !.idle = 0]
  <2>1. client[c] \in EagleClient
    BY <1>3 DEF Inv, TypeInv
  <2>2. /\ u \in EagleClient /\ u.fd = client[c].fd
        /\ u.responses = client[c].responses /\ u.sentlen = client[c].sentlen
    BY <2>1, ClientUpdates
  <2>3. client \in [Addrs -> EagleClient \cup {Null}]
    BY DEF Inv, TypeInv
  <2>4. active = [client EXCEPT ![c] = u]
    BY <2>3
  <2> HIDE DEF u, active
  <2> QED  BY <1>3, <2>2, <2>3, <2>4, NullFacts
<1>8. \/ \E d \in clients, size \in Sizes : add_response(active, d, size)
      \/ client' = active /\ UNCHANGED events
  BY <1>3 DEF ReadRequest
<1> HIDE DEF active
<1>9. CASE client' = active /\ UNCHANGED events
  <2>1. ClientsInv'
    BY <1>1, <1>2, <1>6, <1>7, <1>9, SameClients DEF Inv
  <2> QED  BY <1>1, <1>2, <1>5, <1>6, <1>7, <1>9, <2>1 DEF Inv, TypeInv
<1>10. ASSUME NEW d \in clients, NEW size \in Sizes,
              add_response(active, d, size)
       PROVE  Inv'
  <2> DEFINE old == client[d].responses
             new == Append(old, size)
             u == [active[d] EXCEPT !.responses = new]
             fd == client[d].fd
             ev == [mask |-> events[fd].mask \cup {WRITABLE}, data |-> d]
  <2>1. d \in Addrs /\ client[d] # Null
    BY DEF clients
  <2>2. /\ Attended(d) /\ fd \in Fds /\ events[fd] \in FileEvent
        /\ active[d] \in EagleClient /\ active[d].fd = fd
        /\ active[d].responses = old
        /\ active[d].sentlen = client[d].sentlen
        /\ client[d] \in EagleClient
    BY <1>7, <2>1, Known DEF Inv
  <2>3. /\ old \in Seq(Sizes) /\ new \in Seq(Sizes) /\ new # <<>>
        /\ old # <<>> => Head(new) = Head(old)
    <3>1. old \in Seq(Sizes)
      BY <2>2, ClientUpdates
    <3> HIDE DEF old
    <3> QED  BY <3>1, AppendHead
  <2>4. /\ client' = [active EXCEPT ![d] = u]
        /\ events' = [events EXCEPT ![fd] = ev]
    BY <1>7, <1>10, <2>1, <2>2 DEF add_response, create_file_event
  <2>5. /\ u \in EagleClient /\ u.fd = fd /\ u.responses = new
        /\ u.sentlen = client[d].sentlen
    <3> HIDE DEF new, fd
    <3> QED  BY <2>2, <2>3, ClientUpdates
  <2>6. /\ ev \in FileEvent /\ ev.data = d
        /\ ev.mask = events[fd].mask \cup {WRITABLE}
    <3>1. events[fd].mask \cup {WRITABLE} \in SUBSET {READABLE, WRITABLE}
      BY <2>2, EventFacts
    <3> QED  BY <2>1, <2>2, <3>1, EventFacts
  <2>e. events \in [Fds -> FileEvent]
    BY DEF Inv, TypeInv
  <2>i. /\ client[d].fd = fd /\ client[d].responses = old
    OBVIOUS
  <2> HIDE DEF u, ev, new, old, fd
  <2>7. /\ client' \in [Addrs -> EagleClient \cup {Null}]
        /\ client'[d] = u
        /\ \A x \in Addrs \ {d} : client'[x] = active[x]
    BY <1>7, <2>1, <2>4, <2>5
  <2>8. /\ events' \in [Fds -> FileEvent]
        /\ events'[fd] = ev
        /\ \A g \in Fds \ {fd} : events'[g] = events[g]
    BY <2>2, <2>4, <2>6, <2>e
  <2>9. PICK f \in Fds : f = fd
    BY <2>2
  <2>10. Attended(d)'
    <3>1. /\ client'[d].fd = f /\ client'[d].responses = new
          /\ client'[d].sentlen = client[d].sentlen
          /\ events'[f].data = d
          /\ READABLE \in events'[f].mask /\ WRITABLE \in events'[f].mask
          /\ got'[f] = client[d].sentlen /\ socket'[f] # Null
      BY <1>1, <1>6, <2>2, <2>5, <2>6, <2>7, <2>8, <2>9, <2>i DEF Attended
    <3>2. client[d].sentlen # 0 => client[d].sentlen < Head(new)
      BY <2>2, <2>3, <2>i DEF Attended
    <3> QED  BY <2>3, <3>1, <3>2 DEF Attended
  <2>11. ClientsInv'
    <3>1. client'[d] # Null /\ client'[d].fd = f /\ client[d].fd = f
      BY <2>5, <2>7, <2>9, <2>i, NullFacts
    <3>2. \A x \in Addrs \ {d} :
             /\ client'[x] = Null <=> client[x] = Null
             /\ client[x] # Null =>
                  /\ client'[x].fd = client[x].fd
                  /\ client'[x].responses = client[x].responses
                  /\ client'[x].sentlen = client[x].sentlen
      BY <1>7, <2>7
    <3>3. \A g \in Fds \ {f} :
             /\ events'[g] = events[g] /\ got'[g] = got[g]
             /\ socket'[g] = Null <=> socket[g] = Null
      BY <1>1, <1>6, <2>8, <2>9
    <3> QED
      BY <1>2, <2>1, <2>10, <3>1, <3>2, <3>3, OneClient DEF Inv
  <2> QED  BY <1>1, <1>2, <1>5, <1>6, <2>7, <2>8, <2>11 DEF Inv, TypeInv
<1> QED
  BY <1>8, <1>9, <1>10

(* A turn of send_response: the client c becomes u, nothing else changes   *)
(* but what concerns its connection.                                       *)
LEMMA SentStep ==
    ASSUME Inv, NEW c, Sending(c), NEW u \in EagleClient,
           client' = [client EXCEPT ![c] = u],
           u.fd = client[c].fd,
           events' \in [Fds -> FileEvent],
           socket' \in [Fds -> Connection \cup {Null}],
           got' \in [Fds -> Nat],
           \A g \in Fds : socket'[g] = Null <=> socket[g] = Null,
           \A g \in Fds \ {current.fd} :
             events'[g] = events[g] /\ got'[g] = got[g],
           current' = current \/ current' = Null,
           LoopInv',
           /\ events'[u.fd].data = c /\ READABLE \in events'[u.fd].mask
           /\ u.responses # <<>> => WRITABLE \in events'[u.fd].mask
           /\ WRITABLE \in events'[u.fd].mask /\ u.responses = <<>>
                => current' = current
           /\ u.sentlen = got'[u.fd]
           /\ u.sentlen # 0 =>
                u.responses # <<>> /\ u.sentlen < Head(u.responses)
    PROVE  Inv'
<1>1. /\ current # Null /\ current.fd \in Fds
      /\ c \in Addrs /\ client[c] # Null /\ client[c].fd = current.fd
      /\ fired' = fired /\ polled' = polled
  BY SendingFacts
<1>2. PICK fd \in Fds : fd = current.fd
  BY <1>1
<1>3. /\ client' \in [Addrs -> EagleClient \cup {Null}]
      /\ client'[c] = u
      /\ \A x \in Addrs \ {c} : client'[x] = client[x]
  BY <1>1 DEF Inv, TypeInv
<1>4. socket'[fd] # Null
  <2>1. socket[fd] # Null
    BY <1>1, <1>2, Known DEF Inv, Attended
  <2> QED  BY <2>1
<1>5. Attended(c)'
  BY <1>1, <1>2, <1>3, <1>4 DEF Attended
<1>6. ClientsInv'
  <2>1. client'[c] # Null /\ client'[c].fd = fd /\ client[c].fd = fd
    BY <1>1, <1>2, <1>3, NullFacts
  <2>2. \A g \in Fds \ {fd} :
           /\ events'[g] = events[g] /\ got'[g] = got[g]
           /\ socket'[g] = Null <=> socket[g] = Null
    BY <1>2
  <2>3. current.fd = fd
    BY <1>2
  <2>4. \A x \in Addrs \ {c} :
           /\ client'[x] = Null <=> client[x] = Null
           /\ client[x] # Null =>
                /\ client'[x].fd = client[x].fd
                /\ client'[x].responses = client[x].responses
                /\ client'[x].sentlen = client[x].sentlen
    BY <1>3
  <2> QED  BY <1>1, <1>5, <2>1, <2>2, <2>3, <2>4, OneClient DEF Inv
<1> QED
  BY <1>1, <1>3, <1>6 DEF Inv, TypeInv

(* What there is to send, before a turn of send_response.                  *)
LEMMA SendingClient ==
    ASSUME Inv, NEW c, Sending(c)
    PROVE  /\ client[c] \in EagleClient /\ client[c].fd = current.fd
           /\ current.fd \in Fds /\ events[current.fd] \in FileEvent
           /\ events[current.fd].data = c
           /\ READABLE \in events[current.fd].mask
           /\ WRITABLE \in events[current.fd].mask
           /\ client[c].sentlen \in Nat
           /\ client[c].responses \in Seq(Sizes)
           /\ client[c].sentlen = got[current.fd]
           /\ client[c].sentlen # 0 => /\ client[c].responses # <<>>
                                       /\ client[c].sentlen <
                                            Head(client[c].responses)
           /\ socket[current.fd] \in Connection
<1>1. /\ current.fd \in Fds /\ c \in Addrs /\ client[c] # Null
      /\ client[c].fd = current.fd
  BY SendingFacts
<1>2. /\ client[c] \in EagleClient /\ client[c].sentlen \in Nat
      /\ Attended(c) /\ events[client[c].fd] \in FileEvent
      /\ socket[client[c].fd] \in Connection
  BY <1>1, Known DEF Inv
<1>3. client[c].responses \in Seq(Sizes)
  BY <1>2, ClientUpdates
<1> QED
  BY <1>1, <1>2, <1>3 DEF Sending, Attended

LEMMA SendEmptyStep ==
    ASSUME Inv, NEW c, SendEmpty(c)
    PROVE  Inv'
<1> DEFINE u == [client[c] EXCEPT !.responses = Tail(client[c].responses)]
<1>1. /\ Sending(c)
      /\ client[c].responses # <<>> /\ Head(client[c].responses) = 0
      /\ client' = [client EXCEPT ![c] = u]
      /\ UNCHANGED <<current, events, socket, closed, got>>
  BY DEF SendEmpty, hist_vars
<1>2. /\ client[c] \in EagleClient /\ client[c].fd = current.fd
      /\ events[current.fd].data = c
      /\ READABLE \in events[current.fd].mask
      /\ WRITABLE \in events[current.fd].mask
      /\ client[c].sentlen \in Nat
      /\ client[c].responses \in Seq(Sizes)
      /\ client[c].sentlen = got[current.fd]
      /\ client[c].sentlen # 0 =>
           client[c].sentlen < Head(client[c].responses)
  BY <1>1, SendingClient
<1>3. Tail(client[c].responses) \in Seq(Sizes)
  BY <1>1, <1>2
<1>4. /\ u \in EagleClient /\ u.fd = client[c].fd
      /\ u.sentlen = client[c].sentlen
  BY <1>2, <1>3, ClientUpdates
<1>5. client[c].sentlen = 0
  BY <1>1, <1>2
<1>6. LoopInv'
  BY <1>1, QuietLoop DEF Inv, Sending
<1>7. /\ events' \in [Fds -> FileEvent]
      /\ socket' \in [Fds -> Connection \cup {Null}]
      /\ got' \in [Fds -> Nat]
  BY <1>1 DEF Inv, TypeInv
<1> HIDE DEF u
<1>8. /\ events'[u.fd].data = c /\ READABLE \in events'[u.fd].mask
      /\ WRITABLE \in events'[u.fd].mask
      /\ u.sentlen = got'[u.fd] /\ u.sentlen = 0
  BY <1>1, <1>2, <1>4, <1>5
<1> QED
  BY <1>1, <1>4, <1>6, <1>7, <1>8, SentStep

LEMMA SendDoneStep ==
    ASSUME Inv, NEW c, SendDone(c)
    PROVE  Inv'
<1> DEFINE u == [client[c] EXCEPT !.sentlen = 0]
           fd == current.fd
           ev == [events[fd] EXCEPT !.mask = events[fd].mask \ {WRITABLE}]
<1>1. /\ Sending(c) /\ client[c].responses = <<>>
      /\ client' = [client EXCEPT ![c] = u]
      /\ events' = [events EXCEPT ![fd] = ev]
      /\ current' = Null
      /\ closed' \subseteq closed \cap Pending(fired, Null)
      /\ socket' = socket /\ got' = got
  BY DEF SendDone, NobodyFreed
<1>2. /\ client[c] \in EagleClient /\ client[c].fd = fd
      /\ fd \in Fds /\ events[fd] \in FileEvent
      /\ events[fd].data = c
      /\ READABLE \in events[fd].mask
      /\ client[c].sentlen = got[fd]
      /\ client[c].sentlen # 0 => client[c].responses # <<>>
  BY <1>1, SendingClient
<1>3. /\ u \in EagleClient /\ u.fd = client[c].fd
      /\ u.responses = <<>> /\ u.sentlen = 0
  BY <1>1, <1>2, ClientUpdates
<1>4. /\ ev \in FileEvent /\ ev.mask = events[fd].mask \ {WRITABLE}
      /\ ev.data = events[fd].data
  <2>1. events[fd].mask \ {WRITABLE} \in SUBSET {READABLE, WRITABLE}
    BY <1>2, EventFacts
  <2> QED  BY <1>2, <2>1, EventFacts
<1>5. LoopInv'
  BY <1>1, SendingFacts, EndFacts DEF Inv
<1>6. /\ socket' \in [Fds -> Connection \cup {Null}]
      /\ got' \in [Fds -> Nat] /\ events \in [Fds -> FileEvent]
  BY <1>1 DEF Inv, TypeInv
<1> HIDE DEF u, ev
<1>7. /\ events' \in [Fds -> FileEvent] /\ events'[fd] = ev
      /\ \A g \in Fds \ {fd} : events'[g] = events[g]
  BY <1>1, <1>2, <1>4, <1>6
<1>8. READABLE # WRITABLE
  BY DEF READABLE, WRITABLE
<1>9. /\ events'[u.fd].data = c /\ READABLE \in events'[u.fd].mask
      /\ WRITABLE \notin events'[u.fd].mask
      /\ u.sentlen = got'[u.fd]
  BY <1>1, <1>2, <1>3, <1>4, <1>7, <1>8
<1> QED
  BY <1>1, <1>3, <1>5, <1>6, <1>7, <1>9, SentStep

(* What a write leaves.                                                    *)
LEMMA WrittenFacts ==
    ASSUME NEW r \in EagleClient, r.responses # <<>>,
           NEW n \in 1 .. Head(r.responses),
           n <= Head(r.responses) - r.sentlen
    PROVE  LET u == Written(r, n)
           IN  /\ u \in EagleClient /\ u.fd = r.fd
               /\ u.sentlen = IF r.sentlen + n >= Head(r.responses)
                              THEN 0 ELSE r.sentlen + n
               /\ u.sentlen # 0 =>
                    u.responses # <<>> /\ u.sentlen < Head(u.responses)
<1> DEFINE u == Written(r, n)
           t == Tail(r.responses)
           m == r.sentlen + n
<1>1. /\ r.sentlen \in Nat /\ r.responses \in Seq(Sizes)
      /\ r.responses \in Seq(Nat)
  BY ClientFacts, ClientUpdates
<1>2. t \in Seq(Sizes) /\ Head(r.responses) \in Nat
  BY <1>1
<1>3. /\ m \in Nat /\ 0 \in Nat /\ m <= Head(r.responses) /\ m # 0
  BY <1>1, <1>2
<1>4. u = IF m = Head(r.responses)
          THEN [r EXCEPT !.idle = 0, !.responses = t, !.sentlen = 0]
          ELSE [r EXCEPT !.idle = 0, !.sentlen = m]
  BY DEF Written, EagleClient
<1> HIDE DEF u, t, m
<1>5. CASE m = Head(r.responses)
  <2> DEFINE v == [r EXCEPT !.idle = 0, !.responses = t, !.sentlen = 0]
  <2>1. v \in EagleClient /\ v.fd = r.fd /\ v.sentlen = 0
    BY <1>2 DEF EagleClient
  <2>2. u = v
    BY <1>4, <1>5
  <2>3. /\ u \in EagleClient /\ u.fd = r.fd /\ u.sentlen = 0
    BY <2>1, <2>2
  <2>4. m >= Head(r.responses)
    BY <1>2, <1>5
  <2> QED  BY <2>3, <2>4 DEF u, m
<1>6. CASE m # Head(r.responses)
  <2>1. /\ u \in EagleClient /\ u.fd = r.fd
        /\ u.responses = r.responses /\ u.sentlen = m
    BY <1>3, <1>4, <1>6 DEF EagleClient
  <2>2. /\ m < Head(r.responses) /\ ~(m >= Head(r.responses))
    BY <1>2, <1>3, <1>6
  <2> QED  BY <2>1, <2>2 DEF u, m
<1> QED
  BY <1>5, <1>6

LEMMA SendBytesStep ==
    ASSUME Inv, NEW c, NEW n \in 1 .. Head(client[c].responses),
           SendBytes(c, n)
    PROVE  Inv'
<1> DEFINE u == Written(client[c], n)
           fd == current.fd
           sent == IF got[fd] + n >= Head(client[c].responses)
                   THEN 0 ELSE got[fd] + n
<1>1. /\ Sending(c) /\ client[c].responses # <<>>
      /\ n <= Head(client[c].responses) - client[c].sentlen
      /\ client' = [client EXCEPT ![c] = u]
      /\ got' = [got EXCEPT ![fd] = sent]
      /\ UNCHANGED <<current, events, closed>>
  BY DEF SendBytes
<1>2. PICK room \in BOOLEAN :
        socket' = [socket EXCEPT ![fd] = [socket[fd] EXCEPT !.room = room]]
  BY DEF SendBytes
<1>3. /\ client[c] \in EagleClient /\ client[c].fd = fd
      /\ fd \in Fds
      /\ events[fd].data = c
      /\ READABLE \in events[fd].mask
      /\ WRITABLE \in events[fd].mask
      /\ client[c].sentlen = got[fd]
      /\ socket[fd] \in Connection
  BY <1>1, SendingClient
<1>4. /\ u \in EagleClient /\ u.fd = fd
      /\ u.sentlen = sent
      /\ u.sentlen # 0 => u.responses # <<>> /\ u.sentlen < Head(u.responses)
  BY <1>1, <1>3, WrittenFacts
<1>5. sent \in Nat
  BY <1>4, ClientFacts
<1>6. LoopInv'
  BY <1>1, QuietLoop DEF Inv, Sending
<1>7. /\ socket' \in [Fds -> Connection \cup {Null}]
      /\ \A g \in Fds : socket'[g] = Null <=> socket[g] = Null
  <2>1. [socket[fd] EXCEPT !.room = room] \in Connection
    BY <1>3, SocketFacts
  <2> QED  BY <1>2, <1>3, <2>1, NullFacts DEF Inv, TypeInv
<1> HIDE DEF u, sent
<1>8. /\ got' \in [Fds -> Nat] /\ got'[fd] = sent
      /\ \A g \in Fds \ {fd} : got'[g] = got[g]
      /\ events' \in [Fds -> FileEvent]
  BY <1>1, <1>3, <1>5 DEF Inv, TypeInv
<1>9. /\ events'[u.fd].data = c /\ READABLE \in events'[u.fd].mask
      /\ WRITABLE \in events'[u.fd].mask
      /\ u.sentlen = got'[u.fd]
  BY <1>1, <1>3, <1>4, <1>8
<1>10. u.fd = client[c].fd /\ \A g \in Fds : events'[g] = events[g]
  BY <1>1, <1>3, <1>4
<1> QED
  BY <1>1, <1>4, <1>6, <1>7, <1>8, <1>9, <1>10, SentStep

-----------------------------------------------------------------------------
LEMMA InvStep ==
    ASSUME Inv, [Next]_vars
    PROVE  Inv'
<1>1. CASE UNCHANGED vars
  <2>1. UNCHANGED <<client, events, fired, current, polled, socket, closed,
                    got>>
    BY <1>1 DEF vars, loop_vars, hist_vars
  <2>2. ClientsInv'
    BY <2>1, SameClients DEF Inv
  <2>3. LoopInv' /\ TypeInv'
    BY <2>1 DEF Inv, LoopInv, TypeInv
  <2> QED  BY <2>2, <2>3 DEF Inv
<1>2. CASE Write
  <2>1. PICK c \in clients :
          \/ SendEmpty(c)
          \/ \E n \in 1 .. (IF client[c].responses = <<>> THEN 0
                            ELSE Head(client[c].responses)) : SendBytes(c, n)
          \/ SendAgain(c) \/ SendFails(c) \/ SendDone(c)
    BY <1>2 DEF Write
  <2>2. ASSUME NEW n \in 1 .. (IF client[c].responses = <<>> THEN 0
                               ELSE Head(client[c].responses)),
               SendBytes(c, n)
        PROVE  Inv'
    <3>1. n \in 1 .. Head(client[c].responses)
      BY <2>2 DEF SendBytes
    <3> QED  BY <2>2, <3>1, SendBytesStep
  <2> QED
    BY <2>1, <2>2, SendEmptyStep, SendAgainStep, SendFailsStep, SendDoneStep
<1>3. CASE Server
  BY <1>2, <1>3, PollStep, AcceptStep, NotReadableStep, ReadEndStep,
     ReadRequestStep, NotWritableStep, UpdaterStep DEF Server
<1>4. CASE Network
  BY <1>4, ArrivesStep, ReceivesStep DEF Network
<1> QED
  BY <1>1, <1>3, <1>4, ClockStep DEF Next

LEMMA Invariant == Spec => []Inv
<1>1. ASSUME Init PROVE Inv
  <2>1. TypeInv
    BY <1>1 DEF Init, TypeInv, FileEvent
  <2>2. LoopInv
    BY <1>1 DEF Init, LoopInv
  <2>3. ClientsInv
    BY <1>1, FdFacts DEF Init, ClientsInv
  <2> QED  BY <2>1, <2>2, <2>3 DEF Inv
<1> QED
  BY <1>1, InvStep, PTL DEF Spec

(* The event loop and the clients agree about who is listened to, who is   *)
(* written to, and whose handlers are called for a descriptor.             *)
THEOREM ArmedCorrect == Spec => []Armed
<1>1. ASSUME Inv PROVE Armed
  <2>1. ASSUME NEW c \in clients
        PROVE  LET e == events[client[c].fd] IN
               /\ client[c].fd \in Open
               /\ e.data = c /\ READABLE \in e.mask
               /\ client[c].responses # <<>> => WRITABLE \in e.mask
               /\ WRITABLE \in e.mask /\ current = Null
                    => client[c].responses # <<>>
    <3>1. c \in Addrs /\ client[c] # Null
      BY DEF clients
    <3>2. Attended(c) /\ client[c].fd \in Fds
      BY <1>1, <3>1, Known DEF Inv
    <3> QED  BY <3>2 DEF Attended, Open
  <2>2. \A fd \in Fds : events[fd].mask # {} =>
          \E c \in clients : client[c].fd = fd
    BY <1>1 DEF Inv, ClientsInv, clients
  <2> QED  BY <2>1, <2>2 DEF Armed
<1> QED
  BY <1>1, Invariant, PTL

(* No event of a closed connection is taken for one of the connection that *)
(* has got its descriptor.                                                 *)
THEOREM RightConnectionCorrect == Spec => []RightConnection
<1>1. ASSUME Inv PROVE RightConnection
  BY <1>1 DEF Inv, LoopInv, RightConnection
<1> QED
  BY <1>1, Invariant, PTL

(* A client receives whole responses, one after the other.                 *)
THEOREM NextByteCorrect == Spec => []NextByte
<1>1. ASSUME Inv PROVE NextByte
  BY <1>1, Known DEF Inv, NextByte, clients, Attended
<1> QED
  BY <1>1, Invariant, PTL
=============================================================================
