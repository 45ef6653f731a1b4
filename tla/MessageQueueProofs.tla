------------------------- MODULE MessageQueueProofs -------------------------
(***************************************************************************)
(* Proofs about MessageQueue, for every value of its constants.            *)
(***************************************************************************)
EXTENDS MessageQueue, ListProofs

(* A uint32_t holds what is left of the time. *)
LEMMA U32Range ==
    ASSUME NEW t \in Nat
    PROVE  U32(t) \in 0 .. Modulus - 1
BY QueueAssumption DEF U32

(* What CreateMessage leaves behind. *)
Created(expire) ==
    /\ sent \in Nat /\ sent' = sent + 1 /\ sent' \in 0 .. MaxPushes
    /\ sent' \in Messages /\ sent' \in 1 .. sent'
    /\ 1 .. sent \subseteq 1 .. sent' /\ sent' \notin 1 .. sent
    /\ 1 .. sent' \subseteq Messages
    /\ msg_counter' \in Nat
    /\ message' \in [Messages -> Message]
    /\ lifetime' \in [Messages -> Nat]
    /\ \A m \in 1 .. sent : message'[m] = message[m]
                            /\ lifetime'[m] = lifetime[m]
    /\ message'[sent'].expiration =
         IF expire = 0 THEN 0 ELSE U32(expire + now_timems)
    /\ lifetime'[sent'] = IF expire = 0 THEN 0 ELSE expire + now_timems

(* A push that gets as far as create_message changes the fields of the new *)
(* message and of no other.                                                *)
LEMMA CreateMessageFacts ==
    ASSUME TypeOK, NEW expire \in Expirations, CreateMessage(sent + 1, expire)
    PROVE  Created(expire)
<1>1. sent \in Nat /\ sent + 1 \in Messages /\ expire \in Nat
  BY QueueAssumption DEF TypeOK, CreateMessage, Messages
<1>2. /\ sent' = sent + 1 /\ sent' \in 0 .. MaxPushes /\ sent' \in Messages
      /\ 1 .. sent \subseteq 1 .. sent' /\ sent' \notin 1 .. sent
      /\ 1 .. sent' \subseteq Messages
      /\ sent' \in 1 .. sent' /\ msg_counter' \in Nat
  <2>1. sent' = sent + 1 /\ sent < MaxPushes
        /\ msg_counter' = msg_counter + 1 /\ msg_counter \in Nat
    BY DEF TypeOK, CreateMessage
  <2>2. MaxPushes \in Nat
    BY QueueAssumption
  <2>3. msg_counter' \in Nat /\ sent' \in 0 .. MaxPushes
    BY <1>1, <2>1, <2>2
  <2>4. sent' \in 1 .. MaxPushes /\ sent' \in 1 .. sent' /\ sent' \notin 1 .. sent
    BY <1>1, <2>1, <2>2
  <2>5. 1 .. sent \subseteq 1 .. sent' /\ 1 .. sent' \subseteq 1 .. MaxPushes
    BY <1>1, <2>1, <2>2
  <2> QED  BY <2>1, <2>3, <2>4, <2>5 DEF Messages
<1> DEFINE x == IF expire = 0 THEN 0 ELSE U32(expire + now_timems)
           r == [tag |-> make_message_tag(msg_counter, U32(now_timems)),
                 expiration |-> x, confirm |-> 0]
           l == IF expire = 0 THEN 0 ELSE expire + now_timems
<1>3. now_timems \in Nat /\ msg_counter \in Nat
  BY DEF TypeOK
<1>4. U32(now_timems) \in 0 .. Modulus - 1
      /\ U32(expire + now_timems) \in 0 .. Modulus - 1
  BY <1>1, <1>3, U32Range
<1>5. x \in 0 .. Modulus - 1 /\ 0 \in 0 .. Modulus - 1
  BY <1>4, QueueAssumption
<1>6. make_message_tag(msg_counter, U32(now_timems))
        \in (0 .. Modulus - 1) \X Nat
  BY <1>3, <1>4 DEF make_message_tag
<1>7. r \in Message /\ l \in Nat
  BY <1>1, <1>3, <1>5, <1>6 DEF Message
<1>8. message \in [Messages -> Message] /\ lifetime \in [Messages -> Nat]
  BY DEF TypeOK
<1>9. message' = [message EXCEPT ![sent + 1] = r]
      /\ lifetime' = [lifetime EXCEPT ![sent + 1] = l]
  BY DEF CreateMessage
<1>10. r.expiration = x
  OBVIOUS
<1> HIDE DEF r, l, x
<1>11. \A m \in 1 .. sent : m \in Messages /\ m # sent + 1
  BY <1>1, <1>2
<1>12. /\ message' \in [Messages -> Message]
       /\ \A m \in 1 .. sent : message'[m] = message[m]
       /\ message'[sent + 1] = r
  BY <1>1, <1>7, <1>8, <1>9, <1>11
<1>13. /\ lifetime' \in [Messages -> Nat]
       /\ \A m \in 1 .. sent : lifetime'[m] = lifetime[m]
       /\ lifetime'[sent + 1] = l
  BY <1>1, <1>7, <1>8, <1>9, <1>11
<1> QED
  BY <1>1, <1>2, <1>10, <1>12, <1>13 DEF Created, x, l

(* A full queue has an oldest message. *)
LEMMA FullFacts ==
    ASSUME TypeOK, Full
    PROVE  queue # <<>>
BY QueueAssumption DEF TypeOK, Full

(* Every step leaves the state well-formed. *)
LEMMA TypeStep ==
    ASSUME TypeOK, [Next]_vars
    PROVE  TypeOK'
<1>t. /\ queue \in Seq(1 .. sent) /\ confirm_messages \in Seq(1 .. sent)
      /\ subscribed_clients_msg \in Seq(Clients)
      /\ alloc \subseteq 1 .. sent /\ expire_messages \subseteq 1 .. sent
      /\ accepted \subseteq 1 .. sent /\ returned \subseteq 1 .. sent
      /\ 1 .. sent \subseteq Messages /\ now_timems \in Nat
      /\ share \in [Clients -> Nat]
  BY QueueAssumption DEF TypeOK, Messages
<1>1. ASSUME NEW expire \in Expirations, NEW fits \in BOOLEAN,
             PushRefused(expire, fits)
      PROVE  TypeOK'
  <2>1. CreateMessage(sent + 1, expire) /\ alloc' = alloc \cup {sent + 1}
    BY <1>1 DEF PushRefused
  <2>2. Created(expire)
    BY <2>1, CreateMessageFacts
  <2>3. queue \in Seq(1 .. sent') /\ confirm_messages \in Seq(1 .. sent')
    BY <2>2, <1>t, SeqFacts DEF Created
  <2>4. alloc' \subseteq 1 .. sent'
    BY <2>1, <2>2, <1>t DEF Created
  <2>5. UNCHANGED <<now_timems, undefined, queue, stale_next, expire_messages,
                    confirm_messages, sub_vars, accepted, returned, deadline,
                    share>>
    BY <1>1 DEF PushRefused
  <2> QED
    BY <2>2, <2>3, <2>4, <2>5, <1>t DEF TypeOK, Created, sub_vars
<1>2. ASSUME NEW expire \in Expirations, PushDelivered(expire)
      PROVE  TypeOK'
  <2>1. CreateMessage(sent + 1, expire) /\ accepted' = accepted \cup {sent + 1}
    BY <1>2 DEF PushDelivered
  <2>2. Created(expire)
    BY <2>1, CreateMessageFacts
  <2>3. queue \in Seq(1 .. sent') /\ confirm_messages \in Seq(1 .. sent')
    BY <2>2, <1>t, SeqFacts DEF Created
  <2>4. subscribed_clients_msg' \in Seq(Clients) /\ share' \in [Clients -> Nat]
    <3>0. subscribed_clients_msg # <<>>
      BY <1>2 DEF PushDelivered
    <3>1. CASE round_robin
      <4>1. /\ subscribed_clients_msg' = Rotate(subscribed_clients_msg)
            /\ share' = [share EXCEPT ![subscribed_clients_msg'[1]] = @ + 1]
        BY <1>2, <3>1 DEF PushDelivered
      <4>2. subscribed_clients_msg' \in Seq(Clients)
        BY <4>1, <3>0, <1>t, RotateFacts
      <4>3. subscribed_clients_msg'[1] \in Clients
        BY <4>1, <3>0, <1>t, RotateFacts, AllButLastFacts, SeqFacts
      <4>4. share' \in [Clients -> Nat]
        BY <4>1, <4>3, <1>t
      <4> QED  BY <4>2, <4>4
    <3>2. CASE ~round_robin
      <4>1. /\ UNCHANGED subscribed_clients_msg
            /\ share' = [c \in Clients |->
                           IF c \in Elems(subscribed_clients_msg)
                           THEN share[c] + 1 ELSE share[c]]
        BY <1>2, <3>2 DEF PushDelivered
      <4>2. \A c \in Clients : share[c] \in Nat /\ share[c] + 1 \in Nat
        BY <1>t
      <4>3. share' \in [Clients -> Nat]
        BY <4>1, <4>2
      <4> QED  BY <4>1, <4>3, <1>t
    <3> QED  BY <3>1, <3>2
  <2>5. UNCHANGED <<now_timems, undefined, alloc, queue, stale_next,
                    expire_messages, confirm_messages,
                    subscribed_clients_notify, returned, deadline>>
    BY <1>2 DEF PushDelivered
  <2>6. accepted' \subseteq 1 .. sent'
    BY <2>1, <2>2, <1>t DEF Created
  <2> QED
    BY <2>2, <2>3, <2>4, <2>5, <2>6, <1>t DEF TypeOK, Created
<1>3. ASSUME NEW expire \in Expirations, PushStored(expire)
      PROVE  TypeOK'
  <2> DEFINE rest == IF Full THEN AllButLast(queue) ELSE queue
  <2>1. CreateMessage(sent + 1, expire)
    BY <1>3 DEF PushStored
  <2>2. Created(expire)
    BY <2>1, CreateMessageFacts
  <2>3. rest \in Seq(1 .. sent)
    BY <1>t, FullFacts, AllButLastFacts
  <2>4. queue' = <<sent'>> \o rest
    BY <1>3, <2>2 DEF PushStored, PushHead, Created
  <2>5. queue' \in Seq(1 .. sent') /\ queue' # <<>>
    <3> HIDE DEF rest
    <3>1. rest \in Seq(1 .. sent') /\ sent' \in 1 .. sent'
      BY <2>2, <2>3, SeqFacts DEF Created
    <3> QED  BY <3>1, <2>4, ConsFacts
  <2>6. alloc' \subseteq 1 .. sent' /\ accepted' \subseteq 1 .. sent'
    BY <1>3, <2>2, <1>t DEF PushStored, Created
  <2>7. expire_messages' \subseteq 1 .. sent'
    BY <1>3, <2>2, <1>t DEF PushStored, Created, PopIndex
  <2>8. stale_next' \in BOOLEAN
    BY <1>3 DEF PushStored
  <2>9. UNCHANGED <<now_timems, undefined, confirm_messages, sub_vars,
                    returned, deadline, share>>
    BY <1>3 DEF PushStored
  <2>10. confirm_messages' \in Seq(1 .. sent')
    BY <2>9, <2>2, <1>t, SeqFacts DEF Created
  <2> QED
    BY <2>2, <2>5, <2>6, <2>7, <2>8, <2>9, <2>10, <1>t
    DEF TypeOK, Created, sub_vars
<1>4. ASSUME NEW timeout \in Timeouts, Pop(timeout)
      PROVE  TypeOK'
  <2> DEFINE m == LastOf(queue)
  <2>1. queue # <<>> /\ queue' = AllButLast(queue)
        /\ stale_next' = (Len(queue) > 1)
    BY <1>4 DEF Pop, PopStale
  <2>2. queue' \in Seq(1 .. sent) /\ m \in Elems(queue)
        /\ Len(queue') = Len(queue) - 1
    BY <2>1, <1>t, AllButLastFacts
  <2>3. m \in 1 .. sent /\ m \in Messages
    BY <2>2, <1>t, SeqFacts
  <2>4. stale_next' \in BOOLEAN /\ (stale_next' => queue' # <<>>)
    <3>1. Len(queue) \in Nat
      BY <1>t
    <3>2. Len(queue) > 1 => Len(queue') # 0
      BY <3>1, <2>2
    <3>3. queue' = <<>> => Len(queue') = 0
      OBVIOUS
    <3>4. (Len(queue) > 1) \in BOOLEAN
      OBVIOUS
    <3> QED  BY <2>1, <3>2, <3>3, <3>4
  <2>5. timeout \in Nat /\ U32(now_timems + timeout) \in 0 .. Modulus - 1
    <3>1. timeout \in Nat
      BY QueueAssumption
    <3>2. now_timems + timeout \in Nat
      BY <3>1, <1>t
    <3> QED  BY <3>1, <3>2, U32Range
  <2> HIDE DEF m
  <2>6. /\ message' \in [Messages -> Message]
        /\ deadline' \in [Messages -> Nat]
        /\ confirm_messages' \in Seq(1 .. sent)
        /\ alloc' \subseteq 1 .. sent
    <3>0. message \in [Messages -> Message] /\ deadline \in [Messages -> Nat]
      BY DEF TypeOK
    <3>1. CASE timeout = 0
      BY <3>0, <3>1, <1>4, <1>t DEF Pop
    <3>2. CASE timeout # 0
      <4>1. /\ message' = [message EXCEPT ![m].confirm =
                              U32(now_timems + timeout)]
            /\ deadline' = [deadline EXCEPT ![m] = now_timems + timeout]
            /\ confirm_messages' = Append(confirm_messages, m)
            /\ UNCHANGED alloc
        BY <3>2, <1>4 DEF Pop, m
      <4>2. message' \in [Messages -> Message]
        BY <4>1, <3>0, <2>3, <2>5 DEF Message
      <4>3. deadline' \in [Messages -> Nat] /\ alloc' \subseteq 1 .. sent
        BY <4>1, <3>0, <2>3, <2>5, <1>t
      <4>4. confirm_messages' \in Seq(1 .. sent)
        BY <4>1, <2>3, <1>t, AppendFacts
      <4> QED  BY <4>2, <4>3, <4>4
    <3> QED  BY <3>1, <3>2
  <2>7. expire_messages' \subseteq 1 .. sent
    BY <1>4, <1>t DEF Pop, PopIndex
  <2>8. UNCHANGED <<server_vars, sent, sub_vars, accepted, returned,
                    lifetime, share>>
    BY <1>4 DEF Pop
  <2> QED
    BY <2>2, <2>4, <2>6, <2>7, <2>8 DEF TypeOK, server_vars, sub_vars
<1>5. ASSUME NEW tag, Confirm(tag)
      PROVE  TypeOK'
  <2>1. PICK i \in DOMAIN confirm_messages :
          /\ confirm_messages' = Without(confirm_messages, i)
          /\ alloc' = alloc \ {confirm_messages[i]}
    BY <1>5 DEF Confirm
  <2>2. confirm_messages' \in Seq(1 .. sent)
    BY <2>1, <1>t, WithoutFacts
  <2>3. UNCHANGED <<server_vars, sent, message, queue, stale_next,
                    expire_messages, sub_vars, hist_vars>>
    BY <1>5 DEF Confirm
  <2> QED
    BY <2>1, <2>2, <2>3 DEF TypeOK, server_vars, sub_vars, hist_vars
<1>6. ASSUME Purge
      PROVE  TypeOK'
  <2>1. queue' \in Seq(1 .. sent) /\ stale_next' = FALSE
        /\ alloc' \subseteq 1 .. sent
    <3>1. queue' = <<>> /\ stale_next' = FALSE /\ alloc' = alloc \ Elems(queue)
      BY <1>6 DEF Purge
    <3>2. <<>> \in Seq(1 .. sent)
      OBVIOUS
    <3> QED  BY <3>1, <3>2, <1>t
  <2>2. UNCHANGED <<server_vars, sent, message, expire_messages,
                    confirm_messages, sub_vars, hist_vars>>
    BY <1>6 DEF Purge
  <2> QED  BY <2>1, <2>2 DEF TypeOK, server_vars, sub_vars, hist_vars
<1>7. ASSUME NEW c \in Clients, NEW notify \in BOOLEAN, Subscribe(c, notify)
      PROVE  TypeOK'
  <2>1. Append(subscribed_clients_msg, c) \in Seq(Clients)
    BY <1>t, AppendFacts
  <2>2. subscribed_clients_msg' \in Seq(Clients)
    BY <1>7, <2>1, <1>t DEF Subscribe
  <2>3. subscribed_clients_notify' \subseteq Clients
    BY <1>7 DEF Subscribe, TypeOK
  <2>4. share' \in [Clients -> Nat]
    BY <1>7, <1>t DEF Subscribe
  <2>5. UNCHANGED <<server_vars, store_vars, accepted, returned, lifetime,
                    deadline>>
    BY <1>7 DEF Subscribe
  <2> QED
    BY <2>2, <2>3, <2>4, <2>5 DEF TypeOK, server_vars, store_vars
<1>8. ASSUME NEW c \in Clients, Unsubscribe(c)
      PROVE  TypeOK'
  <2>1. subscribed_clients_msg' \in Seq(Clients)
    BY <1>8, <1>t, KeepFacts DEF Unsubscribe
  <2>2. share' \in [Clients -> Nat]
    BY <1>8, <1>t DEF Unsubscribe
  <2>3. subscribed_clients_notify' \subseteq Clients
    BY <1>8 DEF Unsubscribe, TypeOK
  <2>4. UNCHANGED <<server_vars, store_vars, accepted, returned, lifetime,
                    deadline>>
    BY <1>8 DEF Unsubscribe
  <2> QED
    BY <2>1, <2>2, <2>3, <2>4 DEF TypeOK, server_vars, store_vars
<1>9. ASSUME NEW step \in Steps, ServerUpdater(step)
      PROVE  TypeOK'
  <2> DEFINE t == U32(now_timems + step)
  <2>0. now_timems' \in Nat /\ msg_counter' \in Nat /\ undefined' \in BOOLEAN
    BY <1>9, <1>t, QueueAssumption DEF ServerUpdater, Faulty
  <2>1. UNCHANGED <<sent, message, sub_vars, accepted, lifetime, deadline,
                    share>>
    BY <1>9 DEF ServerUpdater
  <2>2. CASE Faulty(t)
    <3>1. UNCHANGED <<queue, stale_next, expire_messages, confirm_messages,
                      alloc, returned>>
      BY <1>9, <2>2 DEF ServerUpdater
    <3> QED  BY <2>0, <2>1, <3>1 DEF TypeOK, sub_vars
  <2>3. CASE ~Faulty(t)
    <3>1. UpdateMessages(t)
      BY <1>9, <2>3 DEF ServerUpdater
    <3> HIDE DEF t
    <3> DEFINE back == Keep(confirm_messages, PutBack(t))
               kept == Keep(queue, Messages \ Expired(t))
    <3>2. PutBack(t) \subseteq 1 .. sent
      <4> PutBack(t) \subseteq Elems(confirm_messages)
        BY DEF PutBack, Overdue
      <4> QED  BY <1>t, SeqFacts
    <3>3. back \in Seq(1 .. sent) /\ kept \in Seq(1 .. sent)
          /\ Elems(kept) = Elems(queue) \cap (Messages \ Expired(t))
      BY <1>t, KeepFacts
    <3>4. confirm_messages' \in Seq(1 .. sent)
      BY <3>1, <1>t, KeepFacts DEF UpdateMessages
    <3>5. queue' = kept \o back /\ stale_next' = (stale_next /\ back = <<>>)
      BY <3>1 DEF UpdateMessages
    <3>6. alloc' \subseteq 1 .. sent /\ returned' \subseteq 1 .. sent
          /\ expire_messages' \subseteq 1 .. sent
      BY <3>1, <3>2, <1>t DEF UpdateMessages
    <3> HIDE DEF back, kept
    <3>7. stale_next => kept # <<>>
      <4> SUFFICES ASSUME stale_next PROVE kept # <<>>
        OBVIOUS
      <4>0. queue # <<>>
        BY DEF TypeOK
      <4>1. LastOf(queue) \in Elems(queue)
        BY <4>0, <1>t, AllButLastFacts
      <4>2. LastOf(queue) \in Messages
        BY <4>1, <1>t, SeqFacts
      <4>3. LastOf(queue) \notin Expired(t)
        BY <2>3 DEF Faulty
      <4>4. Elems(kept) # {}
        BY <4>1, <4>2, <4>3, <3>3
      <4> QED  BY <4>4, <3>3, SeqFacts
    <3>8. queue' \in Seq(1 .. sent) /\ Elems(queue') = Elems(kept) \cup Elems(back)
      BY <3>3, <3>5, ConcatFacts
    <3>9. stale_next' \in BOOLEAN /\ (stale_next' => queue' # <<>>)
      <4>1. kept # <<>> => Elems(queue') # {}
        BY <3>3, <3>8, SeqFacts
      <4>2. kept # <<>> => queue' # <<>>
        BY <4>1, <3>8, SeqFacts
      <4> QED  BY <4>2, <3>5, <3>7 DEF TypeOK
    <3> QED
      BY <2>0, <2>1, <3>4, <3>6, <3>8, <3>9 DEF TypeOK, sub_vars
  <2> QED  BY <2>2, <2>3
<1>10. CASE UNCHANGED vars
  BY <1>10 DEF TypeOK, vars, server_vars, store_vars, sub_vars, hist_vars
<1> QED
  BY <1>1, <1>2, <1>3, <1>4, <1>5, <1>6, <1>7, <1>8, <1>9, <1>10
  DEF Next, Push, Tick

(* The queue starts well-formed. *)
LEMMA InitType == Init => TypeOK
<1> SUFFICES ASSUME Init PROVE TypeOK
  OBVIOUS
<1>0. undefined = FALSE /\ stale_next = FALSE
  BY DEF Init
<1>1. now_timems \in Nat /\ msg_counter \in Nat
      /\ sent \in 0 .. MaxPushes /\ alloc \subseteq 1 .. sent
      /\ expire_messages \subseteq 1 .. sent
      /\ accepted \subseteq 1 .. sent /\ returned \subseteq 1 .. sent
      /\ subscribed_clients_notify \subseteq Clients
  BY QueueAssumption DEF Init
<1>2. queue \in Seq(1 .. sent) /\ confirm_messages \in Seq(1 .. sent)
      /\ subscribed_clients_msg \in Seq(Clients)
  BY DEF Init
<1>3. lifetime \in [Messages -> Nat] /\ deadline \in [Messages -> Nat]
      /\ share \in [Clients -> Nat]
  BY DEF Init
<1>4. message \in [Messages -> Message]
  <2> DEFINE r == [tag |-> <<0, 0>>, expiration |-> 0, confirm |-> 0]
  <2>1. 0 \in 0 .. Modulus - 1
    BY QueueAssumption
  <2>2. r \in Message
    BY <2>1 DEF Message
  <2>3. message = [m \in Messages |-> r]
    BY DEF Init
  <2> HIDE DEF r
  <2> QED  BY <2>2, <2>3
<1> QED  BY <1>0, <1>1, <1>2, <1>3, <1>4 DEF TypeOK

(* The state of the queue is well-formed in every behaviour of the server: *)
(* in particular every stored message was sent, and the 32-bit fields stay *)
(* in range whatever the clock shows.                                      *)
THEOREM TypeCorrect == Spec => []TypeOK
<1>1. Init => TypeOK
  BY InitType
<1>2. TypeOK /\ [Next]_vars => TypeOK'
  BY TypeStep
<1> QED
  BY <1>1, <1>2, PTL DEF Spec

-----------------------------------------------------------------------------
(* Where the stored messages are *)

(* The inductive invariant of the store: HeldOnce needs ExpireIndex, since *)
(* expiry releases what the index lists, and both need the types.          *)
StoreInv == TypeOK /\ HeldOnce /\ ExpireIndex

(* What a run of server_updater makes of the lists. *)
LEMMA UpdateFacts ==
    ASSUME TypeOK, HeldOnce, NEW t, UpdateMessages(t)
    PROVE  /\ Elems(queue)' = (Elems(queue) \ Expired(t)) \cup PutBack(t)
           /\ Elems(confirm_messages)' = Elems(confirm_messages) \ Overdue(t)
           /\ NoRepetition(queue)' /\ NoRepetition(confirm_messages)'
           /\ PutBack(t) \subseteq Overdue(t)
           /\ Overdue(t) \subseteq Elems(confirm_messages)
<1> DEFINE back == Keep(confirm_messages, PutBack(t))
           kept == Keep(queue, Messages \ Expired(t))
<1>1. /\ queue \in Seq(1 .. sent) /\ confirm_messages \in Seq(1 .. sent)
      /\ 1 .. sent \subseteq Messages
  BY QueueAssumption DEF TypeOK, Messages
<1>2. Elems(queue) \subseteq Messages /\ Elems(confirm_messages) \subseteq Messages
  BY <1>1, SeqFacts
<1>3. PutBack(t) \subseteq Overdue(t) /\ Overdue(t) \subseteq Elems(confirm_messages)
  BY DEF PutBack, Overdue
<1>4. NoRepetition(queue) /\ NoRepetition(confirm_messages)
      /\ Elems(queue) \cap Elems(confirm_messages) = {}
  BY DEF HeldOnce
<1>5. queue' = kept \o back
      /\ confirm_messages' = Keep(confirm_messages, Messages \ Overdue(t))
  BY DEF UpdateMessages
<1>6. /\ kept \in Seq(1 .. sent) /\ back \in Seq(1 .. sent)
      /\ Elems(kept) = Elems(queue) \ Expired(t)
      /\ Elems(back) = PutBack(t)
      /\ Elems(confirm_messages') = Elems(confirm_messages) \ Overdue(t)
  <2>1. /\ kept \in Seq(1 .. sent)
        /\ Elems(kept) = Elems(queue) \cap (Messages \ Expired(t))
    BY <1>1, KeepFacts
  <2>2. /\ back \in Seq(1 .. sent)
        /\ Elems(back) = Elems(confirm_messages) \cap PutBack(t)
    BY <1>1, KeepFacts
  <2>3. Elems(Keep(confirm_messages, Messages \ Overdue(t)))
          = Elems(confirm_messages) \cap (Messages \ Overdue(t))
    BY <1>1, KeepFacts
  <2> HIDE DEF kept, back
  <2> QED  BY <2>1, <2>2, <2>3, <1>2, <1>3, <1>5
<1>7. NoRepetition(kept) /\ NoRepetition(back) /\ NoRepetition(confirm_messages')
  BY <1>1, <1>4, <1>5, KeepNoRepetition
<1>8. Elems(kept) \cap Elems(back) = {}
  BY <1>3, <1>4, <1>6
<1> HIDE DEF kept, back
<1>9. NoRepetition(kept \o back)
      /\ Elems(kept \o back) = Elems(kept) \cup Elems(back)
  BY <1>6, <1>7, <1>8, ConcatFacts
<1>10. Elems(queue') = (Elems(queue) \ Expired(t)) \cup PutBack(t)
  BY <1>5, <1>6, <1>9
<1>11. /\ Elems(queue)' = Elems(queue')
       /\ Elems(confirm_messages)' = Elems(confirm_messages')
       /\ NoRepetition(queue)' = NoRepetition(queue')
       /\ NoRepetition(confirm_messages)' = NoRepetition(confirm_messages')
  BY DEF Elems, NoRepetition
<1> QED
  BY <1>3, <1>5, <1>6, <1>7, <1>9, <1>10, <1>11

(* What a stored push makes of the lists. *)
LEMMA PushStoredFacts ==
    ASSUME TypeOK, HeldOnce, NEW expire \in Expirations, PushStored(expire)
    PROVE  /\ Created(expire)
           /\ \E gone \in SUBSET Elems(queue) :
                /\ Elems(queue)' = (Elems(queue) \ gone) \cup {sent'}
                /\ alloc' = (alloc \ gone) \cup {sent'}
                /\ expire_messages' =
                     (expire_messages \ gone)
                     \cup (IF message'[sent'].expiration # 0
                           THEN {sent'} ELSE {})
           /\ NoRepetition(queue)'
<1> DEFINE gone == IF Full THEN {LastOf(queue)} ELSE {}
           rest == IF Full THEN AllButLast(queue) ELSE queue
<1>1. Created(expire)
  BY CreateMessageFacts DEF PushStored
<1>2. queue \in Seq(1 .. sent) /\ NoRepetition(queue)
      /\ Elems(queue) \subseteq 1 .. sent
  BY SeqFacts DEF TypeOK, HeldOnce
<1>3. /\ queue' = <<sent'>> \o rest
      /\ alloc' = (alloc \ gone) \cup {sent'}
  BY <1>1 DEF PushStored, PushHead, Created
<1>4. expire_messages' = (expire_messages \ gone)
                         \cup (IF message'[sent'].expiration # 0
                               THEN {sent'} ELSE {})
  BY <1>1 DEF PushStored, PopIndex, Created
<1>5. /\ rest \in Seq(1 .. sent) /\ gone \subseteq Elems(queue)
      /\ Elems(rest) = Elems(queue) \ gone /\ NoRepetition(rest)
  BY <1>2, FullFacts, AllButLastFacts
<1> HIDE DEF gone, rest
<1>6. rest \in Seq(1 .. sent') /\ sent' \in 1 .. sent' /\ sent' \notin Elems(rest)
  BY <1>1, <1>2, <1>5, SeqFacts DEF Created
<1>7. Elems(<<sent'>> \o rest) = Elems(rest) \cup {sent'}
      /\ NoRepetition(<<sent'>> \o rest)
  BY <1>5, <1>6, ConsFacts
<1>8. Elems(queue') = (Elems(queue) \ gone) \cup {sent'} /\ NoRepetition(queue')
  BY <1>3, <1>5, <1>7
<1>9. Elems(queue)' = Elems(queue') /\ NoRepetition(queue)' = NoRepetition(queue')
  BY DEF Elems, NoRepetition
<1> QED
  BY <1>1, <1>3, <1>4, <1>5, <1>8, <1>9

(* Every step keeps a stored message in one place, and indexed.            *)
LEMMA StoreStep ==
    ASSUME StoreInv, [Next]_vars
    PROVE  HeldOnce' /\ ExpireIndex'
<1>t. /\ TypeOK /\ HeldOnce /\ ExpireIndex
      /\ queue \in Seq(1 .. sent) /\ confirm_messages \in Seq(1 .. sent)
      /\ Elems(queue) \subseteq 1 .. sent
      /\ Elems(confirm_messages) \subseteq 1 .. sent
      /\ alloc \subseteq 1 .. sent /\ expire_messages \subseteq 1 .. sent
      /\ 1 .. sent \subseteq Messages
  <2>1. TypeOK /\ HeldOnce /\ ExpireIndex
    BY DEF StoreInv
  <2>2. /\ queue \in Seq(1 .. sent) /\ confirm_messages \in Seq(1 .. sent)
        /\ alloc \subseteq 1 .. sent /\ expire_messages \subseteq 1 .. sent
        /\ 1 .. sent \subseteq Messages
    BY <2>1, QueueAssumption DEF TypeOK, Messages
  <2> QED  BY <2>1, <2>2, SeqFacts
<1>h. /\ NoRepetition(queue) /\ NoRepetition(confirm_messages)
      /\ Elems(queue) \cap Elems(confirm_messages) = {}
      /\ Elems(queue) \subseteq alloc /\ Elems(confirm_messages) \subseteq alloc
  BY <1>t DEF HeldOnce, Held
<1>i. \A m : m \in expire_messages /\ m \in alloc
           <=> m \in Elems(queue) /\ message[m].expiration # 0
  BY <1>t DEF ExpireIndex, Expires
<1>q. \* What is to be shown of the next state, with Held and Expires expanded.
  ASSUME NoRepetition(queue)', NoRepetition(confirm_messages)',
         Elems(queue)' \cap Elems(confirm_messages)' = {},
         Elems(queue)' \subseteq alloc', Elems(confirm_messages)' \subseteq alloc',
         \A m : m \in expire_messages' /\ m \in alloc'
               <=> m \in Elems(queue)' /\ message'[m].expiration # 0
  PROVE  HeldOnce' /\ ExpireIndex'
  <2>1. HeldOnce'
    BY <1>q DEF HeldOnce, Held
  <2>2. ExpireIndex'
    BY <1>q DEF ExpireIndex, Expires
  <2> QED  BY <2>1, <2>2
<1>e. ASSUME UNCHANGED <<queue, confirm_messages>>
      PROVE  /\ Elems(queue)' = Elems(queue)
             /\ Elems(confirm_messages)' = Elems(confirm_messages)
             /\ NoRepetition(queue)' /\ NoRepetition(confirm_messages)'
  BY <1>e, <1>h DEF Elems, NoRepetition
<1>1. ASSUME NEW expire \in Expirations, NEW fits \in BOOLEAN,
             PushRefused(expire, fits)
      PROVE  HeldOnce' /\ ExpireIndex'
  <2>1. CreateMessage(sent + 1, expire) /\ alloc' = alloc \cup {sent + 1}
        /\ UNCHANGED <<queue, confirm_messages, expire_messages>>
    BY <1>1 DEF PushRefused
  <2>2. Created(expire)
    BY <2>1, <1>t, CreateMessageFacts
  <2>3. /\ alloc' = alloc \cup {sent'} /\ sent' \notin 1 .. sent
        /\ \A m \in 1 .. sent : message'[m] = message[m]
    BY <2>1, <2>2 DEF Created
  <2>4. \A m : m \in expire_messages' /\ m \in alloc'
              <=> m \in Elems(queue)' /\ message'[m].expiration # 0
    BY <2>1, <2>3, <1>e, <1>t, <1>i
  <2> QED  BY <2>1, <2>3, <2>4, <1>e, <1>h, <1>q
<1>2. ASSUME NEW expire \in Expirations, PushDelivered(expire)
      PROVE  HeldOnce' /\ ExpireIndex'
  <2>1. CreateMessage(sent + 1, expire)
        /\ UNCHANGED <<alloc, queue, confirm_messages, expire_messages>>
    BY <1>2 DEF PushDelivered
  <2>2. Created(expire)
    BY <2>1, <1>t, CreateMessageFacts
  <2>3. \A m \in 1 .. sent : message'[m] = message[m]
    BY <2>2 DEF Created
  <2>4. \A m : m \in expire_messages' /\ m \in alloc'
              <=> m \in Elems(queue)' /\ message'[m].expiration # 0
    BY <2>1, <2>3, <1>e, <1>t, <1>i
  <2> QED  BY <2>1, <2>4, <1>e, <1>h, <1>q
<1>3. ASSUME NEW expire \in Expirations, PushStored(expire)
      PROVE  HeldOnce' /\ ExpireIndex'
  <2>1. Created(expire) /\ NoRepetition(queue)'
    BY <1>3, <1>t, PushStoredFacts
  <2>2. PICK gone \in SUBSET Elems(queue) :
          /\ Elems(queue)' = (Elems(queue) \ gone) \cup {sent'}
          /\ alloc' = (alloc \ gone) \cup {sent'}
          /\ expire_messages' =
               (expire_messages \ gone)
               \cup (IF message'[sent'].expiration # 0 THEN {sent'} ELSE {})
    BY <1>3, <1>t, PushStoredFacts
  <2>3. sent' \notin 1 .. sent
        /\ \A m \in 1 .. sent : message'[m] = message[m]
    BY <2>1 DEF Created
  <2>4. UNCHANGED confirm_messages
    BY <1>3 DEF PushStored
  <2>5. Elems(confirm_messages)' = Elems(confirm_messages)
        /\ NoRepetition(confirm_messages)'
    BY <2>4, <1>h DEF Elems, NoRepetition
  <2>6. \A m : m \in expire_messages' /\ m \in alloc'
              <=> m \in Elems(queue)' /\ message'[m].expiration # 0
    <3> SUFFICES ASSUME NEW m
                 PROVE  m \in expire_messages' /\ m \in alloc'
                          <=> m \in Elems(queue)' /\ message'[m].expiration # 0
      OBVIOUS
    <3>1. CASE m = sent'
      BY <3>1, <2>2, <2>3, <1>t
    <3>2. CASE m # sent'
      BY <3>2, <2>2, <2>3, <1>t, <1>i
    <3> QED  BY <3>1, <3>2
  <2> QED  BY <2>1, <2>2, <2>3, <2>5, <2>6, <1>t, <1>h, <1>q
<1>4. ASSUME NEW timeout \in Timeouts, Pop(timeout)
      PROVE  HeldOnce' /\ ExpireIndex'
  <2> DEFINE m == LastOf(queue)
  <2>1. queue # <<>> /\ queue' = AllButLast(queue)
        /\ expire_messages' = expire_messages \ {m}
    BY <1>4 DEF Pop, PopIndex
  <2>2. /\ m \in Elems(queue) /\ Elems(queue') = Elems(queue) \ {m}
        /\ NoRepetition(queue')
    BY <2>1, <1>t, <1>h, AllButLastFacts
  <2>3. Elems(queue)' = Elems(queue) \ {m} /\ NoRepetition(queue)'
    BY <2>2 DEF Elems, NoRepetition
  <2> HIDE DEF m
  <2>4. CASE timeout = 0
    <3>1. alloc' = alloc \ {m} /\ UNCHANGED <<message, confirm_messages>>
      BY <2>4, <1>4 DEF Pop, m
    <3>2. Elems(confirm_messages)' = Elems(confirm_messages)
          /\ NoRepetition(confirm_messages)'
      BY <3>1, <1>h DEF Elems, NoRepetition
    <3> QED  BY <2>1, <2>2, <2>3, <3>1, <3>2, <1>h, <1>i, <1>q
  <2>5. CASE timeout # 0
    <3>1. /\ message' = [message EXCEPT ![m].confirm =
                            U32(now_timems + timeout)]
          /\ confirm_messages' = Append(confirm_messages, m)
          /\ UNCHANGED alloc
      BY <2>5, <1>4 DEF Pop, m
    <3>2. m \in 1 .. sent /\ m \notin Elems(confirm_messages)
      BY <2>2, <1>t, <1>h
    <3>3. /\ Elems(confirm_messages') = Elems(confirm_messages) \cup {m}
          /\ NoRepetition(confirm_messages')
      <4>1. /\ Elems(Append(confirm_messages, m))
                 = Elems(confirm_messages) \cup {m}
            /\ NoRepetition(confirm_messages) /\ m \notin Elems(confirm_messages)
                 => NoRepetition(Append(confirm_messages, m))
        <5> DEFINE S == 1 .. sent
        <5> confirm_messages \in Seq(S) /\ m \in S
          BY <3>2, <1>t
        <5> HIDE DEF S
        <5>1. Elems(Append(confirm_messages, m)) = Elems(confirm_messages) \cup {m}
          BY AppendFacts
        <5>2. NoRepetition(confirm_messages) /\ m \notin Elems(confirm_messages)
                => NoRepetition(Append(confirm_messages, m))
          BY AppendFacts
        <5> QED  BY <5>1, <5>2
      <4> QED  BY <4>1, <3>1, <3>2, <1>h
    <3>4. /\ Elems(confirm_messages)' = Elems(confirm_messages) \cup {m}
          /\ NoRepetition(confirm_messages)'
      BY <3>3 DEF Elems, NoRepetition
    <3>5. \A n \in 1 .. sent : message'[n].expiration = message[n].expiration
      <4> message \in [Messages -> Message] /\ m \in Messages
        BY <1>t, <3>2 DEF TypeOK
      <4> QED  BY <3>1, <1>t DEF Message
    <3>6. \A n : n \in expire_messages' /\ n \in alloc'
                <=> n \in Elems(queue)' /\ message'[n].expiration # 0
      BY <2>1, <2>3, <3>1, <3>5, <1>t, <1>i
    <3> QED  BY <2>2, <2>3, <3>1, <3>2, <3>4, <3>6, <1>h, <1>q
  <2> QED  BY <2>4, <2>5
<1>5. ASSUME NEW tag, Confirm(tag)
      PROVE  HeldOnce' /\ ExpireIndex'
  <2>1. PICK i \in DOMAIN confirm_messages :
          /\ confirm_messages' = Without(confirm_messages, i)
          /\ alloc' = alloc \ {confirm_messages[i]}
    BY <1>5 DEF Confirm
  <2>2. UNCHANGED <<queue, message, expire_messages>>
    BY <1>5 DEF Confirm
  <2>3. /\ Elems(confirm_messages') = Elems(confirm_messages)
                                        \ {confirm_messages[i]}
        /\ NoRepetition(confirm_messages')
        /\ confirm_messages[i] \in Elems(confirm_messages)
    <3>1. confirm_messages[i] \in Elems(confirm_messages)
      BY DEF Elems
    <3> QED  BY <2>1, <3>1, <1>t, <1>h, WithoutFacts
  <2>4. /\ Elems(confirm_messages)' = Elems(confirm_messages')
        /\ NoRepetition(confirm_messages)' = NoRepetition(confirm_messages')
        /\ Elems(queue)' = Elems(queue) /\ NoRepetition(queue)'
    BY <2>2, <1>h DEF Elems, NoRepetition
  <2> QED  BY <2>1, <2>2, <2>3, <2>4, <1>h, <1>i, <1>q
<1>6. ASSUME Purge
      PROVE  HeldOnce' /\ ExpireIndex'
  <2>1. queue' = <<>> /\ alloc' = alloc \ Elems(queue)
        /\ UNCHANGED <<message, expire_messages, confirm_messages>>
    BY <1>6 DEF Purge
  <2>2. Elems(queue)' = {} /\ NoRepetition(queue)'
    BY <2>1 DEF Elems, NoRepetition
  <2>3. Elems(confirm_messages)' = Elems(confirm_messages)
        /\ NoRepetition(confirm_messages)'
    BY <2>1, <1>h DEF Elems, NoRepetition
  <2> QED  BY <2>1, <2>2, <2>3, <1>h, <1>i, <1>q
<1>7. ASSUME NEW step \in Steps, ServerUpdater(step)
      PROVE  HeldOnce' /\ ExpireIndex'
  <2> DEFINE t == U32(now_timems + step)
  <2>1. CASE Faulty(t)
    <3>1. UNCHANGED <<queue, expire_messages, confirm_messages, alloc, message>>
      BY <1>7, <2>1 DEF ServerUpdater
    <3> QED  BY <3>1, <1>e, <1>h, <1>i, <1>q
  <2>2. CASE ~Faulty(t)
    <3>1. UpdateMessages(t) /\ UNCHANGED message
      BY <1>7, <2>2 DEF ServerUpdater
    <3>2. expire_messages \subseteq alloc
      BY <2>2 DEF Faulty
    <3> HIDE DEF t
    <3>3. /\ Elems(queue)' = (Elems(queue) \ Expired(t)) \cup PutBack(t)
          /\ Elems(confirm_messages)' = Elems(confirm_messages) \ Overdue(t)
          /\ NoRepetition(queue)' /\ NoRepetition(confirm_messages)'
          /\ PutBack(t) \subseteq Overdue(t)
          /\ Overdue(t) \subseteq Elems(confirm_messages)
      BY <3>1, <1>t, UpdateFacts
    <3>4. /\ alloc' = alloc \ Expired(t)
          /\ expire_messages' = (expire_messages \ Expired(t))
                    \cup {m \in PutBack(t) : message[m].expiration # 0}
      BY <3>1 DEF UpdateMessages, Expires
    <3>5. Expired(t) \subseteq Elems(queue)
      BY <3>2, <1>i DEF Expired
    <3>6. \A m : m \in expire_messages' /\ m \in alloc'
                <=> m \in Elems(queue)' /\ message'[m].expiration # 0
      BY <3>1, <3>2, <3>3, <3>4, <3>5, <1>h, <1>i
    <3> QED  BY <3>3, <3>4, <3>5, <3>6, <1>h, <1>q
  <2> QED  BY <2>1, <2>2
<1>8. ASSUME NEW c \in Clients, NEW notify \in BOOLEAN, Subscribe(c, notify)
      PROVE  HeldOnce' /\ ExpireIndex'
  BY <1>8, <1>e, <1>h, <1>i, <1>q DEF Subscribe, store_vars
<1>9. ASSUME NEW c \in Clients, Unsubscribe(c)
      PROVE  HeldOnce' /\ ExpireIndex'
  BY <1>9, <1>e, <1>h, <1>i, <1>q DEF Unsubscribe, store_vars
<1>10. CASE UNCHANGED vars
  BY <1>10, <1>e, <1>h, <1>i, <1>q DEF vars, store_vars
<1> QED
  BY <1>1, <1>2, <1>3, <1>4, <1>5, <1>6, <1>7, <1>8, <1>9, <1>10
  DEF Next, Push, Tick

(* StoreInv holds in every reachable state.                                *)
LEMMA StoreInvariant == Spec => []StoreInv
<1>1. Init => StoreInv
  <2> SUFFICES ASSUME Init PROVE StoreInv
    OBVIOUS
  <2>1. TypeOK
    BY InitType
  <2>2. Elems(queue) = {} /\ Elems(confirm_messages) = {}
        /\ NoRepetition(queue) /\ NoRepetition(confirm_messages)
        /\ expire_messages = {}
    BY DEF Init, Elems, NoRepetition
  <2> QED  BY <2>1, <2>2 DEF StoreInv, HeldOnce, Held, ExpireIndex
<1>2. StoreInv /\ [Next]_vars => StoreInv'
  BY TypeStep, StoreStep DEF StoreInv
<1> QED
  BY <1>1, <1>2, PTL DEF Spec

(* In every behaviour a stored message is in exactly one of the lists of   *)
(* the queue, and those lists refer to no released message: pop, confirm,  *)
(* expiry, eviction, purge and redelivery never duplicate or free it       *)
(* under another list.                                                     *)
THEOREM HeldOnceCorrect == Spec => []HeldOnce
BY StoreInvariant, PTL DEF StoreInv

(* In every behaviour, the expiration index agrees with the queue on the   *)
(* messages in memory.                                                     *)
THEOREM ExpireIndexCorrect == Spec => []ExpireIndex
BY StoreInvariant, PTL DEF StoreInv

-----------------------------------------------------------------------------
(* Time, as long as no 32-bit time wraps *)

(* No clock value, expiration or confirm time of the run exceeds what a    *)
(* uint32_t holds.                                                         *)
NoWrap ==
    /\ MaxTime < Modulus
    /\ \A e \in Expirations \cup Timeouts : Horizon + e < Modulus

(* The 32-bit fields are the exact times, and the four properties about    *)
(* time hold: together they are inductive, as they compare the fields.     *)
TimedInv ==
    /\ \A m \in 1 .. sent : message[m].expiration = lifetime[m]
    /\ \A m \in Elems(confirm_messages) : message[m].confirm = deadline[m]
    /\ NoExpiredVisible
    /\ NoOverdue
    /\ NotLost
    /\ NotBeforeDeadline

(* A time below the modulus survives being stored in a uint32_t.           *)
LEMMA U32Exact ==
    ASSUME NEW t \in Nat, t < Modulus
    PROVE  U32(t) = t
BY QueueAssumption DEF U32

(* Every step, server_updater's above all, preserves TimedInv.             *)
LEMMA TimedStep ==
    ASSUME NoWrap, StoreInv, StoreInv', TimedInv, [Next]_vars
    PROVE  TimedInv'
<1>t. /\ TypeOK /\ HeldOnce /\ ExpireIndex
      /\ Elems(queue) \subseteq 1 .. sent
      /\ Elems(confirm_messages) \subseteq 1 .. sent
      /\ alloc \subseteq 1 .. sent /\ accepted \subseteq 1 .. sent
      /\ returned \subseteq 1 .. sent
      /\ 1 .. sent \subseteq Messages /\ now_timems \in Nat
      /\ message \in [Messages -> Message]
      /\ lifetime \in [Messages -> Nat] /\ deadline \in [Messages -> Nat]
  <2>1. TypeOK /\ HeldOnce /\ ExpireIndex
    BY DEF StoreInv
  <2>2. queue \in Seq(1 .. sent) /\ confirm_messages \in Seq(1 .. sent)
    BY <2>1 DEF TypeOK
  <2>3. Elems(queue) \subseteq 1 .. sent /\ Elems(confirm_messages) \subseteq 1 .. sent
    BY <2>2, SeqFacts
  <2>4. 1 .. sent \subseteq Messages
    BY <2>1, QueueAssumption DEF TypeOK, Messages
  <2> QED  BY <2>1, <2>3, <2>4 DEF TypeOK
<1>h. /\ Elems(queue) \cap Elems(confirm_messages) = {}
      /\ Elems(queue) \subseteq alloc /\ Elems(confirm_messages) \subseteq alloc
  BY <1>t DEF HeldOnce, Held
<1>i. /\ \A m \in 1 .. sent : message[m].expiration = lifetime[m]
      /\ \A m \in Elems(confirm_messages) : message[m].confirm = deadline[m]
      /\ ~undefined => \A m \in Elems(queue) :
                          lifetime[m] # 0 => lifetime[m] > now_timems
      /\ ~undefined => \A m \in Elems(confirm_messages) :
                          deadline[m] > now_timems
      /\ \A m \in accepted \cap alloc :
           m \in Elems(queue) \cup Elems(confirm_messages)
           \/ (lifetime[m] # 0 /\ lifetime[m] <= now_timems)
      /\ \A m \in Elems(queue) \cap returned : deadline[m] <= now_timems
  BY DEF TimedInv, NoExpiredVisible, NoOverdue, NotLost, NotBeforeDeadline,
         Held
<1>q. \* What is to be shown of the next state, expanded.
  ASSUME \A m \in 1 .. sent' : message'[m].expiration = lifetime'[m],
         \A m \in Elems(confirm_messages)' : message'[m].confirm = deadline'[m],
         ~undefined' => \A m \in Elems(queue)' :
                          lifetime'[m] # 0 => lifetime'[m] > now_timems',
         ~undefined' => \A m \in Elems(confirm_messages)' :
                          deadline'[m] > now_timems',
         \A m \in accepted' \cap alloc' :
           m \in Elems(queue)' \cup Elems(confirm_messages)'
           \/ (lifetime'[m] # 0 /\ lifetime'[m] <= now_timems'),
         \A m \in Elems(queue)' \cap returned' : deadline'[m] <= now_timems'
  PROVE  TimedInv'
  BY <1>q DEF TimedInv, NoExpiredVisible, NoOverdue, NotLost,
              NotBeforeDeadline, Held
<1>e. ASSUME UNCHANGED queue PROVE Elems(queue)' = Elems(queue)
  BY <1>e DEF Elems
<1>f. ASSUME UNCHANGED confirm_messages
      PROVE  Elems(confirm_messages)' = Elems(confirm_messages)
  BY <1>f DEF Elems
<1>c. ASSUME NEW expire \in Expirations, Created(expire), Request
      PROVE  /\ sent' = sent + 1 /\ sent' \notin 1 .. sent /\ sent \in Nat
             /\ \A m \in 1 .. sent' : message'[m].expiration = lifetime'[m]
             /\ \A m \in 1 .. sent : message'[m] = message[m]
                                     /\ lifetime'[m] = lifetime[m]
             /\ lifetime'[sent'] # 0 => lifetime'[sent'] > now_timems
  <2>1. sent' = sent + 1 /\ sent' \notin 1 .. sent /\ sent \in Nat
    BY <1>c DEF Created
  <2>2. \A m \in 1 .. sent : message'[m] = message[m]
                             /\ lifetime'[m] = lifetime[m]
    BY <1>c DEF Created
  <2>3. /\ message'[sent'].expiration =
             IF expire = 0 THEN 0 ELSE U32(expire + now_timems)
        /\ lifetime'[sent'] = IF expire = 0 THEN 0 ELSE expire + now_timems
    BY <1>c DEF Created
  <2>4. expire \in Nat /\ now_timems <= Horizon /\ Horizon + expire < Modulus
        /\ Horizon \in Nat /\ Modulus \in Nat
    BY <1>c, QueueAssumption DEF Request, NoWrap
  <2>5. U32(expire + now_timems) = expire + now_timems
    <3> expire + now_timems \in Nat /\ expire + now_timems < Modulus
      BY <2>4, <1>t
    <3> QED  BY U32Exact
  <2>6. message'[sent'].expiration = lifetime'[sent']
    BY <2>3, <2>5
  <2>7. lifetime'[sent'] # 0 => lifetime'[sent'] > now_timems
    BY <2>3, <2>4, <1>t
  <2>8. \A m \in 1 .. sent' : m \in 1 .. sent \/ m = sent'
    BY <2>1
  <2> QED  BY <2>1, <2>2, <2>6, <2>7, <2>8, <1>i
<1>1. ASSUME NEW expire \in Expirations, NEW fits \in BOOLEAN,
             PushRefused(expire, fits)
      PROVE  TimedInv'
  <2>1. /\ CreateMessage(sent + 1, expire) /\ alloc' = alloc \cup {sent + 1}
        /\ Request
        /\ UNCHANGED <<queue, confirm_messages, accepted, returned, deadline,
                       now_timems, undefined>>
    BY <1>1 DEF PushRefused
  <2>2. Created(expire)
    BY <2>1, <1>t, CreateMessageFacts
  <2> QED  BY <2>1, <2>2, <1>c, <1>e, <1>f, <1>i, <1>t, <1>q
<1>2. ASSUME NEW expire \in Expirations, PushDelivered(expire)
      PROVE  TimedInv'
  <2>1. /\ CreateMessage(sent + 1, expire)
        /\ accepted' = accepted \cup {sent + 1}
        /\ Request
        /\ UNCHANGED <<alloc, queue, confirm_messages, returned, deadline,
                       now_timems, undefined>>
    BY <1>2 DEF PushDelivered
  <2>2. Created(expire)
    BY <2>1, <1>t, CreateMessageFacts
  <2> QED  BY <2>1, <2>2, <1>c, <1>e, <1>f, <1>i, <1>t, <1>q
<1>3. ASSUME NEW expire \in Expirations, PushStored(expire)
      PROVE  TimedInv'
  <2>1. /\ Request /\ accepted' = accepted \cup {sent + 1}
        /\ UNCHANGED <<confirm_messages, returned, deadline, now_timems,
                       undefined>>
    BY <1>3 DEF PushStored
  <2>2. Created(expire)
    BY <1>3, <1>t, PushStoredFacts
  <2>3. PICK gone \in SUBSET Elems(queue) :
          /\ Elems(queue)' = (Elems(queue) \ gone) \cup {sent'}
          /\ alloc' = (alloc \ gone) \cup {sent'}
    BY <1>3, <1>t, PushStoredFacts
  <2> QED  BY <2>1, <2>2, <2>3, <1>c, <1>f, <1>i, <1>t, <1>q
<1>4. ASSUME NEW timeout \in Timeouts, Pop(timeout)
      PROVE  TimedInv'
  <2> DEFINE m == LastOf(queue)
  <2>1. /\ queue # <<>> /\ queue' = AllButLast(queue) /\ Request
        /\ UNCHANGED <<server_vars, sent, accepted, returned, lifetime>>
    BY <1>4 DEF Pop
  <2>2. m \in Elems(queue) /\ Elems(queue') = Elems(queue) \ {m}
    BY <2>1, <1>t, AllButLastFacts DEF TypeOK, HeldOnce
  <2>3. Elems(queue)' = Elems(queue) \ {m}
    BY <2>2 DEF Elems
  <2> HIDE DEF m
  <2>4. UNCHANGED <<now_timems, undefined>>
    BY <2>1 DEF server_vars
  <2>5. CASE timeout = 0
    <3>1. alloc' = alloc \ {m}
          /\ UNCHANGED <<message, confirm_messages, deadline>>
      BY <2>5, <1>4 DEF Pop, m
    <3> QED  BY <2>1, <2>2, <2>3, <2>4, <3>1, <1>f, <1>h, <1>i, <1>t, <1>q
  <2>6. CASE timeout # 0
    <3>1. /\ message' = [message EXCEPT ![m].confirm =
                            U32(now_timems + timeout)]
          /\ deadline' = [deadline EXCEPT ![m] = now_timems + timeout]
          /\ confirm_messages' = Append(confirm_messages, m)
          /\ UNCHANGED alloc
      BY <2>6, <1>4 DEF Pop, m
    <3>2. m \in Messages /\ m \in 1 .. sent /\ m \notin Elems(confirm_messages)
      BY <2>2, <1>t, <1>h
    <3>3. timeout \in Nat /\ now_timems <= Horizon
          /\ Horizon + timeout < Modulus /\ Horizon \in Nat /\ Modulus \in Nat
      BY <2>1, QueueAssumption DEF Request, NoWrap
    <3>4. U32(now_timems + timeout) = now_timems + timeout
      <4> now_timems + timeout \in Nat /\ now_timems + timeout < Modulus
        BY <3>3, <1>t
      <4> QED  BY U32Exact
    <3>5. now_timems + timeout > now_timems
      BY <3>3, <2>6, <1>t
    <3>6. Elems(confirm_messages)' = Elems(confirm_messages) \cup {m}
      <4> DEFINE S == 1 .. sent
      <4> confirm_messages \in Seq(S) /\ m \in S
        BY <3>2, <1>t DEF TypeOK
      <4> HIDE DEF S
      <4>1. Elems(Append(confirm_messages, m)) = Elems(confirm_messages) \cup {m}
        BY AppendFacts
      <4>2. Elems(confirm_messages') = Elems(confirm_messages) \cup {m}
        BY <3>1, <4>1
      <4> QED  BY <4>2 DEF Elems
    <3>7. /\ message'[m].confirm = now_timems + timeout
          /\ message'[m].expiration = message[m].expiration
          /\ \A n \in Messages : n # m => message'[n] = message[n]
      BY <3>1, <3>2, <3>4, <1>t DEF Message
    <3>8. /\ deadline'[m] = now_timems + timeout
          /\ \A n \in Messages : n # m => deadline'[n] = deadline[n]
      BY <3>1, <3>2, <1>t
    <3>9. \A n \in 1 .. sent' : message'[n].expiration = lifetime'[n]
      BY <2>1, <3>7, <1>i, <1>t
    <3>10. \A n \in Elems(confirm_messages)' : message'[n].confirm = deadline'[n]
      BY <3>2, <3>6, <3>7, <3>8, <1>i, <1>t
    <3>11. ~undefined' => \A n \in Elems(confirm_messages)' :
                            deadline'[n] > now_timems'
      BY <2>4, <3>2, <3>5, <3>6, <3>8, <1>i, <1>t
    <3>12. \A n \in Elems(queue)' \cap returned' : deadline'[n] <= now_timems'
      BY <2>1, <2>3, <2>4, <3>8, <1>i, <1>t
    <3>13. \A n \in accepted' \cap alloc' :
             n \in Elems(queue)' \cup Elems(confirm_messages)'
             \/ (lifetime'[n] # 0 /\ lifetime'[n] <= now_timems')
      BY <2>1, <2>3, <2>4, <3>1, <3>6, <1>i
    <3>14. ~undefined' => \A n \in Elems(queue)' :
                            lifetime'[n] # 0 => lifetime'[n] > now_timems'
      BY <2>1, <2>3, <2>4, <1>i
    <3> QED
      BY <3>9, <3>10, <3>11, <3>12, <3>13, <3>14, <1>q
  <2> QED  BY <2>5, <2>6
<1>5. ASSUME NEW tag, Confirm(tag)
      PROVE  TimedInv'
  <2>1. PICK i \in DOMAIN confirm_messages :
          /\ confirm_messages' = Without(confirm_messages, i)
          /\ alloc' = alloc \ {confirm_messages[i]}
    BY <1>5 DEF Confirm
  <2>2. UNCHANGED <<queue, message, now_timems, undefined, sent, accepted,
                    returned, lifetime, deadline>>
    BY <1>5 DEF Confirm, server_vars, hist_vars
  <2>3. Elems(confirm_messages') = Elems(confirm_messages)
                                   \ {confirm_messages[i]}
    BY <2>1, <1>t, WithoutFacts DEF TypeOK, HeldOnce
  <2>4. Elems(confirm_messages)' = Elems(confirm_messages')
    BY DEF Elems
  <2> QED  BY <2>1, <2>2, <2>3, <2>4, <1>e, <1>h, <1>i, <1>t, <1>q
<1>6. ASSUME Purge
      PROVE  TimedInv'
  <2>1. /\ queue' = <<>> /\ alloc' = alloc \ Elems(queue)
        /\ UNCHANGED <<message, confirm_messages, now_timems, undefined, sent,
                       accepted, returned, lifetime, deadline>>
    BY <1>6 DEF Purge, server_vars, hist_vars
  <2>2. Elems(queue)' = {}
    BY <2>1 DEF Elems
  <2> QED  BY <2>1, <2>2, <1>f, <1>i, <1>t, <1>q
<1>7. ASSUME NEW step \in Steps, ServerUpdater(step)
      PROVE  TimedInv'
  <2> DEFINE now == now_timems + step
             t == U32(now)
  <2>1. /\ now_timems' = now /\ now \in Nat /\ now > now_timems
        /\ ~undefined /\ t = now
        /\ UNCHANGED <<sent, message, accepted, lifetime, deadline>>
    <3>1. now_timems' = now /\ now <= MaxTime /\ ~undefined
          /\ UNCHANGED <<sent, message, accepted, lifetime, deadline>>
      BY <1>7 DEF ServerUpdater
    <3>2. now \in Nat /\ now > now_timems
      BY <1>t, QueueAssumption
    <3>3. now < Modulus
      BY <3>1, <3>2, QueueAssumption DEF NoWrap
    <3> HIDE DEF now
    <3>4. t = now
      BY <3>2, <3>3, U32Exact
    <3> QED  BY <3>1, <3>2, <3>4 DEF now
  <2>2. CASE Faulty(t)
    <3>1. /\ undefined'
          /\ UNCHANGED <<queue, confirm_messages, alloc, returned>>
      BY <1>7, <2>2 DEF ServerUpdater
    <3>2. Elems(queue)' = Elems(queue)
          /\ Elems(confirm_messages)' = Elems(confirm_messages)
      BY <3>1, <1>e, <1>f
    <3>3. \A m \in accepted' \cap alloc' :
            m \in Elems(queue)' \cup Elems(confirm_messages)'
            \/ (lifetime'[m] # 0 /\ lifetime'[m] <= now_timems')
      BY <2>1, <3>1, <3>2, <1>i, <1>t
    <3>4. \A m \in Elems(queue)' \cap returned' : deadline'[m] <= now_timems'
      BY <2>1, <3>1, <3>2, <1>i, <1>t
    <3> QED  BY <2>1, <3>1, <3>2, <3>3, <3>4, <1>i, <1>q
  <2>3. CASE ~Faulty(t)
    <3>1. UpdateMessages(t)
      BY <1>7, <2>3 DEF ServerUpdater
    <3>2. expire_messages \subseteq alloc
      BY <2>3 DEF Faulty
    <3> HIDE DEF t, now
    <3>3. /\ Elems(queue)' = (Elems(queue) \ Expired(t)) \cup PutBack(t)
          /\ Elems(confirm_messages)' = Elems(confirm_messages) \ Overdue(t)
          /\ PutBack(t) \subseteq Overdue(t)
          /\ Overdue(t) \subseteq Elems(confirm_messages)
      BY <3>1, <1>t, UpdateFacts
    <3>4. alloc' = alloc \ Expired(t) /\ returned' = returned \cup PutBack(t)
      BY <3>1 DEF UpdateMessages
    <3>5. \A m \in Elems(queue) :
            m \in Expired(t) <=> lifetime[m] # 0 /\ lifetime[m] <= now
      <4>1. \A m \in Elems(queue) : m \in expire_messages
                                    <=> message[m].expiration # 0
        BY <3>2, <1>t, <1>h DEF ExpireIndex, Expires
      <4> QED  BY <4>1, <2>1, <1>i, <1>t DEF Expired
    <3>6. \A m \in Elems(confirm_messages) :
            m \in Overdue(t) <=> deadline[m] <= now
      BY <2>1, <1>i DEF Overdue
    <3>7. \A m \in Overdue(t) :
            m \in PutBack(t) <=> (lifetime[m] # 0 => lifetime[m] > now)
      BY <2>1, <3>3, <1>i, <1>t DEF PutBack, Expires
    <3>8. \A m \in Elems(queue)' :
            lifetime'[m] # 0 => lifetime'[m] > now_timems'
      BY <2>1, <3>3, <3>5, <3>7, <1>t
    <3>9. \A m \in Elems(confirm_messages)' : deadline'[m] > now_timems'
      BY <2>1, <3>3, <3>6, <1>t
    <3>10. \A m \in accepted' \cap alloc' :
             m \in Elems(queue)' \cup Elems(confirm_messages)'
             \/ (lifetime'[m] # 0 /\ lifetime'[m] <= now_timems')
      <4> SUFFICES ASSUME NEW m \in accepted, m \in alloc, m \notin Expired(t)
                   PROVE  m \in Elems(queue)' \cup Elems(confirm_messages)'
                          \/ (lifetime[m] # 0 /\ lifetime[m] <= now)
        BY <2>1, <3>4
      <4>0. lifetime[m] \in Nat
        BY <1>t
      <4>1. CASE m \in Elems(queue)
        BY <4>1, <3>3
      <4>2. CASE m \in Elems(confirm_messages)
        BY <4>0, <4>2, <3>3, <3>7, <2>1
      <4>3. CASE lifetime[m] # 0 /\ lifetime[m] <= now_timems
        BY <4>0, <4>3, <2>1, <1>t
      <4> QED  BY <4>1, <4>2, <4>3, <1>i
    <3>11. \A m \in Elems(queue)' \cap returned' : deadline'[m] <= now_timems'
      <4> SUFFICES ASSUME NEW m \in Elems(queue)' \cap returned'
                   PROVE  deadline[m] <= now
        BY <2>1
      <4>1. CASE m \in PutBack(t)
        BY <4>1, <3>3, <3>6
      <4>2. CASE m \notin PutBack(t)
        <5>1. m \in Elems(queue) \cap returned
          BY <4>2, <3>3, <3>4
        <5>2. deadline[m] <= now_timems /\ deadline[m] \in Nat
          BY <5>1, <1>i, <1>t
        <5> QED  BY <5>2, <2>1, <1>t
      <4> QED  BY <4>1, <4>2
    <3> QED
      BY <2>1, <3>3, <3>8, <3>9, <3>10, <3>11, <1>i, <1>q
  <2> QED  BY <2>2, <2>3
<1>8. ASSUME NEW c \in Clients, NEW notify \in BOOLEAN, Subscribe(c, notify)
      PROVE  TimedInv'
  BY <1>8, <1>e, <1>f, <1>i, <1>q DEF Subscribe, store_vars, server_vars
<1>9. ASSUME NEW c \in Clients, Unsubscribe(c)
      PROVE  TimedInv'
  BY <1>9, <1>e, <1>f, <1>i, <1>q DEF Unsubscribe, store_vars, server_vars
<1>10. CASE UNCHANGED vars
  BY <1>10, <1>e, <1>f, <1>i, <1>q
  DEF vars, store_vars, server_vars, hist_vars
<1> QED
  BY <1>1, <1>2, <1>3, <1>4, <1>5, <1>6, <1>7, <1>8, <1>9, <1>10
  DEF Next, Push, Tick

(* TimedInv holds in every reachable state.                                *)
LEMMA TimedInvariant ==
    ASSUME NoWrap
    PROVE  Spec => []TimedInv
<1>1. Init => TimedInv
  BY DEF Init, TimedInv, NoExpiredVisible, NoOverdue, NotLost,
         NotBeforeDeadline, Elems, Held
<1>2. StoreInv /\ StoreInv' /\ TimedInv /\ [Next]_vars => TimedInv'
  BY TimedStep
<1> QED
  BY <1>1, <1>2, StoreInvariant, PTL DEF Spec

(* As long as the 32-bit times do not wrap, no expired message can be got  *)
(* or popped.                                                              *)
THEOREM NoExpiredVisibleCorrect ==
    ASSUME NoWrap
    PROVE  Spec => []NoExpiredVisible
<1>1. TimedInv => NoExpiredVisible
  BY DEF TimedInv
<1> QED
  BY <1>1, TimedInvariant, PTL

(* As long as the 32-bit times do not wrap, no message waits for its       *)
(* confirm beyond the deadline.                                            *)
THEOREM NoOverdueCorrect ==
    ASSUME NoWrap
    PROVE  Spec => []NoOverdue
<1>1. TimedInv => NoOverdue
  BY DEF TimedInv
<1> QED
  BY <1>1, TimedInvariant, PTL

(* As long as the 32-bit times do not wrap, an accepted message that was   *)
(* not released is held by the queue or has expired.                       *)
THEOREM NotLostCorrect ==
    ASSUME NoWrap
    PROVE  Spec => []NotLost
<1>1. TimedInv => NotLost
  BY DEF TimedInv
<1> QED
  BY <1>1, TimedInvariant, PTL

(* As long as the 32-bit times do not wrap, a popped message is never back *)
(* in the queue before its deadline.                                       *)
THEOREM NotBeforeDeadlineCorrect ==
    ASSUME NoWrap
    PROVE  Spec => []NotBeforeDeadline
<1>1. TimedInv => NotBeforeDeadline
  BY DEF TimedInv
<1> QED
  BY <1>1, TimedInvariant, PTL

-----------------------------------------------------------------------------
(* The order of the queue *)

(* Every step preserves the order: a push enters at the head, redelivery   *)
(* at the tail, and the others only remove.                                *)
LEMMA OrderStep ==
    ASSUME StoreInv, OldestFirst, [Next]_vars
    PROVE  OldestFirst'
<1>t. /\ TypeOK /\ HeldOnce
      /\ queue \in Seq(1 .. sent) /\ confirm_messages \in Seq(1 .. sent)
      /\ Elems(queue) \subseteq 1 .. sent /\ returned \subseteq 1 .. sent
      /\ Elems(queue) \cap Elems(confirm_messages) = {}
      /\ sent \in Nat /\ Len(queue) \in Nat /\ DOMAIN queue = 1 .. Len(queue)
  <2>1. TypeOK /\ HeldOnce
    BY DEF StoreInv
  <2>2. /\ queue \in Seq(1 .. sent) /\ confirm_messages \in Seq(1 .. sent)
        /\ returned \subseteq 1 .. sent /\ sent \in Nat
    BY <2>1 DEF TypeOK
  <2> QED  BY <2>1, <2>2, SeqFacts DEF HeldOnce
<1>o. \A i, j \in DOMAIN queue :
        i < j /\ queue[j] \notin returned
            => queue[i] \notin returned /\ queue[i] > queue[j]
  BY DEF OldestFirst
<1>u. ASSUME UNCHANGED <<queue, returned>> PROVE OldestFirst'
  BY <1>u, <1>o DEF OldestFirst
<1>1. ASSUME NEW expire \in Expirations, PushStored(expire)
      PROVE  OldestFirst'
  <2> DEFINE rest == IF Full THEN AllButLast(queue) ELSE queue
  <2>1. Created(expire)
    BY <1>1, <1>t, PushStoredFacts
  <2>2. queue' = <<sent'>> \o rest /\ UNCHANGED returned
    BY <1>1, <2>1 DEF PushStored, PushHead, Created
  <2>3. rest \in Seq(1 .. sent)
        /\ \A k \in DOMAIN rest : k \in DOMAIN queue /\ rest[k] = queue[k]
    BY <1>t, FullFacts, AllButLastFacts
  <2>4. sent' = sent + 1 /\ sent' \in 1 .. sent' /\ sent' \notin 1 .. sent
        /\ 1 .. sent \subseteq 1 .. sent'
    BY <2>1 DEF Created
  <2> HIDE DEF rest
  <2>5. rest \in Seq(1 .. sent')
    BY <2>3, <2>4, SeqFacts
  <2>6. /\ queue' \in Seq(1 .. sent') /\ queue'[1] = sent'
        /\ \A k \in DOMAIN queue' :
             k # 1 => k - 1 \in DOMAIN rest /\ queue'[k] = rest[k - 1]
    BY <2>2, <2>4, <2>5, ConsFacts
  <2>7. DOMAIN queue' \subseteq Nat \ {0}
    BY <2>6
  <2> SUFFICES ASSUME NEW i \in DOMAIN queue', NEW j \in DOMAIN queue', i < j,
                      queue'[j] \notin returned
               PROVE  queue'[i] \notin returned /\ queue'[i] > queue'[j]
    BY <2>2 DEF OldestFirst
  <2>8. j # 1 /\ i \in Nat /\ j \in Nat
    BY <2>7
  <2>9. /\ j - 1 \in DOMAIN queue /\ queue'[j] = queue[j - 1]
        /\ queue[j - 1] \in Elems(queue)
    BY <2>3, <2>6, <2>8 DEF Elems
  <2>10. CASE i = 1
    <3>1. queue'[i] = sent + 1 /\ queue'[j] \in 1 .. sent
      BY <2>10, <2>4, <2>6, <2>9, <1>t
    <3>2. queue'[i] > queue'[j]
      BY <3>1, <1>t
    <3> QED  BY <3>1, <3>2, <2>4, <2>6, <2>10, <1>t
  <2>11. CASE i # 1
    <3>1. i - 1 \in DOMAIN queue /\ queue'[i] = queue[i - 1] /\ i - 1 < j - 1
      BY <2>3, <2>6, <2>8, <2>11
    <3> QED  BY <3>1, <2>9, <1>o
  <2> QED  BY <2>10, <2>11
<1>2. ASSUME NEW timeout \in Timeouts, Pop(timeout)
      PROVE  OldestFirst'
  <2>1. queue # <<>> /\ queue' = AllButLast(queue) /\ UNCHANGED returned
    BY <1>2 DEF Pop
  <2>2. \A k \in DOMAIN queue' : k \in DOMAIN queue /\ queue'[k] = queue[k]
    BY <2>1, <1>t, AllButLastFacts
  <2> QED  BY <2>1, <2>2, <1>o DEF OldestFirst
<1>3. ASSUME Purge
      PROVE  OldestFirst'
  <2>1. queue' = <<>>
    BY <1>3 DEF Purge
  <2> QED  BY <2>1 DEF OldestFirst
<1>4. ASSUME NEW step \in Steps, ServerUpdater(step)
      PROVE  OldestFirst'
  <2> DEFINE t == U32(now_timems + step)
  <2>1. CASE Faulty(t)
    BY <1>4, <2>1, <1>u DEF ServerUpdater
  <2>2. CASE ~Faulty(t)
    <3>1. UpdateMessages(t)
      BY <1>4, <2>2 DEF ServerUpdater
    <3> HIDE DEF t
    <3> DEFINE back == Keep(confirm_messages, PutBack(t))
               kept == Keep(queue, Messages \ Expired(t))
    <3>2. queue' = kept \o back /\ returned' = returned \cup PutBack(t)
      BY <3>1 DEF UpdateMessages
    <3>3. PutBack(t) \subseteq Elems(confirm_messages)
      BY DEF PutBack, Overdue
    <3>4. /\ kept \in Seq(1 .. sent)
          /\ Elems(kept) = Elems(queue) \cap (Messages \ Expired(t))
          /\ \A j, k \in DOMAIN kept :
               j < k => \E p, q \in DOMAIN queue :
                          p < q /\ kept[j] = queue[p] /\ kept[k] = queue[q]
      <4> DEFINE S == 1 .. sent
                 T == Messages \ Expired(t)
      <4>1. queue \in Seq(S)
        BY <1>t
      <4> HIDE DEF S, T
      <4>2. /\ Keep(queue, T) \in Seq(S)
            /\ Elems(Keep(queue, T)) = Elems(queue) \cap T
            /\ \A j, k \in DOMAIN Keep(queue, T) :
                 j < k => \E p, q \in DOMAIN queue :
                            /\ p < q
                            /\ Keep(queue, T)[j] = queue[p]
                            /\ Keep(queue, T)[k] = queue[q]
        BY <4>1, KeepFacts
      <4> QED  BY <4>2 DEF S, T
    <3>5. back \in Seq(1 .. sent)
          /\ Elems(back) = Elems(confirm_messages) \cap PutBack(t)
      BY <1>t, KeepFacts
    <3> HIDE DEF back, kept
    <3>6. \A k \in DOMAIN queue' : \/ k \in DOMAIN kept /\ queue'[k] = kept[k]
                                   \/ k > Len(kept) /\ queue'[k] \in Elems(back)
      <4> SUFFICES ASSUME NEW k \in DOMAIN queue'
                   PROVE  \/ k \in DOMAIN kept /\ queue'[k] = kept[k]
                          \/ k > Len(kept) /\ queue'[k] \in Elems(back)
        OBVIOUS
      <4>1. /\ Len(kept) \in Nat /\ Len(back) \in Nat
            /\ k \in 1 .. Len(kept) + Len(back)
            /\ DOMAIN kept = 1 .. Len(kept) /\ DOMAIN back = 1 .. Len(back)
        BY <3>2, <3>4, <3>5
      <4>2. CASE k <= Len(kept)
        BY <4>1, <4>2, <3>2, <3>4, <3>5
      <4>3. CASE k > Len(kept)
        <5>1. k - Len(kept) \in DOMAIN back
          BY <4>1, <4>3
        <5>2. queue'[k] = back[k - Len(kept)]
          BY <4>1, <4>3, <3>2, <3>4, <3>5
        <5> QED  BY <5>1, <5>2, <4>3 DEF Elems
      <4> QED  BY <4>1, <4>2, <4>3
    <3> SUFFICES ASSUME NEW i \in DOMAIN queue', NEW j \in DOMAIN queue', i < j,
                        queue'[j] \notin returned'
                 PROVE  queue'[i] \notin returned' /\ queue'[i] > queue'[j]
      BY DEF OldestFirst
    <3>7. j \in DOMAIN kept /\ queue'[j] = kept[j]
      BY <3>2, <3>5, <3>6
    <3>8. i \in DOMAIN kept /\ queue'[i] = kept[i]
      <4>1. Len(kept) \in Nat /\ j \in 1 .. Len(kept) /\ i \in Int
        BY <3>2, <3>4, <3>5, <3>7
      <4>2. ~ (i > Len(kept))
        BY <4>1
      <4> QED  BY <4>2, <3>6
    <3>9. PICK p, q \in DOMAIN queue :
            p < q /\ kept[i] = queue[p] /\ kept[j] = queue[q]
      BY <3>4, <3>7, <3>8
    <3>10. queue[p] \notin returned /\ queue[p] > queue[q]
      BY <3>2, <3>7, <3>9, <1>o
    <3>11. queue[p] \notin PutBack(t)
      BY <3>3, <1>t DEF Elems
    <3> QED  BY <3>2, <3>7, <3>8, <3>9, <3>10, <3>11
  <2> QED  BY <2>1, <2>2
<1>5. ASSUME NEW expire \in Expirations, NEW fits \in BOOLEAN,
             PushRefused(expire, fits)
      PROVE  OldestFirst'
  BY <1>5, <1>u DEF PushRefused
<1>6. ASSUME NEW expire \in Expirations, PushDelivered(expire)
      PROVE  OldestFirst'
  BY <1>6, <1>u DEF PushDelivered
<1>7. ASSUME NEW tag, Confirm(tag)
      PROVE  OldestFirst'
  BY <1>7, <1>u DEF Confirm, hist_vars
<1>8. ASSUME NEW c \in Clients, NEW notify \in BOOLEAN, Subscribe(c, notify)
      PROVE  OldestFirst'
  BY <1>8, <1>u DEF Subscribe, store_vars
<1>9. ASSUME NEW c \in Clients, Unsubscribe(c)
      PROVE  OldestFirst'
  BY <1>9, <1>u DEF Unsubscribe, store_vars
<1>10. CASE UNCHANGED vars
  BY <1>10, <1>u DEF vars, store_vars, hist_vars
<1> QED
  BY <1>1, <1>2, <1>3, <1>4, <1>5, <1>6, <1>7, <1>8, <1>9, <1>10
  DEF Next, Push, Tick

(* In every behaviour the messages that were never put back are popped in  *)
(* the order in which they were sent, and those that were put back go      *)
(* first, whatever the clock does.                                         *)
THEOREM OldestFirstCorrect == Spec => []OldestFirst
<1>1. Init => OldestFirst
  BY DEF Init, OldestFirst
<1>2. StoreInv /\ OldestFirst /\ [Next]_vars => OldestFirst'
  BY OrderStep
<1> QED
  BY <1>1, <1>2, StoreInvariant, PTL DEF Spec

-----------------------------------------------------------------------------
(* Tags *)

(* The tags of all messages ever sent are different, and none is ahead of  *)
(* the clock and the counter, from which the next tag is made: the counter *)
(* starts again only when the clock has moved.                             *)
TagInv ==
    /\ \A m \in 1 .. sent :
         /\ message[m].tag[1] <= now_timems
         /\ message[m].tag[1] = now_timems => message[m].tag[2] < msg_counter
    /\ \A m, n \in 1 .. sent : message[m].tag = message[n].tag => m = n

(* A push gives the new message a tag that no other has.                   *)
LEMMA TagCreated ==
    ASSUME NoWrap, TypeOK, TagInv, Request, UNCHANGED now_timems,
           NEW expire \in Expirations, CreateMessage(sent + 1, expire)
    PROVE  TagInv'
<1>1. Created(expire)
  BY CreateMessageFacts
<1>2. /\ sent \in Nat /\ sent' = sent + 1 /\ sent + 1 \in Messages
      /\ now_timems \in Nat /\ msg_counter \in Nat
      /\ msg_counter' = msg_counter + 1
      /\ message \in [Messages -> Message]
      /\ \A m \in 1 .. sent : message'[m] = message[m]
  BY <1>1 DEF Created, TypeOK, CreateMessage
<1>3. U32(now_timems) = now_timems
  <2>1. now_timems <= Horizon /\ Horizon + expire < Modulus
        /\ Horizon \in Nat /\ expire \in Nat /\ Modulus \in Nat
    BY QueueAssumption DEF Request, NoWrap
  <2>2. now_timems < Modulus
    BY <1>2, <2>1
  <2> QED  BY <1>2, <2>2, U32Exact
<1>4. message'[sent'].tag = <<now_timems, msg_counter>>
  BY <1>2, <1>3 DEF CreateMessage, make_message_tag
<1> DEFINE tag(m) == message[m].tag
<1>5. \A m \in 1 .. sent : message'[m].tag = tag(m)
  BY <1>2
<1>6. \A m \in 1 .. sent :
        tag(m)[1] <= now_timems
        /\ (tag(m)[1] = now_timems => tag(m)[2] < msg_counter)
  BY DEF TagInv
<1>7. \A m, n \in 1 .. sent : tag(m) = tag(n) => m = n
  BY DEF TagInv
<1>8. \A m \in 1 .. sent : tag(m)[2] \in Nat
  <2> SUFFICES ASSUME NEW m \in 1 .. sent PROVE tag(m)[2] \in Nat
    OBVIOUS
  <2>1. m \in Messages
    BY <1>1 DEF Created
  <2>2. message[m] \in Message
    BY <1>2, <2>1
  <2>3. tag(m) \in (0 .. Modulus - 1) \X Nat
    BY <2>2 DEF Message
  <2> QED  BY <2>3
<1> HIDE DEF tag
<1>9. \A m \in 1 .. sent' : m \in 1 .. sent \/ m = sent'
  BY <1>2
<1>10. \A m \in 1 .. sent : tag(m) # <<now_timems, msg_counter>>
  <2> SUFFICES ASSUME NEW m \in 1 .. sent,
                      tag(m) = <<now_timems, msg_counter>>
               PROVE  FALSE
    OBVIOUS
  <2>1. tag(m)[1] = now_timems /\ tag(m)[2] = msg_counter
    OBVIOUS
  <2> QED  BY <2>1, <1>2, <1>6
<1>11. \A m \in 1 .. sent' :
         /\ message'[m].tag[1] <= now_timems'
         /\ message'[m].tag[1] = now_timems' => message'[m].tag[2] < msg_counter'
  <2> SUFFICES ASSUME NEW m \in 1 .. sent'
               PROVE  /\ message'[m].tag[1] <= now_timems
                      /\ message'[m].tag[1] = now_timems
                            => message'[m].tag[2] < msg_counter + 1
    BY <1>2
  <2>1. CASE m \in 1 .. sent
    BY <2>1, <1>2, <1>5, <1>6, <1>8
  <2>2. CASE m = sent'
    BY <2>2, <1>2, <1>4
  <2> QED  BY <2>1, <2>2, <1>9
<1>12. \A m, n \in 1 .. sent' : message'[m].tag = message'[n].tag => m = n
  <2> SUFFICES ASSUME NEW m \in 1 .. sent', NEW n \in 1 .. sent',
                      message'[m].tag = message'[n].tag
               PROVE  m = n
    OBVIOUS
  <2>1. CASE m \in 1 .. sent /\ n \in 1 .. sent
    BY <2>1, <1>5, <1>7
  <2>2. CASE m \in 1 .. sent /\ n = sent'
    BY <2>2, <1>4, <1>5, <1>10
  <2>3. CASE m = sent' /\ n \in 1 .. sent
    BY <2>3, <1>4, <1>5, <1>10
  <2> QED  BY <2>1, <2>2, <2>3, <1>9
<1> QED
  BY <1>11, <1>12 DEF TagInv

(* Every step preserves TagInv.                                            *)
LEMMA TagStep ==
    ASSUME NoWrap, TypeOK, TagInv, [Next]_vars
    PROVE  TagInv'
<1>1. ASSUME NEW expire \in Expirations, NEW fits \in BOOLEAN,
             PushRefused(expire, fits)
      PROVE  TagInv'
  BY <1>1, TagCreated DEF PushRefused
<1>2. ASSUME NEW expire \in Expirations, PushDelivered(expire)
      PROVE  TagInv'
  BY <1>2, TagCreated DEF PushDelivered
<1>3. ASSUME NEW expire \in Expirations, PushStored(expire)
      PROVE  TagInv'
  BY <1>3, TagCreated DEF PushStored
<1>u. ASSUME UNCHANGED <<now_timems, msg_counter, sent, message>>
      PROVE  TagInv'
  BY <1>u DEF TagInv
<1>4. ASSUME NEW timeout \in Timeouts, Pop(timeout)
      PROVE  TagInv'
  <2>1. UNCHANGED <<now_timems, msg_counter, sent>>
    BY <1>4 DEF Pop, server_vars
  <2>2. /\ message \in [Messages -> Message] /\ 1 .. sent \subseteq Messages
    BY QueueAssumption DEF TypeOK, Messages
  <2>3. \A m \in 1 .. sent : message'[m].tag = message[m].tag
    <3>1. CASE timeout = 0
      BY <3>1, <1>4 DEF Pop
    <3>2. CASE timeout # 0
      <4> DEFINE x == LastOf(queue)
                 t == U32(now_timems + timeout)
      <4>1. message' = [message EXCEPT ![x].confirm = t]
        BY <3>2, <1>4 DEF Pop
      <4> HIDE DEF x, t
      <4>2. \A r \in Message : [r EXCEPT !.confirm = t].tag = r.tag
        BY DEF Message
      <4> QED  BY <4>1, <4>2, <2>2
    <3> QED  BY <3>1, <3>2
  <2> QED  BY <2>1, <2>3 DEF TagInv
<1>5. ASSUME NEW tag, Confirm(tag)
      PROVE  TagInv'
  BY <1>5, <1>u DEF Confirm, server_vars
<1>6. CASE Purge
  BY <1>6, <1>u DEF Purge, server_vars
<1>7. ASSUME NEW c \in Clients, NEW notify \in BOOLEAN, Subscribe(c, notify)
      PROVE  TagInv'
  BY <1>7, <1>u DEF Subscribe, server_vars, store_vars
<1>8. ASSUME NEW c \in Clients, Unsubscribe(c)
      PROVE  TagInv'
  BY <1>8, <1>u DEF Unsubscribe, server_vars, store_vars
<1>9. ASSUME NEW step \in Steps, ServerUpdater(step)
      PROVE  TagInv'
  <2>1. /\ now_timems' = now_timems + step /\ now_timems \in Nat
        /\ step \in Nat \ {0} /\ UNCHANGED <<sent, message>>
    BY <1>9, QueueAssumption DEF ServerUpdater, TypeOK
  <2>2. \A m \in 1 .. sent : message[m].tag[1] \in Nat
    <3>1. message \in [Messages -> Message] /\ 1 .. sent \subseteq Messages
      BY QueueAssumption DEF TypeOK, Messages
    <3>2. \A r \in Message : r.tag \in (0 .. Modulus - 1) \X Nat
      BY DEF Message
    <3>3. \A p \in (0 .. Modulus - 1) \X Nat : p[1] \in Nat
      BY QueueAssumption
    <3> QED  BY <3>1, <3>2, <3>3
  <2>3. \A m \in 1 .. sent : message[m].tag[1] < now_timems'
    BY <2>1, <2>2 DEF TagInv
  <2> QED  BY <2>1, <2>2, <2>3 DEF TagInv
<1>10. CASE UNCHANGED vars
  BY <1>10, <1>u DEF vars, server_vars, store_vars
<1> QED
  BY <1>1, <1>2, <1>3, <1>4, <1>5, <1>6, <1>7, <1>8, <1>9, <1>10
  DEF Next, Push, Tick

(* As long as the clock does not wrap, a confirm names one message: no two *)
(* messages in memory have the same tag.                                   *)
THEOREM UniqueTagsCorrect ==
    ASSUME NoWrap
    PROVE  Spec => []UniqueTags
<1>1. Init => TagInv
  BY DEF Init, TagInv
<1>2. TypeOK /\ TagInv /\ [Next]_vars => TagInv'
  BY TagStep
<1>3. TypeOK /\ TagInv => UniqueTags
  BY DEF TypeOK, TagInv, UniqueTags
<1> QED
  BY <1>1, <1>2, <1>3, TypeCorrect, PTL DEF Spec

-----------------------------------------------------------------------------
(* What leaves the queue *)

(* A step that takes a message out of the queue takes the oldest, or one   *)
(* whose time is over, or all of them.                                     *)
LEMMA LeaveStep ==
    ASSUME NoWrap, StoreInv, TimedInv, [Next]_vars,
           NEW m \in Elems(queue) \ Elems(queue)'
    PROVE  \/ m = LastOf(queue)
           \/ lifetime[m] # 0 /\ lifetime[m] <= now_timems'
           \/ queue' = <<>>
<1>t. /\ TypeOK /\ HeldOnce /\ ExpireIndex
      /\ queue \in Seq(1 .. sent) /\ NoRepetition(queue)
      /\ Elems(queue) \subseteq 1 .. sent /\ 1 .. sent \subseteq Messages
      /\ m \in 1 .. sent /\ queue # <<>>
  <2>1. TypeOK /\ HeldOnce /\ ExpireIndex
    BY DEF StoreInv
  <2>2. queue \in Seq(1 .. sent) /\ NoRepetition(queue)
    BY <2>1 DEF TypeOK, HeldOnce
  <2>3. Elems(queue) \subseteq 1 .. sent /\ (queue = <<>> => Elems(queue) = {})
    BY <2>2, SeqFacts
  <2>4. 1 .. sent \subseteq Messages
    BY <2>1, QueueAssumption DEF TypeOK, Messages
  <2> QED  BY <2>1, <2>2, <2>3, <2>4
<1>u. ASSUME UNCHANGED queue PROVE FALSE
  BY <1>u DEF Elems
<1>1. ASSUME NEW expire \in Expirations, NEW fits \in BOOLEAN,
             PushRefused(expire, fits)
      PROVE  FALSE
  BY <1>1, <1>u DEF PushRefused
<1>2. ASSUME NEW expire \in Expirations, PushDelivered(expire)
      PROVE  FALSE
  BY <1>2, <1>u DEF PushDelivered
<1>3. ASSUME NEW expire \in Expirations, PushStored(expire)
      PROVE  m = LastOf(queue)
  <2> DEFINE rest == IF Full THEN AllButLast(queue) ELSE queue
  <2>1. Created(expire)
    BY <1>3, <1>t, CreateMessageFacts DEF PushStored
  <2>2. queue' = <<sent'>> \o rest
    BY <1>3, <2>1 DEF PushStored, PushHead, Created
  <2>3. rest \in Seq(1 .. sent)
        /\ Elems(queue) \ {LastOf(queue)} \subseteq Elems(rest)
    BY <1>t, AllButLastFacts
  <2> HIDE DEF rest
  <2>4. rest \in Seq(1 .. sent') /\ sent' \in 1 .. sent'
    BY <2>1, <2>3, SeqFacts DEF Created
  <2>5. Elems(<<sent'>> \o rest) = Elems(rest) \cup {sent'}
    BY <2>4, ConsFacts
  <2>6. Elems(queue)' = Elems(rest) \cup {sent'}
    BY <2>2, <2>5 DEF Elems
  <2> QED  BY <2>3, <2>6
<1>4. ASSUME NEW timeout \in Timeouts, Pop(timeout)
      PROVE  m = LastOf(queue)
  <2>1. queue' = AllButLast(queue)
    BY <1>4 DEF Pop
  <2>2. Elems(AllButLast(queue)) = Elems(queue) \ {LastOf(queue)}
    BY <1>t, AllButLastFacts
  <2>3. Elems(queue)' = Elems(queue) \ {LastOf(queue)}
    BY <2>1, <2>2 DEF Elems
  <2> QED  BY <2>3
<1>5. ASSUME NEW tag, Confirm(tag)
      PROVE  FALSE
  BY <1>5, <1>u DEF Confirm
<1>6. CASE Purge
  BY <1>6 DEF Purge
<1>7. ASSUME NEW c \in Clients, NEW notify \in BOOLEAN, Subscribe(c, notify)
      PROVE  FALSE
  BY <1>7, <1>u DEF Subscribe, store_vars
<1>8. ASSUME NEW c \in Clients, Unsubscribe(c)
      PROVE  FALSE
  BY <1>8, <1>u DEF Unsubscribe, store_vars
<1>9. ASSUME NEW step \in Steps, ServerUpdater(step)
      PROVE  lifetime[m] # 0 /\ lifetime[m] <= now_timems'
  <2> DEFINE t == U32(now_timems + step)
  <2>1. /\ now_timems' = now_timems + step /\ now_timems + step <= MaxTime
        /\ ~ Faulty(t) => UpdateMessages(t)
        /\ Faulty(t) => UNCHANGED queue
    BY <1>9 DEF ServerUpdater
  <2>2. t = now_timems'
    <3>1. now_timems + step \in Nat /\ MaxTime \in Nat /\ Modulus \in Nat
          /\ MaxTime < Modulus
      BY <1>t, QueueAssumption DEF TypeOK, NoWrap
    <3>2. now_timems + step < Modulus
      BY <3>1, <2>1
    <3> QED  BY <3>1, <3>2, <2>1, U32Exact
  <2>3. UpdateMessages(t)
    BY <2>1, <1>u
  <2> HIDE DEF t
  <2>4. Elems(queue)' = (Elems(queue) \ Expired(t)) \cup PutBack(t)
    BY <2>3, <1>t, UpdateFacts
  <2>5. m \in Expired(t)
    BY <2>4
  <2>6. m \in expire_messages /\ message[m].expiration <= now_timems'
    BY <2>5, <2>2 DEF Expired
  <2>7. m \in alloc
    BY <1>t DEF HeldOnce, Held
  <2>8. message[m].expiration # 0
    BY <2>6, <2>7, <1>t DEF ExpireIndex, Expires
  <2>9. message[m].expiration = lifetime[m]
    BY <1>t DEF TimedInv
  <2> QED  BY <2>6, <2>8, <2>9
<1>10. CASE UNCHANGED vars
  BY <1>10, <1>u DEF vars, store_vars
<1> QED
  BY <1>1, <1>2, <1>3, <1>4, <1>5, <1>6, <1>7, <1>8, <1>9, <1>10
  DEF Next, Push, Tick

(* As long as the clock does not wrap, no message is dropped by a pop, a   *)
(* forced push or server_updater but the oldest and the expired ones.      *)
THEOREM LeavesAsOldestCorrect ==
    ASSUME NoWrap
    PROVE  Spec => LeavesAsOldest
<1>1. StoreInv /\ TimedInv /\ [Next]_vars =>
        [\A m \in Elems(queue) \ Elems(queue)' :
            \/ m = LastOf(queue)
            \/ lifetime[m] # 0 /\ lifetime[m] <= now_timems'
            \/ queue' = <<>>]_vars
  BY LeaveStep
<1> QED
  BY <1>1, StoreInvariant, TimedInvariant, PTL DEF Spec, LeavesAsOldest

-----------------------------------------------------------------------------
(* Delivery in turn *)

(* The subscribers stand in the order in which they were served, the last  *)
(* one first, so none has got more than one before it; and none is listed  *)
(* twice, or it would be served twice a round.                             *)
TurnInv ==
    /\ NoRepetition(subscribed_clients_msg)
    /\ \A i, j \in DOMAIN subscribed_clients_msg :
         i < j => share[subscribed_clients_msg[j]]
                    <= share[subscribed_clients_msg[i]]
    /\ Balanced

(* Every step preserves TurnInv.                                           *)
LEMMA TurnStep ==
    ASSUME TypeOK, TurnInv, [Next]_vars
    PROVE  TurnInv'
<1> DEFINE s == subscribed_clients_msg
<1>t. /\ s \in Seq(Clients) /\ share \in [Clients -> Nat] /\ NoRepetition(s)
      /\ Len(s) \in Nat /\ DOMAIN s = 1 .. Len(s)
      /\ \A i \in DOMAIN s : s[i] \in Clients /\ share[s[i]] \in Nat
      /\ \A i, j \in DOMAIN s : i < j => share[s[j]] <= share[s[i]]
      /\ \A i, j \in DOMAIN s : share[s[i]] <= share[s[j]] + 1
  <2>1. s \in Seq(Clients) /\ share \in [Clients -> Nat] /\ NoRepetition(s)
    BY DEF TypeOK, TurnInv
  <2>2. \A i, j \in DOMAIN s : share[s[i]] <= share[s[j]] + 1
    BY DEF TurnInv, Balanced, Elems
  <2> QED  BY <2>1, <2>2 DEF TurnInv
<1>q. ASSUME NoRepetition(s'),
             \A i, j \in DOMAIN s' : i < j => share'[s'[j]] <= share'[s'[i]],
             \A i, j \in DOMAIN s' : share'[s'[i]] <= share'[s'[j]] + 1
      PROVE  TurnInv'
  BY <1>q DEF TurnInv, Balanced, Elems, NoRepetition
<1>u. ASSUME UNCHANGED <<subscribed_clients_msg, share>>
      PROVE  TurnInv'
  BY <1>u DEF TurnInv, Balanced, Elems, NoRepetition
<1>z. ASSUME share' = [d \in Clients |-> 0], s' \in Seq(Clients),
             NoRepetition(s')
      PROVE  TurnInv'
  <2>1. \A i \in DOMAIN s' : share'[s'[i]] = 0
    BY <1>z
  <2> QED  BY <2>1, <1>z, <1>q
<1>1. ASSUME NEW expire \in Expirations, NEW fits \in BOOLEAN,
             PushRefused(expire, fits)
      PROVE  TurnInv'
  BY <1>1, <1>u DEF PushRefused, sub_vars
<1>2. ASSUME NEW expire \in Expirations, PushDelivered(expire), round_robin
      PROVE  TurnInv'
  <2> DEFINE n == Len(s)
  <2>1. /\ s # <<>> /\ s' = Rotate(s)
        /\ share' = [share EXCEPT ![s'[1]] = @ + 1]
    BY <1>2 DEF PushDelivered
  <2>2. n \in Nat \ {0} /\ n \in DOMAIN s /\ DOMAIN s = 1 .. n
    BY <1>t, <2>1
  <2>3. NoRepetition(s') /\ s'[1] = s[n]
    BY <2>1, <1>t, RotateFacts DEF LastOf
  <2>4. /\ DOMAIN s' = 1 .. n
        /\ \A k \in 1 .. n : k # 1 => k - 1 \in 1 .. n - 1 /\ s'[k] = s[k - 1]
    <3>1. /\ AllButLast(s) \in Seq(Clients) /\ Len(AllButLast(s)) = n - 1
          /\ \A k \in DOMAIN AllButLast(s) : AllButLast(s)[k] = s[k]
          /\ LastOf(s) \in Clients
      BY <1>t, <2>1, <2>2, AllButLastFacts DEF LastOf
    <3> DEFINE a == AllButLast(s)
               r == <<LastOf(s)>> \o a
    <3>2. /\ r \in Seq(Clients) /\ Len(r) = Len(a) + 1
          /\ \A k \in DOMAIN r : k # 1 => k - 1 \in DOMAIN a /\ r[k] = a[k - 1]
      BY <3>1, ConsFacts
    <3>3. s' = r
      BY <2>1 DEF Rotate
    <3> HIDE DEF a, r
    <3>4. DOMAIN r = 1 .. n /\ DOMAIN a = 1 .. n - 1
      BY <3>1, <3>2, <2>2 DEF a
    <3> QED  BY <3>1, <3>2, <3>3, <3>4 DEF a
  <2>5. /\ share'[s'[1]] = share[s[n]] + 1
        /\ \A k \in 1 .. n : k # 1 => share'[s'[k]] = share[s[k - 1]]
    <3>1. share'[s[n]] = share[s[n]] + 1
      BY <2>1, <2>2, <2>3, <1>t
    <3>2. \A k \in 1 .. n - 1 : k \in DOMAIN s /\ k # n
      <4> HIDE DEF n
      <4> QED  BY <2>2
    <3>3. \A k \in 1 .. n - 1 : s[k] # s[n]
      BY <3>2, <2>2, <1>t DEF NoRepetition
    <3>4. \A k \in 1 .. n - 1 : share'[s[k]] = share[s[k]]
      BY <3>2, <3>3, <2>1, <2>3, <1>t
    <3> QED  BY <3>1, <3>4, <2>3, <2>4
  <2>6. \A i, j \in 1 .. n : i < j => share'[s'[j]] <= share'[s'[i]]
    <3> SUFFICES ASSUME NEW i \in 1 .. n, NEW j \in 1 .. n, i < j
                 PROVE  share'[s'[j]] <= share'[s'[i]]
      OBVIOUS
    <3>1. j # 1 /\ j - 1 \in DOMAIN s /\ share'[s'[j]] = share[s[j - 1]]
      BY <2>2, <2>4, <2>5, <1>t
    <3>2. CASE i = 1
      BY <3>1, <3>2, <2>2, <2>5, <1>t
    <3>3. CASE i # 1
      <4>1. i - 1 \in DOMAIN s /\ share'[s'[i]] = share[s[i - 1]] /\ i - 1 < j - 1
        BY <3>3, <2>2, <2>4, <2>5, <1>t
      <4> QED  BY <3>1, <4>1, <1>t
    <3> QED  BY <3>2, <3>3
  <2>7. \A i, j \in 1 .. n : share'[s'[i]] <= share'[s'[j]] + 1
    <3>1. \A k \in 1 .. n : share[s[n]] <= share'[s'[k]]
                            /\ share'[s'[k]] <= share[s[n]] + 1
      <4> SUFFICES ASSUME NEW k \in 1 .. n
                   PROVE  share[s[n]] <= share'[s'[k]]
                          /\ share'[s'[k]] <= share[s[n]] + 1
        OBVIOUS
      <4>1. CASE k = 1
        BY <4>1, <2>2, <2>5, <1>t
      <4>2. CASE k # 1
        <5>1. /\ k - 1 \in DOMAIN s /\ k - 1 < n
              /\ share'[s'[k]] = share[s[k - 1]]
          BY <4>2, <2>2, <2>4, <2>5, <1>t
        <5> QED  BY <5>1, <2>2, <1>t
      <4> QED  BY <4>1, <4>2
    <3>2. share[s[n]] \in Nat /\ \A k \in 1 .. n : share'[s'[k]] \in Nat
      <4>1. share[s[n]] \in Nat
        BY <1>t, <2>2
      <4>2. \A k \in 1 .. n : k # 1 => share[s[k - 1]] \in Nat
        BY <1>t, <2>2, <2>4
      <4> QED  BY <4>1, <4>2, <2>5
    <3> QED  BY <3>1, <3>2
  <2> QED  BY <2>3, <2>4, <2>6, <2>7, <1>q
<1>3. ASSUME NEW expire \in Expirations, PushDelivered(expire), ~ round_robin
      PROVE  TurnInv'
  <2>1. UNCHANGED subscribed_clients_msg
        /\ share' = [c \in Clients |-> IF c \in Elems(s) THEN share[c] + 1
                                                         ELSE share[c]]
    BY <1>3 DEF PushDelivered
  <2>2. \A i \in DOMAIN s : share'[s[i]] = share[s[i]] + 1
    BY <2>1, <1>t DEF Elems
  <2>3. /\ \A i, j \in DOMAIN s : i < j => share'[s[j]] <= share'[s[i]]
        /\ \A i, j \in DOMAIN s : share'[s[i]] <= share'[s[j]] + 1
    BY <2>2, <1>t
  <2> QED  BY <2>1, <2>3, <1>t, <1>q
<1>4. ASSUME NEW expire \in Expirations, PushStored(expire)
      PROVE  TurnInv'
  BY <1>4, <1>u DEF PushStored, sub_vars
<1>5. ASSUME NEW timeout \in Timeouts, Pop(timeout)
      PROVE  TurnInv'
  BY <1>5, <1>u DEF Pop, sub_vars
<1>6. ASSUME NEW tag, Confirm(tag)
      PROVE  TurnInv'
  BY <1>6, <1>u DEF Confirm, sub_vars, hist_vars
<1>7. CASE Purge
  BY <1>7, <1>u DEF Purge, sub_vars, hist_vars
<1>8. ASSUME NEW c \in Clients, NEW notify \in BOOLEAN, Subscribe(c, notify)
      PROVE  TurnInv'
  <2>1. CASE notify
    BY <2>1, <1>8, <1>u DEF Subscribe
  <2>2. CASE ~ notify
    <3>1. s' = Append(s, c) /\ share' = [d \in Clients |-> 0] /\ c \notin Elems(s)
      BY <2>2, <1>8 DEF Subscribe, MaySubscribe, Subscribed
    <3>2. Append(s, c) \in Seq(Clients) /\ NoRepetition(Append(s, c))
      BY <3>1, <1>t, AppendFacts
    <3> QED  BY <3>1, <3>2, <1>z
  <2> QED  BY <2>1, <2>2
<1>9. ASSUME NEW c \in Clients, Unsubscribe(c)
      PROVE  TurnInv'
  <2> DEFINE T == Clients \ {c}
             r == Keep(s, T)
  <2>1. s' = r /\ share' = IF c \in Elems(s) THEN [d \in Clients |-> 0] ELSE share
    BY <1>9 DEF Unsubscribe
  <2>2. r \in Seq(Clients) /\ NoRepetition(r)
    BY <1>t, KeepFacts, KeepNoRepetition
  <2>3. CASE c \in Elems(s)
    BY <2>1, <2>2, <2>3, <1>z
  <2>4. CASE c \notin Elems(s)
    <3>1. \E f \in [DOMAIN r -> DOMAIN s] :
            /\ \A j, k \in DOMAIN r : j < k => f[j] < f[k]
            /\ \A k \in DOMAIN r : r[k] = s[f[k]] /\ s[f[k]] \in T
            /\ \A i \in DOMAIN s : s[i] \in T => \E k \in DOMAIN r : f[k] = i
      <4>1. s \in Seq(Clients)
        BY <1>t
      <4> HIDE DEF s, T
      <4> QED  BY <4>1, KeepPositions
    <3> HIDE DEF r
    <3>2. PICK f \in [DOMAIN r -> DOMAIN s] :
            /\ \A j, k \in DOMAIN r : j < k => f[j] < f[k]
            /\ \A k \in DOMAIN r : r[k] = s[f[k]]
      BY <3>1
    <3>3. /\ \A i, j \in DOMAIN r : i < j => share[r[j]] <= share[r[i]]
          /\ \A i, j \in DOMAIN r : share[r[i]] <= share[r[j]] + 1
      BY <3>2, <1>t
    <3> QED  BY <2>1, <2>2, <2>4, <3>3, <1>q
  <2> QED  BY <2>3, <2>4
<1>10. ASSUME NEW step \in Steps, ServerUpdater(step)
      PROVE  TurnInv'
  BY <1>10, <1>u DEF ServerUpdater, sub_vars
<1>11. CASE UNCHANGED vars
  BY <1>11, <1>u DEF vars, sub_vars, hist_vars
<1> QED
  BY <1>1, <1>2, <1>3, <1>4, <1>5, <1>6, <1>7, <1>8, <1>9, <1>10, <1>11
  DEF Next, Push, Tick

(* While the list of subscribers is the same, none gets two messages more  *)
(* than another, for any number of subscribers and messages.               *)
THEOREM BalancedCorrect == Spec => []Balanced
<1>1. Init => TurnInv
  BY DEF Init, TurnInv, Balanced, Elems, NoRepetition
<1>2. TypeOK /\ TurnInv /\ [Next]_vars => TurnInv'
  BY TurnStep
<1>3. TurnInv => Balanced
  BY DEF TurnInv
<1> QED
  BY <1>1, <1>2, <1>3, TypeCorrect, PTL DEF Spec
=============================================================================
