--------------------------- MODULE ChannelsProofs ---------------------------
(***************************************************************************)
(* Proofs about Channels, for every value of its constants.                *)
(***************************************************************************)
EXTENDS Channels, ListProofs, FiniteSetTheorems

(* The lists of the channels, and the records of the clients.              *)
ChannelLists == [Channels -> [Keys -> Seq(Clients)]]
ClientKeys   == [Clients -> [Channels -> SUBSET Keys]]

(* The two sides of the subscriptions agree, nobody is in a list twice,    *)
(* and whoever is in a list is connected, and the channel exists.          *)
SubInv ==
    /\ clients \subseteq Clients
    /\ chan \in [Channels -> Channel_t \cup {Null}]
    /\ lists \in ChannelLists
    /\ subscribed \in ClientKeys
    /\ \A ch \in Channels, k \in Keys : NoRepetition(lists[ch][k])
    /\ \A c \in Clients, ch \in Channels, k \in Keys :
         /\ k \in subscribed[c][ch] <=> c \in Elems(lists[ch][k])
         /\ k \in subscribed[c][ch] => c \in clients /\ chan[ch] # Null

-----------------------------------------------------------------------------
(* Lists *)

(* list_delete_value on a list that has nobody twice.                      *)
LEMMA DeleteValueFacts ==
    ASSUME NEW s \in Seq(Clients), NoRepetition(s), NEW c
    PROVE  /\ list_delete_value(s, c) \in Seq(Clients)
           /\ NoRepetition(list_delete_value(s, c))
           /\ Elems(list_delete_value(s, c)) = Elems(s) \ {c}
           /\ c \in Elems(s) => \E i \in DOMAIN s :
                s[i] = c /\ list_delete_value(s, c) = Without(s, i)
           /\ c \notin Elems(s) => list_delete_value(s, c) = s
<1>1. CASE c \notin Elems(s)
  BY <1>1 DEF list_delete_value
<1>2. CASE c \in Elems(s)
  <2> DEFINE First(i) == s[i] = c /\ \A j \in 1 .. i - 1 : s[j] # c
             at == CHOOSE i \in DOMAIN s : First(i)
             T == {i \in DOMAIN s : s[i] = c}
  <2>1. DOMAIN s = 1 .. Len(s) /\ Len(s) \in Nat
    OBVIOUS
  <2>2. T \subseteq Nat /\ T # {}
    BY <1>2, <2>1 DEF Elems
  <2>3. PICK m \in T : \A y \in T : m <= y
    BY <2>2, LeastNatural
  <2>4. m \in DOMAIN s /\ First(m)
    BY <2>1, <2>3
  <2>5. at \in DOMAIN s /\ First(at)
    BY <2>4
  <2>6. list_delete_value(s, c) = Without(s, at)
    BY <1>2 DEF list_delete_value
  <2> HIDE DEF at
  <2> QED  BY <1>2, <2>5, <2>6, WithoutFacts
<1> QED
  BY <1>1, <1>2

(* How often a client is in a list that has nobody twice.                  *)
LEMMA CountFacts ==
    ASSUME NEW s \in Seq(Clients), NoRepetition(s), NEW c
    PROVE  Count(s, c) = IF c \in Elems(s) THEN 1 ELSE 0
<1> DEFINE T == {i \in DOMAIN s : s[i] = c}
<1>1. CASE c \in Elems(s)
  <2>1. PICK i \in DOMAIN s : s[i] = c
    BY <1>1 DEF Elems
  <2>2. T = {i}
    BY <2>1 DEF NoRepetition
  <2> QED  BY <1>1, <2>2, FS_Singleton DEF Count
<1>2. CASE c \notin Elems(s)
  <2>1. T = {}
    BY <1>2 DEF Elems
  <2> QED  BY <1>2, <2>1, FS_EmptySet DEF Count
<1> QED
  BY <1>1, <1>2

-----------------------------------------------------------------------------
(* Subscriptions *)

(* The end of a connection takes the client off all lists, since it is on  *)
(* those that its record names.                                            *)
LEMMA FreeClientSub ==
    ASSUME SubInv, NEW c \in Clients, FreeClient(c)
    PROVE  SubInv'
<1>t. /\ lists \in ChannelLists /\ subscribed \in ClientKeys
      /\ clients \subseteq Clients
  BY DEF SubInv
<1>1. ASSUME NEW ch \in Channels, NEW k \in Keys
      PROVE  /\ lists'[ch][k] \in Seq(Clients)
             /\ NoRepetition(lists'[ch][k])
             /\ Elems(lists'[ch][k]) = Elems(lists[ch][k]) \ {c}
  <2>1. lists[ch][k] \in Seq(Clients) /\ NoRepetition(lists[ch][k])
    BY <1>t DEF SubInv, ChannelLists
  <2>2. lists'[ch][k] = IF k \in subscribed[c][ch]
                        THEN list_delete_value(lists[ch][k], c)
                        ELSE lists[ch][k]
    BY DEF FreeClient, Ejected
  <2>3. k \in subscribed[c][ch] <=> c \in Elems(lists[ch][k])
    BY DEF SubInv
  <2>4. CASE k \in subscribed[c][ch]
    BY <2>1, <2>2, <2>4, DeleteValueFacts
  <2>5. CASE k \notin subscribed[c][ch]
    BY <2>1, <2>2, <2>3, <2>5
  <2> QED  BY <2>4, <2>5
<1>2. lists' \in ChannelLists
  BY <1>1 DEF ChannelLists, FreeClient, Ejected
<1>3. /\ subscribed' \in ClientKeys
      /\ \A d \in Clients, ch \in Channels :
           subscribed'[d][ch] = IF d = c THEN {} ELSE subscribed[d][ch]
  BY <1>t DEF FreeClient, ClientKeys
<1>4. clients' = clients \ {c}
  BY DEF FreeClient
<1>5. /\ chan' \in [Channels -> Channel_t \cup {Null}]
      /\ \A ch \in Channels :
           /\ chan'[ch] = Null \/ chan'[ch] = chan[ch]
           /\ chan'[ch] # chan[ch] => \A k \in Keys : lists'[ch][k] = << >>
  <2>1. chan \in [Channels -> Channel_t \cup {Null}]
    BY DEF SubInv
  <2>2. ASSUME NEW ch \in Channels, Unused(ch, lists'[ch])
        PROVE  \A k \in Keys : lists'[ch][k] = << >>
    BY <2>2 DEF Unused
  <2> QED  BY <2>1, <2>2 DEF FreeClient, Released
<1>6. ASSUME NEW d \in Clients, NEW ch \in Channels, NEW k \in Keys
      PROVE  /\ k \in subscribed'[d][ch] <=> d \in Elems(lists'[ch][k])
             /\ k \in subscribed'[d][ch] => d \in clients' /\ chan'[ch] # Null
  <2>1. /\ k \in subscribed[d][ch] <=> d \in Elems(lists[ch][k])
        /\ k \in subscribed[d][ch] => d \in clients /\ chan[ch] # Null
    BY DEF SubInv
  <2>2. k \in subscribed'[d][ch] <=> d \in Elems(lists'[ch][k])
    BY <1>1, <1>3, <2>1
  <2>3. ASSUME d \in Elems(lists'[ch][k])
        PROVE  chan'[ch] = chan[ch]
    <3>1. lists'[ch][k] # << >>
      BY <1>1, <2>3, SeqFacts
    <3> QED  BY <1>5, <3>1
  <2> QED  BY <1>1, <1>3, <1>4, <2>1, <2>2, <2>3
<1> QED
  BY <1>t, <1>1, <1>2, <1>3, <1>4, <1>5, <1>6 DEF SubInv

(* delete_channel_t takes the channel's keys out of the clients' records.  *)
LEMMA DeleteSub ==
    ASSUME SubInv, NEW C, Delete(C)
    PROVE  SubInv'
<1>t. /\ lists \in ChannelLists /\ subscribed \in ClientKeys
      /\ clients \subseteq Clients
      /\ chan \in [Channels -> Channel_t \cup {Null}]
  BY DEF SubInv
<1>1. /\ NoLists \in [Keys -> Seq(Clients)]
      /\ \A k \in Keys : NoLists[k] = << >>
  BY DEF NoLists
<1>2. /\ lists' \in ChannelLists
      /\ \A ch \in Channels, k \in Keys :
           lists'[ch][k] = IF ch \in C THEN << >> ELSE lists[ch][k]
  BY <1>t, <1>1 DEF Delete, ChannelLists
<1>3. clients' = clients
  BY DEF Delete
<1>4. /\ chan' \in [Channels -> Channel_t \cup {Null}]
      /\ \A ch \in Channels :
           chan'[ch] = IF ch \in C THEN Null ELSE chan[ch]
  BY <1>t DEF Delete, Released
<1>5. ASSUME NEW d \in Clients, NEW ch \in Channels
      PROVE  /\ subscribed'[d][ch] \subseteq Keys
             /\ ch \in C => subscribed'[d][ch] = {}
             /\ ch \notin C => subscribed'[d][ch] = subscribed[d][ch]
  <2>1. subscribed'[d][ch] =
          IF ch \in C
          THEN {k \in subscribed[d][ch] : d \notin Elems(lists[ch][k])}
          ELSE subscribed[d][ch]
    BY DEF Delete, EjectClients
  <2>2. subscribed[d][ch] \subseteq Keys
    BY <1>t DEF ClientKeys
  <2> QED  BY <2>1, <2>2 DEF SubInv
<1>6. subscribed' \in ClientKeys
  BY <1>5 DEF Delete, EjectClients, ClientKeys
<1>7. Elems(<< >>) = {} /\ NoRepetition(<< >>)
  BY DEF Elems, NoRepetition
<1> QED
  BY <1>t, <1>2, <1>3, <1>4, <1>5, <1>6, <1>7 DEF SubInv

(* A client subscribes to a key that it is not subscribed to.              *)
LEMMA SubscribeSub ==
    ASSUME SubInv, NEW c \in Clients, NEW ch \in Channels, NEW k \in Keys,
           Subscribe(c, ch, k)
    PROVE  SubInv'
<1>t. /\ lists \in ChannelLists /\ subscribed \in ClientKeys
      /\ clients \subseteq Clients
      /\ chan \in [Channels -> Channel_t \cup {Null}]
  BY DEF SubInv
<1>1. /\ clients' = clients /\ chan' = chan
      /\ c \in clients /\ chan[ch] # Null
      /\ c \notin Elems(lists[ch][k])
      /\ lists' = [lists EXCEPT ![ch][k] = Append(@, c)]
      /\ subscribed' = [subscribed EXCEPT ![c][ch] = @ \cup {k}]
  BY DEF Subscribe, subscribe_channel_t, channels
<1>2. lists[ch][k] \in Seq(Clients) /\ NoRepetition(lists[ch][k])
  BY <1>t DEF SubInv, ChannelLists
<1> DEFINE new == Append(lists[ch][k], c)
<1>3. /\ new \in Seq(Clients) /\ NoRepetition(new)
      /\ Elems(new) = Elems(lists[ch][k]) \cup {c}
  BY <1>1, <1>2, AppendFacts
<1>4. lists' = [lists EXCEPT ![ch][k] = new]
  BY <1>1
<1> HIDE DEF new
<1>5. /\ lists' \in ChannelLists
      /\ \A g \in Channels, j \in Keys :
           lists'[g][j] = IF g = ch /\ j = k THEN new ELSE lists[g][j]
  BY <1>t, <1>3, <1>4 DEF ChannelLists
<1>6. /\ subscribed' \in ClientKeys
      /\ \A d \in Clients, g \in Channels, j \in Keys :
           j \in subscribed'[d][g] <=>
             (d = c /\ g = ch /\ j = k) \/ j \in subscribed[d][g]
  BY <1>t, <1>1 DEF ClientKeys
<1> QED
  BY <1>t, <1>1, <1>3, <1>5, <1>6 DEF SubInv

(* A client unsubscribes, subscribed or not.                               *)
LEMMA UnsubscribeSub ==
    ASSUME SubInv, NEW c \in Clients, NEW ch \in Channels, NEW k \in Keys,
           Unsubscribe(c, ch, k)
    PROVE  SubInv'
<1>t. /\ lists \in ChannelLists /\ subscribed \in ClientKeys
      /\ clients \subseteq Clients
      /\ chan \in [Channels -> Channel_t \cup {Null}]
  BY DEF SubInv
<1> DEFINE new == list_delete_value(lists[ch][k], c)
<1>1. /\ clients' = clients
      /\ lists' = [lists EXCEPT ![ch][k] = new]
      /\ subscribed' = [subscribed EXCEPT ![c][ch] = @ \ {k}]
      /\ chan' = Released(IF Unused(ch, lists'[ch]) THEN {ch} ELSE {})
  BY DEF Unsubscribe, unsubscribe_channel_t
<1>2. lists[ch][k] \in Seq(Clients) /\ NoRepetition(lists[ch][k])
  BY <1>t DEF SubInv, ChannelLists
<1>3. /\ new \in Seq(Clients) /\ NoRepetition(new)
      /\ Elems(new) = Elems(lists[ch][k]) \ {c}
  BY <1>2, DeleteValueFacts
<1> HIDE DEF new
<1>5. /\ lists' \in ChannelLists
      /\ \A g \in Channels, j \in Keys :
           lists'[g][j] = IF g = ch /\ j = k THEN new ELSE lists[g][j]
  BY <1>t, <1>1, <1>3 DEF ChannelLists
<1>6. /\ subscribed' \in ClientKeys
      /\ \A d \in Clients, g \in Channels, j \in Keys :
           j \in subscribed'[d][g] <=>
             ~ (d = c /\ g = ch /\ j = k) /\ j \in subscribed[d][g]
  BY <1>t, <1>1 DEF ClientKeys
<1>7. /\ chan' \in [Channels -> Channel_t \cup {Null}]
      /\ \A g \in Channels :
           chan'[g] # chan[g] => \A j \in Keys : lists'[g][j] = << >>
  BY <1>t, <1>1 DEF Released, Unused
<1>8. ASSUME NEW d \in Clients, NEW g \in Channels, NEW j \in Keys
      PROVE  /\ j \in subscribed'[d][g] <=> d \in Elems(lists'[g][j])
             /\ j \in subscribed'[d][g] => d \in clients' /\ chan'[g] # Null
  <2>1. /\ j \in subscribed[d][g] <=> d \in Elems(lists[g][j])
        /\ j \in subscribed[d][g] => d \in clients /\ chan[g] # Null
    BY DEF SubInv
  <2>2. j \in subscribed'[d][g] <=> d \in Elems(lists'[g][j])
    BY <1>3, <1>5, <1>6, <2>1
  <2>3. ASSUME d \in Elems(lists'[g][j])
        PROVE  chan'[g] = chan[g]
    <3>1. lists'[g][j] # << >>
      BY <2>3 DEF Elems
    <3> QED  BY <1>7, <3>1
  <2> QED  BY <1>1, <1>6, <2>1, <2>2, <2>3
<1>9. \A g \in Channels, j \in Keys : NoRepetition(lists'[g][j])
  BY <1>3, <1>5 DEF SubInv
<1> QED
  BY <1>t, <1>1, <1>5, <1>6, <1>7, <1>8, <1>9 DEF SubInv

(* A message is published: a list may be rotated.                          *)
LEMMA PublishSub ==
    ASSUME SubInv, NEW ch \in Channels, NEW t \in Topics, Publish(ch, t)
    PROVE  SubInv'
<1>t. /\ lists \in ChannelLists /\ t \in Keys
  BY DEF SubInv, Keys
<1> DEFINE new == Turn(ch, t)
<1>1. /\ clients' = clients /\ chan' = chan /\ subscribed' = subscribed
      /\ lists' = [lists EXCEPT ![ch][t] = new]
  BY DEF Publish
<1>2. lists[ch][t] \in Seq(Clients) /\ NoRepetition(lists[ch][t])
  BY <1>t DEF SubInv, ChannelLists
<1>3. /\ new \in Seq(Clients) /\ NoRepetition(new)
      /\ Elems(new) = Elems(lists[ch][t])
  BY <1>2, RotateFacts DEF Turn
<1> HIDE DEF new
<1>4. /\ lists' \in ChannelLists
      /\ \A g \in Channels, j \in Keys :
           lists'[g][j] = IF g = ch /\ j = t THEN new ELSE lists[g][j]
  BY <1>t, <1>1, <1>3 DEF ChannelLists
<1> QED
  BY <1>1, <1>3, <1>4 DEF SubInv

(* Every step keeps the two sides of the subscriptions.                    *)
LEMMA SubStep ==
    ASSUME SubInv, [Next]_vars
    PROVE  SubInv'
<1>1. CASE UNCHANGED vars
  BY <1>1 DEF SubInv, vars
<1>2. ASSUME NEW c \in Clients, Connect(c)
      PROVE  SubInv'
  BY <1>2 DEF SubInv, Connect
<1>3. ASSUME NEW ch \in Channels, NEW n \in Names, NEW auto \in BOOLEAN,
             NEW robin \in BOOLEAN, ChannelCreate(ch, n, auto, robin)
      PROVE  SubInv'
  <2>1. create_channel_t(n, auto, robin) \in Channel_t
    BY DEF create_channel_t, Channel_t
  <2>2. /\ clients' = clients /\ lists' = lists /\ subscribed' = subscribed
        /\ chan' = [chan EXCEPT ![ch] = create_channel_t(n, auto, robin)]
    BY <1>3 DEF ChannelCreate
  <2> QED  BY <2>1, <2>2, ChannelsAssumption DEF SubInv
<1>4. ASSUME NEW ch \in Channels, NEW n \in Names, ChannelRename(ch, n)
      PROVE  SubInv'
  <2>1. chan[ch] \in Channel_t
    BY <1>4 DEF ChannelRename, SubInv, channels
  <2>2. [chan[ch] EXCEPT !.name = n] \in Channel_t
    BY <2>1 DEF Channel_t
  <2>3. /\ clients' = clients /\ lists' = lists /\ subscribed' = subscribed
        /\ chan' = [chan EXCEPT ![ch] = [chan[ch] EXCEPT !.name = n]]
    BY <1>4 DEF ChannelRename
  <2> QED  BY <2>2, <2>3, ChannelsAssumption DEF SubInv
<1> QED
  BY <1>1, <1>2, <1>3, <1>4, FreeClientSub, SubscribeSub, UnsubscribeSub,
     DeleteSub, PublishSub DEF Next, ChannelDelete, FlushChannels

LEMMA SubInvariant == Spec => []SubInv
<1>1. ASSUME Init PROVE SubInv
  <2>1. Elems(<< >>) = {} /\ NoRepetition(<< >>)
    BY DEF Elems, NoRepetition
  <2> QED
    BY <1>1, <2>1 DEF Init, SubInv, ChannelLists, ClientKeys, NoLists
<1> QED
  BY <1>1, SubStep, PTL DEF Spec

(* A client is once in the list of each key that its record names, and in  *)
(* no other list.                                                          *)
THEOREM MirroredCorrect == Spec => []Mirrored
<1>1. ASSUME SubInv PROVE Mirrored
  <2> SUFFICES ASSUME NEW c \in Clients, NEW ch \in Channels, NEW k \in Keys
               PROVE  Count(lists[ch][k], c) =
                        IF k \in subscribed[c][ch] THEN 1 ELSE 0
    BY DEF Mirrored
  <2>1. /\ lists[ch][k] \in Seq(Clients) /\ NoRepetition(lists[ch][k])
        /\ k \in subscribed[c][ch] <=> c \in Elems(lists[ch][k])
    BY <1>1 DEF SubInv, ChannelLists
  <2> QED  BY <2>1, CountFacts
<1> QED
  BY <1>1, SubInvariant, PTL

(* No list and no record refers to a client that is gone or to a channel   *)
(* that was deleted.                                                       *)
THEOREM NoDanglingCorrect == Spec => []NoDangling
<1>1. ASSUME SubInv PROVE NoDangling
  <2> SUFFICES ASSUME NEW c \in Clients, NEW ch \in Channels
               PROVE  /\ subscribed[c][ch] # {}
                           => c \in clients /\ ch \in channels
                      /\ \A k \in Keys : c \in Elems(lists[ch][k])
                           => c \in clients /\ ch \in channels
    BY DEF NoDangling
  <2>1. subscribed[c][ch] \subseteq Keys
    BY <1>1 DEF SubInv, ClientKeys
  <2> QED  BY <1>1, <2>1 DEF SubInv, channels
<1> QED
  BY <1>1, SubInvariant, PTL

-----------------------------------------------------------------------------
(* Publishing *)

(* What is sent when the list of the topic, rotated or not, is l.          *)
LEMMA SentFacts ==
    ASSUME SubInv, NEW ch \in Channels, NEW t \in Topics,
           NEW l \in Seq(Clients), NoRepetition(l),
           NEW c \in Clients, NEW k \in Keys
    PROVE  LET n == publish_message_channel_t(ch, t, l)[c][k]
           IN  /\ n \in {0, 1}
               /\ k = t /\ chan[ch].round_robin
                    => (n = 1 <=> l # << >> /\ Head(l) = c)
               /\ k = t /\ ~ chan[ch].round_robin
                    => (n = 1 <=> c \in Elems(l))
               /\ k # t => (n = 1 <=> k \in subscribed[c][ch] /\
                                      <<t, k>> \in Matches)
<1>1. publish_message_channel_t(ch, t, l)[c][k] =
        CASE k = t -> TopicEvents(ch, l, c)
          [] k \in Patterns -> PatternEvents(lists[ch], t, c, k)
          [] OTHER -> 0
  BY DEF publish_message_channel_t
<1>2. Topics \cap Patterns = {} /\ Matches \subseteq Topics \X Patterns
  BY ChannelsAssumption
<1>3. CASE k = t
  <2>1. publish_message_channel_t(ch, t, l)[c][k] = TopicEvents(ch, l, c)
    BY <1>1, <1>2, <1>3
  <2>2. Count(l, c) = IF c \in Elems(l) THEN 1 ELSE 0
    BY CountFacts
  <2> QED  BY <1>3, <2>1, <2>2 DEF TopicEvents
<1>4. CASE k # t /\ k \in Patterns
  <2>1. publish_message_channel_t(ch, t, l)[c][k] =
          PatternEvents(lists[ch], t, c, k)
    BY <1>1, <1>4
  <2>2. /\ lists[ch][k] \in Seq(Clients) /\ NoRepetition(lists[ch][k])
        /\ k \in subscribed[c][ch] <=> c \in Elems(lists[ch][k])
    BY DEF SubInv, ChannelLists
  <2>3. Count(lists[ch][k], c) = IF k \in subscribed[c][ch] THEN 1 ELSE 0
    BY <2>2, CountFacts
  <2> QED  BY <1>4, <2>1, <2>3 DEF PatternEvents
<1>5. CASE k # t /\ k \notin Patterns
  <2>1. publish_message_channel_t(ch, t, l)[c][k] = 0
    BY <1>1, <1>5
  <2>2. <<t, k>> \notin Matches
    BY <1>2, <1>5
  <2> QED  BY <1>5, <2>1, <2>2
<1> QED
  BY <1>3, <1>4, <1>5

(* The list of the topic after a publication has the same clients; in a    *)
(* channel in turn, the first is the one that was last.                    *)
LEMMA TurnFacts ==
    ASSUME SubInv, NEW ch \in Channels, NEW t \in Topics
    PROVE  /\ lists[ch][t] \in Seq(Clients) /\ NoRepetition(lists[ch][t])
           /\ Turn(ch, t) \in Seq(Clients) /\ NoRepetition(Turn(ch, t))
           /\ Elems(Turn(ch, t)) = Elems(lists[ch][t])
           /\ \A c \in Clients :
                t \in subscribed[c][ch] <=> c \in Elems(Turn(ch, t))
<1>1. /\ lists[ch][t] \in Seq(Clients) /\ NoRepetition(lists[ch][t])
      /\ \A c \in Clients :
           t \in subscribed[c][ch] <=> c \in Elems(lists[ch][t])
  BY DEF SubInv, ChannelLists, Keys
<1>2. /\ Turn(ch, t) \in Seq(Clients) /\ NoRepetition(Turn(ch, t))
      /\ Elems(Turn(ch, t)) = Elems(lists[ch][t])
  BY <1>1, RotateFacts DEF Turn
<1> QED
  BY <1>1, <1>2

(* The events of a publication are those that the subscribers of the topic *)
(* and of the patterns are owed.                                           *)
LEMMA PublishDelivers ==
    ASSUME SubInv, NEW ch \in Channels, NEW t \in Topics, Publish(ch, t)
    PROVE  DeliveredToSubscribers'
<1> DEFINE l == Turn(ch, t)
           sent == publish_message_channel_t(ch, t, l)
           ours == {c \in Clients : t \in subscribed[c][ch]}
           given == {c \in Clients : sent[c][t] > 0}
<1>1. /\ event' = [channel |-> ch, topic |-> t, sent |-> sent]
      /\ subscribed' = subscribed /\ chan' = chan
  BY DEF Publish
<1>2. /\ l \in Seq(Clients) /\ NoRepetition(l)
      /\ \A c \in Clients : t \in subscribed[c][ch] <=> c \in Elems(l)
  BY TurnFacts
<1>3. \A c \in Clients, k \in Keys :
        /\ sent[c][k] \in {0, 1}
        /\ k = t /\ chan[ch].round_robin
             => (sent[c][k] = 1 <=> l # << >> /\ Head(l) = c)
        /\ k = t /\ ~ chan[ch].round_robin
             => (sent[c][k] = 1 <=> c \in Elems(l))
        /\ k # t => (sent[c][k] = 1 <=> k \in subscribed[c][ch] /\
                                        <<t, k>> \in Matches)
  BY <1>2, SentFacts
<1>t. t \in Keys
  BY DEF Keys
<1>h. l # << >> => Head(l) \in Clients /\ Head(l) \in Elems(l)
  BY <1>2 DEF Elems
<1>e. l = << >> => Elems(l) = {}
  BY DEF Elems
<1> HIDE DEF l, sent
<1>n. \A c \in Clients, k \in Keys : sent[c][k] \in {0, 1}
  BY <1>3, Zenon
<1>4. \A c \in Clients, k \in Keys :
        sent[c][k] <= 1 /\ (sent[c][k] > 0 <=> sent[c][k] = 1)
  BY <1>n
<1>5. \A c \in Clients, k \in Keys \ {t} :
        sent[c][k] = 1 <=> k \in subscribed[c][ch] /\ <<t, k>> \in Matches
  BY <1>3
<1>6. CASE chan[ch].round_robin
  <2>1. \A c \in Clients : sent[c][t] > 0 <=> l # << >> /\ Head(l) = c
    <3>1. \A c \in Clients : sent[c][t] = 1 <=> l # << >> /\ Head(l) = c
      BY <1>3, <1>6, <1>t, Zenon
    <3> QED  BY <1>4, <1>t, <3>1
  <2>2. CASE l = << >>
    <3>1. given = {} /\ ours = {}
      BY <1>2, <1>e, <2>1, <2>2
    <3> QED  BY <1>1, <1>4, <1>5, <1>6, <3>1, FS_EmptySet
             DEF DeliveredToSubscribers
  <2>3. CASE l # << >>
    <3>1. given = {Head(l)} /\ Head(l) \in ours
      BY <1>2, <1>h, <2>1, <2>3
    <3>2. Cardinality(given) = 1 /\ given \subseteq ours /\ ours # {}
      BY <3>1, FS_Singleton
    <3> QED  BY <1>1, <1>4, <1>5, <1>6, <3>2 DEF DeliveredToSubscribers
  <2> QED  BY <2>2, <2>3
<1>7. CASE ~ chan[ch].round_robin
  <2>1. \A c \in Clients : sent[c][t] = 1 <=> c \in Elems(l)
    BY <1>3, <1>7, <1>t, Zenon
  <2>2. given = ours
    BY <1>2, <1>4, <1>t, <2>1
  <2> QED  BY <1>1, <1>4, <1>5, <1>7, <2>2 DEF DeliveredToSubscribers
<1> QED
  BY <1>6, <1>7

(* A published message reaches exactly those that it should, whoever has   *)
(* joined or left before.                                                  *)
THEOREM DeliveredToSubscribersCorrect == Spec => []DeliveredToSubscribers
<1>1. ASSUME SubInv, DeliveredToSubscribers, [Next]_vars
      PROVE  DeliveredToSubscribers'
  <2>1. CASE event' = Null
    BY <2>1 DEF DeliveredToSubscribers
  <2>2. CASE UNCHANGED vars
    BY <1>1, <2>2 DEF DeliveredToSubscribers, vars
  <2>3. Next /\ event' # Null
          => \E ch \in Channels, t \in Topics : Publish(ch, t)
    BY DEF Next, Connect, FreeClient, ChannelCreate, ChannelRename,
           Subscribe, Unsubscribe, ChannelDelete, FlushChannels, Delete,
           Silent
  <2> QED  BY <1>1, <2>1, <2>2, <2>3, PublishDelivers
<1>2. Init => DeliveredToSubscribers
  BY DEF Init, DeliveredToSubscribers
<1> QED
  BY <1>1, <1>2, SubInvariant, PTL DEF Spec

-----------------------------------------------------------------------------
(* Delivery in turn *)

(* The last client of the list l is served next, so that those behind a    *)
(* client in the list are the ones that it waits for.                      *)
InOrder(l, waits) ==
    \A i, j \in DOMAIN l : i < j => l[j] \in waits[l[i]]

TurnInv ==
    /\ ahead \in [Channels -> [Topics -> [Clients -> SUBSET Clients]]]
    /\ \A ch \in Channels, t \in Topics : InOrder(lists[ch][t], ahead[ch][t])

(* Those of the list l that are left in m have kept their order, and who   *)
(* is new in m is its last.                                                *)
Follows(l, m) ==
    \A i, j \in DOMAIN m : i < j =>
        \E p \in DOMAIN l :
            /\ l[p] = m[i]
            /\ m[j] \in Elems(l) => \E q \in DOMAIN l : l[q] = m[j] /\ p < q

(* Waiting for one list: l is the old and m the new one.                   *)
WaitingIn(waits, l, m) ==
    [c \in Clients |->
        IF c \in Elems(l) \cap Elems(m)
        THEN (waits[c] \cap Elems(m)) \cup (Elems(m) \ Elems(l)) ELSE {}]

LEMMA WaitingInOrder ==
    ASSUME NEW l \in Seq(Clients), NEW m \in Seq(Clients),
           NEW waits \in [Clients -> SUBSET Clients],
           InOrder(l, waits), Follows(l, m)
    PROVE  InOrder(m, WaitingIn(waits, l, m))
<1> SUFFICES ASSUME NEW i \in DOMAIN m, NEW j \in DOMAIN m, i < j
             PROVE  m[j] \in WaitingIn(waits, l, m)[m[i]]
  BY DEF InOrder
<1>1. PICK p \in DOMAIN l :
        /\ l[p] = m[i]
        /\ m[j] \in Elems(l) => \E q \in DOMAIN l : l[q] = m[j] /\ p < q
  BY DEF Follows
<1>2. /\ m[i] \in Clients /\ m[i] \in Elems(m) /\ m[j] \in Elems(m)
      /\ m[i] \in Elems(l)
  BY <1>1 DEF Elems
<1>3. WaitingIn(waits, l, m)[m[i]] =
        (waits[m[i]] \cap Elems(m)) \cup (Elems(m) \ Elems(l))
  BY <1>2 DEF WaitingIn
<1>4. m[j] \in Elems(l) => m[j] \in waits[m[i]]
  BY <1>1 DEF InOrder
<1> QED
  BY <1>2, <1>3, <1>4

LEMMA FollowsFacts ==
    ASSUME NEW l \in Seq(Clients)
    PROVE  /\ Follows(l, l)
           /\ Follows(l, << >>)
           /\ \A c \in Clients : c \notin Elems(l) => Follows(l, Append(l, c))
           /\ \A c : NoRepetition(l) => Follows(l, list_delete_value(l, c))
<1>1. Follows(l, l)
  BY DEF Follows
<1>2. Follows(l, << >>)
  BY DEF Follows
<1>3. ASSUME NEW c \in Clients, c \notin Elems(l)
      PROVE  Follows(l, Append(l, c))
  <2> DEFINE m == Append(l, c)
  <2>1. /\ DOMAIN l = 1 .. Len(l) /\ DOMAIN m = 1 .. Len(l) + 1
        /\ Len(l) \in Nat
        /\ m[Len(l) + 1] = c /\ \A i \in 1 .. Len(l) : m[i] = l[i]
    OBVIOUS
  <2> HIDE DEF m
  <2> SUFFICES ASSUME NEW i \in DOMAIN m, NEW j \in DOMAIN m, i < j
               PROVE  \E p \in DOMAIN l :
                        /\ l[p] = m[i]
                        /\ m[j] \in Elems(l) =>
                             \E q \in DOMAIN l : l[q] = m[j] /\ p < q
    BY DEF Follows, m
  <2>2. i \in DOMAIN l /\ l[i] = m[i]
    BY <2>1
  <2>3. m[j] \in Elems(l) => j \in DOMAIN l /\ l[j] = m[j]
    BY <1>3, <2>1
  <2> QED  BY <2>2, <2>3
<1>4. ASSUME NEW c, NoRepetition(l)
      PROVE  Follows(l, list_delete_value(l, c))
  <2>1. CASE c \notin Elems(l)
    BY <1>1, <1>4, <2>1, DeleteValueFacts
  <2>2. CASE c \in Elems(l)
    <3>1. PICK x \in DOMAIN l : list_delete_value(l, c) = Without(l, x)
      BY <1>4, <2>2, DeleteValueFacts
    <3> DEFINE m == Without(l, x)
    <3>2. /\ DOMAIN m = 1 .. Len(l) - 1 /\ DOMAIN l = 1 .. Len(l)
          /\ Len(l) \in Nat
          /\ \A k \in 1 .. Len(l) - 1 : m[k] = IF k < x THEN l[k] ELSE l[k + 1]
      BY WithoutPositions
    <3> HIDE DEF m
    <3>3. ASSUME NEW i \in DOMAIN m, NEW j \in DOMAIN m, i < j
          PROVE  \E p, q \in DOMAIN l : l[p] = m[i] /\ l[q] = m[j] /\ p < q
      <4> DEFINE at(k) == IF k < x THEN k ELSE k + 1
      <4>1. at(i) \in DOMAIN l /\ at(j) \in DOMAIN l /\ at(i) < at(j)
        BY <3>2, <3>3
      <4>2. l[at(i)] = m[i] /\ l[at(j)] = m[j]
        BY <3>2
      <4> HIDE DEF at
      <4> QED  BY <4>1, <4>2
    <3>4. Follows(l, m)
      BY <3>3 DEF Follows
    <3> QED  BY <3>1, <3>4 DEF m
  <2> QED  BY <2>1, <2>2
<1> QED
  BY <1>1, <1>2, <1>3, <1>4

(* Serving the last of the list puts it first.                             *)
LEMMA RotateInOrder ==
    ASSUME NEW l \in Seq(Clients), l # << >>, NoRepetition(l),
           NEW waits \in [Clients -> SUBSET Clients], InOrder(l, waits)
    PROVE  /\ InOrder(Rotate(l), Served(waits, Rotate(l), Head(Rotate(l))))
           /\ Served(waits, Rotate(l), Head(Rotate(l)))
                \in [Clients -> SUBSET Clients]
<1> DEFINE m == Rotate(l)
           d == LastOf(l)
           new == Served(waits, m, d)
<1>1. /\ m \in Seq(Clients) /\ Elems(m) = Elems(l)
      /\ m[1] = d /\ Head(m) = d /\ d \in Elems(l)
      /\ Len(m) = Len(l)
      /\ DOMAIN m = 1 .. Len(l) /\ DOMAIN l = 1 .. Len(l) /\ Len(l) \in Nat
      /\ \A k \in 2 .. Len(l) : m[k] = l[k - 1]
  <2>1. /\ AllButLast(l) \in Seq(Clients)
        /\ Len(AllButLast(l)) = Len(l) - 1
        /\ d \in Elems(l)
        /\ \A k \in DOMAIN AllButLast(l) : AllButLast(l)[k] = l[k]
    BY AllButLastFacts
  <2>2. d \in Clients
    BY <2>1, SeqFacts
  <2>3. /\ m \in Seq(Clients) /\ m # << >>
        /\ Len(m) = Len(AllButLast(l)) + 1
        /\ m[1] = d
        /\ \A k \in DOMAIN m :
             k # 1 => k - 1 \in DOMAIN AllButLast(l) /\ m[k] = AllButLast(l)[k - 1]
    BY <2>1, <2>2, ConsFacts DEF Rotate
  <2>4. Elems(m) = Elems(l)
    BY RotateFacts
  <2> HIDE DEF m
  <2>5. Head(m) = d
    BY <2>3
  <2>6. DOMAIN m = 1 .. Len(l) /\ DOMAIN l = 1 .. Len(l) /\ Len(l) \in Nat
    BY <2>1, <2>3
  <2>7. ASSUME NEW k \in 2 .. Len(l)
        PROVE  m[k] = l[k - 1]
    <3>1. k \in DOMAIN m /\ k # 1
      BY <2>6
    <3>2. k - 1 \in DOMAIN AllButLast(l) /\ m[k] = AllButLast(l)[k - 1]
      BY <2>3, <3>1
    <3> QED  BY <2>1, <3>2
  <2> QED  BY <2>1, <2>3, <2>4, <2>5, <2>6, <2>7
<1>n. NoRepetition(m)
  BY RotateFacts
<1>7. new = Served(waits, Rotate(l), Head(Rotate(l)))
  BY <1>1
<1> HIDE DEF m, d
<1>2. d \in Clients /\ Elems(l) \subseteq Clients
  BY <1>1, SeqFacts
<1>3. ASSUME NEW c \in Clients
      PROVE  new[c] = IF c = d THEN Elems(m) \ {d} ELSE waits[c] \ {d}
  BY DEF Served
<1>4. new \in [Clients -> SUBSET Clients]
  <2>1. ASSUME NEW c \in Clients PROVE new[c] \subseteq Clients
    <3> HIDE DEF new
    <3>1. Elems(m) \subseteq Clients /\ waits[c] \subseteq Clients
      BY <1>1, <1>2
    <3> QED  BY <1>3, <3>1
  <2> QED  BY <2>1 DEF Served
<1> HIDE DEF new
<1>6. ASSUME NEW i \in DOMAIN m, NEW j \in DOMAIN m, i < j
      PROVE  m[j] \in new[m[i]]
  <2>1. /\ m[i] \in Clients /\ m[j] \in Elems(m)
        /\ 1 \in DOMAIN m /\ j # 1
    BY <1>1, <1>6 DEF Elems
  <2>2. m[j] # d
    BY <1>1, <1>n, <2>1 DEF NoRepetition
  <2>3. CASE i = 1
    BY <1>1, <1>3, <2>1, <2>2, <2>3
  <2>4. CASE i # 1
    <3>1. /\ i - 1 \in DOMAIN l /\ j - 1 \in DOMAIN l /\ i - 1 < j - 1
          /\ m[i] = l[i - 1] /\ m[j] = l[j - 1]
      BY <1>1, <1>6, <2>1, <2>4
    <3>2. m[j] \in waits[m[i]]
      BY <3>1 DEF InOrder
    <3>3. m[i] # d
      BY <1>1, <1>n, <2>1, <2>4 DEF NoRepetition
    <3> QED  BY <1>3, <2>1, <2>2, <3>2, <3>3
  <2> QED  BY <2>3, <2>4
<1> QED
  BY <1>4, <1>6, <1>7 DEF InOrder, m

(* A request other than channel_publish keeps the order of each list.      *)
LEMMA SilentFollows ==
    ASSUME SubInv, Next, NEW ch \in Channels, NEW t \in Topics,
           ~ \E g \in Channels, u \in Topics : Publish(g, u)
    PROVE  Follows(lists[ch][t], lists'[ch][t]) /\ ahead' = Waiting
<1> DEFINE l == lists[ch][t]
           m == lists'[ch][t]
<1>t. lists \in ChannelLists /\ t \in Keys /\ l \in Seq(Clients) /\ NoRepetition(l)
  BY DEF SubInv, ChannelLists, Keys
<1>f. /\ Follows(l, l)
      /\ Follows(l, << >>)
      /\ \A c \in Clients : c \notin Elems(l) => Follows(l, Append(l, c))
      /\ \A c : Follows(l, list_delete_value(l, c))
  BY <1>t, FollowsFacts
<1>1. ASSUME NEW c \in Clients, Connect(c)
      PROVE  Follows(l, m) /\ ahead' = Waiting
  BY <1>1, <1>f DEF Connect, Silent
<1>2. ASSUME NEW c \in Clients, FreeClient(c)
      PROVE  Follows(l, m) /\ ahead' = Waiting
  <2>1. m = l \/ m = list_delete_value(l, c)
    BY <1>2, <1>t DEF FreeClient, Ejected
  <2> QED  BY <1>2, <1>f, <2>1 DEF FreeClient, Silent
<1>3. ASSUME NEW g \in Channels, NEW n \in Names,
             (\E auto, robin \in BOOLEAN : ChannelCreate(g, n, auto, robin))
               \/ ChannelRename(g, n)
      PROVE  Follows(l, m) /\ ahead' = Waiting
  BY <1>3, <1>f DEF ChannelCreate, ChannelRename, Silent
<1>4. ASSUME NEW c \in Clients, NEW g \in Channels, NEW k \in Keys,
             Subscribe(c, g, k)
      PROVE  Follows(l, m) /\ ahead' = Waiting
  <2>1. /\ lists' = [lists EXCEPT ![g][k] = Append(lists[g][k], c)]
        /\ c \notin Elems(lists[g][k]) /\ ahead' = Waiting
    BY <1>4 DEF Subscribe, subscribe_channel_t, Silent
  <2>2. m = l \/ (m = Append(l, c) /\ c \notin Elems(l))
    BY <1>t, <2>1 DEF ChannelLists
  <2> QED  BY <1>f, <2>1, <2>2
<1>5. ASSUME NEW c \in Clients, NEW g \in Channels, NEW k \in Keys,
             Unsubscribe(c, g, k)
      PROVE  Follows(l, m) /\ ahead' = Waiting
  <2>1. /\ lists' = [lists EXCEPT ![g][k] =
                       list_delete_value(lists[g][k], c)]
        /\ ahead' = Waiting
    BY <1>5 DEF Unsubscribe, unsubscribe_channel_t, Silent
  <2>2. m = l \/ m = list_delete_value(l, c)
    BY <1>t, <2>1 DEF ChannelLists
  <2> QED  BY <1>f, <2>1, <2>2
<1>6. ASSUME NEW C, Delete(C)
      PROVE  Follows(l, m) /\ ahead' = Waiting
  <2>1. m = l \/ m = << >>
    BY <1>6, <1>t DEF Delete, NoLists
  <2> QED  BY <1>6, <1>f, <2>1 DEF Delete, Silent
<1> HIDE DEF l, m
<1>7. Follows(l, m) /\ ahead' = Waiting
  BY <1>1, <1>2, <1>3, <1>4, <1>5, <1>6
     DEF Next, ChannelDelete, FlushChannels
<1> QED
  BY <1>7 DEF l, m

(* What a publication leaves of the order.                                 *)
LEMMA PublishTurn ==
    ASSUME SubInv, TurnInv, NEW ch \in Channels, NEW t \in Topics,
           Publish(ch, t)
    PROVE  TurnInv'
<1> DEFINE l == lists[ch][t]
           m == Turn(ch, t)
           waits == ahead[ch][t]
           new == IF chan[ch].round_robin /\ m # << >>
                  THEN Served(waits, m, Head(m)) ELSE waits
<1>t. /\ lists \in ChannelLists /\ t \in Keys
      /\ l \in Seq(Clients) /\ NoRepetition(l)
      /\ ahead \in [Channels -> [Topics -> [Clients -> SUBSET Clients]]]
      /\ waits \in [Clients -> SUBSET Clients] /\ InOrder(l, waits)
  <2>1. lists \in ChannelLists /\ t \in Keys
    BY DEF SubInv, Keys
  <2>2. l \in Seq(Clients) /\ NoRepetition(l)
    BY <2>1 DEF SubInv, ChannelLists
  <2>3. /\ ahead \in [Channels -> [Topics -> [Clients -> SUBSET Clients]]]
        /\ waits \in [Clients -> SUBSET Clients] /\ InOrder(l, waits)
    BY DEF TurnInv
  <2> QED  BY <2>1, <2>2, <2>3
<1>1. /\ lists' = [lists EXCEPT ![ch][t] = m]
      /\ ahead' = IF chan[ch].round_robin /\ m # << >>
                  THEN [ahead EXCEPT ![ch][t] = Served(waits, m, Head(m))]
                  ELSE ahead
  BY DEF Publish
<1>2. ahead' = [ahead EXCEPT ![ch][t] = new]
  BY <1>t, <1>1
<1>3. InOrder(m, new) /\ new \in [Clients -> SUBSET Clients]
  <2>1. CASE chan[ch].round_robin /\ l # << >>
    <3>1. m = Rotate(l)
      BY <2>1 DEF Turn
    <3>2. m # << >>
      BY <1>t, <2>1, <3>1, RotateFacts, SeqFacts
    <3> QED  BY <1>t, <2>1, <3>1, <3>2, RotateInOrder
  <2>2. CASE ~ (chan[ch].round_robin /\ l # << >>)
    <3>1. m = l /\ new = waits
      BY <2>2 DEF Turn
    <3> QED  BY <1>t, <3>1
  <2> QED  BY <2>1, <2>2
<1> HIDE DEF m, new
<1>4. /\ \A g \in Channels, u \in Topics :
           /\ lists'[g][u] = IF g = ch /\ u = t THEN m ELSE lists[g][u]
           /\ ahead'[g][u] = IF g = ch /\ u = t THEN new ELSE ahead[g][u]
      /\ ahead' \in [Channels -> [Topics -> [Clients -> SUBSET Clients]]]
  <2>1. \A g \in Channels, u \in Topics :
          lists'[g][u] = IF g = ch /\ u = t THEN m ELSE lists[g][u]
    BY <1>t, <1>1 DEF ChannelLists, Keys
  <2>2. /\ \A g \in Channels, u \in Topics :
             ahead'[g][u] = IF g = ch /\ u = t THEN new ELSE ahead[g][u]
        /\ ahead' \in [Channels -> [Topics -> [Clients -> SUBSET Clients]]]
    BY <1>t, <1>2, <1>3
  <2> QED  BY <2>1, <2>2
<1>5. \A g \in Channels, u \in Topics : InOrder(lists'[g][u], ahead'[g][u])
  BY <1>3, <1>4 DEF TurnInv
<1> QED
  BY <1>4, <1>5 DEF TurnInv

LEMMA TurnStep ==
    ASSUME SubInv, TurnInv, [Next]_vars
    PROVE  TurnInv'
<1>1. CASE UNCHANGED vars
  BY <1>1 DEF TurnInv, vars
<1>2. CASE Next /\ ~ \E g \in Channels, u \in Topics : Publish(g, u)
  <2>1. ASSUME NEW ch \in Channels, NEW t \in Topics
        PROVE  /\ ahead'[ch][t] =
                    WaitingIn(ahead[ch][t], lists[ch][t], lists'[ch][t])
               /\ InOrder(lists'[ch][t], ahead'[ch][t])
    <3>1. Follows(lists[ch][t], lists'[ch][t]) /\ ahead' = Waiting
      BY <1>2, SilentFollows
    <3>2. ahead'[ch][t] = WaitingIn(ahead[ch][t], lists[ch][t], lists'[ch][t])
      BY <3>1 DEF Waiting, WaitingIn
    <3>3. /\ lists[ch][t] \in Seq(Clients)
          /\ ahead[ch][t] \in [Clients -> SUBSET Clients]
          /\ InOrder(lists[ch][t], ahead[ch][t])
      BY DEF SubInv, TurnInv, ChannelLists, Keys
    <3>4. lists'[ch][t] \in Seq(Clients)
      <4>1. SubInv'
        BY SubStep
      <4>2. lists' \in ChannelLists
        BY <4>1 DEF SubInv
      <4> QED  BY <4>2 DEF ChannelLists, Keys
    <3> QED  BY <3>1, <3>2, <3>3, <3>4, WaitingInOrder
  <2>2. \A ch \in Channels, t \in Topics, c \in Clients :
          ahead[ch][t][c] \subseteq Clients
    BY DEF TurnInv
  <2>3. ahead' \in [Channels -> [Topics -> [Clients -> SUBSET Clients]]]
    <3>1. ahead' = Waiting
      BY <1>2 DEF Next, Connect, FreeClient, ChannelCreate, ChannelRename,
              Subscribe, Unsubscribe, ChannelDelete, FlushChannels, Delete,
              Silent
    <3>2. \A ch \in Channels, t \in Topics : Elems(lists'[ch][t]) \subseteq Clients
      <4>1. SubInv'
        BY SubStep
      <4>2. lists' \in ChannelLists
        BY <4>1 DEF SubInv
      <4> QED  BY <4>2 DEF ChannelLists, Keys, Elems
    <3> QED  BY <2>2, <3>1, <3>2 DEF Waiting
  <2> QED  BY <2>1, <2>3 DEF TurnInv
<1> QED
  BY <1>1, <1>2, PublishTurn

LEMMA TurnInvariant == Spec => [](SubInv /\ TurnInv)
<1>1. Init => TurnInv
  <2>1. Elems(<< >>) = {}
    BY DEF Elems
  <2> QED
    BY <2>1 DEF Init, TurnInv, NoLists, InOrder, Keys
<1>2. SubInv /\ TurnInv /\ [Next]_vars => TurnInv'
  BY TurnStep
<1> QED
  BY <1>1, <1>2, SubInvariant, PTL DEF Spec

(* A channel in turn serves the first of the list.                         *)
LEMMA ServedFirst ==
    ASSUME NEW ch \in Channels, NEW t \in Topics, NEW l, NEW c \in Clients,
           chan[ch].round_robin, publish_message_channel_t(ch, t, l)[c][t] > 0
    PROVE  l # << >> /\ Head(l) = c
<1>1. t \in Keys /\ t \notin Patterns
  BY ChannelsAssumption DEF Keys
<1>2. publish_message_channel_t(ch, t, l)[c][t] =
        CASE t = t -> TopicEvents(ch, l, c)
          [] t \in Patterns -> PatternEvents(lists[ch], t, c, t)
          [] OTHER -> 0
  BY <1>1 DEF publish_message_channel_t
<1>3. publish_message_channel_t(ch, t, l)[c][t] = TopicEvents(ch, l, c)
  BY <1>1, <1>2
<1>4. TopicEvents(ch, l, c) > 0
  BY <1>3
<1> QED
  BY <1>4 DEF TopicEvents

(* The step of InTurn.                                                     *)
ServedInTurn ==
    event' # Null =>
        LET ch == event'.channel
            t  == event'.topic
        IN  chan[ch].round_robin =>
              \A c, d \in Clients :
                 event'.sent[c][t] > 0 /\ c # d /\ t \in subscribed[d][ch]
                     => c \in ahead[ch][t][d]

(* Delivery in turn: a subscriber waits for one message to each of those   *)
(* that were subscribed when it was served, and to each that has joined.   *)
THEOREM InTurnCorrect == Spec => InTurn
<1>1. ASSUME SubInv, TurnInv, [Next]_vars
      PROVE  [ServedInTurn]_vars
  <2> SUFFICES ASSUME Next, event' # Null
               PROVE  ServedInTurn
    BY <1>1 DEF ServedInTurn
  <2>1. PICK ch \in Channels, t \in Topics : Publish(ch, t)
    BY DEF Next, Connect, FreeClient, ChannelCreate, ChannelRename,
           Subscribe, Unsubscribe, ChannelDelete, FlushChannels, Delete,
           Silent
  <2> DEFINE l == lists[ch][t]
             m == Turn(ch, t)
  <2>2. event' = [channel |-> ch, topic |-> t,
                  sent |-> publish_message_channel_t(ch, t, m)]
    BY <2>1 DEF Publish
  <2>3. ASSUME NEW c \in Clients, NEW d \in Clients, chan[ch].round_robin,
               publish_message_channel_t(ch, t, m)[c][t] > 0,
               c # d, t \in subscribed[d][ch]
        PROVE  c \in ahead[ch][t][d]
    <3>1. /\ l \in Seq(Clients) /\ NoRepetition(l)
          /\ m \in Seq(Clients) /\ NoRepetition(m) /\ t \in Keys
          /\ Elems(m) = Elems(l) /\ d \in Elems(m)
      BY <1>1, <2>3, TurnFacts DEF Keys
    <3>2. m # << >> /\ Head(m) = c
      BY <2>3, ServedFirst
    <3>3. l # << >> /\ m = Rotate(l)
      BY <2>3, <3>2 DEF Turn
    <3>4. c = LastOf(l)
      <4>1. m[1] = LastOf(l)
        BY <3>1, <3>3, RotateFacts
      <4> QED  BY <3>1, <3>2, <4>1
    <3>5. PICK i \in DOMAIN l : l[i] = d
      BY <3>1 DEF Elems
    <3>6. Len(l) \in DOMAIN l /\ l[Len(l)] = c /\ i <= Len(l) /\ i \in Nat
      BY <3>1, <3>3, <3>4, <3>5 DEF LastOf
    <3>7. InOrder(l, ahead[ch][t])
      BY <1>1 DEF TurnInv
    <3>8. i < Len(l)
      BY <2>3, <3>5, <3>6
    <3> QED  BY <3>5, <3>6, <3>7, <3>8 DEF InOrder
  <2> QED  BY <2>2, <2>3 DEF ServedInTurn
<1>2. Spec => [][ServedInTurn]_vars
  BY <1>1, TurnInvariant, PTL DEF Spec
<1> QED
  BY <1>2 DEF ServedInTurn, InTurn

-----------------------------------------------------------------------------
(* Automatic deletion *)

(* The step of ChannelAutoDelete for the channel ch.                       *)
DeletedRightly(ch) ==
    /\ chan[ch].auto_delete /\ Used(ch) /\ ch \in channels' => Used(ch)'
    /\ ch \notin channels' /\ ch \notin asked'
           => chan[ch].auto_delete /\ Used(ch) /\ ~ Used(ch)'

(* A request that deletes no channel and leaves every list with clients.   *)
LEMMA NothingDeleted ==
    ASSUME NEW ch \in channels,
           \A g \in Channels : chan[g] # Null => chan'[g] # Null,
           \A k \in Keys : lists[ch][k] # << >> => lists'[ch][k] # << >>
    PROVE  DeletedRightly(ch)
<1>1. ch \in channels'
  BY DEF channels
<1>2. Used(ch) => Used(ch)'
  BY DEF Used
<1> QED
  BY <1>1, <1>2 DEF DeletedRightly

(* A request that deletes some channels of which the last subscription is  *)
(* gone, and examines every channel that has lost one.                     *)
LEMMA DeletedUnused ==
    ASSUME NEW C, chan' = Released(C), NEW ch \in channels,
           ch \in C => Used(ch) /\ Unused(ch, lists'[ch]),
           ch \notin C => lists'[ch] = lists[ch] \/ ~ Unused(ch, lists'[ch])
    PROVE  DeletedRightly(ch)
<1>1. ch \in channels' <=> ch \notin C
  BY DEF channels, Released
<1>2. chan[ch].auto_delete /\ Used(ch) /\ ch \notin C => Used(ch)'
  BY DEF Used, Unused
<1>3. ch \in C => chan[ch].auto_delete /\ Used(ch) /\ ~ Used(ch)'
  BY DEF Used, Unused
<1> QED
  BY <1>1, <1>2, <1>3 DEF DeletedRightly

LEMMA DeletedStep ==
    ASSUME SubInv, [Next]_vars
    PROVE  [\A ch \in channels : DeletedRightly(ch)]_vars
<1> SUFFICES ASSUME Next, NEW ch \in channels
             PROVE  DeletedRightly(ch)
  OBVIOUS
<1>t. /\ ch \in Channels /\ lists \in ChannelLists
      /\ chan \in [Channels -> Channel_t \cup {Null}]
  BY DEF channels, SubInv
<1>0. ASSUME chan' = chan, lists' = lists
      PROVE  DeletedRightly(ch)
  BY <1>0, NothingDeleted
<1>1. ASSUME NEW c \in Clients, Connect(c)
      PROVE  DeletedRightly(ch)
  BY <1>0, <1>1 DEF Connect
<1>2. ASSUME NEW c \in Clients, FreeClient(c)
      PROVE  DeletedRightly(ch)
  <2> DEFINE C == {g \in channels : subscribed[c][g] # {} /\
                                    Unused(g, lists'[g])}
  <2>1. chan' = Released(C) /\ lists' = Ejected(c)
    BY <1>2 DEF FreeClient
  <2>2. ch \in C => Used(ch) /\ Unused(ch, lists'[ch])
    <3>1. ASSUME subscribed[c][ch] # {} PROVE Used(ch)
      <4>1. PICK k \in Keys : k \in subscribed[c][ch]
        BY <1>t, <3>1 DEF SubInv, ClientKeys
      <4>2. c \in Elems(lists[ch][k])
        BY <1>t, <4>1 DEF SubInv
      <4> QED  BY <4>1, <4>2 DEF Used, Elems
    <3> QED  BY <3>1
  <2>3. ASSUME subscribed[c][ch] = {}
        PROVE  lists'[ch] = lists[ch]
    BY <1>t, <2>1, <2>3 DEF Ejected, ChannelLists
  <2>4. ch \notin C => lists'[ch] = lists[ch] \/ ~ Unused(ch, lists'[ch])
    BY <2>3
  <2> HIDE DEF C
  <2> QED  BY <2>1, <2>2, <2>4, DeletedUnused
<1>3. ASSUME NEW g \in Channels, NEW n \in Names, NEW auto \in BOOLEAN,
             NEW robin \in BOOLEAN, ChannelCreate(g, n, auto, robin)
      PROVE  DeletedRightly(ch)
  <2>1. create_channel_t(n, auto, robin) # Null
    BY ChannelsAssumption DEF create_channel_t, Channel_t
  <2>2. /\ chan' = [chan EXCEPT ![g] = create_channel_t(n, auto, robin)]
        /\ lists' = lists
    BY <1>3 DEF ChannelCreate
  <2> QED  BY <1>t, <2>1, <2>2, NothingDeleted
<1>4. ASSUME NEW g \in Channels, NEW n \in Names, ChannelRename(g, n)
      PROVE  DeletedRightly(ch)
  <2>1. chan[g] \in Channel_t
    BY <1>4, <1>t DEF ChannelRename, channels
  <2>2. [chan[g] EXCEPT !.name = n] # Null
    BY <2>1, ChannelsAssumption DEF Channel_t
  <2>3. /\ chan' = [chan EXCEPT ![g] = [chan[g] EXCEPT !.name = n]]
        /\ lists' = lists
    BY <1>4 DEF ChannelRename
  <2> QED  BY <1>t, <2>2, <2>3, NothingDeleted
<1>5. ASSUME NEW c \in Clients, NEW g \in Channels, NEW k \in Keys,
             Subscribe(c, g, k)
      PROVE  DeletedRightly(ch)
  <2>1. /\ chan' = chan
        /\ lists' = [lists EXCEPT ![g][k] = Append(lists[g][k], c)]
    BY <1>5 DEF Subscribe, subscribe_channel_t
  <2>2. lists[g][k] \in Seq(Clients)
    BY <1>t DEF ChannelLists
  <2>3. Append(lists[g][k], c) # << >>
    BY <2>2
  <2>4. \A j \in Keys : lists[ch][j] # << >> => lists'[ch][j] # << >>
    BY <1>t, <2>1, <2>3 DEF ChannelLists
  <2> QED  BY <2>1, <2>4, NothingDeleted
<1>6. ASSUME NEW c \in Clients, NEW g \in Channels, NEW k \in Keys,
             Unsubscribe(c, g, k)
      PROVE  DeletedRightly(ch)
  <2> DEFINE C == IF Unused(g, lists'[g]) THEN {g} ELSE {}
  <2>1. /\ chan' = Released(C)
        /\ lists' = [lists EXCEPT ![g][k] =
                       list_delete_value(lists[g][k], c)]
    BY <1>6 DEF Unsubscribe, unsubscribe_channel_t
  <2>2. ch \in C => Used(ch) /\ Unused(ch, lists'[ch])
    BY <1>6 DEF Unsubscribe, unsubscribe_channel_t, Used
  <2>3. ch \notin C => lists'[ch] = lists[ch] \/ ~ Unused(ch, lists'[ch])
    BY <1>t, <2>1 DEF ChannelLists
  <2> HIDE DEF C
  <2> QED  BY <2>1, <2>2, <2>3, DeletedUnused
<1>7. ASSUME NEW g \in Channels, NEW t \in Topics, Publish(g, t)
      PROVE  DeletedRightly(ch)
  <2>1. /\ chan' = chan
        /\ lists' = [lists EXCEPT ![g][t] = Turn(g, t)]
    BY <1>7 DEF Publish
  <2>2. /\ lists[g][t] \in Seq(Clients) /\ Turn(g, t) \in Seq(Clients)
        /\ Elems(Turn(g, t)) = Elems(lists[g][t])
    BY <1>7, TurnFacts
  <2>3. lists[g][t] # << >> => Turn(g, t) # << >>
    BY <2>2, SeqFacts
  <2>4. \A j \in Keys : lists[ch][j] # << >> => lists'[ch][j] # << >>
    BY <1>t, <2>1, <2>3 DEF ChannelLists
  <2> QED  BY <2>1, <2>4, NothingDeleted
<1>8. ASSUME NEW C, Delete(C)
      PROVE  DeletedRightly(ch)
  <2>1. channels' = channels \ C
    BY <1>8 DEF Delete, Released, channels
  <2>2. ch \notin C => lists'[ch] = lists[ch]
    BY <1>8, <1>t DEF Delete
  <2>3. ch \notin C => (Used(ch) => Used(ch)')
    BY <2>2 DEF Used
  <2>4. asked' = C
    BY <1>8 DEF Delete, Silent
  <2> QED  BY <2>1, <2>3, <2>4 DEF DeletedRightly
<1> QED
  BY <1>1, <1>2, <1>3, <1>4, <1>5, <1>6, <1>7, <1>8
     DEF Next, ChannelDelete, FlushChannels

(* A channel with the auto_delete flag goes with its last subscription,    *)
(* and but for requests to delete it no other channel goes, and none that  *)
(* has not had a subscription.                                             *)
THEOREM ChannelAutoDeleteCorrect == Spec => ChannelAutoDelete
<1>1. SubInv /\ [Next]_vars => [\A ch \in channels : DeletedRightly(ch)]_vars
  BY DeletedStep
<1>2. Spec => [][\A ch \in channels : DeletedRightly(ch)]_vars
  BY <1>1, SubInvariant, PTL DEF Spec
<1> QED
  BY <1>2 DEF DeletedRightly, ChannelAutoDelete
=============================================================================
