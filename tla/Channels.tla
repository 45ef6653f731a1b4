------------------------------ MODULE Channels ------------------------------
(***************************************************************************)
(* Channels (src/src/channel_t.c): clients subscribe to topics and         *)
(* patterns, and a published message goes to whoever listens.  Nothing is  *)
(* kept of a message, so the state is who is subscribed to what, and it is *)
(* kept twice: channel->topics and channel->patterns have the list of the  *)
(* clients of each key, client->subscribed_topics and subscribed_patterns  *)
(* the keys of each channel.  A key is a topic or a pattern; the two       *)
(* halves of the code differ in nothing but the keylists they work on, and *)
(* lists and subscribed stand for both.                                    *)
(*                                                                         *)
(* A keylist node without clients is deleted at once (channel_t.c:275), so *)
(* the empty list stands for no node.  Requests that the handlers refuse   *)
(* change nothing and are not actions.                                     *)
(***************************************************************************)
EXTENDS Lists

CONSTANTS
    Clients,   \* addresses of EagleClient
    Channels,  \* addresses of Channel_t
    Names,     \* names of channels
    Topics, Patterns,
    Matches,   \* the pairs <<topic, pattern>> that pattern_match accepts
    Null,      \* no channel at this address, no event
    MaxSubscriptions   \* bound: subscriptions at any time

Keys == Topics \cup Patterns

(* Channel_t without its keylists *)
Channel_t == [name : Names, auto_delete : BOOLEAN, round_robin : BOOLEAN]

ASSUME ChannelsAssumption ==
    /\ Topics \cap Patterns = {}
    /\ Matches \subseteq Topics \X Patterns
    /\ Null \notin Channel_t
    /\ MaxSubscriptions \in Nat

VARIABLES
    clients,     \* server->clients
    chan,        \* for each address in server->channels, the Channel_t there
    lists,       \* channel->topics, channel->patterns
    subscribed,  \* client->subscribed_topics, client->subscribed_patterns
    event,       \* the events of the request just handled, if it published
    asked,       \* history: the channels that it was asked to delete
    ahead        \* history: for a client and a topic of a channel in turn,
                 \* the clients that may be served before it is

vars == <<clients, chan, lists, subscribed, event, asked, ahead>>

channels == {ch \in Channels : chan[ch] # Null}

NoLists == [k \in Keys |-> << >>]

Init ==
    /\ clients = {}
    /\ chan = [ch \in Channels |-> Null]
    /\ lists = [ch \in Channels |-> NoLists]
    /\ subscribed = [c \in Clients |-> [ch \in Channels |-> {}]]
    /\ event = Null
    /\ asked = {}
    /\ ahead = [ch \in Channels |-> [t \in Topics |-> [c \in Clients |-> {}]]]

(* list_delete_value: the first node with the value, if there is one. *)
list_delete_value(s, c) ==
    IF c \in Elems(s)
    THEN Without(s, CHOOSE i \in DOMAIN s :
                        s[i] = c /\ \A j \in 1 .. i - 1 : s[j] # c)
    ELSE s

(* History: clients join and leave.  Whoever joins comes before those that *)
(* wait already; a client that leaves waits for nobody and nobody for it.  *)
Waiting ==
    [ch \in Channels |-> [t \in Topics |-> [c \in Clients |->
        LET old == Elems(lists[ch][t])
            new == Elems(lists'[ch][t])
        IN  IF c \in old \cap new
            THEN (ahead[ch][t][c] \cap new) \cup (new \ old) ELSE {}]]]

(* A request other than channel_publish, to delete the channels in C. *)
Silent(C) == event' = Null /\ asked' = C /\ ahead' = Waiting

-----------------------------------------------------------------------------
(* accept_common_handler, create_client *)
Connect(c) ==
    /\ c \notin clients
    /\ clients' = clients \cup {c}
    /\ UNCHANGED <<chan, lists, subscribed>>
    /\ Silent({})

(* find_channel_t *)
Named(n) == \E ch \in channels : chan[ch].name = n

create_channel_t(n, auto, robin) ==
    [name |-> n, auto_delete |-> auto, round_robin |-> robin]

(* channel_create: the name is free; ch is the address of the new channel. *)
ChannelCreate(ch, n, auto, robin) ==
    /\ clients # {}
    /\ ~ Named(n)
    /\ ch \notin channels
    /\ chan' = [chan EXCEPT ![ch] = create_channel_t(n, auto, robin)]
    /\ UNCHANGED <<clients, lists, subscribed>>
    /\ Silent({})

(* channel_rename *)
ChannelRename(ch, n) ==
    /\ clients # {}
    /\ ch \in channels
    /\ ~ Named(n)
    /\ chan' = [chan EXCEPT ![ch].name = n]
    /\ UNCHANGED <<clients, lists, subscribed>>
    /\ Silent({})

(* The subscriptions of all clients. *)
Subscriptions ==
    {s \in Clients \X Channels \X Keys : s[3] \in subscribed[s[1]][s[2]]}

(* Mutant: the list is not searched for the client. *)
subscribe_channel_t_twice(ch, c, k) ==
    /\ Len(lists[ch][k]) < MaxSubscriptions
    /\ lists' = [lists EXCEPT ![ch][k] = Append(@, c)]
    /\ subscribed' = [subscribed EXCEPT ![c][ch] = @ \cup {k}]

(* subscribe_channel_t, psubscribe_channel_t, add_keylist_channel_t: the   *)
(* client is added to the list of the key, and the key to the client's,    *)
(* unless the client is there already.                                     *)
subscribe_channel_t(ch, c, k) ==
    /\ c \notin Elems(lists[ch][k])
    /\ lists' = [lists EXCEPT ![ch][k] = Append(@, c)]
    /\ subscribed' = [subscribed EXCEPT ![c][ch] = @ \cup {k}]

(* channel_subscribe, channel_psubscribe *)
Subscribe(c, ch, k) ==
    /\ c \in clients
    /\ ch \in channels
    /\ Cardinality(Subscriptions) < MaxSubscriptions
    /\ subscribe_channel_t(ch, c, k)
    /\ UNCHANGED <<clients, chan>>
    /\ Silent({})

-----------------------------------------------------------------------------
(* Mutant: only the topics are looked at. *)
UnusedTopicsOnly(ch, l) ==
    /\ chan[ch].auto_delete
    /\ \A k \in Topics : l[k] = << >>

(* Mutant: the flag is not looked at. *)
UnusedAny(ch, l) == \A k \in Keys : l[k] = << >>

(* What unsubscribe_channel_t and punsubscribe_channel_t test after they   *)
(* have left l of the lists of the channel: it is to be deleted.           *)
Unused(ch, l) ==
    /\ chan[ch].auto_delete
    /\ \A k \in Keys : l[k] = << >>

(* list_delete_value on server->channels for the channels in C. *)
Released(C) == [ch \in Channels |-> IF ch \in C THEN Null ELSE chan[ch]]

(* unsubscribe_channel_t, punsubscribe_channel_t, remove_keylist_channel_t *)
(* if the key has a list, which need not have the client.  The node of the *)
(* key and then the channel are deleted when they are not used any more.   *)
unsubscribe_channel_t(ch, c, k) ==
    /\ lists[ch][k] # << >>
    /\ lists' = [lists EXCEPT ![ch][k] = list_delete_value(@, c)]
    /\ subscribed' = [subscribed EXCEPT ![c][ch] = @ \ {k}]
    /\ chan' = Released(IF Unused(ch, lists'[ch]) THEN {ch} ELSE {})

(* channel_unsubscribe, channel_punsubscribe *)
Unsubscribe(c, ch, k) ==
    /\ c \in clients
    /\ ch \in channels
    /\ unsubscribe_channel_t(ch, c, k)
    /\ UNCHANGED clients
    /\ Silent({})

(* eject_clients_channel_t for the channels in C: each client in a list    *)
(* loses the key.                                                          *)
EjectClients(C) ==
    [c \in Clients |-> [ch \in Channels |->
        IF ch \in C
        THEN {k \in subscribed[c][ch] : c \notin Elems(lists[ch][k])}
        ELSE subscribed[c][ch]]]

(* delete_channel_t for the channels in C *)
Delete(C) ==
    /\ clients # {}
    /\ chan' = Released(C)
    /\ lists' = [ch \in Channels |-> IF ch \in C THEN NoLists ELSE lists[ch]]
    /\ subscribed' = EjectClients(C)
    /\ UNCHANGED clients
    /\ Silent(C)

(* channel_delete *)
ChannelDelete(ch) == ch \in channels /\ Delete({ch})

(* flush with EG_FLUSH_CHANNEL_FLAG *)
FlushChannels == Delete(channels)

(* eject_channel_client: the client leaves the lists of its keys. *)
Ejected(c) ==
    [ch \in Channels |-> [k \in Keys |->
        IF k \in subscribed[c][ch]
        THEN list_delete_value(lists[ch][k], c) ELSE lists[ch][k]]]

(* free_client: a connection ends.  Channels with the auto_delete flag go  *)
(* with their last subscription.                                           *)
FreeClient(c) ==
    /\ c \in clients
    /\ clients' = clients \ {c}
    /\ lists' = Ejected(c)
    /\ chan' = Released({ch \in channels : subscribed[c][ch] # {} /\
                                           Unused(ch, lists'[ch])})
    /\ subscribed' = [subscribed EXCEPT ![c] = [ch \in Channels |-> {}]]
    /\ Silent({})

-----------------------------------------------------------------------------
(* Publishing *)

(* How often c is in the list. *)
Count(s, c) == Cardinality({i \in DOMAIN s : s[i] = c})

(* Mutant: the channel is in turn for patterns as well. *)
PatternEventsFirst(l, t, c, p) ==
    IF <<t, p>> \in Matches /\ l[p] # << >> /\ Head(l[p]) = c THEN 1 ELSE 0

(* channel_client_event_pattern_message for each client of each pattern    *)
(* that matches.                                                           *)
PatternEvents(l, t, c, p) ==
    IF <<t, p>> \in Matches THEN Count(l[p], c) ELSE 0

(* Mutant: the list is not rotated. *)
TurnNot(ch, t) == lists[ch][t]

(* A channel in turn rotates the list of the topic first. *)
Turn(ch, t) ==
    IF chan[ch].round_robin /\ lists[ch][t] # << >>
    THEN Rotate(lists[ch][t])
    ELSE lists[ch][t]

(* channel_client_event_message for the first client of the topic or for   *)
(* each of them.                                                           *)
TopicEvents(ch, l, c) ==
    IF chan[ch].round_robin
    THEN IF l # << >> /\ Head(l) = c THEN 1 ELSE 0
    ELSE Count(l, c)

(* The events that go out when l is the list of the topic. *)
publish_message_channel_t(ch, t, l) ==
    [c \in Clients |-> [k \in Keys |->
        CASE k = t -> TopicEvents(ch, l, c)
          [] k \in Patterns -> PatternEvents(lists[ch], t, c, k)
          [] OTHER -> 0]]

(* History: of those in the list, the client d was served.  It waits for   *)
(* each of the others, and no other client for it.                         *)
Served(waits, l, d) ==
    [c \in Clients |-> IF c = d THEN Elems(l) \ {d} ELSE waits[c] \ {d}]

(* channel_publish *)
Publish(ch, t) ==
    LET l == Turn(ch, t) IN
    /\ clients # {}
    /\ ch \in channels
    /\ lists' = [lists EXCEPT ![ch][t] = l]
    /\ event' = [channel |-> ch, topic |-> t,
                 sent |-> publish_message_channel_t(ch, t, l)]
    /\ asked' = {}
    /\ ahead' = IF chan[ch].round_robin /\ l # << >>
                THEN [ahead EXCEPT ![ch][t] = Served(@, l, Head(l))]
                ELSE ahead
    /\ UNCHANGED <<clients, chan, subscribed>>

-----------------------------------------------------------------------------
Next ==
    \/ \E c \in Clients : Connect(c) \/ FreeClient(c)
    \/ \E ch \in Channels, n \in Names :
          \/ \E auto, robin \in BOOLEAN : ChannelCreate(ch, n, auto, robin)
          \/ ChannelRename(ch, n)
    \/ \E c \in Clients, ch \in Channels, k \in Keys :
          Subscribe(c, ch, k) \/ Unsubscribe(c, ch, k)
    \/ \E ch \in Channels : ChannelDelete(ch)
    \/ \E ch \in Channels, t \in Topics : Publish(ch, t)
    \/ FlushChannels

Spec == Init /\ [][Next]_vars

-----------------------------------------------------------------------------
(* Properties *)

(* A client is once in the list of a key that it has in its own record,    *)
(* and in no other: what free_client and delete_channel_t will look for is *)
(* what there is.                                                          *)
Mirrored ==
    \A c \in Clients, ch \in Channels, k \in Keys :
        Count(lists[ch][k], c) = IF k \in subscribed[c][ch] THEN 1 ELSE 0

(* No client that is gone is in a list of a channel, and no client has a   *)
(* key of a channel that was deleted, by a request, a flush or because its *)
(* last subscriber left.                                                   *)
NoDangling ==
    \A c \in Clients, ch \in Channels :
        /\ subscribed[c][ch] # {} => c \in clients /\ ch \in channels
        /\ \A k \in Keys :
             c \in Elems(lists[ch][k]) => c \in clients /\ ch \in channels

(* A published message reaches each client once for each of its matching   *)
(* patterns, and the topic's subscribers: all of them or, if the channel   *)
(* is in turn, exactly one.  docs/README.md: "each message will be sent    *)
(* only to one subscriber by topic.  On the subscription pattern this flag *)
(* is not affected".                                                       *)
DeliveredToSubscribers ==
    event # Null =>
        LET ch    == event.channel
            t     == event.topic
            ours  == {c \in Clients : t \in subscribed[c][ch]}
            given == {c \in Clients : event.sent[c][t] > 0}
        IN  /\ \A c \in Clients, k \in Keys : event.sent[c][k] <= 1
            /\ given \subseteq ours
            /\ IF chan[ch].round_robin
               THEN Cardinality(given) = IF ours = {} THEN 0 ELSE 1
               ELSE given = ours
            /\ \A c \in Clients, k \in Keys \ {t} :
                 event.sent[c][k] = 1 <=>
                     k \in subscribed[c][ch] /\ <<t, k>> \in Matches

(* Delivery in turn, although clients join, leave and join again: after a  *)
(* message of its own a subscriber waits for one message to each of those  *)
(* that are subscribed then, and for one more to each that joins while it  *)
(* waits; nobody else is served before it.  docs/README.md: "For message   *)
(* distribution used algorithm round-robin".  The list is taken from the   *)
(* end at which clients join, so one that leaves and joins again passes    *)
(* over those that stay, by one message each time.                         *)
InTurn ==
    [][event' # Null =>
        LET ch == event'.channel
            t  == event'.topic
        IN  chan[ch].round_robin =>
              \A c, d \in Clients :
                 event'.sent[c][t] > 0 /\ c # d /\ t \in subscribed[d][ch]
                     => c \in ahead[ch][t][d]]_vars

(* The channel has a subscription. *)
Used(ch) == \E k \in Keys : lists[ch][k] # << >>

(* A channel with the auto_delete flag does not outlive its last           *)
(* subscription, whether by topic or by pattern.  Nothing else deletes a   *)
(* channel but channel_delete and flush: not one without the flag when its *)
(* subscriptions end, and not one that nobody has subscribed to yet.       *)
(* docs/README.md: "the channel will be automatically removed if it has no *)
(* subscriptions".                                                         *)
ChannelAutoDelete ==
    [][\A ch \in channels :
        /\ chan[ch].auto_delete /\ Used(ch) /\ ch \in channels'
               => Used(ch)'
        /\ ch \notin channels' /\ ch \notin asked'
               => chan[ch].auto_delete /\ Used(ch) /\ ~ Used(ch)']_vars
=============================================================================
