# A TLA+ model of EagleMQ

EagleMQ is a message broker: one process, one thread, an event loop. Clients
send requests over TCP or a UNIX socket; the server keeps queues, routes and
channels in memory, and saves the durable ones to a file. This directory models
the server's core as TLA+ modules, checks them with TLC on small instances, and
proves the safety properties of queues, their container, the registry, channels,
framing, connections and users with TLAPS for every instance.

All paths below are relative to the repository (`src/...` is its `src/`
directory).

## 1. Inventory

| Component | State | Operations | Interacts with |
|---|---|---|---|
| Message queue, `queue_t.c`, `message.c` | the queue of messages, `expire_messages`, `confirm_messages`, the subscriber lists | push, get, pop, confirm, purge, subscribe, unsubscribe, expiry and redelivery | `server_updater`, clients, routes |
| Linked queue, `queue.c` | nodes, `head`, `tail`, `len` | push at both ends, pop, purge, delete a node, iterate | message queue, storage |
| List and keylist, `list.c`, `keylist.c` | nodes | add, delete, search, rotate, iterate | everything |
| Registry of queues and clients, `handlers.c`, `queue_t.c` | `server->queues`, each client's `declared_queues` and `subscribed_queues`, each queue's mirror lists | create, rename, declare, subscribe, delete, flush, disconnect, automatic deletion | routes |
| Routes, `route_t.c` | `keys`: for each key a list of queues; `Queue_t.routes` mirrors it | create, rename, bind, unbind, push, delete, automatic deletion | queues |
| Channels, `channel_t.c` | topics and patterns with their clients, mirrored in each client | create, publish, subscribe by topic or pattern, delete | clients |
| Payloads and responses, `object.c`, `handlers.c` | reference counts, each client's list of unsent responses | share, release, send | queues, routes, channels |
| Periodic work, `eagle.c` | `now_timems`, `msg_counter`, `nomemory`, `child_pid` | `server_updater`, every 100 ms | queues, clients, storage |
| Storage, `storage.c` | the file, a temporary file, a forked child | save, background save, load | all objects |
| Framing and dispatch, `handlers.c` | `request`, `pos`, `nread`, `bodylen`, `offset` of a client | `read_request`, `process_request`, `parse_command` | all handlers |
| Users, `user.c` | users and permission bits, each client's copy of the bits | create, rename, set permissions, delete, flush, authenticate | all handlers, storage |
| Event loop and connections, `event.c`, `event_epoll.c`, `handlers.c` | file events, time events, each client's descriptor and unsent responses | accept, poll, call handlers, send, time out | everything |
| Pattern matching, `utils.c` | none | `pattern_match`, checks of topics and patterns | channels |

What is hard here. Nothing runs in parallel except the forked child that saves,
so every handler is atomic. The difficulty is in what a handler leaves behind
for the next one, of another client or of the timer:

* pointers: the same message is reachable from three lists, a queue from the
  lists of clients and routes, a payload from queues and unsent responses, and
  whoever goes first has to take out every reference;
* time: a confirm races with the confirm time, a pop with the expiry, and times
  are 32-bit;
* limits: `max_msg` is checked by a push but messages come back otherwise;
* files: a child saves an old state while the server goes on, saves itself, or
  dies and starts again;
* cascades: a disconnect deletes queues, which deletes routes;
* the stream: `read` cuts and joins requests and `write` cuts responses, and the
  counters that remember where live on from one event to the next;
* descriptors: a handler closes one that has an event in the same poll, and
  `accept` gives it to another connection.

The hazards, each with its line, are in `PROJECT.json`.

What makes each component correct: a message is in one place, is not lost, is
not visible after its expiration, comes back after its confirm time and not
before, and leaves in order; a linked queue is a sequence; both sides of every
reference agree and none is to released memory; a name stands for one object; a
payload lives as long as something refers to it; a stored file is a state the
server was in; requests are cut at their boundaries and answered in step;
responses go out whole and to the connection they are for; idle connections end;
the administrator of the configuration is never locked out.

## 2. Modules

| Module | Models | Used by |
|---|---|---|
| `Lists` | what loops over a `List` leave of it, as operators on sequences | `MessageQueue`, `Channels`, `Framing`, `Users`, `Payload`, `Storage` |
| `MessageQueue` | one `Queue_t` with its handlers and `server_updater` | `MessageQueueProofs`; checked directly |
| `Deque` | the contract of `queue.c`: a sequence and its two stale pointers | `LinkedQueue` |
| `LinkedQueue` | `queue.c` pointer by pointer, refines `Deque` | `MCLinkedQueue`, `LinkedQueueProofs` |
| `Broker` | clients, queues, routes and the lists between them | `MCBroker`, `BrokerProofs` |
| `Payload` | reference counts of payloads | `MCPayload`, `FramingProofs` |
| `Channels` | channels, subscriptions by topic and pattern, publishing | `MCChannels`, `ChannelsProofs` |
| `PatternMatch` | `pattern_match` and a definition of glob patterns | `MCPatternMatch`, `MCChannels` |
| `Storage` | saving, loading, crashes and restarts | `MCStorage`, `LinkedQueueProofs` |
| `Framing` | one connection's requests: `read_request`, `process_request`, `parse_command` | `MCFraming`, `FramingProofs` |
| `Connections` | the event loop, accepting, sending, closing, `client_timeout` | `ConnectionsProofs`; checked directly |
| `Users` | users, permissions, their part of the storage | `MCUsers`, `UsersProofs` |
| `ListProofs` | lemmas about the operators of `Lists`, a least element of a set of numbers, recursion over numbers | all proof modules |
| `...Proofs` | theorems about `MessageQueue`, `LinkedQueue`, `Broker`, `Channels`, `Framing`, `Connections`, `Users`; the last part of `FramingProofs` is about `Payload`, that of `LinkedQueueProofs` about `Storage` | |
| `MC...` | named model values and symmetry for TLC | |

Every action is one run of a handler or of `server_updater`, with all the calls
it makes, except where a module looks into a loop: `process_request` in
`Framing`, `process_events` and `send_response` in `Connections`. Requests that
a handler refuses, for want of a permission or a name, change nothing but the
answer and are not actions. Answers are modelled in `Framing`, permissions in
`Users`; in the other modules a client may do everything. The operators that
begin with "Mutant:" in their comment are altered copies of a definition; they
are part of no specification and serve to confirm that a property notices the
error.

The specifications of `Payload` and `Storage` have names of their own
(`PayloadSpec`, `StorageSpec`), so that a proof module can extend them beside
another component.

`undefined` becomes TRUE when the code follows a pointer to released memory.
Nothing is claimed about the server after that, so a specification stops there.

### MessageQueue

A message is the number of the push that created it. `queue` is the sequence
from head (newest) to tail (oldest), `confirm_messages` the list of popped
messages that wait, `expire_messages` a set, because nothing depends on its
order. `alloc` is the set of messages in memory, so a released message that is
still listed can be told apart. `message` holds the 32-bit fields (modulo
`Modulus`); the history variables `lifetime` and `deadline` hold the same times
exactly, `accepted` and `returned` what was answered with success and what was
put back, `share` how many messages each subscriber got since the list of
subscribers changed.

* `PushRefused`, `PushDelivered`, `PushStored`: the three outcomes of
  `push_message_queue_t` (too large or full; handed to subscribers; stored,
  after a forced pop if full).
* `Pop`, `Confirm`, `Purge`, `Subscribe`, `Unsubscribe`: the handlers.
* `ServerUpdater`: the clock moves by a step, `msg_counter` restarts, then
  `process_expired_messages_queue_t` and `process_unconfirmed_messages_queue_t`
  run. `Faulty` says when the first of them accesses released memory: a purged
  message is still in `expire_messages`, or the expired message is the tail and
  the tail's next pointer is stale (`stale_next`, see `Deque`).

The clock only moves in `ServerUpdater`, as in the code, where handlers read
`server->now_timems`. Clock values that go back (the code uses the wall clock)
are not modelled.

### Deque and LinkedQueue

`LinkedQueue` has a heap of nodes, `head`, `tail` and `len`. Two operations of
`queue.c` leave stale pointers: `queue_pop_value` does not reset the next
pointer of the new tail, `queue_purge` resets neither `head` nor `tail`. `Deque`
says that the rest is a sequence, whatever the pointers do, and that undefined
behaviour starts through one of these two pointers and in no other way.
`MessageQueue` uses the queue through this contract.

### Broker

The lists that refer to each other are bags (numbers of occurrences), so that a
value listed twice is seen. `Delete(Q, R)` is the cascade of `delete_queue_t`
and `delete_route_t`: clients are ejected, routes unbound, and routes with
`auto_delete` that lose their last key go too. `FreeClient` is `free_client`:
the client leaves the lists of its queues and the queues with `auto_delete` that
nobody else has declared are deleted. An address is used again after its object
was released. A connection that is refused at `max_clients` never becomes a
client.

### Payload

A handler is a sequence of calls on a record, as in the code.
`push_message_route_t` is a function of how many of the bound queues have had
their turn: for each, `push_message_queue_t` and then an increment.
Where the code releases several references in a loop, the model lets
`decrement_references_count` take them together. What a queue
does with the message is left open (`Outcomes`). `leaked` holds messages that
are neither stored nor released: the code loses those that a push refuses and
those that expire while they wait for a confirm.

### Channels

The two halves of `channel_t.c`, for topics and for patterns, are the same code
on two keylists, so one operator stands for both and a key is a topic or a
pattern. `lists` is the channel's side, `subscribed` the client's. A publish is
recorded in `event` until the next request, and `asked` are the channels that a
request, `channel_delete` or `flush`, names for deletion: with it
`ChannelAutoDelete` tells a deletion that was asked for from an automatic one,
and says that only a channel with the flag, and only one that loses its last
subscription, is deleted without being asked for.

`ahead` is a history variable for delivery in turn: for each subscriber, whose
messages it still has to wait for. After its own message these are the others in
the list, each once; one that is served or leaves is struck off, and one that
joins is added. A subscriber joins at the end of the list from which the next one
is taken (`channel_t.c:101`), so a newcomer is served first, and one that leaves
and joins again is served before those who stayed. `InTurn` says that nobody is
served who is not ahead: each join costs those who wait one message, and nothing
else does. If clients join again before every message, the others wait for
ever; the code allows it, and no property excludes it.
What a pattern matches is a parameter, which `MCChannels` computes with
`pattern_match`.

### PatternMatch

`pattern_match_length` as it is written, on sequences of character codes, with
its loops as recursion. The operator was compared with the compiled C function
on 31941 pairs of a topic and a pattern, with equal results. `Glob` is the
reference: a pattern is a sequence of tokens, and matches if the topic can be
cut into a piece for each. After a `*` the code calls itself with string and
pattern exchanged, so what follows a star is compared as letters (`patterns`).
Where only letters follow the first star the two agree; the assumption
`GlobStyleUpToStar` of `MCChannels` is evaluated in the run `channels`.

### Storage

`storage_save` is seen by others only through its rename, so a saving process is
"saving", "written" or "exited", with the file it will install. `Written` and
`Load` are the two directions of the file format, section by section: users,
queues, routes, channels in this order, because routes find their queues by
name. The messages of a queue are written from its tail (`FromTail`) and pushed
one after the other when they are read. `Change` stands for the requests of the
other modules. A crash may leave children running, as a killed parent does; they
rename their file later.

A temporary file has no sections until it is flushed. Until then the end of what
was written is in the buffer of `stdio`, so that a full disk may show only in
`fflush`; `fflush`, `fsync` and `fclose` are not checked (`storage.c:770`), and a
file whose flush failed is renamed all the same. `Flush` has both outcomes, in
every save; `lost` marks the file whose flush failed. Such a file is a truncated
storage, and the next start ends in `fatal`. `Loadable` says that this is the
only way to a file that cannot be read: no order of writes, renames, kills,
crashes and starts is another.

A save by the server while a child is saving, or a crash that the child
survives, lets the child replace a newer file with an older one
(`overtaken`, `storage.c:774`); `NeverOlder` excepts it. Messages that wait for a
confirm are not written (`storage.c:327`), so `Restored` is about the queued
ones. Users with the flag not to be changed are not written either; they are in
module `Users`.

### Framing

A byte is `<<r, i>>`, the i-th of the r-th request, so that it can be told what a
handler really gets. `Send` is the client; `Read(n)` is `read` returning any part
of what was sent; then `process_request` runs, one turn of its loop per action:
`Handle` (a request is complete and `parse_command` is called), `Partial` (the
body goes on in the next read), `Refuse` (too short, no magic number, or too
long). Of a handler it matters how many status responses it adds (two on the
error paths of `save` and `channel_unsubscribe`, which do not return) and whether
it frees the client.

Three facts of the code are visible here and excepted from the properties. A read
that ends inside a header loses the connection's framing: the beginning of the
header is dropped and `client->offset` stays (`handlers.c:2054`). The history
variable `framed` remembers it; `WholeRequests` says what still holds then. After
`disconnect` the loop reads `client->nread` of the released client, so the state
"undefined" follows. A header with an unknown command is answered according to
the `noack` of the request before.

### Connections

`client` is the heap of clients, `events` is `loop->events`, `fired` what is left
of `loop->fired` and `current` the descriptor whose write handler comes next.
`Poll` is `event_api_poll`; then one action for each call of a handler, and one
for each turn of the loop in `send_response`, in any order of the descriptors.
In between clients send, receive, break and go. `closed` and `got` are history
variables: the connections with a pending event that are gone, and the bytes that
a client has of the response it is receiving.

The loop has `max_clients + 1` places (`eagle.c:374`) that are indexed by
descriptor, and `create_client` fails for a descriptor beyond them. The low
descriptors are the server's own, so at most `max_clients + 1 - FirstFd` clients
fit and the comparison with `max_clients` never decides, although
`eaglemq.conf:30` calls it "Maximum connections on the server". `Accept` follows
the code.

### Users

`users` and `storage` are lists of users, `perm` each client's copy of the bits
of the user it authenticated as; as `docs/README.md:131` says, a change takes
effect with the next `auth`. A start has the administrator of the configuration,
whose name may have changed, and appends the users of the storage without looking
at their names, so a name can be there twice; the administrator is the first, and
searches find it (`AdminStays`, `OneUserPerName`). Users with the flag not to be
changed are not saved (`storage.c:297`). `FixedUntilRestart` therefore says two
things: while the server runs, no request touches a flagged user; after a start
the only flagged user is the administrator of the configuration, so that neither
a user created with the flag nor the administrator of an earlier configuration
stays for good.

The documentation differs from the code in both. `docs/README.md:220` says that a
user with the flag "can not be removed", but a restart removes it.
`docs/README.md:68` says that `flush` "deletes all users (except the main
administrator)", but it keeps every flagged user, also those that `user_create`
made.

## 3. Runs

| Run | Question | Result |
|---|---|---|
| `delivery` | is each message in one place, on time and in order, on a queue that refuses when full, with purges | holds |
| `subscribers` | is delivery in turn balanced while clients come and go; does a full queue with `force_push` drop only the oldest; are unconfirmed and expiring messages resolved | holds |
| `linked_queue` | does `queue.c` implement `Deque` | holds |
| `broker` | are all references mirrored, single and to living objects; do automatic deletions happen | holds |
| `payload` | are payloads counted exactly, if bound queues have no subscribers | holds |
| `payload_route` | the same with subscribers on a bound queue | violated |
| `channels` | do subscriptions end with their client, channel or request and with nothing else; who gets a published message, and when; are only channels with `auto_delete` deleted unasked | holds |
| `patterns` | does `pattern_match` match what the glob pattern does | violated |
| `storage` | can the file be loaded unless its own flush failed, does it restore what was saved, does it never go back | holds |
| `framing` | do the handlers get what was sent, however it is cut; are the answers in step | holds |
| `connections` | do the event loop and the clients agree, do responses go out whole and to the right connection, do idle connections end | holds |
| `users` | can the administrator always log in, does a name stand for one user, are flagged users left alone until a restart and gone after it | holds |

The two violated runs state what `docs/README.md` says; `PROJECT.json` quotes the
lines under "findings":

1. `route_t.c:107`: the payload of a routed message is released while the one
   subscriber of the first queue still has to be sent it.
2. `utils.c:149`: what follows a `*` is not compared as a pattern.

Other facts of this kind are part of the model, and the properties that hold are
stated around them:

* a confirm time that wraps in 32 bits is due at once (`queue_t.c:403`): the
  runs and the theorems that assume `NoWrap` are about clocks that do not wrap;
* purge leaves released messages in `expire_messages` (`queue_t.c:277`):
  `ExpireIndex` excepts them, and reading one is `undefined`;
* pop leaves a stale next pointer that a later delete follows (`queue.c:141`),
  and purge a stale tail that a save follows (`queue.c:166`): the two ways into
  `undefined` in `Deque`;
* redelivery takes a queue over `max_msg`; `Restored` says what a load makes of
  such a queue;
* those named under `Storage`, `Framing`, `Connections` and `Users` above.

### Bounds

* `delivery`: 3 messages and `max_msg` 2, so a push is refused and redelivery
  can exceed the limit; clients act until time 2 (`Horizon`) and the clock runs
  to 6 (`MaxTime`), beyond every expiration and confirm time; steps of 1 and 2
  make a time be hit exactly and be jumped over; the modulus 16 is not reached.
* `subscribers`: `max_msg` 2 with `force_push`, so the third push drops a message
  that is not the newest; 3 clients and 3 messages, one round of the longest
  list. Clients act until time 1 and the clock runs to 3, the last expiration and
  past the last confirm time (2); steps of 2 jump over a time. The bound on the
  clock is therefore never what makes a message stay or go.
* `linked_queue`: 5 nodes: two neighbours around a node and both ends, and an
  address to be allocated again. `broker`: 2 of everything, the fewest with
  which something can be shared by two and each can still lose one.
* `channels`: 3 clients, the fewest for which being passed over can be told from
  being next; 2 channels, 1 topic, a pattern that matches it and one that does
  not; at most 4 subscriptions (`MaxSubscriptions`): all three clients on a topic
  and one elsewhere.
* `storage`: 3 changes of the memory (`MaxTime`): a queue, two messages that come
  back and a push make 3 messages with `max_msg` 2; a queue, a route and a
  binding. 2 processes: a child and one that survived a crash. Saves, failures,
  crashes and starts are not bounded.
* `payload`: 2 payloads, 2 clients, a route to 2 queues, a round-robin and a
  plain queue with subscribers; `MaxResponses` 2 unsent responses of a client
  with the same payload.
* `framing`: 3 requests of 7 kinds (without and with the longest body, without an
  answer, unknown, answered twice, disconnect, too long) with a header of 2 bytes
  and a buffer of 6, so that one read holds three requests or less than one, and
  a request of 5 bytes needs any number of reads.
* `connections`: 2 clients and a descriptor that is refused (`FirstFd` 5,
  `max_clients` 6), responses of 0 and 2 bytes, so that one is empty and one can
  be sent in two parts; 2 unsent responses (`MaxResponses`), of one client or of
  two; a timeout of 1 second.
* `users`: 2 clients, 3 names of which one is an administrator's and one becomes
  it, 2 passwords, 2 created users (`MaxUsers`); the bits that only let other
  commands pass (`Others`) are left out, since no definition of `Users` tells
  them apart.
* `patterns`: 3 tokens and topics of up to 3 letters of `a`, `b`, `c`; two tokens
  are enough for the disagreement.

`CHECK_DEADLOCK FALSE` is set where the bounds on the clock, the pushes and the
requests, or `undefined`, end a run, or the connection is closed. `Broker`,
`Payload` without subscribers on bound queues, `Channels`, `Storage`,
`Connections` and `Users` never stop and are checked for deadlock.

Symmetry is used for clients, nodes, payloads, messages, processes and names,
which no definition distinguishes, and for no liveness property. In `users` only
the clients are symmetric, since the administrators have names.

### Fairness

`FairSpec` of `MessageQueue` assumes weak fairness of `Tick`, that is of
`server_updater`: it is a time event that returns 100 and is thus rescheduled
by `process_time_events` for as long as the loop runs. No client is assumed to
do anything. The liveness properties end when `undefined` is reached, like
everything else.

`FairSpec` of `Connections` assumes weak fairness of the server's steps and of
the clock, and strong fairness of `Updater`: `epoll_wait` gets the time until
the next time event as its limit, so `server_updater` is due about every 100 ms
however busy the descriptors are, and `process_events` looks at the time events
after every poll. Nothing is assumed of the clients; in particular a client need
never receive.

## 4. Proofs

`ListProofs` proves what the operators of `Lists` return: which elements are
left, that no element is repeated, that the order is kept. `Keep`, the loop that
deletes some nodes, is defined with an enumeration of the positions it keeps
(`Enum`) and not by recursion; `EnumExists` shows that the enumeration exists.

`MessageQueueProofs`, for all constants that satisfy `QueueAssumption`:

* `TypeCorrect`: `TypeOK` is inductive by itself.
* `HeldOnceCorrect`, `ExpireIndexCorrect`: neither is inductive alone. Expiry
  releases what `expire_messages` lists, so that a released message is not in
  the queue needs the index to be right; that redelivery leaves the index right
  needs a waiting message to be in one place. Together with the types they are
  (`StoreInv`).
* `NoExpiredVisibleCorrect`, `NoOverdueCorrect`, `NotLostCorrect`,
  `NotBeforeDeadlineCorrect`, assuming `NoWrap` (no clock value or deadline
  reaches the modulus): from `StoreInv` and the fact that under `NoWrap` the
  32-bit fields are the exact times (`TimedInv`). The assumption is needed: a
  deadline that wraps is smaller than the clock and thus due at once.
* `OldestFirstCorrect`: the order of the queue, from `StoreInv`.
* `UniqueTagsCorrect`, assuming `NoWrap`: the tags of all messages ever sent are
  different, and none is ahead of the clock and `msg_counter` (`TagInv`). That
  covers the restart of the counter, which happens when the clock has moved.
* `LeavesAsOldestCorrect`, an action property, assuming `NoWrap`: from `StoreInv`
  and `TimedInv`, looking at what each action takes out of the queue.
* `BalancedCorrect`: the subscribers stand in the order in which they were
  served, so that the shares decrease along the list (`TurnInv`).

Each step lemma (`TypeStep`, `StoreStep`, `TimedStep`, `OrderStep`, `TurnStep`)
has one case per action; `UpdateFacts` and `PushStoredFacts` say what the two
larger actions do to the lists.

`LinkedQueueProofs`, for any nodes and values:

* `WellLinkedCorrect`. The invariant has a list of the nodes, from `head` to
  `tail`, whose neighbours are linked in both directions (`Chained`); the next
  pointer of the tail is left open, because `queue_pop_value` leaves it stale.
  `Forward` and `Backward`, which follow the pointers as the loops of `queue.c`
  do, are this list and its reverse: otherwise take the first place where they
  differ (`OneChain`).
* `ImplementsDequeCorrect`, the refinement: for each operation a lemma says which
  list the new heap has, another that the values along it are what `Deque` makes
  of the old ones and that the two stale pointers are the ones it names. `Fault`
  maps to `Fault`: the code leaves the chain through one of the two.

The last part of `LinkedQueueProofs` is about `Storage`, for all constants that
satisfy `StorageAssumption`: any names, messages and processes, any `max_msg` and
either `force_push`.

* `RestoredCorrect`: what a start makes of the file is what the property says.
  `StorageInv` has that every file, the one on disk and those of the children,
  is what `Written` makes of a sound memory (`MemoryOK`: one administrator, lists
  of messages, bindings only to queues that exist), and `LoadWritten` says what
  `Load` makes of that, one lemma for each section. For a queue,
  `storage_load_queue` is a recursion over the messages; `Pushed` is its closed
  form, `PushedNext` one push, `LoadQueuePushed` the induction, as a least
  counterexample, and `LoadQueueKept` composes it with `FromTail`. That the
  bindings to durable queues are found needs the bindings to be to queues at all.
* `NeverOlderCorrect`. As long as nothing was
  overtaken, the only process that may still rename a file is the child of the
  server, and its file is not older than the one on disk (`InOrder`); no file is
  newer than now.
* `LoadableCorrect`: the file of a child that is going to rename it is flushed,
  and is complete or was lost in its own flush. It is a part of `StorageInv` too
  (`FileOK`, and `FlushedOK` for what `Flush` makes).

`BrokerProofs`, for any clients, queues, routes and keys: `MirroredCorrect`,
`NoDanglingCorrect`, `ListedOnceCorrect` together (`ClientInv`, `RouteInv`). None
is inductive alone: a deletion removes from one side as many entries as the other
side has, and what an unsubscription leaves depends on there being one
subscription. `QueueAutoDeleteCorrect` and `RouteAutoDeleteCorrect`, action
properties, follow from what each action leaves of the lists, through the cascade
`Delete`.

`ChannelsProofs`, for any clients, channels, topics, patterns and any relation
`Matches`:

* `MirroredCorrect`, `NoDanglingCorrect` from `SubInv`: both sides agree, nobody
  is in a list twice, and whoever is in one is connected to an existing channel.
* `DeliveredToSubscribersCorrect`: what a publish records is what `SubInv` of the
  state before says.
* `InTurnCorrect`: the last of a list is served next, so those behind d in it
  are the ones that d waits for, and they are in `ahead` (`InOrder`). Joining
  and leaving keep the order of those who stay (`Follows`), and the rotation moves the one that is
  served to the other end (`RotateInOrder`).
* `ChannelAutoDeleteCorrect` from `SubInv`: what each action, or each channel of
  the loops of a disconnect, leaves of the lists (`DeletedStep`).

`FramingProofs`, for any kinds of requests and any sizes of header, body and
buffer:

* `WholeRequestsCorrect`: what is in `client->request` and what `client->bodylen`
  says is missing make up the size in its header (`LenInv`).
* `SameRequestsCorrect`, `AnswersInStepCorrect`. `Follows` says that a list of
  bytes is the rest of what was sent, from some byte of some request on, complete
  and in order. As long as `framed` holds, what is left of the buffer and of the
  input follows what was handled and what is in `client->request` (`ProcessInv`,
  `ReadInv`, `BegunInv`). Hence its first bytes are the next bytes of the next
  request (`NextBytes`, again by the first place where they are not), the header
  is whole and is the one that was sent (`HeaderIsThere`), and the rest follows
  again (`DropBytes`, `NextRequest`). That the loop never leaves a piece of a
  request with `client->offset` set needs the last byte that was read not to be
  inside a header (`NoShortHeader`). `AnswersInv` adds that the responses of the
  newest request come last.

The last part of `FramingProofs` is about `Payload`, for all constants that
satisfy `PayloadAssumption` (finitely many clients and queues, a list of bindings
without repetition): `RefcountExactCorrect` and `PayloadAliveCorrect`. Both assume
that no queue of the route can be subscribed to. That is the configuration of the
run `payload`; without it `PayloadAlive` is false, which the run `payload_route`
shows. Between handlers the count of every payload is the number of its holders
(`PayloadInv`). Inside a handler it is not: `Counted(s, d)` says
that it is more by `d[o]`, and for each call there is a lemma on how it changes
`d` (`FreedCounted`, `ReleaseCounted`, ...); a handler is proved by chaining them
back to `Zero`. A holder more or less is one element more or less of a finite set
(`HoldersChange`). The loop of `push_message_route_t` is an induction over the
queues that have had the message (`Reached`); that the rest are as before needs
the list not to repeat a queue, which `ListedOnceCorrect` proves of `Broker`.

`ConnectionsProofs`, for any number of clients, descriptors and sizes of
responses: `ArmedCorrect`, `RightConnectionCorrect`, `NextByteCorrect`. `LoopInv`
says that the only closed descriptor with something left to call is the current
one, and that its events are deleted; `Attended` says what the loop and the
socket have for a client, in the middle of `send_response` too. That a client can
be created when a descriptor is free needs a free address, by counting: there are
at least as many addresses as descriptors (`ConnectionsAssumption`), as `malloc`
does not run out of addresses before the server runs out of descriptors.

`UsersProofs`, for all constants that satisfy `UsersAssumption`:

* `AdminStaysCorrect` and `OneUserPerNameCorrect`. Neither is inductive. That
  nothing changes the administrator needs it to be the first of the list, so that
  a search by its name finds it and meets its flag; that a start repeats no other
  name needs the names in the storage to be different, and they are because a
  save leaves out the administrator, the only one whose name can be there twice.
  `UsersInv` therefore has the types, the administrator with all bits at the
  first place, the names of the other users once (`NamesOnce`), and the names in
  the storage once (`AllNamesOnce`).
* `FixedUntilRestartCorrect`, an action property, from `UsersInv`: what each
  request leaves of the list is looked at position by position, and what a start
  makes of it is known because no user in the storage has the flag (`NoneFixed`,
  which a save establishes).

`ChangeFacts`, `DeleteFacts`, `FlushFacts`, `CreateFacts`, `SaveFacts` and
`StartFacts` say what the operations do to a list; `UsersStep` has one case per
action.

Only model-checked:

* liveness: `Resolved`, `ExpiryHappens` and `ActiveAgain`, since the prover does not
  handle fairness;
* `PatternMatch`, which is written with RECURSIVE operators; what `pattern_match`
  returns for every input is an induction over data as well.

## 5. Plan

Done: every component with protocol state is modelled, and every safety property
that a run checks of a specification is a theorem about it. What is left is out
of reach of the prover (above): fairness, and what `pattern_match` returns.

## 6. Not modelled

* Configuration, sockets, allocation, `main`, logging: input and output without
  protocol state. `check_memory` only makes handlers refuse requests.
* LZF (`lzf_c.c`, `lzf_d.c`): third party. The bytes of the storage file: a file
  is complete or not.
* The select backend: it differs from epoll in how descriptors are asked for. The
  list of time events: it has one member.
* The handlers that only read (`stat`, the lists, `exist`, `size`, `get`): they
  change nothing but the answer.
* The sizes of `client->request` and `client->buffer`: the code compares
  `client->length` with the length of the body but copies the header too
  (`handlers.c:1996`).
* The pointers of `list.c` and `keylist.c`: lists are sequences or bags.
