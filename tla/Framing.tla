------------------------------ MODULE Framing -------------------------------
(***************************************************************************)
(* The requests of one connection (read_request, process_request and       *)
(* parse_command in src/src/handlers.c).  The client sends requests one    *)
(* after the other; read returns any part of what it has sent, and         *)
(* process_request cuts it into requests again.                            *)
(*                                                                         *)
(* A byte is <<r, i>>, the i-th of the r-th request.  The first byte of a  *)
(* header stands for the magic number and the others for cmd, noack and    *)
(* bodylen.  A byte that is no first byte is not taken for the magic       *)
(* number (the contents of a body are not modelled); any other byte in the *)
(* place of cmd, noack and bodylen can have any value.                     *)
(*                                                                         *)
(* process_request is a loop, and each of its turns is an action here:     *)
(* Handle or one of the early returns.  Of a handler it matters how many   *)
(* status responses it adds, and whether it frees the client.  The size of *)
(* client->request is not modelled.                                        *)
(***************************************************************************)
EXTENDS Lists

CONSTANTS
    Kinds,        \* the requests that clients send, see KindsAssumption
    Header,       \* sizeof(ProtocolRequestHeader)
    BufSize,      \* EG_BUF_SIZE
    MaxBody,      \* EG_MAX_BUF_SIZE
    MaxRequests   \* bound: requests of the connection

ASSUME FramingAssumption ==
    /\ Header \in Nat \ {0, 1} /\ BufSize \in Nat \ {0}
    /\ MaxBody \in Nat /\ MaxRequests \in Nat

(* bodylen and noack are fields of the header; known: cmd has a handler;   *)
(* answers: the calls of add_status_response in the handler (two on the    *)
(* error paths of save and channel_unsubscribe, which do not return);      *)
(* frees: the handler is disconnect_command_handler.                       *)
ASSUME KindsAssumption ==
    Kinds \subseteq [bodylen : Nat, noack : BOOLEAN, known : BOOLEAN,
                     answers : 0 .. 2, frees : BOOLEAN]

VARIABLES
    sent,      \* the kinds of the requests that the client has sent
    input,     \* the bytes that are not yet read
    buffer,    \* client->buffer: the last bytes read, and older ones
    nread,     \* client->nread
    offset,    \* client->offset
    bodylen,   \* client->bodylen: what is missing of the request, or 0
    request,   \* client->request, up to client->pos
    req,       \* cmd, noack and bodylen in the header of client->request
    noack,     \* client->noack
    pc,        \* "read": in the event loop; "process": in process_request;
               \* "freed"; "undefined": going on with a freed client
    handled,   \* history: the requests that were given to parse_command
    answers,   \* history: the requests that the responses belong to, or 0
    framed     \* history: no read has ended inside a header, and no header
               \* was refused

client_vars == <<buffer, nread, offset, bodylen, request, req, noack, pc>>
vars == <<sent, input, client_vars, handled, answers, framed>>

Unset == <<0, 0>>
NoKind == [bodylen |-> 0, noack |-> FALSE, known |-> FALSE, answers |-> 0,
           frees |-> FALSE]

Size(kind) == Header + kind.bodylen

Bytes(r, kind) == [i \in 1 .. Size(kind) |-> <<r, i>>]

(* create_client *)
Init ==
    /\ sent = <<>> /\ input = <<>>
    /\ buffer = [i \in 1 .. BufSize |-> Unset]
    /\ nread = 0 /\ offset = 0 /\ bodylen = 0
    /\ request = <<>> /\ req = NoKind /\ noack = FALSE
    /\ pc = "read"
    /\ handled = <<>> /\ answers = <<>> /\ framed = TRUE

-----------------------------------------------------------------------------
(* The client sends a request. *)
Send(kind) ==
    /\ pc = "read"
    /\ Len(sent) < MaxRequests
    /\ sent' = Append(sent, kind)
    /\ input' = input \o Bytes(Len(sent'), kind)
    /\ UNCHANGED <<client_vars, handled, answers, framed>>

(* read_request: read returns n bytes. *)
Read(n) ==
    /\ pc = "read"
    /\ n <= Len(input)
    /\ buffer' = [i \in 1 .. BufSize |->
                      IF i <= n THEN input[i] ELSE buffer[i]]
    /\ input' = SubSeq(input, n + 1, Len(input))
    /\ nread' = n
    /\ pc' = "process"
    /\ framed' = (framed /\ input[n][2] \notin 1 .. Header - 1)
    /\ UNCHANGED <<sent, offset, bodylen, request, req, noack, handled,
                   answers>>

(* read_request: the connection is closed or broken. *)
Closed ==
    /\ pc = "read"
    /\ pc' = "freed"
    /\ UNCHANGED <<sent, input, buffer, nread, offset, bodylen, request, req,
                   noack, handled, answers, framed>>

-----------------------------------------------------------------------------
(* n bytes of client->buffer, from client->offset on. *)
Buffered(from, n) ==
    [i \in 1 .. n |-> IF from + i <= BufSize THEN buffer[from + i] ELSE Unset]

(* What cmd, noack and bodylen may be in the header at client->offset.     *)
HeaderKinds ==
    LET fields == {Buffered(offset, Header)[i] : i \in 2 .. Header}
        whole == {r \in DOMAIN sent :
                      fields = {<<r, i>> : i \in 2 .. Header}}
    IN  IF whole = {} THEN Kinds ELSE {sent[r] : r \in whole}

Magic == Buffered(offset, 1)[1][2] = 1

(* Mutant: the next request is looked for behind one request only. *)
WholeFirst(kind) ==
    /\ nread >= Size(kind)
    /\ request' = Buffered(offset, Size(kind))
    /\ offset' = IF nread = Size(kind) THEN 0 ELSE Size(kind)
    /\ nread' = nread - Size(kind)
    /\ bodylen' = 0

(* The length that the header at client->offset gives is copied, and the   *)
(* request is complete.                                                    *)
Whole(kind) ==
    /\ nread >= Size(kind)
    /\ request' = Buffered(offset, Size(kind))
    /\ offset' = IF nread = Size(kind) THEN 0 ELSE offset + Size(kind)
    /\ nread' = nread - Size(kind)
    /\ bodylen' = 0

(* Mutant: all that was read is taken for the rest of the request. *)
RestAll ==
    /\ nread >= bodylen
    /\ request' = request \o Buffered(0, nread)
    /\ offset' = IF nread = bodylen THEN 0 ELSE bodylen
    /\ nread' = nread - bodylen
    /\ bodylen' = 0

(* The bytes that were missing are there. *)
Rest ==
    /\ nread >= bodylen
    /\ request' = request \o Buffered(0, bodylen)
    /\ offset' = IF nread = bodylen THEN 0 ELSE bodylen
    /\ nread' = nread - bodylen
    /\ bodylen' = 0

(* add_status_response *)
add_status_response(r, n) ==
    answers' = answers \o [i \in 1 .. IF noack' THEN 0 ELSE n |-> r]

(* Mutant: noack, once set, is not reset by a later request. *)
parse_command_quiet ==
    /\ handled' = Append(handled, [bytes |-> request', req |-> req'])
    /\ noack' = (noack \/ req'.noack)
    /\ add_status_response(request'[1][1],
                           IF req'.known THEN req'.answers ELSE 1)
    /\ pc' \in IF req'.known /\ req'.frees THEN {"freed", "undefined"}
               ELSE IF nread' >= Header THEN {"process"} ELSE {"read"}

(* parse_command, and whether process_request goes on.  client->nread is   *)
(* read after the handler: from released memory, if that was disconnect.   *)
parse_command ==
    /\ handled' = Append(handled, [bytes |-> request', req |-> req'])
    /\ noack' = IF req'.known THEN req'.noack ELSE noack
    /\ add_status_response(request'[1][1],
                           IF req'.known THEN req'.answers ELSE 1)
    /\ pc' \in IF req'.known /\ req'.frees THEN {"freed", "undefined"}
               ELSE IF nread' >= Header THEN {"process"} ELSE {"read"}

(* A turn of the loop that ends in a request. *)
Handle ==
    /\ pc = "process"
    /\ \/ bodylen = 0 /\ nread >= Header /\ Magic
          /\ \E kind \in HeaderKinds :
                 kind.bodylen <= MaxBody /\ req' = kind /\ Whole(kind)
       \/ bodylen # 0 /\ Rest /\ UNCHANGED req
    /\ parse_command
    /\ UNCHANGED <<sent, input, buffer, framed>>

(* The body goes on in the next read. *)
Partial ==
    /\ pc = "process"
    /\ \/ /\ bodylen = 0 /\ nread >= Header /\ Magic
          /\ \E kind \in HeaderKinds :
                 /\ kind.bodylen <= MaxBody /\ nread < Size(kind)
                 /\ req' = kind
                 /\ request' = Buffered(offset, nread)
                 /\ bodylen' = Size(kind) - nread
          /\ UNCHANGED offset
       \/ /\ nread < bodylen
          /\ request' = request \o Buffered(0, nread)
          /\ bodylen' = bodylen - nread
          /\ offset' = 0
          /\ UNCHANGED req
    /\ pc' = "read"
    /\ UNCHANGED <<sent, input, buffer, nread, noack, handled, answers,
                   framed>>

(* What was read is too short, or does not begin with a header that is     *)
(* accepted: the rest of it is forgotten.                                  *)
Refuse ==
    /\ pc = "process"
    /\ bodylen = 0
    /\ \/ nread < Header /\ UNCHANGED <<offset, framed>>
       \/ /\ nread >= Header
          /\ ~ Magic \/ \E kind \in HeaderKinds : kind.bodylen > MaxBody
          /\ offset' = 0
          /\ framed' = FALSE
    /\ UNCHANGED noack
    /\ add_status_response(0, 1)
    /\ pc' = "read"
    /\ UNCHANGED <<sent, input, buffer, nread, bodylen, request, req,
                   handled>>

Next ==
    \/ \E kind \in Kinds : Send(kind)
    \/ \E n \in 1 .. BufSize : Read(n)
    \/ Closed
    \/ Handle
    \/ Partial
    \/ Refuse

Spec == Init /\ [][Next]_vars
-----------------------------------------------------------------------------
(* Properties *)

(* The requests whose last byte was read. *)
Complete == {r \in DOMAIN sent : <<r, Size(sent[r])>> \notin Elems(input)}

(* However the bytes are cut and joined by read, as long as no cut is      *)
(* inside a header: the handlers get the requests of the client, unchanged *)
(* and in their order, and when process_request returns it has given them  *)
(* every request that is complete.                                         *)
SameRequests ==
    framed =>
        /\ \A r \in DOMAIN handled : handled[r].bytes = Bytes(r, sent[r])
        /\ pc = "read" => Len(handled) = Cardinality(Complete)

(* Even when the connection has lost its framing, a handler gets as many   *)
(* bytes as the header in client->request says, which is what handlers     *)
(* compare client->pos with.                                               *)
WholeRequests ==
    \A k \in DOMAIN handled : Len(handled[k].bytes) = Size(handled[k].req)

(* A request that has a handler with one status response gets this one     *)
(* response, unless it asks for none, and the responses are in the order   *)
(* of the requests, whatever was sent before it.                           *)
AnswersInStep ==
    framed =>
        /\ \A i, j \in DOMAIN answers : i < j => answers[i] <= answers[j]
        /\ \A r \in DOMAIN handled :
            sent[r].known /\ sent[r].answers = 1 =>
                Cardinality({i \in DOMAIN answers : answers[i] = r})
                    = IF sent[r].noack THEN 0 ELSE 1
=============================================================================
