---------------------------- MODULE FramingProofs ----------------------------
(***************************************************************************)
(* Proofs about Framing, and in the last part about Payload, for every     *)
(* value of their constants.                                               *)
(*                                                                         *)
(* Follows says of a list of bytes that it is the rest of what the client  *)
(* sent, from some byte of some request on.  As long as framed holds, what *)
(* process_request has before it follows what was handled and what is in   *)
(* client->request; no turn of its loop begins in a header that is cut.    *)
(***************************************************************************)
EXTENDS Framing, Payload, ListProofs

Kind == [bodylen : Nat, noack : BOOLEAN, known : BOOLEAN, answers : 0 .. 2,
         frees : BOOLEAN]

Byte == Nat \X Nat

Request == [bytes : Seq(Byte), req : Kind]

TypeInv ==
    /\ sent \in Seq(Kinds) /\ input \in Seq(Byte)
    /\ buffer \in [1 .. BufSize -> Byte]
    /\ nread \in Nat /\ offset \in Nat /\ bodylen \in Nat
    /\ request \in Seq(Byte) /\ req \in Kind
    /\ handled \in Seq(Request) /\ answers \in Seq(Nat)

(* What is missing of a request is what its header says less what is there. *)
LenInv == bodylen # 0 => Len(request) + bodylen = Size(req)

(* The i-th byte of the r-th request comes after the n-th of request h + 1. *)
Later(h, n, r, i) == r > h + 1 \/ (r = h + 1 /\ i > n)

Earlier(x, y) == x[1] < y[1] \/ (x[1] = y[1] /\ x[2] < y[2])

(* The list u of m bytes is what follows, in the requests S, the n-th byte *)
(* of request h + 1: these bytes, all of them, and in their order.         *)
Follows(u, m, S, h, n) ==
    /\ \A k \in 1 .. m : \E r \in DOMAIN S : \E i \in 1 .. Size(S[r]) :
         u[k] = <<r, i>> /\ Later(h, n, r, i)
    /\ \A r \in DOMAIN S : \A i \in 1 .. Size(S[r]) :
         Later(h, n, r, i) => \E k \in 1 .. m : u[k] = <<r, i>>
    /\ \A j, k \in 1 .. m : j < k => Earlier(u[j], u[k])

(* What process_request has before it, if it goes on at off: the rest of   *)
(* what was read, and then what was not.                                   *)
Joined(buf, off, n, in) ==
    [k \in 1 .. n + Len(in) |-> IF k <= n THEN buf[off + k] ELSE in[k - n]]

Ahead(off) == Joined(buffer, off, nread, input)

(* How much of the next request is in client->request, and where the rest  *)
(* of what was read begins.                                                *)
Begun == IF bodylen = 0 THEN 0 ELSE Size(req) - bodylen
From  == IF bodylen = 0 THEN offset ELSE 0

HandledInv ==
    /\ Len(handled) <= Len(sent)
    /\ \A r \in 1 .. Len(handled) :
         handled[r] = [bytes |-> Bytes(r, sent[r]), req |-> sent[r]]

BegunInv ==
    bodylen # 0 =>
        /\ Len(handled) < Len(sent) /\ req = sent[Len(handled) + 1]
        /\ bodylen <= Size(req) - Header
        /\ request = [i \in 1 .. Size(req) - bodylen |->
                          <<Len(handled) + 1, i>>]

ReadInv ==
    pc = "read" =>
        /\ bodylen = 0 => offset = 0
        /\ Follows(input, Len(input), sent, Len(handled), Begun)

ProcessInv ==
    pc = "process" =>
        /\ nread > 0 /\ From + nread <= BufSize
        /\ buffer[From + nread][2] \notin 1 .. Header - 1
        /\ Follows(Ahead(From), nread + Len(input), sent, Len(handled), Begun)

(* The answers to a request that has n of them come after all others.      *)
AnswersInv ==
    /\ \A i \in DOMAIN answers : answers[i] \in 1 .. Len(handled)
    /\ \A i, j \in DOMAIN answers : i < j => answers[i] <= answers[j]
    /\ \A r \in 1 .. Len(handled) :
         sent[r].known /\ sent[r].answers = 1 =>
           Cardinality({i \in DOMAIN answers : answers[i] = r})
             = IF sent[r].noack THEN 0 ELSE 1

Frames == HandledInv /\ BegunInv /\ ReadInv /\ ProcessInv /\ AnswersInv

FrameInv == framed => Frames

Inv == TypeInv /\ LenInv /\ WholeRequests /\ FrameInv

-----------------------------------------------------------------------------
(* Types and lengths *)

LEMMA KindFacts ==
    /\ Kinds \subseteq Kind /\ NoKind \in Kind
    /\ Header \in Nat /\ Header >= 2 /\ BufSize \in Nat /\ BufSize >= 1
    /\ \A kind \in Kind : /\ kind.bodylen \in Nat /\ Size(kind) \in Nat
                          /\ Size(kind) >= Header /\ kind.answers \in Nat
<1>1. Kinds \subseteq Kind /\ NoKind \in Kind
  BY KindsAssumption DEF Kind, NoKind
<1>2. /\ Header \in Nat /\ Header >= 2 /\ BufSize \in Nat /\ BufSize >= 1
  BY FramingAssumption
<1>3. ASSUME NEW kind \in Kind
      PROVE  kind.bodylen \in Nat /\ kind.answers \in Nat
  BY DEF Kind
<1> QED
  BY <1>1, <1>2, <1>3 DEF Size

LEMMA BufferedFacts ==
    ASSUME TypeInv
    PROVE  \A from, n \in Nat :
             /\ Buffered(from, n) \in Seq(Byte) /\ Len(Buffered(from, n)) = n
             /\ \A i \in 1 .. n : from + i <= BufSize =>
                  Buffered(from, n)[i] = buffer[from + i]
<1> SUFFICES ASSUME NEW from \in Nat, NEW n \in Nat
             PROVE  /\ Buffered(from, n) \in Seq(Byte)
                    /\ Len(Buffered(from, n)) = n
                    /\ \A i \in 1 .. n : from + i <= BufSize =>
                         Buffered(from, n)[i] = buffer[from + i]
  OBVIOUS
<1>1. Unset \in Byte
  BY DEF Unset, Byte
<1>2. ASSUME NEW i \in 1 .. n, from + i <= BufSize
      PROVE  buffer[from + i] \in Byte
  <2>1. from + i \in 1 .. BufSize
    BY <1>2, KindFacts
  <2> QED  BY <2>1 DEF TypeInv
<1> QED
  BY <1>1, <1>2 DEF Buffered

LEMMA HeaderKindsFacts ==
    ASSUME TypeInv
    PROVE  \A kind \in HeaderKinds : kind \in Kinds /\ kind \in Kind
<1>1. \A r \in DOMAIN sent : sent[r] \in Kinds
  BY DEF TypeInv
<1> QED
  BY <1>1, KindFacts DEF HeaderKinds

LEMMA AnswersType ==
    ASSUME TypeInv, NEW r \in Nat, NEW n \in Nat, add_status_response(r, n)
    PROVE  answers' \in Seq(Nat)
<1> DEFINE t == [i \in 1 .. IF noack' THEN 0 ELSE n |-> r]
<1>1. t \in Seq(Nat)
  OBVIOUS
<1>2. answers' = answers \o t /\ answers \in Seq(Nat)
  BY DEF TypeInv, add_status_response
<1> HIDE DEF t
<1> QED
  BY <1>1, <1>2

(* What a turn of the loop that ends in a request does: in the first turn  *)
(* that has a header, or when the missing bytes are there.                 *)
LEMMA HandleFacts ==
    ASSUME TypeInv, LenInv, Handle
    PROVE  /\ request' \in Seq(Byte) /\ req' \in Kind
           /\ Len(request') = Size(req') /\ Len(request') > 0
           /\ nread' \in Nat /\ offset' \in Nat /\ bodylen' = 0
           /\ parse_command
           /\ UNCHANGED <<sent, input, buffer, framed>>
<1>1. CASE /\ bodylen = 0 /\ nread >= Header /\ Magic
           /\ \E kind \in HeaderKinds :
                  kind.bodylen <= MaxBody /\ req' = kind /\ Whole(kind)
  <2>1. PICK kind \in HeaderKinds : req' = kind /\ Whole(kind)
    BY <1>1
  <2>2. /\ kind \in Kind /\ Size(kind) \in Nat /\ Size(kind) > 0
        /\ offset \in Nat /\ nread \in Nat
    BY HeaderKindsFacts, KindFacts DEF TypeInv
  <2>3. /\ request' = Buffered(offset, Size(kind))
        /\ nread >= Size(kind)
        /\ offset' = IF nread = Size(kind) THEN 0 ELSE offset + Size(kind)
        /\ nread' = nread - Size(kind)
        /\ bodylen' = 0
    BY <2>1 DEF Whole
  <2>4. request' \in Seq(Byte) /\ Len(request') = Size(kind)
    BY <2>2, <2>3, BufferedFacts
  <2>5. nread' \in Nat /\ offset' \in Nat
    BY <2>2, <2>3
  <2> QED  BY <2>1, <2>2, <2>3, <2>4, <2>5 DEF Handle
<1>2. CASE bodylen # 0 /\ Rest /\ UNCHANGED req
  <2>1. /\ request' = request \o Buffered(0, bodylen)
        /\ nread >= bodylen
        /\ offset' = IF nread = bodylen THEN 0 ELSE bodylen
        /\ nread' = nread - bodylen
        /\ bodylen' = 0 /\ req' = req
    BY <1>2 DEF Rest
  <2>2. /\ bodylen \in Nat /\ nread \in Nat /\ request \in Seq(Byte)
        /\ req \in Kind
    BY DEF TypeInv
  <2>3. /\ Buffered(0, bodylen) \in Seq(Byte)
        /\ Len(Buffered(0, bodylen)) = bodylen
    BY <2>2, BufferedFacts
  <2>4. request' \in Seq(Byte) /\ Len(request') = Len(request) + bodylen
    BY <2>1, <2>2, <2>3, ConcatFacts
  <2>5. Len(request) + bodylen = Size(req)
    BY <1>2 DEF LenInv
  <2>6. Size(req) > 0
    BY <2>2, KindFacts
  <2>7. nread' \in Nat /\ offset' \in Nat
    BY <2>1, <2>2
  <2> QED  BY <2>1, <2>2, <2>4, <2>5, <2>6, <2>7 DEF Handle
<1> QED
  BY <1>1, <1>2 DEF Handle

LEMMA HandleBase ==
    ASSUME TypeInv, LenInv, WholeRequests, Handle
    PROVE  TypeInv' /\ LenInv' /\ WholeRequests'
<1> DEFINE new == [bytes |-> request', req |-> req']
<1>1. /\ request' \in Seq(Byte) /\ req' \in Kind
      /\ Len(request') = Size(req') /\ Len(request') > 0
      /\ nread' \in Nat /\ offset' \in Nat /\ bodylen' = 0
      /\ parse_command
      /\ UNCHANGED <<sent, input, buffer, framed>>
  BY HandleFacts
<1>2. /\ handled' = Append(handled, new)
      /\ add_status_response(request'[1][1],
                             IF req'.known THEN req'.answers ELSE 1)
  BY <1>1 DEF parse_command
<1>3. new \in Request /\ new.bytes = request' /\ new.req = req'
  BY <1>1 DEF Request
<1> HIDE DEF new
<1>4. handled' \in Seq(Request) /\ handled \in Seq(Request)
  BY <1>2, <1>3 DEF TypeInv
<1>5. answers' \in Seq(Nat)
  <2>1. request'[1] \in Byte
    BY <1>1
  <2>2. request'[1][1] \in Nat
    BY <2>1 DEF Byte
  <2>3. (IF req'.known THEN req'.answers ELSE 1) \in Nat
    BY <1>1, KindFacts
  <2> QED  BY <1>2, <2>2, <2>3, AnswersType
<1>6. WholeRequests'
  <2> SUFFICES ASSUME NEW k \in DOMAIN handled'
               PROVE  Len(handled'[k].bytes) = Size(handled'[k].req)
    BY DEF WholeRequests, Size
  <2>1. CASE k = Len(handled) + 1
    BY <1>1, <1>2, <1>3, <1>4, <2>1
  <2>2. CASE k # Len(handled) + 1
    <3>1. k \in DOMAIN handled /\ handled'[k] = handled[k]
      BY <1>2, <1>3, <1>4, <2>2
    <3> QED  BY <3>1 DEF WholeRequests
  <2> QED  BY <2>1, <2>2
<1>7. TypeInv'
  BY <1>1, <1>4, <1>5 DEF TypeInv
<1>8. LenInv'
  BY <1>1 DEF LenInv
<1> QED
  BY <1>6, <1>7, <1>8

LEMMA BytesFacts ==
    ASSUME NEW r \in Nat, NEW kind \in Kind
    PROVE  /\ Bytes(r, kind) \in Seq(Byte) /\ Len(Bytes(r, kind)) = Size(kind)
           /\ \A i \in 1 .. Size(kind) : Bytes(r, kind)[i] = <<r, i>>
<1>1. Size(kind) \in Nat
  BY KindFacts
<1>2. \A i \in 1 .. Size(kind) : <<r, i>> \in Byte
  BY <1>1 DEF Byte
<1> QED
  BY <1>1, <1>2 DEF Bytes

LEMMA SendBase ==
    ASSUME TypeInv, LenInv, WholeRequests, NEW kind \in Kinds, Send(kind)
    PROVE  TypeInv' /\ LenInv' /\ WholeRequests'
<1>1. /\ sent' = Append(sent, kind)
      /\ input' = input \o Bytes(Len(sent'), kind)
      /\ UNCHANGED <<client_vars, handled, answers, framed>>
  BY DEF Send
<1>2. sent' \in Seq(Kinds) /\ Len(sent') \in Nat
  BY <1>1 DEF TypeInv
<1>3. kind \in Kind
  BY KindFacts
<1>4. Bytes(Len(sent'), kind) \in Seq(Byte)
  BY <1>2, <1>3, BytesFacts
<1>5. input' \in Seq(Byte)
  BY <1>1, <1>4 DEF TypeInv
<1>6. TypeInv'
  BY <1>1, <1>2, <1>5 DEF TypeInv, client_vars
<1> QED
  BY <1>1, <1>6 DEF LenInv, WholeRequests, client_vars

LEMMA ReadBase ==
    ASSUME TypeInv, LenInv, WholeRequests, NEW n \in 1 .. BufSize, Read(n)
    PROVE  TypeInv' /\ LenInv' /\ WholeRequests'
<1>1. /\ buffer' = [i \in 1 .. BufSize |->
                        IF i <= n THEN input[i] ELSE buffer[i]]
      /\ input' = SubSeq(input, n + 1, Len(input))
      /\ nread' = n /\ n <= Len(input)
      /\ UNCHANGED <<sent, offset, bodylen, request, req, handled, answers>>
  BY DEF Read
<1>2. n \in Nat /\ input \in Seq(Byte) /\ buffer \in [1 .. BufSize -> Byte]
  BY KindFacts DEF TypeInv
<1>3. input' \in Seq(Byte)
  BY <1>1, <1>2
<1>4. buffer' \in [1 .. BufSize -> Byte]
  <2>1. \A i \in 1 .. BufSize : i <= n => input[i] \in Byte
    BY <1>1, <1>2
  <2> QED  BY <1>1, <1>2, <2>1
<1>5. TypeInv'
  BY <1>1, <1>2, <1>3, <1>4 DEF TypeInv
<1> QED
  BY <1>1, <1>5 DEF LenInv, WholeRequests

LEMMA PartialBase ==
    ASSUME TypeInv, LenInv, WholeRequests, Partial
    PROVE  TypeInv' /\ LenInv' /\ WholeRequests'
<1>0. /\ UNCHANGED <<sent, input, buffer, nread, handled, answers>>
      /\ nread \in Nat /\ bodylen \in Nat /\ offset \in Nat
      /\ request \in Seq(Byte) /\ req \in Kind
  BY DEF Partial, TypeInv
<1>1. CASE /\ bodylen = 0
           /\ \E kind \in HeaderKinds :
                 /\ nread < Size(kind) /\ req' = kind
                 /\ request' = Buffered(offset, nread)
                 /\ bodylen' = Size(kind) - nread
           /\ UNCHANGED offset
  <2>1. PICK kind \in HeaderKinds :
                 /\ nread < Size(kind) /\ req' = kind
                 /\ request' = Buffered(offset, nread)
                 /\ bodylen' = Size(kind) - nread
    BY <1>1
  <2>2. kind \in Kind /\ Size(kind) \in Nat
    BY HeaderKindsFacts, KindFacts
  <2>3. request' \in Seq(Byte) /\ Len(request') = nread
    BY <1>0, <2>1, BufferedFacts
  <2>4. bodylen' \in Nat /\ Len(request') + bodylen' = Size(req')
    <3>1. Size(req') = Size(kind)
      BY <2>1
    <3> QED  BY <1>0, <2>1, <2>2, <2>3, <3>1
  <2>5. TypeInv'
    BY <1>0, <1>1, <2>1, <2>2, <2>3, <2>4 DEF TypeInv
  <2> QED  BY <1>0, <2>4, <2>5 DEF LenInv, WholeRequests
<1>2. CASE /\ nread < bodylen
           /\ request' = request \o Buffered(0, nread)
           /\ bodylen' = bodylen - nread
           /\ offset' = 0
           /\ UNCHANGED req
  <2>1. Buffered(0, nread) \in Seq(Byte) /\ Len(Buffered(0, nread)) = nread
    BY <1>0, BufferedFacts
  <2>2. request' \in Seq(Byte) /\ Len(request') = Len(request) + nread
    BY <1>0, <1>2, <2>1, ConcatFacts
  <2>3. Len(request) + bodylen = Size(req) /\ Len(request) \in Nat
    BY <1>0, <1>2 DEF LenInv
  <2>4. bodylen' \in Nat /\ Len(request') + bodylen' = Size(req')
    <3>1. Size(req') = Size(req)
      BY <1>2
    <3>2. bodylen' = bodylen - nread /\ nread < bodylen
      BY <1>2
    <3>3. nread \in Nat /\ bodylen \in Nat /\ bodylen' \in Nat
      BY <1>0, <3>2
    <3> QED  BY <2>2, <2>3, <3>1, <3>2, <3>3
  <2>5. TypeInv'
    BY <1>0, <1>2, <2>2, <2>4 DEF TypeInv
  <2> QED  BY <1>0, <2>4, <2>5 DEF LenInv, WholeRequests
<1> QED
  BY <1>1, <1>2 DEF Partial

LEMMA RefuseBase ==
    ASSUME TypeInv, LenInv, WholeRequests, Refuse
    PROVE  TypeInv' /\ LenInv' /\ WholeRequests'
<1>1. /\ UNCHANGED <<sent, input, buffer, nread, bodylen, request, req,
                     handled>>
      /\ add_status_response(0, 1) /\ (offset' = offset \/ offset' = 0)
  BY DEF Refuse
<1>2. answers' \in Seq(Nat)
  BY <1>1, AnswersType
<1>3. TypeInv'
  BY <1>1, <1>2 DEF TypeInv
<1> QED
  BY <1>1, <1>3 DEF LenInv, WholeRequests

LEMMA BaseInvariant ==
    ASSUME TypeInv, LenInv, WholeRequests, [Next]_vars
    PROVE  TypeInv' /\ LenInv' /\ WholeRequests'
<1>1. CASE Closed
  BY <1>1 DEF Closed, TypeInv, LenInv, WholeRequests
<1>2. CASE UNCHANGED vars
  BY <1>2 DEF vars, client_vars, TypeInv, LenInv, WholeRequests
<1> QED
  BY <1>1, <1>2, SendBase, ReadBase, HandleBase, PartialBase, RefuseBase
     DEF Next

LEMMA BaseInit ==
    Init => TypeInv /\ LenInv /\ WholeRequests
<1>1. Unset \in Byte
  BY DEF Unset, Byte
<1> QED
  BY <1>1, KindFacts DEF Init, TypeInv, LenInv, WholeRequests

(* Whatever the connection sends and however read cuts it, a handler gets  *)
(* as many bytes as the header in client->request says: process_request    *)
(* adds to the request what is missing of it, and no more.                 *)
THEOREM WholeRequestsCorrect == Spec => []WholeRequests
<1> DEFINE I == TypeInv /\ LenInv /\ WholeRequests
<1>1. Init => I
  BY BaseInit
<1>2. I /\ [Next]_vars => I'
  BY BaseInvariant
<1>3. I => WholeRequests
  OBVIOUS
<1> QED
  BY <1>1, <1>2, <1>3, PTL DEF Spec

-----------------------------------------------------------------------------
(* The bytes that follow a byte of the requests *)

(* Request h + 1 has c bytes after its n-th one. *)
Left(S, h, n, c) == h + 1 \in DOMAIN S /\ n + c <= Size(S[h + 1])

(* u begins with these bytes. *)
Begins(u, h, n, c) == \A i \in 1 .. c : u[i] = <<h + 1, n + i>>

LEMMA NextBytes ==
    ASSUME NEW u, NEW m \in Nat, NEW S \in Seq(Kind), NEW h \in Nat,
           NEW n \in Nat, NEW c \in Nat, Follows(u, m, S, h, n),
           Left(S, h, n, c)
    PROVE  c <= m /\ Begins(u, h, n, c)
<1>0. h + 1 \in DOMAIN S /\ n + c <= Size(S[h + 1])
  BY DEF Left
<1> DEFINE Good(i) == i <= m /\ u[i] = <<h + 1, n + i>>
           Bad == {i \in 1 .. c : ~ Good(i)}
<1>1. Bad = {}
  <2> SUFFICES ASSUME Bad # {} PROVE FALSE
    OBVIOUS
  <2>1. Bad \subseteq Nat
    OBVIOUS
  <2> HIDE DEF Good
  <2>2. PICK i \in Bad : \A j \in Bad : i <= j
    <3> HIDE DEF Bad
    <3> QED  BY <2>1, LeastNatural
  <2>3. i \in 1 .. c /\ ~ Good(i) /\ i \in Nat
    OBVIOUS
  <2>4. ASSUME NEW j \in 1 .. c, j < i PROVE Good(j)
    BY <2>2, <2>3, <2>4
  <2>5. S[h + 1] \in Kind /\ Size(S[h + 1]) \in Nat
    BY <1>0, KindFacts
  <2>6. n + i \in 1 .. Size(S[h + 1]) /\ Later(h, n, h + 1, n + i)
    BY <1>0, <2>3, <2>5 DEF Later
  <2>7. PICK k \in 1 .. m : u[k] = <<h + 1, n + i>>
    BY <1>0, <2>6 DEF Follows
  <2>8. ~ (k < i)
    <3> SUFFICES ASSUME k < i PROVE FALSE
      OBVIOUS
    <3>1. k \in 1 .. c
      BY <2>3
    <3>2. u[k] = <<h + 1, n + k>>
      BY <3>1, <2>4 DEF Good
    <3>3. n + k = n + i
      BY <3>2, <2>7
    <3> QED  BY <3>3, <2>3
  <2>9. k # i
    BY <2>3, <2>7 DEF Good
  <2>10. i < k /\ i \in 1 .. m
    BY <2>3, <2>8, <2>9
  <2>11. Earlier(u[i], u[k])
    BY <2>10 DEF Follows
  <2>12. PICK r \in DOMAIN S : \E b \in 1 .. Size(S[r]) :
           u[i] = <<r, b>> /\ Later(h, n, r, b)
    BY <2>10 DEF Follows
  <2>13. PICK b \in 1 .. Size(S[r]) : u[i] = <<r, b>> /\ Later(h, n, r, b)
    BY <2>12
  <2>14. r \in Nat /\ b \in Int
    OBVIOUS
  <2>15. r < h + 1 \/ (r = h + 1 /\ b < n + i)
    BY <2>7, <2>11, <2>13 DEF Earlier
  <2>16. r = h + 1 /\ n < b /\ b < n + i
    BY <2>13, <2>14, <2>15 DEF Later
  <2>17. PICK j \in 1 .. c : j < i /\ b = n + j
    <3>1. b - n \in 1 .. c /\ b - n < i /\ b = n + (b - n)
      BY <2>3, <2>14, <2>16
    <3> QED  BY <3>1
  <2>18. u[j] = <<h + 1, n + j>> /\ j \in 1 .. m
    <3>1. Good(j)
      BY <2>17, <2>4
    <3> QED  BY <3>1 DEF Good
  <2>19. u[j] = u[i]
    BY <2>13, <2>16, <2>17, <2>18
  <2>20. Earlier(u[j], u[i])
    BY <2>10, <2>17, <2>18 DEF Follows
  <2>21. u[j][1] \in Nat /\ u[j][2] \in Nat
    BY <2>18
  <2> QED  BY <2>19, <2>20, <2>21 DEF Earlier
<1>2. ASSUME NEW i \in 1 .. c PROVE i <= m /\ u[i] = <<h + 1, n + i>>
  BY <1>1
<1>3. c <= m
  <2>1. CASE c = 0
    BY <2>1
  <2>2. CASE c # 0
    <3>1. c \in 1 .. c
      BY <2>2
    <3> QED  BY <3>1, <1>2
  <2> QED  BY <2>1, <2>2
<1> QED
  BY <1>2, <1>3 DEF Begins

LEMMA SameBytes ==
    ASSUME NEW u, NEW v, NEW m \in Nat, NEW S, NEW h, NEW n,
           Follows(u, m, S, h, n), \A k \in 1 .. m : v[k] = u[k]
    PROVE  Follows(v, m, S, h, n)
  BY DEF Follows

LEMMA DropBytes ==
    ASSUME NEW u, NEW v, NEW m \in Nat, NEW S \in Seq(Kind), NEW h \in Nat,
           NEW n \in Nat, NEW c \in Nat, Follows(u, m, S, h, n),
           Left(S, h, n, c), \A k \in 1 .. m - c : v[k] = u[c + k]
    PROVE  m - c \in Nat /\ Follows(v, m - c, S, h, n + c)
<1>1. c <= m /\ \A i \in 1 .. c : u[i] = <<h + 1, n + i>>
  <2>1. c <= m /\ Begins(u, h, n, c)
    BY NextBytes
  <2> QED  BY <2>1 DEF Begins
<1>2. m - c \in Nat
  BY <1>1
<1>0. \A r \in DOMAIN S : r \in Nat
  OBVIOUS
<1>3. ASSUME NEW j \in 1 .. m, NEW k \in 1 .. m, j < k PROVE u[j] # u[k]
  <2>1. Earlier(u[j], u[k])
    BY <1>3 DEF Follows
  <2>2. PICK r \in DOMAIN S : \E i \in 1 .. Size(S[r]) : u[j] = <<r, i>>
    BY DEF Follows
  <2>3. u[j][1] \in Int /\ u[j][2] \in Int
    BY <2>2
  <2> QED  BY <2>1, <2>3 DEF Earlier
<1>4. ASSUME NEW k \in 1 .. m - c
      PROVE  \E r \in DOMAIN S : \E i \in 1 .. Size(S[r]) :
               v[k] = <<r, i>> /\ Later(h, n + c, r, i)
  <2>1. c + k \in 1 .. m /\ v[k] = u[c + k]
    BY <1>2
  <2>2. PICK r \in DOMAIN S : \E i \in 1 .. Size(S[r]) :
          u[c + k] = <<r, i>> /\ Later(h, n, r, i)
    BY <2>1 DEF Follows
  <2>3. PICK i \in 1 .. Size(S[r]) : u[c + k] = <<r, i>> /\ Later(h, n, r, i)
    BY <2>2
  <2>4. ~ (r = h + 1 /\ i <= n + c)
    <3> SUFFICES ASSUME r = h + 1, i <= n + c PROVE FALSE
      OBVIOUS
    <3>1. PICK j \in 1 .. c : i = n + j
      <4>1. i - n \in 1 .. c /\ i = n + (i - n)
        BY <2>3 DEF Later
      <4> QED  BY <4>1
    <3>2. u[j] = u[c + k]
      BY <1>1, <2>3, <3>1
    <3>3. j \in 1 .. m /\ j < c + k
      BY <1>1
    <3> QED  BY <1>3, <2>1, <3>2, <3>3
  <2>5. Later(h, n + c, r, i)
    BY <2>3, <2>4, <1>0 DEF Later
  <2> QED  BY <2>1, <2>3, <2>5
<1>5. ASSUME NEW r \in DOMAIN S, NEW i \in 1 .. Size(S[r]),
             Later(h, n + c, r, i)
      PROVE  \E k \in 1 .. m - c : v[k] = <<r, i>>
  <2>1. Later(h, n, r, i)
    BY <1>0, <1>5 DEF Later
  <2>2. PICK k \in 1 .. m : u[k] = <<r, i>>
    BY <2>1 DEF Follows
  <2>3. ~ (k <= c)
    <3> SUFFICES ASSUME k <= c PROVE FALSE
      OBVIOUS
    <3>1. k \in 1 .. c
      OBVIOUS
    <3>2. r = h + 1 /\ i = n + k
      BY <1>1, <2>2, <3>1
    <3> QED  BY <1>5, <3>2 DEF Later
  <2>4. k - c \in 1 .. m - c /\ k = c + (k - c)
    BY <2>3
  <2> QED  BY <2>2, <2>4
<1>6. ASSUME NEW j \in 1 .. m - c, NEW k \in 1 .. m - c, j < k
      PROVE  Earlier(v[j], v[k])
  <2>1. c + j \in 1 .. m /\ c + k \in 1 .. m /\ c + j < c + k
    BY <1>6
  <2>2. v[j] = u[c + j] /\ v[k] = u[c + k]
    OBVIOUS
  <2> QED  BY <2>1, <2>2 DEF Follows
<1> QED
  BY <1>2, <1>4, <1>5, <1>6 DEF Follows

LEMMA NextRequest ==
    ASSUME NEW v, NEW m \in Nat, NEW S \in Seq(Kind), NEW h \in Nat,
           NEW n \in Nat, Follows(v, m, S, h, n), h + 1 \in DOMAIN S,
           n = Size(S[h + 1])
    PROVE  Follows(v, m, S, h + 1, 0)
<1>1. ASSUME NEW r \in DOMAIN S, NEW i \in 1 .. Size(S[r])
      PROVE  Later(h, n, r, i) <=> Later(h + 1, 0, r, i)
  <2>1. r \in Nat /\ i \in Int /\ i > 0
    OBVIOUS
  <2>2. r = h + 1 => i <= n
    OBVIOUS
  <2> QED  BY <2>1, <2>2 DEF Later
<1>2. /\ \A k \in 1 .. m : \E r \in DOMAIN S : \E i \in 1 .. Size(S[r]) :
           v[k] = <<r, i>> /\ Later(h + 1, 0, r, i)
      /\ \A r \in DOMAIN S : \A i \in 1 .. Size(S[r]) :
           Later(h + 1, 0, r, i) => \E k \in 1 .. m : v[k] = <<r, i>>
  BY <1>1 DEF Follows
<1> QED
  BY <1>2 DEF Follows

(* What begins with a request and ends behind a header holds this header.  *)
LEMMA NoShortHeader ==
    ASSUME NEW u, NEW m \in Nat, NEW S \in Seq(Kind), NEW h \in Nat,
           NEW p \in 1 .. m, Follows(u, m, S, h, 0),
           u[p][2] \notin 1 .. Header - 1
    PROVE  h + 1 \in DOMAIN S /\ p >= Header
<1>1. 1 \in 1 .. m
  OBVIOUS
<1>2. PICK r \in DOMAIN S : \E i \in 1 .. Size(S[r]) : Later(h, 0, r, i)
  BY <1>1 DEF Follows
<1>3. r >= h + 1 /\ r \in 1 .. Len(S)
  BY <1>2 DEF Later
<1>4. h + 1 \in DOMAIN S
  BY <1>3
<1>5. S[h + 1] \in Kind /\ Size(S[h + 1]) >= Header /\ Header \in Nat
      /\ Size(S[h + 1]) \in Nat
  BY <1>4, KindFacts
<1>6. CASE p < Header
  <2>1. p \in Nat /\ Left(S, h, 0, p) /\ 0 \in Nat
    BY <1>4, <1>5, <1>6 DEF Left
  <2>2. Begins(u, h, 0, p)
    BY <2>1, NextBytes
  <2>3. u[p][2] = p
    BY <2>2 DEF Begins
  <2> QED  BY <1>5, <1>6, <2>3
<1> QED
  BY <1>4, <1>5, <1>6

(* The request l of z bytes is added to the requests S, and u is one list  *)
(* with its bytes.                                                         *)
Longer(S, T, l, z, u, v, m) ==
    /\ DOMAIN S = 1 .. l - 1 /\ DOMAIN T = 1 .. l /\ Size(T[l]) = z
    /\ \A r \in DOMAIN S : T[r] = S[r]
    /\ \A k \in 1 .. m : v[k] = u[k]
    /\ \A k \in 1 .. z : v[m + k] = <<l, k>>

(* A request that is sent comes after all others. *)
LEMMA MoreBytes ==
    ASSUME NEW u, NEW v, NEW m \in Nat, NEW z \in Nat, NEW l \in Nat,
           NEW S, NEW T, NEW h \in Nat, NEW n \in Nat,
           Follows(u, m, S, h, n), Longer(S, T, l, z, u, v, m),
           h < l, h = l - 1 => n = 0
    PROVE  Follows(v, m + z, T, h, n)
<1> USE DEF Longer
<1>1. l \in DOMAIN T
  OBVIOUS
<1>2. \A r \in DOMAIN S : r \in DOMAIN T /\ T[r] = S[r] /\ r < l /\ r \in Nat
  OBVIOUS
<1>3. \A r \in DOMAIN T : r = l \/ r \in DOMAIN S
  OBVIOUS
<1>7. \A i \in 1 .. z : Later(h, n, l, i)
  <2>1. h + 1 < l \/ (l = h + 1 /\ n = 0)
    OBVIOUS
  <2> QED  BY <2>1 DEF Later
<1>8. \A k \in 1 .. m + z :
        k \in 1 .. m \/ \E i \in 1 .. z : k = m + i
  <2> SUFFICES ASSUME NEW k \in 1 .. m + z, k \notin 1 .. m
               PROVE  \E i \in 1 .. z : k = m + i
    OBVIOUS
  <2>1. k - m \in 1 .. z /\ k = m + (k - m)
    OBVIOUS
  <2> QED  BY <2>1
<1>9. ASSUME NEW k \in 1 .. m
      PROVE  \E r \in DOMAIN S : \E i \in 1 .. Size(S[r]) :
               u[k] = <<r, i>> /\ Later(h, n, r, i)
  BY DEF Follows
<1>10. ASSUME NEW k \in 1 .. m + z
       PROVE  \E r \in DOMAIN T : \E i \in 1 .. Size(T[r]) :
                v[k] = <<r, i>> /\ Later(h, n, r, i)
  <2>1. CASE k \in 1 .. m
    BY <1>2, <1>9, <2>1
  <2>2. CASE \E i \in 1 .. z : k = m + i
    <3>1. PICK i \in 1 .. z : k = m + i
      BY <2>2
    <3>2. v[k] = <<l, i>> /\ Later(h, n, l, i)
      BY <1>7, <3>1
    <3>3. l \in DOMAIN T /\ i \in 1 .. Size(T[l])
      BY <1>1
    <3> QED  BY <3>2, <3>3
  <2> QED  BY <1>8, <2>1, <2>2
<1>11. ASSUME NEW r \in DOMAIN T, NEW i \in 1 .. Size(T[r]), Later(h, n, r, i)
       PROVE  \E k \in 1 .. m + z : v[k] = <<r, i>>
  <2>1. CASE r = l
    <3>1. i \in 1 .. z
      BY <1>1, <2>1
    <3>2. m + i \in 1 .. m + z /\ v[m + i] = <<l, i>>
      BY <1>1, <3>1
    <3> QED  BY <2>1, <3>2
  <2>2. CASE r \in DOMAIN S
    <3>1. i \in 1 .. Size(S[r])
      BY <1>2, <2>2
    <3>2. PICK k \in 1 .. m : u[k] = <<r, i>>
      BY <1>11, <2>2, <3>1 DEF Follows
    <3>3. k \in 1 .. m + z /\ v[k] = <<r, i>>
      BY <1>1, <3>2
    <3> QED  BY <3>3
  <2> QED  BY <1>3, <2>1, <2>2
<1>12. ASSUME NEW j \in 1 .. m + z, NEW k \in 1 .. m + z, j < k
       PROVE  Earlier(v[j], v[k])
  <2>1. CASE k \in 1 .. m
    <3>1. j \in 1 .. m
      BY <1>12, <2>1
    <3>2. Earlier(u[j], u[k])
      BY <1>12, <2>1, <3>1 DEF Follows
    <3> QED  BY <2>1, <3>1, <3>2
  <2>2. CASE \E i \in 1 .. z : k = m + i
    <3>1. PICK i \in 1 .. z : k = m + i
      BY <2>2
    <3>2. v[k] = <<l, i>>
      BY <3>1
    <3>3. CASE j \in 1 .. m
      <4>1. PICK r \in DOMAIN S : \E b \in 1 .. Size(S[r]) : u[j] = <<r, b>>
        BY <1>9, <3>3
      <4>2. v[j][1] = r /\ r < l
        BY <1>2, <3>3, <4>1
      <4> QED  BY <3>2, <4>2 DEF Earlier
    <3>4. CASE \E b \in 1 .. z : j = m + b
      <4>1. PICK b \in 1 .. z : j = m + b
        BY <3>4
      <4>2. v[j] = <<l, b>>
        BY <4>1
      <4>3. b < i
        BY <1>12, <3>1, <4>1
      <4> QED  BY <3>2, <4>2, <4>3 DEF Earlier
    <3> QED  BY <1>8, <3>3, <3>4
  <2> QED  BY <1>8, <2>1, <2>2
<1> QED
  BY <1>10, <1>11, <1>12 DEF Follows

-----------------------------------------------------------------------------
(* As long as no read ends inside a header: requests and answers *)

LEMMA SentFacts ==
    ASSUME TypeInv
    PROVE  /\ sent \in Seq(Kind) /\ Len(sent) \in Nat
           /\ DOMAIN sent = 1 .. Len(sent) /\ Len(handled) \in Nat
           /\ \A r \in DOMAIN sent :
                sent[r] \in Kind /\ Size(sent[r]) \in Nat
                /\ Size(sent[r]) >= Header
<1>1. sent \in Seq(Kinds)
  BY DEF TypeInv
<1>2. sent \in Seq(Kind)
  BY <1>1, KindFacts, SeqFacts
<1>3. \A r \in DOMAIN sent : sent[r] \in Kind
  BY <1>2
<1>4. Len(handled) \in Nat
  BY DEF TypeInv
<1> QED
  BY <1>2, <1>3, <1>4, KindFacts

(* The next request is not the last one that was sent, if it has begun.    *)
LEMMA BegunFacts ==
    ASSUME TypeInv, LenInv, HandledInv, BegunInv
    PROVE  /\ Begun \in Nat /\ Len(handled) <= Len(sent)
           /\ Len(handled) = Len(sent) => Begun = 0
           /\ bodylen # 0 => /\ Len(handled) + 1 \in DOMAIN sent
                             /\ req = sent[Len(handled) + 1]
                             /\ Begun = Len(request)
                             /\ Begun + bodylen = Size(req)
<1>1. Len(handled) <= Len(sent)
  BY DEF HandledInv
<1>2. CASE bodylen = 0
  BY <1>1, <1>2 DEF Begun
<1>3. CASE bodylen # 0
  <2>1. /\ Len(handled) < Len(sent) /\ req = sent[Len(handled) + 1]
        /\ Len(request) + bodylen = Size(req)
    BY <1>3 DEF BegunInv, LenInv
  <2>2. Len(handled) + 1 \in DOMAIN sent
    BY <2>1, SentFacts
  <2>3. bodylen \in Nat /\ Len(request) \in Nat /\ req \in Kind
    BY DEF TypeInv
  <2>4. Size(req) \in Nat
    BY <2>3, KindFacts
  <2>5. Begun = Len(request) /\ Begun + bodylen = Size(req)
    BY <1>3, <2>1, <2>3, <2>4 DEF Begun
  <2> QED  BY <1>3, <2>1, <2>2, <2>3, <2>5, SentFacts
<1> QED
  BY <1>2, <1>3

LEMMA SendFrames ==
    ASSUME TypeInv, LenInv, Frames, NEW kind \in Kinds, Send(kind)
    PROVE  Frames'
<1>1. /\ sent' = Append(sent, kind) /\ pc = "read" /\ pc' = "read"
      /\ input' = input \o Bytes(Len(sent'), kind)
      /\ UNCHANGED <<client_vars, handled, answers, framed>>
  BY DEF Send, client_vars
<1>2. /\ sent \in Seq(Kind) /\ Len(sent) \in Nat /\ DOMAIN sent = 1 .. Len(sent)
      /\ Len(handled) \in Nat
  BY SentFacts
<1>3. kind \in Kind /\ Size(kind) \in Nat
  BY KindFacts
<1>4. /\ Len(sent') = Len(sent) + 1 /\ DOMAIN sent' = 1 .. Len(sent) + 1
      /\ sent'[Len(sent) + 1] = kind
      /\ \A r \in 1 .. Len(sent) : sent'[r] = sent[r]
  BY <1>1, <1>2, <1>3
<1>5. /\ Begun \in Nat /\ Len(handled) <= Len(sent)
      /\ Len(handled) = Len(sent) => Begun = 0
      /\ bodylen # 0 => Len(handled) + 1 \in DOMAIN sent
  BY BegunFacts DEF Frames
<1>6. HandledInv'
  <2> SUFFICES ASSUME NEW r \in 1 .. Len(handled)
               PROVE  handled[r] = [bytes |-> Bytes(r, sent'[r]),
                                    req |-> sent'[r]]
    BY <1>1, <1>2, <1>4, <1>5 DEF HandledInv
  <2>1. sent'[r] = sent[r]
    BY <1>2, <1>4, <1>5
  <2> QED  BY <2>1 DEF Frames, HandledInv
<1>7. BegunInv'
  <2>1. bodylen # 0 => sent'[Len(handled) + 1] = sent[Len(handled) + 1]
    BY <1>2, <1>4, <1>5
  <2>2. Len(handled) < Len(sent) => Len(handled) < Len(sent')
    BY <1>2, <1>4
  <2> QED  BY <1>1, <2>1, <2>2 DEF Frames, BegunInv, client_vars
<1>8. ReadInv'
  <2> DEFINE q == Len(sent)
             l == q + 1
             w == Bytes(l, kind)
             m == Len(input)
             z == Size(kind)
  <2>1. Begun' = Begun /\ offset' = offset /\ bodylen' = bodylen
    BY <1>1 DEF Begun, client_vars
  <2>2. /\ bodylen = 0 => offset = 0
        /\ Follows(input, m, sent, Len(handled), Begun)
    BY <1>1 DEF Frames, ReadInv
  <2>3. q \in Nat /\ l \in Nat /\ l = q + 1
    BY <1>2
  <2>4. Len(sent') = l /\ DOMAIN sent' = 1 .. l /\ Size(sent'[l]) = z
    BY <1>3, <1>4
  <2>5. DOMAIN sent = 1 .. q /\ \A r \in DOMAIN sent : sent'[r] = sent[r]
    BY <1>2, <1>4
  <2>6. /\ Len(handled) <= q /\ (Len(handled) = q => Begun = 0)
        /\ Len(handled) \in Nat /\ Begun \in Nat /\ m \in Nat /\ z \in Nat
    BY <1>2, <1>3, <1>5 DEF TypeInv
  <2>7. input \in Seq(Byte)
    BY DEF TypeInv
  <2> HIDE DEF q, l
  <2>8. /\ w \in Seq(Byte) /\ Len(w) = z
        /\ \A i \in 1 .. z : w[i] = <<l, i>>
    BY <1>3, <2>3, BytesFacts
  <2>9. input' = input \o w
    BY <1>1, <2>4
  <2> HIDE DEF w, z
  <2>10. Len(input') = m + z
    BY <2>7, <2>8, <2>9, ConcatFacts
  <2>11. \A k \in 1 .. m : input'[k] = input[k]
    BY <2>6, <2>7, <2>8, <2>9
  <2>12. \A k \in 1 .. z : input'[m + k] = w[k]
    <3> SUFFICES ASSUME NEW k \in 1 .. z PROVE input'[m + k] = w[k]
      OBVIOUS
    <3>1. /\ m + k \in 1 .. Len(input) + Len(w) /\ ~ (m + k <= Len(input))
          /\ (m + k) - Len(input) = k
      BY <2>6, <2>8
    <3> QED  BY <2>7, <2>8, <2>9, <3>1
  <2>13. \A k \in 1 .. z : input'[m + k] = <<l, k>>
    BY <2>8, <2>12
  <2> HIDE DEF m
  <2>14. Longer(sent, sent', l, z, input, input', m)
    <3>1. q = l - 1
      BY <2>3
    <3> QED  BY <2>4, <2>5, <2>11, <2>13, <3>1 DEF Longer
  <2>15. Len(handled) < l /\ (Len(handled) = l - 1 => Begun = 0)
    BY <2>3, <2>6
  <2>16. Follows(input', m + z, sent', Len(handled), Begun)
    BY <2>2, <2>3, <2>6, <2>14, <2>15, MoreBytes
  <2> QED  BY <1>1, <2>1, <2>2, <2>10, <2>16 DEF ReadInv
<1>9. ProcessInv'
  BY <1>1 DEF ProcessInv
<1>10. AnswersInv'
  <2>1. \A r \in 1 .. Len(handled) : sent'[r] = sent[r]
    BY <1>2, <1>4, <1>5
  <2> QED  BY <1>1, <2>1 DEF Frames, AnswersInv
<1> QED
  BY <1>6, <1>7, <1>8, <1>9, <1>10 DEF Frames

LEMMA ReadFrames ==
    ASSUME TypeInv, LenInv, Frames, NEW n \in 1 .. BufSize, Read(n), framed'
    PROVE  Frames'
<1>1. /\ buffer' = [i \in 1 .. BufSize |->
                        IF i <= n THEN input[i] ELSE buffer[i]]
      /\ input' = SubSeq(input, n + 1, Len(input))
      /\ nread' = n /\ n <= Len(input) /\ pc = "read" /\ pc' = "process"
      /\ input[n][2] \notin 1 .. Header - 1
      /\ UNCHANGED <<sent, offset, bodylen, request, req, handled, answers>>
  BY DEF Read
<1>2. HandledInv' /\ BegunInv' /\ ReadInv' /\ AnswersInv'
  BY <1>1 DEF Frames, HandledInv, BegunInv, ReadInv, AnswersInv
<1>3. ProcessInv'
  <2> DEFINE m == Len(input)
             v == Joined(buffer', 0, n, input')
  <2>1. /\ bodylen = 0 => offset = 0
        /\ Follows(input, m, sent, Len(handled), Begun)
    BY <1>1 DEF Frames, ReadInv
  <2>2. From' = 0 /\ Begun' = Begun
    BY <1>1, <2>1 DEF From, Begun
  <2>3. n \in Nat /\ n > 0 /\ m \in Nat /\ BufSize \in Nat /\ n <= BufSize
        /\ input \in Seq(Byte)
    BY KindFacts DEF TypeInv
  <2>4. Len(input') = m - n /\ \A k \in 1 .. m - n : input'[k] = input[n + k]
    BY <1>1, <2>3
  <2>5. \A k \in 1 .. n : buffer'[k] = input[k]
    BY <1>1, <2>3
  <2>6. \A k \in 1 .. m : v[k] = input[k]
    <3> SUFFICES ASSUME NEW k \in 1 .. m PROVE v[k] = input[k]
      OBVIOUS
    <3>1. n + Len(input') = m
      BY <1>1, <2>3, <2>4
    <3>2. v[k] = IF k <= n THEN buffer'[0 + k] ELSE input'[k - n]
      BY <3>1 DEF Joined
    <3>3. CASE k <= n
      <4>1. k \in 1 .. n /\ 0 + k = k
        BY <2>3, <3>3
      <4> QED  BY <2>5, <3>2, <3>3, <4>1
    <3>4. CASE ~ (k <= n)
      <4>1. k - n \in 1 .. m - n /\ n + (k - n) = k
        BY <2>3, <3>4
      <4> QED  BY <2>4, <3>2, <3>4, <4>1
    <3> QED  BY <3>3, <3>4
  <2> HIDE DEF v
  <2>7. Follows(v, m, sent, Len(handled), Begun)
    BY <2>1, <2>3, <2>6, SameBytes
  <2>8. n + Len(input') = m
    BY <1>1, <2>3, <2>4
  <2>9. Ahead(From)' = v
    BY <1>1, <2>2 DEF Ahead, v
  <2>10. Follows(Ahead(From)', nread' + Len(input'), sent', Len(handled'),
                 Begun')
    BY <1>1, <2>2, <2>7, <2>8, <2>9
  <2>11. /\ nread' > 0 /\ From' + nread' <= BufSize
         /\ From' + nread' = n
    BY <1>1, <2>2, <2>3
  <2>12. buffer'[n] = input[n]
    BY <2>3, <2>5
  <2> QED  BY <1>1, <2>10, <2>11, <2>12 DEF ProcessInv
<1> QED
  BY <1>2, <1>3 DEF Frames

(* What process_request has before it, and where its next bytes are.       *)
LEMMA AheadFacts ==
    ASSUME TypeInv, Frames, pc = "process"
    PROVE  /\ Ahead(From) = Joined(buffer, From, nread, input)
           /\ nread + Len(input) \in Nat /\ nread \in Nat /\ nread > 0
           /\ From \in Nat /\ From + nread <= BufSize
           /\ \A k \in 1 .. nread : Ahead(From)[k] = buffer[From + k]
           /\ \A k \in 1 .. Len(input) : Ahead(From)[nread + k] = input[k]
           /\ Ahead(From)[nread][2] \notin 1 .. Header - 1
           /\ Follows(Ahead(From), nread + Len(input), sent, Len(handled),
                      Begun)
<1>1. nread \in Nat /\ Len(input) \in Nat /\ offset \in Nat
  BY DEF TypeInv
<1>2. From \in Nat
  BY <1>1 DEF From
<1>3. /\ nread > 0 /\ From + nread <= BufSize
      /\ buffer[From + nread][2] \notin 1 .. Header - 1
      /\ Follows(Ahead(From), nread + Len(input), sent, Len(handled), Begun)
  BY DEF Frames, ProcessInv
<1>4. \A k \in 1 .. nread : Ahead(From)[k] = buffer[From + k]
  BY <1>1, <1>2 DEF Ahead, Joined
<1>5. \A k \in 1 .. Len(input) : Ahead(From)[nread + k] = input[k]
  <2> SUFFICES ASSUME NEW k \in 1 .. Len(input)
               PROVE  Ahead(From)[nread + k] = input[k]
    OBVIOUS
  <2>1. /\ nread + k \in 1 .. nread + Len(input) /\ ~ (nread + k <= nread)
        /\ (nread + k) - nread = k
    BY <1>1
  <2> QED  BY <2>1 DEF Ahead, Joined
<1>6. Ahead(From)[nread] = buffer[From + nread]
  BY <1>1, <1>3, <1>4
<1> QED
  BY <1>1, <1>2, <1>3, <1>4, <1>5, <1>6 DEF Ahead

(* The first c bytes of what was read, if request h + 1 has as many more.  *)
LEMMA TakenBytes ==
    ASSUME TypeInv, LenInv, Frames, pc = "process", NEW c \in Nat, c <= nread,
           Left(sent, Len(handled), Begun, c)
    PROVE  /\ Buffered(From, c) \in Seq(Byte) /\ Len(Buffered(From, c)) = c
           /\ \A i \in 1 .. c :
                Buffered(From, c)[i] = <<Len(handled) + 1, Begun + i>>
<1>1. /\ nread + Len(input) \in Nat /\ nread \in Nat /\ From \in Nat
      /\ From + nread <= BufSize
      /\ \A k \in 1 .. nread : Ahead(From)[k] = buffer[From + k]
      /\ Follows(Ahead(From), nread + Len(input), sent, Len(handled), Begun)
  BY AheadFacts
<1>2. Begun \in Nat
  BY BegunFacts DEF Frames
<1>3. sent \in Seq(Kind) /\ Len(handled) \in Nat
  BY SentFacts
<1>4. Begins(Ahead(From), Len(handled), Begun, c)
  BY <1>1, <1>2, <1>3, NextBytes
<1>5. /\ Buffered(From, c) \in Seq(Byte) /\ Len(Buffered(From, c)) = c
      /\ \A i \in 1 .. c : From + i <= BufSize =>
           Buffered(From, c)[i] = buffer[From + i]
  BY <1>1, BufferedFacts
<1>6. ASSUME NEW i \in 1 .. c
      PROVE  Buffered(From, c)[i] = <<Len(handled) + 1, Begun + i>>
  <2>1. i \in 1 .. nread /\ From + i <= BufSize
    BY <1>1, KindFacts
  <2>2. Buffered(From, c)[i] = Ahead(From)[i]
    BY <1>1, <1>5, <2>1
  <2>3. Ahead(From)[i] = <<Len(handled) + 1, Begun + i>>
    BY <1>4 DEF Begins
  <2> QED  BY <2>2, <2>3
<1> QED
  BY <1>5, <1>6

(* At the begin of a request there is its header, whole.                   *)
LEMMA HeaderIsThere ==
    ASSUME TypeInv, LenInv, Frames, pc = "process", bodylen = 0
    PROVE  /\ Len(handled) + 1 \in DOMAIN sent /\ nread >= Header
           /\ Magic /\ HeaderKinds = {sent[Len(handled) + 1]}
<1> DEFINE h == Len(handled)
<1>1. From = offset /\ Begun = 0
  BY DEF From, Begun
<1>2. /\ nread + Len(input) \in Nat /\ nread \in Nat /\ nread > 0
      /\ Ahead(From)[nread][2] \notin 1 .. Header - 1
      /\ Follows(Ahead(From), nread + Len(input), sent, h, 0)
  BY <1>1, AheadFacts
<1>3. sent \in Seq(Kind) /\ h \in Nat /\ Len(input) \in Nat
  BY SentFacts DEF TypeInv
<1>4. nread \in 1 .. nread + Len(input)
  BY <1>2, <1>3
<1>5. h + 1 \in DOMAIN sent /\ nread >= Header
  BY <1>2, <1>3, <1>4, NoShortHeader
<1>6. Header \in Nat /\ Header >= 2 /\ Size(sent[h + 1]) >= Header
      /\ Size(sent[h + 1]) \in Nat
  BY <1>5, KindFacts, SentFacts
<1>7. Left(sent, h, Begun, Header) /\ Left(sent, h, Begun, 1)
  BY <1>1, <1>5, <1>6 DEF Left
<1>8. \A i \in 1 .. Header : Buffered(offset, Header)[i] = <<h + 1, i>>
  <2>1. \A i \in 1 .. Header : Buffered(From, Header)[i] = <<h + 1, Begun + i>>
    BY <1>5, <1>6, <1>7, TakenBytes
  <2> QED  BY <1>1, <2>1
<1>9. Buffered(offset, 1)[1] = <<h + 1, 1>>
  <2>1. 1 \in Nat /\ 1 <= nread
    BY <1>2
  <2>2. \A i \in 1 .. 1 : Buffered(From, 1)[i] = <<h + 1, Begun + i>>
    BY <1>7, <2>1, TakenBytes
  <2> QED  BY <1>1, <2>2
<1>10. Magic
  BY <1>9 DEF Magic
<1>11. HeaderKinds = {sent[h + 1]}
  <2> DEFINE fields == {Buffered(offset, Header)[i] : i \in 2 .. Header}
             header(r) == {<<r, i>> : i \in 2 .. Header}
             whole == {r \in DOMAIN sent : fields = header(r)}
  <2>1. fields = header(h + 1)
    <3>1. \A i \in 2 .. Header : Buffered(offset, Header)[i] = <<h + 1, i>>
      BY <1>6, <1>8
    <3>2. \A x \in fields : x \in header(h + 1)
      BY <3>1
    <3>3. \A x \in header(h + 1) : x \in fields
      BY <3>1
    <3> QED  BY <3>2, <3>3
  <2>2. ASSUME NEW r, fields = header(r) PROVE r = h + 1
    <3>1. 2 \in 2 .. Header
      BY <1>6
    <3>2. <<r, 2>> \in header(h + 1)
      BY <2>1, <2>2, <3>1
    <3> QED  BY <3>2
  <2>3. HeaderKinds = IF whole = {} THEN Kinds ELSE {sent[r] : r \in whole}
    BY DEF HeaderKinds
  <2> HIDE DEF fields, header
  <2>4. whole = {h + 1}
    BY <1>5, <2>1, <2>2
  <2> QED  BY <2>3, <2>4
<1> QED
  BY <1>5, <1>10, <1>11

(* The next request is complete: it is what the client sent.               *)
LEMMA HandleTakes ==
    ASSUME TypeInv, LenInv, Frames, Handle
    PROVE  /\ Len(handled) + 1 \in DOMAIN sent /\ bodylen' = 0
           /\ req' = sent[Len(handled) + 1]
           /\ request' = Bytes(Len(handled) + 1, sent[Len(handled) + 1])
           /\ \E c \in 1 .. nread :
                /\ Begun + c = Size(sent[Len(handled) + 1])
                /\ nread' = nread - c
                /\ offset' = IF nread = c THEN 0 ELSE From + c
<1> DEFINE h == Len(handled)
           l == h + 1
           K == sent[l]
<1>0. pc = "process" /\ nread \in Nat /\ bodylen \in Nat /\ h \in Nat
      /\ l \in Nat
  BY SentFacts DEF Handle, TypeInv
<1>1. CASE /\ bodylen = 0
           /\ \E kind \in HeaderKinds : req' = kind /\ Whole(kind)
  <2>1. l \in DOMAIN sent /\ HeaderKinds = {K}
    BY <1>0, <1>1, HeaderIsThere
  <2>2. req' = K /\ Whole(K)
    BY <1>1, <2>1
  <2>3. /\ nread >= Size(K) /\ request' = Buffered(offset, Size(K))
        /\ offset' = IF nread = Size(K) THEN 0 ELSE offset + Size(K)
        /\ nread' = nread - Size(K) /\ bodylen' = 0
    BY <2>2 DEF Whole
  <2>4. From = offset /\ Begun = 0
    BY <1>1 DEF From, Begun
  <2>5. K \in Kind /\ Size(K) \in Nat /\ Size(K) > 0
    BY <2>1, SentFacts, KindFacts
  <2>6. Left(sent, h, Begun, Size(K))
    BY <2>1, <2>4, <2>5 DEF Left
  <2>7. /\ request' \in Seq(Byte) /\ Len(request') = Size(K)
        /\ \A i \in 1 .. Size(K) : request'[i] = <<l, Begun + i>>
    BY <1>0, <2>3, <2>4, <2>5, <2>6, TakenBytes
  <2>8. \A i \in 1 .. Size(K) : request'[i] = <<l, i>>
    BY <2>4, <2>5, <2>7
  <2>9. /\ Bytes(l, K) \in Seq(Byte) /\ Len(Bytes(l, K)) = Size(K)
        /\ \A i \in 1 .. Size(K) : Bytes(l, K)[i] = <<l, i>>
    BY <1>0, <2>5, BytesFacts
  <2>10. request' = Bytes(l, K)
    BY <2>7, <2>8, <2>9, SameSequence
  <2>11. Size(K) \in 1 .. nread /\ Begun + Size(K) = Size(K)
    BY <1>0, <2>3, <2>4, <2>5
  <2> QED  BY <2>1, <2>2, <2>3, <2>4, <2>10, <2>11
<1>2. CASE bodylen # 0 /\ Rest /\ UNCHANGED req
  <2>1. /\ l \in DOMAIN sent /\ req = K /\ Begun = Len(request)
        /\ Begun + bodylen = Size(K) /\ Begun \in Nat
    BY <1>2, BegunFacts DEF Frames
  <2>2. /\ nread >= bodylen /\ request' = request \o Buffered(0, bodylen)
        /\ offset' = IF nread = bodylen THEN 0 ELSE bodylen
        /\ nread' = nread - bodylen /\ bodylen' = 0 /\ req' = K
    BY <1>2, <2>1 DEF Rest
  <2>3. From = 0
    BY <1>2 DEF From
  <2>4. K \in Kind /\ Size(K) \in Nat
    BY <2>1, SentFacts
  <2>5. Left(sent, h, Begun, bodylen)
    BY <2>1, <2>4 DEF Left
  <2> DEFINE w == Buffered(0, bodylen)
  <2>6. /\ w \in Seq(Byte) /\ Len(w) = bodylen
        /\ \A i \in 1 .. bodylen : w[i] = <<l, Begun + i>>
    BY <1>0, <2>2, <2>3, <2>5, TakenBytes
  <2>7. request \in Seq(Byte) /\ \A i \in 1 .. Begun : request[i] = <<l, i>>
    <3>1. /\ bodylen <= Size(req) - Header
          /\ request = [i \in 1 .. Size(req) - bodylen |-> <<l, i>>]
      BY <1>2 DEF Frames, BegunInv
    <3>2. Size(req) - bodylen = Begun
      BY <1>0, <2>1, <2>4
    <3> QED  BY <3>1, <3>2 DEF TypeInv
  <2> HIDE DEF w
  <2>8. request' = request \o w
    BY <2>2 DEF w
  <2>9. request' \in Seq(Byte) /\ Len(request') = Size(K)
    BY <2>1, <2>6, <2>7, <2>8, ConcatFacts
  <2>10. ASSUME NEW i \in 1 .. Size(K) PROVE request'[i] = <<l, i>>
    <3>1. i \in 1 .. Len(request) + Len(w)
      BY <2>1, <2>6
    <3>2. request'[i] = IF i <= Len(request) THEN request[i]
                        ELSE w[i - Len(request)]
      BY <2>6, <2>7, <2>8, <3>1
    <3>3. CASE i <= Begun
      BY <2>1, <2>7, <3>2, <3>3
    <3>4. CASE ~ (i <= Begun)
      <4>1. i - Begun \in 1 .. bodylen /\ Begun + (i - Begun) = i
        BY <1>0, <2>1, <2>4, <3>4
      <4> QED  BY <2>1, <2>6, <3>2, <3>4, <4>1
    <3> QED  BY <3>3, <3>4
  <2>11. /\ Bytes(l, K) \in Seq(Byte) /\ Len(Bytes(l, K)) = Size(K)
         /\ \A i \in 1 .. Size(K) : Bytes(l, K)[i] = <<l, i>>
    BY <1>0, <2>4, BytesFacts
  <2>12. request' = Bytes(l, K)
    BY <2>9, <2>10, <2>11, SameSequence
  <2>13. bodylen \in 1 .. nread /\ From + bodylen = bodylen
    BY <1>0, <1>2, <2>2, <2>3
  <2> QED  BY <2>1, <2>2, <2>12, <2>13
<1> QED
  BY <1>1, <1>2 DEF Handle

(* v is what is left of u without its first c bytes. *)
LEMMA RestOfAhead ==
    ASSUME TypeInv, LenInv, Frames, pc = "process", NEW c \in Nat, c <= nread,
           Left(sent, Len(handled), Begun, c),
           NEW off, off = IF nread = c THEN 0 ELSE From + c
    PROVE  \E v : /\ v = Joined(buffer, off, nread - c, input)
                  /\ nread - c + Len(input) \in Nat
                  /\ Follows(v, nread - c + Len(input), sent, Len(handled),
                             Begun + c)
                  /\ c # nread => v[nread - c][2] \notin 1 .. Header - 1
                  /\ c = nread => Follows(input, Len(input), sent,
                                          Len(handled), Begun + c)
<1> DEFINE h == Len(handled)
           u == Ahead(From)
           m == nread + Len(input)
           v == Joined(buffer, off, nread - c, input)
<1>1. /\ m \in Nat /\ nread \in Nat /\ nread > 0 /\ From \in Nat
      /\ \A k \in 1 .. nread : u[k] = buffer[From + k]
      /\ \A k \in 1 .. Len(input) : u[nread + k] = input[k]
      /\ u[nread][2] \notin 1 .. Header - 1
      /\ Follows(u, m, sent, h, Begun)
  BY AheadFacts
<1>2. Begun \in Nat /\ sent \in Seq(Kind) /\ h \in Nat /\ Len(input) \in Nat
  BY BegunFacts, SentFacts DEF Frames, TypeInv
<1>3. nread - c + Len(input) = m - c /\ m - c \in Nat
  BY <1>1, <1>2
<1> HIDE DEF u
<1>4. ASSUME NEW k \in 1 .. m - c PROVE v[k] = u[c + k]
  <2>1. v[k] = IF k <= nread - c THEN buffer[off + k]
               ELSE input[k - (nread - c)]
    BY <1>3 DEF Joined
  <2>2. CASE k <= nread - c
    <3>1. nread # c /\ off = From + c
      BY <1>1, <2>2
    <3>2. c + k \in 1 .. nread /\ off + k = From + (c + k)
      BY <1>1, <2>2, <3>1
    <3> QED  BY <1>1, <2>1, <2>2, <3>2
  <2>3. CASE ~ (k <= nread - c)
    <3>1. /\ k - (nread - c) \in 1 .. Len(input)
          /\ nread + (k - (nread - c)) = c + k
      BY <1>1, <1>2, <2>3
    <3> QED  BY <1>1, <2>1, <2>3, <3>1
  <2> QED  BY <2>2, <2>3
<1> HIDE DEF v, m
<1>5. Follows(v, m - c, sent, h, Begun + c)
  BY <1>1, <1>2, <1>4, DropBytes
<1>6. ASSUME c # nread PROVE v[nread - c][2] \notin 1 .. Header - 1
  <2>1. nread - c \in 1 .. m - c /\ c + (nread - c) = nread
    BY <1>1, <1>2, <1>6 DEF m
  <2>2. v[nread - c] = u[nread]
    BY <1>4, <2>1
  <2> QED  BY <1>1, <2>2
<1>7. ASSUME c = nread
      PROVE  Follows(input, Len(input), sent, h, Begun + c)
  <2>1. m - c = Len(input)
    BY <1>1, <1>2, <1>7 DEF m
  <2>2. \A k \in 1 .. Len(input) : input[k] = v[k]
    BY <1>1, <1>4, <1>7, <2>1
  <2>3. Follows(v, Len(input), sent, h, Begun + c)
    BY <1>5, <2>1
  <2> QED  BY <1>2, <2>2, <2>3, SameBytes
<1>8. /\ v = Joined(buffer, off, nread - c, input)
      /\ nread - c + Len(input) \in Nat
      /\ Follows(v, nread - c + Len(input), sent, h, Begun + c)
  BY <1>3, <1>5 DEF v
<1> QED
  BY <1>6, <1>7, <1>8

(* A request that is given to its handler, and its answers.                *)
LEMMA HandleAnswers ==
    ASSUME TypeInv, LenInv, Frames, Handle
    PROVE  HandledInv' /\ AnswersInv'
<1> DEFINE h == Len(handled)
           l == h + 1
           K == sent[l]
           new == [bytes |-> request', req |-> req']
           z == IF noack' THEN 0 ELSE IF K.known THEN K.answers ELSE 1
           t == [i \in 1 .. z |-> l]
           d == Len(answers)
<1>1. /\ l \in DOMAIN sent /\ req' = K /\ request' = Bytes(l, K)
  BY HandleTakes
<1>2. /\ sent' = sent /\ handled' = Append(handled, new)
      /\ noack' = IF K.known THEN K.noack ELSE noack
      /\ add_status_response(request'[1][1],
                             IF K.known THEN K.answers ELSE 1)
  BY <1>1 DEF Handle, parse_command
<1>3. /\ h \in Nat /\ l \in Nat /\ K \in Kind /\ Size(K) \in Nat
      /\ Size(K) > 0 /\ h < Len(sent) /\ K.answers \in Nat
  BY <1>1, SentFacts, KindFacts
<1>4. request'[1][1] = l
  <2>1. \A i \in 1 .. Size(K) : Bytes(l, K)[i] = <<l, i>>
    BY <1>3, BytesFacts
  <2>2. 1 \in 1 .. Size(K)
    BY <1>3
  <2> QED  BY <1>1, <2>1, <2>2
<1>5. answers' = answers \o t
  BY <1>2, <1>4 DEF add_status_response
<1>6. z \in Nat /\ d \in Nat /\ answers \in Seq(Nat) /\ t \in Seq(Nat)
      /\ Len(t) = z /\ \A i \in 1 .. z : t[i] = l
  <2>1. z \in Nat
    BY <1>3
  <2> HIDE DEF z, l
  <2> QED  BY <1>3, <2>1 DEF TypeInv
<1>7. K.known /\ K.answers = 1 => z = IF K.noack THEN 0 ELSE 1
  BY <1>2, <1>3
<1> HIDE DEF t, z
<1>8. new = [bytes |-> Bytes(l, sent[l]), req |-> sent[l]] /\ new \in Request
  <2>1. Bytes(l, K) \in Seq(Byte)
    BY <1>3, BytesFacts
  <2> QED  BY <1>1, <1>3, <2>1 DEF Request
<1> HIDE DEF new
<1>9. /\ handled \in Seq(Request) /\ Len(handled') = l /\ handled'[l] = new
      /\ \A r \in 1 .. h : handled'[r] = handled[r]
  BY <1>2, <1>8 DEF TypeInv
<1> HIDE DEF h
<1>10. HandledInv'
  <2> SUFFICES ASSUME NEW r \in 1 .. l
               PROVE  handled'[r] = [bytes |-> Bytes(r, sent[r]),
                                     req |-> sent[r]]
    BY <1>2, <1>3, <1>9 DEF HandledInv
  <2>1. CASE r = l
    BY <1>8, <1>9, <2>1
  <2>2. CASE r # l
    <3>1. r \in 1 .. h
      BY <1>3, <2>2
    <3> QED  BY <1>9, <3>1 DEF Frames, HandledInv, h
  <2> QED  BY <2>1, <2>2
<1>11. /\ Len(answers') = d + z /\ DOMAIN answers' = 1 .. d + z
       /\ \A i \in 1 .. d : answers'[i] = answers[i]
       /\ \A i \in 1 .. d + z : i > d => answers'[i] = l
  <2>1. /\ Len(answers') = d + z /\ answers' \in Seq(Nat)
        /\ \A i \in 1 .. d + z :
             answers'[i] = IF i <= d THEN answers[i] ELSE t[i - d]
    <3>1. Len(answers') = Len(answers) + Len(t) /\ answers' \in Seq(Nat)
      BY <1>5, <1>6, ConcatFacts
    <3>2. \A i \in 1 .. Len(answers) + Len(t) :
            answers'[i] = IF i <= Len(answers) THEN answers[i]
                          ELSE t[i - Len(answers)]
      BY <1>5, <1>6
    <3> QED  BY <1>6, <3>1, <3>2
  <2>2. ASSUME NEW i \in 1 .. d + z, i > d PROVE answers'[i] = l
    <3>1. i - d \in 1 .. z /\ ~ (i <= d)
      BY <1>6, <2>2
    <3> QED  BY <1>6, <2>1, <3>1
  <2>3. \A i \in 1 .. d : i \in 1 .. d + z /\ i <= d
    BY <1>6
  <2> QED  BY <2>1, <2>2, <2>3
<1>12. /\ DOMAIN answers = 1 .. d
       /\ \A i \in 1 .. d : answers[i] \in 1 .. h
       /\ \A i, j \in 1 .. d : i < j => answers[i] <= answers[j]
       /\ \A r \in 1 .. h :
            sent[r].known /\ sent[r].answers = 1 =>
              Cardinality({i \in 1 .. d : answers[i] = r})
                = IF sent[r].noack THEN 0 ELSE 1
  <2>1. DOMAIN answers = 1 .. d
    BY <1>6
  <2> QED  BY <2>1 DEF Frames, AnswersInv, h
<1>13. \A i \in 1 .. d + z : i \in 1 .. d \/ i > d
  BY <1>6
<1> HIDE DEF d
<1>14. ASSUME NEW i \in 1 .. d + z PROVE answers'[i] \in 1 .. l
  <2>1. CASE i \in 1 .. d
    <3>1. answers'[i] \in 1 .. h
      BY <1>11, <1>12, <2>1
    <3> QED  BY <1>3, <3>1
  <2>2. CASE i > d
    BY <1>3, <1>11, <2>2
  <2> QED  BY <1>13, <2>1, <2>2
<1>15. ASSUME NEW i \in 1 .. d + z, NEW j \in 1 .. d + z, i < j
       PROVE  answers'[i] <= answers'[j]
  <2>1. CASE j > d
    <3>1. answers'[j] = l
      BY <1>11, <2>1
    <3> QED  BY <1>3, <1>14, <3>1
  <2>2. CASE j \in 1 .. d
    <3>1. i \in 1 .. d
      BY <1>6, <1>15, <2>2
    <3> QED  BY <1>11, <1>12, <1>15, <2>2, <3>1
  <2> QED  BY <1>13, <2>1, <2>2
<1>16. ASSUME NEW r \in 1 .. h
       PROVE  {i \in 1 .. d + z : answers'[i] = r}
                = {i \in 1 .. d : answers[i] = r}
  <2>1. r # l
    BY <1>3
  <2>2. \A i \in 1 .. d : i \in 1 .. d + z
    BY <1>6
  <2> QED  BY <1>11, <1>13, <2>1, <2>2
<1>17. ASSUME K.known, K.answers = 1
       PROVE  Cardinality({i \in 1 .. d + z : answers'[i] = l})
                = IF K.noack THEN 0 ELSE 1
  <2>1. \A i \in 1 .. d : answers'[i] # l
    <3>1. \A i \in 1 .. d : answers'[i] \in 1 .. h
      BY <1>11, <1>12
    <3> QED  BY <1>3, <3>1
  <2>2. CASE K.noack
    <3>1. z = 0
      BY <1>7, <1>17, <2>2
    <3>2. 1 .. d + z = 1 .. d
      BY <1>6, <3>1
    <3>3. {i \in 1 .. d + z : answers'[i] = l} = {}
      BY <2>1, <3>2
    <3> QED  BY <2>2, <3>3, FS_EmptySet
  <2>3. CASE ~ K.noack
    <3>1. z = 1
      BY <1>7, <1>17, <2>3
    <3>2. d + 1 \in 1 .. d + z /\ d + 1 > d
          /\ \A i \in 1 .. d + z : i > d => i = d + 1
      BY <1>6, <3>1
    <3>3. {i \in 1 .. d + z : answers'[i] = l} = {d + 1}
      BY <1>11, <1>13, <2>1, <3>2
    <3> QED  BY <2>3, <3>3, FS_Singleton
  <2> QED  BY <2>2, <2>3
<1>18. ASSUME NEW r \in 1 .. l, sent[r].known, sent[r].answers = 1
       PROVE  Cardinality({i \in 1 .. d + z : answers'[i] = r})
                = IF sent[r].noack THEN 0 ELSE 1
  <2>1. CASE r = l
    BY <1>17, <1>18, <2>1
  <2>2. CASE r # l
    <3>1. r \in 1 .. h
      BY <1>3, <2>2
    <3> QED  BY <1>12, <1>16, <1>18, <3>1
  <2> QED  BY <2>1, <2>2
<1>19. AnswersInv'
  BY <1>2, <1>9, <1>11, <1>14, <1>15, <1>18 DEF AnswersInv
<1> QED
  BY <1>10, <1>19

LEMMA HandleFrames ==
    ASSUME TypeInv, LenInv, Frames, Handle
    PROVE  Frames'
<1> DEFINE h == Len(handled)
           K == sent[h + 1]
<1>1. h + 1 \in DOMAIN sent /\ bodylen' = 0
  BY HandleTakes
<1>2. PICK c \in 1 .. nread : /\ Begun + c = Size(K)
                              /\ nread' = nread - c
                              /\ offset' = IF nread = c THEN 0 ELSE From + c
  BY HandleTakes
<1>3. /\ pc = "process" /\ UNCHANGED <<sent, input, buffer>>
      /\ pc' \in {"freed", "undefined", "process", "read"}
      /\ pc' = "process" => nread' >= Header
      /\ pc' = "read" => ~ (nread' >= Header)
      /\ \E x : handled' = Append(handled, x)
  BY DEF Handle, parse_command
<1>4. /\ c \in Nat /\ c <= nread /\ nread \in Nat /\ h \in Nat
      /\ Begun \in Nat /\ sent \in Seq(Kind) /\ Len(input) \in Nat
  BY SentFacts, BegunFacts DEF TypeInv, Frames
<1>5. Left(sent, h, Begun, c)
  BY <1>1, <1>2, <1>4 DEF Left
<1>6. PICK v : /\ v = Joined(buffer, offset', nread - c, input)
               /\ nread - c + Len(input) \in Nat
               /\ Follows(v, nread - c + Len(input), sent, h, Begun + c)
               /\ c # nread => v[nread - c][2] \notin 1 .. Header - 1
               /\ c = nread => Follows(input, Len(input), sent, h, Begun + c)
  BY <1>2, <1>3, <1>4, <1>5, RestOfAhead
<1>7. Begun + c \in Nat
  BY <1>4
<1>8. Len(handled') = h + 1
  BY <1>3 DEF TypeInv
<1>9. Begun' = 0 /\ From' = offset'
  BY <1>1 DEF Begun, From
<1>10. nread' \in Nat /\ Header \in Nat /\ Header > 0
  BY <1>2, <1>4, KindFacts
<1>11. CASE c = nread
  <2>1. Follows(input, Len(input), sent, h + 1, 0)
    BY <1>1, <1>2, <1>4, <1>6, <1>7, <1>11, NextRequest
  <2>2. nread' = 0 /\ offset' = 0
    BY <1>2, <1>4, <1>11
  <2>3. pc' # "process"
    BY <1>3, <1>10, <2>2
  <2>4. ReadInv' /\ ProcessInv'
    BY <1>3, <1>8, <1>9, <2>1, <2>2, <2>3 DEF ReadInv, ProcessInv
  <2> QED  BY <1>1, <2>4, HandleAnswers DEF Frames, BegunInv
<1>12. CASE c # nread
  <2> DEFINE m == nread - c + Len(input)
  <2>1. Follows(v, m, sent, h + 1, 0)
    <3>1. Follows(v, m, sent, h, Begun + c) /\ m \in Nat
      BY <1>6
    <3> HIDE DEF m
    <3> QED  BY <1>1, <1>2, <1>4, <1>7, <3>1, NextRequest
  <2>2. v[nread'][2] \notin 1 .. Header - 1
    BY <1>2, <1>6, <1>12
  <2>3. nread' \in 1 .. m
    BY <1>2, <1>4, <1>12
  <2>4. m = nread' + Len(input) /\ m \in Nat
    BY <1>2, <1>6
  <2>5. v = Joined(buffer, offset', nread', input)
    BY <1>2, <1>6
  <2> HIDE DEF m
  <2>6. nread' >= Header
    <3>1. h + 1 \in Nat
      BY <1>4
    <3> QED  BY <1>4, <2>1, <2>2, <2>3, <2>4, <3>1, NoShortHeader
  <2>7. offset' + nread' = From + nread /\ From + nread <= BufSize
    <3>1. From \in Nat /\ From + nread <= BufSize
      BY <1>3, AheadFacts
    <3> QED  BY <1>2, <1>4, <1>12, <3>1
  <2>8. v[nread'] = buffer[offset' + nread']
    <3>1. nread' \in 1 .. nread' + Len(input) /\ nread' <= nread'
      BY <2>3, <2>4
    <3> QED  BY <2>5, <3>1 DEF Joined
  <2>9. Ahead(From)' = v
    BY <1>3, <1>9, <2>5 DEF Ahead
  <2>10. Follows(Ahead(From)', nread' + Len(input'), sent', Len(handled'),
                 Begun')
    BY <1>3, <1>8, <1>9, <2>1, <2>4, <2>9
  <2>11. nread' > 0
    BY <1>10, <2>3
  <2>12. From' + nread' <= BufSize
         /\ buffer'[From' + nread'][2] \notin 1 .. Header - 1
    BY <1>3, <1>9, <2>2, <2>7, <2>8
  <2>13. ReadInv' /\ ProcessInv'
    BY <1>3, <2>6, <2>10, <2>11, <2>12 DEF ReadInv, ProcessInv
  <2> QED  BY <1>1, <2>13, HandleAnswers DEF Frames, BegunInv
<1> QED
  BY <1>11, <1>12

LEMMA PartialFrames ==
    ASSUME TypeInv, LenInv, Frames, Partial
    PROVE  Frames'
<1> DEFINE h == Len(handled)
           l == h + 1
           K == sent[l]
<1>1. /\ pc = "process" /\ pc' = "read"
      /\ UNCHANGED <<sent, input, handled, answers>>
  BY DEF Partial
<1>2. /\ nread \in Nat /\ bodylen \in Nat /\ h \in Nat /\ l \in Nat
      /\ sent \in Seq(Kind) /\ Len(input) \in Nat /\ Begun \in Nat
      /\ Header \in Nat
  BY SentFacts, BegunFacts, KindFacts DEF TypeInv, Frames
<1>3. HandledInv' /\ AnswersInv' /\ ProcessInv'
  BY <1>1 DEF Frames, HandledInv, AnswersInv, ProcessInv
<1>4. /\ l \in DOMAIN sent /\ req' = K /\ Begun + nread < Size(K)
      /\ bodylen' = Size(K) - (Begun + nread)
      /\ Begun + nread >= Header
      /\ request' \in Seq(Byte) /\ Len(request') = Begun + nread
      /\ \A i \in 1 .. Begun + nread : request'[i] = <<l, i>>
  <2>1. CASE /\ bodylen = 0
             /\ \E kind \in HeaderKinds :
                   /\ nread < Size(kind) /\ req' = kind
                   /\ request' = Buffered(offset, nread)
                   /\ bodylen' = Size(kind) - nread
    <3>1. l \in DOMAIN sent /\ HeaderKinds = {K} /\ nread >= Header
      BY <1>1, <2>1, HeaderIsThere
    <3>2. /\ nread < Size(K) /\ req' = K
          /\ request' = Buffered(offset, nread)
          /\ bodylen' = Size(K) - nread
      BY <2>1, <3>1
    <3>3. From = offset /\ Begun = 0
      BY <2>1 DEF From, Begun
    <3>4. Size(K) \in Nat
      BY <3>1, SentFacts
    <3>5. Left(sent, h, Begun, nread)
      BY <1>2, <3>1, <3>2, <3>3, <3>4 DEF Left
    <3>6. /\ request' \in Seq(Byte) /\ Len(request') = nread
          /\ \A i \in 1 .. nread : request'[i] = <<l, Begun + i>>
      BY <1>1, <1>2, <3>2, <3>3, <3>5, TakenBytes
    <3>7. Begun + nread = nread /\ \A i \in 1 .. nread : Begun + i = i
      BY <1>2, <3>3
    <3> QED  BY <3>1, <3>2, <3>6, <3>7
  <2>2. CASE /\ nread < bodylen
             /\ request' = request \o Buffered(0, nread)
             /\ bodylen' = bodylen - nread
             /\ UNCHANGED req
    <3>1. bodylen # 0
      BY <1>2, <2>2
    <3>2. /\ l \in DOMAIN sent /\ req = K /\ Begun = Len(request)
          /\ Begun + bodylen = Size(K)
      BY <3>1, BegunFacts DEF Frames
    <3>3. From = 0
      BY <3>1 DEF From
    <3>4. K \in Kind /\ Size(K) \in Nat
      BY <3>2, SentFacts
    <3>5. Left(sent, h, Begun, nread)
      BY <1>2, <2>2, <3>2, <3>4 DEF Left
    <3> DEFINE w == Buffered(0, nread)
    <3>6. /\ w \in Seq(Byte) /\ Len(w) = nread
          /\ \A i \in 1 .. nread : w[i] = <<l, Begun + i>>
      BY <1>1, <1>2, <3>3, <3>5, TakenBytes
    <3>7. /\ request \in Seq(Byte) /\ Begun >= Header
          /\ \A i \in 1 .. Begun : request[i] = <<l, i>>
      <4>1. /\ bodylen <= Size(req) - Header
            /\ request = [i \in 1 .. Size(req) - bodylen |-> <<l, i>>]
        BY <3>1 DEF Frames, BegunInv
      <4>2. Size(req) - bodylen = Begun /\ Begun >= Header
        BY <1>2, <3>2, <3>4, <4>1
      <4> QED  BY <4>1, <4>2 DEF TypeInv
    <3> HIDE DEF w
    <3>8. request' = request \o w
      BY <2>2 DEF w
    <3>9. request' \in Seq(Byte) /\ Len(request') = Begun + nread
      BY <3>2, <3>6, <3>7, <3>8, ConcatFacts
    <3>10. ASSUME NEW i \in 1 .. Begun + nread PROVE request'[i] = <<l, i>>
      <4>1. i \in 1 .. Len(request) + Len(w)
        BY <3>2, <3>6
      <4>2. request'[i] = IF i <= Len(request) THEN request[i]
                          ELSE w[i - Len(request)]
        BY <3>6, <3>7, <3>8, <4>1
      <4>3. CASE i <= Begun
        BY <1>2, <3>2, <3>7, <4>2, <4>3
      <4>4. CASE ~ (i <= Begun)
        <5>1. i - Begun \in 1 .. nread /\ Begun + (i - Begun) = i
          BY <1>2, <4>4
        <5> QED  BY <3>2, <3>6, <4>2, <4>4, <5>1
      <4> QED  BY <4>3, <4>4
    <3>11. /\ Begun + nread < Size(K) /\ Begun + nread >= Header
           /\ bodylen' = Size(K) - (Begun + nread)
      BY <1>2, <2>2, <3>2, <3>4, <3>7
    <3> QED  BY <2>2, <3>2, <3>9, <3>10, <3>11
  <2> QED  BY <2>1, <2>2 DEF Partial
<1>5. K \in Kind /\ Size(K) \in Nat /\ h < Len(sent)
  BY <1>2, <1>4, SentFacts
<1>6. /\ bodylen' # 0 /\ bodylen' \in Nat /\ Begun + nread \in Nat
      /\ bodylen' <= Size(K) - Header /\ Size(K) - bodylen' = Begun + nread
  <2> DEFINE y == Begun + nread
             z == Size(K)
  <2>1. /\ y \in Nat /\ z \in Nat /\ y < z /\ y >= Header
        /\ bodylen' = z - y /\ Header \in Nat
    BY <1>2, <1>4, <1>5
  <2> HIDE DEF y, z
  <2>2. /\ bodylen' # 0 /\ bodylen' \in Nat /\ y \in Nat
        /\ bodylen' <= z - Header /\ z - bodylen' = y
    BY <2>1
  <2> QED  BY <2>2 DEF y, z
<1>7. Begun' = Begun + nread
  BY <1>4, <1>6 DEF Begun
<1>8. BegunInv'
  <2>1. request' = [i \in 1 .. Begun + nread |-> <<l, i>>]
    <3> DEFINE y == Begun + nread
    <3>1. /\ request' \in Seq(Byte) /\ Len(request') = y
          /\ \A i \in 1 .. y : request'[i] = <<l, i>>
      BY <1>4
    <3> HIDE DEF y, l
    <3> DEFINE t == [i \in 1 .. y |-> <<l, i>>]
    <3>2. /\ t \in Seq(Byte) /\ Len(t) = y
          /\ \A i \in 1 .. y : t[i] = <<l, i>>
      BY <1>2, <1>6 DEF Byte, y
    <3> HIDE DEF t
    <3>3. request' = t
      BY <3>1, <3>2, SameSequence
    <3> QED  BY <3>3 DEF t, y
  <2> QED  BY <1>1, <1>4, <1>5, <1>6, <2>1 DEF BegunInv
<1>9. Left(sent, h, Begun, nread)
  BY <1>2, <1>4, <1>5 DEF Left
<1>10. Follows(input, Len(input), sent, h, Begun + nread)
  <2>1. nread <= nread
    BY <1>2
  <2> DEFINE off == IF nread = nread THEN 0 ELSE From + nread
  <2> HIDE DEF off
  <2>2. off = IF nread = nread THEN 0 ELSE From + nread
    BY DEF off
  <2> QED  BY <1>1, <1>2, <1>9, <2>1, <2>2, RestOfAhead
<1>11. ReadInv'
  BY <1>1, <1>6, <1>7, <1>10 DEF ReadInv
<1> QED
  BY <1>3, <1>8, <1>11 DEF Frames

(* A connection that loses its framing promises nothing more.              *)
LEMMA RefuseFrames ==
    ASSUME TypeInv, LenInv, Frames, Refuse
    PROVE  ~ framed'
<1>1. pc = "process" /\ bodylen = 0 /\ nread \in Nat /\ Header \in Nat
  BY KindFacts DEF Refuse, TypeInv
<1>2. nread >= Header
  BY <1>1, HeaderIsThere
<1> QED
  BY <1>1, <1>2 DEF Refuse

LEMMA FrameInvariant ==
    ASSUME TypeInv, LenInv, FrameInv, [Next]_vars
    PROVE  FrameInv'
<1> SUFFICES ASSUME framed' PROVE Frames'
  BY DEF FrameInv
<1>1. framed
  BY DEF Next, vars, Send, Read, Closed, Handle, Partial, Refuse
<1>2. Frames
  BY <1>1 DEF FrameInv
<1>3. CASE Closed
  BY <1>2, <1>3 DEF Closed, Frames, HandledInv, BegunInv, ReadInv, ProcessInv,
                    AnswersInv
<1>4. CASE UNCHANGED vars
  BY <1>2, <1>4 DEF vars, client_vars, Frames, HandledInv, BegunInv, ReadInv,
                    ProcessInv, AnswersInv, Begun, From, Ahead
<1> QED
  BY <1>2, <1>3, <1>4, SendFrames, ReadFrames, HandleFrames, PartialFrames,
     RefuseFrames DEF Next

LEMMA InvInit == Init => Inv
<1> SUFFICES ASSUME Init PROVE Inv
  OBVIOUS
<1>1. /\ sent = <<>> /\ input = <<>> /\ handled = <<>> /\ answers = <<>>
      /\ bodylen = 0 /\ offset = 0 /\ pc = "read"
  BY DEF Init
<1>2. HandledInv /\ AnswersInv
  BY <1>1 DEF HandledInv, AnswersInv
<1>3. BegunInv /\ ReadInv /\ ProcessInv
  BY <1>1 DEF BegunInv, ReadInv, ProcessInv, Follows
<1> QED
  BY <1>2, <1>3, BaseInit DEF Inv, FrameInv, Frames

LEMMA InvCorrect == Spec => []Inv
<1>1. Inv /\ [Next]_vars => Inv'
  BY BaseInvariant, FrameInvariant DEF Inv
<1> QED
  BY InvInit, <1>1, PTL DEF Spec

(* At the end of process_request the complete requests are the handled     *)
(* ones: what is not read follows the last of them.                        *)
LEMMA AllComplete ==
    ASSUME TypeInv, LenInv, Frames, pc = "read"
    PROVE  Complete = 1 .. Len(handled)
<1> DEFINE h == Len(handled)
<1>1. Follows(input, Len(input), sent, h, Begun)
  BY DEF Frames, ReadInv
<1>2. /\ Begun \in Nat /\ h <= Len(sent) /\ h \in Nat /\ Len(sent) \in Nat
      /\ DOMAIN sent = 1 .. Len(sent)
  BY BegunFacts, SentFacts DEF Frames
<1>3. ASSUME h + 1 \in DOMAIN sent PROVE Begun < Size(sent[h + 1])
  <2>1. Size(sent[h + 1]) \in Nat /\ Size(sent[h + 1]) > 0
    BY <1>3, SentFacts, KindFacts
  <2>2. CASE bodylen = 0
    BY <2>1, <2>2 DEF Begun
  <2>3. CASE bodylen # 0
    <3>1. Begun + bodylen = Size(sent[h + 1]) /\ bodylen \in Nat
      BY <2>3, BegunFacts DEF Frames, TypeInv
    <3> QED  BY <1>2, <2>3, <3>1
  <2> QED  BY <2>2, <2>3
<1>4. ASSUME NEW r \in DOMAIN sent
      PROVE  <<r, Size(sent[r])>> \in Elems(input) <=> r > h
  <2>1. r \in Nat /\ Size(sent[r]) \in Nat /\ Size(sent[r]) > 0
        /\ Size(sent[r]) \in 1 .. Size(sent[r])
    BY SentFacts, KindFacts
  <2>2. ASSUME <<r, Size(sent[r])>> \in Elems(input) PROVE r > h
    <3>1. PICK k \in 1 .. Len(input) : input[k] = <<r, Size(sent[r])>>
      <4>1. DOMAIN input = 1 .. Len(input)
        BY DEF TypeInv
      <4> QED  BY <2>2, <4>1 DEF Elems
    <3>2. PICK q \in DOMAIN sent : \E i \in 1 .. Size(sent[q]) :
            input[k] = <<q, i>> /\ Later(h, Begun, q, i)
      BY <1>1 DEF Follows
    <3>3. q = r /\ q >= h + 1
      BY <1>2, <2>1, <3>1, <3>2 DEF Later
    <3> QED  BY <1>2, <2>1, <3>3
  <2>3. ASSUME r > h PROVE <<r, Size(sent[r])>> \in Elems(input)
    <3>1. Later(h, Begun, r, Size(sent[r]))
      <4>1. CASE r = h + 1
        BY <1>3, <4>1 DEF Later
      <4>2. CASE r # h + 1
        BY <1>2, <2>1, <2>3, <4>2 DEF Later
      <4> QED  BY <4>1, <4>2
    <3>2. PICK k \in 1 .. Len(input) : input[k] = <<r, Size(sent[r])>>
      BY <1>1, <2>1, <3>1 DEF Follows
    <3>3. k \in DOMAIN input
      BY DEF TypeInv
    <3> QED  BY <3>2, <3>3 DEF Elems
  <2> QED  BY <2>2, <2>3
<1>5. \A r \in DOMAIN sent : r \in Complete <=> r <= h
  BY <1>2, <1>4 DEF Complete
<1>6. \A r \in 1 .. h : r \in DOMAIN sent
  BY <1>2
<1>7. Complete \subseteq DOMAIN sent
  BY DEF Complete
<1>8. ASSUME NEW r \in Complete PROVE r \in 1 .. h
  BY <1>2, <1>5, <1>7
<1>9. ASSUME NEW r \in 1 .. h PROVE r \in Complete
  BY <1>2, <1>5, <1>6
<1> QED
  BY <1>8, <1>9

(* However read cuts and joins what the client sends, as long as no cut is *)
(* inside a header, process_request gives the handlers the requests of the *)
(* client, unchanged and in their order, and has given them every complete *)
(* one when it returns.                                                    *)
THEOREM SameRequestsCorrect == Spec => []SameRequests
<1>1. Inv => SameRequests
  <2> SUFFICES ASSUME Inv, framed PROVE
        /\ \A r \in DOMAIN handled : handled[r].bytes = Bytes(r, sent[r])
        /\ pc = "read" => Len(handled) = Cardinality(Complete)
    BY DEF SameRequests
  <2>1. TypeInv /\ LenInv /\ Frames
    BY DEF Inv, FrameInv
  <2>2. DOMAIN handled = 1 .. Len(handled) /\ Len(handled) \in Nat
    BY <2>1 DEF TypeInv
  <2>3. \A r \in DOMAIN handled : handled[r].bytes = Bytes(r, sent[r])
    BY <2>1, <2>2 DEF Frames, HandledInv
  <2>4. ASSUME pc = "read" PROVE Len(handled) = Cardinality(Complete)
    <3>1. Complete = 1 .. Len(handled)
      BY <2>1, <2>4, AllComplete
    <3>2. Cardinality(1 .. Len(handled)) = Len(handled)
      <4>1. 1 \in Int /\ Len(handled) \in Int
        BY <2>2
      <4>2. Cardinality(1 .. Len(handled))
              = IF 1 > Len(handled) THEN 0 ELSE Len(handled) - 1 + 1
        BY <4>1, FS_Interval
      <4> QED  BY <2>2, <4>2
    <3> QED  BY <3>1, <3>2
  <2> QED  BY <2>3, <2>4
<1> QED
  BY InvCorrect, <1>1, PTL

(* A request with one status response gets it once, or not at all if it    *)
(* set noack, and the responses are in the order of the requests: noack of *)
(* parse_command is that of the request at hand, whatever came before.     *)
THEOREM AnswersInStepCorrect == Spec => []AnswersInStep
<1>1. Inv => AnswersInStep
  <2> SUFFICES ASSUME Inv, framed PROVE AnswersInStep
    BY DEF AnswersInStep
  <2>1. TypeInv /\ AnswersInv
    BY DEF Inv, FrameInv, Frames
  <2>2. DOMAIN handled = 1 .. Len(handled)
    BY <2>1 DEF TypeInv
  <2> QED  BY <2>1, <2>2 DEF AnswersInv, AnswersInStep
<1> QED
  BY InvCorrect, <1>1, PTL

-----------------------------------------------------------------------------
(* Payload *)

(* For each queue the payloads of its messages. *)
Stores == [Queues -> SUBSET Objects]

(* For each client how often each payload waits to be sent. *)
Unsent == [Clients -> [Objects -> Nat]]

(* The records on which handlers work. *)
States ==
    [live : SUBSET Objects, refcount : [Objects -> Nat], messages : Stores,
     leaked : Stores, responses : Unsent, undefined : BOOLEAN]

(* The queues that have the payload o. *)
Having(f, o) == {q \in Queues : o \in f[q]}

(* The unsent responses with the payload o. *)
Owed(r, o) == UNION {{c} \X (1 .. r[c][o]) : c \in Clients}

(* They are finitely many. *)
LEMMA HavingType ==
    ASSUME IsFiniteSet(Queues), NEW f, NEW o
    PROVE  /\ IsFiniteSet(Having(f, o))
           /\ Cardinality(Having(f, o)) \in Nat
<1>1. Having(f, o) \in SUBSET Queues
  BY DEF Having
<1> QED
  BY <1>1, FS_Subset, FS_CardinalityType

(* In g the queue q has the payload o and in f it has not: nothing else    *)
(* differs as far as o goes.                                               *)
Gained(f, g, o, q) ==
    /\ o \in g[q] /\ o \notin f[q]
    /\ \A r \in Queues \ {q} : o \in g[r] <=> o \in f[r]

(* A queue that gets the payload is one more.                              *)
LEMMA HavingMore ==
    ASSUME IsFiniteSet(Queues), NEW f, NEW g, NEW o, NEW q \in Queues,
           Gained(f, g, o, q)
    PROVE  Cardinality(Having(g, o)) = Cardinality(Having(f, o)) + 1
<1>1. Having(g, o) = Having(f, o) \cup {q} /\ q \notin Having(f, o)
  BY DEF Having, Gained
<1>2. IsFiniteSet(Having(f, o))
  BY HavingType
<1> QED
  BY <1>1, <1>2, FS_AddElement

(* They depend on nothing but the messages with o. *)
LEMMA HavingSame ==
    ASSUME NEW f, NEW g, NEW o,
           \A r \in Queues : o \in g[r] <=> o \in f[r]
    PROVE  Having(g, o) = Having(f, o)
BY DEF Having

(* They are finitely many. *)
LEMMA OwedType ==
    ASSUME IsFiniteSet(Clients), NEW r \in Unsent, NEW o \in Objects
    PROVE  /\ IsFiniteSet(Owed(r, o))
           /\ Cardinality(Owed(r, o)) \in Nat
<1> DEFINE row == [c \in Clients |-> {c} \X (1 .. r[c][o])]
           rows == {{c} \X (1 .. r[c][o]) : c \in Clients}
<1>1. row \in Surjection(Clients, rows)
  BY DEF Surjection
<1>2. IsFiniteSet(rows)
  BY <1>1, FS_Surjection
<1>3. ASSUME NEW c \in Clients
      PROVE  IsFiniteSet({c} \X (1 .. r[c][o]))
  <2>1. r[c][o] \in Int
    BY DEF Unsent
  <2>2. IsFiniteSet(1 .. r[c][o])
    BY <2>1, FS_Interval
  <2>3. IsFiniteSet({c})
    BY FS_Singleton
  <2> QED  BY <2>2, <2>3, FS_Product
<1>4. \A T \in rows : IsFiniteSet(T)
  BY <1>3
<1>5. IsFiniteSet(UNION rows)
  BY <1>2, <1>4, FS_UNION
<1> QED
  BY <1>5, FS_CardinalityType DEF Owed

(* In t the clients C have one response with o more than in r. *)
OneMore(r, t, o, C) ==
    \A c \in Clients :
       t[c][o] = IF c \in C THEN r[c][o] + 1 ELSE r[c][o]

(* Clients that get one more response with the payload.                    *)
LEMMA OwedMore ==
    ASSUME IsFiniteSet(Clients), NEW r \in Unsent, NEW t \in Unsent,
           NEW o \in Objects, NEW C \in SUBSET Clients, OneMore(r, t, o, C)
    PROVE  /\ Cardinality(C) \in Nat
           /\ Cardinality(Owed(t, o)) = Cardinality(Owed(r, o)) +
                                        Cardinality(C)
<1> DEFINE next == [c \in C |-> <<c, r[c][o] + 1>>]
           N == {<<c, r[c][o] + 1>> : c \in C}
<1>0. \A c \in Clients :
        /\ r[c][o] \in Nat /\ t[c][o] \in Nat
        /\ t[c][o] = IF c \in C THEN r[c][o] + 1 ELSE r[c][o]
  BY DEF Unsent, OneMore
<1>1. IsFiniteSet(C) /\ Cardinality(C) \in Nat
  BY FS_Subset, FS_CardinalityType
<1>2. next \in Bijection(C, N)
  <2>1. next \in [C -> N]
    OBVIOUS
  <2>2. ASSUME NEW a \in C, NEW b \in C, next[a] = next[b] PROVE a = b
    <3>1. <<a, r[a][o] + 1>> = <<b, r[b][o] + 1>>
      BY <2>2
    <3> QED  BY <3>1
  <2>3. \A x \in N : \E c \in C : next[c] = x
    OBVIOUS
  <2> HIDE DEF next, N
  <2> QED  BY <2>1, <2>2, <2>3 DEF Bijection, Injection, Surjection, IsInjective
<1>3. IsFiniteSet(N) /\ Cardinality(N) = Cardinality(C)
  BY <1>1, <1>2, FS_Bijection DEF ExistsBijection
<1>4. Owed(t, o) = Owed(r, o) \cup N
  <2>1. ASSUME NEW x \in Owed(t, o) PROVE x \in Owed(r, o) \cup N
    <3>1. PICK c \in Clients : x \in {c} \X (1 .. t[c][o])
      BY DEF Owed
    <3>2. PICK i \in 1 .. t[c][o] : x = <<c, i>>
      BY <3>1
    <3>3. CASE c \in C /\ i = r[c][o] + 1
      BY <3>2, <3>3
    <3>4. CASE ~(c \in C /\ i = r[c][o] + 1)
      <4>1. i \in 1 .. r[c][o]
        BY <3>2, <3>4, <1>0
      <4> QED  BY <3>2, <4>1 DEF Owed
    <3> QED  BY <3>3, <3>4
  <2>2. ASSUME NEW x \in Owed(r, o) PROVE x \in Owed(t, o)
    <3>1. PICK c \in Clients : x \in {c} \X (1 .. r[c][o])
      BY DEF Owed
    <3>2. PICK i \in 1 .. r[c][o] : x = <<c, i>>
      BY <3>1
    <3>3. i \in 1 .. t[c][o]
      BY <1>0
    <3> QED  BY <3>2, <3>3 DEF Owed
  <2>3. ASSUME NEW c \in C PROVE <<c, r[c][o] + 1>> \in Owed(t, o)
    <3>1. r[c][o] + 1 \in 1 .. t[c][o]
      BY <1>0
    <3> QED  BY <3>1 DEF Owed
  <2> QED  BY <2>1, <2>2, <2>3
<1>5. Owed(r, o) \cap N = {}
  <2> SUFFICES ASSUME NEW c \in C, <<c, r[c][o] + 1>> \in Owed(r, o)
               PROVE  FALSE
    OBVIOUS
  <2>1. PICK d \in Clients : <<c, r[c][o] + 1>> \in {d} \X (1 .. r[d][o])
    BY DEF Owed
  <2>2. c = d /\ r[c][o] + 1 \in 1 .. r[d][o]
    BY <2>1
  <2> QED  BY <2>2, <1>0
<1>6. IsFiniteSet(Owed(r, o)) /\ Cardinality(Owed(r, o)) \in Nat
  BY OwedType
<1> HIDE DEF N
<1>7. Cardinality(Owed(r, o) \cup N) =
        Cardinality(Owed(r, o)) + Cardinality(N) - 0
  BY <1>3, <1>5, <1>6, FS_Union, FS_EmptySet
<1> QED
  BY <1>1, <1>3, <1>4, <1>6, <1>7

(* A client that loses all its responses.                                  *)
LEMMA OwedNone ==
    ASSUME IsFiniteSet(Clients), NEW r \in Unsent, NEW t \in Unsent,
           NEW o \in Objects, NEW c \in Clients, t[c][o] = 0,
           \A d \in Clients \ {c} : t[d][o] = r[d][o]
    PROVE  Cardinality(Owed(r, o)) = Cardinality(Owed(t, o)) + r[c][o]
<1> DEFINE row == {c} \X (1 .. r[c][o])
<1>0. \A d \in Clients : r[d][o] \in Nat /\ t[d][o] \in Nat
  BY DEF Unsent
<1>1. IsFiniteSet(row) /\ Cardinality(row) = r[c][o]
  <2>1. ASSUME NEW n \in Nat
        PROVE  IsFiniteSet(1 .. n) /\ Cardinality(1 .. n) = n
    BY FS_Interval
  <2>2. IsFiniteSet({c}) /\ Cardinality({c}) = 1
    BY FS_Singleton
  <2>3. IsFiniteSet(1 .. r[c][o]) /\ Cardinality(1 .. r[c][o]) = r[c][o]
    BY <2>1, <1>0
  <2>4. /\ IsFiniteSet({c} \X (1 .. r[c][o]))
        /\ Cardinality({c} \X (1 .. r[c][o])) =
             Cardinality({c}) * Cardinality(1 .. r[c][o])
    BY <2>2, <2>3, FS_Product
  <2> QED  BY <2>2, <2>3, <2>4, <1>0
<1>2. Owed(r, o) = Owed(t, o) \cup row
  <2>1. ASSUME NEW x \in Owed(r, o) PROVE x \in Owed(t, o) \cup row
    <3>1. PICK d \in Clients : x \in {d} \X (1 .. r[d][o])
      BY DEF Owed
    <3>2. CASE d = c
      BY <3>1, <3>2
    <3>3. CASE d # c
      <4>1. x \in {d} \X (1 .. t[d][o])
        BY <3>1, <3>3
      <4> QED  BY <4>1 DEF Owed
    <3> QED  BY <3>2, <3>3
  <2>2. ASSUME NEW x \in Owed(t, o) PROVE x \in Owed(r, o)
    <3>1. PICK d \in Clients : x \in {d} \X (1 .. t[d][o])
      BY DEF Owed
    <3>2. d # c
      BY <3>1
    <3>3. x \in {d} \X (1 .. r[d][o])
      BY <3>1, <3>2
    <3> QED  BY <3>3 DEF Owed
  <2>3. row \subseteq Owed(r, o)
    BY DEF Owed
  <2> QED  BY <2>1, <2>2, <2>3
<1>3. Owed(t, o) \cap row = {}
  <2> SUFFICES ASSUME NEW x \in Owed(t, o), x \in row PROVE FALSE
    OBVIOUS
  <2>1. PICK d \in Clients : x \in {d} \X (1 .. t[d][o])
    BY DEF Owed
  <2>2. d = c
    BY <2>1
  <2> QED  BY <2>1, <2>2
<1>4. IsFiniteSet(Owed(t, o)) /\ Cardinality(Owed(t, o)) \in Nat
  BY OwedType
<1> HIDE DEF row
<1>5. Cardinality(Owed(t, o) \cup row) =
        Cardinality(Owed(t, o)) + Cardinality(row) - 0
  BY <1>1, <1>3, <1>4, FS_Union, FS_EmptySet
<1> QED
  BY <1>0, <1>1, <1>2, <1>4, <1>5

(* The number of holders of o in the state s of a handler. *)
HoldersIn(s, o) ==
    Cardinality(Having(s.messages, o)) + Cardinality(Having(s.leaked, o))
    + Cardinality(Owed(s.responses, o))

(* In the middle of a handler the count of a payload o is off by d[o].  A  *)
(* message is not both in its queue and forgotten.                         *)
Counted(s, d) ==
    /\ s.undefined = FALSE
    /\ \A o \in Objects :
         IF o \in s.live THEN s.refcount[o] = HoldersIn(s, o) + d[o]
         ELSE HoldersIn(s, o) = 0 /\ d[o] = 0
    /\ \A q \in Queues : s.messages[q] \cap s.leaked[q] = {}

(* The messages D of q are taken out, a message is put in or lost. *)
Taken(s, q, D) == [s EXCEPT !.messages[q] = @ \ D]
Stored(s, q, o) == [s EXCEPT !.messages[q] = @ \cup {o}]
Lost(s, q, o) == [s EXCEPT !.leaked[q] = @ \cup {o}]

(* The differences when the count of o changes by one, of those in D is up *)
(* by one, and of each o is up or down by n[o].                            *)
Up1(d, o) == [d EXCEPT ![o] = @ + 1]
Down1(d, o) == [d EXCEPT ![o] = @ - 1]
SetTo(d, o, k) == [d EXCEPT ![o] = k]
Raised(d, n) == [o \in Objects |-> d[o] + n[o]]

(* The queues other than q have the same messages in s and t. *)
Elsewhere(s, t, q) ==
    \A r \in Queues \ {q} : /\ t.messages[r] = s.messages[r]
                            /\ t.leaked[r] = s.leaked[r]

(* Clients and queues are finitely many (PayloadAssumption). *)
Finite == IsFiniteSet(Clients) /\ IsFiniteSet(Queues)

(* The number of holders is a natural number. *)
LEMMA HoldersType ==
    ASSUME Finite, NEW s \in States, NEW o \in Objects
    PROVE  HoldersIn(s, o) \in Nat
<1>1. s.responses \in Unsent
  BY DEF States
<1>2. /\ Cardinality(Having(s.messages, o)) \in Nat
      /\ Cardinality(Having(s.leaked, o)) \in Nat
      /\ Cardinality(Owed(s.responses, o)) \in Nat
  BY <1>1, HavingType, OwedType DEF Finite
<1> QED
  BY <1>2 DEF HoldersIn

(* What decrement_references_count does to each payload.                   *)
LEMMA DecrementFields ==
    ASSUME NEW s \in States, NEW n \in [Objects -> Nat],
           NEW t, t = decrement_references_count(s, n)
    PROVE  /\ t \in States
           /\ t.messages = s.messages /\ t.leaked = s.leaked
           /\ t.responses = s.responses
           /\ \A o \in Objects :
                /\ o \in t.live <=>
                     o \in s.live /\ (n[o] > 0 => s.refcount[o] > n[o])
                /\ t.refcount[o] =
                     IF s.refcount[o] > n[o] THEN s.refcount[o] - n[o] ELSE 0
           /\ t.undefined =>
                s.undefined \/ \E o \in Objects :
                    \/ n[o] > 0 /\ o \notin s.live
                    \/ n[o] > 1 /\ n[o] > s.refcount[o]
<1>1. [o \in Objects |->
         IF s.refcount[o] > n[o] THEN s.refcount[o] - n[o] ELSE 0]
        \in [Objects -> Nat]
  BY DEF States
<1>2. (s.undefined \/ \E o \in Objects :
          \/ n[o] > 0 /\ o \notin s.live
          \/ n[o] > 1 /\ n[o] > s.refcount[o]) \in BOOLEAN
  BY DEF States
<1> QED
  BY <1>1, <1>2 DEF States, decrement_references_count

(* Payloads that lose no reference are not released. *)
SameLive(s, t, n) ==
    \A o \in Objects : n[o] = 0 => (o \in t.live <=> o \in s.live)

(* Giving up references that are there to be given up.                     *)
LEMMA DecrementCounted ==
    ASSUME Finite, NEW s \in States, NEW n \in [Objects -> Nat],
           NEW e \in [Objects -> Nat], NEW d, d = Raised(e, n), Counted(s, d),
           NEW t, t = decrement_references_count(s, n)
    PROVE  /\ t \in States /\ Counted(t, e)
           /\ t.messages = s.messages /\ t.leaked = s.leaked
           /\ t.responses = s.responses
           /\ SameLive(s, t, n)
<1>1. /\ t \in States
      /\ t.messages = s.messages /\ t.leaked = s.leaked
      /\ t.responses = s.responses
  BY DecrementFields
<1>2. \A o \in Objects :
        /\ o \in t.live <=>
             o \in s.live /\ (n[o] > 0 => s.refcount[o] > n[o])
        /\ t.refcount[o] =
             IF s.refcount[o] > n[o] THEN s.refcount[o] - n[o] ELSE 0
  BY DecrementFields
<1>4. t.undefined =>
        s.undefined \/ \E o \in Objects :
           \/ n[o] > 0 /\ o \notin s.live
           \/ n[o] > 1 /\ n[o] > s.refcount[o]
  BY DecrementFields
<1>5. ASSUME NEW o \in Objects
      PROVE  /\ ~(n[o] > 0 /\ o \notin s.live)
             /\ ~(n[o] > 1 /\ n[o] > s.refcount[o])
             /\ IF o \in t.live THEN t.refcount[o] = HoldersIn(t, o) + e[o]
                ELSE HoldersIn(t, o) = 0 /\ e[o] = 0
             /\ n[o] = 0 => (o \in t.live <=> o \in s.live)
  <2>1. HoldersIn(t, o) = HoldersIn(s, o) /\ HoldersIn(s, o) \in Nat
    BY <1>1, HoldersType DEF HoldersIn
  <2>2. IF o \in s.live THEN s.refcount[o] = HoldersIn(s, o) + d[o]
        ELSE HoldersIn(s, o) = 0 /\ d[o] = 0
    BY DEF Counted
  <2>3. /\ n[o] \in Nat /\ d[o] = e[o] + n[o] /\ e[o] \in Nat
        /\ s.refcount[o] \in Nat
    BY DEF States, Raised
  <2>4. /\ t.refcount[o] =
             IF s.refcount[o] > n[o] THEN s.refcount[o] - n[o] ELSE 0
        /\ o \in t.live <=> o \in s.live /\ (n[o] > 0 => s.refcount[o] > n[o])
    BY <1>2
  <2> QED  BY <2>1, <2>2, <2>3, <2>4
<1>6. s.undefined = FALSE
  BY DEF Counted
<1>7. t.undefined = FALSE
  <2>1. t.undefined \in BOOLEAN
    BY <1>1 DEF States
  <2> QED  BY <1>4, <1>5, <1>6, <2>1
<1>8. \A q \in Queues : t.messages[q] \cap t.leaked[q] = {}
  BY <1>1 DEF Counted
<1> QED
  BY <1>1, <1>5, <1>7, <1>8 DEF Counted, SameLive

(* A payload that was not allocated has no holders; its count is set. *)
LEMMA CreateCounted ==
    ASSUME NEW s \in States, NEW o \in Objects, NEW count \in Nat,
           NEW d \in [Objects -> Int], NEW e \in [Objects -> Int],
           Counted(s, d), o \notin s.live, e = SetTo(d, o, count),
           NEW t, t = create_dup_object(s, o, count)
    PROVE  /\ t \in States /\ Counted(t, e) /\ t.live = s.live \cup {o}
           /\ t.messages = s.messages /\ t.leaked = s.leaked
           /\ t.responses = s.responses
<1>1. /\ t \in States
      /\ t.messages = s.messages /\ t.leaked = s.leaked
      /\ t.responses = s.responses /\ t.undefined = s.undefined
  BY DEF States, create_dup_object
<1>2. t.live = s.live \cup {o} /\ t.refcount = [s.refcount EXCEPT ![o] = count]
  BY DEF States, create_dup_object
<1>3. s.refcount \in [Objects -> Nat]
  BY DEF States
<1>4. ASSUME NEW p \in Objects
      PROVE  IF p \in t.live THEN t.refcount[p] = HoldersIn(t, p) + e[p]
             ELSE HoldersIn(t, p) = 0 /\ e[p] = 0
  <2>1. HoldersIn(t, p) = HoldersIn(s, p)
    BY <1>1 DEF HoldersIn
  <2>2. IF p \in s.live THEN s.refcount[p] = HoldersIn(s, p) + d[p]
        ELSE HoldersIn(s, p) = 0 /\ d[p] = 0
    BY DEF Counted
  <2>3. CASE p = o
    BY <1>2, <1>3, <2>1, <2>2, <2>3 DEF SetTo
  <2>4. CASE p # o
    BY <1>2, <1>3, <2>1, <2>2, <2>4 DEF SetTo
  <2> QED  BY <2>3, <2>4
<1> QED
  BY <1>1, <1>2, <1>4 DEF Counted

(* Clients that get a response with the payload are counted as they get it.*)
LEMMA ResponseCounted ==
    ASSUME Finite, NEW s \in States, NEW o \in Objects,
           NEW C \in SUBSET Clients, NEW d \in [Objects -> Int],
           Counted(s, d), o \in s.live,
           NEW t, t = add_object_response(s, C, o)
    PROVE  /\ t \in States /\ Counted(t, d) /\ t.live = s.live
           /\ t.messages = s.messages /\ t.leaked = s.leaked
<1> DEFINE R == [c \in Clients |->
                   [s.responses[c] EXCEPT ![o] = IF c \in C THEN @ + 1 ELSE @]]
<1>0. /\ s.responses \in Unsent /\ s.refcount \in [Objects -> Nat]
      /\ s.undefined = FALSE
  BY DEF States, Counted
<1>1. R \in Unsent
  BY <1>0 DEF Unsent
<1>2. \A c \in Clients, p \in Objects :
        R[c][p] = IF c \in C /\ p = o THEN s.responses[c][p] + 1
                  ELSE s.responses[c][p]
  BY <1>0 DEF Unsent
<1> HIDE DEF R
<1>3. /\ Cardinality(C) \in Nat
      /\ Cardinality(Owed(R, o)) = Cardinality(Owed(s.responses, o)) +
                                   Cardinality(C)
  <2>1. OneMore(s.responses, R, o, C)
    BY <1>2 DEF OneMore
  <2> QED  BY <1>0, <1>1, <2>1, OwedMore DEF Finite
<1>4. /\ t.messages = s.messages /\ t.leaked = s.leaked /\ t.live = s.live
      /\ t.responses = R
      /\ t.refcount = [s.refcount EXCEPT ![o] = @ + Cardinality(C)]
      /\ t.undefined = (s.undefined \/ (Cardinality(C) > 0 /\ o \notin s.live))
      /\ t = [live |-> t.live, refcount |-> t.refcount,
              messages |-> t.messages, leaked |-> t.leaked,
              responses |-> t.responses, undefined |-> t.undefined]
  BY DEF States, add_object_response, increment_references_count, R
<1>5. t \in States
  <2>1. t.refcount \in [Objects -> Nat]
    BY <1>0, <1>3, <1>4
  <2>2. t.undefined \in BOOLEAN
    BY <1>4
  <2>3. s.live \subseteq Objects /\ s.messages \in Stores /\ s.leaked \in Stores
    BY DEF States
  <2> QED  BY <1>1, <1>4, <2>1, <2>2, <2>3 DEF States
<1>6. ASSUME NEW p \in Objects
      PROVE  IF p \in t.live THEN t.refcount[p] = HoldersIn(t, p) + d[p]
             ELSE HoldersIn(t, p) = 0 /\ d[p] = 0
  <2>2. IF p \in s.live THEN s.refcount[p] = HoldersIn(s, p) + d[p]
        ELSE HoldersIn(s, p) = 0 /\ d[p] = 0
    BY DEF Counted
  <2>3. CASE p = o
    <3>1. /\ Cardinality(Having(s.messages, o)) \in Nat
          /\ Cardinality(Having(s.leaked, o)) \in Nat
          /\ Cardinality(Owed(s.responses, o)) \in Nat
      BY <1>0, HavingType, OwedType DEF Finite
    <3>2. HoldersIn(t, o) = HoldersIn(s, o) + Cardinality(C)
      BY <1>3, <1>4, <3>1 DEF HoldersIn
    <3>3. t.refcount[o] = s.refcount[o] + Cardinality(C)
      BY <1>0, <1>4
    <3>4. HoldersIn(s, o) \in Nat /\ d[o] \in Int
      BY HoldersType
    <3> QED  BY <1>3, <1>4, <2>2, <2>3, <3>2, <3>3, <3>4
  <2>4. CASE p # o
    <3>1. Owed(R, p) = Owed(s.responses, p)
      <4>1. \A c \in Clients : R[c][p] = s.responses[c][p]
        BY <1>2, <2>4
      <4> QED  BY <4>1 DEF Owed
    <3>2. HoldersIn(t, p) = HoldersIn(s, p)
      BY <1>4, <3>1 DEF HoldersIn
    <3>3. t.refcount[p] = s.refcount[p]
      BY <1>0, <1>4, <2>4
    <3> QED  BY <1>4, <2>2, <3>2, <3>3
  <2> QED  BY <2>3, <2>4
<1>7. t.undefined = FALSE
  BY <1>0, <1>4
<1>8. \A q \in Queues : t.messages[q] \cap t.leaked[q] = {}
  BY <1>4 DEF Counted
<1> QED
  BY <1>4, <1>5, <1>6, <1>7, <1>8 DEF Counted

(* One more reference to a payload that is there.                          *)
LEMMA IncrementCounted ==
    ASSUME Finite, NEW s \in States, NEW o \in Objects,
           NEW d \in [Objects -> Int], NEW e \in [Objects -> Int],
           Counted(s, d), o \in s.live, e = Up1(d, o),
           NEW t, t = increment_references_count(s, o, 1)
    PROVE  /\ t \in States /\ Counted(t, e) /\ t.live = s.live
           /\ t.messages = s.messages /\ t.leaked = s.leaked
           /\ t.responses = s.responses
<1>0. s.refcount \in [Objects -> Nat] /\ s.undefined = FALSE
  BY DEF States, Counted
<1>1. /\ t.messages = s.messages /\ t.leaked = s.leaked /\ t.live = s.live
      /\ t.responses = s.responses
      /\ t.refcount = [s.refcount EXCEPT ![o] = @ + 1]
      /\ t.undefined = (s.undefined \/ (1 > 0 /\ o \notin s.live))
      /\ t = [live |-> t.live, refcount |-> t.refcount,
              messages |-> t.messages, leaked |-> t.leaked,
              responses |-> t.responses, undefined |-> t.undefined]
  BY DEF States, increment_references_count
<1>3. t.undefined = FALSE
  BY <1>0, <1>1
<1>4. t \in States
  <2>1. t.refcount \in [Objects -> Nat]
    BY <1>0, <1>1
  <2> QED  BY <1>1, <1>3, <2>1 DEF States
<1>2. ASSUME NEW p \in Objects
      PROVE  IF p \in t.live THEN t.refcount[p] = HoldersIn(t, p) + e[p]
             ELSE HoldersIn(t, p) = 0 /\ e[p] = 0
  <2>1. HoldersIn(t, p) = HoldersIn(s, p) /\ HoldersIn(s, p) \in Nat
    BY <1>1, HoldersType DEF HoldersIn
  <2>2. IF p \in s.live THEN s.refcount[p] = HoldersIn(s, p) + d[p]
        ELSE HoldersIn(s, p) = 0 /\ d[p] = 0
    BY DEF Counted
  <2>3. /\ t.refcount[p] = IF p = o THEN s.refcount[p] + 1 ELSE s.refcount[p]
        /\ e[p] = IF p = o THEN d[p] + 1 ELSE d[p]
        /\ d[p] \in Int /\ s.refcount[p] \in Nat
    BY <1>0, <1>1 DEF Up1
  <2> QED  BY <1>1, <2>1, <2>2, <2>3
<1> QED
  BY <1>1, <1>2, <1>3, <1>4 DEF Counted

(* The holders of o that are gone are in the difference e. *)
Balanced(s, t, d, e, o) ==
    /\ HoldersIn(t, o) + e[o] = HoldersIn(s, o) + d[o]
    /\ o \notin s.live => HoldersIn(t, o) = HoldersIn(s, o)

(* What it is for the counts that only the holders of a payload change.    *)
LEMMA HoldersChange ==
    ASSUME Finite, NEW s \in States, NEW t \in States,
           NEW d \in [Objects -> Int], NEW e \in [Objects -> Int],
           Counted(s, d), t.live = s.live, t.refcount = s.refcount,
           t.undefined = s.undefined,
           \A q \in Queues : t.messages[q] \cap t.leaked[q] = {},
           \A o \in Objects : Balanced(s, t, d, e, o)
    PROVE  Counted(t, e)
<1>1. ASSUME NEW o \in Objects
      PROVE  IF o \in t.live THEN t.refcount[o] = HoldersIn(t, o) + e[o]
             ELSE HoldersIn(t, o) = 0 /\ e[o] = 0
  <2>1. HoldersIn(t, o) \in Nat /\ HoldersIn(s, o) \in Nat
    BY HoldersType
  <2>2. IF o \in s.live THEN s.refcount[o] = HoldersIn(s, o) + d[o]
        ELSE HoldersIn(s, o) = 0 /\ d[o] = 0
    BY DEF Counted
  <2>3. /\ HoldersIn(t, o) + e[o] = HoldersIn(s, o) + d[o]
        /\ o \notin s.live => HoldersIn(t, o) = HoldersIn(s, o)
        /\ d[o] \in Int /\ e[o] \in Int
    BY DEF Balanced
  <2>4. CASE o \in s.live
    BY <2>1, <2>2, <2>3, <2>4
  <2>5. CASE o \notin s.live
    BY <2>1, <2>2, <2>3, <2>5
  <2> QED  BY <2>4, <2>5
<1> QED
  BY <1>1 DEF Counted

(* Messages that are taken out of a queue leave their references behind.   *)
LEMMA TakeCounted ==
    ASSUME Finite, NEW s \in States, NEW q \in Queues, NEW D \in SUBSET Objects,
           NEW d \in [Objects -> Int], NEW e \in [Objects -> Int],
           Counted(s, d), D \subseteq s.messages[q],
           e = Raised(d, Once(D)),
           NEW t, t = Taken(s, q, D)
    PROVE  /\ t \in States /\ Counted(t, e)
           /\ t.live = s.live /\ t.leaked = s.leaked
           /\ t.responses = s.responses
           /\ t.messages[q] = s.messages[q] \ D
           /\ Elsewhere(s, t, q)
<1>0. s.messages \in Stores
  BY DEF States
<1>e. \A o \in Objects : e[o] = d[o] + (IF o \in D THEN 1 ELSE 0)
  BY DEF Raised, Once
<1>1. /\ t.live = s.live /\ t.leaked = s.leaked /\ t.refcount = s.refcount
      /\ t.responses = s.responses /\ t.undefined = s.undefined
      /\ t.messages = [s.messages EXCEPT ![q] = @ \ D]
      /\ t = [live |-> t.live, refcount |-> t.refcount,
              messages |-> t.messages, leaked |-> t.leaked,
              responses |-> t.responses, undefined |-> t.undefined]
  BY DEF States, Taken
<1>2. t.messages \in Stores
  BY <1>0, <1>1 DEF Stores
<1>3. t \in States
  BY <1>1, <1>2 DEF States
<1>4. \A r \in Queues : t.messages[r] = IF r = q THEN s.messages[r] \ D
                                        ELSE s.messages[r]
  BY <1>0, <1>1 DEF Stores
<1>5. ASSUME NEW o \in Objects
      PROVE  Balanced(s, t, d, e, o)
  <2>0. /\ Cardinality(Having(s.messages, o)) \in Nat
        /\ Cardinality(Having(t.messages, o)) \in Nat
        /\ Cardinality(Having(s.leaked, o)) \in Nat
        /\ Cardinality(Owed(s.responses, o)) \in Nat
    <3>1. s.responses \in Unsent
      BY DEF States
    <3> QED  BY <3>1, HavingType, OwedType DEF Finite
  <2>1. CASE o \in D
    <3>1. Cardinality(Having(s.messages, o)) =
            Cardinality(Having(t.messages, o)) + 1
      <4>0. t.messages[q] = s.messages[q] \ D
        BY <1>4
      <4>1. o \in s.messages[q] /\ o \notin t.messages[q]
        BY <2>1, <4>0
      <4>2. \A r \in Queues \ {q} : o \in s.messages[r] <=> o \in t.messages[r]
        BY <1>4
      <4>3. IsFiniteSet(Queues) /\ Gained(t.messages, s.messages, o, q)
        BY <4>1, <4>2 DEF Finite, Gained
      <4> QED  BY <4>3, HavingMore
    <3>2. HoldersIn(s, o) = HoldersIn(t, o) + 1
      BY <1>1, <2>0, <3>1 DEF HoldersIn
    <3>3. HoldersIn(s, o) \in Nat /\ HoldersIn(t, o) \in Nat
      BY <1>3, HoldersType
    <3>4. o \in s.live
      BY <3>2, <3>3 DEF Counted
    <3>5. e[o] = d[o] + 1 /\ d[o] \in Int
      BY <2>1, <1>e
    <3> QED  BY <3>2, <3>3, <3>4, <3>5 DEF Balanced
  <2>2. CASE o \notin D
    <3>1. Having(t.messages, o) = Having(s.messages, o)
      BY <1>4, <2>2 DEF Having
    <3>2. HoldersIn(s, o) = HoldersIn(t, o)
      BY <1>1, <3>1 DEF HoldersIn
    <3>3. e[o] = d[o]
      BY <2>2, <1>e
    <3> QED  BY <3>2, <3>3 DEF Balanced
  <2> QED  BY <2>1, <2>2
<1>6. \A r \in Queues : t.messages[r] \cap t.leaked[r] = {}
  BY <1>1, <1>4 DEF Counted
<1>7. Counted(t, e)
  BY <1>1, <1>3, <1>5, <1>6, HoldersChange
<1>8. t.messages[q] = s.messages[q] \ D /\ Elsewhere(s, t, q)
  BY <1>1, <1>4 DEF Elsewhere
<1> QED
  BY <1>1, <1>3, <1>7, <1>8

(* A message that is stored in a queue, or lost there, refers to its       *)
(* payload.                                                                *)
LEMMA StoreCounted ==
    ASSUME Finite, NEW s \in States, NEW q \in Queues, NEW o \in Objects,
           NEW d \in [Objects -> Int], NEW e \in [Objects -> Int],
           Counted(s, d), o \in s.live,
           o \notin s.messages[q], o \notin s.leaked[q],
           e = Down1(d, o),
           NEW t, t = Stored(s, q, o) \/ t = Lost(s, q, o)
    PROVE  /\ t \in States /\ Counted(t, e)
           /\ t.live = s.live /\ t.responses = s.responses
           /\ Elsewhere(s, t, q)
<1>0. /\ s.messages \in Stores /\ s.leaked \in Stores
      /\ s.responses \in Unsent
  BY DEF States
<1>1. /\ t.live = s.live /\ t.refcount = s.refcount
      /\ t.responses = s.responses /\ t.undefined = s.undefined
      /\ \/ /\ t.messages = [s.messages EXCEPT ![q] = @ \cup {o}]
            /\ t.leaked = s.leaked
         \/ /\ t.messages = s.messages
            /\ t.leaked = [s.leaked EXCEPT ![q] = @ \cup {o}]
      /\ t = [live |-> t.live, refcount |-> t.refcount,
              messages |-> t.messages, leaked |-> t.leaked,
              responses |-> t.responses, undefined |-> t.undefined]
  BY DEF States, Stored, Lost
<1>2. t.messages \in Stores /\ t.leaked \in Stores
  BY <1>0, <1>1 DEF Stores
<1>3. t \in States
  BY <1>1, <1>2 DEF States
<1>4. \/ /\ \A r \in Queues : t.messages[r] =
              IF r = q THEN s.messages[r] \cup {o} ELSE s.messages[r]
         /\ t.leaked = s.leaked
      \/ /\ t.messages = s.messages
         /\ \A r \in Queues : t.leaked[r] =
              IF r = q THEN s.leaked[r] \cup {o} ELSE s.leaked[r]
  BY <1>0, <1>1 DEF Stores
<1>5. ASSUME NEW p \in Objects
      PROVE  Balanced(s, t, d, e, p)
  <2>0. /\ Cardinality(Having(s.messages, p)) \in Nat
        /\ Cardinality(Having(t.messages, p)) \in Nat
        /\ Cardinality(Having(s.leaked, p)) \in Nat
        /\ Cardinality(Having(t.leaked, p)) \in Nat
        /\ Cardinality(Owed(s.responses, p)) \in Nat
    BY <1>0, HavingType, OwedType DEF Finite
  <2>1. CASE p = o
    <3>1. \/ Gained(s.messages, t.messages, o, q) /\ t.leaked = s.leaked
          \/ t.messages = s.messages /\ Gained(s.leaked, t.leaked, o, q)
      BY <1>4 DEF Gained
    <3>2. \/ /\ t.leaked = s.leaked
             /\ Cardinality(Having(t.messages, o)) =
                Cardinality(Having(s.messages, o)) + 1
          \/ /\ t.messages = s.messages
             /\ Cardinality(Having(t.leaked, o)) =
                Cardinality(Having(s.leaked, o)) + 1
      BY <3>1, HavingMore DEF Finite
    <3>3. HoldersIn(t, o) = HoldersIn(s, o) + 1
      BY <1>1, <2>0, <2>1, <3>2 DEF HoldersIn
    <3>4. HoldersIn(s, o) \in Nat /\ HoldersIn(t, o) \in Nat
      BY <1>3, HoldersType
    <3>5. e[o] = d[o] - 1 /\ d[o] \in Int
      BY DEF Down1
    <3> QED  BY <2>1, <3>3, <3>4, <3>5 DEF Balanced
  <2>2. CASE p # o
    <3>0. \A r \in Queues :
            /\ p \in t.messages[r] <=> p \in s.messages[r]
            /\ p \in t.leaked[r] <=> p \in s.leaked[r]
      <4> TAKE r \in Queues
      <4>1. \/ t.messages[r] = s.messages[r] \cup {o}
            \/ t.messages[r] = s.messages[r]
        BY <1>4
      <4>2. \/ t.leaked[r] = s.leaked[r] \cup {o}
            \/ t.leaked[r] = s.leaked[r]
        BY <1>4
      <4>3. p \in t.messages[r] <=> p \in s.messages[r]
        BY <2>2, <4>1
      <4>4. p \in t.leaked[r] <=> p \in s.leaked[r]
        BY <2>2, <4>2
      <4> QED  BY <4>3, <4>4
    <3>1. /\ Having(t.messages, p) = Having(s.messages, p)
          /\ Having(t.leaked, p) = Having(s.leaked, p)
      BY <3>0 DEF Having
    <3>2. HoldersIn(s, p) = HoldersIn(t, p)
      BY <1>1, <3>1 DEF HoldersIn
    <3>3. e[p] = d[p]
      BY <2>2 DEF Down1
    <3> QED  BY <3>2, <3>3 DEF Balanced
  <2> QED  BY <2>1, <2>2
<1>6. \A r \in Queues : t.messages[r] \cap t.leaked[r] = {}
  <2>1. \A r \in Queues : s.messages[r] \cap s.leaked[r] = {}
    BY DEF Counted
  <2> QED  BY <1>4, <2>1
<1>7. Counted(t, e)
  BY <1>1, <1>3, <1>5, <1>6, HoldersChange
<1>8. Elsewhere(s, t, q)
  BY <1>4 DEF Elsewhere
<1> QED
  BY <1>1, <1>3, <1>7, <1>8

(* Responses of a client that are gone leave their references behind.      *)
LEMMA SentCounted ==
    ASSUME Finite, NEW s \in States, NEW c \in Clients, NEW o \in Objects,
           NEW d \in [Objects -> Int], NEW e \in [Objects -> Int],
           Counted(s, d), s.responses[c][o] > 0,
           e = Up1(d, o),
           NEW t, t = [s EXCEPT !.responses[c][o] = @ - 1]
    PROVE  t \in States /\ Counted(t, e)
<1>0. /\ s.responses \in Unsent /\ s.messages \in Stores
      /\ s.leaked \in Stores
  BY DEF States
<1>1. /\ t.live = s.live /\ t.refcount = s.refcount
      /\ t.messages = s.messages /\ t.leaked = s.leaked
      /\ t.undefined = s.undefined
      /\ t.responses = [s.responses EXCEPT ![c][o] = @ - 1]
      /\ t = [live |-> t.live, refcount |-> t.refcount,
              messages |-> t.messages, leaked |-> t.leaked,
              responses |-> t.responses, undefined |-> t.undefined]
  BY DEF States
<1>2. t.responses \in Unsent
  BY <1>0, <1>1 DEF Unsent
<1>3. t \in States
  BY <1>1, <1>2 DEF States
<1>4. \A a \in Clients, p \in Objects :
        s.responses[a][p] = IF a \in {c} /\ p = o THEN t.responses[a][p] + 1
                            ELSE t.responses[a][p]
  BY <1>0, <1>1 DEF Unsent
<1>5. ASSUME NEW p \in Objects
      PROVE  Balanced(s, t, d, e, p)
  <2>0. /\ Cardinality(Having(s.messages, p)) \in Nat
        /\ Cardinality(Having(s.leaked, p)) \in Nat
        /\ Cardinality(Owed(s.responses, p)) \in Nat
        /\ Cardinality(Owed(t.responses, p)) \in Nat
    BY <1>0, <1>2, HavingType, OwedType DEF Finite
  <2>1. CASE p = o
    <3>0. PICK C \in SUBSET Clients : C = {c}
      OBVIOUS
    <3>1. OneMore(t.responses, s.responses, o, C)
      BY <1>4, <3>0 DEF OneMore
    <3>2. Cardinality(Owed(s.responses, o)) =
            Cardinality(Owed(t.responses, o)) + Cardinality(C)
      BY <1>0, <1>2, <3>1, OwedMore DEF Finite
    <3>3. Cardinality(C) = 1
      BY <3>0, FS_Singleton
    <3>4. HoldersIn(s, o) = HoldersIn(t, o) + 1
      BY <1>1, <2>0, <2>1, <3>2, <3>3 DEF HoldersIn
    <3>5. HoldersIn(s, o) \in Nat /\ HoldersIn(t, o) \in Nat
      BY <1>3, HoldersType
    <3>6. o \in s.live
      BY <3>4, <3>5 DEF Counted
    <3>7. e[o] = d[o] + 1 /\ d[o] \in Int
      BY DEF Up1
    <3> QED  BY <2>1, <3>4, <3>5, <3>6, <3>7 DEF Balanced
  <2>2. CASE p # o
    <3>1. Owed(t.responses, p) = Owed(s.responses, p)
      <4>1. \A a \in Clients : t.responses[a][p] = s.responses[a][p]
        BY <1>4, <2>2
      <4> QED  BY <4>1 DEF Owed
    <3>2. HoldersIn(s, p) = HoldersIn(t, p)
      BY <1>1, <3>1 DEF HoldersIn
    <3>3. e[p] = d[p]
      BY <2>2 DEF Up1
    <3> QED  BY <3>2, <3>3 DEF Balanced
  <2> QED  BY <2>1, <2>2
<1>6. \A r \in Queues : t.messages[r] \cap t.leaked[r] = {}
  BY <1>1 DEF Counted
<1> QED
  BY <1>1, <1>3, <1>5, <1>6, HoldersChange

(* The responses of a client are gone: each is a reference that nobody     *)
(* holds.                                                                  *)
LEMMA FreedCounted ==
    ASSUME Finite, NEW s \in States, NEW c \in Clients,
           NEW d \in [Objects -> Int], NEW e \in [Objects -> Int],
           Counted(s, d),
           e = Raised(d, s.responses[c]),
           NEW t, t = [s EXCEPT !.responses[c] = [o \in Objects |-> 0]]
    PROVE  t \in States /\ Counted(t, e)
<1>0. /\ s.responses \in Unsent /\ s.messages \in Stores
      /\ s.leaked \in Stores
  BY DEF States
<1>1. /\ t.live = s.live /\ t.refcount = s.refcount
      /\ t.messages = s.messages /\ t.leaked = s.leaked
      /\ t.undefined = s.undefined
      /\ t.responses = [s.responses EXCEPT ![c] = [o \in Objects |-> 0]]
      /\ t = [live |-> t.live, refcount |-> t.refcount,
              messages |-> t.messages, leaked |-> t.leaked,
              responses |-> t.responses, undefined |-> t.undefined]
  BY DEF States
<1>2. t.responses \in Unsent
  BY <1>0, <1>1 DEF Unsent
<1>3. t \in States
  BY <1>1, <1>2 DEF States
<1>5. ASSUME NEW p \in Objects
      PROVE  Balanced(s, t, d, e, p)
  <2>0. /\ Cardinality(Having(s.messages, p)) \in Nat
        /\ Cardinality(Having(s.leaked, p)) \in Nat
        /\ Cardinality(Owed(s.responses, p)) \in Nat
        /\ Cardinality(Owed(t.responses, p)) \in Nat
    BY <1>0, <1>2, HavingType, OwedType DEF Finite
  <2>1. /\ t.responses[c][p] = 0
        /\ \A a \in Clients \ {c} : t.responses[a][p] = s.responses[a][p]
    BY <1>0, <1>1 DEF Unsent
  <2>2. Cardinality(Owed(s.responses, p)) =
          Cardinality(Owed(t.responses, p)) + s.responses[c][p]
    BY <1>0, <1>2, <2>1, OwedNone DEF Finite
  <2>3. s.responses[c][p] \in Nat
    BY <1>0 DEF Unsent
  <2>4. HoldersIn(s, p) = HoldersIn(t, p) + s.responses[c][p]
    BY <1>1, <2>0, <2>2, <2>3 DEF HoldersIn
  <2>5. HoldersIn(s, p) \in Nat /\ HoldersIn(t, p) \in Nat
    BY <1>3, HoldersType
  <2>6. p \notin s.live => HoldersIn(s, p) = 0
    BY DEF Counted
  <2>7. e[p] = d[p] + s.responses[c][p] /\ d[p] \in Int
    BY DEF Raised
  <2> QED  BY <2>3, <2>4, <2>5, <2>6, <2>7 DEF Balanced
<1>6. \A r \in Queues : t.messages[r] \cap t.leaked[r] = {}
  BY <1>1 DEF Counted
<1> QED
  BY <1>1, <1>3, <1>5, <1>6, HoldersChange

(* The values of Once. *)
LEMMA OnceType ==
    ASSUME NEW D
    PROVE  /\ Once(D) \in [Objects -> Nat]
           /\ \A o \in Objects : Once(D)[o] = IF o \in D THEN 1 ELSE 0
BY DEF Once

(* The type of Raised. *)
LEMMA RaisedType ==
    ASSUME NEW d \in [Objects -> Nat], NEW n \in [Objects -> Nat]
    PROVE  Raised(d, n) \in [Objects -> Nat]
BY DEF Raised

(* The release of messages leaves the counts as they are.                  *)
LEMMA ReleaseCounted ==
    ASSUME Finite, NEW s \in States, NEW q \in Queues, NEW D \in SUBSET Objects,
           NEW d \in [Objects -> Nat], Counted(s, d), D \subseteq s.messages[q],
           NEW t, t = ReleaseMessages(s, q, D)
    PROVE  /\ t \in States /\ Counted(t, d)
           /\ t.messages[q] = s.messages[q] \ D /\ Elsewhere(s, t, q)
           /\ t.leaked = s.leaked /\ t.responses = s.responses
           /\ SameLive(s, t, Once(D))
<1>0. Raised(d, Once(D)) \in [Objects -> Nat]
  BY OnceType, RaisedType
<1>1. PICK e \in [Objects -> Int] : e = Raised(d, Once(D))
  <2>1. Raised(d, Once(D)) \in [Objects -> Int]
    BY <1>0
  <2> QED  BY <2>1
<1>2. PICK u : u = Taken(s, q, D)
  OBVIOUS
<1>3. d \in [Objects -> Int]
  OBVIOUS
<1>4. /\ u \in States /\ Counted(u, e)
      /\ u.live = s.live /\ u.leaked = s.leaked
      /\ u.responses = s.responses
      /\ u.messages[q] = s.messages[q] \ D
      /\ Elsewhere(s, u, q)
  BY <1>1, <1>2, <1>3, TakeCounted
<1>5. t = decrement_references_count(u, Once(D))
  BY <1>2 DEF ReleaseMessages, Taken
<1>6. Once(D) \in [Objects -> Nat]
  BY OnceType
<1>8. /\ t \in States /\ Counted(t, d)
      /\ t.messages = u.messages /\ t.leaked = u.leaked
      /\ t.responses = u.responses /\ SameLive(u, t, Once(D))
  BY <1>1, <1>4, <1>5, <1>6, DecrementCounted
<1> QED
  BY <1>4, <1>8 DEF Elsewhere, SameLive

(* What an outcome w of a push to q, whose messages are Q, can be.         *)
PossibleOutcome(w, Q) ==
    /\ w \in Outcome /\ w.drop \subseteq Q
    /\ w.refused => w.to = {}

(* The reference that is given up after subscribers got the message. *)
Affordable(w, d, o) == w.to = {} \/ d[o] >= 1

(* One push takes over one reference: the stored or lost message has it,   *)
(* or the subscribers have theirs and it is given up.  For the latter it   *)
(* has to be counted.                                                      *)
LEMMA PushCounted ==
    ASSUME Finite, NEW s \in States, NEW q \in Queues, NEW o \in Objects,
           NEW d \in [Objects -> Nat], NEW e \in [Objects -> Int],
           Counted(s, d), o \in s.live,
           o \notin s.messages[q], o \notin s.leaked[q],
           e = Down1(d, o),
           NEW w, PossibleOutcome(w, s.messages[q]),
           Affordable(w, d, o),
           NEW t, t = push_message_queue_t(s, q, o, w)
    PROVE  /\ t \in States /\ Counted(t, e)
           /\ w.to = {} => o \in t.live /\ t.responses = s.responses
           /\ Elsewhere(s, t, q)
<1>0. /\ w.drop \in SUBSET Objects /\ w.drop \subseteq s.messages[q]
      /\ w.to \in SUBSET Clients /\ w.refused \in BOOLEAN
      /\ w.refused => w.to = {}
  BY DEF PossibleOutcome, Outcome
<1>1. d \in [Objects -> Int]
  OBVIOUS
<1>2. CASE w.refused
  <2>1. t = Lost(s, q, o)
    BY <1>2 DEF push_message_queue_t, Lost
  <2>2. /\ t \in States /\ Counted(t, e)
        /\ t.live = s.live /\ t.responses = s.responses
        /\ Elsewhere(s, t, q)
    BY <1>1, <2>1, StoreCounted
  <2> QED  BY <2>2
<1>3. CASE ~w.refused /\ w.to # {}
  <2>1. PICK u : u = add_object_response(s, w.to, o)
    OBVIOUS
  <2>2. /\ u \in States /\ Counted(u, d)
        /\ u.messages = s.messages /\ u.leaked = s.leaked
    BY <1>0, <1>1, <2>1, ResponseCounted
  <2>3. t = decrement_references_count(u, Once({o}))
    BY <1>3, <2>1 DEF push_message_queue_t
  <2>4. PICK n \in [Objects -> Nat] :
          n = Once({o}) /\ \A p \in Objects : n[p] = IF p = o THEN 1 ELSE 0
    BY OnceType
  <2>5. e \in [Objects -> Nat] /\ d = Raised(e, n)
    <3>1. \A p \in Objects : e[p] = IF p = o THEN d[p] - 1 ELSE d[p]
      BY DEF Down1
    <3>2. d[o] >= 1
      BY <1>3 DEF Affordable
    <3>3. e \in [Objects -> Nat]
      BY <3>1, <3>2
    <3>4. ASSUME NEW p \in Objects PROVE Raised(e, n)[p] = d[p]
      <4>1. Raised(e, n)[p] = e[p] + n[p]
        BY DEF Raised
      <4>2. /\ n[p] = IF p = o THEN 1 ELSE 0
            /\ e[p] = IF p = o THEN d[p] - 1 ELSE d[p]
            /\ d[p] \in Nat
        BY <2>4, <3>1
      <4> QED  BY <4>1, <4>2
    <3>5. Raised(e, n) \in [Objects -> Nat]
      BY <3>3, RaisedType
    <3> QED  BY <3>3, <3>4, <3>5
  <2>6. t = decrement_references_count(u, n)
    BY <2>3, <2>4
  <2>7. /\ t \in States /\ Counted(t, e)
        /\ t.messages = u.messages /\ t.leaked = u.leaked
    BY <2>2, <2>5, <2>6, DecrementCounted
  <2> QED  BY <1>3, <2>2, <2>7 DEF Elsewhere
<1>4. CASE ~w.refused /\ w.to = {}
  <2>1. PICK u : u = ReleaseMessages(s, q, w.drop)
    OBVIOUS
  <2>2. /\ u \in States /\ Counted(u, d)
        /\ u.messages[q] = s.messages[q] \ w.drop /\ Elsewhere(s, u, q)
        /\ u.leaked = s.leaked /\ u.responses = s.responses
        /\ SameLive(s, u, Once(w.drop))
    BY <1>0, <2>1, ReleaseCounted
  <2>3. t = Stored(u, q, o)
    BY <1>4, <2>1 DEF push_message_queue_t, Stored
  <2>6. o \in u.live /\ o \notin u.messages[q] /\ o \notin u.leaked[q]
    <3>1. Once(w.drop)[o] = 0
      BY <1>0, OnceType
    <3> QED  BY <2>2, <3>1 DEF SameLive
  <2>7. /\ t \in States /\ Counted(t, e)
        /\ t.live = u.live /\ t.responses = u.responses
        /\ Elsewhere(u, t, q)
    BY <1>1, <2>2, <2>3, <2>6, StoreCounted
  <2> QED  BY <2>2, <2>6, <2>7 DEF Elsewhere
<1> QED
  BY <1>0, <1>2, <1>3, <1>4

(* The handlers stay within the states, also when a count is wrong.        *)
LEMMA PushType ==
    ASSUME Finite, NEW s \in States, NEW q \in Queues, NEW o \in Objects,
           NEW w \in Outcome
    PROVE  increment_references_count(push_message_queue_t(s, q, o, w), o, 1)
             \in States
<1>0. /\ w.drop \in SUBSET Objects /\ w.to \in SUBSET Clients
  BY DEF Outcome
<1>1. ASSUME NEW x \in States, NEW n \in Nat
      PROVE  increment_references_count(x, o, n) \in States
  <2>1. [x.refcount EXCEPT ![o] = @ + n] \in [Objects -> Nat]
    BY DEF States
  <2>2. (x.undefined \/ (n > 0 /\ o \notin x.live)) \in BOOLEAN
    BY DEF States
  <2> QED  BY <2>1, <2>2 DEF States, increment_references_count
<1>2. ASSUME NEW x \in States
      PROVE  Stored(x, q, o) \in States /\ Lost(x, q, o) \in States
  <2>1. [x.messages EXCEPT ![q] = @ \cup {o}] \in Stores
    BY DEF States, Stores
  <2>2. [x.leaked EXCEPT ![q] = @ \cup {o}] \in Stores
    BY DEF States, Stores
  <2> QED  BY <2>1, <2>2 DEF States, Stored, Lost
<1>3. ASSUME NEW x \in States
      PROVE  Taken(x, q, w.drop) \in States
  <2>1. [x.messages EXCEPT ![q] = @ \ w.drop] \in Stores
    BY DEF States, Stores
  <2> QED  BY <2>1 DEF States, Taken
<1>4. ASSUME NEW x \in States, NEW n \in [Objects -> Nat]
      PROVE  decrement_references_count(x, n) \in States
  BY DecrementFields
<1>5. CASE w.refused
  <2>1. push_message_queue_t(s, q, o, w) = Lost(s, q, o)
    BY <1>5 DEF push_message_queue_t, Lost
  <2> QED  BY <1>1, <1>2, <2>1
<1>6. CASE ~w.refused /\ w.to # {}
  <2>1. Cardinality(w.to) \in Nat
    BY <1>0, FS_Subset, FS_CardinalityType DEF Finite
  <2> DEFINE R == [c \in Clients |->
                     [s.responses[c] EXCEPT ![o] = IF c \in w.to THEN @ + 1
                                                   ELSE @]]
             u == [s EXCEPT !.responses = R]
  <2>2. R \in Unsent
    BY DEF States, Unsent
  <2>3. u \in States
    <3> HIDE DEF R
    <3> QED  BY <2>2 DEF States
  <2>4. add_object_response(s, w.to, o) =
          increment_references_count(u, o, Cardinality(w.to))
    BY DEF add_object_response
  <2> HIDE DEF u
  <2>5. add_object_response(s, w.to, o) \in States
    BY <1>1, <2>1, <2>3, <2>4
  <2>6. push_message_queue_t(s, q, o, w) =
          decrement_references_count(add_object_response(s, w.to, o),
                                     Once({o}))
    BY <1>6 DEF push_message_queue_t
  <2> QED  BY <1>1, <1>4, <2>5, <2>6, OnceType
<1>7. CASE ~w.refused /\ w.to = {}
  <2>1. push_message_queue_t(s, q, o, w) =
          Stored(decrement_references_count(Taken(s, q, w.drop),
                                            Once(w.drop)), q, o)
    BY <1>7 DEF push_message_queue_t, ReleaseMessages, Taken, Stored
  <2>2. decrement_references_count(Taken(s, q, w.drop), Once(w.drop))
          \in States
    BY <1>3, <1>4, OnceType
  <2> QED  BY <1>1, <1>2, <2>1, <2>2
<1> QED
  BY <1>5, <1>6, <1>7

(* The route's loop: what it has made of the state after each queue.       *)
LEMMA RouteLoop ==
    ASSUME Finite, NEW s \in States, NEW list \in Seq(Queues),
           NEW o \in Objects, NEW how \in [Elems(list) -> Outcome]
    PROVE  \E after :
             /\ push_message_route_t(s, list, o, how) = after[Len(list)]
             /\ after[0] = s
             /\ \A i \in 1 .. Len(list) :
                  after[i] = increment_references_count(
                               push_message_queue_t(after[i - 1], list[i], o,
                                                    how[list[i]]), o, 1)
<1> DEFINE n == Len(list)
           step(i, x) == increment_references_count(
                           push_message_queue_t(x, list[i], o, how[list[i]]),
                           o, 1)
           F == [p \in (1 .. n) \X States |-> step(p[1], p[2])]
<1>0. n \in Nat
  OBVIOUS
<1>1. ASSUME NEW i \in 1 .. n, NEW x \in States PROVE step(i, x) \in States
  <2>1. list[i] \in Queues /\ list[i] \in Elems(list)
    BY DEF Elems
  <2>2. how[list[i]] \in Outcome
    BY <2>1
  <2> QED  BY <2>1, <2>2, PushType
<1> HIDE DEF n, step
<1>2. F \in [(1 .. n) \X States -> States]
  BY <1>1
<1>3. \A i \in 1 .. n, x \in States : F[<<i, x>>] = step(i, x)
  OBVIOUS
<1> HIDE DEF F
<1>4. PICK g \in [0 .. n -> States] : Chain(g, n, s, F)
  BY <1>0, <1>2, RecursionExists
<1>5. /\ g[0] = s
      /\ \A i \in 1 .. n : g[i] = step(i, g[i - 1])
  <2>1. ASSUME NEW i \in 1 .. n PROVE g[i] = step(i, g[i - 1])
    <3>1. g[i - 1] \in States
      BY <1>0
    <3>2. g[i] = F[<<i, g[i - 1]>>]
      BY <1>4 DEF Chain
    <3> QED  BY <1>3, <3>1, <3>2
  <2> QED  BY <1>4, <2>1 DEF Chain
<1>6. g = [i \in 0 .. n |-> IF i = 0 THEN s ELSE step(i, g[i - 1])]
  BY <1>0, <1>4, <1>5
<1> DEFINE h == CHOOSE after : after =
                  [i \in 0 .. n |-> IF i = 0 THEN s ELSE step(i, after[i - 1])]
<1>7. h = [i \in 0 .. n |-> IF i = 0 THEN s ELSE step(i, h[i - 1])]
  BY <1>6
<1>8. push_message_route_t(s, list, o, how) = h[n]
  BY DEF push_message_route_t, n, step
<1> HIDE DEF h
<1>9. h[0] = s /\ \A i \in 1 .. n : h[i] = step(i, h[i - 1])
  BY <1>0, <1>7
<1> QED
  BY <1>8, <1>9 DEF n, step

(* A payload without holders is in no queue and in no response.            *)
LEMMA NoHolders ==
    ASSUME Finite, NEW s \in States, NEW o \in Objects, HoldersIn(s, o) = 0
    PROVE  /\ \A q \in Queues : o \notin s.messages[q] /\ o \notin s.leaked[q]
           /\ \A c \in Clients : s.responses[c][o] = 0
<1>0. s.responses \in Unsent
  BY DEF States
<1>1. /\ IsFiniteSet(Having(s.messages, o))
      /\ Cardinality(Having(s.messages, o)) \in Nat
  BY HavingType DEF Finite
<1>2. /\ IsFiniteSet(Having(s.leaked, o))
      /\ Cardinality(Having(s.leaked, o)) \in Nat
  BY HavingType DEF Finite
<1>3. /\ IsFiniteSet(Owed(s.responses, o))
      /\ Cardinality(Owed(s.responses, o)) \in Nat
  BY <1>0, OwedType DEF Finite
<1>4. /\ Cardinality(Having(s.messages, o)) = 0
      /\ Cardinality(Having(s.leaked, o)) = 0
      /\ Cardinality(Owed(s.responses, o)) = 0
  BY <1>1, <1>2, <1>3 DEF HoldersIn
<1>5. Having(s.messages, o) = {} /\ Having(s.leaked, o) = {}
  BY <1>1, <1>2, <1>4, FS_EmptySet
<1>6. Owed(s.responses, o) = {}
  BY <1>3, <1>4, FS_EmptySet
<1>7. ASSUME NEW c \in Clients PROVE s.responses[c][o] = 0
  <2>1. s.responses[c][o] \in Nat
    BY <1>0 DEF Unsent
  <2>2. SUFFICES ASSUME s.responses[c][o] # 0 PROVE FALSE
    OBVIOUS
  <2>3. 1 \in 1 .. s.responses[c][o]
    BY <2>1, <2>2
  <2>4. <<c, 1>> \in Owed(s.responses, o)
    BY <2>3 DEF Owed
  <2> QED  BY <2>4, <1>6
<1> QED
  BY <1>5, <1>7 DEF Having

(* No difference. *)
Zero == [o \in Objects |-> 0]

(* What the loop has done when the first i queues of the list have the     *)
(* message: the counts are right and the other queues are as they were.    *)
Reached(s, t, list, o, i) ==
    /\ t \in States /\ Counted(t, Zero) /\ o \in t.live
    /\ \A j \in i + 1 .. Len(list) :
         /\ t.messages[list[j]] = s.messages[list[j]]
         /\ t.leaked[list[j]] = s.leaked[list[j]]

(* One turn of the loop. *)
LEMMA RouteTurn ==
    ASSUME Finite, NEW s \in States, NEW list \in Seq(Queues),
           NoRepetition(list), NEW o \in Objects, NEW i \in 1 .. Len(list),
           NEW x, Reached(s, x, list, o, i - 1),
           o \notin s.messages[list[i]], o \notin s.leaked[list[i]],
           NEW w, PossibleOutcome(w, s.messages[list[i]]), w.to = {},
           NEW t, t = increment_references_count(
                         push_message_queue_t(x, list[i], o, w), o, 1)
    PROVE  Reached(s, t, list, o, i)
<1>0. PICK q \in Queues : q = list[i]
  OBVIOUS
<1>1. /\ x \in States /\ Counted(x, Zero) /\ o \in x.live
      /\ x.messages[q] = s.messages[q] /\ x.leaked[q] = s.leaked[q]
  BY <1>0 DEF Reached
<1>2. PICK u : u = push_message_queue_t(x, q, o, w)
  OBVIOUS
<1>3. Zero \in [Objects -> Nat] /\ Down1(Zero, o) \in [Objects -> Int]
  BY DEF Zero, Down1
<1>4. PossibleOutcome(w, x.messages[q])
  BY <1>0, <1>1
<1>5. o \notin x.messages[q] /\ o \notin x.leaked[q]
  BY <1>0, <1>1
<1>6. /\ u \in States /\ Counted(u, Down1(Zero, o)) /\ o \in u.live
      /\ Elsewhere(x, u, q)
  <2>1. PICK e \in [Objects -> Int] : e = Down1(Zero, o)
    BY <1>3
  <2>2. Affordable(w, Zero, o)
    BY DEF Affordable
  <2>3. /\ u \in States /\ Counted(u, e)
        /\ w.to = {} => o \in u.live /\ u.responses = x.responses
        /\ Elsewhere(x, u, q)
    <3>1. Zero \in [Objects -> Nat]
      BY <1>3
    <3>2. x \in States /\ Counted(x, Zero)
      BY <1>1
    <3>3. o \in x.live
      BY <1>1
    <3>4. o \notin x.messages[q]
      BY <1>5
    <3>5. o \notin x.leaked[q]
      BY <1>5
    <3>6. u \in States /\ Counted(u, e)
      BY <3>1, <3>2, <3>3, <3>4, <3>5, <1>2, <1>4, <2>1, <2>2,
         PushCounted
    <3>7. w.to = {} => o \in u.live /\ u.responses = x.responses
      BY <3>1, <3>2, <3>3, <3>4, <3>5, <1>2, <1>4, <2>1, <2>2,
         PushCounted
    <3>8. Elsewhere(x, u, q)
      BY <3>1, <3>2, <3>3, <3>4, <3>5, <1>2, <1>4, <2>1, <2>2,
         PushCounted
    <3> QED  BY <3>6, <3>7, <3>8
  <2> QED  BY <2>1, <2>3
<1>7. Up1(Down1(Zero, o), o) = Zero
  BY DEF Up1, Down1, Zero
<1>8. Zero \in [Objects -> Int]
  BY DEF Zero
<1>9. t = increment_references_count(u, o, 1)
  BY <1>0, <1>2
<1>10. /\ t \in States /\ Counted(t, Zero) /\ t.live = u.live
       /\ t.messages = u.messages /\ t.leaked = u.leaked
  BY <1>3, <1>6, <1>7, <1>8, <1>9, IncrementCounted
<1>11. ASSUME NEW j \in i + 1 .. Len(list)
       PROVE  /\ t.messages[list[j]] = s.messages[list[j]]
              /\ t.leaked[list[j]] = s.leaked[list[j]]
  <2>1. j \in (i - 1) + 1 .. Len(list) /\ j \in DOMAIN list /\ i \in DOMAIN list
        /\ i # j
    OBVIOUS
  <2>2. list[j] \in Queues \ {q}
    BY <1>0, <2>1 DEF NoRepetition
  <2>3. /\ x.messages[list[j]] = s.messages[list[j]]
        /\ x.leaked[list[j]] = s.leaked[list[j]]
    BY <2>1 DEF Reached
  <2>4. /\ u.messages[list[j]] = x.messages[list[j]]
        /\ u.leaked[list[j]] = x.leaked[list[j]]
    BY <1>6, <2>2 DEF Elsewhere
  <2> QED  BY <1>10, <2>3, <2>4
<1> QED
  BY <1>6, <1>10, <1>11 DEF Reached

(* A route to queues without subscribers, each of them once, counts one    *)
(* reference for each of them.                                             *)
LEMMA RouteCounted ==
    ASSUME Finite, NEW s \in States, NEW list \in Seq(Queues),
           NoRepetition(list), NEW o \in Objects, o \in s.live,
           Counted(s, Zero), NEW how \in [Elems(list) -> Outcome],
           \A q \in Elems(list) :
              /\ PossibleOutcome(how[q], s.messages[q]) /\ how[q].to = {}
              /\ o \notin s.messages[q] /\ o \notin s.leaked[q],
           NEW t, t = push_message_route_t(s, list, o, how)
    PROVE  t \in States /\ Counted(t, Zero)
<1>0. PICK n \in Nat : n = Len(list)
  OBVIOUS
<1>1. PICK after :
        /\ push_message_route_t(s, list, o, how) = after[Len(list)]
        /\ after[0] = s
        /\ \A i \in 1 .. Len(list) :
             after[i] = increment_references_count(
                          push_message_queue_t(after[i - 1], list[i], o,
                                               how[list[i]]), o, 1)
  BY RouteLoop
<1> DEFINE B == {i \in 0 .. n : ~ Reached(s, after[i], list, o, i)}
<1>2. B = {}
  <2> SUFFICES ASSUME B # {} PROVE FALSE
    OBVIOUS
  <2>1. PICK k \in B : \A j \in B : k <= j
    <3>1. B \subseteq Nat
      OBVIOUS
    <3> HIDE DEF B
    <3> QED  BY <3>1, LeastNatural
  <2>2. CASE k = 0
    <3>1. Reached(s, s, list, o, 0)
      BY DEF Reached
    <3> QED  BY <1>1, <2>2, <3>1
  <2>3. CASE k # 0
    <3>1. k \in 1 .. Len(list) /\ k - 1 \in 0 .. n /\ k - 1 \notin B
      BY <1>0, <2>1, <2>3
    <3>2. Reached(s, after[k - 1], list, o, k - 1)
      BY <3>1
    <3>3. list[k] \in Elems(list)
      BY <3>1 DEF Elems
    <3>4. PICK w : w = how[list[k]]
      OBVIOUS
    <3>5. /\ PossibleOutcome(w, s.messages[list[k]]) /\ w.to = {}
          /\ o \notin s.messages[list[k]] /\ o \notin s.leaked[list[k]]
      BY <3>3, <3>4
    <3>6. after[k] = increment_references_count(
                       push_message_queue_t(after[k - 1], list[k], o, w), o, 1)
      BY <1>1, <3>1, <3>4
    <3>7. Reached(s, after[k], list, o, k)
      BY <3>1, <3>2, <3>5, <3>6, RouteTurn
    <3> QED  BY <3>7
  <2> QED  BY <2>2, <2>3
<1>3. Reached(s, after[n], list, o, n)
  BY <1>2
<1> QED
  BY <1>0, <1>1, <1>3 DEF Reached

(* What the proofs assume: no client subscribes to a queue that is bound   *)
(* to the route.                                                           *)
RouteUnsubscribed ==
    /\ Finite /\ Bound \in Seq(Queues) /\ NoRepetition(Bound)
    /\ Elems(Bound) \cap Subscribable = {}

(* Between handlers every count is right.                                  *)
PayloadInv ==
    /\ undefined = FALSE
    /\ State \in States /\ Counted(State, Zero)
    /\ subscribed \in [Queues -> SUBSET Clients]
    /\ \A q \in Queues : subscribed[q] # {} => q \in Subscribable

(* The fields of State are the variables. *)
LEMMA StateFields ==
    /\ State.live = live /\ State.refcount = refcount
    /\ State.messages = messages /\ State.leaked = leaked
    /\ State.responses = responses /\ State.undefined = FALSE
BY DEF State

(* A handler that ends in a state with the right counts. *)
LEMMA BecomesCounted ==
    ASSUME NEW s \in States, Counted(s, Zero), Becomes(s)
    PROVE  undefined' = FALSE /\ State' \in States /\ Counted(State', Zero)
<1>1. s.undefined = FALSE
  BY DEF Counted
<1>2. undefined' = FALSE
  BY <1>1 DEF Becomes
<1>3. State' = s
  BY <1>1 DEF State, Becomes, States
<1> QED
  BY <1>2, <1>3

(* The values of Zero. *)
LEMMA ZeroFacts ==
    /\ Zero \in [Objects -> Nat] /\ Zero \in [Objects -> Int]
    /\ \A o \in Objects : Zero[o] = 0
BY DEF Zero

(* One reference more than holders. *)
LEMMA OneOff ==
    ASSUME NEW o \in Objects
    PROVE  \E d \in [Objects -> Nat] :
             /\ d \in [Objects -> Int] /\ d[o] = 1
             /\ d = SetTo(Zero, o, 1) /\ d = Up1(Zero, o)
             /\ d = Raised(Zero, Once({o})) /\ Down1(d, o) = Zero
<1> DEFINE d == [p \in Objects |-> IF p = o THEN 1 ELSE 0]
<1>1. d \in [Objects -> Nat] /\ d \in [Objects -> Int] /\ d[o] = 1
  OBVIOUS
<1>2. d = SetTo(Zero, o, 1) /\ d = Up1(Zero, o)
  BY DEF Zero, Up1, SetTo
<1>3. d = Raised(Zero, Once({o}))
  BY DEF Zero, Raised, Once
<1>4. Down1(d, o) = Zero
  <2>1. \A p \in Objects : d[p] = IF p = o THEN 1 ELSE 0
    OBVIOUS
  <2> HIDE DEF d
  <2>2. Down1(d, o) \in [Objects -> Int]
    BY <1>1 DEF Down1
  <2>3. \A p \in Objects : Down1(d, o)[p] = 0
    BY <1>1, <2>1 DEF Down1
  <2> QED  BY <2>2, <2>3 DEF Zero
<1> QED
  BY <1>1, <1>2, <1>3, <1>4

(* A payload that is held is allocated. *)
LEMMA HeldLive ==
    ASSUME Finite, NEW s \in States, Counted(s, Zero), NEW o \in Objects
    PROVE  /\ \A q \in Queues : o \in s.messages[q] \/ o \in s.leaked[q]
                                  => o \in s.live
           /\ \A c \in Clients : s.responses[c][o] > 0 => o \in s.live
<1>1. o \notin s.live => HoldersIn(s, o) = 0
  BY DEF Counted
<1> QED
  BY <1>1, NoHolders

(* What can happen to a message that is pushed. *)
LEMMA OutcomeFacts ==
    ASSUME NEW q \in Queues, NEW w \in Outcomes(q)
    PROVE  /\ PossibleOutcome(w, messages[q])
           /\ subscribed[q] = {} => w.to = {}
BY DEF Outcomes, PossibleOutcome

(* queue_push keeps the counts right. *)
LEMMA QueuePushCounted ==
    ASSUME Finite, PayloadInv, NEW q \in Queues, NEW o \in Objects,
           NEW w \in Outcomes(q), QueuePush(q, o, w)
    PROVE  undefined' = FALSE /\ State' \in States /\ Counted(State', Zero)
<1>0. State \in States /\ Counted(State, Zero) /\ o \notin State.live
  BY StateFields DEF PayloadInv, QueuePush
<1>1. PICK d \in [Objects -> Nat] :
        /\ d \in [Objects -> Int] /\ d[o] = 1 /\ d = SetTo(Zero, o, 1)
        /\ Down1(d, o) = Zero
  BY OneOff
<1>2. PICK s : s = create_dup_object(State, o, 1)
  OBVIOUS
<1>3. /\ s \in States /\ Counted(s, d) /\ s.live = State.live \cup {o}
      /\ s.messages = State.messages /\ s.leaked = State.leaked
  BY <1>0, <1>1, <1>2, ZeroFacts, CreateCounted
<1>4. HoldersIn(State, o) = 0
  BY <1>0 DEF Counted
<1>5. o \notin s.messages[q] /\ o \notin s.leaked[q] /\ o \in s.live
  BY <1>0, <1>3, <1>4, NoHolders
<1>6. PossibleOutcome(w, s.messages[q]) /\ Affordable(w, d, o)
  BY <1>1, <1>3, OutcomeFacts, StateFields DEF Affordable
<1>7. PICK t : t = push_message_queue_t(s, q, o, w)
  OBVIOUS
<1>8. t \in States /\ Counted(t, Zero)
  <2>1. s \in States /\ Counted(s, d)
    BY <1>3
  <2>2. Zero \in [Objects -> Int] /\ Zero = Down1(d, o)
    BY <1>1, ZeroFacts
  <2> QED  BY <1>5, <1>6, <1>7, <2>1, <2>2, PushCounted
<1>9. Becomes(t)
  BY <1>2, <1>7 DEF QueuePush
<1> QED
  BY <1>8, <1>9, BecomesCounted

(* route_push keeps the counts right, if nobody is subscribed to a queue   *)
(* of the route.                                                           *)
LEMMA RoutePushCounted ==
    ASSUME RouteUnsubscribed, PayloadInv, NEW o \in Objects,
           NEW list \in {Bound} \cup {<<q>> : q \in Elems(Bound)},
           NEW how \in [Elems(list) -> UNION {Outcomes(q) : q \in Queues}],
           RoutePush(list, o, how)
    PROVE  undefined' = FALSE /\ State' \in States /\ Counted(State', Zero)
<1>0. State \in States /\ Counted(State, Zero) /\ o \notin State.live
  BY StateFields DEF PayloadInv, RoutePush
<1>1. Finite
  BY DEF RouteUnsubscribed
<1>2. /\ list \in Seq(Queues) /\ NoRepetition(list)
      /\ Elems(list) \subseteq Elems(Bound) /\ Elems(list) \subseteq Queues
  <2>1. CASE list = Bound
    BY <2>1 DEF RouteUnsubscribed, Elems
  <2>2. CASE list # Bound
    <3>1. PICK q \in Elems(Bound) : list = <<q>>
      BY <2>2
    <3>2. q \in Queues
      BY DEF RouteUnsubscribed, Elems
    <3>3. Elems(list) = {q}
      BY <3>1 DEF Elems
    <3>4. list \in Seq(Queues) /\ NoRepetition(list)
      BY <3>1, <3>2 DEF NoRepetition
    <3> QED  BY <3>2, <3>3, <3>4
  <2> QED  BY <2>1, <2>2
<1>3. how \in [Elems(list) -> Outcome]
  <2>1. \A q \in Queues : Outcomes(q) \subseteq Outcome
    BY DEF Outcomes
  <2> QED  BY <2>1
<1>4. PICK s : s = create_dup_object(State, o, 0)
  OBVIOUS
<1>5. /\ s \in States /\ Counted(s, Zero) /\ s.live = State.live \cup {o}
      /\ s.messages = State.messages /\ s.leaked = State.leaked
  <2>1. Zero = SetTo(Zero, o, 0)
    BY DEF Zero, SetTo
  <2> QED  BY <1>0, <1>4, <2>1, ZeroFacts, CreateCounted
<1>6. HoldersIn(State, o) = 0
  BY <1>0 DEF Counted
<1>7. ASSUME NEW q \in Elems(list)
      PROVE  /\ PossibleOutcome(how[q], s.messages[q]) /\ how[q].to = {}
             /\ o \notin s.messages[q] /\ o \notin s.leaked[q]
  <2>1. q \in Queues /\ q \in Elems(Bound)
    BY <1>2
  <2>2. how[q] \in Outcomes(q)
    BY DEF RoutePush
  <2>3. subscribed[q] = {}
    BY <2>1 DEF RouteUnsubscribed, PayloadInv
  <2>4. PossibleOutcome(how[q], messages[q]) /\ how[q].to = {}
    BY <2>1, <2>2, <2>3, OutcomeFacts
  <2>5. o \notin State.messages[q] /\ o \notin State.leaked[q]
    BY <1>0, <1>1, <1>6, <2>1, NoHolders
  <2>6. s.messages = messages /\ s.leaked = leaked
    BY <1>5, StateFields
  <2> QED  BY <1>5, <2>4, <2>5, <2>6
<1>8. PICK t : t = push_message_route_t(s, list, o, how)
  OBVIOUS
<1>9. t \in States /\ Counted(t, Zero)
  BY <1>1, <1>2, <1>3, <1>5, <1>7, <1>8, RouteCounted
<1>10. Becomes(t)
  BY <1>4, <1>8 DEF RoutePush
<1> QED
  BY <1>9, <1>10, BecomesCounted

(* channel_publish keeps the counts right. *)
LEMMA PublishCounted ==
    ASSUME Finite, PayloadInv, NEW C \in SUBSET Clients, NEW o \in Objects,
           ChannelPublish(C, o)
    PROVE  undefined' = FALSE /\ State' \in States /\ Counted(State', Zero)
<1>0. State \in States /\ Counted(State, Zero) /\ o \notin State.live
  BY StateFields DEF PayloadInv, ChannelPublish
<1>1. PICK d \in [Objects -> Nat] :
        /\ d \in [Objects -> Int] /\ d = SetTo(Zero, o, 1)
        /\ d = Raised(Zero, Once({o}))
  BY OneOff
<1>2. PICK s : s = create_dup_object(State, o, 1)
  OBVIOUS
<1>3. s \in States /\ Counted(s, d) /\ o \in s.live
  BY <1>0, <1>1, <1>2, ZeroFacts, CreateCounted
<1>4. PICK u : u = add_object_response(s, C, o)
  OBVIOUS
<1>5. u \in States /\ Counted(u, d)
  BY <1>1, <1>3, <1>4, ResponseCounted
<1>6. PICK n \in [Objects -> Nat] : n = Once({o})
  BY OnceType
<1>7. PICK t : t = decrement_references_count(u, n)
  OBVIOUS
<1>8. t \in States /\ Counted(t, Zero)
  BY <1>1, <1>5, <1>6, <1>7, ZeroFacts, DecrementCounted
<1>9. Becomes(t)
  BY <1>2, <1>4, <1>6, <1>7 DEF ChannelPublish
<1> QED
  BY <1>8, <1>9, BecomesCounted

(* queue_pop, queue_purge and whatever drops messages keep the counts      *)
(* right.                                                                  *)
LEMMA TakeOutCounted ==
    ASSUME Finite, PayloadInv, NEW q \in Queues,
           \/ \E c \in Clients, o \in Objects : QueuePop(c, q, o)
           \/ \E D \in SUBSET messages[q] : Discard(q, D)
    PROVE  undefined' = FALSE /\ State' \in States /\ Counted(State', Zero)
<1>0. State \in States /\ Counted(State, Zero)
  BY DEF PayloadInv
<1>1. ASSUME NEW c \in Clients, NEW o \in Objects, QueuePop(c, q, o)
      PROVE  undefined' = FALSE /\ State' \in States /\ Counted(State', Zero)
  <2>1. o \in State.messages[q] /\ o \in State.live
    BY <1>0, <1>1, StateFields, HeldLive DEF QueuePop
  <2>2. PICK u : u = add_object_response(State, {c}, o)
    OBVIOUS
  <2>3. u \in States /\ Counted(u, Zero) /\ u.messages = State.messages
    <3>1. {c} \in SUBSET Clients
      OBVIOUS
    <3> QED  BY <1>0, <2>1, <2>2, <3>1, ZeroFacts, ResponseCounted
  <2>4. PICK t : t = ReleaseMessages(u, q, {o})
    OBVIOUS
  <2>5. t \in States /\ Counted(t, Zero)
    <3>1. {o} \in SUBSET Objects /\ {o} \subseteq u.messages[q]
      BY <2>1, <2>3
    <3> QED  BY <2>3, <2>4, <3>1, ZeroFacts, ReleaseCounted
  <2>6. Becomes(t)
    BY <1>1, <2>2, <2>4 DEF QueuePop
  <2> QED  BY <2>5, <2>6, BecomesCounted
<1>2. ASSUME NEW D \in SUBSET messages[q], Discard(q, D)
      PROVE  undefined' = FALSE /\ State' \in States /\ Counted(State', Zero)
  <2>1. D \subseteq State.messages[q] /\ D \in SUBSET Objects
    BY <1>0, StateFields DEF States, Stores
  <2>2. PICK t : t = ReleaseMessages(State, q, D)
    OBVIOUS
  <2>3. t \in States /\ Counted(t, Zero)
    BY <1>0, <2>1, <2>2, ZeroFacts, ReleaseCounted
  <2>4. Becomes(t)
    BY <1>2, <2>2 DEF Discard
  <2> QED  BY <2>3, <2>4, BecomesCounted
<1> QED
  BY <1>1, <1>2

(* queue_get keeps the counts right. *)
LEMMA GetCounted ==
    ASSUME Finite, PayloadInv, NEW c \in Clients, NEW q \in Queues,
           NEW o \in Objects, QueueGet(c, q, o)
    PROVE  undefined' = FALSE /\ State' \in States /\ Counted(State', Zero)
<1>0. State \in States /\ Counted(State, Zero)
  BY DEF PayloadInv
<1>1. o \in State.live
  BY <1>0, StateFields, HeldLive DEF QueueGet
<1>2. PICK u : u = add_object_response(State, {c}, o)
  OBVIOUS
<1>3. u \in States /\ Counted(u, Zero)
  <2>1. {c} \in SUBSET Clients
    OBVIOUS
  <2> QED  BY <1>0, <1>1, <1>2, <2>1, ZeroFacts, ResponseCounted
<1>4. Becomes(u)
  BY <1>2 DEF QueueGet
<1> QED
  BY <1>3, <1>4, BecomesCounted

(* A message that is lost while it waits for a confirm still holds its     *)
(* payload.                                                                *)
LEMMA ForgetCounted ==
    ASSUME Finite, PayloadInv, NEW q \in Queues, NEW o \in Objects,
           Forget(q, o)
    PROVE  undefined' = FALSE /\ State' \in States /\ Counted(State', Zero)
<1>0. State \in States /\ Counted(State, Zero)
  BY DEF PayloadInv
<1>1. o \in State.messages[q] /\ o \in State.live
  BY <1>0, StateFields, HeldLive DEF Forget
<1>2. PICK d \in [Objects -> Nat] :
        /\ d \in [Objects -> Int] /\ d = Raised(Zero, Once({o}))
        /\ Down1(d, o) = Zero
  BY OneOff
<1>3. PICK D \in SUBSET Objects : D = {o}
  OBVIOUS
<1>a. PICK u : u = Taken(State, q, D)
  OBVIOUS
<1>4. /\ u \in States /\ Counted(u, d) /\ u.live = State.live
      /\ u.leaked = State.leaked /\ u.messages[q] = State.messages[q] \ {o}
  <2>1. D \subseteq State.messages[q] /\ d = Raised(Zero, Once(D))
    BY <1>1, <1>2, <1>3
  <2>2. /\ u \in States /\ Counted(u, d) /\ u.live = State.live
        /\ u.leaked = State.leaked /\ u.messages[q] = State.messages[q] \ D
    <3>1. Zero \in [Objects -> Int] /\ d \in [Objects -> Int]
      BY <1>2, ZeroFacts
    <3>2. u \in States /\ Counted(u, d)
      BY <1>0, <1>a, <2>1, <3>1, TakeCounted
    <3>3. u.live = State.live /\ u.leaked = State.leaked
      BY <1>0, <1>a DEF States, Taken
    <3>4. u.messages[q] = State.messages[q] \ D
      BY <1>0, <1>a DEF States, Stores, Taken
    <3> QED  BY <3>2, <3>3, <3>4
  <2> QED  BY <1>3, <2>2
<1>5. o \in u.live /\ o \notin u.messages[q] /\ o \notin u.leaked[q]
  <2>1. State.messages[q] \cap State.leaked[q] = {}
    BY <1>0 DEF Counted
  <2> QED  BY <1>1, <1>4, <2>1
<1>6. PICK t : t = Lost(u, q, o)
  OBVIOUS
<1>7. t \in States /\ Counted(t, Zero)
  <2>1. u \in States /\ Counted(u, d)
    BY <1>4
  <2> QED  BY <1>2, <1>5, <1>6, <2>1, ZeroFacts, StoreCounted
<1>8. State' = t
  BY <1>3, <1>a, <1>6 DEF State, Forget, Taken, Lost
<1>9. undefined' = FALSE
  BY DEF Forget, PayloadInv
<1> QED
  BY <1>7, <1>8, <1>9

(* send_response keeps the counts right. *)
LEMMA SendCounted ==
    ASSUME Finite, PayloadInv, NEW c \in Clients, NEW o \in Objects,
           SendResponse(c, o)
    PROVE  undefined' = FALSE /\ State' \in States /\ Counted(State', Zero)
<1>0. State \in States /\ Counted(State, Zero)
  BY DEF PayloadInv
<1>1. State.responses[c][o] > 0
  BY StateFields DEF SendResponse
<1>2. PICK d \in [Objects -> Nat] :
        /\ d \in [Objects -> Int] /\ d = Up1(Zero, o)
        /\ d = Raised(Zero, Once({o}))
  BY OneOff
<1>3. PICK u : u = [State EXCEPT !.responses[c][o] = @ - 1]
  OBVIOUS
<1>4. u \in States /\ Counted(u, d)
  BY <1>0, <1>1, <1>2, <1>3, ZeroFacts, SentCounted
<1>5. PICK n \in [Objects -> Nat] : n = Once({o})
  BY OnceType
<1>6. PICK t : t = decrement_references_count(u, n)
  OBVIOUS
<1>7. t \in States /\ Counted(t, Zero)
  BY <1>2, <1>4, <1>5, <1>6, ZeroFacts, DecrementCounted
<1>8. Becomes(t)
  BY <1>3, <1>5, <1>6 DEF SendResponse
<1> QED
  BY <1>7, <1>8, BecomesCounted

(* free_client keeps the counts right. *)
LEMMA FreeCounted ==
    ASSUME Finite, PayloadInv, NEW c \in Clients, FreeClient(c)
    PROVE  undefined' = FALSE /\ State' \in States /\ Counted(State', Zero)
<1>0. State \in States /\ Counted(State, Zero)
  BY DEF PayloadInv
<1>1. PICK n \in [Objects -> Nat] : n = State.responses[c]
  BY <1>0 DEF States, Unsent
<1>2. PICK d \in [Objects -> Nat] : d = Raised(Zero, n)
  BY ZeroFacts, RaisedType
<1>3. d \in [Objects -> Int] /\ d = Raised(Zero, State.responses[c])
  BY <1>1, <1>2
<1>4. PICK u : u = [State EXCEPT !.responses[c] = [o \in Objects |-> 0]]
  OBVIOUS
<1>5. u \in States /\ Counted(u, d)
  BY <1>0, <1>3, <1>4, ZeroFacts, FreedCounted
<1>6. PICK t : t = decrement_references_count(u, n)
  OBVIOUS
<1>7. t \in States /\ Counted(t, Zero)
  BY <1>2, <1>5, <1>6, ZeroFacts, DecrementCounted
<1>8. Becomes(t)
  BY <1>1, <1>4, <1>6, StateFields DEF FreeClient
<1> QED
  BY <1>7, <1>8, BecomesCounted

(* No payload is allocated. *)
LEMMA PayloadInvInit == ASSUME Finite PROVE PayloadInit => PayloadInv
<1> SUFFICES ASSUME PayloadInit PROVE PayloadInv
  OBVIOUS
<1>1. State \in States
  BY DEF PayloadInit, State, States, Stores, Unsent
<1>2. ASSUME NEW o \in Objects
      PROVE  IF o \in State.live THEN State.refcount[o] = HoldersIn(State, o)
                                                          + Zero[o]
             ELSE HoldersIn(State, o) = 0 /\ Zero[o] = 0
  <2>1. Having(messages, o) = {} /\ Having(leaked, o) = {}
    BY DEF PayloadInit, Having
  <2>2. Owed(responses, o) = {}
    BY DEF PayloadInit, Owed
  <2>3. HoldersIn(State, o) = 0
    BY <2>1, <2>2, StateFields, FS_EmptySet DEF HoldersIn
  <2>4. o \notin State.live /\ Zero[o] = 0
    BY StateFields, ZeroFacts DEF PayloadInit
  <2> QED  BY <2>3, <2>4
<1>3. \A q \in Queues : State.messages[q] \cap State.leaked[q] = {}
  BY StateFields DEF PayloadInit
<1>4. Counted(State, Zero)
  BY <1>2, <1>3, StateFields DEF Counted
<1> QED
  BY <1>1, <1>4 DEF PayloadInit, PayloadInv

(* Every step keeps the counts right. *)
LEMMA PayloadInvNext ==
    ASSUME RouteUnsubscribed, PayloadInv, [PayloadNext]_payloadVars
    PROVE  PayloadInv'
<1>0. Finite
  BY DEF RouteUnsubscribed
<1> DEFINE Right == undefined' = FALSE /\ State' \in States
                     /\ Counted(State', Zero)
           SubInv == /\ subscribed \in [Queues -> SUBSET Clients]
                     /\ \A q \in Queues :
                          subscribed[q] # {} => q \in Subscribable
<1>1. ASSUME Right, SubInv' PROVE PayloadInv'
  BY <1>1 DEF PayloadInv, Counted, HoldersIn, Having, Owed, Zero, States,
              Stores, Unsent
<1>2. SubInv
  BY DEF PayloadInv
<1>3. UNCHANGED subscribed => SubInv'
  BY <1>2
<1>4. UNCHANGED <<live, refcount, messages, leaked, responses, undefined>>
        => Right
  BY DEF State, PayloadInv
<1> HIDE DEF Right, SubInv
<1>5. ASSUME NEW o \in Objects, NEW q \in Queues, NEW w \in Outcomes(q),
             QueuePush(q, o, w)
      PROVE  PayloadInv'
  BY <1>0, <1>1, <1>3, <1>5, QueuePushCounted DEF QueuePush, Right
<1>6. ASSUME NEW o \in Objects,
             NEW list \in {Bound} \cup {<<q>> : q \in Elems(Bound)},
             NEW how \in [Elems(list) -> UNION {Outcomes(q) : q \in Queues}],
             RoutePush(list, o, how)
      PROVE  PayloadInv'
  <2>1. Right
    BY <1>6, RoutePushCounted DEF Right
  <2>2. UNCHANGED subscribed
    BY <1>6 DEF RoutePush
  <2> QED  BY <1>1, <1>3, <2>1, <2>2
<1>7. ASSUME NEW o \in Objects, NEW C \in SUBSET Clients,
             ChannelPublish(C, o)
      PROVE  PayloadInv'
  BY <1>0, <1>1, <1>3, <1>7, PublishCounted DEF ChannelPublish, Right
<1>8. ASSUME NEW o \in Objects, NEW c \in Clients, SendResponse(c, o)
      PROVE  PayloadInv'
  BY <1>0, <1>1, <1>3, <1>8, SendCounted DEF SendResponse, Right
<1>9. ASSUME NEW o \in Objects, NEW c \in Clients, NEW q \in Queues,
             QueueGet(c, q, o)
      PROVE  PayloadInv'
  BY <1>0, <1>1, <1>3, <1>9, GetCounted DEF QueueGet, Right
<1>10. ASSUME NEW o \in Objects, NEW c \in Clients, NEW q \in Queues,
              QueuePop(c, q, o)
       PROVE  PayloadInv'
  BY <1>0, <1>1, <1>3, <1>10, TakeOutCounted DEF QueuePop, Right
<1>11. ASSUME NEW q \in Queues, NEW D \in SUBSET messages[q], Discard(q, D)
       PROVE  PayloadInv'
  BY <1>0, <1>1, <1>3, <1>11, TakeOutCounted DEF Discard, Right
<1>12. ASSUME NEW o \in Objects, NEW q \in Queues, Forget(q, o)
       PROVE  PayloadInv'
  BY <1>0, <1>1, <1>3, <1>12, ForgetCounted DEF Forget, Right
<1>13. ASSUME NEW c \in Clients, FreeClient(c) PROVE PayloadInv'
  <2>1. Right
    BY <1>0, <1>13, FreeCounted DEF Right
  <2>2. SubInv'
    BY <1>2, <1>13 DEF FreeClient, SubInv
  <2> QED  BY <1>1, <2>1, <2>2
<1>14. ASSUME NEW c \in Clients, NEW q \in Queues,
              Subscribe(c, q) \/ Unsubscribe(c, q)
       PROVE  PayloadInv'
  <2>1. Right
    BY <1>4, <1>14 DEF Subscribe, Unsubscribe
  <2>2. SubInv'
    BY <1>2, <1>14 DEF Subscribe, Unsubscribe, SubInv
  <2> QED  BY <1>1, <2>1, <2>2
<1>15. CASE UNCHANGED payloadVars
  BY <1>1, <1>3, <1>4, <1>15 DEF payloadVars
<1> QED
  BY <1>5, <1>6, <1>7, <1>8, <1>9, <1>10, <1>11, <1>12, <1>13, <1>14, <1>15
     DEF PayloadNext

(* Holders counts what HoldersIn counts. *)
LEMMA HoldersAre ==
    ASSUME NEW o
    PROVE  Holders(o) = HoldersIn(State, o)
BY StateFields DEF Holders, HoldersIn, Having, Owed

(* Every payload is counted exactly: RefcountExact, in every reachable     *)
(* state and for any number of clients, queues, payloads and responses, as *)
(* long as nobody subscribes to a queue that is bound to a route.          *)
THEOREM RefcountExactCorrect ==
    ASSUME Elems(Bound) \cap Subscribable = {}
    PROVE  PayloadSpec => []RefcountExact
<1>0. RouteUnsubscribed
  BY PayloadAssumption DEF RouteUnsubscribed, Finite
<1>1. Finite
  BY <1>0 DEF RouteUnsubscribed
<1>2. PayloadInv => RefcountExact
  <2> SUFFICES ASSUME PayloadInv PROVE RefcountExact
    OBVIOUS
  <2>1. live \subseteq Objects
    BY StateFields DEF PayloadInv, States
  <2>2. ASSUME NEW o \in Objects
        PROVE  /\ o \in live => refcount[o] = Holders(o)
               /\ o \notin live => Holders(o) = 0
    <3>1. /\ o \in live => refcount[o] = HoldersIn(State, o) + Zero[o]
          /\ o \notin live => HoldersIn(State, o) = 0
      BY StateFields DEF PayloadInv, Counted
    <3>2. HoldersIn(State, o) \in Nat
      BY <1>1, HoldersType DEF PayloadInv
    <3> QED  BY <3>1, <3>2, HoldersAre, ZeroFacts
  <2> QED  BY <2>1, <2>2 DEF RefcountExact
<1> QED
  BY <1>0, <1>1, <1>2, PayloadInvInit, PayloadInvNext, PTL DEF PayloadSpec

(* No handler accesses a payload that was released, and no message and no  *)
(* unsent response refers to one: PayloadAlive, under the same condition.  *)
THEOREM PayloadAliveCorrect ==
    ASSUME Elems(Bound) \cap Subscribable = {}
    PROVE  PayloadSpec => []PayloadAlive
<1>0. RouteUnsubscribed
  BY PayloadAssumption DEF RouteUnsubscribed, Finite
<1>1. Finite
  BY <1>0 DEF RouteUnsubscribed
<1>2. PayloadInv => PayloadAlive
  <2> SUFFICES ASSUME PayloadInv PROVE PayloadAlive
    OBVIOUS
  <2>1. State \in States /\ Counted(State, Zero)
    BY DEF PayloadInv
  <2>2. ASSUME NEW q \in Queues PROVE messages[q] \subseteq live
    <3>1. messages[q] \subseteq Objects
      BY <2>1, StateFields DEF States, Stores
    <3> QED  BY <1>1, <2>1, <3>1, HeldLive, StateFields
  <2>3. \A c \in Clients, o \in Objects : responses[c][o] > 0 => o \in live
    BY <1>1, <2>1, HeldLive, StateFields
  <2> QED  BY <2>2, <2>3 DEF PayloadAlive, PayloadInv
<1> QED
  BY <1>0, <1>1, <1>2, PayloadInvInit, PayloadInvNext, PTL DEF PayloadSpec
=============================================================================
