-------------------------- MODULE LinkedQueueProofs --------------------------
(***************************************************************************)
(* Proofs about LinkedQueue, for every value of its constants: the links   *)
(* stay whole, and the linked queue implements Deque.  The last part is    *)
(* about Storage, which writes the messages of a queue from its tail.      *)
(***************************************************************************)
EXTENDS LinkedQueue, Storage, ListProofs

QueueNode ==
    [value : Values, prev : Nodes \cup {NULL}, next : Nodes \cup {NULL}]

Heaps == UNION {[S -> QueueNode] : S \in SUBSET Nodes}

(* s lists the nodes of the heap h from the head hd to the tail tl, as     *)
(* their pointers link them.  The next pointer of the tail can be stale.   *)
Chained(h, hd, tl, l, s) ==
    /\ s \in [1 .. l -> DOMAIN h]
    /\ \A n \in DOMAIN h : \E i \in 1 .. l : s[i] = n
    /\ \A i, j \in 1 .. l : s[i] = s[j] => i = j
    /\ l > 0 => hd = s[1] /\ tl = s[l] /\ h[hd].prev = NULL
    /\ \A i \in 1 .. l - 1 :
         h[s[i]].next = s[i + 1] /\ h[s[i + 1]].prev = s[i]

(* Nothing is known of the links once released memory was accessed. *)
Inv ==
    /\ undefined \in BOOLEAN
    /\ ~ undefined =>
         /\ heap \in Heaps /\ len \in Nat
         /\ IsFiniteSet(Live) /\ len = Cardinality(Live)
         /\ \E s : Chained(heap, head, tail, len, s)

-----------------------------------------------------------------------------
(* The chains of next and of prev pointers of a heap.                      *)
NextChain(h, first, l) ==
    LET f[i \in 1 .. l] == IF i = 1 THEN first ELSE h[f[i - 1]].next
    IN  f

PrevChain(h, first, l) ==
    LET f[i \in 1 .. l] == IF i = 1 THEN first ELSE h[f[i - 1]].prev
    IN  f

(* f is a list of l nodes. *)
HasNodes(f, l) == f = [i \in 1 .. l |-> f[i]]

(* Two lists with the same first node, that go on in the same way from     *)
(* the same node, are the same.                                            *)
LEMMA OneChain ==
    ASSUME NEW l \in Nat, NEW f, NEW g,
           HasNodes(f, l), HasNodes(g, l),
           l > 0 => f[1] = g[1],
           \A i \in 1 .. l : i # 1 /\ f[i - 1] = g[i - 1] => f[i] = g[i]
    PROVE  f = g
<1> DEFINE Bad == {i \in 1 .. l : f[i] # g[i]}
<1>1. CASE Bad = {}
  <2>1. \A i \in 1 .. l : f[i] = g[i]
    BY <1>1
  <2>2. [i \in 1 .. l |-> f[i]] = [i \in 1 .. l |-> g[i]]
    BY <2>1
  <2> QED  BY <2>2 DEF HasNodes
<1>2. ASSUME Bad # {} PROVE FALSE
  <2>1. PICK k \in Bad : \A y \in Bad : k <= y
    <3> Bad \subseteq Nat
      OBVIOUS
    <3> HIDE DEF Bad
    <3> QED  BY <1>2, LeastNatural
  <2>2. k \in 1 .. l /\ f[k] # g[k] /\ k # 1
    BY <2>1
  <2>3. k - 1 \in 1 .. l /\ ~ (k <= k - 1)
    BY <2>2
  <2>4. k - 1 \notin Bad
    <3> HIDE DEF Bad
    <3> QED  BY <2>1, <2>3
  <2> QED  BY <2>2, <2>3, <2>4
<1> QED
  BY <1>1, <1>2

LEMMA NextChainIs ==
    ASSUME NEW h, NEW hd, NEW tl, NEW l \in Nat, NEW s,
           Chained(h, hd, tl, l, s)
    PROVE  NextChain(h, hd, l) = s
<1> DEFINE Is(f) ==
             f = [i \in 1 .. l |-> IF i = 1 THEN hd ELSE h[f[i - 1]].next]
           c == NextChain(h, hd, l)
<1>1. Is(s)
  BY DEF Chained
<1>2. Is(c)
  <2>1. c = CHOOSE f : Is(f)
    BY DEF NextChain
  <2> QED  BY <1>1, <2>1
<1> HIDE DEF c
<1>3. /\ HasNodes(s, l) /\ HasNodes(c, l)
      /\ l > 0 => s[1] = c[1]
  BY <1>1, <1>2 DEF HasNodes
<1>4. \A i \in 1 .. l : i # 1 /\ s[i - 1] = c[i - 1] => s[i] = c[i]
  BY <1>1, <1>2
<1> HIDE DEF Is
<1> QED
  BY <1>3, <1>4, OneChain DEF c

LEMMA PrevChainIs ==
    ASSUME NEW h, NEW hd, NEW tl, NEW l \in Nat, NEW s,
           Chained(h, hd, tl, l, s)
    PROVE  PrevChain(h, tl, l) = [i \in 1 .. l |-> s[l + 1 - i]]
<1> DEFINE Is(f) ==
             f = [i \in 1 .. l |-> IF i = 1 THEN tl ELSE h[f[i - 1]].prev]
           c == PrevChain(h, tl, l)
           r == [i \in 1 .. l |-> s[l + 1 - i]]
<1>1. \A i \in 1 .. l : r[i] = IF i = 1 THEN tl ELSE h[r[i - 1]].prev
  <2> SUFFICES ASSUME NEW i \in 1 .. l, i # 1
               PROVE  r[i] = h[r[i - 1]].prev
    BY DEF Chained
  <2>1. /\ l + 1 - i \in 1 .. l - 1 /\ i - 1 \in 1 .. l
        /\ l + 1 - (i - 1) = (l + 1 - i) + 1
    OBVIOUS
  <2>2. r[i] = s[l + 1 - i] /\ r[i - 1] = s[(l + 1 - i) + 1]
    BY <2>1
  <2> HIDE DEF r
  <2> QED  BY <2>1, <2>2 DEF Chained
<1>2. Is(r)
  BY <1>1
<1>3. Is(c)
  <2>1. c = CHOOSE f : Is(f)
    BY DEF PrevChain
  <2> QED  BY <1>2, <2>1
<1> HIDE DEF c
<1>4. /\ HasNodes(r, l) /\ HasNodes(c, l)
      /\ l > 0 => r[1] = c[1]
  <2> HIDE DEF r
  <2> QED  BY <1>2, <1>3 DEF HasNodes
<1>5. \A i \in 1 .. l : i # 1 /\ r[i - 1] = c[i - 1] => r[i] = c[i]
  <2> HIDE DEF r
  <2> QED  BY <1>2, <1>3
<1> HIDE DEF Is, r
<1>6. r = c
  BY <1>4, <1>5, OneChain
<1> QED
  BY <1>6 DEF c, r

-----------------------------------------------------------------------------
(* Heaps *)

LEMMA HeapFacts ==
    ASSUME NEW h
    PROVE  /\ h \in Heaps => /\ DOMAIN h \subseteq Nodes
                             /\ h = [n \in DOMAIN h |-> h[n]]
                             /\ \A n \in DOMAIN h : h[n] \in QueueNode
           /\ /\ DOMAIN h \subseteq Nodes /\ h = [n \in DOMAIN h |-> h[n]]
              /\ \A n \in DOMAIN h : h[n] \in QueueNode
              => h \in Heaps
<1>1. ASSUME h \in Heaps
      PROVE  /\ DOMAIN h \subseteq Nodes
             /\ h = [n \in DOMAIN h |-> h[n]]
             /\ \A n \in DOMAIN h : h[n] \in QueueNode
  <2>1. PICK S \in SUBSET Nodes : h \in [S -> QueueNode]
    BY <1>1 DEF Heaps
  <2> QED  BY <2>1
<1>2. ASSUME DOMAIN h \subseteq Nodes, h = [n \in DOMAIN h |-> h[n]],
             \A n \in DOMAIN h : h[n] \in QueueNode
      PROVE  h \in Heaps
  <2>1. h \in [DOMAIN h -> QueueNode]
    BY <1>2
  <2> QED  BY <1>2, <2>1 DEF Heaps
<1> QED
  BY <1>1, <1>2

(* A node is allocated: g is the heap h with the new node n. *)
Grown(g, h, n, x) ==
    /\ g \in Heaps /\ DOMAIN g = DOMAIN h \cup {n} /\ g[n] = x
    /\ \A m \in DOMAIN h : g[m] = h[m]

LEMMA AllocateFacts ==
    ASSUME NEW h \in Heaps, NEW n \in Nodes, n \notin DOMAIN h,
           NEW x \in QueueNode
    PROVE  Grown(Allocate(h, n, x), h, n, x)
<1> DEFINE g == Allocate(h, n, x)
<1>1. DOMAIN h \subseteq Nodes /\ \A m \in DOMAIN h : h[m] \in QueueNode
  BY HeapFacts
<1>2. /\ DOMAIN g = DOMAIN h \cup {n} /\ g[n] = x
      /\ \A m \in DOMAIN h : g[m] = h[m]
      /\ g = [m \in DOMAIN g |-> g[m]]
  BY DEF Allocate
<1> HIDE DEF g
<1>3. g \in Heaps
  BY <1>1, <1>2, HeapFacts
<1> QED
  BY <1>2, <1>3 DEF g, Grown

(* A pointer of a node is assigned. *)
LEMMA SetFacts ==
    ASSUME NEW h \in Heaps, NEW n, NEW p \in Nodes \cup {NULL}
    PROVE  /\ LET g == SetPrev(h, n, p)
              IN  /\ g \in Heaps /\ DOMAIN g = DOMAIN h
                  /\ \A m \in DOMAIN h :
                       /\ g[m].value = h[m].value /\ g[m].next = h[m].next
                       /\ g[m].prev = IF m = n THEN p ELSE h[m].prev
           /\ LET g == SetNext(h, n, p)
              IN  /\ g \in Heaps /\ DOMAIN g = DOMAIN h
                  /\ \A m \in DOMAIN h :
                       /\ g[m].value = h[m].value /\ g[m].prev = h[m].prev
                       /\ g[m].next = IF m = n THEN p ELSE h[m].next
<1> DEFINE f == SetPrev(h, n, p)
           g == SetNext(h, n, p)
<1>1. /\ DOMAIN h \subseteq Nodes /\ \A m \in DOMAIN h : h[m] \in QueueNode
      /\ h = [m \in DOMAIN h |-> h[m]]
  BY HeapFacts
<1>2. /\ DOMAIN f = DOMAIN h /\ f = [m \in DOMAIN f |-> f[m]]
      /\ \A m \in DOMAIN h :
           f[m] = IF m = n THEN [h[m] EXCEPT !.prev = p] ELSE h[m]
  BY <1>1 DEF SetPrev
<1>3. /\ DOMAIN g = DOMAIN h /\ g = [m \in DOMAIN g |-> g[m]]
      /\ \A m \in DOMAIN h :
           g[m] = IF m = n THEN [h[m] EXCEPT !.next = p] ELSE h[m]
  BY <1>1 DEF SetNext
<1> HIDE DEF f, g
<1>4. ASSUME NEW m \in DOMAIN h
      PROVE  /\ f[m] \in QueueNode
             /\ f[m].value = h[m].value /\ f[m].next = h[m].next
             /\ f[m].prev = IF m = n THEN p ELSE h[m].prev
             /\ g[m] \in QueueNode
             /\ g[m].value = h[m].value /\ g[m].prev = h[m].prev
             /\ g[m].next = IF m = n THEN p ELSE h[m].next
  <2>1. h[m] \in QueueNode
    BY <1>1
  <2>2. CASE m = n
    BY <1>2, <1>3, <2>1, <2>2 DEF QueueNode
  <2>3. CASE m # n
    BY <1>2, <1>3, <2>1, <2>3
  <2> QED  BY <2>2, <2>3
<1>5. f \in Heaps /\ g \in Heaps
  BY <1>1, <1>2, <1>3, <1>4, HeapFacts
<1> QED
  BY <1>2, <1>3, <1>4, <1>5 DEF f, g

(* Nodes are released. *)
LEMMA FreeFacts ==
    ASSUME NEW h \in Heaps, NEW S
    PROVE  LET g == Free(h, S)
           IN  /\ g \in Heaps /\ DOMAIN g = DOMAIN h \ S
               /\ \A m \in DOMAIN h \ S : g[m] = h[m]
<1> DEFINE g == Free(h, S)
<1>1. DOMAIN h \subseteq Nodes /\ \A m \in DOMAIN h : h[m] \in QueueNode
  BY HeapFacts
<1>2. /\ DOMAIN g = DOMAIN h \ S /\ g = [m \in DOMAIN g |-> g[m]]
      /\ \A m \in DOMAIN h \ S : g[m] = h[m]
  BY DEF Free
<1> HIDE DEF g
<1>3. g \in Heaps
  BY <1>1, <1>2, HeapFacts
<1> QED
  BY <1>2, <1>3 DEF g

-----------------------------------------------------------------------------
(* What is stored *)

(* The values of l nodes that are listed in s. *)
Vals(h, l, s) == [i \in 1 .. l |-> h[s[i]].value]

LEMMA ChainFacts ==
    ASSUME NEW h \in Heaps, NEW hd, NEW tl, NEW l \in Nat, NEW s,
           Chained(h, hd, tl, l, s)
    PROVE  /\ \A i \in 1 .. l : s[i] \in DOMAIN h /\ s[i] \in Nodes
           /\ l = 0 <=> DOMAIN h = {}
           /\ Vals(h, l, s) \in Seq(Values) /\ Len(Vals(h, l, s)) = l
<1>1. DOMAIN h \subseteq Nodes /\ \A n \in DOMAIN h : h[n] \in QueueNode
  BY HeapFacts
<1>2. \A i \in 1 .. l : s[i] \in DOMAIN h
  BY DEF Chained
<1>3. l = 0 <=> DOMAIN h = {}
  <2>1. l # 0 => 1 \in 1 .. l
    OBVIOUS
  <2>2. l = 0 => 1 .. l = {}
    OBVIOUS
  <2> QED  BY <1>2, <2>1, <2>2 DEF Chained
<1>4. \A i \in 1 .. l : h[s[i]].value \in Values
  BY <1>1, <1>2 DEF QueueNode
<1> QED
  BY <1>1, <1>2, <1>3, <1>4 DEF Vals

(* The values along a chain, alone.                                        *)
LEMMA ChainValues ==
    ASSUME NEW h \in Heaps, NEW hd, NEW tl, NEW l \in Nat, NEW s,
           Chained(h, hd, tl, l, s)
    PROVE  Vals(h, l, s) \in Seq(Values) /\ Len(Vals(h, l, s)) = l
  BY ChainFacts

(* Sequences are the same when they have the same members. *)
LEMMA SameSeq ==
    ASSUME NEW S, NEW a \in Seq(S), NEW b \in Seq(S), Len(a) = Len(b),
           \A i \in 1 .. Len(a) : a[i] = b[i]
    PROVE  a = b
OBVIOUS

(* The refinement mapping, seen through the list of the nodes. *)
ContentsOf(h, tl, l) ==
    [i \in 1 .. l |-> h[PrevChain(h, tl, l)[l + 1 - i]].value]

LEMMA ContentsIs ==
    ASSUME NEW h, NEW hd, NEW tl, NEW l \in Nat, NEW s,
           Chained(h, hd, tl, l, s)
    PROVE  ContentsOf(h, tl, l) = Vals(h, l, s)
<1>1. PrevChain(h, tl, l) = [i \in 1 .. l |-> s[l + 1 - i]]
  BY PrevChainIs
<1>2. \A i \in 1 .. l : l + 1 - i \in 1 .. l /\ l + 1 - (l + 1 - i) = i
  OBVIOUS
<1>3. \A i \in 1 .. l : PrevChain(h, tl, l)[l + 1 - i] = s[i]
  BY <1>1, <1>2
<1> QED
  BY <1>3 DEF Vals, ContentsOf

(* The heap h holds the values a, from the head hd to the tail tl.         *)
Holds(h, hd, tl, l, a) ==
    /\ h \in Heaps /\ l \in Nat
    /\ \E s : Chained(h, hd, tl, l, s) /\ a = Vals(h, l, s)

(* What is known before a step. *)
LEMMA Before ==
    ASSUME Inv, ~ undefined
    PROVE  /\ Holds(heap, head, tail, len, Contents)
           /\ Contents \in Seq(Values) /\ Len(Contents) = len /\ len \in Nat
           /\ IsFiniteSet(Live) /\ len = Cardinality(Live)
<1>1. PICK s : Chained(heap, head, tail, len, s)
  BY DEF Inv
<1>2. heap \in Heaps /\ len \in Nat
  BY DEF Inv
<1>3. Contents = Vals(heap, len, s)
  <2>1. Contents = ContentsOf(heap, tail, len)
    BY DEF Contents, ContentsOf, Backward, PrevChain
  <2> QED  BY <1>1, <1>2, <2>1, ContentsIs
<1>4. Vals(heap, len, s) \in Seq(Values) /\ Len(Vals(heap, len, s)) = len
  BY <1>1, <1>2, ChainFacts
<1> QED
  BY <1>1, <1>2, <1>3, <1>4 DEF Inv, Holds

(* What has to be shown after it. *)
LEMMA After ==
    ASSUME NEW a, Holds(heap', head', tail', len', a), undefined' = FALSE,
           IsFiniteSet(Live'), len' = Cardinality(Live')
    PROVE  Inv' /\ Contents' = a
<1>1. PICK s : Chained(heap', head', tail', len', s) /\ a = Vals(heap', len', s)
  BY DEF Holds
<1>2. heap' \in Heaps /\ len' \in Nat
  BY DEF Holds
<1>3. Contents' = ContentsOf(heap', tail', len')
  BY DEF Contents, ContentsOf, Backward, PrevChain
<1>4. Contents' = a
  BY <1>1, <1>2, <1>3, ContentsIs
<1> QED
  BY <1>1, <1>2, <1>4 DEF Inv

-----------------------------------------------------------------------------
(* Push *)

LEMMA NodeFacts ==
    ASSUME NEW v \in Values, NEW p \in Nodes \cup {NULL},
           NEW q \in Nodes \cup {NULL}
    PROVE  /\ Node(v, p, q) \in QueueNode
           /\ Node(v, p, q).value = v
           /\ Node(v, p, q).prev = p /\ Node(v, p, q).next = q
BY DEF Node, QueueNode

(* The heap h becomes the heap g, with the tail z, when v is pushed at the *)
(* head with the node n; then the next pointer of the tail is stale if it  *)
(* was before.                                                             *)
PushesHead(h, hd, tl, l, n, v, g, z) ==
    /\ g = IF l = 0 THEN Allocate(h, n, Node(v, NULL, NULL))
           ELSE Allocate(SetPrev(h, hd, n), n, Node(v, NULL, hd))
    /\ z = IF l = 0 THEN n ELSE tl
    /\ n \in Nodes \ DOMAIN h /\ v \in Values

HeadPushed(h, tl, l, n, g, z) ==
    /\ DOMAIN g = DOMAIN h \cup {n}
    /\ g[z].next = IF l = 0 THEN NULL ELSE h[tl].next

LEMMA PushHeadList ==
    ASSUME NEW h \in Heaps, NEW hd, NEW tl, NEW l \in Nat, NEW s,
           Chained(h, hd, tl, l, s),
           NEW n \in Nodes, n \notin DOMAIN h, NEW v \in Values,
           NEW g, NEW z, PushesHead(h, hd, tl, l, n, v, g, z)
    PROVE  /\ Holds(g, n, z, l + 1, <<v>> \o Vals(h, l, s))
           /\ HeadPushed(h, tl, l, n, g, z)
<1> DEFINE t == [i \in 1 .. l + 1 |-> IF i = 1 THEN n ELSE s[i - 1]]
           D == DOMAIN h
<1>1. /\ \A i \in 1 .. l : s[i] \in D /\ s[i] \in Nodes
      /\ l = 0 <=> D = {}
  BY ChainFacts
<1>2. l # 0 => hd \in D /\ hd \in Nodes /\ tl \in D /\ hd = s[1] /\ tl = s[l]
  <2>1. l # 0 => 1 \in 1 .. l /\ l \in 1 .. l /\ l > 0
    OBVIOUS
  <2> QED  BY <1>1, <2>1 DEF Chained
<1>3. /\ g \in Heaps /\ DOMAIN g = D \cup {n}
      /\ g[n].value = v /\ g[n].prev = NULL
      /\ g[n].next = IF l = 0 THEN NULL ELSE hd
      /\ \A m \in D : /\ g[m].value = h[m].value /\ g[m].next = h[m].next
                      /\ g[m].prev = IF m = hd THEN n ELSE h[m].prev
  <2>1. CASE l = 0
    <3>1. Node(v, NULL, NULL) \in QueueNode
      BY NodeFacts
    <3>2. g = Allocate(h, n, Node(v, NULL, NULL))
      BY <2>1 DEF PushesHead
    <3>3. Grown(g, h, n, Node(v, NULL, NULL))
      BY <3>1, <3>2, AllocateFacts
    <3>4. D = {}
      BY <1>1, <2>1
    <3>5. /\ g \in Heaps /\ DOMAIN g = D \cup {n}
          /\ g[n] = Node(v, NULL, NULL)
      BY <3>3 DEF Grown
    <3> HIDE DEF D
    <3> QED  BY <2>1, <3>4, <3>5, NodeFacts
  <2>2. CASE l # 0
    <3> DEFINE f == SetPrev(h, hd, n)
    <3>1. /\ f \in Heaps /\ DOMAIN f = D
          /\ \A m \in D :
               /\ f[m].value = h[m].value /\ f[m].next = h[m].next
               /\ f[m].prev = IF m = hd THEN n ELSE h[m].prev
      BY <1>2, <2>2, SetFacts
    <3>2. Node(v, NULL, hd) \in QueueNode
      BY <1>2, <2>2, NodeFacts
    <3>3. g = Allocate(f, n, Node(v, NULL, hd))
      BY <2>2 DEF PushesHead
    <3> HIDE DEF f
    <3>4. /\ g \in Heaps /\ DOMAIN g = D \cup {n}
          /\ g[n] = Node(v, NULL, hd) /\ \A m \in D : g[m] = f[m]
      <4>1. f \in Heaps /\ n \in Nodes /\ n \notin DOMAIN f
        BY <3>1
      <4>2. Grown(g, f, n, Node(v, NULL, hd))
        BY <3>2, <3>3, <4>1, AllocateFacts
      <4> QED  BY <3>1, <4>2 DEF Grown
    <3>5. /\ g[n].value = v /\ g[n].prev = NULL /\ g[n].next = hd
      BY <1>2, <2>2, <3>4, NodeFacts
    <3> HIDE DEF D
    <3> QED  BY <2>2, <3>1, <3>4, <3>5
  <2> QED  BY <2>1, <2>2
<1>4. /\ t[1] = n
      /\ \A i \in 1 .. l : i + 1 \in 1 .. l + 1 /\ t[i + 1] = s[i]
      /\ \A i \in 1 .. l + 1 :
           i = 1 \/ (i - 1 \in 1 .. l /\ t[i] = s[i - 1])
      /\ 1 \in 1 .. l + 1
  OBVIOUS
<1>5. Chained(g, n, z, l + 1, t)
  <2>1. t \in [1 .. l + 1 -> DOMAIN g]
    BY <1>1, <1>3
  <2> HIDE DEF t
  <2>2. ASSUME NEW m \in DOMAIN g PROVE \E i \in 1 .. l + 1 : t[i] = m
    <3>1. CASE m = n
      BY <3>1, <1>4
    <3>2. CASE m \in D
      <4>1. PICK i \in 1 .. l : s[i] = m
        BY <3>2 DEF Chained
      <4> QED  BY <4>1, <1>4
    <3> QED  BY <3>1, <3>2, <1>3
  <2>3. ASSUME NEW i \in 1 .. l + 1, NEW j \in 1 .. l + 1, t[i] = t[j]
        PROVE  i = j
    <3>1. \A k \in 1 .. l : s[k] # n
      BY <1>1
    <3>2. CASE i = 1 \/ j = 1
      BY <1>4, <2>3, <3>1, <3>2
    <3>3. CASE i # 1 /\ j # 1
      <4>1. /\ i - 1 \in 1 .. l /\ j - 1 \in 1 .. l
            /\ s[i - 1] = s[j - 1]
        BY <1>4, <2>3, <3>3
      <4>2. i - 1 = j - 1
        BY <4>1 DEF Chained
      <4> QED  BY <4>2
    <3> QED  BY <3>2, <3>3
  <2>4. n = t[1] /\ z = t[l + 1] /\ g[n].prev = NULL
    <3>1. l # 0 => l \in 1 .. l
      OBVIOUS
    <3>2. z = IF l = 0 THEN n ELSE tl
      BY DEF PushesHead
    <3> QED  BY <1>2, <1>3, <1>4, <3>1, <3>2
  <2>5. ASSUME NEW i \in 1 .. (l + 1) - 1
        PROVE  g[t[i]].next = t[i + 1] /\ g[t[i + 1]].prev = t[i]
    <3>1. i \in 1 .. l /\ t[i + 1] = s[i] /\ l # 0 /\ l > 0
      BY <1>4
    <3>2. CASE i = 1
      BY <1>2, <1>3, <1>4, <3>1, <3>2
    <3>3. CASE i # 1
      <4>1. /\ i - 1 \in 1 .. l /\ i - 1 \in 1 .. l - 1 /\ (i - 1) + 1 = i
            /\ i \in 1 .. l + 1 /\ 1 \in 1 .. l
        BY <3>1, <3>3
      <4>2. t[i] = s[i - 1]
        BY <1>4, <3>3, <4>1
      <4>3. h[s[i - 1]].next = s[i] /\ h[s[i]].prev = s[i - 1]
        BY <4>1 DEF Chained
      <4>4. s[i] # hd
        BY <1>2, <3>1, <3>3, <4>1 DEF Chained
      <4> QED  BY <1>1, <1>3, <3>1, <4>1, <4>2, <4>3, <4>4
    <3> QED  BY <3>2, <3>3
  <2> QED  BY <2>1, <2>2, <2>3, <2>4, <2>5 DEF Chained
<1>6. Vals(g, l + 1, t) = <<v>> \o Vals(h, l, s)
  <2> DEFINE a == Vals(g, l + 1, t)
             b == Vals(h, l, s)
             c == <<v>> \o b
  <2>1. a \in Seq(Values) /\ Len(a) = l + 1 /\ l + 1 \in Nat
    <3> DEFINE k == l + 1
    <3>1. k \in Nat
      OBVIOUS
    <3>2. Chained(g, n, z, k, t)
      BY <1>5
    <3> HIDE DEF t, k
    <3>3. Vals(g, k, t) \in Seq(Values) /\ Len(Vals(g, k, t)) = k
      <4>1. g \in Heaps
        BY <1>3
      <4> QED  BY <3>1, <3>2, <4>1, ChainFacts
    <3> QED  BY <3>1, <3>3 DEF k
  <2>2. b \in Seq(Values) /\ Len(b) = l
    BY ChainFacts
  <2>3. /\ \A i \in 1 .. l + 1 : a[i] = g[t[i]].value
        /\ \A i \in 1 .. l : b[i] = h[s[i]].value
    <3> HIDE DEF t
    <3> QED  BY DEF Vals
  <2> HIDE DEF a, b, t
  <2>4. /\ c \in Seq(Values) /\ Len(c) = l + 1 /\ c[1] = v
        /\ \A k \in 1 .. l + 1 : k # 1 => c[k] = b[k - 1]
    BY <2>2, ConsFacts
  <2>5. \A i \in 1 .. l + 1 : a[i] = c[i]
    <3> HIDE DEF c
    <3> SUFFICES ASSUME NEW i \in 1 .. l + 1 PROVE a[i] = c[i]
      OBVIOUS
    <3>1. CASE i = 1
      BY <1>3, <1>4, <2>3, <2>4, <3>1
    <3>2. CASE i # 1
      <4>1. i - 1 \in 1 .. l /\ t[i] = s[i - 1]
        BY <1>4, <3>2
      <4>2. g[t[i]].value = h[s[i - 1]].value
        BY <1>1, <1>3, <4>1
      <4> QED  BY <2>3, <2>4, <3>2, <4>1, <4>2
    <3> QED  BY <3>1, <3>2
  <2> HIDE DEF c
  <2>6. a = c
    BY <2>1, <2>4, <2>5, SameSeq
  <2> QED  BY <2>6 DEF a, b, c
<1>7. g[z].next = IF l = 0 THEN NULL ELSE h[tl].next
  BY <1>2, <1>3 DEF PushesHead
<1> HIDE DEF t
<1> QED
  BY <1>3, <1>5, <1>6, <1>7 DEF Holds, HeadPushed

LEMMA PushHeadChain ==
    ASSUME NEW h, NEW hd, NEW tl, NEW l, NEW n, NEW v, NEW g, NEW z, NEW a,
           Holds(h, hd, tl, l, a), PushesHead(h, hd, tl, l, n, v, g, z)
    PROVE  Holds(g, n, z, l + 1, <<v>> \o a) /\ HeadPushed(h, tl, l, n, g, z)
<1>1. PICK s : Chained(h, hd, tl, l, s) /\ a = Vals(h, l, s)
  BY DEF Holds
<1>2. h \in Heaps /\ l \in Nat
  BY DEF Holds
<1>3. n \in Nodes /\ n \notin DOMAIN h /\ v \in Values
  BY DEF PushesHead
<1> QED
  BY <1>1, <1>2, <1>3, PushHeadList

LEMMA PushHeadStep ==
    ASSUME Inv, ~ undefined, NEW v \in Values, queue_push_value_head(v)
    PROVE  Inv' /\ Contract!PushHead(v)
<1>1. /\ Holds(heap, head, tail, len, Contents) /\ len \in Nat
      /\ IsFiniteSet(Live) /\ len = Cardinality(Live)
  BY Before
<1>2. PICK n \in Nodes \ Live :
        /\ PushesHead(heap, head, tail, len, n, v, heap', tail')
        /\ tail' = IF len = 0 THEN n ELSE tail
        /\ head' = n /\ len' = len + 1
        /\ undefined' = undefined
  BY DEF queue_push_value_head, PushesHead, Live
<1>3. /\ Holds(heap', head', tail', len', <<v>> \o Contents)
      /\ HeadPushed(heap, tail, len, n, heap', tail')
  BY <1>1, <1>2, PushHeadChain
<1>4. /\ DOMAIN heap' = DOMAIN heap \cup {n}
      /\ heap'[tail'].next = IF len = 0 THEN NULL ELSE heap[tail].next
  BY <1>3 DEF HeadPushed
<1>5. IsFiniteSet(Live') /\ len' = Cardinality(Live')
  BY <1>1, <1>2, <1>4, FS_AddElement DEF Live
<1>6. undefined = FALSE /\ undefined' = FALSE
  BY <1>2 DEF Inv
<1>7. Inv' /\ Contents' = <<v>> \o Contents
  BY <1>3, <1>5, <1>6, After
<1>8. StaleTail' = FALSE
  BY <1>1, <1>2 DEF StaleTail
<1>9. StaleNext' = StaleNext
  BY <1>1, <1>2, <1>4, <1>6 DEF StaleNext
<1> QED
  BY <1>6, <1>7, <1>8, <1>9 DEF Contract!PushHead

(* The same at the tail, with the head y: the next pointer of the new tail *)
(* is NULL.                                                                *)
PushesTail(h, hd, tl, l, n, v, g, y) ==
    /\ g = IF l = 0 THEN Allocate(h, n, Node(v, NULL, NULL))
           ELSE Allocate(SetNext(h, tl, n), n, Node(v, tl, NULL))
    /\ y = IF l = 0 THEN n ELSE hd
    /\ n \in Nodes \ DOMAIN h /\ v \in Values

TailPushed(h, n, g) == DOMAIN g = DOMAIN h \cup {n} /\ g[n].next = NULL

LEMMA PushTailList ==
    ASSUME NEW h \in Heaps, NEW hd, NEW tl, NEW l \in Nat, NEW s,
           Chained(h, hd, tl, l, s),
           NEW n \in Nodes, n \notin DOMAIN h, NEW v \in Values,
           NEW g, NEW y, PushesTail(h, hd, tl, l, n, v, g, y)
    PROVE  /\ Holds(g, y, n, l + 1, Append(Vals(h, l, s), v))
           /\ TailPushed(h, n, g)
<1> DEFINE t == [i \in 1 .. l + 1 |-> IF i = l + 1 THEN n ELSE s[i]]
           D == DOMAIN h
<1>1. /\ \A i \in 1 .. l : s[i] \in D /\ s[i] \in Nodes
      /\ l = 0 <=> D = {}
  BY ChainFacts
<1>2. l # 0 => /\ hd \in D /\ tl \in D /\ tl \in Nodes
               /\ hd = s[1] /\ tl = s[l] /\ h[hd].prev = NULL
  <2>1. l # 0 => 1 \in 1 .. l /\ l \in 1 .. l /\ l > 0
    OBVIOUS
  <2> QED  BY <1>1, <2>1 DEF Chained
<1>3. /\ g \in Heaps /\ DOMAIN g = D \cup {n}
      /\ g[n].value = v /\ g[n].next = NULL
      /\ g[n].prev = IF l = 0 THEN NULL ELSE tl
      /\ \A m \in D : /\ g[m].value = h[m].value /\ g[m].prev = h[m].prev
                      /\ g[m].next = IF m = tl THEN n ELSE h[m].next
  <2>1. CASE l = 0
    <3>1. Node(v, NULL, NULL) \in QueueNode
      BY NodeFacts
    <3>2. g = Allocate(h, n, Node(v, NULL, NULL))
      BY <2>1 DEF PushesTail
    <3>3. Grown(g, h, n, Node(v, NULL, NULL))
      BY <3>1, <3>2, AllocateFacts
    <3>4. D = {}
      BY <1>1, <2>1
    <3>5. /\ g \in Heaps /\ DOMAIN g = D \cup {n}
          /\ g[n] = Node(v, NULL, NULL)
      BY <3>3 DEF Grown
    <3> HIDE DEF D
    <3> QED  BY <2>1, <3>4, <3>5, NodeFacts
  <2>2. CASE l # 0
    <3> DEFINE f == SetNext(h, tl, n)
    <3>1. /\ f \in Heaps /\ DOMAIN f = D
          /\ \A m \in D :
               /\ f[m].value = h[m].value /\ f[m].prev = h[m].prev
               /\ f[m].next = IF m = tl THEN n ELSE h[m].next
      BY <1>2, <2>2, SetFacts
    <3>2. Node(v, tl, NULL) \in QueueNode
      BY <1>2, <2>2, NodeFacts
    <3>3. g = Allocate(f, n, Node(v, tl, NULL))
      BY <2>2 DEF PushesTail
    <3> HIDE DEF f
    <3>4. /\ g \in Heaps /\ DOMAIN g = D \cup {n}
          /\ g[n] = Node(v, tl, NULL) /\ \A m \in D : g[m] = f[m]
      <4>1. f \in Heaps /\ n \in Nodes /\ n \notin DOMAIN f
        BY <3>1
      <4>2. Grown(g, f, n, Node(v, tl, NULL))
        BY <3>2, <3>3, <4>1, AllocateFacts
      <4> QED  BY <3>1, <4>2 DEF Grown
    <3>5. /\ g[n].value = v /\ g[n].next = NULL /\ g[n].prev = tl
      BY <1>2, <2>2, <3>4, NodeFacts
    <3> HIDE DEF D
    <3> QED  BY <2>2, <3>1, <3>4, <3>5
  <2> QED  BY <2>1, <2>2
<1>4. /\ t[l + 1] = n
      /\ \A i \in 1 .. l : i \in 1 .. l + 1 /\ t[i] = s[i]
      /\ \A i \in 1 .. l + 1 : i = l + 1 \/ (i \in 1 .. l /\ t[i] = s[i])
      /\ l + 1 \in 1 .. l + 1
  OBVIOUS
<1>5. Chained(g, y, n, l + 1, t)
  <2>1. t \in [1 .. l + 1 -> DOMAIN g]
    BY <1>1, <1>3
  <2> HIDE DEF t
  <2>2. ASSUME NEW m \in DOMAIN g PROVE \E i \in 1 .. l + 1 : t[i] = m
    <3>1. CASE m = n
      BY <3>1, <1>4
    <3>2. CASE m \in D
      <4>1. PICK i \in 1 .. l : s[i] = m
        BY <3>2 DEF Chained
      <4> QED  BY <4>1, <1>4
    <3> QED  BY <3>1, <3>2, <1>3
  <2>3. ASSUME NEW i \in 1 .. l + 1, NEW j \in 1 .. l + 1, t[i] = t[j]
        PROVE  i = j
    <3>1. \A k \in 1 .. l : s[k] # n
      BY <1>1
    <3>2. CASE i = l + 1 \/ j = l + 1
      BY <1>4, <2>3, <3>1, <3>2
    <3>3. CASE i # l + 1 /\ j # l + 1
      <4>1. i \in 1 .. l /\ j \in 1 .. l /\ s[i] = s[j]
        BY <1>4, <2>3, <3>3
      <4> QED  BY <4>1 DEF Chained
    <3> QED  BY <3>2, <3>3
  <2>4. y = t[1] /\ n = t[l + 1] /\ g[y].prev = NULL
    <3>1. y = IF l = 0 THEN n ELSE hd
      BY DEF PushesTail
    <3>2. l # 0 => 1 \in 1 .. l
      OBVIOUS
    <3>3. CASE l = 0
      BY <1>3, <1>4, <3>1, <3>3
    <3>4. CASE l # 0
      BY <1>2, <1>3, <1>4, <3>1, <3>2, <3>4
    <3> QED  BY <3>3, <3>4
  <2>5. ASSUME NEW i \in 1 .. (l + 1) - 1
        PROVE  g[t[i]].next = t[i + 1] /\ g[t[i + 1]].prev = t[i]
    <3>1. i \in 1 .. l /\ t[i] = s[i] /\ l # 0
      BY <1>4
    <3>2. CASE i = l
      BY <1>2, <1>3, <1>4, <3>1, <3>2
    <3>3. CASE i # l
      <4>1. i + 1 \in 1 .. l /\ i \in 1 .. l - 1 /\ l \in 1 .. l
        BY <3>1, <3>3
      <4>2. t[i + 1] = s[i + 1]
        BY <1>4, <4>1
      <4>3. h[s[i]].next = s[i + 1] /\ h[s[i + 1]].prev = s[i]
        BY <4>1 DEF Chained
      <4>4. s[i] # tl
        BY <1>2, <3>1, <3>3, <4>1 DEF Chained
      <4> QED  BY <1>1, <1>3, <3>1, <4>1, <4>2, <4>3, <4>4
    <3> QED  BY <3>2, <3>3
  <2> QED  BY <2>1, <2>2, <2>3, <2>4, <2>5 DEF Chained
<1>6. Vals(g, l + 1, t) = Append(Vals(h, l, s), v)
  <2> DEFINE a == Vals(g, l + 1, t)
             b == Vals(h, l, s)
             c == Append(b, v)
  <2>1. a \in Seq(Values) /\ Len(a) = l + 1 /\ l + 1 \in Nat
    <3> DEFINE k == l + 1
    <3>1. k \in Nat
      OBVIOUS
    <3>2. Chained(g, y, n, k, t)
      BY <1>5
    <3> HIDE DEF t, k
    <3>3. Vals(g, k, t) \in Seq(Values) /\ Len(Vals(g, k, t)) = k
      <4>1. g \in Heaps
        BY <1>3
      <4> QED  BY <3>1, <3>2, <4>1, ChainFacts
    <3> QED  BY <3>1, <3>3 DEF k
  <2>2. b \in Seq(Values) /\ Len(b) = l
    BY ChainFacts
  <2>3. /\ \A i \in 1 .. l + 1 : a[i] = g[t[i]].value
        /\ \A i \in 1 .. l : b[i] = h[s[i]].value
    <3> HIDE DEF t
    <3> QED  BY DEF Vals
  <2> HIDE DEF a, b, t
  <2>4. /\ c \in Seq(Values) /\ Len(c) = l + 1 /\ c[l + 1] = v
        /\ \A k \in 1 .. l : c[k] = b[k]
    BY <2>2
  <2>5. \A i \in 1 .. l + 1 : a[i] = c[i]
    <3> HIDE DEF c
    <3> SUFFICES ASSUME NEW i \in 1 .. l + 1 PROVE a[i] = c[i]
      OBVIOUS
    <3>1. CASE i = l + 1
      BY <1>3, <1>4, <2>3, <2>4, <3>1
    <3>2. CASE i # l + 1
      <4>1. i \in 1 .. l /\ t[i] = s[i]
        BY <1>4, <3>2
      <4>2. g[t[i]].value = h[s[i]].value
        BY <1>1, <1>3, <4>1
      <4> QED  BY <2>3, <2>4, <3>2, <4>1, <4>2
    <3> QED  BY <3>1, <3>2
  <2> HIDE DEF c
  <2>6. a = c
    BY <2>1, <2>4, <2>5, SameSeq
  <2> QED  BY <2>6 DEF a, b, c
<1> HIDE DEF t
<1> QED
  BY <1>3, <1>5, <1>6 DEF Holds, TailPushed

LEMMA PushTailChain ==
    ASSUME NEW h, NEW hd, NEW tl, NEW l, NEW n, NEW v, NEW g, NEW y, NEW a,
           Holds(h, hd, tl, l, a), PushesTail(h, hd, tl, l, n, v, g, y)
    PROVE  Holds(g, y, n, l + 1, Append(a, v)) /\ TailPushed(h, n, g)
<1>1. PICK s : Chained(h, hd, tl, l, s) /\ a = Vals(h, l, s)
  BY DEF Holds
<1>2. h \in Heaps /\ l \in Nat
  BY DEF Holds
<1>3. n \in Nodes /\ n \notin DOMAIN h /\ v \in Values
  BY DEF PushesTail
<1> QED
  BY <1>1, <1>2, <1>3, PushTailList

LEMMA PushTailStep ==
    ASSUME Inv, ~ undefined, NEW v \in Values, queue_push_value_tail(v)
    PROVE  Inv' /\ Contract!PushTail(v)
<1>1. /\ Holds(heap, head, tail, len, Contents) /\ len \in Nat
      /\ IsFiniteSet(Live) /\ len = Cardinality(Live)
  BY Before
<1>2. PICK n \in Nodes \ Live :
        /\ PushesTail(heap, head, tail, len, n, v, heap', head')
        /\ tail' = n /\ len' = len + 1
        /\ undefined' = undefined
  BY DEF queue_push_value_tail, PushesTail, Live
<1>3. /\ Holds(heap', head', tail', len', Append(Contents, v))
      /\ TailPushed(heap, n, heap')
  BY <1>1, <1>2, PushTailChain
<1>4. DOMAIN heap' = DOMAIN heap \cup {n} /\ heap'[tail'].next = NULL
  BY <1>2, <1>3 DEF TailPushed
<1>5. IsFiniteSet(Live') /\ len' = Cardinality(Live')
  BY <1>1, <1>2, <1>4, FS_AddElement DEF Live
<1>6. undefined = FALSE /\ undefined' = FALSE
  BY <1>2 DEF Inv
<1>7. Inv' /\ Contents' = Append(Contents, v)
  BY <1>3, <1>5, <1>6, After
<1>8. StaleTail' = FALSE /\ StaleNext' = FALSE
  BY <1>1, <1>2, <1>4 DEF StaleTail, StaleNext
<1> QED
  BY <1>6, <1>7, <1>8 DEF Contract!PushTail

-----------------------------------------------------------------------------
(* Pop and purge *)

(* The tail is released: its predecessor z is the new tail, which keeps    *)
(* its next pointer.                                                       *)
Pops(h, tl, l, g, z) ==
    l # 0 /\ g = Free(h, {tl}) /\ z = h[tl].prev

Popped(h, tl, l, g, z) ==
    /\ tl \in DOMAIN h /\ DOMAIN g = DOMAIN h \ {tl}
    /\ IF l = 1 THEN z = NULL ELSE g[z].next # NULL

LEMMA PopList ==
    ASSUME NEW h \in Heaps, NEW hd, NEW tl, NEW l \in Nat, NEW s,
           Chained(h, hd, tl, l, s), NEW g, NEW z, Pops(h, tl, l, g, z)
    PROVE  /\ Holds(g, hd, z, l - 1, SubSeq(Vals(h, l, s), 1, l - 1))
           /\ Popped(h, tl, l, g, z)
<1> DEFINE D == DOMAIN h
           k == l - 1
           t == [i \in 1 .. k |-> s[i]]
<1>1. \A i \in 1 .. l : s[i] \in D /\ s[i] \in Nodes
  BY ChainFacts
<1>2. /\ l # 0 /\ k \in Nat /\ l \in 1 .. l /\ 1 \in 1 .. l /\ k + 1 = l
      /\ k # 0 => k \in 1 .. l /\ k \in 1 .. l - 1 /\ k \in 1 .. k
      /\ \A i \in 1 .. k : i \in 1 .. l /\ i # l
      /\ \A i \in 1 .. l : i = l \/ i \in 1 .. k
      /\ \A i \in 1 .. k - 1 : i \in 1 .. l - 1 /\ i \in 1 .. k
                               /\ i + 1 \in 1 .. k
  BY DEF Pops
<1>3. /\ tl = s[l] /\ tl \in D /\ hd = s[1] /\ hd \in D /\ h[hd].prev = NULL
  BY <1>1, <1>2 DEF Chained
<1>4. /\ g \in Heaps /\ DOMAIN g = D \ {tl}
      /\ \A m \in D \ {tl} : g[m] = h[m]
  BY FreeFacts DEF Pops
<1>5. \A i \in 1 .. k : s[i] \in D \ {tl} /\ t[i] = s[i]
  BY <1>1, <1>2, <1>3 DEF Chained
<1>6. /\ k = 0 => z = NULL
      /\ k # 0 => z = s[k] /\ g[z].next = tl
  <2>1. z = h[tl].prev
    BY DEF Pops
  <2>2. CASE k = 0
    <3>1. l = 1
      BY <1>2, <2>2
    <3> QED  BY <1>3, <2>1, <2>2, <3>1
  <2>3. CASE k # 0
    <3>1. h[s[k]].next = s[k + 1] /\ h[s[k + 1]].prev = s[k]
      BY <1>2, <2>3 DEF Chained
    <3>2. s[k + 1] = tl
      BY <1>2, <1>3
    <3>3. g[s[k]] = h[s[k]]
      BY <1>2, <1>4, <1>5, <2>3
    <3> QED  BY <2>1, <2>3, <3>1, <3>2, <3>3
  <2> QED  BY <2>2, <2>3
<1>7. Chained(g, hd, z, k, t)
  <2>1. t \in [1 .. k -> DOMAIN g]
    BY <1>4, <1>5
  <2> HIDE DEF t, k
  <2>2. ASSUME NEW m \in DOMAIN g PROVE \E i \in 1 .. k : t[i] = m
    <3>1. PICK i \in 1 .. l : s[i] = m
      BY <1>4 DEF Chained
    <3> QED  BY <1>2, <1>3, <1>4, <1>5, <3>1
  <2>3. \A i, j \in 1 .. k : t[i] = t[j] => i = j
    BY <1>2, <1>5 DEF Chained
  <2>4. k > 0 => hd = t[1] /\ z = t[k] /\ g[hd].prev = NULL
    <3> SUFFICES ASSUME k > 0 PROVE hd = t[1] /\ z = t[k] /\ g[hd].prev = NULL
      OBVIOUS
    <3>1. 1 \in 1 .. k /\ k \in 1 .. k /\ k # 0
      BY <1>2
    <3> QED  BY <1>3, <1>4, <1>5, <1>6, <3>1
  <2>5. ASSUME NEW i \in 1 .. k - 1
        PROVE  g[t[i]].next = t[i + 1] /\ g[t[i + 1]].prev = t[i]
    <3>1. i \in 1 .. l - 1 /\ i \in 1 .. k /\ i + 1 \in 1 .. k
      BY <1>2
    <3>2. h[s[i]].next = s[i + 1] /\ h[s[i + 1]].prev = s[i]
      BY <3>1 DEF Chained
    <3> QED  BY <1>4, <1>5, <3>1, <3>2
  <2> QED  BY <2>1, <2>2, <2>3, <2>4, <2>5 DEF Chained
<1>8. Vals(g, k, t) = SubSeq(Vals(h, l, s), 1, k)
  <2> DEFINE a == Vals(g, k, t)
             b == Vals(h, l, s)
             c == SubSeq(b, 1, k)
  <2>1. a \in Seq(Values) /\ Len(a) = k
    <3> HIDE DEF t, k
    <3>1. g \in Heaps /\ k \in Nat
      BY <1>2, <1>4
    <3> QED  BY <1>7, <3>1, ChainFacts
  <2>2. b \in Seq(Values) /\ Len(b) = l
    BY ChainFacts
  <2>3. /\ \A i \in 1 .. k : a[i] = g[t[i]].value
        /\ \A i \in 1 .. l : b[i] = h[s[i]].value
    <3> HIDE DEF t, k
    <3> QED  BY DEF Vals
  <2> HIDE DEF a, b, t
  <2>4. /\ c \in Seq(Values) /\ Len(c) = k
        /\ \A i \in 1 .. k : c[i] = b[i]
    BY <1>2, <2>2
  <2> HIDE DEF c, k
  <2>5. \A i \in 1 .. k : a[i] = c[i]
    BY <1>2, <1>4, <1>5, <2>3, <2>4
  <2>6. a = c
    BY <2>1, <2>4, <2>5, SameSeq
  <2> QED  BY <2>6 DEF a, b, c
<1>9. tl # NULL
  BY <1>2, <1>1, <1>3, NullAssumption
<1>10. Popped(h, tl, l, g, z)
  <2>1. l = 1 <=> k = 0
    BY <1>2
  <2> HIDE DEF k
  <2> QED  BY <1>3, <1>4, <1>6, <1>9, <2>1 DEF Popped
<1>11. Holds(g, hd, z, k, SubSeq(Vals(h, l, s), 1, k))
  <2> HIDE DEF t, k
  <2> QED  BY <1>2, <1>4, <1>7, <1>8 DEF Holds
<1> QED
  BY <1>10, <1>11

LEMMA PopChain ==
    ASSUME NEW h, NEW hd, NEW tl, NEW l, NEW g, NEW z, NEW a,
           Holds(h, hd, tl, l, a), Pops(h, tl, l, g, z)
    PROVE  /\ Holds(g, hd, z, l - 1, SubSeq(a, 1, l - 1))
           /\ Popped(h, tl, l, g, z)
<1>1. PICK s : Chained(h, hd, tl, l, s) /\ a = Vals(h, l, s)
  BY DEF Holds
<1>2. h \in Heaps /\ l \in Nat
  BY DEF Holds
<1> QED
  BY <1>1, <1>2, PopList

LEMMA PopStep ==
    ASSUME Inv, ~ undefined, queue_pop_value
    PROVE  Inv' /\ Contract!Pop
<1>1. /\ Holds(heap, head, tail, len, Contents) /\ len \in Nat
      /\ IsFiniteSet(Live) /\ len = Cardinality(Live)
      /\ Contents \in Seq(Values) /\ Len(Contents) = len
  BY Before
<1>2. /\ Pops(heap, tail, len, heap', tail') /\ len # 0
      /\ head' = head /\ len' = len - 1
      /\ undefined' = undefined
  BY DEF queue_pop_value, Pops
<1>3. /\ Holds(heap', head', tail', len', SubSeq(Contents, 1, len - 1))
      /\ Popped(heap, tail, len, heap', tail')
  BY <1>1, <1>2, PopChain
<1>4. /\ tail \in DOMAIN heap /\ DOMAIN heap' = DOMAIN heap \ {tail}
      /\ len = 1 => tail' = NULL
      /\ len # 1 => heap'[tail'].next # NULL
  BY <1>3 DEF Popped
<1>5. IsFiniteSet(Live') /\ len' = Cardinality(Live')
  BY <1>1, <1>2, <1>4, FS_RemoveElement DEF Live
<1>6. undefined = FALSE /\ undefined' = FALSE
  BY <1>2 DEF Inv
<1>7. Inv' /\ Contents' = SubSeq(Contents, 1, len - 1)
  BY <1>3, <1>5, <1>6, After
<1>8. StaleTail = FALSE /\ StaleTail' = FALSE /\ StaleNext' = (len > 1)
  <2>1. CASE len = 1
    BY <1>2, <1>4, <1>6, <2>1 DEF StaleTail, StaleNext
  <2>2. CASE len # 1
    <3>1. len > 1 /\ len' > 0 /\ len' # 0
      BY <1>1, <1>2, <2>2
    <3> QED  BY <1>2, <1>4, <1>6, <2>2, <3>1 DEF StaleTail, StaleNext
  <2> QED  BY <2>1, <2>2
<1>9. Contents # <<>>
  BY <1>1, <1>2
<1> QED
  BY <1>1, <1>6, <1>7, <1>8, <1>9 DEF Contract!Pop

LEMMA PurgeStep ==
    ASSUME Inv, ~ undefined, queue_purge
    PROVE  Inv' /\ Contract!Purge
<1>1. /\ Holds(heap, head, tail, len, Contents) /\ len \in Nat
      /\ Contents \in Seq(Values) /\ Len(Contents) = len
  BY Before
<1>2. PICK s : Chained(heap, head, tail, len, s)
  BY <1>1 DEF Holds
<1>3. heap \in Heaps
  BY <1>1 DEF Holds
<1>4. Forward = s
  <2>1. Forward = NextChain(heap, head, len)
    BY DEF Forward, NextChain
  <2> QED  BY <1>1, <1>2, <2>1, NextChainIs
<1>5. DOMAIN heap \ {s[i] : i \in 1 .. len} = {}
  BY <1>2 DEF Chained
<1>6. /\ heap' = Free(heap, {s[i] : i \in 1 .. len})
      /\ len' = 0 /\ undefined' = undefined /\ tail' = tail
  BY <1>4 DEF queue_purge
<1>7. heap' \in Heaps /\ DOMAIN heap' = {}
  <2> DEFINE S == {s[i] : i \in 1 .. len}
  <2>1. heap' = Free(heap, S) /\ DOMAIN heap \ S = {}
    BY <1>5, <1>6
  <2> HIDE DEF S
  <2> QED  BY <1>3, <2>1, FreeFacts
<1>8. Holds(heap', head', tail', len', <<>>)
  <2>1. Chained(heap', head', tail', 0, <<>>)
    BY <1>7 DEF Chained
  <2>2. <<>> = Vals(heap', 0, <<>>)
    BY DEF Vals
  <2> QED  BY <1>6, <1>7, <2>1, <2>2 DEF Holds
<1>9. IsFiniteSet(Live') /\ len' = Cardinality(Live')
  BY <1>6, <1>7, FS_EmptySet DEF Live
<1>10. undefined = FALSE /\ undefined' = FALSE
  BY <1>6 DEF Inv
<1>11. Inv' /\ Contents' = <<>>
  BY <1>8, <1>9, <1>10, After
<1>12. StaleNext' = FALSE
  BY <1>6 DEF StaleNext
<1>13. len # 0 => tail # NULL
  <2>1. len # 0 => len > 0 /\ len \in 1 .. len
    BY <1>1
  <2>2. \A i \in 1 .. len : s[i] \in Nodes
    BY <1>1, <1>2, <1>3, ChainFacts
  <2>3. len > 0 => tail = s[len]
    BY <1>2 DEF Chained
  <2> QED  BY <2>1, <2>2, <2>3, NullAssumption
<1>14. StaleTail' = (Contents # <<>> \/ StaleTail)
  <2>1. Contents = <<>> <=> len = 0
    BY <1>1
  <2>2. StaleTail' <=> tail # NULL
    BY <1>6, <1>10 DEF StaleTail
  <2>3. StaleTail <=> len = 0 /\ tail # NULL
    BY <1>10 DEF StaleTail
  <2>4. StaleTail \in BOOLEAN /\ StaleTail' \in BOOLEAN
    BY DEF StaleTail
  <2> QED  BY <1>13, <2>1, <2>2, <2>3, <2>4
<1> QED
  BY <1>10, <1>11, <1>12, <1>14 DEF Contract!Purge

-----------------------------------------------------------------------------
(* Delete *)

(* The node n is deleted, and no stale pointer is followed: x is the new   *)
(* head and z the new tail, whose next pointer is stale if that of the old *)
(* one was.                                                                *)
Deletes(h, hd, tl, n, g, x, z) ==
    LET p == h[n].prev
        q == h[n].next
    IN  /\ n \in DOMAIN h
        /\ g = Free(SetPrev(SetNext(h, p, q), q, p), {n})
        /\ x = IF p = NULL THEN q ELSE hd
        /\ z = IF q = NULL THEN p ELSE tl
        /\ n = tl => q = NULL

Deleted(h, tl, l, a, n, g, x, z) ==
    /\ DOMAIN g = DOMAIN h \ {n} /\ l # 0
    /\ IF l = 1 THEN z = NULL
       ELSE g[z].next # NULL <=> h[tl].next # NULL
    /\ l = 1 => n = tl
    /\ \E j \in 1 .. l : /\ j = l <=> n = tl
                         /\ Holds(g, x, z, l - 1, Without(a, j))

(* What a deletion does to the other nodes. *)
Unlinked(h, n, g) ==
    LET p == h[n].prev
        q == h[n].next
    IN  /\ g \in Heaps /\ DOMAIN g = DOMAIN h \ {n}
        /\ \A m \in DOMAIN h \ {n} :
             /\ g[m].value = h[m].value
             /\ g[m].next = IF m = p THEN q ELSE h[m].next
             /\ g[m].prev = IF m = q THEN p ELSE h[m].prev

LEMMA DeleteFields ==
    ASSUME NEW h \in Heaps, NEW hd, NEW tl, NEW n, NEW g, NEW x, NEW z,
           Deletes(h, hd, tl, n, g, x, z)
    PROVE  Unlinked(h, n, g)
<1> DEFINE p == h[n].prev
           q == h[n].next
           f == SetNext(h, p, q)
           e == SetPrev(f, q, p)
<1>1. n \in DOMAIN h /\ g = Free(e, {n})
  BY DEF Deletes
<1>2. p \in Nodes \cup {NULL} /\ q \in Nodes \cup {NULL}
  <2>1. h[n] \in QueueNode
    BY <1>1, HeapFacts
  <2> QED  BY <2>1 DEF QueueNode
<1> HIDE DEF p, q
<1>3. /\ f \in Heaps /\ DOMAIN f = DOMAIN h
      /\ \A m \in DOMAIN h :
           /\ f[m].value = h[m].value /\ f[m].prev = h[m].prev
           /\ f[m].next = IF m = p THEN q ELSE h[m].next
  BY <1>2, SetFacts
<1> HIDE DEF f
<1>4. /\ e \in Heaps /\ DOMAIN e = DOMAIN f
      /\ \A m \in DOMAIN f :
           /\ e[m].value = f[m].value /\ e[m].next = f[m].next
           /\ e[m].prev = IF m = q THEN p ELSE f[m].prev
  <2>1. f \in Heaps
    BY <1>3
  <2> QED  BY <1>2, <2>1, SetFacts
<1> HIDE DEF e
<1>5. /\ g \in Heaps /\ DOMAIN g = DOMAIN e \ {n}
      /\ \A m \in DOMAIN e \ {n} : g[m] = e[m]
  <2>1. e \in Heaps
    BY <1>4
  <2> QED  BY <1>1, <2>1, FreeFacts
<1>6. ASSUME NEW m \in DOMAIN h \ {n}
      PROVE  /\ g[m].value = h[m].value
             /\ g[m].next = IF m = p THEN q ELSE h[m].next
             /\ g[m].prev = IF m = q THEN p ELSE h[m].prev
  BY <1>3, <1>4, <1>5
<1> QED
  BY <1>3, <1>4, <1>5, <1>6 DEF p, q, Unlinked

(* The neighbours of the j-th node. *)
Between(h, tl, l, s, j) ==
    /\ h[s[j]].prev = IF j = 1 THEN NULL ELSE s[j - 1]
    /\ h[s[j]].next = IF j = l THEN NULL ELSE s[j + 1]
    /\ j = l <=> s[j] = tl

LEMMA Neighbours ==
    ASSUME NEW h \in Heaps, NEW hd, NEW tl, NEW l \in Nat, NEW s,
           Chained(h, hd, tl, l, s), NEW j \in 1 .. l,
           s[j] = tl => h[s[j]].next = NULL
    PROVE  Between(h, tl, l, s, j)
<1>1. /\ j # 1 => j - 1 \in 1 .. l - 1 /\ (j - 1) + 1 = j
      /\ j # l => j \in 1 .. l - 1
      /\ l > 0 /\ l \in 1 .. l
  OBVIOUS
<1>2. tl = s[l] /\ hd = s[1] /\ h[hd].prev = NULL
  BY <1>1 DEF Chained
<1>3. j = l <=> s[j] = tl
  BY <1>1, <1>2 DEF Chained
<1>4. h[s[j]].prev = IF j = 1 THEN NULL ELSE s[j - 1]
  <2>1. CASE j = 1
    BY <1>2, <2>1
  <2>2. CASE j # 1
    BY <1>1, <2>2 DEF Chained
  <2> QED  BY <2>1, <2>2
<1>5. h[s[j]].next = IF j = l THEN NULL ELSE s[j + 1]
  <2>1. CASE j = l
    BY <1>3, <2>1
  <2>2. CASE j # l
    BY <1>1, <2>2 DEF Chained
  <2> QED  BY <2>1, <2>2
<1> QED
  BY <1>3, <1>4, <1>5 DEF Between

LEMMA DeleteList ==
    ASSUME NEW h \in Heaps, NEW hd, NEW tl, NEW l \in Nat, NEW s,
           Chained(h, hd, tl, l, s), NEW n, NEW g, NEW x, NEW z,
           Deletes(h, hd, tl, n, g, x, z)
    PROVE  Deleted(h, tl, l, Vals(h, l, s), n, g, x, z)
<1> DEFINE D == DOMAIN h
           p == h[n].prev
           q == h[n].next
           k == l - 1
<1>1. /\ n \in D
      /\ x = IF p = NULL THEN q ELSE hd
      /\ z = IF q = NULL THEN p ELSE tl
      /\ n = tl => q = NULL
  BY DEF Deletes
<1>2. PICK j \in 1 .. l : s[j] = n
  BY <1>1 DEF Chained
<1>3. /\ k \in Nat /\ l # 0 /\ l > 0 /\ 1 \in 1 .. l /\ l \in 1 .. l
      /\ k + 1 = l
  BY <1>2
<1>4. /\ \A i \in 1 .. l : s[i] \in D /\ s[i] # NULL
      /\ \A i, m \in 1 .. l : s[i] = s[m] => i = m
  <2>1. \A i \in 1 .. l : s[i] \in D /\ s[i] \in Nodes
    BY ChainFacts
  <2> QED  BY <2>1, NullAssumption DEF Chained
<1>5. /\ p = IF j = 1 THEN NULL ELSE s[j - 1]
      /\ q = IF j = l THEN NULL ELSE s[j + 1]
      /\ j = l <=> n = tl
  <2>1. s[j] = tl => h[s[j]].next = NULL
    BY <1>1, <1>2
  <2>2. Between(h, tl, l, s, j)
    BY <2>1, Neighbours
  <2> QED  BY <1>2, <2>2 DEF Between
<1>6. /\ g \in Heaps /\ DOMAIN g = D \ {n}
      /\ \A m \in D \ {n} :
           /\ g[m].value = h[m].value
           /\ g[m].next = IF m = p THEN q ELSE h[m].next
           /\ g[m].prev = IF m = q THEN p ELSE h[m].prev
  <2>1. Unlinked(h, n, g)
    BY DeleteFields
  <2> QED  BY <2>1 DEF Unlinked
<1>7. /\ hd = s[1] /\ tl = s[l] /\ h[hd].prev = NULL
      /\ \A i \in 1 .. k : h[s[i]].next = s[i + 1] /\ h[s[i + 1]].prev = s[i]
  BY <1>3 DEF Chained
<1> HIDE DEF p, q
<1> DEFINE t == [i \in 1 .. k |-> IF i < j THEN s[i] ELSE s[i + 1]]
(* The links of the node s[i], other than n, in the new heap.              *)
<1>8. ASSUME NEW i \in 1 .. l, i # j
      PROVE  /\ s[i] \in D \ {n}
             /\ g[s[i]].value = h[s[i]].value
             /\ i + 1 = j => g[s[i]].next = q
             /\ i + 1 # j => g[s[i]].next = h[s[i]].next
             /\ i = j + 1 => g[s[i]].prev = p
             /\ i # j + 1 => g[s[i]].prev = h[s[i]].prev
  <2>1. s[i] \in D \ {n}
    BY <1>2, <1>4, <1>8
  <2>2. s[i] = p <=> i + 1 = j
    <3>1. CASE j = 1
      BY <1>4, <1>5, <3>1
    <3>2. CASE j # 1
      <4>1. j - 1 \in 1 .. l /\ p = s[j - 1]
        BY <1>5, <3>2
      <4>2. s[i] = p <=> i = j - 1
        BY <1>4, <4>1
      <4> QED  BY <4>1, <4>2
    <3> QED  BY <3>1, <3>2
  <2>3. s[i] = q <=> i = j + 1
    <3>1. CASE j = l
      BY <1>4, <1>5, <3>1
    <3>2. CASE j # l
      <4>1. j + 1 \in 1 .. l /\ q = s[j + 1]
        BY <1>5, <3>2
      <4> QED  BY <1>4, <4>1
    <3> QED  BY <3>1, <3>2
  <2> QED  BY <1>6, <2>1, <2>2, <2>3
<1>9. \A i \in 1 .. k :
        /\ i < j => i \in 1 .. l /\ i # j /\ t[i] = s[i]
        /\ ~(i < j) => i + 1 \in 1 .. l /\ i + 1 # j /\ t[i] = s[i + 1]
  BY <1>3
<1>10. Chained(g, x, z, k, t)
  <2>1. t \in [1 .. k -> DOMAIN g]
    BY <1>6, <1>8, <1>9
  <2> HIDE DEF t
  <2>2. ASSUME NEW m \in DOMAIN g PROVE \E i \in 1 .. k : t[i] = m
    <3>1. PICK i \in 1 .. l : s[i] = m
      BY <1>6 DEF Chained
    <3>2. i # j
      BY <1>2, <1>6, <3>1
    <3>3. CASE i < j
      <4>1. i \in 1 .. k
        BY <1>3, <3>3
      <4> QED  BY <1>9, <3>1, <3>3, <4>1
    <3>4. CASE ~ (i < j)
      <4>1. i - 1 \in 1 .. k /\ ~ (i - 1 < j) /\ (i - 1) + 1 = i
        BY <1>3, <3>2, <3>4
      <4>2. t[i - 1] = s[i]
        BY <1>9, <4>1
      <4> QED  BY <3>1, <4>1, <4>2
    <3> QED  BY <3>3, <3>4
  <2>3. ASSUME NEW i \in 1 .. k, NEW m \in 1 .. k, t[i] = t[m]
        PROVE  i = m
    <3> DEFINE old(y) == IF y < j THEN y ELSE y + 1
    <3>1. /\ old(i) \in 1 .. l /\ t[i] = s[old(i)]
          /\ old(m) \in 1 .. l /\ t[m] = s[old(m)]
      BY <1>9
    <3>2. old(i) = old(m)
      BY <1>4, <2>3, <3>1
    <3> QED  BY <3>2
  <2>4. k > 0 => x = t[1] /\ z = t[k] /\ g[x].prev = NULL
    <3> SUFFICES ASSUME k > 0
                 PROVE  x = t[1] /\ z = t[k] /\ g[x].prev = NULL
      OBVIOUS
    <3>1. 1 \in 1 .. k /\ k \in 1 .. k /\ l # 1
      BY <1>3
    <3>2. x = t[1] /\ g[x].prev = NULL
      <4>1. CASE j = 1
        <5>1. t[1] = s[1 + 1] /\ 2 \in 1 .. l /\ 2 = j + 1 /\ 2 # j
          BY <1>3, <1>9, <3>1, <4>1
        <5>2. p = NULL /\ q = s[2]
          BY <1>5, <3>1, <4>1
        <5>3. g[s[2]].prev = p
          BY <1>8, <5>1
        <5> QED  BY <1>1, <5>1, <5>2, <5>3
      <4>2. CASE j # 1
        <5>1. 1 < j /\ t[1] = s[1] /\ 1 # j + 1
          BY <1>9, <3>1, <4>2
        <5>2. p # NULL
          BY <1>4, <1>5, <4>2
        <5>3. g[s[1]].prev = h[s[1]].prev
          BY <1>3, <1>8, <5>1
        <5> QED  BY <1>1, <1>7, <5>1, <5>2, <5>3
      <4> QED  BY <4>1, <4>2
    <3>3. z = t[k]
      <4>1. CASE j = l
        <5>1. k < j /\ j # 1 /\ j - 1 = k
          BY <1>3, <3>1, <4>1
        <5> QED  BY <1>1, <1>5, <1>9, <3>1, <4>1, <5>1
      <4>2. CASE j # l
        <5>1. ~ (k < j) /\ j + 1 \in 1 .. l
          BY <1>3, <4>2
        <5>2. q # NULL /\ t[k] = s[k + 1]
          BY <1>4, <1>5, <1>9, <3>1, <4>2, <5>1
        <5> QED  BY <1>1, <1>3, <1>7, <5>2
      <4> QED  BY <4>1, <4>2
    <3> QED  BY <3>2, <3>3
  <2>5. ASSUME NEW i \in 1 .. k - 1
        PROVE  g[t[i]].next = t[i + 1] /\ g[t[i + 1]].prev = t[i]
    <3>1. /\ i \in 1 .. k /\ i + 1 \in 1 .. k /\ i \in 1 .. l
          /\ i + 1 \in 1 .. l /\ (i + 1) + 1 \in 1 .. l
      BY <1>3
    <3>2. CASE i + 1 < j
      <4>1. /\ t[i] = s[i] /\ t[i + 1] = s[i + 1] /\ i # j /\ i + 1 # j
            /\ i + 1 # j + 1
        BY <1>9, <3>1, <3>2
      <4>2. g[s[i]].next = h[s[i]].next /\ g[s[i + 1]].prev = h[s[i + 1]].prev
        BY <1>8, <3>1, <4>1
      <4> QED  BY <1>7, <3>1, <4>1, <4>2
    <3>3. CASE i + 1 = j
      <4>1. /\ i < j /\ ~ (i + 1 < j) /\ i # j /\ (i + 1) + 1 # j
            /\ (i + 1) + 1 = j + 1 /\ j # 1 /\ j # l /\ j - 1 = i
        BY <1>3, <3>1, <3>3
      <4>2. t[i] = s[i] /\ t[i + 1] = s[(i + 1) + 1]
        BY <1>9, <3>1, <4>1
      <4>3. g[s[i]].next = q /\ g[s[(i + 1) + 1]].prev = p
        BY <1>8, <3>1, <3>3, <4>1
      <4>4. p = s[i] /\ q = s[(i + 1) + 1]
        BY <1>5, <4>1
      <4> QED  BY <4>2, <4>3, <4>4
    <3>4. CASE i + 1 > j
      <4>1. /\ ~ (i < j) /\ ~ (i + 1 < j) /\ i + 1 # j /\ (i + 1) + 1 # j
            /\ (i + 1) + 1 # j + 1
        BY <3>1, <3>4
      <4>2. t[i] = s[i + 1] /\ t[i + 1] = s[(i + 1) + 1]
        BY <1>9, <3>1, <4>1
      <4>3. /\ g[s[i + 1]].next = h[s[i + 1]].next
            /\ g[s[(i + 1) + 1]].prev = h[s[(i + 1) + 1]].prev
        BY <1>8, <3>1, <4>1
      <4> QED  BY <1>7, <3>1, <4>2, <4>3
    <3> QED  BY <3>1, <3>2, <3>3, <3>4
  <2> QED  BY <2>1, <2>2, <2>3, <2>4, <2>5 DEF Chained
<1>11. Vals(g, k, t) = Without(Vals(h, l, s), j)
  <2> DEFINE a == Vals(g, k, t)
             b == Vals(h, l, s)
             c == Without(b, j)
  <2>1. a \in Seq(Values) /\ Len(a) = k
    <3> HIDE DEF t, k
    <3>1. g \in Heaps /\ k \in Nat
      BY <1>3, <1>6
    <3> QED  BY <1>10, <3>1, ChainValues
  <2>2. b \in Seq(Values) /\ Len(b) = l
    BY ChainFacts
  <2>3. /\ \A i \in 1 .. k : a[i] = g[t[i]].value
        /\ \A i \in 1 .. l : b[i] = h[s[i]].value
    <3> HIDE DEF t, k
    <3> QED  BY DEF Vals
  <2> HIDE DEF a, b, t
  <2>4. /\ c \in Seq(Values) /\ Len(c) = k
        /\ \A i \in 1 .. k : c[i] = IF i < j THEN b[i] ELSE b[i + 1]
    <3>1. j \in DOMAIN b
      BY <2>2
    <3>2. /\ c \in Seq(Values) /\ DOMAIN c = 1 .. Len(b) - 1
          /\ \A i \in 1 .. Len(b) - 1 : c[i] = IF i < j THEN b[i] ELSE b[i + 1]
      BY <2>2, <3>1, WithoutFacts, WithoutPositions
    <3>3. Len(c) = k
      BY <1>3, <2>2, <3>2
    <3> QED  BY <2>2, <3>2, <3>3
  <2> HIDE DEF c
  <2>5. \A i \in 1 .. k : a[i] = c[i]
    <3> SUFFICES ASSUME NEW i \in 1 .. k PROVE a[i] = c[i]
      OBVIOUS
    <3>1. CASE i < j
      <4>1. i \in 1 .. l /\ i # j /\ t[i] = s[i]
        BY <1>9, <3>1
      <4>2. g[s[i]].value = h[s[i]].value
        BY <1>8, <4>1
      <4> QED  BY <2>3, <2>4, <3>1, <4>1, <4>2
    <3>2. CASE ~ (i < j)
      <4>1. i + 1 \in 1 .. l /\ i + 1 # j /\ t[i] = s[i + 1]
        BY <1>9, <3>2
      <4>2. g[s[i + 1]].value = h[s[i + 1]].value
        BY <1>8, <4>1
      <4> QED  BY <2>3, <2>4, <3>2, <4>1, <4>2
    <3> QED  BY <3>1, <3>2
  <2> HIDE DEF k
  <2>6. a = c
    BY <2>1, <2>4, <2>5, SameSeq
  <2> QED  BY <2>6 DEF a, b, c
<1>12. Holds(g, x, z, k, Without(Vals(h, l, s), j))
  <2> HIDE DEF t, k
  <2> QED  BY <1>3, <1>6, <1>10, <1>11 DEF Holds
<1>13. IF l = 1 THEN z = NULL
       ELSE g[z].next # NULL <=> h[tl].next # NULL
  <2>1. CASE l = 1
    <3>1. j = 1 /\ j = l
      BY <2>1
    <3> QED  BY <1>1, <1>5, <2>1, <3>1
  <2>2. CASE l # 1 /\ j = l
    <3>1. j # 1 /\ j - 1 \in 1 .. l /\ j - 1 # j /\ (j - 1) + 1 = j
      BY <2>2
    <3>2. z = s[j - 1] /\ q = NULL
      BY <1>1, <1>5, <2>2, <3>1
    <3>3. g[s[j - 1]].next = q
      BY <1>8, <3>1
    <3>4. h[tl].next = NULL
      BY <1>1, <1>5, <2>2, <3>2 DEF q
    <3> QED  BY <2>2, <3>2, <3>3, <3>4
  <2>3. CASE l # 1 /\ j # l
    <3>1. q # NULL
      <4>1. j + 1 \in 1 .. l
        BY <2>3
      <4> QED  BY <1>4, <1>5, <2>3, <4>1
    <3>2. z = s[l]
      BY <1>1, <1>7, <3>1
    <3>3. l + 1 # j
      OBVIOUS
    <3>4. g[s[l]].next = h[s[l]].next
      BY <1>3, <1>8, <2>3, <3>3
    <3> QED  BY <1>7, <2>3, <3>2, <3>4
  <2> QED  BY <2>1, <2>2, <2>3
<1>14. l = 1 => n = tl
  BY <1>5
<1> QED
  BY <1>3, <1>5, <1>6, <1>12, <1>13, <1>14 DEF Deleted

LEMMA DeleteChain ==
    ASSUME NEW h, NEW hd, NEW tl, NEW l, NEW a, Holds(h, hd, tl, l, a),
           NEW n, NEW g, NEW x, NEW z, Deletes(h, hd, tl, n, g, x, z)
    PROVE  Deleted(h, tl, l, a, n, g, x, z)
<1>1. PICK s : Chained(h, hd, tl, l, s) /\ a = Vals(h, l, s)
  BY DEF Holds
<1>2. h \in Heaps /\ l \in Nat
  BY DEF Holds
<1> QED
  BY <1>1, <1>2, DeleteList

(* Only the next pointer of the tail can be stale. *)
LEMMA NextLive ==
    ASSUME NEW h, NEW hd, NEW tl, NEW l, NEW a, Holds(h, hd, tl, l, a),
           NEW n \in DOMAIN h, n # tl
    PROVE  h[n].next \in DOMAIN h
<1>1. PICK s : Chained(h, hd, tl, l, s)
  BY DEF Holds
<1>2. h \in Heaps /\ l \in Nat
  BY DEF Holds
<1>3. PICK j \in 1 .. l : s[j] = n
  BY <1>1 DEF Chained
<1>4. j # l /\ j \in 1 .. l - 1 /\ j + 1 \in 1 .. l
  <2>1. l > 0
    BY <1>2
  <2>2. tl = s[l]
    BY <1>1, <2>1 DEF Chained
  <2>3. j # l
    BY <1>3, <2>2
  <2> QED  BY <1>2, <2>3
<1> QED
  BY <1>1, <1>3, <1>4 DEF Chained

(* A step that accesses released memory. *)
LEMMA FaultStep ==
    ASSUME undefined' = TRUE, ~ undefined, StaleNext \/ StaleTail
    PROVE  Inv' /\ Contract!Fault
<1>1. Contents' = <<>> /\ StaleNext' = FALSE /\ StaleTail' = FALSE
  BY DEF Contents, StaleNext, StaleTail
<1> QED
  BY <1>1 DEF Inv, Contract!Fault

LEMMA DeleteStep ==
    ASSUME Inv, ~ undefined, NEW n \in Live, queue_delete_node(n)
    PROVE  /\ Inv'
           /\ (\E i \in DOMAIN Contents : Contract!Delete(i)) \/ Contract!Fault
<1>1. /\ Holds(heap, head, tail, len, Contents) /\ len \in Nat
      /\ IsFiniteSet(Live) /\ len = Cardinality(Live)
      /\ Contents \in Seq(Values) /\ Len(Contents) = len
  BY Before
<1>2. n \in DOMAIN heap
  BY DEF Live
<1>3. undefined = FALSE
  BY DEF Inv
<1>4. CASE heap[n].next # NULL /\ (heap[n].next \notin Live \/ n = tail)
  <2>1. n = tail
    BY <1>1, <1>2, <1>4, NextLive DEF Live
  <2>2. len > 0
    <3>1. len # 0
      BY <1>1, <1>2, FS_EmptySet DEF Live
    <3> QED  BY <1>1, <3>1
  <2>3. StaleNext
    BY <1>3, <1>4, <2>1, <2>2 DEF StaleNext
  <2>4. undefined' = TRUE
    BY <1>4 DEF queue_delete_node
  <2> QED  BY <2>3, <2>4, FaultStep
<1>5. CASE ~ (heap[n].next # NULL /\ (heap[n].next \notin Live \/ n = tail))
  <2>1. undefined' = FALSE /\ len' = len - 1
    BY <1>5 DEF queue_delete_node
  <2>2. Deletes(heap, head, tail, n, heap', head', tail')
    BY <1>2, <1>5 DEF queue_delete_node, Deletes
  <2>3. Deleted(heap, tail, len, Contents, n, heap', head', tail')
    BY <1>1, <2>2, DeleteChain
  <2>4. PICK j \in 1 .. len :
          /\ j = len <=> n = tail
          /\ Holds(heap', head', tail', len - 1, Without(Contents, j))
    BY <2>3 DEF Deleted
  <2>5. /\ DOMAIN heap' = DOMAIN heap \ {n} /\ len # 0
        /\ len = 1 => tail' = NULL /\ n = tail
        /\ len # 1 => (heap'[tail'].next # NULL <=> heap[tail].next # NULL)
    BY <2>3 DEF Deleted
  <2>6. IsFiniteSet(Live') /\ len' = Cardinality(Live')
    BY <1>1, <1>2, <2>1, <2>5, FS_RemoveElement DEF Live
  <2>7. Inv' /\ Contents' = Without(Contents, j)
    BY <2>1, <2>4, <2>6, After
  <2>8. n = tail => heap[tail].next = NULL
    BY <1>5
  <2>9. StaleTail' = StaleTail /\ StaleNext' = StaleNext
    <3>1. CASE len = 1
      BY <1>3, <2>1, <2>5, <2>8, <3>1 DEF StaleTail, StaleNext
    <3>2. CASE len # 1
      <4>1. len > 0 /\ len' > 0 /\ len' # 0 /\ len # 0
        BY <1>1, <2>1, <2>5, <3>2
      <4> QED  BY <1>3, <2>1, <2>5, <3>2, <4>1 DEF StaleTail, StaleNext
    <3> QED  BY <3>1, <3>2
  <2>10. ~ (StaleNext /\ j = Len(Contents))
    BY <1>1, <2>4, <2>8 DEF StaleNext
  <2>11. j \in DOMAIN Contents
    BY <1>1
  <2>12. Contract!Delete(j)
    BY <1>3, <2>1, <2>7, <2>9, <2>10 DEF Contract!Delete, Without
  <2> QED  BY <2>7, <2>11, <2>12
<1> QED
  BY <1>4, <1>5

LEMMA SaveStep ==
    ASSUME Inv, ~ undefined, SaveMessages
    PROVE  /\ Inv'
           /\ UNCHANGED Contract!dequeVars \/ Contract!Fault
<1>1. /\ Holds(heap, head, tail, len, Contents) /\ len \in Nat
  BY Before
<1>2. CASE tail # NULL /\ tail \notin Live
  <2>1. len = 0
    <3> SUFFICES ASSUME len # 0 PROVE FALSE
      OBVIOUS
    <3>1. PICK s : Chained(heap, head, tail, len, s)
      BY <1>1 DEF Holds
    <3>2. len > 0 /\ len \in 1 .. len
      BY <1>1
    <3> QED  BY <1>2, <3>1, <3>2 DEF Chained, Live
  <2>2. StaleTail /\ undefined' = TRUE
    BY <1>2, <2>1 DEF StaleTail, SaveMessages, Inv
  <2> QED  BY <2>2, FaultStep
<1>3. CASE ~ (tail # NULL /\ tail \notin Live)
  <2>1. UNCHANGED queueVars
    BY <1>3 DEF SaveMessages, Inv, queueVars
  <2> QED
    BY <2>1 DEF queueVars, Inv, Live, Contract!dequeVars, Contents, Backward,
                StaleNext, StaleTail
<1> QED
  BY <1>2, <1>3

-----------------------------------------------------------------------------
LEMMA InitInv == Init => Inv /\ Contract!Init
<1> SUFFICES ASSUME Init PROVE Inv /\ Contract!Init
  OBVIOUS
<1>1. /\ heap = <<>> /\ tail = NULL /\ len = 0 /\ undefined = FALSE
  BY DEF Init
<1>2. DOMAIN heap = {} /\ heap = [n \in DOMAIN heap |-> heap[n]]
  BY <1>1
<1>3. heap \in Heaps
  BY <1>2, HeapFacts
<1>4. IsFiniteSet(Live) /\ len = Cardinality(Live)
  BY <1>1, <1>2, FS_EmptySet DEF Live
<1>5. Chained(heap, head, tail, len, <<>>)
  BY <1>1, <1>2 DEF Chained
<1>6. Inv
  <2>1. \E s : Chained(heap, head, tail, len, s)
    BY <1>5
  <2>2. undefined \in BOOLEAN /\ len \in Nat
    BY <1>1
  <2> QED  BY <1>3, <1>4, <2>1, <2>2 DEF Inv
<1>7. Contents = <<>> /\ StaleNext = FALSE /\ StaleTail = FALSE
  BY <1>1 DEF Contents, StaleNext, StaleTail
<1> QED
  BY <1>1, <1>6, <1>7 DEF Contract!Init

(* Every operation keeps the links whole and is an operation of Deque.     *)
LEMMA NextStep ==
    ASSUME Inv, [Next]_queueVars
    PROVE  Inv' /\ [Contract!Next]_Contract!dequeVars
<1>1. CASE UNCHANGED queueVars
  BY <1>1 DEF queueVars, Inv, Live, Contract!dequeVars, Contents, Backward,
              StaleNext, StaleTail
<1>2. ASSUME Next, ~ undefined
      PROVE  Inv' /\ [Contract!Next]_Contract!dequeVars
  <2>1. ASSUME NEW v \in Values, queue_push_value_head(v)
        PROVE  Inv' /\ Contract!Next
    BY <1>2, <2>1, PushHeadStep DEF Contract!Next
  <2>2. ASSUME NEW v \in Values, queue_push_value_tail(v)
        PROVE  Inv' /\ Contract!Next
    BY <1>2, <2>2, PushTailStep DEF Contract!Next
  <2>3. CASE queue_pop_value
    BY <1>2, <2>3, PopStep DEF Contract!Next
  <2>4. CASE queue_purge
    BY <1>2, <2>4, PurgeStep DEF Contract!Next
  <2>5. ASSUME NEW n \in Live, queue_delete_node(n)
        PROVE  Inv' /\ Contract!Next
    BY <1>2, <2>5, DeleteStep DEF Contract!Next
  <2>6. CASE SaveMessages
    BY <1>2, <2>6, SaveStep DEF Contract!Next
  <2> QED
    BY <1>2, <2>1, <2>2, <2>3, <2>4, <2>5, <2>6 DEF Next
<1> QED
  BY <1>1, <1>2 DEF Next

(* No operation loses a node or cuts the queue, although pop and purge     *)
(* leave pointers to released nodes behind.                                *)
THEOREM WellLinkedCorrect == Spec => []WellLinked
<1>1. ASSUME Inv PROVE WellLinked
  <2> SUFFICES ASSUME ~ undefined PROVE WellLinked
    BY DEF WellLinked
  <2>1. PICK s : Chained(heap, head, tail, len, s)
    BY <1>1 DEF Inv
  <2>2. len \in Nat /\ len = Cardinality(Live)
    BY <1>1 DEF Inv
  <2>3. Forward = s
    <3>1. Forward = NextChain(heap, head, len)
      BY DEF Forward, NextChain
    <3> QED  BY <2>1, <2>2, <3>1, NextChainIs
  <2>4. Backward = [i \in 1 .. len |-> s[len + 1 - i]]
    <3>1. Backward = PrevChain(heap, tail, len)
      BY DEF Backward, PrevChain
    <3>2. PrevChain(heap, tail, len) = [i \in 1 .. len |-> s[len + 1 - i]]
      <4>1. len \in Nat
        BY <2>2
      <4> QED  BY <2>1, <4>1, PrevChainIs
    <3> QED  BY <3>1, <3>2
  <2>5. \A i \in 1 .. len : Forward[i] = Backward[len + 1 - i]
    <3>1. \A i \in 1 .. len :
            len + 1 - i \in 1 .. len /\ len + 1 - (len + 1 - i) = i
      BY <2>2
    <3> QED  BY <2>3, <2>4, <3>1
  <2>6. {Forward[i] : i \in 1 .. len} = Live
    <3>1. /\ \A i \in 1 .. len : s[i] \in Live
          /\ \A n \in Live : \E i \in 1 .. len : s[i] = n
      BY <2>1 DEF Chained, Live
    <3> QED  BY <2>3, <3>1
  <2>7. len > 0 => heap[head].prev = NULL
    BY <2>1 DEF Chained
  <2> QED  BY <2>2, <2>5, <2>6, <2>7 DEF WellLinked
<1> QED
  BY <1>1, InitInv, NextStep, PTL DEF Spec

(* The linked queue implements the contract by which MessageQueue uses it. *)
THEOREM ImplementsDequeCorrect == Spec => ImplementsDeque
<1> QED
  BY InitInv, NextStep, PTL DEF Spec, ImplementsDeque, Contract!Spec

-----------------------------------------------------------------------------
(* Storage *)

(* The messages of a queue after the first i of v were pushed to it: the   *)
(* newest first, and at most max_msg.                                      *)
Pushed(v, i) ==
    [j \in 1 .. (IF i <= max_msg THEN i ELSE max_msg) |->
        IF i <= max_msg \/ force_push THEN v[i - j + 1]
        ELSE v[max_msg - j + 1]]

(* The length and the elements of such a list. *)
LEMMA PushedFacts ==
    ASSUME max_msg \in Nat \ {0}, NEW v \in Seq(Messages),
           NEW n \in Nat, n = Len(v), NEW i \in 0 .. n
    PROVE  /\ Pushed(v, i) \in Seq(Messages)
           /\ Len(Pushed(v, i)) = IF i <= max_msg THEN i ELSE max_msg
           /\ \A j \in 1 .. (IF i <= max_msg THEN i ELSE max_msg) :
                Pushed(v, i)[j] = IF i <= max_msg \/ force_push
                                  THEN v[i - j + 1] ELSE v[max_msg - j + 1]
<1>1. PICK k \in Nat : k = IF i <= max_msg THEN i ELSE max_msg
  OBVIOUS
<1> DEFINE e(j) == IF i <= max_msg \/ force_push THEN v[i - j + 1]
                   ELSE v[max_msg - j + 1]
<1>2. ASSUME NEW j \in 1 .. k PROVE e(j) \in Messages
  <2>1. CASE i <= max_msg \/ force_push
    <3>1. i - j + 1 \in 1 .. n
      BY <1>1
    <3> QED  BY <2>1, <3>1
  <2>2. CASE ~(i <= max_msg \/ force_push)
    <3>1. max_msg - j + 1 \in 1 .. n
      BY <1>1, <2>2
    <3> QED  BY <2>2, <3>1
  <2> QED  BY <2>1, <2>2
<1> HIDE DEF e
<1>3. /\ [j \in 1 .. k |-> e(j)] \in Seq(Messages)
      /\ Len([j \in 1 .. k |-> e(j)]) = k
  BY <1>2
<1>4. Pushed(v, i) = [j \in 1 .. k |-> e(j)]
  BY <1>1 DEF Pushed, e
<1>5. \A j \in 1 .. k : Pushed(v, i)[j] = e(j)
  BY <1>4
<1> QED
  BY <1>1, <1>3, <1>4, <1>5 DEF e

(* A message before a list. *)
IsCons(c, x, s) ==
    /\ c = <<x>> \o s /\ Len(c) = Len(s) + 1 /\ c[1] = x
    /\ \A k \in 2 .. Len(s) + 1 : c[k] = s[k - 1]

(* There is such a list. *)
LEMMA ConsElements ==
    ASSUME NEW S, NEW s \in Seq(S), NEW x \in S
    PROVE  \E c \in Seq(S) : IsCons(c, x, s)
<1>1. <<x>> \o s \in Seq(S) /\ Len(<<x>> \o s) = Len(s) + 1
  OBVIOUS
<1>2. (<<x>> \o s)[1] = x
  OBVIOUS
<1>3. \A k \in 2 .. Len(s) + 1 : (<<x>> \o s)[k] = s[k - 1]
  OBVIOUS
<1> QED  BY <1>1, <1>2, <1>3 DEF IsCons

(* One push. *)
LEMMA PushedNext ==
    ASSUME max_msg \in Nat \ {0}, NEW v \in Seq(Messages),
           NEW n \in Nat, n = Len(v), NEW i \in 1 .. n
    PROVE  push_message_queue_t(Pushed(v, i - 1), v[i]) = Pushed(v, i)
<1> DEFINE s == Pushed(v, i - 1)
           t == Pushed(v, i)
           x == v[i]
<1>0. x \in Messages
  OBVIOUS
<1>1. /\ s \in Seq(Messages)
      /\ Len(s) = IF i - 1 <= max_msg THEN i - 1 ELSE max_msg
      /\ \A j \in 1 .. (IF i - 1 <= max_msg THEN i - 1 ELSE max_msg) :
           s[j] = IF i - 1 <= max_msg \/ force_push
                  THEN v[(i - 1) - j + 1] ELSE v[max_msg - j + 1]
  <2>1. PICK h \in 0 .. n : h = i - 1
    OBVIOUS
  <2>2. /\ Pushed(v, h) \in Seq(Messages)
        /\ Len(Pushed(v, h)) = IF h <= max_msg THEN h ELSE max_msg
        /\ \A j \in 1 .. (IF h <= max_msg THEN h ELSE max_msg) :
             Pushed(v, h)[j] = IF h <= max_msg \/ force_push
                               THEN v[h - j + 1] ELSE v[max_msg - j + 1]
    BY PushedFacts
  <2> QED  BY <2>1, <2>2
<1>2. /\ t \in Seq(Messages)
      /\ Len(t) = IF i <= max_msg THEN i ELSE max_msg
      /\ \A j \in 1 .. (IF i <= max_msg THEN i ELSE max_msg) :
           t[j] = IF i <= max_msg \/ force_push
                  THEN v[i - j + 1] ELSE v[max_msg - j + 1]
  <2>1. i \in 0 .. n
    OBVIOUS
  <2> QED  BY <2>1, PushedFacts
<1> HIDE DEF s, t, x
<1>3. CASE i - 1 < max_msg
  <2>1. push_message_queue_t(s, x) = <<x>> \o s
    <3>1. Len(s) < max_msg
      BY <1>1, <1>3
    <3> QED  BY <3>1 DEF push_message_queue_t
  <2>2. PICK c \in Seq(Messages) :
          /\ c = <<x>> \o s /\ Len(c) = Len(s) + 1 /\ c[1] = x
          /\ \A k \in 2 .. Len(s) + 1 : c[k] = s[k - 1]
    <3>1. \E c \in Seq(Messages) : IsCons(c, x, s)
      BY <1>0, <1>1, ConsElements
    <3> QED  BY <3>1 DEF IsCons
  <2>3. Len(c) = i /\ Len(t) = i
    BY <1>1, <1>2, <1>3, <2>2
  <2>4. ASSUME NEW k \in 1 .. i PROVE c[k] = t[k]
    <3>1. t[k] = v[i - k + 1]
      BY <1>2, <1>3
    <3>2. CASE k = 1
      BY <2>2, <3>1, <3>2 DEF x
    <3>3. CASE k # 1
      <4>1. c[k] = s[k - 1]
        <5>1. k \in 2 .. Len(s) + 1
          BY <2>2, <2>3, <3>3
        <5> QED  BY <2>2, <5>1
      <4>2. k - 1 \in 1 .. i - 1
        BY <3>3
      <4>3. s[k - 1] = v[(i - 1) - (k - 1) + 1]
        BY <1>1, <1>3, <4>2
      <4>4. (i - 1) - (k - 1) + 1 = i - k + 1
        OBVIOUS
      <4> QED  BY <3>1, <4>1, <4>3, <4>4
    <3> QED  BY <3>2, <3>3
  <2>5. c = t
    BY <1>2, <2>3, <2>4, SameSequence
  <2> QED  BY <2>1, <2>2, <2>5 DEF s, t, x
<1>4. CASE i - 1 >= max_msg /\ force_push
  <2>1. push_message_queue_t(s, x) = <<x>> \o AllButLast(s)
    BY <1>1, <1>4 DEF push_message_queue_t
  <2>2. s # <<>> /\ Len(s) = max_msg
    BY <1>1, <1>4
  <2>3. PICK b \in Seq(Messages) :
          /\ b = AllButLast(s) /\ Len(b) = max_msg - 1
          /\ \A k \in DOMAIN b : k \in DOMAIN s /\ b[k] = s[k]
    BY <1>1, <2>2, AllButLastFacts
  <2>4. PICK c \in Seq(Messages) :
          /\ c = <<x>> \o b /\ Len(c) = Len(b) + 1 /\ c[1] = x
          /\ \A k \in 2 .. Len(b) + 1 : c[k] = b[k - 1]
    <3>1. \E c \in Seq(Messages) : IsCons(c, x, b)
      BY <1>0, ConsElements
    <3> QED  BY <3>1 DEF IsCons
  <2>5. Len(c) = max_msg /\ Len(t) = max_msg
    BY <1>2, <1>4, <2>3, <2>4
  <2>6. ASSUME NEW k \in 1 .. max_msg PROVE c[k] = t[k]
    <3>1. t[k] = v[i - k + 1]
      BY <1>2, <1>4
    <3>2. CASE k = 1
      BY <2>4, <3>1, <3>2 DEF x
    <3>3. CASE k # 1
      <4>0. k \in 2 .. Len(b) + 1
        BY <2>3, <3>3
      <4>1. c[k] = b[k - 1] /\ k - 1 \in DOMAIN b
        BY <2>4, <4>0
      <4>2. b[k - 1] = s[k - 1] /\ k - 1 \in 1 .. max_msg
        BY <2>3, <3>3, <4>1
      <4>3. s[k - 1] = v[(i - 1) - (k - 1) + 1]
        BY <1>1, <1>4, <4>2
      <4>4. (i - 1) - (k - 1) + 1 = i - k + 1
        OBVIOUS
      <4> QED  BY <3>1, <4>1, <4>2, <4>3, <4>4
    <3> QED  BY <3>2, <3>3
  <2>7. c = t
    BY <1>2, <2>5, <2>6, SameSequence
  <2> QED  BY <2>1, <2>3, <2>4, <2>7 DEF s, t, x
<1>5. CASE i - 1 >= max_msg /\ ~force_push
  <2>1. push_message_queue_t(s, x) = s
    BY <1>1, <1>5 DEF push_message_queue_t
  <2>2. Len(s) = max_msg /\ Len(t) = max_msg
    BY <1>1, <1>2, <1>5
  <2>3. ASSUME NEW k \in 1 .. max_msg PROVE s[k] = t[k]
    <3>1. t[k] = v[max_msg - k + 1]
      BY <1>2, <1>5
    <3>2. s[k] = v[max_msg - k + 1]
      BY <1>1, <1>5
    <3> QED  BY <3>1, <3>2
  <2>4. s = t
    BY <1>1, <1>2, <2>2, <2>3, SameSequence
  <2> QED  BY <2>1, <2>4 DEF s, t, x
<1> QED
  BY <1>3, <1>4, <1>5

(* What storage_load_queue makes of the messages v of a saved queue. *)
LEMMA LoadQueuePushed ==
    ASSUME max_msg \in Nat \ {0}, NEW v \in Seq(Messages)
    PROVE  storage_load_queue(v) =
             [durable |-> TRUE, messages |-> Pushed(v, Len(v))]
<1>1. PICK n \in Nat : n = Len(v)
  OBVIOUS
<1> DEFINE E(after) ==
             [i \in 0 .. n |-> IF i = 0 THEN << >>
                               ELSE push_message_queue_t(after[i - 1], v[i])]
           h == CHOOSE after : after = E(after)
           g == [i \in 0 .. n |-> Pushed(v, i)]
<1>2. g = E(g)
  <2>1. ASSUME NEW i \in 0 .. n PROVE g[i] = E(g)[i]
    <3>1. CASE i = 0
      <4>1. Pushed(v, 0) = << >>
        <5>1. /\ Pushed(v, 0) \in Seq(Messages)
              /\ Len(Pushed(v, 0)) = IF 0 <= max_msg THEN 0 ELSE max_msg
          BY <1>1, PushedFacts
        <5> QED  BY <5>1
      <4> QED  BY <3>1, <4>1
    <3>2. CASE i # 0
      <4>1. i \in 1 .. n /\ i - 1 \in 0 .. n
        BY <3>2
      <4>2. push_message_queue_t(Pushed(v, i - 1), v[i]) = Pushed(v, i)
        BY <1>1, <4>1, PushedNext
      <4>3. g[i - 1] = Pushed(v, i - 1) /\ g[i] = Pushed(v, i)
        BY <4>1
      <4> HIDE DEF g
      <4> QED  BY <3>2, <4>2, <4>3
    <3> QED  BY <3>1, <3>2
  <2> QED  BY <2>1
<1>3. h = E(h)
  <2> HIDE DEF g, E
  <2> QED  BY <1>2
<1>4. storage_load_queue(v) = [durable |-> TRUE, messages |-> h[n]]
  BY <1>1 DEF storage_load_queue
<1>5. /\ h[0] = << >>
      /\ \A i \in 1 .. n : h[i] = push_message_queue_t(h[i - 1], v[i])
  <2> HIDE DEF h
  <2> QED  BY <1>3
<1> HIDE DEF h
<1> DEFINE B == {i \in 0 .. n : h[i] # Pushed(v, i)}
<1>6. B = {}
  <2>1. SUFFICES ASSUME B # {} PROVE FALSE
    OBVIOUS
  <2>2. PICK i \in B : \A j \in B : i <= j
    <3>1. B \subseteq Nat
      OBVIOUS
    <3> HIDE DEF B
    <3> QED  BY <2>1, <3>1, LeastNatural
  <2>3. i \in 0 .. n /\ h[i] # Pushed(v, i)
    OBVIOUS
  <2>4. i # 0
    <3>1. /\ Pushed(v, 0) \in Seq(Messages)
          /\ Len(Pushed(v, 0)) = IF 0 <= max_msg THEN 0 ELSE max_msg
      BY <1>1, PushedFacts
    <3> QED  BY <1>5, <2>3, <3>1
  <2>5. i \in 1 .. n /\ i - 1 \in 0 .. n /\ i - 1 \notin B
    BY <2>2, <2>3, <2>4
  <2>6. h[i - 1] = Pushed(v, i - 1)
    BY <2>5
  <2>7. push_message_queue_t(Pushed(v, i - 1), v[i]) = Pushed(v, i)
    BY <1>1, <2>5, PushedNext
  <2> QED  BY <1>5, <2>3, <2>5, <2>6, <2>7
<1>7. h[n] = Pushed(v, n)
  BY <1>6
<1> QED
  BY <1>1, <1>4, <1>7

(* A queue whose messages s were written from the tail is restored with    *)
(* its messages in their order, those that are kept.                       *)
LEMMA LoadQueueKept ==
    ASSUME max_msg \in Nat \ {0}, NEW s \in Seq(Messages)
    PROVE  /\ storage_load_queue(FromTail(s)) =
                [durable |-> TRUE, messages |-> Kept(s)]
           /\ Kept(s) \in Seq(Messages)
<1>1. PICK n \in Nat : n = Len(s)
  OBVIOUS
<1>2. PICK v \in Seq(Messages) :
        /\ v = FromTail(s) /\ Len(v) = n
        /\ \A i \in 1 .. n : v[i] = s[n - i + 1]
  <2> DEFINE w == [i \in 1 .. n |-> s[n - i + 1]]
  <2>1. \A i \in 1 .. n : s[n - i + 1] \in Messages
    BY <1>1
  <2>2. w \in Seq(Messages) /\ Len(w) = n
    BY <2>1
  <2>3. w = FromTail(s)
    BY <1>1 DEF FromTail
  <2>4. \A i \in 1 .. n : w[i] = s[n - i + 1]
    OBVIOUS
  <2> HIDE DEF w
  <2> QED  BY <2>2, <2>3, <2>4
<1>3. /\ Pushed(v, n) \in Seq(Messages)
      /\ Len(Pushed(v, n)) = IF n <= max_msg THEN n ELSE max_msg
      /\ \A j \in 1 .. (IF n <= max_msg THEN n ELSE max_msg) :
           Pushed(v, n)[j] = IF n <= max_msg \/ force_push
                             THEN v[n - j + 1] ELSE v[max_msg - j + 1]
  <2>1. n \in 0 .. n
    OBVIOUS
  <2> QED  BY <1>2, <2>1, PushedFacts
<1>4. PICK t \in Seq(Messages) : t = Pushed(v, n)
  BY <1>3
<1>5. Kept(s) = t
  <2>1. CASE n <= max_msg
    <3>1. Kept(s) = s
      BY <1>1, <2>1 DEF Kept
    <3>2. Len(t) = n /\ \A j \in 1 .. n : t[j] = v[n - j + 1]
      BY <1>3, <1>4, <2>1
    <3>3. \A j \in 1 .. n : t[j] = s[j]
      <4> TAKE j \in 1 .. n
      <4>1. n - j + 1 \in 1 .. n /\ n - (n - j + 1) + 1 = j
        OBVIOUS
      <4> QED  BY <1>2, <3>2, <4>1
    <3>4. s = t
      BY <1>1, <3>2, <3>3, SameSequence
    <3> QED  BY <3>1, <3>4
  <2>2. CASE n > max_msg /\ force_push
    <3>1. Kept(s) = SubSeq(s, 1, max_msg)
      BY <1>1, <2>2 DEF Kept
    <3>2. PICK k \in Seq(Messages) : k = Kept(s) /\ Len(k) = max_msg
            /\ \A j \in 1 .. max_msg : k[j] = s[j]
      <4>1. 1 \in 1 .. n /\ max_msg \in 1 .. n
        BY <2>2
      <4>2. Kept(s) \in Seq(Messages) /\ Len(Kept(s)) = max_msg
        BY <1>1, <2>2, <3>1, <4>1
      <4>3. \A j \in 1 .. max_msg : Kept(s)[j] = s[j]
        BY <1>1, <2>2, <3>1, <4>1
      <4> QED  BY <4>2, <4>3
    <3>3. Len(t) = max_msg /\ \A j \in 1 .. max_msg : t[j] = v[n - j + 1]
      BY <1>3, <1>4, <2>2
    <3>4. \A j \in 1 .. max_msg : k[j] = t[j]
      <4> TAKE j \in 1 .. max_msg
      <4>1. n - j + 1 \in 1 .. n /\ n - (n - j + 1) + 1 = j
        BY <2>2
      <4> QED  BY <1>2, <3>2, <3>3, <4>1
    <3>5. k = t
      BY <3>2, <3>3, <3>4, SameSequence
    <3> QED  BY <3>2, <3>5
  <2>3. CASE n > max_msg /\ ~force_push
    <3>1. Kept(s) = SubSeq(s, n - max_msg + 1, n)
      BY <1>1, <2>3 DEF Kept
    <3>2. PICK k \in Seq(Messages) : k = Kept(s) /\ Len(k) = max_msg
            /\ \A j \in 1 .. max_msg : k[j] = s[n - max_msg + j]
      <4>1. n - max_msg + 1 \in 1 .. n
        BY <2>3
      <4>2. Kept(s) \in Seq(Messages) /\ Len(Kept(s)) = max_msg
        BY <1>1, <2>3, <3>1, <4>1
      <4>3. \A j \in 1 .. max_msg : Kept(s)[j] = s[n - max_msg + j]
        BY <1>1, <2>3, <3>1, <4>1
      <4> QED  BY <4>2, <4>3
    <3>3. Len(t) = max_msg /\ \A j \in 1 .. max_msg : t[j] = v[max_msg - j + 1]
      BY <1>3, <1>4, <2>3
    <3>4. \A j \in 1 .. max_msg : k[j] = t[j]
      <4> TAKE j \in 1 .. max_msg
      <4>1. /\ max_msg - j + 1 \in 1 .. n
            /\ n - (max_msg - j + 1) + 1 = n - max_msg + j
        BY <2>3
      <4> QED  BY <1>2, <3>2, <3>3, <4>1
    <3>5. k = t
      BY <3>2, <3>3, <3>4, SameSequence
    <3> QED  BY <3>2, <3>5
  <2> QED  BY <2>1, <2>2, <2>3
<1>6. storage_load_queue(v) = [durable |-> TRUE, messages |-> Pushed(v, n)]
  BY <1>2, LoadQueuePushed
<1> QED
  BY <1>2, <1>4, <1>5, <1>6

(* The memory that a server makes of the file of the memory o. *)
QueuesOf(o) ==
    [q \in Durable(o.queues) |->
        [durable |-> TRUE, messages |-> Kept(o.queues[q].messages)]]

(* The routes have those of their bindings that are to durable queues. *)
RoutesOf(o) ==
    [r \in Durable(o.routes) |->
        [durable |-> TRUE, keys |-> o.routes[r].keys \cap Durable(o.queues)]]

(* The channels have nothing but their names. *)
ChannelsOf(o) == [c \in Durable(o.channels) |-> [durable |-> TRUE]]

(* A memory, from its parts. *)
MemoryOf(u, q, r, c) ==
    [users |-> u, queues |-> q, routes |-> r, channels |-> c]

(* A memory that a server can have. *)
MemoryOK(m) ==
    /\ m = MemoryOf(m.users, m.queues, m.routes, m.channels)
    /\ m.users \in [Users \cup {Admin} -> Nat] /\ m.users[Admin] = 1
    /\ m.queues \in [DOMAIN m.queues ->
                        [durable : BOOLEAN, messages : Seq(Messages)]]
    /\ m.routes \in [DOMAIN m.routes ->
                        [durable : BOOLEAN, keys : SUBSET DOMAIN m.queues]]
    /\ m.channels \in [DOMAIN m.channels -> [durable : BOOLEAN]]
    /\ DOMAIN m.queues \subseteq Queues
    /\ DOMAIN m.routes \subseteq Routes
    /\ DOMAIN m.channels \subseteq Channels

(* storage_load_user for every user, beside the administrator. *)
LEMMA LoadUsers ==
    ASSUME StorageAssumption, NEW o, MemoryOK(o)
    PROVE  LoadSection(Fresh, storage_save_users(o)) =
             MemoryOf(o.users, << >>, << >>, << >>)
<1> DEFINE fu == [u \in Users \cup {Admin} |-> IF u = Admin THEN 1 ELSE 0]
           b == [u \in Users |-> o.users[u]]
<1>1. Fresh = MemoryOf(fu, << >>, << >>, << >>)
  BY DEF Fresh, NoMemory, MemoryOf
<1>2. /\ storage_save_users(o).type = "user"
      /\ storage_save_users(o).objects = b
  BY DEF storage_save_users, Section
<1>3. [u \in DOMAIN fu |-> fu[u] + (IF u \in DOMAIN b THEN b[u] ELSE 0)]
        = o.users
  <2>1. /\ o.users \in [Users \cup {Admin} -> Nat] /\ o.users[Admin] = 1
        /\ Admin \notin Users
    BY DEF MemoryOK, StorageAssumption
  <2>2. DOMAIN fu = Users \cup {Admin} /\ DOMAIN b = Users
    OBVIOUS
  <2>3. ASSUME NEW u \in Users \cup {Admin}
        PROVE  fu[u] + (IF u \in Users THEN b[u] ELSE 0) = o.users[u]
    <3>1. CASE u = Admin
      BY <2>1, <3>1
    <3>2. CASE u # Admin
      <4>1. u \in Users /\ o.users[u] \in Nat
        BY <2>1, <3>2
      <4> QED  BY <3>2, <4>1
    <3> QED  BY <3>1, <3>2
  <2> HIDE DEF fu, b
  <2> QED  BY <2>1, <2>2, <2>3
<1> HIDE DEF fu, b
<1>4. PICK s : s = storage_save_users(o)
  OBVIOUS
<1>5. LoadSection(Fresh, s) =
        [Fresh EXCEPT !.users = [u \in DOMAIN Fresh.users |->
           Fresh.users[u] + (IF u \in DOMAIN s.objects THEN s.objects[u] ELSE 0)]]
  BY <1>2, <1>4 DEF LoadSection
<1>6. Fresh.users = fu
  BY <1>1 DEF MemoryOf
<1>7. LoadSection(Fresh, s) = [Fresh EXCEPT !.users = o.users]
  BY <1>2, <1>3, <1>4, <1>5, <1>6
<1> QED
  BY <1>1, <1>4, <1>7 DEF MemoryOf

(* storage_load_queue for every queue. *)
LEMMA LoadQueues ==
    ASSUME StorageAssumption, NEW o, MemoryOK(o), NEW u
    PROVE  LoadSection(MemoryOf(u, << >>, << >>, << >>),
                       storage_save_queues(o)) =
             MemoryOf(u, QueuesOf(o), << >>, << >>)
<1> DEFINE b == [q \in Durable(o.queues) |-> FromTail(o.queues[q].messages)]
           l == [q \in DOMAIN b |-> storage_load_queue(b[q])]
<1>1. /\ storage_save_queues(o).type = "queue"
      /\ storage_save_queues(o).objects = b
  BY DEF storage_save_queues, Section
<1>2. l = QueuesOf(o)
  <2>1. ASSUME NEW q \in Durable(o.queues)
        PROVE  storage_load_queue(FromTail(o.queues[q].messages)) =
                 [durable |-> TRUE, messages |-> Kept(o.queues[q].messages)]
    <3>1. PICK s \in Seq(Messages) : s = o.queues[q].messages
      BY DEF MemoryOK, Durable
    <3>2. max_msg \in Nat \ {0}
      BY DEF StorageAssumption
    <3> QED  BY <3>1, <3>2, LoadQueueKept
  <2> QED  BY <2>1 DEF QueuesOf
<1>3. And(<< >>, l) = l
  BY DEF And
<1> HIDE DEF b, l
<1>4. PICK s : s = storage_save_queues(o)
  OBVIOUS
<1>5. PICK m : m = MemoryOf(u, << >>, << >>, << >>)
  OBVIOUS
<1>6. LoadSection(m, s) = [m EXCEPT !.queues = And(m.queues,
        [q \in DOMAIN s.objects |-> storage_load_queue(s.objects[q])])]
  BY <1>1, <1>4 DEF LoadSection
<1>7. m.queues = << >>
  BY <1>5 DEF MemoryOf
<1>8. [q \in DOMAIN s.objects |-> storage_load_queue(s.objects[q])] = l
  BY <1>1, <1>4 DEF l
<1>9. LoadSection(m, s) = [m EXCEPT !.queues = QueuesOf(o)]
  BY <1>2, <1>3, <1>6, <1>7, <1>8
<1> QED
  BY <1>4, <1>5, <1>9 DEF MemoryOf

(* storage_load_route, after the queues are there. *)
LEMMA LoadRoutes ==
    ASSUME StorageAssumption, NEW o, MemoryOK(o), NEW u
    PROVE  LoadSection(MemoryOf(u, QueuesOf(o), << >>, << >>),
                       storage_save_routes(o)) =
             MemoryOf(u, QueuesOf(o), RoutesOf(o), << >>)
<1> DEFINE b == [r \in Durable(o.routes) |-> o.routes[r].keys]
<1>1. /\ storage_save_routes(o).type = "route"
      /\ storage_save_routes(o).objects = b
  BY DEF storage_save_routes, Section
<1>4. PICK s : s = storage_save_routes(o)
  OBVIOUS
<1>5. PICK m : m = MemoryOf(u, QueuesOf(o), << >>, << >>)
  OBVIOUS
<1> DEFINE l == [r \in DOMAIN b |-> storage_load_route(m, b[r])]
<1>7. m.routes = << >> /\ m.queues = QueuesOf(o)
  BY <1>5 DEF MemoryOf
<1>2. l = RoutesOf(o)
  <2>1. DOMAIN m.queues = Durable(o.queues)
    BY <1>7 DEF QueuesOf
  <2> QED  BY <2>1 DEF RoutesOf, storage_load_route
<1>3. And(<< >>, l) = l
  BY DEF And
<1> HIDE DEF b, l
<1>6. LoadSection(m, s) = [m EXCEPT !.routes = And(m.routes,
        [r \in DOMAIN s.objects |-> storage_load_route(m, s.objects[r])])]
  BY <1>1, <1>4 DEF LoadSection
<1>8. [r \in DOMAIN s.objects |-> storage_load_route(m, s.objects[r])] = l
  BY <1>1, <1>4 DEF l
<1>9. LoadSection(m, s) = [m EXCEPT !.routes = RoutesOf(o)]
  BY <1>2, <1>3, <1>6, <1>7, <1>8
<1> QED
  BY <1>4, <1>5, <1>9 DEF MemoryOf

(* storage_load_channel. *)
LEMMA LoadChannels ==
    ASSUME StorageAssumption, NEW o, MemoryOK(o), NEW u, NEW qs, NEW rs
    PROVE  LoadSection(MemoryOf(u, qs, rs, << >>), storage_save_channels(o)) =
             MemoryOf(u, qs, rs, ChannelsOf(o))
<1> DEFINE b == [c \in Durable(o.channels) |-> Null]
           l == [c \in DOMAIN b |-> [durable |-> TRUE]]
<1>1. /\ storage_save_channels(o).type = "channel"
      /\ storage_save_channels(o).objects = b
  BY DEF storage_save_channels, Section
<1>2. l = ChannelsOf(o)
  BY DEF ChannelsOf
<1>3. And(<< >>, l) = l
  BY DEF And
<1> HIDE DEF b, l
<1>4. PICK s : s = storage_save_channels(o)
  OBVIOUS
<1>5. PICK m : m = MemoryOf(u, qs, rs, << >>)
  OBVIOUS
<1>6. LoadSection(m, s) = [m EXCEPT !.channels = And(m.channels,
        [c \in DOMAIN s.objects |-> [durable |-> TRUE]])]
  BY <1>1, <1>4 DEF LoadSection
<1>7. m.channels = << >>
  BY <1>5 DEF MemoryOf
<1>8. [c \in DOMAIN s.objects |-> [durable |-> TRUE]] = l
  BY <1>1, <1>4 DEF l
<1>9. LoadSection(m, s) = [m EXCEPT !.channels = ChannelsOf(o)]
  BY <1>2, <1>3, <1>6, <1>7, <1>8
<1> QED
  BY <1>4, <1>5, <1>9 DEF MemoryOf

(* What a server makes of the file f that was written of the memory o. *)
LEMMA LoadWritten ==
    ASSUME StorageAssumption, NEW o, MemoryOK(o),
           NEW f, f # Null, f.sections = Written(o)
    PROVE  Load(Fresh, f) =
             MemoryOf(o.users, QueuesOf(o), RoutesOf(o), ChannelsOf(o))
<1>1. /\ f.sections[1] = storage_save_users(o)
      /\ f.sections[2] = storage_save_queues(o)
      /\ f.sections[3] = storage_save_routes(o)
      /\ f.sections[4] = storage_save_channels(o)
  BY DEF Written
<1>2. LoadSection(Fresh, f.sections[1]) = MemoryOf(o.users, << >>, << >>, << >>)
  BY <1>1, LoadUsers
<1>3. LoadSection(LoadSection(Fresh, f.sections[1]), f.sections[2]) =
        MemoryOf(o.users, QueuesOf(o), << >>, << >>)
  BY <1>1, <1>2, LoadQueues
<1>4. LoadSection(LoadSection(LoadSection(Fresh, f.sections[1]),
                              f.sections[2]), f.sections[3]) =
        MemoryOf(o.users, QueuesOf(o), RoutesOf(o), << >>)
  BY <1>1, <1>3, LoadRoutes
<1>5. LoadSection(LoadSection(LoadSection(LoadSection(Fresh, f.sections[1]),
                              f.sections[2]), f.sections[3]), f.sections[4]) =
        MemoryOf(o.users, QueuesOf(o), RoutesOf(o), ChannelsOf(o))
  BY <1>1, <1>4, LoadChannels
<1> QED
  BY <1>5 DEF Load

(* It is one that a server can have. *)
LEMMA LoadedOK ==
    ASSUME StorageAssumption, NEW o, MemoryOK(o)
    PROVE  MemoryOK(MemoryOf(o.users, QueuesOf(o), RoutesOf(o), ChannelsOf(o)))
<1>1. PICK m : m = MemoryOf(o.users, QueuesOf(o), RoutesOf(o), ChannelsOf(o))
  OBVIOUS
<1>2. /\ m.users = o.users /\ m.queues = QueuesOf(o)
      /\ m.routes = RoutesOf(o) /\ m.channels = ChannelsOf(o)
  BY <1>1 DEF MemoryOf
<1>3. /\ m.users \in [Users \cup {Admin} -> Nat] /\ m.users[Admin] = 1
  BY <1>2 DEF MemoryOK
<1>4. QueuesOf(o) \in [Durable(o.queues) ->
                         [durable : BOOLEAN, messages : Seq(Messages)]]
  <2>1. ASSUME NEW q \in Durable(o.queues)
        PROVE  Kept(o.queues[q].messages) \in Seq(Messages)
    <3>1. PICK s \in Seq(Messages) : s = o.queues[q].messages
      BY DEF MemoryOK, Durable
    <3>2. max_msg \in Nat \ {0}
      BY DEF StorageAssumption
    <3> QED  BY <3>1, <3>2, LoadQueueKept
  <2> QED  BY <2>1 DEF QueuesOf
<1>5. DOMAIN QueuesOf(o) = Durable(o.queues)
  BY DEF QueuesOf
<1>6. RoutesOf(o) \in [DOMAIN RoutesOf(o) ->
                         [durable : BOOLEAN, keys : SUBSET DOMAIN QueuesOf(o)]]
  BY <1>5 DEF RoutesOf
<1>7. ChannelsOf(o) \in [DOMAIN ChannelsOf(o) -> [durable : BOOLEAN]]
  BY DEF ChannelsOf
<1>8. /\ DOMAIN QueuesOf(o) \subseteq Queues
      /\ DOMAIN RoutesOf(o) \subseteq Routes
      /\ DOMAIN ChannelsOf(o) \subseteq Channels
  BY DEF QueuesOf, RoutesOf, ChannelsOf, Durable, MemoryOK
<1>9. MemoryOK(m)
  BY <1>1, <1>2, <1>3, <1>4, <1>5, <1>6, <1>7, <1>8 DEF MemoryOK
<1> QED
  BY <1>1, <1>9

(* So is the memory after init_admin. *)
LEMMA FreshOK ==
    ASSUME StorageAssumption
    PROVE  MemoryOK(Fresh)
<1> DEFINE fu == [u \in Users \cup {Admin} |-> IF u = Admin THEN 1 ELSE 0]
<1>1. Fresh = MemoryOf(fu, << >>, << >>, << >>)
  BY DEF Fresh, NoMemory, MemoryOf
<1>2. fu \in [Users \cup {Admin} -> Nat] /\ fu[Admin] = 1
  OBVIOUS
<1> HIDE DEF fu
<1>3. /\ Fresh.users = fu /\ Fresh.queues = << >>
      /\ Fresh.routes = << >> /\ Fresh.channels = << >>
  BY <1>1 DEF MemoryOf
<1>4. DOMAIN << >> = {}
  OBVIOUS
<1>5. \A T : << >> \in [{} -> T]
  OBVIOUS
<1>6. PICK m : m = Fresh
  OBVIOUS
<1>7. MemoryOK(m)
  BY <1>1, <1>2, <1>3, <1>4, <1>5, <1>6 DEF MemoryOK
<1> QED
  BY <1>6, <1>7

(* What a request makes of such a memory is such a memory. *)
LEMMA MemoryMade ==
    ASSUME NEW u \in [Users \cup {Admin} -> Nat], u[Admin] = 1,
           NEW D \in SUBSET Queues,
           NEW q \in [D -> [durable : BOOLEAN, messages : Seq(Messages)]],
           NEW E \in SUBSET Routes,
           NEW r \in [E -> [durable : BOOLEAN, keys : SUBSET D]],
           NEW C \in SUBSET Channels, NEW c \in [C -> [durable : BOOLEAN]]
    PROVE  MemoryOK(MemoryOf(u, q, r, c))
<1>1. PICK m : m = MemoryOf(u, q, r, c)
  OBVIOUS
<1>2. m.users = u /\ m.queues = q /\ m.routes = r /\ m.channels = c
  BY <1>1 DEF MemoryOf
<1>3. MemoryOK(m)
  BY <1>1, <1>2 DEF MemoryOK
<1> QED
  BY <1>1, <1>3

(* A push makes a list of messages. *)
LEMMA PushType ==
    ASSUME max_msg \in Nat \ {0}, NEW s \in Seq(Messages), NEW x \in Messages
    PROVE  push_message_queue_t(s, x) \in Seq(Messages)
<1>1. <<x>> \o s \in Seq(Messages)
  OBVIOUS
<1>2. CASE Len(s) < max_msg
  BY <1>1, <1>2 DEF push_message_queue_t
<1>3. CASE ~ (Len(s) < max_msg)
  <2>1. s # <<>>
    BY <1>3
  <2>2. AllButLast(s) \in Seq(Messages)
    BY <2>1, AllButLastFacts
  <2>3. <<x>> \o AllButLast(s) \in Seq(Messages)
    BY <2>2
  <2> QED  BY <1>3, <2>3 DEF push_message_queue_t
<1> QED
  BY <1>2, <1>3

(* A new object beside others of its type. *)
LEMMA WithType ==
    ASSUME NEW D, NEW T, NEW f \in [D -> T], NEW x, NEW v \in T
    PROVE  With(f, x, v) \in [D \cup {x} -> T]
  BY DEF With, And

(* A memory of which one part changes. *)
LEMMA MemoryExcept ==
    ASSUME NEW m, NEW us, NEW qs, NEW rs, NEW cs, m = MemoryOf(us, qs, rs, cs)
    PROVE  /\ \A q : [m EXCEPT !.queues = q] = MemoryOf(us, q, rs, cs)
           /\ \A r : [m EXCEPT !.routes = r] = MemoryOf(us, qs, r, cs)
           /\ \A c : [m EXCEPT !.channels = c] = MemoryOf(us, qs, rs, c)
           /\ \A u : [m EXCEPT !.users = u] = MemoryOf(u, qs, rs, cs)
<1>1. \A q : [m EXCEPT !.queues = q] = MemoryOf(us, q, rs, cs)
  BY DEF MemoryOf
<1>2. \A r : [m EXCEPT !.routes = r] = MemoryOf(us, qs, r, cs)
  BY DEF MemoryOf
<1>3. \A c : [m EXCEPT !.channels = c] = MemoryOf(us, qs, rs, c)
  BY DEF MemoryOf
<1>4. \A u : [m EXCEPT !.users = u] = MemoryOf(u, qs, rs, cs)
  BY DEF MemoryOf
<1> QED  BY <1>1, <1>2, <1>3, <1>4

(* No memory of a server is Null. *)
LEMMA MemoryTyped ==
    ASSUME NEW m, MemoryOK(m)
    PROVE  m \in Memories
<1>1. m.queues \in Maps(Queues, [durable : BOOLEAN, messages : Seq(Messages)])
  BY DEF MemoryOK, Maps
<1>2. m.routes \in Maps(Routes, [durable : BOOLEAN, keys : SUBSET Queues])
  <2>1. m.routes \in [DOMAIN m.routes -> [durable : BOOLEAN, keys : SUBSET Queues]]
    BY DEF MemoryOK
  <2> QED  BY <2>1 DEF MemoryOK, Maps
<1>3. m.channels \in Maps(Channels, [durable : BOOLEAN])
  BY DEF MemoryOK, Maps
<1>4. /\ m = MemoryOf(m.users, m.queues, m.routes, m.channels)
      /\ m.users \in [Users \cup {Admin} -> Nat]
  BY DEF MemoryOK
<1> QED
  BY <1>1, <1>2, <1>3, <1>4 DEF Memories, MemoryOf

(* Each of the requests keeps a memory sound. *)
LEMMA ChangesOK ==
    ASSUME StorageAssumption, MemoryOK(mem), NEW m \in Changes
    PROVE  MemoryOK(m)
<1> DEFINE QT == [durable : BOOLEAN, messages : Seq(Messages)]
           RT(D) == [durable : BOOLEAN, keys : SUBSET D]
           CT == [durable : BOOLEAN]
<1>1. /\ mem = MemoryOf(mem.users, mem.queues, mem.routes, mem.channels)
      /\ mem.users \in [Users \cup {Admin} -> Nat] /\ mem.users[Admin] = 1
      /\ mem.queues \in [DOMAIN mem.queues -> QT]
      /\ mem.routes \in [DOMAIN mem.routes -> RT(DOMAIN mem.queues)]
      /\ mem.channels \in [DOMAIN mem.channels -> CT]
      /\ DOMAIN mem.queues \subseteq Queues
      /\ DOMAIN mem.routes \subseteq Routes
      /\ DOMAIN mem.channels \subseteq Channels
  BY DEF MemoryOK
<1>2. /\ \A q : [mem EXCEPT !.queues = q] =
                  MemoryOf(mem.users, q, mem.routes, mem.channels)
      /\ \A r : [mem EXCEPT !.routes = r] =
                  MemoryOf(mem.users, mem.queues, r, mem.channels)
      /\ \A c : [mem EXCEPT !.channels = c] =
                  MemoryOf(mem.users, mem.queues, mem.routes, c)
      /\ \A u : [mem EXCEPT !.users = u] =
                  MemoryOf(u, mem.queues, mem.routes, mem.channels)
  BY <1>1, MemoryExcept
<1>3. /\ max_msg \in Nat \ {0} /\ Admin \notin Users
  BY DEF StorageAssumption
<1>4. ASSUME NEW q \in Queues \ DOMAIN mem.queues, NEW d \in BOOLEAN,
             m = [mem EXCEPT !.queues =
                    With(mem.queues, q, [durable |-> d, messages |-> << >>])]
      PROVE  MemoryOK(m)
  <2>1. [durable |-> d, messages |-> << >>] \in QT
    OBVIOUS
  <2>2. With(mem.queues, q, [durable |-> d, messages |-> << >>])
          \in [DOMAIN mem.queues \cup {q} -> QT]
    BY <1>1, <2>1, WithType
  <2>3. mem.routes \in [DOMAIN mem.routes -> RT(DOMAIN mem.queues \cup {q})]
    BY <1>1
  <2>4. m = MemoryOf(mem.users, With(mem.queues, q,
                [durable |-> d, messages |-> << >>]), mem.routes, mem.channels)
    BY <1>2, <1>4
  <2> QED  BY <1>1, <2>2, <2>3, <2>4, MemoryMade
<1>5. ASSUME NEW q \in DOMAIN mem.queues, NEW s \in Seq(Messages),
             m = [mem EXCEPT !.queues = [mem.queues EXCEPT ![q].messages = s]]
      PROVE  MemoryOK(m)
  <2>1. [mem.queues EXCEPT ![q].messages = s] \in [DOMAIN mem.queues -> QT]
    BY <1>1
  <2>2. m = MemoryOf(mem.users, [mem.queues EXCEPT ![q].messages = s],
                     mem.routes, mem.channels)
    BY <1>2, <1>5
  <2> QED  BY <1>1, <2>1, <2>2, MemoryMade
<1>6. ASSUME NEW q \in DOMAIN mem.queues, NEW x \in Messages,
             m = [mem EXCEPT !.queues[q].messages = push_message_queue_t(@, x)]
      PROVE  MemoryOK(m)
  <2>1. PICK s \in Seq(Messages) : s = mem.queues[q].messages
    BY <1>1
  <2>2. PICK t \in Seq(Messages) : t = push_message_queue_t(s, x)
    BY <1>3, PushType
  <2>3. m = [mem EXCEPT !.queues = [mem.queues EXCEPT ![q].messages = t]]
    BY <1>1, <1>6, <2>1, <2>2 DEF MemoryOf
  <2> QED  BY <1>5, <2>3
<1>7. ASSUME NEW q \in DOMAIN mem.queues, NEW x \in Messages,
             NEW y \in Messages,
             m = [mem EXCEPT !.queues[q].messages = @ \o <<x, y>>]
      PROVE  MemoryOK(m)
  <2>1. PICK s \in Seq(Messages) : s = mem.queues[q].messages
    BY <1>1
  <2>2. PICK t \in Seq(Messages) : t = s \o <<x, y>>
    <3>1. <<x, y>> \in Seq(Messages)
      OBVIOUS
    <3>2. s \o <<x, y>> \in Seq(Messages)
      BY <3>1
    <3> QED  BY <3>2
  <2>3. m = [mem EXCEPT !.queues = [mem.queues EXCEPT ![q].messages = t]]
    BY <1>1, <1>7, <2>1, <2>2 DEF MemoryOf
  <2> QED  BY <1>5, <2>3
<1>8. ASSUME NEW r \in Routes \ DOMAIN mem.routes, NEW d \in BOOLEAN,
             m = [mem EXCEPT !.routes =
                    With(mem.routes, r, [durable |-> d, keys |-> {}])]
      PROVE  MemoryOK(m)
  <2>1. [durable |-> d, keys |-> {}] \in RT(DOMAIN mem.queues)
    OBVIOUS
  <2>2. With(mem.routes, r, [durable |-> d, keys |-> {}])
          \in [DOMAIN mem.routes \cup {r} -> RT(DOMAIN mem.queues)]
    BY <1>1, <2>1, WithType
  <2>3. m = MemoryOf(mem.users, mem.queues, With(mem.routes, r,
                [durable |-> d, keys |-> {}]), mem.channels)
    BY <1>2, <1>8
  <2> QED  BY <1>1, <2>2, <2>3, MemoryMade
<1>9. ASSUME NEW r \in DOMAIN mem.routes, NEW q \in DOMAIN mem.queues,
             m = [mem EXCEPT !.routes[r].keys = @ \cup {q}]
      PROVE  MemoryOK(m)
  <2>1. PICK k : k = mem.routes[r].keys \cup {q}
    OBVIOUS
  <2>2. k \subseteq DOMAIN mem.queues
    BY <1>1, <2>1
  <2>3. [mem.routes EXCEPT ![r].keys = k]
          \in [DOMAIN mem.routes -> RT(DOMAIN mem.queues)]
    BY <1>1, <2>2
  <2>4. m = [mem EXCEPT !.routes = [mem.routes EXCEPT ![r].keys = k]]
    BY <1>1, <1>9, <2>1 DEF MemoryOf
  <2>5. m = MemoryOf(mem.users, mem.queues,
                     [mem.routes EXCEPT ![r].keys = k], mem.channels)
    BY <1>2, <2>4
  <2> QED  BY <1>1, <2>3, <2>5, MemoryMade
<1>10. ASSUME NEW c \in Channels \ DOMAIN mem.channels, NEW d \in BOOLEAN,
              m = [mem EXCEPT !.channels =
                     With(mem.channels, c, [durable |-> d])]
       PROVE  MemoryOK(m)
  <2>1. [durable |-> d] \in CT
    OBVIOUS
  <2>2. With(mem.channels, c, [durable |-> d])
          \in [DOMAIN mem.channels \cup {c} -> CT]
    BY <1>1, <2>1, WithType
  <2>3. m = MemoryOf(mem.users, mem.queues, mem.routes,
                     With(mem.channels, c, [durable |-> d]))
    BY <1>2, <1>10
  <2> QED  BY <1>1, <2>2, <2>3, MemoryMade
<1>11. ASSUME NEW u \in Users, m = [mem EXCEPT !.users[u] = @ + 1]
       PROVE  MemoryOK(m)
  <2>1. PICK us : us = [mem.users EXCEPT ![u] = mem.users[u] + 1]
    OBVIOUS
  <2>2. us \in [Users \cup {Admin} -> Nat]
    BY <1>1, <2>1
  <2>3. us[Admin] = 1
    BY <1>1, <1>3, <2>1
  <2>4. m = [mem EXCEPT !.users = us]
    BY <1>1, <1>11, <2>1 DEF MemoryOf
  <2>5. m = MemoryOf(us, mem.queues, mem.routes, mem.channels)
    BY <1>2, <2>4
  <2> QED  BY <1>1, <2>2, <2>3, <2>5, MemoryMade
<1> DEFINE V1(q, d) == [mem EXCEPT !.queues =
                          With(@, q, [durable |-> d, messages |-> << >>])]
           V3(q, x, y) == [mem EXCEPT !.queues[q].messages = @ \o <<x, y>>]
           V4(r, d) == [mem EXCEPT !.routes =
                          With(@, r, [durable |-> d, keys |-> {}])]
           V6(c, d) == [mem EXCEPT !.channels = With(@, c, [durable |-> d])]
           K1 == {V1(q, d) : q \in Queues \ DOMAIN mem.queues, d \in BOOLEAN}
           K2 == {[mem EXCEPT !.queues[q].messages = push_message_queue_t(@, x)] :
                    q \in DOMAIN mem.queues, x \in Messages}
           K3 == {V3(q, x, y) :
                    q \in {p \in DOMAIN mem.queues :
                             Len(mem.queues[p].messages) < max_msg},
                    x, y \in Messages}
           K4 == {V4(r, d) : r \in Routes \ DOMAIN mem.routes, d \in BOOLEAN}
           K5 == {[mem EXCEPT !.routes[r].keys = @ \cup {q}] :
                    r \in DOMAIN mem.routes, q \in DOMAIN mem.queues}
           K6 == {V6(c, d) : c \in Channels \ DOMAIN mem.channels, d \in BOOLEAN}
           K7 == {[mem EXCEPT !.users[u] = @ + 1] :
                    u \in {v \in Users : mem.users[v] = 0}}
<1>12. Changes = K1 \cup K2 \cup K3 \cup K4 \cup K5 \cup K6 \cup K7
  BY DEF Changes
<1>13. m \in K1 => MemoryOK(m)
  <2>1. \A q \in Queues \ DOMAIN mem.queues, d \in BOOLEAN :
          m = V1(q, d) => MemoryOK(m)
    BY <1>4
  <2> HIDE DEF V1
  <2> QED  BY <2>1
<1>15. m \in K3 => MemoryOK(m)
  <2>1. \A q \in DOMAIN mem.queues, x \in Messages, y \in Messages :
          m = V3(q, x, y) => MemoryOK(m)
    BY <1>7
  <2> HIDE DEF V3
  <2> QED  BY <2>1
<1>14. m \in K2 => MemoryOK(m)
  BY <1>6
<1>16. m \in K4 => MemoryOK(m)
  <2>1. \A r \in Routes \ DOMAIN mem.routes, d \in BOOLEAN :
          m = V4(r, d) => MemoryOK(m)
    BY <1>8
  <2> HIDE DEF V4
  <2> QED  BY <2>1
<1>17. m \in K5 => MemoryOK(m)
  BY <1>9
<1>18. m \in K6 => MemoryOK(m)
  <2>1. \A c \in Channels \ DOMAIN mem.channels, d \in BOOLEAN :
          m = V6(c, d) => MemoryOK(m)
    BY <1>10
  <2> HIDE DEF V6
  <2> QED  BY <2>1
<1>19. m \in K7 => MemoryOK(m)
  BY <1>11
<1> HIDE DEF K1, K2, K3, K4, K5, K6, K7
<1> QED
  BY <1>12, <1>13, <1>14, <1>15, <1>16, <1>17, <1>18, <1>19

(* A file of a time not after now.  If there is something in it, it was    *)
(* made of such a memory, and if not, its flush has failed.                *)
FileOK(f, now) ==
    /\ f.at \in Nat /\ f.at <= now
    /\ Complete(f) \/ f.lost
    /\ Complete(f) => f.sections = Written(f.origin) /\ MemoryOK(f.origin)

(* A child: what it is going to write was the memory of a server, and what *)
(* it has written is such a file.                                          *)
ChildOK(x, now) ==
    /\ x.phase \in {"saving", "written", "exited"}
    /\ x.phase = "saving" => /\ MemoryOK(x.file.origin)
                             /\ x.file.at \in Nat /\ x.file.at <= now
    /\ x.phase = "written" => FileOK(x.file, now)

(* Only the child of the server saves, and no older state than that in the *)
(* file.                                                                   *)
InOrder ==
    \A p \in Saving :
        /\ p = child_pid
        /\ file # Null => procs[p].file.at >= file.at

(* The inductive invariant: a server that is up has a sound memory, the    *)
(* file and those of the children were made of such memories, and unless a *)
(* save was overtaken they are in order.                                   *)
StorageInv ==
    /\ mem # Null => MemoryOK(mem)
    /\ time \in Nat
    /\ file # Null => FileOK(file, time)
    /\ procs = [p \in Pids |-> procs[p]]
    /\ child_pid \in Pids \cup {Null}
    /\ mem = Null => child_pid = Null
    /\ \A p \in Pids : procs[p] # Null => ChildOK(procs[p], time)
    /\ ~ overtaken => InOrder

(* What is no newer than t is no newer than t + 1. *)
LEMMA LaterOK ==
    ASSUME NEW t \in Nat
    PROVE  /\ \A f : FileOK(f, t) => FileOK(f, t + 1)
           /\ \A x : ChildOK(x, t) => ChildOK(x, t + 1)
  BY DEF FileOK, ChildOK

(* What a flush leaves of a file of a sound memory. *)
LEMMA FlushedOK ==
    ASSUME NEW f, MemoryOK(f.origin), NEW t \in Nat, f.at \in Nat, f.at <= t,
           NEW done \in BOOLEAN
    PROVE  FileOK(Flush(f, done), t) /\ Flush(f, done).at = f.at
<1>1. PICK g : g = Flush(f, done)
  OBVIOUS
<1>2. g.at = f.at
  BY <1>1 DEF Flush
<1>3. CASE done
  <2>1. /\ g.sections = Written(f.origin) /\ g.origin = f.origin
    BY <1>1, <1>3 DEF Flush
  <2>2. Written(f.origin) # << >>
    BY DEF Written
  <2> QED  BY <1>1, <1>2, <2>1, <2>2 DEF FileOK, Complete
<1>4. CASE ~ done
  <2>1. g.sections = << >> /\ g.lost
    BY <1>1, <1>4 DEF Flush
  <2> QED  BY <1>1, <1>2, <2>1 DEF FileOK, Complete
<1> QED
  BY <1>3, <1>4

(* storage_save makes a file of the memory of now. *)
LEMMA MadeOK ==
    ASSUME NEW m, MemoryOK(m), NEW t \in Nat
    PROVE  /\ \A done \in BOOLEAN : /\ FileOK(Flush(File(m, t), done), t)
                                    /\ Flush(File(m, t), done).at = t
           /\ ChildOK([file |-> File(m, t), phase |-> "saving"], t)
           /\ [file |-> File(m, t), phase |-> "saving"].file.at = t
<1>1. PICK f : f = File(m, t)
  OBVIOUS
<1>2. f.origin = m /\ f.at = t
  BY <1>1 DEF File
<1>3. \A done \in BOOLEAN : FileOK(Flush(f, done), t) /\ Flush(f, done).at = t
  BY <1>2, FlushedOK
<1>4. PICK x : x = [file |-> f, phase |-> "saving"]
  OBVIOUS
<1>5. x.file = f /\ x.phase = "saving"
  BY <1>4
<1>6. ChildOK(x, t)
  BY <1>2, <1>5 DEF ChildOK
<1> QED
  BY <1>1, <1>2, <1>3, <1>4, <1>5, <1>6

(* The child has written its file. *)
LEMMA WrittenOK ==
    ASSUME NEW x, NEW t \in Nat, ChildOK(x, t), x.phase = "saving",
           NEW done \in BOOLEAN
    PROVE  /\ ChildOK([file |-> Flush(x.file, done), phase |-> "written"], t)
           /\ [file |-> Flush(x.file, done), phase |-> "written"].file.at
                = x.file.at
<1>1. PICK f : f = Flush(x.file, done)
  OBVIOUS
<1>2. FileOK(f, t) /\ f.at = x.file.at
  <2>1. PICK h : h = x.file
    OBVIOUS
  <2>2. MemoryOK(h.origin) /\ h.at \in Nat /\ h.at <= t
    BY <2>1 DEF ChildOK
  <2> QED  BY <1>1, <2>1, <2>2, FlushedOK
<1>3. PICK y : y = [file |-> f, phase |-> "written"]
  OBVIOUS
<1>4. y.file = f /\ y.phase = "written"
  BY <1>3
<1>5. ChildOK(y, t)
  BY <1>2, <1>4 DEF ChildOK
<1> QED
  BY <1>1, <1>2, <1>3, <1>4, <1>5

(* init_storage: the memory of a server that has started. *)
LEMMA StartedOK ==
    ASSUME StorageAssumption, NEW f, f # Null => FileOK(f, time),
           Loaded(f) # Null
    PROVE  MemoryOK(Loaded(f))
<1>1. Loaded(f) = Load(Fresh, f)
  BY DEF Loaded
<1>2. CASE f = Null
  BY <1>1, <1>2, FreshOK DEF Load
<1>3. CASE f # Null
  <2>1. PICK o : o = f.origin
    OBVIOUS
  <2>2. MemoryOK(o) /\ f.sections = Written(o)
    BY <1>3, <2>1 DEF FileOK, Loaded
  <2>3. Load(Fresh, f) =
          MemoryOf(o.users, QueuesOf(o), RoutesOf(o), ChannelsOf(o))
    BY <1>3, <2>2, LoadWritten
  <2> QED  BY <1>1, <2>2, <2>3, LoadedOK
<1> QED
  BY <1>2, <1>3

(* No server has run yet. *)
LEMMA StorageInvInit ==
    ASSUME StorageAssumption, StorageInit
    PROVE  StorageInv
<1>1. \A p \in Pids : procs[p] = Null
  BY DEF StorageInit
<1>2. Saving = {}
  BY <1>1 DEF Saving
<1>3. procs = [p \in Pids |-> procs[p]]
  BY DEF StorageInit
<1> QED
  BY <1>1, <1>2, <1>3 DEF StorageInv, StorageInit, InOrder

(* A child is forked: nobody else is saving, unless overtaken. *)
LEMMA StorageFork ==
    ASSUME StorageAssumption, StorageInv, mem # Null, NEW p \in Pids,
           ~ overtaken => \A s \in Saving : s = child_pid /\ procs'[s] = Null,
           UNCHANGED <<mem, file, time, overtaken>>,
           child_pid' = p,
           procs' = [s \in Pids |-> procs'[s]],
           procs'[p] = [file |-> File(mem, time), phase |-> "saving"],
           \A s \in Pids \ {p} : procs'[s] = procs[s] \/ procs'[s] = Null
    PROVE  StorageInv'
<1>1. MemoryOK(mem) /\ time \in Nat
  BY DEF StorageInv
<1>2. PICK x : x = [file |-> File(mem, time), phase |-> "saving"]
  OBVIOUS
<1>3. ChildOK(x, time) /\ x.file.at = time
  BY <1>1, <1>2, MadeOK
<1>4. \A s \in Pids : procs'[s] # Null => ChildOK(procs'[s], time)
  BY <1>2, <1>3 DEF StorageInv
<1>5. ~ overtaken => InOrder'
  <2> SUFFICES ASSUME ~ overtaken, NEW s \in Saving'
               PROVE  s = p /\ (file # Null => procs'[s].file.at >= file.at)
    BY DEF InOrder
  <2>1. s \in Pids /\ procs'[s] # Null /\ procs'[s].phase # "exited"
    BY DEF Saving
  <2>2. s = p
    <3> SUFFICES ASSUME s # p PROVE FALSE
      OBVIOUS
    <3>1. procs'[s] = procs[s]
      BY <2>1
    <3>2. s \in Saving
      BY <2>1, <3>1 DEF Saving
    <3> QED  BY <2>1, <3>2
  <2>3. file # Null => time >= file.at
    BY <1>1 DEF StorageInv, FileOK
  <2> QED  BY <1>2, <1>3, <2>2, <2>3
<1> QED
  BY <1>1, <1>4, <1>5 DEF StorageInv

(* A child ends, and the file is left or is its own one. *)
LEMMA StorageEnd ==
    ASSUME StorageAssumption, StorageInv, NEW p \in Saving, End(p),
           UNCHANGED <<mem, child_pid, time, overtaken>>,
           \/ file' = file
           \/ file' = procs[p].file /\ procs[p].phase = "written"
    PROVE  StorageInv'
<1>1. p \in Pids /\ procs[p] # Null /\ ChildOK(procs[p], time)
  BY DEF Saving, StorageInv
<1>2. PICK x : x = [file |-> Null, phase |-> "exited"]
  OBVIOUS
<1>3. PICK y : y = IF child_pid = p THEN x ELSE Null
  OBVIOUS
<1>4. y # Null => ChildOK(y, time) /\ y.phase = "exited"
  <2>1. x.phase = "exited"
    BY <1>2
  <2> QED  BY <1>3, <2>1 DEF ChildOK
<1>5. procs' = [procs EXCEPT ![p] = y]
  BY <1>2, <1>3 DEF End
<1>6. procs = [s \in Pids |-> procs[s]]
  BY DEF StorageInv
<1>7. /\ procs' = [s \in Pids |-> procs'[s]] /\ procs'[p] = y
      /\ \A s \in Pids \ {p} : procs'[s] = procs[s]
  BY <1>1, <1>5, <1>6
<1>8. \A s \in Pids : procs'[s] # Null => ChildOK(procs'[s], time)
  BY <1>4, <1>7 DEF StorageInv
<1>9. Saving' = Saving \ {p}
  BY <1>4, <1>7 DEF Saving
<1>10. ~ overtaken => InOrder'
  <2>1. ~ overtaken => Saving \subseteq {p}
    BY DEF StorageInv, InOrder
  <2> QED  BY <1>9, <2>1 DEF InOrder
<1>11. file' # Null => FileOK(file', time)
  BY <1>1 DEF StorageInv, ChildOK
<1> QED
  BY <1>7, <1>8, <1>10, <1>11 DEF StorageInv

(* Every step keeps the invariant. *)
LEMMA StorageInvNext ==
    ASSUME StorageAssumption, StorageInv, [StorageNext]_storageVars
    PROVE  StorageInv'
<1> USE DEF Up
<1>0. /\ Null \notin Pids /\ time \in Nat
      /\ procs = [s \in Pids |-> procs[s]]
  BY DEF StorageAssumption, StorageInv
<1>1. ASSUME Start PROVE StorageInv'
  <2>1. file' # Null => FileOK(file', time)
    <3>1. CASE file # Null
      BY <1>1, <3>1 DEF Start, StorageInv
    <3>2. CASE file = Null
      <4>1. \/ file' = Null
            \/ \E done \in BOOLEAN : file' = Flush(File(Fresh, time), done)
        BY <1>1, <3>2 DEF Start
      <4>2. \A done \in BOOLEAN : FileOK(Flush(File(Fresh, time), done), time)
        BY <1>0, FreshOK, MadeOK
      <4> QED  BY <4>1, <4>2
    <3> QED  BY <3>1, <3>2
  <2>2. mem' # Null => MemoryOK(mem')
    <3>1. PICK f : f = file'
      OBVIOUS
    <3>2. mem' = Loaded(f)
      BY <1>1, <3>1 DEF Start
    <3> QED  BY <2>1, <3>1, <3>2, StartedOK
  <2>3. ~ overtaken => Saving = {}
    BY <1>0, <1>1 DEF Start, StorageInv, InOrder, Saving
  <2>4. Saving' = Saving
    BY <1>1 DEF Start, Saving
  <2>5. ~ overtaken' => InOrder'
    BY <1>1, <2>3, <2>4 DEF Start, InOrder
  <2> QED  BY <1>1, <2>1, <2>2, <2>5 DEF Start, StorageInv
<1>2. ASSUME Change PROVE StorageInv'
  <2>1. MemoryOK(mem')
    <3>1. PICK m : m = mem'
      OBVIOUS
    <3>2. m \in Changes /\ MemoryOK(mem)
      BY <1>2, <3>1 DEF Change, StorageInv
    <3>3. MemoryOK(m)
      BY <3>2, ChangesOK
    <3> QED  BY <3>1, <3>3
  <2>2. time' = time + 1 /\ UNCHANGED <<file, child_pid, procs, overtaken>>
    BY <1>2 DEF Change
  <2>3. /\ file' # Null => FileOK(file', time')
        /\ \A p \in Pids : procs'[p] # Null => ChildOK(procs'[p], time')
    BY <1>0, <2>2, LaterOK DEF StorageInv
  <2>4. ~ overtaken' => InOrder'
    BY <2>2 DEF StorageInv, InOrder, Saving
  <2>5. mem' = Null => child_pid' = Null
    <3>1. mem' # Null
      BY <2>1, MemoryTyped DEF StorageAssumption
    <3> QED  BY <3>1
  <2> QED  BY <1>0, <2>1, <2>2, <2>3, <2>4, <2>5 DEF StorageInv
<1>3. ASSUME NEW c \in BOOLEAN, Save(c) PROVE StorageInv'
  <2>1. MemoryOK(mem)
    BY <1>3 DEF Save, StorageInv
  <2>2. FileOK(file', time)
    BY <1>0, <1>3, <2>1, MadeOK DEF Save
  <2>3. Saving' = Saving
    BY <1>3 DEF Save, Saving
  <2>4. ~ overtaken' => InOrder'
    BY <1>3, <2>3 DEF Save, InOrder
  <2> QED  BY <1>3, <2>2, <2>4 DEF Save, StorageInv
<1>4. ASSUME Reap PROVE StorageInv'
  <2>1. /\ child_pid \in Pids /\ procs[child_pid].phase = "exited"
        /\ procs' = [procs EXCEPT ![child_pid] = Null] /\ child_pid' = Null
        /\ UNCHANGED <<mem, file, time, overtaken>>
    BY <1>4 DEF Reap, Exited, StorageInv
  <2>2. /\ procs' = [s \in Pids |-> procs'[s]] /\ procs'[child_pid] = Null
        /\ \A s \in Pids \ {child_pid} : procs'[s] = procs[s]
    BY <1>0, <2>1
  <2>3. Saving' = Saving
    BY <2>1, <2>2 DEF Saving
  <2>4. ~ overtaken => Saving = {}
    BY <2>1 DEF StorageInv, InOrder, Saving
  <2>5. ~ overtaken' => InOrder'
    BY <2>1, <2>3, <2>4 DEF InOrder
  <2>6. \A s \in Pids : procs'[s] # Null => ChildOK(procs'[s], time')
    BY <2>1, <2>2 DEF StorageInv
  <2> QED  BY <2>1, <2>2, <2>5, <2>6 DEF StorageInv
<1>5. ASSUME NEW p \in Pids, storage_save_background(child_pid, p), mem # Null,
             UNCHANGED <<mem, file, time, overtaken>>
      PROVE  StorageInv'
  <2>1. /\ child_pid = Null /\ child_pid' = p
        /\ procs' = [procs EXCEPT ![p] =
                   [file |-> File(mem, time), phase |-> "saving"]]
    BY <1>5 DEF storage_save_background
  <2>2. ~ overtaken => Saving = {}
    BY <1>0, <2>1 DEF StorageInv, InOrder, Saving
  <2>3. PICK x : x = [file |-> File(mem, time), phase |-> "saving"]
    OBVIOUS
  <2>4. /\ procs' = [s \in Pids |-> procs'[s]] /\ procs'[p] = x
        /\ \A s \in Pids \ {p} : procs'[s] = procs[s]
    BY <1>0, <2>1, <2>3
  <2> QED  BY <1>5, <2>1, <2>2, <2>3, <2>4, StorageFork
<1>6. ASSUME NEW p \in Pids, SaveAsync(p) PROVE StorageInv'
  BY <1>5, <1>6 DEF SaveAsync
<1>7. ASSUME NEW p \in Pids, StorageTimeout(p) PROVE StorageInv'
  <2>1. mem # Null /\ UNCHANGED <<mem, file, time, overtaken>>
    BY <1>7 DEF StorageTimeout
  <2>2. CASE Exited(child_pid)
    <3>1. PICK x : x = [file |-> File(mem, time), phase |-> "saving"]
      OBVIOUS
    <3>2. /\ child_pid \in Pids /\ procs[child_pid].phase = "exited"
          /\ procs[p] = Null /\ child_pid' = p
          /\ procs' = [procs EXCEPT ![child_pid] = Null, ![p] = x]
      BY <1>7, <2>2, <3>1 DEF StorageTimeout, Exited, StorageInv
    <3>3. ~ overtaken => Saving = {}
      BY <3>2 DEF StorageInv, InOrder, Saving
    <3>4. procs' = [[procs EXCEPT ![child_pid] = Null] EXCEPT ![p] = x]
      BY <3>2
    <3>5. /\ procs' = [s \in Pids |-> procs'[s]] /\ procs'[p] = x
          /\ \A s \in Pids \ {p} : procs'[s] = procs[s] \/ procs'[s] = Null
      BY <1>0, <3>4
    <3> QED  BY <2>1, <3>1, <3>2, <3>3, <3>5, StorageFork
  <2>3. CASE ~ Exited(child_pid)
    BY <1>5, <1>7, <2>1, <2>3 DEF StorageTimeout
  <2> QED  BY <2>2, <2>3
<1>8. ASSUME NEW p \in Pids, NEW c \in BOOLEAN, Write(p, c)
      PROVE  StorageInv'
  <2>1. PICK x : x = procs[p]
    OBVIOUS
  <2>2. PICK y : y = [file |-> Flush(x.file, c), phase |-> "written"]
    OBVIOUS
  <2>3. /\ x # Null /\ x.phase = "saving"
        /\ UNCHANGED <<mem, file, child_pid, time, overtaken>>
        /\ procs' = [procs EXCEPT ![p] = y]
    BY <1>8, <2>1, <2>2 DEF Write
  <2>4. ChildOK(x, time)
    BY <2>1, <2>3 DEF StorageInv
  <2>5. ChildOK(y, time) /\ y.file.at = x.file.at
    BY <1>0, <2>2, <2>3, <2>4, WrittenOK
  <2>6. /\ procs' = [s \in Pids |-> procs'[s]] /\ procs'[p] = y
        /\ \A s \in Pids \ {p} : procs'[s] = procs[s]
    <3>1. DOMAIN procs = Pids
      BY <1>0
    <3> QED  BY <2>1, <2>3, <3>1
  <2>7. \A s \in Pids : procs'[s] # Null => ChildOK(procs'[s], time)
    BY <2>5, <2>6 DEF StorageInv
  <2>8. p \in Saving
    BY <2>1, <2>3 DEF Saving
  <2>9. \A s \in Saving' : s \in Saving /\ procs'[s].file.at = procs[s].file.at
    BY <2>1, <2>5, <2>6, <2>8 DEF Saving
  <2>10. ~ overtaken => InOrder'
    BY <2>3, <2>9 DEF StorageInv, InOrder
  <2> QED  BY <2>3, <2>6, <2>7, <2>10 DEF StorageInv
<1>9. ASSUME NEW p \in Pids, Rename(p) PROVE StorageInv'
  <2>1. p \in Saving
    BY <1>9 DEF Rename, Saving
  <2> QED  BY <1>9, <2>1, StorageEnd DEF Rename
<1>10. ASSUME NEW p \in Pids, Fail(p) PROVE StorageInv'
  BY <1>10, StorageEnd DEF Fail
<1>11. ASSUME Shutdown PROVE StorageInv'
  <2>1. /\ mem' = Null /\ child_pid' = Null
        /\ UNCHANGED <<file, time, overtaken>>
    BY <1>11 DEF Shutdown
  <2>2. /\ procs' = [s \in Pids |-> procs'[s]]
        /\ \A s \in Pids : procs'[s] = procs[s] \/ procs'[s] = Null
        /\ child_pid \in Pids => procs'[child_pid] = Null
    <3>1. CASE child_pid = Null
      BY <1>0, <1>11, <3>1 DEF Shutdown
    <3>2. CASE child_pid # Null
      <4>1. procs' = [procs EXCEPT ![child_pid] = Null]
        BY <1>11, <3>2 DEF Shutdown
      <4> QED  BY <1>0, <4>1
    <3> QED  BY <3>1, <3>2
  <2>3. \A s \in Pids : procs'[s] # Null => ChildOK(procs'[s], time)
    BY <2>2 DEF StorageInv
  <2>4. ~ overtaken => Saving' = {}
    <3> SUFFICES ASSUME ~ overtaken, NEW s \in Saving' PROVE FALSE
      OBVIOUS
    <3>1. s \in Pids /\ procs'[s] # Null /\ procs'[s].phase # "exited"
      BY DEF Saving
    <3>2. s \in Saving
      BY <2>2, <3>1 DEF Saving
    <3>3. s = child_pid
      BY <3>2 DEF StorageInv, InOrder
    <3> QED  BY <2>2, <3>1, <3>3
  <2> QED  BY <2>1, <2>2, <2>3, <2>4 DEF StorageInv, InOrder
<1>12. ASSUME NEW S \in SUBSET Saving, Crash(S) PROVE StorageInv'
  <2>1. /\ mem' = Null /\ child_pid' = Null /\ UNCHANGED <<file, time>>
        /\ procs' = [p \in Pids |-> IF p \in S THEN procs[p] ELSE Null]
        /\ ~ overtaken' => S = {}
    BY <1>12 DEF Crash
  <2>2. /\ procs' = [s \in Pids |-> procs'[s]]
        /\ \A s \in Pids : procs'[s] = procs[s] \/ procs'[s] = Null
        /\ S = {} => \A s \in Pids : procs'[s] = Null
    BY <2>1
  <2>3. \A s \in Pids : procs'[s] # Null => ChildOK(procs'[s], time)
    BY <2>2 DEF StorageInv
  <2>4. ~ overtaken' => Saving' = {}
    BY <2>1, <2>2 DEF Saving
  <2> QED  BY <2>1, <2>2, <2>3, <2>4 DEF StorageInv, InOrder
<1>13. ASSUME UNCHANGED storageVars PROVE StorageInv'
  BY <1>13 DEF storageVars, StorageInv, InOrder, Saving
<1> QED
  BY <1>1, <1>2, <1>3, <1>4, <1>6, <1>7, <1>8, <1>9, <1>10, <1>11, <1>12,
     <1>13 DEF StorageNext

(* Only a start makes a memory where there was none.                       *)
LEMMA RestoredStep ==
    ASSUME StorageAssumption, StorageInv, [StorageNext]_storageVars,
           mem = Null, mem' # Null, file' # Null
    PROVE  LET o == file'.origin
           IN  /\ mem'.users = o.users
               /\ DOMAIN mem'.queues = Durable(o.queues)
               /\ \A q \in Durable(o.queues) :
                    mem'.queues[q].messages = Kept(o.queues[q].messages)
               /\ DOMAIN mem'.routes = Durable(o.routes)
               /\ \A r \in Durable(o.routes) :
                    mem'.routes[r].keys =
                        {q \in o.routes[r].keys : o.queues[q].durable}
               /\ DOMAIN mem'.channels = Durable(o.channels)
<1> USE DEF Up
<1>1. Start \/ UNCHANGED mem
  BY DEF StorageNext, Change, Save, Reap, SaveAsync, StorageTimeout, Write, Rename,
         Fail, Shutdown, Crash, storageVars
<1>2. Start
  BY <1>1
<1>3. StorageInv'
  BY StorageInvNext
<1>4. PICK f, o, m : f = file' /\ o = f.origin /\ m = mem'
  OBVIOUS
<1>5. f # Null /\ f.sections = Written(o) /\ MemoryOK(o)
  <2>1. Complete(f)
    BY <1>2, <1>4 DEF Start, Loaded
  <2> QED  BY <1>3, <1>4, <2>1 DEF StorageInv, FileOK
<1>6. m = Load(Fresh, f)
  BY <1>2, <1>4 DEF Start, Loaded
<1>7. m = MemoryOf(o.users, QueuesOf(o), RoutesOf(o), ChannelsOf(o))
  BY <1>5, <1>6, LoadWritten
<1>8. /\ m.users = o.users /\ m.queues = QueuesOf(o)
      /\ m.routes = RoutesOf(o) /\ m.channels = ChannelsOf(o)
  BY <1>7 DEF MemoryOf
<1>9. /\ DOMAIN m.queues = Durable(o.queues)
      /\ \A q \in Durable(o.queues) :
           m.queues[q].messages = Kept(o.queues[q].messages)
  BY <1>8 DEF QueuesOf
<1>10. /\ DOMAIN m.routes = Durable(o.routes)
       /\ \A r \in Durable(o.routes) :
            m.routes[r].keys = {q \in o.routes[r].keys : o.queues[q].durable}
  <2>1. ASSUME NEW r \in Durable(o.routes)
        PROVE  m.routes[r].keys = {q \in o.routes[r].keys : o.queues[q].durable}
    <3>1. m.routes[r].keys = o.routes[r].keys \cap Durable(o.queues)
      BY <1>8 DEF RoutesOf
    <3>2. o.routes[r].keys \subseteq DOMAIN o.queues
      BY <1>5 DEF MemoryOK, Durable
    <3> QED  BY <3>1, <3>2 DEF Durable
  <2> QED  BY <1>8, <2>1 DEF RoutesOf
<1>11. DOMAIN m.channels = Durable(o.channels)
  BY <1>8 DEF ChannelsOf
<1> QED
  BY <1>4, <1>8, <1>9, <1>10, <1>11

(* Only a save and a rename write the file: the first one has the time of  *)
(* now, and before the second one the file was in order.                   *)
LEMMA NeverOlderStep ==
    ASSUME StorageAssumption, StorageInv, [StorageNext]_storageVars,
           file # Null, file' # Null, ~ overtaken'
    PROVE  file'.at >= file.at
<1> USE DEF Up
<1>1. file.at \in Nat /\ file.at <= time /\ time \in Nat
  BY DEF StorageInv, FileOK
<1>2. CASE file' = file
  BY <1>1, <1>2
<1>3. ASSUME NEW c \in BOOLEAN, Save(c) PROVE file'.at >= file.at
  <2>1. Flush(File(mem, time), c).at = time
    BY DEF File, Flush
  <2> QED  BY <1>1, <1>3, <2>1 DEF Save
<1>4. ASSUME NEW p \in Pids, Rename(p) PROVE file'.at >= file.at
  <2>1. p \in Saving /\ ~ overtaken /\ file' = procs[p].file
    BY <1>4 DEF Rename, Saving
  <2> QED  BY <2>1 DEF StorageInv, InOrder
<1>5. \/ file' = file
      \/ \E c \in BOOLEAN : Save(c)
      \/ \E p \in Pids : Rename(p)
  BY DEF StorageNext, Start, Change, Reap, SaveAsync, StorageTimeout, Write,
         Fail, Shutdown, Crash, storageVars
<1> QED
  BY <1>2, <1>3, <1>4, <1>5

(* The storage file is complete, whoever was killed and whatever failed    *)
(* while it was saved, unless its own flush failed (storage_save does not  *)
(* look at the result of fflush).                                          *)
THEOREM LoadableCorrect ==
    StorageSpec => []Loadable
<1>1. StorageInit => StorageInv
  BY StorageAssumption, StorageInvInit
<1>2. StorageInv /\ [StorageNext]_storageVars => StorageInv'
  BY StorageAssumption, StorageInvNext
<1>3. StorageInv => Loadable
  BY DEF StorageInv, FileOK, Loadable
<1> QED
  BY <1>1, <1>2, <1>3, PTL DEF StorageSpec

(* A server starts with the durable part of what some server had when it   *)
(* saved (storage_load after storage_save).                                *)
THEOREM RestoredCorrect ==
    StorageSpec => Restored
<1>1. StorageInit => StorageInv
  BY StorageAssumption, StorageInvInit
<1>2. StorageInv /\ [StorageNext]_storageVars => StorageInv'
  BY StorageAssumption, StorageInvNext
<1>3. StorageInv /\ [StorageNext]_storageVars =>
        [mem = Null /\ mem' # Null /\ file' # Null =>
          LET o == file'.origin
          IN  /\ mem'.users = o.users
              /\ DOMAIN mem'.queues = Durable(o.queues)
              /\ \A q \in Durable(o.queues) :
                   mem'.queues[q].messages = Kept(o.queues[q].messages)
              /\ DOMAIN mem'.routes = Durable(o.routes)
              /\ \A r \in Durable(o.routes) :
                   mem'.routes[r].keys =
                       {q \in o.routes[r].keys : o.queues[q].durable}
              /\ DOMAIN mem'.channels = Durable(o.channels)]_storageVars
  BY StorageAssumption, RestoredStep
<1> QED
  BY <1>1, <1>2, <1>3, PTL DEF StorageSpec, Restored

(* The storage never goes back to an older state, but for what happens     *)
(* after a save was overtaken.                                             *)
THEOREM NeverOlderCorrect ==
    StorageSpec => NeverOlder
<1>1. StorageInit => StorageInv
  BY StorageAssumption, StorageInvInit
<1>2. StorageInv /\ [StorageNext]_storageVars => StorageInv'
  BY StorageAssumption, StorageInvNext
<1>3. StorageInv /\ [StorageNext]_storageVars =>
        [file # Null /\ file' # Null /\ ~ overtaken' => file'.at >= file.at]_storageVars
  BY StorageAssumption, NeverOlderStep
<1> QED
  BY <1>1, <1>2, <1>3, PTL DEF StorageSpec, NeverOlder
=============================================================================
