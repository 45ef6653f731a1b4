----------------------------- MODULE ListProofs -----------------------------
(***************************************************************************)
(* Facts about the list operators of Lists that the proofs of the          *)
(* components use.                                                         *)
(***************************************************************************)
EXTENDS Lists, FiniteSetTheorems, WellFoundedInduction, TLAPS

(* A non-empty set of natural numbers has a least element. *)
LEMMA LeastNatural ==
    ASSUME NEW T, T \subseteq Nat, T # {}
    PROVE  \E x \in T : \A y \in T : x <= y
<1>1. PICK x \in T : \A y \in T : ~ (<<y, x>> \in OpToRel(<, Nat))
  BY NatLessThanWellFounded, WFMin
<1>2. \A y \in T : ~ (y < x)
  BY <1>1 DEF OpToRel
<1>3. x \in Nat /\ \A y \in T : y \in Nat
  OBVIOUS
<1>4. \A y \in T : x <= y
  BY <1>2, <1>3
<1> QED
  BY <1>4

Increasing(f, I) ==
    /\ f \in [1 .. Cardinality(I) -> I]
    /\ \A j, k \in 1 .. Cardinality(I) : j < k => f[j] < f[k]
    /\ \A i \in I : \E k \in 1 .. Cardinality(I) : f[k] = i

(* Every set of indices below a bound can be listed in increasing order.   *)
(* By induction on the bound: a least bound for which it failed would be   *)
(* a member of the set, and the list of the other members extends to it.   *)
LEMMA EnumExists ==
    \A n \in Nat : \A I \in SUBSET (1 .. n) : \E f : Increasing(f, I)
<1> DEFINE Good(n) == \A I \in SUBSET (1 .. n) : \E f : Increasing(f, I)
           Bad == {n \in Nat : ~Good(n)}
<1> SUFFICES ASSUME Bad # {} PROVE FALSE
  OBVIOUS
<1>1. PICK n \in Bad : \A y \in Bad : n <= y
  <2> Bad \subseteq Nat
    OBVIOUS
  <2> HIDE DEF Bad
  <2> QED  BY LeastNatural
<1>2. PICK I \in SUBSET (1 .. n) : \A f : ~Increasing(f, I)
  BY <1>1
<1>3. n # 0
  <2> SUFFICES ASSUME n = 0 PROVE FALSE
    OBVIOUS
  <2>1. I = {}
    BY <1>2
  <2>2. Cardinality(I) = 0
    BY <2>1, FS_EmptySet
  <2>3. Increasing([k \in 1 .. 0 |-> k], I)
    BY <2>1, <2>2 DEF Increasing
  <2> QED  BY <2>3, <1>2
<1>4. n \in Nat /\ n - 1 \in Nat /\ Good(n - 1)
  <2>1. n \in Nat /\ n - 1 \in Nat
    BY <1>1, <1>3
  <2>2. n - 1 \notin Bad
    <3> SUFFICES ASSUME n - 1 \in Bad PROVE FALSE
      OBVIOUS
    <3> HIDE DEF Bad
    <3> n <= n - 1
      BY <1>1
    <3> QED  BY <2>1
  <2> QED  BY <2>1, <2>2
<1>5. n \in I
  <2> SUFFICES ASSUME n \notin I PROVE FALSE
    OBVIOUS
  <2> I \in SUBSET (1 .. n - 1)
    BY <1>2, <1>4
  <2> QED  BY <1>4, <1>2
<1> DEFINE J == I \ {n}
<1>6. J \in SUBSET (1 .. n - 1)
  BY <1>2, <1>4
<1>7. PICK f : Increasing(f, J)
  BY <1>6, <1>4
<1>8. IsFiniteSet(I) /\ IsFiniteSet(J) /\ Cardinality(J) \in Nat
      /\ Cardinality(I) = Cardinality(J) + 1
  <2>1. IsFiniteSet(I)
    <3>1. IsFiniteSet(1 .. n)
      BY <1>4, FS_Interval
    <3> QED  BY <3>1, FS_Subset
  <2>2. Cardinality(I) \in Nat
    BY <2>1, FS_CardinalityType
  <2>3. IsFiniteSet(J) /\ Cardinality(J) = Cardinality(I) - 1
    BY <2>1, <1>5, FS_RemoveElement
  <2>4. Cardinality(J) \in Nat
    BY <2>3, FS_CardinalityType
  <2> QED  BY <2>1, <2>2, <2>3, <2>4
<1> DEFINE c == Cardinality(J)
           g == [k \in 1 .. c + 1 |-> IF k = c + 1 THEN n ELSE f[k]]
<1>9. Increasing(g, I)
  <2> HIDE DEF c
  <2>0. c \in Nat /\ Cardinality(I) = c + 1
    BY <1>8 DEF c
  <2>1. /\ f \in [1 .. c -> J]
        /\ \A j, k \in 1 .. c : j < k => f[j] < f[k]
        /\ \A i \in J : \E k \in 1 .. c : f[k] = i
    BY <1>7 DEF Increasing, c
  <2>2. g \in [1 .. c + 1 -> I]
    BY <2>0, <2>1, <1>5
  <2>3. \A j, k \in 1 .. c + 1 : j < k => g[j] < g[k]
    <3> SUFFICES ASSUME NEW j \in 1 .. c + 1, NEW k \in 1 .. c + 1, j < k
                 PROVE  g[j] < g[k]
      OBVIOUS
    <3>1. CASE k = c + 1
      <4>1. j \in 1 .. c /\ g[j] = f[j] /\ g[k] = n
        BY <2>0, <3>1
      <4>2. f[j] \in J
        BY <2>1, <4>1
      <4>3. f[j] \in 1 .. n - 1
        BY <4>2, <1>6
      <4> QED  BY <4>1, <4>3, <1>4
    <3>2. CASE k # c + 1
      BY <2>0, <2>1, <3>2
    <3> QED  BY <3>1, <3>2
  <2>4. \A i \in I : \E k \in 1 .. c + 1 : g[k] = i
    <3> SUFFICES ASSUME NEW i \in I PROVE \E k \in 1 .. c + 1 : g[k] = i
      OBVIOUS
    <3>1. CASE i = n
      BY <3>1, <2>0
    <3>2. CASE i # n
      <4>1. PICK k \in 1 .. c : f[k] = i
        BY <3>2, <2>1
      <4>2. k \in 1 .. c + 1 /\ g[k] = i
        BY <4>1, <2>0
      <4> QED  BY <4>2
    <3> QED  BY <3>1, <3>2
  <2> QED
    <3> HIDE DEF g
    <3> QED  BY <2>0, <2>2, <2>3, <2>4 DEF Increasing
<1> QED
  BY <1>9, <1>2
(* The set of the indices of a sequence with a value in T is listed. *)
LEMMA EnumIncreasing ==
    ASSUME NEW n \in Nat, NEW I \in SUBSET (1 .. n)
    PROVE  Increasing(Enum(I), I) /\ Cardinality(I) \in Nat
<1>1. PICK f : Increasing(f, I)
  BY EnumExists
<1>2. Increasing(Enum(I), I)
  BY <1>1 DEF Increasing, Enum
<1>3. IsFiniteSet(I)
  <2>1. IsFiniteSet(1 .. n)
    BY FS_Interval
  <2> QED  BY <2>1, FS_Subset
<1> QED
  BY <1>2, <1>3, FS_CardinalityType

(* What a deleting loop leaves: the values in T, in the order of the list. *)
LEMMA KeepFacts ==
    ASSUME NEW S, NEW s \in Seq(S), NEW T
    PROVE  /\ Keep(s, T) \in Seq(S)
           /\ Elems(Keep(s, T)) = Elems(s) \cap T
           /\ \A j, k \in DOMAIN Keep(s, T) :
                  j < k => \E p, q \in DOMAIN s :
                              /\ p < q
                              /\ Keep(s, T)[j] = s[p]
                              /\ Keep(s, T)[k] = s[q]
<1> DEFINE I == {i \in DOMAIN s : s[i] \in T}
           c == Cardinality(I)
           f == Enum(I)
           r == [k \in 1 .. c |-> s[f[k]]]
<1>1. Keep(s, T) = r
  BY DEF Keep
<1>2. Len(s) \in Nat /\ DOMAIN s = 1 .. Len(s) /\ s \in [1 .. Len(s) -> S]
  OBVIOUS
<1>3. Increasing(f, I) /\ c \in Nat
  <2> I \in SUBSET (1 .. Len(s))
    BY <1>2
  <2> HIDE DEF I
  <2> QED  BY <1>2, EnumIncreasing
<1> HIDE DEF f, c
<1>4. /\ f \in [1 .. c -> I]
      /\ \A j, k \in 1 .. c : j < k => f[j] < f[k]
      /\ \A i \in I : \E k \in 1 .. c : f[k] = i
  BY <1>3 DEF Increasing, c
<1>5. \A k \in 1 .. c : f[k] \in DOMAIN s /\ s[f[k]] \in T /\ r[k] = s[f[k]]
  <2> SUFFICES ASSUME NEW k \in 1 .. c
               PROVE  f[k] \in DOMAIN s /\ s[f[k]] \in T /\ r[k] = s[f[k]]
    OBVIOUS
  <2>1. f[k] \in I
    BY <1>4
  <2> QED  BY <2>1
<1>6. r \in Seq(S) /\ DOMAIN r = 1 .. c
  <2>1. \A k \in 1 .. c : s[f[k]] \in S
    BY <1>2, <1>5
  <2>2. r \in [1 .. c -> S] /\ DOMAIN r = 1 .. c
    BY <2>1
  <2> HIDE DEF r
  <2> QED  BY <2>2, <1>3
<1>7. Elems(r) = Elems(s) \cap T
  <2>1. ASSUME NEW x \in Elems(r) PROVE x \in Elems(s) \cap T
    <3>1. PICK k \in 1 .. c : x = r[k]
      BY <1>6, <2>1 DEF Elems
    <3> QED  BY <3>1, <1>5 DEF Elems
  <2>2. ASSUME NEW x \in Elems(s) \cap T PROVE x \in Elems(r)
    <3>1. PICK i \in DOMAIN s : x = s[i]
      BY <2>2 DEF Elems
    <3>2. i \in I
      BY <3>1, <2>2
    <3>3. PICK k \in 1 .. c : f[k] = i
      BY <3>2, <1>4
    <3>4. r[k] = x /\ k \in DOMAIN r
      BY <3>1, <3>3
    <3> HIDE DEF r
    <3> QED  BY <3>4 DEF Elems
  <2> QED  BY <2>1, <2>2
<1>8. ASSUME NEW j \in DOMAIN r, NEW k \in DOMAIN r, j < k
      PROVE  \E p, q \in DOMAIN s : p < q /\ r[j] = s[p] /\ r[k] = s[q]
  <2>1. f[j] \in DOMAIN s /\ f[k] \in DOMAIN s /\ f[j] < f[k]
        /\ r[j] = s[f[j]] /\ r[k] = s[f[k]]
    BY <1>8, <1>6, <1>5, <1>4
  <2> QED  BY <2>1
<1> HIDE DEF r
<1> QED
  BY <1>1, <1>6, <1>7, <1>8

(* A deleting loop over a list without repetition leaves one without. *)
LEMMA KeepNoRepetition ==
    ASSUME NEW S, NEW s \in Seq(S), NEW T, NoRepetition(s)
    PROVE  NoRepetition(Keep(s, T))
<1> SUFFICES ASSUME NEW j \in DOMAIN Keep(s, T), NEW k \in DOMAIN Keep(s, T),
                    Keep(s, T)[j] = Keep(s, T)[k], j # k
             PROVE  FALSE
  BY DEF NoRepetition
<1>1. Keep(s, T) \in Seq(S) /\ DOMAIN Keep(s, T) \subseteq Int
  BY KeepFacts
<1>2. j < k \/ k < j
  BY <1>1
<1>3. \E p, q \in DOMAIN s : p < q /\ s[p] = s[q]
  BY <1>2, KeepFacts
<1>4. DOMAIN s \subseteq Int
  OBVIOUS
<1> QED
  BY <1>3, <1>4 DEF NoRepetition

(* list_add_value_tail *)
LEMMA AppendFacts ==
    ASSUME NEW S, NEW s \in Seq(S), NEW x \in S
    PROVE  /\ Append(s, x) \in Seq(S)
           /\ Elems(Append(s, x)) = Elems(s) \cup {x}
           /\ NoRepetition(s) /\ x \notin Elems(s)
                 => NoRepetition(Append(s, x))
<1> DEFINE r == Append(s, x)
<1>1. r \in Seq(S) /\ Len(r) = Len(s) + 1 /\ Len(s) \in Nat
      /\ DOMAIN r = 1 .. Len(s) + 1 /\ DOMAIN s = 1 .. Len(s)
      /\ r[Len(s) + 1] = x /\ \A i \in 1 .. Len(s) : r[i] = s[i]
  OBVIOUS
<1> HIDE DEF r
<1>2. Elems(r) = Elems(s) \cup {x}
  <2>1. ASSUME NEW y \in Elems(r) PROVE y \in Elems(s) \cup {x}
    <3>1. PICK i \in 1 .. Len(s) + 1 : y = r[i]
      BY <2>1, <1>1 DEF Elems
    <3>2. i \in 1 .. Len(s) \/ i = Len(s) + 1
      BY <1>1
    <3> QED  BY <3>1, <3>2, <1>1 DEF Elems
  <2>2. ASSUME NEW y \in Elems(s) PROVE y \in Elems(r)
    <3>1. PICK i \in 1 .. Len(s) : y = s[i]
      BY <2>2, <1>1 DEF Elems
    <3>2. i \in DOMAIN r /\ y = r[i]
      BY <3>1, <1>1
    <3> QED  BY <3>2 DEF Elems
  <2>3. x \in Elems(r)
    <3>1. Len(s) + 1 \in DOMAIN r
      BY <1>1
    <3> QED  BY <3>1, <1>1 DEF Elems
  <2> QED  BY <2>1, <2>2, <2>3
<1>3. ASSUME NoRepetition(s), x \notin Elems(s) PROVE NoRepetition(r)
  <2> SUFFICES ASSUME NEW i \in 1 .. Len(s) + 1, NEW j \in 1 .. Len(s) + 1,
                      r[i] = r[j]
               PROVE  i = j
    BY <1>1 DEF NoRepetition
  <2>1. \A k \in 1 .. Len(s) : s[k] # x
    BY <1>3, <1>1 DEF Elems
  <2>2. CASE i \in 1 .. Len(s) /\ j \in 1 .. Len(s)
    BY <2>2, <1>3, <1>1 DEF NoRepetition
  <2>3. CASE i = Len(s) + 1 \/ j = Len(s) + 1
    BY <2>3, <2>1, <1>1
  <2> QED  BY <2>2, <2>3, <1>1
<1> QED
  BY <1>1, <1>2, <1>3 DEF r

(* One list after another; nothing is repeated if they have no common      *)
(* value.                                                                  *)
LEMMA ConcatFacts ==
    ASSUME NEW S, NEW s \in Seq(S), NEW t \in Seq(S)
    PROVE  /\ s \o t \in Seq(S)
           /\ Len(s \o t) = Len(s) + Len(t)
           /\ Elems(s \o t) = Elems(s) \cup Elems(t)
           /\ /\ NoRepetition(s) /\ NoRepetition(t)
              /\ Elems(s) \cap Elems(t) = {}
              => NoRepetition(s \o t)
<1> DEFINE r == s \o t
<1>1. r \in Seq(S) /\ Len(s) \in Nat /\ Len(t) \in Nat
      /\ Len(r) = Len(s) + Len(t)
      /\ DOMAIN r = 1 .. Len(s) + Len(t)
      /\ DOMAIN s = 1 .. Len(s) /\ DOMAIN t = 1 .. Len(t)
      /\ \A i \in 1 .. Len(s) : r[i] = s[i]
  OBVIOUS
<1>r. \A i \in 1 .. Len(s) + Len(t) : i > Len(s) => r[i] = t[i - Len(s)]
  OBVIOUS
<1> HIDE DEF r
<1>2. \A i \in DOMAIN r : \/ i \in DOMAIN s /\ r[i] = s[i]
                          \/ i - Len(s) \in DOMAIN t
                             /\ r[i] = t[i - Len(s)]
  <2> SUFFICES ASSUME NEW i \in DOMAIN r
               PROVE  \/ i \in DOMAIN s /\ r[i] = s[i]
                      \/ i - Len(s) \in DOMAIN t /\ r[i] = t[i - Len(s)]
    OBVIOUS
  <2>1. i \in 1 .. Len(s) + Len(t) /\ Len(s) \in Nat /\ Len(t) \in Nat
    BY <1>1
  <2>2. CASE i <= Len(s)
    <3> i \in 1 .. Len(s)
      BY <2>1, <2>2
    <3> QED  BY <1>1
  <2>3. CASE i > Len(s)
    <3>1. i - Len(s) \in 1 .. Len(t)
      BY <2>1, <2>3
    <3>2. r[i] = t[i - Len(s)]
      BY <1>r, <2>1, <2>3
    <3>3. DOMAIN t = 1 .. Len(t)
      BY <1>1
    <3> QED  BY <3>1, <3>2, <3>3
  <2> QED  BY <2>1, <2>2, <2>3
<1>3. Elems(r) = Elems(s) \cup Elems(t)
  <2>1. ASSUME NEW y \in Elems(r) PROVE y \in Elems(s) \cup Elems(t)
    <3>1. PICK i \in DOMAIN r : y = r[i]
      BY <2>1 DEF Elems
    <3> QED  BY <3>1, <1>2 DEF Elems
  <2>2. ASSUME NEW y \in Elems(s) PROVE y \in Elems(r)
    <3>1. PICK i \in 1 .. Len(s) : y = s[i]
      BY <2>2, <1>1 DEF Elems
    <3>2. i \in DOMAIN r /\ y = r[i]
      BY <3>1, <1>1
    <3> QED  BY <3>2 DEF Elems
  <2>3. ASSUME NEW y \in Elems(t) PROVE y \in Elems(r)
    <3>1. PICK i \in 1 .. Len(t) : y = t[i]
      BY <2>3, <1>1 DEF Elems
    <3>2. i + Len(s) \in DOMAIN r /\ i + Len(s) > Len(s)
          /\ (i + Len(s)) - Len(s) = i
      BY <1>1
    <3>0. i + Len(s) \in 1 .. Len(s) + Len(t)
      BY <1>1
    <3>3. r[i + Len(s)] = t[(i + Len(s)) - Len(s)]
      BY <3>0, <3>2, <1>r
    <3>4. r[i + Len(s)] = y
      BY <3>1, <3>2, <3>3
    <3> QED  BY <3>2, <3>4 DEF Elems
  <2> QED  BY <2>1, <2>2, <2>3
<1>4. ASSUME NoRepetition(s), NoRepetition(t), Elems(s) \cap Elems(t) = {}
      PROVE  NoRepetition(r)
  <2> SUFFICES ASSUME NEW i \in DOMAIN r, NEW j \in DOMAIN r, r[i] = r[j]
               PROVE  i = j
    BY DEF NoRepetition
  <2>0. i \in Int /\ j \in Int /\ Len(s) \in Int
    BY <1>1
  <2>1. CASE i \in DOMAIN s /\ r[i] = s[i] /\ j \in DOMAIN s /\ r[j] = s[j]
    BY <2>1, <1>4 DEF NoRepetition
  <2>2. CASE /\ i - Len(s) \in DOMAIN t /\ r[i] = t[i - Len(s)]
             /\ j - Len(s) \in DOMAIN t /\ r[j] = t[j - Len(s)]
    <3> i - Len(s) = j - Len(s)
      BY <2>2, <1>4 DEF NoRepetition
    <3> QED  BY <2>0
  <2>3. CASE /\ i \in DOMAIN s /\ r[i] = s[i]
             /\ j - Len(s) \in DOMAIN t /\ r[j] = t[j - Len(s)]
    BY <2>3, <1>4 DEF Elems
  <2>4. CASE /\ j \in DOMAIN s /\ r[j] = s[j]
             /\ i - Len(s) \in DOMAIN t /\ r[i] = t[i - Len(s)]
    BY <2>4, <1>4 DEF Elems
  <2> QED  BY <1>2, <2>1, <2>2, <2>3, <2>4
<1> QED
  BY <1>1, <1>3, <1>4 DEF r

(* A list without its i-th node. *)
LEMMA WithoutFacts ==
    ASSUME NEW S, NEW s \in Seq(S), NEW i \in DOMAIN s
    PROVE  /\ Without(s, i) \in Seq(S)
           /\ Elems(Without(s, i)) \subseteq Elems(s)
           /\ NoRepetition(s) =>
                 /\ Elems(Without(s, i)) = Elems(s) \ {s[i]}
                 /\ NoRepetition(Without(s, i))
<1> DEFINE r == Without(s, i)
           old(k) == IF k < i THEN k ELSE k + 1
           a == SubSeq(s, 1, i - 1)
           b == SubSeq(s, i + 1, Len(s))
<1>0. Len(s) \in Nat /\ DOMAIN s = 1 .. Len(s) /\ i \in 1 .. Len(s)
  OBVIOUS
<1>a. a \in Seq(S) /\ Len(a) = i - 1 /\ DOMAIN a = 1 .. i - 1
      /\ \A k \in 1 .. i - 1 : a[k] = s[k]
  BY <1>0
<1>b. b \in Seq(S) /\ Len(b) = Len(s) - i /\ DOMAIN b = 1 .. Len(s) - i
      /\ \A k \in 1 .. Len(s) - i : b[k] = s[k + i]
  BY <1>0
<1>c. r = a \o b
  BY DEF Without
<1> HIDE DEF a, b
<1>1. /\ r \in Seq(S) /\ Len(s) \in Nat /\ DOMAIN s = 1 .. Len(s)
      /\ i \in 1 .. Len(s) /\ DOMAIN r = 1 .. Len(s) - 1
      /\ \A k \in 1 .. Len(s) - 1 : r[k] = s[old(k)]
  <2>1. r \in Seq(S) /\ Len(r) = Len(s) - 1
    <3>1. a \o b \in Seq(S) /\ Len(a \o b) = Len(a) + Len(b)
      BY <1>a, <1>b, ConcatFacts
    <3>2. Len(a) + Len(b) = Len(s) - 1
      BY <1>0, <1>a, <1>b
    <3> QED  BY <3>1, <3>2, <1>c
  <2>2. DOMAIN r = 1 .. Len(s) - 1
    BY <2>1
  <2>3. ASSUME NEW k \in 1 .. Len(s) - 1 PROVE r[k] = s[old(k)]
    <3>1. CASE k < i
      BY <3>1, <1>0, <1>a, <1>b, <1>c
    <3>2. CASE ~(k < i)
      <4>1. k - (i - 1) \in 1 .. Len(s) - i /\ (k - (i - 1)) + i = k + 1
        BY <3>2, <1>0
      <4>2. r[k] = b[k - (i - 1)]
        BY <3>2, <1>0, <1>a, <1>b, <1>c
      <4> QED  BY <3>2, <4>1, <4>2, <1>b
    <3> QED  BY <3>1, <3>2
  <2> QED  BY <1>0, <2>1, <2>2, <2>3
<1> HIDE DEF r
<1>2. \A k \in DOMAIN r : old(k) \in DOMAIN s /\ old(k) # i /\ r[k] = s[old(k)]
  BY <1>1
<1>3. Elems(r) \subseteq Elems(s)
  BY <1>2 DEF Elems
<1>4. ASSUME NoRepetition(s) PROVE Elems(r) = Elems(s) \ {s[i]}
  <2>1. s[i] \notin Elems(r)
    BY <1>4, <1>2 DEF Elems, NoRepetition
  <2>2. ASSUME NEW y \in Elems(s), y # s[i] PROVE y \in Elems(r)
    <3>1. PICK k \in 1 .. Len(s) : y = s[k]
      BY <1>1 DEF Elems
    <3>2. CASE k < i
      <4> k \in DOMAIN r /\ r[k] = y
        BY <3>1, <3>2, <1>1
      <4> QED  BY DEF Elems
    <3>3. CASE k > i
      <4>1. k - 1 \in DOMAIN r /\ old(k - 1) = k
        BY <3>1, <3>3, <1>1
      <4>2. r[k - 1] = y
        BY <4>1, <3>1, <1>2
      <4> QED  BY <4>1, <4>2 DEF Elems
    <3> QED  BY <3>1, <3>2, <3>3, <2>2, <1>1
  <2> QED  BY <1>3, <2>1, <2>2
<1>5. ASSUME NoRepetition(s) PROVE NoRepetition(r)
  <2> SUFFICES ASSUME NEW j \in DOMAIN r, NEW k \in DOMAIN r, r[j] = r[k]
               PROVE  j = k
    BY DEF NoRepetition
  <2>1. old(j) = old(k)
    BY <1>5, <1>2 DEF NoRepetition
  <2> QED  BY <2>1, <1>1
<1> QED
  BY <1>1, <1>3, <1>4, <1>5 DEF r

(* A queue without its oldest message. *)
LEMMA AllButLastFacts ==
    ASSUME NEW S, NEW s \in Seq(S), s # <<>>
    PROVE  /\ AllButLast(s) \in Seq(S)
           /\ Len(AllButLast(s)) = Len(s) - 1
           /\ LastOf(s) \in Elems(s)
           /\ Elems(AllButLast(s)) \subseteq Elems(s)
           /\ \A k \in DOMAIN AllButLast(s) :
                 k \in DOMAIN s /\ AllButLast(s)[k] = s[k]
           /\ NoRepetition(s) =>
                 /\ Elems(AllButLast(s)) = Elems(s) \ {LastOf(s)}
                 /\ NoRepetition(AllButLast(s))
<1>1. Len(s) \in Nat \ {0} /\ DOMAIN s = 1 .. Len(s)
  OBVIOUS
<1>2. /\ AllButLast(s) \in Seq(S) /\ Len(AllButLast(s)) = Len(s) - 1
      /\ DOMAIN AllButLast(s) = 1 .. Len(s) - 1
      /\ \A k \in 1 .. Len(s) - 1 : AllButLast(s)[k] = s[k]
  BY <1>1 DEF AllButLast
<1>3. Len(s) \in DOMAIN s
  BY <1>1
<1>4. \A k \in DOMAIN AllButLast(s) :
        k \in DOMAIN s /\ k # Len(s) /\ AllButLast(s)[k] = s[k]
  BY <1>1, <1>2
<1>5. \A k \in DOMAIN s : k # Len(s) => k \in DOMAIN AllButLast(s)
  BY <1>1, <1>2
<1>6. LastOf(s) \in Elems(s) /\ Elems(AllButLast(s)) \subseteq Elems(s)
  BY <1>3, <1>4 DEF LastOf, Elems
<1>7. ASSUME NoRepetition(s)
      PROVE  /\ Elems(AllButLast(s)) = Elems(s) \ {LastOf(s)}
             /\ NoRepetition(AllButLast(s))
  BY <1>3, <1>4, <1>5, <1>6, <1>7 DEF NoRepetition, Elems, LastOf
<1> QED
  BY <1>2, <1>4, <1>6, <1>7

(* The values of a list over S are in S, and it is a list over any larger  *)
(* set.                                                                    *)
LEMMA SeqFacts ==
    ASSUME NEW S, NEW s \in Seq(S)
    PROVE  /\ Elems(s) \subseteq S
           /\ \A T : S \subseteq T => s \in Seq(T)
           /\ Elems(s) = {} <=> s = <<>>
<1>1. Elems(s) \subseteq S
  BY DEF Elems
<1>2. ASSUME NEW T, S \subseteq T PROVE s \in Seq(T)
  BY <1>2
<1>3. Elems(s) = {} <=> s = <<>>
  <2>1. CASE s = <<>>
    BY <2>1 DEF Elems
  <2>2. CASE s # <<>>
    <3> 1 \in DOMAIN s
      BY <2>2
    <3> QED  BY <2>2 DEF Elems
  <2> QED  BY <2>1, <2>2
<1> QED
  BY <1>1, <1>2, <1>3

(* list_rotate keeps the values of a list. *)
LEMMA RotateFacts ==
    ASSUME NEW S, NEW s \in Seq(S), s # <<>>
    PROVE  /\ Rotate(s) \in Seq(S)
           /\ Rotate(s)[1] = LastOf(s)
           /\ Elems(Rotate(s)) = Elems(s)
           /\ NoRepetition(s) => NoRepetition(Rotate(s))
<1>1. /\ AllButLast(s) \in Seq(S) /\ LastOf(s) \in Elems(s)
      /\ Elems(AllButLast(s)) \subseteq Elems(s)
      /\ NoRepetition(s) =>
           /\ Elems(AllButLast(s)) = Elems(s) \ {LastOf(s)}
           /\ NoRepetition(AllButLast(s))
  BY AllButLastFacts
<1>2. LastOf(s) \in S /\ <<LastOf(s)>> \in Seq(S)
      /\ Elems(<<LastOf(s)>>) = {LastOf(s)} /\ NoRepetition(<<LastOf(s)>>)
  <2>1. LastOf(s) \in S
    BY <1>1, SeqFacts
  <2> QED  BY <2>1 DEF Elems, NoRepetition
<1>3. Elems(s) \subseteq Elems(AllButLast(s)) \cup {LastOf(s)}
  <2> SUFFICES ASSUME NEW k \in DOMAIN s, k # Len(s)
               PROVE  s[k] \in Elems(AllButLast(s))
    BY DEF Elems, LastOf
  <2> k \in DOMAIN AllButLast(s) /\ AllButLast(s)[k] = s[k]
    BY DEF AllButLast
  <2> QED  BY DEF Elems
<1>4. Rotate(s)[1] = LastOf(s)
  BY <1>1, <1>2 DEF Rotate
<1> HIDE DEF Rotate
<1>5. /\ Rotate(s) \in Seq(S)
      /\ Elems(Rotate(s)) = {LastOf(s)} \cup Elems(AllButLast(s))
      /\ NoRepetition(s) => NoRepetition(Rotate(s))
  <2> DEFINE a == <<LastOf(s)>>
             b == AllButLast(s)
  <2>1. a \in Seq(S) /\ b \in Seq(S) /\ Rotate(s) = a \o b
        /\ Elems(a) = {LastOf(s)} /\ NoRepetition(a)
    BY <1>1, <1>2 DEF Rotate
  <2>2. NoRepetition(s) => Elems(a) \cap Elems(b) = {} /\ NoRepetition(b)
    BY <2>1, <1>1
  <2> HIDE DEF a
  <2>3. /\ a \o b \in Seq(S) /\ Elems(a \o b) = Elems(a) \cup Elems(b)
        /\ NoRepetition(a) /\ NoRepetition(b) /\ Elems(a) \cap Elems(b) = {}
             => NoRepetition(a \o b)
    BY <2>1, ConcatFacts
  <2> QED  BY <2>1, <2>2, <2>3
<1> QED
  BY <1>1, <1>3, <1>4, <1>5

(* queue_push_value_head *)
LEMMA ConsFacts ==
    ASSUME NEW S, NEW s \in Seq(S), NEW x \in S
    PROVE  /\ <<x>> \o s \in Seq(S)
           /\ <<x>> \o s # <<>>
           /\ Len(<<x>> \o s) = Len(s) + 1
           /\ Elems(<<x>> \o s) = Elems(s) \cup {x}
           /\ (<<x>> \o s)[1] = x
           /\ \A k \in DOMAIN (<<x>> \o s) :
                 k # 1 => k - 1 \in DOMAIN s /\ (<<x>> \o s)[k] = s[k - 1]
           /\ NoRepetition(s) /\ x \notin Elems(s)
                 => NoRepetition(<<x>> \o s)
<1>1. <<x>> \in Seq(S) /\ Len(<<x>>) = 1 /\ Elems(<<x>>) = {x}
      /\ NoRepetition(<<x>>)
  BY DEF Elems, NoRepetition
<1>2. /\ <<x>> \o s \in Seq(S) /\ Len(<<x>> \o s) = 1 + Len(s)
      /\ Elems(<<x>> \o s) = Elems(<<x>>) \cup Elems(s)
      /\ /\ NoRepetition(<<x>>) /\ NoRepetition(s)
         /\ Elems(<<x>>) \cap Elems(s) = {}
         => NoRepetition(<<x>> \o s)
  <2> DEFINE a == <<x>>
  <2> a \in Seq(S) /\ Len(a) = 1
    BY <1>1
  <2> HIDE DEF a
  <2>1. /\ a \o s \in Seq(S) /\ Len(a \o s) = 1 + Len(s)
        /\ Elems(a \o s) = Elems(a) \cup Elems(s)
        /\ /\ NoRepetition(a) /\ NoRepetition(s)
           /\ Elems(a) \cap Elems(s) = {}
           => NoRepetition(a \o s)
    BY ConcatFacts
  <2> QED  BY <2>1 DEF a
<1>3. (<<x>> \o s)[1] = x
  OBVIOUS
<1>4. ASSUME NEW k \in DOMAIN (<<x>> \o s), k # 1
      PROVE  k - 1 \in DOMAIN s /\ (<<x>> \o s)[k] = s[k - 1]
  BY <1>4
<1>5. Len(s) \in Nat /\ <<x>> \o s # <<>>
  BY <1>2
<1> QED
  BY <1>1, <1>2, <1>3, <1>4, <1>5

(* Where what a deleting loop leaves was in the list. *)
LEMMA KeepPositions ==
    ASSUME NEW S, NEW s \in Seq(S), NEW T
    PROVE  \E f \in [DOMAIN Keep(s, T) -> DOMAIN s] :
              /\ \A j, k \in DOMAIN Keep(s, T) : j < k => f[j] < f[k]
              /\ \A k \in DOMAIN Keep(s, T) :
                    Keep(s, T)[k] = s[f[k]] /\ s[f[k]] \in T
              /\ \A i \in DOMAIN s :
                    s[i] \in T => \E k \in DOMAIN Keep(s, T) : f[k] = i
<1> DEFINE I == {i \in DOMAIN s : s[i] \in T}
           c == Cardinality(I)
           f == Enum(I)
<1>1. Keep(s, T) = [k \in 1 .. c |-> s[f[k]]]
  BY DEF Keep
<1>2. Increasing(f, I)
  <2> I \in SUBSET (1 .. Len(s)) /\ Len(s) \in Nat
    OBVIOUS
  <2> HIDE DEF I
  <2> QED  BY EnumIncreasing
<1> HIDE DEF f, c
<1>3. /\ f \in [1 .. c -> I]
      /\ \A j, k \in 1 .. c : j < k => f[j] < f[k]
      /\ \A i \in I : \E k \in 1 .. c : f[k] = i
  BY <1>2 DEF Increasing, c
<1>4. DOMAIN Keep(s, T) = 1 .. c
      /\ \A k \in 1 .. c : Keep(s, T)[k] = s[f[k]]
  BY <1>1
<1>5. f \in [1 .. c -> DOMAIN s] /\ \A k \in 1 .. c : s[f[k]] \in T
  BY <1>3
<1>6. \A i \in DOMAIN s : s[i] \in T => \E k \in 1 .. c : f[k] = i
  BY <1>3
<1> DEFINE D == DOMAIN Keep(s, T)
           r == Keep(s, T)
<1> HIDE DEF r
<1>7. /\ f \in [D -> DOMAIN s]
      /\ \A j, k \in D : j < k => f[j] < f[k]
      /\ \A k \in D : r[k] = s[f[k]] /\ s[f[k]] \in T
      /\ \A i \in DOMAIN s : s[i] \in T => \E k \in D : f[k] = i
  <2>1. D = 1 .. c
    BY <1>4
  <2> HIDE DEF D
  <2>2. \A k \in 1 .. c : r[k] = s[f[k]]
    BY <1>4 DEF r
  <2>3. /\ f \in [D -> DOMAIN s]
        /\ \A j, k \in D : j < k => f[j] < f[k]
    BY <1>3, <1>5, <2>1
  <2>4. \A k \in D : r[k] = s[f[k]] /\ s[f[k]] \in T
    BY <1>5, <2>1, <2>2
  <2> QED  BY <1>6, <2>1, <2>3, <2>4
<1> QED
  <2> HIDE DEF D
  <2>1. D = DOMAIN r
    BY DEF D, r
  <2>2. \E g \in [D -> DOMAIN s] :
          /\ \A j, k \in D : j < k => g[j] < g[k]
          /\ \A k \in D : r[k] = s[g[k]] /\ s[g[k]] \in T
          /\ \A i \in DOMAIN s : s[i] \in T => \E k \in D : g[k] = i
    BY <1>7, Zenon
  <2> QED  BY <2>1, <2>2, Zenon DEF r

(* If the first value of the list is kept, it stays the first. *)
LEMMA KeepFirst ==
    ASSUME NEW S, NEW s \in Seq(S), NEW T, s # <<>>, s[1] \in T
    PROVE  Keep(s, T) # <<>> /\ Keep(s, T)[1] = s[1]
<1>1. PICK f \in [DOMAIN Keep(s, T) -> DOMAIN s] :
        /\ \A j, k \in DOMAIN Keep(s, T) : j < k => f[j] < f[k]
        /\ \A k \in DOMAIN Keep(s, T) : Keep(s, T)[k] = s[f[k]]
        /\ \A i \in DOMAIN s :
              s[i] \in T => \E k \in DOMAIN Keep(s, T) : f[k] = i
  BY KeepPositions
<1>2. 1 \in DOMAIN s /\ DOMAIN s \subseteq Nat \ {0}
  OBVIOUS
<1>3. PICK k \in DOMAIN Keep(s, T) : f[k] = 1
  BY <1>1, <1>2
<1>4. Keep(s, T) \in Seq(S)
  BY KeepFacts
<1>5. 1 \in DOMAIN Keep(s, T) /\ k \in Nat \ {0}
  BY <1>3, <1>4
<1>6. k = 1
  <2>1. f[1] \in Nat \ {0}
    BY <1>2, <1>5
  <2>2. 1 < k => f[1] < 1
    BY <1>1, <1>3, <1>5
  <2> QED  BY <2>1, <2>2, <1>5
<1> QED
  BY <1>1, <1>3, <1>5, <1>6

(* Where what list_delete_node leaves was in the list. *)
LEMMA WithoutPositions ==
    ASSUME NEW S, NEW s \in Seq(S), NEW i \in DOMAIN s
    PROVE  /\ DOMAIN Without(s, i) = 1 .. Len(s) - 1
           /\ \A k \in 1 .. Len(s) - 1 :
                Without(s, i)[k] = IF k < i THEN s[k] ELSE s[k + 1]
<1>1. /\ Len(s) \in Nat /\ i \in 1 .. Len(s)
      /\ SubSeq(s, 1, i - 1) \in Seq(S) /\ SubSeq(s, i + 1, Len(s)) \in Seq(S)
      /\ Len(SubSeq(s, 1, i - 1)) = i - 1
      /\ Len(SubSeq(s, i + 1, Len(s))) = Len(s) - i
      /\ \A k \in 1 .. i - 1 : SubSeq(s, 1, i - 1)[k] = s[k]
      /\ \A k \in 1 .. Len(s) - i : SubSeq(s, i + 1, Len(s))[k] = s[i + k]
  OBVIOUS
<1> DEFINE a == SubSeq(s, 1, i - 1)
           b == SubSeq(s, i + 1, Len(s))
<1> HIDE DEF a, b
<1>2. /\ a \in Seq(S) /\ b \in Seq(S) /\ Len(a) = i - 1 /\ Len(b) = Len(s) - i
      /\ \A k \in 1 .. i - 1 : a[k] = s[k]
      /\ \A k \in 1 .. Len(s) - i : b[k] = s[i + k]
      /\ Without(s, i) = a \o b
  BY <1>1 DEF a, b, Without
<1> DEFINE d == a \o b
<1>3. /\ Len(d) = Len(a) + Len(b) /\ DOMAIN d = 1 .. Len(a) + Len(b)
      /\ \A k \in 1 .. Len(a) : d[k] = a[k]
      /\ \A k \in Len(a) + 1 .. Len(a) + Len(b) : d[k] = b[k - Len(a)]
  BY <1>2
<1> HIDE DEF d
<1>4. /\ Len(s) \in Nat /\ i \in Nat /\ 1 <= i /\ i <= Len(s)
      /\ Len(a) = i - 1 /\ Len(b) = Len(s) - i
  BY <1>1, <1>2
<1>5. ASSUME NEW k \in 1 .. Len(s) - 1
      PROVE  d[k] = IF k < i THEN s[k] ELSE s[k + 1]
  <2>1. CASE k < i
    <3>1. k \in 1 .. i - 1
      BY <2>1, <1>4
    <3>2. d[k] = a[k]
      BY <3>1, <1>2, <1>3
    <3> QED  BY <3>1, <3>2, <2>1, <1>2
  <2>2. CASE ~ (k < i)
    <3>1. k \in Len(a) + 1 .. Len(a) + Len(b)
      BY <2>2, <1>4
    <3>2. d[k] = b[k - Len(a)]
      BY <3>1, <1>3
    <3>3. k - Len(a) \in 1 .. Len(s) - i /\ i + (k - Len(a)) = k + 1
      BY <2>2, <1>4
    <3> QED  BY <3>2, <3>3, <2>2, <1>2
  <2> QED  BY <2>1, <2>2
<1>6. DOMAIN d = 1 .. Len(s) - 1
  BY <1>3, <1>4
<1> QED
  BY <1>2, <1>5, <1>6, Zenon DEF d

(* Sequences of the same length with the same elements are the same. *)
LEMMA SameSequence ==
    ASSUME NEW S, NEW s \in Seq(S), NEW t \in Seq(S), Len(s) = Len(t),
           \A i \in 1 .. Len(s) : s[i] = t[i]
    PROVE  s = t
  OBVIOUS

(* g begins with s0, and F makes each of its values of the one before. *)
Chain(g, n, s0, F) ==
    g[0] = s0 /\ \A i \in 1 .. n : g[i] = F[<<i, g[i - 1]>>]

(* A function can be defined from its value at the number before.          *)
LEMMA RecursionExists ==
    ASSUME NEW S, NEW s0 \in S, NEW n \in Nat, NEW F \in [(1 .. n) \X S -> S]
    PROVE  \E g \in [0 .. n -> S] : Chain(g, n, s0, F)
<1> DEFINE Is(k, g) == /\ g \in [0 .. k -> S] /\ g[0] = s0
                       /\ \A i \in 1 .. k : g[i] = F[<<i, g[i - 1]>>]
           B == {k \in 0 .. n : ~ \E g : Is(k, g)}
<1>1. SUFFICES B = {}
  <2>1. n \notin B
    BY <1>1
  <2>2. \E g : Is(n, g)
    BY <2>1
  <2> QED  BY <2>2 DEF Chain
<1>2. SUFFICES ASSUME B # {} PROVE FALSE
  OBVIOUS
<1>3. PICK k \in B : \A j \in B : k <= j
  <2>1. B \subseteq Nat
    OBVIOUS
  <2> HIDE DEF B
  <2> QED  BY <1>2, <2>1, LeastNatural
<1>4. k \in 0 .. n /\ ~ \E g : Is(k, g)
  OBVIOUS
<1>5. CASE k = 0
  <2>1. Is(0, [i \in 0 .. 0 |-> s0])
    OBVIOUS
  <2> QED  BY <1>4, <1>5, <2>1
<1>6. CASE k > 0
  <2>1. k - 1 \in 0 .. n /\ k - 1 \notin B
    BY <1>3, <1>4, <1>6
  <2>2. PICK g : Is(k - 1, g)
    BY <2>1
  <2> DEFINE h == [i \in 0 .. k |-> IF i = k THEN F[<<k, g[k - 1]>>] ELSE g[i]]
  <2>3. F[<<k, g[k - 1]>>] \in S
    BY <1>4, <1>6, <2>2
  <2>4. h \in [0 .. k -> S]
    BY <1>4, <1>6, <2>2, <2>3
  <2>5. h[0] = s0
    BY <1>4, <1>6, <2>2
  <2>6. ASSUME NEW i \in 1 .. k PROVE h[i] = F[<<i, h[i - 1]>>]
    <3>1. h[i - 1] = g[i - 1]
      BY <1>4, <1>6
    <3>2. CASE i = k
      <4>1. h[k] = F[<<k, g[k - 1]>>]
        BY <1>4
      <4>2. h[k - 1] = g[k - 1]
        BY <3>1, <3>2
      <4> HIDE DEF h
      <4> QED  BY <3>2, <4>1, <4>2
    <3>3. CASE i # k
      <4>1. h[i] = g[i] /\ i \in 1 .. k - 1
        BY <1>4, <3>3
      <4> QED  BY <2>2, <3>1, <4>1
    <3> QED  BY <3>2, <3>3
  <2>7. Is(k, h)
    BY <2>4, <2>5, <2>6
  <2> QED  BY <1>4, <2>7
<1> QED
  BY <1>4, <1>5, <1>6
=============================================================================
