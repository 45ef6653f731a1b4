------------------------------- MODULE Lists --------------------------------
(***************************************************************************)
(* What the loops over a List (src/src/list.c) leave of it.  A list is the *)
(* sequence of its values, from the first node to the last.  The operators *)
(* are not recursive, so that ListProofs can prove facts about them.       *)
(***************************************************************************)
EXTENDS Integers, FiniteSets, Sequences

Elems(s) == {s[i] : i \in DOMAIN s}

NoRepetition(s) == \A i, j \in DOMAIN s : s[i] = s[j] => i = j

LastOf(s) == s[Len(s)]

AllButLast(s) == SubSeq(s, 1, Len(s) - 1)

(* list_delete_node on the i-th node. *)
Without(s, i) == SubSeq(s, 1, i - 1) \o SubSeq(s, i + 1, Len(s))

(* Mutant: the list is not rotated. *)
RotateNot(s) == s

(* list_rotate: the last node becomes the first. *)
Rotate(s) == <<LastOf(s)>> \o AllButLast(s)

(* The numbers in the finite set I in increasing order. *)
Enum(I) ==
    CHOOSE f \in [1 .. Cardinality(I) -> I] :
        /\ \A j, k \in 1 .. Cardinality(I) : j < k => f[j] < f[k]
        /\ \A i \in I : \E k \in 1 .. Cardinality(I) : f[k] = i

(* A loop over the list s that deletes every node whose value is not in T. *)
Keep(s, T) ==
    LET I == {i \in DOMAIN s : s[i] \in T}
    IN  [k \in 1 .. Cardinality(I) |-> s[Enum(I)[k]]]
=============================================================================
