----------------------------- MODULE MCChannels -----------------------------
(***************************************************************************)
(* Channels composed with PatternMatch: a topic, a pattern that            *)
(* pattern_match finds to match it and one that it does not.               *)
(***************************************************************************)
EXTENDS Channels, TLC

P == INSTANCE PatternMatch

A == 97
B == 98

Exact == <<P!Literal(A), P!Literal(B)>>
Prefix == <<P!Literal(A), P!Many>>
Other == <<P!AnyOne>>

MCTopics == {P!Spelling(Exact)}
MCPatterns == {P!Spelling(Prefix), P!Spelling(Other)}
MCMatches == {tp \in MCTopics \X MCPatterns : P!pattern_match(tp[1], tp[2])}

ASSUME MatchesTheFirst == MCMatches = MCTopics \X {P!Spelling(Prefix)}

(* Where nothing but letters follows a star, pattern_match agrees with the *)
(* globs, here for patterns of three tokens and topics of three letters.   *)
ASSUME GlobStyleUpToStar ==
    LET letters == {A, B}
        tokens == {P!Many, P!AnyOne, P!Escaped(A), P!OneOf(A, B),
                   P!Between(A, B)} \cup {P!Literal(c) : c \in letters}
        short(S) == UNION {[1 .. n -> S] : n \in 1 .. 3}
    IN  \A pattern \in short(tokens), topic \in short(letters) :
            P!StarThenLiterals(pattern) =>
                (P!pattern_match(topic, P!Spelling(pattern))
                    <=> P!Glob(topic, pattern))

Symmetry == Permutations(Clients) \cup Permutations(Channels)
                \cup Permutations(Names)
=============================================================================
