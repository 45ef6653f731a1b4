--------------------------- MODULE MCPatternMatch ---------------------------
(***************************************************************************)
(* All patterns of up to MaxTokens tokens against all topics of up to      *)
(* MaxTopic of two letters.                                                *)
(***************************************************************************)
EXTENDS PatternMatch

CONSTANTS MaxTokens, MaxTopic

VARIABLES topic, tokens

vars == <<topic, tokens>>

A == 97
B == 98
C == 99

Tokens == {Many, AnyOne, Literal(A), Literal(B), Escaped(A), OneOf(A, C),
           Between(B, C)}

Topics == {s \in SeqOf({A, B, C}, MaxTopic) : check_input_buffer1(s, 32)}

Init == topic \in Topics /\ tokens = <<>>

Longer(token) ==
    /\ Len(tokens) < MaxTokens
    /\ tokens' = Append(tokens, token)
    /\ UNCHANGED topic

Next == \E token \in Tokens : Longer(token)

Spec == Init /\ [][Next]_vars

(* docs/README.md: "The format of the template is to glob-style pattern":  *)
(* a pattern that channel_psubscribe accepts matches what the glob does.   *)
GlobStyle ==
    check_input_buffer3(Spelling(tokens), 32) =>
        (pattern_match(topic, Spelling(tokens)) <=> Glob(topic, tokens))
=============================================================================
