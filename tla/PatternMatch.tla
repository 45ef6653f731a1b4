---------------------------- MODULE PatternMatch ----------------------------
(***************************************************************************)
(* pattern_match (src/src/utils.c), with which publish_message_channel_t   *)
(* decides whether a pattern of a channel listens to a topic, and a        *)
(* definition of what a glob-style pattern matches to compare it with.     *)
(*                                                                         *)
(* Strings are sequences of characters, and characters are their codes.    *)
(* The handlers pass only topics that check_input_buffer1 accepts and      *)
(* patterns that check_input_buffer3 accepts.  Neither is empty, so the    *)
(* string is never empty where the code looks at string[0]; a pattern has  *)
(* no ^, so the negation of brackets is not modelled.  A pattern that ends *)
(* in a backslash inside brackets is read past its end: it is not among    *)
(* the patterns that Spelling makes.                                       *)
(***************************************************************************)
EXTENDS Integers, SequencesExt

Star == 42
Minus == 45
Dot == 46
Question == 63
Open == 91
Backslash == 92
Close == 93
Underscore == 95

Alphanum == (48 .. 57) \cup (65 .. 90) \cup (97 .. 122)
Extra1 == {Underscore, Minus, Dot}
Extra2 == {Star, Question, Open, Close, Backslash}

(* What is accepted as a topic, and as a pattern. *)
check_input_buffer1(s, size) ==
    Len(s) \in 1 .. size /\ Range(s) \subseteq Alphanum \cup Extra1

check_input_buffer3(s, size) ==
    Len(s) \in 1 .. size /\ Range(s) \subseteq Alphanum \cup Extra1 \cup Extra2

From(s, i) == SubSeq(s, i, Len(s))

-----------------------------------------------------------------------------
(* The loop over the inside of brackets: whether one of the characters and *)
(* ranges there matches c, and what follows the closing bracket.           *)
RECURSIVE Brackets(_, _, _)
Brackets(p, c, match) ==
    CASE p = <<>> -> [match |-> match, rest |-> <<>>]
      [] p # <<>> /\ p[1] = Close -> [match |-> match, rest |-> Tail(p)]
      [] Len(p) >= 2 /\ p[1] = Backslash ->
             Brackets(From(p, 3), c, match \/ p[2] = c)
      [] Len(p) >= 3 /\ p[1] \notin {Backslash, Close} /\ p[2] = Minus ->
             Brackets(From(p, 4), c, match \/ c \in p[1] .. p[3]
                                           \/ c \in p[3] .. p[1])
      [] OTHER -> Brackets(Tail(p), c, match \/ p[1] = c)

(* pattern_match_length, for a string that is not empty.  Each turn of the *)
(* loop takes a character from the string; when it was the last one, only  *)
(* stars may be left of the pattern.  What follows a star is compared with *)
(* what is left of the string by a call in which the two are exchanged.    *)
RECURSIVE pattern_match_length(_, _)
pattern_match_length(string, pattern) ==
    LET next(s, p) == IF s = <<>> THEN Range(p) \subseteq {Star}
                                  ELSE pattern_match_length(s, p)
        after == CHOOSE i \in 1 .. Len(pattern) + 1 :
                     /\ \A j \in 1 .. i - 1 : pattern[j] = Star
                     /\ i <= Len(pattern) => pattern[i] # Star
        inside == Brackets(Tail(pattern), string[1], FALSE)
    IN  CASE pattern = <<>> -> FALSE
          [] after > 1 ->
                 \/ after > Len(pattern)
                 \/ \E i \in DOMAIN string :
                        pattern_match_length(From(pattern, after),
                                             From(string, i))
          [] after = 1 /\ pattern[1] = Question ->
                 next(Tail(string), Tail(pattern))
          [] after = 1 /\ pattern[1] = Open ->
                 inside.match /\ next(Tail(string), inside.rest)
          [] after = 1 /\ pattern[1] = Backslash /\ Len(pattern) >= 2 ->
                 pattern[2] = string[1] /\ next(Tail(string), From(pattern, 3))
          [] OTHER ->
                 pattern[1] = string[1] /\ next(Tail(string), Tail(pattern))

(* pattern_match; channels never ask to ignore case. *)
pattern_match(string, pattern) == pattern_match_length(string, pattern)

-----------------------------------------------------------------------------
(* Glob-style patterns: a pattern is a sequence of tokens, and a token is  *)
(* the text that spells it and the characters of which it stands for one,  *)
(* or for any number if it is a star.                                      *)
Literal(c) == [text |-> <<c>>, many |-> FALSE, chars |-> {c}]
Escaped(c) == [text |-> <<Backslash, c>>, many |-> FALSE, chars |-> {c}]
AnyOne == [text |-> <<Question>>, many |-> FALSE, chars |-> Alphanum \cup Extra1]
Many == [text |-> <<Star>>, many |-> TRUE, chars |-> Alphanum \cup Extra1]
OneOf(c, d) ==
    [text |-> <<Open, c, d, Close>>, many |-> FALSE, chars |-> {c, d}]
Between(c, d) ==
    [text |-> <<Open, c, Minus, d, Close>>, many |-> FALSE, chars |-> c .. d]

Spelling(tokens) == FlattenSeq([i \in DOMAIN tokens |-> tokens[i].text])

(* The string can be cut into one piece for each token. *)
Glob(string, tokens) ==
    \E cut \in [0 .. Len(tokens) -> 0 .. Len(string)] :
        /\ cut[0] = 0 /\ cut[Len(tokens)] = Len(string)
        /\ \A i \in DOMAIN tokens :
            /\ IF tokens[i].many THEN cut[i - 1] <= cut[i]
                                 ELSE cut[i] = cut[i - 1] + 1
            /\ \A j \in cut[i - 1] + 1 .. cut[i] :
                    string[j] \in tokens[i].chars

(* After the first star there is nothing but letters and the like. *)
StarThenLiterals(tokens) ==
    \A i, j \in DOMAIN tokens :
        tokens[i].many /\ i < j => Len(tokens[j].text) = 1
                                    /\ tokens[j].chars = Range(tokens[j].text)
=============================================================================
