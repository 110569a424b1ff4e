------------------------------ MODULE MCCorpus ------------------------------
(* Instances of Corpus for TLC. *)
EXTENDS Corpus

MCFiles == <<<<"a">>, <<"a", "/", "b">>, <<"b">>>>

MCIds == <<<<"own">>, <<"two">>>>

MCAlphabet == <<"!", "*", "-", "/", "?", "[", "]", "a", "b", "c">>

\* Everything; a directory without its index; all but a class of names.
MCGlobs ==
    {<<{}, {}>>, <<{<<"a", "/", "*">>}, {<<"*", "c">>}>>, <<{}, {<<"[", "!", "a", "]">>}>>}

Strings(S, n) == UNION {[1..k -> S] : k \in 0..n}

\* Every short pattern, and longer ones with two stars, ranges and open classes.
MCPatterns ==
    Strings({"*", "?", "[", "]", "!", "a"}, 3)
    \cup {<<"*">> \o p \o <<"*">> \o q : p, q \in Strings({"a", "b", "?"}, 2)}
    \cup {<<"[">> \o p \o <<"]">> \o q : p \in Strings({"!", "-", "a", "c"}, 3), q \in {<<>>, <<"*">>, <<"a">>}}
    \cup {<<"*", "[">> \o p : p \in Strings({"!", "]", "a", "*"}, 3)}

MCTexts == Strings({"a", "b", "[", "]"}, 3) \cup [1..4 -> {"a", "b"}] \cup {<<"-">>, <<"!">>, <<"c">>, <<"a", "-">>}

=============================================================================
