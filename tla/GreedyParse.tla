---------------------------- MODULE GreedyParse -----------------------------
(***************************************************************************)
(* The parse that run_lz takes of a text, as Encoder has it and without a  *)
(* word on how matches are found: at each position the best match, or one  *)
(* bit on when there is none.                                              *)
(***************************************************************************)
EXTENDS Matching

CONSTANTS
    Texts,
    MinMatchLen

VARIABLES
    text,
    i,          \* the position of the parse
    parse       \* the matches taken: <<position, start, length>>

vars == <<text, i, parse>>

Init == text \in Texts /\ i = 0 /\ parse = << >>

Take ==
    /\ i < Len(text)
    /\ \E m \in Matches(text, i, MinMatchLen) :
        /\ IsBestMatch(text, i, MinMatchLen, m)
        /\ parse' = Append(parse, <<i, m[1], m[2]>>)
        /\ i' = i + m[2]
    /\ UNCHANGED text

Skip ==
    /\ i < Len(text)
    /\ Matches(text, i, MinMatchLen) = {}
    /\ i' = i + 1
    /\ UNCHANGED <<text, parse>>

Next == Take \/ Skip

Spec == Init /\ [][Next]_vars /\ WF_vars(Next)
=============================================================================
