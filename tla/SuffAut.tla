------------------------------- MODULE SuffAut -------------------------------
(***************************************************************************)
(* SuffAut of suff_aut.hpp, which finds the matches for run_lz: a suffix   *)
(* automaton of the reversed text, in which the suffixes of the text are   *)
(* words read backwards, and in each of its states the last suffix that    *)
(* came by.  get_match climbs the suffix links of one suffix, collects     *)
(* what earlier suffixes left there and leaves its own number behind; it   *)
(* does so for every position up to the one asked for, since the parse     *)
(* jumps over matches.                                                     *)
(***************************************************************************)
EXTENDS Matching, SuffAutBase

CONSTANTS
    Texts,          \* bit strings
    MinMatchLen     \* MIN_MATCH_LEN

ASSUME SuffAutAssumption ==
    /\ \A t \in Texts : t \in Seq({0, 1}) /\ t # << >>
    /\ MinMatchLen \in Nat \ {0}

VARIABLES
    text,       \* s
    vs,         \* vs: the state of each suffix, 1-based
    lastSuff,   \* last_suff
    iPtr,       \* i_ptr
    u,          \* u of get_match
    found,      \* res: records of start and len
    i,          \* the position of run_lz's parse
    parse       \* the matches run_lz has taken: <<position, start, length>>

query == <<vs, lastSuff, iPtr, u, found>>
vars == <<text, word, build, query, i, parse, pc>>

None == -1

Init ==
    /\ text \in Texts
    /\ word = Reverse(text)
    /\ StartsEmpty
    /\ vs = << >> /\ lastSuff = << >> /\ iPtr = 0 /\ u = Null /\ found = << >>
    /\ i = 0 /\ parse = << >>

Build == AddCharacters /\ UNCHANGED <<text, query, i, parse>>
-----------------------------------------------------------------------------
Suffix(k) == SubSeq(text, k + 1, Len(text))

(* prepare_matches, with CHECK(v) on the way down. *)
PrepareMatches ==
    /\ pc = "add" /\ added = Len(text)
    /\ \A k \in 1..Len(text) - 1 : StateOf(Reverse(Suffix(k))) # Null
    /\ vs' = [k \in 1..Len(text) |-> StateOf(Reverse(Suffix(k - 1)))]
    /\ lastSuff' = [v \in 1..Len(nodes) |-> None]
    /\ iPtr' = 0
    /\ pc' = "parse"
    /\ UNCHANGED <<text, word, build, u, found, i, parse>>

(* Mutant: the positions jumped over are not visited. *)
GetMatchOfOne ==
    /\ pc = "parse" /\ i < Len(text)
    /\ iPtr' = i
    /\ pc' = "get"
    /\ UNCHANGED <<text, word, build, vs, lastSuff, u, found, i, parse>>

(* run_lz asks for position i; CHECK(i_ptr <= need_i) *)
GetMatch ==
    /\ pc = "parse" /\ i < Len(text)
    /\ iPtr <= i
    /\ pc' = "get"
    /\ UNCHANGED <<text, word, build, query, i, parse>>

(* A turn of get_match's outer loop starts, with CHECK(i < vs.size()). *)
StartSuffix ==
    /\ pc = "get" /\ iPtr <= i
    /\ iPtr < Len(vs)
    /\ found' = << >>
    /\ u' = vs[iPtr + 1]
    /\ pc' = "climb"
    /\ UNCHANGED <<text, word, build, vs, lastSuff, iPtr, i, parse>>

(* Mutant: the suffix of a state is kept once it is there. *)
ClimbKeepFirst ==
    /\ pc = "climb" /\ u # Null /\ nodes[u].len >= MinMatchLen
    /\ IF lastSuff[u] # None
       THEN /\ found' = Append(found, [start |-> lastSuff[u], len |-> nodes[u].len])
            /\ UNCHANGED lastSuff
       ELSE lastSuff' = [lastSuff EXCEPT ![u] = iPtr] /\ UNCHANGED found
    /\ u' = nodes[u].link
    /\ UNCHANGED <<text, word, build, vs, iPtr, i, parse, pc>>

(* A turn of the inner loop. *)
Climb ==
    /\ pc = "climb" /\ u # Null /\ nodes[u].len >= MinMatchLen
    /\ found' = IF lastSuff[u] = None THEN found
                ELSE Append(found, [start |-> lastSuff[u], len |-> nodes[u].len])
    /\ lastSuff' = [lastSuff EXCEPT ![u] = iPtr]
    /\ u' = nodes[u].link
    /\ UNCHANGED <<text, word, build, vs, iPtr, i, parse, pc>>

EndSuffix ==
    /\ pc = "climb" /\ (u # Null => nodes[u].len < MinMatchLen)
    /\ iPtr' = iPtr + 1
    /\ pc' = "get"
    /\ UNCHANGED <<text, word, build, vs, lastSuff, u, found, i, parse>>

Return ==
    /\ pc = "get" /\ iPtr > i
    /\ pc' = "take"
    /\ UNCHANGED <<text, word, build, query, i, parse>>

(* run_lz takes the first of the longest matches. *)
Take ==
    /\ pc = "take"
    /\ \E k \in 1..Len(found) :
        /\ \A l \in 1..Len(found) :
             found[l].len < found[k].len \/ (found[l].len = found[k].len /\ k <= l)
        /\ parse' = Append(parse, <<i, found[k].start, found[k].len>>)
        /\ i' = i + found[k].len
    /\ pc' = "parse"
    /\ UNCHANGED <<text, word, build, query>>

Skip ==
    /\ pc = "take" /\ found = << >>
    /\ i' = i + 1
    /\ pc' = "parse"
    /\ UNCHANGED <<text, word, build, query, parse>>

Done == pc = "parse" /\ i >= Len(text) /\ UNCHANGED vars

Next ==
    \/ Build
    \/ PrepareMatches
    \/ GetMatch \/ StartSuffix \/ Climb \/ EndSuffix \/ Return \/ Take \/ Skip
    \/ Done

Spec == Init /\ [][Next]_vars /\ WF_vars(Next)
-----------------------------------------------------------------------------
(* Between two suffixes, what is noted in a state is the last one before i_ptr
   that begins with the state's words, although each climb writes to many states
   and a state is shared by many suffixes. *)
NotedSuffixIsLast ==
    pc \in {"get", "parse", "take"} =>
        \A k \in 0..Len(text) - 1 : \A l \in MinMatchLen..Len(text) - k :
            LET v == StateOf(Reverse(SubSeq(text, k + 1, k + l)))
                before == {j \in 0..iPtr - 1 : AgreeOver(text, k, j, l)}
            IN  IF before = {} THEN lastSuff[v] = None
                ELSE lastSuff[v] \in before /\ \A j \in before : j <= lastSuff[v]

(* The room reserved for the nodes is enough, the null node included, for all
   texts but that of one bit: nodes are never moved while they grow. *)
ReserveEnough == Len(text) > 1 => Len(nodes) + 1 <= 2 * Len(text)

(* What get_match returns makes run_lz's parse the greedy parse that Encoder
   takes it for: the longest match at each position, at its last place, and
   never an earlier end. *)
ParsesGreedily == INSTANCE GreedyParse
FindsBestMatches == ParsesGreedily!Spec
=============================================================================
