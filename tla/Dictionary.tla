----------------------------- MODULE Dictionary ------------------------------
(***************************************************************************)
(* Dictionary of dictionary.hpp, as build_dict.cpp runs it: substrings     *)
(* that more than half of the training strings share, chosen from the      *)
(* states of one suffix automaton of all the strings, one after another.   *)
(* A state stands for the words that end at the same places; build_dict    *)
(* counts for each state, takes the best candidate, and kills the states   *)
(* of all its substrings, those taken before included.                     *)
(***************************************************************************)
EXTENDS SuffAutBase

CONSTANTS
    TrainingSets,   \* sequences of bit strings
    MaxDictSizes,   \* the values of max_dict_size
    MinMatchLength  \* min_match_length

ASSUME DictionaryAssumption ==
    /\ \A t \in TrainingSets : t \in Seq(Seq({0, 1}) \ {<< >>}) /\ t # << >>   \* blocks
    /\ MaxDictSizes \subseteq Nat
    /\ MinMatchLength \in Nat \ {0, 1}      \* the scores multiply by len - 2

VARIABLES
    trainingStrings,
    maxDictSize,
    cntOccured,
    cntDiffStrings,
    it,             \* the training string at hand, 1-based
    marked,         \* the states with last_marked = it
    queue, ql,      \* q up to qr, 1-based; ql is the next one read
    rest,           \* the candidates that the loop has not come to
    candidate,
    killed, dictV,
    sumLen,
    out

counts == <<cntOccured, cntDiffStrings, it, marked>>
choice == <<rest, candidate, killed, dictV, sumLen, out>>
input == <<trainingStrings, maxDictSize, word>>
dictVars == <<input, build, counts, queue, ql, choice, pc>>

DictInit ==
    /\ trainingStrings \in TrainingSets
    /\ maxDictSize \in MaxDictSizes
    /\ word = FlattenSeq(trainingStrings)
    /\ StartsEmpty
    /\ cntOccured = << >> /\ cntDiffStrings = << >> /\ it = 1 /\ marked = {}
    /\ queue = << >> /\ ql = 1
    /\ rest = {} /\ candidate = Null /\ killed = {} /\ dictV = {} /\ sumLen = 0 /\ out = << >>

AddTrainingData == AddCharacters /\ UNCHANGED <<trainingStrings, maxDictSize, counts, queue, ql, choice>>
-----------------------------------------------------------------------------
States == 1..Len(nodes)
n == Len(nodes) + 1
LenOf(v) == nodes[v].len
RevTo(v) == {from \in States : \E c \in {0, 1} : nodes[from].to[c] = v}

(* Mutant: only the state of all the data. *)
SuffixStatesLast == {last}

(* The states of the suffixes of all the data. *)
SuffixStates ==
    LET up[v \in States] == IF v = Root THEN {} ELSE {v} \cup up[nodes[v].link]
    IN  up[last]

(* The loop over top_sort adds to a state what its targets, all further on in
   length, have by then. *)
Occurrences ==
    LET cnt[v \in States] ==
            LET through(c) == IF nodes[v].to[c] = Null THEN 0 ELSE cnt[nodes[v].to[c]]
            IN  (IF v \in SuffixStates THEN 1 ELSE 0) + through(0) + through(1)
    IN  cnt

CountChecks ==
    /\ n >= Len(trainingStrings)
    /\ \A v \in States \ {last} : LenOf(v) < LenOf(last)        \* top_sort[0]
    /\ \A v \in States \ {Root} : LenOf(v) > LenOf(Root)        \* top_sort.back()
    /\ \A v \in States, c \in {0, 1} :
        nodes[v].to[c] # Null => LenOf(nodes[v].to[c]) > LenOf(v)
    /\ \A v \in States : Occurrences[v] \in 1..n

CountOccurred ==
    /\ pc = "add" /\ added = Len(word)
    /\ CountChecks
    /\ cntOccured' = Occurrences
    /\ cntDiffStrings' = [v \in States |-> 0]
    /\ pc' = "walk"
    /\ UNCHANGED <<input, build, it, marked, queue, ql, choice>>

StringStates(s) == [k \in 1..Len(s) |-> StateOf(SubSeq(s, 1, k))]
OneMoreFor(set) == [v \in States |-> cntDiffStrings[v] + (IF v \in set THEN 1 ELSE 0)]

(* CHECK(v), and CHECK(last_marked[v] != it) *)
WalkChecks(path) == Null \notin Range(path) /\ IsInjective(path)

WalkString ==
    /\ pc = "walk" /\ it <= Len(trainingStrings)
    /\ LET path == StringStates(trainingStrings[it])
       IN  /\ WalkChecks(path)
           /\ queue' = path /\ ql' = 1
           /\ marked' = Range(path)
           /\ cntDiffStrings' = OneMoreFor(Range(path))
    /\ pc' = "mark"
    /\ UNCHANGED <<input, build, cntOccured, it, choice>>

(* Mutants: a link is counted whether marked or not; only the links of the
   string's own states. *)
MarkLinkAgain ==
    /\ pc = "mark" /\ ql <= Len(queue)
    /\ LET fresh == {nodes[queue[ql]].link} \ {Null}
       IN  /\ queue' = queue \o SetToSeq(fresh)
           /\ marked' = marked \cup fresh
           /\ cntDiffStrings' = OneMoreFor(fresh)
    /\ ql' = ql + 1
    /\ UNCHANGED <<input, build, cntOccured, it, choice, pc>>

MarkLinkOnce ==
    /\ pc = "mark" /\ ql <= Len(queue)
    /\ LET fresh == {nodes[queue[ql]].link} \ ({Null} \cup marked)
       IN  /\ marked' = marked \cup fresh
           /\ cntDiffStrings' = OneMoreFor(fresh)
    /\ ql' = ql + 1
    /\ UNCHANGED <<input, build, cntOccured, it, queue, choice, pc>>

(* A turn of the loop over the links. *)
MarkLink ==
    /\ pc = "mark" /\ ql <= Len(queue)
    /\ LET fresh == {nodes[queue[ql]].link} \ ({Null} \cup marked)
       IN  /\ queue' = queue \o SetToSeq(fresh)
           /\ marked' = marked \cup fresh
           /\ cntDiffStrings' = OneMoreFor(fresh)
    /\ ql' = ql + 1
    /\ UNCHANGED <<input, build, cntOccured, it, choice, pc>>

EndString ==
    /\ pc = "mark" /\ ql > Len(queue)
    /\ it' = it + 1
    /\ pc' = "walk"
    /\ UNCHANGED <<input, build, cntOccured, cntDiffStrings, marked, queue, ql, choice>>
-----------------------------------------------------------------------------
Counted == pc = "walk" /\ it > Len(trainingStrings)
DiffChecks == \A v \in States \ {Root} : cntDiffStrings[v] <= cntOccured[v]

Candidates == {v \in States :
    /\ LenOf(v) \in MinMatchLength..maxDictSize
    /\ cntDiffStrings[v] > Len(trainingStrings) \div 2}

Collect ==
    /\ Counted
    /\ DiffChecks
    /\ rest' = Candidates
    /\ pc' = "choose"
    /\ UNCHANGED <<input, build, counts, queue, ql, candidate, killed, dictV, sumLen, out>>

Score(v) == <<cntDiffStrings[v] * (LenOf(v) - 2), cntOccured[v] * (LenOf(v) - 2),
              cntDiffStrings[v], cntOccured[v]>>
Better(a, b) ==
    \E k \in 1..4 : Score(a)[k] > Score(b)[k] /\ \A j \in 1..k - 1 : Score(a)[j] = Score(b)[j]
(* std::sort leaves open which of two equal candidates comes first. *)
First(v) == v \in rest /\ \A w \in rest : ~ Better(w, v)
Fits(v) == v \notin killed /\ LenOf(v) + sumLen <= maxDictSize

SkipCandidate == \E v \in rest :
    /\ pc = "choose" /\ First(v) /\ ~ Fits(v)
    /\ rest' = rest \ {v}
    /\ UNCHANGED <<input, build, counts, queue, ql, candidate, killed, dictV, sumLen, out, pc>>

TakeCandidate == \E v \in rest :
    /\ pc = "choose" /\ First(v) /\ Fits(v)
    /\ rest' = rest \ {v}
    /\ candidate' = v
    /\ sumLen' = sumLen + LenOf(v)
    /\ queue' = <<v>> /\ ql' = 1
    /\ pc' = "kill"
    /\ UNCHANGED <<input, build, counts, killed, dictV, out>>

(* Mutant: the states before v are forgotten. *)
KillableLinksOnly(v) == {nodes[v].link} \ ({Null} \cup killed)

(* The states that try_kill finds from v: the link, then the states before it. *)
Killable(v) == ({nodes[v].link} \cup RevTo(v)) \ ({Null} \cup killed)
Ascending(set) ==
    CHOOSE s \in [1..Cardinality(set) -> set] : \A j, k \in DOMAIN s : j < k => s[j] < s[k]
InOrder(v, set) == SetToSeq(set \cap {nodes[v].link}) \o Ascending(set \ {nodes[v].link})
TotalLen(set) == SumFunction([v \in set |-> LenOf(v)])

(* Mutant: what leaves the dictionary keeps its share of sum_len. *)
KillKeepLen ==
    /\ pc = "kill" /\ ql <= Len(queue)
    /\ LET fresh == Killable(queue[ql])
       IN  /\ killed' = killed \cup fresh
           /\ dictV' = dictV \ fresh
           /\ queue' = queue \o InOrder(queue[ql], fresh)
    /\ ql' = ql + 1
    /\ UNCHANGED <<input, build, counts, rest, candidate, sumLen, out, pc>>

(* A turn of the killing loop. *)
Kill ==
    /\ pc = "kill" /\ ql <= Len(queue)
    /\ LET fresh == Killable(queue[ql])
       IN  /\ killed' = killed \cup fresh
           /\ dictV' = dictV \ fresh
           /\ sumLen' = sumLen - TotalLen(dictV \cap fresh)
           /\ queue' = queue \o InOrder(queue[ql], fresh)
    /\ ql' = ql + 1
    /\ UNCHANGED <<input, build, counts, rest, candidate, out, pc>>

EndKill ==
    /\ pc = "kill" /\ ql > Len(queue)
    /\ dictV' = dictV \cup {candidate}
    /\ pc' = "choose"
    /\ UNCHANGED <<input, build, counts, queue, ql, rest, candidate, killed, sumLen, out>>
-----------------------------------------------------------------------------
(* restore_longest_str_for_v *)
Before(v) == {from \in RevTo(v) : LenOf(v) = LenOf(from) + 1}
Longest ==
    LET str[v \in States] ==
            IF v = Root THEN << >>
            ELSE LET from == CHOOSE w \in Before(v) : \A x \in Before(v) : x <= w
                     ch == IF nodes[from].to[0] = v THEN 0 ELSE 1
                 IN  Append(str[from], ch)
    IN  str

RestoreChecks == \A v \in dictV : Before(v) # {} /\ Len(Longest[v]) = LenOf(v)

Output ==
    /\ pc = "choose" /\ rest = {}
    /\ sumLen <= maxDictSize
    /\ RestoreChecks
    /\ out' = FlattenSeq([k \in 1..Cardinality(dictV) |-> Longest[Ascending(dictV)[k]]])
    /\ Len(out') = sumLen
    /\ pc' = "done"
    /\ UNCHANGED <<input, build, counts, queue, ql, rest, candidate, killed, dictV, sumLen>>

DictDone == pc = "done" /\ UNCHANGED dictVars

DictNext ==
    \/ AddTrainingData
    \/ CountOccurred \/ WalkString \/ MarkLink \/ EndString
    \/ Collect \/ SkipCandidate \/ TakeCandidate \/ Kill \/ EndKill \/ Output
    \/ DictDone

DictSpec == DictInit /\ [][DictNext]_dictVars
-----------------------------------------------------------------------------
WordsOf(v) == {w \in Words : StateOf(w) = v}
Within(w, s) == w \in SubSeqs(s)
StringsWith(w) == {k \in DOMAIN trainingStrings : Within(w, trainingStrings[k])}

(* The counts, made of paths and links, are those of the words: a state has
   occurred where its words end, and in the training strings that contain its
   shortest word. *)
CountsRight ==
    Counted =>
        \A v \in States \ {Root} : \A w \in WordsOf(v) :
            /\ cntOccured[v] = Cardinality(Ends(w))
            /\ (\A x \in WordsOf(v) : Len(w) <= Len(x)) =>
                cntDiffStrings[v] = Cardinality(StringsWith(w))

(* The comment on cnt_diff_strings, with the check below it that is commented
   out: the strings that contain the substring, which is the longest word of the
   state.  Expected to fail: that word may run across two training strings. *)
CountsDistinctStrings ==
    Counted => \A v \in States \ {Root} : cntDiffStrings[v] = Cardinality(StringsWith(Longest[v]))

(* q has room for as many states as there are nodes: no loop puts a state in it
   twice, although every state can be reached on many ways. *)
QueueFits == Len(queue) <= n

(* The check that the source has commented out: of two words in the dictionary
   neither occurs in the other, in whichever order they were taken. *)
KeptApart ==
    pc \in {"choose", "done"} =>
        \A v, w \in dictV : v # w => ~ Within(Longest[v], Longest[w])

(* No CHECK of build_dict fails, in particular those on the size of the output,
   which is kept in a counter that killed words are taken off. *)
ChecksHold ==
    /\ pc = "add" /\ added = Len(word) => CountChecks
    /\ pc = "walk" /\ ~ Counted => WalkChecks(StringStates(trainingStrings[it]))
    /\ Counted => DiffChecks
    /\ pc = "choose" => sumLen <= maxDictSize /\ RestoreChecks /\ sumLen = TotalLen(dictV)
=============================================================================
