------------------------------- MODULE Huffman -------------------------------
(***************************************************************************)
(* HuffmanEncoderDecoder of huffman.hpp.  Encoder and decoder construct it *)
(* from the same table of frequencies, each for itself: the tree is never  *)
(* sent, so nothing in its construction may be left to chance.  The nodes  *)
(* are in a std::set ordered by frequency, least depth and least symbol;   *)
(* the first two are merged until one is left.                             *)
(*                                                                         *)
(* A node stands here for the leaves below it, each with the path down to  *)
(* it: merging prepends a bit, and the paths of the last node are the      *)
(* codes that the constructor's dfs writes down.                           *)
(***************************************************************************)
EXTENDS Bits, FiniteSets, FiniteSetsExt

CONSTANTS
    Tables,      \* the tables of frequencies: symbol, from 0, -> frequency
    MaxMessage   \* a bound for the checks: how many symbols are encoded

(* Every table of the program has 16 symbols or more. *)
ASSUME HuffmanAssumption ==
    /\ \A t \in Tables :
        /\ IsFiniteSet(DOMAIN t) /\ Cardinality(DOMAIN t) > 1
        /\ DOMAIN t = 0..Cardinality(DOMAIN t) - 1
        /\ \A s \in DOMAIN t : t[s] \in Nat
    /\ MaxMessage \in Nat

VARIABLES
    freq,      \* freq
    toInsert,  \* the constructor's s
    nodes,     \* the std::set: records of freq, minDepth, minSymbol and paths
    codes,     \* codes, << >> before the dfs
    message,   \* the symbols encoded so far
    bits,      \* what bit_ptr has written
    limit,     \* ptr_len of decode_symbol
    offs,      \* bit_ptr.offs of the decoder
    start,     \* initial_offs
    decoded,   \* the symbols decoded so far
    pc         \* "insert", "merge", "encode", "decode", "walk", "done"

tree == <<freq, toInsert, nodes, codes>>
text == <<message, bits, limit, offs, start, decoded>>
vars == <<tree, text, pc>>

Symbols == DOMAIN freq

Init ==
    /\ freq \in Tables
    /\ toInsert = 0 /\ nodes = {} /\ codes = << >>
    /\ message = << >> /\ bits = << >>
    /\ limit = 0 /\ offs = 0 /\ start = 0 /\ decoded = << >>
    /\ pc = "insert"
-----------------------------------------------------------------------------
(* Mutant: the comparator ends with the depth. *)
LessWithoutSymbol(a, b) ==
    \/ a.freq < b.freq
    \/ a.freq = b.freq /\ a.minDepth < b.minDepth

(* cmp *)
Less(a, b) ==
    \/ a.freq < b.freq
    \/ a.freq = b.freq /\ a.minDepth < b.minDepth
    \/ a.freq = b.freq /\ a.minDepth = b.minDepth /\ a.minSymbol < b.minSymbol

(* Comparing two nodes, cmp CHECKs that they are not alike. *)
Comparable(a, b) ==
    a.freq = b.freq /\ a.minDepth = b.minDepth => a.minSymbol # b.minSymbol

(* A frequency of 0 counts as 1. *)
Weight(s) == IF freq[s] > 1 THEN freq[s] ELSE 1

Leaf(s) == [freq |-> Weight(s), minDepth |-> 0, minSymbol |-> s, paths |-> [x \in {s} |-> << >>]]

InsertLeaf ==
    /\ pc = "insert" /\ toInsert \in Symbols
    /\ \A n \in nodes : Comparable(n, Leaf(toInsert))
    /\ nodes' = nodes \cup {Leaf(toInsert)}
    /\ toInsert' = toInsert + 1
    /\ UNCHANGED <<freq, codes, text, pc>>

EndInsert ==
    /\ pc = "insert" /\ toInsert \notin Symbols
    /\ pc' = "merge"
    /\ UNCHANGED <<tree, text>>

(* Mutant: both subtrees hang on the left. *)
PathsLeft(a, b) ==
    [s \in DOMAIN a.paths \cup DOMAIN b.paths |->
        IF s \in DOMAIN a.paths THEN <<0>> \o a.paths[s] ELSE <<0>> \o b.paths[s]]

(* Left is 0 and right is 1. *)
Paths(a, b) ==
    [s \in DOMAIN a.paths \cup DOMAIN b.paths |->
        IF s \in DOMAIN a.paths THEN <<0>> \o a.paths[s] ELSE <<1>> \o b.paths[s]]

Least(m, n) == IF m <= n THEN m ELSE n

(* Mutants: min_symbol left at 0 in an inner node; the frequency of the right
   subtree instead of the sum. *)
InnerNoMinSymbol(a, b) ==
    [freq |-> a.freq + b.freq, minDepth |-> Least(a.minDepth, b.minDepth) + 1,
     minSymbol |-> 0, paths |-> Paths(a, b)]
InnerFreqOfRight(a, b) ==
    [freq |-> b.freq, minDepth |-> Least(a.minDepth, b.minDepth) + 1,
     minSymbol |-> Least(a.minSymbol, b.minSymbol), paths |-> Paths(a, b)]

(* Node(left, right) *)
Inner(a, b) ==
    [freq |-> a.freq + b.freq, minDepth |-> Least(a.minDepth, b.minDepth) + 1,
     minSymbol |-> Least(a.minSymbol, b.minSymbol), paths |-> Paths(a, b)]

IsFirst(a, S) == a \in S /\ \A n \in S \ {a} : Less(a, n)

(* Take the first two and insert their parent. *)
Merge ==
    /\ pc = "merge" /\ Cardinality(nodes) > 1
    /\ \E a \in nodes : \E b \in nodes \ {a} :
        /\ IsFirst(a, nodes) /\ IsFirst(b, nodes \ {a})
        /\ \A n \in nodes \ {a, b} : Comparable(n, Inner(a, b))
        /\ nodes' = (nodes \ {a, b}) \cup {Inner(a, b)}
    /\ UNCHANGED <<freq, toInsert, codes, text, pc>>

(* The dfs from the root. *)
WriteCodes ==
    /\ pc = "merge" /\ Cardinality(nodes) = 1
    /\ \E root \in nodes : codes' = root.paths
    /\ pc' = "encode"
    /\ UNCHANGED <<freq, toInsert, nodes, text>>
-----------------------------------------------------------------------------
(* encode_symbol; a code of no bits is refused. *)
EncodeSymbol ==
    /\ pc = "encode" /\ Len(message) < MaxMessage
    /\ \E s \in Symbols :
        /\ codes[s] # << >>
        /\ message' = Append(message, s)
        /\ bits' = bits \o codes[s]
    /\ UNCHANGED <<tree, limit, offs, start, decoded, pc>>

(* The decoder has some of the bits, as when a literal ends inside a code. *)
StartDecode ==
    /\ pc = "encode" /\ message # << >>
    /\ limit' \in 0..Len(bits)
    /\ pc' = "decode"
    /\ UNCHANGED <<tree, message, bits, offs, start, decoded>>

(* decode_symbol is called until it fails. *)
CallDecode ==
    /\ pc = "decode"
    /\ start' = offs
    /\ pc' = "walk"
    /\ UNCHANGED <<tree, message, bits, limit, offs, decoded>>

(* The node the walk has come to: the leaves on the way that begins so. *)
Path == SubSeq(bits, start + 1, offs)
AtLeaf(s) == codes[s] = Path
AtInner == \E s \in Symbols : StartsWith(codes[s], Path) /\ codes[s] # Path

(* Mutant: the limit is not looked at. *)
WalkOn ==
    /\ pc = "walk" /\ ~ (\E s \in Symbols : AtLeaf(s)) /\ offs < Len(bits)
    /\ offs' = offs + 1
    /\ UNCHANGED <<tree, message, bits, limit, start, decoded, pc>>

(* One turn: read a bit and go down; CHECK(v) *)
Walk ==
    /\ pc = "walk" /\ ~ (\E s \in Symbols : AtLeaf(s)) /\ offs < limit
    /\ offs' = offs + 1
    /\ UNCHANGED <<tree, message, bits, limit, start, decoded, pc>>

(* Mutant: the offset stays where the bits ran out. *)
RunOutNoReset ==
    /\ pc = "walk" /\ ~ (\E s \in Symbols : AtLeaf(s)) /\ offs >= limit
    /\ pc' = "done"
    /\ UNCHANGED <<tree, text>>

(* The bits run out: back to initial_offs, and -1u. *)
RunOut ==
    /\ pc = "walk" /\ ~ (\E s \in Symbols : AtLeaf(s)) /\ offs >= limit
    /\ offs = limit
    /\ offs' = start
    /\ pc' = "done"
    /\ UNCHANGED <<tree, message, bits, limit, start, decoded>>

ReachLeaf ==
    /\ pc = "walk"
    /\ \E s \in Symbols : AtLeaf(s) /\ decoded' = Append(decoded, s)
    /\ pc' = "decode"
    /\ UNCHANGED <<tree, message, bits, limit, offs, start>>

Done == pc = "done" /\ UNCHANGED vars

Next ==
    \/ InsertLeaf \/ EndInsert \/ Merge \/ WriteCodes
    \/ EncodeSymbol \/ StartDecode
    \/ CallDecode \/ Walk \/ RunOut \/ ReachLeaf \/ Done

Spec == Init /\ [][Next]_vars
-----------------------------------------------------------------------------
(* Every variable holds a value of its type. *)
TypeOK ==
    /\ toInsert \in 0..Cardinality(Symbols)
    /\ \A n \in nodes :
        /\ n.freq \in Nat \ {0} /\ n.minDepth \in Nat /\ n.minSymbol \in DOMAIN n.paths
        /\ DOMAIN n.paths \subseteq Symbols
        /\ \A s \in DOMAIN n.paths : n.paths[s] \in Seq(Bit)
    /\ bits \in Seq(Bit) /\ limit \in 0..Len(bits)
    /\ offs \in 0..Len(bits) /\ start \in 0..offs
    /\ pc \in {"insert", "merge", "encode", "decode", "walk", "done"}

(* The construction is determined: of two nodes in the std::set the comparator
   puts exactly one first, and its CHECK holds, whatever frequencies are alike.
   So compressor and decompressor, and every platform, get the same codes. *)
OrderDetermined ==
    \A a, b \in nodes : a # b => Comparable(a, b) /\ (Less(a, b) <=> ~ Less(b, a))

(* What every use of the codes in the codec assumes: a code for each symbol of
   the table, none empty, none the beginning of another. *)
CodesUsable ==
    pc \notin {"insert", "merge"} => DOMAIN codes = Symbols /\ IsPrefixCode(codes)

(* No prefix code of the same symbols needs fewer bits for a text with these
   frequencies: the reference is every assignment of lengths that fits. *)
Cost(len) == SumFunction([s \in Symbols |-> Weight(s) * len[s]])
Fits(len) ==
    LET longest == Cardinality(Symbols)
    IN  SumFunction([s \in Symbols |-> Pow2[longest - len[s]]]) <= Pow2[longest]

CodesOptimal ==
    pc = "encode" /\ message = << >> =>
        \A len \in [Symbols -> 1..Cardinality(Symbols) - 1] :
            Fits(len) => Cost([s \in Symbols |-> Len(codes[s])]) <= Cost(len)

(* decode_symbol gives the symbols that were encoded, one after the other, as
   far as the bits it may read reach; when a code is cut off it fails and
   leaves the offset at the code's first bit, to be tried again later.  The walk
   never leaves the tree, CHECK(v), and never passes the limit. *)
Written[k \in 0..Len(message)] ==
    IF k = 0 THEN 0 ELSE Written[k - 1] + Len(codes[message[k]])

DecodesWhatWasEncoded ==
    /\ StartsWith(message, decoded)
    /\ pc = "walk" => (AtInner \/ \E s \in Symbols : AtLeaf(s)) /\ offs <= limit
    /\ pc = "done" =>
        /\ offs = Written[Len(decoded)] /\ offs <= limit
        /\ Len(decoded) < Len(message) => Written[Len(decoded) + 1] > limit

=============================================================================
