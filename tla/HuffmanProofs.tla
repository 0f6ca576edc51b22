---------------------------- MODULE HuffmanProofs ----------------------------
(***************************************************************************)
(* Theorems about Huffman for every set of tables: the construction is     *)
(* determined by the table, its codes are prefix codes, none is better,    *)
(* and decoding gives what was encoded.  The second part is about          *)
(* ByteCoder, for all prefix codes: the bytes come back.                   *)
(***************************************************************************)
EXTENDS Huffman, ByteCoder, DataFacts

(* The paths of a node are bit strings, and none begins another. *)
IsPathSet(paths) ==
    /\ \A s \in DOMAIN paths : paths[s] \in Seq(Bit)
    /\ \A s, t \in DOMAIN paths : s # t => ~ StartsWith(paths[t], paths[s])

NodeOK(n, upTo) ==
    /\ n.freq \in Nat \ {0} /\ n.minDepth \in Nat
    /\ n.minSymbol \in DOMAIN n.paths
    /\ DOMAIN n.paths \subseteq 0..upTo - 1
    /\ IsPathSet(n.paths)

Disjoint(S) == \A a, b \in S : a # b => DOMAIN a.paths \cap DOMAIN b.paths = {}

Covered(S, upTo) == \A s \in 0..upTo - 1 : \E n \in S : s \in DOMAIN n.paths

PhaseOK ==
    /\ pc \in {"insert", "merge", "encode", "decode", "walk", "done"}
    /\ pc = "insert" \/ toInsert \notin Symbols

TextOK ==
    /\ bits \in Seq(Bit) /\ limit \in 0..Len(bits)
    /\ offs \in 0..Len(bits) /\ start \in 0..offs

(* The inductive invariant: in addition to what is claimed, the nodes hold only
   symbols that have been inserted. *)
IInv ==
    /\ freq \in Tables
    /\ toInsert \in 0..Cardinality(Symbols)
    /\ IsFiniteSet(nodes)
    /\ \A n \in nodes : NodeOK(n, toInsert)
    /\ Disjoint(nodes) /\ Covered(nodes, toInsert)
    /\ CodesUsable
    /\ PhaseOK /\ TextOK
-----------------------------------------------------------------------------
LEMMA EmptyBegins ==
    ASSUME NEW s \in Seq(Bit)
    PROVE  StartsWith(s, << >>)
<1>1. << >> \in Seq(Bit) /\ Len(<< >>) = 0 /\ Len(s) \in Nat
  OBVIOUS
<1>2. SubSeq(s, 1, 0) = << >>
  OBVIOUS
<1> QED
  BY <1>1, <1>2 DEF StartsWith

(* A bit put before a string. *)
LEMMA ConsFacts ==
    ASSUME NEW c \in Bit, NEW x \in Seq(Bit)
    PROVE  /\ <<c>> \o x \in Seq(Bit)
           /\ Len(<<c>> \o x) = Len(x) + 1
           /\ (<<c>> \o x)[1] = c
           /\ \A k \in 1..Len(x) : (<<c>> \o x)[k + 1] = x[k]
<1>1. <<c>> \in Seq(Bit) /\ Len(<<c>>) = 1 /\ <<c>>[1] = c
  OBVIOUS
<1>2. Len(x) \in Nat
  OBVIOUS
<1> QED
  BY <1>1, <1>2, ConcatProperties

LEMMA SameBit ==
    ASSUME NEW c \in Bit, NEW x \in Seq(Bit), NEW y \in Seq(Bit),
           StartsWith(<<c>> \o x, <<c>> \o y)
    PROVE  StartsWith(x, y)
<1> DEFINE cx == <<c>> \o x
           cy == <<c>> \o y
<1>1. Len(x) \in Nat /\ Len(y) \in Nat
  OBVIOUS
<1>2. /\ cx \in Seq(Bit) /\ Len(cx) = Len(x) + 1
      /\ \A k \in 1..Len(x) : cx[k + 1] = x[k]
  BY ConsFacts
<1>3. /\ cy \in Seq(Bit) /\ Len(cy) = Len(y) + 1
      /\ \A k \in 1..Len(y) : cy[k + 1] = y[k]
  BY ConsFacts
<1> HIDE DEF cx, cy
<1>4. Len(cy) <= Len(cx) /\ \A k \in 1..Len(cy) : cx[k] = cy[k]
  BY <1>2, <1>3, PrefixPointwise DEF cx, cy
<1>5. Len(y) <= Len(x)
  BY <1>1, <1>2, <1>3, <1>4
<1>6. \A k \in 1..Len(y) : x[k] = y[k]
  <2> TAKE k \in 1..Len(y)
  <2>1. k + 1 \in 1..Len(cy) /\ k \in 1..Len(x)
    BY <1>1, <1>3, <1>5
  <2> QED
    BY <2>1, <1>2, <1>3, <1>4
<1> QED
  BY <1>5, <1>6, PrefixPointwise

LEMMA OtherBit ==
    ASSUME NEW c \in Bit, NEW d \in Bit, c # d, NEW x \in Seq(Bit), NEW y \in Seq(Bit)
    PROVE  ~ StartsWith(<<c>> \o x, <<d>> \o y)
<1>1. <<c>> \o x \in Seq(Bit) /\ (<<c>> \o x)[1] = c
  BY ConsFacts
<1>2. <<d>> \o y \in Seq(Bit) /\ (<<d>> \o y)[1] = d /\ Len(<<d>> \o y) = Len(y) + 1
  BY ConsFacts
<1>3. 1 \in 1..Len(<<d>> \o y)
  BY <1>2
<1> QED
  BY <1>1, <1>2, <1>3, PrefixPointwise

(* Joining two path sets without a common symbol gives a path set. *)
LEMMA JoinedPaths ==
    ASSUME NEW a, NEW b, IsPathSet(a.paths), IsPathSet(b.paths),
           DOMAIN a.paths \cap DOMAIN b.paths = {}
    PROVE  /\ DOMAIN Paths(a, b) = DOMAIN a.paths \cup DOMAIN b.paths
           /\ IsPathSet(Paths(a, b))
<1> DEFINE p == Paths(a, b)
<1>1. DOMAIN p = DOMAIN a.paths \cup DOMAIN b.paths
  BY DEF Paths
<1>2. \A s \in DOMAIN a.paths : p[s] = <<0>> \o a.paths[s] /\ a.paths[s] \in Seq(Bit)
  BY DEF Paths, IsPathSet
<1>3. \A s \in DOMAIN b.paths : p[s] = <<1>> \o b.paths[s] /\ b.paths[s] \in Seq(Bit)
  BY DEF Paths, IsPathSet
<1> HIDE DEF p
<1>4. 0 \in Bit /\ 1 \in Bit
  BY DEF Bit
<1>5. \A s \in DOMAIN p : p[s] \in Seq(Bit)
  <2>1. \A c \in Bit, x \in Seq(Bit) : <<c>> \o x \in Seq(Bit)
    BY ConsFacts
  <2> QED
    BY <1>1, <1>2, <1>3, <1>4, <2>1
<1>6. ASSUME NEW s \in DOMAIN p, NEW t \in DOMAIN p, s # t, StartsWith(p[t], p[s])
      PROVE  FALSE
  <2>1. CASE s \in DOMAIN a.paths /\ t \in DOMAIN a.paths
    <3>1. StartsWith(a.paths[t], a.paths[s])
      BY <1>2, <1>4, <1>6, <2>1, SameBit
    <3> QED
      BY <3>1, <1>6, <2>1 DEF IsPathSet
  <2>2. CASE s \in DOMAIN b.paths /\ t \in DOMAIN b.paths
    <3>1. StartsWith(b.paths[t], b.paths[s])
      BY <1>3, <1>4, <1>6, <2>2, SameBit
    <3> QED
      BY <3>1, <1>6, <2>2 DEF IsPathSet
  <2>3. \A x, y \in Seq(Bit) :
           ~ StartsWith(<<0>> \o x, <<1>> \o y) /\ ~ StartsWith(<<1>> \o x, <<0>> \o y)
    BY <1>4, OtherBit
  <2>4. CASE s \in DOMAIN a.paths /\ t \in DOMAIN b.paths
    BY <1>2, <1>3, <1>6, <2>3, <2>4
  <2>5. CASE s \in DOMAIN b.paths /\ t \in DOMAIN a.paths
    BY <1>2, <1>3, <1>6, <2>3, <2>5
  <2> QED
    BY <1>1, <1>6, <2>1, <2>2, <2>4, <2>5
<1> QED
  BY <1>1, <1>5, <1>6 DEF p, IsPathSet

(* The table has symbols 0 to Cardinality(Symbols) - 1, two at least. *)
LEMMA TableFacts ==
    ASSUME freq \in Tables
    PROVE  /\ Cardinality(Symbols) \in Nat /\ Cardinality(Symbols) > 1
           /\ Symbols = 0..Cardinality(Symbols) - 1
           /\ \A s \in Symbols : Weight(s) \in Nat \ {0}
<1>1. /\ IsFiniteSet(Symbols) /\ Cardinality(Symbols) > 1
      /\ Symbols = 0..Cardinality(Symbols) - 1
      /\ \A s \in Symbols : freq[s] \in Nat
  BY HuffmanAssumption DEF Symbols
<1>2. Cardinality(Symbols) \in Nat
  BY <1>1, FS_CardinalityType
<1>3. \A s \in Symbols : Weight(s) \in Nat \ {0}
  BY <1>1 DEF Weight
<1> QED
  BY <1>1, <1>2, <1>3
-----------------------------------------------------------------------------
LEMMA InitIInv == Init => IInv
<1> SUFFICES ASSUME Init PROVE IInv
  OBVIOUS
<1>1. freq \in Tables /\ toInsert = 0 /\ nodes = {} /\ pc = "insert"
  BY DEF Init
<1>2. Cardinality(Symbols) \in Nat /\ Cardinality(Symbols) > 1
  BY <1>1, TableFacts
<1>3. toInsert \in 0..Cardinality(Symbols)
  BY <1>1, <1>2
<1>4. Covered(nodes, toInsert)
  BY <1>1 DEF Covered
<1>5. TextOK
  BY DEF Init, TextOK
<1> QED
  BY <1>1, <1>3, <1>4, <1>5, FS_EmptySet DEF IInv, Disjoint, CodesUsable, PhaseOK

(* What the steps of the construction start from. *)
LEMMA IInvFacts ==
    ASSUME IInv
    PROVE  /\ freq \in Tables /\ IsFiniteSet(nodes)
           /\ \A n \in nodes : NodeOK(n, toInsert)
           /\ Disjoint(nodes) /\ Covered(nodes, toInsert)
           /\ CodesUsable /\ PhaseOK /\ TextOK
           /\ toInsert \in 0..Cardinality(Symbols) /\ toInsert \in Nat
           /\ Cardinality(Symbols) \in Nat /\ Symbols = 0..Cardinality(Symbols) - 1
<1>1. freq \in Tables
  BY DEF IInv
<1>2. Cardinality(Symbols) \in Nat /\ Symbols = 0..Cardinality(Symbols) - 1
  BY <1>1, TableFacts
<1>3. toInsert \in 0..Cardinality(Symbols)
  BY DEF IInv
<1>4. toInsert \in Nat
  BY <1>2, <1>3
<1> QED
  BY <1>1, <1>2, <1>3, <1>4 DEF IInv

(* A new leaf is a good node, of a symbol that no other node has. *)
LEMMA InsertLeafIInv == IInv /\ InsertLeaf => IInv'
<1> SUFFICES ASSUME IInv, InsertLeaf PROVE IInv'
  OBVIOUS
<1> DEFINE leaf == Leaf(toInsert)
<1>1. /\ pc = "insert" /\ pc' = pc /\ toInsert \in Symbols /\ toInsert' = toInsert + 1
      /\ nodes' = nodes \cup {leaf} /\ freq' = freq /\ codes' = codes
      /\ bits' = bits /\ limit' = limit /\ offs' = offs /\ start' = start
  BY DEF InsertLeaf, text
<1> USE IInvFacts
<1>2. Weight(toInsert) \in Nat \ {0}
  BY <1>1, TableFacts
<1>3. Symbols' = Symbols
  BY <1>1 DEF Symbols
<1>4. toInsert' \in 0..Cardinality(Symbols')
  BY <1>1, <1>3
<1>5. /\ leaf.freq = Weight(toInsert) /\ leaf.minDepth = 0 /\ leaf.minSymbol = toInsert
      /\ leaf.paths = [x \in {toInsert} |-> << >>]
  BY DEF Leaf
<1> HIDE DEF leaf
<1>6. NodeOK(leaf, toInsert')
  <2>1. DOMAIN leaf.paths = {toInsert} /\ leaf.paths[toInsert] \in Seq(Bit)
    BY <1>5
  <2>2. IsPathSet(leaf.paths)
    BY <2>1 DEF IsPathSet
  <2>3. DOMAIN leaf.paths \subseteq 0..toInsert' - 1
    BY <1>1, <2>1
  <2>4. leaf.freq \in Nat \ {0} /\ leaf.minDepth \in Nat /\ leaf.minSymbol \in DOMAIN leaf.paths
    BY <1>2, <1>5, <2>1
  <2> QED
    BY <2>2, <2>3, <2>4 DEF NodeOK
<1>7. \A n \in nodes' : NodeOK(n, toInsert')
  <2>1. ASSUME NEW n \in nodes PROVE NodeOK(n, toInsert')
    <3>1. DOMAIN n.paths \subseteq 0..toInsert' - 1
      BY <1>1 DEF NodeOK
    <3> QED
      BY <3>1 DEF NodeOK
  <2> QED
    BY <1>1, <1>6, <2>1
<1>8. \A n \in nodes : DOMAIN n.paths \cap DOMAIN leaf.paths = {}
  BY <1>5 DEF NodeOK
<1>9. Disjoint(nodes')
  BY <1>1, <1>8 DEF Disjoint
<1>10. Covered(nodes', toInsert')
  <2> SUFFICES ASSUME NEW s \in 0..toInsert' - 1
               PROVE  \E n \in nodes' : s \in DOMAIN n.paths
    BY DEF Covered
  <2>1. CASE s = toInsert
    BY <1>1, <1>5, <2>1
  <2>2. CASE s # toInsert
    <3>1. s \in 0..toInsert - 1
      BY <1>1, <2>2
    <3> QED
      BY <1>1, <3>1 DEF Covered
  <2> QED
    BY <2>1, <2>2
<1>11. IsFiniteSet(nodes')
  BY <1>1, FS_AddElement
<1>12. CodesUsable' /\ PhaseOK' /\ TextOK'
  BY <1>1, <1>3 DEF CodesUsable, PhaseOK, TextOK
<1> QED
  BY <1>1, <1>4, <1>7, <1>9, <1>10, <1>11, <1>12 DEF IInv

(* The parent has the symbols of both children, and joined paths. *)
LEMMA MergeIInv == IInv /\ Merge => IInv'
<1> SUFFICES ASSUME IInv, Merge PROVE IInv'
  OBVIOUS
<1>0. PICK a \in nodes : \E y \in nodes \ {a} : nodes' = (nodes \ {a, y}) \cup {Inner(a, y)}
  BY DEF Merge
<1>1. PICK b \in nodes \ {a} : nodes' = (nodes \ {a, b}) \cup {Inner(a, b)}
  BY <1>0
<1>2. /\ pc = "merge" /\ pc' = pc /\ toInsert' = toInsert /\ freq' = freq /\ codes' = codes
      /\ bits' = bits /\ limit' = limit /\ offs' = offs /\ start' = start
  BY DEF Merge, text
<1> USE IInvFacts
<1> DEFINE parent == Inner(a, b)
<1>3. /\ parent.freq = a.freq + b.freq
      /\ parent.minDepth = Least(a.minDepth, b.minDepth) + 1
      /\ parent.minSymbol = Least(a.minSymbol, b.minSymbol)
      /\ parent.paths = Paths(a, b)
  BY DEF Inner
<1>4. nodes' = (nodes \ {a, b}) \cup {parent}
  BY <1>1
<1> HIDE DEF parent
<1>5. NodeOK(a, toInsert) /\ NodeOK(b, toInsert) /\ DOMAIN a.paths \cap DOMAIN b.paths = {}
  BY <1>1 DEF Disjoint
<1>6. DOMAIN parent.paths = DOMAIN a.paths \cup DOMAIN b.paths /\ IsPathSet(parent.paths)
  BY <1>3, <1>5, JoinedPaths DEF NodeOK
<1>7. NodeOK(parent, toInsert)
  <2>1. parent.freq \in Nat \ {0} /\ parent.minDepth \in Nat
    <3>1. /\ a.freq \in Nat \ {0} /\ a.minDepth \in Nat
          /\ b.freq \in Nat \ {0} /\ b.minDepth \in Nat
      BY <1>5 DEF NodeOK
    <3>2. Least(a.minDepth, b.minDepth) \in Nat
      BY <3>1 DEF Least
    <3> QED
      BY <1>3, <3>1, <3>2
  <2>2. parent.minSymbol \in DOMAIN parent.paths
    <3>1. parent.minSymbol = a.minSymbol \/ parent.minSymbol = b.minSymbol
      BY <1>3 DEF Least
    <3> QED
      BY <3>1, <1>5, <1>6 DEF NodeOK
  <2>3. DOMAIN parent.paths \subseteq 0..toInsert - 1
    BY <1>5, <1>6 DEF NodeOK
  <2> QED
    BY <1>6, <2>1, <2>2, <2>3 DEF NodeOK
<1>8. \A n \in nodes' : NodeOK(n, toInsert)
  BY <1>4, <1>7
<1>9. \A n \in nodes \ {a, b} : DOMAIN n.paths \cap DOMAIN parent.paths = {}
  BY <1>1, <1>6 DEF Disjoint
<1>10. Disjoint(nodes')
  BY <1>4, <1>9 DEF Disjoint
<1>11. Covered(nodes', toInsert)
  BY <1>4, <1>6 DEF Covered
<1>12. IsFiniteSet(nodes')
  BY <1>4, FS_AddElement, FS_Difference
<1>13. toInsert \in 0..Cardinality(Symbols') /\ CodesUsable' /\ PhaseOK' /\ TextOK'
  BY <1>2 DEF CodesUsable, PhaseOK, TextOK, Symbols
<1> QED
  BY <1>2, <1>8, <1>10, <1>11, <1>12, <1>13 DEF IInv

(* The paths of the last node are codes for all symbols; with two symbols or
   more none is empty, because the empty string begins every other. *)
LEMMA WriteCodesIInv == IInv /\ WriteCodes => IInv'
<1> SUFFICES ASSUME IInv, WriteCodes PROVE IInv'
  OBVIOUS
<1> USE IInvFacts
<1>1. /\ pc = "merge" /\ pc' = "encode" /\ freq' = freq /\ toInsert' = toInsert
      /\ nodes' = nodes /\ Cardinality(nodes) = 1
      /\ bits' = bits /\ limit' = limit /\ offs' = offs /\ start' = start
  BY DEF WriteCodes, text
<1>2. PICK root \in nodes : codes' = root.paths
  BY DEF WriteCodes
<1>3. nodes = {root}
  BY <1>1, <1>2, FS_Singleton
<1>4. toInsert = Cardinality(Symbols)
  BY <1>1 DEF PhaseOK
<1>5. DOMAIN codes' = Symbols
  <2>1. DOMAIN codes' \subseteq Symbols
    BY <1>2, <1>4 DEF NodeOK
  <2>2. Symbols \subseteq DOMAIN codes'
    BY <1>2, <1>3, <1>4 DEF Covered
  <2> QED
    BY <2>1, <2>2
<1>6. IsPathSet(codes')
  BY <1>2 DEF NodeOK
<1>7. \A s \in DOMAIN codes' : codes'[s] # << >>
  <2> SUFFICES ASSUME NEW s \in Symbols, codes'[s] = << >> PROVE FALSE
    BY <1>5
  <2>1. PICK t \in Symbols : t # s
    <3>1. 0 \in Symbols /\ 1 \in Symbols
      BY TableFacts
    <3> QED
      BY <3>1
  <2>2. codes'[t] \in Seq(Bit)
    BY <1>5, <1>6 DEF IsPathSet
  <2>3. StartsWith(codes'[t], codes'[s])
    BY <2>2, EmptyBegins
  <2> QED
    BY <1>5, <1>6, <2>1, <2>3 DEF IsPathSet
<1>8. IsPrefixCode(codes')
  BY <1>6, <1>7 DEF IsPathSet, IsPrefixCode
<1>9. CodesUsable'
  BY <1>1, <1>5, <1>8 DEF CodesUsable, Symbols
<1>10. toInsert \in 0..Cardinality(Symbols') /\ PhaseOK' /\ TextOK'
  BY <1>1 DEF PhaseOK, TextOK, Symbols
<1> QED
  BY <1>1, <1>9, <1>10 DEF IInv

(* The uses of the codes change neither the tree nor the codes. *)
LEMMA UseIInv ==
    IInv /\ (EncodeSymbol \/ StartDecode \/ CallDecode \/ Walk \/ RunOut \/ ReachLeaf) => IInv'
<1> SUFFICES ASSUME IInv,
                    EncodeSymbol \/ StartDecode \/ CallDecode \/ Walk \/ RunOut \/ ReachLeaf
             PROVE  IInv'
  OBVIOUS
<1> USE IInvFacts
<1>1. freq' = freq /\ toInsert' = toInsert /\ nodes' = nodes /\ codes' = codes
  BY DEF EncodeSymbol, StartDecode, CallDecode, Walk, RunOut, ReachLeaf, tree
<1>2. pc \in {"encode", "decode", "walk"} /\ pc' \in {"encode", "decode", "walk", "done"}
  BY DEF EncodeSymbol, StartDecode, CallDecode, Walk, RunOut, ReachLeaf
<1>3. Symbols' = Symbols
  BY <1>1 DEF Symbols
<1>4. CodesUsable' /\ PhaseOK'
  BY <1>1, <1>2, <1>3 DEF CodesUsable, PhaseOK
<1>5. TextOK'
  <2>1. CASE EncodeSymbol
    <3>1. PICK s \in Symbols : bits' = bits \o codes[s]
      BY <2>1 DEF EncodeSymbol
    <3>2. codes[s] \in Seq(Bit)
      BY <1>2, <3>1 DEF CodesUsable, IsPrefixCode
    <3>3. bits' \in Seq(Bit) /\ Len(bits') = Len(bits) + Len(codes[s])
      BY <3>1, <3>2 DEF TextOK
    <3>4. limit' = limit /\ offs' = offs /\ start' = start
      BY <2>1 DEF EncodeSymbol
    <3> QED
      BY <3>2, <3>3, <3>4 DEF TextOK
  <2>2. CASE StartDecode
    BY <2>2 DEF StartDecode, TextOK
  <2>3. CASE CallDecode
    BY <2>3 DEF CallDecode, TextOK
  <2>4. CASE Walk
    BY <2>4 DEF Walk, TextOK
  <2>5. CASE RunOut
    BY <2>5 DEF RunOut, TextOK
  <2>6. CASE ReachLeaf
    BY <2>6 DEF ReachLeaf, TextOK
  <2> QED
    BY <2>1, <2>2, <2>3, <2>4, <2>5, <2>6
<1> QED
  BY <1>1, <1>3, <1>4, <1>5 DEF IInv

LEMMA StepIInv == IInv /\ [Next]_vars => IInv'
<1> SUFFICES ASSUME IInv, [Next]_vars PROVE IInv'
  OBVIOUS
<1>1. CASE InsertLeaf
  BY <1>1, InsertLeafIInv
<1>2. CASE EndInsert
  BY <1>2 DEF EndInsert, tree, text, IInv, CodesUsable, PhaseOK, TextOK, Symbols
<1>3. CASE Merge
  BY <1>3, MergeIInv
<1>4. CASE WriteCodes
  BY <1>4, WriteCodesIInv
<1>5. CASE EncodeSymbol \/ StartDecode \/ CallDecode \/ Walk \/ RunOut \/ ReachLeaf
  BY <1>5, UseIInv
<1>6. CASE Done \/ UNCHANGED vars
  BY <1>6 DEF Done, vars, tree, text, IInv, CodesUsable, PhaseOK, TextOK, Symbols
<1> QED
  BY <1>1, <1>2, <1>3, <1>4, <1>5, <1>6 DEF Next

LEMMA Invariance == Spec => []IInv
<1> QED
  BY InitIInv, StepIInv, PTL DEF Spec
-----------------------------------------------------------------------------
(* What is encoded and decoded.  The bits are the codes of the symbols one behind
   the other, and decoding always begins where a code ends. *)
CodeOf == [k \in 1..Len(message) |-> codes[message[k]]]
CodeEnds == PieceEnds(CodeOf, Len(message), bits)

Encoded ==
    /\ pc \in {"insert", "merge"} => message = << >> /\ bits = << >>
    /\ pc \in {"insert", "merge", "encode"} => offs = 0 /\ decoded = << >>
    /\ message \in Seq(Symbols) /\ decoded \in Seq(Symbols)
    /\ CodeEnds # {}

(* decoded are the first symbols, start is where the next code begins, and the walk
   has read no more than that code. *)
DecodedUpTo(e) ==
    LET r == Len(decoded)
    IN  /\ r <= Len(message) /\ \A k \in 1..r : decoded[k] = message[k]
        /\ pc \in {"decode", "done"} => offs = e[r] /\ offs <= limit
        /\ pc = "walk" =>
            /\ start = e[r] /\ offs <= limit
            /\ r < Len(message) => offs <= e[r + 1]
        /\ pc = "done" /\ r < Len(message) => e[r + 1] > limit

Decoding == pc \in {"decode", "walk", "done"} => \E e \in CodeEnds : DecodedUpTo(e)

Coded == Encoded /\ Decoding

LEMMA InitCoded == Init => Coded
<1> SUFFICES ASSUME Init PROVE Coded
  OBVIOUS
<1>1. message = << >> /\ bits = << >> /\ decoded = << >> /\ offs = 0 /\ pc = "insert"
  BY DEF Init
<1> DEFINE e == [k \in 0..0 |-> 0]
<1>2. Len(message) = 0 /\ Len(bits) = 0
  BY <1>1
<1>3. e \in PieceEnds(CodeOf, 0, bits)
  BY <1>2 DEF PieceEnds
<1>4. << >> \in Seq(Symbols)
  BY EmptySeq
<1> QED BY <1>1, <1>2, <1>3, <1>4 DEF Coded, Encoded, Decoding, CodeEnds

(* The codes in use. *)
LEMMA CodesFacts ==
    ASSUME IInv, pc \in {"encode", "decode", "walk", "done"}
    PROVE  /\ DOMAIN codes = Symbols /\ IsPrefixCode(codes)
           /\ \A s \in Symbols : codes[s] \in Seq(Bit) /\ codes[s] # << >>
           /\ bits \in Seq(Bit) /\ Len(bits) \in Nat /\ limit \in 0..Len(bits)
           /\ offs \in 0..Len(bits) /\ start \in 0..offs
<1>1. DOMAIN codes = Symbols /\ IsPrefixCode(codes)
  BY DEF IInv, CodesUsable
<1>2. \A s \in Symbols : codes[s] \in Seq(Bit) /\ codes[s] # << >>
  BY <1>1 DEF IsPrefixCode
<1>3. /\ bits \in Seq(Bit) /\ limit \in 0..Len(bits)
      /\ offs \in 0..Len(bits) /\ start \in 0..offs
  BY DEF IInv, TextOK
<1> QED BY <1>1, <1>2, <1>3, LenProperties

LEMMA EncodeCoded == ASSUME IInv, Coded, EncodeSymbol PROVE Coded'
<1>1. PICK s \in Symbols : message' = Append(message, s) /\ bits' = bits \o codes[s]
  BY DEF EncodeSymbol
<1>2. /\ pc = "encode" /\ pc' = "encode" /\ freq' = freq /\ codes' = codes
      /\ offs' = offs /\ decoded' = decoded
  BY DEF EncodeSymbol, tree
<1>3. PICK c : c = codes[s]
  OBVIOUS
<1>4. c \in Seq(Bit) /\ bits \in Seq(Bit)
  BY <1>2, <1>3, CodesFacts
<1>5. PICK n \in Nat : n = Len(message)
  BY LenProperties DEF Coded, Encoded
<1>6. /\ message' \in Seq(Symbols) /\ Len(message') = n + 1
      /\ \A k \in 1..n : message'[k] = message[k] /\ message[k] \in Symbols
      /\ message'[n + 1] = s
  BY <1>1, <1>5, PushFacts, ElementOfSeq DEF Coded, Encoded
<1>7. PICK p, q : p = CodeOf /\ q = CodeOf'
  OBVIOUS
<1>8. /\ \A k \in 1..n : p[k] = codes[message[k]] /\ p[k] \in Seq(Bit)
      /\ \A k \in 1..n + 1 : q[k] = codes[message'[k]]
  <2>1. \A k \in 1..n : p[k] = codes[message[k]] /\ message[k] \in Symbols
    BY <1>5, <1>6, <1>7 DEF CodeOf
  <2>2. \A k \in 1..n + 1 : q[k] = codes[message'[k]]
    BY <1>2, <1>6, <1>7 DEF CodeOf
  <2> QED BY <1>2, <2>1, <2>2, CodesFacts
<1>9. \A k \in 1..n : p[k] \in Seq(Bit) /\ q[k] = p[k]
  <2>1. \A k \in 1..n : k \in 1..n + 1
    OBVIOUS
  <2> QED BY <1>6, <1>8, <2>1
<1>10. q[n + 1] = c
  <2>1. n + 1 \in 1..n + 1
    OBVIOUS
  <2> QED BY <1>3, <1>6, <1>8, <2>1
<1>11. PieceEnds(p, n, bits) # {}
  BY <1>5, <1>7 DEF Coded, Encoded, CodeEnds
<1>12. PieceEnds(q, n + 1, bits \o c) # {}
  BY <1>4, <1>9, <1>10, <1>11, PiecesGoOn
<1>13. CodeEnds' # {}
  BY <1>1, <1>3, <1>6, <1>7, <1>12 DEF CodeEnds
<1>14. Symbols' = Symbols
  BY <1>2 DEF Symbols
<1> QED BY <1>2, <1>6, <1>13, <1>14 DEF Coded, Encoded, Decoding

(* Where the next code lies. *)
LEMMA NextCode ==
    ASSUME IInv, Coded, pc \in {"decode", "walk", "done"}, NEW e \in CodeEnds, DecodedUpTo(e)
    PROVE  LET r == Len(decoded)
               c == codes[message[r + 1]]
           IN  /\ r \in Nat /\ Len(message) \in Nat /\ r <= Len(message)
               /\ e[r] \in 0..Len(bits)
               /\ r < Len(message) =>
                    /\ message[r + 1] \in Symbols /\ c \in Seq(Bit) /\ Len(c) \in Nat
                    /\ e[r + 1] \in 0..Len(bits) /\ e[r + 1] = e[r] + Len(c)
                    /\ \A l \in 1..Len(c) : bits[e[r] + l] = c[l]
               /\ ~ (r < Len(message)) => r = Len(message) /\ e[r] = Len(bits)
<1>1. PICK r : r = Len(decoded)
  OBVIOUS
<1>2. PICK n \in Nat : n = Len(message)
  BY LenProperties DEF Coded, Encoded
<1>3. r \in Nat /\ r <= n
  BY <1>1, <1>2, LenProperties DEF Coded, Encoded, DecodedUpTo
<1>4. /\ e \in [0..n -> 0..Len(bits)] /\ e[n] = Len(bits)
      /\ \A k \in 1..n :
          /\ e[k] = e[k - 1] + Len(CodeOf[k])
          /\ \A l \in 1..Len(CodeOf[k]) : bits[e[k - 1] + l] = CodeOf[k][l]
  BY <1>2 DEF CodeEnds, PieceEnds
<1>5. e[r] \in 0..Len(bits)
  BY <1>3, <1>4
<1>6. ASSUME r < n
      PROVE  LET c == codes[message[r + 1]]
             IN  /\ message[r + 1] \in Symbols /\ c \in Seq(Bit) /\ Len(c) \in Nat
                 /\ e[r + 1] \in 0..Len(bits) /\ e[r + 1] = e[r] + Len(c)
                 /\ \A l \in 1..Len(c) : bits[e[r] + l] = c[l]
  <2>1. r + 1 \in 1..n /\ r + 1 \in 0..n /\ (r + 1) - 1 = r
    BY <1>3, <1>6
  <2>2. PICK c : c = codes[message[r + 1]]
    OBVIOUS
  <2>3. CodeOf[r + 1] = c
    BY <1>2, <2>1, <2>2 DEF CodeOf
  <2>4. message[r + 1] \in Symbols
    BY <1>2, <2>1, ElementOfSeq DEF Coded, Encoded
  <2>5. c \in Seq(Bit) /\ Len(c) \in Nat
    BY <2>2, <2>4, CodesFacts, LenProperties
  <2>6. e[r + 1] = e[r] + Len(c) /\ \A l \in 1..Len(c) : bits[e[r] + l] = c[l]
    BY <1>4, <2>1, <2>3
  <2>7. e[r + 1] \in 0..Len(bits)
    BY <1>4, <2>1
  <2> QED BY <2>2, <2>4, <2>5, <2>6, <2>7
<1>7. ~ (r < n) => r = n /\ e[r] = Len(bits)
  BY <1>3, <1>4
<1> QED BY <1>1, <1>2, <1>3, <1>5, <1>6, <1>7

(* The bits that the walk has read, and what they say of the next code. *)
LEMMA PathAhead ==
    ASSUME IInv, Coded, pc = "walk", NEW e \in CodeEnds, DecodedUpTo(e)
    PROVE  LET r == Len(decoded)
               c == codes[message[r + 1]]
           IN  /\ Path \in Seq(Bit) /\ Len(Path) = offs - start
               /\ r < Len(message) =>
                    /\ message[r + 1] \in Symbols
                    /\ StartsWith(c, Path)
                    /\ offs < e[r + 1] \/ (offs = e[r + 1] /\ Path = c)
               /\ ~ (r < Len(message)) =>
                    r = Len(message) /\ offs = limit /\ offs = start /\ Path = << >>
<1>1. PICK r, c : r = Len(decoded) /\ c = codes[message[r + 1]]
  OBVIOUS
<1>2. /\ bits \in Seq(Bit) /\ Len(bits) \in Nat /\ limit \in 0..Len(bits)
      /\ offs \in 0..Len(bits) /\ start \in 0..offs
  BY CodesFacts
<1>3. start \in Nat /\ offs \in Nat /\ start <= offs /\ offs <= Len(bits) /\ limit \in Nat
      /\ limit <= Len(bits)
  BY <1>2
<1>4. PICK p : p = Path
  OBVIOUS
<1>5. /\ p \in Seq(Bit) /\ Len(p) = offs - start
      /\ \A k \in 1..offs - start : p[k] = bits[start + k]
  BY <1>2, <1>3, <1>4, CutAt DEF Path
<1>6. start = e[r] /\ offs <= limit /\ (r < Len(message) => offs <= e[r + 1])
  BY <1>1 DEF DecodedUpTo
<1>7. ASSUME r < Len(message)
      PROVE  /\ message[r + 1] \in Symbols /\ StartsWith(c, p)
             /\ offs < e[r + 1] \/ (offs = e[r + 1] /\ p = c)
  <2>1. /\ message[r + 1] \in Symbols /\ c \in Seq(Bit) /\ Len(c) \in Nat
        /\ e[r + 1] \in 0..Len(bits) /\ e[r + 1] = start + Len(c)
        /\ \A l \in 1..Len(c) : bits[start + l] = c[l]
    BY <1>1, <1>6, <1>7, NextCode
  <2>2. PICK y \in Nat : y = Len(c)
    BY <2>1
  <2>3. offs <= start + y
    BY <1>6, <1>7, <2>1, <2>2
  <2>4. Len(p) <= y /\ Len(p) \in Nat
    BY <1>3, <1>5, <2>3
  <2>5. \A k \in 1..Len(p) : c[k] = p[k]
    <3>1. \A k \in 1..Len(p) : k \in 1..y /\ k \in 1..offs - start
      BY <1>3, <1>5, <2>4
    <3> QED BY <1>5, <2>1, <2>2, <3>1
  <2>6. StartsWith(c, p)
    BY <1>5, <2>1, <2>2, <2>4, <2>5, PrefixPointwise
  <2>7. ASSUME ~ (offs < e[r + 1]) PROVE offs = e[r + 1] /\ p = c
    <3>1. offs = e[r + 1] /\ Len(p) = Len(c)
      <4>1. /\ offs \in Nat /\ start \in Nat /\ e[r + 1] = start + y /\ offs <= start + y
            /\ ~ (offs < e[r + 1])
        BY <1>3, <2>1, <2>2, <2>3, <2>7
      <4>2. Len(p) = offs - start /\ Len(c) = y /\ y \in Nat
        BY <1>5, <2>2
      <4> QED BY ONLY <4>1, <4>2
    <3> QED BY <1>5, <2>1, <2>5, <3>1, SeqEqual
  <2> QED BY <2>1, <2>6, <2>7
<1>8. ASSUME ~ (r < Len(message))
      PROVE  r = Len(message) /\ offs = limit /\ offs = start /\ p = << >>
  <2>1. r = Len(message) /\ e[r] = Len(bits)
    BY <1>1, <1>8, NextCode
  <2>2. offs = limit /\ offs = start
    BY <1>3, <1>6, <2>1
  <2>3. Len(p) = 0
    BY <1>3, <1>5, <2>2
  <2> QED BY <1>5, <2>1, <2>2, <2>3, EmptySeq
<1> QED BY <1>1, <1>4, <1>5, <1>7, <1>8

(* The decoder's steps leave what was encoded, and where the codes end. *)
LEMMA StillEncoded ==
    ASSUME Coded, UNCHANGED <<tree, message, bits>>, pc' \in {"decode", "walk", "done"},
           decoded' \in Seq(Symbols)
    PROVE  Encoded' /\ CodeEnds' = CodeEnds /\ Symbols' = Symbols
<1>1. UNCHANGED <<freq, codes, message, bits>>
  BY DEF tree
<1>2. Symbols' = Symbols
  BY <1>1 DEF Symbols
<1>3. CodeOf' = CodeOf
  BY <1>1 DEF CodeOf
<1>4. CodeEnds' = CodeEnds
  BY <1>1, <1>3 DEF CodeEnds
<1> QED BY <1>1, <1>2, <1>4 DEF Coded, Encoded

LEMMA StartDecodeCoded == ASSUME IInv, Coded, StartDecode PROVE Coded'
<1>1. /\ pc = "encode" /\ pc' = "decode" /\ UNCHANGED <<tree, message, bits>>
      /\ limit' \in 0..Len(bits) /\ offs' = 0 /\ decoded' = << >> /\ decoded \in Seq(Symbols)
      /\ decoded' = decoded
  BY DEF StartDecode, Coded, Encoded
<1>2. Encoded' /\ CodeEnds' = CodeEnds
  BY <1>1, StillEncoded
<1>3. PICK e : e \in CodeEnds
  BY DEF Coded, Encoded
<1>4. e[0] = 0
  BY <1>3 DEF CodeEnds, PieceEnds
<1>5. Len(message) \in Nat /\ message' = message /\ Len(bits) \in Nat
  BY <1>1, CodesFacts, LenProperties DEF Coded, Encoded
<1>6. Len(decoded') = 0
  BY <1>1
<1>7. DecodedUpTo(e)'
  BY <1>1, <1>4, <1>5, <1>6 DEF DecodedUpTo
<1> QED BY <1>2, <1>3, <1>7 DEF Coded, Decoding

LEMMA CallDecodeCoded == ASSUME IInv, Coded, CallDecode PROVE Coded'
<1>1. /\ pc = "decode" /\ pc' = "walk" /\ UNCHANGED <<tree, message, bits>>
      /\ start' = offs /\ offs' = offs /\ limit' = limit
      /\ decoded \in Seq(Symbols) /\ decoded' = decoded
  BY DEF CallDecode, Coded, Encoded
<1>2. Encoded' /\ CodeEnds' = CodeEnds
  BY <1>1, StillEncoded
<1>3. PICK e \in CodeEnds : DecodedUpTo(e)
  BY <1>1 DEF Coded, Decoding
<1>4. PICK r : r = Len(decoded)
  OBVIOUS
<1>5. r < Len(message) => e[r] <= e[r + 1]
  <2> HAVE r < Len(message)
  <2>1. PICK c : c = codes[message[r + 1]]
    OBVIOUS
  <2>2. e[r] \in 0..Len(bits) /\ Len(c) \in Nat /\ e[r + 1] = e[r] + Len(c)
    BY <1>1, <1>3, <1>4, <2>1, NextCode
  <2> QED BY <2>2, CodesFacts, <1>1
<1>6. DecodedUpTo(e)'
  BY <1>1, <1>3, <1>4, <1>5 DEF DecodedUpTo
<1> QED BY <1>2, <1>3, <1>6 DEF Coded, Decoding

(* What is read is the beginning of the next code, and not all of it as long as the
   walk has not come to a leaf. *)
LEMMA WalkCoded == ASSUME IInv, Coded, Walk PROVE Coded'
<1>1. /\ pc = "walk" /\ pc' = "walk" /\ UNCHANGED <<tree, message, bits>>
      /\ start' = start /\ offs' = offs + 1 /\ limit' = limit /\ offs < limit
      /\ decoded \in Seq(Symbols) /\ decoded' = decoded
      /\ \A s \in Symbols : codes[s] # Path
  BY DEF Walk, AtLeaf, Coded, Encoded
<1>2. Encoded' /\ CodeEnds' = CodeEnds
  BY <1>1, StillEncoded
<1>3. PICK e \in CodeEnds : DecodedUpTo(e)
  BY <1>1 DEF Coded, Decoding
<1>4. PICK r : r = Len(decoded)
  OBVIOUS
<1>5. offs \in Nat /\ limit \in Nat
  BY <1>1, CodesFacts
<1>6. r < Len(message)
  BY <1>1, <1>3, <1>4, <1>5, PathAhead
<1>7. offs < e[r + 1]
  BY <1>1, <1>3, <1>4, <1>6, PathAhead
<1>8. e[r + 1] \in Nat
  BY <1>1, <1>3, <1>4, <1>6, NextCode, CodesFacts
<1>9. offs + 1 <= e[r + 1] /\ offs + 1 <= limit
  BY <1>1, <1>5, <1>7, <1>8
<1>10. DecodedUpTo(e)'
  BY <1>1, <1>3, <1>4, <1>9 DEF DecodedUpTo
<1> QED BY <1>2, <1>3, <1>10 DEF Coded, Decoding

(* The bits end inside the next code. *)
LEMMA RunOutCoded == ASSUME IInv, Coded, RunOut PROVE Coded'
<1>1. /\ pc = "walk" /\ pc' = "done" /\ UNCHANGED <<tree, message, bits>>
      /\ offs' = start /\ limit' = limit /\ offs = limit
      /\ decoded \in Seq(Symbols) /\ decoded' = decoded
      /\ \A s \in Symbols : codes[s] # Path
  BY DEF RunOut, AtLeaf, Coded, Encoded
<1>2. Encoded' /\ CodeEnds' = CodeEnds
  BY <1>1, StillEncoded
<1>3. PICK e \in CodeEnds : DecodedUpTo(e)
  BY <1>1 DEF Coded, Decoding
<1>4. PICK r : r = Len(decoded)
  OBVIOUS
<1>5. r < Len(message) => e[r + 1] > limit
  <2> HAVE r < Len(message)
  <2>1. offs < e[r + 1]
    BY <1>1, <1>3, <1>4, PathAhead
  <2>2. e[r + 1] \in Nat /\ limit \in Nat
    BY <1>1, <1>3, <1>4, NextCode, CodesFacts
  <2> QED BY <1>1, <2>1, <2>2
<1>6. start <= limit
  BY <1>1, CodesFacts
<1>7. start = e[r]
  BY <1>1, <1>3, <1>4 DEF DecodedUpTo
<1>8. DecodedUpTo(e)'
  BY <1>1, <1>3, <1>4, <1>5, <1>6, <1>7 DEF DecodedUpTo
<1> QED BY <1>2, <1>3, <1>8 DEF Coded, Decoding

(* The leaf is that of the next symbol, as no code is the beginning of another. *)
LEMMA ReachLeafCoded == ASSUME IInv, Coded, ReachLeaf PROVE Coded'
<1>1. /\ pc = "walk" /\ pc' = "decode" /\ UNCHANGED <<tree, message, bits>>
      /\ offs' = offs /\ limit' = limit
  BY DEF ReachLeaf
<1>2. PICK s \in Symbols : codes[s] = Path /\ decoded' = Append(decoded, s)
  BY DEF ReachLeaf, AtLeaf
<1>3. PICK e \in CodeEnds : DecodedUpTo(e)
  BY <1>1 DEF Coded, Decoding
<1>4. PICK r \in Nat : r = Len(decoded)
  BY LenProperties DEF Coded, Encoded
<1>5. PICK n \in Nat : n = Len(message)
  BY LenProperties DEF Coded, Encoded
<1>6. codes[s] # << >>
  BY <1>1, CodesFacts
<1>7. r < n
  BY <1>1, <1>2, <1>3, <1>4, <1>5, <1>6, PathAhead
<1>8. /\ message[r + 1] \in Symbols /\ StartsWith(codes[message[r + 1]], Path)
      /\ offs < e[r + 1] \/ (offs = e[r + 1] /\ Path = codes[message[r + 1]])
  BY <1>1, <1>3, <1>4, <1>5, <1>7, PathAhead
<1>9. s = message[r + 1]
  BY <1>1, <1>2, <1>8, CodesFacts DEF IsPrefixCode
<1>10. offs = e[r + 1]
  <2>1. PICK c : c = codes[message[r + 1]]
    OBVIOUS
  <2>2. PICK y \in Nat : y = Len(c)
    BY <1>1, <1>8, <2>1, CodesFacts, LenProperties
  <2>3. Path = c
    BY <1>2, <1>9, <2>1
  <2>4. y = offs - start
    BY <1>1, <1>3, <2>2, <2>3, PathAhead
  <2>5. e[r + 1] = e[r] + y
    BY <1>1, <1>3, <1>4, <1>5, <1>7, <2>1, <2>2, NextCode
  <2>6. start = e[r]
    BY <1>1, <1>3, <1>4 DEF DecodedUpTo
  <2>7. start \in Nat /\ offs \in Nat
    BY <1>1, CodesFacts
  <2> QED BY <2>4, <2>5, <2>6, <2>7
<1>11. /\ decoded' \in Seq(Symbols) /\ Len(decoded') = r + 1
       /\ \A k \in 1..r : decoded'[k] = decoded[k]
       /\ decoded'[r + 1] = s
  BY <1>2, <1>4, PushFacts DEF Coded, Encoded
<1>12. Encoded' /\ CodeEnds' = CodeEnds
  BY <1>1, <1>11, StillEncoded
<1>13. \A k \in 1..r : decoded[k] = message[k]
  BY <1>3, <1>4 DEF DecodedUpTo
<1>14. \A k \in 1..r + 1 : decoded'[k] = message'[k]
  <2>1. \A k \in 1..r + 1 : k \in 1..r \/ k = r + 1
    OBVIOUS
  <2> QED BY <1>1, <1>9, <1>11, <1>13, <2>1
<1>15. r + 1 <= Len(message')
  BY <1>1, <1>5, <1>7
<1>16. offs <= limit
  BY <1>1, <1>3 DEF DecodedUpTo
<1>17. DecodedUpTo(e)'
  BY <1>1, <1>10, <1>11, <1>14, <1>15, <1>16 DEF DecodedUpTo
<1> QED BY <1>3, <1>12, <1>17 DEF Coded, Decoding

(* While the tree is built nothing has been encoded. *)
LEMMA BuildCoded ==
    ASSUME IInv, Coded, InsertLeaf \/ EndInsert \/ Merge \/ WriteCodes
    PROVE  Coded'
<1>1. /\ pc \in {"insert", "merge"} /\ pc' \in {"insert", "merge", "encode"}
      /\ UNCHANGED <<freq, text>>
  BY DEF InsertLeaf, EndInsert, Merge, WriteCodes, tree
<1>2. message = << >> /\ bits = << >> /\ offs = 0 /\ decoded = << >>
  BY <1>1 DEF Coded, Encoded
<1>3. message' = << >> /\ bits' = << >> /\ offs' = 0 /\ decoded' = << >>
  BY <1>1, <1>2 DEF text
<1> DEFINE e == [k \in 0..0 |-> 0]
<1>4. Len(message') = 0 /\ Len(bits') = 0
  BY <1>3
<1>5. PICK q : q = CodeOf'
  OBVIOUS
<1>6. e \in PieceEnds(q, 0, bits')
  BY <1>4 DEF PieceEnds
<1>7. CodeEnds' # {}
  BY <1>4, <1>5, <1>6 DEF CodeEnds
<1>8. << >> \in Seq(Symbols')
  BY EmptySeq
<1> QED BY <1>1, <1>3, <1>7, <1>8 DEF Coded, Encoded, Decoding

LEMMA StepCoded == ASSUME IInv, Coded, [Next]_vars PROVE Coded'
<1>1. CASE InsertLeaf \/ EndInsert \/ Merge \/ WriteCodes
  BY <1>1, BuildCoded
<1>2. CASE EncodeSymbol
  BY <1>2, EncodeCoded
<1>3. CASE StartDecode
  BY <1>3, StartDecodeCoded
<1>4. CASE CallDecode
  BY <1>4, CallDecodeCoded
<1>5. CASE Walk
  BY <1>5, WalkCoded
<1>6. CASE RunOut
  BY <1>6, RunOutCoded
<1>7. CASE ReachLeaf
  BY <1>7, ReachLeafCoded
<1>8. CASE Done \/ UNCHANGED vars
  <2>1. /\ pc' = pc /\ UNCHANGED <<freq, codes, message, bits, limit, offs, start, decoded>>
    BY <1>8 DEF Done, vars, tree, text
  <2>2. CodeEnds' = CodeEnds /\ Symbols' = Symbols
    BY <2>1 DEF CodeEnds, CodeOf, Symbols
  <2>3. Encoded'
    BY <2>1, <2>2 DEF Coded, Encoded
  <2>4. \A e : DecodedUpTo(e)' = DecodedUpTo(e)
    BY <2>1 DEF DecodedUpTo
  <2> QED BY <2>1, <2>2, <2>3, <2>4 DEF Coded, Decoding
<1> QED BY <1>1, <1>2, <1>3, <1>4, <1>5, <1>6, <1>7, <1>8 DEF Next

LEMMA CodedAlways == Spec => [](IInv /\ Coded)
<1>1. Init => IInv /\ Coded
  BY InitIInv, InitCoded
<1>2. IInv /\ Coded /\ [Next]_vars => (IInv /\ Coded)'
  BY StepIInv, StepCoded
<1> QED BY <1>1, <1>2, PTL DEF Spec

(* Written is where the codes end. *)
LEMMA WrittenFound ==
    ASSUME Coded, NEW e \in CodeEnds
    PROVE  \A k \in 0..Len(message) : Written[k] = e[k]
<1> DEFINE K == 0..Len(message)
           step(f) == [k \in K |-> IF k = 0 THEN 0 ELSE f[k - 1] + Len(codes[message[k]])]
<1>1. Len(message) \in Nat
  BY LenProperties DEF Coded, Encoded
<1>2. /\ e \in [K -> 0..Len(bits)] /\ e[0] = 0
      /\ \A k \in 1..Len(message) : e[k] = e[k - 1] + Len(CodeOf[k])
  BY DEF CodeEnds, PieceEnds
<1>3. \A k \in 1..Len(message) : e[k] = e[k - 1] + Len(codes[message[k]])
  BY <1>2 DEF CodeOf
<1>4. e = step(e)
  <2>1. \A k \in K : e[k] = step(e)[k]
    BY <1>1, <1>2, <1>3
  <2> QED BY <1>2, <2>1
<1>5. Written = CHOOSE f : f = step(f)
  BY DEF Written
<1>6. Written = step(Written)
  <2> HIDE DEF step
  <2> QED BY <1>4, <1>5
<1> DEFINE S == {k \in Nat : k <= Len(message) => Written[k] = e[k]}
<1>7. 0 \in S
  BY <1>1, <1>2, <1>6
<1>8. ASSUME NEW k \in Nat, k \in S PROVE k + 1 \in S
  <2> SUFFICES ASSUME k + 1 <= Len(message) PROVE Written[k + 1] = e[k + 1]
    OBVIOUS
  <2>1. k + 1 \in 1..Len(message) /\ k + 1 \in K /\ (k + 1) - 1 = k /\ Written[k] = e[k]
    BY <1>1, <1>8
  <2>2. Written[k + 1] = Written[k] + Len(codes[message[k + 1]])
    BY <1>6, <2>1
  <2> QED BY <1>3, <2>1, <2>2
<1>9. Nat \subseteq S
  <2> HIDE DEF S
  <2> QED BY <1>7, <1>8, NatInduct
<1> QED BY <1>1, <1>9
-----------------------------------------------------------------------------
(* Levels of a tree's nodes: what they take of the 2^k words of k bits, and what a
   text costs in which node n occurs w[n] times. *)
Room(S, L, k) == SumFunction([n \in S |-> Pow2[k - L[n]]])
TextCost(S, w, L) == SumFunction([n \in S |-> w[n] * L[n]])

Weighed(S, k, w, L) == IsFiniteSet(S) /\ k \in Nat /\ w \in [S -> Nat] /\ L \in [S -> 0..k]

(* The summands of the two. *)
LEMMA LevelFacts ==
    ASSUME NEW S, NEW k \in Nat, NEW w \in [S -> Nat], NEW L \in [S -> 0..k]
    PROVE  /\ [n \in S |-> Pow2[k - L[n]]] \in [S -> Nat]
           /\ [n \in S |-> w[n] * L[n]] \in [S -> Nat]
           /\ DOMAIN L = S
           /\ \A n \in S : /\ L[n] \in Nat /\ L[n] <= k /\ k - L[n] \in Nat
                           /\ Pow2[k - L[n]] \in Nat \ {0} /\ w[n] * L[n] \in Nat
<1>1. ASSUME NEW n \in S
      PROVE  /\ L[n] \in Nat /\ L[n] <= k /\ k - L[n] \in Nat
             /\ Pow2[k - L[n]] \in Nat \ {0} /\ w[n] * L[n] \in Nat
  <2>1. L[n] \in Nat /\ L[n] <= k /\ k - L[n] \in Nat /\ w[n] \in Nat
    OBVIOUS
  <2>2. w[n] * L[n] \in Nat
    BY ONLY <2>1
  <2> QED BY <2>1, <2>2, Pow2Facts
<1> QED BY <1>1

LEMMA RoomNat ==
    ASSUME NEW S, IsFiniteSet(S), NEW k \in Nat, NEW w \in [S -> Nat], NEW L \in [S -> 0..k]
    PROVE  Room(S, L, k) \in Nat /\ TextCost(S, w, L) \in Nat
<1> DEFINE f == [n \in S |-> Pow2[k - L[n]]]
           g == [n \in S |-> w[n] * L[n]]
<1>1. f \in [S -> Nat] /\ g \in [S -> Nat] /\ DOMAIN L = S
  BY LevelFacts
<1>2. Room(S, L, k) = SumFunction(f) /\ TextCost(S, w, L) = SumFunction(g)
  BY <1>1 DEF Room, TextCost
<1> HIDE DEF f, g
<1> QED BY <1>1, <1>2, SumNat

(* One level apart from the others, and two. *)
OneApart(S, k, w, L, x) ==
    /\ Room(S \ {x}, L, k) \in Nat /\ TextCost(S \ {x}, w, L) \in Nat
    /\ Room(S, L, k) = Pow2[k - L[x]] + Room(S \ {x}, L, k)
    /\ TextCost(S, w, L) = w[x] * L[x] + TextCost(S \ {x}, w, L)

LEMMA LevelApart ==
    ASSUME NEW S, NEW k, NEW w, NEW L, Weighed(S, k, w, L), NEW x \in S
    PROVE  OneApart(S, k, w, L, x)
<1> USE DEF Weighed
<1> DEFINE f == [n \in S |-> Pow2[k - L[n]]]
           g == [n \in S |-> w[n] * L[n]]
<1>1. /\ f \in [S -> Nat] /\ g \in [S -> Nat]
      /\ Room(S, L, k) = SumFunction(f) /\ TextCost(S, w, L) = SumFunction(g)
      /\ f[x] = Pow2[k - L[x]] /\ g[x] = w[x] * L[x]
  BY LevelFacts DEF Room, TextCost
<1>2. /\ SumFunction(Restrict(f, S \ {x})) = Room(S \ {x}, L, k)
      /\ SumFunction(Restrict(g, S \ {x})) = TextCost(S \ {x}, w, L)
  <2>1. /\ Restrict(f, S \ {x}) = [n \in S \ {x} |-> Pow2[k - L[n]]]
        /\ Restrict(g, S \ {x}) = [n \in S \ {x} |-> w[n] * L[n]]
    BY DEF Restrict
  <2> QED BY <2>1 DEF Room, TextCost
<1> HIDE DEF f, g
<1>3. /\ SumFunction(Restrict(f, S \ {x})) \in Nat
      /\ SumFunction(f) = f[x] + SumFunction(Restrict(f, S \ {x}))
  BY <1>1, SumSplit
<1>4. /\ SumFunction(Restrict(g, S \ {x})) \in Nat
      /\ SumFunction(g) = g[x] + SumFunction(Restrict(g, S \ {x}))
  BY <1>1, SumSplit
<1> QED BY ONLY <1>1, <1>2, <1>3, <1>4 DEF OneApart

LEMMA RoomOfMultiples ==
    ASSUME NEW S, NEW k, NEW w, NEW L, Weighed(S, k, w, L), NEW d \in Nat, NEW R \in SUBSET S,
           \A n \in R : IsMultiple(Pow2[k - L[n]], d)
    PROVE  IsMultiple(Room(R, L, k), d)
<1> DEFINE e == [n \in R |-> Pow2[k - L[n]]]
<1>1. e \in [R -> Nat] /\ IsFiniteSet(R)
  BY LevelFacts, FS_Subset DEF Weighed
<1>2. \A n \in R : IsMultiple(e[n], d)
  OBVIOUS
<1>3. IsMultiple(SumFunction(e), d)
  <2> HIDE DEF e
  <2> QED BY <1>1, <1>2, SumOfMultiples
<1> QED BY <1>3 DEF Room

LEMMA LevelsOfTwo ==
    ASSUME NEW S, NEW k, NEW w, NEW L, Weighed(S, k, w, L),
           NEW x \in S, NEW y \in S, x # y
    PROVE  /\ Room(S \ {x, y}, L, k) \in Nat /\ TextCost(S \ {x, y}, w, L) \in Nat
           /\ Room(S, L, k) = Pow2[k - L[x]] + Pow2[k - L[y]] + Room(S \ {x, y}, L, k)
           /\ TextCost(S, w, L) = w[x] * L[x] + w[y] * L[y] + TextCost(S \ {x, y}, w, L)
<1> USE DEF Weighed
<1> DEFINE f == [n \in S |-> Pow2[k - L[n]]]
           g == [n \in S |-> w[n] * L[n]]
<1>1. /\ f \in [S -> Nat] /\ g \in [S -> Nat]
      /\ Room(S, L, k) = SumFunction(f) /\ TextCost(S, w, L) = SumFunction(g)
      /\ f[x] = Pow2[k - L[x]] /\ g[x] = w[x] * L[x]
      /\ f[y] = Pow2[k - L[y]] /\ g[y] = w[y] * L[y]
  BY LevelFacts DEF Room, TextCost
<1>2. /\ SumFunction(Restrict(f, S \ {x, y})) = Room(S \ {x, y}, L, k)
      /\ SumFunction(Restrict(g, S \ {x, y})) = TextCost(S \ {x, y}, w, L)
  <2>1. /\ Restrict(f, S \ {x, y}) = [n \in S \ {x, y} |-> Pow2[k - L[n]]]
        /\ Restrict(g, S \ {x, y}) = [n \in S \ {x, y} |-> w[n] * L[n]]
    BY DEF Restrict
  <2> QED BY <2>1 DEF Room, TextCost
<1> HIDE DEF f, g
<1>3. /\ SumFunction(Restrict(f, S \ {x, y})) \in Nat
      /\ SumFunction(f) = f[x] + f[y] + SumFunction(Restrict(f, S \ {x, y}))
  BY <1>1, SumOfTwo
<1>4. /\ SumFunction(Restrict(g, S \ {x, y})) \in Nat
      /\ SumFunction(g) = g[x] + g[y] + SumFunction(Restrict(g, S \ {x, y}))
  BY <1>1, SumOfTwo
<1> QED BY ONLY <1>1, <1>2, <1>3, <1>4

(* A rarer node may change places with one further down. *)
LEMMA SwapFacts ==
    ASSUME NEW S, NEW k, NEW w, NEW L, Weighed(S, k, w, L), NEW p \in S, NEW q \in S, w[p] <= w[q], L[p] <= L[q]
    PROVE  \E M \in [S -> 0..k] :
               /\ Weighed(S, k, w, M) /\ M[p] = L[q] /\ M[q] = L[p]
               /\ \A n \in S \ {p, q} : M[n] = L[n]
               /\ Room(S, M, k) = Room(S, L, k) /\ TextCost(S, w, M) <= TextCost(S, w, L)
<1>0. IsFiniteSet(S) /\ k \in Nat /\ w \in [S -> Nat] /\ L \in [S -> 0..k]
  BY DEF Weighed
<1> DEFINE M == [L EXCEPT ![p] = L[q], ![q] = L[p]]
<1>1. /\ Weighed(S, k, w, M) /\ M \in [S -> 0..k] /\ M[p] = L[q] /\ M[q] = L[p]
      /\ \A n \in S \ {p, q} : M[n] = L[n]
  BY <1>0 DEF Weighed
<1>2. ASSUME p = q PROVE M = L
  BY <1>0, <1>2
<1> HIDE DEF M
<1>3. TextCost(S, w, L) \in Nat
  BY <1>0, RoomNat
<1>4. ASSUME p # q PROVE Room(S, M, k) = Room(S, L, k) /\ TextCost(S, w, M) <= TextCost(S, w, L)
  <2> DEFINE rest == S \ {p, q}
             room(N) == Room(rest, N, k)
             cost(N) == TextCost(rest, w, N)
  <2>1. room(M) = room(L) /\ cost(M) = cost(L)
    <3>1. /\ [n \in rest |-> Pow2[k - M[n]]] = [n \in rest |-> Pow2[k - L[n]]]
          /\ [n \in rest |-> w[n] * M[n]] = [n \in rest |-> w[n] * L[n]]
      BY <1>1
    <3> QED BY <3>1 DEF Room, TextCost
  <2>2. /\ room(L) \in Nat /\ cost(L) \in Nat
        /\ Room(S, L, k) = Pow2[k - L[p]] + Pow2[k - L[q]] + room(L)
        /\ TextCost(S, w, L) = w[p] * L[p] + w[q] * L[q] + cost(L)
    BY ONLY Weighed(S, k, w, L), p \in S, q \in S, <1>4, LevelsOfTwo
  <2>3. /\ Room(S, M, k) = Pow2[k - M[p]] + Pow2[k - M[q]] + room(M)
        /\ TextCost(S, w, M) = w[p] * M[p] + w[q] * M[q] + cost(M)
    BY ONLY <1>1, p \in S, q \in S, <1>4, LevelsOfTwo
  <2> HIDE DEF room, cost
  <2>4. /\ Pow2[k - L[p]] \in Nat /\ Pow2[k - L[q]] \in Nat
        /\ L[p] \in Nat /\ L[q] \in Nat /\ w[p] \in Nat /\ w[q] \in Nat
    BY <1>0, LevelFacts
  <2>5. Room(S, M, k) = Room(S, L, k)
    BY ONLY <1>1, <2>1, <2>2, <2>3, <2>4
  <2>6. w[p] * L[q] + w[q] * L[p] <= w[p] * L[p] + w[q] * L[q]
    <3>1. \E u \in Nat, v \in Nat : w[q] = w[p] + u /\ L[q] = L[p] + v
      <4>1. w[q] - w[p] \in Nat /\ L[q] - L[p] \in Nat
        BY <2>4
      <4>2. w[q] = w[p] + (w[q] - w[p]) /\ L[q] = L[p] + (L[q] - L[p])
        BY <2>4
      <4> QED BY <4>1, <4>2
    <3>2. PICK u \in Nat, v \in Nat : w[q] = w[p] + u /\ L[q] = L[p] + v
      BY <3>1
    <3>3. ASSUME NEW i \in Nat, NEW j \in Nat
          PROVE  i * (j + v) + (i + u) * j <= i * j + (i + u) * (j + v)
      <4>1. i * j + (i + u) * (j + v) = i * (j + v) + (i + u) * j + u * v
        BY ONLY u \in Nat, v \in Nat, i \in Nat, j \in Nat
      <4>2. u * v \in Nat /\ i * (j + v) + (i + u) * j \in Nat
        BY ONLY u \in Nat, v \in Nat, i \in Nat, j \in Nat
      <4> QED BY ONLY <4>1, <4>2
    <3> QED BY ONLY <2>4, <3>2, <3>3
  <2>7. TextCost(S, w, M) <= TextCost(S, w, L)
    <3>1. TextCost(S, w, M) = w[p] * L[q] + w[q] * L[p] + cost(L)
      BY ONLY <1>1, <2>1, <2>3
    <3>2. /\ w[p] * L[q] + w[q] * L[p] \in Int /\ w[p] * L[p] + w[q] * L[q] \in Int
          /\ cost(L) \in Int
      BY ONLY <2>2, <2>4
    <3> QED BY ONLY <2>2, <2>6, <3>1, <3>2
  <2> QED BY <2>5, <2>7
<1> QED BY <1>1, <1>2, <1>3, <1>4

Fitting(S, k) == {L \in [S -> 0..k] : Room(S, L, k) <= Pow2[k]}

(* Of all levels that fit there are some of least cost. *)
LEMMA CheapestFound ==
    ASSUME NEW S, IsFiniteSet(S), NEW k \in Nat, NEW w \in [S -> Nat], NEW L \in Fitting(S, k)
    PROVE  \E M \in Fitting(S, k) :
             /\ TextCost(S, w, M) <= TextCost(S, w, L)
             /\ \A N \in Fitting(S, k) : TextCost(S, w, M) <= TextCost(S, w, N)
<1> DEFINE Costs == {TextCost(S, w, N) : N \in Fitting(S, k)}
<1>1. ASSUME NEW N \in Fitting(S, k) PROVE TextCost(S, w, N) \in Nat
  BY RoomNat DEF Fitting
<1>2. Costs \in SUBSET Nat /\ TextCost(S, w, L) \in Costs
  BY <1>1
<1>3. PICK c \in Costs : \A d \in Costs : c <= d
  <2>1. Costs # {}
    BY <1>2
  <2> HIDE DEF Costs
  <2> QED BY <1>2, <2>1, NatMin
<1> QED BY <1>2, <1>3

(* The lowest level of a tree, and a node there. *)
LEMMA LowestFound ==
    ASSUME NEW S, S # {}, NEW k \in Nat, NEW L \in [S -> 0..k]
    PROVE  \E x \in S : \A n \in S : L[n] <= L[x]
<1> DEFINE Above == {k - L[n] : n \in S}
<1>1. \A n \in S : L[n] \in Nat /\ k - L[n] \in Nat
  OBVIOUS
<1>2. Above \in SUBSET Nat /\ Above # {}
  BY <1>1
<1>3. PICK v \in Above : \A u \in Above : v <= u
  <2> HIDE DEF Above
  <2> QED BY <1>2, NatMin
<1>4. PICK x \in S : v = k - L[x]
  BY <1>3
<1>5. ASSUME NEW n \in S PROVE L[n] <= L[x]
  <2>1. k - L[x] <= k - L[n]
    BY <1>3, <1>4
  <2> QED BY <1>1, <2>1
<1> QED BY <1>5

(* In the cheapest tree of two nodes or more the lowest level is not the first and has
   two nodes: one alone would fit a level higher, and cost less there. *)
LEMMA LowestNotAlone ==
    ASSUME NEW S, NEW k, NEW w, NEW M, Weighed(S, k, w, M), \A n \in S : w[n] # 0,
           M \in Fitting(S, k), NEW x \in S, NEW z \in S, x # z,
           \A N \in Fitting(S, k) : TextCost(S, w, M) <= TextCost(S, w, N),
           \A n \in S : M[n] <= M[x]
    PROVE  M[x] > 0 /\ \E y \in S \ {x} : M[y] = M[x]
<1> DEFINE m == M[x]
<1>0. IsFiniteSet(S) /\ k \in Nat /\ w \in [S -> Nat] /\ M \in [S -> 0..k]
  BY DEF Weighed
<1>1. /\ m \in Nat /\ m <= k
      /\ \A n \in S : M[n] \in Nat /\ k - M[n] \in Nat
      /\ Room(S, M, k) <= Pow2[k] /\ Room(S, M, k) \in Nat /\ TextCost(S, w, M) \in Nat
  BY <1>0, RoomNat DEF Fitting
<1>2. Pow2[k] \in Nat \ {0}
  BY <1>0, Pow2Facts
<1>3. m > 0
  <2> SUFFICES ASSUME m = 0 PROVE FALSE
    BY <1>1
  <2>1. M[x] = 0 /\ M[z] = 0
    BY <1>1
  <2>2. k - M[x] = k /\ k - M[z] = k
    BY <1>0, <2>1
  <2>3. /\ Room(S \ {x, z}, M, k) \in Nat
        /\ Room(S, M, k) = Pow2[k - M[x]] + Pow2[k - M[z]] + Room(S \ {x, z}, M, k)
    BY ONLY Weighed(S, k, w, M), x \in S, z \in S, x # z, LevelsOfTwo
  <2>4. PICK p \in Nat \ {0} : p = Pow2[k]
    BY <1>2
  <2>5. PICK r \in Nat : r = Room(S \ {x, z}, M, k)
    BY <2>3
  <2>6. Room(S, M, k) = p + p + r /\ Room(S, M, k) <= p
    BY <1>1, <2>2, <2>3, <2>4, <2>5
  <2> QED BY ONLY <2>4, <2>5, <2>6
<1>4. ASSUME \A y \in S \ {x} : M[y] # M[x] PROVE FALSE
  <2> DEFINE N == [M EXCEPT ![x] = m - 1]
             d == Pow2[k - (m - 1)]
  <2>1. N \in [S -> 0..k] /\ N[x] = m - 1 /\ \A n \in S \ {x} : N[n] = M[n]
    BY <1>0, <1>1, <1>3
  <2> HIDE DEF N
  <2>2. PICK r \in Nat, c \in Nat :
             /\ Room(S, M, k) = Pow2[k - m] + r /\ Room(S, N, k) = Pow2[k - N[x]] + r
             /\ TextCost(S, w, M) = w[x] * m + c /\ TextCost(S, w, N) = w[x] * N[x] + c
             /\ r = Room(S \ {x}, M, k)
    <3>1. Weighed(S, k, w, N)
      BY <1>0, <2>1 DEF Weighed
    <3>2. /\ Room(S \ {x}, M, k) \in Nat /\ TextCost(S \ {x}, w, M) \in Nat
          /\ Room(S, M, k) = Pow2[k - M[x]] + Room(S \ {x}, M, k)
          /\ TextCost(S, w, M) = w[x] * M[x] + TextCost(S \ {x}, w, M)
      BY ONLY Weighed(S, k, w, M), x \in S, LevelApart DEF OneApart
    <3>3. /\ Room(S \ {x}, N, k) \in Nat /\ TextCost(S \ {x}, w, N) \in Nat
          /\ Room(S, N, k) = Pow2[k - N[x]] + Room(S \ {x}, N, k)
          /\ TextCost(S, w, N) = w[x] * N[x] + TextCost(S \ {x}, w, N)
      BY ONLY <3>1, x \in S, LevelApart DEF OneApart
    <3>4. Room(S \ {x}, N, k) = Room(S \ {x}, M, k) /\ TextCost(S \ {x}, w, N) = TextCost(S \ {x}, w, M)
      <4>1. /\ [n \in S \ {x} |-> Pow2[k - N[n]]] = [n \in S \ {x} |-> Pow2[k - M[n]]]
            /\ [n \in S \ {x} |-> w[n] * N[n]] = [n \in S \ {x} |-> w[n] * M[n]]
        BY <2>1
      <4> QED BY <4>1 DEF Room, TextCost
    <3> QED BY <3>2, <3>3, <3>4
  <2>3. m - 1 \in Nat /\ k - (m - 1) \in Nat /\ k - m \in Nat /\ k - (m - 1) = (k - m) + 1
    BY <1>0, <1>1, <1>3
  <2>4. d = 2 * Pow2[k - m] /\ Pow2[k - m] \in Nat \ {0} /\ d \in Nat
    BY <2>3, Pow2Facts
  <2>5. ASSUME NEW n \in S \ {x} PROVE IsMultiple(Pow2[k - M[n]], d)
    <3>1. M[n] \in Nat /\ M[n] <= m - 1
      <4>1. M[n] \in Nat /\ M[n] <= m /\ M[n] # m
        BY <1>1, <1>4
      <4>2. m \in Nat
        BY <1>1
      <4> QED BY ONLY <4>1, <4>2
    <3>2. PICK i \in Nat : i = (m - 1) - M[n]
      BY <2>3, <3>1
    <3>3. k - M[n] = i + (k - (m - 1))
      BY <1>0, <1>1, <3>1, <3>2
    <3>4. Pow2[i + (k - (m - 1))] = Pow2[i] * Pow2[k - (m - 1)] /\ Pow2[i] \in Nat
      BY <2>3, Pow2Product, Pow2Facts
    <3> QED BY <3>3, <3>4 DEF IsMultiple
  <2>6. PICK q \in Nat : r = q * d
    <3>1. IsMultiple(Room(S \ {x}, M, k), d)
      <4> HIDE DEF d
      <4> QED BY ONLY Weighed(S, k, w, M), <2>4, <2>5, S \ {x} \in SUBSET S, RoomOfMultiples
    <3> QED BY <2>2, <3>1 DEF IsMultiple
  <2>7. PICK p \in Nat : Pow2[k] = p * d
    <3>1. k = (m - 1) + (k - (m - 1))
      BY <1>0, <1>1
    <3>2. Pow2[(m - 1) + (k - (m - 1))] = Pow2[m - 1] * Pow2[k - (m - 1)] /\ Pow2[m - 1] \in Nat
      BY <2>3, Pow2Product, Pow2Facts
    <3> QED BY <3>1, <3>2
  <2> HIDE DEF d, m
  <2>8. Room(S, N, k) <= Pow2[k]
    <3>1. PICK h \in Nat \ {0} : h = Pow2[k - m] /\ d = 2 * h
      BY <2>4
    <3>2. h + q * d <= p * d
      BY <1>1, <2>2, <2>6, <2>7, <3>1
    <3>3. q < p
      <4> SUFFICES ASSUME p <= q PROVE FALSE
        OBVIOUS
      <4>1. PICK u \in Nat : q = p + u
        <5>1. q - p \in Nat /\ q = p + (q - p)
          OBVIOUS
        <5> QED BY <5>1
      <4>2. q * d = p * d + u * d /\ u * d \in Nat /\ p * d \in Nat
        BY ONLY <2>4, <4>1, p \in Nat, q \in Nat, u \in Nat
      <4> QED BY ONLY <3>1, <3>2, <4>2
    <3>4. q * d + d <= p * d
      <4>1. PICK u \in Nat : p = (q + 1) + u
        <5>1. p - (q + 1) \in Nat /\ p = (q + 1) + (p - (q + 1))
          BY <3>3
        <5> QED BY <5>1
      <4>2. p * d = q * d + d + u * d /\ u * d \in Nat /\ q * d \in Nat
        BY ONLY <2>4, <4>1, p \in Nat, q \in Nat, u \in Nat
      <4> QED BY ONLY <2>4, <4>2
    <3>5. Room(S, N, k) = d + q * d
      BY <2>1, <2>2, <2>6 DEF d
    <3>6. d + q * d = q * d + d
      <4>1. q * d \in Nat
        BY ONLY <2>4, q \in Nat
      <4> QED BY ONLY <2>4, <4>1
    <3> QED BY ONLY <2>7, <3>4, <3>5, <3>6
  <2>9. N \in Fitting(S, k)
    BY <2>1, <2>8 DEF Fitting
  <2>10. w[x] * m + c <= w[x] * (m - 1) + c
    BY <2>1, <2>2, <2>9
  <2>11. w[x] \in Nat \ {0} /\ m \in Nat
    BY <1>0, <1>1
  <2>12. w[x] * m = w[x] * (m - 1) + w[x] /\ w[x] * (m - 1) \in Int
    BY ONLY <2>11
  <2> QED BY ONLY <2>10, <2>11, <2>12, c \in Nat
<1> QED BY <1>3, <1>4

(* The two rarest nodes may be taken to be the lowest, at no greater cost. *)
LEMMA RarestLowest ==
    ASSUME NEW S, NEW k, NEW w, NEW L, Weighed(S, k, w, L), \A n \in S : w[n] # 0,
           L \in Fitting(S, k), NEW a \in S, NEW b \in S, a # b,
           \A n \in S : w[a] <= w[n], \A n \in S \ {a} : w[b] <= w[n]
    PROVE  \E M \in Fitting(S, k) :
             M[a] = M[b] /\ M[a] > 0 /\ TextCost(S, w, M) <= TextCost(S, w, L)
<1>1. IsFiniteSet(S) /\ k \in Nat /\ w \in [S -> Nat]
  BY DEF Weighed
<1>2. PICK C \in Fitting(S, k) :
            /\ TextCost(S, w, C) <= TextCost(S, w, L)
            /\ \A N \in Fitting(S, k) : TextCost(S, w, C) <= TextCost(S, w, N)
  BY <1>1, CheapestFound
<1>3. C \in [S -> 0..k] /\ Weighed(S, k, w, C) /\ Room(S, C, k) <= Pow2[k]
  BY <1>1 DEF Fitting, Weighed
<1>4. PICK x \in S : \A n \in S : C[n] <= C[x]
  BY <1>1, <1>3, LowestFound
<1>5. PICK z \in S : x # z
  OBVIOUS
<1>6. C[x] > 0 /\ \E y \in S \ {x} : C[y] = C[x]
  BY ONLY <1>2, <1>3, <1>4, <1>5, \A n \in S : w[n] # 0, LowestNotAlone
<1>7. PICK y \in S \ {x} : C[y] = C[x]
  BY <1>6
<1>8. PICK D \in [S -> 0..k] :
            /\ Weighed(S, k, w, D) /\ D[a] = C[x] /\ D[x] = C[a]
            /\ \A n \in S \ {a, x} : D[n] = C[n]
            /\ Room(S, D, k) = Room(S, C, k) /\ TextCost(S, w, D) <= TextCost(S, w, C)
  <2>1. w[a] <= w[x] /\ C[a] <= C[x]
    BY <1>4
  <2> QED BY ONLY <1>3, <2>1, a \in S, x \in S, SwapFacts
<1>9. PICK u \in S \ {a} : D[u] = C[x]
  <2>1. CASE y # a
    <3>1. y \in S \ {a} /\ y \in S \ {a, x}
      BY <2>1
    <3> QED BY <1>7, <1>8, <3>1
  <2>2. CASE y = a
    BY <1>7, <1>8, <2>2
  <2> QED BY <2>1, <2>2
<1>10. D[b] <= D[u]
  <2>1. D[b] = C[b] \/ D[b] = C[a] \/ D[b] = C[x]
    BY <1>8
  <2> QED BY <1>4, <1>9, <2>1
<1>11. PICK M \in [S -> 0..k] :
            /\ Weighed(S, k, w, M) /\ M[b] = D[u] /\ M[u] = D[b]
            /\ \A n \in S \ {b, u} : M[n] = D[n]
            /\ Room(S, M, k) = Room(S, D, k) /\ TextCost(S, w, M) <= TextCost(S, w, D)
  <2>1. w[b] <= w[u] /\ u \in S
    BY <1>9
  <2> QED BY ONLY <1>8, <1>10, <2>1, b \in S, SwapFacts
<1>12. M[a] = C[x] /\ M[b] = C[x]
  <2>1. a \in S \ {b, u}
    BY <1>9
  <2> QED BY <1>8, <1>9, <1>11, <2>1
<1>13. M \in Fitting(S, k)
  BY <1>3, <1>8, <1>11 DEF Fitting
<1>14. TextCost(S, w, M) <= TextCost(S, w, L)
  <2>1. /\ TextCost(S, w, M) \in Nat /\ TextCost(S, w, D) \in Nat
        /\ TextCost(S, w, C) \in Nat /\ TextCost(S, w, L) \in Nat
    BY <1>1, <1>3, RoomNat DEF Weighed
  <2> QED BY ONLY <1>2, <1>8, <1>11, <2>1
<1> QED BY <1>6, <1>12, <1>13, <1>14

(* p takes the place of a and b, with their weights together. *)
TakesPlace(S, w, a, b, T, v, p) ==
    /\ a \in S /\ b \in S /\ a # b
    /\ p \notin S \ {a, b} /\ T = (S \ {a, b}) \cup {p}
    /\ v \in [T -> Nat] /\ v[p] = w[a] + w[b] /\ \A n \in S \ {a, b} : v[n] = w[n]

(* Two nodes on one level make room for their parent on the level above, and the bit
   that the parent puts before their words is saved there. *)
LEMMA ParentFits ==
    ASSUME NEW S, NEW k, NEW w, NEW M, Weighed(S, k, w, M), M \in Fitting(S, k),
           NEW a, NEW b, NEW T, NEW v, NEW p, TakesPlace(S, w, a, b, T, v, p),
           M[a] = M[b], M[a] > 0
    PROVE  \E N \in Fitting(T, k) : TextCost(T, v, N) + v[p] = TextCost(S, w, M)
<1>0. /\ a \in S /\ b \in S /\ a # b
      /\ p \notin S \ {a, b} /\ T = (S \ {a, b}) \cup {p}
      /\ v \in [T -> Nat] /\ v[p] = w[a] + w[b] /\ \A n \in S \ {a, b} : v[n] = w[n]
  BY DEF TakesPlace
<1>1. /\ IsFiniteSet(S) /\ k \in Nat /\ w \in [S -> Nat] /\ M \in [S -> 0..k]
      /\ Room(S, M, k) <= Pow2[k]
  BY DEF Weighed, Fitting
<1> DEFINE U == S \ {a, b}
           N == [n \in T |-> IF n = p THEN M[a] - 1 ELSE M[n]]
           m == M[a]
<1>2. m \in Nat \ {0} /\ m <= k /\ k - m \in Nat /\ k - (m - 1) = (k - m) + 1
  BY <1>0, <1>1
<1>3. N \in [T -> 0..k] /\ N[p] = m - 1 /\ \A n \in U : N[n] = M[n]
  BY <1>0, <1>1, <1>2
<1> HIDE DEF N
<1>4. Weighed(T, k, v, N)
  <2>1. IsFiniteSet(T)
    <3>1. IsFiniteSet(S \ {a, b})
      BY <1>1, FS_Subset
    <3> QED BY <1>0, <3>1, FS_AddElement
  <2> QED BY <1>0, <1>1, <1>3, <2>1 DEF Weighed
<1>5. /\ Room(U, M, k) \in Nat /\ TextCost(U, w, M) \in Nat
      /\ Room(S, M, k) = Pow2[k - M[a]] + Pow2[k - M[b]] + Room(U, M, k)
      /\ TextCost(S, w, M) = w[a] * M[a] + w[b] * M[b] + TextCost(U, w, M)
  BY ONLY Weighed(S, k, w, M), <1>0, LevelsOfTwo
<1>6. /\ Room(T \ {p}, N, k) \in Nat /\ TextCost(T \ {p}, v, N) \in Nat
      /\ Room(T, N, k) = Pow2[k - N[p]] + Room(T \ {p}, N, k)
      /\ TextCost(T, v, N) = v[p] * N[p] + TextCost(T \ {p}, v, N)
  <2>1. p \in T
    BY <1>0
  <2>2. OneApart(T, k, v, N, p)
    BY ONLY <1>4, <2>1, LevelApart
  <2> QED BY ONLY <2>2 DEF OneApart
<1>7. Room(T \ {p}, N, k) = Room(U, M, k) /\ TextCost(T \ {p}, v, N) = TextCost(U, w, M)
  <2>1. T \ {p} = U
    BY <1>0
  <2>2. /\ [n \in U |-> Pow2[k - N[n]]] = [n \in U |-> Pow2[k - M[n]]]
        /\ [n \in U |-> v[n] * N[n]] = [n \in U |-> w[n] * M[n]]
    BY <1>0, <1>3
  <2> QED BY ONLY <2>1, <2>2 DEF Room, TextCost
<1>8. Pow2[k - (m - 1)] = 2 * Pow2[k - m] /\ Pow2[k - m] \in Nat
  BY <1>2, Pow2Facts
<1>9. Room(T, N, k) = Room(S, M, k)
  <2>1. PICK h \in Nat : h = Pow2[k - m]
    BY <1>8
  <2>2. PICK r \in Nat : r = Room(U, M, k)
    BY <1>5
  <2>3. Room(S, M, k) = h + h + r
    BY <1>5, <2>1, <2>2
  <2>4. Room(T, N, k) = 2 * h + r
    BY <1>3, <1>6, <1>7, <1>8, <2>1, <2>2
  <2> QED BY ONLY <2>1, <2>2, <2>3, <2>4
<1>10. N \in Fitting(T, k)
  BY <1>1, <1>3, <1>9 DEF Fitting
<1>11. TextCost(T, v, N) + v[p] = TextCost(S, w, M)
  <2>1. PICK i \in Nat, j \in Nat, c \in Nat : i = w[a] /\ j = w[b] /\ c = TextCost(U, w, M)
    BY <1>0, <1>1, <1>5
  <2>2. TextCost(S, w, M) = i * m + j * m + c
    BY <1>5, <2>1
  <2>3. TextCost(T, v, N) = (i + j) * (m - 1) + c /\ v[p] = i + j
    BY <1>0, <1>3, <1>6, <1>7, <2>1
  <2> HIDE DEF m
  <2>4. (i + j) * (m - 1) + c + (i + j) = i * m + j * m + c
    BY ONLY <1>2, i \in Nat, j \in Nat, c \in Nat
  <2> QED BY ONLY <2>2, <2>3, <2>4
<1> QED BY <1>10, <1>11
-----------------------------------------------------------------------------
(* The codes are the best there are.  Whatever lengths fit, the nodes that are left have
   levels that fit, such that the paths below them make the text no longer. *)
Weights == [s \in Symbols |-> Weight(s)]
Freqs(S) == [n \in S |-> n.freq]
PathLengths(S) == [s \in Symbols |-> Len((CHOOSE n \in S : s \in DOMAIN n.paths).paths[s])]
Lengths == [Symbols -> 1..Cardinality(Symbols) - 1]

Reached(S, len) ==
    \E L \in Fitting(S, Cardinality(Symbols)) :
        Cost(PathLengths(S)) + TextCost(S, Freqs(S), L) <= Cost(len)

BestSoFar ==
    /\ pc = "insert" => nodes = {Leaf(s) : s \in 0..toInsert - 1}
    /\ pc = "merge" =>
        /\ \A n \in nodes : n.freq = SumFunction(Restrict(Weights, DOMAIN n.paths))
        /\ \A len \in Lengths : Fits(len) => Reached(nodes, len)
    /\ pc \notin {"insert", "merge"} =>
        \A len \in Lengths : Fits(len) => Cost([s \in Symbols |-> Len(codes[s])]) <= Cost(len)

LEMMA WeightFacts ==
    ASSUME freq \in Tables
    PROVE  /\ IsFiniteSet(Symbols) /\ Weights \in [Symbols -> Nat]
           /\ Cardinality(Symbols) \in Nat /\ Symbols = 0..Cardinality(Symbols) - 1
           /\ \A s \in Symbols : Weights[s] = Weight(s) /\ Weight(s) \in Nat \ {0}
           /\ \A len : Cost(len) = TextCost(Symbols, Weights, len)
           /\ \A len : Fits(len) <=> Room(Symbols, len, Cardinality(Symbols)) <= Pow2[Cardinality(Symbols)]
           /\ \A len \in Lengths : len \in [Symbols -> 0..Cardinality(Symbols)]
<1>1. /\ Cardinality(Symbols) \in Nat /\ Symbols = 0..Cardinality(Symbols) - 1
      /\ \A s \in Symbols : Weight(s) \in Nat \ {0}
  BY TableFacts
<1>2. IsFiniteSet(Symbols)
  BY HuffmanAssumption DEF Symbols
<1>3. \A s \in Symbols : Weights[s] = Weight(s)
  BY DEF Weights
<1>4. Weights \in [Symbols -> Nat]
  BY <1>1 DEF Weights
<1>5. ASSUME NEW len PROVE Cost(len) = TextCost(Symbols, Weights, len)
  <2>1. [s \in Symbols |-> Weight(s) * len[s]] = [s \in Symbols |-> Weights[s] * len[s]]
    BY <1>3
  <2> QED BY <2>1 DEF Cost, TextCost
<1>6. ASSUME NEW len
      PROVE  Fits(len) <=> Room(Symbols, len, Cardinality(Symbols)) <= Pow2[Cardinality(Symbols)]
  BY DEF Fits, Room
<1>7. ASSUME NEW len \in Lengths PROVE len \in [Symbols -> 0..Cardinality(Symbols)]
  <2>1. \A s \in Symbols : len[s] \in 0..Cardinality(Symbols)
    BY <1>1 DEF Lengths
  <2> QED BY <2>1 DEF Lengths
<1> QED BY <1>1, <1>2, <1>3, <1>4, <1>5, <1>6, <1>7

LEMMA SameTable ==
    ASSUME freq' = freq
    PROVE  /\ Weights' = Weights /\ Lengths' = Lengths /\ Symbols' = Symbols
           /\ \A len : (Fits(len)' <=> Fits(len)) /\ Cost(len)' = Cost(len)
           /\ \A S : nodes' = S => \A len : Reached(nodes, len)' <=> Reached(S, len)
<1>1. Symbols' = Symbols /\ \A s : Weight(s)' = Weight(s)
  BY DEF Symbols, Weight
<1>2. Weights' = Weights /\ Lengths' = Lengths
  BY <1>1 DEF Weights, Lengths
<1>3. \A len : Fits(len)' <=> Fits(len)
  BY <1>1 DEF Fits
<1>4. \A len : Cost(len)' = Cost(len)
  BY <1>1 DEF Cost
<1>5. ASSUME NEW S, nodes' = S PROVE PathLengths(nodes)' = PathLengths(S) /\ Freqs(nodes)' = Freqs(S)
  BY <1>1, <1>5 DEF PathLengths, Freqs
<1>6. ASSUME NEW S, nodes' = S, NEW len PROVE Reached(nodes, len)' <=> Reached(S, len)
  BY <1>1, <1>4, <1>5, <1>6 DEF Reached
<1> QED BY <1>1, <1>2, <1>3, <1>4, <1>6

LEMMA InitBest == Init => BestSoFar
<1> SUFFICES ASSUME Init PROVE BestSoFar
  OBVIOUS
<1>1. nodes = {} /\ toInsert = 0 /\ pc = "insert"
  BY DEF Init
<1>2. 0..0 - 1 = {}
  OBVIOUS
<1> QED BY <1>1, <1>2 DEF BestSoFar

LEMMA InsertLeafBest == ASSUME IInv, BestSoFar, InsertLeaf PROVE BestSoFar'
<1>1. /\ pc = "insert" /\ pc' = "insert" /\ freq' = freq /\ toInsert' = toInsert + 1
      /\ nodes' = nodes \cup {Leaf(toInsert)} /\ toInsert \in Nat
  BY IInvFacts DEF InsertLeaf
<1>2. nodes = {Leaf(s) : s \in 0..toInsert - 1}
  BY <1>1 DEF BestSoFar
<1>3. \A s : Leaf(s)' = Leaf(s)
  BY <1>1 DEF Leaf, Weight
<1>4. \A s : s \in 0..(toInsert + 1) - 1 <=> s \in 0..toInsert - 1 \/ s = toInsert
  BY <1>1
<1>5. nodes' = {Leaf(s) : s \in 0..(toInsert + 1) - 1}
  BY <1>1, <1>2, <1>4
<1>6. nodes' = {Leaf(s)' : s \in 0..toInsert' - 1}
  BY <1>1, <1>3, <1>5
<1> QED BY <1>1, <1>6 DEF BestSoFar

(* A leaf has the weight of its symbol, and on level len[s] it costs what s does. *)
LEMMA EndInsertBest == ASSUME IInv, BestSoFar, EndInsert PROVE BestSoFar'
<1> DEFINE K == Cardinality(Symbols)
<1>1. /\ pc = "insert" /\ pc' = "merge" /\ freq' = freq /\ nodes' = nodes /\ toInsert = K
      /\ freq \in Tables
  BY IInvFacts DEF EndInsert, tree
<1>2. nodes = {Leaf(s) : s \in Symbols} /\ IsFiniteSet(nodes)
  BY <1>1, IInvFacts DEF BestSoFar
<1>3. \A s \in Symbols : /\ Leaf(s) \in nodes /\ Leaf(s).freq = Weight(s)
                         /\ Leaf(s).minSymbol = s /\ Leaf(s).paths = [x \in {s} |-> << >>]
                         /\ DOMAIN Leaf(s).paths = {s}
  BY <1>2 DEF Leaf
<1>4. /\ IsFiniteSet(Symbols) /\ Weights \in [Symbols -> Nat] /\ K \in Nat
      /\ \A s \in Symbols : Weights[s] = Weight(s) /\ Weight(s) \in Nat \ {0}
      /\ \A len : Cost(len) = TextCost(Symbols, Weights, len)
      /\ \A len : Fits(len) <=> Room(Symbols, len, K) <= Pow2[K]
      /\ \A len \in Lengths : len \in [Symbols -> 0..K]
  BY <1>1, WeightFacts
<1>5. ASSUME NEW n \in nodes PROVE n.freq = SumFunction(Restrict(Weights, DOMAIN n.paths))
  <2>1. PICK s \in Symbols : n = Leaf(s)
    BY <1>2
  <2>2. SumFunction(Restrict(Weights, {} \cup {s})) = Weights[s] + SumFunction(Restrict(Weights, {}))
    BY <1>4, SumGrows
  <2>3. SumFunction(Restrict(Weights, {})) = 0
    BY <1>4, SumGrows
  <2>4. DOMAIN n.paths = {s} /\ n.freq = Weights[s] /\ Weights[s] \in Nat
    BY <1>3, <1>4, <2>1
  <2>5. {} \cup {s} = {s}
    OBVIOUS
  <2>6. SumFunction(Restrict(Weights, {s})) = Weights[s]
    BY <2>2, <2>3, <2>4, <2>5
  <2> QED BY ONLY <2>4, <2>6
<1>6. Cost(PathLengths(nodes)) = 0
  <2>1. ASSUME NEW s \in Symbols PROVE PathLengths(nodes)[s] = 0
    <3> DEFINE n == CHOOSE n \in nodes : s \in DOMAIN n.paths
    <3>1. n \in nodes /\ s \in DOMAIN n.paths
      BY <1>3
    <3>2. PathLengths(nodes)[s] = Len(n.paths[s])
      BY DEF PathLengths
    <3> HIDE DEF n
    <3>3. PICK t \in Symbols : n = Leaf(t)
      BY <1>2, <3>1
    <3>4. n.paths = [x \in {t} |-> << >>] /\ DOMAIN n.paths = {t}
      BY <1>3, <3>3
    <3>5. n.paths[s] = << >>
      BY <3>1, <3>4
    <3>6. Len(<< >>) = 0
      OBVIOUS
    <3> QED BY <3>2, <3>5, <3>6
  <2> DEFINE e == [s \in Symbols |-> Weight(s) * PathLengths(nodes)[s]]
  <2>2. \A s \in Symbols : e[s] = 0
    BY <1>4, <2>1
  <2>3. e \in [Symbols -> Nat] /\ \A s \in Symbols : IsMultiple(e[s], 0)
    BY <2>2 DEF IsMultiple
  <2> HIDE DEF e
  <2>4. IsMultiple(SumFunction(e), 0)
    BY <1>4, <2>3, SumOfMultiples
  <2> QED BY <2>4 DEF IsMultiple, Cost, e
<1>7. ASSUME NEW len \in Lengths, Fits(len) PROVE Reached(nodes, len)
  <2> DEFINE L == [n \in nodes |-> len[n.minSymbol]]
             F == [s \in Symbols |-> Leaf(s)]
             h == [n \in nodes |-> Pow2[K - L[n]]]
             g == [n \in nodes |-> Freqs(nodes)[n] * L[n]]
  <2>1. len \in [Symbols -> 0..K] /\ Room(Symbols, len, K) <= Pow2[K]
    BY <1>4, <1>7
  <2>2. Renames(F, Symbols, nodes) /\ \A s \in Symbols : F[s] = Leaf(s)
    <3>1. \A s \in Symbols : F[s] = Leaf(s) /\ F[s] \in nodes /\ F[s].minSymbol = s
      BY <1>3
    <3>2. F \in [Symbols -> nodes]
      BY <3>1
    <3>3. \A n \in nodes : \E s \in Symbols : F[s] = n
      BY <1>2, <3>1
    <3> QED BY <3>1, <3>2, <3>3 DEF Renames
  <2>3. /\ L \in [nodes -> 0..K] /\ Freqs(nodes) \in [nodes -> Nat]
        /\ \A s \in Symbols : L[F[s]] = len[s] /\ Freqs(nodes)[F[s]] = Weight(s)
    <3>1. ASSUME NEW s \in Symbols
          PROVE  L[Leaf(s)] = len[s] /\ Freqs(nodes)[Leaf(s)] = Weight(s)
      <4>1. Leaf(s) \in nodes /\ Leaf(s).minSymbol = s /\ Leaf(s).freq = Weight(s)
        BY <1>3
      <4> QED BY <4>1 DEF Freqs
    <3>2. ASSUME NEW n \in nodes PROVE L[n] \in 0..K /\ Freqs(nodes)[n] \in Nat
      <4>1. PICK s \in Symbols : n = Leaf(s)
        BY <1>2
      <4> QED BY <1>4, <2>1, <3>1, <4>1
    <3>3. DOMAIN L = nodes /\ DOMAIN Freqs(nodes) = nodes /\ L = [n \in nodes |-> L[n]]
          /\ Freqs(nodes) = [n \in nodes |-> Freqs(nodes)[n]]
      BY DEF Freqs
    <3> HIDE DEF L
    <3>4. L \in [nodes -> 0..K] /\ Freqs(nodes) \in [nodes -> Nat]
      BY ONLY <3>2, <3>3
    <3> QED BY <2>2, <3>1, <3>4
  <2>4. h \in [nodes -> Nat] /\ g \in [nodes -> Nat]
    <3> HIDE DEF L
    <3> QED BY <1>4, <2>3, LevelFacts
  <2> HIDE DEF L, F
  <2>5. /\ [s \in Symbols |-> h[F[s]]] = [s \in Symbols |-> Pow2[K - len[s]]]
        /\ [s \in Symbols |-> g[F[s]]] = [s \in Symbols |-> Weights[s] * len[s]]
    <3>1. ASSUME NEW s \in Symbols
          PROVE  h[F[s]] = Pow2[K - len[s]] /\ g[F[s]] = Weights[s] * len[s]
      <4>1. F[s] \in nodes
        BY <2>2 DEF Renames
      <4> QED BY <1>4, <2>3, <4>1
    <3> HIDE DEF h, g
    <3> QED BY <3>1
  <2> HIDE DEF h, g
  <2>6. SumFunction(h) = SumFunction([s \in Symbols |-> h[F[s]]])
    BY ONLY <1>2, <1>4, <2>2, <2>4, SumRenamed
  <2>7. SumFunction(g) = SumFunction([s \in Symbols |-> g[F[s]]])
    BY ONLY <1>2, <1>4, <2>2, <2>4, SumRenamed
  <2>8. Room(nodes, L, K) = Room(Symbols, len, K)
    BY <2>5, <2>6 DEF Room, h
  <2>9. TextCost(nodes, Freqs(nodes), L) = Cost(len)
    BY <1>4, <2>5, <2>7 DEF TextCost, g
  <2>10. L \in Fitting(nodes, K)
    BY <2>1, <2>3, <2>8 DEF Fitting
  <2>11. Cost(len) \in Nat
    BY <1>4, <2>1, RoomNat
  <2> QED BY <1>6, <2>9, <2>10, <2>11 DEF Reached
<1>8. /\ \A n \in nodes : n.freq = SumFunction(Restrict(Weights, DOMAIN n.paths))
      /\ \A len \in Lengths : Fits(len) => Reached(nodes, len)
  BY <1>5, <1>7
<1>9. /\ \A n \in nodes' : n.freq = SumFunction(Restrict(Weights', DOMAIN n.paths))
      /\ \A len \in Lengths' : Fits(len)' => Reached(nodes, len)'
  <2>1. /\ Weights' = Weights /\ Lengths' = Lengths
        /\ \A len : (Fits(len)' <=> Fits(len)) /\ (Reached(nodes, len)' <=> Reached(nodes, len))
    BY <1>1, SameTable
  <2> QED BY <1>1, <1>8, <2>1
<1> QED BY <1>1, <1>9 DEF BestSoFar
(* Of the nodes only one has a symbol. *)
LEMMA PathLengthOf ==
    ASSUME NEW S, Disjoint(S), NEW n \in S, NEW s \in Symbols, s \in DOMAIN n.paths
    PROVE  PathLengths(S)[s] = Len(n.paths[s])
<1> DEFINE m == CHOOSE m \in S : s \in DOMAIN m.paths
<1>1. m \in S /\ s \in DOMAIN m.paths
  OBVIOUS
<1>2. PathLengths(S)[s] = Len(m.paths[s])
  BY DEF PathLengths
<1> HIDE DEF m
<1>3. m = n
  BY <1>1 DEF Disjoint
<1> QED BY <1>2, <1>3

LEMMA PathLengthsNat ==
    ASSUME NEW S, \A n \in S : NodeOK(n, Cardinality(Symbols)),
           Covered(S, Cardinality(Symbols)), Disjoint(S), freq \in Tables
    PROVE  PathLengths(S) \in [Symbols -> Nat]
<1>1. ASSUME NEW s \in Symbols PROVE PathLengths(S)[s] \in Nat
  <2>1. PICK n \in S : s \in DOMAIN n.paths
    BY TableFacts DEF Covered
  <2>2. n.paths[s] \in Seq(Bit)
    BY <2>1 DEF NodeOK, IsPathSet
  <2>3. Len(n.paths[s]) \in Nat
    BY <2>2
  <2> QED BY <2>1, <2>3, PathLengthOf
<1>2. PathLengths(S) = [s \in Symbols |-> PathLengths(S)[s]]
  BY DEF PathLengths
<1> QED BY ONLY <1>1, <1>2

(* The paths through the parent are a bit longer, which costs its frequency. *)
LEMMA ParentCost ==
    ASSUME NEW S, IsFiniteSet(S), \A n \in S : NodeOK(n, Cardinality(Symbols)),
           Covered(S, Cardinality(Symbols)), Disjoint(S), freq \in Tables,
           NEW a \in S, NEW b \in S, a # b, NEW p, p = Inner(a, b),
           NEW T, T = (S \ {a, b}) \cup {p}, Disjoint(T),
           \A n \in S : n.freq = SumFunction(Restrict(Weights, DOMAIN n.paths))
    PROVE  /\ p.freq = SumFunction(Restrict(Weights, DOMAIN p.paths))
           /\ Cost(PathLengths(T)) = Cost(PathLengths(S)) + p.freq
           /\ Cost(PathLengths(S)) \in Nat
<1>1. /\ IsFiniteSet(Symbols) /\ Weights \in [Symbols -> Nat]
      /\ Symbols = 0..Cardinality(Symbols) - 1
      /\ \A s \in Symbols : Weights[s] = Weight(s) /\ Weight(s) \in Nat
  BY WeightFacts
<1> DEFINE A == DOMAIN a.paths
           B == DOMAIN b.paths
<1>2. A \in SUBSET Symbols /\ B \in SUBSET Symbols /\ A \cap B = {}
  <2>1. A \in SUBSET Symbols /\ B \in SUBSET Symbols
    BY <1>1 DEF NodeOK
  <2> QED BY <2>1 DEF Disjoint
<1>3. /\ p.freq = a.freq + b.freq /\ DOMAIN p.paths = A \cup B
      /\ \A s \in A : p.paths[s] = <<0>> \o a.paths[s]
      /\ \A s \in B : p.paths[s] = <<1>> \o b.paths[s]
  BY <1>2 DEF Inner, Paths
<1>4. p.freq = SumFunction(Restrict(Weights, A \cup B))
  <2>1. SumFunction(Restrict(Weights, A \cup B)) =
            SumFunction(Restrict(Weights, A)) + SumFunction(Restrict(Weights, B))
    BY <1>1, <1>2, SumUnion
  <2> QED BY <1>3, <2>1
<1>5. ASSUME NEW s \in Symbols
      PROVE  PathLengths(T)[s] = IF s \in A \cup B THEN PathLengths(S)[s] + 1
                                                   ELSE PathLengths(S)[s]
  <2>1. ASSUME NEW c \in Bit, NEW n \in S, s \in DOMAIN n.paths, s \in A \cup B,
               p.paths[s] = <<c>> \o n.paths[s]
        PROVE  PathLengths(T)[s] = PathLengths(S)[s] + 1
    <3>1. n.paths[s] \in Seq(Bit)
      BY <2>1 DEF NodeOK, IsPathSet
    <3>2. Len(p.paths[s]) = Len(n.paths[s]) + 1
      BY <2>1, <3>1, ConsFacts
    <3>3. p \in T /\ s \in DOMAIN p.paths
      BY <1>3, <2>1
    <3>4. PathLengths(T)[s] = Len(p.paths[s])
      BY <3>3, PathLengthOf
    <3>5. PathLengths(S)[s] = Len(n.paths[s])
      BY <2>1, PathLengthOf
    <3> QED BY <3>2, <3>4, <3>5
  <2>2. 0 \in Bit /\ 1 \in Bit
    BY DEF Bit
  <2>3. CASE s \in A
    BY <1>3, <2>1, <2>2, <2>3
  <2>4. CASE s \in B
    BY <1>3, <2>1, <2>2, <2>4
  <2>5. ASSUME s \notin A, s \notin B PROVE PathLengths(T)[s] = PathLengths(S)[s]
    <3>1. PICK n \in S : s \in DOMAIN n.paths
      BY <1>1 DEF Covered
    <3>2. n \in T
      BY <2>5, <3>1
    <3>3. PathLengths(T)[s] = Len(n.paths[s])
      BY <3>1, <3>2, PathLengthOf
    <3>4. PathLengths(S)[s] = Len(n.paths[s])
      BY <3>1, PathLengthOf
    <3> QED BY <3>3, <3>4
  <2> QED BY <2>3, <2>4, <2>5
<1> DEFINE f == [s \in Symbols |-> Weight(s) * PathLengths(S)[s]]
           e == [s \in Symbols |-> Weight(s) * PathLengths(T)[s]]
<1>6. ASSUME NEW s \in Symbols
      PROVE  /\ f[s] \in Nat /\ e[s] \in Nat
             /\ e[s] = IF s \in A \cup B THEN f[s] + Weights[s] ELSE f[s]
  <2>1. PICK i \in Nat : i = PathLengths(S)[s]
    BY PathLengthsNat
  <2>2. PICK w \in Nat : w = Weights[s] /\ w = Weight(s)
    BY <1>1
  <2>3. f[s] = w * i /\ e[s] = w * (IF s \in A \cup B THEN i + 1 ELSE i)
    BY <1>5, <2>1, <2>2
  <2>4. w * i \in Nat /\ w * (i + 1) = w * i + w /\ w * (i + 1) \in Nat
    BY ONLY i \in Nat, w \in Nat
  <2> QED BY ONLY <2>2, <2>3, <2>4
<1>7. f \in [Symbols -> Nat] /\ e \in [Symbols -> Nat]
  BY <1>6
<1>8. Cost(PathLengths(S)) = SumFunction(f) /\ Cost(PathLengths(T)) = SumFunction(e)
  BY DEF Cost
<1> HIDE DEF f, e
<1>9. SumFunction(e) = SumFunction(f) + SumFunction(Restrict(Weights, A \cup B))
  <2>1. A \cup B \in SUBSET Symbols
    BY <1>2
  <2>2. \A s \in Symbols : e[s] = IF s \in A \cup B THEN f[s] + Weights[s] ELSE f[s]
    BY <1>6
  <2> QED BY ONLY SMTT(30), <1>1, <1>7, <2>1, <2>2, SumAdded
<1>10. SumFunction(f) \in Nat
  BY <1>1, <1>7, SumNat
<1> QED BY <1>3, <1>4, <1>8, <1>9, <1>10

(* The rarest two may be taken to be the lowest, and then their parent takes their place. *)
LEMMA MergeReaches ==
    ASSUME NEW S, IsFiniteSet(S), \A n \in S : n.freq \in Nat \ {0}, NEW K \in Nat,
           K = Cardinality(Symbols), NEW a \in S, NEW b \in S, a # b,
           \A n \in S : a.freq <= n.freq, \A n \in S \ {a} : b.freq <= n.freq,
           NEW p, p \notin S \ {a, b}, p.freq = a.freq + b.freq,
           NEW T, T = (S \ {a, b}) \cup {p},
           NEW c \in Nat, c = Cost(PathLengths(S)), Cost(PathLengths(T)) = c + p.freq,
           NEW len, Cost(len) \in Nat, Reached(S, len)
    PROVE  Reached(T, len)
<1> DEFINE w == Freqs(S)
           v == Freqs(T)
<1>1. /\ w \in [S -> Nat] /\ \A n \in S : w[n] = n.freq /\ w[n] # 0
      /\ v \in [T -> Nat] /\ \A n \in T : v[n] = n.freq
  <2>1. \A n \in T : n.freq \in Nat
    OBVIOUS
  <2> QED BY <2>1 DEF Freqs
<1>2. PICK L \in Fitting(S, K) : c + TextCost(S, w, L) <= Cost(len)
  BY DEF Reached
<1>3. L \in [S -> 0..K]
  BY DEF Fitting
<1>4. v[p] = w[a] + w[b] /\ \A n \in S \ {a, b} : v[n] = w[n]
  BY <1>1
<1>5. \A n \in S : w[a] <= w[n]
  BY <1>1
<1>6. \A n \in S \ {a} : w[b] <= w[n]
  BY <1>1
<1>7. v[p] = p.freq
  BY <1>1
<1> HIDE DEF w, v
<1>8. Weighed(S, K, w, L)
  BY <1>1, <1>3 DEF Weighed
<1>9. PICK M \in Fitting(S, K) :
            M[a] = M[b] /\ M[a] > 0 /\ TextCost(S, w, M) <= TextCost(S, w, L)
  BY ONLY <1>1, <1>2, <1>5, <1>6, <1>8, a \in S, b \in S, a # b, RarestLowest
<1>10. Weighed(S, K, w, M)
  BY <1>1 DEF Weighed, Fitting
<1>11. PICK N \in Fitting(T, K) : TextCost(T, v, N) + v[p] = TextCost(S, w, M)
  <2>1. TakesPlace(S, w, a, b, T, v, p)
    BY <1>1, <1>4 DEF TakesPlace
  <2> QED BY ONLY <1>9, <1>10, <2>1, ParentFits
<1>12. /\ TextCost(S, w, M) \in Nat /\ TextCost(S, w, L) \in Nat
       /\ TextCost(T, v, N) \in Nat /\ v[p] \in Nat
  <2>1. IsFiniteSet(T)
    BY FS_AddElement, FS_Difference
  <2>2. M \in [S -> 0..K] /\ N \in [T -> 0..K]
    BY DEF Fitting
  <2> QED BY <1>1, <1>3, <2>1, <2>2, RoomNat
<1>13. Cost(PathLengths(T)) + TextCost(T, v, N) <= Cost(len)
  BY ONLY <1>2, <1>7, <1>9, <1>11, <1>12, c \in Nat, Cost(len) \in Nat,
          Cost(PathLengths(T)) = c + p.freq
<1>14. Cost(PathLengths(T)) + TextCost(T, Freqs(T), N) <= Cost(len)
  BY <1>13 DEF v
<1> QED BY <1>14 DEF Reached

LEMMA MergeBest == ASSUME IInv, BestSoFar, Merge PROVE BestSoFar'
<1>0. PICK a \in nodes : \E y \in nodes \ {a} :
            /\ IsFirst(a, nodes) /\ IsFirst(y, nodes \ {a})
            /\ nodes' = (nodes \ {a, y}) \cup {Inner(a, y)}
  BY DEF Merge
<1>1. PICK b \in nodes \ {a} :
            /\ IsFirst(a, nodes) /\ IsFirst(b, nodes \ {a})
            /\ nodes' = (nodes \ {a, b}) \cup {Inner(a, b)}
  BY <1>0
<1>2. /\ pc = "merge" /\ pc' = "merge" /\ freq' = freq /\ toInsert' = toInsert
      /\ toInsert = Cardinality(Symbols)
  BY IInvFacts DEF Merge, PhaseOK
<1>3. /\ IsFiniteSet(nodes) /\ freq \in Tables
      /\ \A n \in nodes : NodeOK(n, Cardinality(Symbols))
      /\ Disjoint(nodes) /\ Covered(nodes, Cardinality(Symbols)) /\ Cardinality(Symbols) \in Nat
  BY <1>2, IInvFacts
<1>4. /\ \A n \in nodes : n.freq = SumFunction(Restrict(Weights, DOMAIN n.paths))
      /\ \A len \in Lengths : Fits(len) => Reached(nodes, len)
  BY <1>2 DEF BestSoFar
<1>5. PICK p : p = Inner(a, b)
  OBVIOUS
<1>6. PICK T : T = nodes' /\ T = (nodes \ {a, b}) \cup {p}
  BY <1>1, <1>5
<1>7. Disjoint(T)
  <2>1. IInv'
    BY MergeIInv
  <2>2. Disjoint(nodes')
    BY <2>1 DEF IInv
  <2> QED BY <1>6, <2>2
<1>8. /\ p.freq = SumFunction(Restrict(Weights, DOMAIN p.paths))
      /\ Cost(PathLengths(T)) = Cost(PathLengths(nodes)) + p.freq
      /\ Cost(PathLengths(nodes)) \in Nat
  BY ONLY <1>1, <1>3, <1>4, <1>5, <1>6, <1>7, ParentCost
<1>9. /\ \A n \in nodes : n.freq \in Nat \ {0}
      /\ p.freq = a.freq + b.freq /\ DOMAIN p.paths = DOMAIN a.paths \cup DOMAIN b.paths
  BY <1>3, <1>5 DEF NodeOK, Inner, Paths
<1>10. /\ \A n \in nodes : a.freq <= n.freq
       /\ \A n \in nodes \ {a} : b.freq <= n.freq
  <2>1. \A n \in nodes \ {a} : a.freq <= n.freq
    BY <1>1, <1>9 DEF IsFirst, Less
  <2>2. \A n \in (nodes \ {a}) \ {b} : b.freq <= n.freq
    BY <1>1, <1>9 DEF IsFirst, Less
  <2> QED BY <1>9, <2>1, <2>2
<1>11. p \notin nodes \ {a, b}
  <2> SUFFICES ASSUME p \in nodes \ {a, b} PROVE FALSE
    OBVIOUS
  <2>1. a.minSymbol \in DOMAIN a.paths /\ a.minSymbol \in DOMAIN p.paths
    BY <1>3, <1>9 DEF NodeOK
  <2> QED BY <1>3, <2>1 DEF Disjoint
<1>12. ASSUME NEW len \in Lengths, Fits(len) PROVE Reached(T, len)
  <2>1. Reached(nodes, len)
    BY <1>4, <1>12
  <2>2. Cost(len) \in Nat
    BY <1>3, WeightFacts, RoomNat
  <2>3. PICK c \in Nat : c = Cost(PathLengths(nodes))
    BY <1>8
  <2>4. Cost(PathLengths(T)) = c + p.freq
    BY <1>8, <2>3
  <2>5. PICK K \in Nat : K = Cardinality(Symbols)
    BY <1>3
  <2>6. b \in nodes /\ a # b
    OBVIOUS
  <2> QED BY ONLY <1>3, <1>6, <1>9, <1>10, <1>11, <2>1, <2>2, <2>3, <2>4, <2>5, <2>6, a \in nodes,
                  MergeReaches
<1>13. /\ \A n \in nodes' : n.freq = SumFunction(Restrict(Weights', DOMAIN n.paths))
       /\ \A len \in Lengths' : Fits(len)' => Reached(nodes, len)'
  <2>1. /\ Weights' = Weights /\ Lengths' = Lengths
        /\ \A len : (Fits(len)' <=> Fits(len)) /\ (Reached(nodes, len)' <=> Reached(T, len))
    BY <1>2, <1>6, SameTable
  <2> QED BY <1>4, <1>6, <1>8, <1>12, <2>1
<1> QED BY <1>2, <1>13 DEF BestSoFar

(* The levels of the root save nothing: its paths are what is reached. *)
LEMMA WriteCodesBest == ASSUME IInv, BestSoFar, WriteCodes PROVE BestSoFar'
<1>1. /\ pc = "merge" /\ pc' = "encode" /\ freq' = freq /\ Cardinality(nodes) = 1
      /\ freq \in Tables /\ IsFiniteSet(nodes) /\ Disjoint(nodes)
      /\ toInsert = Cardinality(Symbols) /\ Covered(nodes, Cardinality(Symbols))
      /\ \A n \in nodes : NodeOK(n, Cardinality(Symbols))
  BY IInvFacts DEF WriteCodes, PhaseOK
<1>2. PICK root \in nodes : codes' = root.paths
  BY DEF WriteCodes
<1>3. nodes = {root}
  BY <1>1, <1>2, FS_Singleton
<1>4. PICK c : c = codes'
  OBVIOUS
<1>5. PathLengths(nodes) = [s \in Symbols |-> Len(c[s])]
  <2>1. ASSUME NEW s \in Symbols PROVE PathLengths(nodes)[s] = Len(c[s])
    <3>1. s \in DOMAIN root.paths
      BY <1>1, <1>3, TableFacts DEF Covered
    <3> QED BY <1>1, <1>2, <1>4, <3>1, PathLengthOf
  <2> QED BY <2>1 DEF PathLengths
<1>6. ASSUME NEW len \in Lengths, Fits(len)
      PROVE  Cost([s \in Symbols |-> Len(c[s])]) <= Cost(len)
  <2>1. PICK L \in Fitting(nodes, Cardinality(Symbols)) :
                Cost(PathLengths(nodes)) + TextCost(nodes, Freqs(nodes), L) <= Cost(len)
    BY <1>1, <1>6 DEF BestSoFar, Reached
  <2>2. Cost(len) \in Nat
    BY <1>1, WeightFacts, RoomNat
  <2>3. Freqs(nodes) \in [nodes -> Nat]
    BY <1>1 DEF Freqs, NodeOK
  <2>4. TextCost(nodes, Freqs(nodes), L) \in Nat
    <3>1. L \in [nodes -> 0..Cardinality(Symbols)] /\ Cardinality(Symbols) \in Nat
      BY <1>1, TableFacts DEF Fitting
    <3> QED BY <1>1, <2>3, <3>1, RoomNat
  <2>5. Cost(PathLengths(nodes)) \in Nat
    <3>1. PathLengths(nodes) \in [Symbols -> Nat]
      BY <1>1, PathLengthsNat
    <3>2. ASSUME NEW s \in Symbols PROVE Weight(s) * PathLengths(nodes)[s] \in Nat
      <4>1. Weight(s) \in Nat /\ PathLengths(nodes)[s] \in Nat
        BY <1>1, <3>1, TableFacts
      <4> QED BY ONLY <4>1
    <3>3. [s \in Symbols |-> Weight(s) * PathLengths(nodes)[s]] \in [Symbols -> Nat]
      BY <3>2
    <3>4. IsFiniteSet(Symbols)
      BY <1>1, WeightFacts
    <3> QED BY ONLY <3>3, <3>4, SumNat DEF Cost
  <2>6. Cost(PathLengths(nodes)) <= Cost(len)
    BY ONLY <2>1, <2>2, <2>4, <2>5
  <2> QED BY <1>5, <2>6
<1>7. /\ Lengths' = Lengths /\ Symbols' = Symbols
      /\ \A len : (Fits(len)' <=> Fits(len)) /\ Cost(len)' = Cost(len)
  BY <1>1, SameTable
<1>8. [s \in Symbols |-> Len(codes[s])]' = [s \in Symbols |-> Len(c[s])]
  BY <1>4, <1>7
<1>9. ASSUME NEW len \in Lengths', Fits(len)'
      PROVE  Cost([s \in Symbols |-> Len(codes[s])])' <= Cost(len)'
  BY <1>6, <1>7, <1>8, <1>9
<1> QED BY <1>1, <1>9 DEF BestSoFar

LEMMA StepBest == ASSUME IInv, BestSoFar, [Next]_vars PROVE BestSoFar'
<1>1. CASE InsertLeaf
  BY <1>1, InsertLeafBest
<1>2. CASE EndInsert
  BY <1>2, EndInsertBest
<1>3. CASE Merge
  BY <1>3, MergeBest
<1>4. CASE WriteCodes
  BY <1>4, WriteCodesBest
<1>5. CASE EncodeSymbol \/ StartDecode \/ CallDecode \/ Walk \/ RunOut \/ ReachLeaf
  <2>1. /\ freq' = freq /\ codes' = codes
        /\ pc \in {"encode", "decode", "walk"} /\ pc' \in {"encode", "decode", "walk", "done"}
    BY <1>5 DEF EncodeSymbol, StartDecode, CallDecode, Walk, RunOut, ReachLeaf, tree
  <2>2. /\ Lengths' = Lengths /\ Symbols' = Symbols
        /\ \A len : (Fits(len)' <=> Fits(len)) /\ Cost(len)' = Cost(len)
    BY <2>1, SameTable
  <2>3. [s \in Symbols |-> Len(codes[s])]' = [s \in Symbols |-> Len(codes[s])]
    BY <2>1, <2>2
  <2>4. ASSUME NEW len \in Lengths', Fits(len)'
        PROVE  Cost([s \in Symbols |-> Len(codes[s])])' <= Cost(len)'
    BY <2>1, <2>2, <2>3, <2>4 DEF BestSoFar
  <2> QED BY <2>1, <2>4 DEF BestSoFar
<1>6. CASE Done \/ UNCHANGED vars
  <2>1. freq' = freq /\ codes' = codes /\ pc' = pc /\ nodes' = nodes /\ toInsert' = toInsert
    BY <1>6 DEF Done, vars, tree
  <2>2. /\ Weights' = Weights /\ Lengths' = Lengths /\ Symbols' = Symbols
        /\ \A len : (Fits(len)' <=> Fits(len)) /\ Cost(len)' = Cost(len)
        /\ \A len : Reached(nodes, len)' <=> Reached(nodes, len)
    BY <2>1, SameTable
  <2>3. [s \in Symbols |-> Len(codes[s])]' = [s \in Symbols |-> Len(codes[s])]
    BY <2>1, <2>2
  <2>4. \A s : Leaf(s)' = Leaf(s)
    BY <2>1 DEF Leaf, Weight
  <2>5. (pc = "insert" => nodes = {Leaf(s) : s \in 0..toInsert - 1})'
    BY <2>1, <2>4 DEF BestSoFar
  <2>6. (pc = "merge" =>
            /\ \A n \in nodes : n.freq = SumFunction(Restrict(Weights, DOMAIN n.paths))
            /\ \A len \in Lengths : Fits(len) => Reached(nodes, len))'
    BY <2>1, <2>2 DEF BestSoFar
  <2>7. (pc \notin {"insert", "merge"} =>
            \A len \in Lengths : Fits(len) => Cost([s \in Symbols |-> Len(codes[s])]) <= Cost(len))'
    BY <2>1, <2>2, <2>3 DEF BestSoFar
  <2> QED BY <2>5, <2>6, <2>7 DEF BestSoFar
<1> QED BY <1>1, <1>2, <1>3, <1>4, <1>5, <1>6 DEF Next

LEMMA BestAlways == Spec => [](IInv /\ BestSoFar)
<1>1. Init => IInv /\ BestSoFar
  BY InitIInv, InitBest
<1>2. IInv /\ BestSoFar /\ [Next]_vars => (IInv /\ BestSoFar)'
  BY StepIInv, StepBest
<1> QED BY <1>1, <1>2, PTL DEF Spec
-----------------------------------------------------------------------------
LEMMA TypeFollows == IInv => TypeOK
<1> SUFFICES ASSUME IInv PROVE TypeOK
  OBVIOUS
<1> USE IInvFacts
<1>1. ASSUME NEW n \in nodes
      PROVE  /\ n.freq \in Nat \ {0} /\ n.minDepth \in Nat /\ n.minSymbol \in DOMAIN n.paths
             /\ DOMAIN n.paths \subseteq Symbols
             /\ \A s \in DOMAIN n.paths : n.paths[s] \in Seq(Bit)
  BY DEF NodeOK, IsPathSet
<1> QED
  BY <1>1 DEF TypeOK, PhaseOK, TextOK

(* Two nodes have different least symbols, as they have no symbol in common. *)
LEMMA OrderFollows == IInv => OrderDetermined
<1> SUFFICES ASSUME IInv, NEW a \in nodes, NEW b \in nodes, a # b
             PROVE  Comparable(a, b) /\ (Less(a, b) <=> ~ Less(b, a))
  BY DEF OrderDetermined
<1> USE IInvFacts
<1>1. a.minSymbol # b.minSymbol
  BY DEF NodeOK, Disjoint
<1>2. /\ a.freq \in Nat /\ b.freq \in Nat /\ a.minDepth \in Nat /\ b.minDepth \in Nat
      /\ a.minSymbol \in Nat /\ b.minSymbol \in Nat
  BY DEF NodeOK
<1> QED
  BY SMTT(30), <1>1, <1>2 DEF Comparable, Less

(* Every variable keeps its type, for every table. *)
THEOREM TypeCorrect == Spec => []TypeOK
<1> QED
  BY Invariance, TypeFollows, PTL

(* cmp orders any two nodes, and its CHECK never fails: encoder and decoder
   build the same tree from the same table. *)
THEOREM ConstructionDetermined == Spec => []OrderDetermined
<1> QED
  BY Invariance, OrderFollows, PTL

(* The codes are what Layout and TokenStream assume of theirs. *)
THEOREM CodesArePrefixCodes == Spec => []CodesUsable
<1>1. IInv => CodesUsable
  BY DEF IInv
<1> QED
  BY Invariance, <1>1, PTL

(* decode_symbol inverts encode_symbol for every table, message and limit: it gives
   the symbols that were encoded, its walk never leaves the tree, and a code that is
   cut off is left whole for the next time. *)
THEOREM DecodingInverts == Spec => []DecodesWhatWasEncoded
<1>1. ASSUME IInv, Coded PROVE DecodesWhatWasEncoded
  <2>1. ASSUME pc \in {"insert", "merge", "encode"} PROVE DecodesWhatWasEncoded
    <3>1. decoded = << >>
      BY <1>1, <2>1 DEF Coded, Encoded
    <3>2. SubSeq(message, 1, 0) = << >> /\ Len(<< >>) = 0 /\ Len(message) \in Nat
      BY <1>1, LenProperties DEF Coded, Encoded
    <3> QED BY <2>1, <3>1, <3>2 DEF DecodesWhatWasEncoded, StartsWith
  <2>2. ASSUME pc \in {"decode", "walk", "done"} PROVE DecodesWhatWasEncoded
    <3>1. PICK e \in CodeEnds : DecodedUpTo(e)
      BY <1>1, <2>2 DEF Coded, Decoding
    <3>2. PICK r \in Nat, n \in Nat : r = Len(decoded) /\ n = Len(message)
      BY <1>1, LenProperties DEF Coded, Encoded
    <3>3. r <= n /\ \A k \in 1..r : decoded[k] = message[k]
      BY <3>1, <3>2 DEF DecodedUpTo
    <3>4. StartsWith(message, decoded)
      <4>1. message \in Seq(Symbols) /\ decoded \in Seq(Symbols)
        BY <1>1 DEF Coded, Encoded
      <4> DEFINE cut == SubSeq(message, 1, r)
      <4>2. /\ cut \in Seq(Symbols) /\ Len(cut) = r
            /\ \A k \in 1..r : cut[k] = message[k]
        BY <3>2, <3>3, <4>1
      <4> HIDE DEF cut
      <4>3. decoded = cut
        BY <3>2, <3>3, <4>1, <4>2, SeqEqual
      <4> QED BY <3>2, <3>3, <4>3 DEF StartsWith, cut
    <3>5. ASSUME pc = "walk"
          PROVE  (AtInner \/ \E s \in Symbols : AtLeaf(s)) /\ offs <= limit
      <4>1. offs <= limit
        BY <3>1, <3>5 DEF DecodedUpTo
      <4>2. \A s \in Symbols : codes[s] \in Seq(Bit) /\ codes[s] # << >>
        BY <1>1, <3>5, CodesFacts
      <4>3. CASE r < n
        <5>1. message[r + 1] \in Symbols /\ StartsWith(codes[message[r + 1]], Path)
          BY <1>1, <3>1, <3>2, <3>5, <4>3, PathAhead
        <5> QED BY <4>1, <5>1 DEF AtInner, AtLeaf
      <4>4. CASE ~ (r < n)
        <5>1. Path = << >>
          BY <1>1, <3>1, <3>2, <3>5, <4>4, PathAhead
        <5>2. 0 \in Symbols
          BY <1>1, TableFacts DEF IInv
        <5>3. StartsWith(codes[0], << >>) /\ codes[0] # << >>
          BY <4>2, <5>2, EmptyBegins
        <5> QED BY <4>1, <5>1, <5>2, <5>3 DEF AtInner
      <4> QED BY <4>3, <4>4
    <3>6. ASSUME pc = "done"
          PROVE  /\ offs = Written[Len(decoded)] /\ offs <= limit
                 /\ Len(decoded) < Len(message) => Written[Len(decoded) + 1] > limit
      <4>1. /\ offs = e[r] /\ offs <= limit /\ (r < n => e[r + 1] > limit)
        BY <3>1, <3>2, <3>6 DEF DecodedUpTo
      <4>2. Written[r] = e[r]
        BY <1>1, <3>1, <3>2, <3>3, WrittenFound
      <4>3. r < n => Written[r + 1] = e[r + 1]
        <5>1. ASSUME r < n PROVE r + 1 \in 0..Len(message)
          BY <3>2, <5>1
        <5> QED BY <1>1, <3>1, <5>1, WrittenFound
      <4> QED BY <3>2, <4>1, <4>2, <4>3
    <3> QED BY <3>4, <3>5, <3>6 DEF DecodesWhatWasEncoded
  <2>3. pc \in {"insert", "merge", "encode", "decode", "walk", "done"}
    BY <1>1 DEF IInv, PhaseOK
  <2> QED BY <2>1, <2>2, <2>3
<1> QED BY <1>1, CodedAlways, PTL

(* No prefix code of the same symbols makes a text with the table's frequencies shorter:
   the std::set gives its two rarest nodes each time, also where frequencies are alike. *)
THEOREM CodesAreOptimal == Spec => []CodesOptimal
<1>1. BestSoFar => CodesOptimal
  BY DEF BestSoFar, CodesOptimal, Lengths
<1> QED BY <1>1, BestAlways, PTL
-----------------------------------------------------------------------------
(***************************************************************************)
(* encode_8 and decode_8, for every prefix code of words shorter than 16   *)
(* bits and all byte strings.                                              *)
(*                                                                         *)
(* The bits are the codes of the bytes one after another: there are places *)
(* (Ends) at which the codes end.  Decoding has always read up to such a   *)
(* place, and behind it only the code of the next byte fits.               *)
(***************************************************************************)

(* The first n bytes of the data, as codes, fill the first m bits. *)
Ends(n, m) ==
    {e \in [0..n -> 0..m] :
        /\ e[0] = 0 /\ e[n] = m
        /\ \A k \in 0..n - 1 : e[k] < m
        /\ \A k \in 1..n :
            /\ e[k] = e[k - 1] + Len(Code[data[k]])
            /\ \A l \in 1..Len(Code[data[k]]) : byteBits[e[k - 1] + l] = Code[data[k]][l]}

ByteTypeInv ==
    /\ data \in Data
    /\ at \in 0..Len(data)
    /\ byteBits \in Seq(Bit)
    /\ result \in Seq(DOMAIN Code)
    /\ cntBits \in Int /\ byteOffs \in Nat
    /\ bytePc \in {"encode", "end", "decode", "done"}

BytesEncoded ==
    /\ bytePc = "encode" => Ends(at, Len(byteBits)) # {} /\ Len(byteBits) <= 15 * at
    /\ bytePc = "end" =>
        /\ HasMark(byteBits) /\ MarkAt(byteBits) \in 1..Len(byteBits)
        /\ Ends(Len(data), MarkAt(byteBits) - 1) # {}

BytesDecoded ==
    /\ bytePc \in {"encode", "end"} => byteOffs = 0 /\ result = << >>
    /\ bytePc \in {"decode", "done"} =>
        /\ cntBits \in 0..Len(byteBits)
        /\ \E e \in Ends(Len(data), cntBits) :
            /\ Len(result) <= Len(data)
            /\ byteOffs = e[Len(result)]
            /\ \A k \in 1..Len(result) : result[k] = data[k]

BytesAreBack == bytePc = "done" => result = data

ByteIInv == ByteTypeInv /\ BytesEncoded /\ BytesDecoded /\ BytesAreBack

(* The CHECKs hold: the buffer takes the codes with the mark, the last byte is not
   0, and a byte can be decoded wherever decode_8 tries to. *)
ByteCoderNeverStops ==
    /\ bytePc = "encode" /\ at = Len(data) => 2 * Len(data) * 8 >= WholeBytes(Len(byteBits))
    /\ bytePc = "end" => HasMark(byteBits)
    /\ bytePc = "decode" /\ byteOffs < cntBits =>
        \E b \in DOMAIN Code : StartsWith(SubSeq(byteBits, byteOffs + 1, Len(byteBits)), Code[b])
-----------------------------------------------------------------------------
LEMMA BytesHaveCodes ==
    ASSUME data \in Data
    PROVE  /\ Len(data) \in Nat \ {0} /\ data \in Seq(DOMAIN Code)
           /\ \A k \in 1..Len(data) :
                /\ data[k] \in DOMAIN Code
                /\ Code[data[k]] \in Seq(Bit)
                /\ Len(Code[data[k]]) \in 1..15
<1>1. data \in Seq(DOMAIN Code) /\ data # << >>
  BY ByteCoderAssumption
<1>2. Len(data) \in Nat \ {0} /\ \A k \in 1..Len(data) : data[k] \in DOMAIN Code
  BY <1>1, EmptySeq
<1>3. ASSUME NEW b \in DOMAIN Code PROVE Code[b] \in Seq(Bit) /\ Len(Code[b]) \in 1..15
  <2>1. Code[b] \in Seq(Bit) /\ Code[b] # << >> /\ Len(Code[b]) < 16
    BY ByteCoderAssumption DEF IsPrefixCode
  <2>2. Len(Code[b]) \in Nat /\ Len(Code[b]) # 0
    BY <2>1, EmptySeq
  <2>3. \A x \in Nat : x # 0 /\ x < 16 => x \in 1..15
    OBVIOUS
  <2> QED BY <2>1, <2>2, <2>3
<1> QED BY <1>1, <1>2, <1>3

LEMMA ByteInitOK == ByteInit => ByteIInv
<1> SUFFICES ASSUME ByteInit PROVE ByteIInv
  OBVIOUS
<1>1. ByteTypeInv
  <2>1. Len(data) \in Nat
    BY BytesHaveCodes DEF ByteInit
  <2>2. << >> \in Seq(Bit) /\ << >> \in Seq(DOMAIN Code)
    BY EmptySeq
  <2> QED BY <2>1, <2>2 DEF ByteInit, ByteTypeInv
<1>2. BytesEncoded
  <2> DEFINE e == [k \in 0..0 |-> 0]
  <2>1. at = 0 /\ Len(byteBits) = 0
    BY DEF ByteInit
  <2>2. e \in Ends(0, 0)
    BY DEF Ends
  <2> QED BY <2>1, <2>2 DEF BytesEncoded, ByteInit
<1> QED BY <1>1, <1>2 DEF ByteInit, ByteIInv, BytesDecoded, BytesAreBack

(* The next code is put behind those before. *)
LEMMA EncodeByteOK == ASSUME ByteIInv, EncodeByte PROVE ByteIInv'
<1> USE DEF ByteIInv
<1> DEFINE n == at
           m == Len(byteBits)
           c == Code[data[at + 1]]
<1>1. /\ UNCHANGED <<data, cntBits, byteOffs, result, bytePc>> /\ bytePc = "encode"
      /\ byteBits' = byteBits \o c /\ at' = n + 1 /\ n \in 0..Len(data) /\ n < Len(data)
  BY DEF EncodeByte, ByteTypeInv
<1>2. Len(data) \in Nat /\ n \in Nat /\ n + 1 \in 1..Len(data)
  BY <1>1, BytesHaveCodes DEF ByteTypeInv
<1>3. c \in Seq(Bit) /\ Len(c) \in 1..15 /\ m \in Nat /\ byteBits \in Seq(Bit)
  BY <1>2, BytesHaveCodes DEF ByteTypeInv
<1>4. /\ byteBits' \in Seq(Bit) /\ Len(byteBits') = m + Len(c)
      /\ \A k \in 1..m : byteBits'[k] = byteBits[k]
      /\ \A l \in 1..Len(c) : byteBits'[m + l] = c[l]
  <2>1. /\ byteBits' \in Seq(Bit) /\ Len(byteBits') = m + Len(c)
        /\ \A k \in 1..m + Len(c) : byteBits'[k] = IF k <= m THEN byteBits[k] ELSE c[k - m]
    BY <1>1, <1>3, ConcatProperties
  <2>2. \A l \in 1..Len(c) : /\ m + l \in 1..m + Len(c) /\ ~ (m + l <= m)
                             /\ (m + l) - m = l
    BY <1>3
  <2>3. \A k \in 1..m : k \in 1..m + Len(c) /\ k <= m
    BY <1>3
  <2> QED BY <2>1, <2>2, <2>3
<1>5. PICK e \in Ends(n, m) : TRUE
  BY <1>1 DEF BytesEncoded
<1> DEFINE f == [k \in 0..n + 1 |-> IF k = n + 1 THEN m + Len(c) ELSE e[k]]
<1>6. /\ e \in [0..n -> 0..m] /\ e[0] = 0 /\ e[n] = m
      /\ \A k \in 0..n - 1 : e[k] < m
      /\ \A k \in 1..n :
          /\ e[k] = e[k - 1] + Len(Code[data[k]])
          /\ \A l \in 1..Len(Code[data[k]]) : byteBits[e[k - 1] + l] = Code[data[k]][l]
  BY DEF Ends
<1> HIDE DEF c, n, m
<1>7. f \in [0..n + 1 -> 0..m + Len(c)]
  <2>1. \A k \in 0..n + 1 : k = n + 1 \/ k \in 0..n
    BY <1>2
  <2>2. \A k \in 0..n : e[k] \in 0..m + Len(c)
    BY <1>3, <1>6
  <2>3. m + Len(c) \in 0..m + Len(c)
    BY <1>3
  <2> QED BY <2>1, <2>2, <2>3
<1>8. /\ f[0] = 0 /\ f[n + 1] = m + Len(c)
      /\ \A k \in 0..n : f[k] = e[k] /\ e[k] \in 0..m
  <2>1. 0 \in 0..n + 1 /\ n + 1 \in 0..n + 1 /\ 0 # n + 1
    BY <1>2
  <2>2. \A k \in 0..n : k \in 0..n + 1 /\ k # n + 1
    BY <1>2
  <2> QED BY <1>6, <2>1, <2>2
<1> HIDE DEF f
<1>9. \A k \in 0..(n + 1) - 1 : f[k] < m + Len(c)
  <2>1. \A k \in 0..(n + 1) - 1 : k \in 0..n
    BY <1>2
  <2>2. \A k \in 0..n : f[k] \in 0..m
    BY <1>8
  <2>3. \A x \in 0..m : x < m + Len(c)
    <3>1. \A a \in Nat, b \in 1..15 : \A x \in 0..a : x < a + b
      OBVIOUS
    <3> QED BY <1>3, <3>1
  <2> QED BY <2>1, <2>2, <2>3
<1>10. ASSUME NEW k \in 1..n + 1
       PROVE  /\ f[k] = f[k - 1] + Len(Code[data[k]])
              /\ \A l \in 1..Len(Code[data[k]]) : byteBits'[f[k - 1] + l] = Code[data[k]][l]
  <2>1. CASE k = n + 1
    <3>1. k - 1 = n /\ n \in 0..n
      BY <1>2, <2>1
    <3>2. Code[data[k]] = c
      BY <2>1 DEF c, n
    <3>3. f[k - 1] = m /\ f[k] = m + Len(c)
      BY <1>6, <1>8, <2>1, <3>1
    <3> QED BY <1>4, <3>2, <3>3
  <2>2. CASE k # n + 1
    <3>1. k \in 1..n /\ k \in 0..n /\ k - 1 \in 0..n /\ k \in 1..Len(data)
      BY <1>2, <2>2
    <3>2. f[k] = e[k] /\ f[k - 1] = e[k - 1] /\ e[k] \in 0..m /\ e[k - 1] \in 0..m
      BY <1>8, <3>1
    <3>3. Len(Code[data[k]]) \in Nat
      BY <3>1, BytesHaveCodes DEF ByteTypeInv
    <3>4. \A l \in 1..Len(Code[data[k]]) : e[k - 1] + l \in 1..m
      BY SMTT(30), <1>3, <1>6, <3>1, <3>2, <3>3
    <3> QED BY ZenonT(40), <1>4, <1>6, <3>1, <3>2, <3>4
  <2> QED BY <2>1, <2>2
<1>11. f \in Ends(at, Len(byteBits))'
  <2>1. at' = n + 1 /\ Len(byteBits') = m + Len(c) /\ data' = data
    BY <1>1, <1>4
  <2> QED BY <1>7, <1>8, <1>9, <1>10, <2>1 DEF Ends
<1>12. BytesEncoded'
  <2>1. Ends(at, Len(byteBits))' # {}
    BY <1>11
  <2>2. Len(byteBits') <= 15 * at'
    <3>1. m <= 15 * n
      BY <1>1 DEF BytesEncoded, m, n
    <3>2. \A x, y \in Nat : \A z \in 1..15 : x <= 15 * y => x + z <= 15 * (y + 1)
      OBVIOUS
    <3>3. m + Len(c) <= 15 * (n + 1)
      BY <1>2, <1>3, <3>1, <3>2
    <3>4. at' = n + 1 /\ Len(byteBits') = m + Len(c)
      BY <1>1, <1>4
    <3> QED BY <3>3, <3>4
  <2>3. bytePc' = "encode"
    BY <1>1
  <2> QED BY <2>1, <2>2, <2>3 DEF BytesEncoded
<1>13. ByteTypeInv' /\ BytesDecoded' /\ BytesAreBack'
  BY <1>1, <1>2, <1>4 DEF ByteTypeInv, BytesDecoded, BytesAreBack
<1> QED BY <1>12, <1>13

(* The codes stay where they are when only bits behind them change. *)
LEMMA EndsKept ==
    ASSUME ByteIInv, NEW n \in 0..Len(data), NEW m \in Nat, Ends(n, m) # {},
           data' = data, \A k \in 1..m : byteBits'[k] = byteBits[k]
    PROVE  Ends(n, m)' # {}
<1>1. PICK e \in Ends(n, m) : TRUE
  OBVIOUS
<1>2. /\ e \in [0..n -> 0..m] /\ e[0] = 0 /\ e[n] = m
      /\ \A k \in 0..n - 1 : e[k] < m
      /\ \A k \in 1..n :
          /\ e[k] = e[k - 1] + Len(Code[data[k]])
          /\ \A l \in 1..Len(Code[data[k]]) : byteBits[e[k - 1] + l] = Code[data[k]][l]
  BY DEF Ends
<1>3. n \in Nat /\ \A k \in 1..n : k \in 1..Len(data) /\ k \in 0..n /\ k - 1 \in 0..n
  BY BytesHaveCodes DEF ByteIInv, ByteTypeInv
<1>4. ASSUME NEW k \in 1..n, NEW l \in 1..Len(Code[data[k]])
      PROVE  e[k - 1] + l \in 1..m
  <2>1. Len(Code[data[k]]) \in Nat
    BY <1>3, BytesHaveCodes DEF ByteIInv, ByteTypeInv
  <2>2. e[k - 1] \in 0..m /\ e[k] \in 0..m /\ e[k] = e[k - 1] + Len(Code[data[k]])
    BY <1>2, <1>3
  <2>3. \A x, z \in Nat : x + z \in 0..m => \A y \in 1..z : x + y \in 1..m
    OBVIOUS
  <2> QED BY SMTT(30), <2>1, <2>2, <2>3
<1>5. \A k \in 1..n : \A l \in 1..Len(Code[data[k]]) :
        byteBits'[e[k - 1] + l] = Code[data[k]][l]
  BY <1>2, <1>4
<1>6. e \in Ends(n, m)'
  BY <1>2, <1>5 DEF Ends
<1> QED BY <1>6

(* The mark is put behind the codes. *)
LEMMA EndEncodeOK == ASSUME ByteIInv, EndEncode PROVE ByteIInv'
<1> USE DEF ByteIInv
<1>1. /\ UNCHANGED <<data, at, cntBits, byteOffs, result>> /\ bytePc = "encode" /\ bytePc' = "end"
      /\ byteBits' = Marked(byteBits) /\ at = Len(data)
  BY DEF EndEncode
<1>2. PICK n \in 0..Len(data), m \in Nat : n = Len(data) /\ m = Len(byteBits)
  BY BytesHaveCodes DEF ByteTypeInv
<1>3. /\ byteBits' \in Seq(Bit) /\ Len(byteBits') \in Nat /\ m + 1 <= Len(byteBits')
      /\ \A k \in 1..m : byteBits'[k] = byteBits[k]
      /\ HasMark(byteBits') /\ MarkAt(byteBits') = m + 1
  <2>1. byteBits \in Seq(Bit)
    BY DEF ByteTypeInv
  <2>2. \A k \in 1..m : k \in 1..Len(Marked(byteBits)) /\ k <= m
    BY <1>2, <2>1, MarkedFacts
  <2> QED BY <1>1, <1>2, <2>1, <2>2, MarkedFacts, MarkFound
<1>4. Ends(n, m)' # {}
  <2>1. Ends(n, m) # {}
    BY <1>1, <1>2 DEF BytesEncoded
  <2> QED BY <1>1, <1>3, <2>1, EndsKept
<1>5. BytesEncoded'
  <2>1. MarkAt(byteBits') - 1 = m /\ MarkAt(byteBits') \in 1..Len(byteBits') /\ Len(data') = n
    BY <1>1, <1>2, <1>3
  <2> QED BY <1>1, <1>3, <1>4, <2>1 DEF BytesEncoded
<1>6. ByteTypeInv' /\ BytesDecoded' /\ BytesAreBack'
  BY <1>1, <1>3 DEF ByteTypeInv, BytesDecoded, BytesAreBack
<1> QED BY <1>5, <1>6

LEMMA FindEndOK == ASSUME ByteIInv, FindEnd PROVE ByteIInv'
<1> USE DEF ByteIInv
<1>1. /\ UNCHANGED <<data, at, byteBits, byteOffs, result>> /\ bytePc = "end" /\ bytePc' = "decode"
      /\ cntBits' = MarkAt(byteBits) - 1
  BY DEF FindEnd
<1>2. PICK n \in 0..Len(data), m \in Nat :
        n = Len(data) /\ m = MarkAt(byteBits) - 1 /\ m <= Len(byteBits) /\ Ends(n, m) # {}
  <2>1. Len(data) \in Nat /\ MarkAt(byteBits) \in 1..Len(byteBits)
    BY <1>1, BytesHaveCodes DEF ByteTypeInv, BytesEncoded
  <2> QED BY <1>1, <2>1 DEF BytesEncoded
<1>3. Ends(n, m)' # {}
  BY <1>1, <1>2, EndsKept
<1>4. BytesDecoded'
  <2>1. PICK e : e \in Ends(n, m)'
    BY <1>3
  <2>2. e[0] = 0
    BY <2>1 DEF Ends
  <2>3. Len(result') = 0 /\ byteOffs' = 0
    BY <1>1 DEF BytesDecoded
  <2>4. cntBits' = m /\ Len(data') = n /\ cntBits' \in 0..Len(byteBits') /\ n \in Nat
    BY <1>1, <1>2 DEF ByteTypeInv
  <2>5. e \in Ends(Len(data), cntBits)'
    BY <2>1, <2>4
  <2>6. /\ Len(result') <= Len(data') /\ byteOffs' = e[Len(result')]
        /\ \A k \in 1..Len(result') : result'[k] = data'[k]
    BY <2>2, <2>3, <2>4
  <2>7. bytePc' = "decode"
    BY <1>1
  <2> QED BY <2>4, <2>5, <2>6, <2>7 DEF BytesDecoded
<1>5. ByteTypeInv'
  BY <1>1, <1>2 DEF ByteTypeInv
<1>6. BytesEncoded' /\ BytesAreBack'
  BY <1>1 DEF BytesEncoded, BytesAreBack
<1> QED BY <1>4, <1>5, <1>6

(* Where decode_8 stands: before the last code's end there is a next code. *)
LEMMA NextByteCode ==
    ASSUME ByteIInv, bytePc \in {"decode", "done"},
           NEW e \in Ends(Len(data), cntBits), byteOffs = e[Len(result)],
           Len(result) <= Len(data)
    PROVE  /\ Len(result) \in Nat /\ byteOffs \in 0..cntBits /\ cntBits \in 0..Len(byteBits)
           /\ Len(byteBits) \in Nat
           /\ byteOffs < cntBits <=> Len(result) < Len(data)
           /\ byteOffs < cntBits =>
                LET c == Code[data[Len(result) + 1]]
                IN  /\ Len(result) + 1 \in 1..Len(data)
                    /\ data[Len(result) + 1] \in DOMAIN Code
                    /\ byteOffs + Len(c) = e[Len(result) + 1]
                    /\ byteOffs + Len(c) <= cntBits
                    /\ \A l \in 1..Len(c) : byteBits[byteOffs + l] = c[l]
<1> USE DEF ByteIInv
<1> DEFINE N == Len(data)
           r == Len(result)
           c == Code[data[r + 1]]
<1>1. N \in Nat /\ r \in Nat /\ r \in 0..N /\ Len(byteBits) \in Nat /\ cntBits \in 0..Len(byteBits)
  BY BytesHaveCodes DEF ByteTypeInv, BytesDecoded
<1>2. /\ e \in [0..N -> 0..cntBits] /\ e[N] = cntBits
      /\ \A k \in 0..N - 1 : e[k] < cntBits
      /\ \A k \in 1..N :
          /\ e[k] = e[k - 1] + Len(Code[data[k]])
          /\ \A l \in 1..Len(Code[data[k]]) : byteBits[e[k - 1] + l] = Code[data[k]][l]
  BY DEF Ends
<1> HIDE DEF N, r, c
<1>3. byteOffs \in 0..cntBits /\ byteOffs = e[r]
  BY <1>1, <1>2 DEF r
<1>4. byteOffs < cntBits <=> r < N
  <2>1. CASE r = N
    BY <1>1, <1>2, <1>3, <2>1
  <2>2. CASE r # N
    <3>1. r \in 0..N - 1 /\ r < N
      BY <1>1, <2>2
    <3> QED BY <1>2, <1>3, <3>1
  <2> QED BY <2>1, <2>2
<1>5. ASSUME byteOffs < cntBits
      PROVE  /\ r + 1 \in 1..N /\ data[r + 1] \in DOMAIN Code
             /\ byteOffs + Len(c) = e[r + 1] /\ byteOffs + Len(c) <= cntBits
             /\ \A l \in 1..Len(c) : byteBits[byteOffs + l] = c[l]
  <2>1. r + 1 \in 1..N /\ r + 1 \in 0..N /\ (r + 1) - 1 = r
    BY <1>1, <1>4, <1>5
  <2>2. data[r + 1] \in DOMAIN Code
    BY <2>1, BytesHaveCodes DEF ByteTypeInv, N
  <2>3. e[r + 1] \in 0..cntBits
    BY <1>2, <2>1
  <2>4. /\ e[r + 1] = e[r] + Len(c)
        /\ \A l \in 1..Len(c) : byteBits[e[r] + l] = c[l]
    BY <1>2, <2>1 DEF c
  <2> QED BY <1>1, <1>3, <2>1, <2>2, <2>3, <2>4
<1> QED BY <1>1, <1>3, <1>4, <1>5 DEF N, r, c

(* The symbol that decode_symbol finds is the next byte. *)
LEMMA NextByte ==
    ASSUME ByteIInv, bytePc = "decode", byteOffs < cntBits, NEW b \in DOMAIN Code,
           StartsWith(SubSeq(byteBits, byteOffs + 1, Len(byteBits)), Code[b])
    PROVE  Len(result) < Len(data) /\ b = data[Len(result) + 1]
<1>1. PICK e \in Ends(Len(data), cntBits) :
        Len(result) <= Len(data) /\ byteOffs = e[Len(result)]
  BY DEF ByteIInv, BytesDecoded
<1> DEFINE next == data[Len(result) + 1]
<1>2. /\ byteOffs \in 0..Len(byteBits) /\ byteBits \in Seq(Bit) /\ byteOffs \in Nat
      /\ Len(result) < Len(data) /\ next \in DOMAIN Code
      /\ byteOffs + Len(Code[next]) <= cntBits /\ cntBits \in 0..Len(byteBits)
      /\ \A l \in 1..Len(Code[next]) : byteBits[byteOffs + l] = Code[next][l]
  <2>1. byteOffs \in 0..cntBits /\ cntBits \in 0..Len(byteBits) /\ Len(byteBits) \in Nat
    BY <1>1, NextByteCode
  <2> QED BY <1>1, <2>1, NextByteCode DEF ByteIInv, ByteTypeInv
<1>3. IsPrefixCode(Code) /\ Code[next] \in Seq(Bit) /\ Len(Code[next]) \in Nat
  BY <1>2, ByteCoderAssumption DEF IsPrefixCode
<1> HIDE DEF next
<1>4. StartsWith(SubSeq(byteBits, byteOffs + 1, Len(byteBits)), Code[next])
  <2>1. byteOffs + Len(Code[next]) <= Len(byteBits)
    BY <1>2, <1>3
  <2> QED BY <1>2, <1>3, <2>1, PrefixAt
<1>5. SubSeq(byteBits, byteOffs + 1, Len(byteBits)) \in Seq(Bit)
  BY <1>2
<1>6. b = next
  BY <1>2, <1>3, <1>4, <1>5, OneSymbol
<1> QED BY <1>2, <1>6 DEF next

LEMMA DecodeByteOK ==
    ASSUME ByteIInv, DecodeByte
    PROVE  /\ ByteIInv' /\ Len(result) < Len(data)
           /\ result' = Append(result, data[Len(result) + 1]) /\ data' = data
<1> USE DEF ByteIInv
<1>1. /\ UNCHANGED <<data, at, byteBits, cntBits, bytePc>> /\ bytePc = "decode" /\ byteOffs < cntBits
  BY DEF DecodeByte
<1>2. PICK b \in DOMAIN Code :
        /\ StartsWith(SubSeq(byteBits, byteOffs + 1, Len(byteBits)), Code[b])
        /\ result' = Append(result, b)
        /\ byteOffs' = byteOffs + Len(Code[b])
  BY DEF DecodeByte
<1>3. Len(result) < Len(data) /\ b = data[Len(result) + 1]
  BY <1>1, <1>2, NextByte
<1>4. PICK e \in Ends(Len(data), cntBits) :
        /\ Len(result) <= Len(data) /\ byteOffs = e[Len(result)]
        /\ \A k \in 1..Len(result) : result[k] = data[k]
  BY <1>1 DEF BytesDecoded
<1>5. /\ Len(result) \in Nat /\ Len(result) + 1 \in 1..Len(data)
      /\ byteOffs' = e[Len(result) + 1] /\ byteOffs' <= cntBits
      /\ cntBits \in 0..Len(byteBits) /\ byteOffs \in Nat
  BY <1>1, <1>2, <1>3, <1>4, NextByteCode DEF ByteTypeInv
<1>6. /\ result' \in Seq(DOMAIN Code) /\ Len(result') = Len(result) + 1
      /\ \A k \in 1..Len(result) : result'[k] = result[k]
      /\ result'[Len(result) + 1] = b
  BY <1>2, PushFacts DEF ByteTypeInv
<1>7. \A k \in 1..Len(result') : result'[k] = data[k]
  <2>1. \A k \in 1..Len(result) + 1 : k \in 1..Len(result) \/ k = Len(result) + 1
    BY <1>5
  <2> QED BY <1>3, <1>4, <1>6, <2>1
<1>8. e \in Ends(Len(data), cntBits)'
  BY <1>1 DEF Ends
<1>9. BytesDecoded'
  <2>1. Len(result') <= Len(data') /\ byteOffs' = e[Len(result')]
        /\ \A k \in 1..Len(result') : result'[k] = data'[k]
    BY <1>1, <1>5, <1>6, <1>7
  <2>2. bytePc' = "decode" /\ cntBits' \in 0..Len(byteBits')
    BY <1>1, <1>5
  <2> QED BY <1>8, <2>1, <2>2 DEF BytesDecoded
<1>10. ByteTypeInv'
  <2>1. byteOffs' \in Nat
    <3>1. Len(Code[b]) \in Nat
      BY ByteCoderAssumption DEF IsPrefixCode
    <3> QED BY <1>2, <1>5, <3>1
  <2> QED BY <1>1, <1>6, <2>1 DEF ByteTypeInv
<1>11. BytesEncoded' /\ BytesAreBack'
  BY <1>1 DEF BytesEncoded, BytesAreBack
<1> QED BY <1>1, <1>2, <1>3, <1>9, <1>10, <1>11

LEMMA EndDecodeOK == ASSUME ByteIInv, EndDecode PROVE ByteIInv'
<1> USE DEF ByteIInv
<1>1. /\ UNCHANGED <<data, at, byteBits, cntBits, byteOffs, result>> /\ bytePc = "decode" /\ bytePc' = "done"
      /\ byteOffs >= cntBits
  BY DEF EndDecode
<1>2. PICK e \in Ends(Len(data), cntBits) :
        /\ Len(result) <= Len(data) /\ byteOffs = e[Len(result)]
        /\ \A k \in 1..Len(result) : result[k] = data[k]
  BY <1>1 DEF BytesDecoded
<1>3. Len(result) = Len(data)
  <2>1. /\ Len(result) \in Nat /\ byteOffs \in 0..cntBits /\ cntBits \in Nat
        /\ byteOffs < cntBits <=> Len(result) < Len(data)
    BY <1>1, <1>2, NextByteCode
  <2>2. Len(data) \in Nat
    BY BytesHaveCodes DEF ByteTypeInv
  <2> QED BY <1>1, <1>2, <2>1, <2>2
<1>4. result = data
  <2>1. data \in Seq(DOMAIN Code) /\ result \in Seq(DOMAIN Code)
    BY BytesHaveCodes DEF ByteTypeInv
  <2> QED BY <1>2, <1>3, <2>1, SeqEqual
<1>5. BytesDecoded'
  <2>1. e \in Ends(Len(data), cntBits)'
    BY <1>1 DEF Ends
  <2>2. cntBits' \in 0..Len(byteBits') /\ bytePc' = "done"
    BY <1>1 DEF BytesDecoded
  <2>3. Len(result') <= Len(data') /\ byteOffs' = e[Len(result')]
        /\ \A k \in 1..Len(result') : result'[k] = data'[k]
    BY <1>1, <1>2
  <2> QED BY <2>1, <2>2, <2>3 DEF BytesDecoded
<1>6. ByteTypeInv' /\ BytesEncoded' /\ BytesAreBack'
  BY <1>1, <1>4 DEF ByteTypeInv, BytesEncoded, BytesAreBack
<1> QED BY <1>5, <1>6

LEMMA ByteStutterOK == ASSUME ByteIInv, UNCHANGED byteVars PROVE ByteIInv'
<1>1. UNCHANGED <<data, at, byteBits, cntBits, byteOffs, result, bytePc>>
  BY DEF byteVars
<1>2. Ends(Len(data), cntBits)' = Ends(Len(data), cntBits)
      /\ Ends(at, Len(byteBits))' = Ends(at, Len(byteBits))
      /\ Ends(Len(data), MarkAt(byteBits) - 1)' = Ends(Len(data), MarkAt(byteBits) - 1)
  BY <1>1 DEF Ends
<1> QED BY <1>1, <1>2 DEF ByteIInv, ByteTypeInv, BytesEncoded, BytesDecoded, BytesAreBack

LEMMA ByteInductive == ByteSpec => []ByteIInv
<1>1. ByteIInv /\ [ByteNext]_byteVars => ByteIInv'
  <2> SUFFICES ASSUME ByteIInv, [ByteNext]_byteVars PROVE ByteIInv'
    OBVIOUS
  <2>1. CASE ByteNext
    BY <2>1, EncodeByteOK, EndEncodeOK, FindEndOK, DecodeByteOK, EndDecodeOK, ByteStutterOK
       DEF ByteNext, ByteDone
  <2>2. CASE UNCHANGED byteVars
    BY <2>2, ByteStutterOK
  <2> QED BY <2>1, <2>2
<1> QED BY <1>1, ByteInitOK, PTL DEF ByteSpec
-----------------------------------------------------------------------------
(* decode_8 puts out the bytes of encode_8 one after the other: it never takes a
   byte for another, and never one more than there are. *)
THEOREM BytesArriveInOrder == ByteSpec => Channel!Init /\ [][Channel!Receive]_(Channel!vars)
<1>1. ByteInit => Channel!Init
  BY DEF ByteInit, Channel!Init
<1>2. ByteIInv /\ [ByteNext]_byteVars => [Channel!Receive]_(Channel!vars)
  <2> SUFFICES ASSUME ByteIInv, [ByteNext]_byteVars
               PROVE  Channel!Receive \/ UNCHANGED <<data, result>>
    BY DEF Channel!vars
  <2>1. CASE DecodeByte
    BY <2>1, DecodeByteOK DEF Channel!Receive
  <2>2. CASE EncodeByte \/ EndEncode \/ FindEnd \/ EndDecode \/ ByteDone \/ UNCHANGED byteVars
    BY <2>2 DEF EncodeByte, EndEncode, FindEnd, EndDecode, ByteDone, byteVars
  <2> QED BY <2>1, <2>2 DEF ByteNext
<1> QED BY <1>1, <1>2, ByteInductive, PTL DEF ByteSpec

(* When decode_8 returns, it returns what encode_8 was given. *)
THEOREM BytesComeBack == ByteSpec => []BytesAreBack
<1>1. ByteIInv => BytesAreBack
  BY DEF ByteIInv
<1> QED BY <1>1, ByteInductive, PTL

(* No CHECK of encode_8 and decode_8 fails, the one on the buffer of two bytes per
   byte included, and decode_8 always finds a symbol. *)
THEOREM ByteCoderChecksHold == ByteSpec => []ByteCoderNeverStops
<1>1. ByteIInv => ByteCoderNeverStops
  <2> SUFFICES ASSUME ByteIInv PROVE ByteCoderNeverStops
    OBVIOUS
  <2>1. ASSUME bytePc = "encode", at = Len(data) PROVE 2 * Len(data) * 8 >= WholeBytes(Len(byteBits))
    <3>1. Len(byteBits) \in Nat /\ Len(data) \in Nat \ {0} /\ Len(byteBits) <= 15 * Len(data)
      BY <2>1, BytesHaveCodes DEF ByteIInv, ByteTypeInv, BytesEncoded
    <3>2. \A b \in Nat, n \in Nat \ {0} : b <= 15 * n => 8 * ((b + 8) \div 8) <= 2 * n * 8
      OBVIOUS
    <3> QED BY <3>1, <3>2 DEF WholeBytes
  <2>2. bytePc = "end" => HasMark(byteBits)
    BY DEF ByteIInv, BytesEncoded
  <2>3. ASSUME bytePc = "decode", byteOffs < cntBits
        PROVE  \E b \in DOMAIN Code : StartsWith(SubSeq(byteBits, byteOffs + 1, Len(byteBits)), Code[b])
    <3>1. PICK e \in Ends(Len(data), cntBits) :
            Len(result) <= Len(data) /\ byteOffs = e[Len(result)]
      BY <2>3 DEF ByteIInv, BytesDecoded
    <3> DEFINE next == data[Len(result) + 1]
    <3>2. /\ byteOffs \in 0..Len(byteBits) /\ byteBits \in Seq(Bit) /\ next \in DOMAIN Code
          /\ Code[next] \in Seq(Bit) /\ byteOffs + Len(Code[next]) <= Len(byteBits)
          /\ \A l \in 1..Len(Code[next]) : byteBits[byteOffs + l] = Code[next][l]
      <4>1. /\ byteOffs \in 0..cntBits /\ cntBits \in 0..Len(byteBits) /\ Len(byteBits) \in Nat
            /\ next \in DOMAIN Code /\ byteOffs + Len(Code[next]) <= cntBits
            /\ \A l \in 1..Len(Code[next]) : byteBits[byteOffs + l] = Code[next][l]
        BY <2>3, <3>1, NextByteCode
      <4>2. Code[next] \in Seq(Bit) /\ Len(Code[next]) \in Nat
        BY <4>1, ByteCoderAssumption DEF IsPrefixCode
      <4> QED BY SMTT(30), <4>1, <4>2 DEF ByteIInv, ByteTypeInv
    <3> HIDE DEF next
    <3>3. StartsWith(SubSeq(byteBits, byteOffs + 1, Len(byteBits)), Code[next])
      BY <3>2, PrefixAt
    <3> QED BY <3>2, <3>3
  <2> QED BY <2>1, <2>2, <2>3 DEF ByteCoderNeverStops
<1> QED BY <1>1, ByteInductive, PTL
=============================================================================
