----------------------------- MODULE CodecProofs -----------------------------
(***************************************************************************)
(* Proofs about Codec, for every set of blocks and all prefix codes.       *)
(*                                                                         *)
(* The fields lie one behind the other in the bit string (Placing), and    *)
(* the tokens cover it (TokenEnds).  The decoder has read the fields up to *)
(* some place, knows where each of them is, and the field that it predicts *)
(* is the one the next bit belongs to.                                     *)
(***************************************************************************)
EXTENDS Codec, DataFacts

Width(f) == Len(FieldBits(block, f))

(* Places of the fields F of the block that fill the bit string. *)
Placing(F) ==
    {st \in [F -> 0..Len(bits)] :
        /\ \A f \in F :
            /\ st[f] + Width(f) <= Len(bits)
            /\ \A l \in 1..Width(f) :
                /\ bits[st[f] + l] = FieldBits(block, f)[l]
                /\ meta[st[f] + l] = f
        /\ \A f, g \in F : Before(f, g) => st[f] + Width(f) <= st[g]
        /\ \A k \in 1..Len(bits) :
            /\ meta[k] \in F
            /\ st[meta[k]] < k /\ k <= st[meta[k]] + Width(meta[k])}

Pushed == {f \in Fields(BlockSize) : toPush = NoMeta \/ Before(f, toPush)}

(* A token and the bits it stands for, in a text b whose bits belong to the
   fields m of n cells. *)
MatchOf(m, n, place, source, l) ==
    [len        |-> l,
     cellOffset |-> (n + m[place + 1][2] - m[source + 1][2]) % n,
     within     |-> Cardinality({k \in 1..source : m[k][2] = m[source + 1][2]})]

TokenCovers(b, m, n, token, from, to) ==
    LET place == from + Len(token.literal)
    IN  /\ place <= Len(b)
        /\ \A k \in 1..Len(token.literal) : token.literal[k] = b[from + k]
        /\ IF token.match = NoMatch
           THEN to = place /\ to = Len(b)
           ELSE \E source \in 0..place - 1, l \in 1..Len(b) - place :
                    /\ token.match = MatchOf(m, n, place, source, l)
                    /\ \A k \in 1..l : b[source + k] = b[place + k]
                    /\ to = place + l

(* Where the tokens end in the bit string they denote. *)
TokenEnds ==
    {e \in [0..Len(tokens) -> 0..Len(bits)] :
        /\ e[0] = 0
        /\ \A t \in 1..Len(tokens) :
            TokenCovers(bits, meta, nCells, tokens[t], e[t - 1], e[t])}

Token == [literal : Seq(Bit), match : [len : Nat, cellOffset : Int, within : Nat]]

EncType ==
    /\ block \in Blocks
    /\ bits \in Seq(Bit)
    /\ meta \in Seq(Fields(BlockSize)) /\ Len(meta) = Len(bits)
    /\ toPush \in Fields(BlockSize) \cup {NoMeta}
    /\ i \in 0..Len(bits) /\ literalStart \in 0..i
    /\ tokens \in Seq(Token)
    /\ epc \in {"push", "parse", "done"}

EncInv ==
    /\ EncType
    /\ Placing(Pushed) # {}
    /\ epc = "push" => i = 0 /\ tokens = << >>
    /\ epc # "push" => toPush = NoMeta /\ nCells = BlockSize
    /\ \E e \in TokenEnds :
        e[Len(tokens)] = IF epc = "done" THEN Len(bits) ELSE literalStart

(* What deserialise has read; fields without bits are passed over. *)
IsRead(f) == lastMeta # NoMeta /\ ~ Before(lastMeta, f)

NotedPlace(f) == cellMetas[f[2]][f[1]]

FieldIsRead(st, f) ==
    /\ st[f] + Width(f) <= offs
    /\ NotedPlace(f).cnt = Width(f)
    /\ Width(f) > 0 => NotedPlace(f).start = st[f]

(* Of the fields to come only the beginning of the next one may be noted. *)
FieldIsUnread(st, f) ==
    /\ Width(f) > 0 => offs <= st[f]
    /\ NotedPlace(f).cnt <= Unread
    /\ offs >= Len(bits) \/ f # meta[offs + 1] => NotedPlace(f).cnt = 0

CellIsRead(c) ==
    /\ cells[c].cntRefs = IF IsRead(<<d1, c>>) THEN Len(block[c].refs) ELSE Unset
    /\ IsRead(<<d1, c>>) => cells[c].special = block[c].special
    /\ cells[c].cntBits = IF IsRead(<<data_size, c>>) THEN Len(block[c].data) ELSE Unset
    /\ cells[c].refs = IF IsRead(<<refs, c>>) THEN block[c].refs ELSE << >>
    /\ cells[c].data = IF IsRead(<<data, c>>) THEN block[c].data ELSE << >>

ReadSoFar(st) ==
    /\ \A f \in Fields(BlockSize) : IF IsRead(f) THEN FieldIsRead(st, f) ELSE FieldIsUnread(st, f)
    /\ \A c \in 0..BlockSize - 1 : CellIsRead(c)

(* Outside the read loop the bits that are left over are a part of a field, and
   noted as its beginning. *)
BeginningNoted(st) ==
    dpc \in {"literal", "match", "done"} /\ Unread > 0 =>
        LET f == meta[offs + 1]
        IN  /\ Len(outBits) < st[f] + Width(f)
            /\ NotedPlace(f) = [start |-> offs, cnt |-> Unread]

(* How far the tokens before the next one have brought the output. *)
TokensFollowed(e) ==
    /\ e[Len(tokens)] = Len(bits)
    /\ dpc = "literal" => nextToken <= Len(tokens) /\ Len(outBits) = e[nextToken - 1]
    /\ dpc \in {"advanceLiteral", "match"} =>
        /\ nextToken <= Len(tokens)
        /\ Len(outBits) = e[nextToken - 1] + Len(tokens[nextToken].literal)
        /\ dpc = "match" => tokens[nextToken].match # NoMatch
    /\ dpc = "copy" =>
        /\ copyLeft \in Nat /\ Len(outBits) + copyLeft = e[nextToken - 1]
        /\ copyFrom \in 0..Len(outBits) - 1
        /\ \A k \in 1..copyLeft : bits[copyFrom + k] = bits[Len(outBits) + k]
    /\ dpc = "advanceCopy" => Len(outBits) = e[nextToken - 1]
    /\ dpc = "done" => Len(outBits) = Len(bits)

CellParts == {"cntRefs", "special", "cntBits", "refs", "data"}

DecType ==
    /\ outBits \in Seq(Bit) /\ Len(outBits) <= Len(bits)
    /\ \A k \in 1..Len(outBits) : outBits[k] = bits[k]
    /\ offs \in 0..Len(outBits)
    /\ DOMAIN cells = 0..BlockSize - 1
    /\ \A c \in 0..BlockSize - 1 : DOMAIN cells[c] = CellParts
    /\ cellMetas \in [0..BlockSize - 1 -> [d1..data -> [start : Int, cnt : Nat]]]
    /\ lastMeta \in Fields(BlockSize) \cup {NoMeta}
    /\ nextToken \in 1..Len(tokens) + 1
    /\ dpc \in {"literal", "advanceLiteral", "match", "copy", "advanceCopy", "done"}

DecInv ==
    /\ dpc = "start" => DecInit
    /\ epc # "done" => dpc = "start"
    /\ dpc # "start" =>
        /\ DecType
        /\ \E st \in Placing(Fields(BlockSize)) : ReadSoFar(st) /\ BeginningNoted(st)
        /\ \E e \in TokenEnds : TokensFollowed(e)

IInv == EncInv /\ DecInv
-----------------------------------------------------------------------------
(* Quotients and remainders by a variable number. *)
LEMMA QuotientBounds ==
    ASSUME NEW w \in Nat \ {0}, NEW x \in Nat, NEW l \in 0..4, x < l * w
    PROVE  x \div w \in 0..l - 1
<1> DEFINE q == x \div w
           r == x % w
<1>1. q \in Int /\ r \in Int /\ 0 <= r /\ r < w /\ x = w * q + r
  OBVIOUS
<1> HIDE DEF q, r
<1>2. q < l
  <2>1. SUFFICES ASSUME q >= l PROVE FALSE
    BY <1>1
  <2>2. l * w <= w * q
    BY <1>1, <2>1
  <2> QED BY <1>1, <2>2
<1>3. q >= 0
  <2>1. SUFFICES ASSUME q <= -1 PROVE FALSE
    BY <1>1
  <2>2. w * q <= w * (-1)
    BY <1>1, <2>1
  <2>3. w * (-1) = -w
    OBVIOUS
  <2> QED BY <1>1, <2>2, <2>3
<1> QED BY <1>1, <1>2, <1>3 DEF q

LEMMA Remainders ==
    ASSUME NEW n \in Nat \ {0}, NEW x \in 0..n - 1
    PROVE  (n + x) % n = x /\ x % n = x
  OBVIOUS

(* A cell that is sent as its distance back is found again. *)
LEMMA DistanceBack ==
    ASSUME NEW n \in Nat \ {0}, NEW a \in 0..n - 1, NEW b \in 0..n - 1
    PROVE  (n + a - ((n + a - b) % n)) % n = b
<1>1. CASE b <= a
  <2>1. a - b \in 0..n - 1 /\ n + a - b = n + (a - b) /\ n + a - (a - b) = n + b
    BY <1>1
  <2>2. (n + (a - b)) % n = a - b
    BY <2>1, Remainders
  <2>3. (n + b) % n = b
    BY Remainders
  <2> QED BY <2>1, <2>2, <2>3
<1>2. CASE a < b
  <2>1. n + a - b \in 0..n - 1 /\ n + a - (n + a - b) = b
    BY <1>2
  <2>2. (n + a - b) % n = n + a - b
    BY <2>1, Remainders
  <2>3. b % n = b
    BY Remainders
  <2> QED BY <2>1, <2>2, <2>3
<1> QED BY <1>1, <1>2

LEMMA ForwardDistance ==
    ASSUME NEW n \in Nat \ {0}, NEW a \in 0..n - 1, NEW b \in 0..a - 1
    PROVE  (n + a - b) % n > 0 /\ (n + a - b) % n \in Int
<1>1. a - b \in 0..n - 1 /\ n + a - b = n + (a - b) /\ a - b > 0
  OBVIOUS
<1> QED BY <1>1, Remainders

-----------------------------------------------------------------------------
LEMMA BlockFacts ==
    ASSUME NEW b \in Blocks, NEW n, n = Cardinality(DOMAIN b)
    PROVE  /\ n \in Nat \ {0} /\ DOMAIN b = 0..n - 1
           /\ RefWidth(n) \in 1..64 /\ n - 1 < Pow2[RefWidth(n)]
           /\ \A c \in 0..n - 1 :
                /\ b[c].refs \in Seq(0..c - 1) /\ Len(b[c].refs) \in 0..4
                /\ b[c].special \in {0, 1}
                /\ b[c].data \in Seq(Bit) /\ Len(b[c].data) \in Nat
                /\ D1(b[c]) \in DOMAIN D1Code /\ Len(b[c].data) \in DOMAIN SizeCode
<1>1. IsBlock(b)
  BY LayoutAssumption
<1>2. n \in Nat /\ n # 0
  BY <1>1, FS_CardinalityType, FS_EmptySet DEF IsBlock
<1>3. DOMAIN b = 0..n - 1
  BY <1>1 DEF IsBlock
<1>5. RefWidth(n) \in 1..64 /\ n - 1 < Pow2[RefWidth(n)]
  <2>1. PICK most \in 1..64 : n <= Pow2[most]
    BY <1>1 DEF IsBlock
  <2>2. Pow2[most] \in Nat
    BY Pow2Facts
  <2>3. n - 1 \in Nat /\ n - 1 < Pow2[most]
    BY <1>2, <2>1, <2>2
  <2> QED BY <2>3, LenInBitsFits DEF RefWidth
<1>4. ASSUME NEW c \in 0..n - 1
      PROVE  /\ b[c].refs \in Seq(0..c - 1) /\ Len(b[c].refs) \in 0..4
             /\ b[c].special \in {0, 1}
             /\ b[c].data \in Seq(Bit) /\ Len(b[c].data) \in Nat
             /\ D1(b[c]) \in DOMAIN D1Code /\ Len(b[c].data) \in DOMAIN SizeCode
  <2>1. b[c].refs \in Seq(0..c - 1) /\ Len(b[c].refs) <= 4
    BY <1>1, <1>3, <1>4 DEF IsBlock
  <2>2. Len(b[c].refs) \in Nat
    BY <2>1, LenProperties
  <2>3. Len(b[c].refs) \in 0..4
    <3>1. \A x \in Nat : x <= 4 => x \in 0..4
      OBVIOUS
    <3> QED BY <2>1, <2>2, <3>1
  <2>4. b[c].data \in Seq(Bit)
    BY <1>1, <1>3, <1>4 DEF IsBlock
  <2>5. Len(b[c].data) \in Nat
    BY <2>4, LenProperties
  <2> QED BY <1>1, <1>3, <1>4, <2>1, <2>3, <2>4, <2>5 DEF IsBlock
<1> QED BY <1>2, <1>3, <1>4, <1>5

(* Which bit of which reference a bit is. *)
LEMMA BitOfRef ==
    ASSUME NEW w \in Nat \ {0}, NEW l \in 0..4, NEW j \in 1..l, NEW p \in 1..w,
           NEW k \in Int, k = (j - 1) * w + p
    PROVE  k \in 1..l * w /\ ((k - 1) \div w) + 1 = j /\ ((k - 1) % w) + 1 = p
<1>1. /\ j - 1 \in Nat /\ p - 1 \in 0..w - 1 /\ k \in Int
      /\ k - 1 = w * (j - 1) + (p - 1)
  OBVIOUS
<1>2. (k - 1) \div w = j - 1
  BY <1>1, QuotientUnique
<1>3. k - 1 = w * ((k - 1) \div w) + ((k - 1) % w) /\ (k - 1) % w \in Int
  BY <1>1
<1>4. \A x, y, z \in Int : x + y = x + z => y = z
  OBVIOUS
<1>5. (k - 1) % w = p - 1
  <2>1. w * (j - 1) \in Int /\ p - 1 \in Int
    OBVIOUS
  <2> QED BY <1>1, <1>2, <1>3, <1>4, <2>1
<1>6. k \in 1..l * w
  <2>1. j = 1 \/ j = 2 \/ j = 3 \/ j = 4
    OBVIOUS
  <2>2. l = 0 \/ l = 1 \/ l = 2 \/ l = 3 \/ l = 4
    OBVIOUS
  <2> QED BY <2>1, <2>2
<1> QED BY <1>1, <1>2, <1>5, <1>6

(* What is stored of a reference fits, and the reference is found again from it. *)
LEMMA RefStoreFits ==
    ASSUME NEW b \in Blocks, NEW n, n = Cardinality(DOMAIN b), NEW c \in 0..n - 1,
           NEW r \in 0..c - 1
    PROVE  /\ RefStore(n, c, r) \in 0..Pow2[RefWidth(n)] - 1
           /\ (n + c - (RefStore(n, c, r) + 1)) % n = r
<1>1. n \in Nat \ {0} /\ RefWidth(n) \in 1..64 /\ n - 1 < Pow2[RefWidth(n)]
  BY BlockFacts
<1>2. PICK p \in Nat : p = Pow2[RefWidth(n)]
  <2>1. \A x \in 1..64 : x \in Nat
    OBVIOUS
  <2> QED BY <1>1, <2>1, Pow2Facts
<1> DEFINE d == (n + c - r) % n
<1>3. d \in 0..n - 1 /\ d > 0
  BY <1>1, ForwardDistance
<1>4. (n + c - d) % n = r
  <2>1. c \in 0..n - 1 /\ r \in 0..n - 1
    BY <1>1
  <2> QED BY <1>1, <2>1, DistanceBack
<1>5. RefStore(n, c, r) = d - 1
  BY DEF RefStore
<1> HIDE DEF d
<1> QED BY <1>1, <1>2, <1>3, <1>4, <1>5

(* The references of a cell take as many bits as they are wide, each of them, one
   behind the other. *)
StoredRef(n, c, cell, j) ==
    LET w == RefWidth(n)
        v == RefStore(n, c, cell.refs[j])
    IN  /\ v \in 0..Pow2[w] - 1 /\ cell.refs[j] = (n + c - (v + 1)) % n
        /\ \A p \in 1..w :
            /\ (j - 1) * w + p \in 1..Len(cell.refs) * w
            /\ RefBits(n, c, cell)[(j - 1) * w + p] = UintBits(v, w)[p]

LEMMA RefBitsFacts ==
    ASSUME NEW b \in Blocks, NEW n, n = Cardinality(DOMAIN b), NEW c \in 0..n - 1
    PROVE  /\ RefBits(n, c, b[c]) \in Seq(Bit)
           /\ Len(RefBits(n, c, b[c])) = Len(b[c].refs) * RefWidth(n)
           /\ \A j \in 1..Len(b[c].refs) : StoredRef(n, c, b[c], j)
<1> DEFINE w == RefWidth(n)
           l == Len(b[c].refs)
           v(j) == RefStore(n, c, b[c].refs[j])
           bit(k) == UintBits(v(((k - 1) \div w) + 1), w)[((k - 1) % w) + 1]
<1>1. n \in Nat \ {0} /\ w \in Nat \ {0} /\ l \in 0..4
  <2>1. n \in Nat \ {0} /\ w \in 1..64 /\ l \in 0..4
    BY BlockFacts
  <2>2. \A x \in 1..64 : x \in Nat \ {0}
    OBVIOUS
  <2> QED BY <2>1, <2>2
<1>2. l * w \in Nat
  BY <1>1
<1>3. RefBits(n, c, b[c]) = [k \in 1..l * w |-> bit(k)]
  BY DEF RefBits
<1>4. ASSUME NEW j \in 1..l
      PROVE  /\ v(j) \in 0..Pow2[w] - 1 /\ b[c].refs[j] = (n + c - (v(j) + 1)) % n
             /\ UintBits(v(j), w) \in Seq(Bit) /\ Len(UintBits(v(j), w)) = w
  <2>1. PICK r \in 0..c - 1 : r = b[c].refs[j]
    BY <1>4, BlockFacts, ElementOfSeq
  <2>2. v(j) \in 0..Pow2[w] - 1 /\ r = (n + c - (v(j) + 1)) % n
    BY <2>1, RefStoreFits
  <2> QED BY <1>1, <2>1, <2>2, UintBack
<1> HIDE DEF v
<1>5. ASSUME NEW k \in 1..l * w PROVE bit(k) \in Bit
  <2> DEFINE j == ((k - 1) \div w) + 1
             p == ((k - 1) % w) + 1
  <2>1. k - 1 \in Nat /\ k - 1 < l * w
    BY <1>2, <1>5
  <2>2. (k - 1) \div w \in 0..l - 1
    BY <1>1, <2>1, QuotientBounds
  <2>3. j \in 1..l
    BY <1>1, <2>2
  <2>4. p \in 1..w
    BY <1>1, <2>1
  <2> HIDE DEF j, p, w
  <2>5. UintBits(v(j), w)[p] \in Bit
    BY <1>4, <2>3, <2>4, ElementOfSeq
  <2> QED BY <2>5 DEF j, p, w
<1>6. ASSUME NEW j \in 1..l, NEW p \in 1..w
      PROVE  /\ (j - 1) * w + p \in 1..l * w
             /\ RefBits(n, c, b[c])[(j - 1) * w + p] = UintBits(v(j), w)[p]
  <2> DEFINE k == (j - 1) * w + p
  <2>1. k \in 1..l * w /\ ((k - 1) \div w) + 1 = j /\ ((k - 1) % w) + 1 = p
    <3> HIDE DEF w, l
    <3>1. w \in Nat \ {0} /\ l \in 0..4 /\ k \in Int /\ k = (j - 1) * w + p
      BY <1>1
    <3> HIDE DEF k
    <3> QED BY <3>1, BitOfRef
  <2> HIDE DEF k, w, l
  <2>2. bit(k) = UintBits(v(j), w)[p]
    BY <2>1
  <2> QED BY <1>3, <2>1, <2>2 DEF k
<1> HIDE DEF bit, w, l
<1>7. RefBits(n, c, b[c]) \in Seq(Bit) /\ Len(RefBits(n, c, b[c])) = l * w
  BY <1>2, <1>3, <1>5
<1>8. \A j \in 1..l : StoredRef(n, c, b[c], j)
  BY <1>4, <1>6 DEF StoredRef, l, w, v
<1> QED BY <1>7, <1>8 DEF l, w

(* What a field is wide. *)
LEMMA FieldFacts ==
    ASSUME block \in Blocks, NEW c \in 0..BlockSize - 1
    PROVE  /\ \A t \in d1..data :
                FieldBits(block, <<t, c>>) \in Seq(Bit) /\ Width(<<t, c>>) \in Nat
           /\ FieldBits(block, <<d1, c>>) = D1Code[D1(block[c])] /\ Width(<<d1, c>>) > 0
           /\ FieldBits(block, <<data_size, c>>) = SizeCode[Len(block[c].data)]
           /\ Width(<<data_size, c>>) > 0
           /\ Width(<<refs, c>>) = Len(block[c].refs) * RefWidth(BlockSize)
           /\ FieldBits(block, <<data, c>>) = block[c].data
<1>1. ASSUME NEW code, IsPrefixCode(code), NEW s \in DOMAIN code
      PROVE  code[s] \in Seq(Bit) /\ Len(code[s]) \in Nat /\ Len(code[s]) > 0
  BY <1>1, EmptySeq, LenProperties DEF IsPrefixCode
<1>2. BlockSize = Cardinality(DOMAIN block)
  BY DEF BlockSize
<1>3. /\ D1(block[c]) \in DOMAIN D1Code /\ Len(block[c].data) \in DOMAIN SizeCode
      /\ block[c].data \in Seq(Bit) /\ Len(block[c].data) \in Nat
  BY <1>2, BlockFacts
<1>4. /\ FieldBits(block, <<d1, c>>) = D1Code[D1(block[c])]
      /\ FieldBits(block, <<data_size, c>>) = SizeCode[Len(block[c].data)]
      /\ FieldBits(block, <<refs, c>>) = RefBits(BlockSize, c, block[c])
      /\ FieldBits(block, <<data, c>>) = block[c].data
  BY DEF FieldBits, d1, data_size, refs, data, BlockSize
<1>5. /\ D1Code[D1(block[c])] \in Seq(Bit) /\ Len(D1Code[D1(block[c])]) \in Nat
      /\ Len(D1Code[D1(block[c])]) > 0
      /\ SizeCode[Len(block[c].data)] \in Seq(Bit) /\ Len(SizeCode[Len(block[c].data)]) \in Nat
      /\ Len(SizeCode[Len(block[c].data)]) > 0
  BY <1>1, <1>3, LayoutAssumption
<1>6. /\ RefBits(BlockSize, c, block[c]) \in Seq(Bit)
      /\ Len(RefBits(BlockSize, c, block[c])) = Len(block[c].refs) * RefWidth(BlockSize)
      /\ Len(RefBits(BlockSize, c, block[c])) \in Nat
  BY <1>2, RefBitsFacts, LenProperties
<1>7. ASSUME NEW t \in d1..data
      PROVE  FieldBits(block, <<t, c>>) \in Seq(Bit) /\ Width(<<t, c>>) \in Nat
  <2>1. t = d1 \/ t = data_size \/ t = refs \/ t = data
    BY <1>7 DEF d1, data_size, refs, data
  <2> QED BY <1>3, <1>4, <1>5, <1>6, <2>1 DEF Width
<1> QED BY <1>4, <1>5, <1>6, <1>7 DEF Width
-----------------------------------------------------------------------------
(* Sequences put together and cut. *)
LEMMA ConcatAt ==
    ASSUME NEW S, NEW s \in Seq(S), NEW t \in Seq(S)
    PROVE  /\ s \o t \in Seq(S) /\ Len(s) \in Nat /\ Len(t) \in Nat
           /\ Len(s \o t) = Len(s) + Len(t)
           /\ \A k \in 1..Len(s) : (s \o t)[k] = s[k]
           /\ \A l \in 1..Len(t) : (s \o t)[Len(s) + l] = t[l]
<1> DEFINE u == s \o t
<1>1. /\ u \in Seq(S) /\ Len(u) = Len(s) + Len(t)
      /\ \A k \in 1..Len(s) + Len(t) : u[k] = IF k <= Len(s) THEN s[k] ELSE t[k - Len(s)]
  BY ConcatProperties
<1>2. Len(s) \in Nat /\ Len(t) \in Nat
  BY LenProperties
<1> HIDE DEF u
<1>3. ASSUME NEW l \in 1..Len(t) PROVE u[Len(s) + l] = t[l]
  <2>1. /\ Len(s) + l \in 1..Len(s) + Len(t) /\ ~ (Len(s) + l <= Len(s))
        /\ (Len(s) + l) - Len(s) = l
    BY <1>2
  <2> QED BY <1>1, <2>1
<1>4. ASSUME NEW k \in 1..Len(s) PROVE u[k] = s[k]
  <2>1. k \in 1..Len(s) + Len(t) /\ k <= Len(s)
    BY <1>2
  <2> QED BY <1>1, <2>1
<1> QED BY <1>1, <1>2, <1>3, <1>4 DEF u
-----------------------------------------------------------------------------
(* The order of the fields is total, and the push loops follow it. *)
LEMMA FieldOrder ==
    ASSUME NEW n \in Nat, NEW f \in Fields(n), NEW g \in Fields(n)
    PROVE  /\ f # NoMeta /\ f = <<f[1], f[2]>> /\ f[1] \in d1..data /\ f[2] \in 0..n - 1
           /\ ~ Before(f, f)
           /\ f = g \/ Before(f, g) \/ Before(g, f)
           /\ ~ (Before(f, g) /\ Before(g, f))
           /\ \A h \in Fields(n) : Before(f, g) /\ Before(g, h) => Before(f, h)
  BY DEF Fields, Before, NoMeta, none, d1, data

LEMMA AnyField ==
    ASSUME block \in Blocks
    PROVE  \A f \in Fields(BlockSize) : FieldBits(block, f) \in Seq(Bit) /\ Width(f) \in Nat
<1>1. BlockSize \in Nat
  BY BlockFacts DEF BlockSize
<1> SUFFICES ASSUME NEW f \in Fields(BlockSize)
             PROVE  FieldBits(block, f) \in Seq(Bit) /\ Width(f) \in Nat
  OBVIOUS
<1>2. PICK t \in d1..data, c \in 0..BlockSize - 1 : f = <<t, c>>
  BY DEF Fields
<1> QED BY <1>2, FieldFacts

LEMMA PushOrder ==
    ASSUME block \in Blocks, NEW f \in Fields(BlockSize)
    PROVE  LET n == NextToPush(f)
           IN  /\ n \in Fields(BlockSize) \cup {NoMeta}
               /\ \A g \in Fields(BlockSize) :
                    (n = NoMeta \/ Before(g, n)) <=> (g = f \/ Before(g, f))
<1>1. BlockSize \in Nat \ {0}
  BY BlockFacts DEF BlockSize
<1>2. PICK t \in 1..4, c \in 0..BlockSize - 1 : f = <<t, c>>
  BY DEF Fields, d1, data
<1>3. CASE c + 1 < BlockSize
  <2>1. NextToPush(f) = <<t, c + 1>>
    BY <1>2, <1>3 DEF NextToPush
  <2> QED BY <1>1, <1>2, <1>3, <2>1 DEF Fields, Before, NoMeta, none, d1, data
<1>4. CASE c + 1 = BlockSize /\ t < 4
  <2>1. NextToPush(f) = <<t + 1, 0>>
    BY <1>1, <1>2, <1>4 DEF NextToPush, data
  <2> QED BY <1>1, <1>2, <1>4, <2>1 DEF Fields, Before, NoMeta, none, d1, data
<1>5. CASE c + 1 = BlockSize /\ t = 4
  <2>1. NextToPush(f) = NoMeta
    BY <1>1, <1>2, <1>5 DEF NextToPush, data
  <2> QED BY <1>1, <1>2, <1>5, <2>1 DEF Fields, Before, NoMeta, none, d1, data
<1> QED BY <1>1, <1>2, <1>3, <1>4, <1>5
-----------------------------------------------------------------------------
LEMMA EncInitOK == Init => EncInv
<1> SUFFICES ASSUME Init PROVE EncInv
  OBVIOUS
<1>1. block \in Blocks /\ BlockSize \in Nat \ {0}
  BY BlockFacts DEF Init, EncInit, BlockSize
<1>2. EncType
  <2>1. toPush \in Fields(BlockSize)
    BY <1>1 DEF Init, EncInit, Fields, d1, data
  <2>2. /\ << >> \in Seq(Bit) /\ << >> \in Seq(Fields(BlockSize)) /\ << >> \in Seq(Token)
        /\ Len(bits) = 0 /\ Len(meta) = 0
    BY EmptySeq DEF Init, EncInit
  <2> QED BY <1>1, <2>1, <2>2 DEF EncType, Init, EncInit
<1>3. Placing(Pushed) # {}
  <2>1. Pushed = {}
    BY <1>1 DEF Pushed, Init, EncInit, Fields, Before, NoMeta, none, d1, data
  <2> DEFINE st == [f \in {} |-> 0]
  <2>2. st \in Placing({})
    BY DEF Placing, Init, EncInit
  <2> QED BY <2>1, <2>2
<1>4. \E e \in TokenEnds : e[Len(tokens)] = literalStart
  <2> DEFINE e == [k \in 0..0 |-> 0]
  <2>1. Len(tokens) = 0 /\ Len(bits) = 0 /\ literalStart = 0
    BY DEF Init, EncInit
  <2>2. e \in TokenEnds
    BY <2>1 DEF TokenEnds
  <2> QED BY <2>1, <2>2
<1> QED BY <1>2, <1>3, <1>4 DEF EncInv, Init, EncInit

(* The next field is put behind those before. *)
LEMMA PushFieldOK == ASSUME EncInv, PushField PROVE EncInv'
<1> DEFINE g == toPush
           w == FieldBits(block, toPush)
           m == Len(bits)
           F == Pushed
<1>0. /\ UNCHANGED <<block, i, literalStart, epc, nCells, tokens>>
      /\ epc = "push" /\ toPush # NoMeta
      /\ bits' = bits \o w
      /\ meta' = meta \o [k \in 1..Len(w) |-> g]
      /\ toPush' = NextToPush(g)
  BY DEF PushField
<1>1. /\ block \in Blocks /\ g \in Fields(BlockSize) /\ BlockSize \in Nat \ {0}
      /\ bits \in Seq(Bit) /\ meta \in Seq(Fields(BlockSize)) /\ Len(meta) = m /\ m \in Nat
  BY <1>0, BlockFacts, LenProperties DEF EncInv, EncType, BlockSize
<1>2. w \in Seq(Bit) /\ Len(w) \in Nat /\ Len(w) = Width(g)
  BY <1>1, AnyField DEF Width
<1>3. /\ bits' \in Seq(Bit) /\ Len(bits') = m + Len(w)
      /\ \A k \in 1..m : bits'[k] = bits[k]
      /\ \A l \in 1..Len(w) : bits'[m + l] = w[l]
  BY <1>0, <1>1, <1>2, ConcatAt
<1>4. /\ meta' \in Seq(Fields(BlockSize)) /\ Len(meta') = m + Len(w)
      /\ \A k \in 1..m : meta'[k] = meta[k]
      /\ \A l \in 1..Len(w) : meta'[m + l] = g
  <2> DEFINE tail == [k \in 1..Len(w) |-> g]
             S == Fields(BlockSize)
  <2>1. tail \in Seq(S) /\ Len(tail) = Len(w) /\ \A l \in 1..Len(w) : tail[l] = g
    BY <1>1, <1>2
  <2>2. meta' = meta \o tail /\ meta \in Seq(S) /\ Len(meta) = m
    BY <1>0, <1>1
  <2> HIDE DEF tail, w, g, S, m
  <2>3. /\ meta' \in Seq(S) /\ Len(meta') = Len(meta) + Len(tail)
        /\ \A k \in 1..Len(meta) : meta'[k] = meta[k]
        /\ \A l \in 1..Len(tail) : meta'[Len(meta) + l] = tail[l]
    <3>1. tail \in Seq(S) /\ meta \in Seq(S)
      BY <2>1, <2>2
    <3>2. /\ meta \o tail \in Seq(S) /\ Len(meta \o tail) = Len(meta) + Len(tail)
          /\ \A k \in 1..Len(meta) : (meta \o tail)[k] = meta[k]
          /\ \A l \in 1..Len(tail) : (meta \o tail)[Len(meta) + l] = tail[l]
      BY ONLY <3>1, ConcatAt
    <3> QED BY <2>2, <3>2
  <2> QED BY <2>1, <2>2, <2>3 DEF S
<1>5. BlockSize' = BlockSize /\ Fields(BlockSize)' = Fields(BlockSize)
  BY <1>0 DEF BlockSize, Fields
<1>6. g \notin F /\ Pushed' = F \cup {g} /\ F \subseteq Fields(BlockSize)
  <2>1. ~ Before(g, g)
    BY <1>1, FieldOrder
  <2>2. /\ toPush' \in Fields(BlockSize) \cup {NoMeta}
        /\ \A f \in Fields(BlockSize) :
            (toPush' = NoMeta \/ Before(f, toPush')) <=> (f = g \/ Before(f, g))
    BY <1>0, <1>1, PushOrder
  <2>3. Pushed' = {f \in Fields(BlockSize) : toPush' = NoMeta \/ Before(f, toPush')}
    BY <1>5 DEF Pushed
  <2>4. F = {f \in Fields(BlockSize) : Before(f, g)}
    BY <1>0 DEF Pushed
  <2> QED BY <1>1, <2>1, <2>2, <2>3, <2>4
<1>7. EncType'
  <2>1. toPush' \in Fields(BlockSize) \cup {NoMeta}
    BY <1>0, <1>1, PushOrder
  <2>2. i \in 0..Len(bits')
    BY <1>0, <1>1, <1>2, <1>3 DEF EncInv, EncType
  <2> QED BY <1>0, <1>3, <1>4, <1>5, <2>1, <2>2 DEF EncInv, EncType
<1>8. \E e \in TokenEnds' : e[Len(tokens')] = literalStart'
  <2> DEFINE e == [k \in 0..0 |-> 0]
  <2>1. Len(tokens') = 0 /\ literalStart' = 0 /\ Len(bits') \in Nat
    BY <1>0, <1>1, <1>2, <1>3 DEF EncInv, EncType
  <2>2. e \in TokenEnds'
    BY <2>1 DEF TokenEnds
  <2> QED BY <2>1, <2>2
<1>9. Placing(Pushed)' # {}
  <2>1. PICK st \in Placing(F) : TRUE
    BY DEF EncInv
  <2> DEFINE new == [f \in F \cup {g} |-> IF f = g THEN m ELSE st[f]]
             n == m + Len(w)
  <2>2. /\ st \in [F -> 0..m]
        /\ \A f \in F :
            /\ st[f] + Width(f) <= m
            /\ \A l \in 1..Width(f) :
                bits[st[f] + l] = FieldBits(block, f)[l] /\ meta[st[f] + l] = f
        /\ \A f, h \in F : Before(f, h) => st[f] + Width(f) <= st[h]
        /\ \A k \in 1..m :
            meta[k] \in F /\ st[meta[k]] < k /\ k <= st[meta[k]] + Width(meta[k])
    BY <2>1 DEF Placing
  <2>3. /\ new \in [F \cup {g} -> 0..n] /\ new[g] = m
        /\ \A f \in F : new[f] = st[f] /\ st[f] \in 0..m
    BY <1>1, <1>2, <1>6, <2>2
  <2>4. \A f \in F \cup {g} : Width(f) \in Nat /\ Len(FieldBits(block', f)) = Width(f)
                              /\ FieldBits(block', f) = FieldBits(block, f)
    <3>1. \A f \in Fields(BlockSize) : Width(f) \in Nat
      BY <1>1, AnyField
    <3> QED BY <1>0, <1>1, <1>6, <3>1 DEF Width
  <2> HIDE DEF new, g, w, m, F
  <2>5. ASSUME NEW f \in F \cup {g}
        PROVE  /\ new[f] + Width(f) <= n
               /\ \A l \in 1..Width(f) :
                    bits'[new[f] + l] = FieldBits(block, f)[l] /\ meta'[new[f] + l] = f
    <3>1. CASE f = g
      BY <1>1, <1>2, <1>3, <1>4, <2>3, <3>1 DEF w, g
    <3>2. CASE f \in F
      <4>1. new[f] + Width(f) <= m
        BY <2>2, <2>3, <3>2
      <4>2. \A l \in 1..Width(f) : new[f] + l \in 1..m
        BY <1>1, <2>3, <2>4, <3>2, <4>1
      <4>3. new[f] + Width(f) <= n
        BY <1>1, <1>2, <2>3, <2>4, <3>2, <4>1
      <4> QED BY <1>3, <1>4, <2>2, <2>3, <3>2, <4>2, <4>3
    <3> QED BY <3>1, <3>2
  <2>6. ASSUME NEW f \in F \cup {g}, NEW h \in F \cup {g}, Before(f, h)
        PROVE  new[f] + Width(f) <= new[h]
    <3>1. f \in F
      <4>1. CASE f = g
        <5>1. Before(h, g) \/ h = g
          BY <1>0 DEF F, Pushed, g
        <5> QED BY <1>1, <1>6, <2>6, <4>1, <5>1, FieldOrder
      <4> QED BY <4>1
    <3>2. CASE h = g
      BY <2>2, <2>3, <3>1, <3>2
    <3>3. CASE h \in F
      BY <2>2, <2>3, <2>6, <3>1, <3>3
    <3> QED BY <3>2, <3>3
  <2>7. ASSUME NEW k \in 1..n
        PROVE  /\ meta'[k] \in F \cup {g}
               /\ new[meta'[k]] < k /\ k <= new[meta'[k]] + Width(meta'[k])
    <3>1. CASE k <= m
      <4>1. k \in 1..m
        BY <1>1, <1>2, <3>1
      <4> QED BY <1>4, <2>2, <2>3, <4>1
    <3>2. CASE k > m
      <4>1. PICK l \in 1..Len(w) : k = m + l
        <5>1. k - m \in 1..Len(w) /\ k = m + (k - m)
          BY <1>1, <1>2, <3>2
        <5> QED BY <5>1
      <4> QED BY <1>1, <1>2, <1>4, <2>3, <4>1
    <3> QED BY <1>1, <1>2, <3>1, <3>2
  <2>8. new \in Placing(Pushed)'
    <3>1. Len(bits') = n
      BY <1>3
    <3> HIDE DEF n
    <3>2. new \in [Pushed' -> 0..Len(bits')]
      BY <1>6, <2>3, <3>1
    <3>3. \A f \in Pushed' :
            /\ new[f] + Len(FieldBits(block', f)) <= Len(bits')
            /\ \A l \in 1..Len(FieldBits(block', f)) :
                bits'[new[f] + l] = FieldBits(block', f)[l] /\ meta'[new[f] + l] = f
      BY <1>6, <2>4, <2>5, <3>1
    <3>4. \A f, h \in Pushed' : Before(f, h) => new[f] + Len(FieldBits(block', f)) <= new[h]
      BY <1>6, <2>4, <2>6
    <3>5. \A k \in 1..Len(bits') :
            /\ meta'[k] \in Pushed'
            /\ new[meta'[k]] < k /\ k <= new[meta'[k]] + Len(FieldBits(block', meta'[k]))
      BY <1>6, <2>4, <2>7, <3>1
    <3> QED BY <3>2, <3>3, <3>4, <3>5 DEF Placing, Width
  <2> QED BY <2>8
<1> QED BY <1>0, <1>7, <1>8, <1>9 DEF EncInv

LEMMA SameText ==
    ASSUME UNCHANGED <<block, bits, meta, toPush>>
    PROVE  Placing(Pushed)' = Placing(Pushed)
  BY DEF Placing, Pushed, Width, BlockSize

LEMMA SameTokens ==
    ASSUME UNCHANGED <<bits, meta, nCells, tokens>>
    PROVE  TokenEnds' = TokenEnds
  BY DEF TokenEnds

LEMMA WithinNat == ASSUME NEW s \in Nat PROVE Within(s) \in Nat
<1> DEFINE S == {k \in 1..s : meta[k][2] = meta[s + 1][2]}
<1>1. IsFiniteSet(1..s) /\ S \subseteq 1..s
  BY FS_Interval
<1> HIDE DEF S
<1>2. IsFiniteSet(S)
  BY <1>1, FS_Subset
<1> QED BY <1>2, FS_CardinalityType DEF S, Within

(* The parse starts with the bits as they were written, through their marked bytes. *)
LEMMA StartParseOK == ASSUME EncInv, StartParse PROVE EncInv'
<1>0. /\ UNCHANGED <<block, meta, toPush, i, literalStart, tokens>>
      /\ epc = "push" /\ toPush = NoMeta /\ epc' = "parse" /\ bits' = BitStr
      /\ nCells' = CHOOSE m \in 1..BlockSize :
                    /\ \E k \in 1..Len(meta) : meta[k][2] + 1 = m
                    /\ \A k \in 1..Len(meta) : meta[k][2] + 1 <= m
  BY DEF StartParse
<1>1. /\ block \in Blocks /\ BlockSize \in Nat \ {0} /\ bits \in Seq(Bit)
      /\ meta \in Seq(Fields(BlockSize)) /\ Len(meta) = Len(bits) /\ Len(bits) \in Nat
  BY BlockFacts, LenProperties DEF EncInv, EncType, BlockSize
<1>2. bits' = bits
  BY <1>0, <1>1, MarkRoundTrip DEF BitStr
<1>3. Placing(Pushed)' = Placing(Pushed)
  BY <1>0, <1>2, SameText
<1>4. nCells' = BlockSize /\ BlockSize' = BlockSize
  <2> DEFINE f == <<d1, BlockSize - 1>>
  <2>1. PICK st \in Placing(Pushed) : TRUE
    BY DEF EncInv
  <2>2. f \in Fields(BlockSize)
    BY <1>1 DEF Fields, d1, data
  <2>3. f \in Pushed /\ Width(f) \in Nat \ {0}
    <3>1. Width(f) > 0 /\ Width(f) \in Nat
      <4>1. BlockSize - 1 \in 0..BlockSize - 1
        BY <1>1
      <4> QED BY <1>1, <2>2, <4>1, FieldFacts, AnyField
    <3> QED BY <1>0, <2>2, <3>1 DEF Pushed
  <2>4. /\ st[f] \in 0..Len(bits) /\ st[f] + Width(f) <= Len(bits)
        /\ \A l \in 1..Width(f) : meta[st[f] + l] = f
    BY <2>1, <2>3 DEF Placing
  <2>5. st[f] + 1 \in 1..Len(meta) /\ meta[st[f] + 1] = f
    <3>1. 1 \in 1..Width(f)
      BY <2>3
    <3>2. st[f] + 1 \in 1..Len(meta)
      BY <1>1, <2>3, <2>4
    <3> QED BY <2>4, <3>1, <3>2
  <2>6. \E k \in 1..Len(meta) : meta[k][2] + 1 = BlockSize
    <3>1. meta[st[f] + 1][2] + 1 = BlockSize
      BY <1>1, <2>5
    <3> QED BY <2>5, <3>1
  <2>7. \A k \in 1..Len(meta) : meta[k][2] + 1 <= BlockSize /\ meta[k][2] \in Int
    <3>1. \A k \in 1..Len(meta) : meta[k] \in Fields(BlockSize)
      BY <1>1, ElementOfSeq
    <3>2. \A g \in Fields(BlockSize) : g[2] + 1 <= BlockSize /\ g[2] \in Int
      BY <1>1 DEF Fields
    <3> QED BY <3>1, <3>2
  <2>8. \A m \in 1..BlockSize :
            /\ \E k \in 1..Len(meta) : meta[k][2] + 1 = m
            /\ \A k \in 1..Len(meta) : meta[k][2] + 1 <= m
          => m = BlockSize
    BY <1>1, <2>6, <2>7
  <2>9. BlockSize \in 1..BlockSize
    BY <1>1
  <2> QED BY <1>0, <2>6, <2>7, <2>8, <2>9 DEF BlockSize
<1>5. \E e \in TokenEnds' : e[Len(tokens')] = literalStart'
  <2> DEFINE e == [k \in 0..0 |-> 0]
  <2>1. Len(tokens') = 0 /\ literalStart' = 0
    BY <1>0, <1>1 DEF EncInv, EncType
  <2>2. e \in TokenEnds'
    BY <1>1, <1>2, <2>1 DEF TokenEnds
  <2> QED BY <2>1, <2>2
<1>6. EncType'
  BY <1>0, <1>2, <1>4 DEF EncInv, EncType
<1> QED BY <1>0, <1>3, <1>4, <1>5, <1>6 DEF EncInv

(* A token is put behind those before. *)
LEMMA AppendTokenOK ==
    ASSUME bits \in Seq(Bit), tokens \in Seq(Token), NEW e \in TokenEnds, NEW token \in Token,
           NEW to \in 0..Len(bits), TokenCovers(bits, meta, nCells, token, e[Len(tokens)], to),
           tokens' = Append(tokens, token), UNCHANGED <<bits, meta, nCells>>
    PROVE  tokens' \in Seq(Token) /\ \E f \in TokenEnds' : f[Len(tokens')] = to
<1> DEFINE n == Len(tokens)
           f == [t \in 0..n + 1 |-> IF t = n + 1 THEN to ELSE e[t]]
<1>1. /\ tokens' \in Seq(Token) /\ n \in Nat /\ Len(tokens') = n + 1
      /\ \A t \in 1..n : tokens'[t] = tokens[t]
      /\ tokens'[n + 1] = token
  BY AppendProperties, LenProperties
<1>2. /\ e \in [0..n -> 0..Len(bits)] /\ e[0] = 0
      /\ \A t \in 1..n : TokenCovers(bits, meta, nCells, tokens[t], e[t - 1], e[t])
  BY DEF TokenEnds
<1>3. /\ f \in [0..n + 1 -> 0..Len(bits)] /\ f[0] = 0 /\ f[n + 1] = to
      /\ \A t \in 0..n : f[t] = e[t]
  <2>1. \A t \in 0..n + 1 : t = n + 1 \/ t \in 0..n
    BY <1>1
  <2>2. \A t \in 0..n : t \in 0..n + 1 /\ t # n + 1
    BY <1>1
  <2>3. 0 \in 0..n /\ n + 1 \in 0..n + 1
    BY <1>1
  <2> QED BY <1>2, <2>1, <2>2, <2>3
<1> HIDE DEF f
<1>4. ASSUME NEW t \in 1..n + 1
      PROVE  TokenCovers(bits, meta, nCells, tokens'[t], f[t - 1], f[t])
  <2>1. CASE t = n + 1
    <3>1. t - 1 = n /\ n \in 0..n
      BY <1>1, <2>1
    <3> QED BY <1>1, <1>3, <2>1, <3>1
  <2>2. CASE t # n + 1
    <3>1. t \in 1..n /\ t - 1 \in 0..n /\ t \in 0..n
      BY <1>1, <2>2
    <3> QED BY <1>1, <1>2, <1>3, <3>1
  <2> QED BY <2>1, <2>2
<1>5. f \in TokenEnds'
  <2>1. bits' = bits /\ meta' = meta /\ nCells' = nCells
    OBVIOUS
  <2>2. \A t \in 1..Len(tokens') :
            TokenCovers(bits', meta', nCells', tokens'[t], f[t - 1], f[t])
    BY <1>1, <1>4, <2>1
  <2>3. f \in [0..Len(tokens') -> 0..Len(bits')]
    BY <1>1, <1>3, <2>1
  <2> QED BY <1>3, <2>2, <2>3 DEF TokenEnds
<1> QED BY <1>1, <1>3, <1>5

(* The state of a parse. *)
LEMMA ParseFacts ==
    ASSUME EncInv, epc = "parse"
    PROVE  /\ block \in Blocks /\ BlockSize \in Nat \ {0} /\ nCells = BlockSize
           /\ bits \in Seq(Bit) /\ Len(bits) \in Nat
           /\ meta \in Seq(Fields(BlockSize)) /\ Len(meta) = Len(bits)
           /\ i \in 0..Len(bits) /\ literalStart \in 0..i /\ tokens \in Seq(Token)
           /\ \A k \in 1..Len(bits) : meta[k] \in Fields(BlockSize) /\ meta[k][2] \in 0..nCells - 1
           /\ \E e \in TokenEnds : e[Len(tokens)] = literalStart
<1>1. /\ block \in Blocks /\ BlockSize \in Nat \ {0} /\ nCells = BlockSize
      /\ meta \in Seq(Fields(BlockSize)) /\ Len(meta) = Len(bits)
  BY BlockFacts DEF EncInv, EncType, BlockSize
<1>2. \A k \in 1..Len(bits) : meta[k] \in Fields(BlockSize)
  BY <1>1, ElementOfSeq
<1>3. \A f \in Fields(BlockSize) : f[2] \in 0..nCells - 1
  BY <1>1 DEF Fields
<1> QED BY <1>1, <1>2, <1>3, LenProperties DEF EncInv, EncType

(* The bits from the last match to a place, as a literal. *)
LEMMA LiteralFacts ==
    ASSUME bits \in Seq(Bit), NEW a \in Nat, NEW b \in Nat, a <= b, b <= Len(bits)
    PROVE  /\ SubSeq(bits, a + 1, b) \in Seq(Bit) /\ a + Len(SubSeq(bits, a + 1, b)) = b
           /\ \A k \in 1..Len(SubSeq(bits, a + 1, b)) : SubSeq(bits, a + 1, b)[k] = bits[a + k]
<1> DEFINE u == SubSeq(bits, a + 1, b)
<1>1. u \in Seq(Bit) /\ Len(u) = b - a /\ \A k \in 1..b - a : u[k] = bits[a + k]
  BY CutAt
<1> HIDE DEF u
<1> QED BY <1>1 DEF u

(* A match names its source by cell and offset. *)
LEMMA TakeMatchOK == ASSUME EncInv, TakeMatch PROVE EncInv'
<1>1. PICK m \in Matches(bits, i, MinMatchLen) :
        /\ epc = "parse" /\ i < Len(bits)
        /\ tokens' = Append(tokens, MatchToken(m))
        /\ i' = i + m[2] /\ literalStart' = i + m[2]
        /\ UNCHANGED <<block, bits, meta, toPush, nCells, epc>>
  BY DEF TakeMatch
<1>2. PICK e \in TokenEnds : e[Len(tokens)] = literalStart
  BY <1>1, ParseFacts
<1> DEFINE source == m[1]
           l == m[2]
           literal == SubSeq(bits, literalStart + 1, i)
           token == MatchToken(m)
<1>3. /\ bits \in Seq(Bit) /\ Len(bits) \in Nat /\ i \in Nat /\ literalStart \in Nat
      /\ literalStart <= i /\ i < Len(bits) /\ tokens \in Seq(Token)
      /\ nCells \in Nat \ {0}
      /\ \A k \in 1..Len(bits) : meta[k][2] \in 0..nCells - 1
  BY <1>1, ParseFacts
<1>4. /\ source \in 0..i - 1 /\ l \in 1..Len(bits) - i
      /\ \A k \in 1..l : bits[source + k] = bits[i + k]
  <2>1. MinMatchLen \in Nat \ {0}
    BY LayoutAssumption
  <2>2. /\ m[1] \in 0..i - 1 /\ m[2] \in MinMatchLen..Len(bits) - i
        /\ AgreeOver(bits, m[1], i, m[2])
    BY DEF Matches
  <2>3. m[2] \in 1..Len(bits) - i
    BY <1>3, <2>1, <2>2
  <2>4. \A k \in 1..m[2] : bits[m[1] + k] = bits[i + k]
    BY <2>2 DEF AgreeOver
  <2> QED BY <2>2, <2>3, <2>4
<1>5. literal \in Seq(Bit) /\ literalStart + Len(literal) = i /\ Len(literal) \in Nat
      /\ \A k \in 1..Len(literal) : literal[k] = bits[literalStart + k]
  <2>1. literal \in Seq(Bit) /\ literalStart + Len(literal) = i
        /\ \A k \in 1..Len(literal) : literal[k] = bits[literalStart + k]
    <3>1. i <= Len(bits)
      BY <1>3
    <3> QED BY ONLY <1>3, <3>1, LiteralFacts
  <2> QED BY <2>1, LenProperties
<1>6. /\ token.literal = literal /\ token.match = MatchOf(meta, nCells, i, source, l)
      /\ token \in [literal : {literal}, match : [len : {l},
                        cellOffset : {(nCells + meta[i + 1][2] - meta[source + 1][2]) % nCells},
                        within : {Within(source)}]]
  BY DEF MatchToken, MatchOf, Within
<1>7. Within(source) \in Nat
  <2>1. source \in Nat
    BY <1>3, <1>4
  <2> QED BY <2>1, WithinNat
<1>8. (nCells + meta[i + 1][2] - meta[source + 1][2]) % nCells \in Int
  <2>1. i + 1 \in 1..Len(bits) /\ source + 1 \in 1..Len(bits)
    BY <1>3, <1>4
  <2>2. \A a, b \in 0..nCells - 1 : (nCells + a - b) % nCells \in Int
    BY <1>3
  <2> QED BY <1>3, <2>1, <2>2
<1> HIDE DEF source, l, literal, token
<1>9. token \in Token /\ token.match # NoMatch
  <2>1. token \in Token
    BY <1>3, <1>4, <1>5, <1>6, <1>7, <1>8 DEF Token
  <2>2. token.match.len = l /\ NoMatch.len = 0 /\ l # 0
    BY <1>4, <1>6 DEF MatchOf, NoMatch
  <2> QED BY <2>1, <2>2
<1>10. i + l \in 0..Len(bits) /\ i + l \in Nat
  BY <1>3, <1>4
<1>11. TokenCovers(bits, meta, nCells, token, e[Len(tokens)], i + l)
  <2>1. literalStart + Len(token.literal) = i /\ i <= Len(bits)
    BY <1>3, <1>5, <1>6
  <2> QED BY <1>2, <1>4, <1>5, <1>6, <1>9, <2>1 DEF TokenCovers
<1>12. tokens' \in Seq(Token) /\ \E f \in TokenEnds' : f[Len(tokens')] = i + l
  <2>1. tokens' = Append(tokens, token) /\ UNCHANGED <<bits, meta, nCells>>
    BY <1>1 DEF token
  <2> QED BY <1>3, <1>9, <1>10, <1>11, <2>1, AppendTokenOK
<1>13. Placing(Pushed)' = Placing(Pushed) /\ BlockSize' = BlockSize
  BY <1>1, SameText DEF BlockSize
<1>14. i' = i + l /\ literalStart' = i + l
  BY <1>1 DEF l
<1>15. EncType'
  <2>1. i' \in 0..Len(bits') /\ literalStart' \in 0..i'
    BY <1>1, <1>10, <1>14
  <2> QED BY <1>1, <1>12, <1>13, <2>1 DEF EncInv, EncType
<1> QED BY <1>1, <1>12, <1>13, <1>14, <1>15 DEF EncInv

LEMMA SkipBitOK == ASSUME EncInv, SkipBit PROVE EncInv'
<1>1. /\ epc = "parse" /\ i < Len(bits) /\ i' = i + 1
      /\ UNCHANGED <<block, bits, meta, toPush, literalStart, nCells, tokens, epc>>
  BY DEF SkipBit
<1>2. Placing(Pushed)' = Placing(Pushed) /\ BlockSize' = BlockSize /\ TokenEnds' = TokenEnds
  BY <1>1, SameText, SameTokens DEF BlockSize
<1>3. i' \in 0..Len(bits) /\ literalStart \in 0..i'
  BY <1>1, ParseFacts
<1> QED BY <1>1, <1>2, <1>3 DEF EncInv, EncType

(* The tokens denote all bits in the end. *)
LEMMA EndParseOK == ASSUME EncInv, EndParse PROVE EncInv'
<1>1. /\ epc = "parse" /\ i >= Len(bits) /\ epc' = "done"
      /\ UNCHANGED <<block, bits, meta, toPush, i, literalStart, nCells>>
  BY DEF EndParse
<1>2. Placing(Pushed)' = Placing(Pushed) /\ BlockSize' = BlockSize
  BY <1>1, SameText DEF BlockSize
<1>3. /\ bits \in Seq(Bit) /\ Len(bits) \in Nat /\ literalStart \in Nat
      /\ literalStart <= Len(bits) /\ tokens \in Seq(Token)
  BY <1>1, ParseFacts
<1>4. PICK e \in TokenEnds : e[Len(tokens)] = literalStart
  BY <1>1, ParseFacts
<1>5. tokens' \in Seq(Token) /\ \E f \in TokenEnds' : f[Len(tokens')] = Len(bits)
  <2>1. CASE literalStart < Len(bits)
    <3> DEFINE literal == SubSeq(bits, literalStart + 1, Len(bits))
               token == [literal |-> literal, match |-> NoMatch]
    <3>1. literal \in Seq(Bit) /\ literalStart + Len(literal) = Len(bits) /\ Len(literal) \in Nat
          /\ \A k \in 1..Len(literal) : literal[k] = bits[literalStart + k]
      BY <1>3, LiteralFacts, LenProperties
    <3>2. tokens' = Append(tokens, token)
      BY <2>1 DEF EndParse
    <3>3. token.literal = literal /\ token.match = NoMatch
      OBVIOUS
    <3> HIDE DEF literal
    <3>4. token \in Token
      BY <3>1 DEF Token, NoMatch
    <3> HIDE DEF token
    <3>5. TokenCovers(bits, meta, nCells, token, e[Len(tokens)], Len(bits))
      BY <1>3, <1>4, <3>1, <3>3 DEF TokenCovers
    <3>6. Len(bits) \in 0..Len(bits) /\ UNCHANGED <<bits, meta, nCells>>
      BY <1>1, <1>3
    <3> QED BY <1>3, <3>2, <3>4, <3>5, <3>6, AppendTokenOK
  <2>2. CASE ~ (literalStart < Len(bits))
    <3>1. tokens' = tokens /\ literalStart = Len(bits)
      BY <1>3, <2>2 DEF EndParse
    <3>2. TokenEnds' = TokenEnds
      BY <1>1, <3>1, SameTokens
    <3> QED BY <1>3, <1>4, <3>1, <3>2
  <2> QED BY <2>1, <2>2
<1> QED BY <1>1, <1>2, <1>5 DEF EncInv, EncType

LEMMA EncUnchangedOK ==
    ASSUME EncInv, UNCHANGED <<encVars, nCells, tokens>>
    PROVE  EncInv'
<1>1. UNCHANGED <<block, bits, meta, toPush, i, literalStart, epc, nCells, tokens>>
  BY DEF encVars
<1>2. Placing(Pushed)' = Placing(Pushed) /\ BlockSize' = BlockSize /\ TokenEnds' = TokenEnds
  BY <1>1, SameText, SameTokens DEF BlockSize
<1> QED BY <1>1, <1>2 DEF EncInv, EncType

LEMMA EncInductive == Spec => []EncInv
<1>1. EncInv /\ [Next]_vars => EncInv'
  <2> SUFFICES ASSUME EncInv, [Next]_vars PROVE EncInv'
    OBVIOUS
  <2>1. CASE Encode
    BY <2>1, PushFieldOK, StartParseOK, TakeMatchOK, SkipBitOK, EndParseOK DEF Encode, EncNext
  <2>2. CASE Decode \/ Done \/ UNCHANGED vars
    <3>1. UNCHANGED <<encVars, nCells, tokens>>
      BY <2>2 DEF Decode, Done, vars
    <3> QED BY <3>1, EncUnchangedOK
  <2> QED BY <2>1, <2>2 DEF Next
<1> QED BY <1>1, EncInitOK, PTL DEF Spec
-----------------------------------------------------------------------------
(* While deserialise runs the text is complete. *)
LEMMA DecFacts ==
    ASSUME IInv, dpc # "start"
    PROVE  /\ block \in Blocks /\ BlockSize \in Nat \ {0} /\ nCells = BlockSize
           /\ bits \in Seq(Bit) /\ Len(bits) \in Nat
           /\ \A k \in 1..Len(bits) : meta[k] \in Fields(BlockSize)
           /\ tokens \in Seq(Token) /\ Len(tokens) \in Nat /\ epc = "done"
           /\ DecType /\ Len(outBits) \in Nat /\ offs \in Nat /\ offs <= Len(outBits)
           /\ Len(outBits) <= Len(bits) /\ Unread \in Nat
<1>1. EncType /\ DecType /\ epc = "done" /\ nCells = BlockSize
  BY DEF IInv, EncInv, DecInv
<1>2. block \in Blocks /\ BlockSize \in Nat \ {0}
  BY <1>1, BlockFacts DEF EncType, BlockSize
<1>3. bits \in Seq(Bit) /\ tokens \in Seq(Token) /\ outBits \in Seq(Bit)
      /\ Len(bits) \in Nat /\ Len(tokens) \in Nat /\ Len(outBits) \in Nat
  BY <1>1, LenProperties DEF EncType, DecType
<1>4. \A k \in 1..Len(bits) : meta[k] \in Fields(BlockSize)
  BY <1>1, ElementOfSeq DEF EncType
<1>5. offs \in Nat /\ offs <= Len(outBits) /\ Len(outBits) <= Len(bits)
  BY <1>1, <1>3 DEF DecType
<1>6. Unread \in Nat
  BY <1>3, <1>5 DEF Unread
<1> QED BY <1>1, <1>2, <1>3, <1>4, <1>5, <1>6

LEMMA PlaceFacts ==
    ASSUME block \in Blocks, Len(bits) \in Nat, NEW st \in Placing(Fields(BlockSize))
    PROVE  /\ \A f \in Fields(BlockSize) :
                /\ st[f] \in Nat /\ Width(f) \in Nat /\ st[f] + Width(f) <= Len(bits)
                /\ \A l \in 1..Width(f) :
                    bits[st[f] + l] = FieldBits(block, f)[l] /\ meta[st[f] + l] = f
           /\ \A f, g \in Fields(BlockSize) : Before(f, g) => st[f] + Width(f) <= st[g]
           /\ \A k \in 1..Len(bits) :
                /\ meta[k] \in Fields(BlockSize)
                /\ st[meta[k]] < k /\ k <= st[meta[k]] + Width(meta[k])
<1>1. \A f \in Fields(BlockSize) : Width(f) \in Nat
  BY AnyField
<1>2. \A f \in Fields(BlockSize) : st[f] \in 0..Len(bits)
  BY DEF Placing
<1>3. \A f \in Fields(BlockSize) : st[f] \in Nat
  BY <1>2
<1> QED BY <1>1, <1>3 DEF Placing

(* A cell whose references take no bits has none. *)
LEMMA NoReferences ==
    ASSUME block \in Blocks, NEW c \in 0..BlockSize - 1
    PROVE  Width(<<refs, c>>) = 0 <=> block[c].refs = << >>
<1> DEFINE l == Len(block[c].refs)
           w == RefWidth(BlockSize)
<1>1. w \in 1..64 /\ l \in 0..4 /\ block[c].refs \in Seq(0..c - 1)
  BY BlockFacts DEF BlockSize
<1>2. Width(<<refs, c>>) = l * w
  BY FieldFacts
<1>3. l * w = 0 <=> l = 0
  <2>1. l = 0 \/ l = 1 \/ l = 2 \/ l = 3 \/ l = 4
    BY <1>1
  <2>2. w \in Int /\ w > 0
    <3>1. \A x \in 1..64 : x \in Int /\ x > 0
      OBVIOUS
    <3> QED BY <1>1, <3>1
  <2> HIDE DEF l, w
  <2> QED BY <2>1, <2>2
<1>4. l = 0 <=> block[c].refs = << >>
  BY <1>1, EmptySeq
<1> QED BY <1>2, <1>3, <1>4

(* A field without bits is known to be empty when d1 and the size of its cell are. *)
LEMMA EmptyFields ==
    ASSUME block \in Blocks, NEW f \in Fields(BlockSize), CellIsRead(f[2])
    PROVE  /\ IsEmpty(f) => Width(f) = 0
           /\ Width(f) = 0 => /\ f[1] \in {refs, data}
                              /\ \/ IsEmpty(f)
                                 \/ ~ IsRead(<<d1, f[2]>>)
                                 \/ ~ IsRead(<<data_size, f[2]>>)
<1> DEFINE c == f[2]
           w == RefWidth(BlockSize)
           l == Len(block[c].refs)
<1>1. BlockSize \in Nat \ {0} /\ w \in 1..64
  BY BlockFacts DEF BlockSize
<1>2. c \in 0..BlockSize - 1 /\ f = <<f[1], c>> /\ f[1] \in d1..data
  BY <1>1, FieldOrder
<1>3. l \in 0..4 /\ Len(block[c].data) \in Nat
  BY <1>2, BlockFacts DEF BlockSize
<1>4. /\ Width(<<d1, c>>) > 0 /\ Width(<<data_size, c>>) > 0
      /\ Width(<<refs, c>>) = l * w /\ Width(<<data, c>>) = Len(block[c].data)
  BY <1>2, FieldFacts DEF Width
<1>5. l * w = 0 <=> l = 0
  <2>1. l = 0 \/ l = 1 \/ l = 2 \/ l = 3 \/ l = 4
    BY <1>3
  <2>2. w \in Int /\ w > 0
    BY <1>1
  <2> HIDE DEF l, w
  <2> QED BY <2>1, <2>2
<1>6. f[1] = d1 \/ f[1] = data_size \/ f[1] = refs \/ f[1] = data
  BY <1>2 DEF d1, data_size, refs, data
<1> HIDE DEF c, w, l
<1>7. cells[c].cntRefs = IF IsRead(<<d1, c>>) THEN l ELSE Unset
  BY DEF CellIsRead, c, l
<1>8. cells[c].cntBits = IF IsRead(<<data_size, c>>) THEN Len(block[c].data) ELSE Unset
  BY DEF CellIsRead, c
<1>9. IsEmpty(f) <=> \/ f[1] = refs /\ cells[c].cntRefs = 0
                     \/ f[1] = data /\ cells[c].cntBits = 0
  BY DEF IsEmpty, c
<1>10. Unset # 0 /\ refs # data /\ d1 # refs /\ d1 # data /\ data_size # refs /\ data_size # data
  BY DEF Unset, d1, data_size, refs, data
<1>11. CASE f[1] = refs
  BY <1>2, <1>4, <1>5, <1>7, <1>9, <1>10, <1>11 DEF c
<1>12. CASE f[1] = data
  BY <1>2, <1>4, <1>8, <1>9, <1>10, <1>12 DEF c
<1>13. CASE f[1] = d1 \/ f[1] = data_size
  <2>1. Width(f) > 0
    BY <1>2, <1>4, <1>13
  <2> QED BY <1>9, <1>10, <1>13, <2>1
<1> QED BY <1>6, <1>11, <1>12, <1>13

(* predict_next_meta predicts the field that the first unread bit belongs to,
   and nothing when all bits are read. *)
LEMMA NextIsRight ==
    ASSUME IInv, dpc # "start", NEW st \in Placing(Fields(BlockSize)), ReadSoFar(st)
    PROVE  /\ offs < Len(bits) =>
                /\ NextMeta = meta[offs + 1] /\ NextMeta \in Fields(BlockSize)
                /\ ~ IsRead(NextMeta) /\ st[NextMeta] = offs /\ Width(NextMeta) > 0
           /\ offs = Len(bits) => NextMeta = NoMeta
<1> DEFINE F == Fields(BlockSize)
           later == {f \in F : ~ IsEmpty(f) /\ (lastMeta = NoMeta \/ Before(lastMeta, f))}
<1>1. /\ block \in Blocks /\ BlockSize \in Nat \ {0} /\ nCells = BlockSize
      /\ Len(bits) \in Nat /\ offs \in Nat /\ offs <= Len(bits)
  BY DecFacts
<1>2. later = {f \in F : ~ IsEmpty(f) /\ ~ IsRead(f)}
  BY DEF IsRead
<1>3. NextMeta = IF later = {} THEN NoMeta
                 ELSE CHOOSE f \in later : \A g \in later : g = f \/ Before(f, g)
  BY <1>1 DEF NextMeta
<1>4. /\ \A f \in F : /\ st[f] \in Nat /\ Width(f) \in Nat /\ st[f] + Width(f) <= Len(bits)
                      /\ IsRead(f) => st[f] + Width(f) <= offs
                      /\ ~ IsRead(f) /\ Width(f) > 0 => offs <= st[f]
      /\ \A f, g \in F : Before(f, g) => st[f] + Width(f) <= st[g]
  BY <1>1, PlaceFacts DEF ReadSoFar, FieldIsRead, FieldIsUnread
<1> HIDE DEF later
<1>5. ASSUME NEW g \in later, Width(g) = 0
      PROVE  \E k \in F : ~ IsRead(k) /\ Width(k) > 0 /\ Before(k, g)
  <2>1. g \in F /\ ~ IsEmpty(g) /\ ~ IsRead(g) /\ g[2] \in 0..BlockSize - 1 /\ g = <<g[1], g[2]>>
    BY <1>1, <1>2, <1>5, FieldOrder
  <2>2. CellIsRead(g[2])
    BY <2>1 DEF ReadSoFar
  <2>3. g[1] \in {refs, data} /\ (~ IsRead(<<d1, g[2]>>) \/ ~ IsRead(<<data_size, g[2]>>))
    BY <1>1, <1>5, <2>1, <2>2, EmptyFields
  <2>4. Width(<<d1, g[2]>>) > 0 /\ Width(<<data_size, g[2]>>) > 0
    BY <1>1, <2>1, FieldFacts
  <2>5. <<d1, g[2]>> \in F /\ <<data_size, g[2]>> \in F
    BY <2>1 DEF Fields, d1, data_size, data
  <2>6. Before(<<d1, g[2]>>, g) /\ Before(<<data_size, g[2]>>, g)
    BY <2>1, <2>3 DEF Before, d1, data_size, refs, data
  <2> QED BY <2>3, <2>4, <2>5, <2>6
<1>6. CASE offs < Len(bits)
  <2> DEFINE h == meta[offs + 1]
  <2>1. offs + 1 \in 1..Len(bits)
    BY <1>1, <1>6
  <2>2. h \in F /\ st[h] < offs + 1 /\ offs + 1 <= st[h] + Width(h)
    BY <1>1, <2>1, PlaceFacts
  <2> HIDE DEF h
  <2>3. ~ IsRead(h) /\ Width(h) > 0 /\ st[h] = offs
    BY <1>1, <1>4, <2>2
  <2>4. h \in later
    <3>1. h[2] \in 0..BlockSize - 1
      BY <1>1, <2>2, FieldOrder
    <3>2. CellIsRead(h[2])
      BY <3>1 DEF ReadSoFar
    <3>3. ~ IsEmpty(h)
      <4>1. IsEmpty(h) => Width(h) = 0
        BY ONLY <1>1, <2>2, <3>2, EmptyFields
      <4> QED BY <2>3, <4>1
    <3> QED BY <1>2, <2>2, <2>3, <3>3
  <2>5. ASSUME NEW g \in later, g # h PROVE Before(h, g)
    <3>1. g \in F /\ ~ IsRead(g)
      BY <1>2
    <3>2. SUFFICES ASSUME Before(g, h) PROVE FALSE
      BY <1>1, <2>2, <2>5, <3>1, FieldOrder
    <3>3. Width(g) = 0
      BY <1>1, <1>4, <2>2, <2>3, <3>1, <3>2
    <3>4. PICK k \in F : ~ IsRead(k) /\ Width(k) > 0 /\ Before(k, g)
      BY <1>5, <3>3
    <3>5. Before(k, h)
      BY <1>1, <2>2, <3>1, <3>2, <3>4, FieldOrder
    <3> QED BY <1>1, <1>4, <2>2, <2>3, <3>4, <3>5
  <2>6. ASSUME NEW f \in later, \A g \in later : g = f \/ Before(f, g) PROVE f = h
    <3>1. f \in F /\ (h = f \/ Before(f, h))
      BY <1>2, <2>4, <2>6
    <3>2. f # h => Before(h, f)
      BY <2>5
    <3> QED BY <1>1, <2>2, <3>1, <3>2, FieldOrder
  <2>7. NextMeta = h
    BY <1>3, <2>4, <2>5, <2>6
  <2> QED BY <1>1, <1>6, <2>2, <2>3, <2>7 DEF h
<1>7. CASE offs = Len(bits)
  <2>1. ASSUME NEW g \in later PROVE FALSE
    <3>1. g \in F /\ ~ IsRead(g)
      BY <1>2
    <3>2. Width(g) = 0
      BY <1>1, <1>4, <1>7, <3>1
    <3>3. PICK k \in F : ~ IsRead(k) /\ Width(k) > 0 /\ Before(k, g)
      BY <1>5, <3>2
    <3> QED BY <1>1, <1>4, <1>7, <3>3
  <2>2. NextMeta = NoMeta
    BY <1>3, <2>1
  <2> QED BY <1>1, <1>7, <2>2
<1> QED BY <1>6, <1>7
-----------------------------------------------------------------------------
LEMMA SamePlaces ==
    ASSUME UNCHANGED <<encVars, nCells, tokens>>
    PROVE  /\ Placing(Fields(BlockSize))' = Placing(Fields(BlockSize))
           /\ BlockSize' = BlockSize /\ Fields(BlockSize)' = Fields(BlockSize)
           /\ TokenEnds' = TokenEnds
           /\ UNCHANGED <<block, bits, meta, toPush, i, literalStart, epc, nCells, tokens>>
<1>1. UNCHANGED <<block, bits, meta, toPush, i, literalStart, epc, nCells, tokens>>
  BY DEF encVars
<1>2. BlockSize' = BlockSize /\ Fields(BlockSize)' = Fields(BlockSize)
  BY <1>1 DEF BlockSize, Fields
<1>3. Placing(Fields(BlockSize))' = Placing(Fields(BlockSize))
  BY <1>1, <1>2 DEF Placing, Width
<1> QED BY <1>1, <1>2, <1>3, SameTokens

(* Reading the next field, with the fields passed over on the way. *)
LEMMA ReadOrder ==
    ASSUME IInv, Advancing, NEW st \in Placing(Fields(BlockSize)), ReadSoFar(st),
           offs < Len(bits), lastMeta' = NextMeta, UNCHANGED <<encVars, nCells, tokens>>
    PROVE  /\ NextMeta # NoMeta
           /\ \A f \in Fields(BlockSize) :
                /\ IsRead(f)' <=> (f = NextMeta \/ Before(f, NextMeta))
                /\ IsRead(f) => IsRead(f)'
                /\ IsRead(f)' /\ ~ IsRead(f) => f = NextMeta \/ Width(f) = 0
<1> DEFINE h == NextMeta
<1>1. dpc # "start" /\ BlockSize \in Nat /\ Len(bits) \in Nat /\ offs \in Nat /\ block \in Blocks
      /\ DecType
  BY DecFacts DEF Advancing
<1>2. h \in Fields(BlockSize) /\ ~ IsRead(h) /\ st[h] = offs /\ Width(h) > 0
  BY <1>1, NextIsRight
<1>3. h # NoMeta /\ lastMeta \in Fields(BlockSize) \cup {NoMeta}
  BY <1>1, <1>2, FieldOrder DEF DecType
<1> HIDE DEF h
<1>4. lastMeta' = h
  BY DEF h
<1> SUFFICES ASSUME NEW f \in Fields(BlockSize)
             PROVE  /\ IsRead(f)' <=> (f = h \/ Before(f, h))
                    /\ IsRead(f) => IsRead(f)'
                    /\ IsRead(f)' /\ ~ IsRead(f) => f = h \/ Width(f) = 0
  BY <1>3 DEF h
<1>5. IsRead(f)' <=> ~ Before(h, f)
  BY <1>3, <1>4 DEF IsRead
<1>6. IsRead(f)' <=> (f = h \/ Before(f, h))
  BY <1>1, <1>2, <1>5, FieldOrder
<1>7. ASSUME IsRead(f) PROVE IsRead(f)'
  <2>1. lastMeta \in Fields(BlockSize) /\ ~ Before(lastMeta, f) /\ Before(lastMeta, h)
    BY <1>2, <1>3, <1>7 DEF IsRead
  <2>2. f = lastMeta \/ Before(f, lastMeta)
    BY <1>1, <2>1, FieldOrder
  <2>3. Before(f, h)
    BY <1>1, <1>2, <2>1, <2>2, FieldOrder
  <2> QED BY <1>6, <2>3
<1>8. ASSUME IsRead(f)', ~ IsRead(f), f # h PROVE Width(f) = 0
  <2>1. Before(f, h)
    BY <1>6, <1>8
  <2>2. st[f] \in Nat /\ Width(f) \in Nat /\ st[f] + Width(f) <= st[h]
    BY <1>1, <1>2, <2>1, PlaceFacts
  <2>3. Width(f) > 0 => offs <= st[f]
    BY <1>8 DEF ReadSoFar, FieldIsUnread
  <2> QED BY <1>1, <1>2, <2>2, <2>3
<1> QED BY <1>6, <1>7, <1>8

(* What is read of a cell is what was written. *)
RightParts(cell, c, t) ==
    /\ DOMAIN cell = CellParts
    /\ cell.cntRefs = IF t = d1 THEN Len(block[c].refs) ELSE cells[c].cntRefs
    /\ cell.special = IF t = d1 THEN block[c].special ELSE cells[c].special
    /\ cell.cntBits = IF t = data_size THEN Len(block[c].data) ELSE cells[c].cntBits
    /\ cell.refs = IF t = refs THEN block[c].refs ELSE cells[c].refs
    /\ cell.data = IF t = data THEN block[c].data ELSE cells[c].data

LEMMA ReadOK ==
    ASSUME IInv, Advancing, NEW st \in Placing(Fields(BlockSize)), ReadSoFar(st), NEW cell,
           offs < Len(bits), offs + Width(NextMeta) <= Len(outBits),
           Read(NextMeta, Width(NextMeta), cell), UNCHANGED <<encVars, nCells, tokens>>,
           RightParts(cell, NextMeta[2], NextMeta[1])
    PROVE  IInv'
<1> DEFINE F == Fields(BlockSize)
           Ids0 == 0..BlockSize - 1
<1>1. dpc # "start" /\ BlockSize \in Nat \ {0} /\ Len(bits) \in Nat /\ offs \in Nat
      /\ block \in Blocks /\ DecType /\ nCells = BlockSize /\ Len(outBits) \in Nat
      /\ Len(outBits) <= Len(bits) /\ epc = "done"
  BY DecFacts DEF Advancing
<1>2. PICK h \in F : /\ h = NextMeta /\ h # NoMeta
                   /\ ~ IsRead(h) /\ st[h] = offs /\ Width(h) > 0 /\ h = meta[offs + 1]
  BY <1>1, NextIsRight, ReadOrder, FieldOrder
<1> DEFINE place == [start |-> offs, cnt |-> Width(h)]
<1>3. h[2] \in Ids0 /\ h[1] \in d1..data /\ h = <<h[1], h[2]>>
  BY <1>1, <1>2, FieldOrder
<1>4. /\ cells' = [cells EXCEPT ![h[2]] = cell]
      /\ cellMetas' = [cellMetas EXCEPT ![h[2]][h[1]] = place]
      /\ offs' = offs + Width(h) /\ lastMeta' = h
      /\ UNCHANGED <<outBits, nextToken, copyFrom, copyLeft, dpc>>
  BY <1>2 DEF Read
<1>5. UNCHANGED <<block, bits, meta, epc, nCells, tokens>> /\ BlockSize' = BlockSize
      /\ F' = F /\ Placing(F)' = Placing(F) /\ TokenEnds' = TokenEnds
  BY SamePlaces
<1>6. \A f \in F : /\ IsRead(f)' <=> (f = h \/ Before(f, h))
                   /\ IsRead(f) => IsRead(f)'
                   /\ IsRead(f)' /\ ~ IsRead(f) => f = h \/ Width(f) = 0
  BY <1>2, <1>4, ReadOrder
<1>7. \A f \in F : Width(f) \in Nat /\ st[f] \in Nat /\ Width(f)' = Width(f)
  BY <1>1, <1>5, PlaceFacts DEF Width
<1>8. RightParts(cell, h[2], h[1])
  BY <1>2
<1>9. /\ DOMAIN cells' = Ids0 /\ cells'[h[2]] = cell
      /\ \A c \in Ids0 : c # h[2] => cells'[c] = cells[c]
  BY <1>1, <1>3, <1>4 DEF DecType
<1>10. /\ cellMetas' \in [Ids0 -> [d1..data -> [start : Int, cnt : Nat]]]
       /\ NotedPlace(h)' = place
       /\ \A f \in F : f # h => NotedPlace(f)' = NotedPlace(f)
  <2>1. cellMetas \in [Ids0 -> [d1..data -> [start : Int, cnt : Nat]]]
    BY <1>1 DEF DecType
  <2>2. place \in [start : Int, cnt : Nat]
    BY <1>1, <1>2, <1>7
  <2> HIDE DEF place
  <2>3. cellMetas' \in [Ids0 -> [d1..data -> [start : Int, cnt : Nat]]]
    BY <1>3, <1>4, <2>1, <2>2
  <2>4. NotedPlace(h)' = place
    <3>1. cellMetas'[h[2]][h[1]] = place
      BY <1>3, <1>4, <2>1
    <3> QED BY <3>1 DEF NotedPlace
  <2>5. ASSUME NEW f \in F, f # h PROVE NotedPlace(f)' = NotedPlace(f)
    <3>1. f[2] \in Ids0 /\ f[1] \in d1..data /\ f = <<f[1], f[2]>>
      BY <1>1, FieldOrder
    <3>2. f[2] # h[2] \/ f[1] # h[1]
      BY <1>3, <2>5, <3>1
    <3> QED BY <1>3, <1>4, <2>1, <3>1, <3>2 DEF NotedPlace
  <2> QED BY <2>3, <2>4, <2>5
<1>11. DecType'
  <2>1. offs' \in 0..Len(outBits')
    BY <1>1, <1>2, <1>4, <1>7
  <2>2. \A c \in Ids0 : DOMAIN cells'[c] = CellParts
    <3>1. \A c \in Ids0 : DOMAIN cells[c] = CellParts
      BY <1>1 DEF DecType
    <3> QED BY <1>8, <1>9, <3>1 DEF RightParts
  <2>3. UNCHANGED <<outBits, bits, tokens, nextToken, dpc>> /\ lastMeta' \in F \cup {NoMeta}
    BY <1>2, <1>4, <1>5
  <2> QED BY <1>1, <1>5, <1>9, <1>10, <2>1, <2>2, <2>3 DEF DecType
<1>12. ASSUME NEW f \in F, IsRead(f)' PROVE FieldIsRead(st, f)'
  <2>1. CASE f = h
    <3>1. NotedPlace(f)' = place /\ offs' = offs + Width(f)
      BY <1>4, <1>10, <2>1
    <3>2. NotedPlace(f)'.cnt = Width(f) /\ NotedPlace(f)'.start = st[f]
      BY <1>2, <2>1, <3>1
    <3>3. st[f] + Width(f)' <= offs'
      BY <1>1, <1>2, <1>7, <2>1, <3>1
    <3> QED BY <1>7, <3>2, <3>3 DEF FieldIsRead
  <2>2. CASE f # h /\ IsRead(f)
    <3>1. FieldIsRead(st, f)
      BY <2>2 DEF ReadSoFar
    <3>2. st[f] + Width(f) <= offs'
      BY <1>1, <1>2, <1>4, <1>7, <3>1 DEF FieldIsRead
    <3> QED BY <1>7, <1>10, <2>2, <3>1, <3>2 DEF FieldIsRead
  <2>3. CASE f # h /\ ~ IsRead(f)
    <3>1. Width(f) = 0 /\ Before(f, h)
      BY <1>6, <1>12, <2>3
    <3>2. FieldIsUnread(st, f)
      BY <2>3 DEF ReadSoFar
    <3>3. NotedPlace(f).cnt = 0
      BY <1>2, <2>3, <3>2 DEF FieldIsUnread
    <3>4. st[f] + Width(f) <= st[h]
      BY <1>1, <3>1, PlaceFacts
    <3>5. st[f] + Width(f) <= offs'
      BY <1>1, <1>2, <1>4, <1>7, <3>1, <3>4
    <3> QED BY <1>7, <1>10, <2>3, <3>1, <3>3, <3>5 DEF FieldIsRead
  <2> QED BY <2>1, <2>2, <2>3
<1>13. ASSUME NEW f \in F, ~ IsRead(f)' PROVE FieldIsUnread(st, f)'
  <2>1. f # h /\ Before(h, f) /\ ~ IsRead(f)
    BY <1>1, <1>6, <1>13, FieldOrder
  <2>2. FieldIsUnread(st, f) /\ f # meta[offs + 1]
    BY <1>2, <2>1 DEF ReadSoFar
  <2>3. st[h] + Width(h) <= st[f]
    BY <1>1, <2>1, PlaceFacts
  <2>4. NotedPlace(f)'.cnt = 0
    BY <1>10, <2>1, <2>2 DEF FieldIsUnread
  <2>5. offs' <= st[f]
    BY <1>2, <1>4, <2>3
  <2>6. 0 <= Unread'
    BY <1>1, <1>2, <1>4, <1>7 DEF Unread
  <2> QED BY <2>4, <2>5, <2>6 DEF FieldIsUnread
<1>14. ASSUME NEW c \in Ids0 PROVE CellIsRead(c)'
  <2>1. CellIsRead(c)
    BY <1>14 DEF ReadSoFar
  <2>2. <<d1, c>> \in F /\ <<data_size, c>> \in F /\ <<refs, c>> \in F /\ <<data, c>> \in F
    BY <1>14 DEF Fields, d1, data_size, refs, data
  <2>3. /\ Width(<<d1, c>>) > 0 /\ Width(<<data_size, c>>) > 0
        /\ Width(<<data, c>>) = Len(block[c].data) /\ block[c].data \in Seq(Bit)
    BY <1>1, <1>14, FieldFacts, BlockFacts DEF Width, BlockSize
  <2>4. IsRead(<<d1, c>>)' <=> IsRead(<<d1, c>>) \/ h = <<d1, c>>
    BY ONLY <1>6, <2>2, <2>3
  <2>5. IsRead(<<data_size, c>>)' <=> IsRead(<<data_size, c>>) \/ h = <<data_size, c>>
    BY ONLY <1>6, <2>2, <2>3
  <2>6. /\ IsRead(<<data, c>>) \/ h = <<data, c>> => IsRead(<<data, c>>)'
        /\ IsRead(<<data, c>>)' => \/ IsRead(<<data, c>>) \/ h = <<data, c>>
                                   \/ Len(block[c].data) = 0
    BY ONLY <1>6, <2>2, <2>3
  <2>7. Len(block[c].data) = 0 => block[c].data = << >>
    BY <2>3, EmptySeq
  <2>8. /\ d1 # data_size /\ d1 # data /\ data_size # data
        /\ d1 # refs /\ data_size # refs /\ refs # data
    BY DEF d1, data_size, refs, data
  <2>11. /\ IsRead(<<refs, c>>) \/ h = <<refs, c>> => IsRead(<<refs, c>>)'
         /\ IsRead(<<refs, c>>)' => \/ IsRead(<<refs, c>>) \/ h = <<refs, c>>
                                    \/ block[c].refs = << >>
    <3>1. Width(<<refs, c>>) = 0 => block[c].refs = << >>
      BY <1>1, <1>14, NoReferences
    <3> QED BY <1>6, <2>2, <3>1
  <2>9. CASE c = h[2]
    <3>1. RightParts(cells'[c], c, h[1])
      BY <1>8, <1>9, <2>9
    <3>2. /\ h = <<d1, c>> <=> h[1] = d1
          /\ h = <<data_size, c>> <=> h[1] = data_size
          /\ h = <<refs, c>> <=> h[1] = refs
          /\ h = <<data, c>> <=> h[1] = data
      BY <1>3, <2>9
    <3>3. cells'[c].refs = IF IsRead(<<refs, c>>)' THEN block'[c].refs ELSE << >>
      BY <1>5, <2>1, <2>8, <2>11, <3>1, <3>2 DEF CellIsRead, RightParts
    <3> QED BY <1>5, <2>1, <2>4, <2>5, <2>6, <2>7, <2>8, <3>1, <3>2, <3>3
            DEF CellIsRead, RightParts
  <2>10. CASE c # h[2]
    <3>1. /\ cells'[c] = cells[c] /\ h # <<d1, c>> /\ h # <<data_size, c>>
          /\ h # <<refs, c>> /\ h # <<data, c>>
      BY <1>3, <1>9, <1>14, <2>10
    <3> QED BY <1>5, <2>1, <2>4, <2>5, <2>6, <2>7, <2>11, <3>1 DEF CellIsRead
  <2> QED BY <2>9, <2>10
<1>15. ReadSoFar(st)'
  BY <1>5, <1>12, <1>13, <1>14 DEF ReadSoFar
<1>16. BeginningNoted(st)'
  BY <1>4 DEF BeginningNoted, Advancing
<1>17. \E e \in TokenEnds' : TokensFollowed(e)'
  <2>1. PICK e \in TokenEnds : TokensFollowed(e)
    BY <1>1 DEF IInv, DecInv
  <2>2. TokensFollowed(e)'
    BY <1>4, <1>5, <2>1 DEF TokensFollowed
  <2> QED BY <1>5, <2>2
<1>18. EncInv'
  BY EncUnchangedOK DEF IInv
<1>19. dpc' # "start" /\ epc' = "done"
  BY <1>1, <1>4, <1>5
<1> QED BY <1>5, <1>11, <1>15, <1>16, <1>17, <1>18, <1>19 DEF IInv, DecInv
-----------------------------------------------------------------------------
(* When the references or the data of a cell are next, their numbers are known. *)
LEMMA CountsKnown ==
    ASSUME IInv, dpc # "start", NEW st \in Placing(Fields(BlockSize)), ReadSoFar(st),
           offs < Len(bits), NextMeta[1] \in {refs, data}
    PROVE  LET c == NextMeta[2]
           IN  /\ cells[c].cntRefs = Len(block[c].refs)
               /\ cells[c].cntBits = Len(block[c].data)
<1>1. /\ block \in Blocks /\ BlockSize \in Nat \ {0} /\ Len(bits) \in Nat /\ offs \in Nat
  BY DecFacts
<1>2. PICK h \in Fields(BlockSize) : h = NextMeta /\ st[h] = offs
  BY NextIsRight
<1>3. PICK c \in 0..BlockSize - 1 : h = <<h[1], c>> /\ h[2] = c
  BY <1>1, FieldOrder
<1>4. CellIsRead(c)
  BY DEF ReadSoFar
<1>5. ASSUME NEW k \in {<<d1, c>>, <<data_size, c>>} PROVE IsRead(k)
  <2>1. k \in Fields(BlockSize) /\ Before(k, h)
    BY <1>2, <1>3 DEF Fields, Before, d1, data_size, refs, data
  <2>2. Width(k) > 0
    BY <1>1, FieldFacts
  <2>3. st[k] \in Nat /\ Width(k) \in Nat /\ st[k] + Width(k) <= offs
    BY <1>1, <1>2, <2>1, PlaceFacts
  <2>4. ~ IsRead(k) => offs <= st[k]
    BY <2>1, <2>2 DEF ReadSoFar, FieldIsUnread
  <2> QED BY <1>1, <2>2, <2>3, <2>4
<1> QED BY <1>2, <1>3, <1>4, <1>5 DEF CellIsRead

(* What is decoded is the symbol that was encoded, and as soon as its code is
   complete. *)
LEMMA DecodesRight ==
    ASSUME IInv, dpc # "start", NEW st \in Placing(Fields(BlockSize)), ReadSoFar(st),
           offs < Len(bits), NEW code, IsPrefixCode(code), NEW x \in DOMAIN code,
           FieldBits(block, NextMeta) = code[x]
    PROVE  /\ \A s \in DOMAIN code :
                Decodes(code, s) => s = x /\ offs + Width(NextMeta) <= Len(outBits)
           /\ offs + Width(NextMeta) <= Len(outBits) => Decodes(code, x)
<1>1. /\ block \in Blocks /\ bits \in Seq(Bit) /\ Len(bits) \in Nat /\ offs \in Nat
      /\ Len(outBits) \in Nat /\ offs <= Len(outBits) /\ Len(outBits) <= Len(bits)
      /\ Unread = Len(outBits) - offs
      /\ outBits \in Seq(Bit) /\ \A k \in 1..Len(outBits) : outBits[k] = bits[k]
  BY DecFacts DEF DecType, Unread
<1>2. PICK h \in Fields(BlockSize) : h = NextMeta /\ st[h] = offs
  BY NextIsRight
<1>3. /\ Width(h) = Len(code[x]) /\ offs + Len(code[x]) <= Len(bits)
      /\ \A l \in 1..Len(code[x]) : bits[offs + l] = code[x][l]
  BY <1>1, <1>2, PlaceFacts DEF Width
<1> DEFINE rest == SubSeq(bits, offs + 1, Len(bits))
<1>4. rest \in Seq(Bit) /\ offs \in 0..Len(bits)
  BY <1>1, CutAt
<1> HIDE DEF rest
<1>5. \A s \in DOMAIN code : code[s] \in Seq(Bit) /\ Len(code[s]) \in Nat
  BY LenProperties DEF IsPrefixCode
<1>6. ASSUME NEW s \in DOMAIN code, offs + Len(code[s]) <= Len(bits),
             \A l \in 1..Len(code[s]) : bits[offs + l] = code[s][l]
      PROVE  StartsWith(rest, code[s])
  <2>1. code[s] \in Seq(Bit)
    BY <1>5
  <2> QED BY ONLY <1>1, <1>4, <1>6, <2>1, PrefixAt DEF rest
<1>7. ASSUME NEW s \in DOMAIN code, Decodes(code, s)
      PROVE  s = x /\ offs + Width(h) <= Len(outBits)
  <2> DEFINE cut == SubSeq(outBits, offs + 1, offs + Len(code[s]))
  <2>1. Len(code[s]) <= Unread /\ cut = code[s]
    BY <1>7 DEF Decodes
  <2>2. offs + Len(code[s]) <= Len(outBits) /\ offs + Len(code[s]) \in Nat
        /\ offs <= offs + Len(code[s])
    BY <1>1, <1>5, <2>1
  <2>3. \A l \in 1..(offs + Len(code[s])) - offs : cut[l] = outBits[offs + l]
    BY ONLY <1>1, <2>2, CutAt
  <2> HIDE DEF cut
  <2>4. ASSUME NEW l \in 1..Len(code[s]) PROVE bits[offs + l] = code[s][l]
    <3>1. l \in 1..(offs + Len(code[s])) - offs /\ offs + l \in 1..Len(outBits)
      BY <1>1, <1>5, <2>2
    <3> QED BY <1>1, <2>1, <2>3, <3>1
  <2>5. offs + Len(code[s]) <= Len(bits)
    BY <1>1, <2>2
  <2>6. StartsWith(rest, code[s]) /\ StartsWith(rest, code[x])
    BY <1>3, <1>6, <2>4, <2>5
  <2>7. s = x
    BY ONLY <1>4, <1>7, <2>6, OneSymbol, IsPrefixCode(code), x \in DOMAIN code
  <2> QED BY <1>3, <2>2, <2>7
<1>8. ASSUME offs + Width(h) <= Len(outBits) PROVE Decodes(code, x)
  <2> DEFINE n == Len(code[x])
             cut == SubSeq(outBits, offs + 1, offs + n)
  <2>1. n \in Nat /\ code[x] \in Seq(Bit) /\ offs + n \in Nat
        /\ offs <= offs + n /\ offs + n <= Len(outBits) /\ (offs + n) - offs = n
    BY <1>1, <1>3, <1>5, <1>8
  <2>2. cut \in Seq(Bit) /\ Len(cut) = n /\ \A l \in 1..n : cut[l] = outBits[offs + l]
    <3>1. cut \in Seq(Bit) /\ Len(cut) = (offs + n) - offs
          /\ \A l \in 1..(offs + n) - offs : cut[l] = outBits[offs + l]
      BY ONLY <1>1, <2>1, CutAt
    <3> QED BY <2>1, <3>1
  <2> HIDE DEF cut
  <2>3. ASSUME NEW l \in 1..n PROVE cut[l] = code[x][l]
    <3>1. offs + l \in 1..Len(outBits)
      BY <1>1, <2>1
    <3> QED BY <1>1, <1>3, <2>2, <3>1
  <2>4. cut = code[x]
    BY <2>1, <2>2, <2>3, SeqEqual
  <2>5. n <= Unread
    BY <1>1, <2>1
  <2> QED BY <2>4, <2>5 DEF Decodes, cut
<1> QED BY <1>2, <1>7, <1>8

(* The next field can be read as soon as it is complete. *)
LEMMA ReadWhenComplete ==
    ASSUME IInv, dpc # "start", NEW st \in Placing(Fields(BlockSize)), ReadSoFar(st),
           offs < Len(bits)
    PROVE  CanRead <=> offs + Width(NextMeta) <= Len(outBits)
<1>1. /\ block \in Blocks /\ BlockSize \in Nat \ {0} /\ nCells = BlockSize /\ offs \in Nat
      /\ Len(outBits) \in Nat /\ Unread = Len(outBits) - offs
  BY DecFacts DEF Unread
<1>2. PICK h \in Fields(BlockSize) : h = NextMeta
  BY NextIsRight
<1>3. PICK t \in d1..data, c \in 0..BlockSize - 1 : h = <<t, c>>
  BY DEF Fields
<1>4. /\ FieldBits(block, <<d1, c>>) = D1Code[D1(block[c])]
      /\ FieldBits(block, <<data_size, c>>) = SizeCode[Len(block[c].data)]
      /\ Width(<<refs, c>>) = Len(block[c].refs) * RefWidth(BlockSize)
      /\ Width(<<data, c>>) = Len(block[c].data)
      /\ Width(h) \in Nat
  BY <1>1, FieldFacts, AnyField DEF Width
<1>5. D1(block[c]) \in DOMAIN D1Code /\ Len(block[c].data) \in DOMAIN SizeCode
  BY <1>1, BlockFacts DEF BlockSize
<1>6. IsPrefixCode(D1Code) /\ IsPrefixCode(SizeCode)
  BY LayoutAssumption
<1>7. t = d1 \/ t = data_size \/ t = refs \/ t = data
  BY <1>3 DEF d1, data_size, refs, data
<1>8. /\ none # d1 /\ none # data_size /\ none # refs /\ none # data /\ d1 # data_size
      /\ d1 # refs /\ d1 # data /\ data_size # refs /\ data_size # data /\ refs # data
  BY DEF none, d1, data_size, refs, data
<1>9. Width(h) <= Unread <=> offs + Width(h) <= Len(outBits)
  BY <1>1, <1>4
<1>10. NextMeta[1] = t /\ NextMeta[2] = c
  BY <1>2, <1>3
<1>11. CASE t = d1
  <2>1. CanRead <=> \E s \in DOMAIN D1Code : Decodes(D1Code, s)
    BY <1>8, <1>10, <1>11 DEF CanRead
  <2>2. FieldBits(block, NextMeta) = D1Code[D1(block[c])]
    BY <1>2, <1>3, <1>4, <1>11
  <2> QED BY <1>5, <1>6, <2>1, <2>2, DecodesRight
<1>12. CASE t = data_size
  <2>1. CanRead <=> \E s \in DOMAIN SizeCode : Decodes(SizeCode, s)
    BY <1>8, <1>10, <1>12 DEF CanRead
  <2>2. FieldBits(block, NextMeta) = SizeCode[Len(block[c].data)]
    BY <1>2, <1>3, <1>4, <1>12
  <2> QED BY <1>5, <1>6, <2>1, <2>2, DecodesRight
<1>13. CASE t = refs
  <2>1. CanRead <=> cells[c].cntRefs * RefWidth(nCells) <= Unread
    BY <1>8, <1>10, <1>13 DEF CanRead
  <2>2. cells[c].cntRefs = Len(block[c].refs)
    BY <1>10, <1>13, CountsKnown
  <2> QED BY <1>1, <1>2, <1>3, <1>4, <1>9, <1>13, <2>1, <2>2
<1>14. CASE t = data
  <2>1. CanRead <=> cells[c].cntBits <= Unread
    BY <1>8, <1>10, <1>14 DEF CanRead
  <2>2. cells[c].cntBits = Len(block[c].data)
    BY <1>10, <1>14, CountsKnown
  <2> QED BY <1>2, <1>3, <1>4, <1>9, <1>14, <2>1, <2>2
<1> QED BY <1>7, <1>11, <1>12, <1>13, <1>14

(* There is a place for every field, and with a field to come there are bits to come. *)
LEMMA PlaceExists ==
    ASSUME IInv, dpc # "start"
    PROVE  \E st \in Placing(Fields(BlockSize)) :
            /\ ReadSoFar(st) /\ BeginningNoted(st)
            /\ NextMeta # NoMeta => offs < Len(bits)
<1>1. PICK st \in Placing(Fields(BlockSize)) : ReadSoFar(st) /\ BeginningNoted(st)
  BY DEF IInv, DecInv
<1>2. Len(bits) \in Nat /\ offs \in Nat /\ offs <= Len(bits)
  BY DecFacts
<1> QED BY <1>1, <1>2, NextIsRight

(* The parts of the next field. *)
LEMMA NextFacts ==
    ASSUME IInv, dpc # "start", NEW st \in Placing(Fields(BlockSize)), ReadSoFar(st),
           offs < Len(bits)
    PROVE  LET c == NextMeta[2]
               t == NextMeta[1]
           IN  /\ c \in 0..BlockSize - 1 /\ t \in d1..data /\ NextMeta = <<t, c>>
               /\ DOMAIN cells[c] = CellParts
               /\ FieldBits(block, <<d1, c>>) = D1Code[D1(block[c])]
               /\ FieldBits(block, <<data_size, c>>) = SizeCode[Len(block[c].data)]
               /\ Width(<<refs, c>>) = Len(block[c].refs) * RefWidth(nCells)
               /\ FieldBits(block, <<data, c>>) = block[c].data
               /\ Len(block[c].refs) \in 0..4 /\ block[c].special \in {0, 1}
               /\ block[c].data \in Seq(Bit) /\ Len(block[c].data) \in Nat
               /\ D1(block[c]) \in DOMAIN D1Code /\ Len(block[c].data) \in DOMAIN SizeCode
               /\ t \in {refs, data} =>
                    /\ cells[c].cntRefs = Len(block[c].refs)
                    /\ cells[c].cntBits = Len(block[c].data)
<1>1. block \in Blocks /\ BlockSize \in Nat \ {0} /\ nCells = BlockSize /\ DecType
  BY DecFacts
<1>2. PICK h \in Fields(BlockSize) : h = NextMeta
  BY NextIsRight
<1>3. PICK c \in 0..BlockSize - 1, t \in d1..data : h = <<t, c>> /\ h[1] = t /\ h[2] = c
  BY <1>1, <1>2, FieldOrder
<1>4. NextMeta = <<t, c>> /\ NextMeta[2] = c /\ NextMeta[1] = t
  BY <1>2, <1>3
<1>5. t \in {refs, data} =>
        cells[c].cntRefs = Len(block[c].refs) /\ cells[c].cntBits = Len(block[c].data)
  BY <1>4, CountsKnown
<1>6. /\ Len(block[c].refs) \in 0..4 /\ block[c].special \in {0, 1}
      /\ block[c].data \in Seq(Bit) /\ Len(block[c].data) \in Nat
      /\ D1(block[c]) \in DOMAIN D1Code /\ Len(block[c].data) \in DOMAIN SizeCode
  BY <1>1, BlockFacts DEF BlockSize
<1>7. /\ FieldBits(block, <<d1, c>>) = D1Code[D1(block[c])]
      /\ FieldBits(block, <<data_size, c>>) = SizeCode[Len(block[c].data)]
      /\ Width(<<refs, c>>) = Len(block[c].refs) * RefWidth(nCells)
      /\ FieldBits(block, <<data, c>>) = block[c].data
  BY <1>1, FieldFacts
<1>8. DOMAIN cells[c] = CellParts
  BY <1>1 DEF DecType
<1> QED BY <1>4, <1>5, <1>6, <1>7, <1>8

(* d1 holds the number of references and the special flag. *)
LEMMA D1Parts ==
    ASSUME NEW cell, Len(cell.refs) \in 0..4, cell.special \in {0, 1}
    PROVE  D1(cell) % 8 = Len(cell.refs) /\ (D1(cell) \div 8) % 2 = cell.special
<1>1. \A l \in 0..4, x \in {0, 1} : (l + 8 * x) % 8 = l /\ ((l + 8 * x) \div 8) % 2 = x
  OBVIOUS
<1> QED BY <1>1 DEF D1

LEMMA ReadD1OK ==
    ASSUME IInv, ReadD1, UNCHANGED <<encVars, nCells, tokens>> PROVE IInv'
<1>1. PICK s \in DOMAIN D1Code :
        /\ Advancing /\ NextMeta[1] = d1 /\ Decodes(D1Code, s)
        /\ Read(NextMeta, Len(D1Code[s]),
                [cells[NextMeta[2]] EXCEPT !.cntRefs = s % 8, !.special = (s \div 8) % 2])
  BY DEF ReadD1
<1>2. dpc # "start"
  BY <1>1 DEF Advancing
<1>3. PICK st \in Placing(Fields(BlockSize)) :
        ReadSoFar(st) /\ (NextMeta # NoMeta => offs < Len(bits))
  BY <1>2, PlaceExists
<1>4. NextMeta # NoMeta /\ d1 # data_size /\ d1 # refs /\ d1 # data
  BY <1>1 DEF NoMeta, none, d1, data_size, refs, data
<1>5. offs < Len(bits)
  BY <1>3, <1>4
<1> DEFINE c == NextMeta[2]
           cell == [cells[c] EXCEPT !.cntRefs = s % 8, !.special = (s \div 8) % 2]
<1>6. /\ NextMeta = <<d1, c>> /\ DOMAIN cells[c] = CellParts
      /\ FieldBits(block, NextMeta) = D1Code[D1(block[c])]
      /\ D1(block[c]) \in DOMAIN D1Code
      /\ Len(block[c].refs) \in 0..4 /\ block[c].special \in {0, 1}
  <2>1. NextMeta = <<d1, c>>
    BY <1>1, <1>2, <1>3, <1>5, NextFacts
  <2> QED BY <1>2, <1>3, <1>5, <2>1, NextFacts
<1>7. s = D1(block[c]) /\ offs + Width(NextMeta) <= Len(outBits)
  BY <1>1, <1>2, <1>3, <1>5, <1>6, DecodesRight, LayoutAssumption
<1>8. Len(D1Code[s]) = Width(NextMeta)
  BY <1>6, <1>7 DEF Width
<1>9. RightParts(cell, c, NextMeta[1])
  <2>1. s % 8 = Len(block[c].refs) /\ (s \div 8) % 2 = block[c].special
    BY <1>6, <1>7, D1Parts
  <2> QED BY <1>1, <1>4, <1>6, <2>1 DEF RightParts, CellParts
<1> QED BY <1>1, <1>3, <1>5, <1>7, <1>8, <1>9, ReadOK

LEMMA ReadDataSizeOK ==
    ASSUME IInv, ReadDataSize, UNCHANGED <<encVars, nCells, tokens>> PROVE IInv'
<1>1. PICK s \in DOMAIN SizeCode :
        /\ Advancing /\ NextMeta[1] = data_size /\ Decodes(SizeCode, s)
        /\ Read(NextMeta, Len(SizeCode[s]), [cells[NextMeta[2]] EXCEPT !.cntBits = s])
  BY DEF ReadDataSize
<1>2. dpc # "start"
  BY <1>1 DEF Advancing
<1>3. PICK st \in Placing(Fields(BlockSize)) :
        ReadSoFar(st) /\ (NextMeta # NoMeta => offs < Len(bits))
  BY <1>2, PlaceExists
<1>4. NextMeta # NoMeta /\ d1 # data_size /\ data_size # refs /\ data_size # data
  BY <1>1 DEF NoMeta, none, d1, data_size, refs, data
<1>5. offs < Len(bits)
  BY <1>3, <1>4
<1> DEFINE c == NextMeta[2]
           cell == [cells[c] EXCEPT !.cntBits = s]
<1>6. /\ NextMeta = <<data_size, c>> /\ DOMAIN cells[c] = CellParts
      /\ FieldBits(block, NextMeta) = SizeCode[Len(block[c].data)]
      /\ Len(block[c].data) \in DOMAIN SizeCode
  <2>1. NextMeta = <<data_size, c>>
    BY <1>1, <1>2, <1>3, <1>5, NextFacts
  <2> QED BY <1>2, <1>3, <1>5, <2>1, NextFacts
<1>7. s = Len(block[c].data) /\ offs + Width(NextMeta) <= Len(outBits)
  BY <1>1, <1>2, <1>3, <1>5, <1>6, DecodesRight, LayoutAssumption
<1>8. Len(SizeCode[s]) = Width(NextMeta)
  BY <1>6, <1>7 DEF Width
<1>9. RightParts(cell, c, NextMeta[1])
  BY <1>1, <1>4, <1>6, <1>7 DEF RightParts, CellParts
<1> QED BY <1>1, <1>3, <1>5, <1>7, <1>8, <1>9, ReadOK

(* The bits of a reference are the number that was stored of it. *)
LEMMA RefIsRead ==
    ASSUME IInv, dpc # "start", NEW st \in Placing(Fields(BlockSize)), ReadSoFar(st),
           offs < Len(bits), NextMeta = <<refs, NextMeta[2]>>,
           offs + Width(NextMeta) <= Len(outBits)
    PROVE  \A j \in 1..Len(block[NextMeta[2]].refs) :
             ReadRef(NextMeta[2], j) = block[NextMeta[2]].refs[j]
<1>1. /\ block \in Blocks /\ BlockSize \in Nat \ {0} /\ nCells = BlockSize
      /\ outBits \in Seq(Bit) /\ Len(outBits) \in Nat /\ offs \in Nat /\ Len(bits) \in Nat
      /\ \A k \in 1..Len(outBits) : outBits[k] = bits[k]
  BY DecFacts DEF DecType
<1>2. PICK h \in Fields(BlockSize) : h = NextMeta /\ st[h] = offs
  BY NextIsRight
<1>3. PICK c \in 0..BlockSize - 1 : c = NextMeta[2] /\ h = <<refs, c>>
  BY <1>2, NextFacts
<1> SUFFICES ASSUME NEW j \in 1..Len(block[c].refs) PROVE ReadRef(c, j) = block[c].refs[j]
  BY <1>3
<1> DEFINE w == RefWidth(nCells)
           l == Len(block[c].refs)
           v == RefStore(nCells, c, block[c].refs[j])
           slice == SubSeq(outBits, offs + (j - 1) * w + 1, offs + j * w)
<1>4. /\ FieldBits(block, h) = RefBits(nCells, c, block[c]) /\ Width(h) = l * w
      /\ w \in Nat /\ l \in 0..4
  <2>1. FieldBits(block, h) = RefBits(nCells, c, block[c])
    BY <1>1, <1>3 DEF FieldBits, d1, data_size, refs, data, BlockSize
  <2>2. RefWidth(BlockSize) \in 1..64 /\ l \in 0..4
    BY <1>1, BlockFacts DEF BlockSize
  <2>3. \A x \in 1..64 : x \in Nat
    OBVIOUS
  <2> QED BY <1>1, <1>3, <2>1, <2>2, <2>3, FieldFacts
<1>5. /\ v \in 0..Pow2[w] - 1 /\ block[c].refs[j] = (nCells + c - (v + 1)) % nCells
      /\ \A p \in 1..w :
            /\ (j - 1) * w + p \in 1..l * w
            /\ RefBits(nCells, c, block[c])[(j - 1) * w + p] = UintBits(v, w)[p]
  <2>1. nCells = Cardinality(DOMAIN block) /\ c \in 0..nCells - 1
    BY <1>1 DEF BlockSize
  <2>2. StoredRef(nCells, c, block[c], j)
    BY <1>1, <2>1, RefBitsFacts
  <2> QED BY <2>2 DEF StoredRef
<1>6. UintBits(v, w) \in Seq(Bit) /\ Len(UintBits(v, w)) = w /\ UintOf(UintBits(v, w)) = v
  BY <1>4, <1>5, UintBack
<1> DEFINE a == offs + (j - 1) * w
<1>7. a \in Nat /\ offs + j * w = a + w /\ a + w <= Len(outBits)
  <2>1. l = 0 \/ l = 1 \/ l = 2 \/ l = 3 \/ l = 4
    BY <1>4
  <2>2. j \in Nat /\ 1 <= j /\ j <= l /\ w \in Nat /\ offs + l * w <= Len(outBits)
    BY <1>2, <1>4
  <2>3. l \in Nat /\ offs \in Nat /\ Len(outBits) \in Nat
    BY <1>1, <1>4
  <2> HIDE DEF l, w
  <2>4. j = 1 \/ j = 2 \/ j = 3 \/ j = 4
    BY ONLY <2>1, <2>2
  <2>5. offs + (j - 1) * w + w <= offs + l * w /\ offs + j * w = (offs + (j - 1) * w) + w
    BY ONLY <2>1, <2>2, <2>3, <2>4
  <2>6. offs + (j - 1) * w \in Nat
    BY ONLY <2>2, <2>3, <2>4
  <2> QED BY ONLY <2>2, <2>3, <2>5, <2>6
<1>8. slice = UintBits(v, w)
  <2>1. slice = SubSeq(outBits, a + 1, a + w)
    BY <1>7
  <2>2. \A p \in 1..w : bits[a + p] = UintBits(v, w)[p]
    <3> TAKE p \in 1..w
    <3>1. (j - 1) * w + p \in 1..Width(h)
      BY <1>4, <1>5
    <3>2. bits[st[h] + ((j - 1) * w + p)] = FieldBits(block, h)[(j - 1) * w + p]
      BY <1>1, <3>1, PlaceFacts
    <3>3. st[h] + ((j - 1) * w + p) = a + p
      <4>1. (j - 1) * w \in Int
        BY <1>4
      <4> HIDE DEF w
      <4> QED BY <1>1, <1>2, <4>1
    <3> QED BY <1>4, <1>5, <3>2, <3>3
  <2> HIDE DEF a, w, v, slice
  <2>3. \A p \in 1..w : a + p \in 1..Len(outBits)
    BY <1>1, <1>4, <1>7
  <2>4. /\ a \in Nat /\ a + w \in Nat /\ a <= a + w /\ (a + w) - a = w
        /\ a + w <= Len(outBits) /\ outBits \in Seq(Bit)
    BY <1>1, <1>4, <1>7
  <2>5. /\ slice \in Seq(Bit) /\ Len(slice) = w
        /\ \A p \in 1..w : slice[p] = outBits[a + p]
    <3>1. /\ SubSeq(outBits, a + 1, a + w) \in Seq(Bit)
          /\ Len(SubSeq(outBits, a + 1, a + w)) = (a + w) - a
          /\ \A p \in 1..(a + w) - a : SubSeq(outBits, a + 1, a + w)[p] = outBits[a + p]
      BY ONLY <2>4, CutAt
    <3> QED BY <2>1, <2>4, <3>1
  <2>6. \A p \in 1..w : slice[p] = UintBits(v, w)[p]
    BY <1>1, <2>2, <2>3, <2>5
  <2>7. UintBits(v, w) \in Seq(Bit) /\ Len(UintBits(v, w)) = Len(slice)
    BY <1>6, <2>5
  <2> QED BY <2>5, <2>6, <2>7, SeqEqual
<1>9. ReadRef(c, j) = (nCells + c - (UintOf(slice) + 1)) % nCells
  BY DEF ReadRef
<1> HIDE DEF v, slice, w
<1> QED BY <1>5, <1>6, <1>8, <1>9

LEMMA ReadRefsOK ==
    ASSUME IInv, ReadRefs, UNCHANGED <<encVars, nCells, tokens>> PROVE IInv'
<1> DEFINE c == NextMeta[2]
           cnt == cells[c].cntRefs * RefWidth(nCells)
           cell == [cells[c] EXCEPT !.refs = [j \in 1..cells[c].cntRefs |-> ReadRef(c, j)]]
<1>1. Advancing /\ NextMeta[1] = refs /\ cnt <= Unread /\ Read(NextMeta, cnt, cell)
  BY DEF ReadRefs
<1>2. dpc # "start"
  BY <1>1 DEF Advancing
<1>3. PICK st \in Placing(Fields(BlockSize)) :
        ReadSoFar(st) /\ (NextMeta # NoMeta => offs < Len(bits))
  BY <1>2, PlaceExists
<1>4. NextMeta # NoMeta /\ refs # d1 /\ refs # data_size /\ refs # data
  BY <1>1 DEF NoMeta, none, d1, data_size, refs, data
<1>5. offs < Len(bits)
  BY <1>3, <1>4
<1>6. /\ NextMeta = <<refs, c>> /\ DOMAIN cells[c] = CellParts
      /\ Width(NextMeta) = cnt
  <2>1. NextMeta = <<refs, c>>
    BY <1>1, <1>2, <1>3, <1>5, NextFacts
  <2> QED BY <1>1, <1>2, <1>3, <1>5, <2>1, NextFacts
<1> HIDE DEF cnt
<1>7. offs + Width(NextMeta) <= Len(outBits)
  <2>1. CanRead
    BY <1>1, <1>4 DEF CanRead, cnt, none, d1, data_size, refs, data
  <2> QED BY <1>2, <1>3, <1>5, <2>1, ReadWhenComplete
<1>8. cell.refs = block[c].refs
  <2>1. DOMAIN cells[c] = CellParts /\ cells[c].cntRefs = Len(block[c].refs)
    BY <1>1, <1>2, <1>3, <1>5, NextFacts
  <2>2. cell.refs = [j \in 1..Len(block[c].refs) |-> ReadRef(c, j)]
    BY <2>1 DEF CellParts
  <2>3. c \in 0..BlockSize - 1 /\ block \in Blocks
    BY <1>2, <1>3, <1>5, NextFacts, DecFacts
  <2>4. block[c].refs \in Seq(0..c - 1)
    BY <2>3, BlockFacts DEF BlockSize
  <2>5. \A j \in 1..Len(block[c].refs) : ReadRef(c, j) = block[c].refs[j]
    BY <1>2, <1>3, <1>5, <1>6, <1>7, RefIsRead
  <2>6. block[c].refs = [j \in 1..Len(block[c].refs) |-> block[c].refs[j]]
    BY <2>4
  <2> QED BY <2>2, <2>5, <2>6
<1> HIDE DEF c
<1>9. RightParts(cell, c, NextMeta[1])
  BY <1>1, <1>4, <1>6, <1>8 DEF RightParts, CellParts
<1> QED BY <1>1, <1>3, <1>5, <1>6, <1>7, <1>9, ReadOK DEF c

LEMMA ReadDataOK ==
    ASSUME IInv, ReadData, UNCHANGED <<encVars, nCells, tokens>> PROVE IInv'
<1> DEFINE c == NextMeta[2]
           cnt == cells[c].cntBits
           got == SubSeq(outBits, offs + 1, offs + cnt)
           cell == [cells[c] EXCEPT !.data = got]
<1>1. Advancing /\ NextMeta[1] = data /\ cnt <= Unread /\ Read(NextMeta, cnt, cell)
  BY DEF ReadData
<1>2. dpc # "start"
  BY <1>1 DEF Advancing
<1>3. PICK st \in Placing(Fields(BlockSize)) :
        ReadSoFar(st) /\ (NextMeta # NoMeta => offs < Len(bits))
  BY <1>2, PlaceExists
<1>4. NextMeta # NoMeta /\ data # d1 /\ data # data_size /\ data # refs
  BY <1>1 DEF NoMeta, none, d1, data_size, refs, data
<1>5. offs < Len(bits)
  BY <1>3, <1>4
<1>6. /\ NextMeta = <<data, c>> /\ DOMAIN cells[c] = CellParts
      /\ FieldBits(block, NextMeta) = block[c].data
      /\ block[c].data \in Seq(Bit) /\ cnt = Len(block[c].data) /\ cnt \in Nat
      /\ Width(NextMeta) = cnt
  <2>1. NextMeta = <<data, c>>
    BY <1>1, <1>2, <1>3, <1>5, NextFacts
  <2> QED BY <1>1, <1>2, <1>3, <1>5, <2>1, NextFacts DEF Width
<1>7. offs + Width(NextMeta) <= Len(outBits)
  <2>1. CanRead
    BY <1>1, <1>4 DEF CanRead, none, d1, data_size, refs, data
  <2> QED BY <1>2, <1>3, <1>5, <2>1, ReadWhenComplete
<1>8. got = block[c].data
  <2>1. /\ outBits \in Seq(Bit) /\ Len(outBits) \in Nat /\ offs \in Nat /\ Len(bits) \in Nat
        /\ \A k \in 1..Len(outBits) : outBits[k] = bits[k]
        /\ block \in Blocks
    BY <1>2, DecFacts DEF DecType
  <2>2. PICK h \in Fields(BlockSize) : h = NextMeta /\ st[h] = offs
    BY <1>2, <1>3, <1>5, NextIsRight
  <2>3. \A l \in 1..cnt : bits[offs + l] = block[c].data[l]
    BY SMTT(30), <1>6, <2>1, <2>2, PlaceFacts DEF Width
  <2> HIDE DEF cnt, c
  <2>4. offs + cnt \in Nat /\ offs <= offs + cnt /\ offs + cnt <= Len(outBits)
        /\ (offs + cnt) - offs = cnt
    BY <1>6, <1>7, <2>1
  <2>5. got \in Seq(Bit) /\ Len(got) = cnt /\ \A l \in 1..cnt : got[l] = outBits[offs + l]
    <3>1. got \in Seq(Bit) /\ Len(got) = (offs + cnt) - offs
          /\ \A l \in 1..(offs + cnt) - offs : got[l] = outBits[offs + l]
      BY ONLY <2>1, <2>4, CutAt
    <3> QED BY <2>4, <3>1
  <2> HIDE DEF got
  <2>6. ASSUME NEW l \in 1..cnt PROVE got[l] = block[c].data[l]
    <3>1. offs + l \in 1..Len(outBits)
      BY <1>6, <2>1, <2>4
    <3> QED BY <2>1, <2>3, <2>5, <3>1
  <2> QED BY <1>6, <2>5, <2>6, SeqEqual
<1> HIDE DEF cnt, got
<1>9. RightParts(cell, c, NextMeta[1])
  BY <1>1, <1>4, <1>6, <1>8 DEF RightParts, CellParts
<1> QED BY <1>1, <1>3, <1>5, <1>6, <1>7, <1>9, ReadOK
-----------------------------------------------------------------------------
(* What a token says of the places it goes from and to. *)
LEMMA TokenFacts ==
    ASSUME IInv, dpc # "start", NEW e \in TokenEnds, nextToken <= Len(tokens)
    PROVE  /\ nextToken \in 1..Len(tokens) /\ e[nextToken - 1] \in Nat /\ e[nextToken] \in Nat
           /\ tokens[nextToken].literal \in Seq(Bit)
           /\ TokenCovers(bits, meta, nCells, tokens[nextToken], e[nextToken - 1], e[nextToken])
<1>1. Len(tokens) \in Nat /\ tokens \in Seq(Token) /\ nextToken \in 1..Len(tokens) + 1
      /\ Len(bits) \in Nat
  BY DecFacts DEF DecType
<1>2. /\ nextToken \in 1..Len(tokens) /\ nextToken - 1 \in 0..Len(tokens)
      /\ nextToken \in 0..Len(tokens)
  BY <1>1
<1>3. tokens[nextToken] \in Token
  BY <1>1, <1>2, ElementOfSeq
<1>4. e \in [0..Len(tokens) -> 0..Len(bits)]
  BY DEF TokenEnds
<1>5. e[nextToken - 1] \in Nat /\ e[nextToken] \in Nat
  <2>1. e[nextToken - 1] \in 0..Len(bits) /\ e[nextToken] \in 0..Len(bits)
    BY <1>2, <1>4
  <2> QED BY <2>1
<1> QED BY <1>2, <1>3, <1>5 DEF TokenEnds, Token

(* The steps that read no field and note none. *)
LEMMA NothingRead ==
    ASSUME IInv, dpc # "start", UNCHANGED <<encVars, nCells, tokens>>,
           UNCHANGED <<offs, cells, cellMetas, lastMeta>>,
           NEW st \in Placing(Fields(BlockSize)), ReadSoFar(st),
           Len(outBits) <= Len(outBits'), Len(outBits') \in Nat
    PROVE  ReadSoFar(st)'
<1>1. Len(outBits) \in Nat /\ offs \in Nat /\ Unread' \in Int /\ Unread <= Unread'
  BY DecFacts DEF Unread
<1>2. /\ UNCHANGED <<block, bits, meta>> /\ Fields(BlockSize)' = Fields(BlockSize)
      /\ BlockSize' = BlockSize
  BY SamePlaces
<1>3. ASSUME NEW f \in Fields(BlockSize)
      PROVE  /\ IsRead(f)' <=> IsRead(f)
             /\ FieldIsRead(st, f) => FieldIsRead(st, f)'
             /\ FieldIsUnread(st, f) => FieldIsUnread(st, f)'
  <2>1. IsRead(f)' <=> IsRead(f)
    BY DEF IsRead
  <2>2. Width(f)' = Width(f) /\ NotedPlace(f)' = NotedPlace(f)
    BY <1>2 DEF Width, NotedPlace
  <2>3. NotedPlace(f).cnt \in Nat
    <3>1. /\ cellMetas \in [0..BlockSize - 1 -> [d1..data -> [start : Int, cnt : Nat]]]
          /\ BlockSize \in Nat
      BY DecFacts DEF DecType
    <3>2. f[2] \in 0..BlockSize - 1 /\ f[1] \in d1..data
      BY <3>1, FieldOrder
    <3> QED BY <3>1, <3>2 DEF NotedPlace
  <2>4. FieldIsRead(st, f) => FieldIsRead(st, f)'
    BY <1>2, <2>2 DEF FieldIsRead
  <2>5. Unread \in Int
    BY <1>1 DEF Unread
  <2>6. NotedPlace(f).cnt <= Unread => NotedPlace(f).cnt <= Unread'
    BY <1>1, <2>3, <2>5
  <2>7. FieldIsUnread(st, f) => FieldIsUnread(st, f)'
    BY <1>2, <2>2, <2>6 DEF FieldIsUnread
  <2> QED BY <2>1, <2>4, <2>7
<1>4. ASSUME NEW c \in 0..BlockSize - 1, CellIsRead(c) PROVE CellIsRead(c)'
  <2>1. /\ IsRead(<<d1, c>>)' <=> IsRead(<<d1, c>>)
        /\ IsRead(<<data_size, c>>)' <=> IsRead(<<data_size, c>>)
        /\ IsRead(<<refs, c>>)' <=> IsRead(<<refs, c>>)
        /\ IsRead(<<data, c>>)' <=> IsRead(<<data, c>>)
    BY DEF IsRead
  <2> QED BY <1>2, <1>4, <2>1 DEF CellIsRead
<1> QED BY <1>2, <1>3, <1>4 DEF ReadSoFar

(* The header makes the cells; nothing is read of them. *)
LEMMA ReadHeaderOK ==
    ASSUME IInv, epc = "done", ReadHeader, UNCHANGED <<encVars, nCells, tokens>> PROVE IInv'
<1>1. /\ dpc = "start" /\ cells' = [c \in Ids |-> UnreadCell]
      /\ cellMetas' = [c \in Ids |-> [t \in d1..data |-> UnreadField]]
      /\ dpc' = NextRound
      /\ UNCHANGED <<outBits, offs, lastMeta, nextToken, copyFrom, copyLeft>>
  BY DEF ReadHeader
<1>2. outBits = << >> /\ offs = 0 /\ lastMeta = NoMeta /\ nextToken = 1
  BY <1>1 DEF IInv, DecInv, DecInit
<1>3. /\ EncType /\ nCells = BlockSize /\ toPush = NoMeta /\ Placing(Pushed) # {}
      /\ \E e \in TokenEnds : e[Len(tokens)] = Len(bits)
  BY DEF IInv, EncInv
<1>4. /\ block \in Blocks /\ BlockSize \in Nat \ {0}
      /\ bits \in Seq(Bit) /\ Len(bits) \in Nat /\ Len(tokens) \in Nat
  BY <1>3, BlockFacts, LenProperties DEF EncType, BlockSize
<1>5. /\ Placing(Fields(BlockSize))' = Placing(Fields(BlockSize)) /\ BlockSize' = BlockSize
      /\ Fields(BlockSize)' = Fields(BlockSize) /\ TokenEnds' = TokenEnds
      /\ UNCHANGED <<block, bits, meta, epc, nCells, tokens>>
  BY SamePlaces
<1>6. Ids = 0..BlockSize - 1
  BY <1>3 DEF Ids
<1>7. dpc' = IF 1 <= Len(tokens) THEN "literal" ELSE "done"
  BY <1>1, <1>2 DEF NextRound, MoreTokens
<1>8. DecType'
  <2>1. UnreadField \in [start : Int, cnt : Nat]
    BY DEF UnreadField, Unset
  <2>2. cellMetas' \in [0..BlockSize - 1 -> [d1..data -> [start : Int, cnt : Nat]]]
    BY <1>1, <1>6, <2>1
  <2>3. DOMAIN UnreadCell = CellParts
    BY DEF UnreadCell, CellParts
  <2>4. DOMAIN cells' = 0..BlockSize - 1 /\ \A c \in 0..BlockSize - 1 : DOMAIN cells'[c] = CellParts
    BY <1>1, <1>6, <2>3
  <2>5. outBits' = << >> /\ Len(outBits') = 0 /\ offs' = 0 /\ lastMeta' = NoMeta /\ nextToken' = 1
    BY <1>1, <1>2
  <2>6. outBits' \in Seq(Bit) /\ 0 <= Len(bits) /\ nextToken' \in 1..Len(tokens) + 1
    BY <1>4, <2>5, EmptySeq
  <2> QED BY <1>5, <1>7, <2>2, <2>4, <2>5, <2>6 DEF DecType
<1>9. PICK st \in Placing(Fields(BlockSize)) : TRUE
  <2>1. Pushed = Fields(BlockSize)
    BY <1>3 DEF Pushed
  <2> QED BY <1>3, <2>1
<1>10. \A f : ~ IsRead(f)'
  BY <1>1, <1>2 DEF IsRead
<1>11. ASSUME NEW f \in Fields(BlockSize) PROVE FieldIsUnread(st, f)'
  <2>1. f[2] \in 0..BlockSize - 1 /\ f[1] \in d1..data
    BY <1>4, FieldOrder
  <2>2. NotedPlace(f)' = UnreadField
    BY <1>1, <1>6, <2>1 DEF NotedPlace
  <2>3. NotedPlace(f)'.cnt = 0
    BY <2>2 DEF UnreadField
  <2>4. Unread' = 0
    BY <1>1, <1>2 DEF Unread
  <2>5. offs' <= st[f]
    <3>1. st[f] \in Nat
      BY <1>4, PlaceFacts
    <3> QED BY <1>1, <1>2, <3>1
  <2> QED BY <2>3, <2>4, <2>5 DEF FieldIsUnread
<1>12. ASSUME NEW c \in 0..BlockSize - 1 PROVE CellIsRead(c)'
  <2>1. cells'[c] = UnreadCell
    BY <1>1, <1>6
  <2> QED BY <1>10, <2>1 DEF CellIsRead, UnreadCell
<1>13. ReadSoFar(st)'
  BY <1>5, <1>10, <1>11, <1>12 DEF ReadSoFar
<1>14. BeginningNoted(st)'
  <2>1. Unread' = 0
    BY <1>1, <1>2 DEF Unread
  <2> QED BY <2>1 DEF BeginningNoted
<1>15. \E e \in TokenEnds' : TokensFollowed(e)'
  <2>1. PICK e \in TokenEnds : e[Len(tokens)] = Len(bits)
    BY <1>3
  <2>2. e[0] = 0
    BY DEF TokenEnds
  <2>3. Len(outBits') = 0 /\ nextToken' = 1 /\ nextToken' - 1 = 0
    BY <1>1, <1>2
  <2>4. CASE 1 <= Len(tokens)
    BY <1>5, <1>7, <2>1, <2>2, <2>3, <2>4 DEF TokensFollowed
  <2>5. CASE ~ (1 <= Len(tokens))
    <3>1. Len(tokens) = 0
      BY <1>4, <2>5
    <3> QED BY <1>5, <1>7, <2>1, <2>2, <2>3, <2>5, <3>1 DEF TokensFollowed
  <2> QED BY <2>4, <2>5
<1>16. EncInv'
  BY EncUnchangedOK DEF IInv
<1> QED BY <1>5, <1>7, <1>8, <1>9, <1>13, <1>14, <1>15, <1>16 DEF IInv, DecInv

(* The literal is what follows in the text. *)
LEMMA ReadLiteralOK ==
    ASSUME IInv, ReadLiteral, UNCHANGED <<encVars, nCells, tokens>> PROVE IInv'
<1> DEFINE literal == tokens[nextToken].literal
           n == Len(outBits)
<1>1. /\ dpc = "literal" /\ dpc' = "advanceLiteral" /\ outBits' = outBits \o literal
      /\ UNCHANGED <<offs, cells, cellMetas, lastMeta, nextToken, copyFrom, copyLeft>>
  BY DEF ReadLiteral
<1>2. /\ DecType /\ outBits \in Seq(Bit) /\ n \in Nat /\ offs \in Nat /\ offs <= n
      /\ Len(bits) \in Nat /\ n <= Len(bits) /\ \A k \in 1..n : outBits[k] = bits[k]
      /\ epc = "done" /\ Len(tokens) \in Nat
  BY <1>1, DecFacts DEF DecType
<1>3. PICK e \in TokenEnds : TokensFollowed(e)
  BY <1>1 DEF IInv, DecInv
<1>4. nextToken <= Len(tokens) /\ n = e[nextToken - 1]
  BY <1>1, <1>3 DEF TokensFollowed
<1>5. /\ literal \in Seq(Bit) /\ Len(literal) \in Nat
      /\ n + Len(literal) <= Len(bits) /\ \A k \in 1..Len(literal) : literal[k] = bits[n + k]
  <2>1. literal \in Seq(Bit)
        /\ TokenCovers(bits, meta, nCells, tokens[nextToken], n, e[nextToken])
    BY <1>1, <1>4, TokenFacts
  <2> QED BY <2>1, LenProperties DEF TokenCovers
<1>6. /\ outBits' \in Seq(Bit) /\ Len(outBits') = n + Len(literal)
      /\ \A k \in 1..n : outBits'[k] = outBits[k]
      /\ \A l \in 1..Len(literal) : outBits'[n + l] = literal[l]
  BY ONLY <1>1, <1>2, <1>5, ConcatAt
<1> HIDE DEF literal, n
<1>7. \A k \in 1..Len(outBits') : outBits'[k] = bits[k]
  <2> TAKE k \in 1..Len(outBits')
  <2>1. CASE k <= n
    <3>1. k \in 1..n
      BY <2>1
    <3> QED BY <1>2, <1>6, <3>1
  <2>2. CASE k > n
    <3>1. k - n \in 1..Len(literal) /\ k = n + (k - n)
      BY <1>2, <1>5, <1>6, <2>2
    <3> QED BY <1>5, <1>6, <3>1
  <2> QED BY <1>2, <2>1, <2>2
<1>8. /\ Placing(Fields(BlockSize))' = Placing(Fields(BlockSize)) /\ BlockSize' = BlockSize
      /\ Fields(BlockSize)' = Fields(BlockSize) /\ TokenEnds' = TokenEnds
      /\ UNCHANGED <<block, bits, meta, epc, nCells, tokens>>
  BY SamePlaces
<1>9. DecType'
  <2>1. Len(outBits') <= Len(bits) /\ offs' \in 0..Len(outBits')
    BY <1>1, <1>2, <1>5, <1>6
  <2> QED BY <1>1, <1>2, <1>6, <1>7, <1>8, <2>1 DEF DecType
<1>10. PICK st \in Placing(Fields(BlockSize)) : ReadSoFar(st)
  BY <1>1 DEF IInv, DecInv
<1>11. ReadSoFar(st)'
  <2>1. Len(outBits) <= Len(outBits') /\ Len(outBits') \in Nat /\ dpc # "start"
    BY <1>1, <1>2, <1>5, <1>6 DEF n
  <2> QED BY <1>1, <1>10, <2>1, NothingRead
<1>12. BeginningNoted(st)'
  BY <1>1 DEF BeginningNoted
<1>13. TokensFollowed(e)'
  BY <1>1, <1>3, <1>4, <1>6, <1>8 DEF TokensFollowed, literal, n
<1>14. EncInv'
  BY EncUnchangedOK DEF IInv
<1> QED BY <1>1, <1>2, <1>3, <1>8, <1>9, <1>10, <1>11, <1>12, <1>13, <1>14 DEF IInv, DecInv

(* advance_cells_read ends: what is left over is noted. *)
LEMMA EndAdvanceOK ==
    ASSUME IInv, EndAdvance, UNCHANGED <<encVars, nCells, tokens>> PROVE IInv'
<1>1. /\ Advancing /\ ~ CanRead
      /\ cellMetas' = IF Unread > 0
                      THEN [cellMetas EXCEPT ![NextMeta[2]][NextMeta[1]] =
                              [start |-> offs, cnt |-> Unread]]
                      ELSE cellMetas
      /\ dpc' = CASE dpc = "advanceCopy" -> NextRound
                  [] dpc = "advanceLiteral" /\ ~ AtEnd -> "match"
                  [] OTHER -> "done"
      /\ UNCHANGED <<outBits, offs, cells, lastMeta, nextToken, copyFrom, copyLeft>>
  BY DEF EndAdvance
<1>2. dpc \in {"advanceLiteral", "advanceCopy"} /\ dpc # "start"
  BY <1>1 DEF Advancing
<1>3. /\ DecType /\ Len(outBits) \in Nat /\ offs \in Nat /\ offs <= Len(outBits)
      /\ Len(bits) \in Nat /\ Len(outBits) <= Len(bits) /\ Unread = Len(outBits) - offs
      /\ Unread \in Nat /\ BlockSize \in Nat /\ block \in Blocks
      /\ epc = "done" /\ Len(tokens) \in Nat
  BY <1>2, DecFacts DEF Unread
<1>4. /\ Placing(Fields(BlockSize))' = Placing(Fields(BlockSize)) /\ BlockSize' = BlockSize
      /\ Fields(BlockSize)' = Fields(BlockSize) /\ TokenEnds' = TokenEnds
      /\ UNCHANGED <<block, bits, meta, epc, nCells, tokens>>
  BY SamePlaces
<1>5. PICK st \in Placing(Fields(BlockSize)) : ReadSoFar(st)
  BY <1>2 DEF IInv, DecInv
<1>6. PICK e \in TokenEnds : TokensFollowed(e)
  BY <1>2 DEF IInv, DecInv
<1>7. /\ dpc' \in {"literal", "match", "done"}
      /\ TokensFollowed(e)'
  <2>1. e[Len(tokens)] = Len(bits)
    BY <1>6 DEF TokensFollowed
  <2>2. CASE dpc = "advanceCopy" /\ nextToken <= Len(tokens)
    <3>1. dpc' = "literal"
      BY <1>1, <2>2 DEF NextRound, MoreTokens
    <3> QED BY <1>1, <1>4, <1>6, <2>2, <3>1 DEF TokensFollowed
  <2>3. CASE dpc = "advanceCopy" /\ ~ (nextToken <= Len(tokens))
    <3>1. dpc' = "done"
      BY <1>1, <2>3 DEF NextRound, MoreTokens
    <3>2. nextToken - 1 = Len(tokens)
      <4>1. nextToken \in 1..Len(tokens) + 1
        BY <1>3 DEF DecType
      <4> QED BY <1>3, <2>3, <4>1
    <3>3. Len(outBits) = Len(bits)
      BY <1>6, <2>3, <3>2 DEF TokensFollowed
    <3> QED BY <1>1, <1>4, <2>1, <3>1, <3>3 DEF TokensFollowed
  <2>4. CASE dpc = "advanceLiteral" /\ ~ AtEnd
    <3>1. dpc' = "match"
      BY <1>1, <2>4
    <3> QED BY <1>1, <1>4, <1>6, <2>4, <3>1 DEF TokensFollowed, AtEnd
  <2>5. CASE dpc = "advanceLiteral" /\ AtEnd
    <3>1. dpc' = "done"
      BY <1>1, <2>5
    <3>2. /\ nextToken <= Len(tokens)
          /\ Len(outBits) = e[nextToken - 1] + Len(tokens[nextToken].literal)
      BY <1>6, <2>5 DEF TokensFollowed
    <3>3. TokenCovers(bits, meta, nCells, tokens[nextToken], e[nextToken - 1], e[nextToken])
      BY <1>2, <3>2, TokenFacts
    <3>4. Len(outBits) = Len(bits)
      BY <2>5, <3>2, <3>3 DEF TokenCovers, AtEnd
    <3> QED BY <1>1, <1>4, <2>1, <3>1, <3>4 DEF TokensFollowed
  <2> QED BY <1>2, <2>2, <2>3, <2>4, <2>5
<1>8. EncInv'
  BY EncUnchangedOK DEF IInv
<1>9. CASE Unread = 0
  <2>1. cellMetas' = cellMetas
    BY <1>1, <1>9
  <2>2. ReadSoFar(st)'
    BY <1>1, <1>2, <1>3, <1>5, <2>1, NothingRead
  <2>3. BeginningNoted(st)'
    <3>1. Unread' = 0
      BY <1>1, <1>9 DEF Unread
    <3> QED BY <3>1 DEF BeginningNoted
  <2>4. DecType'
    BY <1>1, <1>3, <1>4, <1>7, <2>1 DEF DecType
  <2> QED BY <1>3, <1>4, <1>6, <1>7, <1>8, <2>2, <2>3, <2>4 DEF IInv, DecInv
<1>10. CASE Unread # 0
  <2>1. Unread > 0 /\ offs < Len(bits)
    BY <1>3, <1>10
  <2>2. PICK h \in Fields(BlockSize) :
            /\ h = NextMeta /\ h = meta[offs + 1] /\ ~ IsRead(h) /\ st[h] = offs /\ Width(h) > 0
    BY <1>2, <1>5, <2>1, NextIsRight
  <2>3. h[2] \in 0..BlockSize - 1 /\ h[1] \in d1..data /\ h = <<h[1], h[2]>>
    BY <1>3, FieldOrder
  <2> DEFINE place == [start |-> offs, cnt |-> Unread]
  <2>4. cellMetas \in [0..BlockSize - 1 -> [d1..data -> [start : Int, cnt : Nat]]]
    BY <1>3 DEF DecType
  <2>5. place \in [start : Int, cnt : Nat] /\ place.cnt = Unread
    BY <1>3
  <2>6. cellMetas' = [cellMetas EXCEPT ![h[2]][h[1]] = place]
    BY <1>1, <2>1, <2>2
  <2> HIDE DEF place
  <2>7. /\ cellMetas' \in [0..BlockSize - 1 -> [d1..data -> [start : Int, cnt : Nat]]]
        /\ NotedPlace(h)' = place
    BY <2>3, <2>4, <2>5, <2>6 DEF NotedPlace
  <2>8. ASSUME NEW f \in Fields(BlockSize), f # h PROVE NotedPlace(f)' = NotedPlace(f)
    <3>1. f[2] \in 0..BlockSize - 1 /\ f[1] \in d1..data /\ f = <<f[1], f[2]>>
      BY <1>3, FieldOrder
    <3>2. f[2] # h[2] \/ f[1] # h[1]
      BY <2>3, <2>8, <3>1
    <3> QED BY <2>3, <2>4, <2>6, <3>1, <3>2 DEF NotedPlace
  <2>9. DecType'
    BY <1>1, <1>3, <1>4, <1>7, <2>7 DEF DecType
  <2>10. Unread' = Unread /\ \A f : IsRead(f)' <=> IsRead(f)
    BY <1>1 DEF Unread, IsRead
  <2>11. ASSUME NEW f \in Fields(BlockSize)
         PROVE  IF IsRead(f)' THEN FieldIsRead(st, f)' ELSE FieldIsUnread(st, f)'
    <3>1. Width(f)' = Width(f)
      BY <1>4 DEF Width
    <3>2. IF IsRead(f) THEN FieldIsRead(st, f) ELSE FieldIsUnread(st, f)
      BY <1>5 DEF ReadSoFar
    <3>3. CASE f # h
      BY <1>1, <1>4, <2>8, <2>10, <3>1, <3>2, <3>3 DEF FieldIsRead, FieldIsUnread
    <3>4. CASE f = h
      <4>1. NotedPlace(f)'.cnt = Unread /\ Unread <= Unread
        BY <1>3, <2>5, <2>7, <3>4
      <4>2. f = meta'[offs' + 1] /\ ~ (offs' >= Len(bits'))
        BY <1>1, <1>3, <1>4, <2>1, <2>2, <3>4
      <4> QED BY <1>1, <1>3, <2>2, <2>10, <3>1, <3>2, <3>4, <4>1, <4>2 DEF FieldIsUnread
    <3> QED BY <3>3, <3>4
  <2>12. ASSUME NEW c \in 0..BlockSize - 1 PROVE CellIsRead(c)'
    <3>1. CellIsRead(c)
      BY <1>5 DEF ReadSoFar
    <3> QED BY <1>1, <1>4, <2>10, <3>1 DEF CellIsRead
  <2>13. ReadSoFar(st)'
    BY <1>4, <2>11, <2>12 DEF ReadSoFar
  <2>14. BeginningNoted(st)'
    <3>1. ~ (offs + Width(h) <= Len(outBits))
      BY <1>1, <1>2, <1>5, <2>1, <2>2, ReadWhenComplete
    <3>2. Width(h) \in Nat
      BY <1>3, AnyField
    <3>3. Len(outBits) < st[h] + Width(h)
      BY <1>3, <2>2, <3>1, <3>2
    <3>4. h = meta'[offs' + 1] /\ Width(h)' = Width(h)
      BY <1>1, <1>4, <2>2 DEF Width
    <3>5. NotedPlace(h)' = [start |-> offs', cnt |-> Unread']
      BY <1>1, <2>7, <2>10 DEF place
    <3>6. /\ Len(outBits') < st[meta[offs + 1]'] + Width(meta[offs + 1])'
          /\ NotedPlace(meta[offs + 1])' = [start |-> offs', cnt |-> Unread']
      BY <1>1, <3>3, <3>4, <3>5 DEF Width, NotedPlace
    <3> QED BY <3>6 DEF BeginningNoted, Width, NotedPlace
  <2> QED BY <1>3, <1>4, <1>6, <1>7, <1>8, <2>9, <2>13, <2>14 DEF IInv, DecInv
<1> QED BY <1>9, <1>10

(* The match loop has ended: the output is where the token ends. *)
LEMMA EndCopyOK ==
    ASSUME IInv, EndCopy, UNCHANGED <<encVars, nCells, tokens>> PROVE IInv'
<1>1. /\ dpc = "copy" /\ copyLeft = 0 /\ dpc' = "advanceCopy"
      /\ UNCHANGED <<outBits, offs, cells, cellMetas, lastMeta, nextToken, copyFrom, copyLeft>>
  BY DEF EndCopy
<1>2. DecType /\ Len(outBits) \in Nat /\ epc = "done"
  BY <1>1, DecFacts
<1>3. /\ Placing(Fields(BlockSize))' = Placing(Fields(BlockSize)) /\ BlockSize' = BlockSize
      /\ Fields(BlockSize)' = Fields(BlockSize) /\ TokenEnds' = TokenEnds
      /\ UNCHANGED <<block, bits, meta, epc, nCells, tokens>>
  BY SamePlaces
<1>4. DecType'
  BY <1>1, <1>2, <1>3 DEF DecType
<1>5. PICK st \in Placing(Fields(BlockSize)) : ReadSoFar(st)
  BY <1>1 DEF IInv, DecInv
<1>6. ReadSoFar(st)' /\ BeginningNoted(st)'
  <2>1. ReadSoFar(st)'
    BY <1>1, <1>2, <1>5, NothingRead
  <2> QED BY <1>1, <2>1 DEF BeginningNoted
<1>7. PICK e \in TokenEnds : TokensFollowed(e)
  BY <1>1 DEF IInv, DecInv
<1>8. TokensFollowed(e)'
  <2>1. Len(outBits) = e[nextToken - 1]
    BY <1>1, <1>2, <1>7 DEF TokensFollowed
  <2> QED BY <1>1, <1>3, <1>7, <2>1 DEF TokensFollowed
<1>9. EncInv'
  BY EncUnchangedOK DEF IInv
<1> QED BY <1>1, <1>2, <1>3, <1>4, <1>5, <1>6, <1>7, <1>8, <1>9 DEF IInv, DecInv

(* One bit of a match: the source is behind what is written, by one bit at least. *)
LEMMA CopyBitOK ==
    ASSUME IInv, CopyBit, UNCHANGED <<encVars, nCells, tokens>> PROVE IInv'
<1> DEFINE n == Len(outBits)
           bit == outBits[copyFrom + 1]
<1>1. /\ dpc = "copy" /\ copyLeft > 0 /\ outBits' = Append(outBits, bit)
      /\ copyFrom' = copyFrom + 1 /\ copyLeft' = copyLeft - 1
      /\ UNCHANGED <<offs, cells, cellMetas, lastMeta, nextToken, dpc>>
  BY DEF CopyBit
<1>2. /\ DecType /\ outBits \in Seq(Bit) /\ n \in Nat /\ offs \in Nat /\ offs <= n
      /\ Len(bits) \in Nat /\ n <= Len(bits) /\ \A k \in 1..n : outBits[k] = bits[k]
      /\ epc = "done" /\ Len(tokens) \in Nat
  BY <1>1, DecFacts DEF DecType
<1>3. PICK e \in TokenEnds : TokensFollowed(e)
  BY <1>1 DEF IInv, DecInv
<1>4. /\ copyLeft \in Nat /\ n + copyLeft = e[nextToken - 1] /\ copyFrom \in 0..n - 1
      /\ \A k \in 1..copyLeft : bits[copyFrom + k] = bits[n + k]
  BY <1>1, <1>3 DEF TokensFollowed
<1>5. e[nextToken - 1] \in 0..Len(bits)
  <2>1. nextToken - 1 \in 0..Len(tokens)
    BY <1>2 DEF DecType
  <2> QED BY <2>1 DEF TokenEnds
<1>6. bit \in Bit /\ bit = bits[n + 1] /\ n + 1 <= Len(bits)
  <2>1. copyFrom + 1 \in 1..n
    BY <1>2, <1>4
  <2>2. outBits[copyFrom + 1] \in Bit
    BY <1>2, <2>1, ElementOfSeq
  <2>3. 1 \in 1..copyLeft
    BY <1>1, <1>4
  <2>4. n + 1 <= Len(bits)
    BY <1>1, <1>2, <1>4, <1>5
  <2> QED BY <1>2, <1>4, <2>1, <2>2, <2>3, <2>4
<1> HIDE DEF bit
<1>7. /\ outBits' \in Seq(Bit) /\ Len(outBits') = n + 1
      /\ \A k \in 1..n : outBits'[k] = outBits[k]
      /\ outBits'[n + 1] = bit
  BY <1>1, <1>2, <1>6, AppendProperties
<1> HIDE DEF n
<1>8. \A k \in 1..Len(outBits') : outBits'[k] = bits[k]
  <2>1. \A k \in 1..n + 1 : k = n + 1 \/ k \in 1..n
    BY <1>2
  <2> QED BY <1>2, <1>6, <1>7, <2>1
<1>9. /\ Placing(Fields(BlockSize))' = Placing(Fields(BlockSize)) /\ BlockSize' = BlockSize
      /\ Fields(BlockSize)' = Fields(BlockSize) /\ TokenEnds' = TokenEnds
      /\ UNCHANGED <<block, bits, meta, epc, nCells, tokens>>
  BY SamePlaces
<1>10. DecType'
  <2>1. Len(outBits') <= Len(bits) /\ offs' \in 0..Len(outBits')
    BY <1>1, <1>2, <1>6, <1>7
  <2> QED BY <1>1, <1>2, <1>7, <1>8, <1>9, <2>1 DEF DecType
<1>11. PICK st \in Placing(Fields(BlockSize)) : ReadSoFar(st)
  BY <1>1 DEF IInv, DecInv
<1>12. ReadSoFar(st)' /\ BeginningNoted(st)'
  <2>1. Len(outBits) <= Len(outBits') /\ Len(outBits') \in Nat /\ dpc # "start"
    BY <1>1, <1>2, <1>7 DEF n
  <2>2. ReadSoFar(st)'
    BY <1>1, <1>11, <2>1, NothingRead
  <2> QED BY <1>1, <2>2 DEF BeginningNoted
<1>13. TokensFollowed(e)'
  <2>1. /\ copyLeft' \in Nat /\ Len(outBits') + copyLeft' = e[nextToken - 1]
        /\ copyFrom' \in 0..Len(outBits') - 1
    BY <1>1, <1>2, <1>4, <1>7
  <2>2. ASSUME NEW k \in 1..copyLeft' PROVE bits[copyFrom' + k] = bits[Len(outBits') + k]
    <3>1. k + 1 \in 1..copyLeft /\ copyFrom' + k = copyFrom + (k + 1)
          /\ Len(outBits') + k = n + (k + 1)
      BY <1>1, <1>2, <1>4, <1>7
    <3> QED BY <1>4, <3>1
  <2> QED BY <1>1, <1>3, <1>9, <2>1, <2>2 DEF TokensFollowed
<1>14. EncInv'
  BY EncUnchangedOK DEF IInv
<1> QED BY <1>1, <1>2, <1>3, <1>9, <1>10, <1>11, <1>12, <1>13, <1>14 DEF IInv, DecInv
-----------------------------------------------------------------------------
LEMMA DisjointUnion ==
    ASSUME NEW S, NEW T, IsFiniteSet(S), IsFiniteSet(T), \A x \in S : x \notin T
    PROVE  IsFiniteSet(S \cup T) /\ Cardinality(S \cup T) = Cardinality(S) + Cardinality(T)
<1>1. S \cap T = {}
  OBVIOUS
<1>2. Cardinality(S \cap T) = 0
  BY <1>1, FS_EmptySet
<1>3. Cardinality(S) \in Nat /\ Cardinality(T) \in Nat
  BY FS_CardinalityType
<1>4. /\ IsFiniteSet(S \cup T)
      /\ Cardinality(S \cup T) = Cardinality(S) + Cardinality(T) - Cardinality(S \cap T)
  BY FS_Union
<1>5. \A x, y \in Nat : x + y - 0 = x + y
  OBVIOUS
<1> QED BY <1>2, <1>3, <1>4, <1>5

LEMMA IntervalSize ==
    ASSUME NEW a \in Nat, NEW b \in Nat, a <= b
    PROVE  IsFiniteSet(a + 1..b) /\ Cardinality(a + 1..b) = b - a
<1>1. a + 1 \in Int /\ b \in Int
  OBVIOUS
<1>2. /\ IsFiniteSet(a + 1..b)
      /\ Cardinality(a + 1..b) = IF a + 1 > b THEN 0 ELSE b - (a + 1) + 1
  BY <1>1, FS_Interval
<1>3. (IF a + 1 > b THEN 0 ELSE b - (a + 1) + 1) = b - a
  OBVIOUS
<1> QED BY <1>2, <1>3

(* The bits of a cell in fields before type u. *)
BitsBelow(c, u) == {j \in 1..Len(bits) : meta[j][2] = c /\ meta[j][1] < u}

LEMMA CountBelow ==
    ASSUME block \in Blocks, Len(bits) \in Nat, NEW st \in Placing(Fields(BlockSize)),
           NEW c \in 0..BlockSize - 1, NEW u \in d1..data, IsFiniteSet(BitsBelow(c, u))
    PROVE  /\ IsFiniteSet(BitsBelow(c, u + 1))
           /\ Cardinality(BitsBelow(c, u + 1)) = Cardinality(BitsBelow(c, u)) + Width(<<u, c>>)
<1> DEFINE f == <<u, c>>
           S == BitsBelow(c, u)
           T == st[f] + 1..st[f] + Width(f)
<1>1. f \in Fields(BlockSize) /\ f[1] = u /\ f[2] = c /\ BlockSize \in Nat /\ u \in Nat
  BY BlockFacts DEF Fields, d1, data, BlockSize
<1>2. /\ st[f] \in Nat /\ Width(f) \in Nat /\ st[f] + Width(f) \in Nat
      /\ st[f] + Width(f) <= Len(bits) /\ \A l \in 1..Width(f) : meta[st[f] + l] = f
  <2> HIDE DEF f
  <2>1. /\ st[f] \in Nat /\ Width(f) \in Nat
        /\ st[f] + Width(f) <= Len(bits) /\ \A l \in 1..Width(f) : meta[st[f] + l] = f
    BY <1>1, PlaceFacts
  <2> QED BY ONLY <2>1
<1>3. IsFiniteSet(T) /\ Cardinality(T) = Width(f)
  <2>1. st[f] <= st[f] + Width(f) /\ (st[f] + Width(f)) - st[f] = Width(f)
    BY <1>2
  <2> QED BY ONLY <1>2, <2>1, IntervalSize
<1>4. \A j \in 1..Len(bits) : /\ meta[j] \in Fields(BlockSize)
                              /\ st[meta[j]] < j /\ j <= st[meta[j]] + Width(meta[j])
  BY PlaceFacts
<1>5. \A j \in T : j \in 1..Len(bits) /\ meta[j] = f
  <2> TAKE j \in T
  <2>1. j - st[f] \in 1..Width(f) /\ st[f] + (j - st[f]) = j
    BY <1>2
  <2>2. j \in 1..Len(bits)
    BY <1>2
  <2> QED BY <1>2, <2>1, <2>2
<1> HIDE DEF f
<1>6. \A j \in 1..Len(bits) : meta[j] = f => j \in T
  BY <1>2, <1>4
<1>7. BitsBelow(c, u + 1) = S \cup T
  <2>1. ASSUME NEW j \in 1..Len(bits)
        PROVE  meta[j][2] = c /\ meta[j][1] < u + 1
                 <=> (meta[j][2] = c /\ meta[j][1] < u) \/ meta[j] = f
    <3>1. /\ meta[j] = <<meta[j][1], meta[j][2]>> /\ meta[j][1] \in d1..data
          /\ meta[j] \in Fields(BlockSize)
      BY <1>1, <1>4, FieldOrder
    <3>2. meta[j][1] < u + 1 <=> meta[j][1] < u \/ meta[j][1] = u
      BY <1>1, <3>1 DEF d1, data
    <3> QED BY <1>1, <3>1, <3>2 DEF f
  <2>2. \A j \in T : j \in 1..Len(bits)
    BY <1>5
  <2> HIDE DEF T
  <2> QED BY <1>5, <1>6, <2>1, <2>2 DEF BitsBelow
<1>8. \A x \in S : x \notin T
  <2>1. \A x \in S : meta[x][1] < u
    BY DEF BitsBelow
  <2>2. ~ (u < u)
    BY <1>1
  <2> QED BY <1>1, <1>5, <2>1, <2>2
<1> HIDE DEF S, T
<1>9. IsFiniteSet(S)
  BY DEF S
<1>10. IsFiniteSet(S \cup T) /\ Cardinality(S \cup T) = Cardinality(S) + Cardinality(T)
  BY ONLY <1>3, <1>8, <1>9, DisjointUnion
<1> QED BY <1>3, <1>7, <1>10 DEF S, f

(* The bits of a cell before a bit of it: all of the fields before, and a part of
   the field the bit belongs to. *)
LEMMA CountWithin ==
    ASSUME block \in Blocks, Len(bits) \in Nat, NEW st \in Placing(Fields(BlockSize)),
           NEW c \in 0..BlockSize - 1, NEW t \in d1..data,
           NEW k \in Nat, st[<<t, c>>] <= k, k < st[<<t, c>>] + Width(<<t, c>>)
    PROVE  /\ Cardinality(BitsBelow(c, t)) \in Nat
           /\ Within(k) = Cardinality(BitsBelow(c, t)) + (k - st[<<t, c>>])
<1> DEFINE f == <<t, c>>
           S == BitsBelow(c, t)
           T == st[f] + 1..k
<1>1. f \in Fields(BlockSize) /\ f[1] = t /\ f[2] = c /\ BlockSize \in Nat /\ t \in Nat
  BY BlockFacts DEF Fields, d1, data, BlockSize
<1>2. /\ st[f] \in Nat /\ Width(f) \in Nat
      /\ st[f] + Width(f) <= Len(bits) /\ \A l \in 1..Width(f) : meta[st[f] + l] = f
  BY <1>1, PlaceFacts
<1>3. st[f] <= k /\ k < st[f] + Width(f) /\ k < Len(bits)
  BY <1>2
<1>4. \A j \in 1..Len(bits) : /\ meta[j] \in Fields(BlockSize)
                              /\ st[meta[j]] \in Nat /\ Width(meta[j]) \in Nat
                              /\ st[meta[j]] < j /\ j <= st[meta[j]] + Width(meta[j])
  BY PlaceFacts
<1>5. IsFiniteSet(S) /\ Cardinality(S) \in Nat
  <2>1. IsFiniteSet(1..Len(bits)) /\ S \subseteq 1..Len(bits)
    BY FS_Interval DEF BitsBelow
  <2>2. IsFiniteSet(S)
    BY <2>1, FS_Subset
  <2> QED BY <2>2, FS_CardinalityType
<1>6. IsFiniteSet(T) /\ Cardinality(T) = k - st[f]
  BY ONLY <1>2, <1>3, k \in Nat, IntervalSize
<1> HIDE DEF f
<1>7. meta[k + 1] = f
  <2>1. (k + 1) - st[f] \in 1..Width(f) /\ st[f] + ((k + 1) - st[f]) = k + 1
    BY <1>2, <1>3
  <2> QED BY <1>2, <2>1
<1>8. {j \in 1..k : meta[j][2] = c} = S \cup T
  <2>1. ASSUME NEW j \in 1..k, meta[j][2] = c PROVE j \in S \/ j \in T
    <3>1. j \in 1..Len(bits)
      BY <1>2, <1>3
    <3>2. /\ meta[j] \in Fields(BlockSize) /\ meta[j] = <<meta[j][1], meta[j][2]>>
          /\ meta[j][1] \in d1..data
      BY <1>1, <1>4, <3>1, FieldOrder
    <3>3. CASE meta[j][1] < t
      BY <2>1, <3>1, <3>3 DEF BitsBelow
    <3>4. CASE meta[j][1] = t
      <4>1. meta[j] = f
        BY <2>1, <3>2, <3>4 DEF f
      <4> QED BY <1>2, <1>4, <3>1, <4>1
    <3>5. CASE meta[j][1] > t
      <4>1. Before(f, meta[j])
        BY <1>1, <3>2, <3>5 DEF Before
      <4>2. st[f] + Width(f) <= st[meta[j]]
        BY <1>1, <3>2, <4>1, PlaceFacts
      <4> QED BY <1>2, <1>3, <1>4, <3>1, <4>2
    <3>6. meta[j][1] \in Int
      BY <3>2 DEF d1, data
    <3> QED BY <1>1, <3>3, <3>4, <3>5, <3>6
  <2>2. ASSUME NEW j \in S PROVE j \in 1..k /\ meta[j][2] = c
    <3>1. j \in 1..Len(bits) /\ meta[j][2] = c /\ meta[j][1] < t
      BY DEF BitsBelow
    <3>2. Before(meta[j], f) /\ meta[j] \in Fields(BlockSize)
      BY <1>1, <1>4, <3>1 DEF Before
    <3>3. st[meta[j]] + Width(meta[j]) <= st[f]
      BY <1>1, <3>2, PlaceFacts
    <3> QED BY <1>2, <1>3, <1>4, <3>1, <3>3
  <2>3. ASSUME NEW j \in T PROVE j \in 1..k /\ meta[j][2] = c
    <3>1. j - st[f] \in 1..Width(f) /\ st[f] + (j - st[f]) = j /\ j \in 1..k
      BY <1>2, <1>3
    <3> QED BY <1>1, <1>2, <3>1
  <2> HIDE DEF S, T
  <2> QED BY <2>1, <2>2, <2>3
<1>9. \A x \in S : x \notin T
  <2> TAKE x \in S
  <2>1. x \in 1..Len(bits) /\ meta[x][1] < t
    BY DEF BitsBelow
  <2>2. ASSUME x \in T PROVE FALSE
    <3>1. x - st[f] \in 1..Width(f) /\ st[f] + (x - st[f]) = x
      BY <1>2, <1>3, <2>2
    <3>2. meta[x] = f
      BY <1>2, <3>1
    <3> QED BY <1>1, <2>1, <3>2
  <2> QED BY <2>2
<1>10. Within(k) = Cardinality({j \in 1..k : meta[j][2] = c})
  BY <1>1, <1>7 DEF Within
<1> HIDE DEF S, T
<1>11. Cardinality(S \cup T) = Cardinality(S) + Cardinality(T)
  BY ONLY <1>5, <1>6, <1>9, DisjointUnion
<1> QED BY <1>5, <1>6, <1>8, <1>10, <1>11 DEF S, f

(* Where a written bit is noted: its field with the right start, and wide enough,
   and all fields of its cell before that with all their bits. *)
LEMMA WrittenNoted ==
    ASSUME IInv, dpc \in {"literal", "match", "done"}, NEW k \in 0..Len(outBits) - 1,
           NEW st \in Placing(Fields(BlockSize)), ReadSoFar(st), BeginningNoted(st)
    PROVE  LET f == meta[k + 1]
           IN  /\ f \in Fields(BlockSize) /\ st[f] <= k /\ k < st[f] + Width(f)
               /\ NotedPlace(f).start = st[f] /\ k < st[f] + NotedPlace(f).cnt
               /\ \A g \in Fields(BlockSize) : Before(g, f) => NotedPlace(g).cnt = Width(g)
<1>1. /\ dpc # "start" /\ BlockSize \in Nat /\ block \in Blocks /\ Len(bits) \in Nat
      /\ offs \in Nat /\ Len(outBits) \in Nat /\ Len(outBits) <= Len(bits)
      /\ Unread = Len(outBits) - offs /\ DecType /\ k \in Nat /\ k < Len(outBits)
  BY DecFacts DEF Unread
<1>2. /\ \A f \in Fields(BlockSize) :
            /\ st[f] \in Nat /\ Width(f) \in Nat /\ st[f] + Width(f) <= Len(bits)
            /\ \A l \in 1..Width(f) : meta[st[f] + l] = f
            /\ IsRead(f) => FieldIsRead(st, f)
            /\ ~ IsRead(f) => FieldIsUnread(st, f)
      /\ \A f, g \in Fields(BlockSize) : Before(f, g) => st[f] + Width(f) <= st[g]
      /\ \A j \in 1..Len(bits) :
            /\ meta[j] \in Fields(BlockSize)
            /\ st[meta[j]] < j /\ j <= st[meta[j]] + Width(meta[j])
  BY <1>1, PlaceFacts DEF ReadSoFar
<1>3. PICK f \in Fields(BlockSize) : f = meta[k + 1] /\ st[f] < k + 1 /\ k + 1 <= st[f] + Width(f)
  <2>1. k + 1 \in 1..Len(bits)
    BY <1>1
  <2> QED BY <1>2, <2>1
<1>4. st[f] <= k /\ k < st[f] + Width(f)
  BY <1>1, <1>2, <1>3
<1>5. CASE k < offs
  <2>1. IsRead(f)
    <3>1. ~ IsRead(f) => offs <= st[f]
      BY <1>1, <1>2, <1>4 DEF FieldIsUnread
    <3> QED BY <1>1, <1>2, <1>4, <1>5, <3>1
  <2>2. NotedPlace(f).cnt = Width(f) /\ NotedPlace(f).start = st[f]
    BY <1>1, <1>2, <1>4, <2>1 DEF FieldIsRead
  <2>3. ASSUME NEW g \in Fields(BlockSize), Before(g, f) PROVE NotedPlace(g).cnt = Width(g)
    <3>1. lastMeta # NoMeta /\ ~ Before(lastMeta, f) /\ lastMeta \in Fields(BlockSize)
      BY <1>1, <2>1 DEF IsRead, DecType
    <3>2. ~ Before(lastMeta, g)
      BY <1>1, <2>3, <3>1, FieldOrder
    <3>3. IsRead(g)
      BY <3>1, <3>2 DEF IsRead
    <3> QED BY <1>2, <3>3 DEF FieldIsRead
  <2> QED BY <1>3, <1>4, <2>2, <2>3
<1>6. CASE k >= offs
  <2>1. Unread > 0 /\ offs < Len(bits)
    BY <1>1, <1>6
  <2>2. PICK h \in Fields(BlockSize) :
            h = NextMeta /\ h = meta[offs + 1] /\ st[h] = offs /\ Width(h) > 0 /\ ~ IsRead(h)
    BY <1>1, <2>1, NextIsRight
  <2>3. Len(outBits) < st[h] + Width(h) /\ NotedPlace(h) = [start |-> offs, cnt |-> Unread]
    BY <2>1, <2>2 DEF BeginningNoted
  <2>4. f = h
    <3>1. (k + 1) - offs \in 1..Width(h) /\ st[h] + ((k + 1) - offs) = k + 1
      BY <1>1, <1>2, <1>6, <2>2, <2>3
    <3> QED BY <1>2, <1>3, <2>2, <3>1
  <2>5. NotedPlace(f).start = st[f] /\ k < st[f] + NotedPlace(f).cnt
    BY <1>1, <2>2, <2>3, <2>4
  <2>6. ASSUME NEW g \in Fields(BlockSize), Before(g, f) PROVE NotedPlace(g).cnt = Width(g)
    <3>1. CASE IsRead(g)
      BY <1>2, <3>1 DEF FieldIsRead
    <3>2. CASE ~ IsRead(g)
      <4>1. FieldIsUnread(st, g) /\ st[g] + Width(g) <= offs
        BY <1>2, <2>2, <2>4, <2>6, <3>2
      <4>2. Width(g) = 0
        BY <1>1, <1>2, <4>1 DEF FieldIsUnread
      <4>3. g # meta[offs + 1]
        BY <1>1, <2>2, <2>4, <2>6, FieldOrder
      <4> QED BY <4>1, <4>2, <4>3 DEF FieldIsUnread
    <3> QED BY <3>1, <3>2
  <2> QED BY <1>3, <1>4, <2>5, <2>6
<1> QED BY <1>1, <1>5, <1>6

(* CellMeta::get_pos on the counts and starts of the fields of a cell. *)
PosAmong(a1, a2, a3, s1, s2, s3, s4, o) ==
    CASE o < a1 -> s1 + o
      [] a1 <= o /\ o < a1 + a2 -> s2 + o - a1
      [] a1 + a2 <= o /\ o < a1 + a2 + a3 -> s3 + o - (a1 + a2)
      [] OTHER -> s4 + o - (a1 + a2 + a3)

LEMMA WrittenFound ==
    ASSUME IInv, dpc \in {"literal", "match", "done"}, NEW k \in 0..Len(outBits) - 1
    PROVE  /\ meta[k + 1][2] \in DOMAIN cellMetas /\ DOMAIN cellMetas = 0..BlockSize - 1
           /\ HasPos(meta[k + 1][2], Within(k))
           /\ GetPos(meta[k + 1][2], Within(k)) = k
<1>1. /\ dpc # "start" /\ BlockSize \in Nat /\ block \in Blocks /\ Len(bits) \in Nat
      /\ DecType /\ Len(outBits) \in Nat
  BY DecFacts
<1>2. PICK st \in Placing(Fields(BlockSize)) : ReadSoFar(st) /\ BeginningNoted(st)
  BY <1>1 DEF IInv, DecInv
<1>3. PICK f \in Fields(BlockSize) :
        /\ f = meta[k + 1] /\ st[f] <= k /\ k < st[f] + Width(f)
        /\ NotedPlace(f).start = st[f] /\ k < st[f] + NotedPlace(f).cnt
        /\ \A g \in Fields(BlockSize) : Before(g, f) => NotedPlace(g).cnt = Width(g)
  BY <1>2, WrittenNoted
<1>4. PICK t \in d1..data, c \in 0..BlockSize - 1 : f = <<t, c>> /\ f[1] = t /\ f[2] = c
  BY <1>1, FieldOrder
<1> DEFINE m == cellMetas[c]
           w(u) == Width(<<u, c>>)
           B(u) == Cardinality(BitsBelow(c, u))
           o == Within(k)
<1>5. DOMAIN cellMetas = 0..BlockSize - 1 /\ m \in [d1..data -> [start : Int, cnt : Nat]]
  BY <1>1 DEF DecType
<1>6. st[f] \in Nat /\ k \in Nat
  BY <1>1, PlaceFacts
<1>7. /\ m[t].start = st[f] /\ k < st[f] + m[t].cnt
      /\ \A u \in d1..data : u < t => m[u].cnt = w(u)
  <2>1. \A u \in d1..data : <<u, c>> \in Fields(BlockSize) /\ NotedPlace(<<u, c>>) = m[u]
    BY DEF Fields, NotedPlace
  <2>2. \A u \in d1..data : u < t => Before(<<u, c>>, f)
    BY <1>4 DEF Before
  <2> QED BY <1>3, <1>4, <2>1, <2>2
<1>8. o = B(t) + (k - st[f])
  BY <1>1, <1>3, <1>4, <1>6, CountWithin
<1>9. /\ B(1) = 0 /\ B(2) = w(1) /\ B(3) = w(1) + w(2) /\ B(4) = w(1) + w(2) + w(3)
  <2>1. \A u \in 1..4 : u \in d1..data
    BY DEF d1, data
  <2>2. BitsBelow(c, 1) = {}
    <3>1. \A j \in 1..Len(bits) : ~ (meta[j][1] < 1)
      <4> TAKE j \in 1..Len(bits)
      <4>1. meta[j] \in Fields(BlockSize)
        BY <1>1, PlaceFacts
      <4>2. meta[j][1] \in d1..data
        BY <1>1, <4>1, FieldOrder
      <4> QED BY <4>2 DEF d1, data
    <3> QED BY <3>1 DEF BitsBelow
  <2>3. IsFiniteSet(BitsBelow(c, 1)) /\ B(1) = 0
    BY <2>2, FS_EmptySet
  <2>4. \A u \in 1..4 : /\ w(u) \in Nat
                        /\ IsFiniteSet(BitsBelow(c, u)) =>
                            IsFiniteSet(BitsBelow(c, u + 1)) /\ B(u + 1) = B(u) + w(u)
    BY <1>1, <2>1, CountBelow, FieldFacts
  <2> HIDE DEF B, w
  <2>5. w(1) \in Nat /\ w(2) \in Nat /\ w(3) \in Nat
    BY <2>4
  <2>6. IsFiniteSet(BitsBelow(c, 2)) /\ B(2) = B(1) + w(1)
    <3>1. 1 + 1 = 2 /\ 1 \in 1..4
      OBVIOUS
    <3> QED BY <2>3, <2>4, <3>1
  <2>7. IsFiniteSet(BitsBelow(c, 3)) /\ B(3) = B(2) + w(2)
    <3>1. 2 + 1 = 3 /\ 2 \in 1..4
      OBVIOUS
    <3> QED BY <2>4, <2>6, <3>1
  <2>8. B(4) = B(3) + w(3)
    <3>1. 3 + 1 = 4 /\ 3 \in 1..4
      OBVIOUS
    <3> QED BY <2>4, <2>7, <3>1
  <2> QED BY <2>3, <2>5, <2>6, <2>7, <2>8
<1> HIDE DEF w, B, o, m
<1>10. /\ m[1].cnt \in Nat /\ m[2].cnt \in Nat /\ m[3].cnt \in Nat /\ m[4].cnt \in Nat
       /\ m[1].start \in Int /\ m[2].start \in Int /\ m[3].start \in Int /\ m[4].start \in Int
  BY <1>5 DEF d1, data
<1>11. t \in 1..4 /\ \A u \in 1..4 : u < t => m[u].cnt = w(u)
  BY <1>7 DEF d1, data
<1>12. HasPos(c, o) <=> o < m[1].cnt + m[2].cnt + m[3].cnt + m[4].cnt
  BY DEF HasPos, m, d1, data_size, refs, data
<1>13. PICK a1 \in Nat, a2 \in Nat, a3 \in Nat, a4 \in Nat :
            a1 = m[1].cnt /\ a2 = m[2].cnt /\ a3 = m[3].cnt /\ a4 = m[4].cnt
  BY <1>10
<1>18. PICK s1 \in Int, s2 \in Int, s3 \in Int, s4 \in Int :
            s1 = m[1].start /\ s2 = m[2].start /\ s3 = m[3].start /\ s4 = m[4].start
  BY <1>10
<1>19. GetPos(c, o) = PosAmong(a1, a2, a3, s1, s2, s3, s4, o)
  BY <1>13, <1>18 DEF GetPos, PosAmong, m, d1, data_size, refs, data
<1> DEFINE x == k - st[f]
<1>14. x \in Nat /\ k = st[f] + x /\ m[t].start = st[f] /\ x < m[t].cnt
  <2>1. t \in d1..data
    OBVIOUS
  <2>2. m[t].cnt \in Nat
    BY <1>5, <2>1
  <2> QED BY <1>3, <1>6, <1>7, <2>2
<1> HIDE DEF x
<1>15. st[f] \in Int
  BY <1>6
<1>16. o = B(t) + x
  BY <1>8 DEF x
<1>17. HasPos(c, o) /\ GetPos(c, o) = k
  <2>0. HasPos(c, o) <=> o < a1 + a2 + a3 + a4
    BY <1>12, <1>13
  <2> PICK y \in Nat : y = x
    BY <1>14
  <2>1. CASE t = 1
    <3>1. o = y /\ s1 = st[f] /\ y < a1
      BY <1>9, <1>11, <1>13, <1>14, <1>16, <1>18, <2>1
    <3>2. o < a1 + a2 + a3 + a4
      BY ONLY <2>0, <3>1, y \in Nat
    <3>3. PosAmong(a1, a2, a3, s1, s2, s3, s4, o) = s1 + y
      <4>1. /\ o < a1 /\ ~ (a1 <= o /\ o < a1 + a2)
          /\ ~ (a1 + a2 <= o /\ o < a1 + a2 + a3)
        BY ONLY a1 \in Nat, a2 \in Nat, a3 \in Nat, a4 \in Nat, y \in Nat, <3>1
      <4>2. PosAmong(a1, a2, a3, s1, s2, s3, s4, o) = s1 + o
        BY ONLY <4>1, Zenon DEF PosAmong
      <4>3. s1 + o = s1 + y
        BY ONLY a1 \in Nat, a2 \in Nat, a3 \in Nat, s1 \in Int, s2 \in Int, s3 \in Int, s4 \in Int,
                y \in Nat, <3>1
      <4> QED BY ONLY <4>2, <4>3
    <3> QED BY ONLY <1>14, <1>15, <1>19, <2>0, y = x, <3>1, <3>2, <3>3
  <2>2. CASE t = 2
    <3>1. o = a1 + y /\ s2 = st[f] /\ y < a2
      BY SMTT(30), <1>9, <1>11, <1>13, <1>14, <1>16, <1>18, <2>2
    <3>2. o < a1 + a2 + a3 + a4
      BY ONLY <2>0, <3>1, y \in Nat
    <3>3. PosAmong(a1, a2, a3, s1, s2, s3, s4, o) = s2 + y
      <4>1. /\ ~ (o < a1) /\ a1 <= o /\ o < a1 + a2
          /\ ~ (a1 + a2 <= o /\ o < a1 + a2 + a3)
        BY ONLY a1 \in Nat, a2 \in Nat, a3 \in Nat, a4 \in Nat, y \in Nat, <3>1
      <4>2. PosAmong(a1, a2, a3, s1, s2, s3, s4, o) = s2 + o - a1
        BY ONLY <4>1, Zenon DEF PosAmong
      <4>3. s2 + o - a1 = s2 + y
        BY ONLY a1 \in Nat, a2 \in Nat, a3 \in Nat, s1 \in Int, s2 \in Int, s3 \in Int, s4 \in Int,
                y \in Nat, <3>1
      <4> QED BY ONLY <4>2, <4>3
    <3> QED BY ONLY <1>14, <1>15, <1>19, <2>0, y = x, <3>1, <3>2, <3>3
  <2>3. CASE t = 3
    <3>1. o = a1 + a2 + y /\ s3 = st[f] /\ y < a3
      <4>1. a1 = w(1) /\ a2 = w(2)
        BY <1>11, <1>13, <2>3
      <4>2. B(3) = a1 + a2
        BY <1>9, <4>1
      <4> QED BY ONLY <1>13, <1>14, <1>16, <1>18, <2>3, y = x, <4>2
    <3>2. o < a1 + a2 + a3 + a4
      BY ONLY <2>0, <3>1, y \in Nat
    <3>3. PosAmong(a1, a2, a3, s1, s2, s3, s4, o) = s3 + y
      <4>1. /\ ~ (o < a1) /\ ~ (a1 <= o /\ o < a1 + a2)
          /\ a1 + a2 <= o /\ o < a1 + a2 + a3
        BY ONLY a1 \in Nat, a2 \in Nat, a3 \in Nat, a4 \in Nat, y \in Nat, <3>1
      <4>2. PosAmong(a1, a2, a3, s1, s2, s3, s4, o) = s3 + o - (a1 + a2)
        BY ONLY <4>1, Zenon DEF PosAmong
      <4>3. s3 + o - (a1 + a2) = s3 + y
        BY ONLY a1 \in Nat, a2 \in Nat, a3 \in Nat, s1 \in Int, s2 \in Int, s3 \in Int, s4 \in Int,
                y \in Nat, <3>1
      <4> QED BY ONLY <4>2, <4>3
    <3> QED BY ONLY <1>14, <1>15, <1>19, <2>0, y = x, <3>1, <3>2, <3>3
  <2>4. CASE t = 4
    <3>1. o = a1 + a2 + a3 + y /\ s4 = st[f] /\ y < a4
      <4>1. a1 = w(1) /\ a2 = w(2) /\ a3 = w(3)
        BY <1>11, <1>13, <2>4
      <4>2. B(4) = a1 + a2 + a3
        BY <1>9, <4>1
      <4> QED BY ONLY <1>13, <1>14, <1>16, <1>18, <2>4, y = x, <4>2
    <3>2. o < a1 + a2 + a3 + a4
      BY ONLY <2>0, <3>1, y \in Nat
    <3>3. PosAmong(a1, a2, a3, s1, s2, s3, s4, o) = s4 + y
      <4>1. /\ ~ (o < a1) /\ ~ (a1 <= o /\ o < a1 + a2)
          /\ ~ (a1 + a2 <= o /\ o < a1 + a2 + a3)
        BY ONLY a1 \in Nat, a2 \in Nat, a3 \in Nat, a4 \in Nat, y \in Nat, <3>1
      <4>2. PosAmong(a1, a2, a3, s1, s2, s3, s4, o) = s4 + o - (a1 + a2 + a3)
        BY ONLY <4>1, Zenon DEF PosAmong
      <4>3. s4 + o - (a1 + a2 + a3) = s4 + y
        BY ONLY a1 \in Nat, a2 \in Nat, a3 \in Nat, s1 \in Int, s2 \in Int, s3 \in Int, s4 \in Int,
                y \in Nat, <3>1
      <4> QED BY ONLY <4>2, <4>3
    <3> QED BY ONLY <1>14, <1>15, <1>19, <2>0, y = x, <3>1, <3>2, <3>3
  <2> QED BY <1>11, <2>1, <2>2, <2>3, <2>4
<1> QED BY <1>3, <1>4, <1>5, <1>17 DEF o

(* The cell that the decoder guesses is the cell of the next bit, of which it may
   have the beginning. *)
LEMMA CellGuessed ==
    ASSUME IInv, dpc \in {"literal", "match", "done"}, Len(outBits) < Len(bits)
    PROVE  CurCell = meta[Len(outBits) + 1][2] /\ NextMeta # NoMeta
<1>1. /\ dpc # "start" /\ BlockSize \in Nat /\ block \in Blocks /\ Len(bits) \in Nat
      /\ offs \in Nat /\ Len(outBits) \in Nat /\ offs <= Len(outBits)
      /\ Unread = Len(outBits) - offs
  BY DecFacts DEF Unread
<1>2. PICK st \in Placing(Fields(BlockSize)) : ReadSoFar(st) /\ BeginningNoted(st)
  BY <1>1 DEF IInv, DecInv
<1>3. offs < Len(bits)
  BY <1>1
<1>4. PICK h \in Fields(BlockSize) :
          h = NextMeta /\ h = meta[offs + 1] /\ st[h] = offs /\ Width(h) > 0
  BY <1>1, <1>2, <1>3, NextIsRight
<1>5. meta[Len(outBits) + 1] = h
  <2>1. CASE Unread = 0
    BY <1>1, <1>4, <2>1
  <2>2. CASE Unread # 0
    <3>1. Unread > 0
      BY <1>1, <2>2
    <3>2. Len(outBits) < st[h] + Width(h)
      BY <1>2, <1>4, <3>1 DEF BeginningNoted
    <3>3. /\ Width(h) \in Nat /\ \A l \in 1..Width(h) : meta[st[h] + l] = h
      BY <1>1, PlaceFacts
    <3>4. (Len(outBits) + 1) - offs \in 1..Width(h)
          /\ offs + ((Len(outBits) + 1) - offs) = Len(outBits) + 1
      BY <1>1, <1>4, <3>2, <3>3
    <3> QED BY <1>4, <3>3, <3>4
  <2> QED BY <2>1, <2>2
<1>6. h # NoMeta
  BY <1>1, FieldOrder
<1> QED BY <1>4, <1>5, <1>6 DEF CurCell

(* The match of the next token: where it starts, for the encoder and the decoder. *)
LEMMA MatchFound ==
    ASSUME IInv, dpc = "match", NEW e \in TokenEnds, TokensFollowed(e)
    PROVE  /\ nextToken \in 1..Len(tokens) /\ Len(outBits) < Len(bits)
           /\ RefCell \in DOMAIN cellMetas
           /\ HasPos(RefCell, tokens[nextToken].match.within)
           /\ GetPos(RefCell, tokens[nextToken].match.within) \in 0..Len(outBits) - 1
           /\ tokens[nextToken].match.len \in Nat
           /\ Len(outBits) + tokens[nextToken].match.len = e[nextToken]
           /\ \A k \in 1..tokens[nextToken].match.len :
                bits[GetPos(RefCell, tokens[nextToken].match.within) + k]
                    = bits[Len(outBits) + k]
<1> DEFINE n == Len(outBits)
           m == tokens[nextToken].match
<1>1. /\ dpc # "start" /\ BlockSize \in Nat \ {0} /\ nCells = BlockSize /\ Len(bits) \in Nat
      /\ n \in Nat /\ n <= Len(bits) /\ \A k \in 1..Len(bits) : meta[k] \in Fields(BlockSize)
  BY DecFacts
<1>2. /\ nextToken <= Len(tokens) /\ m # NoMatch
      /\ n = e[nextToken - 1] + Len(tokens[nextToken].literal)
  BY DEF TokensFollowed
<1>3. /\ nextToken \in 1..Len(tokens)
      /\ TokenCovers(bits, meta, nCells, tokens[nextToken], e[nextToken - 1], e[nextToken])
  BY <1>1, <1>2, TokenFacts
<1>4. PICK source \in 0..n - 1, l \in 1..Len(bits) - n :
        /\ m = MatchOf(meta, nCells, n, source, l)
        /\ \A k \in 1..l : bits[source + k] = bits[n + k]
        /\ e[nextToken] = n + l
  BY <1>2, <1>3 DEF TokenCovers
<1>5. n < Len(bits) /\ l \in Nat /\ source \in Nat
  BY <1>1, <1>4
<1>6. /\ m.len = l /\ m.within = Within(source)
      /\ m.cellOffset = (nCells + meta[n + 1][2] - meta[source + 1][2]) % nCells
  BY <1>4 DEF MatchOf, Within
<1>7. meta[n + 1][2] \in 0..nCells - 1 /\ meta[source + 1][2] \in 0..nCells - 1
  <2>1. n + 1 \in 1..Len(bits) /\ source + 1 \in 1..Len(bits)
    BY <1>1, <1>4, <1>5
  <2>2. \A f \in Fields(BlockSize) : f[2] \in 0..BlockSize - 1
    BY <1>1, FieldOrder
  <2> QED BY <1>1, <2>1, <2>2
<1>8. CurCell = meta[n + 1][2]
  BY <1>5, CellGuessed
<1>9. RefCell = meta[source + 1][2]
  BY <1>1, <1>6, <1>7, <1>8, DistanceBack DEF RefCell
<1>10. /\ RefCell \in DOMAIN cellMetas /\ HasPos(RefCell, m.within)
       /\ GetPos(RefCell, m.within) = source
  BY <1>4, <1>6, <1>9, WrittenFound
<1> HIDE DEF m, n
<1> QED BY <1>3, <1>4, <1>5, <1>6, <1>10 DEF m, n

LEMMA ResolveMatchOK ==
    ASSUME IInv, ResolveMatch, UNCHANGED <<encVars, nCells, tokens>> PROVE IInv'
<1>1. /\ dpc = "match" /\ dpc' = "copy"
      /\ copyFrom' = GetPos(RefCell, tokens[nextToken].match.within)
      /\ copyLeft' = tokens[nextToken].match.len
      /\ nextToken' = nextToken + 1
      /\ UNCHANGED <<outBits, offs, cells, cellMetas, lastMeta>>
  BY DEF ResolveMatch
<1>2. DecType /\ Len(outBits) \in Nat /\ epc = "done" /\ Len(tokens) \in Nat
  BY <1>1, DecFacts
<1>3. /\ Placing(Fields(BlockSize))' = Placing(Fields(BlockSize)) /\ BlockSize' = BlockSize
      /\ Fields(BlockSize)' = Fields(BlockSize) /\ TokenEnds' = TokenEnds
      /\ UNCHANGED <<block, bits, meta, epc, nCells, tokens>>
  BY SamePlaces
<1>4. PICK e \in TokenEnds : TokensFollowed(e)
  BY <1>1 DEF IInv, DecInv
<1>5. /\ nextToken \in 1..Len(tokens) /\ copyFrom' \in 0..Len(outBits) - 1
      /\ copyLeft' \in Nat /\ Len(outBits) + copyLeft' = e[nextToken]
      /\ \A k \in 1..copyLeft' : bits[copyFrom' + k] = bits[Len(outBits) + k]
  BY <1>1, <1>4, MatchFound
<1>6. DecType'
  <2>1. nextToken' \in 1..Len(tokens) + 1
    BY <1>1, <1>2, <1>5
  <2> QED BY <1>1, <1>2, <1>3, <2>1 DEF DecType
<1>7. PICK st \in Placing(Fields(BlockSize)) : ReadSoFar(st)
  BY <1>1 DEF IInv, DecInv
<1>8. ReadSoFar(st)' /\ BeginningNoted(st)'
  <2>1. ReadSoFar(st)'
    BY <1>1, <1>2, <1>7, NothingRead
  <2> QED BY <1>1, <2>1 DEF BeginningNoted
<1>9. TokensFollowed(e)'
  <2>1. nextToken' - 1 = nextToken /\ e[Len(tokens)] = Len(bits)
    BY <1>1, <1>4, <1>5 DEF TokensFollowed
  <2> QED BY <1>1, <1>3, <1>5, <2>1 DEF TokensFollowed
<1>10. EncInv'
  BY EncUnchangedOK DEF IInv
<1> QED BY <1>1, <1>2, <1>3, <1>4, <1>6, <1>7, <1>8, <1>9, <1>10 DEF IInv, DecInv
-----------------------------------------------------------------------------
LEMMA NothingDone ==
    ASSUME IInv, UNCHANGED vars PROVE IInv'
<1>1. UNCHANGED <<encVars, nCells, tokens>>
      /\ UNCHANGED <<outBits, offs, cells, cellMetas, lastMeta, nextToken, copyFrom, copyLeft, dpc>>
  BY DEF vars, decVars
<1>2. EncInv'
  BY <1>1, EncUnchangedOK DEF IInv
<1>3. /\ Placing(Fields(BlockSize))' = Placing(Fields(BlockSize)) /\ BlockSize' = BlockSize
      /\ Fields(BlockSize)' = Fields(BlockSize) /\ TokenEnds' = TokenEnds
      /\ UNCHANGED <<block, bits, meta, epc, nCells, tokens>>
  BY <1>1, SamePlaces
<1>4. CASE dpc = "start"
  <2>1. DecInit'
    BY <1>1, <1>4 DEF IInv, DecInv, DecInit
  <2> QED BY <1>1, <1>2, <1>4, <2>1 DEF IInv, DecInv
<1>5. CASE dpc # "start"
  <2>1. DecType /\ Len(outBits) \in Nat /\ epc = "done"
    BY <1>5, DecFacts
  <2>2. DecType'
    BY <1>1, <1>3, <2>1 DEF DecType
  <2>3. PICK st \in Placing(Fields(BlockSize)) : ReadSoFar(st) /\ BeginningNoted(st)
    BY <1>5 DEF IInv, DecInv
  <2>4. ReadSoFar(st)'
    BY <1>1, <1>5, <2>1, <2>3, NothingRead
  <2>5. BeginningNoted(st)'
    BY <1>1, <1>3, <2>3 DEF BeginningNoted, Unread, NotedPlace, Width
  <2>6. PICK e \in TokenEnds : TokensFollowed(e)
    BY <1>5 DEF IInv, DecInv
  <2>7. TokensFollowed(e)'
    BY <1>1, <1>3, <2>6 DEF TokensFollowed
  <2> QED BY <1>1, <1>2, <1>3, <1>5, <2>1, <2>2, <2>3, <2>4, <2>5, <2>6, <2>7 DEF IInv, DecInv
<1> QED BY <1>4, <1>5

(* The invariant the theorems follow from. *)
LEMMA Inductive == Spec => []IInv
<1>1. Init => IInv
  BY EncInitOK DEF Init, IInv, DecInv, DecInit, EncInit
<1>2. IInv /\ [Next]_vars => IInv'
  <2> SUFFICES ASSUME IInv, [Next]_vars PROVE IInv'
    OBVIOUS
  <2>1. CASE Encode
    <3>1. EncNext /\ UNCHANGED decVars
      BY <2>1 DEF Encode
    <3>2. EncInv'
      BY <3>1, PushFieldOK, StartParseOK, TakeMatchOK, SkipBitOK, EndParseOK DEF EncNext, IInv
    <3>3. epc # "done"
      BY <3>1 DEF EncNext, PushField, StartParse, TakeMatch, SkipBit, EndParse
    <3>4. dpc' = "start" /\ DecInit'
      BY <3>1, <3>3 DEF IInv, DecInv, DecInit, decVars
    <3> QED BY <3>2, <3>4 DEF IInv, DecInv
  <2>2. CASE Decode
    <3>1. DecNext /\ UNCHANGED <<encVars, nCells, tokens>>
      BY <2>2 DEF Decode
    <3>2. CASE ReadHeader
      BY <2>2, <3>1, <3>2, ReadHeaderOK DEF Decode
    <3>3. CASE ReadLiteral
      BY <3>1, <3>3, ReadLiteralOK
    <3>4. CASE ReadD1
      BY <3>1, <3>4, ReadD1OK
    <3>5. CASE ReadDataSize
      BY <3>1, <3>5, ReadDataSizeOK
    <3>6. CASE ReadRefs
      BY <3>1, <3>6, ReadRefsOK
    <3>7. CASE ReadData
      BY <3>1, <3>7, ReadDataOK
    <3>8. CASE EndAdvance
      BY <3>1, <3>8, EndAdvanceOK
    <3>9. CASE ResolveMatch
      BY <3>1, <3>9, ResolveMatchOK
    <3>10. CASE CopyBit
      BY <3>1, <3>10, CopyBitOK
    <3>11. CASE EndCopy
      BY <3>1, <3>11, EndCopyOK
    <3> QED BY ONLY <3>1, <3>2, <3>3, <3>4, <3>5, <3>6, <3>7, <3>8, <3>9, <3>10, <3>11 DEF DecNext
  <2>3. CASE Done \/ UNCHANGED vars
    BY <2>3, NothingDone DEF Done
  <2> QED BY <2>1, <2>2, <2>3 DEF Next
<1> QED BY <1>1, <1>2, PTL DEF Spec

(* The decoder's output is always the beginning of the encoder's bit string: what
   literals and matches append in deserialise is what run_lz parsed. *)
THEOREM OutputCorrect == Spec => []OutputIsPrefix
<1>1. IInv => OutputIsPrefix
  <2> SUFFICES ASSUME IInv PROVE OutputIsPrefix
    OBVIOUS
  <2>1. CASE dpc = "start"
    <3>1. outBits = << >> /\ bits \in Seq(Bit)
      BY <2>1 DEF IInv, DecInv, DecInit, EncInv, EncType
    <3>2. Len(bits) \in Nat /\ Len(outBits) = 0
      BY <3>1, LenProperties
    <3>3. SubSeq(bits, 1, 0) = << >>
      BY <3>1
    <3> QED BY <3>1, <3>2, <3>3 DEF OutputIsPrefix
  <2>2. CASE dpc # "start"
    <3>1. /\ outBits \in Seq(Bit) /\ Len(outBits) \in Nat /\ bits \in Seq(Bit)
          /\ Len(bits) \in Nat /\ Len(outBits) <= Len(bits)
          /\ \A k \in 1..Len(outBits) : outBits[k] = bits[k]
      BY <2>2, DecFacts DEF DecType
    <3>2. /\ SubSeq(bits, 1, Len(outBits)) \in Seq(Bit)
          /\ Len(SubSeq(bits, 1, Len(outBits))) = Len(outBits)
          /\ \A k \in 1..Len(outBits) : SubSeq(bits, 1, Len(outBits))[k] = bits[k]
      BY <3>1, SubSeqProperties
    <3>3. outBits = SubSeq(bits, 1, Len(outBits))
      BY <3>1, <3>2, SeqEqual
    <3> QED BY <3>1, <3>3 DEF OutputIsPrefix
  <2> QED BY <2>1, <2>2
<1> QED BY <1>1, Inductive, PTL

(* predict_next_meta guesses the cell of the bit that a match starts with, the one
   that run_lz took the offset from. *)
THEOREM CellGuessCorrect == Spec => []CellGuessedRight
<1>1. IInv => CellGuessedRight
  <2> SUFFICES ASSUME IInv, dpc = "match" PROVE CurCell = meta[Len(outBits) + 1][2]
    BY DEF CellGuessedRight
  <2>1. PICK e \in TokenEnds : TokensFollowed(e)
    BY DEF IInv, DecInv
  <2>2. Len(outBits) < Len(bits)
    BY <2>1, MatchFound
  <2> QED BY <2>2, CellGuessed
<1> QED BY <1>1, Inductive, PTL

(* get_pos finds every bit that is written, those of a field that is not yet
   complete too. *)
THEOREM WrittenBitsNamed == Spec => []WrittenBitsFound
<1>1. IInv => WrittenBitsFound
  BY WrittenFound DEF WrittenBitsFound
<1> QED BY <1>1, Inductive, PTL

(* A place is known from its cell and its offset within the cell. *)
LEMMA OneSource ==
    ASSUME Len(bits) \in Nat, NEW p \in 0..Len(bits) - 1, NEW o \in 0..Len(bits) - 1,
           meta[o + 1][2] = meta[p + 1][2], Within(o) = Within(p)
    PROVE  o = p
<1> DEFINE Earlier(s) == {k \in 1..s : meta[k][2] = meta[s + 1][2]}
<1>1. ASSUME NEW s \in 0..Len(bits) - 1, NEW t \in 0..Len(bits) - 1, s < t,
             meta[s + 1][2] = meta[t + 1][2]
      PROVE  Within(s) # Within(t)
  <2>1. 1 \in Int /\ t \in Int
    OBVIOUS
  <2>2. IsFiniteSet(Earlier(t))
    <3>1. Earlier(t) \in SUBSET (1..t)
      OBVIOUS
    <3>2. IsFiniteSet(1..t)
      BY <2>1, FS_Interval
    <3> HIDE DEF Earlier
    <3> QED BY <3>1, <3>2, FS_Subset
  <2>3. Earlier(s) \in SUBSET Earlier(t) /\ s + 1 \in Earlier(t) /\ s + 1 \notin Earlier(s)
    BY <1>1
  <2>4. Cardinality(Earlier(s)) # Cardinality(Earlier(t))
    <3> HIDE DEF Earlier
    <3> QED BY <2>2, <2>3, FS_Subset
  <2> QED BY <2>4 DEF Within
<1>2. o < p \/ p < o \/ o = p
  OBVIOUS
<1> QED BY <1>1, <1>2

(* TokenEnd is the one function of TokenEnds. *)
LEMMA TokenEndFound ==
    ASSUME EncInv, NEW e \in TokenEnds
    PROVE  \A t \in 0..Len(tokens) : TokenEnd[t] = e[t]
<1> DEFINE T == 0..Len(tokens)
           step(f) == [t \in T |-> IF t = 0 THEN 0 ELSE f[t - 1] + TokenLength(t)]
<1>1. Len(tokens) \in Nat /\ Len(bits) \in Nat /\ tokens \in Seq(Token)
  BY LenProperties DEF EncInv, EncType
<1>2. e \in [T -> 0..Len(bits)] /\ e[0] = 0
  BY DEF TokenEnds
<1>3. ASSUME NEW t \in 1..Len(tokens) PROVE e[t] = e[t - 1] + TokenLength(t)
  <2>1. tokens[t] \in Token /\ t - 1 \in T
    BY <1>1, ElementOfSeq
  <2>2. Len(tokens[t].literal) \in Nat /\ e[t - 1] \in Nat
    BY <1>2, <2>1, LenProperties DEF Token
  <2>3. TokenCovers(bits, meta, nCells, tokens[t], e[t - 1], e[t])
    BY DEF TokenEnds
  <2>4. CASE tokens[t].match = NoMatch
    <3>1. tokens[t].match.len = 0 /\ e[t] = e[t - 1] + Len(tokens[t].literal)
      BY <2>3, <2>4 DEF TokenCovers, NoMatch
    <3> QED BY <2>2, <3>1 DEF TokenLength
  <2>5. CASE tokens[t].match # NoMatch
    <3>1. PICK l \in 1..Len(bits) - (e[t - 1] + Len(tokens[t].literal)) :
            /\ \E source : tokens[t].match =
                    MatchOf(meta, nCells, e[t - 1] + Len(tokens[t].literal), source, l)
            /\ e[t] = (e[t - 1] + Len(tokens[t].literal)) + l
      BY <2>3, <2>5 DEF TokenCovers
    <3>2. tokens[t].match.len = l
      BY <3>1 DEF MatchOf
    <3> QED BY <2>2, <3>1, <3>2 DEF TokenLength
  <2> QED BY <2>4, <2>5
<1>4. e = step(e)
  <2>1. \A t \in T : e[t] = step(e)[t]
    BY <1>1, <1>2, <1>3
  <2> QED BY <1>2, <2>1
<1>5. TokenEnd = CHOOSE f : f = step(f)
  BY DEF TokenEnd
<1>6. TokenEnd = step(TokenEnd)
  <2> HIDE DEF step
  <2> QED BY <1>4, <1>5
<1> DEFINE S == {t \in Nat : t <= Len(tokens) => TokenEnd[t] = e[t]}
<1>7. 0 \in S
  BY <1>1, <1>2, <1>6
<1>8. ASSUME NEW t \in Nat, t \in S PROVE t + 1 \in S
  <2> SUFFICES ASSUME t + 1 <= Len(tokens) PROVE TokenEnd[t + 1] = e[t + 1]
    OBVIOUS
  <2>1. t + 1 \in 1..Len(tokens) /\ t + 1 \in T /\ (t + 1) - 1 = t /\ TokenEnd[t] = e[t]
    BY <1>1, <1>8
  <2>2. TokenEnd[t + 1] = TokenEnd[t] + TokenLength(t + 1)
    BY <1>6, <2>1
  <2> QED BY <1>3, <2>1, <2>2
<1>9. Nat \subseteq S
  <2> HIDE DEF S
  <2> QED BY <1>7, <1>8, NatInduct
<1> QED BY <1>1, <1>9

(* What run_lz has parsed so far is a description of the bit string: each literal is
   a piece of it, and each match says, by a cell and an offset, which earlier bits
   come again, and could not mean any others. *)
THEOREM TokensDescribeBits == Spec => []TokensDenoteBits
<1>1. ASSUME IInv PROVE TokensDenoteBits
  <2>1. PICK e \in TokenEnds : e[Len(tokens)] = IF epc = "done" THEN Len(bits) ELSE literalStart
    BY <1>1 DEF IInv, EncInv
  <2>2. EncInv /\ \A t \in 0..Len(tokens) : TokenEnd[t] = e[t]
    BY <1>1, <2>1, TokenEndFound DEF IInv
  <2>3. /\ tokens \in Seq(Token) /\ Len(tokens) \in Nat /\ bits \in Seq(Bit)
        /\ Len(bits) \in Nat /\ meta \in Seq(Fields(BlockSize)) /\ Len(meta) = Len(bits)
        /\ BlockSize \in Nat \ {0}
    BY <2>2, BlockFacts, LenProperties DEF EncInv, EncType, BlockSize
  <2>4. ASSUME NEW t \in 1..Len(tokens), NEW from, from = e[t - 1],
               NEW place, place = from + Len(tokens[t].literal)
        PROVE  /\ tokens[t].literal = SubSeq(bits, from + 1, place)
               /\ tokens[t].match # NoMatch =>
                    \E source \in 0..place - 1 :
                        /\ NamesSource(t, place, source)
                        /\ AgreeOver(bits, source, place, tokens[t].match.len)
                        /\ \A o \in 0..place - 1 : NamesSource(t, place, o) => o = source
    <3>1. tokens[t] \in Token /\ t - 1 \in 0..Len(tokens)
      BY <2>3, ElementOfSeq
    <3>2. from \in Nat
      <4>1. e \in [0..Len(tokens) -> 0..Len(bits)]
        BY <2>1 DEF TokenEnds
      <4>2. e[t - 1] \in 0..Len(bits)
        BY <3>1, <4>1
      <4> QED BY <2>3, <2>4, <4>2
    <3>3. tokens[t].literal \in Seq(Bit) /\ Len(tokens[t].literal) \in Nat
      BY <3>1, LenProperties DEF Token
    <3>4. TokenCovers(bits, meta, nCells, tokens[t], from, e[t])
      BY <2>1, <2>4 DEF TokenEnds
    <3>5. /\ place \in Nat /\ place <= Len(bits) /\ from <= place
          /\ place - from = Len(tokens[t].literal)
          /\ \A k \in 1..place - from : tokens[t].literal[k] = bits[from + k]
      BY SMTT(30), <2>3, <2>4, <3>2, <3>3, <3>4 DEF TokenCovers
    <3>6. tokens[t].literal = SubSeq(bits, from + 1, place)
      <4>1. /\ SubSeq(bits, from + 1, place) \in Seq(Bit)
            /\ Len(SubSeq(bits, from + 1, place)) = place - from
            /\ \A k \in 1..place - from : SubSeq(bits, from + 1, place)[k] = bits[from + k]
        BY <2>3, <3>2, <3>5, CutAt
      <4> DEFINE cut == SubSeq(bits, from + 1, place)
      <4>2. Len(tokens[t].literal) = Len(cut)
        BY <3>5, <4>1
      <4>3. \A k \in 1..Len(cut) : tokens[t].literal[k] = cut[k]
        BY <3>5, <4>1
      <4>4. cut \in Seq(Bit)
        BY <4>1
      <4> HIDE DEF cut
      <4>5. tokens[t].literal = cut
        BY <3>3, <4>2, <4>3, <4>4, SeqEqual
      <4> QED BY <4>5 DEF cut
    <3>7. ASSUME tokens[t].match # NoMatch
          PROVE  \E source \in 0..place - 1 :
                    /\ NamesSource(t, place, source)
                    /\ AgreeOver(bits, source, place, tokens[t].match.len)
                    /\ \A o \in 0..place - 1 : NamesSource(t, place, o) => o = source
      <4>1. PICK source \in 0..place - 1, l \in 1..Len(bits) - place :
                /\ tokens[t].match = MatchOf(meta, nCells, place, source, l)
                /\ \A k \in 1..l : bits[source + k] = bits[place + k]
        BY <2>4, <3>4, <3>7 DEF TokenCovers
      <4>2. epc # "push" /\ nCells = BlockSize
        BY <2>2, <2>3, <2>4 DEF EncInv
      <4> DEFINE Cell(k) == meta[k + 1][2]
      <4>3. \A k \in 0..place : k \in 0..Len(bits) - 1 /\ Cell(k) \in 0..nCells - 1
        <5>1. \A k \in 0..place : k \in 0..Len(bits) - 1 /\ k + 1 \in 1..Len(meta)
          BY <2>3, <3>5, <4>1
        <5>2. \A k \in 1..Len(meta) : meta[k] \in Fields(BlockSize)
          BY <2>3, ElementOfSeq
        <5>3. \A f \in Fields(BlockSize) : f[2] \in 0..BlockSize - 1
          BY <2>3, FieldOrder
        <5> QED BY <4>2, <5>1, <5>2, <5>3
      <4>4. /\ tokens[t].match.len = l /\ tokens[t].match.within = Within(source)
            /\ tokens[t].match.cellOffset = (nCells + Cell(place) - Cell(source)) % nCells
        BY <4>1 DEF MatchOf, Within
      <4>5. /\ source \in 0..place /\ place \in 0..place
            /\ \A o \in 0..place - 1 : o \in 0..place
        BY <3>5, <4>1
      <4>6. (nCells + Cell(place) - tokens[t].match.cellOffset) % nCells = Cell(source)
        <5>1. Cell(place) \in 0..nCells - 1 /\ Cell(source) \in 0..nCells - 1
          BY <4>3, <4>5
        <5> HIDE DEF Cell
        <5> QED BY <2>3, <4>2, <4>4, <5>1, DistanceBack
      <4>7. NamesSource(t, place, source)
        BY <4>4, <4>6 DEF NamesSource
      <4>8. AgreeOver(bits, source, place, tokens[t].match.len)
        <5>1. place + l <= Len(bits)
          BY <2>3, <3>5, <4>1
        <5> QED BY <4>1, <4>4, <5>1 DEF AgreeOver
      <4>9. ASSUME NEW o \in 0..place - 1, NamesSource(t, place, o) PROVE o = source
        <5>1. Cell(o) = Cell(source) /\ Within(o) = Within(source)
          BY <4>4, <4>6, <4>9 DEF NamesSource
        <5>2. o \in 0..Len(bits) - 1 /\ source \in 0..Len(bits) - 1
          BY <4>3, <4>5
        <5> QED BY <2>3, <5>1, <5>2, OneSource
      <4> QED BY <4>7, <4>8, <4>9
    <3> QED BY <3>6, <3>7
  <2>5. \A t \in 1..Len(tokens) : TokenEnd[t - 1] = e[t - 1]
    <3>1. \A t \in 1..Len(tokens) : t - 1 \in 0..Len(tokens)
      BY <2>3
    <3> QED BY <2>2, <3>1
  <2>6. TokenEnd[Len(tokens)] = e[Len(tokens)]
    BY <2>2, <2>3
  <2> QED BY SMTT(30), <2>1, <2>4, <2>5, <2>6 DEF TokensDenoteBits
<1>2. IInv => TokensDenoteBits
  BY <1>1
<1> QED BY <1>2, Inductive, PTL

(* No CHECK of the codec fails: those of push_refs, of deserialise on counts, on the
   beginning of a field and on the source of a match, and cell_metas.at(). *)
THEOREM CodecChecks == Spec => []ChecksHold
<1>1. ASSUME IInv, epc = "push", toPush # NoMeta PROVE RefsCheck(toPush)
  <2>1. /\ block \in Blocks /\ toPush \in Fields(BlockSize) /\ BlockSize \in Nat \ {0}
    BY <1>1, BlockFacts DEF IInv, EncInv, EncType, BlockSize
  <2>2. toPush[2] \in 0..BlockSize - 1
    BY <2>1, FieldOrder
  <2> DEFINE c == toPush[2]
  <2>3. block[c].refs \in Seq(0..c - 1)
    BY <2>1, <2>2, BlockFacts DEF BlockSize
  <2> SUFFICES ASSUME NEW j \in 1..Len(block[c].refs)
               PROVE  block[c].refs[j] # c /\ (BlockSize + c - block[c].refs[j]) % BlockSize > 0
    BY DEF RefsCheck
  <2>4. PICK r \in 0..c - 1 : r = block[c].refs[j]
    BY <2>3, ElementOfSeq
  <2>5. (BlockSize + c - r) % BlockSize > 0
    BY <2>1, <2>2, ForwardDistance
  <2>6. r # c
    BY <2>2, <2>4
  <2> QED BY <2>4, <2>5, <2>6
<1>2. ASSUME IInv, Advancing, NextMeta # NoMeta
      PROVE  /\ NextMeta[1] = d1 => \A s \in DOMAIN D1Code : Decodes(D1Code, s) => s % 8 <= 4
             /\ NextMeta[1] = refs => cells[NextMeta[2]].cntRefs > 0
             /\ NextMeta[1] = data => cells[NextMeta[2]].cntBits > 0
  <2>1. dpc # "start"
    BY <1>2 DEF Advancing
  <2>2. PICK st \in Placing(Fields(BlockSize)) : ReadSoFar(st) /\ offs < Len(bits)
    BY <1>2, <2>1, PlaceExists
  <2> DEFINE c == NextMeta[2]
  <2>3. Width(NextMeta) > 0
    BY <1>2, <2>1, <2>2, NextIsRight
  <2>4. /\ NextMeta = <<NextMeta[1], c>>
        /\ FieldBits(block, <<d1, c>>) = D1Code[D1(block[c])]
        /\ D1(block[c]) \in DOMAIN D1Code
        /\ Len(block[c].refs) \in 0..4 /\ block[c].special \in {0, 1}
        /\ Width(<<refs, c>>) = Len(block[c].refs) * RefWidth(nCells)
        /\ Width(<<data, c>>) = Len(block[c].data) /\ Len(block[c].data) \in Nat
        /\ NextMeta[1] \in {refs, data} => /\ cells[c].cntRefs = Len(block[c].refs)
                                         /\ cells[c].cntBits = Len(block[c].data)
    BY <1>2, <2>1, <2>2, NextFacts DEF Width
  <2>5. nCells = BlockSize /\ block \in Blocks
    BY <1>2, <2>1, DecFacts
  <2>6. RefWidth(nCells) \in Nat
    <3>1. RefWidth(BlockSize) \in 1..64
      BY <2>5, BlockFacts DEF BlockSize
    <3> QED BY <2>5, <3>1
  <2>7. CASE NextMeta[1] = d1
    <3>1. FieldBits(block, NextMeta) = D1Code[D1(block[c])]
      BY <2>4, <2>7
    <3>2. \A s \in DOMAIN D1Code : Decodes(D1Code, s) => s = D1(block[c])
      BY <1>2, <2>1, <2>2, <2>4, <3>1, DecodesRight, LayoutAssumption
    <3>3. D1(block[c]) % 8 <= 4
      <4>1. \A l \in 0..4 : l <= 4
        OBVIOUS
      <4> QED BY <2>4, <4>1, D1Parts
    <3> QED BY <2>7, <3>2, <3>3 DEF d1, refs, data
  <2>8. CASE NextMeta[1] = refs
    <3>1. Len(block[c].refs) * RefWidth(nCells) > 0
      BY <2>3, <2>4, <2>8
    <3>2. Len(block[c].refs) # 0
      BY <2>6, <3>1
    <3> QED BY <2>4, <2>8, <3>2 DEF d1, refs, data
  <2>9. CASE NextMeta[1] = data
    <3>1. Len(block[c].data) > 0
      BY <2>3, <2>4, <2>9
    <3> QED BY <2>4, <2>9, <3>1 DEF d1, refs, data
  <2> QED BY <2>7, <2>8, <2>9
<1>3. ASSUME IInv, Advancing, Unread > 0 PROVE NextMeta # NoMeta
  <2>1. dpc # "start"
    BY <1>3 DEF Advancing
  <2>2. PICK st \in Placing(Fields(BlockSize)) : ReadSoFar(st)
    BY <1>3, <2>1 DEF IInv, DecInv
  <2>3. BlockSize \in Nat /\ offs < Len(bits)
    BY <1>3, <2>1, DecFacts DEF Unread
  <2>4. NextMeta \in Fields(BlockSize)
    BY <1>3, <2>1, <2>2, <2>3, NextIsRight
  <2> QED BY <2>3, <2>4, FieldOrder
<1>4. ASSUME IInv, dpc = "match"
      PROVE  RefCell \in DOMAIN cellMetas /\ HasPos(RefCell, tokens[nextToken].match.within)
  <2>1. PICK e \in TokenEnds : TokensFollowed(e)
    BY <1>4 DEF IInv, DecInv
  <2> QED BY <1>4, <2>1, MatchFound
<1>5. NoMeta[1] # d1 /\ NoMeta[1] # refs /\ NoMeta[1] # data
  BY DEF NoMeta, none, d1, refs, data
<1>6. IInv => ChecksHold
  BY <1>1, <1>2, <1>3, <1>4, <1>5 DEF ChecksHold
<1> QED BY <1>6, Inductive, PTL

(* What deserialise has made of the stream when it ends: every cell of the block. *)
CellsRead ==
    dpc = "done" =>
        /\ outBits = bits /\ offs = Len(bits) /\ DOMAIN cells = DOMAIN block
        /\ \A c \in DOMAIN block :
            /\ cells[c].cntRefs = Len(block[c].refs) /\ cells[c].special = block[c].special
            /\ cells[c].cntBits = Len(block[c].data)
            /\ cells[c].refs = block[c].refs /\ cells[c].data = block[c].data

(* When deserialise ends, every bit has arrived and is read, and the cells are those
   that were written, with the same references, flag and data. *)
THEOREM CellsArrive == Spec => []CellsRead
<1>1. ASSUME IInv, dpc = "done" PROVE CellsRead
  <2>1. /\ dpc # "start" /\ block \in Blocks /\ BlockSize \in Nat \ {0} /\ DecType
        /\ bits \in Seq(Bit) /\ Len(bits) \in Nat /\ outBits \in Seq(Bit)
        /\ Len(outBits) \in Nat /\ offs \in Nat /\ offs <= Len(outBits)
        /\ Unread = Len(outBits) - offs
        /\ \A k \in 1..Len(bits) : meta[k] \in Fields(BlockSize)
    BY <1>1, DecFacts DEF DecType, Unread
  <2>2. PICK st \in Placing(Fields(BlockSize)) : ReadSoFar(st) /\ BeginningNoted(st)
    BY <1>1, <2>1 DEF IInv, DecInv
  <2>3. PICK e \in TokenEnds : TokensFollowed(e)
    BY <1>1, <2>1 DEF IInv, DecInv
  <2>4. Len(outBits) = Len(bits)
    BY <1>1, <2>3 DEF TokensFollowed
  <2>5. outBits = bits
    <3>1. \A k \in 1..Len(outBits) : outBits[k] = bits[k]
      BY <2>1 DEF DecType
    <3> QED BY <2>1, <2>4, <3>1, SeqEqual
  <2>6. \A f \in Fields(BlockSize) :
            st[f] \in Nat /\ Width(f) \in Nat /\ st[f] + Width(f) <= Len(bits)
    BY <2>1, PlaceFacts
  <2>7. offs = Len(bits)
    <3>1. SUFFICES ASSUME offs < Len(bits) PROVE FALSE
      BY <2>1, <2>4
    <3>2. offs + 1 \in 1..Len(bits) /\ Unread > 0
      BY <2>1, <2>4, <3>1
    <3>3. PICK f \in Fields(BlockSize) : f = meta[offs + 1]
      BY <2>1, <3>2
    <3>4. Len(outBits) < st[f] + Width(f)
      BY <1>1, <2>2, <3>2, <3>3 DEF BeginningNoted
    <3> QED BY <2>1, <2>4, <2>6, <3>4
  <2>8. ASSUME NEW f \in Fields(BlockSize), Width(f) > 0 PROVE IsRead(f)
    <3>1. ~ IsRead(f) => offs <= st[f]
      BY <2>2, <2>8 DEF ReadSoFar, FieldIsUnread
    <3> QED BY <2>1, <2>6, <2>7, <2>8, <3>1
  <2>9. DOMAIN block = 0..BlockSize - 1 /\ DOMAIN cells = 0..BlockSize - 1
    BY <2>1, BlockFacts DEF DecType, BlockSize
  <2>10. ASSUME NEW c \in 0..BlockSize - 1
         PROVE  /\ cells[c].cntRefs = Len(block[c].refs) /\ cells[c].special = block[c].special
                /\ cells[c].cntBits = Len(block[c].data)
                /\ cells[c].refs = block[c].refs /\ cells[c].data = block[c].data
    <3>1. CellIsRead(c)
      BY <2>2 DEF ReadSoFar
    <3>2. <<d1, c>> \in Fields(BlockSize) /\ <<data_size, c>> \in Fields(BlockSize)
          /\ <<refs, c>> \in Fields(BlockSize) /\ <<data, c>> \in Fields(BlockSize)
      BY DEF Fields, d1, data_size, refs, data
    <3>3. /\ Width(<<d1, c>>) > 0 /\ Width(<<data_size, c>>) > 0
          /\ Width(<<data, c>>) = Len(block[c].data)
      BY <2>1, FieldFacts DEF Width
    <3>4. IsRead(<<d1, c>>) /\ IsRead(<<data_size, c>>)
      BY <2>8, <3>2, <3>3
    <3>5. cells[c].data = block[c].data
      <4>1. CASE Len(block[c].data) > 0
        BY <2>8, <3>1, <3>2, <3>3, <4>1 DEF CellIsRead
      <4>2. CASE ~ (Len(block[c].data) > 0)
        <5>1. block[c].data \in Seq(Bit) /\ Len(block[c].data) \in Nat
          BY <2>1, BlockFacts DEF BlockSize
        <5>2. block[c].data = << >>
          BY <4>2, <5>1, EmptySeq
        <5> QED BY <3>1, <5>2 DEF CellIsRead
      <4> QED BY <4>1, <4>2
    <3>6. cells[c].refs = block[c].refs
      <4>1. Width(<<refs, c>>) \in Nat /\ (Width(<<refs, c>>) = 0 => block[c].refs = << >>)
        BY <2>1, <2>6, <3>2, NoReferences
      <4>2. Width(<<refs, c>>) > 0 => IsRead(<<refs, c>>)
        BY <2>8, <3>2
      <4> QED BY <3>1, <4>1, <4>2 DEF CellIsRead
    <3> QED BY <3>1, <3>4, <3>5, <3>6 DEF CellIsRead
  <2> QED BY <2>5, <2>7, <2>9, <2>10 DEF CellsRead
<1>2. IInv => CellsRead
  BY <1>1 DEF CellsRead
<1> QED BY <1>2, Inductive, PTL
-----------------------------------------------------------------------------
(* The refinement of FieldTransfer.  What is known of a field is what was sent. *)
KnownRight ==
    dpc # "start" =>
        /\ nCells = BlockSize
        /\ \A f \in Fields(BlockSize) : KnownField(f) => GotField(f) = SentField(f)

LEMMA KnownIsSent ==
    ASSUME IInv PROVE KnownRight
<1> SUFFICES ASSUME dpc # "start"
             PROVE  /\ nCells = BlockSize
                    /\ \A f \in Fields(BlockSize) : KnownField(f) => GotField(f) = SentField(f)
  BY DEF KnownRight
<1>1. /\ block \in Blocks /\ BlockSize \in Nat \ {0} /\ nCells = BlockSize
  BY DecFacts
<1>2. PICK st \in Placing(Fields(BlockSize)) : ReadSoFar(st)
  BY DEF IInv, DecInv
<1>3. ASSUME NEW t \in d1..data, NEW c \in 0..BlockSize - 1, KnownField(<<t, c>>)
      PROVE  GotField(<<t, c>>) = SentField(<<t, c>>)
  <2>1. CellIsRead(c)
    BY <1>2 DEF ReadSoFar
  <2>2. /\ block[c].refs \in Seq(0..c - 1) /\ Len(block[c].refs) \in Nat
        /\ block[c].data \in Seq(Bit) /\ Len(block[c].data) \in Nat
    BY <1>1, BlockFacts, LenProperties DEF BlockSize
  <2>3. Len(block[c].refs) = 0 => block[c].refs = << >>
    BY <2>2, EmptySeq
  <2>4. Len(block[c].data) = 0 => block[c].data = << >>
    BY <2>2, EmptySeq
  <2>5. \/ IsRead(<<t, c>>)
        \/ t = refs /\ cells[c].cntRefs = 0
        \/ t = data /\ cells[c].cntBits = 0
    BY <1>3 DEF KnownField, IsRead, IsEmpty
  <2>6. /\ t = d1 \/ t = data_size \/ t = refs \/ t = data
        /\ d1 # data_size /\ d1 # refs /\ d1 # data
        /\ data_size # refs /\ data_size # data /\ refs # data
    BY DEF d1, data_size, refs, data
  <2>7. CASE t = d1
    BY <2>1, <2>5, <2>6, <2>7 DEF GotField, SentField, CellIsRead
  <2>8. CASE t = data_size
    BY <2>1, <2>5, <2>6, <2>8 DEF GotField, SentField, CellIsRead
  <2>9. CASE t = refs
    <3>1. GotField(<<t, c>>) = cells[c].refs /\ SentField(<<t, c>>) = block[c].refs
      BY <2>6, <2>9 DEF GotField, SentField
    <3>2. IsRead(<<t, c>>) \/ cells[c].cntRefs = 0
      BY <2>5, <2>6, <2>9
    <3>3. cells[c].cntRefs = 0 => Len(block[c].refs) = 0
      BY <2>1 DEF CellIsRead, Unset
    <3> QED BY <2>1, <2>3, <2>9, <3>1, <3>2, <3>3 DEF CellIsRead
  <2>10. CASE t = data
    <3>1. GotField(<<t, c>>) = cells[c].data /\ SentField(<<t, c>>) = block[c].data
      BY <2>6, <2>10 DEF GotField, SentField
    <3>2. IsRead(<<t, c>>) \/ cells[c].cntBits = 0
      BY <2>5, <2>6, <2>10
    <3>3. cells[c].cntBits = 0 => Len(block[c].data) = 0
      BY <2>1 DEF CellIsRead, Unset
    <3> QED BY <2>1, <2>4, <2>10, <3>1, <3>2, <3>3 DEF CellIsRead
  <2> QED BY <2>6, <2>7, <2>8, <2>9, <2>10
<1>4. \A f \in Fields(BlockSize) :
        f = <<f[1], f[2]>> /\ f[1] \in d1..data /\ f[2] \in 0..BlockSize - 1
  BY <1>1, FieldOrder
<1> QED BY <1>1, <1>3, <1>4

(* A field that is read or passed over stays so. *)
LEMMA ReadStaysRead ==
    ASSUME IInv, dpc # "start", DecNext, UNCHANGED <<encVars, nCells, tokens>>
    PROVE  \A f \in Fields(BlockSize) : IsRead(f) => IsRead(f)'
<1>1. CASE UNCHANGED lastMeta
  BY <1>1 DEF IsRead
<1>2. CASE ReadD1 \/ ReadDataSize \/ ReadRefs \/ ReadData
  <2>1. Advancing /\ lastMeta' = NextMeta /\ NextMeta[1] \in {d1, data_size, refs, data}
    BY <1>2 DEF ReadD1, ReadDataSize, ReadRefs, ReadData, Read
  <2>2. NextMeta # NoMeta
    BY <2>1 DEF NoMeta, none, d1, data_size, refs, data
  <2>3. PICK st \in Placing(Fields(BlockSize)) : ReadSoFar(st) /\ offs < Len(bits)
    BY <2>2, PlaceExists
  <2> QED BY <2>1, <2>3, ReadOrder
<1>3. UNCHANGED lastMeta \/ ReadD1 \/ ReadDataSize \/ ReadRefs \/ ReadData
  BY DEF DecNext, ReadHeader, ReadLiteral, EndAdvance, ResolveMatch, CopyBit, EndCopy
<1> QED BY <1>1, <1>2, <1>3

LEMMA DecMovesOn ==
    ASSUME IInv, DecNext PROVE dpc' # "start"
<1>1. dpc \in {"start", "literal", "advanceLiteral", "match", "copy", "advanceCopy", "done"}
  BY DEF IInv, DecInv, DecType, DecInit
<1>2. CASE ReadHeader
  BY <1>2 DEF ReadHeader, NextRound
<1>3. CASE EndAdvance
  BY <1>1, <1>3 DEF EndAdvance, NextRound, Advancing
<1>4. CASE ReadLiteral \/ ResolveMatch \/ EndCopy
  BY <1>4 DEF ReadLiteral, ResolveMatch, EndCopy
<1>5. CASE ReadD1 \/ ReadDataSize \/ ReadRefs \/ ReadData \/ CopyBit
  BY <1>5 DEF ReadD1, ReadDataSize, ReadRefs, ReadData, CopyBit, Read, Advancing
<1> QED BY <1>2, <1>3, <1>4, <1>5 DEF DecNext

LEMMA KnownStaysKnown ==
    ASSUME IInv, IInv', dpc # "start", dpc' # "start", DecNext,
           UNCHANGED <<encVars, nCells, tokens>>
    PROVE  \A f \in Fields(BlockSize) : KnownField(f) => KnownField(f)'
<1>1. BlockSize \in Nat \ {0} /\ UNCHANGED block /\ BlockSize' = BlockSize
  BY DecFacts, SamePlaces
<1>2. PICK st \in Placing(Fields(BlockSize)) : ReadSoFar(st)
  BY DEF IInv, DecInv
<1>3. PICK ss \in Placing(Fields(BlockSize))' : ReadSoFar(ss)'
  BY DEF IInv, DecInv
<1>4. \A f \in Fields(BlockSize) : IsRead(f) => IsRead(f)'
  BY ReadStaysRead
<1>5. ASSUME NEW f \in Fields(BlockSize), IsEmpty(f) PROVE IsEmpty(f)'
  <2>1. PICK c \in 0..BlockSize - 1 : c = f[2]
    BY <1>1, FieldOrder
  <2>2. CellIsRead(c) /\ CellIsRead(c)'
    BY <1>1, <1>2, <1>3 DEF ReadSoFar
  <2>3. /\ IsRead(<<d1, c>>) => IsRead(<<d1, c>>)'
        /\ IsRead(<<data_size, c>>) => IsRead(<<data_size, c>>)'
    <3>1. <<d1, c>> \in Fields(BlockSize) /\ <<data_size, c>> \in Fields(BlockSize)
      BY DEF Fields, d1, data_size, data
    <3> QED BY <1>4, <3>1
  <2>4. cells[c].cntRefs = 0 => cells'[c].cntRefs = 0
    BY <1>1, <2>2, <2>3 DEF CellIsRead, Unset
  <2>5. cells[c].cntBits = 0 => cells'[c].cntBits = 0
    BY <1>1, <2>2, <2>3 DEF CellIsRead, Unset
  <2> QED BY <1>5, <2>1, <2>4, <2>5 DEF IsEmpty
<1> QED BY <1>4, <1>5 DEF KnownField, IsRead

(* The codec implements FieldTransfer, but for what must happen in the end: a field
   becomes known with the value it was written from, and stays known. *)
THEOREM FieldsLearned == Spec => Transfer!Init /\ [][Transfer!Learn]_(Transfer!vars)
<1> DEFINE known == {g \in Fields(nCells) : KnownField(g)}
           got == [f \in known |-> GotField(f)]
           sent == [f \in Fields(BlockSize) |-> SentField(f)]
<1>1. Init => Transfer!Init
  BY DEF Init, DecInit, Transfer!Init, KnownField
<1>2. IInv => KnownRight
  BY KnownIsSent
<1>3. IInv /\ IInv' /\ KnownRight /\ KnownRight' /\ [Next]_vars => [Transfer!Learn]_(Transfer!vars)
  <2> SUFFICES ASSUME IInv, IInv', KnownRight, KnownRight', [Next]_vars
               PROVE  \/ UNCHANGED <<sent, got>>
                      \/ /\ sent' = sent /\ DOMAIN got' \subseteq DOMAIN sent
                         /\ \A f \in DOMAIN got' : got'[f] = sent[f]
                         /\ \A f \in DOMAIN got : f \in DOMAIN got' /\ got'[f] = got[f]
    BY DEF Transfer!Learn, Transfer!vars
  <2>1. CASE UNCHANGED vars
    <3>1. UNCHANGED <<block, nCells, cells, lastMeta, dpc>>
      BY <2>1 DEF vars, encVars, decVars
    <3> QED BY <3>1 DEF BlockSize, SentField, GotField, KnownField, IsEmpty
  <2>2. CASE Encode
    <3>1. EncNext /\ UNCHANGED dpc /\ UNCHANGED block
      BY <2>2 DEF Encode, decVars, EncNext, PushField, StartParse, TakeMatch, SkipBit, EndParse
    <3>2. epc # "done"
      BY <3>1 DEF EncNext, PushField, StartParse, TakeMatch, SkipBit, EndParse
    <3>3. dpc = "start"
      BY <3>2 DEF IInv, DecInv
    <3>4. known = {} /\ known' = {}
      BY <3>1, <3>3 DEF KnownField
    <3>5. sent' = sent
      BY <3>1 DEF BlockSize, SentField
    <3> QED BY <3>4, <3>5
  <2>3. CASE Decode
    <3>1. DecNext /\ UNCHANGED <<encVars, nCells, tokens>>
      BY <2>3 DEF Decode
    <3>2. UNCHANGED <<block, nCells>> /\ BlockSize' = BlockSize
      BY <3>1, SamePlaces
    <3>3. dpc' # "start"
      BY <3>1, DecMovesOn
    <3>4. /\ nCells = BlockSize
          /\ \A f \in known' : f \in Fields(BlockSize) /\ GotField(f)' = SentField(f)
      BY <3>2, <3>3 DEF KnownRight, SentField
    <3>5. \A f \in known : f \in known' /\ GotField(f) = SentField(f)
      <4>1. CASE dpc = "start"
        BY <4>1 DEF KnownField
      <4>2. CASE dpc # "start"
        BY <3>1, <3>2, <3>3, <4>2, KnownStaysKnown DEF KnownRight
      <4> QED BY <4>1, <4>2
    <3>6. sent' = sent
      BY <3>2 DEF SentField
    <3> QED BY <3>4, <3>5, <3>6
  <2> QED BY <2>1, <2>2, <2>3 DEF Next, Done
<1> QED BY <1>1, <1>2, <1>3, Inductive, PTL DEF Spec
=============================================================================
