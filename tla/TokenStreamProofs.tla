-------------------------- MODULE TokenStreamProofs --------------------------
(***************************************************************************)
(* Proofs about TokenStream, for all prefix codes, thresholds and chunks,  *)
(* and all streams of tokens.                                              *)
(*                                                                         *)
(* What run_lz writes is determined by its place: which number of which    *)
(* token, and what is left of it.  The stream is a course of such places,  *)
(* each with its piece of bits.  deserialise is always at one of them,     *)
(* knows what run_lz knew there, and so cuts off the same piece.           *)
(***************************************************************************)
EXTENDS TokenStream, DataFacts

(* A place of run_lz: the number of token, the kind of number, num in dump_num
   and what is written next. *)
Num(w) == Number(sent.tokens[w.at], w.kind)

Places ==
    {w \in [at : Nat, kind : Kinds, left : Nat, pc : {"number", "chunk", "literal", "end"}] :
        w.pc # "end" =>
            /\ w.at \in 1..Len(sent.tokens)
            /\ w.kind # "literalLen" => sent.tokens[w.at].match # NoMatch
            /\ w.pc = "chunk" => w.kind \in Chunked /\ w.left + Threshold(w.kind) <= Num(w)
            /\ w.pc = "literal" => w.kind = "literalLen"}

FirstPlace == [at |-> 1, kind |-> "literalLen", left |-> 0, pc |-> "number"]

Cur(w) == Min({w.left, MaxChunk(w.kind)})
IsLarge(w) == Num(w) >= Threshold(w.kind)

(* What is written there. *)
Piece(w) ==
    IF w.pc = "literal" THEN sent.tokens[w.at].literal
    ELSE IF w.pc = "chunk" THEN UintBits(Cur(w), Chunk[w.kind])
    ELSE IF ~ IsLarge(w) THEN Code[w.kind][Num(w)]
    ELSE IF w.kind \in Chunked THEN Code[w.kind][Threshold(w.kind)]
    ELSE Code[w.kind][Threshold(w.kind)]
           \o UintBits(Num(w) - Threshold(w.kind), OffsetWidth(sent.nCells))

(* The place after the last bit of a number. *)
BehindNumber(w) ==
    IF w.kind = "literalLen" THEN [w EXCEPT !.pc = "literal"]
    ELSE IF w.kind = "matchLen" THEN [w EXCEPT !.pc = "number", !.kind = "cellOffset"]
    ELSE IF w.kind = "cellOffset" THEN [w EXCEPT !.pc = "number", !.kind = "within"]
    ELSE [at |-> w.at + 1, kind |-> "literalLen", left |-> w.left,
          pc |-> IF w.at < Len(sent.tokens) THEN "number" ELSE "end"]

(* The next place. *)
After(w) ==
    IF w.pc = "literal"
    THEN IF sent.tokens[w.at].match = NoMatch
         THEN [w EXCEPT !.pc = "end"]
         ELSE [w EXCEPT !.pc = "number", !.kind = "matchLen"]
    ELSE IF w.pc = "chunk"
    THEN LET v == [w EXCEPT !.left = w.left - Cur(w)]
         IN  IF Cur(w) = MaxChunk(w.kind) THEN v ELSE BehindNumber(v)
    ELSE IF IsLarge(w) /\ w.kind \in Chunked
    THEN [w EXCEPT !.left = Num(w) - Threshold(w.kind), !.pc = "chunk"]
    ELSE BehindNumber(w)

(* The first m bits of the stream are the header and the pieces of n places. *)
IsCourse(n, h, o, m) ==
    /\ n \in Nat /\ m \in Nat /\ h \in [0..n -> Places] /\ o \in [0..n -> 0..m]
    /\ h[0] = FirstPlace /\ o[0] = HeaderBits /\ o[n] = m
    /\ \A l \in 1..HeaderBits : stream[l] = UintBits(sent.nCells, HeaderBits)[l]
    /\ \A k \in 0..n - 1 :
        /\ h[k].pc # "end"
        /\ h[k + 1] = After(h[k])
        /\ o[k + 1] = o[k] + Len(Piece(h[k]))
        /\ \A l \in 1..Len(Piece(h[k])) : stream[o[k] + l] = Piece(h[k])[l]
-----------------------------------------------------------------------------
LEMMA SentFacts ==
    ASSUME sent \in Streams
    PROVE  /\ Len(sent.tokens) \in Nat \ {0} /\ sent.tokens \in Seq(Token)
           /\ HeaderBits \in 1..64 /\ HeaderBits \in Nat
           /\ sent.nCells \in 0..Pow2[HeaderBits] - 1
           /\ sent.nCells \in Nat /\ sent.nCells < Pow2[HeaderBits]
           /\ \A t \in 1..Len(sent.tokens) :
                /\ sent.tokens[t] \in Token
                /\ sent.tokens[t].match = NoMatch =>
                     t = Len(sent.tokens) /\ sent.tokens[t].literal # << >>
                /\ sent.tokens[t].match # NoMatch =>
                     /\ sent.tokens[t].match.len > 0
                     /\ sent.tokens[t].match.cellOffset < sent.nCells
<1>1. sent.tokens \in Seq(Token) /\ sent.tokens # << >>
  BY StreamAssumption
<1>2. Len(sent.tokens) \in Nat \ {0} /\ \A t \in 1..Len(sent.tokens) : sent.tokens[t] \in Token
  BY <1>1, EmptySeq, ElementOfSeq
<1>3. HeaderBits \in 1..64 /\ sent.nCells \in 1..Pow2[HeaderBits] - 1
  BY StreamAssumption
<1>4. HeaderBits \in Nat
  BY <1>3
<1>5. Pow2[HeaderBits] \in Nat
  BY <1>4, Pow2Facts
<1>6. /\ sent.nCells \in 0..Pow2[HeaderBits] - 1
      /\ sent.nCells \in Nat /\ sent.nCells < Pow2[HeaderBits]
  BY <1>3, <1>5
<1>7. \A t \in 1..Len(sent.tokens) :
        /\ sent.tokens[t].match = NoMatch =>
             t = Len(sent.tokens) /\ sent.tokens[t].literal # << >>
        /\ sent.tokens[t].match # NoMatch =>
             /\ sent.tokens[t].match.len > 0
             /\ sent.tokens[t].match.cellOffset < sent.nCells
  BY StreamAssumption
<1> QED BY <1>1, <1>2, <1>3, <1>4, <1>6, <1>7

LEMMA CodeFacts ==
    ASSUME NEW k \in Kinds
    PROVE  /\ Threshold(k) \in Nat /\ IsPrefixCode(Code[k])
           /\ DOMAIN Code[k] = 0..Threshold(k)
           /\ \A v \in 0..Threshold(k) : Code[k][v] \in Seq(Bit) /\ Len(Code[k][v]) \in Nat \ {0}
<1>1. /\ Threshold(k) \in Nat /\ IsPrefixCode(Code[k])
      /\ DOMAIN Code[k] = 0..Threshold(k)
  BY StreamAssumption
<1>2. ASSUME NEW v \in 0..Threshold(k)
      PROVE  Code[k][v] \in Seq(Bit) /\ Len(Code[k][v]) \in Nat \ {0}
  <2>1. Code[k][v] \in Seq(Bit) /\ Code[k][v] # << >>
    BY <1>1 DEF IsPrefixCode
  <2> QED BY <2>1, EmptySeq
<1> QED BY <1>1, <1>2

LEMMA ChunkFacts ==
    ASSUME NEW k \in Chunked
    PROVE  /\ Chunk[k] \in Nat \ {0} /\ MaxChunk(k) \in Nat \ {0}
           /\ MaxChunk(k) = Pow2[Chunk[k]] - 1
<1>1. Chunk[k] \in Nat \ {0}
  BY StreamAssumption
<1>2. Chunk[k] - 1 \in Nat /\ (Chunk[k] - 1) + 1 = Chunk[k]
  BY <1>1
<1>3. Pow2[Chunk[k]] = 2 * Pow2[Chunk[k] - 1] /\ Pow2[Chunk[k] - 1] \in Nat \ {0}
  BY <1>2, Pow2Facts
<1>4. MaxChunk(k) = Pow2[Chunk[k]] - 1
  BY DEF MaxChunk
<1>5. \A p \in Nat \ {0} : 2 * p - 1 \in Nat \ {0}
  OBVIOUS
<1> QED BY <1>1, <1>3, <1>4, <1>5

(* The chunk that is written next. *)
LEMMA CurFacts ==
    ASSUME NEW w, w.left \in Nat, w.kind \in Chunked
    PROVE  /\ Cur(w) \in Nat /\ Cur(w) <= w.left /\ Cur(w) \in 0..Pow2[Chunk[w.kind]] - 1
           /\ Cur(w) # MaxChunk(w.kind) => Cur(w) = w.left
<1>1. MaxChunk(w.kind) \in Nat \ {0} /\ MaxChunk(w.kind) = Pow2[Chunk[w.kind]] - 1
  BY ChunkFacts
<1>2. Cur(w) = IF w.left <= MaxChunk(w.kind) THEN w.left ELSE MaxChunk(w.kind)
  <2> DEFINE a == w.left
             b == MaxChunk(w.kind)
  <2>1. a \in Nat /\ b \in Nat /\ Cur(w) = CHOOSE x \in {a, b} : \A y \in {a, b} : x =< y
    BY <1>1 DEF Cur, Min
  <2> HIDE DEF a, b
  <2>2. Cur(w) = IF a <= b THEN a ELSE b
    BY <2>1
  <2> QED BY <2>2 DEF a, b
<1> QED BY <1>1, <1>2

(* The width of an offset is enough for it. *)
LEMMA OffsetFacts ==
    ASSUME sent \in Streams, NEW v \in Nat, v < sent.nCells, v >= Threshold("cellOffset")
    PROVE  /\ OffsetWidth(sent.nCells) \in Nat
           /\ v - Threshold("cellOffset") \in 0..Pow2[OffsetWidth(sent.nCells)] - 1
<1>1. PICK th \in Nat, n \in Nat, b \in 1..64 :
        th = Threshold("cellOffset") /\ n = sent.nCells /\ b = HeaderBits /\ n < Pow2[b]
  BY SentFacts, CodeFacts DEF Kinds
<1>2. PICK p \in Nat : p = Pow2[b]
  <2>1. \A x \in 1..64 : x \in Nat
    OBVIOUS
  <2> QED BY <2>1, Pow2Facts
<1>3. (n - 1) - th \in Nat /\ (n - 1) - th < Pow2[b]
  BY <1>1, <1>2
<1>4. PICK u \in 1..64 : u = LenInBits((n - 1) - th) /\ (n - 1) - th < Pow2[u]
  BY <1>3, LenInBitsFits
<1>5. u \in Nat
  OBVIOUS
<1>6. PICK q \in Nat : q = Pow2[u]
  BY <1>5, Pow2Facts
<1>7. v - th \in 0..q - 1
  BY <1>1, <1>4, <1>6
<1>8. OffsetWidth(sent.nCells) = u
  BY <1>1, <1>4 DEF OffsetWidth
<1> QED BY <1>1, <1>5, <1>6, <1>7, <1>8

(* The number and the literal of a place. *)
LEMMA NumFacts ==
    ASSUME sent \in Streams, NEW w \in Places, w.pc # "end"
    PROVE  /\ w.at \in 1..Len(sent.tokens) /\ w.kind \in Kinds /\ w.left \in Nat /\ w.at \in Nat
           /\ Num(w) \in Nat /\ Threshold(w.kind) \in Nat
           /\ sent.tokens[w.at] \in Token
           /\ sent.tokens[w.at].literal \in Seq(Bit)
           /\ Len(sent.tokens[w.at].literal) \in Nat
           /\ w.kind = "literalLen" => Num(w) = Len(sent.tokens[w.at].literal)
           /\ w.kind = "matchLen" => Num(w) = sent.tokens[w.at].match.len /\ Num(w) # 0
           /\ w.kind = "cellOffset" =>
                Num(w) = sent.tokens[w.at].match.cellOffset /\ Num(w) < sent.nCells
           /\ w.kind = "within" => Num(w) = sent.tokens[w.at].match.within
           /\ w.kind # "literalLen" => sent.tokens[w.at].match # NoMatch
<1>1. /\ w.at \in 1..Len(sent.tokens) /\ w.kind \in Kinds /\ w.left \in Nat /\ w.at \in Nat
      /\ w.kind # "literalLen" => sent.tokens[w.at].match # NoMatch
  BY DEF Places
<1>2. PICK t : t = sent.tokens[w.at]
  OBVIOUS
<1>3. /\ t \in Token
      /\ t.match # NoMatch => t.match.len > 0 /\ t.match.cellOffset < sent.nCells
  BY <1>1, <1>2, SentFacts
<1>4. /\ t.literal \in Seq(Bit) /\ Len(t.literal) \in Nat /\ t.match.len \in Nat
      /\ t.match.cellOffset \in Nat /\ t.match.within \in Nat
  BY <1>3, LenProperties DEF Token
<1>5. Num(w) = Number(t, w.kind)
  BY <1>2 DEF Num
<1>6. /\ w.kind = "literalLen" => Num(w) = Len(t.literal)
      /\ w.kind = "matchLen" => Num(w) = t.match.len
      /\ w.kind = "cellOffset" => Num(w) = t.match.cellOffset
      /\ w.kind = "within" => Num(w) = t.match.within
  BY <1>5 DEF Number
<1>7. w.kind \in {"literalLen", "matchLen", "within", "cellOffset"}
  BY <1>1 DEF Kinds, Chunked
<1>8. Num(w) \in Nat
  BY <1>4, <1>6, <1>7
<1>9. Threshold(w.kind) \in Nat
  BY <1>1, CodeFacts
<1>10. /\ w.kind = "matchLen" => Num(w) # 0
       /\ w.kind = "cellOffset" => Num(w) < sent.nCells
  BY <1>1, <1>2, <1>3, <1>4, <1>6
<1> QED BY <1>1, <1>2, <1>3, <1>4, <1>6, <1>8, <1>9, <1>10

LEMMA BehindFacts ==
    ASSUME sent \in Streams, NEW w \in Places, w.pc # "end"
    PROVE  BehindNumber(w) \in Places
<1>1. w.at \in 1..Len(sent.tokens) /\ Len(sent.tokens) \in Nat
  BY NumFacts, SentFacts
<1>2. w \in [at : Nat, kind : Kinds, left : Nat, pc : {"number", "chunk", "literal", "end"}]
  BY DEF Places
<1>3. CASE w.kind = "literalLen"
  BY <1>1, <1>2, <1>3 DEF BehindNumber, Places, Kinds, Chunked
<1>4. CASE w.kind = "matchLen"
  <2>1. sent.tokens[w.at].match # NoMatch
    BY <1>4, NumFacts
  <2> QED BY <1>1, <1>2, <1>4, <2>1 DEF BehindNumber, Places, Kinds, Chunked
<1>5. CASE w.kind = "cellOffset"
  <2>1. sent.tokens[w.at].match # NoMatch
    BY <1>5, NumFacts
  <2> QED BY <1>1, <1>2, <1>5, <2>1 DEF BehindNumber, Places, Kinds, Chunked
<1>6. CASE w.kind \notin {"literalLen", "matchLen", "cellOffset"}
  <2> DEFINE end == IF w.at < Len(sent.tokens) THEN "number" ELSE "end"
  <2>1. BehindNumber(w) = [at |-> w.at + 1, kind |-> "literalLen", left |-> w.left, pc |-> end]
    BY <1>6 DEF BehindNumber
  <2>2. w.left \in Nat /\ w.at + 1 \in Nat /\ "literalLen" \in Kinds
    BY <1>1, <1>2 DEF Kinds, Chunked
  <2>3. end \in {"number", "end"} /\ (end # "end" => w.at + 1 \in 1..Len(sent.tokens))
    BY <1>1
  <2> HIDE DEF end
  <2> QED BY <2>1, <2>2, <2>3 DEF Places
<1> QED BY <1>3, <1>4, <1>5, <1>6

(* What is left of a number after a chunk. *)
LEMMA ChunkTaken ==
    ASSUME sent \in Streams, NEW w \in Places, w.pc = "chunk",
           NEW v, v = [w EXCEPT !.left = w.left - Cur(w)]
    PROVE  /\ v \in Places /\ Num(v) = Num(w)
           /\ v.at = w.at /\ v.kind = w.kind /\ v.pc = "chunk" /\ v.left = w.left - Cur(w)
<1>1. /\ w.at \in 1..Len(sent.tokens) /\ w.kind \in Kinds /\ w.left \in Nat
      /\ Num(w) \in Nat /\ Threshold(w.kind) \in Nat
      /\ w.kind # "literalLen" => sent.tokens[w.at].match # NoMatch
  BY NumFacts
<1>2. w.kind \in Chunked /\ w.left + Threshold(w.kind) <= Num(w)
  BY DEF Places
<1>3. Cur(w) \in Nat /\ Cur(w) <= w.left
  BY <1>1, <1>2, CurFacts
<1>4. /\ w.left - Cur(w) \in Nat
      /\ (w.left - Cur(w)) + Threshold(w.kind) <= Num(w)
  BY <1>1, <1>2, <1>3
<1>5. /\ v \in [at : Nat, kind : Kinds, left : Nat, pc : {"number", "chunk", "literal", "end"}]
      /\ v.at = w.at /\ v.kind = w.kind /\ v.pc = "chunk" /\ v.left = w.left - Cur(w)
  BY <1>4 DEF Places
<1>6. Num(v) = Num(w)
  BY <1>5 DEF Num
<1> QED BY ONLY <1>1, <1>2, <1>4, <1>5, <1>6 DEF Places

(* The pieces are bit strings, and the next place is one. *)
LEMMA PlaceFacts ==
    ASSUME sent \in Streams, NEW w \in Places, w.pc # "end"
    PROVE  /\ Piece(w) \in Seq(Bit) /\ Len(Piece(w)) \in Nat
           /\ w.pc = "number" => Len(Piece(w)) # 0
           /\ After(w) \in Places
<1> DEFINE th == Threshold(w.kind)
<1>1. /\ w.at \in 1..Len(sent.tokens) /\ w.kind \in Kinds /\ w.left \in Nat
      /\ Num(w) \in Nat /\ th \in Nat
  BY NumFacts
<1>2. w \in [at : Nat, kind : Kinds, left : Nat, pc : {"number", "chunk", "literal", "end"}]
  BY DEF Places
<1>3. CASE w.pc = "literal"
  <2>1. Piece(w) = sent.tokens[w.at].literal
    BY <1>3 DEF Piece
  <2>2. Piece(w) \in Seq(Bit) /\ Len(Piece(w)) \in Nat
    BY <2>1, NumFacts
  <2>3. After(w) \in Places
    <3>1. CASE sent.tokens[w.at].match = NoMatch
      BY <1>2, <1>3, <3>1 DEF After, Places
    <3>2. CASE sent.tokens[w.at].match # NoMatch
      BY <1>1, <1>2, <1>3, <3>2 DEF After, Places, Kinds, Chunked
    <3> QED BY <3>1, <3>2
  <2> QED BY <1>3, <2>2, <2>3
<1>4. CASE w.pc = "chunk"
  <2>1. w.kind \in Chunked /\ w.left + th <= Num(w)
    BY <1>4 DEF Places
  <2>2. /\ Cur(w) \in Nat /\ Cur(w) <= w.left /\ Cur(w) \in 0..Pow2[Chunk[w.kind]] - 1
        /\ Chunk[w.kind] \in Nat
    BY <1>1, <2>1, CurFacts, ChunkFacts
  <2>3. Piece(w) = UintBits(Cur(w), Chunk[w.kind])
    BY <1>4 DEF Piece
  <2>4. Piece(w) \in Seq(Bit) /\ Len(Piece(w)) \in Nat
    BY <2>2, <2>3, UintBack
  <2> DEFINE v == [w EXCEPT !.left = w.left - Cur(w)]
  <2>5. v \in Places /\ v.pc # "end"
    BY <1>4, ChunkTaken
  <2>6. After(w) \in Places
    <3>1. After(w) = IF Cur(w) = MaxChunk(w.kind) THEN v ELSE BehindNumber(v)
      BY <1>4 DEF After
    <3> HIDE DEF v
    <3> QED BY <2>5, <3>1, BehindFacts
  <2> QED BY <1>4, <2>4, <2>6
<1>5. CASE w.pc = "number"
  <2>1. CASE Num(w) < th
    <3>1. Piece(w) = Code[w.kind][Num(w)] /\ After(w) = BehindNumber(w)
      BY <1>1, <1>5, <2>1 DEF Piece, After, IsLarge
    <3>2. Num(w) \in 0..th
      BY <1>1, <2>1
    <3>3. Piece(w) \in Seq(Bit) /\ Len(Piece(w)) \in Nat \ {0}
      BY <1>1, <3>1, <3>2, CodeFacts
    <3> QED BY <1>5, <3>1, <3>3, BehindFacts
  <2>2. CASE Num(w) >= th /\ w.kind \in Chunked
    <3>1. /\ Piece(w) = Code[w.kind][th]
          /\ After(w) = [w EXCEPT !.left = Num(w) - th, !.pc = "chunk"]
      BY <1>5, <2>2 DEF Piece, After, IsLarge
    <3>2. th \in 0..th
      BY <1>1
    <3>3. Piece(w) \in Seq(Bit) /\ Len(Piece(w)) \in Nat \ {0}
      BY <1>1, <3>1, <3>2, CodeFacts
    <3>4. After(w) \in Places
      <4> DEFINE v == [w EXCEPT !.left = Num(w) - th, !.pc = "chunk"]
      <4>1. Num(w) - th \in Nat /\ (Num(w) - th) + th <= Num(w)
        BY <1>1, <2>2
      <4>2. /\ v \in [at : Nat, kind : Kinds, left : Nat,
                       pc : {"number", "chunk", "literal", "end"}]
            /\ v.at = w.at /\ v.kind = w.kind /\ v.pc = "chunk" /\ v.left = Num(w) - th
        BY <1>2, <4>1
      <4>3. Num(v) = Num(w)
        BY <4>2 DEF Num
      <4>4. w.kind # "literalLen" => sent.tokens[w.at].match # NoMatch
        BY NumFacts
      <4> HIDE DEF v
      <4>5. v \in Places
        BY <1>1, <2>2, <4>1, <4>2, <4>3, <4>4 DEF Places
      <4> QED BY <3>1, <4>5 DEF v
    <3> QED BY <1>5, <3>3, <3>4
  <2>3. CASE Num(w) >= th /\ w.kind \notin Chunked
    <3> DEFINE c == Code[w.kind][th]
               u == UintBits(Num(w) - th, OffsetWidth(sent.nCells))
    <3>1. Piece(w) = c \o u /\ After(w) = BehindNumber(w) /\ w.kind = "cellOffset"
      BY <1>1, <1>5, <2>3 DEF Piece, After, IsLarge, Kinds
    <3>2. th \in 0..th
      BY <1>1
    <3>3. c \in Seq(Bit) /\ Len(c) \in Nat \ {0}
      BY <1>1, <3>2, CodeFacts
    <3>4. u \in Seq(Bit) /\ Len(u) \in Nat
      <4>1. Num(w) < sent.nCells
        BY <3>1, NumFacts
      <4>2. /\ OffsetWidth(sent.nCells) \in Nat
            /\ Num(w) - th \in 0..Pow2[OffsetWidth(sent.nCells)] - 1
        BY <1>1, <2>3, <3>1, <4>1, OffsetFacts
      <4> QED BY <4>2, UintBack
    <3> HIDE DEF c, u
    <3>5. c \o u \in Seq(Bit) /\ Len(c \o u) = Len(c) + Len(u)
      BY <3>3, <3>4, ConcatProperties
    <3>6. Len(Piece(w)) \in Nat \ {0}
      BY <3>1, <3>3, <3>4, <3>5
    <3> QED BY <1>5, <3>1, <3>5, <3>6, BehindFacts
  <2> QED BY <1>1, <2>1, <2>2, <2>3
<1> QED BY <1>2, <1>3, <1>4, <1>5

LEMMA SameSent ==
    ASSUME sent' = sent
    PROVE  /\ Places' = Places
           /\ \A w : Piece(w)' = Piece(w) /\ After(w)' = After(w) /\ Num(w)' = Num(w)
<1>1. \A w : Num(w)' = Num(w) /\ IsLarge(w)' = IsLarge(w)
  BY DEF Num, Number, IsLarge
<1>2. Places' = Places
  BY <1>1 DEF Places
<1>3. \A w : Piece(w)' = Piece(w)
  BY <1>1 DEF Piece
<1>4. \A w : BehindNumber(w)' = BehindNumber(w)
  BY DEF BehindNumber
<1>5. \A w : After(w)' = After(w)
  BY <1>1, <1>4 DEF After
<1> QED BY <1>1, <1>2, <1>3, <1>5

(* A course goes on with the piece that is written at its last place. *)
LEMMA CourseGoesOn ==
    ASSUME sent \in Streams, sent' = sent, stream \in Seq(Bit),
           NEW n, NEW h, NEW o, IsCourse(n, h, o, Len(stream)), h[n].pc # "end",
           stream' = stream \o Piece(h[n])
    PROVE  /\ stream' \in Seq(Bit)
           /\ \E h1, o1 : /\ IsCourse(n + 1, h1, o1, Len(stream))'
                          /\ h1[n + 1] = After(h[n])
<1> DEFINE m == Len(stream)
           p == Piece(h[n])
<1>1. /\ n \in Nat /\ m \in Nat /\ h \in [0..n -> Places] /\ o \in [0..n -> 0..m]
      /\ h[0] = FirstPlace /\ o[0] = HeaderBits /\ o[n] = m
      /\ \A l \in 1..HeaderBits : stream[l] = UintBits(sent.nCells, HeaderBits)[l]
      /\ \A k \in 0..n - 1 :
          /\ h[k].pc # "end"
          /\ h[k + 1] = After(h[k])
          /\ o[k + 1] = o[k] + Len(Piece(h[k]))
          /\ \A l \in 1..Len(Piece(h[k])) : stream[o[k] + l] = Piece(h[k])[l]
  BY DEF IsCourse
<1>2. h[n] \in Places /\ n \in 0..n
  BY <1>1
<1>3. p \in Seq(Bit) /\ Len(p) \in Nat /\ After(h[n]) \in Places
  BY <1>2, PlaceFacts
<1>4. /\ stream' \in Seq(Bit) /\ Len(stream') = m + Len(p)
      /\ \A k \in 1..m : stream'[k] = stream[k]
      /\ \A l \in 1..Len(p) : stream'[m + l] = p[l]
  <2> HIDE DEF p
  <2>1. /\ stream' \in Seq(Bit) /\ Len(stream') = m + Len(p)
        /\ \A k \in 1..m + Len(p) : stream'[k] = IF k <= m THEN stream[k] ELSE p[k - m]
    BY <1>1, <1>3, ConcatProperties DEF p
  <2>2. \A l \in 1..Len(p) : m + l \in 1..m + Len(p) /\ ~ (m + l <= m) /\ (m + l) - m = l
    BY <1>1, <1>3
  <2>3. \A k \in 1..m : k \in 1..m + Len(p) /\ k <= m
    BY <1>1, <1>3
  <2> QED BY <2>1, <2>2, <2>3
<1> HIDE DEF m, p
<1>5. /\ \A k \in 0..n + 1 : k = n + 1 \/ k \in 0..n
      /\ \A k \in 0..n : k \in 0..n + 1 /\ k # n + 1
      /\ n + 1 \in 0..n + 1 /\ n + 1 \in Nat
  BY <1>1
<1>15. PICK h1 : h1 = [k \in 0..n + 1 |-> IF k = n + 1 THEN After(h[n]) ELSE h[k]]
  OBVIOUS
<1>16. PICK o1 : o1 = [k \in 0..n + 1 |-> IF k = n + 1 THEN m + Len(p) ELSE o[k]]
  OBVIOUS
<1>6. h1 \in [0..n + 1 -> Places]
  BY <1>1, <1>3, <1>5, <1>15
<1>7. o1 \in [0..n + 1 -> 0..m + Len(p)]
  <2>1. \A k \in 0..n : o[k] \in 0..m + Len(p)
    BY <1>1, <1>3
  <2>2. m + Len(p) \in 0..m + Len(p)
    BY <1>1, <1>3
  <2> QED BY <1>5, <1>16, <2>1, <2>2
<1>8. /\ \A k \in 0..n : h1[k] = h[k] /\ o1[k] = o[k]
      /\ h1[n + 1] = After(h[n]) /\ o1[n + 1] = m + Len(p)
  BY <1>5, <1>15, <1>16
<1>9. ASSUME NEW k \in 0..(n + 1) - 1
      PROVE  /\ h1[k].pc # "end"
             /\ h1[k + 1] = After(h1[k])
             /\ o1[k + 1] = o1[k] + Len(Piece(h1[k]))
             /\ \A l \in 1..Len(Piece(h1[k])) : stream'[o1[k] + l] = Piece(h1[k])[l]
  <2>1. CASE k = n
    BY ZenonT(40), <1>1, <1>2, <1>4, <1>8, <2>1 DEF p
  <2>2. CASE k # n
    <3>1. k \in 0..n - 1 /\ k \in 0..n /\ k + 1 \in 0..n
      <4>1. k \in 0..(n + 1) - 1
        BY <1>9
      <4> QED BY ONLY <1>1, <2>2, <4>1
    <3>2. PICK q : q = Piece(h[k])
      OBVIOUS
    <3>3. h[k] \in Places
      BY <1>1, <3>1
    <3>4. Len(q) \in Nat
      BY <1>1, <3>1, <3>2, <3>3, PlaceFacts
    <3>5. o[k] \in 0..m /\ o[k + 1] \in 0..m /\ o[k + 1] = o[k] + Len(q)
      BY <1>1, <3>1, <3>2
    <3>6. \A x, y \in Nat : x + y \in 0..m => \A l \in 1..y : x + l \in 1..m
      BY <1>1
    <3>7. \A l \in 1..Len(q) : o[k] + l \in 1..m
      BY SMTT(30), <1>1, <3>4, <3>5, <3>6
    <3>8. \A l \in 1..Len(q) : stream'[o[k] + l] = q[l]
      BY <1>1, <1>4, <3>1, <3>2, <3>7
    <3>9. h1[k] = h[k] /\ h1[k + 1] = h[k + 1] /\ o1[k] = o[k] /\ o1[k + 1] = o[k + 1]
      BY <1>8, <3>1
    <3>10. h[k].pc # "end" /\ h[k + 1] = After(h[k]) /\ o[k + 1] = o[k] + Len(q)
      BY <1>1, <3>1, <3>2
    <3> QED BY ONLY <3>2, <3>8, <3>9, <3>10
  <2> QED BY <2>1, <2>2
<1>10. \A l \in 1..HeaderBits : stream'[l] = stream[l]
  <2>1. HeaderBits \in 0..m
    BY <1>1, <1>2
  <2>2. \A l \in 1..HeaderBits : l \in 1..m
    BY <1>1, <2>1
  <2> QED BY <1>4, <2>2
<1>11. 0 \in 0..n
  BY <1>1
<1>12. PICK last : last = m + Len(p)
  OBVIOUS
<1>13. Len(stream)' = last /\ last \in Nat
  BY <1>1, <1>3, <1>4, <1>12
<1>14. IsCourse(n + 1, h1, o1, last)'
  <2>1. /\ n + 1 \in Nat /\ last \in Nat /\ o1 \in [0..n + 1 -> 0..last]
        /\ h1 \in [0..n + 1 -> Places']
    BY <1>1, <1>6, <1>7, <1>12, <1>13, SameSent
  <2>2. h1[0] = FirstPlace /\ o1[0] = HeaderBits /\ o1[n + 1] = last
    BY <1>1, <1>8, <1>11, <1>12
  <2>3. \A l \in 1..HeaderBits : stream'[l] = UintBits(sent'.nCells, HeaderBits)[l]
    BY <1>1, <1>10
  <2>4. \A k \in 0..(n + 1) - 1 :
          /\ h1[k].pc # "end"
          /\ h1[k + 1] = After(h1[k])'
          /\ o1[k + 1] = o1[k] + Len(Piece(h1[k])')
          /\ \A l \in 1..Len(Piece(h1[k])') : stream'[o1[k] + l] = Piece(h1[k])'[l]
    BY <1>9, SameSent
  <2> QED BY <2>1, <2>2, <2>3, <2>4 DEF IsCourse
<1>17. IsCourse(n + 1, h1, o1, Len(stream))'
  BY <1>13, <1>14
<1> QED BY <1>4, <1>8, <1>17
-----------------------------------------------------------------------------
WPlace == [at |-> at, kind |-> wKind, left |-> wLeft, pc |-> wpc]

TypeInv ==
    /\ sent \in Streams
    /\ stream \in Seq(Bit)
    /\ received \in Seq(Token)
    /\ wpc \in {"header", "number", "chunk", "literal", "end", "done"}
    /\ rpc \in {"start", "header", "number", "chunk", "literal", "done"}

Written ==
    /\ wpc = "header" => stream = << >> /\ at = 1 /\ wKind = "literalLen" /\ wLeft = 0
    /\ wpc \in {"number", "chunk", "literal", "end"} =>
        \E n, h, o : IsCourse(n, h, o, Len(stream)) /\ h[n] = WPlace
    /\ wpc = "done" =>
        /\ HasMark(stream) /\ MarkAt(stream) \in 1..Len(stream)
        /\ \E n, h, o : IsCourse(n, h, o, MarkAt(stream) - 1) /\ h[n].pc = "end"

(* What deserialise knows of a token when it reads the number of kind k. *)
Partial(t, k) ==
    [literal |-> IF k = "literalLen" THEN << >> ELSE t.literal,
     match |-> [len        |-> IF k \in {"cellOffset", "within"} THEN t.match.len ELSE 0,
                cellOffset |-> IF k = "within" THEN t.match.cellOffset ELSE 0,
                within     |-> 0]]

(* deserialise is where run_lz was at w, at the offset x. *)
Reached(w, x) ==
    /\ rpc = w.pc /\ rKind = w.kind /\ offs = x
    /\ Len(received) = w.at - 1
    /\ \A t \in 1..Len(received) : received[t] = sent.tokens[t]
    /\ token = Partial(sent.tokens[w.at], w.kind)
    /\ rpc = "chunk" => num = Num(w) - w.left
    /\ rpc = "literal" => num = Len(sent.tokens[w.at].literal)

Read ==
    /\ rpc # "start" => wpc = "done" /\ cntBits = MarkAt(stream) - 1
    /\ rpc \in {"start", "header"} =>
        received = << >> /\ token = EmptyToken /\ rKind = "literalLen"
    /\ rpc \notin {"start", "header"} => nCells = sent.nCells
    /\ rpc \in {"number", "chunk", "literal"} =>
        \E n, h, o : \E j \in 0..n - 1 :
            IsCourse(n, h, o, cntBits) /\ h[n].pc = "end" /\ Reached(h[j], o[j])
    /\ rpc = "done" => offs = cntBits /\ received = sent.tokens

IInv == TypeInv /\ Written /\ Read

(* deserialise finds the mark, and a symbol wherever a number begins. *)
NeverStops ==
    /\ rpc = "start" /\ wpc = "done" => HasMark(stream)
    /\ rpc = "number" => \E s \in 0..Threshold(rKind) : Holds(offs, Code[rKind][s])

LEMMA InitOK == Init => IInv
<1> SUFFICES ASSUME Init PROVE IInv
  OBVIOUS
<1>1. << >> \in Seq(Bit) /\ << >> \in Seq(Token)
  BY EmptySeq
<1>2. TypeInv
  BY <1>1 DEF Init, TypeInv
<1>3. Written /\ Read
  BY DEF Init, Written, Read
<1> QED BY <1>2, <1>3 DEF IInv

(* While run_lz writes, deserialise has not begun. *)
LEMMA ReadWaits ==
    ASSUME IInv, wpc # "done", UNCHANGED <<sent, reader>>
    PROVE  Read' /\ sent' \in Streams /\ received' \in Seq(Token) /\ rpc' = "start"
BY DEF IInv, Read, TypeInv, reader

(* A step of run_lz that writes the piece of its place and goes to the next place. *)
LEMMA PieceWritten ==
    ASSUME IInv, wpc \in {"number", "chunk", "literal"}, UNCHANGED <<sent, reader>>,
           stream' = stream \o Piece(WPlace), WPlace' = After(WPlace)
    PROVE  IInv'
<1>1. PICK n, h, o : IsCourse(n, h, o, Len(stream)) /\ h[n] = WPlace
  BY DEF IInv, Written
<1>2. sent \in Streams /\ sent' = sent /\ stream \in Seq(Bit)
  BY DEF IInv, TypeInv
<1>3. h[n].pc # "end" /\ stream' = stream \o Piece(h[n])
  BY <1>1 DEF WPlace
<1>4. /\ stream' \in Seq(Bit)
      /\ \E h1, o1 : /\ IsCourse(n + 1, h1, o1, Len(stream))'
                     /\ h1[n + 1] = After(h[n])
  BY <1>1, <1>2, <1>3, CourseGoesOn
<1>5. PICK h1, o1 : IsCourse(n + 1, h1, o1, Len(stream))' /\ h1[n + 1] = WPlace'
  BY <1>1, <1>4
<1>6. wpc' \in {"number", "chunk", "literal", "end"}
  <2>1. WPlace \in Places /\ WPlace.pc # "end"
    BY <1>1 DEF IsCourse, WPlace
  <2>2. WPlace' \in Places
    BY <1>2, <2>1, PlaceFacts
  <2> QED BY <2>2 DEF Places, WPlace
<1>7. Written'
  BY <1>5, <1>6 DEF Written
<1>8. Read' /\ sent' \in Streams /\ received' \in Seq(Token) /\ rpc' = "start"
  BY ReadWaits
<1> QED BY <1>4, <1>6, <1>7, <1>8 DEF IInv, TypeInv

LEMMA PlaceNow ==
    ASSUME IInv, wpc \in {"number", "chunk", "literal", "end"}
    PROVE  WPlace \in Places
BY DEF IInv, Written, IsCourse

(* What dump_token does after a number leads to the place behind it. *)
LEMMA NumberIsWritten ==
    ASSUME NumberWritten, wKind \in Kinds, NEW l, wLeft' = l
    PROVE  WPlace' = BehindNumber([at |-> at, kind |-> wKind, left |-> l, pc |-> wpc])
<1> DEFINE v == [at |-> at, kind |-> wKind, left |-> l, pc |-> wpc]
<1>1. WPlace' = [at |-> at', kind |-> wKind', left |-> l, pc |-> wpc']
  BY DEF WPlace
<1>2. CASE wKind = "literalLen"
  BY <1>1, <1>2 DEF NumberWritten, BehindNumber
<1>3. CASE wKind = "matchLen"
  BY <1>1, <1>3 DEF NumberWritten, BehindNumber
<1>4. CASE wKind = "cellOffset"
  BY <1>1, <1>4 DEF NumberWritten, BehindNumber
<1>5. CASE wKind = "within"
  BY <1>1, <1>5 DEF NumberWritten, BehindNumber
<1> QED BY <1>2, <1>3, <1>4, <1>5 DEF Kinds, Chunked

LEMMA WriteSmallOK == ASSUME IInv, WriteSmall PROVE IInv'
<1>1. /\ wpc = "number" /\ ToWrite < Threshold(wKind) /\ NumberWritten
      /\ stream' = stream \o Code[wKind][ToWrite]
      /\ sent' = sent /\ wLeft' = wLeft /\ UNCHANGED reader
  BY DEF WriteSmall, Put
<1>2. WPlace \in Places /\ wKind \in Kinds /\ Num(WPlace) = ToWrite
  BY <1>1, PlaceNow DEF Places, WPlace, Num, ToWrite
<1>3. Num(WPlace) \in Nat /\ Threshold(wKind) \in Nat
  BY <1>1, <1>2, NumFacts DEF IInv, TypeInv, WPlace
<1>4. ~ IsLarge(WPlace)
  BY <1>1, <1>2, <1>3 DEF IsLarge, WPlace
<1>5. Piece(WPlace) = Code[wKind][ToWrite] /\ After(WPlace) = BehindNumber(WPlace)
  BY <1>1, <1>2, <1>4 DEF Piece, After, WPlace
<1>6. WPlace' = BehindNumber(WPlace)
  BY <1>1, <1>2, NumberIsWritten DEF WPlace
<1> QED BY <1>1, <1>5, <1>6, PieceWritten

LEMMA WriteLargeOffsetOK == ASSUME IInv, WriteLargeOffset PROVE IInv'
<1>1. /\ wpc = "number" /\ ToWrite >= Threshold(wKind) /\ NumberWritten
      /\ wKind = "cellOffset"
      /\ stream' = stream \o (Code[wKind][Threshold(wKind)]
             \o UintBits(ToWrite - Threshold(wKind), OffsetWidth(sent.nCells)))
      /\ sent' = sent /\ wLeft' = wLeft /\ UNCHANGED reader
  BY DEF WriteLargeOffset, Put
<1>2. WPlace \in Places /\ wKind \in Kinds /\ Num(WPlace) = ToWrite
  BY <1>1, PlaceNow DEF Places, WPlace, Num, ToWrite
<1>3. IsLarge(WPlace) /\ wKind \notin Chunked
  BY <1>1, <1>2 DEF IsLarge, WPlace, Chunked
<1>4. /\ Piece(WPlace) = Code[wKind][Threshold(wKind)]
             \o UintBits(ToWrite - Threshold(wKind), OffsetWidth(sent.nCells))
      /\ After(WPlace) = BehindNumber(WPlace)
  BY <1>1, <1>2, <1>3 DEF Piece, After, WPlace
<1>5. WPlace' = BehindNumber(WPlace)
  BY <1>1, <1>2, NumberIsWritten DEF WPlace
<1> QED BY <1>1, <1>4, <1>5, PieceWritten

LEMMA WriteLargeOK == ASSUME IInv, WriteLarge PROVE IInv'
<1>1. /\ wpc = "number" /\ ToWrite >= Threshold(wKind) /\ wpc' = "chunk" /\ wKind \in Chunked
      /\ stream' = stream \o Code[wKind][Threshold(wKind)]
      /\ wLeft' = ToWrite - Threshold(wKind)
      /\ sent' = sent /\ UNCHANGED <<at, wKind, reader>>
  BY DEF WriteLarge, Put
<1>2. WPlace \in Places /\ Num(WPlace) = ToWrite
  BY <1>1, PlaceNow DEF WPlace, Num, ToWrite
<1>3. IsLarge(WPlace)
  BY <1>1, <1>2 DEF IsLarge, WPlace
<1>4. /\ Piece(WPlace) = Code[wKind][Threshold(wKind)]
      /\ After(WPlace) = [WPlace EXCEPT !.left = ToWrite - Threshold(wKind), !.pc = "chunk"]
  BY <1>1, <1>2, <1>3 DEF Piece, After, WPlace
<1>5. WPlace' = After(WPlace)
  BY <1>1, <1>4 DEF WPlace
<1> QED BY <1>1, <1>4, <1>5, PieceWritten

LEMMA WriteChunkOK == ASSUME IInv, WriteChunk PROVE IInv'
<1> DEFINE cur == Min({wLeft, MaxChunk(wKind)})
           v == [at |-> at, kind |-> wKind, left |-> wLeft - cur, pc |-> wpc]
<1>1. /\ wpc = "chunk" /\ stream' = stream \o UintBits(cur, Chunk[wKind])
      /\ wLeft' = wLeft - cur
      /\ sent' = sent /\ UNCHANGED reader
      /\ cur = MaxChunk(wKind) => UNCHANGED <<at, wKind, wpc>>
      /\ cur # MaxChunk(wKind) => NumberWritten
  BY DEF WriteChunk, Put
<1>2. WPlace \in Places /\ wKind \in Kinds /\ Cur(WPlace) = cur
  BY <1>1, PlaceNow DEF Places, WPlace, Cur
<1>3. [WPlace EXCEPT !.left = WPlace.left - Cur(WPlace)] = v
  BY <1>2 DEF WPlace
<1> HIDE DEF cur
<1>4. /\ Piece(WPlace) = UintBits(cur, Chunk[wKind])
      /\ After(WPlace) = IF cur = MaxChunk(wKind) THEN v ELSE BehindNumber(v)
  BY <1>1, <1>2, <1>3 DEF Piece, After, WPlace
<1>5. WPlace' = After(WPlace)
  <2>1. CASE cur = MaxChunk(wKind)
    BY <1>1, <1>4, <2>1 DEF WPlace
  <2>2. CASE cur # MaxChunk(wKind)
    <3>1. WPlace' = BehindNumber(v)
      BY <1>1, <1>2, <2>2, NumberIsWritten
    <3> QED BY <1>4, <2>2, <3>1
  <2> QED BY <2>1, <2>2
<1> QED BY <1>1, <1>4, <1>5, PieceWritten

LEMMA WriteLiteralOK == ASSUME IInv, WriteLiteral PROVE IInv'
<1>1. /\ wpc = "literal" /\ stream' = stream \o sent.tokens[at].literal
      /\ sent' = sent /\ UNCHANGED <<at, wLeft, reader>>
      /\ sent.tokens[at].match = NoMatch => wpc' = "end" /\ wKind' = wKind
      /\ sent.tokens[at].match # NoMatch => wpc' = "number" /\ wKind' = "matchLen"
  BY DEF WriteLiteral, Put
<1>2. /\ Piece(WPlace) = sent.tokens[at].literal
      /\ After(WPlace) = IF sent.tokens[at].match = NoMatch
                         THEN [WPlace EXCEPT !.pc = "end"]
                         ELSE [WPlace EXCEPT !.pc = "number", !.kind = "matchLen"]
  BY <1>1 DEF Piece, After, WPlace
<1>3. WPlace' = After(WPlace)
  BY <1>1, <1>2 DEF WPlace
<1> QED BY <1>1, <1>2, <1>3, PieceWritten

(* The header: the course begins. *)
LEMMA WriteHeaderOK == ASSUME IInv, WriteHeader PROVE IInv'
<1>1. /\ wpc = "header" /\ wpc' = "number" /\ stream' = stream \o UintBits(sent.nCells, HeaderBits)
      /\ sent' = sent /\ UNCHANGED <<at, wKind, wLeft, reader>>
      /\ stream = << >> /\ at = 1 /\ wKind = "literalLen" /\ wLeft = 0
      /\ sent \in Streams
  BY DEF WriteHeader, Put, IInv, TypeInv, Written
<1>2. PICK b : b = UintBits(sent.nCells, HeaderBits)
  OBVIOUS
<1>3. b \in Seq(Bit) /\ Len(b) = HeaderBits /\ HeaderBits \in Nat
  BY <1>1, <1>2, SentFacts, UintBack
<1>4. stream' = b
  BY <1>1, <1>2, <1>3
<1> DEFINE h == [k \in 0..0 |-> FirstPlace]
           o == [k \in 0..0 |-> HeaderBits]
<1>5. FirstPlace \in Places /\ WPlace' = FirstPlace
  <2>1. 1 \in 1..Len(sent.tokens)
    BY <1>1, SentFacts
  <2>2. FirstPlace \in Places
    BY <2>1 DEF FirstPlace, Places, Kinds, Chunked
  <2> QED BY <1>1, <2>2 DEF WPlace, FirstPlace
<1>6. /\ h \in [0..0 -> Places'] /\ h[0] = FirstPlace
      /\ o[0] = HeaderBits /\ o \in [0..0 -> 0..HeaderBits]
  BY <1>1, <1>3, <1>5, SameSent
<1> HIDE DEF h, o
<1>7. IsCourse(0, h, o, HeaderBits)'
  BY <1>1, <1>2, <1>3, <1>4, <1>6 DEF IsCourse
<1>8. IsCourse(0, h, o, Len(stream))'
  <2>1. Len(stream)' = HeaderBits
    BY <1>3, <1>4
  <2> QED BY <1>7, <2>1
<1>9. Written'
  BY <1>1, <1>5, <1>6, <1>8 DEF Written
<1>10. Read' /\ sent' \in Streams /\ received' \in Seq(Token) /\ rpc' = "start"
  BY <1>1, ReadWaits
<1> QED BY <1>1, <1>3, <1>4, <1>9, <1>10 DEF IInv, TypeInv

(* A course stays one when only bits behind it change. *)
LEMMA CourseKept ==
    ASSUME sent \in Streams, sent' = sent, NEW n, NEW h, NEW o, NEW m, IsCourse(n, h, o, m),
           \A k \in 1..m : stream'[k] = stream[k]
    PROVE  IsCourse(n, h, o, m)'
<1>1. /\ n \in Nat /\ m \in Nat /\ h \in [0..n -> Places] /\ o \in [0..n -> 0..m]
      /\ h[0] = FirstPlace /\ o[0] = HeaderBits /\ o[n] = m
      /\ \A l \in 1..HeaderBits : stream[l] = UintBits(sent.nCells, HeaderBits)[l]
      /\ \A k \in 0..n - 1 :
          /\ h[k].pc # "end"
          /\ h[k + 1] = After(h[k])
          /\ o[k + 1] = o[k] + Len(Piece(h[k]))
          /\ \A l \in 1..Len(Piece(h[k])) : stream[o[k] + l] = Piece(h[k])[l]
  BY DEF IsCourse
<1>2. ASSUME NEW k \in 0..n - 1
      PROVE  /\ h[k].pc # "end"
             /\ h[k + 1] = After(h[k])'
             /\ o[k + 1] = o[k] + Len(Piece(h[k])')
             /\ \A l \in 1..Len(Piece(h[k])') : stream'[o[k] + l] = Piece(h[k])'[l]
  <2>1. k \in 0..n /\ k + 1 \in 0..n
    BY <1>1
  <2>2. PICK q : q = Piece(h[k])
    OBVIOUS
  <2>3. Len(q) \in Nat
    BY <1>1, <2>1, <2>2, PlaceFacts
  <2>4. o[k] \in 0..m /\ o[k + 1] \in 0..m /\ o[k + 1] = o[k] + Len(q)
    BY <1>1, <2>1, <2>2
  <2>5. \A x, y \in Nat : x + y \in 0..m => \A l \in 1..y : x + l \in 1..m
    BY <1>1
  <2>6. \A l \in 1..Len(q) : o[k] + l \in 1..m
    BY <1>1, <2>3, <2>4, <2>5
  <2>7. \A l \in 1..Len(q) : stream'[o[k] + l] = q[l]
    BY <1>1, <2>2, <2>6
  <2>8. Piece(h[k])' = q /\ After(h[k])' = After(h[k])
    BY <2>2, SameSent
  <2> QED BY <1>1, <2>4, <2>7, <2>8
<1>3. \A l \in 1..HeaderBits : stream'[l] = stream[l]
  <2>1. HeaderBits \in 0..m
    BY <1>1
  <2>2. \A l \in 1..HeaderBits : l \in 1..m
    BY <1>1, <2>1
  <2> QED BY <2>2
<1>4. h \in [0..n -> Places']
  BY <1>1, SameSent
<1>5. \A l \in 1..HeaderBits : stream'[l] = UintBits(sent'.nCells, HeaderBits)[l]
  BY <1>1, <1>3
<1> QED BY <1>1, <1>2, <1>4, <1>5 DEF IsCourse

LEMMA WriteEndOK == ASSUME IInv, WriteEnd PROVE IInv'
<1>1. /\ wpc = "end" /\ wpc' = "done" /\ stream' = Marked(stream) /\ sent' = sent
      /\ UNCHANGED reader /\ sent \in Streams /\ stream \in Seq(Bit)
  BY DEF WriteEnd, IInv, TypeInv
<1>2. PICK n, h, o : IsCourse(n, h, o, Len(stream)) /\ h[n] = WPlace
  BY <1>1 DEF IInv, Written
<1>3. PICK m \in Nat : m = Len(stream)
  BY <1>1, LenProperties
<1>4. /\ stream' \in Seq(Bit) /\ Len(stream') \in Nat /\ m + 1 <= Len(stream')
      /\ \A k \in 1..m : stream'[k] = stream[k]
      /\ HasMark(stream') /\ MarkAt(stream') = m + 1
  <2>1. \A k \in 1..m : k \in 1..Len(Marked(stream)) /\ k <= m
    BY <1>1, <1>3, MarkedFacts
  <2> QED BY <1>1, <1>3, <2>1, MarkedFacts, MarkFound
<1>5. IsCourse(n, h, o, m)'
  BY <1>1, <1>2, <1>3, <1>4, CourseKept
<1>6. IsCourse(n, h, o, MarkAt(stream) - 1)' /\ MarkAt(stream') \in 1..Len(stream')
  <2>1. (MarkAt(stream) - 1)' = m /\ MarkAt(stream') \in 1..Len(stream')
    BY <1>3, <1>4
  <2> QED BY <1>5, <2>1
<1>7. h[n].pc = "end"
  BY <1>1, <1>2 DEF WPlace
<1>8. Written'
  BY <1>1, <1>4, <1>6, <1>7 DEF Written
<1>9. Read' /\ sent' \in Streams /\ received' \in Seq(Token) /\ rpc' = "start"
  BY <1>1, ReadWaits
<1> QED BY <1>1, <1>4, <1>8, <1>9 DEF IInv, TypeInv
-----------------------------------------------------------------------------
(* run_lz has ended. *)
LEMMA WriterEnded ==
    ASSUME IInv, wpc = "done", UNCHANGED <<sent, writer>>
    PROVE  Written' /\ sent' \in Streams /\ stream' \in Seq(Bit) /\ wpc' = "done"
<1>1. /\ sent' = sent /\ stream' = stream /\ wpc' = wpc
  BY DEF writer
<1>2. PICK n, h, o : IsCourse(n, h, o, MarkAt(stream) - 1) /\ h[n].pc = "end"
  BY DEF IInv, Written
<1>3. PICK m : m = MarkAt(stream) - 1
  OBVIOUS
<1>4. sent \in Streams
  BY DEF IInv, TypeInv
<1>5. IsCourse(n, h, o, m)'
  BY <1>1, <1>2, <1>3, <1>4, CourseKept
<1>6. IsCourse(n, h, o, MarkAt(stream) - 1)'
  <2>1. (MarkAt(stream) - 1)' = m
    BY <1>1, <1>3
  <2> QED BY <1>5, <2>1
<1> QED BY <1>1, <1>2, <1>6 DEF IInv, Written, TypeInv

LEMMA ReadEndMarkOK == ASSUME IInv, ReadEndMark PROVE IInv'
<1>1. /\ rpc = "start" /\ wpc = "done" /\ rpc' = "header" /\ cntBits' = MarkAt(stream) - 1
      /\ UNCHANGED <<sent, writer>> /\ UNCHANGED <<token, received, rKind>>
  BY DEF ReadEndMark
<1>2. Written' /\ sent' \in Streams /\ stream' \in Seq(Bit) /\ wpc' = "done" /\ stream' = stream
  BY <1>1, WriterEnded DEF writer
<1>3. Read'
  BY <1>1, <1>2 DEF IInv, Read
<1> QED BY <1>1, <1>2, <1>3 DEF IInv, TypeInv

(* A slice is what was written there. *)
LEMMA SliceIs ==
    ASSUME stream \in Seq(Bit), NEW p \in Seq(Bit), NEW x \in Nat, x + Len(p) <= Len(stream),
           \A l \in 1..Len(p) : stream[x + l] = p[l]
    PROVE  Slice(x, Len(p)) = p
<1>1. Len(p) \in Nat /\ Len(stream) \in Nat
  BY LenProperties
<1>2. PICK s : s = Slice(x, Len(p))
  OBVIOUS
<1>3. /\ s \in Seq(Bit) /\ Len(s) = Len(p)
      /\ \A l \in 1..Len(p) : s[l] = stream[x + l]
  BY <1>1, <1>2, CutAt DEF Slice
<1> QED BY <1>2, <1>3, SeqEqual

(* deserialise at the next place, or at the end. *)
Arrived(w, x) ==
    IF w.pc = "end"
    THEN rpc = "done" /\ offs = x /\ received = sent.tokens
    ELSE Reached(w, x)

(* What arrives in a step is the next token, if anything does. *)
TakesNext ==
    \/ received' = received
    \/ /\ Len(received) < Len(sent.tokens)
       /\ received' = Append(received, sent.tokens[Len(received) + 1])

(* Before the end of the course there is a piece, and only the last one ends at
   the mark, except that a literal after it may be empty. *)
LEMMA AtPlace ==
    ASSUME IInv, wpc = "done", rpc # "start", NEW n, NEW h, NEW o, IsCourse(n, h, o, cntBits),
           h[n].pc = "end", NEW j \in 0..n - 1
    PROVE  /\ sent \in Streams /\ stream \in Seq(Bit) /\ Len(stream) \in Nat
           /\ cntBits \in Nat /\ cntBits < Len(stream)
           /\ h[j] \in Places /\ h[j].pc # "end" /\ h[j + 1] = After(h[j])
           /\ h[j + 1] \in Places
           /\ o[j] \in 0..cntBits /\ o[j + 1] \in 0..cntBits
           /\ o[j + 1] = o[j] + Len(Piece(h[j]))
           /\ Piece(h[j]) \in Seq(Bit) /\ Len(Piece(h[j])) \in Nat
           /\ \A l \in 1..Len(Piece(h[j])) : stream[o[j] + l] = Piece(h[j])[l]
           /\ After(h[j]).pc = "end" => j + 1 = n /\ o[j + 1] = cntBits
           /\ After(h[j]).pc # "end" => j + 1 \in 0..n - 1
           /\ After(h[j]).pc = "number" => o[j + 1] < cntBits
           /\ h[j].pc = "number" => o[j] < cntBits
<1>1. /\ n \in Nat /\ cntBits \in Nat /\ h \in [0..n -> Places] /\ o \in [0..n -> 0..cntBits]
      /\ o[n] = cntBits
      /\ \A k \in 0..n - 1 :
          /\ h[k].pc # "end"
          /\ h[k + 1] = After(h[k])
          /\ o[k + 1] = o[k] + Len(Piece(h[k]))
          /\ \A l \in 1..Len(Piece(h[k])) : stream[o[k] + l] = Piece(h[k])[l]
  BY DEF IsCourse
<1>2. sent \in Streams /\ stream \in Seq(Bit) /\ Len(stream) \in Nat
  BY LenProperties DEF IInv, TypeInv
<1>3. cntBits < Len(stream)
  <2>1. cntBits = MarkAt(stream) - 1 /\ MarkAt(stream) \in 1..Len(stream)
    BY DEF IInv, Read, Written
  <2> QED BY <1>2, <2>1
<1>4. \A k \in 0..n - 1 : k \in 0..n /\ k + 1 \in 0..n
  BY <1>1
<1>5. ASSUME NEW k \in 0..n - 1
      PROVE  /\ h[k] \in Places /\ h[k + 1] \in Places
             /\ o[k] \in 0..cntBits /\ o[k + 1] \in 0..cntBits
             /\ Piece(h[k]) \in Seq(Bit) /\ Len(Piece(h[k])) \in Nat
             /\ h[k].pc = "number" => o[k] < cntBits
  <2>1. /\ h[k] \in Places /\ h[k + 1] \in Places
        /\ o[k] \in 0..cntBits /\ o[k + 1] \in 0..cntBits
    BY <1>1, <1>4
  <2>2. /\ Piece(h[k]) \in Seq(Bit) /\ Len(Piece(h[k])) \in Nat
        /\ h[k].pc = "number" => Len(Piece(h[k])) # 0
    BY <1>1, <1>2, <2>1, PlaceFacts
  <2>3. PICK a \in 0..cntBits, b \in 0..cntBits, c \in Nat :
          a = o[k] /\ b = o[k + 1] /\ c = Len(Piece(h[k]))
    BY <2>1, <2>2
  <2>4. b = a + c
    BY <1>1, <2>3
  <2>5. c # 0 => a < cntBits
    BY <1>1, <2>4
  <2> QED BY <2>1, <2>2, <2>3, <2>5
<1>6. After(h[j]).pc = "end" => j + 1 = n
  <2>1. j + 1 \in 0..n - 1 \/ j + 1 = n
    BY <1>1
  <2> QED BY <1>1, <2>1
<1>7. After(h[j]).pc # "end" => j + 1 \in 0..n - 1
  <2>1. j + 1 \in 0..n - 1 \/ j + 1 = n
    BY <1>1
  <2> QED BY <1>1, <2>1
<1>8. After(h[j]).pc = "number" => o[j + 1] < cntBits
  BY <1>1, <1>5, <1>7
<1> QED BY <1>1, <1>2, <1>3, <1>5, <1>6, <1>7, <1>8

(* A step of deserialise from a place to the next. *)
LEMMA PlaceRead ==
    ASSUME IInv, UNCHANGED <<sent, writer, cntBits, nCells>>,
           rpc \in {"number", "chunk", "literal"},
           NEW n, NEW h, NEW o, IsCourse(n, h, o, cntBits), h[n].pc = "end", NEW j \in 0..n - 1,
           NEW w, w = After(h[j]), NEW x, x = o[j + 1],
           Arrived(w, x)', received' \in Seq(Token)
    PROVE  IInv'
<1>1. wpc = "done" /\ nCells = sent.nCells /\ cntBits = MarkAt(stream) - 1
  BY DEF IInv, Read
<1>2. Written' /\ sent' \in Streams /\ stream' \in Seq(Bit) /\ wpc' = "done" /\ stream' = stream
  BY <1>1, WriterEnded DEF writer
<1>3. /\ h[j + 1] = w /\ h[j + 1] \in Places /\ sent \in Streams
      /\ w.pc = "end" => x = cntBits
      /\ w.pc # "end" => j + 1 \in 0..n - 1
  BY <1>1, AtPlace
<1>4. cntBits' = cntBits /\ nCells' = nCells /\ sent' = sent
  OBVIOUS
<1>5. IsCourse(n, h, o, cntBits)'
  <2>1. PICK m : m = cntBits
    OBVIOUS
  <2>2. IsCourse(n, h, o, m)'
    BY <1>2, <1>3, <1>4, <2>1, CourseKept
  <2> QED BY <1>4, <2>1, <2>2
<1>6. CASE w.pc = "end"
  <2>1. rpc' = "done" /\ offs' = cntBits' /\ received' = sent'.tokens
    BY <1>3, <1>4, <1>6 DEF Arrived
  <2>2. Read'
    BY <1>1, <1>2, <1>4, <2>1 DEF Read
  <2> QED BY <1>2, <2>1, <2>2 DEF IInv, TypeInv
<1>7. CASE w.pc # "end"
  <2>1. Reached(h[j + 1], o[j + 1])' /\ j + 1 \in 0..n - 1
    BY <1>3, <1>7 DEF Arrived
  <2>2. rpc' \in {"number", "chunk", "literal"}
    <3>1. rpc' = w.pc
      BY <1>3, <2>1 DEF Reached
    <3>2. w.pc \in {"number", "chunk", "literal", "end"}
      BY <1>3 DEF Places
    <3> QED BY <1>7, <3>1, <3>2
  <2>3. Read'
    BY <1>1, <1>2, <1>4, <1>5, <2>1, <2>2 DEF Read
  <2> QED BY <1>2, <2>2, <2>3 DEF IInv, TypeInv
<1> QED BY <1>6, <1>7

LEMMA TokenDelivered ==
    ASSUME sent \in Streams, received \in Seq(Token), NEW t \in 1..Len(sent.tokens),
           Len(received) = t - 1, \A k \in 1..Len(received) : received[k] = sent.tokens[k],
           received' = Append(received, sent.tokens[t])
    PROVE  /\ received' \in Seq(Token) /\ Len(received') = t
           /\ \A k \in 1..Len(received') : received'[k] = sent.tokens[k]
           /\ t = Len(sent.tokens) => received' = sent.tokens
           /\ TakesNext
<1>1. sent.tokens \in Seq(Token) /\ Len(sent.tokens) \in Nat /\ sent.tokens[t] \in Token
  BY SentFacts
<1>2. /\ received' \in Seq(Token) /\ Len(received') = (t - 1) + 1
      /\ \A k \in 1..t - 1 : received'[k] = received[k]
      /\ received'[(t - 1) + 1] = sent.tokens[t]
  BY <1>1, PushFacts
<1>3. t \in Nat /\ (t - 1) + 1 = t /\ \A k \in 1..t : k = t \/ k \in 1..t - 1
  BY <1>1
<1>4. \A k \in 1..Len(received') : received'[k] = sent.tokens[k]
  BY <1>2, <1>3
<1>5. t = Len(sent.tokens) => received' = sent.tokens
  BY <1>1, <1>2, <1>3, <1>4, SeqEqual
<1>6. Len(received) < Len(sent.tokens) /\ Len(received) + 1 = t
  BY <1>1, <1>3
<1> QED BY <1>2, <1>3, <1>4, <1>5, <1>6 DEF TakesNext

(* A number that is read is the one that was written there, and what deserialise
   does with it leads to the place behind it. *)
LEMMA NumberIsRead ==
    ASSUME sent \in Streams, sent' = sent, received \in Seq(Token), cntBits \in Nat,
           NEW w \in Places, w.pc \in {"number", "chunk"}, NEW v \in Places,
           v.at = w.at, v.kind = w.kind, v.pc = w.pc,
           rKind = w.kind, token = Partial(sent.tokens[w.at], w.kind),
           Len(received) = w.at - 1,
           \A t \in 1..Len(received) : received[t] = sent.tokens[t],
           NEW x \in 0..cntBits, offs' = x, NumberRead(Num(w), x),
           BehindNumber(v).pc = "number" => x < cntBits,
           BehindNumber(v).pc = "end" => x = cntBits
    PROVE  Arrived(BehindNumber(v), x)' /\ received' \in Seq(Token) /\ TakesNext
<1> DEFINE t == sent.tokens[w.at]
<1>0. PICK b : b = BehindNumber(v)
  OBVIOUS
<1>1. /\ w.at \in 1..Len(sent.tokens) /\ w.kind \in Kinds /\ t \in Token
      /\ t.literal \in Seq(Bit)
      /\ w.kind = "literalLen" => Num(w) = Len(t.literal)
      /\ w.kind = "matchLen" => Num(w) = t.match.len /\ Num(w) # 0
      /\ w.kind = "cellOffset" => Num(w) = t.match.cellOffset
      /\ w.kind = "within" => Num(w) = t.match.within
  BY NumFacts
<1>2. v \in [at : Nat, kind : Kinds, left : Nat, pc : {"number", "chunk", "literal", "end"}]
  BY DEF Places
<1>3. BehindNumber(v)' = b
  BY <1>0 DEF BehindNumber
<1>9. ASSUME IF b.pc = "end"
             THEN rpc' = "done" /\ offs' = x /\ received' = sent'.tokens
             ELSE Reached(b, x)'
      PROVE  Arrived(BehindNumber(v), x)'
  BY <1>3, <1>9 DEF Arrived, Reached
<1>4. CASE w.kind = "literalLen"
  <2>1. b = [v EXCEPT !.pc = "literal"]
    BY <1>0, <1>4 DEF BehindNumber
  <2>2. rpc' = "literal" /\ num' = Num(w) /\ UNCHANGED <<rKind, token, received>>
    BY <1>4 DEF NumberRead
  <2>3. b.pc = "literal" /\ b.kind = w.kind /\ b.at = w.at
    BY <1>2, <2>1
  <2>4. Reached(b, x)'
    BY <1>1, <1>4, <2>1, <2>2, <2>3 DEF Reached
  <2> QED BY <1>9, <2>1, <2>2, <2>3, <2>4 DEF TakesNext
<1>5. CASE w.kind = "matchLen"
  <2>1. b = [v EXCEPT !.pc = "number", !.kind = "cellOffset"]
    BY <1>0, <1>5 DEF BehindNumber
  <2>2. /\ rpc' = "number" /\ rKind' = "cellOffset" /\ UNCHANGED <<num, received>>
        /\ token' = [token EXCEPT !.match.len = t.match.len]
    BY <1>1, <1>5 DEF NumberRead
  <2>3. b.pc = "number" /\ b.kind = "cellOffset" /\ b.at = w.at
    BY <1>2, <2>1
  <2>4. token' = Partial(t, "cellOffset")
    BY <1>5, <2>2 DEF Partial
  <2>5. Reached(b, x)'
    BY <1>1, <1>5, <2>1, <2>2, <2>3, <2>4 DEF Reached, Partial
  <2> QED BY <1>9, <2>1, <2>2, <2>3, <2>5 DEF TakesNext
<1>6. CASE w.kind = "cellOffset"
  <2>1. b = [v EXCEPT !.pc = "number", !.kind = "within"]
    BY <1>0, <1>6 DEF BehindNumber
  <2>2. /\ rpc' = "number" /\ rKind' = "within" /\ UNCHANGED <<num, received>>
        /\ token' = [token EXCEPT !.match.cellOffset = t.match.cellOffset]
    BY <1>1, <1>6 DEF NumberRead
  <2>3. b.pc = "number" /\ b.kind = "within" /\ b.at = w.at
    BY <1>2, <2>1
  <2>4. token' = Partial(t, "within")
    BY <1>6, <2>2 DEF Partial
  <2>5. Reached(b, x)'
    BY <1>1, <1>6, <2>1, <2>2, <2>3, <2>4 DEF Reached, Partial
  <2> QED BY <1>9, <2>1, <2>2, <2>3, <2>5 DEF TakesNext
<1>7. CASE w.kind = "within"
  <2> DEFINE end == IF w.at < Len(sent.tokens) THEN "number" ELSE "end"
  <2>1. b = [at |-> w.at + 1, kind |-> "literalLen", left |-> v.left, pc |-> end]
    BY <1>0, <1>7 DEF BehindNumber
  <2>2. /\ received' = Append(received, [token EXCEPT !.match.within = t.match.within])
        /\ token' = EmptyToken /\ rKind' = "literalLen"
        /\ rpc' = NextRound(x) /\ UNCHANGED num
    BY <1>1, <1>7 DEF NumberRead, Deliver
  <2>3. [token EXCEPT !.match.within = t.match.within] = t
    <3>1. token = [literal |-> t.literal,
                   match |-> [len |-> t.match.len, cellOffset |-> t.match.cellOffset,
                              within |-> 0]]
      BY <1>7 DEF Partial
    <3>2. t = [literal |-> t.literal,
               match |-> [len |-> t.match.len, cellOffset |-> t.match.cellOffset,
                          within |-> t.match.within]]
      BY <1>1 DEF Token
    <3> QED BY <3>1, <3>2
  <2>4. /\ received' \in Seq(Token) /\ Len(received') = w.at
        /\ \A k \in 1..Len(received') : received'[k] = sent.tokens[k]
        /\ w.at = Len(sent.tokens) => received' = sent.tokens
        /\ TakesNext
    BY <1>1, <2>2, <2>3, TokenDelivered
  <2>5. Len(sent.tokens) \in Nat
    BY SentFacts
  <2>6. CASE w.at < Len(sent.tokens)
    <3>1. b.pc = "number" /\ b.kind = "literalLen" /\ b.at = w.at + 1 /\ x < cntBits
      BY <1>0, <2>1, <2>6
    <3>2. rpc' = "number"
      BY <2>2, <3>1 DEF NextRound
    <3>3. token' = Partial(sent.tokens[w.at + 1], "literalLen")
      BY <2>2 DEF Partial, EmptyToken, NoMatch
    <3>4. (w.at + 1) - 1 = w.at
      BY <1>1
    <3>5. Reached(b, x)'
      BY <2>1, <2>2, <2>4, <3>1, <3>2, <3>3, <3>4 DEF Reached, Partial
    <3> QED BY <1>9, <2>1, <2>4, <3>1, <3>5
  <2>7. CASE ~ (w.at < Len(sent.tokens))
    <3>1. b.pc = "end" /\ x = cntBits /\ w.at = Len(sent.tokens)
      BY <1>0, <1>1, <2>1, <2>5, <2>7
    <3>2. rpc' = "done"
      BY <2>2, <3>1 DEF NextRound
    <3> QED BY <1>9, <2>1, <2>4, <3>1, <3>2
  <2> QED BY <2>6, <2>7
<1>8. w.kind \in {"literalLen", "matchLen", "within", "cellOffset"}
  BY <1>1 DEF Kinds, Chunked
<1> QED BY <1>4, <1>5, <1>6, <1>7, <1>8

(* The symbol that a number begins with. *)
Symbol(w) == IF IsLarge(w) THEN Threshold(w.kind) ELSE Num(w)

LEMMA PieceBegins ==
    ASSUME sent \in Streams, NEW w \in Places, w.pc = "number"
    PROVE  /\ w.kind \in Kinds /\ Symbol(w) \in 0..Threshold(w.kind)
           /\ Code[w.kind][Symbol(w)] \in Seq(Bit)
           /\ Len(Code[w.kind][Symbol(w)]) \in Nat
           /\ Len(Code[w.kind][Symbol(w)]) <= Len(Piece(w))
           /\ \A l \in 1..Len(Code[w.kind][Symbol(w)]) : Piece(w)[l] = Code[w.kind][Symbol(w)][l]
           /\ w.kind \in Chunked \/ ~ IsLarge(w) => Piece(w) = Code[w.kind][Symbol(w)]
           /\ w.kind = "cellOffset" /\ IsLarge(w) =>
                LET c == Code[w.kind][Symbol(w)]
                    u == OffsetWidth(sent.nCells)
                    d == Num(w) - Threshold(w.kind)
                IN  /\ u \in Nat /\ d \in 0..Pow2[u] - 1
                    /\ Len(Piece(w)) = Len(c) + u
                    /\ \A l \in 1..u : Piece(w)[Len(c) + l] = UintBits(d, u)[l]
<1> DEFINE c == Code[w.kind][Symbol(w)]
           th == Threshold(w.kind)
           u == OffsetWidth(sent.nCells)
           d == Num(w) - th
<1>1. w.kind \in Kinds /\ Num(w) \in Nat /\ th \in Nat
  BY NumFacts
<1>2. Symbol(w) \in 0..th
  BY <1>1 DEF Symbol, IsLarge
<1>3. c \in Seq(Bit) /\ Len(c) \in Nat
  BY <1>1, <1>2, CodeFacts
<1>4. CASE w.kind \in Chunked \/ ~ IsLarge(w)
  <2>1. Piece(w) = c
    BY <1>4 DEF Piece, Symbol
  <2> HIDE DEF c
  <2>2. /\ Len(c) <= Len(Piece(w)) /\ \A l \in 1..Len(c) : Piece(w)[l] = c[l]
    BY <1>3, <2>1
  <2>3. ~ (w.kind = "cellOffset" /\ IsLarge(w))
    BY <1>4 DEF Chunked
  <2> QED BY <1>1, <1>2, <1>3, <2>1, <2>2, <2>3 DEF c
<1>5. CASE w.kind \notin Chunked /\ IsLarge(w)
  <2>1. w.kind = "cellOffset"
    BY <1>1, <1>5 DEF Kinds
  <2>2. u \in Nat /\ d \in 0..Pow2[u] - 1
    <3>1. Num(w) < sent.nCells /\ Num(w) >= Threshold("cellOffset")
      BY <1>5, <2>1, NumFacts DEF IsLarge
    <3> QED BY <1>1, <2>1, <3>1, OffsetFacts
  <2>3. PICK b : b = UintBits(d, u)
    OBVIOUS
  <2>4. b \in Seq(Bit) /\ Len(b) = u
    BY <2>2, <2>3, UintBack
  <2>5. Piece(w) = c \o b
    BY <1>5, <2>3 DEF Piece, Symbol
  <2> HIDE DEF c, u, d
  <2>6. /\ Len(c \o b) = Len(c) + Len(b)
        /\ \A k \in 1..Len(c) + Len(b) : (c \o b)[k] = IF k <= Len(c) THEN c[k] ELSE b[k - Len(c)]
    BY <1>3, <2>4, ConcatProperties
  <2>7. /\ \A l \in 1..Len(c) : l \in 1..Len(c) + Len(b) /\ l <= Len(c)
        /\ \A l \in 1..Len(b) : /\ Len(c) + l \in 1..Len(c) + Len(b)
                                /\ ~ (Len(c) + l <= Len(c)) /\ (Len(c) + l) - Len(c) = l
    BY <1>3, <2>2, <2>4
  <2>8. \A l \in 1..Len(c) : Piece(w)[l] = c[l]
    BY <2>5, <2>6, <2>7
  <2>9. \A l \in 1..u : Piece(w)[Len(c) + l] = b[l]
    BY <2>4, <2>5, <2>6, <2>7
  <2>10. Len(Piece(w)) = Len(c) + u /\ Len(c) <= Len(Piece(w))
    BY <1>3, <2>2, <2>4, <2>5, <2>6
  <2> QED BY <1>1, <1>2, <1>3, <1>5, <2>1, <2>2, <2>3, <2>8, <2>9, <2>10 DEF c, u, d
<1> QED BY <1>4, <1>5

(* Behind a place's offset only the code of its symbol fits. *)
LEMMA SymbolIsRead ==
    ASSUME sent \in Streams, stream \in Seq(Bit), NEW w \in Places, w.pc = "number",
           NEW x \in Nat, x + Len(Piece(w)) <= Len(stream),
           \A l \in 1..Len(Piece(w)) : stream[x + l] = Piece(w)[l],
           NEW s \in 0..Threshold(w.kind), Holds(x, Code[w.kind][s])
    PROVE  s = Symbol(w)
<1>1. PICK c : c = Code[w.kind][Symbol(w)]
  OBVIOUS
<1>2. /\ w.kind \in Kinds /\ Symbol(w) \in 0..Threshold(w.kind)
      /\ c \in Seq(Bit) /\ Len(c) \in Nat /\ Len(c) <= Len(Piece(w))
      /\ \A l \in 1..Len(c) : Piece(w)[l] = c[l]
  BY <1>1, PieceBegins
<1>3. Len(Piece(w)) \in Nat /\ Len(stream) \in Nat
  BY PlaceFacts, LenProperties
<1>4. x \in 0..Len(stream) /\ x + Len(c) <= Len(stream)
  BY <1>2, <1>3
<1>5. \A l \in 1..Len(c) : stream[x + l] = c[l]
  <2>1. \A l \in 1..Len(c) : l \in 1..Len(Piece(w))
    BY <1>2, <1>3
  <2> QED BY <1>2, <2>1
<1>6. StartsWith(SubSeq(stream, x + 1, Len(stream)), c)
  BY <1>2, <1>4, <1>5, PrefixAt
<1>7. SubSeq(stream, x + 1, Len(stream)) \in Seq(Bit)
  BY <1>3, <1>4, CutAt
<1>8. IsPrefixCode(Code[w.kind]) /\ DOMAIN Code[w.kind] = 0..Threshold(w.kind)
  BY <1>2, CodeFacts
<1>9. StartsWith(SubSeq(stream, x + 1, Len(stream)), Code[w.kind][s])
  BY DEF Holds
<1> QED BY <1>1, <1>2, <1>6, <1>7, <1>8, <1>9, OneSymbol

(* Where deserialise is. *)
LEMMA ReaderPlace ==
    ASSUME IInv, rpc \in {"number", "chunk", "literal"}
    PROVE  /\ wpc = "done" /\ nCells = sent.nCells /\ received \in Seq(Token)
           /\ \E n, h, o : \E j \in 0..n - 1 :
                IsCourse(n, h, o, cntBits) /\ h[n].pc = "end" /\ Reached(h[j], o[j])
BY DEF IInv, Read, TypeInv

(* One action of deserialise: it reads the piece of its place. *)
ReadStep == IInv' /\ TakesNext

(* deserialise is at the place w of a course, with its piece ahead. *)
Ahead(n, h, o, j, w, x) ==
    /\ IsCourse(n, h, o, cntBits) /\ h[n].pc = "end" /\ j \in 0..n - 1
    /\ w = h[j] /\ x = o[j] /\ w \in Places /\ x \in Nat /\ Reached(w, x)
    /\ w.pc = rpc /\ w.kind = rKind /\ offs = x
    /\ o[j + 1] = x + Len(Piece(w)) /\ Len(Piece(w)) \in Nat
    /\ o[j + 1] \in 0..cntBits
    /\ x + Len(Piece(w)) <= Len(stream)
    /\ \A l \in 1..Len(Piece(w)) : stream[x + l] = Piece(w)[l]
    /\ Threshold(w.kind) \in Nat /\ Num(w) \in Nat

LEMMA PieceAhead ==
    ASSUME IInv, rpc \in {"number", "chunk", "literal"}
    PROVE  \E n, h, o, j, w, x : Ahead(n, h, o, j, w, x)
<1>1. PICK n, h, o : \E j \in 0..n - 1 :
        IsCourse(n, h, o, cntBits) /\ h[n].pc = "end" /\ Reached(h[j], o[j])
  BY ReaderPlace
<1>2. PICK j \in 0..n - 1 :
        IsCourse(n, h, o, cntBits) /\ h[n].pc = "end" /\ Reached(h[j], o[j])
  BY <1>1
<1>3. PICK w, x : w = h[j] /\ x = o[j]
  OBVIOUS
<1>4. /\ sent \in Streams /\ Len(stream) \in Nat
      /\ cntBits \in Nat /\ cntBits < Len(stream)
      /\ w \in Places /\ w.pc # "end" /\ x \in 0..cntBits /\ o[j + 1] \in 0..cntBits
      /\ o[j + 1] = x + Len(Piece(w)) /\ Len(Piece(w)) \in Nat
      /\ \A l \in 1..Len(Piece(w)) : stream[x + l] = Piece(w)[l]
  BY SMTT(30), <1>2, <1>3, ReaderPlace, AtPlace
<1>5. w.pc = rpc /\ w.kind = rKind /\ offs = x /\ Reached(w, x)
  BY <1>2, <1>3 DEF Reached
<1>6. Threshold(w.kind) \in Nat /\ Num(w) \in Nat
  BY <1>4, NumFacts
<1>7. x \in Nat /\ x + Len(Piece(w)) <= Len(stream)
  BY <1>4
<1>8. Ahead(n, h, o, j, w, x)
  BY <1>2, <1>3, <1>4, <1>5, <1>6, <1>7 DEF Ahead
<1> QED BY <1>8

LEMMA NumberEnds ==
    ASSUME IInv, UNCHANGED <<sent, writer, cntBits, nCells>>, rpc \in {"number", "chunk"},
           NEW n, NEW h, NEW o, NEW j, NEW w, NEW x, Ahead(n, h, o, j, w, x),
           NEW v \in Places, v.at = w.at, v.kind = w.kind, v.pc = w.pc,
           After(w) = BehindNumber(v),
           offs' = o[j + 1], NumberRead(Num(w), o[j + 1])
    PROVE  ReadStep
<1>1. PICK y, b : y = o[j + 1] /\ b = After(w)
  OBVIOUS
<1>2. /\ IsCourse(n, h, o, cntBits) /\ h[n].pc = "end" /\ j \in 0..n - 1
      /\ w = h[j] /\ w \in Places /\ Reached(w, x) /\ w.pc = rpc
  BY DEF Ahead
<1>3. /\ sent \in Streams /\ cntBits \in Nat /\ y \in 0..cntBits
      /\ b.pc = "end" => y = cntBits
      /\ b.pc = "number" => y < cntBits
  BY <1>1, <1>2, ReaderPlace, AtPlace
<1>4. /\ w.pc \in {"number", "chunk"} /\ received \in Seq(Token)
      /\ rKind = w.kind /\ token = Partial(sent.tokens[w.at], w.kind)
      /\ Len(received) = w.at - 1
      /\ \A t \in 1..Len(received) : received[t] = sent.tokens[t]
  BY <1>2, ReaderPlace DEF Reached
<1>5. sent' = sent
  OBVIOUS
<1>6. Arrived(BehindNumber(v), y)' /\ received' \in Seq(Token) /\ TakesNext
  BY <1>1, <1>2, <1>3, <1>4, <1>5, NumberIsRead
<1>7. b = BehindNumber(v) /\ b = BehindNumber(v)'
  <2>1. BehindNumber(v)' = BehindNumber(v)
    BY <1>5 DEF BehindNumber
  <2> QED BY <1>1, <2>1
<1>8. Arrived(b, y)'
  BY <1>6, <1>7 DEF Arrived, Reached
<1> QED BY <1>1, <1>2, <1>6, <1>8, PlaceRead DEF ReadStep

LEMMA ReadSmallOK == ASSUME IInv, ReadSmall PROVE ReadStep
<1>1. rpc = "number" /\ UNCHANGED <<sent, writer, cntBits, nCells>>
  BY DEF ReadSmall
<1>2. PICK n, h, o, j, w, x : Ahead(n, h, o, j, w, x)
  BY <1>1, PieceAhead
<1>3. /\ w \in Places /\ Reached(w, x) /\ w.pc = rpc /\ w.kind = rKind /\ offs = x
      /\ o[j + 1] = x + Len(Piece(w)) /\ Len(Piece(w)) \in Nat
      /\ x \in Nat /\ x + Len(Piece(w)) <= Len(stream) /\ o[j + 1] \in 0..cntBits
      /\ \A l \in 1..Len(Piece(w)) : stream[x + l] = Piece(w)[l]
      /\ Threshold(w.kind) \in Nat /\ Num(w) \in Nat
  BY <1>2 DEF Ahead
<1>4. sent \in Streams /\ stream \in Seq(Bit)
  BY DEF IInv, TypeInv
<1>5. PICK s \in 0..Threshold(rKind) - 1 :
        /\ Holds(offs, Code[rKind][s])
        /\ offs' = offs + Len(Code[rKind][s])
        /\ NumberRead(s, offs')
  BY DEF ReadSmall
<1>6. s = Symbol(w)
  <2>1. s \in 0..Threshold(w.kind)
    BY <1>3
  <2> QED BY <1>1, <1>3, <1>4, <1>5, <2>1, SymbolIsRead
<1>7. ~ IsLarge(w) /\ s = Num(w)
  BY <1>3, <1>5, <1>6 DEF Symbol
<1>8. Piece(w) = Code[rKind][s] /\ After(w) = BehindNumber(w)
  BY <1>1, <1>3, <1>7 DEF Piece, After
<1>9. offs' = o[j + 1] /\ NumberRead(Num(w), o[j + 1])
  BY <1>3, <1>5, <1>7, <1>8
<1>10. w \in Places /\ After(w) = BehindNumber(w)
  BY <1>3, <1>8
<1> QED BY <1>1, <1>2, <1>9, <1>10, NumberEnds

LEMMA ReadLargeOffsetOK == ASSUME IInv, ReadLargeOffset PROVE ReadStep
<1>1. /\ rpc = "number" /\ rKind = "cellOffset" /\ UNCHANGED <<sent, writer, cntBits, nCells>>
      /\ Holds(offs, Code[rKind][Threshold(rKind)])
      /\ LET w == OffsetWidth(nCells)
         IN  /\ offs' = BehindSymbol + w
             /\ NumberRead(Threshold(rKind) + UintOf(Slice(BehindSymbol, w)), offs')
  BY DEF ReadLargeOffset, AtThreshold
<1>2. PICK n, h, o, j, w, x : Ahead(n, h, o, j, w, x)
  BY <1>1, PieceAhead
<1>3. /\ w \in Places /\ Reached(w, x) /\ w.pc = rpc /\ w.kind = rKind /\ offs = x
      /\ o[j + 1] = x + Len(Piece(w)) /\ Len(Piece(w)) \in Nat
      /\ x \in Nat /\ x + Len(Piece(w)) <= Len(stream) /\ o[j + 1] \in 0..cntBits
      /\ \A l \in 1..Len(Piece(w)) : stream[x + l] = Piece(w)[l]
      /\ Threshold(w.kind) \in Nat /\ Num(w) \in Nat
  BY <1>2 DEF Ahead
<1>4. sent \in Streams /\ stream \in Seq(Bit) /\ nCells = sent.nCells
  BY <1>1, ReaderPlace DEF IInv, TypeInv
<1>5. Symbol(w) = Threshold(w.kind) /\ IsLarge(w)
  <2>1. Threshold(w.kind) \in 0..Threshold(w.kind)
    BY <1>3
  <2>2. Symbol(w) = Threshold(w.kind)
    BY <1>1, <1>3, <1>4, <2>1, SymbolIsRead
  <2> QED BY <1>3, <2>2 DEF Symbol, IsLarge
<1>6. PICK c, u, d : /\ c = Code[w.kind][Symbol(w)] /\ u = OffsetWidth(sent.nCells)
                     /\ d = Num(w) - Threshold(w.kind)
  OBVIOUS
<1>7. /\ Len(c) \in Nat /\ u \in Nat /\ d \in 0..Pow2[u] - 1
      /\ Len(Piece(w)) = Len(c) + u
      /\ \A l \in 1..u : Piece(w)[Len(c) + l] = UintBits(d, u)[l]
  BY <1>1, <1>3, <1>4, <1>5, <1>6, PieceBegins
<1>8. PICK b : b = UintBits(d, u)
  OBVIOUS
<1>9. b \in Seq(Bit) /\ Len(b) = u /\ UintOf(b) = d
  BY <1>7, <1>8, UintBack
<1>10. PICK y \in Nat, k \in Nat :
         /\ k = Len(Piece(w)) /\ k = Len(c) + u
         /\ y = x + Len(c) /\ y + u = o[j + 1] /\ y + u <= Len(stream)
  <2>1. /\ x + Len(c) \in Nat /\ (x + Len(c)) + u = x + (Len(c) + u)
    BY <1>3, <1>7
  <2> QED BY <1>3, <1>7, <2>1
<1>11. \A l \in 1..u : stream[y + l] = b[l]
  <2>1. \A l \in 1..u : Len(c) + l \in 1..Len(Piece(w)) /\ x + (Len(c) + l) = y + l
    <3>1. PICK a \in Nat : a = Len(c)
      BY <1>7
    <3>2. \A l \in 1..u : a + l \in 1..a + u /\ x + (a + l) = (x + a) + l
      BY SMTT(30), <1>3, <1>7
    <3>3. Len(Piece(w)) = a + u /\ y = x + a
      BY <1>10, <3>1
    <3> QED BY ONLY <3>1, <3>2, <3>3
  <2> QED BY <1>3, <1>7, <1>8, <2>1
<1>12. Slice(y, u) = b
  BY <1>4, <1>9, <1>10, <1>11, SliceIs
<1>13. BehindSymbol = y /\ OffsetWidth(nCells) = u
  BY <1>3, <1>4, <1>5, <1>6, <1>10 DEF BehindSymbol
<1>14. Threshold(rKind) + d = Num(w)
  BY <1>3, <1>6
<1>15. offs' = o[j + 1] /\ NumberRead(Num(w), o[j + 1])
  BY <1>1, <1>9, <1>10, <1>12, <1>13, <1>14
<1>16. After(w) = BehindNumber(w)
  <2>1. w.kind \notin Chunked /\ w.pc = "number"
    BY <1>1, <1>3 DEF Chunked
  <2> QED BY <2>1 DEF After
<1> QED BY <1>1, <1>2, <1>3, <1>15, <1>16, NumberEnds

LEMMA ReadLargeOK == ASSUME IInv, ReadLarge PROVE ReadStep
<1>1. /\ rpc = "number" /\ rKind \in Chunked /\ UNCHANGED <<sent, writer, cntBits, nCells>>
      /\ Holds(offs, Code[rKind][Threshold(rKind)])
      /\ offs' = BehindSymbol /\ num' = Threshold(rKind) /\ rpc' = "chunk"
      /\ UNCHANGED <<rKind, token, received>>
  BY DEF ReadLarge, AtThreshold
<1>2. PICK n, h, o, j, w, x : Ahead(n, h, o, j, w, x)
  BY <1>1, PieceAhead
<1>3. /\ w \in Places /\ Reached(w, x) /\ w.pc = rpc /\ w.kind = rKind /\ offs = x
      /\ o[j + 1] = x + Len(Piece(w)) /\ Len(Piece(w)) \in Nat
      /\ x \in Nat /\ x + Len(Piece(w)) <= Len(stream) /\ o[j + 1] \in 0..cntBits
      /\ \A l \in 1..Len(Piece(w)) : stream[x + l] = Piece(w)[l]
      /\ Threshold(w.kind) \in Nat /\ Num(w) \in Nat
  BY <1>2 DEF Ahead
<1>4. sent \in Streams /\ stream \in Seq(Bit)
  BY DEF IInv, TypeInv
<1>5. Symbol(w) = Threshold(w.kind) /\ IsLarge(w)
  <2>1. Threshold(w.kind) \in 0..Threshold(w.kind)
    BY <1>3
  <2>2. Symbol(w) = Threshold(w.kind)
    BY <1>1, <1>3, <1>4, <2>1, SymbolIsRead
  <2> QED BY <1>3, <2>2 DEF Symbol, IsLarge
<1>6. PICK v : v = After(w)
  OBVIOUS
<1>7. /\ v = [w EXCEPT !.left = Num(w) - Threshold(w.kind), !.pc = "chunk"]
      /\ Piece(w) = Code[w.kind][Threshold(w.kind)]
  BY <1>1, <1>3, <1>5, <1>6 DEF After, Piece
<1>8. /\ v.pc = "chunk" /\ v.kind = w.kind /\ v.at = w.at
      /\ v.left = Num(w) - Threshold(w.kind)
  BY <1>7 DEF Places
<1>9. offs' = o[j + 1]
  BY <1>1, <1>3, <1>7 DEF BehindSymbol
<1>10. Num(v)' = Num(w) /\ num' = Num(w) - v.left
  <2>1. Num(v)' = Num(w)
    BY <1>1, <1>8 DEF Num
  <2> QED BY <1>1, <1>3, <1>8, <2>1
<1>11. Reached(w, x)
  BY <1>3
<1>12. PICK y : y = o[j + 1]
  OBVIOUS
<1>13. Reached(v, y)'
  BY <1>1, <1>8, <1>9, <1>10, <1>11, <1>12 DEF Reached
<1>14. Arrived(v, y)' /\ received' \in Seq(Token) /\ TakesNext
  BY <1>1, <1>8, <1>13 DEF Arrived, TakesNext, IInv, TypeInv
<1> QED BY <1>1, <1>2, <1>6, <1>12, <1>14, PlaceRead DEF Ahead, ReadStep

LEMMA ReadChunkOK == ASSUME IInv, ReadChunk PROVE ReadStep
<1>1. /\ rpc = "chunk" /\ UNCHANGED <<sent, writer, cntBits, nCells>>
      /\ LET cur == UintOf(Slice(offs, Chunk[rKind]))
         IN  /\ offs' = offs + Chunk[rKind]
             /\ cur = MaxChunk(rKind) =>
                  num' = num + cur /\ UNCHANGED <<rKind, token, received, rpc>>
             /\ cur # MaxChunk(rKind) => NumberRead(num + cur, offs')
  BY DEF ReadChunk
<1>2. PICK n, h, o, j, w, x : Ahead(n, h, o, j, w, x)
  BY <1>1, PieceAhead
<1>3. /\ w \in Places /\ Reached(w, x) /\ w.pc = rpc /\ w.kind = rKind /\ offs = x
      /\ o[j + 1] = x + Len(Piece(w)) /\ Len(Piece(w)) \in Nat
      /\ x \in Nat /\ x + Len(Piece(w)) <= Len(stream)
      /\ \A l \in 1..Len(Piece(w)) : stream[x + l] = Piece(w)[l]
      /\ Threshold(w.kind) \in Nat /\ Num(w) \in Nat
  BY <1>2 DEF Ahead
<1>4. sent \in Streams /\ stream \in Seq(Bit) /\ received \in Seq(Token)
  BY DEF IInv, TypeInv
<1>5. w.kind \in Chunked /\ w.left \in Nat
  BY <1>1, <1>3 DEF Places
<1>6. PICK cur : cur = Cur(w)
  OBVIOUS
<1>7. /\ cur \in Nat /\ cur \in 0..Pow2[Chunk[w.kind]] - 1 /\ Chunk[w.kind] \in Nat
      /\ cur # MaxChunk(w.kind) => cur = w.left
  BY <1>5, <1>6, CurFacts, ChunkFacts
<1>8. PICK b : b = UintBits(cur, Chunk[w.kind])
  OBVIOUS
<1>9. b \in Seq(Bit) /\ Len(b) = Chunk[w.kind] /\ UintOf(b) = cur /\ Piece(w) = b
  <2>1. b \in Seq(Bit) /\ Len(b) = Chunk[w.kind] /\ UintOf(b) = cur
    BY <1>7, <1>8, UintBack
  <2>2. Piece(w) = b
    BY <1>1, <1>3, <1>6, <1>8 DEF Piece
  <2> QED BY <2>1, <2>2
<1>10. Slice(x, Len(b)) = b
  BY <1>3, <1>4, <1>9, SliceIs
<1>11. UintOf(Slice(offs, Chunk[rKind])) = cur /\ offs' = o[j + 1]
  BY <1>1, <1>3, <1>9, <1>10
<1>12. PICK v : v = [w EXCEPT !.left = w.left - cur]
  OBVIOUS
<1>13. /\ v \in Places /\ Num(v) = Num(w)
       /\ v.at = w.at /\ v.kind = w.kind /\ v.pc = "chunk" /\ v.left = w.left - cur
  BY <1>1, <1>3, <1>4, <1>6, <1>12, ChunkTaken
<1>14. After(w) = IF cur = MaxChunk(w.kind) THEN v ELSE BehindNumber(v)
  BY <1>1, <1>3, <1>6, <1>12 DEF After
<1>15. num = Num(w) - w.left
  BY <1>1, <1>3 DEF Reached
<1>16. CASE cur = MaxChunk(w.kind)
  <2>1. num' = num + cur /\ UNCHANGED <<rKind, token, received, rpc>>
    BY <1>1, <1>3, <1>11, <1>16
  <2>2. PICK y : y = o[j + 1]
    OBVIOUS
  <2>3. Num(v)' = Num(v)
    BY <1>1, SameSent
  <2>4. num' = Num(v) - v.left
    BY <1>3, <1>5, <1>7, <1>13, <1>15, <2>1
  <2>5. Reached(v, y)'
    BY <1>1, <1>3, <1>11, <1>13, <2>1, <2>2, <2>3, <2>4 DEF Reached
  <2>6. Arrived(v, y)' /\ received' \in Seq(Token) /\ TakesNext
    BY <1>4, <1>13, <2>1, <2>5 DEF Arrived, TakesNext
  <2> QED BY <1>1, <1>2, <1>14, <1>16, <2>2, <2>6, PlaceRead DEF Ahead, ReadStep
<1>17. CASE cur # MaxChunk(w.kind)
  <2>1. num + cur = Num(w)
    BY <1>3, <1>5, <1>7, <1>15, <1>17
  <2>2. NumberRead(Num(w), o[j + 1])
    BY <1>1, <1>3, <1>11, <1>17, <2>1
  <2>3. /\ v \in Places /\ v.at = w.at /\ v.kind = w.kind /\ v.pc = w.pc
        /\ After(w) = BehindNumber(v) /\ offs' = o[j + 1]
    BY <1>1, <1>3, <1>11, <1>13, <1>14, <1>17
  <2> QED BY <1>1, <1>2, <2>2, <2>3, NumberEnds
<1> QED BY <1>16, <1>17

LEMMA ReadLiteralOK == ASSUME IInv, ReadLiteral PROVE ReadStep
<1> DEFINE got == [token EXCEPT !.literal = Slice(offs, num)]
<1>1. /\ rpc = "literal" /\ UNCHANGED <<sent, writer, cntBits, nCells, num>>
      /\ offs' = offs + num
      /\ offs + num >= cntBits =>
           Deliver(got) /\ rKind' = "literalLen" /\ rpc' = "done"
      /\ ~ (offs + num >= cntBits) =>
           /\ token' = got /\ rKind' = "matchLen" /\ rpc' = "number" /\ received' = received
  BY DEF ReadLiteral
<1>2. PICK n, h, o, j, w, x : Ahead(n, h, o, j, w, x)
  BY <1>1, PieceAhead
<1>3. /\ w \in Places /\ Reached(w, x) /\ w.pc = rpc /\ w.kind = rKind /\ offs = x
      /\ o[j + 1] = x + Len(Piece(w)) /\ Len(Piece(w)) \in Nat
      /\ x \in Nat /\ x + Len(Piece(w)) <= Len(stream) /\ o[j + 1] \in 0..cntBits
      /\ \A l \in 1..Len(Piece(w)) : stream[x + l] = Piece(w)[l]
  BY <1>2 DEF Ahead
<1>4. sent \in Streams /\ stream \in Seq(Bit) /\ received \in Seq(Token)
  BY DEF IInv, TypeInv
<1>5. PICK t : t = sent.tokens[w.at]
  OBVIOUS
<1>6. /\ w.at \in 1..Len(sent.tokens) /\ t \in Token /\ t.literal \in Seq(Bit)
      /\ w.kind = "literalLen" /\ Piece(w) = t.literal
  BY <1>1, <1>3, <1>4, <1>5, NumFacts DEF Places, Piece
<1>7. num = Len(t.literal) /\ token = Partial(t, "literalLen")
  BY <1>1, <1>3, <1>5, <1>6 DEF Reached
<1>8. Slice(offs, num) = t.literal
  BY <1>3, <1>4, <1>6, <1>7, SliceIs
<1>9. got = Partial(t, "matchLen")
  BY <1>7, <1>8 DEF Partial
<1> HIDE DEF got
<1>10. PICK y, b : y = o[j + 1] /\ b = After(w)
  OBVIOUS
<1>11. /\ b = IF t.match = NoMatch THEN [w EXCEPT !.pc = "end"]
                                  ELSE [w EXCEPT !.pc = "number", !.kind = "matchLen"]
       /\ b.at = w.at
       /\ b.pc = IF t.match = NoMatch THEN "end" ELSE "number"
       /\ t.match # NoMatch => b.kind = "matchLen"
  BY <1>1, <1>3, <1>5, <1>10 DEF After, Places
<1>12. /\ cntBits \in Nat /\ y \in 0..cntBits /\ offs + num = y
       /\ b.pc = "end" => y = cntBits
       /\ b.pc = "number" => y < cntBits
  <2>1. offs + num = y
    BY <1>3, <1>6, <1>7, <1>10
  <2>2. /\ IsCourse(n, h, o, cntBits) /\ h[n].pc = "end" /\ j \in 0..n - 1 /\ b = After(h[j])
    BY <1>2, <1>10 DEF Ahead
  <2>3. wpc = "done" /\ rpc # "start"
    BY <1>1, ReaderPlace
  <2>4. /\ cntBits \in Nat /\ o[j + 1] \in 0..cntBits
        /\ b.pc = "end" => o[j + 1] = cntBits
        /\ b.pc = "number" => o[j + 1] < cntBits
    BY <2>2, <2>3, AtPlace
  <2> QED BY <1>10, <2>1, <2>4
<1>13. CASE t.match = NoMatch
  <2>1. Deliver(got) /\ rKind' = "literalLen" /\ rpc' = "done"
    BY <1>1, <1>11, <1>12, <1>13
  <2>2. got = t
    <3>1. t = [literal |-> t.literal, match |-> NoMatch]
      BY <1>6, <1>13 DEF Token
    <3> QED BY <1>9, <3>1 DEF Partial, NoMatch
  <2>3. w.at = Len(sent.tokens)
    BY <1>4, <1>5, <1>6, <1>13, SentFacts
  <2>4. /\ Len(received) = w.at - 1
        /\ \A k \in 1..Len(received) : received[k] = sent.tokens[k]
        /\ received' = Append(received, sent.tokens[w.at])
    BY <1>3, <1>5, <2>1, <2>2 DEF Reached, Deliver
  <2>5. received' \in Seq(Token) /\ received' = sent.tokens /\ TakesNext
    BY <1>4, <1>6, <2>3, <2>4, TokenDelivered
  <2>6. Arrived(b, y)'
    BY <1>1, <1>11, <1>12, <1>13, <2>1, <2>5 DEF Arrived
  <2> QED BY <1>1, <1>2, <1>10, <2>5, <2>6, PlaceRead DEF Ahead, ReadStep
<1>14. CASE t.match # NoMatch
  <2>1. token' = got /\ rKind' = "matchLen" /\ rpc' = "number" /\ received' = received
    BY <1>1, <1>11, <1>12, <1>14
  <2>2. b.pc = "number" /\ b.kind = "matchLen" /\ b.at = w.at /\ offs' = y
    BY <1>1, <1>11, <1>12, <1>14
  <2>3. Reached(b, y)'
    BY <1>1, <1>3, <1>5, <1>9, <2>1, <2>2 DEF Reached
  <2>4. Arrived(b, y)' /\ received' \in Seq(Token) /\ TakesNext
    BY <1>4, <2>1, <2>2, <2>3 DEF Arrived, TakesNext
  <2> QED BY <1>1, <1>2, <1>10, <2>4, PlaceRead DEF Ahead, ReadStep
<1> QED BY <1>13, <1>14

LEMMA ReadHeaderOK == ASSUME IInv, ReadHeader PROVE ReadStep
<1>1. /\ rpc = "header" /\ nCells' = UintOf(Slice(0, HeaderBits)) /\ offs' = HeaderBits
      /\ rpc' = NextRound(HeaderBits)
      /\ UNCHANGED <<sent, writer>> /\ UNCHANGED <<cntBits, rKind, num, token, received>>
  BY DEF ReadHeader
<1>2. /\ wpc = "done" /\ cntBits = MarkAt(stream) - 1 /\ sent \in Streams /\ stream \in Seq(Bit)
      /\ received = << >> /\ token = EmptyToken /\ rKind = "literalLen"
      /\ received \in Seq(Token)
  BY <1>1 DEF IInv, Read, TypeInv
<1>3. PICK n, h, o : IsCourse(n, h, o, cntBits) /\ h[n].pc = "end"
  BY <1>2 DEF IInv, Written
<1>4. /\ h[0] = FirstPlace /\ o[0] = HeaderBits /\ n \in Nat
      /\ \A l \in 1..HeaderBits : stream[l] = UintBits(sent.nCells, HeaderBits)[l]
  BY <1>3 DEF IsCourse
<1>5. 0 \in 0..n - 1 /\ h[0].pc = "number"
  <2>1. h[0].pc = "number"
    BY <1>4 DEF FirstPlace
  <2>2. n # 0
    BY <1>3, <2>1
  <2> QED BY <1>4, <2>1, <2>2
<1>6. /\ HeaderBits < cntBits /\ cntBits < Len(stream) /\ Len(stream) \in Nat
      /\ cntBits \in Nat /\ HeaderBits \in Nat
  <2>1. o[0] < cntBits /\ cntBits < Len(stream) /\ Len(stream) \in Nat /\ cntBits \in Nat
    BY <1>1, <1>2, <1>3, <1>5, AtPlace
  <2> QED BY <1>2, <1>4, <2>1, SentFacts
<1>7. nCells' = sent.nCells
  <2>1. PICK b : b = UintBits(sent.nCells, HeaderBits)
    OBVIOUS
  <2>2. b \in Seq(Bit) /\ Len(b) = HeaderBits /\ UintOf(b) = sent.nCells
    BY <1>2, <1>6, <2>1, SentFacts, UintBack
  <2>3. \A l \in 1..HeaderBits : stream[0 + l] = b[l]
    BY <1>4, <1>6, <2>1
  <2>4. 0 + HeaderBits <= Len(stream)
    BY <1>6
  <2>5. Slice(0, Len(b)) = b
    BY <1>2, <2>2, <2>3, <2>4, SliceIs
  <2> QED BY <1>1, <2>2, <2>5
<1>8. rpc' = "number"
  BY <1>1, <1>6 DEF NextRound
<1>9. Written' /\ sent' \in Streams /\ stream' \in Seq(Bit) /\ wpc' = "done" /\ stream' = stream
  BY <1>1, <1>2, WriterEnded DEF writer
<1>10. Reached(FirstPlace, HeaderBits)'
  <2>1. Partial(sent'.tokens[1], "literalLen") = EmptyToken
    BY DEF Partial, EmptyToken, NoMatch
  <2>2. Len(received') = 0 /\ 1 - 1 = 0
    BY <1>1, <1>2
  <2> QED BY <1>1, <1>2, <1>8, <2>1, <2>2 DEF Reached, FirstPlace
<1>11. IsCourse(n, h, o, cntBits)'
  <2>1. PICK m : m = cntBits
    OBVIOUS
  <2>2. IsCourse(n, h, o, m)'
    BY <1>1, <1>2, <1>3, <1>9, <2>1, CourseKept
  <2> QED BY <1>1, <2>1, <2>2
<1>12. Reached(h[0], o[0])'
  BY <1>4, <1>10
<1>13. Read'
  BY <1>1, <1>2, <1>3, <1>5, <1>7, <1>8, <1>9, <1>11, <1>12 DEF Read
<1> QED BY <1>1, <1>2, <1>8, <1>9, <1>13 DEF ReadStep, TakesNext, IInv, TypeInv

LEMMA StutterOK == ASSUME IInv, UNCHANGED vars PROVE IInv' /\ TakesNext
<1>1. /\ UNCHANGED <<sent, stream, at, wKind, wLeft, wpc>>
      /\ UNCHANGED <<cntBits, offs, nCells, rKind, num, token, received, rpc>>
  BY DEF vars, writer, reader
<1>2. TypeInv'
  BY <1>1 DEF IInv, TypeInv
<1>3. \A n, h, o, m : IsCourse(n, h, o, m)' = IsCourse(n, h, o, m)
  BY <1>1, SameSent DEF IsCourse
<1>4. Written'
  <2>1. WPlace' = WPlace
    BY <1>1 DEF WPlace
  <2>2. /\ \A n, h, o : IsCourse(n, h, o, Len(stream))' = IsCourse(n, h, o, Len(stream))
        /\ \A n, h, o :
             IsCourse(n, h, o, MarkAt(stream) - 1)' = IsCourse(n, h, o, MarkAt(stream) - 1)
    BY <1>1, SameSent DEF IsCourse
  <2> QED BY <1>1, <2>1, <2>2 DEF IInv, Written
<1>5. Read'
  <2>1. \A w, x : Reached(w, x)' = Reached(w, x)
    BY <1>1 DEF Reached, Num
  <2>2. \A n, h, o : IsCourse(n, h, o, cntBits)' = IsCourse(n, h, o, cntBits)
    BY <1>1, SameSent DEF IsCourse
  <2> QED BY <1>1, <2>1, <2>2 DEF IInv, Read
<1> QED BY <1>1, <1>2, <1>4, <1>5 DEF IInv, TakesNext

LEMMA StepOK == ASSUME IInv, [Next]_vars PROVE IInv' /\ (TakesNext /\ sent' = sent)
<1>1. CASE WriteHeader \/ WriteSmall \/ WriteLargeOffset \/ WriteLarge \/ WriteChunk
           \/ WriteLiteral \/ WriteEnd
  <2>1. IInv'
    BY <1>1, WriteHeaderOK, WriteSmallOK, WriteLargeOffsetOK, WriteLargeOK, WriteChunkOK,
       WriteLiteralOK, WriteEndOK
  <2>2. UNCHANGED <<sent, reader>>
    BY <1>1 DEF WriteHeader, WriteSmall, WriteLargeOffset, WriteLarge, WriteChunk,
                WriteLiteral, WriteEnd
  <2> QED BY <2>1, <2>2 DEF TakesNext, reader
<1>2. CASE ReadEndMark
  BY <1>2, ReadEndMarkOK DEF ReadEndMark, TakesNext
<1>3. CASE ReadHeader \/ ReadSmall \/ ReadLargeOffset \/ ReadLarge \/ ReadChunk \/ ReadLiteral
  <2>1. ReadStep
    BY <1>3, ReadHeaderOK, ReadSmallOK, ReadLargeOffsetOK, ReadLargeOK, ReadChunkOK,
       ReadLiteralOK
  <2>2. sent' = sent
    BY <1>3 DEF ReadHeader, ReadSmall, ReadLargeOffset, ReadLarge, ReadChunk, ReadLiteral
  <2> QED BY <2>1, <2>2 DEF ReadStep
<1>4. CASE UNCHANGED vars
  BY <1>4, StutterOK DEF vars
<1> QED BY <1>1, <1>2, <1>3, <1>4 DEF Next, Done

LEMMA Inductive == Spec => []IInv
<1>1. IInv /\ [Next]_vars => IInv'
  BY StepOK
<1> QED BY <1>1, InitOK, PTL DEF Spec
-----------------------------------------------------------------------------
(* deserialise is in step with run_lz at every number, chunk and literal, although
   neither the number of tokens nor their lengths are sent; it reads nothing
   behind the mark, and no CHECK around the literals fails. *)
THEOREM ReaderInStep == Spec => []InStepToTheMark
<1>1. IInv => InStepToTheMark
  <2> SUFFICES ASSUME IInv, rpc \notin {"start", "header"} PROVE InStepToTheMark
    BY DEF InStepToTheMark
  <2>1. nCells = sent.nCells /\ sent \in Streams /\ wpc = "done"
    BY DEF IInv, Read, TypeInv
  <2>2. CASE rpc = "done"
    <3>1. offs = cntBits /\ received = sent.tokens
      BY <2>2 DEF IInv, Read
    <3>2. cntBits \in Nat
      BY <2>1, <2>2 DEF IInv, Read, Written, IsCourse
    <3> QED BY <2>1, <2>2, <3>1, <3>2 DEF InStepToTheMark
  <2>3. CASE rpc \in {"number", "chunk", "literal"}
    <3>1. PICK n, h, o, j, w, x : Ahead(n, h, o, j, w, x)
      BY <2>3, PieceAhead
    <3>2. /\ IsCourse(n, h, o, cntBits) /\ h[n].pc = "end" /\ j \in 0..n - 1
          /\ w = h[j] /\ x = o[j] /\ w \in Places /\ Reached(w, x)
          /\ w.pc = rpc /\ w.kind = rKind /\ offs = x /\ x \in Nat
          /\ o[j + 1] = x + Len(Piece(w)) /\ Len(Piece(w)) \in Nat
          /\ o[j + 1] \in 0..cntBits
      BY <3>1 DEF Ahead
    <3>3. cntBits \in Nat /\ w.pc # "end" /\ (w.pc = "number" => offs < cntBits)
      BY <2>1, <2>3, <3>2, AtPlace
    <3>4. offs <= cntBits
      BY <3>2, <3>3
    <3>5. /\ w.at \in 1..Len(sent.tokens) /\ Len(sent.tokens) \in Nat
          /\ w.kind # "literalLen" => sent.tokens[w.at].match # NoMatch
      BY <2>1, <3>2, <3>3, NumFacts, SentFacts
    <3>6. Len(received) = w.at - 1
      BY <3>2 DEF Reached
    <3>7. Len(received) < Len(sent.tokens) /\ Len(received) + 1 = w.at
      BY <3>5, <3>6
    <3>8. rpc = "literal" => offs + num <= cntBits
      <4> SUFFICES ASSUME rpc = "literal" PROVE offs + num <= cntBits
        OBVIOUS
      <4>1. num = Len(Piece(w))
        BY <3>2 DEF Reached, Piece
      <4> QED BY <3>2, <3>3, <4>1
    <3> QED BY <2>1, <2>3, <3>2, <3>3, <3>4, <3>5, <3>7, <3>8 DEF InStepToTheMark
  <2> QED BY <2>2, <2>3 DEF IInv, TypeInv
<1> QED BY <1>1, Inductive, PTL

(* The tokens arrive one after the other, each as run_lz wrote it: the stream
   implements the channel between Encoder and Decoder. *)
THEOREM TokensArriveInOrder == Spec => Channel!Init /\ [][Channel!Receive]_(Channel!vars)
<1>1. Init => Channel!Init
  BY DEF Init, Channel!Init
<1>2. IInv /\ [Next]_vars => [Channel!Receive]_(Channel!vars)
  <2> SUFFICES ASSUME IInv, [Next]_vars
               PROVE  Channel!Receive \/ UNCHANGED <<sent.tokens, received>>
    BY DEF Channel!vars
  <2>1. TakesNext /\ sent' = sent
    BY StepOK
  <2> QED BY <2>1 DEF TakesNext, Channel!Receive
<1> QED BY <1>1, <1>2, Inductive, PTL DEF Spec

(* deserialise never stops between two numbers: the last byte has its mark, and
   decode_symbol finds a symbol at the beginning of every number. *)
THEOREM NumbersCanBeRead == Spec => []NeverStops
<1>1. ASSUME IInv, rpc = "number"
      PROVE  \E s \in 0..Threshold(rKind) : Holds(offs, Code[rKind][s])
  <2>1. PICK n, h, o, j, w, x : Ahead(n, h, o, j, w, x)
    BY <1>1, PieceAhead
  <2>2. /\ w \in Places /\ w.pc = "number" /\ w.kind = rKind /\ offs = x /\ x \in Nat
        /\ Len(Piece(w)) \in Nat /\ x + Len(Piece(w)) <= Len(stream)
        /\ \A l \in 1..Len(Piece(w)) : stream[x + l] = Piece(w)[l]
        /\ sent \in Streams /\ stream \in Seq(Bit) /\ Len(stream) \in Nat
    BY <1>1, <2>1, LenProperties DEF Ahead, IInv, TypeInv
  <2>3. PICK c : c = Code[w.kind][Symbol(w)]
    OBVIOUS
  <2>4. /\ Symbol(w) \in 0..Threshold(w.kind)
        /\ c \in Seq(Bit) /\ Len(c) \in Nat /\ Len(c) <= Len(Piece(w))
        /\ \A l \in 1..Len(c) : Piece(w)[l] = c[l]
    BY <2>2, <2>3, PieceBegins
  <2>5. x \in 0..Len(stream) /\ x + Len(c) <= Len(stream)
    BY <2>2, <2>4
  <2>6. \A l \in 1..Len(c) : stream[x + l] = c[l]
    <3>1. \A l \in 1..Len(c) : l \in 1..Len(Piece(w))
      BY <2>2, <2>4
    <3> QED BY <2>2, <2>4, <3>1
  <2>7. Holds(x, c)
    BY <2>2, <2>4, <2>5, <2>6, PrefixAt DEF Holds
  <2> QED BY <2>2, <2>3, <2>4, <2>7
<1>2. IInv => (rpc = "start" /\ wpc = "done" => HasMark(stream))
  BY DEF IInv, Written
<1>3. IInv => NeverStops
  BY <1>1, <1>2 DEF NeverStops
<1> QED BY <1>3, Inductive, PTL
=============================================================================
