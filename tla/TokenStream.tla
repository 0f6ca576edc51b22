----------------------------- MODULE TokenStream -----------------------------
(***************************************************************************)
(* The stream between run_lz and deserialise, bit by bit: the header, the  *)
(* numbers of each token, and the end.  A number below a threshold is a    *)
(* Huffman symbol.  The threshold's symbol announces a larger number: what *)
(* is above it follows in chunks (dump_num, read_dumped_num), or, for the  *)
(* cell offset, in as many bits as the largest offset can need.  The end   *)
(* is a 1 bit after which the last byte is filled with 0 bits.             *)
(***************************************************************************)
EXTENDS Bits, FiniteSets, FiniteSetsExt

CONSTANTS
    Code,        \* kind of number -> the code of 0 .. its threshold
    Chunk,       \* kind of number -> BITS_TO_DUMP_...
    HeaderBits,  \* BITS_FOR_N_CELLS
    Streams      \* what run_lz may have to write: [nCells, tokens]

Chunked == {"literalLen", "matchLen", "within"}
Kinds == Chunked \cup {"cellOffset"}

NoMatch == [len |-> 0, cellOffset |-> 0, within |-> 0]

(* LITERAL_LEN_TH, MATCH_LEN_TH, CELL_ID_OFFSET_TH, OFFSET_WITHIN_CELL_TH *)
Threshold(kind) == Cardinality(DOMAIN Code[kind]) - 1

Token == [literal : Seq(Bit), match : [len : Nat, cellOffset : Nat, within : Nat]]

(* Only the last token may lack a match, and then it has a literal. *)
ASSUME StreamAssumption ==
    /\ \A k \in Kinds :
        Threshold(k) \in Nat /\ IsPrefixCode(Code[k]) /\ DOMAIN Code[k] = 0..Threshold(k)
    /\ \A k \in Chunked : Chunk[k] \in Nat \ {0}
    /\ HeaderBits \in 1..64
    /\ \A s \in Streams :
        /\ s.nCells \in 1..Pow2[HeaderBits] - 1
        /\ s.tokens \in Seq(Token) /\ s.tokens # << >>
        /\ \A t \in 1..Len(s.tokens) :
            LET token == s.tokens[t]
            IN  IF token.match = NoMatch
                THEN t = Len(s.tokens) /\ token.literal # << >>
                ELSE token.match.len > 0 /\ token.match.cellOffset < s.nCells

VARIABLES
    sent,       \* the number of cells and the tokens run_lz writes
    stream,     \* output_bytes, up to bit_ptr.offs
    at,         \* the token being written
    wKind,      \* the number of it being written
    wLeft,      \* num in dump_num
    wpc,        \* "header", "number", "chunk", "literal", "end", "done"
    cntBits,    \* lz_cnt_bits
    offs,       \* lz_bits.offs
    nCells,     \* n_cells as read
    rKind,      \* the number being read
    num,        \* the number so far; the length of the literal
    token,      \* the token being read
    received,   \* the tokens that have been read
    rpc         \* "start", "header", "number", "chunk", "literal", "done"

writer == <<stream, at, wKind, wLeft, wpc>>
reader == <<cntBits, offs, nCells, rKind, num, token, received, rpc>>
vars == <<sent, writer, reader>>

EmptyToken == [literal |-> << >>, match |-> NoMatch]

Init ==
    /\ sent \in Streams
    /\ stream = << >> /\ at = 1 /\ wKind = "literalLen" /\ wLeft = 0 /\ wpc = "header"
    /\ cntBits = 0 /\ offs = 0 /\ nCells = 0
    /\ rKind = "literalLen" /\ num = 0 /\ token = EmptyToken /\ received = << >>
    /\ rpc = "start"
-----------------------------------------------------------------------------
(* run_lz *)

Put(s) == stream' = stream \o s

(* The number of kind k in token t. *)
Number(t, k) ==
    CASE k = "literalLen" -> Len(t.literal)
      [] k = "matchLen"   -> t.match.len
      [] k = "cellOffset" -> t.match.cellOffset
      [] k = "within"     -> t.match.within

(* What dump_token does after a number. *)
NumberWritten ==
    CASE wKind = "literalLen" -> wpc' = "literal" /\ UNCHANGED <<wKind, at>>
      [] wKind = "matchLen"   -> wpc' = "number" /\ wKind' = "cellOffset" /\ UNCHANGED at
      [] wKind = "cellOffset" -> wpc' = "number" /\ wKind' = "within" /\ UNCHANGED at
      [] wKind = "within"     ->
           /\ at' = at + 1
           /\ wKind' = "literalLen"
           /\ wpc' = IF at < Len(sent.tokens) THEN "number" ELSE "end"

ToWrite == Number(sent.tokens[at], wKind)

WriteHeader ==
    /\ wpc = "header"
    /\ Put(UintBits(sent.nCells, HeaderBits))
    /\ wpc' = "number"
    /\ UNCHANGED <<sent, at, wKind, wLeft, reader>>

WriteSmall ==
    /\ wpc = "number" /\ ToWrite < Threshold(wKind)
    /\ Put(Code[wKind][ToWrite])
    /\ NumberWritten
    /\ UNCHANGED <<sent, wLeft, reader>>

(* The bits for a cell offset from the threshold on. *)
OffsetWidth(n) == LenInBits(n - 1 - Threshold("cellOffset"))

WriteLargeOffset ==
    /\ wpc = "number" /\ wKind = "cellOffset" /\ ToWrite >= Threshold(wKind)
    /\ Put(Code[wKind][Threshold(wKind)]
             \o UintBits(ToWrite - Threshold(wKind), OffsetWidth(sent.nCells)))
    /\ NumberWritten
    /\ UNCHANGED <<sent, wLeft, reader>>

WriteLarge ==
    /\ wpc = "number" /\ wKind \in Chunked /\ ToWrite >= Threshold(wKind)
    /\ Put(Code[wKind][Threshold(wKind)])
    /\ wLeft' = ToWrite - Threshold(wKind)
    /\ wpc' = "chunk"
    /\ UNCHANGED <<sent, at, wKind, reader>>

MaxChunk(k) == Pow2[Chunk[k]] - 1

(* Mutant: dump_num stops when nothing is left. *)
WriteChunkUntilZero ==
    /\ wpc = "chunk"
    /\ LET cur == Min({wLeft, MaxChunk(wKind)})
       IN  /\ Put(UintBits(cur, Chunk[wKind]))
           /\ wLeft' = wLeft - cur
           /\ IF cur < wLeft THEN UNCHANGED <<at, wKind, wpc>> ELSE NumberWritten
    /\ UNCHANGED <<sent, reader>>

(* One turn of dump_num: only a chunk that is not full is the last one. *)
WriteChunk ==
    /\ wpc = "chunk"
    /\ LET cur == Min({wLeft, MaxChunk(wKind)})
       IN  /\ Put(UintBits(cur, Chunk[wKind]))
           /\ wLeft' = wLeft - cur
           /\ IF cur = MaxChunk(wKind) THEN UNCHANGED <<at, wKind, wpc>> ELSE NumberWritten
    /\ UNCHANGED <<sent, reader>>

(* The bits of a literal; dump_token goes on with the match. *)
WriteLiteral ==
    /\ wpc = "literal"
    /\ Put(sent.tokens[at].literal)
    /\ IF sent.tokens[at].match = NoMatch
       THEN wpc' = "end" /\ UNCHANGED wKind
       ELSE wpc' = "number" /\ wKind' = "matchLen"
    /\ UNCHANGED <<sent, at, wLeft, reader>>

(* Mutant: no mark before the fill. *)
WriteEndUnmarked ==
    /\ wpc = "end"
    /\ Put([k \in 1..(8 - (Len(stream) % 8)) |-> 0])
    /\ wpc' = "done"
    /\ UNCHANGED <<sent, at, wKind, wLeft, reader>>

(* The end mark; output takes whole bytes. *)
WriteEnd ==
    /\ wpc = "end"
    /\ stream' = Marked(stream)
    /\ wpc' = "done"
    /\ UNCHANGED <<sent, at, wKind, wLeft, reader>>
-----------------------------------------------------------------------------
(* deserialise *)

Holds(from, s) == StartsWith(SubSeq(stream, from + 1, Len(stream)), s)
Slice(from, w) == SubSeq(stream, from + 1, from + w)

(* The bit before the lowest 1 bit of the last byte is the last one. *)
ReadEndMark ==
    /\ rpc = "start" /\ wpc = "done"
    /\ HasMark(stream)
    /\ cntBits' = MarkAt(stream) - 1
    /\ rpc' = "header"
    /\ UNCHANGED <<sent, writer, offs, nCells, rKind, num, token, received>>

(* The outer loop: while (lz_bits.offs < lz_cnt_bits) *)
NextRound(o) == IF o < cntBits THEN "number" ELSE "done"

ReadHeader ==
    /\ rpc = "header"
    /\ nCells' = UintOf(Slice(0, HeaderBits))
    /\ offs' = HeaderBits
    /\ rpc' = NextRound(HeaderBits)
    /\ UNCHANGED <<sent, writer, cntBits, rKind, num, token, received>>

Deliver(t) == received' = Append(received, t) /\ token' = EmptyToken

(* Where a number read goes, o being the offset behind it; a match of length 0
   ends the token. *)
NumberRead(v, o) ==
    CASE rKind = "literalLen" ->
           rpc' = "literal" /\ num' = v /\ UNCHANGED <<rKind, token, received>>
      [] rKind = "matchLen" ->
           IF v = 0
           THEN Deliver(token) /\ rKind' = "literalLen" /\ rpc' = NextRound(o) /\ UNCHANGED num
           ELSE /\ token' = [token EXCEPT !.match.len = v]
                /\ rKind' = "cellOffset" /\ rpc' = "number" /\ UNCHANGED <<num, received>>
      [] rKind = "cellOffset" ->
           /\ token' = [token EXCEPT !.match.cellOffset = v]
           /\ rKind' = "within" /\ rpc' = "number" /\ UNCHANGED <<num, received>>
      [] rKind = "within" ->
           /\ Deliver([token EXCEPT !.match.within = v])
           /\ rKind' = "literalLen" /\ rpc' = NextRound(o) /\ UNCHANGED num

ReadSmall ==
    /\ rpc = "number"
    /\ \E s \in 0..Threshold(rKind) - 1 :
        /\ Holds(offs, Code[rKind][s])
        /\ offs' = offs + Len(Code[rKind][s])
        /\ NumberRead(s, offs')
    /\ UNCHANGED <<sent, writer, cntBits, nCells>>

AtThreshold == rpc = "number" /\ Holds(offs, Code[rKind][Threshold(rKind)])
BehindSymbol == offs + Len(Code[rKind][Threshold(rKind)])

(* Mutant: the width of the offset itself. *)
ReadLargeOffsetFullWidth ==
    /\ AtThreshold /\ rKind = "cellOffset"
    /\ LET w == LenInBits(nCells - 1)
       IN  /\ offs' = BehindSymbol + w
           /\ NumberRead(Threshold(rKind) + UintOf(Slice(BehindSymbol, w)), offs')
    /\ UNCHANGED <<sent, writer, cntBits, nCells>>

ReadLargeOffset ==
    /\ AtThreshold /\ rKind = "cellOffset"
    /\ LET w == OffsetWidth(nCells)
       IN  /\ offs' = BehindSymbol + w
           /\ NumberRead(Threshold(rKind) + UintOf(Slice(BehindSymbol, w)), offs')
    /\ UNCHANGED <<sent, writer, cntBits, nCells>>

ReadLarge ==
    /\ AtThreshold /\ rKind \in Chunked
    /\ offs' = BehindSymbol
    /\ num' = Threshold(rKind)
    /\ rpc' = "chunk"
    /\ UNCHANGED <<sent, writer, cntBits, nCells, rKind, token, received>>

(* Mutant: read_dumped_num ends at a chunk of 0 only. *)
ReadChunkUntilZero ==
    /\ rpc = "chunk"
    /\ LET cur == UintOf(Slice(offs, Chunk[rKind]))
       IN  /\ offs' = offs + Chunk[rKind]
           /\ IF cur > 0
              THEN num' = num + cur /\ UNCHANGED <<rKind, token, received, rpc>>
              ELSE NumberRead(num + cur, offs')
    /\ UNCHANGED <<sent, writer, cntBits, nCells>>

(* One turn of read_dumped_num. *)
ReadChunk ==
    /\ rpc = "chunk"
    /\ LET cur == UintOf(Slice(offs, Chunk[rKind]))
       IN  /\ offs' = offs + Chunk[rKind]
           /\ IF cur = MaxChunk(rKind)
              THEN num' = num + cur /\ UNCHANGED <<rKind, token, received, rpc>>
              ELSE NumberRead(num + cur, offs')
    /\ UNCHANGED <<sent, writer, cntBits, nCells>>

(* Mutant: the end is only seen once it has been passed. *)
ReadLiteralEndLate ==
    /\ rpc = "literal"
    /\ offs' = offs + num
    /\ LET t == [token EXCEPT !.literal = Slice(offs, num)]
       IN  IF offs + num > cntBits
           THEN /\ offs + num = cntBits
                /\ Deliver(t) /\ rKind' = "literalLen" /\ rpc' = "done"
           ELSE /\ token' = t /\ rKind' = "matchLen" /\ rpc' = "number"
                /\ UNCHANGED received
    /\ UNCHANGED <<sent, writer, cntBits, nCells, num>>

(* The literal; at the end of the input, CHECK that it is the end, and stop. *)
ReadLiteral ==
    /\ rpc = "literal"
    /\ offs' = offs + num
    /\ LET t == [token EXCEPT !.literal = Slice(offs, num)]
       IN  IF offs + num >= cntBits
           THEN /\ offs + num = cntBits
                /\ Deliver(t) /\ rKind' = "literalLen" /\ rpc' = "done"
           ELSE /\ token' = t /\ rKind' = "matchLen" /\ rpc' = "number"
                /\ UNCHANGED received
    /\ UNCHANGED <<sent, writer, cntBits, nCells, num>>

Done == rpc = "done" /\ UNCHANGED vars

Next ==
    \/ WriteHeader \/ WriteSmall \/ WriteLargeOffset \/ WriteLarge \/ WriteChunk
    \/ WriteLiteral \/ WriteEnd
    \/ ReadEndMark \/ ReadHeader \/ ReadSmall \/ ReadLargeOffset \/ ReadLarge \/ ReadChunk
    \/ ReadLiteral \/ Done

(* Both ends are sequential programs that run until they end. *)
Spec == Init /\ [][Next]_vars /\ WF_vars(Next)
-----------------------------------------------------------------------------
(* Without a count of tokens in the stream, deserialise is at every point where
   run_lz was: it starts a token when there is one, expects a match when the
   token has one, ends when all have been read, and decodes with the right
   number of cells.  Nothing behind the end mark is ever read, and the CHECKs
   around the literal hold: a token starts before the end, and the literal that
   reaches the end does not go beyond. *)
InStepToTheMark ==
    rpc \notin {"start", "header"} =>
        /\ nCells = sent.nCells
        /\ offs <= cntBits
        /\ rpc = "number" =>
            /\ offs < cntBits
            /\ Len(received) < Len(sent.tokens)
            /\ rKind # "literalLen" => sent.tokens[Len(received) + 1].match # NoMatch
        /\ rpc = "literal" => offs + num <= cntBits
        /\ rpc = "done" => received = sent.tokens

Channel == INSTANCE TokenChannel WITH sent <- sent.tokens, received <- received

(* The stream is what Encoder and Decoder take it for: the tokens of run_lz
   arrive one by one, each with the same numbers, and all of them do: neither
   end gets stuck in a number. *)
TokensArrive == Channel!Spec
=============================================================================
