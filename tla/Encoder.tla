------------------------------- MODULE Encoder -------------------------------
(***************************************************************************)
(* my_cells_to_bit_str and run_lz of serializator.hpp: the cells, already  *)
(* reordered, are written as one bit string with the cell and field every  *)
(* bit belongs to; the bit string is then parsed greedily into literals    *)
(* and matches.  A match is not sent as a distance: the earlier place is   *)
(* named by the cell its first bit belongs to, relative to the cell that   *)
(* the current bit belongs to, and by how many bits of that cell precede.  *)
(***************************************************************************)
EXTENDS Layout, Matching

VARIABLES
    block,          \* my_cells after apply_order
    bits,           \* the bit string
    meta,           \* meta: bit position -> <<field type, cell id>>
    toPush,         \* the next field the push loops write, NoMeta after them
    i,              \* the position of the parse, from 0
    literalStart,   \* last_literal_start
    epc             \* "push", "parse", "done"

encVars == <<block, bits, meta, toPush, i, literalStart, epc>>

BlockSize == Cardinality(DOMAIN block)

EncInit ==
    /\ block \in Blocks
    /\ bits = << >> /\ meta = << >>
    /\ toPush = <<d1, 0>>
    /\ i = 0 /\ literalStart = 0
    /\ nCells = 0 /\ tokens = << >>
    /\ epc = "push"

(* The four loops over the cells, one after the other. *)
NextToPush(f) ==
    CASE f[2] + 1 < BlockSize -> <<f[1], f[2] + 1>>
      [] f[2] + 1 = BlockSize /\ f[1] < data -> <<f[1] + 1, 0>>
      [] OTHER -> NoMeta

(* push_refs CHECKs that a reference is to another cell. *)
RefsCheck(f) ==
    f[1] = refs => \A j \in 1..Len(block[f[2]].refs) :
        /\ block[f[2]].refs[j] # f[2]
        /\ (BlockSize + f[2] - block[f[2]].refs[j]) % BlockSize > 0

(* push_d1, push_data_size, push_refs or push_data of one cell. *)
PushField ==
    /\ epc = "push" /\ toPush # NoMeta
    /\ RefsCheck(toPush)
    /\ LET f == FieldBits(block, toPush)
       IN  /\ bits' = bits \o f
           /\ meta' = meta \o [k \in 1..Len(f) |-> toPush]
    /\ toPush' = NextToPush(toPush)
    /\ UNCHANGED <<block, i, literalStart, epc, nCells, tokens>>

(* my_cells_to_bit_str returns marked bytes, of which serialize makes bits again. *)
BitStr == Unmarked(Marked(bits))

(* run_lz starts: n_cells is one more than the largest cell id in meta. *)
StartParse ==
    /\ epc = "push" /\ toPush = NoMeta
    /\ HasMark(Marked(bits))
    /\ bits' = BitStr
    /\ nCells' = CHOOSE m \in 1..BlockSize :
                    /\ \E k \in 1..Len(meta) : meta[k][2] + 1 = m
                    /\ \A k \in 1..Len(meta) : meta[k][2] + 1 <= m
    /\ epc' = "parse"
    /\ UNCHANGED <<block, meta, toPush, i, literalStart, tokens>>

(* Mutants: the offset counts the bits of the field only; it counts the bit
   itself. *)
WithinField(s) == Cardinality({k \in 1..s : meta[k] = meta[s + 1]})
WithinInclusive(s) == Cardinality({k \in 1..s + 1 : meta[k][2] = meta[s + 1][2]})

(* build_offsets_within_cells *)
Within(s) == Cardinality({k \in 1..s : meta[k][2] = meta[s + 1][2]})

(* dump_token *)
MatchToken(m) ==
    [literal |-> SubSeq(bits, literalStart + 1, i),
     match   |-> [len        |-> m[2],
                  cellOffset |-> (nCells + meta[i + 1][2] - meta[m[1] + 1][2]) % nCells,
                  within     |-> Within(m[1])]]

(* The parse loop takes the best match at i and goes on behind it: what get_match
   returns, as SuffAut shows. *)
TakeMatch ==
    /\ epc = "parse" /\ i < Len(bits)
    /\ \E m \in Matches(bits, i, MinMatchLen) :
        /\ IsBestMatch(bits, i, MinMatchLen, m)
        /\ tokens' = Append(tokens, MatchToken(m))
        /\ i' = i + m[2]
        /\ literalStart' = i + m[2]
    /\ UNCHANGED <<block, bits, meta, toPush, nCells, epc>>

(* There is none: the bit joins the literal. *)
SkipBit ==
    /\ epc = "parse" /\ i < Len(bits)
    /\ Matches(bits, i, MinMatchLen) = {}
    /\ i' = i + 1
    /\ UNCHANGED <<block, bits, meta, toPush, literalStart, nCells, tokens, epc>>

(* The bits after the last match are the last literal. *)
EndParse ==
    /\ epc = "parse" /\ i >= Len(bits)
    /\ tokens' = IF literalStart < Len(bits)
                 THEN Append(tokens,
                        [literal |-> SubSeq(bits, literalStart + 1, Len(bits)),
                         match |-> NoMatch])
                 ELSE tokens
    /\ epc' = "done"
    /\ UNCHANGED <<block, bits, meta, toPush, i, literalStart, nCells>>

EncNext == PushField \/ StartParse \/ TakeMatch \/ SkipBit \/ EndParse
=============================================================================
