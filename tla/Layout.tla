------------------------------- MODULE Layout --------------------------------
(***************************************************************************)
(* What the two ends of the codec share: the cells of a block, the fields  *)
(* they are written as, and the stream between run_lz and deserialise.     *)
(*                                                                         *)
(* A cell is its reference count, the special flag, the references and the *)
(* data bits.  The bit string of a block has all d1 fields, then all data  *)
(* sizes, then all references, then all data, each by ascending cell.      *)
(***************************************************************************)
EXTENDS Bits, FiniteSets

CONSTANTS
    Blocks,       \* the cells serialize() may write: id -> cell, ids from 0
    D1Code,       \* the Huffman code of d1: symbol -> <<bits>>
    SizeCode,     \* the Huffman code of cnt_bits
    MinMatchLen   \* MIN_MATCH_LEN

(* FieldType, and SerializeMetaData as <<field_type, cell_id>>. *)
none == 0
d1 == 1
data_size == 2
refs == 3
data == 4

NoMeta == <<none, -1>>

Fields(nCells) == (d1..data) \X (0..nCells - 1)

(* The order in which the fields follow each other in the bit string. *)
Before(f, g) == f[1] < g[1] \/ (f[1] = g[1] /\ f[2] < g[2])

(* MyCell::d1 *)
D1(cell) == Len(cell.refs) + 8 * cell.special

(* push_refs: a reference is stored as its distance back, modulo the number of
   cells, minus 1. *)
RefWidth(nCells) == LenInBits(nCells - 1)
RefStore(nCells, i, ref) == ((nCells + i - ref) % nCells) - 1
RefBits(nCells, i, cell) ==
    LET w == RefWidth(nCells)
    IN  [k \in 1..Len(cell.refs) * w |->
            UintBits(RefStore(nCells, i, cell.refs[((k - 1) \div w) + 1]), w)
                [((k - 1) % w) + 1]]

(* The bits of field f of a block. *)
FieldBits(block, f) ==
    LET cell == block[f[2]]
    IN  CASE f[1] = d1        -> D1Code[D1(cell)]
          [] f[1] = data_size -> SizeCode[Len(cell.data)]
          [] f[1] = refs      -> RefBits(Cardinality(DOMAIN block), f[2], cell)
          [] f[1] = data      -> cell.data

IsBlock(b) ==
    /\ IsFiniteSet(DOMAIN b) /\ DOMAIN b # {}
    /\ DOMAIN b = 0..Cardinality(DOMAIN b) - 1
    /\ \E w \in 1..64 : Cardinality(DOMAIN b) <= Pow2[w]    \* n_cells is an unsigned number
    /\ \A i \in DOMAIN b :
        /\ b[i].refs \in Seq(0..i - 1)          \* apply_order: references go back
        /\ Len(b[i].refs) <= 4
        /\ b[i].special \in {0, 1}
        /\ b[i].data \in Seq(Bit)
        /\ D1(b[i]) \in DOMAIN D1Code
        /\ Len(b[i].data) \in DOMAIN SizeCode

ASSUME LayoutAssumption ==
    /\ IsPrefixCode(D1Code) /\ IsPrefixCode(SizeCode)
    /\ \A b \in Blocks : IsBlock(b)
    /\ MinMatchLen \in Nat \ {0}

(* The stream run_lz writes and deserialise reads: the number of cells and the
   tokens.  A token is a literal, followed by a match except at the end. *)
VARIABLES
    nCells,     \* the header
    tokens      \* <<[literal, match]>>

NoMatch == [len |-> 0, cellOffset |-> 0, within |-> 0]
=============================================================================
