------------------------------- MODULE Decoder -------------------------------
(***************************************************************************)
(* deserialise of serializator.hpp, from the header to the cells: bits are *)
(* appended from literals and from matches, and after each of them as many *)
(* fields are read as the bits so far hold.  A match names its source by   *)
(* cell and offset, so the decoder has to know where every bit of every    *)
(* cell is that it has written, those of a field it cannot read yet        *)
(* included, and to guess which cell the next bit belongs to.              *)
(*                                                                         *)
(* A failed CHECK stops the program: the asserted conditions are guards.   *)
(***************************************************************************)
EXTENDS Layout

VARIABLES
    outBits,    \* out_bits up to out_bits_write_ptr
    offs,       \* out_bits.offs: the first bit that has not been read
    cells,      \* my_cells: what has been read of each cell
    cellMetas,  \* cell_metas: cell -> field type -> start and cnt
    lastMeta,   \* last_read_meta
    nextToken,  \* index of the token that lz_bits stands at
    copyFrom,   \* the match loop's read_bit
    copyLeft,   \* and the bits it has still to copy
    dpc         \* "start", "literal", "advanceLiteral", "match", "copy",
                \* "advanceCopy", "done"

decVars == <<outBits, offs, cells, cellMetas, lastMeta, nextToken, copyFrom, copyLeft, dpc>>

Ids == 0..nCells - 1

(* -1u *)
Unset == -1

UnreadCell ==
    [cntRefs |-> Unset, special |-> 0, cntBits |-> Unset, refs |-> << >>, data |-> << >>]
UnreadField == [start |-> Unset, cnt |-> 0]

(* Before the header is read there are no cells. *)
DecInit ==
    /\ outBits = << >> /\ offs = 0
    /\ cells = << >> /\ cellMetas = << >>
    /\ lastMeta = NoMeta
    /\ nextToken = 1
    /\ copyFrom = 0 /\ copyLeft = 0
    /\ dpc = "start"

(* The outer loop of deserialise. *)
MoreTokens == nextToken <= Len(tokens)
NextRound == IF MoreTokens THEN "literal" ELSE "done"

(* Read n_cells; make the cells and their metas. *)
ReadHeader ==
    /\ dpc = "start"
    /\ cells' = [c \in Ids |-> UnreadCell]
    /\ cellMetas' = [c \in Ids |-> [t \in d1..data |-> UnreadField]]
    /\ dpc' = NextRound
    /\ UNCHANGED <<outBits, offs, lastMeta, nextToken, copyFrom, copyLeft>>

Advancing == dpc \in {"advanceLiteral", "advanceCopy"}

(* Fields without bits are passed over: no references, or no data. *)
IsEmpty(f) ==
    \/ f[1] = refs /\ cells[f[2]].cntRefs = 0
    \/ f[1] = data /\ cells[f[2]].cntBits = 0

(* predict_next_meta(last_read_meta) *)
NextMeta ==
    LET later == {f \in Fields(nCells) : ~ IsEmpty(f) /\ (lastMeta = NoMeta \/ Before(lastMeta, f))}
    IN  IF later = {} THEN NoMeta
        ELSE CHOOSE f \in later : \A g \in later : g = f \/ Before(f, g)

Unread == Len(outBits) - offs

(* decode_symbol(out_bits, out_bits_write_ptr): the symbol whose code the
   unread bits start with, if they hold all of it. *)
Decodes(code, s) ==
    /\ Len(code[s]) <= Unread
    /\ SubSeq(outBits, offs + 1, offs + Len(code[s])) = code[s]

(* A field is read: its place is noted and reading moves past it. *)
Read(f, cnt, cell) ==
    /\ cells' = [cells EXCEPT ![f[2]] = cell]
    /\ cellMetas' = [cellMetas EXCEPT ![f[2]][f[1]] = [start |-> offs, cnt |-> cnt]]
    /\ offs' = offs + cnt
    /\ lastMeta' = f
    /\ UNCHANGED <<outBits, nextToken, copyFrom, copyLeft, dpc>>

(* Mutant: the special flag stays in cnt_refs. *)
ReadD1Unmasked ==
    /\ Advancing /\ NextMeta[1] = d1
    /\ \E s \in DOMAIN D1Code :
        /\ Decodes(D1Code, s)
        /\ Read(NextMeta, Len(D1Code[s]),
                [cells[NextMeta[2]] EXCEPT !.cntRefs = s, !.special = (s \div 8) % 2])

(* try_read_d1, with CHECK(cnt_refs <= 4). *)
ReadD1 ==
    /\ Advancing /\ NextMeta[1] = d1
    /\ \E s \in DOMAIN D1Code :
        /\ Decodes(D1Code, s)
        /\ s % 8 <= 4
        /\ Read(NextMeta, Len(D1Code[s]),
                [cells[NextMeta[2]] EXCEPT !.cntRefs = s % 8, !.special = (s \div 8) % 2])

(* try_read_data_size *)
ReadDataSize ==
    /\ Advancing /\ NextMeta[1] = data_size
    /\ \E s \in DOMAIN SizeCode :
        /\ Decodes(SizeCode, s)
        /\ Read(NextMeta, Len(SizeCode[s]), [cells[NextMeta[2]] EXCEPT !.cntBits = s])

(* Mutant: id_store without the 1 that was taken off. *)
ReadRefOffByOne(c, j) ==
    LET w == RefWidth(nCells)
        stored == UintOf(SubSeq(outBits, offs + (j - 1) * w + 1, offs + j * w))
    IN  (nCells + c - stored) % nCells

(* id_store as read back, and the reference it stands for. *)
ReadRef(c, j) ==
    LET w == RefWidth(nCells)
        stored == UintOf(SubSeq(outBits, offs + (j - 1) * w + 1, offs + j * w)) + 1
    IN  (nCells + c - stored) % nCells

(* try_read_refs: all references of the cell or none; CHECK(cnt_refs > 0). *)
ReadRefs ==
    /\ Advancing /\ NextMeta[1] = refs
    /\ LET c == NextMeta[2]
           cnt == cells[c].cntRefs * RefWidth(nCells)
       IN  /\ cells[c].cntRefs > 0
           /\ cnt <= Unread
           /\ Read(NextMeta, cnt,
                   [cells[c] EXCEPT !.refs = [j \in 1..cells[c].cntRefs |-> ReadRef(c, j)]])

(* try_read_data, with CHECK(cnt_bits > 0) *)
ReadData ==
    /\ Advancing /\ NextMeta[1] = data
    /\ LET c == NextMeta[2]
       IN  /\ cells[c].cntBits > 0
           /\ cells[c].cntBits <= Unread
           /\ Read(NextMeta, cells[c].cntBits,
                   [cells[c] EXCEPT !.data = SubSeq(outBits, offs + 1, offs + cells[c].cntBits)])

(* The next field can be read in full. *)
CanRead ==
    CASE NextMeta[1] = none      -> FALSE
      [] NextMeta[1] = d1        -> \E s \in DOMAIN D1Code : Decodes(D1Code, s)
      [] NextMeta[1] = data_size -> \E s \in DOMAIN SizeCode : Decodes(SizeCode, s)
      [] NextMeta[1] = refs      -> cells[NextMeta[2]].cntRefs * RefWidth(nCells) <= Unread
      [] NextMeta[1] = data      -> cells[NextMeta[2]].cntBits <= Unread

(* Behind a literal lz_bits is at its end, or a match follows. *)
AtEnd == tokens[nextToken].match = NoMatch

(* Mutant: the beginning of a field that is not complete is not noted. *)
EndAdvanceNoPartial ==
    /\ Advancing /\ ~ CanRead
    /\ dpc' = CASE dpc = "advanceCopy" -> NextRound
                [] dpc = "advanceLiteral" /\ ~ AtEnd -> "match"
                [] OTHER -> "done"
    /\ UNCHANGED <<outBits, offs, cells, cellMetas, lastMeta, nextToken, copyFrom, copyLeft>>

(* advance_cells_read ends: nothing more can be read, and the bits left over,
   if any, are noted as the beginning of the next field. *)
EndAdvance ==
    /\ Advancing /\ ~ CanRead
    /\ Unread > 0 => NextMeta # NoMeta
    /\ cellMetas' = IF Unread > 0
                    THEN [cellMetas EXCEPT ![NextMeta[2]][NextMeta[1]] =
                            [start |-> offs, cnt |-> Unread]]
                    ELSE cellMetas
    /\ dpc' = CASE dpc = "advanceCopy" -> NextRound
                [] dpc = "advanceLiteral" /\ ~ AtEnd -> "match"
                [] OTHER -> "done"
    /\ UNCHANGED <<outBits, offs, cells, lastMeta, nextToken, copyFrom, copyLeft>>

(* advance_lz_decoder: the literal of the next token. *)
ReadLiteral ==
    /\ dpc = "literal"
    /\ outBits' = outBits \o tokens[nextToken].literal
    /\ dpc' = "advanceLiteral"
    /\ UNCHANGED <<offs, cells, cellMetas, lastMeta, nextToken, copyFrom, copyLeft>>

(* CellMeta::get_pos: the place of the bit of cell c that has o bits of the
   cell before it; HasPos is its CHECK(offset < data_cnt). *)
HasPos(c, o) ==
    LET m == cellMetas[c] IN o < m[d1].cnt + m[data_size].cnt + m[refs].cnt + m[data].cnt

(* Mutant: get_pos compares with <=. *)
GetPosInclusive(c, o) ==
    LET m == cellMetas[c]
        endD1 == m[d1].cnt
        endSize == endD1 + m[data_size].cnt
        endRefs == endSize + m[refs].cnt
    IN  CASE o <= endD1 -> m[d1].start + o
          [] endD1 < o /\ o <= endSize -> m[data_size].start + o - endD1
          [] endSize < o /\ o <= endRefs -> m[refs].start + o - endSize
          [] OTHER -> m[data].start + o - endRefs

GetPos(c, o) ==
    LET m == cellMetas[c]
        endD1 == m[d1].cnt
        endSize == endD1 + m[data_size].cnt
        endRefs == endSize + m[refs].cnt
    IN  CASE o < endD1 -> m[d1].start + o
          [] endD1 <= o /\ o < endSize -> m[data_size].start + o - endD1
          [] endSize <= o /\ o < endRefs -> m[refs].start + o - endSize
          [] OTHER -> m[data].start + o - endRefs

(* Mutant: the cell of the field that was read last. *)
CurCellLastRead == lastMeta[2]

(* cur_cell_id: the cell the bit to be written next should belong to. *)
CurCell == NextMeta[2]
RefCell == (nCells + CurCell - tokens[nextToken].match.cellOffset) % nCells

(* The match of the token: find where it starts. *)
ResolveMatch ==
    /\ dpc = "match"
    /\ RefCell \in DOMAIN cellMetas
    /\ HasPos(RefCell, tokens[nextToken].match.within)
    /\ copyFrom' = GetPos(RefCell, tokens[nextToken].match.within)
    /\ copyLeft' = tokens[nextToken].match.len
    /\ nextToken' = nextToken + 1
    /\ dpc' = "copy"
    /\ UNCHANGED <<outBits, offs, cells, cellMetas, lastMeta>>

(* One turn of the copy loop; the source may be a bit the loop wrote itself. *)
CopyBit ==
    /\ dpc = "copy" /\ copyLeft > 0
    /\ outBits' = Append(outBits, outBits[copyFrom + 1])
    /\ copyFrom' = copyFrom + 1
    /\ copyLeft' = copyLeft - 1
    /\ UNCHANGED <<offs, cells, cellMetas, lastMeta, nextToken, dpc>>

(* Mutant: no advance_cells_read after a match. *)
EndCopyNoAdvance ==
    /\ dpc = "copy" /\ copyLeft = 0
    /\ dpc' = NextRound
    /\ UNCHANGED <<outBits, offs, cells, cellMetas, lastMeta, nextToken, copyFrom, copyLeft>>

EndCopy ==
    /\ dpc = "copy" /\ copyLeft = 0
    /\ dpc' = "advanceCopy"
    /\ UNCHANGED <<outBits, offs, cells, cellMetas, lastMeta, nextToken, copyFrom, copyLeft>>

DecNext ==
    \/ ReadHeader \/ ReadLiteral
    \/ ReadD1 \/ ReadDataSize \/ ReadRefs \/ ReadData \/ EndAdvance
    \/ ResolveMatch \/ CopyBit \/ EndCopy
=============================================================================
