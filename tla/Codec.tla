-------------------------------- MODULE Codec --------------------------------
(***************************************************************************)
(* The codec end to end: a block is written and parsed by the Encoder, the *)
(* stream is handed over, and the Decoder rebuilds the cells from it.  The *)
(* two run one after the other: main compresses, then decompresses.        *)
(***************************************************************************)
EXTENDS Encoder, Decoder

vars == <<encVars, nCells, tokens, decVars>>

Init == EncInit /\ DecInit

Encode == EncNext /\ UNCHANGED decVars

Decode == epc = "done" /\ DecNext /\ UNCHANGED <<encVars, nCells, tokens>>

Done == dpc = "done" /\ UNCHANGED vars

Next == Encode \/ Decode \/ Done

(* Both programs are sequential and run until they end. *)
Spec == Init /\ [][Next]_vars /\ WF_vars(Next)
-----------------------------------------------------------------------------
(* The decoder's output is at all times the beginning of the encoder's bit
   string, also in the middle of a match that overlaps its own source. *)
OutputIsPrefix ==
    Len(outBits) <= Len(bits) /\ outBits = SubSeq(bits, 1, Len(outBits))

(* run_lz takes the current cell from meta[i], deserialise guesses it with
   predict_next_meta: when a match starts the two agree, although the field the
   match starts in, or the ones before it, may be empty or half read. *)
CellGuessedRight ==
    dpc = "match" => CurCell = meta[Len(outBits) + 1][2]

(* Every bit the decoder has written can be named: outside the read loop,
   cell_metas finds each of them from the cell and the offset the encoder would
   send, those of a field that has only begun to arrive included. *)
WrittenBitsFound ==
    dpc \in {"literal", "match", "done"} =>
        \A k \in 0..Len(outBits) - 1 :
            /\ HasPos(meta[k + 1][2], Within(k))
            /\ GetPos(meta[k + 1][2], Within(k)) = k

(* The stream denotes the bit string at every step of the parse: literals are
   its bits, and a match stands for bits that repeat from an earlier place,
   the one that its cell offset and offset within the cell single out. *)
TokenLength(t) == Len(tokens[t].literal) + tokens[t].match.len
TokenEnd[t \in 0..Len(tokens)] == IF t = 0 THEN 0 ELSE TokenEnd[t - 1] + TokenLength(t)

NamesSource(t, place, source) ==
    LET m == tokens[t].match
    IN  /\ meta[source + 1][2] = (nCells + meta[place + 1][2] - m.cellOffset) % nCells
        /\ Within(source) = m.within

TokensDenoteBits ==
    dpc = "start" =>
    /\ TokenEnd[Len(tokens)] = IF epc = "done" THEN Len(bits) ELSE literalStart
    /\ \A t \in 1..Len(tokens) :
        LET from  == TokenEnd[t - 1]
            place == from + Len(tokens[t].literal)
        IN  /\ tokens[t].literal = SubSeq(bits, from + 1, place)
            /\ tokens[t].match # NoMatch =>
                \E source \in 0..place - 1 :
                    /\ NamesSource(t, place, source)
                    /\ AgreeOver(bits, source, place, tokens[t].match.len)
                    /\ \A o \in 0..place - 1 : NamesSource(t, place, o) => o = source

(* No CHECK fails: push_refs finds no cell that refers to itself, the CHECKs of
   deserialise on the counts of references and bits, on the beginning of an unread field and
   on the place a match starts at, and cell_metas.at(), succeed. *)
ChecksHold ==
    /\ epc = "push" /\ toPush # NoMeta => RefsCheck(toPush)
    /\ Advancing /\ NextMeta[1] = d1 =>
         \A s \in DOMAIN D1Code : Decodes(D1Code, s) => s % 8 <= 4
    /\ Advancing /\ NextMeta[1] = refs => cells[NextMeta[2]].cntRefs > 0
    /\ Advancing /\ NextMeta[1] = data => cells[NextMeta[2]].cntBits > 0
    /\ Advancing /\ ~ CanRead /\ Unread > 0 => NextMeta # NoMeta
    /\ dpc = "match" =>
         /\ RefCell \in DOMAIN cellMetas
         /\ HasPos(RefCell, tokens[nextToken].match.within)
-----------------------------------------------------------------------------
(* The codec implements FieldTransfer: what the decoder has read are the known
   fields.  A field without bits is known with the count that says so. *)
KnownField(f) ==
    /\ dpc # "start"
    /\ IsEmpty(f) \/ (lastMeta # NoMeta /\ ~ Before(lastMeta, f))

SentField(f) ==
    LET cell == block[f[2]]
    IN  CASE f[1] = d1        -> <<Len(cell.refs), cell.special>>
          [] f[1] = data_size -> <<Len(cell.data)>>
          [] f[1] = refs      -> cell.refs
          [] f[1] = data      -> cell.data

GotField(f) ==
    LET cell == cells[f[2]]
    IN  CASE f[1] = d1        -> <<cell.cntRefs, cell.special>>
          [] f[1] = data_size -> <<cell.cntBits>>
          [] f[1] = refs      -> cell.refs
          [] f[1] = data      -> cell.data

Transfer ==
    INSTANCE FieldTransfer WITH
        sent <- [f \in Fields(BlockSize) |-> SentField(f)],
        got  <- [f \in {g \in Fields(nCells) : KnownField(g)} |-> GotField(f)]

(* Each field becomes known once, with the value it was written from, and
   never changes; and all fields of every block do become known: neither end
   gets stuck. *)
FieldsTransferred == Transfer!Spec
=============================================================================
