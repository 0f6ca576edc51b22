------------------------------ MODULE ByteCoder ------------------------------
(***************************************************************************)
(* encode_8 and decode_8 of huffman.hpp: the bytes of run_lz's output are  *)
(* written as symbols of one Huffman code, in a buffer of twice their      *)
(* size, and read until the mark is reached.                               *)
(***************************************************************************)
EXTENDS Bits

CONSTANTS
    Code,       \* byte -> its code in the tree of bytes_freq
    Data        \* byte strings

(* The codes of bytes_freq have 6 to 9 bits. *)
ASSUME ByteCoderAssumption ==
    /\ IsPrefixCode(Code)
    /\ \A b \in DOMAIN Code : Len(Code[b]) < 16
    /\ \A d \in Data : d \in Seq(DOMAIN Code) /\ d # << >>

VARIABLES
    data,       \* the argument of encode_8
    at,         \* how many of its bytes are encoded
    byteBits,       \* what is written, result in the end
    cntBits,    \* cnt_bits
    byteOffs,       \* bits.offs of decode_8
    result,     \* result of decode_8
    bytePc          \* "encode", "end", "decode", "done"

byteVars == <<data, at, byteBits, cntBits, byteOffs, result, bytePc>>

ByteInit ==
    /\ data \in Data
    /\ at = 0 /\ byteBits = << >>
    /\ cntBits = 0 /\ byteOffs = 0 /\ result = << >>
    /\ bytePc = "encode"

EncodeByte ==
    /\ bytePc = "encode" /\ at < Len(data)
    /\ byteBits' = byteBits \o Code[data[at + 1]]
    /\ at' = at + 1
    /\ UNCHANGED <<data, cntBits, byteOffs, result, bytePc>>

(* Mutant: the mark only where a byte is begun. *)
EndEncodeMarkIfOpen ==
    /\ bytePc = "encode" /\ at = Len(data)
    /\ byteBits' = IF Len(byteBits) % 8 = 0 THEN byteBits ELSE Marked(byteBits)
    /\ bytePc' = "end"
    /\ UNCHANGED <<data, at, cntBits, byteOffs, result>>

(* CHECK(result.size() >= new_size) *)
EndEncode ==
    /\ bytePc = "encode" /\ at = Len(data)
    /\ 2 * Len(data) * 8 >= WholeBytes(Len(byteBits))
    /\ byteBits' = Marked(byteBits)
    /\ bytePc' = "end"
    /\ UNCHANGED <<data, at, cntBits, byteOffs, result>>

(* decode_8, with CHECK(data.back() != 0) *)
FindEnd ==
    /\ bytePc = "end"
    /\ HasMark(byteBits)
    /\ cntBits' = MarkAt(byteBits) - 1
    /\ bytePc' = "decode"
    /\ UNCHANGED <<data, at, byteBits, byteOffs, result>>

(* decode_symbol, which is given no limit. *)
DecodeByte ==
    /\ bytePc = "decode" /\ byteOffs < cntBits
    /\ \E b \in DOMAIN Code :
        /\ StartsWith(SubSeq(byteBits, byteOffs + 1, Len(byteBits)), Code[b])
        /\ result' = Append(result, b)
        /\ byteOffs' = byteOffs + Len(Code[b])
    /\ UNCHANGED <<data, at, byteBits, cntBits, bytePc>>

EndDecode ==
    /\ bytePc = "decode" /\ byteOffs >= cntBits
    /\ bytePc' = "done"
    /\ UNCHANGED <<data, at, byteBits, cntBits, byteOffs, result>>

ByteDone == bytePc = "done" /\ UNCHANGED byteVars

ByteNext == EncodeByte \/ EndEncode \/ FindEnd \/ DecodeByte \/ EndDecode \/ ByteDone

(* Sequential code, which runs on until it returns. *)
ByteSpec == ByteInit /\ [][ByteNext]_byteVars /\ WF_byteVars(ByteNext)
-----------------------------------------------------------------------------
Channel == INSTANCE TokenChannel WITH sent <- data, received <- result

(* decode_8 returns the bytes that encode_8 was given, no more and no fewer,
   although neither their number nor that of the bits is sent; and neither a CHECK
   nor the fill after the mark stops it. *)
BytesArrive == Channel!Spec
=============================================================================
