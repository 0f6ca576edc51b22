-------------------------------- MODULE Bits ---------------------------------
(***************************************************************************)
(* Bit strings: fixed-width numbers as td::BitPtr stores them, the mark    *)
(* that ends a string of them, and the prefix codes of the Huffman coder.  *)
(***************************************************************************)
EXTENDS Integers, Sequences

Bit == {0, 1}

(* 1 << n, as a recursive function, of which the provers know more than of 2^n. *)
Pow2[n \in Nat] == IF n = 0 THEN 1 ELSE 2 * Pow2[n - 1]

(* len_in_bits(num) = max(1, 64 - clz(num)) *)
LenInBits(num) == CHOOSE w \in 1..64 : num < Pow2[w] /\ (w = 1 \/ Pow2[w - 1] <= num)

(* BitPtr::store_uint and get_uint: w bits, the highest first. *)
UintBits(v, w) == [k \in 1..w |-> (v \div Pow2[w - k]) % 2]
UintOf(s) == CHOOSE v \in 0..Pow2[Len(s)] - 1 : UintBits(v, Len(s)) = s

StartsWith(s, p) == Len(p) <= Len(s) /\ SubSeq(s, 1, Len(p)) = p

(* Bits are handed on in whole bytes, (offs + 7) / 8 of them: a 1 bit ends the
   string, and 0 bits fill its byte. *)
WholeBytes(n) == 8 * ((n + 8) \div 8)
Marked(s) ==
    [k \in 1..WholeBytes(Len(s)) |->
        IF k <= Len(s) THEN s[k] ELSE IF k = Len(s) + 1 THEN 1 ELSE 0]

(* The mark is the lowest 1 bit of the last byte, which may not be 0. *)
IsMark(s, k) == s[k] = 1 /\ \A l \in k + 1..Len(s) : s[l] = 0
HasMark(s) == \E k \in Len(s) - 7..Len(s) : IsMark(s, k)
MarkAt(s) == CHOOSE k \in Len(s) - 7..Len(s) : IsMark(s, k)
Unmarked(s) == SubSeq(s, 1, MarkAt(s) - 1)

(* A Huffman tree with two leaves or more: no code is empty or starts another. *)
IsPrefixCode(code) ==
    \A a \in DOMAIN code :
        /\ code[a] \in Seq(Bit) /\ code[a] # << >>
        /\ \A b \in DOMAIN code : a # b => ~ StartsWith(code[b], code[a])
=============================================================================
