------------------------------ MODULE MCHuffman ------------------------------
(***************************************************************************)
(* Instances of Huffman: all tables of two to four small frequencies, and  *)
(* some of five, zeros and equal ones included.                            *)
(***************************************************************************)
EXTENDS Huffman

SmallTables ==
    [0..1 -> 0..2] \cup [0..2 -> 0..3] \cup [0..3 -> {0, 1, 2, 3, 5}]
        \cup {t \in [0..4 -> {0, 1, 2, 3}] : t[0] = 1 /\ t[4] = 2}
=============================================================================
