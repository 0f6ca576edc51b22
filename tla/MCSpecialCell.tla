---------------------------- MODULE MCSpecialCell ----------------------------
(***************************************************************************)
(* Instances of SpecialCell: cells of every type, with data lengths around *)
(* whole bytes and around the chunk of push_bit_range, in blocks of sizes  *)
(* at the edges of len_in_bytes.                                           *)
(***************************************************************************)
EXTENDS SpecialCell

(* Data that differ in every place from their shift by one. *)
Alternating(n, b) == [k \in 1..n |-> (k + b) % 2]
Patterns(lengths) == {Alternating(n, b) : n \in lengths, b \in Bit} \cup {[k \in 1..n |-> 1] : n \in lengths}

Plain ==
    {[type |-> Ordinary, bits |-> p, below |-> << >>] : p \in Patterns(0..18)}
    \cup {[type |-> t, bits |-> UintBits(t, 8) \o p, below |-> << >>] :
            t \in {PrunedBranch, Library}, p \in Patterns(0..18)}

Below == [hash : {<<0, 1, 1>>, <<1, 0, 0>>}, depth : {0, 3, 254, 1000}]

MerkleCell(t, below) == [type |-> t, bits |-> MerkleBits(t, below), below |-> below]
MerkleCells ==
    {MerkleCell(MerkleProof, <<b>>) : b \in Below}
    \cup {MerkleCell(MerkleUpdate, <<b, c>>) : b \in Below, c \in Below}

Case(cells, sizes) == [cell : cells, nCells : sizes]

(* Merkle cells in blocks whose number of cells takes two bytes. *)
UsualCases == Case(Plain, {1, 70000}) \cup Case(MerkleCells, {256, 65535})

(* And in smaller and larger ones. *)
AnyCases == UsualCases \cup Case(MerkleCells, {3, 255, 65536})
=============================================================================
