----------------------------- MODULE SpecialCell -----------------------------
(***************************************************************************)
(* The contents of one cell: how the MyCell constructor takes the bits of  *)
(* a vm::Cell and how my_cells_to_vm_root gives them back.  The type byte  *)
(* of a special cell shrinks to two bits.  Of a Merkle cell nothing else   *)
(* is kept: it holds the hashes and depths of the cells it refers to, so   *)
(* they are written again from the rebuilt references.                     *)
(*                                                                         *)
(* What lies between, the flag and the data bits on their way through the  *)
(* codec, is Codec's matter: they arrive as they are.                      *)
(*                                                                         *)
(* A failed CHECK or move_as_ok() stops the program: a guard here.         *)
(***************************************************************************)
EXTENDS Bits, SequencesExt

CONSTANTS
    Cases,       \* a cell and the number of cells of its block
    HashBits,    \* 256
    RangeChunk   \* push_bit_range moves up to 64 bits at a time

(* CellTraits::SpecialType *)
Ordinary == 0
PrunedBranch == 1
Library == 2
MerkleProof == 3
MerkleUpdate == 4

Merkle == {MerkleProof, MerkleUpdate}

(* TON stores a depth in two bytes. *)
DepthBits == 16
MaxDepth == 1024

(* The digests of the references as a Merkle cell stores them. *)
Hashes(below) == FlattenSeq([j \in 1..Len(below) |-> below[j].hash])
Depths(below) == FlattenSeq([j \in 1..Len(below) |-> UintBits(below[j].depth, DepthBits)])

MerkleBits(type, below) == UintBits(type, 8) \o Hashes(below) \o Depths(below)

(* A cell: its type, its bits, and hash and depth of what it refers to. *)
IsCell(c) ==
    /\ c.type \in Ordinary..MerkleUpdate
    /\ c.bits \in Seq(Bit) /\ Len(c.bits) <= 1023
    /\ c.type # Ordinary => Len(c.bits) >= 8 /\ SubSeq(c.bits, 1, 8) = UintBits(c.type, 8)
    /\ c.type = MerkleProof => Len(c.below) = 1
    /\ c.type = MerkleUpdate => Len(c.below) = 2
    /\ c.below \in Seq([hash : [1..HashBits -> Bit], depth : 0..MaxDepth])
    /\ c.type \in Merkle => c.bits = MerkleBits(c.type, c.below)

ASSUME SpecialCellAssumption ==
    /\ \A x \in Cases : IsCell(x.cell) /\ x.nCells \in 1..Pow2[20] - 1    \* 20 bits of the header
    /\ HashBits \in Nat \ {0} /\ RangeChunk \in Nat \ {0}

VARIABLES
    dataCell,   \* the cell that the block holds
    nCells,     \* n_cells
    special,    \* MyCell::is_special
    cntBits,    \* MyCell::cnt_bits, then cnt_bits of my_cells_to_vm_root
    data,       \* MyCell::data up to the last bit written
    bitsLeft,   \* bits_left of the constructor's loop
    newData,    \* new_data, then data of my_cells_to_vm_root
    ref,        \* j of the loops over the references
    cellPc      \* "fetch", "cut", "type", "range", "merkle", "hash", "depth",
                \* "finalise", "done"

cellVars == <<dataCell, nCells, special, cntBits, data, bitsLeft, newData, ref, cellPc>>

Smaller(m, n) == IF m <= n THEN m ELSE n

CellInit ==
    /\ \E x \in Cases : dataCell = x.cell /\ nCells = x.nCells
    /\ special = (dataCell.type # Ordinary)
    /\ cntBits = Len(dataCell.bits)
    /\ bitsLeft = Len(dataCell.bits)
    /\ data = << >> /\ newData = << >> /\ ref = 1
    /\ cellPc = "fetch"
-----------------------------------------------------------------------------
(* The constructor *)

CurBits == Smaller(bitsLeft, 8)
Fetched == SubSeq(dataCell.bits, Len(dataCell.bits) - bitsLeft + 1, Len(dataCell.bits) - bitsLeft + CurBits)

(* The first byte of a special cell is its type, kept less 1 in two bits. *)
FetchType ==
    /\ cellPc = "fetch" /\ bitsLeft > 0
    /\ special /\ data = << >>
    /\ CurBits >= 8 /\ UintOf(Fetched) # 0 /\ UintOf(Fetched) - 1 < 4
    /\ data' = UintBits(UintOf(Fetched) - 1, 2)
    /\ cntBits' = cntBits - 6
    /\ bitsLeft' = bitsLeft - CurBits
    /\ UNCHANGED <<dataCell, nCells, special, newData, ref, cellPc>>

Fetch ==
    /\ cellPc = "fetch" /\ bitsLeft > 0
    /\ ~ (special /\ data = << >>)
    /\ data' = data \o Fetched
    /\ bitsLeft' = bitsLeft - CurBits
    /\ UNCHANGED <<dataCell, nCells, special, cntBits, newData, ref, cellPc>>

(* Of a Merkle cell only the type stays. *)
EndFetch ==
    /\ cellPc = "fetch" /\ bitsLeft = 0
    /\ IF dataCell.type \in Merkle
       THEN data' = SubSeq(data, 1, 2) /\ cntBits' = 2
       ELSE UNCHANGED <<data, cntBits>>
    /\ cellPc' = "type"
    /\ UNCHANGED <<dataCell, nCells, special, bitsLeft, newData, ref>>
-----------------------------------------------------------------------------
(* my_cells_to_vm_root *)

(* MyCell::get_type *)
TypeOf == IF special THEN UintOf(SubSeq(data, 1, 2)) + 1 ELSE Ordinary

(* Mutant: the two bits are taken for the type. *)
RestoreTypeAsStored ==
    /\ cellPc = "type" /\ special
    /\ TypeOf # Ordinary
    /\ cntBits' = cntBits + 6
    /\ newData' = UintBits(TypeOf - 1, 8)
    /\ cellPc' = "range"
    /\ UNCHANGED <<dataCell, nCells, special, data, bitsLeft, ref>>

(* The type byte of a special cell. *)
RestoreType ==
    /\ cellPc = "type" /\ special
    /\ TypeOf # Ordinary
    /\ cntBits' = cntBits + 6
    /\ newData' = UintBits(TypeOf, 8)
    /\ cellPc' = "range"
    /\ UNCHANGED <<dataCell, nCells, special, data, bitsLeft, ref>>

KeepOrdinary ==
    /\ cellPc = "type" /\ ~ special
    /\ newData' = data
    /\ cellPc' = "finalise"
    /\ UNCHANGED <<dataCell, nCells, special, cntBits, data, bitsLeft, ref>>

(* Mutant: the range is read from the front of the data. *)
PushRangeFromFront ==
    /\ cellPc = "range" /\ Len(newData) < cntBits
    /\ LET from == Len(newData) - 8
           cur  == Smaller(cntBits - Len(newData), RangeChunk)
       IN  newData' = newData \o SubSeq(data, from + 1, from + cur)
    /\ UNCHANGED <<dataCell, nCells, special, cntBits, data, bitsLeft, ref, cellPc>>

(* push_bit_range: the data behind the two type bits. *)
PushRange ==
    /\ cellPc = "range" /\ Len(newData) < cntBits
    /\ LET from == 2 + (Len(newData) - 8)
           cur  == Smaller(cntBits - Len(newData), RangeChunk)
       IN  newData' = newData \o SubSeq(data, from + 1, from + cur)
    /\ UNCHANGED <<dataCell, nCells, special, cntBits, data, bitsLeft, ref, cellPc>>

EndRange ==
    /\ cellPc = "range" /\ Len(newData) >= cntBits
    /\ Len(newData) = cntBits
    /\ cellPc' = IF TypeOf \in Merkle THEN "merkle" ELSE "finalise"
    /\ UNCHANGED <<dataCell, nCells, special, cntBits, data, bitsLeft, newData, ref>>

(* The CHECKs on a Merkle cell. *)
StartMerkle ==
    /\ cellPc = "merkle"
    /\ Len(dataCell.below) <= 2
    /\ cntBits = 8
    /\ cellPc' = "hash" /\ ref' = 1
    /\ UNCHANGED <<dataCell, nCells, special, cntBits, data, bitsLeft, newData>>

(* Mutant: one loop for hash and depth. *)
AddHashAndDepth ==
    /\ cellPc = "hash" /\ ref <= Len(dataCell.below)
    /\ newData' = newData \o dataCell.below[ref].hash \o UintBits(dataCell.below[ref].depth, DepthBits)
    /\ ref' = ref + 1
    /\ cellPc' = IF ref = Len(dataCell.below) THEN "finalise" ELSE cellPc
    /\ UNCHANGED <<dataCell, nCells, special, cntBits, data, bitsLeft>>

(* Turns of the loops over refs: get_hash(0) and get_depth(0). *)
AddHash ==
    /\ cellPc = "hash" /\ ref <= Len(dataCell.below)
    /\ newData' = newData \o dataCell.below[ref].hash
    /\ ref' = ref + 1
    /\ UNCHANGED <<dataCell, nCells, special, cntBits, data, bitsLeft, cellPc>>

EndHashes ==
    /\ cellPc = "hash" /\ ref > Len(dataCell.below)
    /\ cellPc' = "depth" /\ ref' = 1
    /\ UNCHANGED <<dataCell, nCells, special, cntBits, data, bitsLeft, newData>>

(* len_in_bytes *)
LenInBytes(num) == (LenInBits(num) + 7) \div 8

(* bytes_for_index_max, used as the width of a depth. *)
DepthWidth == 8 * LenInBytes(nCells)

AddDepth ==
    /\ cellPc = "depth" /\ ref <= Len(dataCell.below)
    /\ newData' = newData \o UintBits(dataCell.below[ref].depth, DepthWidth)
    /\ ref' = ref + 1
    /\ UNCHANGED <<dataCell, nCells, special, cntBits, data, bitsLeft, cellPc>>

EndDepths ==
    /\ cellPc = "depth" /\ ref > Len(dataCell.below)
    /\ cntBits' = Len(newData)
    /\ cellPc' = "finalise"
    /\ UNCHANGED <<dataCell, nCells, special, data, bitsLeft, newData, ref>>

(* CellBuilder::finalize_novm_nothrow: a special cell is what its type says, a
   Merkle cell holds the digests of its references. *)
Accepted ==
    special =>
        /\ UintOf(SubSeq(newData, 1, 8)) \in PrunedBranch..MerkleUpdate
        /\ UintOf(SubSeq(newData, 1, 8)) \in Merkle =>
             newData = MerkleBits(UintOf(SubSeq(newData, 1, 8)), dataCell.below)

Finalise ==
    /\ cellPc = "finalise"
    /\ Accepted
    /\ cellPc' = "done"
    /\ UNCHANGED <<dataCell, nCells, special, cntBits, data, bitsLeft, newData, ref>>

CellDone == cellPc = "done" /\ UNCHANGED cellVars

CellNext ==
    \/ FetchType \/ Fetch \/ EndFetch
    \/ RestoreType \/ KeepOrdinary \/ PushRange \/ EndRange
    \/ StartMerkle \/ AddHash \/ EndHashes \/ AddDepth \/ EndDepths
    \/ Finalise \/ CellDone

CellSpec == CellInit /\ [][CellNext]_cellVars
-----------------------------------------------------------------------------
(* The two type bits and what follows them give back the cell, bit by bit: its
   type, its own data, and for a Merkle cell the digests below it.  run_tests.py
   compares the whole block with the original. *)
CellComesBack ==
    cellPc \in {"finalise", "done"} =>
        /\ special = (dataCell.type # Ordinary) /\ TypeOf = dataCell.type
        /\ newData = dataCell.bits /\ cntBits = Len(dataCell.bits)

(* No CHECK fails, and the cell that has been put together is accepted. *)
ChecksHold ==
    /\ cellPc = "fetch" /\ special /\ data = << >> =>
         CurBits >= 8 /\ UintOf(Fetched) \in 1..4
    /\ cellPc = "type" /\ special => TypeOf # Ordinary
    /\ cellPc = "range" /\ Len(newData) >= cntBits => Len(newData) = cntBits
    /\ cellPc = "merkle" => Len(dataCell.below) <= 2 /\ cntBits = 8
    /\ cellPc = "finalise" => Accepted
=============================================================================
