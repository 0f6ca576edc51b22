----------------------------- MODULE MCCellOrder -----------------------------
(***************************************************************************)
(* Instances of CellOrder: every rooted acyclic reference graph on a few   *)
(* cells, with repeated references and every numbering that has the root   *)
(* at 0.                                                                   *)
(***************************************************************************)
EXTENDS CellOrder, SequencesExt

(* The functions from 0 whose values are those of a sequence. *)
FromZero(seqs) == {[i \in 0..Len(t) - 1 |-> t[i + 1]] : t \in seqs}

CellGraphs(seqs) == {g \in FromZero(seqs) : Rooted(g) /\ Acyclic(g)}

FourCells ==
    {<<a, b, c, d>> : a \in BoundedSeq({1, 2, 3}, 2), b \in BoundedSeq({2, 3}, 2),
                      c \in BoundedSeq({1, 3}, 2), d \in BoundedSeq({1, 2}, 2)}

ThreeCells ==
    {<<a, b, c>> : a \in BoundedSeq({1, 2}, 4), b \in BoundedSeq({2}, 4),
                   c \in BoundedSeq({1}, 4)}

TwoCells == {<<a, << >>>> : a \in BoundedSeq({1}, 4)}

(* Four cells with up to two references each, and up to three cells with up to
   the four references a cell can have. *)
SmallGraphs ==
    CellGraphs(FourCells) \cup CellGraphs(ThreeCells) \cup CellGraphs(TwoCells)
        \cup {[i \in {0} |-> << >>]}
=============================================================================
