---------------------------- MODULE MCBlockCells ----------------------------
(***************************************************************************)
(* Instances of BlockCells: every graph on four cells with up to two       *)
(* references each and no cycle, with shared cells and cells that the root *)
(* does not lead to.                                                       *)
(***************************************************************************)
EXTENDS BlockCells, SequencesExt

CONSTANTS c1, c2, c3, c4

FourCells == {c1, c2, c3, c4}

(* The root is not referred to: a cell hash covers the references. *)
SmallDags ==
    {g \in {(c1 :> p) @@ (c2 :> q) @@ (c3 :> r) @@ (c4 :> s) :
                p \in BoundedSeq({c2, c3, c4}, 2), q \in BoundedSeq({c3, c4}, 2),
                r \in BoundedSeq({c2, c4}, 2), s \in BoundedSeq({c2, c3}, 2)} :
        Acyclic(g)}
=============================================================================
