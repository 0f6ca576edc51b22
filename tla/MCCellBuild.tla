----------------------------- MODULE MCCellBuild -----------------------------
(***************************************************************************)
(* Instances of CellBuild: every acyclic graph on up to four cells with up *)
(* to two references each that has a root, at any number.                  *)
(***************************************************************************)
EXTENDS CellBuild, SequencesExt

FromZero(seqs) == {[i \in 0..Len(t) - 1 |-> t[i + 1]] : t \in seqs}

RootedGraphs(seqs) ==
    {g \in FromZero(seqs) : (\E r \in DOMAIN g : RootedAt(g, r)) /\ Acyclic(g)}

SmallGraphs ==
    RootedGraphs({<<p, q, r, s>> : p \in BoundedSeq({1, 2, 3}, 2), q \in BoundedSeq({0, 2, 3}, 2),
                                   r \in BoundedSeq({0, 1, 3}, 2), s \in BoundedSeq({0, 1, 2}, 2)})
    \cup RootedGraphs({<<p, q>> : p \in BoundedSeq({1}, 4), q \in BoundedSeq({0}, 4)})
    \cup RootedGraphs({<< << >> >>})
=============================================================================
