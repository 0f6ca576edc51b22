------------------------------ MODULE CellGraph ------------------------------
(***************************************************************************)
(* Reference graphs of numbered cells: what convert_to_my_cells hands to   *)
(* initial_cell_order, and what my_cells_to_vm_root starts from.           *)
(***************************************************************************)
EXTENDS Integers, Sequences, FiniteSets

MaxRefs == 4

(* The reference slots of a graph: <<i, j>> is my_cells[i]->refs[j]. *)
Slots(g) == {s \in (DOMAIN g) \X (1..MaxRefs) : s[2] <= Len(g[s[1]])}

Target(g, s) == g[s[1]][s[2]]

(* Every non-empty set of cells has one that refers to none of the set. *)
Acyclic(g) ==
    \A S \in SUBSET DOMAIN g :
        S # {} => \E c \in S : \A s \in Slots(g) : s[1] = c => Target(g, s) \notin S

(* Every cell but r is referred to: in an acyclic graph, r leads to all. *)
RootedAt(g, r) == \A c \in DOMAIN g \ {r} : \E s \in Slots(g) : Target(g, s) = c
Rooted(g) == RootedAt(g, 0)

(* Cells with references to each other, without a cycle. *)
IsDag(g) ==
    /\ IsFiniteSet(DOMAIN g)
    /\ \A c \in DOMAIN g : g[c] \in Seq(DOMAIN g) /\ Len(g[c]) <= MaxRefs
    /\ Acyclic(g)

(* A block's cells, numbered with the root as 0. *)
IsCellGraph(g) ==
    /\ IsDag(g)
    /\ DOMAIN g \subseteq Nat /\ 0 \in DOMAIN g
    /\ Rooted(g)

(* A block's cells as the decoder reads them, the root at any number. *)
IsRooted(g) ==
    /\ IsDag(g)
    /\ DOMAIN g = 0..Cardinality(DOMAIN g) - 1
    /\ \E r \in DOMAIN g : RootedAt(g, r)
=============================================================================
