------------------------------ MODULE CellOrder ------------------------------
(***************************************************************************)
(* The order in which the encoder writes the cells of a block:             *)
(* initial_cell_order and apply_order of serializator.hpp.                 *)
(*                                                                         *)
(* initial_cell_order peels the reference graph from its sinks: a          *)
(* std::set keyed by (out degree, number of referrers, id) yields the      *)
(* least cell, the cell is appended to the order, and the out degree of    *)
(* every cell that refers to it drops by one per reference.  apply_order   *)
(* then renumbers the references and moves the cells.                      *)
(*                                                                         *)
(* A failed CHECK stops the program, so the asserted condition is a guard  *)
(* of the action; the invariant ChecksHold says that it never fails.       *)
(***************************************************************************)
EXTENDS CellGraph

CONSTANT Graphs    \* the reference graphs my_cells can hold: id -> <<ids>>

ASSUME GraphsAssumption == \A g \in Graphs : IsCellGraph(g)

VARIABLES
    input,      \* the graph handed to serialize()
    myCells,    \* my_cells: position -> the cell (by its first id) and its refs
    outDegree,  \* out_degree
    cells,      \* the std::set: <<id, the degree it was inserted under>>
    order,      \* order
    todo,       \* the slots of who_refers[i] the inner loop has still to visit
    pc

vars == <<input, myCells, outDegree, cells, order, todo, pc>>

Cells == DOMAIN input

(* Mutants: a cell listed once however often it refers; all slots of a referring cell. *)
WhoRefersOnce(i) ==
    {s \in Slots(input) : Target(input, s) = i
        /\ \A t \in Slots(input) : t[1] = s[1] /\ Target(input, t) = i => s[2] <= t[2]}
WhoRefersAllSlots(i) ==
    {s \in Slots(input) : \E t \in Slots(input) : t[1] = s[1] /\ Target(input, t) = i}

(* who_refers[i], with the slot each entry was pushed for. *)
WhoRefers(i) == {s \in Slots(input) : Target(input, s) = i}

(* Mutant: the comparator forgets the out degree. *)
LessByReferrers(x, y) ==
    LET moreReferrers == Cardinality(WhoRefers(x[1])) - Cardinality(WhoRefers(y[1]))
    IN  moreReferrers > 0 \/ (moreReferrers = 0 /\ x[1] < y[1])

(* The comparator of the std::set on two of its entries. *)
Less(x, y) ==
    LET moreReferrers == Cardinality(WhoRefers(x[1])) - Cardinality(WhoRefers(y[1]))
    IN  \/ x[2] < y[2]
        \/ x[2] = y[2] /\ moreReferrers > 0
        \/ x[2] = y[2] /\ moreReferrers = 0 /\ x[1] < y[1]

(* *cells.begin() *)
IsFirst(x) == x \in cells /\ \A y \in cells : y = x \/ Less(x, y)

(* cells.erase(i): the entry is looked up under the degree i has now. *)
Erase(i) == cells \ {<<i, outDegree[i]>>}

(* who_refers is filled by ascending cell and slot. *)
SlotBefore(s, t) == s[1] < t[1] \/ (s[1] = t[1] /\ s[2] <= t[2])

(* Mutant: the degree counts the cells that refer to i. *)
InitInDegree ==
    /\ input \in Graphs
    /\ myCells = [i \in Cells |-> [cell |-> i, refs |-> input[i]]]
    /\ outDegree = [i \in Cells |-> Cardinality(WhoRefers(i))]
    /\ cells = {<<i, Cardinality(WhoRefers(i))>> : i \in Cells}
    /\ order = << >>
    /\ todo = {}
    /\ pc = "pop"

(* initial_cell_order(my_cells) is called: the degrees, and all cells in the set. *)
Called ==
    /\ myCells = [i \in Cells |-> [cell |-> i, refs |-> input[i]]]
    /\ outDegree = [i \in Cells |-> Len(input[i])]
    /\ cells = {<<i, Len(input[i])>> : i \in Cells}
    /\ order = << >>
    /\ todo = {}
    /\ pc = "pop"

Init == input \in Graphs /\ Called

(* The outer loop: take the first cell, CHECK(out_degree[i] == 0), push it. *)
Pop ==
    /\ pc = "pop"
    /\ \E x \in cells :
        /\ IsFirst(x)
        /\ outDegree[x[1]] = 0
        /\ cells' = cells \ {x}
        /\ order' = Append(order, x[1])
        /\ todo' = WhoRefers(x[1])
    /\ pc' = "relax"
    /\ UNCHANGED <<input, myCells, outDegree>>

(* Mutant: the degree drops before the entry is looked up and erased. *)
RelaxDecrementFirst ==
    /\ pc = "relax"
    /\ \E s \in todo :
        /\ \A t \in todo : SlotBefore(s, t)
        /\ outDegree[s[1]] > 0
        /\ outDegree' = [outDegree EXCEPT ![s[1]] = @ - 1]
        /\ cells' = (cells \ {<<s[1], outDegree[s[1]] - 1>>})
                       \cup {<<s[1], outDegree[s[1]] - 1>>}
        /\ todo' = todo \ {s}
    /\ UNCHANGED <<input, myCells, order, pc>>

(* One turn of the inner loop: erase, CHECK(out_degree[from] > 0), decrement
   and insert again under the new degree. *)
Relax ==
    /\ pc = "relax"
    /\ \E s \in todo :
        /\ \A t \in todo : SlotBefore(s, t)
        /\ outDegree[s[1]] > 0
        /\ outDegree' = [outDegree EXCEPT ![s[1]] = @ - 1]
        /\ cells' = Erase(s[1]) \cup {<<s[1], outDegree[s[1]] - 1>>}
        /\ todo' = todo \ {s}
    /\ UNCHANGED <<input, myCells, order, pc>>

(* Mutants: the outer loop stops at the last cell; it has no end test. *)
EndRelaxEarly ==
    /\ pc = "relax" /\ todo = {}
    /\ pc' = IF Cardinality(cells) <= 1 THEN "apply" ELSE "pop"
    /\ UNCHANGED <<input, myCells, outDegree, cells, order, todo>>
EndRelaxNever ==
    /\ pc = "relax" /\ todo = {}
    /\ pc' = "pop"
    /\ UNCHANGED <<input, myCells, outDegree, cells, order, todo>>

(* The inner loop ends; the outer one goes on while the set is not empty. *)
EndRelax ==
    /\ pc = "relax"
    /\ todo = {}
    /\ pc' = IF cells = {} THEN "apply" ELSE "pop"
    /\ UNCHANGED <<input, myCells, outDegree, cells, order, todo>>

(* pos[i]: the 0-based place of i in the order. *)
Pos(ord, i) == CHOOSE k \in 0..Len(ord) - 1 : ord[k + 1] = i

(* Mutant: references go through order instead of its inverse. *)
RenumberByOrder(ord, refs) == [j \in 1..Len(refs) |-> ord[refs[j] + 1]]

(* apply_order: references renumbered, new_my_cells[pos[i]] = my_cells[i]. *)
Renumber(ord, refs) == [j \in 1..Len(refs) |-> Pos(ord, refs[j])]

(* Mutant: new_my_cells[i] = my_cells[pos[i]]. *)
ReorderedInverse(ord, from) ==
    [k \in 0..Len(ord) - 1 |->
        [cell |-> from[Pos(ord, k)].cell,
         refs |-> Renumber(ord, from[Pos(ord, k)].refs)]]

Reordered(ord, from) ==
    [k \in 0..Len(ord) - 1 |->
        [cell |-> from[ord[k + 1]].cell,
         refs |-> Renumber(ord, from[ord[k + 1]].refs)]]

ApplyOrder ==
    /\ pc = "apply"
    /\ Len(order) = Cardinality(Cells)
    /\ myCells' = Reordered(order, myCells)
    /\ pc' = "done"
    /\ UNCHANGED <<input, outDegree, cells, order, todo>>

Done == pc = "done" /\ UNCHANGED vars

Next == Pop \/ Relax \/ EndRelax \/ ApplyOrder \/ Done

(* serialize() is sequential code: it goes on until it returns. *)
Spec == Init /\ [][Next]_vars /\ WF_vars(Next)
-----------------------------------------------------------------------------
Ordered == {order[k] : k \in 1..Len(order)}

(* References whose target has not been taken off the out degree yet. *)
Pending == {s \in Slots(input) : Target(input, s) \notin Ordered} \cup todo

PendingFrom(i) == {s \in Pending : s[1] = i}

(* Every variable holds a value of the kind the code's declaration gives it. *)
TypeOK ==
    /\ IsCellGraph(input)
    /\ outDegree \in [Cells -> 0..MaxRefs]
    /\ cells \subseteq Cells \X (0..MaxRefs)
    /\ order \in Seq(Cells)
    /\ todo \subseteq Slots(input)
    /\ pc \in {"pop", "relax", "apply", "done"}

(* The set never holds a stale key: it has one entry for each cell that is not
   ordered yet, under the out degree the comparator reads now, although the
   degree changes while the cell is in the set. *)
SetKeysFresh ==
    cells = {<<i, outDegree[i]>> : i \in Cells \ Ordered}

(* out_degree counts, with multiplicity, the references to cells that are not
   ordered yet, also when a cell refers to another twice. *)
DegreeCountsPending ==
    \A i \in Cells : outDegree[i] = Cardinality(PendingFrom(i))

(* Neither CHECK of initial_cell_order, nor the one apply_order starts with,
   can fail: the first cell of the set has no pending reference, a referrer
   has one, and the order is complete. *)
ChecksHold ==
    /\ pc = "pop" => \E x \in cells : IsFirst(x) /\ outDegree[x[1]] = 0
    /\ pc = "relax" => \A s \in todo : outDegree[s[1]] > 0
    /\ pc = "apply" => Len(order) = Cardinality(Cells)

(* The order is topological from the start: a cell is ordered once, and only
   after everything it refers to. *)
TopologicalOrder ==
    \A k \in 1..Len(order) :
        /\ \A l \in 1..k - 1 : order[l] # order[k]
        /\ \A s \in Slots(input) :
             s[1] = order[k] => \E l \in 1..k - 1 : order[l] = Target(input, s)

(* The decoder returns the last cell of its own depth-first order as the root;
   the order that is applied ends in the root and nothing else does. *)
RootLast ==
    pc \in {"apply", "done"} => Len(order) > 0 /\ order[Len(order)] = 0

(* apply_order gives the same graph under new numbers: the j-th reference of a
   cell leads to the cell it led to before. *)
SameGraph ==
    pc = "done" =>
        /\ DOMAIN myCells = 0..Cardinality(Cells) - 1
        /\ {myCells[k].cell : k \in DOMAIN myCells} = Cells
        /\ \A k \in DOMAIN myCells :
            /\ Len(myCells[k].refs) = Len(input[myCells[k].cell])
            /\ \A j \in 1..Len(myCells[k].refs) :
                 myCells[myCells[k].refs[j]].cell = input[myCells[k].cell][j]

(* After apply_order a cell refers to smaller numbers only, so the reference
   code (n + i - ref) % n is never 0 and never wraps. *)
RefsGoBack ==
    pc = "done" =>
        \A k \in DOMAIN myCells : \A j \in 1..Len(myCells[k].refs) :
            myCells[k].refs[j] \in 0..k - 1

(* Ordering ends: the peeling loop runs out of cells for every block. *)
Terminates == <>(pc = "done")
=============================================================================
