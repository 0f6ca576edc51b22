------------------------------ MODULE CellBuild ------------------------------
(***************************************************************************)
(* my_cells_to_vm_root of serializator.hpp: the decoded cells are sorted   *)
(* so that a cell comes after all it refers to, built in that order, each  *)
(* from cells built before, and the last of the order is the root.  The    *)
(* sort is there "just in case": it makes no use of the encoder's order.   *)
(* What is put into a cell besides its references is left out here.        *)
(***************************************************************************)
EXTENDS CellGraph

CONSTANT Graphs     \* refs of the decoded cells, the root at any number

ASSUME GraphsAssumption == \A g \in Graphs : IsRooted(g)

VARIABLES
    graph,      \* my_cells[i]->refs
    was,        \* the cells dfs was called for
    stack,      \* the running calls of dfs: [v, next reference]
    v,          \* the loop that starts dfs
    order,      \* order
    cells,      \* cells: a built cell holds the cells it refers to
    ready,      \* ready
    built,      \* how far the build loop is in the order
    result,
    pc          \* "sort", "build", "done"

vars == <<graph, was, stack, v, order, cells, ready, built, result, pc>>

Ids == DOMAIN graph
Null == [id |-> -1, refs |-> << >>]

(* my_cells_to_vm_root(my_cells) is called. *)
Called ==
    /\ was = [c \in Ids |-> FALSE]
    /\ stack = << >>
    /\ v = 0
    /\ order = << >>
    /\ cells = [c \in Ids |-> Null]
    /\ ready = [c \in Ids |-> FALSE]
    /\ built = 0
    /\ result = Null
    /\ pc = "sort"

Init == graph \in Graphs /\ Called

(* dfs(c), with CHECK(!was[c]). *)
Call(c, frames) ==
    /\ ~ was[c]
    /\ was' = [was EXCEPT ![c] = TRUE]
    /\ stack' = Append(frames, [v |-> c, next |-> 1])

sortVars == <<was, stack, v, order>>
buildVars == <<cells, ready, built, result>>

StartDfs ==
    /\ pc = "sort" /\ stack = << >> /\ v \in Ids
    /\ ~ was[v]
    /\ Call(v, stack)
    /\ v' = v + 1
    /\ UNCHANGED <<graph, order, buildVars, pc>>

SkipVisited ==
    /\ pc = "sort" /\ stack = << >> /\ v \in Ids
    /\ was[v]
    /\ v' = v + 1
    /\ UNCHANGED <<graph, was, stack, order, buildVars, pc>>

Frame == stack[Len(stack)]
HasRef == stack # << >> /\ Frame.next <= Len(graph[Frame.v])
To == graph[Frame.v][Frame.next]
Advanced == [stack EXCEPT ![Len(stack)].next = @ + 1]

(* Mutants: the order is written on the way down; a visited cell ends the
   loop. *)
VisitRefPreorder ==
    /\ pc = "sort" /\ HasRef
    /\ IF was[To] THEN stack' = Advanced /\ UNCHANGED <<was, order>>
       ELSE Call(To, Advanced) /\ order' = Append(order, To)
    /\ UNCHANGED <<graph, v, buildVars, pc>>
VisitRefBreak ==
    /\ pc = "sort" /\ HasRef
    /\ IF was[To]
       THEN /\ stack' = [stack EXCEPT ![Len(stack)].next = Len(graph[Frame.v]) + 1]
            /\ UNCHANGED was
       ELSE Call(To, Advanced)
    /\ UNCHANGED <<graph, v, order, buildVars, pc>>

VisitRef ==
    /\ pc = "sort" /\ HasRef
    /\ IF was[To] THEN stack' = Advanced /\ UNCHANGED was
       ELSE Call(To, Advanced)
    /\ UNCHANGED <<graph, v, order, buildVars, pc>>

(* The call returns: order.push_back(v). *)
Return ==
    /\ pc = "sort" /\ stack # << >> /\ ~ HasRef
    /\ order' = Append(order, Frame.v)
    /\ stack' = SubSeq(stack, 1, Len(stack) - 1)
    /\ UNCHANGED <<graph, was, v, buildVars, pc>>

(* CHECK(order.size() == n_cells) *)
StartBuild ==
    /\ pc = "sort" /\ stack = << >> /\ v \notin Ids
    /\ Len(order) = Cardinality(Ids)
    /\ pc' = "build"
    /\ UNCHANGED <<graph, sortVars, buildVars>>

(* Mutant: cells are built by number. *)
BuildByNumber ==
    /\ pc = "build" /\ built < Len(order)
    /\ LET c == built
       IN  /\ cells' = [cells EXCEPT ![c] =
                [id |-> c, refs |-> [j \in 1..Len(graph[c]) |-> cells[graph[c][j]]]]]
           /\ ready' = [ready EXCEPT ![c] = TRUE]
    /\ built' = built + 1
    /\ UNCHANGED <<graph, sortVars, result, pc>>

(* One cell, with CHECK(ready[ref_id]) for each reference. *)
Build ==
    /\ pc = "build" /\ built < Len(order)
    /\ LET c == order[built + 1]
       IN  /\ \A j \in 1..Len(graph[c]) : ready[graph[c][j]]
           /\ cells' = [cells EXCEPT ![c] =
                [id |-> c, refs |-> [j \in 1..Len(graph[c]) |-> cells[graph[c][j]]]]]
           /\ ready' = [ready EXCEPT ![c] = TRUE]
    /\ built' = built + 1
    /\ UNCHANGED <<graph, sortVars, result, pc>>

(* Mutants: the first of the order, or the last number, is taken for the root. *)
FinishFirst ==
    /\ pc = "build" /\ built = Len(order)
    /\ result' = cells[order[1]]
    /\ pc' = "done"
    /\ UNCHANGED <<graph, sortVars, cells, ready, built>>

FinishLastNumber ==
    /\ pc = "build" /\ built = Len(order)
    /\ result' = cells[Cardinality(Ids) - 1]
    /\ pc' = "done"
    /\ UNCHANGED <<graph, sortVars, cells, ready, built>>

(* return cells[order.back()] *)
Finish ==
    /\ pc = "build" /\ built = Len(order)
    /\ result' = cells[order[Len(order)]]
    /\ pc' = "done"
    /\ UNCHANGED <<graph, sortVars, cells, ready, built>>

Done == pc = "done" /\ UNCHANGED vars

Next ==
    \/ StartDfs \/ SkipVisited \/ VisitRef \/ Return
    \/ StartBuild \/ Build \/ Finish
    \/ Done

(* Sequential code, which runs on until it returns. *)
Spec == Init /\ [][Next]_vars
-----------------------------------------------------------------------------
Sorted == {order[k] : k \in 1..Len(order)}
OnStack == {stack[d].v : d \in 1..Len(stack)}

(* The visited cells are those in the order and those of running calls, and no
   cell is both or twice in either: each is sorted exactly once. *)
VisitedOnce ==
    /\ {c \in Ids : was[c]} = Sorted \cup OnStack
    /\ Sorted \cap OnStack = {}
    /\ \A k, l \in 1..Len(order) : order[k] = order[l] => k = l
    /\ \A k, l \in 1..Len(stack) : stack[k].v = stack[l].v => k = l

(* A cell is sorted after all it refers to, already while the sort goes on. *)
SortedAfterRefs ==
    \A k \in 1..Len(order) : \A j \in 1..Len(graph[order[k]]) :
        \E l \in 1..k - 1 : order[l] = graph[order[k]][j]

(* No CHECK fails: the sort is complete, and a cell is built from cells that
   are ready. *)
ChecksHold ==
    /\ pc = "build" => Len(order) = Cardinality(Ids)
    /\ pc = "build" /\ built < Len(order) =>
         \A j \in 1..Len(graph[order[built + 1]]) : ready[graph[order[built + 1]][j]]

(* The block is there again: all cells are built and lead to the very cells
   their references number, and the result is the root, whatever its number. *)
BlockRebuilt ==
    pc = "done" =>
        /\ RootedAt(graph, result.id)
        /\ \A c \in Ids :
            /\ cells[c].id = c
            /\ Len(cells[c].refs) = Len(graph[c])
            /\ \A j \in 1..Len(graph[c]) : cells[c].refs[j] = cells[graph[c][j]]
=============================================================================
