------------------------------- MODULE CellDfs -------------------------------
(***************************************************************************)
(* convert_to_my_cells of serializator.hpp: the cells that a root leads to *)
(* are numbered in the order a depth-first walk meets them, each once      *)
(* although many cells may refer to it, and their references, pointers so  *)
(* far, become numbers.  The recursion's frames are the stack.             *)
(***************************************************************************)
EXTENDS CellGraph

CONSTANTS
    Cell,       \* the cells, as pointers
    Root,       \* the root handed to serialize()
    Dags        \* cell -> the cells it refers to

ASSUME DagsAssumption ==
    /\ Root \in Cell
    /\ \A g \in Dags : DOMAIN g = Cell /\ IsDag(g)

VARIABLES
    dag,
    pos,        \* pos: the cells met so far, and their numbers
    myCells,    \* my_cells: the cells by number, 1-based
    stack,      \* the running calls of dfs: [cell, next reference]
    graph,      \* my_cells[i]->refs, once they are numbers
    pc          \* "call", "dfs", "number", "done"

vars == <<dag, pos, myCells, stack, graph, pc>>

Init ==
    /\ dag \in Dags
    /\ pos = << >>
    /\ myCells = << >>
    /\ stack = << >>
    /\ graph = << >>
    /\ pc = "call"

(* dfs(cell) for a cell that is not in pos: number it, start on its refs. *)
Meet(cell) ==
    /\ Len(dag[cell]) <= MaxRefs
    /\ pos' = [c \in DOMAIN pos \cup {cell} |-> IF c = cell THEN Len(myCells) ELSE pos[c]]
    /\ myCells' = Append(myCells, cell)

CallRoot ==
    /\ pc = "call"
    /\ Meet(Root)
    /\ stack' = <<[cell |-> Root, next |-> 1]>>
    /\ pc' = "dfs"
    /\ UNCHANGED <<dag, graph>>

Frame == stack[Len(stack)]
Child == dag[Frame.cell][Frame.next]
HasChild == Frame.next <= Len(dag[Frame.cell])
Advanced == [stack EXCEPT ![Len(stack)].next = @ + 1]

(* The loop over the references calls dfs, which returns at once for a cell it
   has met. *)
CallKnown ==
    /\ pc = "dfs" /\ stack # << >> /\ HasChild
    /\ Child \in DOMAIN pos
    /\ stack' = Advanced
    /\ UNCHANGED <<dag, pos, myCells, graph, pc>>

(* Mutant: the cell enters pos only when its call returns. *)
CallNewUnmarked ==
    /\ pc = "dfs" /\ stack # << >> /\ HasChild
    /\ Child \notin DOMAIN pos
    /\ myCells' = Append(myCells, Child)
    /\ pos' = IF dag[Child] = << >>
              THEN [c \in DOMAIN pos \cup {Child} |->
                        IF c = Child THEN Len(myCells) ELSE pos[c]]
              ELSE pos
    /\ stack' = Append(Advanced, [cell |-> Child, next |-> 1])
    /\ UNCHANGED <<dag, graph, pc>>

CallNew ==
    /\ pc = "dfs" /\ stack # << >> /\ HasChild
    /\ Child \notin DOMAIN pos
    /\ Meet(Child)
    /\ stack' = Append(Advanced, [cell |-> Child, next |-> 1])
    /\ UNCHANGED <<dag, graph, pc>>

(* Mutant: a call returns before its last reference. *)
ReturnEarly ==
    /\ pc = "dfs" /\ stack # << >>
    /\ Frame.next + 1 > Len(dag[Frame.cell])
    /\ stack' = SubSeq(stack, 1, Len(stack) - 1)
    /\ pc' = IF Len(stack) = 1 THEN "number" ELSE "dfs"
    /\ UNCHANGED <<dag, pos, myCells, graph>>

Return ==
    /\ pc = "dfs" /\ stack # << >> /\ ~ HasChild
    /\ stack' = SubSeq(stack, 1, Len(stack) - 1)
    /\ pc' = IF Len(stack) = 1 THEN "number" ELSE "dfs"
    /\ UNCHANGED <<dag, pos, myCells, graph>>

(* Mutant: only the first reference of a cell is turned into a number. *)
NumberFirstRef ==
    /\ pc = "number"
    /\ graph' = [i \in 0..Len(myCells) - 1 |->
                    [j \in 1..Len(dag[myCells[i + 1]]) |->
                        IF j = 1 THEN pos[dag[myCells[i + 1]][j]] ELSE 0]]
    /\ pc' = "done"
    /\ UNCHANGED <<dag, pos, myCells, stack>>

(* cell->refs[i] = pos.at(ref), for all cells; at() throws for a cell that was
   not met. *)
NumberRefs ==
    /\ pc = "number"
    /\ \A k \in 1..Len(myCells) : \A j \in 1..Len(dag[myCells[k]]) :
         dag[myCells[k]][j] \in DOMAIN pos
    /\ graph' = [i \in 0..Len(myCells) - 1 |->
                    [j \in 1..Len(dag[myCells[i + 1]]) |-> pos[dag[myCells[i + 1]][j]]]]
    /\ pc' = "done"
    /\ UNCHANGED <<dag, pos, myCells, stack>>

Done == pc = "done" /\ UNCHANGED vars

Next == CallRoot \/ CallKnown \/ CallNew \/ Return \/ NumberRefs \/ Done

Spec == Init /\ [][Next]_vars
-----------------------------------------------------------------------------
Met == {myCells[k] : k \in 1..Len(myCells)}
OnStack == {stack[d].cell : d \in 1..Len(stack)}

(* A cell gets one number, its place in my_cells, however many lead to it. *)
EachCellOnce ==
    /\ DOMAIN pos = Met
    /\ \A k \in 1..Len(myCells) : pos[myCells[k]] = k - 1

(* A cell whose call has returned refers to met cells only, and a running call
   has met what its loop has passed: pos.at() finds every reference. *)
ReturnedCellsClosed ==
    \A c \in Met : \A j \in 1..Len(dag[c]) :
        (c \notin OnStack \/ \E d \in 1..Len(stack) : stack[d].cell = c /\ j < stack[d].next)
            => dag[c][j] \in Met

(* initial_cell_order gets what it needs, an acyclic graph on 0..n-1 in which
   everything but 0 is referred to, and it is the graph behind the root under
   new numbers, reference for reference. *)
HandsOverCellGraph ==
    pc = "done" =>
        /\ IsCellGraph(graph)
        /\ \A i \in DOMAIN graph :
            /\ Len(graph[i]) = Len(dag[myCells[i + 1]])
            /\ \A j \in 1..Len(graph[i]) : myCells[graph[i][j] + 1] = dag[myCells[i + 1]][j]
=============================================================================
