----------------------------- MODULE BlockCells ------------------------------
(***************************************************************************)
(* The cells of a block from one end to the other: convert_to_my_cells     *)
(* numbers them, initial_cell_order and apply_order number them again,     *)
(* and from the references under these numbers, which the codec carries,   *)
(* my_cells_to_vm_root builds the cells under the root pointer it returns. *)
(* CellDfs, CellOrder and CellBuild, each started with the result of the   *)
(* one before.                                                             *)
(***************************************************************************)
EXTENDS CellDfs

VARIABLES
    numbered, outDegree, cells, order, todo, orderPc,               \* CellOrder
    was, calls, v, sorted, vmCells, ready, built, result, buildPc   \* CellBuild

orderVars == <<numbered, outDegree, cells, order, todo, orderPc>>
buildVars == <<was, calls, v, sorted, vmCells, ready, built, result, buildPc>>
blockVars == <<vars, orderVars, buildVars>>

(* The references that the codec carries. *)
decoded == [k \in DOMAIN numbered |-> numbered[k].refs]

Order == INSTANCE CellOrder WITH
    Graphs <- {}, input <- graph, myCells <- numbered, pc <- orderPc

Rebuild == INSTANCE CellBuild WITH
    Graphs <- {}, graph <- decoded, stack <- calls, order <- sorted, cells <- vmCells, pc <- buildPc

NotCalled == "not called"

BlockInit ==
    /\ Init
    /\ numbered = << >> /\ outDegree = << >> /\ cells = {} /\ order = << >> /\ todo = {}
    /\ orderPc = NotCalled
    /\ was = << >> /\ calls = << >> /\ v = 0 /\ sorted = << >>
    /\ vmCells = << >> /\ ready = << >> /\ built = 0 /\ result = << >>
    /\ buildPc = NotCalled

Convert ==
    /\ CallRoot \/ CallKnown \/ CallNew \/ Return \/ NumberRefs
    /\ UNCHANGED <<orderVars, buildVars>>

(* initial_cell_order(my_cells) is called. *)
CallOrder ==
    /\ pc = "done" /\ orderPc = NotCalled
    /\ numbered' = [i \in DOMAIN graph |-> [cell |-> i, refs |-> graph[i]]]
    /\ outDegree' = [i \in DOMAIN graph |-> Len(graph[i])]
    /\ cells' = {<<i, Len(graph[i])>> : i \in DOMAIN graph}
    /\ orderPc' = "pop"
    /\ UNCHANGED <<vars, order, todo, buildVars>>

PutInOrder ==
    /\ Order!Pop \/ Order!Relax \/ Order!EndRelax \/ Order!ApplyOrder
    /\ UNCHANGED <<vars, buildVars>>

(* my_cells_to_vm_root(my_cells) is called. *)
CallRebuild ==
    /\ orderPc = "done" /\ buildPc = NotCalled
    /\ was' = [c \in DOMAIN decoded |-> FALSE]
    /\ vmCells' = [c \in DOMAIN decoded |-> Rebuild!Null]
    /\ ready' = [c \in DOMAIN decoded |-> FALSE]
    /\ result' = Rebuild!Null
    /\ buildPc' = "sort"
    /\ UNCHANGED <<vars, orderVars, calls, v, sorted, built>>

BuildAgain ==
    /\ UNCHANGED <<vars, orderVars>>
    /\ \/ Rebuild!StartDfs \/ Rebuild!SkipVisited \/ Rebuild!VisitRef \/ Rebuild!Return
       \/ Rebuild!StartBuild \/ Rebuild!Build \/ Rebuild!Finish

BlockDone == buildPc = "done" /\ UNCHANGED blockVars

BlockNext == Convert \/ CallOrder \/ PutInOrder \/ CallRebuild \/ BuildAgain \/ BlockDone

BlockSpec == BlockInit /\ [][BlockNext]_blockVars
-----------------------------------------------------------------------------
(* The number that a cell behind the root pointer has in the end. *)
NumberOf(cell) == CHOOSE k \in DOMAIN numbered : myCells[numbered[k].cell + 1] = cell

(* The cell as it should be built: made of the cells it refers to, and the same
   one wherever it is referred to. *)
AsBuilt[cell \in Cell] ==
    [id |-> NumberOf(cell), refs |-> [j \in 1..Len(dag[cell]) |-> AsBuilt[dag[cell][j]]]]

(* Through two renumberings and two depth-first walks the pointer that comes out
   leads to the cells the pointer that went in did, reference for reference,
   shared cells shared again; nothing but the order has named the root. *)
BlockComesBack == buildPc = "done" => result = AsBuilt[Root]
=============================================================================
