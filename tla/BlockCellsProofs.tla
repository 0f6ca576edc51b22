-------------------------- MODULE BlockCellsProofs ---------------------------
(***************************************************************************)
(* Proofs about CellDfs and BlockCells, for every set of cells with        *)
(* references among them that form no cycle.                               *)
(*                                                                         *)
(* What the walk leaves behind it is closed: when its last call returns,   *)
(* all that a met cell refers to is met (ReturnedCellsClosed).  So the     *)
(* numbers are defined wherever a reference leads, and a cycle under the   *)
(* new numbers would be one of the cells themselves.                       *)
(*                                                                         *)
(* The rest is the composition: each function starts with what the one     *)
(* before leaves, so its invariant holds from its call on (BlockInv), and  *)
(* no cell is the first that is not built as it should be (BuiltAsBuilt).  *)
(*                                                                         *)
(* The second part is about SpecialCell, the contents of one cell: of any  *)
(* length, of any type, in a block of any size that the header can tell.   *)
(* What is kept and what is written are at every place a stretch of the    *)
(* cell's own bits (CellInv), up to the depths in a Merkle cell.           *)
(***************************************************************************)
EXTENDS BlockCells, SpecialCell, DataFacts

Frames == [cell : Cell, next : Nat \ {0}]

TypeInv ==
    /\ dag \in Dags
    /\ myCells \in Seq(Cell)
    /\ stack \in Seq(Frames)
    /\ pc \in {"call", "dfs", "number", "done"}

(* A cell is met before it is on the stack, and met by a reference of a cell that
   was met before, unless it is the root. *)
MetByReference ==
    /\ OnStack \subseteq Met
    /\ myCells # << >> => myCells[1] = Root
    /\ \A k \in 1..Len(myCells) :
        k > 1 => \E c \in Met : \E j \in 1..Len(dag[c]) : dag[c][j] = myCells[k]

NumberedGraph ==
    [i \in 0..Len(myCells) - 1 |->
        [j \in 1..Len(dag[myCells[i + 1]]) |-> pos[dag[myCells[i + 1]][j]]]]

PhaseOK ==
    /\ pc = "call" => myCells = << >> /\ stack = << >>
    /\ pc # "call" => myCells # << >>
    /\ pc \in {"number", "done"} => stack = << >>
    /\ pc = "done" => graph = NumberedGraph

IInv ==
    /\ TypeInv
    /\ EachCellOnce
    /\ ReturnedCellsClosed
    /\ MetByReference
    /\ PhaseOK
-----------------------------------------------------------------------------
LEMMA DagFacts ==
    ASSUME dag \in Dags
    PROVE  /\ IsFiniteSet(Cell) /\ Acyclic(dag) /\ DOMAIN dag = Cell
           /\ \A c \in Cell : /\ dag[c] \in Seq(Cell) /\ Len(dag[c]) \in Nat
                              /\ Len(dag[c]) <= MaxRefs
                              /\ \A j \in 1..Len(dag[c]) : dag[c][j] \in Cell
<1>1. DOMAIN dag = Cell /\ IsDag(dag)
  BY DagsAssumption
<1>2. ASSUME NEW c \in Cell
      PROVE  /\ dag[c] \in Seq(Cell) /\ Len(dag[c]) \in Nat
             /\ Len(dag[c]) <= MaxRefs
             /\ \A j \in 1..Len(dag[c]) : dag[c][j] \in Cell
  BY <1>1 DEF IsDag
<1> QED BY <1>1, <1>2 DEF IsDag

LEMMA StateFacts ==
    ASSUME TypeInv
    PROVE  /\ Len(myCells) \in Nat /\ \A k \in 1..Len(myCells) : myCells[k] \in Cell
           /\ Met \subseteq Cell
           /\ Len(stack) \in Nat
           /\ \A d \in 1..Len(stack) : /\ stack[d] \in Frames
                                       /\ stack[d].cell \in Cell
                                       /\ stack[d].next \in Nat \ {0}
<1>1. Len(myCells) \in Nat /\ \A k \in 1..Len(myCells) : myCells[k] \in Cell
  BY LenProperties, ElementOfSeq DEF TypeInv
<1>2. Len(stack) \in Nat /\ \A d \in 1..Len(stack) : stack[d] \in Frames
  BY LenProperties, ElementOfSeq DEF TypeInv
<1> QED BY <1>1, <1>2 DEF Met, Frames

(* The running call, when there is one. *)
LEMMA FrameFacts ==
    ASSUME TypeInv, stack # << >>
    PROVE  /\ Len(stack) \in 1..Len(stack) /\ Frame = stack[Len(stack)] /\ Frame \in Frames
           /\ Frame.cell \in Cell /\ Frame.cell \in OnStack /\ Frame.next \in Nat \ {0}
           /\ Len(dag[Frame.cell]) \in Nat
           /\ HasChild => Frame.next \in 1..Len(dag[Frame.cell]) /\ Child \in Cell
<1>1. Len(stack) \in 1..Len(stack)
  BY TopFacts DEF TypeInv
<1>2. /\ Frame = stack[Len(stack)] /\ Frame \in Frames
      /\ Frame.cell \in Cell /\ Frame.next \in Nat \ {0} /\ Frame.cell \in OnStack
  BY <1>1, StateFacts DEF Frame, OnStack
<1>3. Len(dag[Frame.cell]) \in Nat /\ \A j \in 1..Len(dag[Frame.cell]) : dag[Frame.cell][j] \in Cell
  BY <1>2, DagFacts DEF TypeInv
<1> QED BY <1>1, <1>2, <1>3 DEF HasChild, Child

LEMMA AdvancedFacts ==
    ASSUME TypeInv, stack # << >>
    PROVE  /\ Advanced \in Seq(Frames) /\ Len(Advanced) = Len(stack)
           /\ \A d \in 1..Len(stack) :
                /\ Advanced[d].cell = stack[d].cell
                /\ Advanced[d].next = IF d = Len(stack) THEN Frame.next + 1 ELSE stack[d].next
<1> DEFINE n == Len(stack)
           top == [stack[n] EXCEPT !.next = stack[n].next + 1]
<1>1. n \in 1..n /\ stack \in Seq(Frames) /\ Frame = stack[n] /\ stack[n] \in Frames
      /\ stack[n].next \in Nat
  BY FrameFacts DEF TypeInv
<1>2. top = [cell |-> stack[n].cell, next |-> stack[n].next + 1] /\ top \in Frames
  BY <1>1 DEF Frames
<1>3. Advanced = [stack EXCEPT ![n] = top]
  BY DEF Advanced
<1> HIDE DEF top
<1>4. /\ Advanced \in Seq(Frames) /\ Len(Advanced) = n
      /\ \A d \in 1..n : Advanced[d] = IF d = n THEN top ELSE stack[d]
  BY <1>1, <1>2, <1>3, ExceptSeq
<1>5. ASSUME NEW d \in 1..n
      PROVE  /\ Advanced[d].cell = stack[d].cell
             /\ Advanced[d].next = IF d = n THEN Frame.next + 1 ELSE stack[d].next
  BY <1>1, <1>2, <1>4
<1> QED BY <1>4, <1>5

(* Meeting a cell that is not in pos. *)
LEMMA MeetFacts ==
    ASSUME TypeInv, EachCellOnce, NEW c \in Cell, c \notin DOMAIN pos, Meet(c)
    PROVE  /\ myCells' \in Seq(Cell) /\ Len(myCells') = Len(myCells) + 1
           /\ \A k \in 1..Len(myCells) : myCells'[k] = myCells[k]
           /\ myCells'[Len(myCells) + 1] = c
           /\ Met' = Met \cup {c}
           /\ EachCellOnce'
<1> DEFINE m == Len(myCells)
<1>1. m \in Nat /\ myCells \in Seq(Cell)
  BY StateFacts DEF TypeInv
<1>2. /\ myCells' \in Seq(Cell) /\ Len(myCells') = m + 1
      /\ \A k \in 1..m : myCells'[k] = myCells[k]
      /\ myCells'[m + 1] = c
  BY <1>1, PushFacts DEF Meet
<1>3. \A k : k \in 1..m + 1 <=> k \in 1..m \/ k = m + 1
  BY <1>1
<1>4. Met' = Met \cup {c}
  <2>1. Met' = {myCells'[k] : k \in 1..m + 1}
    BY <1>2 DEF Met
  <2>2. {myCells'[k] : k \in 1..m} \subseteq Met /\ Met \subseteq {myCells'[k] : k \in 1..m}
    BY <1>2 DEF Met
  <2>3. Met' = {myCells'[k] : k \in 1..m} \cup {myCells'[m + 1]}
    BY <1>3, <2>1
  <2> QED BY <1>2, <2>2, <2>3
<1>5. EachCellOnce'
  <2>1. pos' = [b \in DOMAIN pos \cup {c} |-> IF b = c THEN m ELSE pos[b]]
    BY DEF Meet
  <2>2. DOMAIN pos' = Met'
    BY <1>4, <2>1 DEF EachCellOnce
  <2>3. ASSUME NEW k \in 1..m + 1 PROVE pos'[myCells'[k]] = k - 1
    <3>1. CASE k \in 1..m
      <4>1. myCells[k] \in DOMAIN pos /\ pos[myCells[k]] = k - 1
        BY <3>1 DEF EachCellOnce, Met
      <4> QED BY <1>2, <2>1, <3>1, <4>1
    <3>2. CASE k = m + 1
      BY <1>1, <1>2, <2>1, <3>2
    <3> QED BY <1>3, <3>1, <3>2
  <2> QED BY <1>2, <2>2, <2>3 DEF EachCellOnce
<1> QED BY <1>2, <1>4, <1>5

LEMMA EmptyFacts ==
    ASSUME myCells = << >>, stack = << >>
    PROVE  Len(myCells) = 0 /\ Len(stack) = 0 /\ Met = {} /\ OnStack = {}
<1>1. Len(myCells) = 0 /\ Len(stack) = 0
  BY EmptySeq
<1> QED BY <1>1 DEF Met, OnStack
-----------------------------------------------------------------------------
LEMMA InitOK == Init => IInv
<1> SUFFICES ASSUME Init PROVE IInv
  OBVIOUS
<1>1. Len(myCells) = 0 /\ Len(stack) = 0 /\ Met = {} /\ OnStack = {}
  BY EmptyFacts DEF Init
<1>2. TypeInv
  <2>1. << >> \in Seq(Cell) /\ << >> \in Seq(Frames)
    BY EmptySeq
  <2> QED BY <2>1 DEF Init, TypeInv
<1>3. DOMAIN pos = {}
  BY DEF Init
<1>4. EachCellOnce /\ ReturnedCellsClosed /\ MetByReference /\ PhaseOK
  BY <1>1, <1>3 DEF Init, EachCellOnce, ReturnedCellsClosed, MetByReference, PhaseOK
<1> QED BY <1>2, <1>4 DEF IInv

LEMMA CallRootOK == ASSUME IInv, CallRoot PROVE IInv'
<1> DEFINE frame == [cell |-> Root, next |-> 1]
<1>1. /\ Len(myCells) = 0 /\ Met = {} /\ myCells = << >>
      /\ dag' = dag /\ pc' = "dfs" /\ stack' = <<frame>>
  BY EmptyFacts DEF CallRoot, IInv, PhaseOK
<1>2. DOMAIN pos = {} /\ Root \in Cell
  BY <1>1, DagsAssumption DEF IInv, EachCellOnce
<1>3. /\ myCells' \in Seq(Cell) /\ Len(myCells') = 1 /\ myCells'[1] = Root
      /\ Met' = {Root} /\ EachCellOnce'
  <2>1. /\ myCells' \in Seq(Cell) /\ Len(myCells') = Len(myCells) + 1
        /\ myCells'[Len(myCells) + 1] = Root
        /\ Met' = Met \cup {Root} /\ EachCellOnce'
    BY <1>2, MeetFacts DEF CallRoot, IInv
  <2> QED BY <1>1, <2>1
<1>4. frame \in Frames /\ frame.cell = Root /\ frame.next = 1
  BY <1>2 DEF Frames
<1>5. stack' \in Seq(Frames) /\ Len(stack') = 1 /\ stack'[1] = frame
  BY <1>1, <1>4
<1>6. OnStack' = {Root}
  BY <1>4, <1>5 DEF OnStack
<1>7. TypeInv'
  BY <1>1, <1>3, <1>5 DEF IInv, TypeInv
<1>8. ReturnedCellsClosed'
  BY <1>3, <1>4, <1>5, <1>6 DEF ReturnedCellsClosed
<1>9. MetByReference'
  BY <1>3, <1>6 DEF MetByReference
<1>10. PhaseOK'
  <2>1. myCells' # << >>
    BY <1>3
  <2> QED BY <1>1, <2>1 DEF PhaseOK
<1> QED BY <1>3, <1>7, <1>8, <1>9, <1>10 DEF IInv

(* The loop of the running call passes a reference to a met cell. *)
LEMMA CallKnownOK == ASSUME IInv, CallKnown PROVE IInv'
<1> USE DEF IInv
<1> DEFINE n == Len(stack)
<1>1. /\ UNCHANGED <<dag, pos, myCells, graph, pc>> /\ stack' = Advanced
      /\ pc = "dfs" /\ stack # << >> /\ HasChild /\ Child \in Met
  BY DEF CallKnown, EachCellOnce
<1>2. /\ n \in Nat /\ n \in 1..n /\ Frame = stack[n]
      /\ Child = dag[Frame.cell][Frame.next] /\ Frame.next \in Nat
  BY <1>1, FrameFacts, StateFacts DEF Child
<1>3. /\ stack' \in Seq(Frames) /\ Len(stack') = n
      /\ \A d \in 1..n :
           /\ stack'[d].cell = stack[d].cell
           /\ stack'[d].next = IF d = n THEN Frame.next + 1 ELSE stack[d].next
  BY <1>1, AdvancedFacts
<1>4. Met' = Met /\ OnStack' = OnStack
  <2>1. OnStack' \subseteq OnStack /\ OnStack \subseteq OnStack'
    BY <1>3 DEF OnStack
  <2> QED BY <1>1, <2>1 DEF Met
<1>5. TypeInv' /\ EachCellOnce'
  BY <1>1, <1>3, <1>4 DEF TypeInv, EachCellOnce
<1>6. ReturnedCellsClosed'
  <2> SUFFICES ASSUME NEW c \in Met, NEW j \in 1..Len(dag[c]),
                      c \notin OnStack
                        \/ \E d \in 1..n : stack'[d].cell = c /\ j < stack'[d].next
               PROVE  dag[c][j] \in Met
    BY <1>1, <1>3, <1>4 DEF ReturnedCellsClosed
  <2>1. CASE c \notin OnStack
    BY <2>1 DEF ReturnedCellsClosed
  <2>2. ASSUME NEW d \in 1..n, stack'[d].cell = c, j < stack'[d].next
        PROVE  dag[c][j] \in Met
    <3>1. c = stack[d].cell
      BY <1>3, <2>2
    <3>2. j < stack[d].next \/ (d = n /\ j = Frame.next)
      BY <1>2, <1>3, <2>2
    <3>3. CASE j < stack[d].next
      BY <3>1, <3>3 DEF ReturnedCellsClosed
    <3>4. CASE d = n /\ j = Frame.next
      BY <1>1, <1>2, <3>1, <3>4
    <3> QED BY <3>2, <3>3, <3>4
  <2> QED BY <2>1, <2>2
<1>7. MetByReference'
  BY <1>1, <1>4 DEF MetByReference
<1>8. PhaseOK'
  BY <1>1 DEF PhaseOK
<1> QED BY <1>5, <1>6, <1>7, <1>8

(* A cell is met: its call has passed none of its references. *)
LEMMA CallNewOK == ASSUME IInv, CallNew PROVE IInv'
<1> USE DEF IInv
<1> DEFINE n == Len(stack)
           m == Len(myCells)
           frame == [cell |-> Child, next |-> 1]
<1>1. /\ UNCHANGED <<dag, graph, pc>> /\ stack' = Append(Advanced, frame)
      /\ pc = "dfs" /\ stack # << >> /\ HasChild
      /\ Child \notin DOMAIN pos /\ Child \notin Met /\ Meet(Child)
  BY DEF CallNew, EachCellOnce
<1>2. /\ n \in Nat /\ n \in 1..n /\ Frame = stack[n]
      /\ Child = dag[Frame.cell][Frame.next] /\ Frame.next \in Nat
      /\ Frame.next \in 1..Len(dag[Frame.cell])
      /\ Child \in Cell /\ Frame.cell \in OnStack
  BY <1>1, FrameFacts, StateFacts DEF Child
<1>3. /\ Advanced \in Seq(Frames) /\ Len(Advanced) = n
      /\ \A d \in 1..n :
           /\ Advanced[d].cell = stack[d].cell
           /\ Advanced[d].next = IF d = n THEN Frame.next + 1 ELSE stack[d].next
  BY <1>1, AdvancedFacts
<1>4. frame \in Frames /\ frame.cell = Child /\ frame.next = 1
  BY <1>2 DEF Frames
<1> HIDE DEF frame
<1>5. /\ stack' \in Seq(Frames) /\ Len(stack') = n + 1
      /\ \A d \in 1..n : stack'[d] = Advanced[d]
      /\ stack'[n + 1] = frame
  BY <1>1, <1>3, <1>4, PushFacts
<1>6. /\ myCells' \in Seq(Cell) /\ Len(myCells') = m + 1 /\ m \in Nat
      /\ \A k \in 1..m : myCells'[k] = myCells[k]
      /\ myCells'[m + 1] = Child
      /\ Met' = Met \cup {Child}
      /\ EachCellOnce'
  BY <1>1, <1>2, MeetFacts, StateFacts
<1>7. \A d : d \in 1..n + 1 <=> d \in 1..n \/ d = n + 1
  BY <1>2
<1>8. OnStack' = OnStack \cup {Child}
  <2>1. OnStack' = {stack'[d].cell : d \in 1..n + 1}
    BY <1>5 DEF OnStack
  <2>2. \A d \in 1..n : stack'[d].cell = stack[d].cell
    BY <1>3, <1>5
  <2>3. stack'[n + 1].cell = Child
    BY <1>4, <1>5
  <2>4. {stack'[d].cell : d \in 1..n} \subseteq OnStack
        /\ OnStack \subseteq {stack'[d].cell : d \in 1..n}
    BY <2>2 DEF OnStack
  <2>5. OnStack' = {stack'[d].cell : d \in 1..n} \cup {stack'[n + 1].cell}
    BY <1>7, <2>1
  <2> QED BY <2>3, <2>4, <2>5
<1>9. TypeInv'
  BY <1>1, <1>5, <1>6 DEF TypeInv
<1>10. ReturnedCellsClosed'
  <2> SUFFICES ASSUME NEW c \in Met', NEW j \in 1..Len(dag[c]),
                      c \notin OnStack'
                        \/ \E d \in 1..n + 1 : stack'[d].cell = c /\ j < stack'[d].next
               PROVE  dag[c][j] \in Met'
    BY <1>1, <1>5 DEF ReturnedCellsClosed
  <2>1. CASE c \notin OnStack'
    BY <1>6, <1>8, <2>1 DEF ReturnedCellsClosed
  <2>2. ASSUME NEW d \in 1..n + 1, stack'[d].cell = c, j < stack'[d].next
        PROVE  dag[c][j] \in Met'
    <3>1. d \in 1..n
      <4>1. d # n + 1
        BY <1>4, <1>5, <2>2
      <4> QED BY <1>7, <4>1
    <3>2. c = stack[d].cell
      BY <1>3, <1>5, <2>2, <3>1
    <3>3. c \in Met
      BY <3>1, <3>2 DEF MetByReference, OnStack
    <3>4. j < stack[d].next \/ (d = n /\ j = Frame.next)
      BY <1>2, <1>3, <1>5, <2>2, <3>1
    <3>5. CASE j < stack[d].next
      BY <1>6, <3>1, <3>2, <3>3, <3>5 DEF ReturnedCellsClosed
    <3>6. CASE d = n /\ j = Frame.next
      BY <1>2, <1>6, <3>2, <3>6
    <3> QED BY <3>4, <3>5, <3>6
  <2> QED BY <2>1, <2>2
<1>11. MetByReference'
  <2>1. OnStack' \subseteq Met'
    BY <1>6, <1>8 DEF MetByReference
  <2>2. myCells'[1] = Root
    <3>1. myCells # << >> /\ m # 0 /\ 1 \in 1..m
      BY <1>1, <1>6, EmptySeq DEF PhaseOK, TypeInv
    <3> QED BY <1>6, <3>1 DEF MetByReference
  <2>3. ASSUME NEW k \in 1..m + 1, k > 1
        PROVE  \E c \in Met' : \E j \in 1..Len(dag[c]) : dag[c][j] = myCells'[k]
    <3>1. CASE k \in 1..m
      BY <1>6, <2>3, <3>1 DEF MetByReference
    <3>2. CASE k = m + 1
      <4>1. Frame.cell \in Met'
        BY <1>2, <1>6 DEF MetByReference
      <4> QED BY <1>2, <1>6, <3>2, <4>1
    <3>3. k \in 1..m \/ k = m + 1
      BY <1>6
    <3> QED BY <3>1, <3>2, <3>3
  <2> QED BY <1>1, <1>6, <2>1, <2>2, <2>3 DEF MetByReference
<1>12. PhaseOK'
  <2>1. myCells' # << >>
    BY <1>6
  <2> QED BY <1>1, <2>1 DEF PhaseOK
<1> QED BY <1>6, <1>9, <1>10, <1>11, <1>12

(* A call returns when its loop has passed all the references of its cell. *)
LEMMA ReturnOK == ASSUME IInv, Return PROVE IInv'
<1> USE DEF IInv
<1> DEFINE n == Len(stack)
<1>1. /\ UNCHANGED <<dag, pos, myCells, graph>>
      /\ stack' = SubSeq(stack, 1, Len(stack) - 1)
      /\ pc' = IF n = 1 THEN "number" ELSE "dfs"
      /\ pc = "dfs" /\ stack # << >> /\ ~ HasChild
  BY DEF Return
<1>2. /\ n \in Nat /\ n \in 1..n /\ Frame = stack[n]
      /\ Frame.next \in Nat \ {0} /\ Len(dag[Frame.cell]) \in Nat
      /\ Frame.cell \in OnStack
  BY <1>1, FrameFacts, StateFacts
<1>3. /\ stack' \in Seq(Frames) /\ Len(stack') = n - 1
      /\ \A d \in 1..n - 1 : stack'[d] = stack[d]
  BY <1>1, PopFacts DEF TypeInv
<1>4. Met' = Met
  BY <1>1 DEF Met
<1>5. (\A d \in 1..n - 1 : d \in 1..n) /\ (\A d \in 1..n : d \in 1..n - 1 \/ d = n)
  BY <1>2
<1>6. OnStack' \subseteq OnStack /\ OnStack \subseteq OnStack' \cup {Frame.cell}
  <2>1. OnStack' = {stack[d].cell : d \in 1..n - 1}
    BY <1>3 DEF OnStack
  <2> QED BY <1>2, <1>5, <2>1 DEF OnStack
<1>7. TypeInv' /\ EachCellOnce'
  BY <1>1, <1>3, <1>4 DEF TypeInv, EachCellOnce
<1>8. ReturnedCellsClosed'
  <2> SUFFICES ASSUME NEW c \in Met, NEW j \in 1..Len(dag[c]),
                      c \notin OnStack'
                        \/ \E d \in 1..n - 1 : stack'[d].cell = c /\ j < stack'[d].next
               PROVE  dag[c][j] \in Met
    BY <1>1, <1>3, <1>4 DEF ReturnedCellsClosed
  <2>1. CASE c \notin OnStack
    BY <2>1 DEF ReturnedCellsClosed
  <2>2. CASE c = Frame.cell
    <3>1. j < Frame.next
      BY <1>1, <1>2, <2>2 DEF HasChild
    <3> QED BY <1>2, <2>2, <3>1 DEF ReturnedCellsClosed
  <2>3. CASE \E d \in 1..n - 1 : stack'[d].cell = c /\ j < stack'[d].next
    BY <1>3, <1>5, <2>3 DEF ReturnedCellsClosed
  <2> QED BY <1>6, <2>1, <2>2, <2>3
<1>9. MetByReference'
  BY <1>1, <1>4, <1>6 DEF MetByReference
<1>10. PhaseOK'
  <2>1. n = 1 => stack' = << >>
    BY <1>3, EmptySeq
  <2> QED BY <1>1, <2>1 DEF PhaseOK
<1> QED BY <1>7, <1>8, <1>9, <1>10

LEMMA NumberRefsOK == ASSUME IInv, NumberRefs PROVE IInv'
<1>1. /\ UNCHANGED <<dag, pos, myCells, stack>> /\ pc = "number" /\ pc' = "done"
      /\ graph' = NumberedGraph
  BY DEF NumberRefs, NumberedGraph
<1>2. Met' = Met /\ OnStack' = OnStack /\ NumberedGraph' = NumberedGraph
  BY <1>1 DEF Met, OnStack, NumberedGraph
<1>3. TypeInv' /\ EachCellOnce' /\ ReturnedCellsClosed' /\ MetByReference'
  BY <1>1, <1>2
     DEF IInv, TypeInv, EachCellOnce, ReturnedCellsClosed, MetByReference
<1>4. PhaseOK'
  BY <1>1, <1>2 DEF IInv, PhaseOK
<1> QED BY <1>3, <1>4 DEF IInv

LEMMA StutterOK == ASSUME IInv, UNCHANGED vars PROVE IInv'
<1>1. UNCHANGED <<dag, pos, myCells, stack, graph, pc>>
  BY DEF vars
<1>2. Met' = Met /\ OnStack' = OnStack /\ NumberedGraph' = NumberedGraph
  BY <1>1 DEF Met, OnStack, NumberedGraph
<1> QED BY <1>1, <1>2
        DEF IInv, TypeInv, EachCellOnce, ReturnedCellsClosed, MetByReference, PhaseOK

LEMMA StepOK == IInv /\ [Next]_vars => IInv'
<1> SUFFICES ASSUME IInv, [Next]_vars PROVE IInv'
  OBVIOUS
<1>1. CASE Next
  BY <1>1, CallRootOK, CallKnownOK, CallNewOK, ReturnOK, NumberRefsOK, StutterOK
     DEF Next, Done
<1>2. CASE UNCHANGED vars
  BY <1>2, StutterOK
<1> QED BY <1>1, <1>2

LEMMA Inductive == Spec => []IInv
BY InitOK, StepOK, PTL DEF Spec
-----------------------------------------------------------------------------
(* convert_to_my_cells gives every cell one number, its place in my_cells. *)
THEOREM CellsNumberedOnce == Spec => []EachCellOnce
<1>1. IInv => EachCellOnce
  BY DEF IInv
<1> QED BY <1>1, Inductive, PTL

(* What the walk has left behind it refers to met cells only. *)
THEOREM WalkIsClosed == Spec => []ReturnedCellsClosed
<1>1. IInv => ReturnedCellsClosed
  BY DEF IInv
<1> QED BY <1>1, Inductive, PTL

(* The walk is over: the number of a cell finds the cell, every reference has a
   number, and every cell but the first is referred to. *)
LEMMA Numbers ==
    ASSUME IInv, pc = "done"
    PROVE  LET m == Len(myCells)
           IN  /\ m \in Nat \ {0} /\ DOMAIN graph = 0..m - 1
               /\ \A i \in 0..m - 1 :
                   /\ myCells[i + 1] \in Cell /\ pos[myCells[i + 1]] = i
                   /\ Len(graph[i]) = Len(dag[myCells[i + 1]])
                   /\ Len(graph[i]) \in Nat /\ Len(graph[i]) <= MaxRefs
                   /\ graph[i] \in Seq(0..m - 1)
                   /\ \A j \in 1..Len(graph[i]) :
                       /\ graph[i][j] \in 0..m - 1
                       /\ myCells[graph[i][j] + 1] = dag[myCells[i + 1]][j]
<1> USE DEF IInv
<1> DEFINE m == Len(myCells)
<1>1. m \in Nat \ {0} /\ \A k \in 1..m : myCells[k] \in Cell
  <2>1. m \in Nat /\ (\A k \in 1..m : myCells[k] \in Cell) /\ myCells # << >>
    BY StateFacts DEF PhaseOK
  <2>2. m # 0
    BY <2>1, EmptySeq DEF TypeInv
  <2> QED BY <2>1, <2>2
<1>2. graph = NumberedGraph /\ OnStack = {}
  BY EmptySeq DEF PhaseOK, OnStack
<1>3. DOMAIN graph = 0..m - 1
  BY <1>2 DEF NumberedGraph
<1>4. ASSUME NEW i \in 0..m - 1
      PROVE  /\ myCells[i + 1] \in Cell /\ pos[myCells[i + 1]] = i
             /\ Len(graph[i]) = Len(dag[myCells[i + 1]])
             /\ Len(graph[i]) \in Nat /\ Len(graph[i]) <= MaxRefs
             /\ graph[i] \in Seq(0..m - 1)
             /\ \A j \in 1..Len(graph[i]) :
                 /\ graph[i][j] \in 0..m - 1
                 /\ myCells[graph[i][j] + 1] = dag[myCells[i + 1]][j]
  <2> DEFINE c == myCells[i + 1]
             len == Len(dag[c])
  <2>1. i + 1 \in 1..m /\ (i + 1) - 1 = i
    BY <1>1
  <2>2. c \in Met /\ c \in Cell /\ pos[c] = i
    BY <1>1, <2>1 DEF Met, EachCellOnce
  <2>3. len \in Nat /\ len <= MaxRefs
    BY <2>2, DagFacts DEF TypeInv
  <2>4. graph[i] = [j \in 1..len |-> pos[dag[c][j]]]
    BY <1>2 DEF NumberedGraph
  <2>5. ASSUME NEW j \in 1..len
        PROVE  pos[dag[c][j]] \in 0..m - 1 /\ myCells[pos[dag[c][j]] + 1] = dag[c][j]
    <3>1. dag[c][j] \in Met
      BY <1>2, <2>2 DEF ReturnedCellsClosed
    <3>2. PICK k \in 1..m : myCells[k] = dag[c][j]
      BY <3>1 DEF Met
    <3>3. pos[dag[c][j]] = k - 1
      BY <3>2 DEF EachCellOnce
    <3>4. k - 1 \in 0..m - 1 /\ (k - 1) + 1 = k
      BY <1>1
    <3> QED BY <3>2, <3>3, <3>4
  <2> HIDE DEF c, len
  <2>6. Len(graph[i]) = len /\ graph[i] \in Seq(0..m - 1)
    <3>1. \A j \in 1..len : pos[dag[c][j]] \in 0..m - 1
      BY <2>5
    <3> QED BY <2>3, <2>4, <3>1
  <2>7. ASSUME NEW j \in 1..len
        PROVE  graph[i][j] \in 0..m - 1 /\ myCells[graph[i][j] + 1] = dag[c][j]
    BY <2>4, <2>5
  <2> QED BY <2>2, <2>3, <2>6, <2>7 DEF c, len
<1> QED BY <1>1, <1>3, <1>4

LEMMA GraphFollows == IInv => HandsOverCellGraph
<1> SUFFICES ASSUME IInv, pc = "done"
             PROVE  /\ IsCellGraph(graph)
                    /\ \A i \in DOMAIN graph :
                        /\ Len(graph[i]) = Len(dag[myCells[i + 1]])
                        /\ \A j \in 1..Len(graph[i]) :
                            myCells[graph[i][j] + 1] = dag[myCells[i + 1]][j]
  BY DEF HandsOverCellGraph
<1> DEFINE m == Len(myCells)
<1>1. m \in Nat \ {0} /\ DOMAIN graph = 0..m - 1
  BY Numbers
<1>2. \A i \in 0..m - 1 :
        /\ myCells[i + 1] \in Cell /\ pos[myCells[i + 1]] = i
        /\ Len(graph[i]) = Len(dag[myCells[i + 1]])
        /\ Len(graph[i]) \in Nat /\ Len(graph[i]) <= MaxRefs
        /\ graph[i] \in Seq(0..m - 1)
        /\ \A j \in 1..Len(graph[i]) :
            /\ graph[i][j] \in 0..m - 1
            /\ myCells[graph[i][j] + 1] = dag[myCells[i + 1]][j]
  BY Numbers
<1> HIDE DEF m
<1>3. Acyclic(graph)
  <2> SUFFICES ASSUME NEW S \in SUBSET (0..m - 1), S # {}
               PROVE  \E i \in S : \A s \in Slots(graph) : s[1] = i => Target(graph, s) \notin S
    BY <1>1 DEF Acyclic
  <2> DEFINE T == {myCells[i + 1] : i \in S}
  <2>1. T \in SUBSET DOMAIN dag /\ T # {}
    <3>1. DOMAIN dag = Cell
      BY DagFacts DEF IInv, TypeInv
    <3>2. \A i \in S : myCells[i + 1] \in Cell
      BY <1>2
    <3> QED BY <3>1, <3>2
  <2>2. PICK c \in T : \A s \in Slots(dag) : s[1] = c => Target(dag, s) \notin T
    BY <2>1, DagFacts DEF IInv, TypeInv, Acyclic
  <2>3. PICK i \in S : c = myCells[i + 1]
    BY <2>2
  <2>4. ASSUME NEW s \in Slots(graph), s[1] = i PROVE Target(graph, s) \notin S
    <3>1. s[2] \in 1..MaxRefs /\ s[2] <= Len(graph[i]) /\ Target(graph, s) = graph[i][s[2]]
      BY <2>4 DEF Slots, Target
    <3>2. i \in 0..m - 1 /\ s[2] \in 1..Len(graph[i])
      BY <1>2, <3>1 DEF MaxRefs
    <3>3. myCells[graph[i][s[2]] + 1] = dag[c][s[2]]
      BY <1>2, <2>3, <3>2
    <3>4. <<c, s[2]>> \in Slots(dag) /\ Target(dag, <<c, s[2]>>) = dag[c][s[2]]
      <4>1. c \in DOMAIN dag /\ s[2] <= Len(dag[c])
        BY <1>2, <2>1, <2>3, <3>1, <3>2
      <4> QED BY <3>1, <4>1 DEF Slots, Target
    <3>5. dag[c][s[2]] \notin T
      BY <2>2, <3>4
    <3> QED BY <3>1, <3>3, <3>5
  <2> QED BY <2>4
<1>4. Rooted(graph)
  <2> SUFFICES ASSUME NEW i \in 0..m - 1, i # 0
               PROVE  \E s \in Slots(graph) : Target(graph, s) = i
    BY <1>1 DEF Rooted, RootedAt
  <2>1. i + 1 \in 1..m /\ i + 1 > 1
    BY <1>1
  <2>2. PICK c \in Met : \E j \in 1..Len(dag[c]) : dag[c][j] = myCells[i + 1]
    BY <2>1 DEF IInv, MetByReference, m
  <2>3. PICK j \in 1..Len(dag[c]) : dag[c][j] = myCells[i + 1]
    BY <2>2
  <2>4. PICK k \in 1..m : myCells[k] = c
    BY DEF Met, m
  <2>5. k - 1 \in 0..m - 1 /\ (k - 1) + 1 = k
    BY <1>1
  <2>6. /\ j \in 1..Len(graph[k - 1]) /\ Len(graph[k - 1]) \in Nat
        /\ Len(graph[k - 1]) <= MaxRefs
        /\ graph[k - 1][j] \in 0..m - 1
        /\ myCells[graph[k - 1][j] + 1] = myCells[i + 1]
    BY <1>2, <2>3, <2>4, <2>5
  <2>7. graph[k - 1][j] = i
    BY <1>2, <2>6
  <2>8. <<k - 1, j>> \in Slots(graph) /\ Target(graph, <<k - 1, j>>) = i
    <3>1. j \in 1..MaxRefs /\ j <= Len(graph[k - 1])
      BY <2>6 DEF MaxRefs
    <3> QED BY <1>1, <2>5, <2>7, <3>1 DEF Slots, Target
  <2> QED BY <2>8
<1>5. IsDag(graph)
  <2>1. IsFiniteSet(0..m - 1)
    BY <1>1, FS_Interval
  <2> QED BY <1>1, <1>2, <1>3, <2>1 DEF IsDag
<1>6. IsCellGraph(graph)
  BY <1>1, <1>4, <1>5 DEF IsCellGraph
<1> QED BY <1>1, <1>2, <1>6

(* initial_cell_order gets the graph behind the root under new numbers: no cycle,
   everything but 0 referred to, reference for reference the cells' own. *)
THEOREM CellGraphHandedOver == Spec => []HandsOverCellGraph
BY GraphFollows, Inductive, PTL
-----------------------------------------------------------------------------
(* The proofs about the ordering and the rebuilding, of the graphs they are called
   with here. *)
Ordering == INSTANCE CellOrderProofs WITH
    Graphs <- {}, input <- graph, myCells <- numbered, pc <- orderPc

Rebuilding == INSTANCE CellBuildProofs WITH
    Graphs <- {}, graph <- decoded, stack <- calls, order <- sorted, cells <- vmCells, pc <- buildPc

(* A function works only after the one before it has returned. *)
InTurn ==
    /\ orderPc = NotCalled => buildPc = NotCalled /\ order = << >> /\ todo = {}
    /\ orderPc # NotCalled => pc = "done"
    /\ buildPc = NotCalled => calls = << >> /\ v = 0 /\ sorted = << >> /\ built = 0
    /\ buildPc # NotCalled => orderPc = "done"

(* The invariants of the three, each from its call on. *)
BlockInv ==
    /\ IInv /\ InTurn
    /\ orderPc # NotCalled => Ordering!IInv
    /\ buildPc # NotCalled => Rebuilding!IInv

JustCalled ==
    /\ IInv /\ InTurn
    /\ orderPc # NotCalled =>
         Ordering!IInv \/ (IsCellGraph(graph) /\ Ordering!Called)
    /\ buildPc # NotCalled =>
         Rebuilding!IInv \/ (IsRooted(decoded) /\ Rebuilding!Called)

(* Each instance has operators of its own for the library's. *)
LEMMA SameLibrary ==
    ASSUME NEW S
    PROVE  /\ Ordering!Cardinality(S) = Cardinality(S) /\ Order!Cardinality(S) = Cardinality(S)
           /\ Rebuilding!Cardinality(S) = Cardinality(S)
           /\ Rebuild!Cardinality(S) = Cardinality(S)
           /\ Ordering!IsFiniteSet(S) <=> IsFiniteSet(S)
           /\ Rebuilding!IsFiniteSet(S) <=> IsFiniteSet(S)
<1>1. Ordering!Cardinality(S) = Cardinality(S) /\ Order!Cardinality(S) = Cardinality(S)
  BY Zenon DEF Ordering!Cardinality, Order!Cardinality, Cardinality
<1>2. Rebuilding!Cardinality(S) = Cardinality(S) /\ Rebuild!Cardinality(S) = Cardinality(S)
  BY Zenon DEF Rebuilding!Cardinality, Rebuild!Cardinality, Cardinality
<1>3. Ordering!IsFiniteSet(S) <=> IsFiniteSet(S)
  BY Zenon DEF Ordering!IsFiniteSet, IsFiniteSet
<1>4. Rebuilding!IsFiniteSet(S) <=> IsFiniteSet(S)
  BY Zenon DEF Rebuilding!IsFiniteSet, IsFiniteSet
<1> QED BY <1>1, <1>2, <1>3, <1>4

(* The notions of CellGraph are the same in all three. *)
LEMMA SameNotions ==
    ASSUME NEW g
    PROVE  /\ Ordering!IsCellGraph(g) <=> IsCellGraph(g)
           /\ Ordering!IsRooted(g) <=> IsRooted(g)
           /\ Rebuilding!IsRooted(g) <=> IsRooted(g)
           /\ \A r : Ordering!RootedAt(g, r) <=> RootedAt(g, r)
           /\ \A r : Rebuilding!RootedAt(g, r) <=> RootedAt(g, r)
<1>1. MaxRefs = Ordering!MaxRefs /\ MaxRefs = Rebuilding!MaxRefs
  BY DEF MaxRefs, Ordering!MaxRefs, Rebuilding!MaxRefs
<1>2. Slots(g) = Ordering!Slots(g) /\ Slots(g) = Rebuilding!Slots(g)
  BY <1>1 DEF Slots, Ordering!Slots, Rebuilding!Slots
<1>3. \A s : Target(g, s) = Ordering!Target(g, s) /\ Target(g, s) = Rebuilding!Target(g, s)
  BY DEF Target, Ordering!Target, Rebuilding!Target
<1>4. /\ Acyclic(g) <=> Ordering!Acyclic(g)
      /\ Acyclic(g) <=> Rebuilding!Acyclic(g)
  BY <1>2, <1>3 DEF Acyclic, Ordering!Acyclic, Rebuilding!Acyclic
<1>5. \A r : /\ RootedAt(g, r) <=> Ordering!RootedAt(g, r)
             /\ RootedAt(g, r) <=> Rebuilding!RootedAt(g, r)
  BY <1>2, <1>3 DEF RootedAt, Ordering!RootedAt, Rebuilding!RootedAt
<1>6. /\ IsDag(g) <=> Ordering!IsDag(g)
      /\ IsDag(g) <=> Rebuilding!IsDag(g)
  BY <1>4, SameLibrary, Zenon DEF IsDag, Ordering!IsDag, Rebuilding!IsDag, MaxRefs,
     Ordering!MaxRefs, Rebuilding!MaxRefs
<1>7. IsCellGraph(g) <=> Ordering!IsCellGraph(g)
  BY <1>5, <1>6 DEF IsCellGraph, Rooted, Ordering!IsCellGraph, Ordering!Rooted
<1>8. /\ IsRooted(g) <=> Ordering!IsRooted(g)
      /\ IsRooted(g) <=> Rebuilding!IsRooted(g)
  BY <1>5, <1>6, SameLibrary, Zenon DEF IsRooted, Ordering!IsRooted, Rebuilding!IsRooted
<1> QED BY <1>5, <1>7, <1>8

LEMMA CalledRight == JustCalled => BlockInv
<1>1. /\ IsCellGraph(graph) /\ Ordering!Called => Ordering!IInv
      /\ IsRooted(decoded) /\ Rebuilding!Called => Rebuilding!IInv
  BY Ordering!CalledIInv, Rebuilding!CalledOK, SameNotions
<1> QED BY <1>1 DEF JustCalled, BlockInv

LEMMA BlockStarts == BlockInit => JustCalled
BY InitOK DEF BlockInit, JustCalled, InTurn, NotCalled

(* The steps of CellOrder and CellBuild, as BlockCells takes them. *)
LEMMA OrderSteps ==
    PutInOrder => /\ Ordering!Next
                  /\ orderPc \in {"pop", "relax", "apply"}
                  /\ orderPc' \in {"pop", "relax", "apply", "done"}
<1> SUFFICES ASSUME PutInOrder
             PROVE  /\ Ordering!Next
                    /\ orderPc \in {"pop", "relax", "apply"}
                    /\ orderPc' \in {"pop", "relax", "apply", "done"}
  OBVIOUS
<1>1. \A i : Order!WhoRefers(i) = Ordering!WhoRefers(i)
  BY DEF Order!WhoRefers, Ordering!WhoRefers, Order!Slots, Ordering!Slots, Order!Target,
         Ordering!Target, Order!MaxRefs, Ordering!MaxRefs
<1>2. CASE Order!Pop
  <2>1. \A x : Order!IsFirst(x) <=> Ordering!IsFirst(x)
    <3>1. \A x, y : Order!Less(x, y) <=> Ordering!Less(x, y)
      BY <1>1, SameLibrary, Zenon DEF Order!Less, Ordering!Less
    <3> QED BY <3>1 DEF Order!IsFirst, Ordering!IsFirst
  <2>2. Ordering!Pop
    BY <1>1, <1>2, <2>1 DEF Order!Pop, Ordering!Pop
  <2> QED BY <1>2, <2>2 DEF Ordering!Next, Order!Pop
<1>3. CASE Order!Relax
  <2>1. Ordering!Relax
    BY <1>3 DEF Order!Relax, Ordering!Relax, Order!Erase, Ordering!Erase, Order!SlotBefore,
                Ordering!SlotBefore
  <2> QED BY <1>3, <2>1 DEF Ordering!Next, Order!Relax
<1>4. CASE Order!EndRelax
  BY <1>4 DEF Ordering!Next, Order!EndRelax, Ordering!EndRelax
<1>5. CASE Order!ApplyOrder
  <2>1. Ordering!ApplyOrder
    <3>1. Order!Reordered(order, numbered) = Ordering!Reordered(order, numbered)
      BY Zenon DEF Order!Reordered, Ordering!Reordered, Order!Renumber, Ordering!Renumber,
         Order!Pos, Ordering!Pos
    <3> QED BY <1>5, <3>1, SameLibrary
            DEF Order!ApplyOrder, Ordering!ApplyOrder, Order!Cells, Ordering!Cells
  <2> QED BY <1>5, <2>1 DEF Ordering!Next, Order!ApplyOrder
<1> QED BY <1>2, <1>3, <1>4, <1>5 DEF PutInOrder

LEMMA RebuildSteps ==
    BuildAgain => /\ Rebuilding!Next
                  /\ buildPc \in {"sort", "build"}
                  /\ buildPc' \in {"sort", "build", "done"}
<1> SUFFICES ASSUME BuildAgain
             PROVE  /\ Rebuilding!Next
                    /\ buildPc \in {"sort", "build"}
                    /\ buildPc' \in {"sort", "build", "done"}
  OBVIOUS
<1> USE DEF Rebuilding!Next
<1>1. CASE Rebuild!StartDfs
  BY <1>1 DEF Rebuild!StartDfs, Rebuilding!StartDfs, Rebuild!Call, Rebuilding!Call,
     Rebuild!buildVars, Rebuilding!buildVars, Rebuild!Ids, Rebuilding!Ids
<1>2. CASE Rebuild!SkipVisited
  BY <1>2 DEF Rebuild!SkipVisited, Rebuilding!SkipVisited,
     Rebuild!buildVars, Rebuilding!buildVars, Rebuild!Ids, Rebuilding!Ids
<1>3. CASE Rebuild!VisitRef
  <2>1. /\ Rebuild!HasRef <=> Rebuilding!HasRef
        /\ Rebuild!To = Rebuilding!To /\ Rebuild!Advanced = Rebuilding!Advanced
    BY DEF Rebuild!HasRef, Rebuilding!HasRef, Rebuild!Frame, Rebuilding!Frame,
       Rebuild!To, Rebuilding!To, Rebuild!Advanced, Rebuilding!Advanced
  <2>2. \A c, frames : Rebuild!Call(c, frames) <=> Rebuilding!Call(c, frames)
    BY DEF Rebuild!Call, Rebuilding!Call
  <2>3. Rebuilding!VisitRef
    BY <1>3, <2>1, <2>2 DEF Rebuild!VisitRef, Rebuilding!VisitRef,
       Rebuild!buildVars, Rebuilding!buildVars
  <2> QED BY <1>3, <2>3 DEF Rebuild!VisitRef
<1>4. CASE Rebuild!Return
  BY <1>4 DEF Rebuild!Return, Rebuilding!Return, Rebuild!buildVars, Rebuilding!buildVars,
     Rebuild!HasRef, Rebuilding!HasRef, Rebuild!Frame, Rebuilding!Frame
<1>5. CASE Rebuild!StartBuild
  BY <1>5, SameLibrary DEF Rebuild!StartBuild, Rebuilding!StartBuild, Rebuild!buildVars,
     Rebuilding!buildVars, Rebuild!sortVars, Rebuilding!sortVars, Rebuild!Ids, Rebuilding!Ids
<1>6. CASE Rebuild!Build
  BY <1>6 DEF Rebuild!Build, Rebuilding!Build, Rebuild!sortVars, Rebuilding!sortVars
<1>7. CASE Rebuild!Finish
  BY <1>7 DEF Rebuild!Finish, Rebuilding!Finish, Rebuild!sortVars, Rebuilding!sortVars
<1> QED BY <1>1, <1>2, <1>3, <1>4, <1>5, <1>6, <1>7 DEF BuildAgain

(* Converting goes on before anything else is called. *)
LEMMA ConvertSteps == BlockInv /\ Convert => JustCalled'
<1> SUFFICES ASSUME BlockInv, Convert PROVE JustCalled'
  OBVIOUS
<1>1. pc # "done" /\ Next
  BY DEF Convert, CallRoot, CallKnown, CallNew, Return, NumberRefs, Next
<1>2. orderPc = NotCalled /\ buildPc = NotCalled
  BY <1>1 DEF BlockInv, InTurn
<1>3. IInv'
  BY <1>1, StepOK DEF BlockInv
<1>4. UNCHANGED <<numbered, outDegree, cells, order, todo, orderPc>>
      /\ UNCHANGED <<was, calls, v, sorted, vmCells, ready, built, result, buildPc>>
  BY DEF Convert, orderVars, buildVars
<1> QED BY <1>2, <1>3, <1>4 DEF JustCalled, BlockInv, InTurn

(* initial_cell_order gets what the ordering assumes. *)
LEMMA CallOrderSteps == BlockInv /\ CallOrder => JustCalled'
<1> SUFFICES ASSUME BlockInv, CallOrder PROVE JustCalled'
  OBVIOUS
<1>1. /\ UNCHANGED <<dag, pos, myCells, stack, graph, pc>> /\ UNCHANGED <<order, todo>>
      /\ UNCHANGED <<was, calls, v, sorted, vmCells, ready, built, result, buildPc>>
      /\ pc = "done" /\ orderPc = NotCalled /\ orderPc' = "pop"
  BY DEF CallOrder, vars, buildVars
<1>2. IInv'
  BY <1>1, StepOK DEF BlockInv, vars
<1>3. IsCellGraph(graph)'
  BY <1>1, GraphFollows DEF BlockInv, HandsOverCellGraph
<1>4. order = << >> /\ todo = {} /\ buildPc = NotCalled
  BY <1>1 DEF BlockInv, InTurn
<1>5. Ordering!Called'
  BY <1>1, <1>4 DEF Ordering!Called, Ordering!Cells, CallOrder
<1>6. InTurn'
  BY <1>1, <1>4 DEF BlockInv, InTurn, NotCalled
<1> QED BY <1>1, <1>2, <1>3, <1>4, <1>5, <1>6 DEF JustCalled

LEMMA OrderingGoesOn == Ordering!IInv /\ [Ordering!Next]_(Ordering!vars) => Ordering!IInv'
BY Ordering!StepIInv

LEMMA PutInOrderSteps == BlockInv /\ PutInOrder => JustCalled'
<1> SUFFICES ASSUME BlockInv, PutInOrder PROVE JustCalled'
  OBVIOUS
<1>1. /\ UNCHANGED <<dag, pos, myCells, stack, graph, pc>>
      /\ UNCHANGED <<was, calls, v, sorted, vmCells, ready, built, result, buildPc>>
  BY DEF PutInOrder, vars, buildVars
<1>2. /\ Ordering!Next
      /\ orderPc \in {"pop", "relax", "apply"}
      /\ orderPc' \in {"pop", "relax", "apply", "done"}
  BY OrderSteps
<1>3. IInv'
  BY <1>1, StepOK DEF BlockInv, vars
<1>4. orderPc # NotCalled /\ orderPc' # NotCalled /\ buildPc = NotCalled /\ pc = "done"
  BY <1>2 DEF BlockInv, InTurn, NotCalled
<1>5. Ordering!IInv'
  BY <1>2, <1>4, OrderingGoesOn DEF BlockInv
<1>6. InTurn'
  BY <1>1, <1>4 DEF BlockInv, InTurn
<1> QED BY <1>1, <1>3, <1>4, <1>5, <1>6 DEF JustCalled

(* What the codec carries are the references that the ordering leaves. *)
LEMMA DecodedRooted ==
    ASSUME BlockInv, orderPc = "done"
    PROVE  /\ IsRooted(decoded)
           /\ \A r \in DOMAIN numbered : RootedAt(decoded, r) => numbered[r].cell = 0
           /\ \A k, l \in DOMAIN numbered : numbered[k].cell = numbered[l].cell => k = l
<1>1. Ordering!IInv
  BY DEF BlockInv, NotCalled
<1>2. Ordering!NewRefs = decoded
  BY DEF Ordering!NewRefs, decoded
<1>3. /\ Ordering!IsRooted(decoded)
      /\ \A r \in DOMAIN numbered : Ordering!RootedAt(decoded, r) => numbered[r].cell = 0
      /\ \A k, l \in DOMAIN numbered : numbered[k].cell = numbered[l].cell => k = l
  BY <1>1, <1>2, Ordering!RootedFollows
<1> QED BY <1>3, SameNotions

(* my_cells_to_vm_root gets what the rebuilding assumes. *)
LEMMA CallRebuildSteps == BlockInv /\ CallRebuild => JustCalled'
<1> SUFFICES ASSUME BlockInv, CallRebuild PROVE JustCalled'
  OBVIOUS
<1>1. /\ UNCHANGED <<dag, pos, myCells, stack, graph, pc>>
      /\ UNCHANGED <<numbered, outDegree, cells, order, todo, orderPc>>
      /\ UNCHANGED <<calls, v, sorted, built>>
      /\ orderPc = "done" /\ buildPc = NotCalled /\ buildPc' = "sort"
  BY DEF CallRebuild, vars, orderVars
<1>2. IInv'
  BY <1>1, StepOK DEF BlockInv, vars
<1>3. Ordering!IInv'
  <2>1. UNCHANGED Ordering!vars
    BY <1>1 DEF Ordering!vars
  <2> QED BY <1>1, <2>1, OrderingGoesOn DEF BlockInv, NotCalled
<1>4. IsRooted(decoded)'
  <2>1. decoded' = decoded
    BY <1>1 DEF decoded
  <2> QED BY <1>1, <2>1, DecodedRooted
<1>5. calls = << >> /\ v = 0 /\ sorted = << >> /\ built = 0 /\ pc = "done"
  BY <1>1 DEF BlockInv, InTurn, NotCalled
<1>6. Rebuilding!Called'
  BY <1>1, <1>5 DEF Rebuilding!Called, Rebuilding!Ids, CallRebuild, Rebuild!Null,
     Rebuilding!Null, decoded
<1>7. InTurn'
  BY <1>1, <1>5 DEF BlockInv, InTurn, NotCalled
<1> QED BY <1>2, <1>3, <1>4, <1>6, <1>7 DEF JustCalled

LEMMA RebuildingGoesOn == Rebuilding!IInv /\ [Rebuilding!Next]_(Rebuilding!vars) => Rebuilding!IInv'
BY Rebuilding!StepOK

LEMMA BuildAgainSteps == BlockInv /\ BuildAgain => JustCalled'
<1> SUFFICES ASSUME BlockInv, BuildAgain PROVE JustCalled'
  OBVIOUS
<1>1. /\ UNCHANGED <<dag, pos, myCells, stack, graph, pc>>
      /\ UNCHANGED <<numbered, outDegree, cells, order, todo, orderPc>>
  BY DEF BuildAgain, vars, orderVars
<1>2. /\ Rebuilding!Next
      /\ buildPc \in {"sort", "build"}
      /\ buildPc' \in {"sort", "build", "done"}
  BY RebuildSteps
<1>3. IInv'
  BY <1>1, StepOK DEF BlockInv, vars
<1>4. buildPc # NotCalled /\ buildPc' # NotCalled /\ orderPc = "done" /\ pc = "done"
  BY <1>2 DEF BlockInv, InTurn, NotCalled
<1>5. Ordering!IInv'
  <2>1. UNCHANGED Ordering!vars
    BY <1>1 DEF Ordering!vars
  <2> QED BY <1>4, <2>1, OrderingGoesOn DEF BlockInv, NotCalled
<1>6. Rebuilding!IInv'
  BY <1>2, <1>4, RebuildingGoesOn DEF BlockInv
<1>7. InTurn'
  BY <1>1, <1>4 DEF BlockInv, InTurn, NotCalled
<1> QED BY <1>3, <1>5, <1>6, <1>7 DEF JustCalled

LEMMA BlockStutters == BlockInv /\ UNCHANGED blockVars => JustCalled'
<1> SUFFICES ASSUME BlockInv, UNCHANGED blockVars PROVE JustCalled'
  OBVIOUS
<1>1. /\ UNCHANGED <<dag, pos, myCells, stack, graph, pc>>
      /\ UNCHANGED <<numbered, outDegree, cells, order, todo, orderPc>>
      /\ UNCHANGED <<was, calls, v, sorted, vmCells, ready, built, result, buildPc>>
  BY DEF blockVars, vars, orderVars, buildVars
<1>2. IInv'
  BY <1>1, StepOK DEF BlockInv, vars
<1>3. orderPc # NotCalled => Ordering!IInv'
  <2>1. UNCHANGED Ordering!vars
    BY <1>1 DEF Ordering!vars
  <2> QED BY <2>1, OrderingGoesOn DEF BlockInv
<1>4. buildPc # NotCalled => Rebuilding!IInv'
  <2>1. UNCHANGED Rebuilding!vars
    BY <1>1 DEF Rebuilding!vars, decoded
  <2> QED BY <2>1, RebuildingGoesOn DEF BlockInv
<1>5. InTurn'
  BY <1>1 DEF BlockInv, InTurn
<1> QED BY <1>1, <1>2, <1>3, <1>4, <1>5 DEF JustCalled

LEMMA BlockSteps == BlockInv /\ [BlockNext]_blockVars => JustCalled'
BY ConvertSteps, CallOrderSteps, PutInOrderSteps, CallRebuildSteps, BuildAgainSteps,
   BlockStutters DEF BlockNext, BlockDone

LEMMA BlockInductive == BlockSpec => []BlockInv
BY BlockStarts, CalledRight, BlockSteps, PTL DEF BlockSpec
-----------------------------------------------------------------------------
(* One turn of AsBuilt, on a set of cells. *)
MadeOf(f, A) ==
    [cell \in A |-> [id |-> NumberOf(cell),
                     refs |-> [j \in 1..Len(dag[cell]) |-> f[dag[cell][j]]]]]

(* The recursion of AsBuilt ends, as the references do: the largest set of cells
   for which there is such a function misses none. *)
LEMMA AsBuiltFound ==
    ASSUME dag \in Dags
    PROVE  AsBuilt = MadeOf(AsBuilt, Cell)
<1> DEFINE Closed(A) == \A c \in A : \A j \in 1..Len(dag[c]) : dag[c][j] \in A
           Good == {A \in SUBSET Cell : Closed(A) /\ \E f : f = MadeOf(f, A)}
           Left == {Cardinality(Cell) - Cardinality(A) : A \in Good}
<1>1. /\ IsFiniteSet(Cell) /\ Acyclic(dag) /\ DOMAIN dag = Cell
      /\ \A c \in Cell : /\ Len(dag[c]) \in Nat /\ Len(dag[c]) <= MaxRefs
                         /\ \A j \in 1..Len(dag[c]) : dag[c][j] \in Cell
  BY DagFacts
<1>2. {} \in Good
  <2>1. MadeOf(<< >>, {}) = [cell \in {} |-> 0]
    BY DEF MadeOf
  <2>2. [cell \in {} |-> 0] = MadeOf([cell \in {} |-> 0], {})
    BY DEF MadeOf
  <2> QED BY <2>2
<1>3. \A A \in Good : /\ IsFiniteSet(A) /\ Cardinality(A) \in Nat
                      /\ Cardinality(Cell) - Cardinality(A) \in Nat
  <2> SUFFICES ASSUME NEW A \in SUBSET Cell
               PROVE  /\ IsFiniteSet(A) /\ Cardinality(A) \in Nat
                      /\ Cardinality(Cell) - Cardinality(A) \in Nat
    OBVIOUS
  <2>1. IsFiniteSet(A) /\ Cardinality(A) <= Cardinality(Cell)
    BY <1>1, FS_Subset
  <2>2. Cardinality(A) \in Nat /\ Cardinality(Cell) \in Nat
    BY <1>1, <2>1, FS_CardinalityType
  <2> QED BY <2>1, <2>2
<1>4. PICK least \in Left : \A n \in Left : least <= n
  <2>1. Left \in SUBSET Nat /\ Left # {}
    BY <1>2, <1>3
  <2> HIDE DEF Left
  <2> QED BY <2>1, NatMin
<1>5. PICK A \in Good : least = Cardinality(Cell) - Cardinality(A)
  BY <1>4
<1>6. PICK f : f = MadeOf(f, A)
  BY <1>5
<1>7. A = Cell
  <2> SUFFICES ASSUME A # Cell PROVE FALSE
    OBVIOUS
  <2>1. Cell \ A # {} /\ Cell \ A \in SUBSET DOMAIN dag /\ A \subseteq Cell
    BY <1>1, <1>5
  <2>2. PICK c \in Cell \ A : \A s \in Slots(dag) : s[1] = c => Target(dag, s) \notin Cell \ A
    BY <1>1, <2>1 DEF Acyclic
  <2>3. \A j \in 1..Len(dag[c]) : dag[c][j] \in A
    <3> TAKE j \in 1..Len(dag[c])
    <3>1. j \in 1..MaxRefs /\ j <= Len(dag[c])
      BY <1>1 DEF MaxRefs
    <3>2. <<c, j>> \in Slots(dag) /\ Target(dag, <<c, j>>) = dag[c][j]
      BY <1>1, <3>1 DEF Slots, Target
    <3> QED BY <1>1, <2>2, <3>2
  <2> DEFINE B == A \cup {c}
             g == MadeOf(f, B)
  <2>4. B \in Good
    <3>1. Closed(A)
      BY <1>5
    <3>2. Closed(B)
      BY <2>3, <3>1
    <3>3. \A x \in A : g[x] = f[x]
      <4>1. \A x \in A : f[x] = MadeOf(f, A)[x]
        BY <1>6
      <4> QED BY <4>1 DEF MadeOf
    <3>4. ASSUME NEW x \in B
          PROVE  [j \in 1..Len(dag[x]) |-> f[dag[x][j]]] = [j \in 1..Len(dag[x]) |-> g[dag[x][j]]]
      <4>1. \A j \in 1..Len(dag[x]) : dag[x][j] \in A
        BY <2>3, <3>1
      <4> QED BY <3>3, <4>1
    <3>5. g = MadeOf(g, B)
      <4> HIDE DEF B
      <4>1. \A x \in B : g[x] = MadeOf(g, B)[x]
        BY <3>4 DEF MadeOf
      <4> QED BY <4>1 DEF MadeOf
    <3>6. B \in SUBSET Cell
      BY <2>1
    <3> HIDE DEF g, B
    <3> QED BY <3>2, <3>5, <3>6
  <2>5. Cardinality(B) = Cardinality(A) + 1
    BY <1>3, <1>5, FS_AddElement
  <2>6. Cardinality(Cell) - Cardinality(B) \in Left
    BY <2>4
  <2>7. Cardinality(A) \in Nat /\ Cardinality(Cell) \in Nat
    BY <1>1, <1>3, <1>5, FS_CardinalityType
  <2> HIDE DEF Left, B
  <2> QED BY <1>4, <1>5, <2>5, <2>6, <2>7
<1>8. f = MadeOf(f, Cell)
  BY <1>6, <1>7
<1>9. AsBuilt = CHOOSE h : h = MadeOf(h, Cell)
  BY DEF AsBuilt, MadeOf
<1> HIDE DEF Good
<1> QED BY <1>8, <1>9

(* What a final number stands for: the cell, its number, its references. *)
LEMMA NumberedFacts ==
    ASSUME BlockInv, orderPc = "done"
    PROVE  \A k \in DOMAIN numbered :
             LET cell == myCells[numbered[k].cell + 1]
             IN  /\ cell \in Cell /\ NumberOf(cell) = k
                 /\ Len(decoded[k]) = Len(dag[cell])
                 /\ \A j \in 1..Len(dag[cell]) :
                      /\ decoded[k][j] \in DOMAIN numbered
                      /\ myCells[numbered[decoded[k][j]].cell + 1] = dag[cell][j]
<1>1. IInv /\ pc = "done" /\ Ordering!IInv
  BY DEF BlockInv, InTurn, NotCalled
<1>2. PICK m : m = Len(myCells)
  OBVIOUS
<1>3. /\ m \in Nat \ {0} /\ DOMAIN graph = 0..m - 1
      /\ \A i \in 0..m - 1 :
          /\ myCells[i + 1] \in Cell /\ pos[myCells[i + 1]] = i
          /\ Len(graph[i]) = Len(dag[myCells[i + 1]])
          /\ \A j \in 1..Len(graph[i]) : myCells[graph[i][j] + 1] = dag[myCells[i + 1]][j]
  BY <1>1, <1>2, Numbers
<1>4. PICK n : n = Len(order)
  OBVIOUS
<1>5. /\ DOMAIN numbered = 0..n - 1
      /\ \A k \in 0..n - 1 :
          /\ order[k + 1] \in DOMAIN graph
          /\ numbered[k].cell = order[k + 1]
          /\ Len(numbered[k].refs) = Len(graph[order[k + 1]])
          /\ \A j \in 1..Len(graph[order[k + 1]]) :
               /\ numbered[k].refs[j] \in 0..n - 1
               /\ order[numbered[k].refs[j] + 1] = graph[order[k + 1]][j]
  BY <1>1, <1>4, Ordering!ReorderedFacts DEF Ordering!Cells
<1>6. \A k, l \in DOMAIN numbered : numbered[k].cell = numbered[l].cell => k = l
  BY DecodedRooted
<1>7. SUFFICES ASSUME NEW k \in DOMAIN numbered
               PROVE  LET cell == myCells[numbered[k].cell + 1]
                      IN  /\ cell \in Cell /\ NumberOf(cell) = k
                          /\ Len(decoded[k]) = Len(dag[cell])
                          /\ \A j \in 1..Len(dag[cell]) :
                               /\ decoded[k][j] \in DOMAIN numbered
                               /\ myCells[numbered[decoded[k][j]].cell + 1] = dag[cell][j]
  OBVIOUS
<1> DEFINE i == numbered[k].cell
           cell == myCells[i + 1]
<1>8. /\ i \in 0..m - 1 /\ decoded[k] = numbered[k].refs
      /\ Len(decoded[k]) = Len(graph[i])
      /\ \A j \in 1..Len(graph[i]) : /\ decoded[k][j] \in DOMAIN numbered
                                    /\ numbered[decoded[k][j]].cell = graph[i][j]
  <2>1. k \in 0..n - 1 /\ i = order[k + 1] /\ i \in DOMAIN graph
    BY <1>5
  <2>2. decoded[k] = numbered[k].refs
    BY DEF decoded
  <2>3. Len(decoded[k]) = Len(graph[i])
    BY <1>5, <2>1, <2>2
  <2>4. ASSUME NEW j \in 1..Len(graph[i])
        PROVE  decoded[k][j] \in DOMAIN numbered /\ numbered[decoded[k][j]].cell = graph[i][j]
    <3>1. decoded[k][j] \in 0..n - 1 /\ order[decoded[k][j] + 1] = graph[i][j]
      BY <1>5, <2>1, <2>2
    <3> QED BY <1>5, <3>1
  <2> QED BY <1>3, <2>1, <2>2, <2>3, <2>4
<1>9. NumberOf(cell) = k
  <2>1. ASSUME NEW l \in DOMAIN numbered, myCells[numbered[l].cell + 1] = cell
        PROVE  l = k
    <3>1. numbered[l].cell \in 0..m - 1
      BY <1>3, <1>5
    <3>2. numbered[l].cell = i
      <4>1. pos[myCells[numbered[l].cell + 1]] = numbered[l].cell /\ pos[cell] = i
        BY <1>3, <1>8, <3>1
      <4> HIDE DEF cell, i
      <4> QED BY <2>1, <4>1
    <3> QED BY <1>6, <3>2
  <2> QED BY <2>1 DEF NumberOf
<1> HIDE DEF i
<1> QED BY <1>3, <1>8, <1>9 DEF i

(* The cells built are the cells as they should be, by acyclicity: no cell is the
   first that is not. *)
LEMMA BuiltAsBuilt ==
    ASSUME BlockInv, buildPc = "done"
    PROVE  \A k \in DOMAIN numbered : vmCells[k] = AsBuilt[myCells[numbered[k].cell + 1]]
<1>1. orderPc = "done" /\ Rebuilding!IInv /\ dag \in Dags
  BY DEF BlockInv, InTurn, NotCalled, IInv, TypeInv
<1> DEFINE CellOf(k) == myCells[numbered[k].cell + 1]
<1>2. ASSUME NEW k \in DOMAIN numbered
      PROVE  /\ CellOf(k) \in Cell /\ NumberOf(CellOf(k)) = k
             /\ Len(decoded[k]) = Len(dag[CellOf(k)])
             /\ \A j \in 1..Len(dag[CellOf(k)]) :
                  decoded[k][j] \in DOMAIN numbered /\ CellOf(decoded[k][j]) = dag[CellOf(k)][j]
  BY <1>1, NumberedFacts
<1>3. ASSUME NEW k \in DOMAIN numbered
      PROVE  vmCells[k] = [id |-> k,
                           refs |-> [j \in 1..Len(decoded[k]) |-> vmCells[decoded[k][j]]]]
  BY <1>1, Rebuilding!RootFollows DEF Rebuilding!Ids, decoded
<1>4. ASSUME NEW c \in Cell
      PROVE  AsBuilt[c] = [id |-> NumberOf(c),
                           refs |-> [j \in 1..Len(dag[c]) |-> AsBuilt[dag[c][j]]]]
  <2>1. AsBuilt[c] = MadeOf(AsBuilt, Cell)[c]
    BY <1>1, AsBuiltFound
  <2> QED BY <2>1 DEF MadeOf
<1> DEFINE Wrong == {k \in DOMAIN numbered : vmCells[k] # AsBuilt[CellOf(k)]}
           S == {CellOf(k) : k \in Wrong}
<1> HIDE DEF CellOf
<1> SUFFICES ASSUME Wrong # {} PROVE FALSE
  BY DEF CellOf
<1>5. S \in SUBSET DOMAIN dag /\ S # {}
  BY <1>1, <1>2, DagFacts
<1>6. PICK c \in S : \A s \in Slots(dag) : s[1] = c => Target(dag, s) \notin S
  BY <1>1, <1>5, DagFacts DEF Acyclic
<1>7. PICK k \in Wrong : c = CellOf(k)
  BY <1>6
<1>8. ASSUME NEW j \in 1..Len(dag[c])
      PROVE  vmCells[decoded[k][j]] = AsBuilt[dag[c][j]]
  <2>1. c \in DOMAIN dag /\ Len(dag[c]) \in Nat /\ Len(dag[c]) <= MaxRefs
    BY <1>1, <1>2, <1>7, DagFacts
  <2>2. j \in 1..MaxRefs /\ j <= Len(dag[c])
    BY <2>1 DEF MaxRefs
  <2>3. <<c, j>> \in Slots(dag) /\ Target(dag, <<c, j>>) = dag[c][j]
    BY <2>1, <2>2 DEF Slots, Target
  <2>4. decoded[k][j] \in DOMAIN numbered /\ CellOf(decoded[k][j]) = dag[c][j]
    BY <1>2, <1>7
  <2>5. dag[c][j] \notin S
    BY <1>6, <2>3
  <2> QED BY <2>4, <2>5
<1>9. vmCells[k] = AsBuilt[c]
  <2>1. c \in Cell /\ NumberOf(c) = k /\ Len(decoded[k]) = Len(dag[c])
    BY <1>2, <1>7
  <2>2. [j \in 1..Len(decoded[k]) |-> vmCells[decoded[k][j]]] =
            [j \in 1..Len(dag[c]) |-> AsBuilt[dag[c][j]]]
    BY <1>8, <2>1
  <2>3. k \in DOMAIN numbered
    BY <1>7
  <2>4. vmCells[k] = [id |-> k, refs |-> [j \in 1..Len(decoded[k]) |-> vmCells[decoded[k][j]]]]
    BY <1>3, <2>3
  <2>5. AsBuilt[c] = [id |-> NumberOf(c), refs |-> [j \in 1..Len(dag[c]) |-> AsBuilt[dag[c][j]]]]
    BY <1>4, <2>1
  <2> QED BY ONLY <2>1, <2>2, <2>4, <2>5
<1> QED BY <1>7, <1>9

(* The cells of a block come back through the two renumberings and the two walks:
   what my_cells_to_vm_root returns is the root, and made of what the root of the
   block is made of, all the way down, whatever block it is. *)
THEOREM BlockReturns == BlockSpec => []BlockComesBack
<1>1. BlockInv => BlockComesBack
  <2> SUFFICES ASSUME BlockInv, buildPc = "done" PROVE result = AsBuilt[Root]
    BY DEF BlockComesBack
  <2>1. orderPc = "done" /\ pc = "done" /\ Rebuilding!IInv /\ IInv
    BY DEF BlockInv, InTurn, NotCalled
  <2>2. PICK r \in DOMAIN numbered : Rebuilding!RootedAt(decoded, r) /\ result = vmCells[r]
    BY <2>1, Rebuilding!RootFollows DEF Rebuilding!Ids, decoded
  <2>3. numbered[r].cell = 0
    BY <2>1, <2>2, DecodedRooted, SameNotions
  <2>4. myCells[numbered[r].cell + 1] = Root
    BY <2>1, <2>3 DEF IInv, MetByReference, PhaseOK
  <2> QED BY <2>2, <2>4, BuiltAsBuilt
<1> QED BY <1>1, BlockInductive, PTL

(* No CHECK fails on the way: the order is complete whatever convert_to_my_cells
   has handed over, and the cells are ready whatever the order was. *)
THEOREM BlockChecksHold ==
    BlockSpec => [](/\ orderPc # NotCalled => Ordering!ChecksHold
                    /\ buildPc # NotCalled => Rebuilding!ChecksHold)
<1>1. BlockInv => /\ orderPc # NotCalled => Ordering!ChecksHold
                  /\ buildPc # NotCalled => Rebuilding!ChecksHold
  BY Ordering!ChecksFollow, Rebuilding!ChecksFollow DEF BlockInv
<1> QED BY <1>1, BlockInductive, PTL
-----------------------------------------------------------------------------
(* The contents of a cell.  Depths are written in two bytes exactly in blocks whose
   number of cells takes two bytes. *)
DepthsFit == dataCell.type \in Merkle => (256 <= nCells /\ nCells <= 65535)

LEMMA Pow2Steps ==
    /\ \A k \in Nat : Pow2[k] \in Nat \ {0}
    /\ \A j, k \in Nat : j <= k => Pow2[j] <= Pow2[k]
    /\ Pow2[2] = 4 /\ Pow2[8] = 256 /\ Pow2[16] = 65536
    /\ Pow2[20] \in Nat /\ Pow2[20] <= Pow2[64]
<1>1. \A k \in Nat : Pow2[k] \in Nat \ {0} /\ Pow2[k + 1] = 2 * Pow2[k]
  BY Pow2Facts
<1>2. \A j, k \in Nat : j <= k => Pow2[j] <= Pow2[k]
  <2> SUFFICES ASSUME NEW j \in Nat, NEW k \in Nat, j <= k PROVE Pow2[j] <= Pow2[k]
    OBVIOUS
  <2> DEFINE S == {d \in Nat : Pow2[j] <= Pow2[j + d]}
  <2>1. 0 \in S
    <3>1. j + 0 = j
      OBVIOUS
    <3> QED BY <1>1, <3>1
  <2>2. ASSUME NEW d \in Nat, d \in S PROVE d + 1 \in S
    <3>1. j + d \in Nat /\ j + (d + 1) = (j + d) + 1
      OBVIOUS
    <3>2. Pow2[(j + d) + 1] = 2 * Pow2[j + d] /\ Pow2[j + d] \in Nat /\ Pow2[j] \in Nat
      BY <1>1, <3>1
    <3> QED BY <2>2, <3>1, <3>2
  <2>3. Nat \subseteq S
    BY <2>1, <2>2, NatInduct
  <2>4. k - j \in Nat /\ j + (k - j) = k
    OBVIOUS
  <2>5. k - j \in S
    BY <2>3, <2>4
  <2> QED BY <2>4, <2>5
<1>3. Pow2[0] = 1 /\ Pow2[1] = 2 /\ Pow2[2] = 4
  <2>1. Pow2[0] = 1 /\ Pow2[0 + 1] = 2 * Pow2[0] /\ Pow2[1 + 1] = 2 * Pow2[1]
    BY Pow2Facts
  <2> QED BY <2>1
<1>4. Pow2[4] = 16 /\ Pow2[8] = 256 /\ Pow2[16] = 65536
  <2>1. Pow2[2 + 2] = Pow2[2] * Pow2[2] /\ Pow2[4 + 4] = Pow2[4] * Pow2[4]
        /\ Pow2[8 + 8] = Pow2[8] * Pow2[8]
    BY Pow2Product
  <2>2. Pow2[4] = 16
    BY <1>3, <2>1
  <2>3. Pow2[8] = 256
    BY <2>1, <2>2
  <2> QED BY <2>1, <2>2, <2>3
<1> QED BY <1>1, <1>2, <1>3, <1>4

LEMMA LenInBitsLeast ==
    ASSUME NEW num \in Nat, num < Pow2[64]
    PROVE  LenInBits(num) = 1 \/ Pow2[LenInBits(num) - 1] <= num
<1> DEFINE S == {w \in 1..64 : num < Pow2[w]}
<1>1. PICK w \in S : \A m \in S : w <= m
  <2>1. S \in SUBSET Nat /\ S # {}
    OBVIOUS
  <2> HIDE DEF S
  <2> QED BY <2>1, NatMin
<1>2. w = 1 \/ Pow2[w - 1] <= num
  <2> SUFFICES ASSUME w # 1, ~ (Pow2[w - 1] <= num) PROVE FALSE
    OBVIOUS
  <2>1. w - 1 \in 1..64 /\ w - 1 < w /\ Pow2[w - 1] \in Nat
    BY Pow2Facts
  <2>2. num < Pow2[w - 1]
    BY <2>1
  <2> QED BY <1>1, <2>1, <2>2
<1>3. \E x \in 1..64 : num < Pow2[x] /\ (x = 1 \/ Pow2[x - 1] <= num)
  BY <1>1, <1>2
<1> QED BY <1>3 DEF LenInBits

LEMMA DepthWidthOf ==
    ASSUME nCells \in 1..Pow2[20] - 1
    PROVE  /\ DepthWidth \in Nat
           /\ DepthWidth = DepthBits <=> (256 <= nCells /\ nCells <= 65535)
<1>0. Pow2[20] \in Nat /\ Pow2[20] <= Pow2[64] /\ Pow2[64] \in Nat
  BY Pow2Steps
<1>1. nCells \in Nat /\ nCells < Pow2[64] /\ nCells # 0
  BY <1>0
<1> DEFINE w == LenInBits(nCells)
<1>2. w \in 1..64 /\ nCells < Pow2[w]
  <2>1. 64 \in 1..64
    OBVIOUS
  <2> QED BY <1>1, <2>1, LenInBitsFits
<1>3. w = 1 \/ Pow2[w - 1] <= nCells
  BY <1>1, LenInBitsLeast
<1>4. w \in Nat /\ w - 1 \in Nat
  BY <1>2
<1>5. DepthWidth = 8 * ((w + 7) \div 8)
  BY DEF DepthWidth, LenInBytes
<1> HIDE DEF w
<1>6. DepthWidth \in Nat /\ (DepthWidth = 16 <=> w \in 9..16)
  BY ONLY <1>4, <1>5
<1>7. w \in 9..16 <=> (256 <= nCells /\ nCells <= 65535)
  <2>1. /\ w <= 8 => Pow2[w] <= 256
        /\ 9 <= w => 256 <= Pow2[w - 1]
        /\ w <= 16 => Pow2[w] <= 65536
        /\ 17 <= w => 65536 <= Pow2[w - 1]
        /\ Pow2[w] \in Nat /\ Pow2[w - 1] \in Nat
    <3>1. \A j, k \in Nat : j <= k => Pow2[j] <= Pow2[k]
      BY Pow2Steps
    <3>2. /\ w <= 8 => Pow2[w] <= Pow2[8]
          /\ 9 <= w => Pow2[8] <= Pow2[w - 1]
          /\ w <= 16 => Pow2[w] <= Pow2[16]
          /\ 17 <= w => Pow2[16] <= Pow2[w - 1]
      BY ONLY <1>4, <3>1
    <3>3. Pow2[w] \in Nat /\ Pow2[w - 1] \in Nat
      BY <1>4, Pow2Steps
    <3> QED BY <3>2, <3>3, Pow2Steps
  <2>2. ASSUME w \in 9..16 PROVE (256 <= nCells /\ nCells <= 65535)
    <3>1. w # 1 /\ 9 <= w /\ w <= 16
      BY ONLY <2>2
    <3>2. 256 <= Pow2[w - 1] /\ Pow2[w] <= 65536 /\ Pow2[w - 1] <= nCells
      BY ONLY <1>3, <2>1, <3>1
    <3>3. \A p, q \in Nat : 256 <= q /\ p <= 65536 /\ q <= nCells /\ nCells < p =>
            256 <= nCells /\ nCells <= 65535
      BY ONLY <1>1
    <3>4. 256 <= nCells /\ nCells <= 65535
      BY ONLY <1>2, <2>1, <3>2, <3>3
    <3> QED BY ONLY <1>1, <3>4
  <2>3. ASSUME (256 <= nCells /\ nCells <= 65535) PROVE w \in 9..16
    <3>1. 9 <= w
      BY ONLY <1>1, <1>2, <1>4, <2>1, <2>3
    <3>2. w <= 16
      BY ONLY <1>1, <1>3, <1>4, <2>1, <2>3
    <3> QED BY ONLY <1>4, <3>1, <3>2
  <2> QED BY ONLY <2>2, <2>3
<1> QED BY <1>6, <1>7 DEF DepthBits
-----------------------------------------------------------------------------
(* What one or two sequences make when they are put together. *)
LEMMA FlattenedOne == ASSUME NEW t, Len(t) = 1 PROVE FlattenSeq(t) = t[1]
<1> DEFINE Turned(g) == g = [k \in 1..1 |-> IF k = 1 THEN t[k] ELSE g[k - 1] \o t[k]]
           h == [k \in 1..1 |-> t[1]]
<1>1. FlattenSeq(t) = (CHOOSE g : Turned(g))[1]
  BY DEF FlattenSeq
<1>2. Turned(h)
  OBVIOUS
<1>3. Turned(CHOOSE g : Turned(g))
  <2> HIDE DEF Turned, h
  <2> QED BY <1>2
<1>4. \A g : Turned(g) => g[1] = t[1]
  OBVIOUS
<1> HIDE DEF Turned
<1> QED BY ONLY <1>1, <1>3, <1>4

LEMMA FlattenedTwo == ASSUME NEW t, Len(t) = 2 PROVE FlattenSeq(t) = t[1] \o t[2]
<1> DEFINE Turned(g) == g = [k \in 1..2 |-> IF k = 1 THEN t[k] ELSE g[k - 1] \o t[k]]
           h == [k \in 1..2 |-> IF k = 1 THEN t[1] ELSE t[1] \o t[2]]
<1>1. FlattenSeq(t) = (CHOOSE g : Turned(g))[2]
  BY DEF FlattenSeq
<1>2. Turned(h)
  OBVIOUS
<1>3. Turned(CHOOSE g : Turned(g))
  <2> HIDE DEF Turned, h
  <2> QED BY <1>2
<1>4. \A g : Turned(g) => g[2] = t[1] \o t[2]
  <2> SUFFICES ASSUME NEW g, Turned(g) PROVE g[2] = t[1] \o t[2]
    <3> HIDE DEF Turned
    <3> QED OBVIOUS
  <2>1. g[1] = t[1]
    OBVIOUS
  <2>2. g[2] = g[2 - 1] \o t[2] /\ 2 - 1 = 1
    OBVIOUS
  <2> HIDE DEF Turned
  <2> QED BY ONLY <2>1, <2>2
<1> HIDE DEF Turned
<1> QED BY ONLY <1>1, <1>3, <1>4

(* The hashes of the first k references, and their depths in w bits each. *)
FirstHashes(below, k) ==
    IF k = 0 THEN << >> ELSE IF k = 1 THEN below[1].hash ELSE below[1].hash \o below[2].hash
FirstDepths(below, k, w) ==
    IF k = 0 THEN << >>
    ELSE IF k = 1 THEN UintBits(below[1].depth, w)
    ELSE UintBits(below[1].depth, w) \o UintBits(below[2].depth, w)

Refs == [hash : [1..HashBits -> Bit], depth : 0..MaxDepth]

LEMMA DigestFacts ==
    ASSUME NEW b \in Refs, NEW w \in Nat
    PROVE  /\ b.hash \in Seq(Bit)
           /\ UintBits(b.depth, w) \in Seq(Bit) /\ Len(UintBits(b.depth, w)) = w
<1>1. b.hash \in [1..HashBits -> Bit] /\ b.depth \in 0..MaxDepth
  BY DEF Refs
<1>2. b.hash \in Seq(Bit)
  BY <1>1, SpecialCellAssumption
<1>3. b.depth \in Nat
  <2>1. MaxDepth \in Nat
    BY DEF MaxDepth
  <2> QED BY ONLY <1>1, <2>1
<1>4. ASSUME NEW k \in 1..w PROVE (b.depth \div Pow2[w - k]) % 2 \in Bit
  <2>1. PICK e \in Nat \ {0} : e = Pow2[w - k]
    BY Pow2Facts
  <2>2. b.depth \div e \in Int
    BY <1>3
  <2>3. \A x \in Int : x % 2 \in {0, 1}
    OBVIOUS
  <2> QED BY <2>1, <2>2, <2>3 DEF Bit
<1>5. UintBits(b.depth, w) \in [1..w -> Bit]
  BY <1>4 DEF UintBits
<1> QED BY <1>2, <1>5

LEMMA FirstFacts ==
    ASSUME NEW below \in Seq(Refs), Len(below) \in {1, 2}, NEW w \in Nat
    PROVE  /\ \A k \in 0..Len(below) :
                /\ FirstHashes(below, k) \in Seq(Bit)
                /\ FirstDepths(below, k, w) \in Seq(Bit)
                /\ Len(FirstDepths(below, k, w)) = k * w
           /\ \A k \in 1..Len(below) :
                /\ FirstHashes(below, k) = FirstHashes(below, k - 1) \o below[k].hash
                /\ FirstDepths(below, k, w) =
                     FirstDepths(below, k - 1, w) \o UintBits(below[k].depth, w)
<1>1. ASSUME NEW k \in 1..Len(below)
      PROVE  /\ below[k].hash \in Seq(Bit)
             /\ UintBits(below[k].depth, w) \in Seq(Bit)
             /\ Len(UintBits(below[k].depth, w)) = w
  <2>1. below[k] \in Refs
    BY ElementOfSeq
  <2> QED BY <2>1, DigestFacts
<1>2. << >> \in Seq(Bit) /\ Len(<< >>) = 0
  BY EmptySeq
<1>3. ASSUME NEW k \in 0..Len(below)
      PROVE  /\ FirstHashes(below, k) \in Seq(Bit)
             /\ FirstDepths(below, k, w) \in Seq(Bit)
             /\ Len(FirstDepths(below, k, w)) = k * w
  <2>1. CASE k = 0
    <3>1. 0 * w = 0
      OBVIOUS
    <3> QED BY <1>2, <2>1, <3>1 DEF FirstHashes, FirstDepths
  <2>2. CASE k = 1
    <3>1. 1 \in 1..Len(below) /\ 1 * w = w
      OBVIOUS
    <3> QED BY <1>1, <2>2, <3>1 DEF FirstHashes, FirstDepths
  <2>3. CASE k = 2
    <3>1. 1 \in 1..Len(below) /\ 2 \in 1..Len(below) /\ w + w = 2 * w
      BY <2>3
    <3>2. below[1].hash \o below[2].hash \in Seq(Bit)
      BY <1>1, <3>1, ConcatProperties
    <3> DEFINE p == UintBits(below[1].depth, w)
               q == UintBits(below[2].depth, w)
    <3>3. p \in Seq(Bit) /\ q \in Seq(Bit) /\ Len(p) = w /\ Len(q) = w
      BY <1>1, <3>1
    <3> HIDE DEF p, q
    <3>4. p \o q \in Seq(Bit) /\ Len(p \o q) = w + w
      BY ONLY <3>3, ConcatProperties
    <3>5. FirstDepths(below, 2, w) = p \o q
      BY DEF FirstDepths, p, q
    <3>6. FirstHashes(below, 2) = below[1].hash \o below[2].hash
      BY DEF FirstHashes
    <3> QED BY ONLY <2>3, <3>1, <3>2, <3>4, <3>5, <3>6
  <2>4. \A n \in {1, 2} : \A m \in 0..n : m = 0 \/ m = 1 \/ m = 2
    OBVIOUS
  <2>5. k = 0 \/ k = 1 \/ k = 2
    BY ONLY <2>4, Len(below) \in {1, 2}, k \in 0..Len(below)
  <2> QED BY <2>1, <2>2, <2>3, <2>5
<1>4. ASSUME NEW k \in 1..Len(below)
      PROVE  /\ FirstHashes(below, k) = FirstHashes(below, k - 1) \o below[k].hash
             /\ FirstDepths(below, k, w) =
                  FirstDepths(below, k - 1, w) \o UintBits(below[k].depth, w)
  <2>1. CASE k = 1
    <3>1. /\ << >> \o below[1].hash = below[1].hash
          /\ << >> \o UintBits(below[1].depth, w) = UintBits(below[1].depth, w)
      BY <1>1, <2>1, ConcatEmptySeq
    <3> QED BY <2>1, <3>1 DEF FirstHashes, FirstDepths
  <2>2. CASE k = 2
    <3>1. k - 1 = 1
      BY <2>2
    <3> QED BY <2>2, <3>1 DEF FirstHashes, FirstDepths
  <2>3. \A n \in {1, 2} : \A m \in 1..n : m = 1 \/ m = 2
    OBVIOUS
  <2>4. k = 1 \/ k = 2
    BY ONLY <2>3, Len(below) \in {1, 2}, k \in 1..Len(below)
  <2> QED BY <2>1, <2>2, <2>4
<1> QED BY <1>3, <1>4

LEMMA AllDigests ==
    ASSUME NEW below \in Seq(Refs), Len(below) \in {1, 2}
    PROVE  /\ Hashes(below) = FirstHashes(below, Len(below))
           /\ Depths(below) = FirstDepths(below, Len(below), DepthBits)
<1> DEFINE h == [j \in 1..Len(below) |-> below[j].hash]
           d == [j \in 1..Len(below) |-> UintBits(below[j].depth, DepthBits)]
<1>1. Len(h) = Len(below) /\ Len(d) = Len(below)
  OBVIOUS
<1>2. /\ \A j \in 1..Len(below) : h[j] = below[j].hash
      /\ \A j \in 1..Len(below) : d[j] = UintBits(below[j].depth, DepthBits)
  OBVIOUS
<1> HIDE DEF h, d
<1>3. /\ Len(h) = 1 => FlattenSeq(h) = h[1]
      /\ Len(h) = 2 => FlattenSeq(h) = h[1] \o h[2]
      /\ Len(d) = 1 => FlattenSeq(d) = d[1]
      /\ Len(d) = 2 => FlattenSeq(d) = d[1] \o d[2]
  <2>1. \A t : Len(t) = 1 => FlattenSeq(t) = t[1]
    BY FlattenedOne, Zenon
  <2>2. \A t : Len(t) = 2 => FlattenSeq(t) = t[1] \o t[2]
    BY FlattenedTwo, Zenon
  <2> QED BY ONLY <2>1, <2>2, Zenon
<1>6. Hashes(below) = FlattenSeq(h) /\ Depths(below) = FlattenSeq(d)
  BY DEF Hashes, Depths, h, d
<1>4. CASE Len(below) = 1
  <2>1. h[1] = below[1].hash /\ d[1] = UintBits(below[1].depth, DepthBits)
    BY <1>2, <1>4
  <2>2. FlattenSeq(h) = h[1] /\ FlattenSeq(d) = d[1]
    BY ONLY <1>1, <1>3, <1>4
  <2>3. /\ FirstHashes(below, 1) = below[1].hash
        /\ FirstDepths(below, 1, DepthBits) = UintBits(below[1].depth, DepthBits)
    BY DEF FirstHashes, FirstDepths
  <2> QED BY ONLY <1>4, <1>6, <2>1, <2>2, <2>3
<1>5. CASE Len(below) = 2
  <2>0. 1 \in 1..Len(below) /\ 2 \in 1..Len(below)
    BY <1>5
  <2>1. /\ h[1] = below[1].hash /\ d[1] = UintBits(below[1].depth, DepthBits)
        /\ h[2] = below[2].hash /\ d[2] = UintBits(below[2].depth, DepthBits)
    BY ONLY <1>2, <2>0
  <2>2. FlattenSeq(h) = h[1] \o h[2] /\ FlattenSeq(d) = d[1] \o d[2]
    BY ONLY <1>1, <1>3, <1>5
  <2>3. /\ FirstHashes(below, 2) = below[1].hash \o below[2].hash
        /\ FirstDepths(below, 2, DepthBits) =
             UintBits(below[1].depth, DepthBits) \o UintBits(below[2].depth, DepthBits)
    BY DEF FirstHashes, FirstDepths
  <2> QED BY ONLY <1>5, <1>6, <2>1, <2>2, <2>3
<1> QED BY <1>4, <1>5
-----------------------------------------------------------------------------
(* The inductive invariant.  What the constructor has packed of the first n bits, what
   it keeps in the end, and at every place what has been put together so far. *)
Size == Len(dataCell.bits)
Packed(n) == UintBits(dataCell.type - 1, 2) \o SubSeq(dataCell.bits, 9, n)

Kept ==
    IF ~ special THEN dataCell.bits
    ELSE IF dataCell.type \in Merkle THEN UintBits(dataCell.type - 1, 2)
    ELSE Packed(Size)

TypeByte == UintBits(dataCell.type, 8)
Composed(k) == (TypeByte \o Hashes(dataCell.below)) \o FirstDepths(dataCell.below, k, DepthWidth)

CellKnown ==
    /\ IsCell(dataCell) /\ nCells \in 1..Pow2[20] - 1
    /\ special = (dataCell.type # Ordinary)

FetchInv ==
    cellPc = "fetch" =>
        \/ special /\ data = << >> /\ bitsLeft = Size /\ cntBits = Size
        \/ /\ special /\ bitsLeft \in 0..Size - 8
           /\ data = Packed(Size - bitsLeft) /\ cntBits = Size - 6
        \/ /\ ~ special /\ bitsLeft \in 0..Size
           /\ data = SubSeq(dataCell.bits, 1, Size - bitsLeft) /\ cntBits = Size

KeptInv == cellPc # "fetch" => data = Kept

BitCountInv ==
    cellPc = "type" =>
        cntBits = IF ~ special THEN Size ELSE IF dataCell.type \in Merkle THEN 2 ELSE Size - 6

RangeInv ==
    cellPc = "range" =>
        /\ special
        /\ cntBits = IF dataCell.type \in Merkle THEN 8 ELSE Size
        /\ Len(newData) \in 8..cntBits
        /\ newData = SubSeq(dataCell.bits, 1, Len(newData))

MerkleInv ==
    cellPc = "merkle" => dataCell.type \in Merkle /\ cntBits = 8 /\ newData = TypeByte

HashInv ==
    cellPc = "hash" =>
        /\ dataCell.type \in Merkle /\ ref \in 1..Len(dataCell.below) + 1
        /\ newData = TypeByte \o FirstHashes(dataCell.below, ref - 1)

DepthInv ==
    cellPc = "depth" =>
        /\ dataCell.type \in Merkle /\ ref \in 1..Len(dataCell.below) + 1
        /\ newData = Composed(ref - 1)

BuiltInv ==
    cellPc \in {"finalise", "done"} =>
        /\ newData = IF dataCell.type \in Merkle THEN Composed(Len(dataCell.below))
                     ELSE dataCell.bits
        /\ cntBits = Len(newData)

CellInv ==
    /\ CellKnown /\ FetchInv /\ KeptInv /\ BitCountInv /\ RangeInv
    /\ MerkleInv /\ HashInv /\ DepthInv /\ BuiltInv

(* What is known of a cell. *)
LEMMA BitFacts ==
    ASSUME CellKnown
    PROVE  /\ dataCell.bits \in Seq(Bit) /\ Size \in Nat
           /\ dataCell.type \in Ordinary..MerkleUpdate
BY LenProperties DEF CellKnown, IsCell, Size

LEMMA TypeFacts ==
    ASSUME CellKnown, special
    PROVE  /\ Size >= 8 /\ dataCell.type \in 1..4
           /\ UintBits(dataCell.type - 1, 2) \in Seq(Bit)
           /\ Len(UintBits(dataCell.type - 1, 2)) = 2
           /\ UintOf(UintBits(dataCell.type - 1, 2)) = dataCell.type - 1
           /\ TypeByte \in Seq(Bit) /\ Len(TypeByte) = 8 /\ UintOf(TypeByte) = dataCell.type
           /\ SubSeq(dataCell.bits, 1, 8) = TypeByte
<1>1. dataCell.type \in 1..4 /\ Size >= 8 /\ SubSeq(dataCell.bits, 1, 8) = TypeByte
  <2>1. dataCell.type \in 0..4 /\ dataCell.type # 0
    BY DEF CellKnown, IsCell, Ordinary, MerkleUpdate
  <2>2. Len(dataCell.bits) >= 8 /\ SubSeq(dataCell.bits, 1, 8) = UintBits(dataCell.type, 8)
    BY DEF CellKnown, IsCell
  <2> QED BY <2>1, <2>2 DEF Size, TypeByte
<1>2. dataCell.type - 1 \in 0..Pow2[2] - 1
  BY <1>1, Pow2Steps
<1>3. dataCell.type \in 0..Pow2[8] - 1
  <2>1. Pow2[8] = 256
    BY Pow2Steps
  <2>2. \A p \in Nat : p = 256 /\ dataCell.type \in 1..4 => dataCell.type \in 0..p - 1
    OBVIOUS
  <2> QED BY <1>1, <2>1, <2>2
<1>4. /\ UintBits(dataCell.type - 1, 2) \in Seq(Bit)
      /\ Len(UintBits(dataCell.type - 1, 2)) = 2
      /\ UintOf(UintBits(dataCell.type - 1, 2)) = dataCell.type - 1
  BY <1>2, UintBack
<1>5. /\ UintBits(dataCell.type, 8) \in Seq(Bit)
      /\ Len(UintBits(dataCell.type, 8)) = 8
      /\ UintOf(UintBits(dataCell.type, 8)) = dataCell.type
  BY <1>3, UintBack
<1> QED BY ONLY <1>1, <1>4, <1>5 DEF TypeByte

LEMMA PackedFacts ==
    ASSUME CellKnown, special, NEW n \in Nat, 8 <= n, n <= Size
    PROVE  /\ Packed(n) \in Seq(Bit) /\ Len(Packed(n)) = n - 6
           /\ SubSeq(Packed(n), 1, 2) = UintBits(dataCell.type - 1, 2)
           /\ \A a \in 8..n : \A b \in a..n :
                SubSeq(Packed(n), a - 5, b - 6) = SubSeq(dataCell.bits, a + 1, b)
<1> DEFINE s == dataCell.bits
           p == UintBits(dataCell.type - 1, 2)
           t == SubSeq(s, 9, n)
<1>1. s \in Seq(Bit) /\ Len(s) \in Nat /\ n <= Len(s)
  BY BitFacts DEF Size
<1>2. p \in Seq(Bit) /\ Len(p) = 2
  BY TypeFacts
<1>3. t \in Seq(Bit) /\ Len(t) = n - 8 /\ \A k \in 1..n - 8 : t[k] = s[8 + k]
  <2> HIDE DEF s
  <2>1. /\ SubSeq(s, 8 + 1, n) \in Seq(Bit)
        /\ Len(SubSeq(s, 8 + 1, n)) = n - 8
        /\ \A k \in 1..n - 8 : SubSeq(s, 8 + 1, n)[k] = s[8 + k]
    BY <1>1, CutAt
  <2>2. 8 + 1 = 9
    OBVIOUS
  <2> QED BY <2>1, <2>2
<1>4. Packed(n) = p \o t
  BY DEF Packed
<1> HIDE DEF s, p, t
<1> DEFINE q == p \o t
<1>5. /\ q \in Seq(Bit) /\ Len(q) = 2 + (n - 8)
      /\ \A k \in 1..2 + (n - 8) : q[k] = IF k <= 2 THEN p[k] ELSE t[k - 2]
  <2>1. /\ p \o t \in Seq(Bit) /\ Len(p \o t) = Len(p) + Len(t)
        /\ \A k \in 1..Len(p) + Len(t) :
             (p \o t)[k] = IF k <= Len(p) THEN p[k] ELSE t[k - Len(p)]
    BY ONLY <1>2, <1>3, ConcatProperties
  <2> QED BY ONLY <1>2, <1>3, <2>1
<1>6. Len(q) = n - 6
  BY <1>5
<1>7. SubSeq(q, 1, 2) = p
  <2>1. 1 \in 1..Len(p) /\ 2 \in 1..Len(p)
    BY <1>2
  <2>2. SubSeq(p \o t, 1, 2) = SubSeq(p, 1, 2)
    BY <1>2, <1>3, <2>1, SubSeqOfConcat1
  <2>3. SubSeq(p, 1, Len(p)) = p
    BY <1>2, SubSeqFull
  <2> QED BY <1>2, <2>2, <2>3
<1> HIDE DEF q
<1>8. ASSUME NEW a \in 8..n, NEW b \in a..n
      PROVE  SubSeq(q, a - 5, b - 6) = SubSeq(s, a + 1, b)
  <2> DEFINE aa == a - 6
             bb == b - 6
             u == SubSeq(q, aa + 1, bb)
             w == SubSeq(s, a + 1, b)
  <2>1. aa \in Nat /\ bb \in Nat /\ aa <= bb /\ bb <= Len(q) /\ bb - aa = b - a /\ aa + 1 = a - 5
    BY <1>6
  <2>2. a \in Nat /\ b \in Nat /\ a <= b /\ b <= Len(s)
    BY <1>1
  <2>3. aa = a - 6
    OBVIOUS
  <2>4. bb = b - 6
    OBVIOUS
  <2> HIDE DEF aa, bb
  <2>5. u \in Seq(Bit) /\ Len(u) = bb - aa /\ \A k \in 1..bb - aa : u[k] = q[aa + k]
    BY <1>5, <2>1, CutAt
  <2>6. w \in Seq(Bit) /\ Len(w) = b - a /\ \A k \in 1..b - a : w[k] = s[a + k]
    BY <1>1, <2>2, CutAt
  <2>7. ASSUME NEW k \in 1..b - a PROVE u[k] = w[k]
    <3>1. k \in 1..bb - aa /\ aa + k \in 1..2 + (n - 8) /\ ~ (aa + k <= 2)
          /\ (aa + k) - 2 \in 1..n - 8 /\ 8 + ((aa + k) - 2) = a + k
      BY ONLY <2>1, <2>2, <2>3, <2>4, n \in Nat, a \in 8..n, b \in a..n, k \in 1..b - a
    <3>2. u[k] = q[aa + k] /\ w[k] = s[a + k]
      BY ONLY <2>5, <2>6, <2>7, <3>1
    <3>3. q[aa + k] = t[(aa + k) - 2]
      BY ONLY <1>5, <3>1
    <3>4. t[(aa + k) - 2] = s[a + k]
      BY ONLY <1>3, <3>1
    <3> QED BY ONLY <3>2, <3>3, <3>4
  <2>8. b - a \in Nat
    BY ONLY <2>2
  <2> HIDE DEF u, w
  <2>9. u = w
    BY ONLY <2>1, <2>5, <2>6, <2>7, SeqEqual
  <2>10. u = SubSeq(q, a - 5, b - 6)
    BY ONLY <2>1, <2>4 DEF u
  <2> QED BY ONLY <2>9, <2>10 DEF w
<1>9. Packed(n) = q
  BY <1>4 DEF q
<1> QED BY ONLY <1>5, <1>6, <1>7, <1>8, <1>9 DEF s, p

LEMMA MerkleFacts ==
    ASSUME CellKnown, dataCell.type \in Merkle
    PROVE  /\ special
           /\ dataCell.below \in Seq(Refs) /\ Len(dataCell.below) \in {1, 2}
           /\ dataCell.bits =
                (TypeByte \o Hashes(dataCell.below)) \o Depths(dataCell.below)
<1>1. special
  <2>1. dataCell.type # Ordinary
    BY DEF Merkle, MerkleProof, MerkleUpdate, Ordinary
  <2> QED BY ONLY <2>1, CellKnown DEF CellKnown
<1>2. IsCell(dataCell)
  BY DEF CellKnown
<1>3. dataCell.below \in Seq(Refs)
  BY <1>2 DEF IsCell, Refs
<1>4. Len(dataCell.below) \in {1, 2}
  BY <1>2 DEF IsCell, Merkle
<1>5. dataCell.bits = (TypeByte \o Hashes(dataCell.below)) \o Depths(dataCell.below)
  BY <1>2 DEF IsCell, MerkleBits, TypeByte
<1> QED BY ONLY <1>1, <1>3, <1>4, <1>5

LEMMA OrdinaryFacts == ASSUME CellKnown, ~ special PROVE dataCell.type \notin Merkle
<1> SUFFICES ASSUME dataCell.type \in Merkle PROVE FALSE
  OBVIOUS
<1>1. special
  BY MerkleFacts
<1> QED BY <1>1

(* MyCell::get_type gives the type of the cell. *)
LEMMA TypeGiven ==
    ASSUME CellKnown, data = Kept
    PROVE  TypeOf = dataCell.type
<1>1. CASE ~ special
  BY <1>1 DEF CellKnown, TypeOf
<1>2. CASE special
  <2>0. special
    BY <1>2
  <2> DEFINE p == UintBits(dataCell.type - 1, 2)
  <2>1. p \in Seq(Bit) /\ Len(p) = 2 /\ UintOf(p) = dataCell.type - 1 /\ dataCell.type \in 1..4
    BY <2>0, TypeFacts
  <2>2. SubSeq(data, 1, 2) = p
    <3>1. CASE dataCell.type \in Merkle
      <4>1. data = p
        BY <2>0, <3>1 DEF Kept
      <4>2. SubSeq(p, 1, Len(p)) = p
        BY <2>1, SubSeqFull
      <4> QED BY <2>1, <4>1, <4>2
    <3>2. CASE dataCell.type \notin Merkle
      <4>1. data = Packed(Size)
        BY <2>0, <3>2 DEF Kept
      <4>2. Size \in Nat /\ 8 <= Size /\ Size <= Size
        BY <2>0, BitFacts, TypeFacts
      <4>3. SubSeq(Packed(Size), 1, 2) = p
        BY <2>0, <4>2, PackedFacts
      <4> QED BY <4>1, <4>3
    <3> QED BY <3>1, <3>2
  <2>3. TypeOf = UintOf(SubSeq(data, 1, 2)) + 1
    BY <2>0 DEF TypeOf
  <2> HIDE DEF p
  <2>4. UintOf(SubSeq(data, 1, 2)) = dataCell.type - 1
    BY ONLY <2>1, <2>2
  <2> QED BY ONLY <2>1, <2>3, <2>4
<1> QED BY <1>1, <1>2
-----------------------------------------------------------------------------
(* The steps: what the cell is stays, and every action leads to the next place. *)
LEMMA SameCell ==
    ASSUME CellKnown, dataCell' = dataCell, nCells' = nCells, special' = special
    PROVE  /\ CellKnown' /\ Size' = Size /\ TypeByte' = TypeByte /\ Kept' = Kept
           /\ \A n : Packed(n)' = Packed(n)
           /\ \A k : Composed(k)' = Composed(k)
<1>1. CellKnown'
  BY DEF CellKnown
<1>2. Size' = Size /\ TypeByte' = TypeByte /\ \A n : Packed(n)' = Packed(n)
  BY DEF Size, TypeByte, Packed
<1>3. Kept' = Kept
  BY <1>2 DEF Kept
<1>4. DepthWidth' = DepthWidth
  BY DEF DepthWidth
<1>5. ASSUME NEW k PROVE Composed(k)' = Composed(k)
  BY <1>2, <1>4 DEF Composed
<1> QED BY ONLY <1>1, <1>2, <1>3, <1>5

LEMMA CellInitOK == CellInit => CellInv
<1> SUFFICES ASSUME CellInit PROVE CellInv
  OBVIOUS
<1>0. cellPc = "fetch" /\ special = (dataCell.type # Ordinary) /\ data = << >>
      /\ bitsLeft = Len(dataCell.bits) /\ cntBits = Len(dataCell.bits)
  BY DEF CellInit
<1>1. CellKnown
  <2>1. PICK x \in Cases : dataCell = x.cell /\ nCells = x.nCells
    BY DEF CellInit
  <2>2. IsCell(x.cell) /\ x.nCells \in 1..Pow2[20] - 1
    BY SpecialCellAssumption
  <2> QED BY ONLY <1>0, <2>1, <2>2 DEF CellKnown
<1>2. FetchInv
  <2>1. CASE special
    BY <1>0, <2>1 DEF FetchInv, Size
  <2>2. CASE ~ special
    <3>1. Size \in Nat /\ bitsLeft = Size /\ cntBits = Size
      BY <1>0, <1>1, BitFacts DEF Size
    <3>2. bitsLeft \in 0..Size /\ Size - bitsLeft = 0
      BY ONLY <3>1
    <3>3. SubSeq(dataCell.bits, 1, 0) = << >>
      BY SubSeqEmpty
    <3> QED BY <1>0, <2>2, <3>1, <3>2, <3>3 DEF FetchInv
  <2> QED BY <2>1, <2>2
<1>3. /\ KeptInv /\ BitCountInv /\ RangeInv
      /\ MerkleInv /\ HashInv /\ DepthInv /\ BuiltInv
  BY <1>0 DEF KeptInv, BitCountInv, RangeInv, MerkleInv, HashInv, DepthInv, BuiltInv
<1> QED BY <1>1, <1>2, <1>3 DEF CellInv

(* The type is read from the first byte. *)
LEMMA TypeFetched ==
    ASSUME CellKnown, special, bitsLeft = Size
    PROVE  CurBits = 8 /\ Fetched = TypeByte
<1>1. Size \in Nat /\ Size >= 8 /\ SubSeq(dataCell.bits, 1, 8) = TypeByte
  <2>1. Size \in Nat
    BY BitFacts
  <2>2. Size >= 8 /\ SubSeq(dataCell.bits, 1, 8) = TypeByte
    BY TypeFacts
  <2> QED BY ONLY <2>1, <2>2
<1>2. CurBits = 8
  BY <1>1 DEF CurBits, Smaller
<1>3. Len(dataCell.bits) - bitsLeft + 1 = 1 /\ Len(dataCell.bits) - bitsLeft + CurBits = 8
  BY <1>1, <1>2 DEF Size
<1> QED BY <1>1, <1>2, <1>3 DEF Fetched

(* Nothing is kept yet only before the type is read. *)
LEMMA NothingKept ==
    ASSUME CellKnown, FetchInv, cellPc = "fetch", special, data = << >>
    PROVE  bitsLeft = Size /\ cntBits = Size
<1> SUFFICES ASSUME bitsLeft \in 0..Size - 8, data = Packed(Size - bitsLeft) PROVE FALSE
  BY DEF FetchInv
<1> DEFINE n == Size - bitsLeft
<1>1. n \in Nat /\ 8 <= n /\ n <= Size
  BY BitFacts
<1> HIDE DEF n
<1>2. Len(Packed(n)) = n - 6
  BY <1>1, PackedFacts
<1>3. Len(data) = 0
  BY EmptySeq
<1>4. n = Size - bitsLeft
  BY DEF n
<1> QED BY <1>1, <1>2, <1>3, <1>4

LEMMA FetchTypeOK == ASSUME CellInv, FetchType PROVE CellInv'
<1>0. /\ cellPc = "fetch" /\ special /\ data = << >>
      /\ data' = UintBits(UintOf(Fetched) - 1, 2)
      /\ cntBits' = cntBits - 6 /\ bitsLeft' = bitsLeft - CurBits
      /\ dataCell' = dataCell /\ nCells' = nCells /\ special' = special
      /\ cellPc' = "fetch"
  BY DEF FetchType
<1>1. CellKnown /\ FetchInv
  BY DEF CellInv
<1>2. CellKnown' /\ Size' = Size /\ \A n : Packed(n)' = Packed(n)
  BY ONLY <1>0, <1>1, SameCell
<1>3. bitsLeft = Size /\ cntBits = Size
  BY <1>0, <1>1, NothingKept
<1>4. CurBits = 8 /\ Fetched = TypeByte
  BY <1>0, <1>1, <1>3, TypeFetched
<1>5. /\ Size \in Nat /\ Size >= 8 /\ UintOf(TypeByte) = dataCell.type
      /\ UintBits(dataCell.type - 1, 2) \in Seq(Bit)
  BY <1>0, <1>1, BitFacts, TypeFacts
<1>6. data' = Packed(8)
  <2>1. SubSeq(dataCell.bits, 9, 8) = << >>
    BY SubSeqEmpty
  <2>2. UintBits(dataCell.type - 1, 2) \o << >> = UintBits(dataCell.type - 1, 2)
    BY <1>5, ConcatEmptySeq
  <2> QED BY ONLY <1>0, <1>4, <1>5, <2>1, <2>2 DEF Packed
<1>7. bitsLeft' \in 0..Size - 8 /\ Size - bitsLeft' = 8 /\ cntBits' = Size - 6
  BY ONLY <1>0, <1>3, <1>4, <1>5
<1>8. FetchInv'
  BY ONLY <1>0, <1>2, <1>6, <1>7 DEF FetchInv
<1>9. /\ KeptInv' /\ BitCountInv' /\ RangeInv'
      /\ MerkleInv' /\ HashInv' /\ DepthInv' /\ BuiltInv'
  BY ONLY <1>0 DEF KeptInv, BitCountInv, RangeInv, MerkleInv, HashInv, DepthInv, BuiltInv
<1> QED BY ONLY <1>2, <1>8, <1>9 DEF CellInv

LEMMA FetchOK == ASSUME CellInv, Fetch PROVE CellInv'
<1>0. /\ cellPc = "fetch" /\ bitsLeft > 0 /\ ~ (special /\ data = << >>)
      /\ data' = data \o Fetched
      /\ cntBits' = cntBits /\ bitsLeft' = bitsLeft - CurBits
      /\ dataCell' = dataCell /\ nCells' = nCells /\ special' = special
      /\ cellPc' = "fetch"
  BY DEF Fetch
<1>1. CellKnown /\ FetchInv
  BY DEF CellInv
<1>2. CellKnown' /\ Size' = Size /\ \A n : Packed(n)' = Packed(n)
  BY ONLY <1>0, <1>1, SameCell
<1>3. dataCell.bits \in Seq(Bit) /\ Size \in Nat /\ Size = Len(dataCell.bits)
  BY <1>1, BitFacts DEF Size
<1> DEFINE a == Size - bitsLeft
           b == a + CurBits
<1>4. bitsLeft \in 0..Size
  BY ONLY <1>0, <1>1, <1>3 DEF FetchInv
<1>5. CurBits \in 1..bitsLeft
  BY ONLY <1>0, <1>3, <1>4 DEF CurBits, Smaller
<1>6. /\ a \in Nat /\ b \in Nat /\ a <= b /\ b <= Size /\ bitsLeft' \in 0..Size
      /\ Size - bitsLeft' = b /\ a = Size - bitsLeft
  BY ONLY <1>0, <1>3, <1>4, <1>5
<1>7. Fetched = SubSeq(dataCell.bits, a + 1, b)
  BY <1>3 DEF Fetched
<1> HIDE DEF a, b
<1>8. ASSUME special PROVE FetchInv'
  <2>1. bitsLeft \in 0..Size - 8 /\ data = Packed(a) /\ cntBits = Size - 6
    BY ONLY <1>0, <1>1, <1>6, <1>8 DEF FetchInv
  <2>2. a \in 8..Size /\ b \in a..Size /\ 9 \in 1..Size + 1 /\ a \in 9 - 1..Size
    BY ONLY <1>3, <1>6, <2>1
  <2> DEFINE p == UintBits(dataCell.type - 1, 2)
             s == SubSeq(dataCell.bits, 9, a)
             t == SubSeq(dataCell.bits, a + 1, b)
  <2>3. p \in Seq(Bit)
    BY <1>1, <1>8, TypeFacts
  <2>4. s \in Seq(Bit) /\ t \in Seq(Bit)
    <3>1. SubSeq(dataCell.bits, 8 + 1, a) \in Seq(Bit)
      BY ONLY <1>3, <1>6, <2>2, 8 \in Nat, CutAt
    <3>2. SubSeq(dataCell.bits, a + 1, b) \in Seq(Bit)
      BY ONLY <1>3, <1>6, CutAt
    <3>3. 8 + 1 = 9
      OBVIOUS
    <3> QED BY <3>1, <3>2, <3>3
  <2>5. s \o t = SubSeq(dataCell.bits, 9, b)
    BY ONLY <1>3, <2>2, ConcatAdjacentSubSeq
  <2> HIDE DEF p, s, t
  <2>6. (p \o s) \o t = p \o (s \o t)
    BY ONLY <2>3, <2>4, ConcatAssociative
  <2>7. data' = (p \o s) \o t
    BY ONLY <1>0, <1>7, <2>1 DEF Packed, p, s, t
  <2>8. data' = Packed(b)
    BY ONLY <2>5, <2>6, <2>7 DEF Packed, p
  <2>9. bitsLeft' \in 0..Size - 8
    BY ONLY <1>3, <1>6, <2>2
  <2> QED BY ONLY <1>0, <1>2, <1>6, <1>8, <2>1, <2>8, <2>9 DEF FetchInv
<1>9. ASSUME ~ special PROVE FetchInv'
  <2>1. data = SubSeq(dataCell.bits, 1, a) /\ cntBits = Size
    BY ONLY <1>0, <1>1, <1>6, <1>9 DEF FetchInv
  <2>2. 1 \in 1..Size + 1 /\ a \in 1 - 1..Size /\ b \in a..Size
    BY ONLY <1>3, <1>6
  <2>3. SubSeq(dataCell.bits, 1, a) \o SubSeq(dataCell.bits, a + 1, b) = SubSeq(dataCell.bits, 1, b)
    BY ONLY <1>3, <2>2, ConcatAdjacentSubSeq
  <2>4. data' = SubSeq(dataCell.bits, 1, b)
    BY ONLY <1>0, <1>7, <2>1, <2>3
  <2> QED BY ONLY <1>0, <1>2, <1>6, <1>9, <2>1, <2>4 DEF FetchInv
<1>10. FetchInv'
  BY ONLY <1>8, <1>9
<1>11. /\ KeptInv' /\ BitCountInv' /\ RangeInv'
       /\ MerkleInv' /\ HashInv' /\ DepthInv' /\ BuiltInv'
  BY ONLY <1>0 DEF KeptInv, BitCountInv, RangeInv, MerkleInv, HashInv, DepthInv, BuiltInv
<1> QED BY ONLY <1>2, <1>10, <1>11 DEF CellInv

LEMMA EndFetchOK == ASSUME CellInv, EndFetch PROVE CellInv'
<1>0. /\ cellPc = "fetch" /\ bitsLeft = 0
      /\ dataCell' = dataCell /\ nCells' = nCells /\ special' = special
      /\ cellPc' = "type"
  BY DEF EndFetch
<1>00. /\ dataCell.type \in Merkle => data' = SubSeq(data, 1, 2) /\ cntBits' = 2
       /\ dataCell.type \notin Merkle => data' = data /\ cntBits' = cntBits
  BY DEF EndFetch
<1>1. CellKnown /\ FetchInv
  BY DEF CellInv
<1>2. CellKnown' /\ Size' = Size /\ Kept' = Kept
  BY ONLY <1>0, <1>1, SameCell
<1>3. dataCell.bits \in Seq(Bit) /\ Size \in Nat /\ Size = Len(dataCell.bits) /\ Size - bitsLeft = Size
  BY <1>0, <1>1, BitFacts DEF Size
<1>4. ASSUME special PROVE KeptInv' /\ BitCountInv'
  <2>1. Size >= 8
    BY <1>1, <1>4, TypeFacts
  <2>2. data = Packed(Size) /\ cntBits = Size - 6
    BY ONLY <1>0, <1>1, <1>3, <1>4, <2>1 DEF FetchInv
  <2>3. CASE dataCell.type \in Merkle
    <3>1. SubSeq(Packed(Size), 1, 2) = UintBits(dataCell.type - 1, 2)
      BY <1>1, <1>3, <1>4, <2>1, PackedFacts
    <3>2. data' = Kept /\ cntBits' = 2
      BY ONLY <1>00, <1>4, <2>2, <2>3, <3>1 DEF Kept
    <3> QED BY ONLY <1>0, <1>2, <1>4, <2>3, <3>2 DEF KeptInv, BitCountInv
  <2>4. CASE dataCell.type \notin Merkle
    <3>1. data' = Kept /\ cntBits' = Size - 6
      BY ONLY <1>00, <1>4, <2>2, <2>4 DEF Kept
    <3> QED BY ONLY <1>0, <1>2, <1>4, <2>4, <3>1 DEF KeptInv, BitCountInv
  <2> QED BY ONLY <2>3, <2>4
<1>5. ASSUME ~ special PROVE KeptInv' /\ BitCountInv'
  <2>1. data = SubSeq(dataCell.bits, 1, Size) /\ cntBits = Size
    BY ONLY <1>0, <1>1, <1>3, <1>5 DEF FetchInv
  <2>2. SubSeq(dataCell.bits, 1, Size) = dataCell.bits
    BY ONLY <1>3, SubSeqFull
  <2>3. dataCell.type \notin Merkle
    BY ONLY <1>1, <1>5, OrdinaryFacts
  <2>4. data' = Kept /\ cntBits' = Size
    BY ONLY <1>00, <1>5, <2>1, <2>2, <2>3 DEF Kept
  <2> QED BY ONLY <1>0, <1>2, <1>5, <2>4 DEF KeptInv, BitCountInv
<1>6. KeptInv' /\ BitCountInv'
  BY ONLY <1>4, <1>5
<1>7. /\ FetchInv' /\ RangeInv'
      /\ MerkleInv' /\ HashInv' /\ DepthInv' /\ BuiltInv'
  BY ONLY <1>0 DEF FetchInv, RangeInv, MerkleInv, HashInv, DepthInv, BuiltInv
<1> QED BY ONLY <1>2, <1>6, <1>7 DEF CellInv

LEMMA RestoreTypeOK == ASSUME CellInv, RestoreType PROVE CellInv'
<1>0. /\ cellPc = "type" /\ special
      /\ cntBits' = cntBits + 6 /\ newData' = UintBits(TypeOf, 8)
      /\ dataCell' = dataCell /\ nCells' = nCells /\ special' = special /\ data' = data
      /\ cellPc' = "range"
  BY DEF RestoreType
<1>1. CellKnown /\ KeptInv /\ BitCountInv
  BY DEF CellInv
<1>2. CellKnown' /\ Size' = Size /\ Kept' = Kept
  BY ONLY <1>0, <1>1, SameCell
<1>3. data = Kept
  BY ONLY <1>0, <1>1 DEF KeptInv
<1>4. TypeOf = dataCell.type
  BY ONLY <1>1, <1>3, TypeGiven
<1>5. Size \in Nat
  BY ONLY <1>1, BitFacts
<1>6. /\ Size >= 8 /\ TypeByte \in Seq(Bit) /\ Len(TypeByte) = 8
      /\ SubSeq(dataCell.bits, 1, 8) = TypeByte
  BY ONLY <1>0, <1>1, TypeFacts
<1>7. newData' = TypeByte
  BY ONLY <1>0, <1>4 DEF TypeByte
<1>8. cntBits' = IF dataCell.type \in Merkle THEN 8 ELSE Size
  BY ONLY <1>0, <1>1, <1>5 DEF BitCountInv
<1>9. Len(newData') \in 8..cntBits' /\ newData' = SubSeq(dataCell.bits, 1, Len(newData'))
  <2>1. Len(newData') = 8
    BY ONLY <1>6, <1>7
  <2>2. cntBits' \in Nat /\ 8 <= cntBits'
    BY ONLY <1>5, <1>6, <1>8
  <2>3. Len(newData') \in 8..cntBits'
    BY ONLY <2>1, <2>2
  <2>4. newData' = SubSeq(dataCell.bits, 1, Len(newData'))
    BY ONLY <1>6, <1>7, <2>1
  <2> QED BY ONLY <2>3, <2>4
<1>10. RangeInv'
  BY ONLY <1>0, <1>2, <1>8, <1>9 DEF RangeInv
<1>11. KeptInv'
  BY ONLY <1>0, <1>2, <1>3 DEF KeptInv
<1>12. /\ FetchInv' /\ BitCountInv'
       /\ MerkleInv' /\ HashInv' /\ DepthInv' /\ BuiltInv'
  BY ONLY <1>0 DEF FetchInv, BitCountInv, MerkleInv, HashInv, DepthInv, BuiltInv
<1> QED BY ONLY <1>2, <1>10, <1>11, <1>12 DEF CellInv

LEMMA KeepOrdinaryOK == ASSUME CellInv, KeepOrdinary PROVE CellInv'
<1>0. /\ cellPc = "type" /\ ~ special
      /\ cntBits' = cntBits /\ newData' = data
      /\ dataCell' = dataCell /\ nCells' = nCells /\ special' = special /\ data' = data
      /\ cellPc' = "finalise"
  BY DEF KeepOrdinary
<1>1. CellKnown /\ KeptInv /\ BitCountInv
  BY DEF CellInv
<1>2. CellKnown' /\ Size' = Size /\ Kept' = Kept
  BY ONLY <1>0, <1>1, SameCell
<1>3. data = Kept
  BY ONLY <1>0, <1>1 DEF KeptInv
<1>4. newData' = dataCell.bits /\ cntBits' = Len(newData')
  BY ONLY <1>0, <1>1, <1>3 DEF Kept, BitCountInv, Size
<1>5. dataCell.type \notin Merkle
  BY ONLY <1>0, <1>1, OrdinaryFacts
<1>6. BuiltInv'
  BY ONLY <1>0, <1>4, <1>5 DEF BuiltInv
<1>7. KeptInv'
  BY ONLY <1>0, <1>2, <1>3 DEF KeptInv
<1>8. /\ FetchInv' /\ BitCountInv' /\ RangeInv'
      /\ MerkleInv' /\ HashInv' /\ DepthInv'
  BY ONLY <1>0 DEF FetchInv, BitCountInv, RangeInv, MerkleInv, HashInv, DepthInv
<1> QED BY ONLY <1>2, <1>6, <1>7, <1>8 DEF CellInv

LEMMA PushRangeOK == ASSUME CellInv, PushRange PROVE CellInv'
<1> DEFINE a == Len(newData)
           cur == Smaller(cntBits - a, RangeChunk)
           b == a + cur
<1>0. /\ cellPc = "range" /\ a < cntBits
      /\ newData' = newData \o SubSeq(data, (2 + (a - 8)) + 1, (2 + (a - 8)) + cur)
      /\ dataCell' = dataCell /\ nCells' = nCells /\ special' = special /\ data' = data
      /\ cntBits' = cntBits /\ cellPc' = "range"
  BY DEF PushRange
<1>1. CellKnown /\ KeptInv /\ RangeInv
  BY DEF CellInv
<1>2. CellKnown' /\ Size' = Size /\ Kept' = Kept
  BY ONLY <1>0, <1>1, SameCell
<1>3. dataCell.bits \in Seq(Bit) /\ Size \in Nat /\ Size = Len(dataCell.bits)
  BY <1>1, BitFacts DEF Size
<1>4. /\ special /\ a \in 8..cntBits /\ newData = SubSeq(dataCell.bits, 1, a)
      /\ cntBits = IF dataCell.type \in Merkle THEN 8 ELSE Size
  BY <1>0, <1>1 DEF RangeInv
<1>5. cntBits = Size /\ dataCell.type \notin Merkle
  BY ONLY <1>0, <1>4
<1>6. data = Packed(Size)
  BY ONLY <1>0, <1>1, <1>4, <1>5 DEF KeptInv, Kept
<1>7. cur \in 1..cntBits - a
  <2>1. RangeChunk \in Nat \ {0}
    BY SpecialCellAssumption
  <2> QED BY ONLY <1>0, <1>3, <1>4, <1>5, <2>1 DEF Smaller
<1>8. b = a + cur
  OBVIOUS
<1> HIDE DEF a, b, cur
<1>9. /\ a \in 8..Size /\ b \in a..Size /\ 8 <= Size /\ Size <= Size
      /\ (2 + (a - 8)) + 1 = a - 5 /\ (2 + (a - 8)) + cur = b - 6
      /\ 1 \in 1..Size + 1 /\ a \in 1 - 1..Size
  BY ONLY <1>3, <1>4, <1>5, <1>7, <1>8
<1>10. SubSeq(Packed(Size), a - 5, b - 6) = SubSeq(dataCell.bits, a + 1, b)
  <2>1. \A i \in 8..Size : \A j \in i..Size :
          SubSeq(Packed(Size), i - 5, j - 6) = SubSeq(dataCell.bits, i + 1, j)
    BY ONLY <1>1, <1>3, <1>4, <1>9, PackedFacts
  <2> QED BY ONLY <1>9, <2>1
<1>11. SubSeq(dataCell.bits, 1, a) \o SubSeq(dataCell.bits, a + 1, b) = SubSeq(dataCell.bits, 1, b)
  BY ONLY <1>3, <1>9, ConcatAdjacentSubSeq
<1>12. newData' = SubSeq(dataCell.bits, 1, b)
  BY ONLY <1>0, <1>4, <1>6, <1>9, <1>10, <1>11
<1>13. Len(SubSeq(dataCell.bits, 1, b)) = b
  <2>1. 0 \in Nat /\ b \in Nat /\ 0 <= b /\ b <= Len(dataCell.bits) /\ b - 0 = b /\ 0 + 1 = 1
    BY ONLY <1>3, <1>9
  <2>2. Len(SubSeq(dataCell.bits, 0 + 1, b)) = b - 0
    BY ONLY <1>3, <2>1, CutAt
  <2> QED BY ONLY <2>1, <2>2
<1>14. Len(newData') = b /\ b \in 8..cntBits
  BY ONLY <1>3, <1>5, <1>9, <1>12, <1>13
<1>15. RangeInv'
  BY ONLY <1>0, <1>2, <1>4, <1>12, <1>14 DEF RangeInv
<1>16. KeptInv'
  BY ONLY <1>0, <1>1, <1>2 DEF KeptInv
<1>17. /\ FetchInv' /\ BitCountInv'
       /\ MerkleInv' /\ HashInv' /\ DepthInv' /\ BuiltInv'
  BY ONLY <1>0 DEF FetchInv, BitCountInv, MerkleInv, HashInv, DepthInv, BuiltInv
<1> QED BY ONLY <1>2, <1>15, <1>16, <1>17 DEF CellInv

LEMMA EndRangeOK == ASSUME CellInv, EndRange PROVE CellInv'
<1>0. /\ cellPc = "range" /\ Len(newData) = cntBits
      /\ cellPc' = IF TypeOf \in Merkle THEN "merkle" ELSE "finalise"
      /\ dataCell' = dataCell /\ nCells' = nCells /\ special' = special /\ data' = data
      /\ cntBits' = cntBits /\ newData' = newData
  BY DEF EndRange
<1>1. CellKnown /\ KeptInv /\ RangeInv
  BY DEF CellInv
<1>2. CellKnown' /\ TypeByte' = TypeByte /\ Kept' = Kept
  BY ONLY <1>0, <1>1, SameCell
<1>3. data = Kept
  BY ONLY <1>0, <1>1 DEF KeptInv
<1>4. TypeOf = dataCell.type
  BY ONLY <1>1, <1>3, TypeGiven
<1>5. /\ special /\ newData = SubSeq(dataCell.bits, 1, cntBits)
      /\ cntBits = IF dataCell.type \in Merkle THEN 8 ELSE Size
  BY ONLY <1>0, <1>1 DEF RangeInv
<1>6. SubSeq(dataCell.bits, 1, 8) = TypeByte
  BY ONLY <1>1, <1>5, TypeFacts
<1>7. SubSeq(dataCell.bits, 1, Size) = dataCell.bits
  <2>1. dataCell.bits \in Seq(Bit)
    BY ONLY <1>1, BitFacts
  <2> QED BY ONLY <2>1, SubSeqFull DEF Size
<1>8. MerkleInv'
  BY ONLY <1>0, <1>2, <1>4, <1>5, <1>6 DEF MerkleInv
<1>9. BuiltInv'
  BY ONLY <1>0, <1>4, <1>5, <1>7 DEF BuiltInv
<1>10. KeptInv'
  BY ONLY <1>0, <1>2, <1>3 DEF KeptInv
<1>11. /\ FetchInv' /\ BitCountInv' /\ RangeInv' /\ HashInv' /\ DepthInv'
  BY ONLY <1>0 DEF FetchInv, BitCountInv, RangeInv, HashInv, DepthInv
<1> QED BY ONLY <1>2, <1>8, <1>9, <1>10, <1>11 DEF CellInv

LEMMA DigestsTyped ==
    ASSUME CellKnown, dataCell.type \in Merkle
    PROVE  /\ DepthWidth \in Nat
           /\ TypeByte \in Seq(Bit) /\ Len(TypeByte) = 8
           /\ Hashes(dataCell.below) \in Seq(Bit)
           /\ Hashes(dataCell.below) = FirstHashes(dataCell.below, Len(dataCell.below))
           /\ TypeByte \o Hashes(dataCell.below) \in Seq(Bit)
<1>1. special /\ dataCell.below \in Seq(Refs) /\ Len(dataCell.below) \in {1, 2}
  BY ONLY CellKnown, dataCell.type \in Merkle, MerkleFacts
<1>2. TypeByte \in Seq(Bit) /\ Len(TypeByte) = 8
  BY ONLY CellKnown, <1>1, TypeFacts
<1>3. DepthWidth \in Nat
  <2>1. nCells \in 1..Pow2[20] - 1
    BY DEF CellKnown
  <2> QED BY ONLY <2>1, DepthWidthOf
<1>4. Hashes(dataCell.below) = FirstHashes(dataCell.below, Len(dataCell.below))
  BY ONLY <1>1, AllDigests
<1>5. FirstHashes(dataCell.below, Len(dataCell.below)) \in Seq(Bit)
  <2>1. \A k \in 0..Len(dataCell.below) : FirstHashes(dataCell.below, k) \in Seq(Bit)
    BY ONLY <1>1, 0 \in Nat, FirstFacts
  <2>2. Len(dataCell.below) \in 0..Len(dataCell.below)
    BY ONLY <1>1
  <2> QED BY ONLY <2>1, <2>2
<1>6. Hashes(dataCell.below) \in Seq(Bit)
  BY ONLY <1>4, <1>5
<1>7. TypeByte \o Hashes(dataCell.below) \in Seq(Bit)
  BY ONLY <1>2, <1>6, ConcatProperties
<1> QED BY ONLY <1>2, <1>3, <1>4, <1>6, <1>7

LEMMA StartMerkleOK == ASSUME CellInv, StartMerkle PROVE CellInv'
<1>0. /\ cellPc = "merkle" /\ cellPc' = "hash" /\ ref' = 1
      /\ dataCell' = dataCell /\ nCells' = nCells /\ special' = special /\ data' = data
      /\ newData' = newData
  BY DEF StartMerkle
<1>1. CellKnown /\ KeptInv /\ MerkleInv
  BY DEF CellInv
<1>2. CellKnown' /\ TypeByte' = TypeByte /\ Kept' = Kept
  BY ONLY <1>0, <1>1, SameCell
<1>3. dataCell.type \in Merkle /\ newData = TypeByte
  BY ONLY <1>0, <1>1 DEF MerkleInv
<1>4. Len(dataCell.below) \in {1, 2}
  BY ONLY <1>1, <1>3, MerkleFacts
<1>5. TypeByte \in Seq(Bit)
  BY ONLY <1>1, <1>3, DigestsTyped
<1>6. TypeByte \o << >> = TypeByte
  BY ONLY <1>5, ConcatEmptySeq
<1>7. newData' = TypeByte \o FirstHashes(dataCell.below, 0)
  BY ONLY <1>0, <1>3, <1>6 DEF FirstHashes
<1>8. 1 \in 1..Len(dataCell.below) + 1 /\ 1 - 1 = 0
  BY ONLY <1>4
<1>9. HashInv'
  BY ONLY <1>0, <1>2, <1>3, <1>7, <1>8 DEF HashInv
<1>10. KeptInv'
  BY ONLY <1>0, <1>1, <1>2 DEF KeptInv
<1>11. /\ FetchInv' /\ BitCountInv' /\ RangeInv' /\ MerkleInv' /\ DepthInv' /\ BuiltInv'
  BY ONLY <1>0 DEF FetchInv, BitCountInv, RangeInv, MerkleInv, DepthInv, BuiltInv
<1> QED BY ONLY <1>2, <1>9, <1>10, <1>11 DEF CellInv

LEMMA AddHashOK == ASSUME CellInv, AddHash PROVE CellInv'
<1> DEFINE n == Len(dataCell.below)
           h == dataCell.below[ref].hash
           s == FirstHashes(dataCell.below, ref - 1)
<1>0. /\ cellPc = "hash" /\ cellPc' = "hash" /\ ref <= n /\ ref' = ref + 1
      /\ dataCell' = dataCell /\ nCells' = nCells /\ special' = special /\ data' = data
      /\ newData' = newData \o h
  BY DEF AddHash
<1>1. CellKnown /\ KeptInv /\ HashInv
  BY DEF CellInv
<1>2. CellKnown' /\ TypeByte' = TypeByte /\ Kept' = Kept
  BY ONLY <1>0, <1>1, SameCell
<1>3. dataCell.type \in Merkle /\ ref \in 1..n + 1 /\ newData = TypeByte \o s
  BY ONLY <1>0, <1>1 DEF HashInv
<1>4. dataCell.below \in Seq(Refs) /\ n \in {1, 2}
  BY ONLY <1>1, <1>3, MerkleFacts
<1>5. TypeByte \in Seq(Bit)
  BY ONLY <1>1, <1>3, DigestsTyped
<1>6. ref \in 1..n /\ ref - 1 \in 0..n /\ ref + 1 \in 1..n + 1 /\ (ref + 1) - 1 = ref
  BY ONLY <1>0, <1>3, <1>4
<1>7. h \in Seq(Bit)
  <2>1. dataCell.below[ref] \in Refs
    BY ONLY <1>4, <1>6, ElementOfSeq
  <2> QED BY ONLY <2>1, 0 \in Nat, DigestFacts
<1>8. s \in Seq(Bit) /\ FirstHashes(dataCell.below, ref) = s \o h
  <2>1. /\ \A k \in 0..n : FirstHashes(dataCell.below, k) \in Seq(Bit)
        /\ \A k \in 1..n : FirstHashes(dataCell.below, k) =
             FirstHashes(dataCell.below, k - 1) \o dataCell.below[k].hash
    BY ONLY <1>4, 0 \in Nat, FirstFacts
  <2> QED BY ONLY <1>6, <2>1
<1> HIDE DEF h, s
<1>9. (TypeByte \o s) \o h = TypeByte \o (s \o h)
  BY ONLY <1>5, <1>7, <1>8, ConcatAssociative
<1>10. newData' = TypeByte \o FirstHashes(dataCell.below, ref)
  BY ONLY <1>0, <1>3, <1>8, <1>9
<1>11. HashInv'
  BY ONLY <1>0, <1>2, <1>3, <1>6, <1>10 DEF HashInv
<1>12. KeptInv'
  BY ONLY <1>0, <1>1, <1>2 DEF KeptInv
<1>13. /\ FetchInv' /\ BitCountInv' /\ RangeInv' /\ MerkleInv' /\ DepthInv' /\ BuiltInv'
  BY ONLY <1>0 DEF FetchInv, BitCountInv, RangeInv, MerkleInv, DepthInv, BuiltInv
<1> QED BY ONLY <1>2, <1>11, <1>12, <1>13 DEF CellInv

LEMMA EndHashesOK == ASSUME CellInv, EndHashes PROVE CellInv'
<1> DEFINE n == Len(dataCell.below)
<1>0. /\ cellPc = "hash" /\ cellPc' = "depth" /\ ref > n /\ ref' = 1
      /\ dataCell' = dataCell /\ nCells' = nCells /\ special' = special /\ data' = data
      /\ newData' = newData
  BY DEF EndHashes
<1>1. CellKnown /\ KeptInv /\ HashInv
  BY DEF CellInv
<1>2. CellKnown' /\ TypeByte' = TypeByte /\ Kept' = Kept /\ \A k : Composed(k)' = Composed(k)
  BY ONLY <1>0, <1>1, SameCell
<1>3. /\ dataCell.type \in Merkle /\ ref \in 1..n + 1
      /\ newData = TypeByte \o FirstHashes(dataCell.below, ref - 1)
  BY ONLY <1>0, <1>1 DEF HashInv
<1>4. n \in {1, 2}
  BY ONLY <1>1, <1>3, MerkleFacts
<1>5. /\ TypeByte \o Hashes(dataCell.below) \in Seq(Bit)
      /\ Hashes(dataCell.below) = FirstHashes(dataCell.below, n)
  BY ONLY <1>1, <1>3, DigestsTyped
<1>6. ref - 1 = n /\ 1 \in 1..n + 1 /\ 1 - 1 = 0
  BY ONLY <1>0, <1>3, <1>4
<1>7. (TypeByte \o Hashes(dataCell.below)) \o << >> = TypeByte \o Hashes(dataCell.below)
  BY ONLY <1>5, ConcatEmptySeq
<1>8. newData = Composed(0)
  BY ONLY <1>3, <1>5, <1>6, <1>7 DEF Composed, FirstDepths
<1>9. DepthInv'
  BY ONLY <1>0, <1>2, <1>3, <1>6, <1>8 DEF DepthInv
<1>10. KeptInv'
  BY ONLY <1>0, <1>1, <1>2 DEF KeptInv
<1>11. /\ FetchInv' /\ BitCountInv' /\ RangeInv' /\ MerkleInv' /\ HashInv' /\ BuiltInv'
  BY ONLY <1>0 DEF FetchInv, BitCountInv, RangeInv, MerkleInv, HashInv, BuiltInv
<1> QED BY ONLY <1>2, <1>9, <1>10, <1>11 DEF CellInv

LEMMA AddDepthOK == ASSUME CellInv, AddDepth PROVE CellInv'
<1> DEFINE n == Len(dataCell.below)
           d == UintBits(dataCell.below[ref].depth, DepthWidth)
           t == TypeByte \o Hashes(dataCell.below)
           s == FirstDepths(dataCell.below, ref - 1, DepthWidth)
<1>0. /\ cellPc = "depth" /\ cellPc' = "depth" /\ ref <= n /\ ref' = ref + 1
      /\ dataCell' = dataCell /\ nCells' = nCells /\ special' = special /\ data' = data
      /\ newData' = newData \o d
  BY DEF AddDepth
<1>1. CellKnown /\ KeptInv /\ DepthInv
  BY DEF CellInv
<1>2. CellKnown' /\ Kept' = Kept /\ \A k : Composed(k)' = Composed(k)
  BY ONLY <1>0, <1>1, SameCell
<1>3. dataCell.type \in Merkle /\ ref \in 1..n + 1 /\ newData = t \o s
  BY ONLY <1>0, <1>1 DEF DepthInv, Composed
<1>4. dataCell.below \in Seq(Refs) /\ n \in {1, 2}
  BY ONLY <1>1, <1>3, MerkleFacts
<1>5. t \in Seq(Bit) /\ DepthWidth \in Nat
  BY ONLY <1>1, <1>3, DigestsTyped
<1>6. ref \in 1..n /\ ref - 1 \in 0..n /\ ref + 1 \in 1..n + 1 /\ (ref + 1) - 1 = ref
  BY ONLY <1>0, <1>3, <1>4
<1>7. d \in Seq(Bit)
  <2>1. dataCell.below[ref] \in Refs
    BY ONLY <1>4, <1>6, ElementOfSeq
  <2> QED BY ONLY <1>5, <2>1, DigestFacts
<1>8. s \in Seq(Bit) /\ FirstDepths(dataCell.below, ref, DepthWidth) = s \o d
  <2>1. /\ \A k \in 0..n : FirstDepths(dataCell.below, k, DepthWidth) \in Seq(Bit)
        /\ \A k \in 1..n : FirstDepths(dataCell.below, k, DepthWidth) =
             FirstDepths(dataCell.below, k - 1, DepthWidth)
               \o UintBits(dataCell.below[k].depth, DepthWidth)
    BY ONLY <1>4, <1>5, FirstFacts
  <2> QED BY ONLY <1>6, <2>1
<1> HIDE DEF d, s, t
<1>9. (t \o s) \o d = t \o (s \o d)
  BY ONLY <1>5, <1>7, <1>8, ConcatAssociative
<1>10. newData' = Composed(ref)
  BY ONLY <1>0, <1>3, <1>8, <1>9 DEF Composed, t
<1>11. DepthInv'
  BY ONLY <1>0, <1>2, <1>3, <1>6, <1>10 DEF DepthInv
<1>12. KeptInv'
  BY ONLY <1>0, <1>1, <1>2 DEF KeptInv
<1>13. /\ FetchInv' /\ BitCountInv' /\ RangeInv' /\ MerkleInv' /\ HashInv' /\ BuiltInv'
  BY ONLY <1>0 DEF FetchInv, BitCountInv, RangeInv, MerkleInv, HashInv, BuiltInv
<1> QED BY ONLY <1>2, <1>11, <1>12, <1>13 DEF CellInv

LEMMA EndDepthsOK == ASSUME CellInv, EndDepths PROVE CellInv'
<1> DEFINE n == Len(dataCell.below)
<1>0. /\ cellPc = "depth" /\ cellPc' = "finalise" /\ ref > n /\ cntBits' = Len(newData)
      /\ dataCell' = dataCell /\ nCells' = nCells /\ special' = special /\ data' = data
      /\ newData' = newData
  BY DEF EndDepths
<1>1. CellKnown /\ KeptInv /\ DepthInv
  BY DEF CellInv
<1>2. CellKnown' /\ Kept' = Kept /\ \A k : Composed(k)' = Composed(k)
  BY ONLY <1>0, <1>1, SameCell
<1>3. dataCell.type \in Merkle /\ ref \in 1..n + 1 /\ newData = Composed(ref - 1)
  BY ONLY <1>0, <1>1 DEF DepthInv
<1>4. n \in {1, 2}
  BY ONLY <1>1, <1>3, MerkleFacts
<1>5. ref - 1 = n
  BY ONLY <1>0, <1>3, <1>4
<1>6. BuiltInv'
  BY ONLY <1>0, <1>2, <1>3, <1>5 DEF BuiltInv
<1>7. KeptInv'
  BY ONLY <1>0, <1>1, <1>2 DEF KeptInv
<1>8. /\ FetchInv' /\ BitCountInv' /\ RangeInv' /\ MerkleInv' /\ HashInv' /\ DepthInv'
  BY ONLY <1>0 DEF FetchInv, BitCountInv, RangeInv, MerkleInv, HashInv, DepthInv
<1> QED BY ONLY <1>2, <1>6, <1>7, <1>8 DEF CellInv

LEMMA FinaliseOK == ASSUME CellInv, Finalise PROVE CellInv'
<1>0. /\ cellPc = "finalise" /\ cellPc' = "done" /\ cntBits' = cntBits
      /\ dataCell' = dataCell /\ nCells' = nCells /\ special' = special /\ data' = data
      /\ newData' = newData
  BY DEF Finalise
<1>1. CellKnown /\ KeptInv /\ BuiltInv
  BY DEF CellInv
<1>2. CellKnown' /\ Kept' = Kept /\ \A k : Composed(k)' = Composed(k)
  BY ONLY <1>0, <1>1, SameCell
<1>3. BuiltInv'
  BY ONLY <1>0, <1>1, <1>2 DEF BuiltInv
<1>4. KeptInv'
  BY ONLY <1>0, <1>1, <1>2 DEF KeptInv
<1>5. FetchInv' /\ BitCountInv' /\ RangeInv' /\ MerkleInv' /\ HashInv' /\ DepthInv'
  BY ONLY <1>0 DEF FetchInv, BitCountInv, RangeInv, MerkleInv, HashInv, DepthInv
<1> QED BY ONLY <1>2, <1>3, <1>4, <1>5 DEF CellInv

LEMMA CellStutterOK == ASSUME CellInv, UNCHANGED cellVars PROVE CellInv'
<1>0. /\ dataCell' = dataCell /\ nCells' = nCells /\ special' = special /\ cntBits' = cntBits
      /\ data' = data /\ bitsLeft' = bitsLeft /\ newData' = newData /\ ref' = ref
      /\ cellPc' = cellPc
  BY DEF cellVars
<1>1. CellKnown
  BY DEF CellInv
<1>2. /\ CellKnown' /\ Size' = Size /\ TypeByte' = TypeByte /\ Kept' = Kept
      /\ \A n : Packed(n)' = Packed(n) /\ \A k : Composed(k)' = Composed(k)
  BY ONLY <1>0, <1>1, SameCell
<1>3. FetchInv' /\ KeptInv' /\ BitCountInv' /\ RangeInv'
  BY <1>0, <1>2 DEF CellInv, FetchInv, KeptInv, BitCountInv, RangeInv
<1>4. MerkleInv' /\ HashInv' /\ DepthInv' /\ BuiltInv'
  BY <1>0, <1>2 DEF CellInv, MerkleInv, HashInv, DepthInv, BuiltInv
<1> QED BY ONLY <1>2, <1>3, <1>4 DEF CellInv

LEMMA CellStepOK == CellInv /\ [CellNext]_cellVars => CellInv'
<1> SUFFICES ASSUME CellInv, [CellNext]_cellVars PROVE CellInv'
  OBVIOUS
<1>1. CASE FetchType  BY <1>1, FetchTypeOK
<1>2. CASE Fetch  BY <1>2, FetchOK
<1>3. CASE EndFetch  BY <1>3, EndFetchOK
<1>4. CASE RestoreType  BY <1>4, RestoreTypeOK
<1>5. CASE KeepOrdinary  BY <1>5, KeepOrdinaryOK
<1>6. CASE PushRange  BY <1>6, PushRangeOK
<1>7. CASE EndRange  BY <1>7, EndRangeOK
<1>8. CASE StartMerkle  BY <1>8, StartMerkleOK
<1>9. CASE AddHash  BY <1>9, AddHashOK
<1>10. CASE EndHashes  BY <1>10, EndHashesOK
<1>11. CASE AddDepth  BY <1>11, AddDepthOK
<1>12. CASE EndDepths  BY <1>12, EndDepthsOK
<1>13. CASE Finalise  BY <1>13, FinaliseOK
<1>14. CASE CellDone \/ UNCHANGED cellVars
  BY <1>14, CellStutterOK DEF CellDone
<1> QED
  BY <1>1, <1>2, <1>3, <1>4, <1>5, <1>6, <1>7, <1>8, <1>9, <1>10, <1>11, <1>12, <1>13, <1>14
  DEF CellNext

LEMMA CellInductive == CellSpec => []CellInv
BY CellInitOK, CellStepOK, PTL DEF CellSpec
-----------------------------------------------------------------------------
(* What has been put together is the cell exactly when the depths have their width. *)
LEMMA BuiltRight ==
    ASSUME CellInv, cellPc \in {"finalise", "done"}
    PROVE  newData = dataCell.bits <=> DepthsFit
<1>1. CellKnown /\ BuiltInv
  BY DEF CellInv
<1>2. newData = IF dataCell.type \in Merkle THEN Composed(Len(dataCell.below)) ELSE dataCell.bits
  BY ONLY <1>1, cellPc \in {"finalise", "done"} DEF BuiltInv
<1>3. CASE dataCell.type \notin Merkle
  BY <1>2, <1>3 DEF DepthsFit
<1>4. CASE dataCell.type \in Merkle
  <2> DEFINE n == Len(dataCell.below)
             t == TypeByte \o Hashes(dataCell.below)
             d(w) == FirstDepths(dataCell.below, n, w)
  <2>1. dataCell.below \in Seq(Refs) /\ n \in {1, 2} /\ dataCell.bits = t \o Depths(dataCell.below)
    BY ONLY <1>1, <1>4, MerkleFacts
  <2>2. t \in Seq(Bit) /\ DepthWidth \in Nat
    BY ONLY <1>1, <1>4, DigestsTyped
  <2>3. Depths(dataCell.below) = d(DepthBits)
    BY ONLY <2>1, AllDigests
  <2>4. newData = t \o d(DepthWidth) /\ dataCell.bits = t \o d(DepthBits)
    BY ONLY <1>2, <1>4, <2>1, <2>3 DEF Composed
  <2>5. DepthsFit <=> DepthWidth = DepthBits
    <3>1. nCells \in 1..Pow2[20] - 1
      BY <1>1 DEF CellKnown
    <3>2. DepthWidth = DepthBits <=> (256 <= nCells /\ nCells <= 65535)
      BY ONLY <3>1, DepthWidthOf
    <3> QED BY ONLY <1>4, <3>2 DEF DepthsFit
  <2>6. ASSUME newData = dataCell.bits PROVE DepthWidth = DepthBits
    <3>1. ASSUME NEW w \in Nat PROVE d(w) \in Seq(Bit) /\ Len(d(w)) = n * w
      <4>1. \A k \in 0..n : /\ FirstDepths(dataCell.below, k, w) \in Seq(Bit)
                            /\ Len(FirstDepths(dataCell.below, k, w)) = k * w
        BY ONLY <2>1, w \in Nat, FirstFacts
      <4>2. n \in 0..n
        BY ONLY <2>1
      <4> QED BY ONLY <4>1, <4>2
    <3>2. DepthBits \in Nat
      BY DEF DepthBits
    <3> HIDE DEF t, d, n
    <3>3. Len(t \o d(DepthWidth)) = Len(t) + n * DepthWidth
      BY ONLY <2>2, <3>1, ConcatProperties
    <3>4. Len(t \o d(DepthBits)) = Len(t) + n * DepthBits
      BY ONLY <2>2, <3>1, <3>2, ConcatProperties
    <3>5. Len(t) \in Nat
      BY ONLY <2>2, LenProperties
    <3>6. Len(t) + n * DepthWidth = Len(t) + n * DepthBits
      BY ONLY <2>4, <2>6, <3>3, <3>4
    <3>7. n = 1 \/ n = 2
      BY ONLY <2>1
    <3> QED BY ONLY <2>2, <3>2, <3>5, <3>6, <3>7
  <2>7. ASSUME DepthWidth = DepthBits PROVE newData = dataCell.bits
    BY ONLY <2>4, <2>7
  <2> QED BY ONLY <2>5, <2>6, <2>7
<1> QED BY <1>3, <1>4

(* For every cell, in a block of every size: what my_cells_to_vm_root puts together from
   what the constructor kept is the cell, its type, its bits and their number, with one
   exception.  A Merkle cell comes back exactly in the blocks of 256 to 65535 cells: its
   depths are written in as many bytes as the number of cells takes, and not in two. *)
THEOREM CellContentsComeBack ==
    CellSpec => [](cellPc \in {"finalise", "done"} => (CellComesBack <=> DepthsFit))
<1>1. CellInv => (cellPc \in {"finalise", "done"} => (CellComesBack <=> DepthsFit))
  <2> SUFFICES ASSUME CellInv, cellPc \in {"finalise", "done"}
               PROVE  CellComesBack <=> DepthsFit
    OBVIOUS
  <2>1. newData = dataCell.bits <=> DepthsFit
    BY BuiltRight
  <2>2. CellKnown /\ KeptInv /\ BuiltInv
    BY DEF CellInv
  <2>3. data = Kept /\ cntBits = Len(newData)
    BY ONLY <2>2, cellPc \in {"finalise", "done"} DEF KeptInv, BuiltInv
  <2>4. TypeOf = dataCell.type
    BY ONLY <2>2, <2>3, TypeGiven
  <2>5. special = (dataCell.type # Ordinary)
    BY ONLY <2>2 DEF CellKnown
  <2>6. CellComesBack <=> newData = dataCell.bits
    BY ONLY <2>3, <2>4, <2>5, cellPc \in {"finalise", "done"} DEF CellComesBack
  <2> QED BY ONLY <2>1, <2>6
<1> QED BY <1>1, CellInductive, PTL

(* What the cell builder accepts is the cell that went in, in a block of any size: a cell
   that is put together wrong stops the decoder. *)
THEOREM NoOtherCellAccepted == CellSpec => [](cellPc = "done" => newData = dataCell.bits)
<1> DEFINE DoneInv == cellPc = "done" => Accepted
<1>1. CellInit => DoneInv
  BY DEF CellInit
<1>2. CellInv /\ DoneInv /\ [CellNext]_cellVars => DoneInv'
  <2> SUFFICES ASSUME DoneInv, [CellNext]_cellVars, cellPc' = "done" PROVE Accepted'
    OBVIOUS
  <2>1. Finalise \/ CellDone \/ UNCHANGED cellVars
    BY DEF CellNext, FetchType, Fetch, EndFetch, RestoreType, KeepOrdinary, PushRange, EndRange,
           StartMerkle, AddHash, EndHashes, AddDepth, EndDepths
  <2>2. Accepted /\ special' = special /\ newData' = newData /\ dataCell' = dataCell
    BY <2>1 DEF Finalise, CellDone, cellVars
  <2> QED BY <2>2 DEF Accepted
<1>3. CellInv /\ DoneInv => (cellPc = "done" => newData = dataCell.bits)
  <2> SUFFICES ASSUME CellInv, Accepted, cellPc = "done" PROVE newData = dataCell.bits
    OBVIOUS
  <2>1. CellKnown /\ BuiltInv
    BY DEF CellInv
  <2>2. newData = IF dataCell.type \in Merkle THEN Composed(Len(dataCell.below)) ELSE dataCell.bits
    BY <2>1 DEF BuiltInv
  <2>3. CASE dataCell.type \notin Merkle
    BY <2>2, <2>3
  <2>4. CASE dataCell.type \in Merkle
    <3> DEFINE n == Len(dataCell.below)
               h == Hashes(dataCell.below)
               d == FirstDepths(dataCell.below, n, DepthWidth)
    <3>1. special /\ dataCell.below \in Seq(Refs) /\ n \in {1, 2}
          /\ dataCell.bits = (TypeByte \o h) \o Depths(dataCell.below)
      BY ONLY <2>1, <2>4, MerkleFacts
    <3>2. TypeByte \in Seq(Bit) /\ Len(TypeByte) = 8 /\ h \in Seq(Bit) /\ DepthWidth \in Nat
          /\ TypeByte \o h \in Seq(Bit)
      BY ONLY <2>1, <2>4, DigestsTyped
    <3>3. d \in Seq(Bit)
      <4>1. \A k \in 0..n : FirstDepths(dataCell.below, k, DepthWidth) \in Seq(Bit)
        BY ONLY <3>1, <3>2, FirstFacts
      <4>2. n \in 0..n
        BY ONLY <3>1
      <4> QED BY ONLY <4>1, <4>2
    <3>4. UintOf(TypeByte) = dataCell.type
      BY ONLY <2>1, <3>1, TypeFacts
    <3>5. newData = (TypeByte \o h) \o d
      BY ONLY <2>2, <2>4 DEF Composed
    <3> HIDE DEF h, d
    <3>6. (TypeByte \o h) \o d = TypeByte \o (h \o d) /\ h \o d \in Seq(Bit)
      <4>1. (TypeByte \o h) \o d = TypeByte \o (h \o d)
        BY ONLY <3>2, <3>3, ConcatAssociative
      <4>2. h \o d \in Seq(Bit)
        BY ONLY <3>2, <3>3, ConcatProperties
      <4> QED BY ONLY <4>1, <4>2
    <3>7. SubSeq(TypeByte \o (h \o d), 1, 8) = SubSeq(TypeByte, 1, 8)
      <4>1. 1 \in 1..Len(TypeByte) /\ 8 \in 1..Len(TypeByte)
        BY ONLY <3>2
      <4> QED BY ONLY <3>2, <3>6, <4>1, SubSeqOfConcat1
    <3>8. SubSeq(TypeByte, 1, Len(TypeByte)) = TypeByte
      BY ONLY <3>2, SubSeqFull
    <3>9. UintOf(SubSeq(newData, 1, 8)) = dataCell.type
      BY ONLY <3>2, <3>4, <3>5, <3>6, <3>7, <3>8
    <3>10. newData = MerkleBits(dataCell.type, dataCell.below)
      BY ONLY Accepted, <2>4, <3>1, <3>9 DEF Accepted
    <3> QED BY ONLY <3>1, <3>10 DEF MerkleBits, TypeByte, h
  <2> QED BY <2>3, <2>4
<1> HIDE DEF DoneInv
<1> QED BY <1>1, <1>2, <1>3, CellInductive, PTL DEF CellSpec

(* No CHECK of the constructor or of my_cells_to_vm_root fails, and the cell builder
   accepts the cell, for a Merkle cell in a block of 256 to 65535 cells. *)
THEOREM CellChecksHold == CellSpec => [](DepthsFit => ChecksHold)
<1>1. CellInv => (DepthsFit => ChecksHold)
  <2> SUFFICES ASSUME CellInv, DepthsFit PROVE ChecksHold
    OBVIOUS
  <2>1. /\ CellKnown /\ FetchInv /\ KeptInv /\ RangeInv /\ MerkleInv /\ BuiltInv
    BY DEF CellInv
  <2>2. ASSUME cellPc = "fetch", special, data = << >>
        PROVE  CurBits >= 8 /\ UintOf(Fetched) \in 1..4
    <3>1. bitsLeft = Size
      BY ONLY <2>1, <2>2, NothingKept
    <3>2. CurBits = 8 /\ Fetched = TypeByte
      BY ONLY <2>1, <2>2, <3>1, TypeFetched
    <3>3. UintOf(TypeByte) = dataCell.type /\ dataCell.type \in 1..4
      BY ONLY <2>1, <2>2, TypeFacts
    <3> QED BY ONLY <3>2, <3>3
  <2>3. ASSUME cellPc = "type", special PROVE TypeOf # Ordinary
    <3>1. data = Kept
      BY ONLY <2>1, <2>3 DEF KeptInv
    <3>2. TypeOf = dataCell.type
      BY ONLY <2>1, <3>1, TypeGiven
    <3>3. special = (dataCell.type # Ordinary)
      BY ONLY <2>1 DEF CellKnown
    <3> QED BY ONLY <2>3, <3>2, <3>3
  <2>4. ASSUME cellPc = "range", Len(newData) >= cntBits PROVE Len(newData) = cntBits
    <3>1. Len(newData) \in 8..cntBits /\ cntBits \in Int
      <4>1. Size \in Nat
        BY ONLY <2>1, BitFacts
      <4> QED BY ONLY <2>1, <2>4, <4>1 DEF RangeInv
    <3> QED BY ONLY <2>4, <3>1
  <2>5. ASSUME cellPc = "merkle" PROVE Len(dataCell.below) <= 2 /\ cntBits = 8
    <3>1. dataCell.type \in Merkle /\ cntBits = 8
      BY ONLY <2>1, <2>5 DEF MerkleInv
    <3>2. Len(dataCell.below) \in {1, 2}
      BY ONLY <2>1, <3>1, MerkleFacts
    <3>3. \A n \in {1, 2} : n <= 2
      OBVIOUS
    <3>4. Len(dataCell.below) <= 2
      BY ONLY <3>2, <3>3
    <3> QED BY ONLY <3>1, <3>4
  <2>6. ASSUME cellPc = "finalise" PROVE Accepted
    <3>1. newData = dataCell.bits
      BY <2>6, BuiltRight
    <3>2. SUFFICES ASSUME special
                   PROVE  /\ UintOf(SubSeq(newData, 1, 8)) \in PrunedBranch..MerkleUpdate
                          /\ UintOf(SubSeq(newData, 1, 8)) \in Merkle =>
                               newData = MerkleBits(UintOf(SubSeq(newData, 1, 8)), dataCell.below)
      BY DEF Accepted
    <3>3. /\ SubSeq(dataCell.bits, 1, 8) = TypeByte
          /\ UintOf(TypeByte) = dataCell.type /\ dataCell.type \in 1..4
      BY ONLY <2>1, <3>2, TypeFacts
    <3>4. UintOf(SubSeq(newData, 1, 8)) = dataCell.type
      BY ONLY <3>1, <3>3
    <3>5. dataCell.type \in Merkle => dataCell.bits = MerkleBits(dataCell.type, dataCell.below)
      BY ONLY <2>1 DEF CellKnown, IsCell
    <3>6. dataCell.type \in PrunedBranch..MerkleUpdate
      BY ONLY <3>3 DEF PrunedBranch, MerkleUpdate
    <3> QED BY ONLY <3>1, <3>4, <3>5, <3>6
  <2> QED BY ONLY <2>2, <2>3, <2>4, <2>5, <2>6 DEF ChecksHold
<1> QED BY <1>1, CellInductive, PTL
=============================================================================
