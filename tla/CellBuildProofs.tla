--------------------------- MODULE CellBuildProofs ---------------------------
(***************************************************************************)
(* Proofs about CellBuild, for every set of rooted acyclic graphs and any  *)
(* numbering of their cells.                                               *)
(*                                                                         *)
(* The stack of dfs is a path of references (FramesBehind), so a reference *)
(* to a cell that has been visited cannot lead to a running call: that     *)
(* would close a cycle.  Hence it leads to a sorted cell, and when a call  *)
(* returns all references of its cell are sorted.                          *)
(***************************************************************************)
EXTENDS CellBuild, DataFacts

TypeInv ==
    /\ IsRooted(graph)
    /\ was \in [Ids -> BOOLEAN]
    /\ stack \in Seq([v : Ids, next : Nat \ {0}])
    /\ v \in 0..Cardinality(Ids)
    /\ order \in Seq(Ids)
    /\ cells = [c \in Ids |-> cells[c]]
    /\ ready \in [Ids -> BOOLEAN]
    /\ built \in 0..Len(order)
    /\ pc \in {"sort", "build", "done"}

(* What the loop of a running call has passed is sorted, but for the reference
   that the call above it runs for. *)
FramesBehind ==
    \A d \in 1..Len(stack) :
        /\ stack[d].next <= Len(graph[stack[d].v]) + 1
        /\ d < Len(stack) =>
            stack[d].next > 1 /\ graph[stack[d].v][stack[d].next - 1] = stack[d + 1].v
        /\ \A j \in 1..stack[d].next - 1 :
            graph[stack[d].v][j] \in Sorted \/ (j = stack[d].next - 1 /\ d < Len(stack))

LoopBehind == \A c \in Ids : c < v => was[c]

(* The cells built so far, and nothing else, are ready, and made of the cells
   that their references number. *)
BuiltRight ==
    /\ \A c \in Ids : ready[c] <=> \E k \in 1..built : order[k] = c
    /\ \A k \in 1..built : cells[order[k]] =
        [id |-> order[k],
         refs |-> [j \in 1..Len(graph[order[k]]) |-> cells[graph[order[k]][j]]]]

PhaseOK ==
    /\ pc = "sort" => built = 0
    /\ pc # "sort" => stack = << >> /\ Sorted = Ids
    /\ pc = "done" => built = Len(order) /\ result = cells[order[Len(order)]]

IInv ==
    /\ TypeInv
    /\ VisitedOnce
    /\ SortedAfterRefs
    /\ FramesBehind
    /\ LoopBehind
    /\ BuiltRight
    /\ PhaseOK
-----------------------------------------------------------------------------
LEMMA GraphFacts ==
    ASSUME IsRooted(graph)
    PROVE  /\ IsFiniteSet(Ids) /\ Cardinality(Ids) \in Nat
           /\ Ids = 0..Cardinality(Ids) - 1
           /\ \A c \in Ids : /\ graph[c] \in Seq(Ids) /\ Len(graph[c]) \in Nat
                             /\ Len(graph[c]) <= MaxRefs
                             /\ \A j \in 1..Len(graph[c]) : graph[c][j] \in Ids
           /\ Acyclic(graph)
           /\ \E r \in Ids : RootedAt(graph, r)
<1>1. IsDag(graph) /\ Ids = 0..Cardinality(Ids) - 1 /\ \E r \in Ids : RootedAt(graph, r)
  BY DEF IsRooted, Ids
<1>2. IsFiniteSet(Ids) /\ Cardinality(Ids) \in Nat
  BY <1>1, FS_CardinalityType DEF IsDag, Ids
<1>3. ASSUME NEW c \in Ids
      PROVE  /\ graph[c] \in Seq(Ids) /\ Len(graph[c]) \in Nat
             /\ Len(graph[c]) <= MaxRefs
             /\ \A j \in 1..Len(graph[c]) : graph[c][j] \in Ids
  BY <1>1 DEF IsDag, Ids
<1> QED BY <1>1, <1>2, <1>3 DEF IsDag

(* A reference is a slot, for the definitions of CellGraph. *)
LEMMA RefIsSlot ==
    ASSUME IsRooted(graph), NEW c \in Ids, NEW j \in 1..Len(graph[c])
    PROVE  /\ <<c, j>> \in Slots(graph) /\ <<c, j>>[1] = c
           /\ Target(graph, <<c, j>>) = graph[c][j]
<1>1. Len(graph[c]) \in Nat /\ Len(graph[c]) <= MaxRefs
  BY GraphFacts
<1>2. j \in 1..MaxRefs /\ j <= Len(graph[c])
  BY <1>1 DEF MaxRefs
<1> QED BY <1>2 DEF Slots, Target, Ids

Frames == [v : Ids, next : Nat \ {0}]

LEMMA FrameTypes ==
    ASSUME TypeInv
    PROVE  /\ Len(stack) \in Nat
           /\ stack # << >> => Len(stack) \in 1..Len(stack)
           /\ \A d \in 1..Len(stack) : /\ stack[d] \in Frames
                                       /\ stack[d].v \in Ids /\ stack[d].next \in Nat \ {0}
<1>1. stack \in Seq(Frames)
  BY DEF TypeInv, Frames
<1>2. Len(stack) \in Nat /\ \A d \in 1..Len(stack) : stack[d] \in Frames
  BY <1>1, LenProperties, ElementOfSeq
<1>3. stack # << >> => Len(stack) \in 1..Len(stack)
  BY <1>1, TopFacts
<1> QED BY <1>2, <1>3 DEF Frames

(* A cell that dfs meets again has been sorted: a running call is
   never referred to by one above it. *)
LEMMA VisitedIsSorted ==
    ASSUME IInv, HasRef, was[To]
    PROVE  To \in Sorted
<1> DEFINE n == Len(stack)
<1> USE DEF IInv
<1>1. /\ n \in Nat /\ n \in 1..n
      /\ \A d \in 1..n : stack[d].v \in Ids /\ stack[d].next \in Nat \ {0}
  BY FrameTypes DEF HasRef
<1>2. Frame.v \in Ids /\ Frame.next \in 1..Len(graph[Frame.v]) /\ To \in Ids
  <2>1. Frame.v \in Ids /\ Frame.next \in Nat \ {0}
    BY <1>1 DEF Frame
  <2>2. Len(graph[Frame.v]) \in Nat /\ Frame.next <= Len(graph[Frame.v])
    BY <2>1, GraphFacts DEF TypeInv, HasRef
  <2> QED BY <2>1, <2>2, GraphFacts DEF TypeInv, To
<1> SUFFICES ASSUME To \notin Sorted PROVE FALSE
  OBVIOUS
<1>3. PICK e \in 1..n : stack[e].v = To
  BY <1>2 DEF VisitedOnce, OnStack
<1> DEFINE S == {stack[d].v : d \in e..n}
<1>4. S \subseteq Ids /\ S # {} /\ To \in S
  BY <1>1, <1>3
<1>5. PICK c \in S : \A s \in Slots(graph) : s[1] = c => Target(graph, s) \notin S
  BY <1>4, GraphFacts DEF TypeInv, Acyclic, Ids
<1>6. PICK d \in e..n : c = stack[d].v
  BY <1>5
<1>7. CASE d = n
  <2>1. <<c, Frame.next>> \in Slots(graph) /\ Target(graph, <<c, Frame.next>>) = To
    BY <1>2, <1>6, <1>7, RefIsSlot DEF TypeInv, Frame, To
  <2> QED BY <1>4, <1>5, <2>1
<1>8. CASE d # n
  <2>1. d \in 1..n /\ d < n /\ d + 1 \in e..n
    BY <1>1, <1>6, <1>8
  <2>2. /\ stack[d].next - 1 \in 1..Len(graph[c])
        /\ graph[c][stack[d].next - 1] = stack[d + 1].v
    <3>1. stack[d].next \in Nat /\ c \in Ids /\ Len(graph[c]) \in Nat
      BY <1>1, <1>6, <2>1, GraphFacts DEF TypeInv
    <3>2. /\ stack[d].next <= Len(graph[c]) + 1 /\ stack[d].next > 1
          /\ graph[c][stack[d].next - 1] = stack[d + 1].v
      BY <1>6, <2>1 DEF FramesBehind
    <3> QED BY <3>1, <3>2
  <2>3. /\ <<c, stack[d].next - 1>> \in Slots(graph)
        /\ Target(graph, <<c, stack[d].next - 1>>) = stack[d + 1].v
    BY <1>1, <1>6, <2>1, <2>2, RefIsSlot DEF TypeInv
  <2>4. stack[d + 1].v \in S
    BY <2>1
  <2> QED BY <1>5, <2>3, <2>4
<1> QED BY <1>7, <1>8
-----------------------------------------------------------------------------
LEMMA CalledOK == IsRooted(graph) /\ Called => IInv
<1> SUFFICES ASSUME IsRooted(graph), Called PROVE IInv
  OBVIOUS
<1>1. IsRooted(graph) /\ IsFiniteSet(Ids) /\ Cardinality(Ids) \in Nat
  BY GraphFacts
<1>2. Len(stack) = 0 /\ Len(order) = 0
  BY EmptySeq DEF Called
<1>3. TypeInv
  <2>1. stack \in Seq(Frames) /\ order \in Seq(Ids)
    BY EmptySeq DEF Called
  <2> QED BY <1>1, <1>2, <2>1 DEF Called, TypeInv, Frames
<1>4. Sorted = {} /\ OnStack = {}
  BY <1>2 DEF Sorted, OnStack
<1>5. VisitedOnce
  BY <1>2, <1>4 DEF VisitedOnce, Called
<1>6. LoopBehind
  <2>1. \A c \in Ids : c \in Int /\ c >= 0
    BY <1>1, GraphFacts
  <2> QED BY <2>1 DEF LoopBehind, Called
<1>7. SortedAfterRefs /\ FramesBehind /\ BuiltRight
  BY <1>2 DEF SortedAfterRefs, FramesBehind, BuiltRight, Called
<1> QED BY <1>3, <1>5, <1>6, <1>7 DEF IInv, PhaseOK, Called

(* The call of dfs for a cell that has not been visited, on top of frames whose
   loops have just passed the reference to the call above them. *)
LEMMA CallOK ==
    ASSUME IInv, NEW c \in Ids, NEW frames \in Seq(Frames),
           Len(frames) = Len(stack),
           \A d \in 1..Len(stack) : frames[d].v = stack[d].v,
           \A d \in 1..Len(frames) :
             /\ frames[d].next <= Len(graph[frames[d].v]) + 1
             /\ frames[d].next > 1
             /\ graph[frames[d].v][frames[d].next - 1] =
                  IF d = Len(frames) THEN c ELSE frames[d + 1].v
             /\ \A j \in 1..frames[d].next - 1 :
                  graph[frames[d].v][j] \in Sorted \/ j = frames[d].next - 1,
           Call(c, frames), UNCHANGED <<graph, order>>
    PROVE  /\ stack' \in Seq(Frames) /\ was' \in [Ids -> BOOLEAN]
           /\ was' = [was EXCEPT ![c] = TRUE]
           /\ VisitedOnce' /\ FramesBehind'
<1> DEFINE n == Len(stack)
<1>1. n \in Nat /\ was \in [Ids -> BOOLEAN] /\ Sorted' = Sorted /\ Ids' = Ids
  BY FrameTypes DEF IInv, TypeInv, Sorted, Ids
<1>2. [v |-> c, next |-> 1] \in Frames
  BY DEF Frames
<1>3. /\ stack' = Append(frames, [v |-> c, next |-> 1])
      /\ was' = [was EXCEPT ![c] = TRUE] /\ ~ was[c]
  BY DEF Call
<1>4. /\ stack' \in Seq(Frames) /\ Len(stack') = n + 1
      /\ \A d \in 1..n : stack'[d] = frames[d]
      /\ stack'[n + 1] = [v |-> c, next |-> 1]
  BY <1>2, <1>3, PushFacts
<1>5. OnStack' = OnStack \cup {c}
  <2>1. \A d \in 1..n : stack'[d].v = stack[d].v
    BY <1>4
  <2>2. 1..n + 1 = (1..n) \cup {n + 1}
    BY <1>1
  <2>3. OnStack' = {stack'[d].v : d \in 1..n + 1}
    BY <1>4 DEF OnStack
  <2>4. stack'[n + 1].v = c
    BY <1>4
  <2>5. {stack'[d].v : d \in 1..n} = OnStack
    <3>1. {stack'[d].v : d \in 1..n} \subseteq OnStack
      BY <2>1 DEF OnStack
    <3>2. OnStack \subseteq {stack'[d].v : d \in 1..n}
      BY <2>1 DEF OnStack
    <3> QED BY <3>1, <3>2
  <2>6. OnStack' = {stack'[d].v : d \in 1..n} \cup {stack'[n + 1].v}
    BY <2>2, <2>3
  <2> QED BY <2>4, <2>5, <2>6
<1>6. c \notin Sorted /\ c \notin OnStack
  BY <1>3 DEF IInv, VisitedOnce
<1>7. VisitedOnce'
  <2>1. {b \in Ids' : was'[b]} = Sorted' \cup OnStack'
    BY <1>1, <1>3, <1>5 DEF IInv, VisitedOnce
  <2>2. Sorted' \cap OnStack' = {}
    BY <1>1, <1>5, <1>6 DEF IInv, VisitedOnce
  <2>3. \A k, l \in 1..Len(order') : order'[k] = order'[l] => k = l
    BY DEF IInv, VisitedOnce
  <2>4. ASSUME NEW k \in 1..Len(stack'), NEW l \in 1..Len(stack'), stack'[k].v = stack'[l].v
        PROVE  k = l
    <3>1. \A d \in 1..n : stack'[d].v = stack[d].v /\ stack[d].v \in OnStack
      BY <1>4 DEF OnStack
    <3>2. stack'[n + 1].v = c
      BY <1>4
    <3>3. (k \in 1..n \/ k = n + 1) /\ (l \in 1..n \/ l = n + 1)
      BY <1>1, <1>4
    <3>4. \A a, b \in 1..n : stack[a].v = stack[b].v => a = b
      BY DEF IInv, VisitedOnce
    <3> QED BY <1>6, <2>4, <3>1, <3>2, <3>3, <3>4
  <2> QED BY <2>1, <2>2, <2>3, <2>4 DEF VisitedOnce
<1>8. FramesBehind'
  <2> SUFFICES ASSUME NEW d \in 1..n + 1
               PROVE  /\ stack'[d].next <= Len(graph[stack'[d].v]) + 1
                      /\ d < n + 1 =>
                          /\ stack'[d].next > 1
                          /\ graph[stack'[d].v][stack'[d].next - 1] = stack'[d + 1].v
                      /\ \A j \in 1..stack'[d].next - 1 :
                          graph[stack'[d].v][j] \in Sorted
                            \/ (j = stack'[d].next - 1 /\ d < n + 1)
    BY <1>1, <1>4 DEF FramesBehind
  <2>1. CASE d \in 1..n
    <3>1. /\ stack'[d] = frames[d] /\ d < n + 1
          /\ d = n => stack'[d + 1].v = c
          /\ d # n => stack'[d + 1] = frames[d + 1]
      BY <1>1, <1>4, <2>1
    <3> QED BY <2>1, <3>1
  <2>2. CASE d = n + 1
    <3>1. Len(graph[c]) \in Nat
      BY GraphFacts DEF IInv, TypeInv
    <3> QED BY <1>1, <1>4, <2>2, <3>1
  <2> QED BY <1>1, <2>1, <2>2
<1> QED BY <1>1, <1>3, <1>4, <1>7, <1>8

(* The reference that the top call is at, and its frame when it is past it. *)
LEMMA AdvancedFacts ==
    ASSUME IInv, HasRef
    PROVE  /\ Len(stack) \in 1..Len(stack)
           /\ Frame.v \in Ids /\ Frame.next \in 1..Len(graph[Frame.v]) /\ To \in Ids
           /\ Advanced \in Seq(Frames) /\ Len(Advanced) = Len(stack)
           /\ \A d \in 1..Len(stack) :
                /\ Advanced[d].v = stack[d].v
                /\ Advanced[d].next = IF d = Len(stack) THEN Frame.next + 1 ELSE stack[d].next
<1> DEFINE n == Len(stack)
<1>1. /\ n \in Nat /\ n \in 1..n /\ stack \in Seq(Frames)
      /\ \A d \in 1..n : /\ stack[d] \in Frames
                         /\ stack[d].v \in Ids /\ stack[d].next \in Nat \ {0}
  BY FrameTypes DEF HasRef, IInv, TypeInv, Frames
<1>2. Frame.v \in Ids /\ Frame.next \in 1..Len(graph[Frame.v]) /\ To \in Ids
  <2>1. Frame.v \in Ids /\ Frame.next \in Nat \ {0}
    BY <1>1 DEF Frame
  <2>2. Len(graph[Frame.v]) \in Nat /\ Frame.next <= Len(graph[Frame.v])
    BY <2>1, GraphFacts DEF IInv, TypeInv, HasRef
  <2> QED BY <2>1, <2>2, GraphFacts DEF IInv, TypeInv, To
<1>3. Advanced = [stack EXCEPT ![n] = [stack[n] EXCEPT !.next = stack[n].next + 1]]
  BY DEF Advanced
<1>4. [stack[n] EXCEPT !.next = stack[n].next + 1] = [v |-> stack[n].v, next |-> stack[n].next + 1]
  BY <1>1 DEF Frames
<1>5. [stack[n] EXCEPT !.next = stack[n].next + 1] \in Frames
  BY <1>1, <1>4 DEF Frames
<1>6. /\ Advanced \in Seq(Frames) /\ Len(Advanced) = n
      /\ \A d \in 1..n : Advanced[d] = IF d = n THEN [v |-> stack[n].v, next |-> stack[n].next + 1]
                                                ELSE stack[d]
  BY <1>1, <1>3, <1>4, <1>5, ExceptSeq
<1>7. ASSUME NEW d \in 1..n
      PROVE  /\ Advanced[d].v = stack[d].v
             /\ Advanced[d].next = IF d = n THEN Frame.next + 1 ELSE stack[d].next
  BY <1>6 DEF Frame
<1> QED BY <1>1, <1>2, <1>6, <1>7
-----------------------------------------------------------------------------
(* What a step of the sort has to keep: the build has not begun. *)
LEMMA SortStep ==
    ASSUME IInv, pc = "sort", UNCHANGED <<graph, buildVars, pc>>,
           was' \in [Ids -> BOOLEAN], stack' \in Seq(Frames),
           v' \in 0..Cardinality(Ids), order' \in Seq(Ids),
           VisitedOnce', SortedAfterRefs', FramesBehind', LoopBehind'
    PROVE  IInv'
<1>1. Ids' = Ids
  BY DEF Ids
<1>2. Len(order') \in Nat /\ built = 0 /\ built' = 0
  BY LenProperties DEF IInv, PhaseOK, buildVars
<1>3. TypeInv'
  BY <1>1, <1>2 DEF IInv, TypeInv, Frames, buildVars
<1>4. BuiltRight'
  <2>1. (\A c \in Ids : ~ ready[c]) /\ ready' = ready
    BY <1>2 DEF IInv, BuiltRight, buildVars
  <2> QED BY <1>1, <1>2, <2>1 DEF BuiltRight
<1>5. PhaseOK'
  BY <1>2 DEF PhaseOK
<1> QED BY <1>3, <1>4, <1>5 DEF IInv

LEMMA StartDfsOK == ASSUME IInv, StartDfs PROVE IInv'
<1> USE DEF IInv, StartDfs
<1>1. Cardinality(Ids) \in Nat /\ Ids = 0..Cardinality(Ids) - 1 /\ v \in Ids
  BY GraphFacts DEF TypeInv
<1>2. stack \in Seq(Frames) /\ Len(stack) = 0
  BY EmptySeq DEF TypeInv, Frames
<1>3. /\ stack' \in Seq(Frames) /\ was' \in [Ids -> BOOLEAN]
      /\ was' = [was EXCEPT ![v] = TRUE]
      /\ VisitedOnce' /\ FramesBehind'
  <2>1. Call(v, stack) /\ UNCHANGED <<graph, order>> /\ 1..Len(stack) = {}
    BY <1>2
  <2> HIDE DEF StartDfs, IInv
  <2> QED BY <1>1, <1>2, <2>1, CallOK
<1>4. LoopBehind'
  <2>1. v' = v + 1 /\ Ids' = Ids
    BY DEF Ids
  <2>2. \A c \in Ids : c < v + 1 => c < v \/ c = v
    BY <1>1
  <2> QED BY <1>1, <1>3, <2>1, <2>2 DEF LoopBehind, TypeInv
<1>5. SortedAfterRefs'
  BY DEF SortedAfterRefs
<1>6. v' \in 0..Cardinality(Ids) /\ order' \in Seq(Ids)
  BY <1>1 DEF TypeInv
<1> QED BY <1>3, <1>4, <1>5, <1>6, SortStep

LEMMA SkipVisitedOK == ASSUME IInv, SkipVisited PROVE IInv'
<1> USE DEF IInv, SkipVisited
<1>1. Cardinality(Ids) \in Nat /\ Ids = 0..Cardinality(Ids) - 1 /\ v \in Ids
  BY GraphFacts DEF TypeInv
<1>2. Ids' = Ids /\ Sorted' = Sorted /\ OnStack' = OnStack
  BY DEF Ids, Sorted, OnStack
<1>3. VisitedOnce' /\ SortedAfterRefs' /\ FramesBehind'
  BY <1>2 DEF VisitedOnce, SortedAfterRefs, FramesBehind
<1>4. LoopBehind'
  <2>1. \A c \in Ids : c < v + 1 => c < v \/ c = v
    BY <1>1
  <2> QED BY <1>2, <2>1 DEF LoopBehind
<1>5. /\ v' \in 0..Cardinality(Ids) /\ order' \in Seq(Ids)
      /\ was' \in [Ids -> BOOLEAN] /\ stack' \in Seq(Frames)
  BY <1>1 DEF TypeInv, Frames
<1> QED BY <1>3, <1>4, <1>5, SortStep

LEMMA VisitRefOK == ASSUME IInv, VisitRef PROVE IInv'
<1> USE DEF IInv
<1> DEFINE n == Len(stack)
<1>1. /\ n \in Nat /\ n \in 1..n
      /\ \A d \in 1..n : stack[d].v \in Ids /\ stack[d].next \in Nat \ {0}
  BY FrameTypes, AdvancedFacts DEF VisitRef
<1>2. Frame.v \in Ids /\ Frame.next \in 1..Len(graph[Frame.v]) /\ To \in Ids
  BY AdvancedFacts DEF VisitRef
<1>3. /\ Advanced \in Seq(Frames) /\ Len(Advanced) = n
      /\ \A d \in 1..n :
           /\ Advanced[d].v = stack[d].v
           /\ Advanced[d].next = IF d = n THEN Frame.next + 1 ELSE stack[d].next
  BY AdvancedFacts DEF VisitRef
<1>4. Len(graph[Frame.v]) \in Nat
  BY <1>2, GraphFacts DEF TypeInv
<1>5. Frame.v = stack[n].v /\ Frame.next = stack[n].next /\ To = graph[Frame.v][Frame.next]
  BY DEF Frame, To
<1>6. /\ pc = "sort" /\ HasRef
      /\ UNCHANGED <<graph, order, v, buildVars, pc>>
  BY DEF VisitRef
<1>7. Ids' = Ids /\ Sorted' = Sorted
  BY <1>6 DEF Ids, Sorted
<1>8. order' \in Seq(Ids) /\ v' \in 0..Cardinality(Ids) /\ SortedAfterRefs'
  BY <1>6 DEF TypeInv, SortedAfterRefs
<1>9. \A d \in 1..n : /\ Advanced[d].next <= Len(graph[Advanced[d].v]) + 1
                      /\ Advanced[d].next > 1
                      /\ \A j \in 1..Advanced[d].next - 1 :
                           graph[Advanced[d].v][j] \in Sorted \/ j = Advanced[d].next - 1
                      /\ graph[Advanced[d].v][Advanced[d].next - 1] =
                           IF d = n THEN To ELSE Advanced[d + 1].v
  <2> SUFFICES ASSUME NEW d \in 1..n
               PROVE  /\ Advanced[d].next <= Len(graph[Advanced[d].v]) + 1
                      /\ Advanced[d].next > 1
                      /\ \A j \in 1..Advanced[d].next - 1 :
                           graph[Advanced[d].v][j] \in Sorted \/ j = Advanced[d].next - 1
                      /\ graph[Advanced[d].v][Advanced[d].next - 1] =
                           IF d = n THEN To ELSE Advanced[d + 1].v
    OBVIOUS
  <2>1. CASE d = n
    <3>1. Advanced[d].v = Frame.v /\ Advanced[d].next = Frame.next + 1
      BY <1>3, <1>5, <2>1
    <3>2. \A j \in 1..Frame.next - 1 : graph[Frame.v][j] \in Sorted
      BY <1>5, <1>1 DEF FramesBehind
    <3>3. \A j \in 1..(Frame.next + 1) - 1 : j \in 1..Frame.next - 1 \/ j = (Frame.next + 1) - 1
      BY <1>2, <1>4
    <3>4. Frame.next + 1 <= Len(graph[Frame.v]) + 1 /\ Frame.next + 1 > 1
          /\ (Frame.next + 1) - 1 = Frame.next
      BY <1>2, <1>4
    <3> QED BY <1>5, <2>1, <3>1, <3>2, <3>3, <3>4
  <2>2. CASE d # n
    <3>1. d < n /\ d + 1 \in 1..n
      BY <1>1, <2>2
    <3>2. Advanced[d].v = stack[d].v /\ Advanced[d].next = stack[d].next
          /\ Advanced[d + 1].v = stack[d + 1].v
      BY <1>3, <2>2, <3>1
    <3> QED BY <2>2, <3>1, <3>2 DEF FramesBehind
  <2> QED BY <2>1, <2>2
<1>10. CASE was[To]
  <2>1. stack' = Advanced /\ was' = was /\ To \in Sorted
    BY <1>6, <1>10, VisitedIsSorted DEF VisitRef
  <2>2. OnStack' = OnStack
    <3>1. \A d \in 1..n : stack'[d].v = stack[d].v
      BY <1>3, <2>1
    <3>2. {stack'[d].v : d \in 1..n} \subseteq OnStack
      BY <3>1 DEF OnStack
    <3>3. OnStack \subseteq {stack'[d].v : d \in 1..n}
      BY <3>1 DEF OnStack
    <3> QED BY <1>3, <2>1, <3>2, <3>3 DEF OnStack
  <2>3. VisitedOnce'
    BY <1>3, <1>6, <1>7, <2>1, <2>2 DEF VisitedOnce
  <2>4. FramesBehind'
    <3> SUFFICES ASSUME NEW d \in 1..n
                 PROVE  /\ Advanced[d].next <= Len(graph[Advanced[d].v]) + 1
                        /\ d < n => Advanced[d].next > 1
                              /\ graph[Advanced[d].v][Advanced[d].next - 1] = Advanced[d + 1].v
                        /\ \A j \in 1..Advanced[d].next - 1 :
                            graph[Advanced[d].v][j] \in Sorted
                              \/ (j = Advanced[d].next - 1 /\ d < n)
      BY <1>3, <1>6, <1>7, <2>1 DEF FramesBehind
    <3>1. d = n \/ d < n
      BY <1>1
    <3> QED BY <1>1, <1>9, <2>1, <3>1
  <2>5. LoopBehind'
    BY <1>6, <1>7, <2>1 DEF LoopBehind
  <2>6. stack' \in Seq(Frames) /\ was' \in [Ids -> BOOLEAN]
    BY <1>3, <2>1 DEF TypeInv
  <2> QED BY <1>6, <1>8, <2>3, <2>4, <2>5, <2>6, SortStep
<1>11. CASE ~ was[To]
  <2>1. Call(To, Advanced)
    BY <1>11 DEF VisitRef
  <2>2. /\ stack' \in Seq(Frames) /\ was' \in [Ids -> BOOLEAN]
        /\ was' = [was EXCEPT ![To] = TRUE]
        /\ VisitedOnce' /\ FramesBehind'
    BY <1>2, <1>3, <1>6, <1>9, <2>1, CallOK
  <2>3. LoopBehind'
    BY <1>6, <1>7, <2>2 DEF LoopBehind, TypeInv
  <2> QED BY <1>6, <1>8, <2>2, <2>3, SortStep
<1> QED BY <1>10, <1>11
-----------------------------------------------------------------------------
(* A call returns only when every reference of its cell is sorted, and what
   is left on the stack is as it was. *)
LEMMA ReturnOK == ASSUME IInv, Return PROVE IInv'
<1> USE DEF IInv
<1> DEFINE n == Len(stack)
           m == Len(order)
           c == Frame.v
<1>1. /\ n \in Nat /\ n \in 1..n /\ stack \in Seq(Frames) /\ stack # << >>
      /\ \A d \in 1..n : stack[d].v \in Ids /\ stack[d].next \in Nat \ {0}
  BY FrameTypes DEF Return, TypeInv, Frames
<1>2. c \in Ids /\ c = stack[n].v /\ Frame = stack[n] /\ Len(graph[c]) \in Nat
  BY <1>1, GraphFacts DEF Frame, TypeInv
<1>3. \A j \in 1..Len(graph[c]) : graph[c][j] \in Sorted
  <2>1. Frame.next \in Nat /\ ~ (Frame.next <= Len(graph[c]))
    BY <1>1, <1>2 DEF Return, HasRef
  <2>2. \A j \in 1..Frame.next - 1 : graph[c][j] \in Sorted
    BY <1>1, <1>2 DEF FramesBehind
  <2>3. \A j \in 1..Len(graph[c]) : j \in 1..Frame.next - 1
    BY <1>2, <2>1
  <2> QED BY <2>2, <2>3
<1>4. /\ pc = "sort" /\ UNCHANGED <<graph, was, v, buildVars, pc>>
      /\ order' = Append(order, c)
      /\ stack' = SubSeq(stack, 1, Len(stack) - 1)
  BY DEF Return
<1>5. /\ stack' \in Seq(Frames) /\ Len(stack') = n - 1
      /\ \A d \in 1..n - 1 : stack'[d] = stack[d]
  BY <1>1, <1>4, PopFacts
<1>6. /\ order' \in Seq(Ids) /\ m \in Nat /\ Len(order') = m + 1
      /\ \A k \in 1..m : order'[k] = order[k]
      /\ order'[m + 1] = c
  BY <1>2, <1>4, PushFacts DEF TypeInv
<1>7. Ids' = Ids
  BY <1>4 DEF Ids
<1>8. Sorted' = Sorted \cup {c}
  <2>1. Sorted' = {order'[k] : k \in 1..m + 1}
    BY <1>6 DEF Sorted
  <2>2. {order'[k] : k \in 1..m} \subseteq Sorted /\ Sorted \subseteq {order'[k] : k \in 1..m}
    BY <1>6 DEF Sorted
  <2>3. 1..m + 1 = (1..m) \cup {m + 1}
    BY <1>6
  <2>4. Sorted' = {order'[k] : k \in 1..m} \cup {order'[m + 1]}
    BY <2>1, <2>3
  <2> QED BY <1>6, <2>2, <2>4
<1>9. c \in OnStack /\ c \notin Sorted
  BY <1>1, <1>2 DEF OnStack, VisitedOnce
<1>10. OnStack' = OnStack \ {c}
  <2>1. OnStack' = {stack'[d].v : d \in 1..n - 1}
    BY <1>5 DEF OnStack
  <2>2. \A d \in 1..n - 1 : stack'[d].v = stack[d].v /\ d \in 1..n /\ d # n
    BY <1>1, <1>5
  <2>3. \A d \in 1..n : d \in 1..n - 1 \/ d = n
    BY <1>1
  <2>4. \A d \in 1..n : stack[d].v = c => d = n
    BY <1>1, <1>2 DEF VisitedOnce
  <2>5. ASSUME NEW x \in OnStack' PROVE x \in OnStack \ {c}
    BY <2>1, <2>2, <2>4 DEF OnStack
  <2>6. ASSUME NEW x \in OnStack \ {c} PROVE x \in OnStack'
    <3>1. PICK d \in 1..n : x = stack[d].v
      BY DEF OnStack
    <3>2. d \in 1..n - 1
      BY <1>2, <2>3, <3>1, <2>6
    <3> QED BY <2>1, <2>2, <3>1, <3>2
  <2> QED BY <2>5, <2>6
<1>11. VisitedOnce'
  <2>1. {b \in Ids' : was'[b]} = Sorted' \cup OnStack'
    <3>1. {b \in Ids' : was'[b]} = {b \in Ids : was[b]}
      BY <1>4, <1>7
    <3> QED BY <1>8, <1>9, <1>10, <3>1 DEF VisitedOnce
  <2>2. Sorted' \cap OnStack' = {}
    BY <1>8, <1>10 DEF VisitedOnce
  <2>3. ASSUME NEW k \in 1..m + 1, NEW l \in 1..m + 1, order'[k] = order'[l]
        PROVE  k = l
    <3>1. \A i \in 1..m : order'[i] # c /\ order'[i] = order[i]
      BY <1>6, <1>9 DEF Sorted
    <3>2. (k \in 1..m \/ k = m + 1) /\ (l \in 1..m \/ l = m + 1)
      BY <1>6
    <3> QED BY <1>6, <2>3, <3>1, <3>2 DEF VisitedOnce
  <2>4. ASSUME NEW k \in 1..n - 1, NEW l \in 1..n - 1, stack'[k].v = stack'[l].v
        PROVE  k = l
    <3>1. k \in 1..n /\ l \in 1..n /\ stack[k].v = stack[l].v
      BY <1>1, <1>5, <2>4
    <3> QED BY <3>1 DEF VisitedOnce
  <2> QED BY <1>5, <1>6, <2>1, <2>2, <2>3, <2>4 DEF VisitedOnce
<1>12. SortedAfterRefs'
  <2> SUFFICES ASSUME NEW k \in 1..m + 1, NEW j \in 1..Len(graph[order'[k]])
               PROVE  \E l \in 1..k - 1 : order'[l] = graph[order'[k]][j]
    BY SMTT(30), <1>4, <1>6 DEF SortedAfterRefs
  <2>1. CASE k = m + 1
    <3>1. graph[c][j] \in Sorted
      BY <1>3, <1>6, <2>1
    <3>2. PICK l \in 1..m : order[l] = graph[c][j]
      BY <3>1 DEF Sorted
    <3>3. l \in 1..k - 1
      BY <1>6, <2>1
    <3> QED BY <1>6, <2>1, <3>2, <3>3
  <2>2. CASE k # m + 1
    <3>1. k \in 1..m /\ order'[k] = order[k]
      BY <1>6, <2>2
    <3>2. PICK l \in 1..k - 1 : order[l] = graph[order[k]][j]
      BY <3>1 DEF SortedAfterRefs
    <3>3. l \in 1..m
      BY <1>6, <3>1
    <3> QED BY <1>6, <3>1, <3>2, <3>3
  <2> QED BY <2>1, <2>2
<1>13. FramesBehind'
  <2> SUFFICES ASSUME NEW d \in 1..n - 1
               PROVE  /\ stack[d].next <= Len(graph[stack[d].v]) + 1
                      /\ d < n - 1 =>
                          stack[d].next > 1 /\ graph[stack[d].v][stack[d].next - 1] = stack[d + 1].v
                      /\ \A j \in 1..stack[d].next - 1 :
                          graph[stack[d].v][j] \in Sorted'
                            \/ (j = stack[d].next - 1 /\ d < n - 1)
    <3>1. \A d \in 1..n - 1 : d < n - 1 => d + 1 \in 1..n - 1
      BY <1>1
    <3>2. \A d \in 1..n - 1 : d < n - 1 => stack'[d + 1] = stack[d + 1]
      BY <1>5, <3>1
    <3>3. graph' = graph
      BY <1>4
    <3> HIDE DEF n
    <3> QED BY ZenonT(40), <1>5, <3>2, <3>3 DEF FramesBehind
  <2>1. d \in 1..n /\ d < n /\ (d < n - 1 \/ d + 1 = n)
    BY <1>1
  <2> QED BY <1>2, <1>8, <2>1 DEF FramesBehind
<1>14. LoopBehind'
  BY <1>4, <1>7 DEF LoopBehind
<1>15. v' \in 0..Cardinality(Ids) /\ was' \in [Ids -> BOOLEAN]
  BY <1>4 DEF TypeInv
<1> QED BY <1>4, <1>5, <1>6, <1>11, <1>12, <1>13, <1>14, <1>15, SortStep

(* When the sort is through, every cell is in the order, once. *)
LEMMA AllSorted ==
    ASSUME IInv, pc = "sort", stack = << >>, v \notin Ids
    PROVE  Sorted = Ids
<1>1. Cardinality(Ids) \in Nat /\ Ids = 0..Cardinality(Ids) - 1
  BY GraphFacts DEF IInv, TypeInv
<1>2. \A c \in Ids : c < v
  BY <1>1 DEF IInv, TypeInv
<1>3. OnStack = {}
  BY EmptySeq DEF OnStack
<1> QED BY <1>2, <1>3 DEF IInv, LoopBehind, VisitedOnce

LEMMA SortedCount == ASSUME IInv, Sorted = Ids PROVE Len(order) = Cardinality(Ids)
<1>1. IsFiniteSet(Ids) /\ order \in Seq(Ids)
  BY GraphFacts DEF IInv, TypeInv
<1>2. {order[k] : k \in 1..Len(order)} = Ids
  BY DEF Sorted
<1>3. \A k, l \in 1..Len(order) : order[k] = order[l] => k = l
  BY DEF IInv, VisitedOnce
<1> QED BY <1>1, <1>2, <1>3, ListedOnce

(* What the sort has found stays when its variables do. *)
LEMMA SortKept ==
    ASSUME IInv, UNCHANGED <<graph, sortVars>>
    PROVE  /\ Ids' = Ids /\ Sorted' = Sorted
           /\ VisitedOnce' /\ SortedAfterRefs' /\ FramesBehind' /\ LoopBehind'
<1>1. UNCHANGED <<graph, was, stack, v, order>>
  BY DEF sortVars
<1>2. Ids' = Ids /\ Sorted' = Sorted /\ OnStack' = OnStack
  BY <1>1 DEF Ids, Sorted, OnStack
<1> QED BY <1>1, <1>2
        DEF IInv, VisitedOnce, SortedAfterRefs, FramesBehind, LoopBehind

LEMMA StartBuildOK == ASSUME IInv, StartBuild PROVE IInv'
<1>1. /\ UNCHANGED <<graph, was, stack, v, order, cells, ready, built, result>>
      /\ pc' = "build" /\ stack = << >>
  BY DEF StartBuild, sortVars, buildVars
<1>2. /\ Ids' = Ids /\ Sorted' = Sorted
      /\ VisitedOnce' /\ SortedAfterRefs' /\ FramesBehind' /\ LoopBehind'
  BY SortKept DEF StartBuild
<1>3. Sorted = Ids
  BY AllSorted DEF StartBuild
<1>4. TypeInv'
  BY <1>1, <1>2 DEF IInv, TypeInv
<1>5. BuiltRight'
  BY <1>1, <1>2 DEF IInv, BuiltRight
<1>6. PhaseOK'
  BY <1>1, <1>2, <1>3 DEF PhaseOK
<1> QED BY <1>2, <1>4, <1>5, <1>6 DEF IInv

(* Building a cell leaves those that were built alone: it is none of them, and
   none of what they are made of. *)
LEMMA BuildOK == ASSUME IInv, Build PROVE IInv'
<1> USE DEF IInv
<1> DEFINE c == order[built + 1]
<1>1. /\ UNCHANGED <<graph, was, stack, v, order, result, pc>> /\ UNCHANGED sortVars
      /\ pc = "build" /\ built < Len(order)
      /\ cells' = [cells EXCEPT ![c] =
                [id |-> c, refs |-> [j \in 1..Len(graph[c]) |-> cells[graph[c][j]]]]]
      /\ ready' = [ready EXCEPT ![c] = TRUE]
      /\ built' = built + 1
  BY DEF Build, sortVars
<1>2. /\ Ids' = Ids /\ Sorted' = Sorted
      /\ VisitedOnce' /\ SortedAfterRefs' /\ FramesBehind' /\ LoopBehind'
  BY <1>1, SortKept
<1>3. /\ Len(order) \in Nat /\ built \in Nat /\ built + 1 \in 1..Len(order)
      /\ \A k \in 1..Len(order) : order[k] \in Ids
      /\ \A k \in 1..built : k \in 1..Len(order) /\ k # built + 1
      /\ \A k \in 1..built + 1 : k \in 1..built \/ k = built + 1
  <2>1. Len(order) \in Nat /\ built \in 0..Len(order)
    BY LenProperties DEF TypeInv
  <2>2. \A k \in 1..Len(order) : order[k] \in Ids
    BY ElementOfSeq DEF TypeInv
  <2> QED BY <1>1, <2>1, <2>2
<1>4. c \in Ids /\ \A k \in 1..built : order[k] # c
  BY <1>3 DEF VisitedOnce
<1>5. ASSUME NEW k \in 1..built + 1, NEW j \in 1..Len(graph[order[k]])
      PROVE  graph[order[k]][j] \in Ids /\ graph[order[k]][j] # c
  <2>1. k \in 1..Len(order)
    BY <1>3
  <2>2. PICK l \in 1..k - 1 : order[l] = graph[order[k]][j]
    BY <2>1 DEF SortedAfterRefs
  <2>3. l \in 1..built
    BY <1>3
  <2> QED BY <1>3, <1>4, <2>2, <2>3
<1>6. cells = [b \in Ids |-> cells[b]] /\ ready \in [Ids -> BOOLEAN]
  BY DEF TypeInv
<1>7. /\ cells'[c] = [id |-> c, refs |-> [j \in 1..Len(graph[c]) |-> cells[graph[c][j]]]]
      /\ \A b \in Ids : b # c => cells'[b] = cells[b]
      /\ cells' = [b \in Ids |-> cells'[b]]
  BY <1>1, <1>4, <1>6
<1>8. ready' \in [Ids -> BOOLEAN] /\ \A b \in Ids : ready'[b] <=> ready[b] \/ b = c
  BY <1>1, <1>4, <1>6
<1>9. TypeInv'
  <2>1. built' \in 0..Len(order')
    BY <1>1, <1>3
  <2> QED BY <1>1, <1>2, <1>7, <1>8, <2>1 DEF TypeInv
<1>10. BuiltRight'
  <2>1. \A b \in Ids : ready'[b] <=> \E k \in 1..built + 1 : order[k] = b
    <3>1. \A b \in Ids : ready[b] <=> \E k \in 1..built : order[k] = b
      BY DEF BuiltRight
    <3>2. \A k : k \in 1..built + 1 <=> k \in 1..built \/ k = built + 1
      BY <1>3
    <3> QED BY <1>8, <3>1, <3>2
  <2>2. ASSUME NEW k \in 1..built + 1
        PROVE  cells'[order[k]] =
                 [id |-> order[k],
                  refs |-> [j \in 1..Len(graph[order[k]]) |-> cells'[graph[order[k]][j]]]]
    <3>1. [j \in 1..Len(graph[order[k]]) |-> cells'[graph[order[k]][j]]]
            = [j \in 1..Len(graph[order[k]]) |-> cells[graph[order[k]][j]]]
      BY <1>5, <1>7
    <3>2. cells'[order[k]] =
            [id |-> order[k],
             refs |-> [j \in 1..Len(graph[order[k]]) |-> cells[graph[order[k]][j]]]]
      <4>1. CASE k \in 1..built
        <5>1. order[k] \in Ids /\ order[k] # c
          BY <1>3, <1>4, <4>1
        <5> QED BY <1>7, <4>1, <5>1 DEF BuiltRight
      <4>2. CASE k = built + 1
        BY <1>7, <4>2
      <4> QED BY <1>3, <4>1, <4>2
    <3> QED BY <3>1, <3>2
  <2> QED BY <1>1, <1>2, <2>1, <2>2 DEF BuiltRight
<1>11. PhaseOK'
  BY <1>1, <1>2 DEF PhaseOK
<1> QED BY <1>2, <1>9, <1>10, <1>11

LEMMA FinishOK == ASSUME IInv, Finish PROVE IInv'
<1>1. /\ UNCHANGED <<graph, was, stack, v, order, cells, ready, built>> /\ UNCHANGED sortVars
      /\ pc = "build" /\ built = Len(order) /\ pc' = "done"
      /\ result' = cells[order[Len(order)]]
  BY DEF Finish, sortVars
<1>2. /\ Ids' = Ids /\ Sorted' = Sorted
      /\ VisitedOnce' /\ SortedAfterRefs' /\ FramesBehind' /\ LoopBehind'
  BY <1>1, SortKept
<1>3. TypeInv' /\ BuiltRight' /\ PhaseOK'
  BY <1>1, <1>2 DEF IInv, TypeInv, BuiltRight, PhaseOK
<1> QED BY <1>2, <1>3 DEF IInv

LEMMA StutterOK == ASSUME IInv, UNCHANGED vars PROVE IInv'
<1>1. UNCHANGED <<graph, was, stack, v, order, cells, ready, built, result, pc>>
      /\ UNCHANGED sortVars
  BY DEF vars, sortVars
<1>2. /\ Ids' = Ids /\ Sorted' = Sorted
      /\ VisitedOnce' /\ SortedAfterRefs' /\ FramesBehind' /\ LoopBehind'
  BY <1>1, SortKept
<1>3. TypeInv' /\ BuiltRight' /\ PhaseOK'
  BY <1>1, <1>2 DEF IInv, TypeInv, BuiltRight, PhaseOK
<1> QED BY <1>2, <1>3 DEF IInv

LEMMA StepOK == IInv /\ [Next]_vars => IInv'
<1> SUFFICES ASSUME IInv, [Next]_vars PROVE IInv'
  OBVIOUS
<1>1. CASE Next
  BY <1>1, StartDfsOK, SkipVisitedOK, VisitRefOK, ReturnOK, StartBuildOK, BuildOK,
     FinishOK, StutterOK DEF Next, Done
<1>2. CASE UNCHANGED vars
  BY <1>2, StutterOK
<1> QED BY <1>1, <1>2

LEMMA Inductive == Spec => []IInv
<1>1. Init => IInv
  BY CalledOK, GraphsAssumption DEF Init
<1> QED BY <1>1, StepOK, PTL DEF Spec
-----------------------------------------------------------------------------
(* my_cells_to_vm_root's dfs puts every cell it visits into the order, once, when
   and only when its call returns. *)
THEOREM CellsVisitedOnce == Spec => []VisitedOnce
<1>1. IInv => VisitedOnce
  BY DEF IInv
<1> QED BY <1>1, Inductive, PTL

(* The order has every cell after all the cells it refers to. *)
THEOREM CellsSortedAfterRefs == Spec => []SortedAfterRefs
<1>1. IInv => SortedAfterRefs
  BY DEF IInv
<1> QED BY <1>1, Inductive, PTL

(* What is built next is ready, in a state of the invariant. *)
LEMMA ChecksFollow == IInv => ChecksHold
<1> SUFFICES ASSUME IInv, pc = "build"
             PROVE  /\ Len(order) = Cardinality(Ids)
                    /\ built < Len(order) =>
                         \A j \in 1..Len(graph[order[built + 1]]) :
                             ready[graph[order[built + 1]][j]]
  BY DEF ChecksHold
<1>1. Len(order) = Cardinality(Ids)
  BY SortedCount DEF IInv, PhaseOK
<1>2. ASSUME built < Len(order), NEW j \in 1..Len(graph[order[built + 1]])
      PROVE  ready[graph[order[built + 1]][j]]
  <2>1. Len(order) \in Nat /\ built \in 0..Len(order)
    BY LenProperties DEF IInv, TypeInv
  <2>2. built + 1 \in 1..Len(order)
    BY <1>2, <2>1
  <2>3. PICK l \in 1..(built + 1) - 1 : order[l] = graph[order[built + 1]][j]
    BY <2>2 DEF IInv, SortedAfterRefs
  <2>4. l \in 1..built /\ l \in 1..Len(order)
    BY <2>1
  <2>5. order[l] \in Ids
    BY <2>4, ElementOfSeq DEF IInv, TypeInv
  <2> QED BY <2>3, <2>4, <2>5 DEF IInv, BuiltRight
<1> QED BY <1>1, <1>2

(* No CHECK of my_cells_to_vm_root can fail: the order is complete, and all that
   a cell is built from is ready. *)
THEOREM RebuildChecksHold == Spec => []ChecksHold
BY ChecksFollow, Inductive, PTL

(* Whatever the numbers of the cells are, the last cell of the order is the root:
   what refers to it would come after it. *)
LEMMA RootFollows ==
    ASSUME IInv, pc = "done"
    PROVE  /\ \E r \in Ids : RootedAt(graph, r) /\ result = cells[r]
           /\ \A c \in Ids :
                cells[c] = [id |-> c, refs |-> [j \in 1..Len(graph[c]) |-> cells[graph[c][j]]]]
<1> DEFINE m == Len(order)
           last == order[m]
<1>1. Sorted = Ids /\ built = m /\ result = cells[last]
  BY DEF IInv, PhaseOK
<1>2. /\ m \in Nat
      /\ \A k \in 1..m : order[k] \in Ids
      /\ \A k \in 1..m : cells[order[k]] =
           [id |-> order[k],
            refs |-> [j \in 1..Len(graph[order[k]]) |-> cells[graph[order[k]][j]]]]
  BY <1>1, LenProperties, ElementOfSeq DEF IInv, TypeInv, BuiltRight
<1>3. ASSUME NEW c \in Ids
      PROVE  cells[c] = [id |-> c, refs |-> [j \in 1..Len(graph[c]) |-> cells[graph[c][j]]]]
  <2>1. PICK k \in 1..m : order[k] = c
    BY <1>1 DEF Sorted
  <2> QED BY <1>2, <2>1
<1>4. PICK r \in Ids : RootedAt(graph, r)
  BY GraphFacts DEF IInv, TypeInv
<1>5. m \in 1..m /\ last \in Ids
  <2>1. \E k \in 1..m : order[k] = r
    BY <1>1, <1>4 DEF Sorted
  <2> QED BY <1>2, <2>1
<1>6. last = r
  <2> SUFFICES ASSUME last # r PROVE FALSE
    OBVIOUS
  <2>1. PICK s \in Slots(graph) : Target(graph, s) = last
    BY <1>4, <1>5 DEF RootedAt, Ids
  <2>2. s[1] \in Ids /\ s[2] \in 1..Len(graph[s[1]]) /\ graph[s[1]][s[2]] = last
    <3>1. s[1] \in Ids /\ s[2] \in 1..MaxRefs /\ s[2] <= Len(graph[s[1]])
      BY DEF Slots, Ids
    <3>2. Len(graph[s[1]]) \in Nat
      BY <3>1, GraphFacts DEF IInv, TypeInv
    <3> QED BY <2>1, <3>1, <3>2 DEF Target, MaxRefs
  <2>3. PICK k \in 1..m : order[k] = s[1]
    BY <1>1, <2>2 DEF Sorted
  <2>4. PICK l \in 1..k - 1 : order[l] = last
    BY <2>2, <2>3 DEF IInv, SortedAfterRefs
  <2>5. l \in 1..m /\ l # m
    BY <1>2, <2>3, <2>4
  <2> QED BY <1>5, <2>4, <2>5 DEF IInv, VisitedOnce
<1> QED BY <1>1, <1>3, <1>4, <1>6

(* All cells are built, each of the cells its references number, and the result is
   the root. *)
THEOREM BlockIsRebuilt == Spec => []BlockRebuilt
<1>1. IInv => BlockRebuilt
  <2> SUFFICES ASSUME IInv, pc = "done"
               PROVE  /\ RootedAt(graph, result.id)
                      /\ \A c \in Ids :
                          /\ cells[c].id = c
                          /\ Len(cells[c].refs) = Len(graph[c])
                          /\ \A j \in 1..Len(graph[c]) :
                               cells[c].refs[j] = cells[graph[c][j]]
    BY DEF BlockRebuilt
  <2>1. ASSUME NEW c \in Ids
        PROVE  /\ cells[c].id = c
               /\ Len(cells[c].refs) = Len(graph[c])
               /\ \A j \in 1..Len(graph[c]) : cells[c].refs[j] = cells[graph[c][j]]
    <3>1. cells[c] = [id |-> c, refs |-> [j \in 1..Len(graph[c]) |-> cells[graph[c][j]]]]
      BY RootFollows
    <3>2. Len(graph[c]) \in Nat
      BY GraphFacts DEF IInv, TypeInv
    <3>3. Len([j \in 1..Len(graph[c]) |-> cells[graph[c][j]]]) = Len(graph[c])
      BY <3>2
    <3> QED BY <3>1, <3>3
  <2>2. PICK r \in Ids : RootedAt(graph, r) /\ result = cells[r]
    BY RootFollows
  <2> QED BY <2>1, <2>2
<1> QED BY <1>1, Inductive, PTL
=============================================================================
