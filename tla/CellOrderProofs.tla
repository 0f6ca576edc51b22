--------------------------- MODULE CellOrderProofs ---------------------------
(***************************************************************************)
(* Proofs about CellOrder, for every set of rooted acyclic graphs.         *)
(*                                                                         *)
(* The inductive invariant IInv says what is in the std::set (SetKeysFresh)*)
(* and what the out degrees count (DegreeCountsPending), that an ordered   *)
(* cell has no pending reference left (OrderedSettled), and that the order *)
(* so far is topological.  The CHECKs follow from it and from acyclicity:  *)
(* some cell outside the order refers to ordered cells only, its degree is *)
(* 0, and the first entry of the set cannot have a larger one.             *)
(***************************************************************************)
EXTENDS CellOrder, FiniteSetTheorems, SequenceTheorems, TLAPS

(* Everything that the reference loop has still to undo lies between cells
   outside the order; the inner loop works on references to ordered cells. *)
OrderedSettled == \A s \in Pending : s[1] \notin Ordered

TodoTargetsOrdered == \A s \in todo : Target(input, s) \in Ordered

(* my_cells as convert_to_my_cells made it, for graph g. *)
FirstCells(g) == [i \in DOMAIN g |-> [cell |-> i, refs |-> g[i]]]

(* When the loops are left nothing is waiting, and my_cells is what serialize()
   was given until apply_order replaces it. *)
PhaseOK ==
    /\ pc \in {"pop", "apply", "done"} => todo = {}
    /\ pc = "pop" => cells # {}
    /\ pc \in {"apply", "done"} => cells = {}
    /\ pc # "done" => myCells = FirstCells(input)
    /\ pc = "done" => myCells = Reordered(order, FirstCells(input))

IInv ==
    /\ TypeOK
    /\ SetKeysFresh
    /\ DegreeCountsPending
    /\ OrderedSettled
    /\ TodoTargetsOrdered
    /\ TopologicalOrder
    /\ PhaseOK
-----------------------------------------------------------------------------
(* A non-empty set of naturals has a least member. *)
LEMMA LeastNatural ==
    ASSUME NEW S \in SUBSET Nat, S # {}
    PROVE  \E m \in S : \A n \in S : m <= n
<1>1. PICK m \in S : \A n \in S : ~ (<<n, m>> \in OpToRel(<, Nat))
  BY NatLessThanWellFounded, WFMin
<1>2. \A n \in S : ~ (n < m)
  BY <1>1 DEF OpToRel
<1> QED
  BY <1>2

(* The slots of a cell graph: finitely many, and Len(g[i]) of them belong to
   cell i. *)
LEMMA SlotFacts ==
    ASSUME NEW g, IsCellGraph(g)
    PROVE  /\ IsFiniteSet(Slots(g))
           /\ \A s \in Slots(g) : /\ s[1] \in DOMAIN g
                                  /\ s = <<s[1], s[2]>>
                                  /\ Target(g, s) \in DOMAIN g
           /\ \A i \in DOMAIN g : Cardinality({s \in Slots(g) : s[1] = i}) = Len(g[i])
<1>1. IsFiniteSet((DOMAIN g) \X (1..MaxRefs))
  <2>1. \A a, b \in Int : IsFiniteSet(a..b)
    BY FS_Interval
  <2>2. 1 \in Int /\ MaxRefs \in Int
    BY DEF MaxRefs
  <2>3. IsFiniteSet(1..MaxRefs)
    BY <2>1, <2>2, Zenon
  <2> QED BY <2>3, FS_Product DEF IsCellGraph, IsDag
<1>2. IsFiniteSet(Slots(g))
  BY <1>1, FS_Subset DEF Slots
<1>3. ASSUME NEW s \in Slots(g)
      PROVE  s[1] \in DOMAIN g /\ s = <<s[1], s[2]>> /\ Target(g, s) \in DOMAIN g
  BY <1>3 DEF Slots, Target, IsCellGraph, IsDag, MaxRefs
<1>4. ASSUME NEW i \in DOMAIN g
      PROVE  Cardinality({s \in Slots(g) : s[1] = i}) = Len(g[i])
  <2> DEFINE T == {s \in Slots(g) : s[1] = i}
             f == [j \in 1..Len(g[i]) |-> <<i, j>>]
  <2>1. Len(g[i]) \in Nat /\ Len(g[i]) <= MaxRefs
    BY DEF IsCellGraph, IsDag
  <2>2. T = {<<i, j>> : j \in 1..Len(g[i])}
    <3>1. ASSUME NEW s \in T PROVE s \in {<<i, j>> : j \in 1..Len(g[i])}
      BY <2>1 DEF Slots, MaxRefs
    <3>2. ASSUME NEW j \in 1..Len(g[i]) PROVE <<i, j>> \in T
      BY <2>1 DEF Slots, MaxRefs
    <3> QED BY <3>1, <3>2
  <2>3. f \in Bijection(1..Len(g[i]), T)
    <3>1. f \in [1..Len(g[i]) -> T]
      BY <2>2
    <3>2. \A a, b \in 1..Len(g[i]) : f[a] = f[b] => a = b
      OBVIOUS
    <3>3. \A t \in T : \E j \in 1..Len(g[i]) : f[j] = t
      BY <2>2
    <3> QED BY <3>1, <3>2, <3>3 DEF Bijection, Injection, IsInjective, Surjection
  <2>4. ExistsBijection(1..Len(g[i]), T)
    BY <2>3 DEF ExistsBijection
  <2> QED BY <2>1, <2>4, FS_CountingElements DEF MaxRefs
<1> QED BY <1>2, <1>3, <1>4

(* The comparator orders the set: a non-empty std::set has a first entry. *)
LEMMA FirstExists ==
    ASSUME IsCellGraph(input), cells \subseteq Cells \X (0..MaxRefs), cells # {}
    PROVE  \E x \in cells : IsFirst(x)
<1> DEFINE All == Cardinality(Slots(input))
           Card(i) == Cardinality(WhoRefers(i))
           Few(i) == All - Card(i)
<1>1. \A i \in Cells : Card(i) \in Nat /\ Few(i) \in Nat
  <2>1. SUFFICES ASSUME NEW i \in Cells
                 PROVE  Card(i) \in Nat /\ Few(i) \in Nat
    OBVIOUS
  <2>2. IsFiniteSet(Slots(input)) /\ WhoRefers(i) \in SUBSET Slots(input)
    BY SlotFacts DEF WhoRefers
  <2>3. All \in Nat /\ Card(i) \in Nat /\ Card(i) <= All
    BY <2>2, FS_Subset, FS_CardinalityType
  <2> QED BY <2>3
<1> HIDE DEF Card, Few
<1>2. ASSUME NEW x \in cells
      PROVE  x[1] \in Cells /\ x[1] \in Nat /\ x[2] \in Nat /\ x = <<x[1], x[2]>>
  BY SMTT(30) DEF IsCellGraph, IsDag, Cells, MaxRefs
<1>3. PICK d \in {x[2] : x \in cells} : \A n \in {x[2] : x \in cells} : d <= n
  <2>1. {x[2] : x \in cells} \in SUBSET Nat /\ {x[2] : x \in cells} # {}
    BY <1>2
  <2> QED BY <2>1, LeastNatural
<1> DEFINE F == {Few(x[1]) : x \in {y \in cells : y[2] = d}}
<1>4. PICK r \in F : \A n \in F : r <= n
  <2>1. F \in SUBSET Nat /\ F # {}
    BY <1>1, <1>2, <1>3
  <2> QED BY <2>1, LeastNatural
<1> DEFINE I == {x[1] : x \in {y \in cells : y[2] = d /\ Few(y[1]) = r}}
<1>5. PICK m \in I : \A n \in I : m <= n
  <2>1. I \in SUBSET Nat /\ I # {}
    BY <1>2, <1>4
  <2> QED BY <2>1, LeastNatural
<1>6. PICK x \in cells : x[1] = m /\ x[2] = d /\ Few(x[1]) = r
  BY <1>5
<1>7. ASSUME NEW y \in cells
      PROVE  y = x \/ Less(x, y)
  <2>1. x[2] <= y[2]
    BY <1>3, <1>6
  <2>2. y[2] = x[2] => Few(x[1]) <= Few(y[1])
    BY <1>4, <1>6
  <2>3. y[2] = x[2] /\ Few(x[1]) = Few(y[1]) => x[1] <= y[1]
    BY <1>5, <1>6
  <2>4. /\ Card(x[1]) \in Nat /\ Card(y[1]) \in Nat
        /\ Few(x[1]) \in Nat /\ Few(y[1]) \in Nat
        /\ x[2] \in Nat /\ y[2] \in Nat /\ x[1] \in Nat /\ y[1] \in Nat
        /\ x = <<x[1], x[2]>> /\ y = <<y[1], y[2]>>
    BY <1>1, <1>2
  <2>5. Few(x[1]) <= Few(y[1]) => Card(x[1]) - Card(y[1]) >= 0
    <3>1. All \in Nat
      BY SlotFacts, FS_CardinalityType
    <3> QED BY <2>4, <3>1 DEF Few
  <2>6. Card(x[1]) - Card(y[1]) = 0 => Few(x[1]) = Few(y[1])
    <3>1. All \in Nat
      BY SlotFacts, FS_CardinalityType
    <3> QED BY <2>4, <3>1 DEF Few
  <2>7. \/ x[2] < y[2]
        \/ x[2] = y[2] /\ Card(x[1]) - Card(y[1]) > 0
        \/ x[2] = y[2] /\ Card(x[1]) - Card(y[1]) = 0 /\ x[1] < y[1]
        \/ y = x
    BY <2>1, <2>2, <2>3, <2>4, <2>5, <2>6
  <2> QED BY <2>7 DEF Less, Card
<1> QED BY <1>7 DEF IsFirst

(* Appending to the order adds one cell to the ordered ones. *)
LEMMA AppendOrdered ==
    ASSUME NEW D, NEW s \in Seq(D), NEW e \in D
    PROVE  /\ Append(s, e) \in Seq(D)
           /\ Len(Append(s, e)) = Len(s) + 1
           /\ \A k \in 1..Len(s) : Append(s, e)[k] = s[k]
           /\ Append(s, e)[Len(s) + 1] = e
           /\ {Append(s, e)[k] : k \in 1..Len(Append(s, e))}
                = {s[k] : k \in 1..Len(s)} \cup {e}
OBVIOUS
-----------------------------------------------------------------------------
(* The invariant holds when initial_cell_order starts. *)
LEMMA CalledIInv == IsCellGraph(input) /\ Called => IInv
<1> SUFFICES ASSUME IsCellGraph(input), Called PROVE IInv
  OBVIOUS
<1> USE DEF Called
<1>1. IsCellGraph(input)
  OBVIOUS
<1>2. \A i \in Cells : Len(input[i]) \in 0..MaxRefs
  <2>1. SUFFICES ASSUME NEW i \in Cells PROVE Len(input[i]) \in 0..MaxRefs
    OBVIOUS
  <2>2. Len(input[i]) \in Nat /\ Len(input[i]) <= MaxRefs
    BY <1>1 DEF IsCellGraph, IsDag, Cells
  <2>3. \A n \in Nat : n <= MaxRefs => n \in 0..MaxRefs
    BY DEF MaxRefs
  <2> QED BY <2>2, <2>3, Zenon
<1>3. Ordered = {} /\ Pending = Slots(input)
  BY DEF Ordered, Pending
<1>4. TypeOK
  <2>1. outDegree \in [Cells -> 0..MaxRefs]
    BY <1>2
  <2>2. cells \subseteq Cells \X (0..MaxRefs)
    BY <1>2
  <2> QED BY <1>1, <2>1, <2>2 DEF TypeOK
<1>5. SetKeysFresh
  BY <1>3 DEF SetKeysFresh
<1>6. DegreeCountsPending
  BY <1>1, <1>3, SlotFacts DEF DegreeCountsPending, PendingFrom, Cells
<1>7. OrderedSettled /\ TodoTargetsOrdered /\ TopologicalOrder
  BY <1>3 DEF OrderedSettled, TodoTargetsOrdered, TopologicalOrder
<1>8. PhaseOK
  BY <1>1 DEF PhaseOK, IsCellGraph, IsDag, Cells, FirstCells
<1> QED BY <1>1, <1>4, <1>5, <1>6, <1>7, <1>8 DEF IInv

(* Ordering a cell of degree 0 keeps the invariant: nothing of it is pending,
   so all it refers to is ordered before it, and the references to it become
   the inner loop's work. *)
LEMMA PopIInv == IInv /\ Pop => IInv'
<1> SUFFICES ASSUME IInv, Pop PROVE IInv'
  OBVIOUS
<1> USE DEF IInv
<1>1. PICK x \in cells : /\ outDegree[x[1]] = 0
                         /\ cells' = cells \ {x}
                         /\ order' = Append(order, x[1])
                         /\ todo' = WhoRefers(x[1])
  BY DEF Pop
<1> DEFINE i == x[1]
<1>2. /\ pc = "pop" /\ pc' = "relax" /\ todo = {}
      /\ UNCHANGED <<input, myCells, outDegree>> /\ Cells' = Cells
  BY DEF Pop, PhaseOK, Cells
<1>3. i \in Cells /\ i \notin Ordered /\ x = <<i, outDegree[i]>>
  BY DEF SetKeysFresh
<1>4. /\ order' \in Seq(Cells) /\ Len(order') = Len(order) + 1
      /\ \A k \in 1..Len(order) : order'[k] = order[k]
      /\ order'[Len(order) + 1] = i
      /\ Ordered' = Ordered \cup {i}
      /\ Len(order) \in Nat
  BY <1>1, <1>3, AppendOrdered DEF TypeOK, Ordered
<1>5. Pending' = Pending
  <2>1. Pending' = {s \in Slots(input) : Target(input, s) \notin Ordered'} \cup todo'
    BY <1>2 DEF Pending
  <2>2. \A s \in Slots(input) : s \in todo' <=> Target(input, s) = i
    BY <1>1 DEF WhoRefers
  <2>3. todo' \subseteq Slots(input)
    BY <1>1 DEF WhoRefers
  <2> QED BY <1>2, <1>3, <1>4, <2>1, <2>2, <2>3 DEF Pending
<1>6. \A s \in Pending : s[1] # i
  <2>1. IsFiniteSet(PendingFrom(i)) /\ Cardinality(PendingFrom(i)) = 0
    <3>1. PendingFrom(i) \in SUBSET Slots(input)
      BY <1>2 DEF PendingFrom, Pending
    <3> QED BY <1>1, <1>3, <3>1, SlotFacts, FS_Subset DEF TypeOK, DegreeCountsPending
  <2>2. PendingFrom(i) = {}
    BY <2>1, FS_EmptySet
  <2> QED BY <2>2 DEF PendingFrom
<1>7. TypeOK'
  BY <1>1, <1>2, <1>4 DEF TypeOK, WhoRefers
<1>8. SetKeysFresh'
  BY <1>1, <1>2, <1>3, <1>4 DEF SetKeysFresh
<1>9. DegreeCountsPending'
  BY <1>2, <1>5 DEF DegreeCountsPending, PendingFrom
<1>10. OrderedSettled'
  BY <1>4, <1>5, <1>6 DEF OrderedSettled
<1>11. TodoTargetsOrdered'
  BY <1>1, <1>2, <1>4 DEF TodoTargetsOrdered, WhoRefers
<1>12. TopologicalOrder'
  <2>1. SUFFICES ASSUME NEW k \in 1..Len(order')
                 PROVE  /\ \A l \in 1..k - 1 : order'[l] # order'[k]
                        /\ \A s \in Slots(input) : s[1] = order'[k] =>
                             \E l \in 1..k - 1 : order'[l] = Target(input, s)
    BY <1>2 DEF TopologicalOrder
  <2>2. CASE k = Len(order) + 1
    <3>1. \A l \in 1..k - 1 : order'[l] = order[l] /\ order[l] # i
      BY <1>3, <1>4, <2>2 DEF Ordered
    <3>2. ASSUME NEW s \in Slots(input), s[1] = i
          PROVE  \E l \in 1..k - 1 : order'[l] = Target(input, s)
      <4>1. Target(input, s) \in Ordered
        BY <1>6, <3>2 DEF Pending
      <4> QED BY <1>4, <2>2, <4>1 DEF Ordered
    <3> QED BY <1>4, <2>2, <3>1, <3>2
  <2>3. CASE k \in 1..Len(order)
    <3>1. \A l \in 1..k - 1 : order'[l] = order[l] /\ l \in 1..Len(order)
      BY <1>4, <2>3
    <3>2. order'[k] = order[k]
      BY <1>4, <2>3
    <3> QED BY <2>3, <3>1, <3>2 DEF TopologicalOrder
  <2> QED BY <1>4, <2>1, <2>2, <2>3
<1>13. PhaseOK'
  BY <1>2 DEF PhaseOK
<1> QED BY <1>2, <1>7, <1>8, <1>9, <1>10, <1>11, <1>12, <1>13

(* Taking one reference off its cell's degree keeps the invariant: exactly one
   slot stops being pending, and the entry of the set moves with the degree. *)
LEMMA RelaxIInv == IInv /\ Relax => IInv'
<1> SUFFICES ASSUME IInv, Relax PROVE IInv'
  OBVIOUS
<1> USE DEF IInv
<1>1. PICK s \in todo :
        /\ outDegree[s[1]] > 0
        /\ outDegree' = [outDegree EXCEPT ![s[1]] = @ - 1]
        /\ cells' = Erase(s[1]) \cup {<<s[1], outDegree[s[1]] - 1>>}
        /\ todo' = todo \ {s}
  BY DEF Relax
<1> DEFINE from == s[1]
<1>2. /\ pc = "relax" /\ pc' = "relax"
      /\ UNCHANGED <<input, myCells, order>>
      /\ Cells' = Cells /\ Ordered' = Ordered
  BY DEF Relax, Cells, Ordered
<1>3. s \in Slots(input) /\ from \in Cells /\ s \in Pending /\ from \notin Ordered
      /\ Target(input, s) \in Ordered
  BY SlotFacts DEF TypeOK, Pending, OrderedSettled, TodoTargetsOrdered, Cells
<1>4. outDegree \in [Cells -> 0..MaxRefs] /\ outDegree[from] - 1 \in 0..MaxRefs
  BY <1>1, <1>3 DEF TypeOK, MaxRefs
<1>5. Pending' = Pending \ {s}
  <2>1. Pending' = {t \in Slots(input) : Target(input, t) \notin Ordered} \cup todo'
    BY <1>2 DEF Pending
  <2> QED BY <1>1, <1>3, <2>1 DEF Pending
<1>6. TypeOK'
  <2>1. outDegree' \in [Cells -> 0..MaxRefs]
    BY <1>1, <1>4
  <2>2. cells' \subseteq Cells \X (0..MaxRefs)
    BY <1>1, <1>3, <1>4 DEF TypeOK, Erase
  <2> QED BY <1>1, <1>2, <2>1, <2>2 DEF TypeOK
<1>7. SetKeysFresh'
  <2>1. \A c \in Cells : outDegree'[c] = IF c = from THEN outDegree[c] - 1 ELSE outDegree[c]
    BY <1>1, <1>4
  <2>2. cells' = {<<c, outDegree'[c]>> : c \in Cells \ Ordered}
    BY <1>1, <1>3, <2>1 DEF SetKeysFresh, Erase
  <2> QED BY <1>2, <2>2 DEF SetKeysFresh
<1>8. DegreeCountsPending'
  <2>1. SUFFICES ASSUME NEW c \in Cells
                 PROVE  outDegree'[c] = Cardinality(PendingFrom(c)')
    BY <1>2 DEF DegreeCountsPending
  <2>2. IsFiniteSet(PendingFrom(c)) /\ outDegree[c] = Cardinality(PendingFrom(c))
    <3>1. PendingFrom(c) \in SUBSET Slots(input)
      BY DEF PendingFrom, Pending, TypeOK
    <3> QED BY <3>1, SlotFacts, FS_Subset DEF TypeOK, DegreeCountsPending
  <2>3. CASE c = from
    <3>1. PendingFrom(c)' = PendingFrom(c) \ {s} /\ s \in PendingFrom(c)
      BY <1>3, <1>5, <2>3 DEF PendingFrom
    <3> QED BY <1>1, <1>4, <2>2, <2>3, <3>1, FS_RemoveElement
  <2>4. CASE c # from
    <3>1. PendingFrom(c)' = PendingFrom(c)
      BY <1>5, <2>4 DEF PendingFrom
    <3> QED BY <1>1, <1>4, <2>2, <2>4, <3>1
  <2> QED BY <2>3, <2>4
<1>9. OrderedSettled' /\ TodoTargetsOrdered'
  BY <1>1, <1>2, <1>5 DEF OrderedSettled, TodoTargetsOrdered
<1>10. TopologicalOrder'
  BY <1>2 DEF TopologicalOrder
<1>11. PhaseOK'
  BY <1>2 DEF PhaseOK
<1> QED BY <1>2, <1>6, <1>7, <1>8, <1>9, <1>10, <1>11

(* Leaving the inner loop changes the phase only. *)
LEMMA EndRelaxIInv == IInv /\ EndRelax => IInv'
<1> SUFFICES ASSUME IInv, EndRelax PROVE IInv'
  OBVIOUS
<1> USE DEF IInv, EndRelax
<1>1. Cells' = Cells /\ Ordered' = Ordered /\ Pending' = Pending
  BY DEF Cells, Ordered, Pending
<1>2. TypeOK' /\ SetKeysFresh'
  BY <1>1 DEF TypeOK, SetKeysFresh
<1>3. DegreeCountsPending'
  BY <1>1 DEF DegreeCountsPending, PendingFrom
<1>4. OrderedSettled' /\ TodoTargetsOrdered' /\ TopologicalOrder'
  BY <1>1 DEF OrderedSettled, TodoTargetsOrdered, TopologicalOrder
<1>5. PhaseOK'
  BY <1>1 DEF PhaseOK
<1> QED BY <1>2, <1>3, <1>4, <1>5

(* When the set is empty the order has every cell, once. *)
LEMMA OrderComplete ==
    ASSUME IInv, pc \in {"apply", "done"}
    PROVE  Ordered = Cells /\ Len(order) = Cardinality(Cells)
<1> USE DEF IInv
<1>1. Ordered = Cells
  <2>1. Ordered \subseteq Cells
    BY DEF TypeOK, Ordered
  <2>2. {<<i, outDegree[i]>> : i \in Cells \ Ordered} = {}
    BY DEF PhaseOK, SetKeysFresh
  <2> QED BY <2>1, <2>2
<1>2. Len(order) \in Nat /\ order \in [1..Len(order) -> Cells]
  BY DEF TypeOK
<1>3. order \in Bijection(1..Len(order), Cells)
  <2>1. \A a, b \in 1..Len(order) : order[a] = order[b] => a = b
    BY <1>2 DEF TopologicalOrder
  <2>2. \A c \in Cells : \E k \in 1..Len(order) : order[k] = c
    BY <1>1 DEF Ordered
  <2> QED BY <1>2, <2>1, <2>2 DEF Bijection, Injection, IsInjective, Surjection
<1> QED BY <1>1, <1>2, <1>3, FS_CountingElements DEF ExistsBijection

(* apply_order moves the cells and touches nothing of the ordering. *)
LEMMA ApplyOrderIInv == IInv /\ ApplyOrder => IInv'
<1> SUFFICES ASSUME IInv, ApplyOrder PROVE IInv'
  OBVIOUS
<1> USE DEF IInv, ApplyOrder
<1>1. Cells' = Cells /\ Ordered' = Ordered /\ Pending' = Pending
  BY DEF Cells, Ordered, Pending
<1>2. TypeOK' /\ SetKeysFresh'
  BY <1>1 DEF TypeOK, SetKeysFresh
<1>3. DegreeCountsPending'
  BY <1>1 DEF DegreeCountsPending, PendingFrom
<1>4. OrderedSettled' /\ TodoTargetsOrdered' /\ TopologicalOrder'
  BY <1>1 DEF OrderedSettled, TodoTargetsOrdered, TopologicalOrder
<1>5. PhaseOK'
  BY DEF PhaseOK
<1> QED BY <1>2, <1>3, <1>4, <1>5

(* Every step keeps the invariant. *)
LEMMA StepIInv == IInv /\ [Next]_vars => IInv'
<1> SUFFICES ASSUME IInv, [Next]_vars PROVE IInv'
  OBVIOUS
<1>1. CASE Pop
  BY <1>1, PopIInv
<1>2. CASE Relax
  BY <1>2, RelaxIInv
<1>3. CASE EndRelax
  BY <1>3, EndRelaxIInv
<1>4. CASE ApplyOrder
  BY <1>4, ApplyOrderIInv
<1>5. CASE UNCHANGED vars
  <2>1. /\ UNCHANGED <<input, myCells, outDegree, cells, order, todo, pc>>
        /\ Cells' = Cells /\ Ordered' = Ordered /\ Pending' = Pending
    BY <1>5 DEF vars, Cells, Ordered, Pending
  <2>2. TypeOK' /\ SetKeysFresh'
    BY <2>1 DEF IInv, TypeOK, SetKeysFresh
  <2>3. DegreeCountsPending'
    BY <2>1 DEF IInv, DegreeCountsPending, PendingFrom
  <2>4. OrderedSettled' /\ TodoTargetsOrdered' /\ TopologicalOrder'
    BY <2>1 DEF IInv, OrderedSettled, TodoTargetsOrdered, TopologicalOrder
  <2>5. PhaseOK'
    BY <2>1 DEF IInv, PhaseOK
  <2> QED BY <2>2, <2>3, <2>4, <2>5 DEF IInv
<1> QED BY <1>1, <1>2, <1>3, <1>4, <1>5 DEF Next, Done

(* The inductive invariant is an invariant. *)
LEMMA Invariance == Spec => []IInv
<1>1. Init => IInv
  BY CalledIInv, GraphsAssumption DEF Init
<1> QED BY <1>1, StepIInv, PTL DEF Spec
-----------------------------------------------------------------------------
(* No CHECK fails, in a state of the invariant: acyclicity gives a cell that
   refers to ordered cells only, hence of degree 0, and the first entry of the
   set cannot have a larger degree. *)
LEMMA ChecksFollow == IInv => ChecksHold
<1> SUFFICES ASSUME IInv PROVE ChecksHold
  OBVIOUS
<1> USE DEF IInv
<1>1. ASSUME pc = "pop"
      PROVE  \E x \in cells : IsFirst(x) /\ outDegree[x[1]] = 0
  <2>1. PICK x \in cells : IsFirst(x)
    BY <1>1, FirstExists DEF TypeOK, PhaseOK
  <2>2. PICK c \in Cells \ Ordered :
          \A s \in Slots(input) : s[1] = c => Target(input, s) \notin Cells \ Ordered
    <3>1. (Cells \ Ordered) \in SUBSET DOMAIN input /\ Cells \ Ordered # {}
      BY <1>1 DEF PhaseOK, SetKeysFresh, Cells
    <3>2. Acyclic(input)
      BY DEF TypeOK, IsCellGraph, IsDag
    <3> QED BY <3>1, <3>2 DEF Acyclic
  <2>3. outDegree[c] = 0
    <3>1. PendingFrom(c) = {}
      <4>1. todo = {}
        BY <1>1 DEF PhaseOK
      <4>2. \A s \in Slots(input) : Target(input, s) \in Cells
        BY SlotFacts DEF TypeOK, Cells
      <4> QED BY <2>2, <4>1, <4>2 DEF PendingFrom, Pending
    <3> QED BY <2>2, <3>1, FS_EmptySet DEF DegreeCountsPending
  <2>4. <<c, 0>> \in cells
    BY <2>2, <2>3 DEF SetKeysFresh
  <2>5. x[2] = outDegree[x[1]] /\ outDegree[x[1]] \in 0..MaxRefs
    BY DEF TypeOK, SetKeysFresh
  <2>6. x = <<c, 0>> \/ Less(x, <<c, 0>>)
    BY <2>1, <2>4 DEF IsFirst
  <2>7. x[2] <= 0
    BY <2>5, <2>6 DEF Less, MaxRefs
  <2> QED BY <2>1, <2>5, <2>7 DEF MaxRefs
<1>2. ASSUME NEW s \in todo
      PROVE  outDegree[s[1]] > 0
  <2>1. s[1] \in Cells /\ s \in PendingFrom(s[1])
    BY SlotFacts DEF TypeOK, Pending, PendingFrom, Cells
  <2>2. IsFiniteSet(PendingFrom(s[1]))
    <3>1. PendingFrom(s[1]) \in SUBSET Slots(input)
      BY DEF PendingFrom, Pending, TypeOK
    <3> QED BY <3>1, SlotFacts, FS_Subset DEF TypeOK
  <2>3. Cardinality(PendingFrom(s[1])) # 0 /\ Cardinality(PendingFrom(s[1])) \in Nat
    BY <2>1, <2>2, FS_EmptySet, FS_CardinalityType
  <2> QED BY <2>1, <2>3 DEF DegreeCountsPending
<1>3. pc = "apply" => Len(order) = Cardinality(Cells)
  BY OrderComplete
<1> QED BY <1>1, <1>2, <1>3 DEF ChecksHold

(* The root ends the order: any other cell is referred to, by a cell that comes
   later. *)
LEMMA RootFollows == IInv => RootLast
<1> SUFFICES ASSUME IInv, pc \in {"apply", "done"}
             PROVE  Len(order) > 0 /\ order[Len(order)] = 0
  BY DEF RootLast
<1> USE DEF IInv
<1> DEFINE n == Len(order)
<1>1. Ordered = Cells
  BY OrderComplete
<1>2. n \in Nat /\ order \in [1..n -> Cells] /\ 0 \in Cells
  BY DEF TypeOK, IsCellGraph, IsDag, Cells
<1>3. n > 0
  BY <1>1, <1>2 DEF Ordered
<1>4. ASSUME order[n] # 0 PROVE FALSE
  <2>1. order[n] \in DOMAIN input \ {0}
    BY <1>2, <1>3, <1>4 DEF Cells
  <2>2. PICK s \in Slots(input) : Target(input, s) = order[n]
    BY <2>1 DEF TypeOK, IsCellGraph, IsDag, Rooted, RootedAt
  <2>3. PICK k \in 1..n : order[k] = s[1]
    BY <1>1, SlotFacts DEF TypeOK, Ordered, Cells
  <2>4. PICK l \in 1..k - 1 : order[l] = order[n]
    BY <2>2, <2>3 DEF TopologicalOrder
  <2>5. l \in 1..n - 1
    BY <1>2, <2>3, <2>4
  <2>6. \A m \in 1..n - 1 : order[m] # order[n]
    BY <1>2, <1>3 DEF TopologicalOrder
  <2> QED BY <2>4, <2>5, <2>6
<1> QED BY <1>3, <1>4

(* pos inverts the order. *)
LEMMA PosInverts ==
    ASSUME IInv, pc \in {"apply", "done"}, NEW i \in Cells
    PROVE  Pos(order, i) \in 0..Len(order) - 1 /\ order[Pos(order, i) + 1] = i
<1>1. \E k \in 0..Len(order) - 1 : order[k + 1] = i
  <2>1. PICK k \in 1..Len(order) : order[k] = i
    BY OrderComplete DEF Ordered
  <2>2. Len(order) \in Nat
    BY DEF IInv, TypeOK
  <2> QED BY <2>1, <2>2
<1> QED BY <1>1 DEF Pos

(* What apply_order leaves in my_cells. *)
LEMMA ReorderedFacts ==
    ASSUME IInv, pc = "done"
    PROVE  LET n == Len(order)
           IN  /\ n \in Nat /\ n = Cardinality(Cells) /\ order \in [1..n -> Cells]
               /\ DOMAIN myCells = 0..n - 1
               /\ \A k \in 0..n - 1 :
                   /\ order[k + 1] \in Cells
                   /\ myCells[k].cell = order[k + 1]
                   /\ Len(input[order[k + 1]]) \in Nat /\ Len(input[order[k + 1]]) <= MaxRefs
                   /\ Len(myCells[k].refs) = Len(input[order[k + 1]])
                   /\ myCells[k].refs \in Seq(0..n - 1)
                   /\ \A j \in 1..Len(input[order[k + 1]]) :
                        /\ myCells[k].refs[j] \in 0..n - 1
                        /\ order[myCells[k].refs[j] + 1] = input[order[k + 1]][j]
<1> USE DEF IInv
<1> DEFINE n == Len(order)
<1>1. /\ myCells = Reordered(order, FirstCells(input))
      /\ Ordered = Cells /\ n = Cardinality(Cells)
      /\ n \in Nat /\ order \in [1..n -> Cells]
  BY OrderComplete DEF PhaseOK, TypeOK
<1>2. \A i \in Cells : /\ input[i] \in Seq(Cells)
                       /\ Len(input[i]) \in Nat /\ Len(input[i]) <= MaxRefs
  BY DEF TypeOK, IsCellGraph, IsDag, Cells
<1>3. /\ DOMAIN myCells = 0..n - 1
      /\ \A k \in 0..n - 1 :
           /\ order[k + 1] \in Cells
           /\ myCells[k].cell = order[k + 1]
           /\ myCells[k].refs = Renumber(order, input[order[k + 1]])
  <2>1. \A k \in 0..n - 1 : order[k + 1] \in Cells
    BY <1>1
  <2>2. \A i \in Cells : FirstCells(input)[i].cell = i /\ FirstCells(input)[i].refs = input[i]
    BY DEF FirstCells, Cells
  <2>3. \A k \in 0..n - 1 :
          myCells[k] = [cell |-> FirstCells(input)[order[k + 1]].cell,
                        refs |-> Renumber(order, FirstCells(input)[order[k + 1]].refs)]
    BY <1>1 DEF Reordered
  <2>4. DOMAIN myCells = 0..n - 1
    BY <1>1 DEF Reordered
  <2> QED BY <2>1, <2>2, <2>3, <2>4
<1>4. ASSUME NEW k \in 0..n - 1
      PROVE  /\ Len(myCells[k].refs) = Len(input[order[k + 1]])
             /\ \A j \in 1..Len(input[order[k + 1]]) :
                  /\ input[order[k + 1]][j] \in Cells
                  /\ myCells[k].refs[j] = Pos(order, input[order[k + 1]][j])
  <2> DEFINE r == input[order[k + 1]]
  <2>1. r \in Seq(Cells) /\ Len(r) \in Nat
    BY <1>2, <1>3
  <2>2. myCells[k].refs = [j \in 1..Len(r) |-> Pos(order, r[j])]
    BY <1>3 DEF Renumber
  <2> HIDE DEF r
  <2>3. Len([j \in 1..Len(r) |-> Pos(order, r[j])]) = Len(r)
    BY <2>1
  <2> QED BY <2>1, <2>2, <2>3 DEF r
<1>5. \A k \in 0..n - 1 : \A j \in 1..Len(input[order[k + 1]]) :
        /\ myCells[k].refs[j] \in 0..n - 1
        /\ order[myCells[k].refs[j] + 1] = input[order[k + 1]][j]
  BY <1>4, PosInverts
<1>6. ASSUME NEW k \in 0..n - 1 PROVE myCells[k].refs \in Seq(0..n - 1)
  <2> DEFINE r == input[order[k + 1]]
  <2>1. myCells[k].refs = [j \in 1..Len(r) |-> Pos(order, r[j])] /\ Len(r) \in Nat
    BY <1>2, <1>3 DEF Renumber
  <2>2. \A j \in 1..Len(r) : Pos(order, r[j]) \in 0..n - 1
    BY <1>4, <1>5
  <2> HIDE DEF r
  <2> QED BY <2>1, <2>2
<1> QED BY <1>1, <1>2, <1>3, <1>4, <1>5, <1>6

(* The reordered cells are the graph again, and every reference goes back. *)
LEMMA GraphFollows == IInv => SameGraph /\ RefsGoBack
<1> SUFFICES ASSUME IInv, pc = "done" PROVE SameGraph /\ RefsGoBack
  BY DEF SameGraph, RefsGoBack
<1> USE DEF IInv
<1> DEFINE n == Len(order)
<1>1. /\ n \in Nat /\ n = Cardinality(Cells) /\ order \in [1..n -> Cells]
      /\ DOMAIN myCells = 0..n - 1
  BY ReorderedFacts
<1>2. \A i \in Cells : Len(input[i]) \in Nat /\ Len(input[i]) <= MaxRefs
  BY DEF TypeOK, IsCellGraph, IsDag, Cells
<1>3. \A k \in 0..n - 1 : order[k + 1] \in Cells /\ myCells[k].cell = order[k + 1]
  BY ReorderedFacts
<1>4. \A k \in 0..n - 1 : Len(myCells[k].refs) = Len(input[order[k + 1]])
  BY ReorderedFacts
<1>5. \A k \in 0..n - 1 : \A j \in 1..Len(input[order[k + 1]]) :
        /\ myCells[k].refs[j] \in 0..n - 1
        /\ order[myCells[k].refs[j] + 1] = input[order[k + 1]][j]
  BY ReorderedFacts
<1>6. SameGraph
  <2>1. {myCells[k].cell : k \in 0..n - 1} = Cells
    <3>1. ASSUME NEW c \in Cells PROVE \E k \in 0..n - 1 : myCells[k].cell = c
      <4>1. PICK k \in 0..n - 1 : order[k + 1] = c
        BY PosInverts
      <4> QED BY <1>3, <4>1
    <3> QED BY <1>3, <3>1
  <2>2. ASSUME NEW k \in 0..n - 1
        PROVE  /\ Len(myCells[k].refs) = Len(input[myCells[k].cell])
               /\ \A j \in 1..Len(myCells[k].refs) :
                    myCells[myCells[k].refs[j]].cell = input[myCells[k].cell][j]
    <3>1. myCells[k].cell = order[k + 1] /\ Len(myCells[k].refs) = Len(input[order[k + 1]])
      BY ONLY <1>3, <1>4, k \in 0..n - 1
    <3>2. ASSUME NEW j \in 1..Len(input[order[k + 1]])
          PROVE  myCells[myCells[k].refs[j]].cell = input[order[k + 1]][j]
      <4>1. /\ myCells[k].refs[j] \in 0..n - 1
            /\ order[myCells[k].refs[j] + 1] = input[order[k + 1]][j]
        BY ONLY <1>5, k \in 0..n - 1, j \in 1..Len(input[order[k + 1]])
      <4> QED BY ONLY <1>3, <4>1
    <3> QED BY ONLY <3>1, <3>2
  <2> QED BY <1>1, <1>3, <2>1, <2>2 DEF SameGraph
<1>7. RefsGoBack
  <2>1. SUFFICES ASSUME NEW k \in 0..n - 1, NEW j \in 1..Len(myCells[k].refs)
                 PROVE  myCells[k].refs[j] \in 0..k - 1
    BY <1>1 DEF RefsGoBack
  <2> DEFINE c == order[k + 1]
             t == myCells[k].refs[j]
  <2>2. c \in Cells /\ j \in 1..Len(input[c]) /\ t \in 0..n - 1 /\ order[t + 1] = input[c][j]
    BY <1>3, <1>4, <1>5, <2>1
  <2>3. PICK l \in 1..k : order[l] = input[c][j]
    <3>1. <<c, j>> \in Slots(input)
      <4>1. Len(input[c]) \in Nat /\ Len(input[c]) <= MaxRefs
        BY <1>2, <2>2
      <4>2. j \in 1..MaxRefs /\ j <= Len(input[c])
        BY <2>2, <4>1 DEF MaxRefs
      <4> QED BY <2>2, <4>2 DEF Slots, Cells
    <3>2. k + 1 \in 1..Len(order) /\ (k + 1) - 1 = k
      BY <1>1
    <3>3. \E l \in 1..(k + 1) - 1 : order[l] = Target(input, <<c, j>>)
      BY <3>1, <3>2 DEF TopologicalOrder
    <3> QED BY <3>2, <3>3 DEF Target
  <2>4. l = t + 1
    <3>1. \A a, b \in 1..n : a < b => order[a] # order[b]
      BY <1>1 DEF TopologicalOrder
    <3>2. l \in 1..n /\ t + 1 \in 1..n /\ order[l] = order[t + 1]
      BY <1>1, <2>2, <2>3
    <3> QED BY <3>1, <3>2
  <2> QED BY <2>2, <2>3, <2>4
<1> QED BY <1>6, <1>7

(* The references under the new numbers. *)
NewRefs == [k \in DOMAIN myCells |-> myCells[k].refs]

(* They have what my_cells_to_vm_root needs: no cycle, and one cell that all others
   are behind, which is the first of the old numbers and the last of the new. *)
LEMMA RootedFollows ==
    ASSUME IInv, pc = "done"
    PROVE  /\ IsRooted(NewRefs)
           /\ \A r \in DOMAIN myCells : RootedAt(NewRefs, r) => myCells[r].cell = 0
           /\ \A k, l \in DOMAIN myCells : myCells[k].cell = myCells[l].cell => k = l
<1> USE DEF IInv
<1>1. PICK n : n = Len(order)
  OBVIOUS
<1>2. /\ n \in Nat /\ order \in [1..n -> Cells] /\ DOMAIN myCells = 0..n - 1
      /\ DOMAIN NewRefs = 0..n - 1
  BY <1>1, ReorderedFacts DEF NewRefs
<1>3. ASSUME NEW k \in 0..n - 1
      PROVE  LET c == order[k + 1]
             IN  /\ c \in Cells /\ myCells[k].cell = c
                 /\ Len(input[c]) \in Nat /\ Len(input[c]) <= MaxRefs
                 /\ NewRefs[k] = myCells[k].refs
                 /\ Len(NewRefs[k]) = Len(input[c])
                 /\ NewRefs[k] \in Seq(0..n - 1)
                 /\ \A j \in 1..Len(input[c]) :
                      /\ NewRefs[k][j] \in 0..k - 1
                      /\ order[NewRefs[k][j] + 1] = input[c][j]
  <2>1. NewRefs[k] = myCells[k].refs
    BY <1>2 DEF NewRefs
  <2>2. /\ order[k + 1] \in Cells
        /\ myCells[k].cell = order[k + 1]
        /\ Len(input[order[k + 1]]) \in Nat /\ Len(input[order[k + 1]]) <= MaxRefs
        /\ Len(myCells[k].refs) = Len(input[order[k + 1]])
        /\ myCells[k].refs \in Seq(0..n - 1)
        /\ \A j \in 1..Len(input[order[k + 1]]) :
             order[myCells[k].refs[j] + 1] = input[order[k + 1]][j]
    BY <1>1, ReorderedFacts
  <2>3. \A j \in 1..Len(myCells[k].refs) : myCells[k].refs[j] \in 0..k - 1
    <3>1. RefsGoBack
      BY GraphFollows
    <3> QED BY <1>2, <3>1 DEF RefsGoBack
  <2> QED BY <2>1, <2>2, <2>3
<1>4. 0 \in Cells /\ Rooted(input)
  BY DEF TypeOK, IsCellGraph, Cells
<1>5. n > 0 /\ order[n] = 0
  BY <1>1, RootFollows DEF RootLast
<1>6. \A k, l \in 0..n - 1 : myCells[k].cell = myCells[l].cell => k = l
  <2> SUFFICES ASSUME NEW k \in 0..n - 1, NEW l \in 0..n - 1, k < l,
                      myCells[k].cell = myCells[l].cell
               PROVE  FALSE
    BY <1>2
  <2>1. order[k + 1] = order[l + 1]
    BY <1>3
  <2>2. l + 1 \in 1..Len(order) /\ k + 1 \in 1..(l + 1) - 1
    BY <1>1, <1>2
  <2> QED BY <2>1, <2>2 DEF TopologicalOrder
<1>7. ASSUME NEW k \in 0..n - 1, NEW j \in 1..Len(NewRefs[k])
      PROVE  /\ <<k, j>> \in Slots(NewRefs)
             /\ Target(NewRefs, <<k, j>>) = NewRefs[k][j]
  <2>1. j \in 1..MaxRefs /\ j <= Len(NewRefs[k])
    BY <1>3 DEF MaxRefs
  <2> QED BY <1>2, <2>1 DEF Slots, Target
<1>8. ASSUME NEW s \in Slots(NewRefs)
      PROVE  s[1] \in 0..n - 1 /\ Target(NewRefs, s) \in 0..s[1] - 1
  <2>1. s[1] \in 0..n - 1 /\ s[2] \in 1..MaxRefs /\ s[2] <= Len(NewRefs[s[1]])
    BY <1>2 DEF Slots
  <2>2. s[2] \in 1..Len(NewRefs[s[1]])
    BY <1>3, <2>1 DEF MaxRefs
  <2>3. NewRefs[s[1]][s[2]] \in 0..s[1] - 1
    BY <1>3, <2>1, <2>2
  <2> QED BY <2>1, <2>3 DEF Target
<1>9. Acyclic(NewRefs)
  <2> SUFFICES ASSUME NEW S \in SUBSET (0..n - 1), S # {}
               PROVE  \E c \in S :
                        \A s \in Slots(NewRefs) : s[1] = c => Target(NewRefs, s) \notin S
    BY <1>2 DEF Acyclic
  <2>1. S \in SUBSET Nat
    BY <1>2
  <2>2. PICK c \in S : \A x \in S : c <= x
    BY <2>1, LeastNatural
  <2>3. ASSUME NEW s \in Slots(NewRefs), s[1] = c PROVE Target(NewRefs, s) \notin S
    <3>1. c \in Nat /\ Target(NewRefs, s) \in 0..c - 1
      BY <1>8, <2>1, <2>3
    <3>2. ~ (c <= Target(NewRefs, s))
      BY <3>1
    <3> QED BY <2>2, <3>2
  <2> QED BY <2>3
<1>10. IsDag(NewRefs)
  <2>1. IsFiniteSet(0..n - 1)
    BY <1>2, FS_Interval
  <2>2. \A k \in 0..n - 1 : NewRefs[k] \in Seq(0..n - 1) /\ Len(NewRefs[k]) <= MaxRefs
    BY <1>3
  <2> QED BY <1>2, <1>9, <2>1, <2>2 DEF IsDag
<1>11. DOMAIN NewRefs = 0..Cardinality(DOMAIN NewRefs) - 1
  <2>1. Cardinality(0..n - 1) = n
    BY <1>2, <1>5, FS_Interval
  <2> QED BY <1>2, <2>1
<1>12. RootedAt(NewRefs, n - 1)
  <2> SUFFICES ASSUME NEW k \in 0..n - 1, k # n - 1
               PROVE  \E s \in Slots(NewRefs) : Target(NewRefs, s) = k
    BY <1>2 DEF RootedAt
  <2>1. order[k + 1] \in Cells /\ order[k + 1] # 0
    <3>1. n - 1 \in 0..n - 1 /\ (n - 1) + 1 = n
      BY <1>2, <1>5
    <3> QED BY <1>3, <1>5, <1>6, <3>1
  <2>2. PICK s \in Slots(input) : Target(input, s) = order[k + 1]
    BY <1>4, <2>1 DEF Rooted, RootedAt, Cells
  <2>3. /\ s[1] \in Cells /\ s[2] \in 1..Len(input[s[1]])
        /\ input[s[1]][s[2]] = order[k + 1]
    <3>1. s[1] \in Cells /\ s[2] \in 1..MaxRefs /\ s[2] <= Len(input[s[1]])
      BY DEF Slots, Cells
    <3>2. Len(input[s[1]]) \in Nat
      BY <3>1 DEF TypeOK, IsCellGraph, IsDag, Cells
    <3> QED BY <2>2, <3>1, <3>2 DEF Target, MaxRefs
  <2>4. PICK f \in 0..n - 1 : order[f + 1] = s[1]
    BY <1>1, <2>3, PosInverts
  <2>5. s[2] \in 1..Len(NewRefs[f]) /\ NewRefs[f][s[2]] \in 0..f - 1
        /\ order[NewRefs[f][s[2]] + 1] = order[k + 1]
    <3>1. /\ Len(NewRefs[f]) = Len(input[order[f + 1]])
          /\ \A i \in 1..Len(input[order[f + 1]]) :
                order[NewRefs[f][i] + 1] = input[order[f + 1]][i]
          /\ \A i \in 1..Len(NewRefs[f]) : NewRefs[f][i] \in 0..f - 1
      BY ONLY <1>3, f \in 0..n - 1
    <3>2. s[2] \in 1..Len(input[order[f + 1]]) /\ input[order[f + 1]][s[2]] = order[k + 1]
      BY ONLY <2>3, <2>4
    <3> QED BY ONLY <3>1, <3>2
  <2>6. NewRefs[f][s[2]] \in 0..n - 1
    BY <1>2, <2>5
  <2>7. NewRefs[f][s[2]] = k
    BY <1>3, <1>6, <2>5, <2>6
  <2> QED BY <1>7, <2>5, <2>7
<1>13. \A r \in 0..n - 1 : RootedAt(NewRefs, r) => myCells[r].cell = 0
  <2> SUFFICES ASSUME NEW r \in 0..n - 1, RootedAt(NewRefs, r), r # n - 1 PROVE FALSE
    <3>1. n - 1 \in 0..n - 1 /\ (n - 1) + 1 = n
      BY <1>2, <1>5
    <3> QED BY <1>3, <1>5, <3>1
  <2>1. n - 1 \in DOMAIN NewRefs \ {r}
    BY <1>2, <1>5
  <2>2. PICK s \in Slots(NewRefs) : Target(NewRefs, s) = n - 1
    BY <2>1 DEF RootedAt
  <2> QED BY <1>2, <1>8, <2>2
<1>14. n - 1 \in DOMAIN NewRefs
  BY <1>2, <1>5
<1> QED BY <1>2, <1>6, <1>10, <1>11, <1>12, <1>13, <1>14 DEF IsRooted
-----------------------------------------------------------------------------
(* Every variable keeps its type, for any set of cell graphs. *)
THEOREM TypeCorrect == Spec => []TypeOK
BY Invariance, PTL DEF IInv

(* The std::set whose comparator reads out_degree never holds a stale key. *)
THEOREM KeysNeverStale == Spec => []SetKeysFresh
BY Invariance, PTL DEF IInv

(* out_degree counts the references to cells not ordered yet. *)
THEOREM DegreesCorrect == Spec => []DegreeCountsPending
BY Invariance, PTL DEF IInv

(* No CHECK of the ordering fails on a rooted acyclic graph. *)
THEOREM NoCheckFails == Spec => []ChecksHold
BY Invariance, ChecksFollow, PTL

(* A cell is ordered once, after all it refers to. *)
THEOREM OrderIsTopological == Spec => []TopologicalOrder
BY Invariance, PTL DEF IInv

(* The last cell of the applied order is the root. *)
THEOREM RootIsLast == Spec => []RootLast
BY Invariance, RootFollows, PTL

(* apply_order keeps the graph. *)
THEOREM ReorderedGraphSame == Spec => []SameGraph
BY Invariance, GraphFollows, PTL

(* After apply_order all references go back. *)
THEOREM ReferencesGoBack == Spec => []RefsGoBack
BY Invariance, GraphFollows, PTL

(* The references that are encoded have what my_cells_to_vm_root needs. *)
THEOREM RootedGraphHandedOver == Spec => [](pc = "done" => IsRooted(NewRefs))
<1>1. IInv => (pc = "done" => IsRooted(NewRefs))
  BY RootedFollows
<1> QED BY <1>1, Invariance, PTL
=============================================================================
