--------------------------- MODULE AutomatonProofs ---------------------------
(***************************************************************************)
(* Proofs about the suffix automaton and its two users, for every text and *)
(* every set of training strings.                                          *)
(*                                                                         *)
(* A labelling at[e][l] gives each word of the text, the l characters up   *)
(* to e, its state.  Automaton says what such a labelling is: two words    *)
(* have one label exactly when they end at the same places, the lengths of *)
(* a label are an interval that len and the link bound, and the steps are  *)
(* those of the text.  Turn adds one character; BuildInv is the same with  *)
(* what the two loops of add_c have not come to yet (FilledFrom,           *)
(* RedirectedFrom).  MatchInv and DictInv are about the labels that the    *)
(* match finder and the dictionary visit on their walks.                   *)
(***************************************************************************)
EXTENDS SuffAut, Dictionary, DataFacts

(* The last l characters up to e and up to f are the same. *)
Same(e, f, l) == \A k \in 0..l - 1 : word[e - k] = word[f - k]

NodesOK(nd) ==
    /\ nd \in Seq([to : [{0, 1} -> Nat], link : Nat, len : Nat])
    /\ Len(nd) \in Nat \ {0}
    /\ nd[Root].len = 0 /\ nd[Root].link = Null
    /\ \A v \in 1..Len(nd) :
        /\ nd[v].link \in 0..Len(nd)
        /\ \A c \in {0, 1} : nd[v].to[c] \in 0..Len(nd)

Shortest(nd, v) == IF v = Root THEN 0 ELSE nd[nd[v].link].len + 1

StateThere(m, nd, at) ==
    \A e \in 0..m : \A l \in 0..e : at[e][l] \in 1..Len(nd) /\ (at[e][l] = Root <=> l = 0)

SameState(m, at) ==
    \A e, f \in 0..m : \A l \in 0..e : l <= f /\ Same(e, f, l) => at[e][l] = at[f][l]

SuffixOfOther(m, at) ==
    \A e, f \in 0..m : \A l \in 0..e, k \in 0..f :
        l <= k /\ at[e][l] = at[f][k] => Same(e, f, l)

LengthAt(nd, at, e, l) ==
    /\ nd[at[e][l]].len \in l..e
    /\ Shortest(nd, at[e][l]) \in 0..l
    /\ \A k \in Shortest(nd, at[e][l])..nd[at[e][l]].len : at[e][k] = at[e][l]

Lengths(m, nd, at) == \A e \in 0..m : \A l \in 0..e : LengthAt(nd, at, e, l)

LinkAt(nd, at, e, l) ==
    /\ nd[at[e][l]].link # Null
    /\ at[e][nd[nd[at[e][l]].link].len] = nd[at[e][l]].link

Links(m, nd, at) == \A e \in 0..m : \A l \in 1..e : LinkAt(nd, at, e, l)

Distinct(m, nd, at) ==
    \A v \in 1..Len(nd) :
        \/ nd[v].len <= m /\ at[nd[v].len][nd[v].len] = v
        \/ \E e, f \in nd[v].len + 1..m :
            /\ at[e][nd[v].len] = v /\ at[f][nd[v].len] = v
            /\ word[e - nd[v].len] # word[f - nd[v].len]

Steps(m, nd, at) ==
    \A e \in 0..m - 1 : \A l \in 0..e : nd[at[e][l]].to[word[e + 1]] = at[e + 1][l + 1]

OnlySteps(m, nd, at) ==
    \A v \in 1..Len(nd), c \in {0, 1} :
        nd[v].to[c] # Null =>
            \E e \in 0..m - 1 : nd[v].len <= e /\ at[e][nd[v].len] = v /\ word[e + 1] = c

Automaton(m, nd, at) ==
    /\ word \in Seq({0, 1}) /\ m \in 0..Len(word)
    /\ NodesOK(nd)
    /\ StateThere(m, nd, at) /\ SameState(m, at) /\ SuffixOfOther(m, at)
    /\ Lengths(m, nd, at) /\ Links(m, nd, at) /\ Distinct(m, nd, at)
    /\ Steps(m, nd, at) /\ OnlySteps(m, nd, at)
-----------------------------------------------------------------------------
LEMMA SameFacts ==
    ASSUME NEW e, NEW f, NEW l \in Nat, Same(e, f, l)
    PROVE  /\ Same(f, e, l)
           /\ \A k \in 0..l : Same(e, f, k)
           /\ \A g : Same(f, g, l) => Same(e, g, l)
BY DEF Same

LEMMA OneBack ==
    ASSUME NEW e \in Nat, NEW f \in Nat, NEW l \in Nat, Same(e + 1, f + 1, l + 1)
    PROVE  Same(e, f, l) /\ word[e + 1] = word[f + 1]
<1>1. \A k \in 0..(l + 1) - 1 : word[e + 1 - k] = word[f + 1 - k]
  BY DEF Same
<1>2. word[e + 1 - 0] = word[f + 1 - 0]
  BY <1>1
<1>3. ASSUME NEW k \in 0..l - 1 PROVE word[e - k] = word[f - k]
  <2>1. k + 1 \in 0..(l + 1) - 1
    OBVIOUS
  <2>2. word[e + 1 - (k + 1)] = word[f + 1 - (k + 1)]
    BY <1>1, <2>1
  <2> QED BY <2>2
<1> QED BY <1>2, <1>3 DEF Same

LEMMA SameOneLess ==
    ASSUME NEW e \in Nat, NEW f \in Nat, NEW l \in Nat
    PROVE  /\ Same(e + 1, f + 1, l + 1) <=> Same(e, f, l) /\ word[e + 1] = word[f + 1]
           /\ Same(e, f, l + 1) <=> Same(e, f, l) /\ word[e - l] = word[f - l]
<1>1. ASSUME Same(e + 1, f + 1, l + 1) PROVE Same(e, f, l) /\ word[e + 1] = word[f + 1]
  BY <1>1, OneBack
<1>2. ASSUME Same(e, f, l), word[e + 1] = word[f + 1] PROVE Same(e + 1, f + 1, l + 1)
  <2> SUFFICES ASSUME NEW k \in 0..(l + 1) - 1 PROVE word[e + 1 - k] = word[f + 1 - k]
    BY DEF Same
  <2>1. CASE k = 0
    BY <1>2, <2>1
  <2>2. CASE k # 0
    <3>1. k - 1 \in 0..l - 1
      BY <2>2
    <3>2. word[e - (k - 1)] = word[f - (k - 1)]
      BY <1>2, <3>1 DEF Same
    <3> QED BY <3>2
  <2> QED BY <2>1, <2>2
<1>3. Same(e, f, l + 1) <=> Same(e, f, l) /\ word[e - l] = word[f - l]
  <2>1. 0..(l + 1) - 1 = (0..l - 1) \cup {l}
    OBVIOUS
  <2> QED BY <2>1 DEF Same
<1> QED BY <1>1, <1>2, <1>3



LEMMA SameLonger ==
    ASSUME NEW e, NEW f, NEW l \in Nat, Same(e, f, l), word[e - l] = word[f - l]
    PROVE  Same(e, f, l + 1)
<1>1. 0..(l + 1) - 1 = (0..l - 1) \cup {l}
  OBVIOUS
<1> QED BY <1>1 DEF Same

LEMMA NodeFacts ==
    ASSUME NEW nd, NodesOK(nd), NEW v \in 1..Len(nd)
    PROVE  /\ nd[v].len \in Nat /\ nd[v].link \in 0..Len(nd)
           /\ \A c \in {0, 1} : nd[v].to[c] \in 0..Len(nd)
<1>1. nd[v] \in [to : [{0, 1} -> Nat], link : Nat, len : Nat]
  BY ElementOfSeq DEF NodesOK
<1> QED BY <1>1 DEF NodesOK

LEMMA StateFacts ==
    ASSUME NEW m, NEW nd, NEW at, Automaton(m, nd, at), NEW e \in 0..m, NEW l \in 0..e
    PROVE  /\ m \in Nat /\ Len(nd) \in Nat
           /\ at[e][l] \in 1..Len(nd)
           /\ l = 0 => at[e][l] = Root
           /\ l # 0 => at[e][l] # Root
           /\ nd[at[e][l]].len \in l..e
<1>1. /\ at[e][l] \in 1..Len(nd) /\ (at[e][l] = Root <=> l = 0)
  BY DEF Automaton, StateThere
<1>2. nd[at[e][l]].len \in l..e
  BY DEF Automaton, Lengths, LengthAt
<1>3. m \in Nat /\ Len(nd) \in Nat
  BY DEF Automaton, NodesOK
<1> QED BY ONLY <1>1, <1>2, <1>3

(* The longest word of a state ends wherever one of its words ends. *)
LEMMA LongestAt ==
    ASSUME NEW m, NEW nd, NEW at, Automaton(m, nd, at), NEW e \in 0..m, NEW l \in 0..e
    PROVE  at[e][nd[at[e][l]].len] = at[e][l]
<1>0. m \in Nat
  BY DEF Automaton
<1>1. /\ nd[at[e][l]].len \in l..e
      /\ Shortest(nd, at[e][l]) \in 0..l
      /\ \A k \in Shortest(nd, at[e][l])..nd[at[e][l]].len : at[e][k] = at[e][l]
  BY DEF Automaton, Lengths, LengthAt
<1>2. nd[at[e][l]].len \in Shortest(nd, at[e][l])..nd[at[e][l]].len
  BY <1>0, <1>1
<1> QED BY <1>1, <1>2

(* Of two words of one state all in between are of this state. *)
LEMMA Between ==
    ASSUME NEW m, NEW nd, NEW at, Automaton(m, nd, at),
           NEW e \in 0..m, NEW l \in 0..e, NEW f \in 0..m, NEW j \in 0..f,
           at[e][l] = at[f][j], NEW k \in l..j
    PROVE  k <= e /\ k <= f /\ at[e][k] = at[e][l] /\ at[f][k] = at[e][l]
<1>0. m \in Nat
  BY DEF Automaton
<1>1. /\ nd[at[e][l]].len \in l..e
      /\ Shortest(nd, at[e][l]) \in 0..l
      /\ \A h \in Shortest(nd, at[e][l])..nd[at[e][l]].len : at[e][h] = at[e][l]
  BY DEF Automaton, Lengths, LengthAt
<1>2. /\ nd[at[f][j]].len \in j..f
      /\ Shortest(nd, at[f][j]) \in 0..j
      /\ \A h \in Shortest(nd, at[f][j])..nd[at[f][j]].len : at[f][h] = at[f][j]
  BY DEF Automaton, Lengths, LengthAt
<1>3. k \in Shortest(nd, at[e][l])..nd[at[e][l]].len
  BY <1>0, <1>1, <1>2
<1> QED BY <1>0, <1>1, <1>2, <1>3

(* Where a transition leads. *)
LEMMA StepFacts ==
    ASSUME NEW m, NEW nd, NEW at, Automaton(m, nd, at),
           NEW v \in 1..Len(nd), NEW c \in {0, 1}, nd[v].to[c] # Null
    PROVE  \E e \in 0..m - 1 :
            /\ nd[v].len \in 0..e /\ at[e][nd[v].len] = v /\ word[e + 1] = c
            /\ at[e + 1][nd[v].len + 1] = nd[v].to[c]
            /\ nd[v].to[c] \in 1..Len(nd) /\ nd[v].len < nd[nd[v].to[c]].len
<1>0. m \in Nat /\ nd[v].len \in Nat
  BY NodeFacts DEF Automaton
<1>1. PICK e \in 0..m - 1 : nd[v].len <= e /\ at[e][nd[v].len] = v /\ word[e + 1] = c
  BY DEF Automaton, OnlySteps
<1>2. nd[v].len \in 0..e /\ e + 1 \in 0..m /\ nd[v].len + 1 \in 0..e + 1
  BY <1>0, <1>1
<1>3. at[e + 1][nd[v].len + 1] = nd[v].to[c]
  BY <1>1, <1>2 DEF Automaton, Steps
<1>4. at[e + 1][nd[v].len + 1] \in 1..Len(nd) /\ nd[at[e + 1][nd[v].len + 1]].len \in nd[v].len + 1..e + 1
  BY <1>2, StateFacts
<1> QED BY <1>0, <1>1, <1>2, <1>3, <1>4

LEMMA StepLonger ==
    ASSUME NEW m, NEW nd, NEW at, Automaton(m, nd, at),
           NEW v \in 1..Len(nd), NEW c \in {0, 1}, nd[v].to[c] # Null
    PROVE  nd[v].len < nd[nd[v].to[c]].len /\ nd[v].to[c] \in 1..Len(nd)
BY ONLY Automaton(m, nd, at), v \in 1..Len(nd), c \in {0, 1}, nd[v].to[c] # Null, StepFacts

LEMMA StepPlace ==
    ASSUME NEW m, NEW nd, NEW at, Automaton(m, nd, at),
           NEW v \in 1..Len(nd), NEW c \in {0, 1}, nd[v].to[c] # Null
    PROVE  \E e \in 0..m - 1 :
            /\ nd[v].len \in 0..e /\ at[e][nd[v].len] = v /\ word[e + 1] = c
            /\ at[e + 1][nd[v].len + 1] = nd[v].to[c]
BY ONLY Automaton(m, nd, at), v \in 1..Len(nd), c \in {0, 1}, nd[v].to[c] # Null, StepFacts

(* Where the character c after m leads. *)
LEMMA NoStep ==
    ASSUME NEW m, NEW nd, NEW at, Automaton(m, nd, at), m < Len(word),
           NEW l \in 0..m, nd[at[m][l]].to[word[m + 1]] = Null,
           NEW e \in 0..m, l + 1 <= e
    PROVE  ~ Same(m + 1, e, l + 1)
<1> SUFFICES ASSUME Same(m + 1, e, l + 1) PROVE FALSE
  OBVIOUS
<1>0. m \in Nat /\ l \in Nat
  BY DEF Automaton
<1>1. PICK d \in 0..m - 1 : e = d + 1
  <2>1. e - 1 \in 0..m - 1 /\ e = (e - 1) + 1
    BY <1>0
  <2> QED BY <2>1
<1>2. d \in Nat /\ d \in 0..m /\ l \in 0..d /\ l <= m
  BY <1>0, <1>1
<1>3. Same(d + 1, m + 1, l + 1)
  BY <1>0, <1>1, SameFacts
<1>4. Same(d, m, l) /\ word[d + 1] = word[m + 1]
  BY ONLY <1>0, <1>2, <1>3, OneBack
<1>5. at[d][l] = at[m][l]
  <2>1. m \in 0..m
    BY <1>0
  <2> QED BY <1>0, <1>2, <1>4, <2>1 DEF Automaton, SameState
<1>6. nd[at[d][l]].to[word[d + 1]] = at[d + 1][l + 1]
  BY <1>1, <1>2 DEF Automaton, Steps
<1>7. at[e][l + 1] \in 1..Len(nd)
  BY <1>0, StateFacts
<1> QED BY <1>1, <1>4, <1>5, <1>6, <1>7 DEF Null
-----------------------------------------------------------------------------
(* The next character: j is the length of the longest suffix that has been read
   before, and f is one of the places where it has ended. *)
Repeats(m, nd, at, f, j) ==
    /\ m < Len(word) /\ f \in 0..m /\ j \in 0..f
    /\ Same(m + 1, f, j) /\ \A e \in j + 1..m : ~ Same(m + 1, e, j + 1)
    /\ j > 0 => nd[at[m][j - 1]].len = j - 1

NewLabels(m, nd, at, f, j, an) ==
    /\ \A e \in 0..m : \A l \in 0..e :
        an[e][l] = IF nd[at[f][j]].len > j /\ at[e][l] = at[f][j] /\ l <= j
                   THEN Len(nd) + 2 ELSE at[e][l]
    /\ \A l \in 0..j : an[m + 1][l] = an[f][l]
    /\ \A l \in j + 1..m + 1 : an[m + 1][l] = Len(nd) + 1

NewLens(m, nd, at, f, j, nx) ==
    /\ nx \in Seq([to : [{0, 1} -> Nat], link : Nat, len : Nat])
    /\ \A v \in 1..Len(nd) :
        /\ nx[v].len = nd[v].len
        /\ nx[v].link = IF nd[at[f][j]].len > j /\ v = at[f][j] THEN Len(nd) + 2 ELSE nd[v].link
    /\ nx[Len(nd) + 1].len = m + 1
    /\ nd[at[f][j]].len <= j => Len(nx) = Len(nd) + 1 /\ nx[Len(nd) + 1].link = at[f][j]
    /\ nd[at[f][j]].len > j =>
        /\ Len(nx) = Len(nd) + 2 /\ nx[Len(nd) + 1].link = Len(nd) + 2
        /\ nx[Len(nd) + 2].len = j /\ nx[Len(nd) + 2].link = nd[at[f][j]].link

(* The states of the suffixes of length h to m. *)
OnPath(m, at, h, k, v) == \E l \in h..k : at[m][l] = v

NewSteps(m, nd, at, f, j, nx) ==
    \A d \in {0, 1} :
        /\ nx[Len(nd) + 1].to[d] = Null
        /\ \A v \in 1..Len(nd) :
            nx[v].to[d] =
                IF d = word[m + 1] /\ OnPath(m, at, j, m, v) THEN Len(nd) + 1
                ELSE IF /\ nd[at[f][j]].len > j /\ d = word[m + 1] /\ nd[v].to[d] = at[f][j]
                        /\ OnPath(m, at, 0, j - 1, v)
                THEN Len(nd) + 2 ELSE nd[v].to[d]
        /\ nd[at[f][j]].len > j =>
            nx[Len(nd) + 2].to[d] =
                IF d = word[m + 1] /\ OnPath(m, at, j, m, at[f][j]) THEN Len(nd) + 1
                ELSE nd[at[f][j]].to[d]

LEMMA TurnFacts ==
    ASSUME NEW m, NEW nd, NEW at, Automaton(m, nd, at), NEW f, NEW j, Repeats(m, nd, at, f, j)
    PROVE  /\ m \in Nat /\ f \in 0..m /\ j \in 0..f /\ j \in Nat /\ f \in Nat
           /\ Len(nd) \in Nat \ {0} /\ at[f][j] \in 1..Len(nd) /\ nd[at[f][j]].len \in j..f
           /\ nd[at[f][j]].len > j => at[f][j] # Root
           /\ \A l \in 0..j : Same(m + 1, f, l) /\ Same(f, m + 1, l)
           /\ \A e \in 0..m : \A l \in 0..e : Same(m + 1, e, l) => l <= j
<1>1. m \in Nat /\ f \in 0..m /\ j \in 0..f /\ j \in Nat /\ f \in Nat
  BY DEF Automaton, Repeats
<1>2. Len(nd) \in Nat \ {0} /\ at[f][j] \in 1..Len(nd) /\ nd[at[f][j]].len \in j..f
  BY <1>1, StateFacts DEF Automaton, NodesOK
<1>3. nd[at[f][j]].len > j => at[f][j] # Root
  <2>1. nd[Root].len = 0
    BY DEF Automaton, NodesOK
  <2>2. ASSUME at[f][j] = Root PROVE ~ (nd[at[f][j]].len > j)
    BY <1>1, <2>1, <2>2
  <2> QED BY <2>2
<1>4. \A l \in 0..j : Same(m + 1, f, l) /\ Same(f, m + 1, l)
  BY <1>1, SameFacts DEF Repeats
<1>5. ASSUME NEW e \in 0..m, NEW l \in 0..e, Same(m + 1, e, l) PROVE l <= j
  <2> SUFFICES ASSUME ~ (l <= j) PROVE FALSE
    OBVIOUS
  <2>1. l \in Nat /\ j + 1 \in 0..l /\ e \in j + 1..m
    BY <1>1
  <2>2. Same(m + 1, e, j + 1)
    BY <1>5, <2>1, SameFacts
  <2> QED BY <2>1, <2>2 DEF Repeats
<1> QED BY <1>1, <1>2, <1>3, <1>4, <1>5

(* Each labelled word but those of the new state has been read before. *)
LEMMA OldWord ==
    ASSUME NEW m, NEW nd, NEW at, Automaton(m, nd, at), NEW f, NEW j, Repeats(m, nd, at, f, j),
           NEW an, NewLabels(m, nd, at, f, j, an), NEW e \in 0..m + 1, NEW l \in 0..e
    PROVE  IF e = m + 1 /\ l > j THEN an[e][l] = Len(nd) + 1
           ELSE \E g \in 0..m :
                /\ l <= g /\ Same(e, g, l) /\ an[e][l] = an[g][l]
                /\ an[e][l] # Len(nd) + 1
                /\ e <= m => g = e
                /\ e = m + 1 => g = f
<1>0. /\ m \in Nat /\ f \in 0..m /\ j \in 0..f /\ j \in Nat /\ f \in Nat
      /\ \A k \in 0..j : Same(m + 1, f, k)
  BY TurnFacts
<1>1. CASE e = m + 1 /\ l > j
  BY <1>0, <1>1 DEF NewLabels
<1>2. ASSUME NEW g \in 0..m, l <= g PROVE an[g][l] # Len(nd) + 1
  <2>0. l \in 0..g
    BY ONLY <1>0, <1>2, l \in 0..e, e \in 0..m + 1
  <2>1. at[g][l] \in 1..Len(nd) /\ Len(nd) \in Nat
    BY ONLY Automaton(m, nd, at), <2>0, g \in 0..m, StateFacts
  <2>2. an[g][l] = IF nd[at[f][j]].len > j /\ at[g][l] = at[f][j] /\ l <= j
                   THEN Len(nd) + 2 ELSE at[g][l]
    BY <1>0, <1>2 DEF NewLabels
  <2> QED BY <2>1, <2>2
<1>3. CASE e = m + 1 /\ ~ (l > j)
  <2>1. l \in 0..j
    BY <1>0, <1>3
  <2>2. an[e][l] = an[f][l]
    BY <1>3, <2>1 DEF NewLabels
  <2> QED BY <1>0, <1>2, <1>3, <2>1, <2>2
<1>4. CASE e # m + 1
  <2>1. e \in 0..m /\ l <= e /\ Same(e, e, l)
    BY <1>0, <1>4 DEF Same
  <2> QED BY <1>0, <1>2, <1>4, <2>1
<1> QED BY <1>1, <1>3, <1>4

LEMMA OldPlace ==
    ASSUME NEW m, NEW nd, NEW at, Automaton(m, nd, at), NEW f, NEW j, Repeats(m, nd, at, f, j),
           NEW an, NewLabels(m, nd, at, f, j, an), NEW e \in 0..m + 1, NEW l \in 0..e,
           ~ (e = m + 1 /\ l > j)
    PROVE  \E g \in 0..m : /\ l <= g /\ l \in 0..g /\ Same(e, g, l) /\ an[e][l] = an[g][l]
                           /\ an[e][l] # Len(nd) + 1
<1>1. PICK g \in 0..m : /\ l <= g /\ Same(e, g, l) /\ an[e][l] = an[g][l]
                        /\ an[e][l] # Len(nd) + 1
  BY OldWord
<1>2. m \in Nat
  BY DEF Automaton
<1>3. l \in 0..g
  BY ONLY <1>1, <1>2, l \in 0..e, e \in 0..m + 1
<1> QED BY ONLY <1>1, <1>3

LEMMA NewWord ==
    ASSUME NEW m, NEW nd, NEW at, Automaton(m, nd, at), NEW f, NEW j, Repeats(m, nd, at, f, j),
           NEW an, NewLabels(m, nd, at, f, j, an), NEW e \in 0..m + 1, NEW l \in 0..e
    PROVE  an[e][l] = Len(nd) + 1 <=> e = m + 1 /\ l > j
<1>1. CASE e = m + 1 /\ l > j
  BY <1>1, OldWord
<1>2. CASE ~ (e = m + 1 /\ l > j)
  <2>1. \E g \in 0..m : an[e][l] # Len(nd) + 1
    BY <1>2, OldWord
  <2> QED BY <1>2, <2>1
<1> QED BY <1>1, <1>2

LEMMA TurnStateThere ==
    ASSUME NEW m, NEW nd, NEW at, Automaton(m, nd, at), NEW f, NEW j, Repeats(m, nd, at, f, j),
           NEW an, NewLabels(m, nd, at, f, j, an), NEW nx, NewLens(m, nd, at, f, j, nx)
    PROVE  StateThere(m + 1, nx, an)
<1> SUFFICES ASSUME NEW e \in 0..m + 1, NEW l \in 0..e
             PROVE  an[e][l] \in 1..Len(nx) /\ (an[e][l] = Root <=> l = 0)
  BY DEF StateThere
<1>0. /\ m \in Nat /\ f \in 0..m /\ j \in 0..f /\ j \in Nat /\ f \in Nat
      /\ Len(nd) \in Nat \ {0} /\ nd[at[f][j]].len \in j..f
      /\ nd[at[f][j]].len > j => at[f][j] # Root
  BY TurnFacts
<1>1. Len(nx) = IF nd[at[f][j]].len > j THEN Len(nd) + 2 ELSE Len(nd) + 1
  <2>1. /\ nd[at[f][j]].len <= j => Len(nx) = Len(nd) + 1
        /\ nd[at[f][j]].len > j => Len(nx) = Len(nd) + 2
    BY DEF NewLens
  <2> QED BY <1>0, <2>1
<1>2. CASE e = m + 1 /\ l > j
  <2>1. an[e][l] = Len(nd) + 1
    BY <1>2, OldWord
  <2> QED BY <1>0, <1>1, <1>2, <2>1 DEF Root
<1>3. CASE ~ (e = m + 1 /\ l > j)
  <2>1. PICK g \in 0..m : l \in 0..g /\ an[e][l] = an[g][l]
    BY ONLY Automaton(m, nd, at), Repeats(m, nd, at, f, j), NewLabels(m, nd, at, f, j, an),
       <1>3, OldPlace
  <2>2. l \in 0..g
    BY <2>1
  <2>3. at[g][l] \in 1..Len(nd) /\ (at[g][l] = Root <=> l = 0)
    BY <2>2 DEF Automaton, StateThere
  <2>4. an[g][l] = IF nd[at[f][j]].len > j /\ at[g][l] = at[f][j] /\ l <= j
                   THEN Len(nd) + 2 ELSE at[g][l]
    BY <2>2 DEF NewLabels
  <2>5. CASE nd[at[f][j]].len > j /\ at[g][l] = at[f][j] /\ l <= j
    BY <1>0, <1>1, <2>1, <2>3, <2>4, <2>5 DEF Root
  <2>6. CASE ~ (nd[at[f][j]].len > j /\ at[g][l] = at[f][j] /\ l <= j)
    BY <1>0, <1>1, <2>1, <2>3, <2>4, <2>6
  <2> QED BY <2>5, <2>6
<1> QED BY <1>2, <1>3

LEMMA TurnSameState ==
    ASSUME NEW m, NEW nd, NEW at, Automaton(m, nd, at), NEW f, NEW j, Repeats(m, nd, at, f, j),
           NEW an, NewLabels(m, nd, at, f, j, an)
    PROVE  SameState(m + 1, an)
<1> SUFFICES ASSUME NEW e \in 0..m + 1, NEW g \in 0..m + 1, NEW l \in 0..e, l <= g, Same(e, g, l)
             PROVE  an[e][l] = an[g][l]
  BY DEF SameState
<1>0. /\ m \in Nat /\ f \in 0..m /\ j \in 0..f /\ j \in Nat /\ f \in Nat /\ l \in 0..g /\ l \in Nat
      /\ \A a \in 0..m : \A k \in 0..a : Same(m + 1, a, k) => k <= j
  BY TurnFacts
<1>1. ASSUME NEW a \in 0..m, NEW b \in 0..m, l <= a, l <= b, Same(a, b, l)
      PROVE  an[a][l] = an[b][l]
  <2>1. at[a][l] = at[b][l]
    BY <1>0, <1>1 DEF Automaton, SameState
  <2> QED BY <1>0, <1>1, <2>1 DEF NewLabels
<1>2. CASE (e = m + 1 /\ l > j) \/ (g = m + 1 /\ l > j)
  <2>1. e = m + 1 /\ g = m + 1
    <3>1. Same(g, e, l)
      BY <1>0, SameFacts
    <3> QED BY <1>0, <1>2, <3>1
  <2> QED BY <2>1
<1>3. CASE ~ (e = m + 1 /\ l > j) /\ ~ (g = m + 1 /\ l > j)
  <2>1. PICK a \in 0..m : l <= a /\ Same(e, a, l) /\ an[e][l] = an[a][l]
    BY ONLY Automaton(m, nd, at), Repeats(m, nd, at, f, j), NewLabels(m, nd, at, f, j, an),
       <1>3, OldPlace
  <2>2. PICK b \in 0..m : l <= b /\ Same(g, b, l) /\ an[g][l] = an[b][l]
    <3>1. l \in 0..g /\ ~ (g = m + 1 /\ l > j)
      BY <1>0, <1>3
    <3>2. \E b \in 0..m : /\ l <= b /\ l \in 0..b /\ Same(g, b, l) /\ an[g][l] = an[b][l]
                          /\ an[g][l] # Len(nd) + 1
      BY <3>1, OldPlace
    <3> QED BY ONLY <3>2
  <2>3. Same(a, b, l)
    BY <1>0, <2>1, <2>2, SameFacts
  <2> QED BY <1>1, <2>1, <2>2, <2>3
<1> QED BY <1>2, <1>3

LEMMA TurnSuffix ==
    ASSUME NEW m, NEW nd, NEW at, Automaton(m, nd, at), NEW f, NEW j, Repeats(m, nd, at, f, j),
           NEW an, NewLabels(m, nd, at, f, j, an)
    PROVE  SuffixOfOther(m + 1, an)
<1> SUFFICES ASSUME NEW e \in 0..m + 1, NEW g \in 0..m + 1, NEW l \in 0..e, NEW k \in 0..g,
                    l <= k, an[e][l] = an[g][k]
             PROVE  Same(e, g, l)
  BY DEF SuffixOfOther
<1>0. m \in Nat /\ f \in 0..m /\ j \in 0..f /\ j \in Nat /\ l \in Nat /\ k \in Nat
      /\ Len(nd) \in Nat /\ l \in 0..k
  BY TurnFacts
<1>n. /\ an[e][l] = Len(nd) + 1 <=> e = m + 1 /\ l > j
      /\ an[g][k] = Len(nd) + 1 <=> g = m + 1 /\ k > j
  BY NewWord
<1>1. CASE e = m + 1 /\ l > j
  <2>1. an[e][l] = Len(nd) + 1
    BY <1>1, <1>n
  <2>2. g = m + 1
    BY <2>1, <1>n
  <2> QED BY <1>1, <2>2 DEF Same
<1>2. CASE ~ (e = m + 1 /\ l > j)
  <2>1. PICK a \in 0..m : l <= a /\ Same(e, a, l) /\ an[e][l] = an[a][l] /\ an[e][l] # Len(nd) + 1
    <3>1. \E a \in 0..m : /\ l <= a /\ l \in 0..a /\ Same(e, a, l) /\ an[e][l] = an[a][l]
                          /\ an[e][l] # Len(nd) + 1
      BY <1>2, OldPlace
    <3> QED BY ONLY <3>1
  <2>2. ~ (g = m + 1 /\ k > j)
    BY <2>1, <1>n
  <2>3. PICK b \in 0..m : k <= b /\ Same(g, b, k) /\ an[g][k] = an[b][k]
    <3>1. \E b \in 0..m : /\ k <= b /\ k \in 0..b /\ Same(g, b, k) /\ an[g][k] = an[b][k]
                          /\ an[g][k] # Len(nd) + 1
      BY <2>2, OldPlace
    <3> QED BY ONLY <3>1
  <2>4. at[a][l] = at[b][k]
    <3>1. /\ at[a][l] \in 1..Len(nd) /\ at[b][k] \in 1..Len(nd) /\ l \in 0..a /\ k \in 0..b
      <4>1. l \in 0..a /\ k \in 0..b
        BY <1>0, <2>1, <2>3
      <4>2. at[a][l] \in 1..Len(nd)
        BY ONLY Automaton(m, nd, at), <2>1, <4>1, StateFacts
      <4>3. at[b][k] \in 1..Len(nd)
        BY ONLY Automaton(m, nd, at), <2>3, <4>1, StateFacts
      <4> QED BY <4>1, <4>2, <4>3
    <3>2. an[a][l] = IF nd[at[f][j]].len > j /\ at[a][l] = at[f][j] /\ l <= j
                     THEN Len(nd) + 2 ELSE at[a][l]
      BY <3>1 DEF NewLabels
    <3>3. an[b][k] = IF nd[at[f][j]].len > j /\ at[b][k] = at[f][j] /\ k <= j
                     THEN Len(nd) + 2 ELSE at[b][k]
      BY <3>1 DEF NewLabels
    <3>4. an[a][l] = an[b][k]
      BY <2>1, <2>3
    <3> HIDE DEF NewLabels
    <3>5. CASE l <= j /\ k <= j
      BY ONLY <1>0, <3>1, <3>2, <3>3, <3>4, <3>5
    <3>6. CASE ~ (l <= j /\ k <= j)
      BY ONLY <1>0, <3>1, <3>2, <3>3, <3>4, <3>6
    <3> QED BY <3>5, <3>6
  <2>5. Same(a, b, l)
    BY <1>0, <2>1, <2>3, <2>4 DEF Automaton, SuffixOfOther
  <2>6. Same(b, g, l)
    BY <1>0, <2>3, SameFacts
  <2> QED BY <1>0, <2>1, <2>5, <2>6, SameFacts
<1> QED BY <1>1, <1>2

LEMMA LinkThere ==
    ASSUME NEW m, NEW nd, NEW at, Automaton(m, nd, at), NEW v \in 1..Len(nd), v # Root
    PROVE  /\ nd[v].link \in 1..Len(nd) /\ nd[v].len \in Nat /\ nd[nd[v].link].len \in Nat
           /\ nd[nd[v].link].len < nd[v].len
<1>1. \E e \in 0..m : nd[v].len \in 0..e /\ at[e][nd[v].len] = v
  <2>1. m \in Nat /\ nd[v].len \in Nat
    BY NodeFacts DEF Automaton
  <2>2. \/ nd[v].len <= m /\ at[nd[v].len][nd[v].len] = v
        \/ \E e \in nd[v].len + 1..m : at[e][nd[v].len] = v
    BY DEF Automaton, Distinct
  <2> QED BY <2>1, <2>2
<1>2. PICK e \in 0..m : nd[v].len \in 0..e /\ at[e][nd[v].len] = v
  BY <1>1
<1>3. nd[v].len # 0
  BY <1>2 DEF Automaton, StateThere
<1>4. nd[v].len \in 1..e
  BY <1>2, <1>3
<1>5. nd[v].link # Null
  BY <1>2, <1>4 DEF Automaton, Links, LinkAt
<1>6. nd[v].link \in 1..Len(nd)
  BY <1>5, NodeFacts DEF Automaton, Null
<1>7. nd[nd[v].link].len \in Nat
  BY <1>6, NodeFacts DEF Automaton
<1>8. Shortest(nd, v) \in 0..nd[v].len
  BY <1>2 DEF Automaton, Lengths, LengthAt
<1> QED BY <1>2, <1>6, <1>7, <1>8 DEF Shortest

LEMMA TurnLens ==
    ASSUME NEW m, NEW nd, NEW at, Automaton(m, nd, at), NEW f, NEW j, Repeats(m, nd, at, f, j),
           NEW nx, NewLens(m, nd, at, f, j, nx)
    PROVE  /\ nx[Len(nd) + 1].len = m + 1 /\ Shortest(nx, Len(nd) + 1) = j + 1
           /\ nx[nx[Len(nd) + 1].link].len = j
           /\ nx[Len(nd) + 1].link = IF nd[at[f][j]].len > j THEN Len(nd) + 2 ELSE at[f][j]
           /\ \A v \in 1..Len(nd) :
                /\ nx[v].len = nd[v].len
                /\ ~ (nd[at[f][j]].len > j /\ v = at[f][j]) =>
                    Shortest(nx, v) = Shortest(nd, v) /\ nx[v].link = nd[v].link
           /\ nd[at[f][j]].len > j =>
                /\ nx[Len(nd) + 2].len = j /\ nx[Len(nd) + 2].link = nd[at[f][j]].link
                /\ Shortest(nx, Len(nd) + 2) = Shortest(nd, at[f][j])
                /\ nx[at[f][j]].link = Len(nd) + 2 /\ Shortest(nx, at[f][j]) = j + 1
<1>0. /\ m \in Nat /\ j \in Nat
      /\ Len(nd) \in Nat \ {0} /\ at[f][j] \in 1..Len(nd) /\ nd[at[f][j]].len \in j..f
      /\ nd[at[f][j]].len > j => at[f][j] # Root
  BY TurnFacts
<1>1. /\ \A v \in 1..Len(nd) :
            /\ nx[v].len = nd[v].len
            /\ nx[v].link = IF nd[at[f][j]].len > j /\ v = at[f][j] THEN Len(nd) + 2 ELSE nd[v].link
      /\ nx[Len(nd) + 1].len = m + 1
      /\ nd[at[f][j]].len <= j => nx[Len(nd) + 1].link = at[f][j]
      /\ nd[at[f][j]].len > j =>
            /\ nx[Len(nd) + 1].link = Len(nd) + 2
            /\ nx[Len(nd) + 2].len = j /\ nx[Len(nd) + 2].link = nd[at[f][j]].link
  BY DEF NewLens
<1>2. \A v \in 1..Len(nd) : v # Root => nd[v].link \in 1..Len(nd)
  BY LinkThere
<1>3. nx[Len(nd) + 1].link = IF nd[at[f][j]].len > j THEN Len(nd) + 2 ELSE at[f][j]
  BY <1>0, <1>1
<1>4. nx[nx[Len(nd) + 1].link].len = j
  BY <1>0, <1>1, <1>3
<1>5. Shortest(nx, Len(nd) + 1) = j + 1
  BY <1>0, <1>4 DEF Shortest, Root
<1>6. ASSUME NEW v \in 1..Len(nd), ~ (nd[at[f][j]].len > j /\ v = at[f][j])
      PROVE  Shortest(nx, v) = Shortest(nd, v) /\ nx[v].link = nd[v].link
  BY <1>1, <1>2, <1>6 DEF Shortest
<1>7. ASSUME nd[at[f][j]].len > j
      PROVE  /\ Shortest(nx, Len(nd) + 2) = Shortest(nd, at[f][j])
             /\ Shortest(nx, at[f][j]) = j + 1
  <2>1. nd[at[f][j]].link \in 1..Len(nd)
    BY <1>0, <1>2, <1>7
  <2>2. Len(nd) + 2 # Root
    BY <1>0 DEF Root
  <2> QED BY <1>0, <1>1, <1>7, <2>1, <2>2 DEF Shortest
<1> QED BY <1>0, <1>1, <1>3, <1>4, <1>5, <1>6, <1>7

(* The words up to m: what has been split fits as well. *)
LEMMA OldFits ==
    ASSUME NEW m, NEW nd, NEW at, Automaton(m, nd, at), NEW f, NEW j, Repeats(m, nd, at, f, j),
           NEW an, NewLabels(m, nd, at, f, j, an), NEW nx, NewLens(m, nd, at, f, j, nx),
           NEW e \in 0..m, NEW l \in 0..e
    PROVE  LengthAt(nx, an, e, l) /\ (l > 0 => LinkAt(nx, an, e, l))
<1> DEFINE w == at[f][j]
           S == nd[w].len > j
           v == at[e][l]
           x == nd[v].link
<1>0. /\ m \in Nat /\ f \in 0..m /\ j \in 0..f /\ j \in Nat /\ l \in Nat /\ e \in Nat
      /\ Len(nd) \in Nat \ {0} /\ w \in 1..Len(nd) /\ nd[w].len \in j..f
      /\ S => w # Root
  BY TurnFacts
<1>1. \A k \in 0..e : an[e][k] = IF S /\ at[e][k] = w /\ k <= j THEN Len(nd) + 2 ELSE at[e][k]
  BY DEF NewLabels
<1>2. /\ v \in 1..Len(nd) /\ nd[v].len \in l..e /\ Shortest(nd, v) \in 0..l
      /\ \A k \in Shortest(nd, v)..nd[v].len : at[e][k] = v
  BY StateFacts DEF Automaton, Lengths, LengthAt
<1>3. l > 0 => /\ x \in 1..Len(nd) /\ nd[x].len \in 0..l - 1 /\ Shortest(nd, v) = nd[x].len + 1
               /\ at[e][nd[x].len] = x
  <2> SUFFICES ASSUME l > 0
               PROVE  /\ x \in 1..Len(nd) /\ nd[x].len \in 0..l - 1
                      /\ Shortest(nd, v) = nd[x].len + 1 /\ at[e][nd[x].len] = x
    OBVIOUS
  <2>1. v # Root /\ l \in 1..e
    BY <1>0, StateFacts
  <2>2. x \in 1..Len(nd) /\ nd[x].len \in Nat
    BY <1>2, <2>1, LinkThere
  <2>3. Shortest(nd, v) = nd[x].len + 1
    BY <2>1 DEF Shortest
  <2>4. at[e][nd[x].len] = x
    BY <2>1 DEF Automaton, Links, LinkAt
  <2>5. Shortest(nd, v) \in 0..l
    BY <1>2
  <2> HIDE DEF v, x
  <2> QED BY ONLY <1>0, <2>2, <2>3, <2>4, <2>5
<1>4. Shortest(nd, w) \in 0..j
  BY <1>0 DEF Automaton, Lengths, LengthAt
<1>5. /\ \A y \in 1..Len(nd) :
            /\ nx[y].len = nd[y].len
            /\ ~ (S /\ y = w) => Shortest(nx, y) = Shortest(nd, y) /\ nx[y].link = nd[y].link
      /\ S => /\ nx[Len(nd) + 2].len = j /\ nx[Len(nd) + 2].link = nd[w].link
              /\ Shortest(nx, Len(nd) + 2) = Shortest(nd, w)
              /\ nx[w].link = Len(nd) + 2 /\ Shortest(nx, w) = j + 1
  BY TurnLens
<1> HIDE DEF w, S, v, x
<1>a. S = (nd[w].len > j) /\ v = at[e][l] /\ x = nd[v].link
  BY DEF S, v, x
<1>6. CASE S /\ v = w /\ l <= j
  <2>1. an[e][l] = Len(nd) + 2
    BY <1>0, <1>1, <1>6, <1>a
  <2>2. ASSUME NEW k \in Shortest(nd, w)..j PROVE an[e][k] = Len(nd) + 2
    <3>0. nd[v].len \in l..e /\ l \in 0..e /\ nd[w].len > j /\ v = w
      BY <1>2, <1>6, <1>a
    <3>1. k \in 0..e /\ k <= j /\ k \in Shortest(nd, v)..nd[v].len
      BY ONLY <1>0, <1>4, <3>0
    <3>2. at[e][k] = w
      BY <1>2, <1>6, <3>1
    <3> QED BY <1>1, <1>6, <3>1, <3>2
  <2>3. LengthAt(nx, an, e, l)
    <3>1. /\ nx[Len(nd) + 2].len = j /\ Shortest(nx, Len(nd) + 2) = Shortest(nd, w)
          /\ Shortest(nd, w) \in 0..l
      BY <1>2, <1>5, <1>6
    <3>2. j \in l..e
      <4>1. nd[v].len \in l..e /\ nd[v].len > j
        BY <1>2, <1>6, <1>a
      <4> QED BY ONLY <1>0, <1>6, <4>1
    <3> QED BY ONLY <2>1, <2>2, <3>1, <3>2 DEF LengthAt
  <2>4. ASSUME l > 0 PROVE LinkAt(nx, an, e, l)
    <3>1. nx[an[e][l]].link = x /\ nx[x].len = nd[x].len
      BY <1>3, <1>5, <1>6, <1>a, <2>1, <2>4
    <3>2. x # w
      BY <1>0, <1>2, <1>3, <1>6, <2>4
    <3>3. an[e][nd[x].len] = x
      <4>1. nd[x].len \in 0..e /\ at[e][nd[x].len] = x
        BY ONLY <1>0, <1>3, <2>4, l \in 0..e
      <4> QED BY ONLY <1>1, <3>2, <4>1
    <3> QED BY <1>3, <2>4, <3>1, <3>3 DEF LinkAt, Null
  <2> QED BY <2>3, <2>4
<1>7. CASE S /\ v = w /\ ~ (l <= j)
  <2>1. an[e][l] = w
    BY <1>0, <1>1, <1>7, <1>a
  <2>2. ASSUME NEW k \in j + 1..nd[w].len PROVE an[e][k] = w
    <3>0. nd[w].len \in l..e /\ v = w
      BY <1>2, <1>7
    <3>1. k \in 0..e /\ ~ (k <= j) /\ k \in Shortest(nd, v)..nd[v].len
      BY ONLY <1>0, <1>4, <3>0
    <3>2. at[e][k] = w
      BY <1>2, <1>7, <3>1
    <3> QED BY ONLY <1>1, <3>1, <3>2
  <2>3. LengthAt(nx, an, e, l)
    <3>1. nx[w].len = nd[w].len /\ Shortest(nx, w) = j + 1 /\ nd[w].len \in l..e /\ j + 1 \in 0..l
      BY <1>0, <1>2, <1>5, <1>7
    <3> QED BY <2>1, <2>2, <3>1 DEF LengthAt
  <2>4. an[e][j] = Len(nd) + 2
    BY <1>0, <1>1, <1>2, <1>4, <1>7, <1>a
  <2>5. LinkAt(nx, an, e, l)
    BY <1>0, <1>5, <1>7, <2>1, <2>4 DEF LinkAt, Null
  <2> QED BY <2>3, <2>5
<1>8. CASE ~ (S /\ v = w)
  <2>1. an[e][l] = v
    BY <1>0, <1>1, <1>8, <1>a
  <2>2. ASSUME NEW k \in Shortest(nd, v)..nd[v].len PROVE an[e][k] = v
    <3>1. k \in 0..e
      BY ONLY <1>0, <1>2, l \in 0..e
    <3>2. at[e][k] = v
      BY <1>2
    <3> QED BY ONLY <1>1, <1>8, <3>1, <3>2
  <2>3. LengthAt(nx, an, e, l)
    BY <1>0, <1>2, <1>5, <1>8, <2>1, <2>2 DEF LengthAt
  <2>4. ASSUME l > 0 PROVE LinkAt(nx, an, e, l)
    <3>1. nx[an[e][l]].link = x /\ nx[x].len = nd[x].len
      BY <1>2, <1>3, <1>5, <1>8, <1>a, <2>1, <2>4
    <3>2. an[e][nd[x].len] = x
      <4>1. nd[x].len \in 0..e /\ at[e][nd[x].len] = x
        BY <1>0, <1>3, <2>4
      <4>2. CASE S /\ x = w
        <5>1. ~ (nd[x].len <= j)
          <6>1. nd[x].len > j
            BY <4>2 DEF S
          <6> QED BY <1>0, <1>3, <2>4, <6>1
        <5> QED BY <1>1, <4>1, <5>1
      <4>3. CASE ~ (S /\ x = w)
        BY <1>1, <4>1, <4>3
      <4> QED BY <4>2, <4>3
    <3> QED BY <1>3, <2>4, <3>1, <3>2 DEF LinkAt, Null
  <2> QED BY <2>3, <2>4
<1> QED BY <1>6, <1>7, <1>8

LEMMA TurnTyped ==
    ASSUME NEW m, NEW nd, NEW at, Automaton(m, nd, at), NEW f, NEW j, Repeats(m, nd, at, f, j),
           NEW nx, NewLens(m, nd, at, f, j, nx)
    PROVE  \A v \in 1..Len(nx) : nx[v].len \in Nat /\ nx[v].link \in 0..Len(nx)
<1> SUFFICES ASSUME NEW v \in 1..Len(nx)
             PROVE  nx[v].len \in Nat /\ nx[v].link \in 0..Len(nx)
  OBVIOUS
<1>0. /\ Len(nd) \in Nat \ {0} /\ at[f][j] \in 1..Len(nd) /\ nd[at[f][j]].len \in j..f /\ j \in Nat /\ f \in Nat
  BY TurnFacts
<1>1. nx[v] \in [to : [{0, 1} -> Nat], link : Nat, len : Nat]
  BY ElementOfSeq DEF NewLens
<1>2. \A y \in 1..Len(nd) : nd[y].link \in 0..Len(nd)
  BY NodeFacts DEF Automaton
<1>3. /\ nd[at[f][j]].len <= j => Len(nx) = Len(nd) + 1 /\ nx[Len(nd) + 1].link = at[f][j]
      /\ nd[at[f][j]].len > j =>
            /\ Len(nx) = Len(nd) + 2 /\ nx[Len(nd) + 1].link = Len(nd) + 2
            /\ nx[Len(nd) + 2].link = nd[at[f][j]].link
      /\ \A y \in 1..Len(nd) :
            nx[y].link = IF nd[at[f][j]].len > j /\ y = at[f][j] THEN Len(nd) + 2 ELSE nd[y].link
  BY DEF NewLens
<1>4. nx[v].link \in 0..Len(nx)
  <2>0. Len(nx) = IF nd[at[f][j]].len > j THEN Len(nd) + 2 ELSE Len(nd) + 1
    BY <1>0, <1>3
  <2>1. CASE v \in 1..Len(nd)
    <3>1. nx[v].link = IF nd[at[f][j]].len > j /\ v = at[f][j] THEN Len(nd) + 2 ELSE nd[v].link
      BY <1>3, <2>1
    <3>2. nd[v].link \in 0..Len(nd)
      BY <1>2, <2>1
    <3> QED BY ONLY <1>0, <2>0, <3>1, <3>2
  <2>2. CASE v \notin 1..Len(nd)
    <3>1. \/ v = Len(nd) + 1
          \/ v = Len(nd) + 2 /\ nd[at[f][j]].len > j
      BY ONLY <1>0, <2>0, <2>2, v \in 1..Len(nx)
    <3>2. nd[at[f][j]].link \in 0..Len(nd)
      BY <1>0, <1>2
    <3>3. CASE nd[at[f][j]].len > j
      <4>1. /\ Len(nx) = Len(nd) + 2 /\ nx[Len(nd) + 1].link = Len(nd) + 2
            /\ nx[Len(nd) + 2].link = nd[at[f][j]].link
        BY <1>3, <3>3
      <4> QED BY ONLY <1>0, <3>1, <3>2, <4>1
    <3>4. CASE ~ (nd[at[f][j]].len > j)
      <4>1. Len(nx) = Len(nd) + 1 /\ nx[Len(nd) + 1].link = at[f][j]
        BY <1>0, <1>3, <3>4
      <4> QED BY ONLY <1>0, <3>1, <3>4, <4>1
    <3> QED BY <3>3, <3>4
  <2> QED BY <2>1, <2>2
<1> QED BY <1>1, <1>4

LEMMA TurnFits ==
    ASSUME NEW m, NEW nd, NEW at, Automaton(m, nd, at), NEW f, NEW j, Repeats(m, nd, at, f, j),
           NEW an, NewLabels(m, nd, at, f, j, an), NEW nx, NewLens(m, nd, at, f, j, nx)
    PROVE  Lengths(m + 1, nx, an) /\ Links(m + 1, nx, an)
<1>0. /\ m \in Nat /\ f \in 0..m /\ j \in 0..f /\ j \in Nat
      /\ Len(nd) \in Nat \ {0} /\ at[f][j] \in 1..Len(nd) /\ nd[at[f][j]].len \in j..f
  BY TurnFacts
<1>1. /\ nx[Len(nd) + 1].len = m + 1 /\ Shortest(nx, Len(nd) + 1) = j + 1
      /\ nx[nx[Len(nd) + 1].link].len = j
      /\ nx[Len(nd) + 1].link = IF nd[at[f][j]].len > j THEN Len(nd) + 2 ELSE at[f][j]
      /\ \A v \in 1..Len(nd) : nx[v].len = nd[v].len
      /\ nd[at[f][j]].len > j => nx[Len(nd) + 2].len = j
  BY TurnLens
<1>2. an[f][j] = nx[Len(nd) + 1].link
  <2>1. an[f][j] = IF nd[at[f][j]].len > j THEN Len(nd) + 2 ELSE at[f][j]
    BY <1>0 DEF NewLabels
  <2> QED BY <1>1, <2>1
<1>3. /\ \A l \in 0..j : an[m + 1][l] = an[f][l]
      /\ \A l \in j + 1..m + 1 : an[m + 1][l] = Len(nd) + 1
  BY DEF NewLabels
<1>4. \A e \in 0..m : \A l \in 0..e : LengthAt(nx, an, e, l) /\ (l > 0 => LinkAt(nx, an, e, l))
  BY OldFits
<1>5. ASSUME NEW l \in j + 1..m + 1
      PROVE  LengthAt(nx, an, m + 1, l) /\ LinkAt(nx, an, m + 1, l)
  <2>1. LengthAt(nx, an, m + 1, l)
    <3>1. an[m + 1][l] = Len(nd) + 1 /\ nx[Len(nd) + 1].len = m + 1 /\ Shortest(nx, Len(nd) + 1) = j + 1
      BY <1>1, <1>3
    <3>2. m + 1 \in l..m + 1 /\ j + 1 \in 0..l
      BY <1>0
    <3> QED BY ONLY <1>3, <3>1, <3>2 DEF LengthAt
  <2>2. an[m + 1][l] = Len(nd) + 1 /\ an[m + 1][j] = an[f][j]
    BY <1>0, <1>3
  <2>3. an[f][j] # Null
    BY <1>0, <1>1, <1>2 DEF Null
  <2> QED BY <1>1, <1>2, <2>1, <2>2, <2>3 DEF LinkAt
<1>6. ASSUME NEW l \in 0..j
      PROVE  LengthAt(nx, an, m + 1, l) /\ (l > 0 => LinkAt(nx, an, m + 1, l))
  <2> DEFINE v == an[f][l]
  <2>1. an[m + 1][l] = v /\ l \in 0..f /\ l \in Nat
    BY <1>0, <1>3
  <2>2. /\ nx[v].len \in l..f /\ Shortest(nx, v) \in 0..l
        /\ \A k \in Shortest(nx, v)..nx[v].len : an[f][k] = v
    BY <1>0, <1>4, <2>1 DEF LengthAt
  <2> HIDE DEF v
  <2>3. nx[v].len <= j
    <3> SUFFICES ASSUME ~ (nx[v].len <= j) PROVE FALSE
      OBVIOUS
    <3>1. j \in Shortest(nx, v)..nx[v].len
      BY <1>0, <2>1, <2>2
    <3>2. v = nx[Len(nd) + 1].link
      BY <1>2, <2>2, <3>1
    <3> QED BY <1>0, <1>1, <3>2
  <2>4. \A k \in Shortest(nx, v)..nx[v].len : an[m + 1][k] = v
    BY <1>0, <1>3, <2>1, <2>2, <2>3
  <2>5. LengthAt(nx, an, m + 1, l)
    BY <1>0, <2>1, <2>2, <2>3, <2>4 DEF LengthAt
  <2>6. ASSUME l > 0 PROVE LinkAt(nx, an, m + 1, l)
    <3>1. nx[v].link # Null /\ an[f][nx[nx[v].link].len] = nx[v].link
      BY <1>0, <1>4, <2>1, <2>6 DEF v, LinkAt
    <3>2. v # Root
      <4>1. v \in 1..Len(nx) /\ (v = Root <=> l = 0)
        BY <1>0, <2>1, TurnStateThere DEF StateThere, v
      <4> QED BY <2>1, <2>6, <4>1
    <3>3. nx[nx[v].link].len \in 0..j
      <4>1. nx[nx[v].link].len + 1 \in 0..l
        BY <2>2, <3>2 DEF Shortest
      <4>2. nx[nx[v].link].len \in Nat
        <5>1. v \in 1..Len(nx) /\ f \in 0..m + 1 /\ l \in 0..f
          BY <1>0, <2>1, TurnStateThere DEF StateThere, v
        <5>2. nx[v].link \in 1..Len(nx)
          BY <3>1, <5>1, TurnTyped DEF Null
        <5> QED BY <5>2, TurnTyped
      <4> QED BY <1>0, <4>1, <4>2
    <3>4. an[m + 1][nx[nx[v].link].len] = nx[v].link
      BY <1>3, <3>1, <3>3
    <3> QED BY <2>1, <3>1, <3>4 DEF LinkAt
  <2> QED BY <2>5, <2>6
<1>7. ASSUME NEW e \in 0..m + 1, NEW l \in 0..e
      PROVE  LengthAt(nx, an, e, l) /\ (l > 0 => LinkAt(nx, an, e, l))
  <2>1. CASE e # m + 1
    <3>1. e \in 0..m
      BY <1>0, <2>1
    <3> QED BY <1>4, <3>1
  <2>2. CASE e = m + 1 /\ l <= j
    <3>1. l \in 0..j
      BY <1>0, <2>2
    <3> QED BY <1>6, <2>2, <3>1
  <2>3. CASE e = m + 1 /\ ~ (l <= j)
    <3>1. l \in j + 1..m + 1
      BY <1>0, <2>3
    <3> QED BY <1>5, <2>3, <3>1
  <2> QED BY <2>1, <2>2, <2>3
<1>8. \A e \in 0..m + 1 : \A l \in 1..e : l \in 0..e /\ l > 0
  BY <1>0
<1> QED BY <1>7, <1>8 DEF Lengths, Links

LEMMA TurnDistinct ==
    ASSUME NEW m, NEW nd, NEW at, Automaton(m, nd, at), NEW f, NEW j, Repeats(m, nd, at, f, j),
           NEW an, NewLabels(m, nd, at, f, j, an), NEW nx, NewLens(m, nd, at, f, j, nx)
    PROVE  Distinct(m + 1, nx, an)
<1> DEFINE Is(v) ==
        \/ nx[v].len <= m + 1 /\ an[nx[v].len][nx[v].len] = v
        \/ \E e, g \in nx[v].len + 1..m + 1 :
            /\ an[e][nx[v].len] = v /\ an[g][nx[v].len] = v
            /\ word[e - nx[v].len] # word[g - nx[v].len]
<1>0. /\ m \in Nat /\ f \in 0..m /\ j \in 0..f /\ j \in Nat
      /\ Len(nd) \in Nat \ {0} /\ at[f][j] \in 1..Len(nd) /\ nd[at[f][j]].len \in j..f
  BY TurnFacts
<1>1. /\ \A e \in 0..m : \A l \in 0..e :
            an[e][l] = IF nd[at[f][j]].len > j /\ at[e][l] = at[f][j] /\ l <= j
                       THEN Len(nd) + 2 ELSE at[e][l]
      /\ \A l \in 0..j : an[m + 1][l] = an[f][l]
      /\ \A l \in j + 1..m + 1 : an[m + 1][l] = Len(nd) + 1
  BY DEF NewLabels
<1>2. /\ nx[Len(nd) + 1].len = m + 1
      /\ \A v \in 1..Len(nd) : nx[v].len = nd[v].len
      /\ nd[at[f][j]].len > j => nx[Len(nd) + 2].len = j
  BY TurnLens
<1>3. Is(Len(nd) + 1)
  BY <1>0, <1>1, <1>2
<1>4. ASSUME NEW v \in 1..Len(nd) PROVE Is(v)
  <2>0. nd[v].len \in Nat
    BY NodeFacts DEF Automaton
  <2>1. ASSUME NEW e \in 0..m, nd[v].len <= e, at[e][nd[v].len] = v
        PROVE  an[e][nd[v].len] = v
    <3>1. nd[v].len \in 0..e
      BY <1>0, <2>0, <2>1
    <3>2. an[e][nd[v].len] = IF nd[at[f][j]].len > j /\ at[e][nd[v].len] = at[f][j] /\ nd[v].len <= j
                             THEN Len(nd) + 2 ELSE at[e][nd[v].len]
      BY ONLY <1>1, <3>1, e \in 0..m DEF NewLabels
    <3> QED BY ONLY <1>0, <2>0, <2>1, <3>2
  <2>2. CASE nd[v].len <= m /\ at[nd[v].len][nd[v].len] = v
    BY <1>0, <1>2, <2>0, <2>1, <2>2
  <2>3. CASE ~ (nd[v].len <= m /\ at[nd[v].len][nd[v].len] = v)
    <3>1. PICK e \in nd[v].len + 1..m, g \in nd[v].len + 1..m :
            /\ at[e][nd[v].len] = v /\ at[g][nd[v].len] = v
            /\ word[e - nd[v].len] # word[g - nd[v].len]
      BY <2>3 DEF Automaton, Distinct
    <3>2. an[e][nd[v].len] = v /\ an[g][nd[v].len] = v
      <4>1. e \in 0..m /\ g \in 0..m /\ nd[v].len <= e /\ nd[v].len <= g
        BY ONLY <1>0, <2>0, e \in nd[v].len + 1..m, g \in nd[v].len + 1..m
      <4> QED BY ONLY <2>1, <3>1, <4>1
    <3>3. e \in nd[v].len + 1..m + 1 /\ g \in nd[v].len + 1..m + 1
      BY <1>0, <2>0
    <3> QED BY <1>2, <3>1, <3>2, <3>3
  <2> QED BY <2>2, <2>3
<1>5. ASSUME nd[at[f][j]].len > j PROVE Is(Len(nd) + 2)
  <2>1. an[f][j] = Len(nd) + 2 /\ an[m + 1][j] = Len(nd) + 2
    BY <1>0, <1>1, <1>5
  <2>2. f \in j + 1..m + 1 /\ m + 1 \in j + 1..m + 1 /\ f \in j + 1..m /\ f \in Nat
    BY <1>0, <1>5
  <2>3. word[f - j] # word[(m + 1) - j]
    <3> SUFFICES ASSUME word[f - j] = word[(m + 1) - j] PROVE FALSE
      OBVIOUS
    <3>1. Same(f, m + 1, j)
      BY <1>0, TurnFacts
    <3>2. Same(f, m + 1, j + 1)
      BY <1>0, <3>1, SameLonger
    <3>3. Same(m + 1, f, j + 1)
      BY <1>0, <3>2, SameFacts
    <3> QED BY <2>2, <3>3 DEF Repeats
  <2>4. nx[Len(nd) + 2].len = j
    BY <1>2, <1>5
  <2>5. /\ an[f][nx[Len(nd) + 2].len] = Len(nd) + 2
        /\ an[m + 1][nx[Len(nd) + 2].len] = Len(nd) + 2
        /\ word[f - nx[Len(nd) + 2].len] # word[(m + 1) - nx[Len(nd) + 2].len]
        /\ f \in nx[Len(nd) + 2].len + 1..m + 1 /\ m + 1 \in nx[Len(nd) + 2].len + 1..m + 1
    BY <2>1, <2>2, <2>3, <2>4
  <2> QED BY ONLY <2>5
<1>6. ASSUME NEW v \in 1..Len(nx) PROVE Is(v)
  <2>1. Len(nx) = IF nd[at[f][j]].len > j THEN Len(nd) + 2 ELSE Len(nd) + 1
    <3>1. /\ nd[at[f][j]].len <= j => Len(nx) = Len(nd) + 1
          /\ nd[at[f][j]].len > j => Len(nx) = Len(nd) + 2
      BY DEF NewLens
    <3> QED BY <1>0, <3>1
  <2>2. v \in 1..Len(nd) \/ v = Len(nd) + 1 \/ (v = Len(nd) + 2 /\ nd[at[f][j]].len > j)
    BY <1>0, <2>1
  <2> HIDE DEF Is
  <2> QED BY <1>3, <1>4, <1>5, <2>2
<1> QED BY <1>6 DEF Distinct

LEMMA LongestThere ==
    ASSUME NEW m, NEW nd, NEW at, Automaton(m, nd, at),
           NEW e \in 0..m, NEW l \in 0..e, NEW g \in 0..m, NEW k \in 0..g, at[e][l] = at[g][k]
    PROVE  /\ nd[at[e][l]].len \in l..e /\ nd[at[e][l]].len \in k..g
           /\ at[e][nd[at[e][l]].len] = at[e][l] /\ at[g][nd[at[e][l]].len] = at[e][l]
           /\ Same(e, g, nd[at[e][l]].len)
<1>1. nd[at[e][l]].len \in l..e /\ nd[at[g][k]].len \in k..g /\ m \in Nat
  BY StateFacts
<1>2. at[e][nd[at[e][l]].len] = at[e][l]
  BY LongestAt
<1>3. at[g][nd[at[g][k]].len] = at[g][k]
  BY LongestAt
<1>4. nd[at[e][l]].len \in 0..e /\ nd[at[e][l]].len \in 0..g
  BY <1>1
<1> QED BY <1>1, <1>2, <1>3, <1>4 DEF Automaton, SuffixOfOther

(* The states that get a transition to the new one had none for its character. *)
LEMMA PathFacts ==
    ASSUME NEW m, NEW nd, NEW at, Automaton(m, nd, at), NEW f, NEW j, Repeats(m, nd, at, f, j),
           NEW v
    PROVE  /\ OnPath(m, at, j, m, v) =>
                \A e \in 0..m - 1 : \A l \in 0..e : at[e][l] = v => word[e + 1] # word[m + 1]
           /\ OnPath(m, at, 0, j - 1, v) => nd[v].len < j
           /\ ~ (OnPath(m, at, j, m, v) /\ OnPath(m, at, 0, j - 1, v))
<1>0. /\ m \in Nat /\ f \in 0..m /\ j \in 0..f /\ j \in Nat
      /\ \A a \in 0..m : \A k \in 0..a : Same(m + 1, a, k) => k <= j
  BY TurnFacts
<1>1. ASSUME OnPath(m, at, j, m, v), NEW e \in 0..m - 1, NEW l \in 0..e, at[e][l] = v
      PROVE  word[e + 1] # word[m + 1]
  <2> SUFFICES ASSUME word[e + 1] = word[m + 1] PROVE FALSE
    OBVIOUS
  <2>1. PICK h \in j..m : at[m][h] = v
    BY <1>1 DEF OnPath
  <2>2. e \in 0..m /\ m \in 0..m /\ h \in 0..m /\ e + 1 \in 0..m /\ e \in Nat
    BY <1>0
  <2>3. nd[v].len \in h..m /\ nd[v].len \in l..e /\ Same(e, m, nd[v].len)
    BY <1>1, <2>1, <2>2, LongestThere
  <2>4. nd[v].len \in Nat /\ nd[v].len + 1 \in 0..e + 1
    BY <1>0, <2>3
  <2>5. Same(e + 1, m + 1, nd[v].len + 1)
    BY ONLY <1>0, <2>2, <2>3, <2>4, word[e + 1] = word[m + 1], SameOneLess
  <2>6. Same(m + 1, e + 1, nd[v].len + 1)
    BY <2>4, <2>5, SameFacts
  <2>7. nd[v].len + 1 <= j
    BY <1>0, <2>2, <2>4, <2>6
  <2> QED BY <1>0, <2>3, <2>7
<1>2. ASSUME OnPath(m, at, 0, j - 1, v) PROVE nd[v].len < j
  <2>1. PICK l \in 0..j - 1 : at[m][l] = v
    BY <1>2 DEF OnPath
  <2>2. l \in 0..m /\ m \in 0..m /\ j - 1 \in 0..m /\ j > 0
    BY <1>0
  <2>3. nd[v].len \in l..m /\ at[m][nd[v].len] = v
    BY <2>1, <2>2, StateFacts, LongestAt
  <2> SUFFICES ASSUME ~ (nd[v].len < j) PROVE FALSE
    OBVIOUS
  <2>4. nd[v].len \in 0..m /\ j - 1 \in l..nd[v].len
    BY <1>0, <2>2, <2>3
  <2>5. at[m][j - 1] = v
    BY <2>1, <2>2, <2>3, <2>4, Between
  <2>6. nd[at[m][j - 1]].len = j - 1
    BY <2>2 DEF Repeats
  <2> QED BY <1>0, <2>4, <2>5, <2>6
<1>3. ASSUME OnPath(m, at, j, m, v), OnPath(m, at, 0, j - 1, v) PROVE FALSE
  <2>1. PICK h \in j..m : at[m][h] = v
    BY <1>3 DEF OnPath
  <2>2. h \in 0..m /\ m \in 0..m
    BY <1>0
  <2>3. nd[v].len \in h..m
    BY <2>1, <2>2, StateFacts
  <2> QED BY <1>0, <1>2, <1>3, <2>3
<1> QED BY <1>1, <1>2, <1>3

LEMMA OldSteps ==
    ASSUME NEW m, NEW nd, NEW at, Automaton(m, nd, at), NEW f, NEW j, Repeats(m, nd, at, f, j),
           NEW an, NewLabels(m, nd, at, f, j, an), NEW nx, NewSteps(m, nd, at, f, j, nx),
           NEW e \in 0..m - 1, NEW l \in 0..e
    PROVE  nx[an[e][l]].to[word[e + 1]] = an[e + 1][l + 1]
<1> DEFINE w == at[f][j]
           v == at[e][l]
           d == word[e + 1]
           y == nd[v].to[d]
<1>0. /\ m \in Nat /\ f \in 0..m /\ j \in 0..f /\ j \in Nat /\ l \in Nat /\ e \in Nat
      /\ e \in 0..m /\ e + 1 \in 0..m /\ l + 1 \in 0..e + 1 /\ m < Len(word)
      /\ Len(nd) \in Nat \ {0} /\ w \in 1..Len(nd) /\ nd[w].len \in j..f
      /\ \A k \in 0..j : Same(f, m + 1, k)
  <2>1. /\ m \in Nat /\ f \in 0..m /\ j \in 0..f /\ j \in Nat
        /\ Len(nd) \in Nat \ {0} /\ w \in 1..Len(nd) /\ nd[w].len \in j..f
        /\ \A k \in 0..j : Same(f, m + 1, k)
    BY TurnFacts
  <2>2. m < Len(word)
    BY DEF Repeats
  <2> QED BY <2>1, <2>2
<1>1. d \in {0, 1}
  <2>1. e + 1 \in 1..Len(word) /\ word \in Seq({0, 1})
    BY <1>0 DEF Automaton
  <2> QED BY <2>1, ElementOfSeq
<1>2. y = at[e + 1][l + 1]
  BY <1>0 DEF Automaton, Steps
<1>3. v \in 1..Len(nd) /\ nd[v].len \in l..e /\ y \in 1..Len(nd)
  <2>1. v \in 1..Len(nd) /\ nd[v].len \in l..e
    BY <1>0, StateFacts
  <2>2. at[e + 1][l + 1] \in 1..Len(nd)
    BY <1>0, StateFacts
  <2> QED BY <1>2, <2>1, <2>2
<1>4. y # v
  <2>1. y # Null
    BY <1>3 DEF Null
  <2>2. nd[v].len < nd[y].len
    BY ONLY Automaton(m, nd, at), <1>1, <1>3, <2>1, StepLonger DEF y
  <2>3. nd[v].len \in Nat
    BY <1>0, <1>3, NodeFacts DEF Automaton
  <2> QED BY <2>2, <2>3
<1>5. /\ an[e][l] = IF nd[w].len > j /\ v = w /\ l <= j THEN Len(nd) + 2 ELSE v
      /\ an[e + 1][l + 1] = IF nd[w].len > j /\ y = w /\ l + 1 <= j THEN Len(nd) + 2 ELSE y
  BY <1>0, <1>2 DEF NewLabels
<1>6. ~ (d = word[m + 1] /\ OnPath(m, at, j, m, v))
  BY PathFacts
<1>7. /\ nx[v].to[d] = IF d = word[m + 1] /\ OnPath(m, at, j, m, v) THEN Len(nd) + 1
                       ELSE IF nd[w].len > j /\ d = word[m + 1] /\ y = w /\ OnPath(m, at, 0, j - 1, v)
                       THEN Len(nd) + 2 ELSE y
      /\ nd[w].len > j =>
            nx[Len(nd) + 2].to[d] =
                IF d = word[m + 1] /\ OnPath(m, at, j, m, w) THEN Len(nd) + 1 ELSE nd[w].to[d]
  BY <1>1, <1>3 DEF NewSteps
<1>8. y = w => (d = word[m + 1] /\ OnPath(m, at, 0, j - 1, v) <=> l + 1 <= j)
  <2> SUFFICES ASSUME y = w PROVE d = word[m + 1] /\ OnPath(m, at, 0, j - 1, v) <=> l + 1 <= j
    OBVIOUS
  <2>1. ASSUME OnPath(m, at, 0, j - 1, v) PROVE l + 1 <= j
    <3>1. nd[v].len < j
      BY <2>1, PathFacts
    <3>2. j \in Int /\ l \in Int
      BY <1>0
    <3>3. nd[v].len \in Int /\ l <= nd[v].len
      BY <1>0, <1>3
    <3> QED BY ONLY <3>1, <3>2, <3>3
  <2>2. ASSUME l + 1 <= j PROVE d = word[m + 1] /\ OnPath(m, at, 0, j - 1, v)
    <3>1. Same(e + 1, f, l + 1)
      BY <1>0, <1>2, <2>2 DEF Automaton, SuffixOfOther
    <3>2. Same(f, m + 1, l + 1) /\ l + 1 \in Nat
      BY <1>0, <2>2
    <3>3. Same(e + 1, m + 1, l + 1)
      BY <3>1, <3>2, SameFacts
    <3>4. Same(e, m, l) /\ word[e + 1] = word[m + 1]
      BY ONLY <1>0, <3>3, SameOneLess
    <3>5. at[e][l] = at[m][l]
      <4>1. m \in 0..m /\ l <= m
        BY <1>0
      <4> QED BY <1>0, <3>4, <4>1 DEF Automaton, SameState
    <3>6. l \in 0..j - 1
      BY <1>0, <2>2
    <3> QED BY <3>4, <3>5, <3>6 DEF OnPath
  <2> QED BY <2>1, <2>2
<1> HIDE DEF w, v, d, y
<1>9. CASE nd[w].len > j /\ v = w /\ l <= j
  <2>1. an[e][l] = Len(nd) + 2 /\ an[e + 1][l + 1] = y
    BY <1>4, <1>5, <1>9
  <2>2. nx[Len(nd) + 2].to[d] = y
    BY <1>6, <1>7, <1>9 DEF y
  <2> QED BY <2>1, <2>2 DEF d
<1>10. CASE ~ (nd[w].len > j /\ v = w /\ l <= j)
  <2>1. an[e][l] = v
    BY <1>5, <1>10
  <2>2. nx[v].to[d] = an[e + 1][l + 1]
    BY <1>5, <1>6, <1>7, <1>8
  <2> QED BY <2>1, <2>2 DEF d
<1> QED BY <1>9, <1>10

LEMMA TurnSteps ==
    ASSUME NEW m, NEW nd, NEW at, Automaton(m, nd, at), NEW f, NEW j, Repeats(m, nd, at, f, j),
           NEW an, NewLabels(m, nd, at, f, j, an), NEW nx, NewSteps(m, nd, at, f, j, nx)
    PROVE  Steps(m + 1, nx, an)
<1>0. /\ m \in Nat /\ f \in 0..m /\ j \in 0..f /\ j \in Nat /\ m < Len(word)
      /\ Len(nd) \in Nat \ {0} /\ at[f][j] \in 1..Len(nd)
      /\ \A k \in 0..j : Same(f, m + 1, k)
  BY TurnFacts DEF Repeats
<1>1. word[m + 1] \in {0, 1}
  <2>1. m + 1 \in 1..Len(word) /\ word \in Seq({0, 1})
    BY <1>0 DEF Automaton
  <2> QED BY <2>1, ElementOfSeq
<1>2. /\ \A e \in 0..m : \A l \in 0..e :
            an[e][l] = IF nd[at[f][j]].len > j /\ at[e][l] = at[f][j] /\ l <= j
                       THEN Len(nd) + 2 ELSE at[e][l]
      /\ \A l \in 0..j : an[m + 1][l] = an[f][l]
      /\ \A l \in j + 1..m + 1 : an[m + 1][l] = Len(nd) + 1
  BY DEF NewLabels
<1>3. ASSUME NEW l \in j..m PROVE nx[an[m][l]].to[word[m + 1]] = an[m + 1][l + 1]
  <2>1. an[m + 1][l + 1] = Len(nd) + 1
    BY <1>0, <1>2
  <2>2. l \in 0..m /\ m \in 0..m /\ at[m][l] \in 1..Len(nd) /\ OnPath(m, at, j, m, at[m][l])
    BY <1>0, StateFacts DEF OnPath
  <2>3. nx[at[m][l]].to[word[m + 1]] = Len(nd) + 1
    BY <1>1, <2>2 DEF NewSteps
  <2>4. CASE nd[at[f][j]].len > j /\ at[m][l] = at[f][j] /\ l <= j
    <3>1. an[m][l] = Len(nd) + 2
      BY <1>2, <2>2, <2>4
    <3>2. nx[Len(nd) + 2].to[word[m + 1]] = Len(nd) + 1
      BY <1>1, <2>2, <2>4 DEF NewSteps
    <3> QED BY <2>1, <3>1, <3>2
  <2>5. CASE ~ (nd[at[f][j]].len > j /\ at[m][l] = at[f][j] /\ l <= j)
    <3>1. an[m][l] = at[m][l]
      BY <1>2, <2>2, <2>5
    <3> QED BY <2>1, <2>3, <3>1
  <2> QED BY <2>4, <2>5
<1>4. ASSUME NEW l \in 0..j - 1 PROVE nx[an[m][l]].to[word[m + 1]] = an[m + 1][l + 1]
  <2>1. PICK g \in 0..m - 1 : f = g + 1
    <3>1. f - 1 \in 0..m - 1 /\ f = (f - 1) + 1
      BY <1>0
    <3> QED BY <3>1
  <2>2. /\ l \in Nat /\ g \in Nat /\ l + 1 \in 0..j /\ l \in 0..g /\ l \in 0..m
        /\ g \in 0..m /\ m \in 0..m /\ l <= g /\ l <= m
    BY <1>0, <2>1
  <2>3. Same(g + 1, m + 1, l + 1)
    BY <1>0, <2>1, <2>2
  <2>4. Same(g, m, l) /\ word[g + 1] = word[m + 1]
    <3>1. g \in Nat /\ m \in Nat /\ l \in Nat
      BY <1>0, <2>2
    <3> QED BY ONLY <2>3, <3>1, OneBack
  <2>5. at[g][l] = at[m][l]
    BY <2>2, <2>4 DEF Automaton, SameState
  <2>6. an[g][l] = an[m][l]
    BY <1>2, <2>2, <2>5
  <2>7. nx[an[g][l]].to[word[g + 1]] = an[g + 1][l + 1]
    BY <2>1, <2>2, OldSteps
  <2>8. an[m + 1][l + 1] = an[f][l + 1]
    BY <1>2, <2>2
  <2> QED BY <2>1, <2>4, <2>6, <2>7, <2>8
<1>5. ASSUME NEW e \in 0..(m + 1) - 1, NEW l \in 0..e
      PROVE  nx[an[e][l]].to[word[e + 1]] = an[e + 1][l + 1]
  <2>1. CASE e = m
    <3>1. l \in 0..j - 1 \/ l \in j..m
      BY <1>0, <2>1
    <3> QED BY <1>3, <1>4, <2>1, <3>1
  <2>2. CASE e # m
    <3>1. e \in 0..m - 1
      BY <1>0, <2>2
    <3> QED BY <3>1, OldSteps
  <2> QED BY <2>1, <2>2
<1> QED BY <1>5 DEF Steps

LEMMA TurnOnlySteps ==
    ASSUME NEW m, NEW nd, NEW at, Automaton(m, nd, at), NEW f, NEW j, Repeats(m, nd, at, f, j),
           NEW an, NewLabels(m, nd, at, f, j, an),
           NEW nx, NewLens(m, nd, at, f, j, nx), NewSteps(m, nd, at, f, j, nx)
    PROVE  OnlySteps(m + 1, nx, an)
<1> SUFFICES ASSUME NEW v \in 1..Len(nx), NEW d \in {0, 1}, nx[v].to[d] # Null
             PROVE  \E e \in 0..(m + 1) - 1 :
                        nx[v].len <= e /\ an[e][nx[v].len] = v /\ word[e + 1] = d
  BY DEF OnlySteps
<1>0. /\ m \in Nat /\ f \in 0..m /\ j \in 0..f /\ j \in Nat
      /\ Len(nd) \in Nat \ {0} /\ at[f][j] \in 1..Len(nd) /\ nd[at[f][j]].len \in j..f
      /\ Len(nx) = IF nd[at[f][j]].len > j THEN Len(nd) + 2 ELSE Len(nd) + 1
  <2>1. /\ nd[at[f][j]].len <= j => Len(nx) = Len(nd) + 1
        /\ nd[at[f][j]].len > j => Len(nx) = Len(nd) + 2
    BY DEF NewLens
  <2>2. /\ m \in Nat /\ f \in 0..m /\ j \in 0..f /\ j \in Nat
        /\ Len(nd) \in Nat \ {0} /\ at[f][j] \in 1..Len(nd) /\ nd[at[f][j]].len \in j..f
    BY TurnFacts
  <2> QED BY <2>1, <2>2
<1>1. \A e \in 0..m : \A l \in 0..e :
            an[e][l] = IF nd[at[f][j]].len > j /\ at[e][l] = at[f][j] /\ l <= j
                       THEN Len(nd) + 2 ELSE at[e][l]
  BY DEF NewLabels
<1>2. /\ nx[Len(nd) + 1].len = m + 1
      /\ \A y \in 1..Len(nd) : nx[y].len = nd[y].len
      /\ nd[at[f][j]].len > j => nx[Len(nd) + 2].len = j
  BY TurnLens
<1>3. /\ nx[Len(nd) + 1].to[d] = Null
      /\ \A y \in 1..Len(nd) :
            nx[y].to[d] =
                IF d = word[m + 1] /\ OnPath(m, at, j, m, y) THEN Len(nd) + 1
                ELSE IF /\ nd[at[f][j]].len > j /\ d = word[m + 1] /\ nd[y].to[d] = at[f][j]
                        /\ OnPath(m, at, 0, j - 1, y)
                THEN Len(nd) + 2 ELSE nd[y].to[d]
      /\ nd[at[f][j]].len > j =>
            nx[Len(nd) + 2].to[d] =
                IF d = word[m + 1] /\ OnPath(m, at, j, m, at[f][j]) THEN Len(nd) + 1
                ELSE nd[at[f][j]].to[d]
  BY DEF NewSteps
(* A place where an old state is left with d, or is the last one. *)
<1>4. ASSUME NEW y \in 1..Len(nd),
             (d = word[m + 1] /\ OnPath(m, at, j, m, y)) \/ nd[y].to[d] # Null
      PROVE  \E e \in 0..(m + 1) - 1 :
                nd[y].len \in 0..e /\ e \in 0..m /\ at[e][nd[y].len] = y /\ word[e + 1] = d
  <2>1. CASE d = word[m + 1] /\ OnPath(m, at, j, m, y)
    <3>1. PICK h \in j..m : at[m][h] = y
      BY <2>1 DEF OnPath
    <3>2. h \in 0..m /\ m \in 0..m /\ m \in 0..(m + 1) - 1
      BY <1>0
    <3>3. nd[y].len \in h..m
      BY <3>1, <3>2, StateFacts
    <3>4. at[m][nd[y].len] = y
      BY <3>1, <3>2, LongestAt
    <3>5. nd[y].len \in 0..m
      BY <3>2, <3>3
    <3> QED BY <2>1, <3>2, <3>4, <3>5
  <2>2. CASE nd[y].to[d] # Null
    <3>1. PICK e \in 0..m - 1 :
            nd[y].len \in 0..e /\ at[e][nd[y].len] = y /\ word[e + 1] = d
      BY ONLY Automaton(m, nd, at), y \in 1..Len(nd), d \in {0, 1}, <2>2, StepPlace
    <3>2. e \in 0..(m + 1) - 1 /\ e \in 0..m
      BY <1>0
    <3> QED BY <3>1, <3>2
  <2> QED BY <1>4, <2>1, <2>2
<1>5. CASE v \in 1..Len(nd)
  <2>1. (d = word[m + 1] /\ OnPath(m, at, j, m, v)) \/ nd[v].to[d] # Null
    <3>1. at[f][j] # Null
      BY <1>0 DEF Null
    <3> QED BY <1>3, <1>5, <3>1
  <2>2. PICK e \in 0..(m + 1) - 1 :
            nd[v].len \in 0..e /\ e \in 0..m /\ at[e][nd[v].len] = v /\ word[e + 1] = d
    BY <1>4, <1>5, <2>1
  <2>3. nx[v].len = nd[v].len
    BY <1>2, <1>5
  <2>4. an[e][nd[v].len] = v
    <3>1. an[e][nd[v].len] = IF nd[at[f][j]].len > j /\ v = at[f][j] /\ nd[v].len <= j
                             THEN Len(nd) + 2 ELSE v
      BY <1>1, <2>2
    <3> QED BY <1>0, <3>1
  <2> QED BY <2>2, <2>3, <2>4
<1>6. CASE v = Len(nd) + 2 /\ nd[at[f][j]].len > j
  <2>1. (d = word[m + 1] /\ OnPath(m, at, j, m, at[f][j])) \/ nd[at[f][j]].to[d] # Null
    BY <1>3, <1>6
  <2>2. PICK e \in 0..(m + 1) - 1 :
            /\ nd[at[f][j]].len \in 0..e /\ e \in 0..m
            /\ at[e][nd[at[f][j]].len] = at[f][j] /\ word[e + 1] = d
    BY <1>0, <1>4, <2>1
  <2>3. j \in 0..e /\ j <= j /\ f \in 0..m
    BY <1>0, <1>6, <2>2
  <2>4. at[e][j] = at[f][j]
    <3>1. nd[at[f][j]].len \in 0..e /\ j \in j..nd[at[f][j]].len
      BY <1>0, <1>6, <2>2
    <3>2. j \in 0..f /\ e \in 0..m
      BY <1>0, <2>2
    <3> QED BY ONLY Automaton(m, nd, at), <2>2, <2>3, <3>1, <3>2, Between
  <2>5. an[e][j] = v
    BY <1>1, <1>6, <2>2, <2>3, <2>4
  <2> QED BY <1>2, <1>6, <2>2, <2>3, <2>5
<1>7. v \in 1..Len(nd) \/ (v = Len(nd) + 2 /\ nd[at[f][j]].len > j)
  BY <1>0, <1>3
<1> QED BY <1>5, <1>6, <1>7

LEMMA TurnNodesOK ==
    ASSUME NEW m, NEW nd, NEW at, Automaton(m, nd, at), NEW f, NEW j, Repeats(m, nd, at, f, j),
           NEW nx, NewLens(m, nd, at, f, j, nx), NewSteps(m, nd, at, f, j, nx)
    PROVE  NodesOK(nx)
<1>0. /\ Len(nd) \in Nat \ {0} /\ at[f][j] \in 1..Len(nd) /\ nd[at[f][j]].len \in j..f /\ j \in Nat /\ f \in Nat
      /\ nd[at[f][j]].len > j => at[f][j] # Root
      /\ Len(nx) = IF nd[at[f][j]].len > j THEN Len(nd) + 2 ELSE Len(nd) + 1
  <2>1. /\ nd[at[f][j]].len <= j => Len(nx) = Len(nd) + 1
        /\ nd[at[f][j]].len > j => Len(nx) = Len(nd) + 2
    BY DEF NewLens
  <2>2. /\ Len(nd) \in Nat \ {0} /\ at[f][j] \in 1..Len(nd) /\ nd[at[f][j]].len \in j..f /\ j \in Nat /\ f \in Nat
        /\ nd[at[f][j]].len > j => at[f][j] # Root
    BY TurnFacts
  <2> QED BY <2>1, <2>2
<1>1. nx[Root].len = 0 /\ nx[Root].link = Null
  <2>1. nd[Root].len = 0 /\ nd[Root].link = Null
    BY DEF Automaton, NodesOK
  <2>2. Root \in 1..Len(nd)
    BY <1>0 DEF Root
  <2>3. /\ nx[Root].len = nd[Root].len
        /\ nx[Root].link = IF nd[at[f][j]].len > j /\ Root = at[f][j] THEN Len(nd) + 2 ELSE nd[Root].link
    BY <2>2 DEF NewLens
  <2> QED BY <1>0, <2>1, <2>3
<1>2. \A v \in 1..Len(nx) : nx[v].link \in 0..Len(nx)
  BY TurnTyped
<1>3. ASSUME NEW v \in 1..Len(nx), NEW d \in {0, 1} PROVE nx[v].to[d] \in 0..Len(nx)
  <2>1. \A y \in 1..Len(nd) : nd[y].to[d] \in 0..Len(nd)
    BY NodeFacts DEF Automaton
  <2>2. CASE v \in 1..Len(nd)
    <3>1. nx[v].to[d] =
                IF d = word[m + 1] /\ OnPath(m, at, j, m, v) THEN Len(nd) + 1
                ELSE IF /\ nd[at[f][j]].len > j /\ d = word[m + 1] /\ nd[v].to[d] = at[f][j]
                        /\ OnPath(m, at, 0, j - 1, v)
                THEN Len(nd) + 2 ELSE nd[v].to[d]
      BY <2>2 DEF NewSteps
    <3> QED BY <1>0, <2>1, <2>2, <3>1
  <2>3. CASE v = Len(nd) + 1
    BY <1>0, <2>3 DEF NewSteps, Null
  <2>4. CASE v = Len(nd) + 2 /\ nd[at[f][j]].len > j
    <3>1. nx[v].to[d] =
                IF d = word[m + 1] /\ OnPath(m, at, j, m, at[f][j]) THEN Len(nd) + 1
                ELSE nd[at[f][j]].to[d]
      BY <2>4 DEF NewSteps
    <3> QED BY <1>0, <2>1, <2>4, <3>1
  <2> QED BY <1>0, <2>2, <2>3, <2>4
<1>4. nx \in Seq([to : [{0, 1} -> Nat], link : Nat, len : Nat])
  BY DEF NewLens
<1>5. Len(nx) \in Nat \ {0}
  BY <1>0
<1> QED BY ONLY <1>1, <1>2, <1>3, <1>4, <1>5 DEF NodesOK

(* The automaton of one character more. *)
LEMMA Turn ==
    ASSUME NEW m, NEW nd, NEW at, Automaton(m, nd, at), NEW f, NEW j, Repeats(m, nd, at, f, j),
           NEW an, NewLabels(m, nd, at, f, j, an),
           NEW nx, NewLens(m, nd, at, f, j, nx), NewSteps(m, nd, at, f, j, nx)
    PROVE  Automaton(m + 1, nx, an)
<1>1. word \in Seq({0, 1}) /\ m + 1 \in 0..Len(word)
  <2>1. m \in Nat /\ m < Len(word) /\ Len(word) \in Nat /\ word \in Seq({0, 1})
    BY DEF Automaton, Repeats
  <2> QED BY <2>1
<1> QED BY <1>1, TurnNodesOK, TurnStateThere, TurnSameState, TurnSuffix, TurnFits, TurnDistinct,
           TurnSteps, TurnOnlySteps DEF Automaton
-----------------------------------------------------------------------------
(* add_c within the turn. *)
StandsAt(nd, at, g) ==
    /\ p = IF g = 0 THEN Null ELSE at[added][g - 1]
    /\ g > 0 => nd[at[added][g - 1]].len = g - 1

FilledFrom(nd, at, g) ==
    /\ added < Len(word) /\ g \in 0..added + 1
    /\ last = Len(nd) + 1 /\ Len(nodes) = Len(nd) + 1
    /\ nodes \in Seq([to : [{0, 1} -> Nat], link : Nat, len : Nat])
    /\ nodes[last] = [NewNode EXCEPT !.len = added + 1]
    /\ \A v \in 1..Len(nd) :
        /\ nodes[v].len = nd[v].len /\ nodes[v].link = nd[v].link
        /\ \A d \in {0, 1} :
            nodes[v].to[d] = IF d = C /\ OnPath(added, at, g, added, v) THEN last ELSE nd[v].to[d]
    /\ \A l \in g..added : nd[at[added][l]].to[C] = Null

(* The lengths that the second loop has come to are those from g on. *)
StepsFrom(m, nd, at, f, j, g, nx) ==
    \A d \in {0, 1} :
        /\ nx[Len(nd) + 1].to[d] = Null
        /\ \A v \in 1..Len(nd) :
            nx[v].to[d] =
                IF d = word[m + 1] /\ OnPath(m, at, j, m, v) THEN Len(nd) + 1
                ELSE IF /\ nd[at[f][j]].len > j /\ d = word[m + 1] /\ nd[v].to[d] = at[f][j]
                        /\ OnPath(m, at, g, j - 1, v)
                THEN Len(nd) + 2 ELSE nd[v].to[d]
        /\ nd[at[f][j]].len > j =>
            nx[Len(nd) + 2].to[d] =
                IF d = word[m + 1] /\ OnPath(m, at, j, m, at[f][j]) THEN Len(nd) + 1
                ELSE nd[at[f][j]].to[d]

RedirectedFrom(nd, at, f, j, g) ==
    /\ Repeats(added, nd, at, f, j) /\ g \in 0..j
    /\ nd[at[f][j]].len > j /\ j > 0
    /\ q = at[f][j] /\ last = Len(nd) + 1
    /\ NewLens(added, nd, at, f, j, nodes) /\ StepsFrom(added, nd, at, f, j, g, nodes)

LEMMA StepsFromStays ==
    ASSUME word' = word, NEW m, NEW nd, NEW at, NEW f, NEW j, NEW g, NEW nx,
           StepsFrom(m, nd, at, f, j, g, nx), added' = m, nodes' = nx
    PROVE  StepsFrom(added, nd, at, f, j, g, nodes)'
<1>1. \A h, k, v : OnPath(added, at, h, k, v)' <=> OnPath(m, at, h, k, v)
  BY DEF OnPath
<1> QED BY <1>1 DEF StepsFrom

NodeBound(m) == IF m = 0 THEN 1 ELSE IF m = 1 THEN 2 ELSE 2 * m - 1

BuildInv ==
    /\ pc \notin {"fill", "redirect"} =>
        \E at : Automaton(added, nodes, at) /\ last = at[added][added]
                /\ Len(nodes) <= NodeBound(added)
    /\ pc = "fill" =>
        \E nd, at, g : Automaton(added, nd, at) /\ FilledFrom(nd, at, g) /\ StandsAt(nd, at, g)
                       /\ Len(nd) <= NodeBound(added)
    /\ pc = "redirect" =>
        \E nd, at, f, j, g : Automaton(added, nd, at) /\ RedirectedFrom(nd, at, f, j, g)
                             /\ StandsAt(nd, at, g) /\ Len(nd) <= NodeBound(added)

(* From one state to the link of it. *)
ClimbsTo(e, nd, at, g, h) ==
    /\ h \in 0..g - 1
    /\ h = 0 => nd[at[e][g - 1]].link = Null
    /\ h > 0 => nd[at[e][g - 1]].link = at[e][h - 1] /\ nd[at[e][h - 1]].len = h - 1
    /\ \A l \in h..g - 1 : at[e][l] = at[e][g - 1]

LEMMA ClimbPath ==
    ASSUME NEW m, NEW nd, NEW at, Automaton(m, nd, at),
           NEW e \in 0..m, NEW g \in 1..e + 1,
           nd[at[e][g - 1]].len = g - 1
    PROVE  ClimbsTo(e, nd, at, g, Shortest(nd, at[e][g - 1]))
<1> DEFINE x == at[e][g - 1]
<1> DEFINE h == Shortest(nd, x)
<1>0. m \in Nat /\ e \in Nat /\ e \in 0..m /\ g - 1 \in 0..e /\ g \in Nat
  BY DEF Automaton
<1>1. x \in 1..Len(nd) /\ nd[x].len = g - 1 /\ (g - 1 # 0 => x # Root) /\ (g - 1 = 0 => x = Root)
  BY <1>0, StateFacts
<1>2. h \in 0..g - 1 /\ \A k \in h..g - 1 : at[e][k] = x
  <2>1. LengthAt(nd, at, e, g - 1)
    BY <1>0 DEF Automaton, Lengths
  <2> QED BY ONLY <1>1, <2>1 DEF LengthAt, x, h
<1>3. CASE g - 1 = 0
  <2>1. x = Root /\ h = 0 /\ nd[Root].link = Null
    BY <1>1, <1>3 DEF Shortest, Automaton, NodesOK
  <2> HIDE DEF x, h
  <2>2. nd[x].link = Null
    BY <2>1
  <2>3. ClimbsTo(e, nd, at, g, h)
    BY <1>2, <2>1, <2>2 DEF ClimbsTo, x
  <2> QED BY <2>3 DEF h, x
<1>4. CASE g - 1 # 0
  <2>1. x # Root
    BY <1>1, <1>4
  <2>2. h = nd[nd[x].link].len + 1 /\ nd[x].link \in 1..Len(nd) /\ nd[nd[x].link].len \in Nat
    BY <1>1, <2>1, LinkThere DEF Shortest
  <2>3. at[e][nd[nd[x].link].len] = nd[x].link
    <3>1. g - 1 \in 1..e
      BY <1>0, <1>4
    <3> QED BY <1>0, <3>1 DEF Automaton, Links, LinkAt
  <2> HIDE DEF x, h
  <2>4. h # 0 /\ h - 1 = nd[nd[x].link].len
    <3>1. \A a, b : a = b + 1 /\ b \in Nat => a # 0 /\ a - 1 = b
      OBVIOUS
    <3> QED BY ONLY <2>2, <3>1
  <2>5. nd[x].link = at[e][h - 1] /\ nd[at[e][h - 1]].len = h - 1
    BY ONLY <2>2, <2>3, <2>4
  <2>6. ClimbsTo(e, nd, at, g, h)
    BY ONLY <1>2, <2>4, <2>5 DEF ClimbsTo, x
  <2> QED BY <2>6 DEF h, x
<1> QED BY <1>3, <1>4

LEMMA PathGrows ==
    ASSUME NEW m, NEW nd, NEW at, NEW g \in Nat \ {0}, NEW h, ClimbsTo(m, nd, at, g, h),
           NEW k \in Nat, g - 1 <= k, NEW v
    PROVE  OnPath(m, at, h, k, v) <=> v = at[m][g - 1] \/ OnPath(m, at, g, k, v)
<1>1. h \in 0..g - 1 /\ \A l \in h..g - 1 : at[m][l] = at[m][g - 1]
  BY DEF ClimbsTo
<1>2. h..k = (h..g - 1) \cup (g..k) /\ g - 1 \in h..g - 1
  BY <1>1
<1>3. (\E l \in h..g - 1 : at[m][l] = v) <=> v = at[m][g - 1]
  BY <1>1, <1>2
<1> QED BY ONLY <1>2, <1>3 DEF OnPath

LEMMA Carry ==
    ASSUME word' = word, NEW m, NEW nd, NEW at, Automaton(m, nd, at), added' = m
    PROVE  /\ Automaton(added, nd, at)'
           /\ nodes' = nd => Automaton(added, nodes, at)'
<1>1. \A e, g, l : Same(e, g, l)' <=> Same(e, g, l)
  BY DEF Same
<1>2. StateThere(added, nd, at)' /\ SameState(added, at)' /\ SuffixOfOther(added, at)'
  <2>1. StateThere(added, nd, at)'
    BY DEF Automaton, StateThere
  <2>2. SameState(added, at)'
    BY <1>1 DEF Automaton, SameState
  <2>3. SuffixOfOther(added, at)'
    BY <1>1 DEF Automaton, SuffixOfOther
  <2> QED BY <2>1, <2>2, <2>3
<1>3. Lengths(added, nd, at)' /\ Links(added, nd, at)'
  <2>1. Lengths(added, nd, at)'
    BY DEF Automaton, Lengths, LengthAt, Shortest
  <2>2. Links(added, nd, at)'
    BY DEF Automaton, Links, LinkAt
  <2> QED BY <2>1, <2>2
<1>4. Distinct(added, nd, at)'
  BY DEF Automaton, Distinct
<1>5. Steps(added, nd, at)' /\ OnlySteps(added, nd, at)'
  <2>1. Steps(added, nd, at)'
    BY DEF Automaton, Steps
  <2>2. OnlySteps(added, nd, at)'
    BY DEF Automaton, OnlySteps
  <2> QED BY <2>1, <2>2
<1>6. NodesOK(nd)' /\ (word \in Seq({0, 1}) /\ added \in 0..Len(word))'
  BY DEF Automaton, NodesOK
<1>7. Automaton(added, nd, at)'
  BY <1>2, <1>3, <1>4, <1>5, <1>6 DEF Automaton
<1>8. ASSUME nodes' = nd PROVE Automaton(added, nodes, at)'
  <2>1. StateThere(added, nodes, at)'
    BY <1>8 DEF Automaton, StateThere
  <2>2. Lengths(added, nodes, at)' /\ Links(added, nodes, at)'
    <3>1. Lengths(added, nodes, at)'
      BY <1>3, <1>8 DEF Lengths, LengthAt, Shortest
    <3>2. Links(added, nodes, at)'
      BY <1>3, <1>8 DEF Links, LinkAt
    <3> QED BY <3>1, <3>2
  <2>3. Distinct(added, nodes, at)'
    BY <1>8 DEF Automaton, Distinct
  <2>4. Steps(added, nodes, at)' /\ OnlySteps(added, nodes, at)'
    <3>1. Steps(added, nodes, at)'
      BY <1>5, <1>8 DEF Steps
    <3>2. OnlySteps(added, nodes, at)'
      BY <1>5, <1>8 DEF OnlySteps
    <3> QED BY <3>1, <3>2
  <2>5. NodesOK(nodes)'
    BY <1>8 DEF Automaton, NodesOK
  <2> QED BY <1>2, <1>6, <2>1, <2>2, <2>3, <2>4, <2>5 DEF Automaton
<1> QED BY <1>7, <1>8

LEMMA AddOK ==
    ASSUME pc = "add", BuildInv, Add
    PROVE  BuildInv'
<1>1. PICK at : Automaton(added, nodes, at) /\ last = at[added][added] /\ Len(nodes) <= NodeBound(added)
  BY DEF BuildInv
<1>2. PICK m, nd : m = added /\ nd = nodes
  OBVIOUS
<1>3. /\ word' = word /\ added' = m /\ pc' = "fill" /\ last' = Len(nd) + 1 /\ p' = at[m][m]
      /\ nodes' = Append(nd, [NewNode EXCEPT !.len = nd[at[m][m]].len + 1])
      /\ m < Len(word)
  BY <1>1, <1>2 DEF Add
<1>4. Automaton(m, nd, at) /\ m \in Nat /\ NodesOK(nd) /\ Len(nd) \in Nat \ {0}
  BY <1>1, <1>2 DEF Automaton, NodesOK
<1>5. nd[at[m][m]].len = m
  <2>1. m \in 0..m
    BY <1>4
  <2>2. nd[at[m][m]].len \in m..m
    BY <1>4, <2>1, StateFacts
  <2> QED BY <1>4, <2>2
<1>6. Automaton(added, nd, at)'
  BY <1>3, <1>4, Carry
<1>7. StandsAt(nd, at, m + 1)'
  BY <1>3, <1>4, <1>5 DEF StandsAt
<1>8. FilledFrom(nd, at, m + 1)'
  <2> DEFINE x == [NewNode EXCEPT !.len = m + 1]
  <2>1. x \in [to : [{0, 1} -> Nat], link : Nat, len : Nat]
    BY <1>4 DEF NewNode, Null
  <2>2. nd \in Seq([to : [{0, 1} -> Nat], link : Nat, len : Nat])
    BY <1>4 DEF NodesOK
  <2>3. nodes' = Append(nd, x)
    BY <1>3, <1>5
  <2> HIDE DEF x
  <2>4. /\ nodes' \in Seq([to : [{0, 1} -> Nat], link : Nat, len : Nat])
        /\ Len(nodes') = Len(nd) + 1 /\ nodes'[Len(nd) + 1] = x
        /\ \A v \in 1..Len(nd) : nodes'[v] = nd[v]
    BY <2>1, <2>2, <2>3, AppendProperties
  <2>5. \A v : ~ OnPath(added, at, m + 1, added, v)'
    <3>1. ((m + 1)..m) = {}
      BY <1>4
    <3> QED BY <1>3, <3>1 DEF OnPath
  <2>6. \A l \in (m + 1)..m : nd[at[m][l]].to[C'] = Null
    <3>1. ((m + 1)..m) = {}
      BY <1>4
    <3> QED BY ONLY <3>1
  <2>7. m + 1 \in 0..m + 1
    BY <1>4
  <2>8. nodes'[last'] = [NewNode EXCEPT !.len = m + 1]
    BY <1>3, <2>4 DEF x
  <2>9. \A v \in 1..Len(nd) :
          /\ nodes'[v].len = nd[v].len /\ nodes'[v].link = nd[v].link
          /\ \A d \in {0, 1} :
                nodes'[v].to[d] = IF d = C' /\ OnPath(added, at, m + 1, added, v)' THEN last' ELSE nd[v].to[d]
    BY ONLY <2>4, <2>5
  <2>10. /\ m < Len(word') /\ last' = Len(nd) + 1 /\ Len(nodes') = Len(nd) + 1
         /\ nodes' \in Seq([to : [{0, 1} -> Nat], link : Nat, len : Nat])
    BY ONLY <1>3, <2>4
  <2> QED BY ONLY <1>3, <2>6, <2>7, <2>8, <2>9, <2>10 DEF FilledFrom, NewNode, Null
<1>9. Len(nd) <= NodeBound(added')
  BY <1>1, <1>2, <1>3
<1>10. pc' = "fill" => \E dd, aa, gg :
            /\ Automaton(added, dd, aa)' /\ FilledFrom(dd, aa, gg)' /\ StandsAt(dd, aa, gg)'
            /\ Len(dd) <= NodeBound(added')
  BY <1>6, <1>7, <1>8, <1>9
<1> QED BY ONLY <1>3, <1>10 DEF BuildInv

LEMMA PathStays ==
    ASSUME NEW nd, NEW at, Automaton(added, nd, at), NEW g, FilledFrom(nd, at, g),
           StandsAt(nd, at, g), p # Null
    PROVE  /\ g \in 1..added + 1 /\ p = at[added][g - 1] /\ nd[p].len = g - 1 /\ p \in 1..Len(nd)
           /\ nodes[p].to[C] = nd[p].to[C] /\ nodes[p].link = nd[p].link /\ C \in {0, 1}
           /\ nodes[p].len = g - 1
<1>0. added \in Nat /\ added < Len(word) /\ g \in 0..added + 1 /\ word \in Seq({0, 1}) /\ Len(word) \in Nat
  BY DEF Automaton, FilledFrom
<1>1. g \in 1..added + 1 /\ p = at[added][g - 1] /\ nd[p].len = g - 1
  BY <1>0 DEF StandsAt
<1>2. g - 1 \in 0..added /\ added \in 0..added
  BY <1>0, <1>1
<1>3. p \in 1..Len(nd)
  BY <1>1, <1>2, StateFacts
<1>4. C \in {0, 1}
  <2>1. added + 1 \in 1..Len(word)
    BY <1>0
  <2> QED BY <1>0, <2>1, ElementOfSeq DEF C
<1>5. ~ OnPath(added, at, g, added, p)
  <2> SUFFICES ASSUME NEW l \in g..added, at[added][l] = p PROVE FALSE
    BY DEF OnPath
  <2>1. l \in 0..added
    BY <1>0
  <2>2. nd[p].len \in l..added
    BY <1>2, <2>1, StateFacts
  <2> QED BY <1>0, <1>1, <2>2
<1> QED BY <1>1, <1>3, <1>4, <1>5 DEF FilledFrom

LEMMA FillOK ==
    ASSUME pc = "fill", BuildInv, Fill
    PROVE  BuildInv'
<1>1. PICK nd, at, g : /\ Automaton(added, nd, at) /\ FilledFrom(nd, at, g) /\ StandsAt(nd, at, g)
                       /\ Len(nd) <= NodeBound(added)
  BY DEF BuildInv
<1>2. PICK m, w, x : m = added /\ w = C /\ x = p
  OBVIOUS
<1>3. /\ p # Null /\ nodes[x].to[w] = Null /\ nodes' = [nodes EXCEPT ![x].to[w] = last]
      /\ p' = nodes[x].link /\ word' = word /\ added' = m /\ last' = last /\ q' = q /\ pc' = "fill"
  BY <1>2 DEF Fill
<1>4. /\ g \in 1..m + 1 /\ x = at[m][g - 1] /\ nd[x].len = g - 1 /\ x \in 1..Len(nd)
      /\ nodes[x].to[w] = nd[x].to[w] /\ nodes[x].link = nd[x].link /\ w \in {0, 1}
  BY <1>1, <1>2, <1>3, PathStays
<1>5. Automaton(m, nd, at) /\ m \in Nat /\ Len(nd) \in Nat \ {0}
  BY <1>1, <1>2 DEF Automaton, NodesOK
<1>6. PICK h : h = Shortest(nd, at[m][g - 1])
  OBVIOUS
<1>7. /\ ClimbsTo(m, nd, at, g, h) /\ h \in 0..g - 1
      /\ h = 0 => nd[x].link = Null
      /\ h > 0 => nd[x].link = at[m][h - 1] /\ nd[at[m][h - 1]].len = h - 1
      /\ \A l \in h..g - 1 : at[m][l] = x
  <2>1. g \in 1..m + 1 /\ nd[at[m][g - 1]].len = g - 1
    BY <1>4
  <2>2. Automaton(m, nd, at)
    BY <1>5
  <2>3. ClimbsTo(m, nd, at, g, h)
    <3>1. m \in 0..m
      BY <1>5
    <3> QED BY ONLY <1>6, <2>1, <2>2, <3>1, ClimbPath
  <2> QED BY <1>4, <2>3 DEF ClimbsTo
<1>8. Automaton(added, nd, at)'
  BY <1>3, <1>5, Carry
<1>9. StandsAt(nd, at, h)'
  <2>1. h \in Nat
    BY <1>4, <1>5, <1>7
  <2> QED BY <1>3, <1>4, <1>7, <2>1 DEF StandsAt
<1>10. FilledFrom(nd, at, h)'
  <2>1. /\ m < Len(word)
        /\ last = Len(nd) + 1 /\ Len(nodes) = Len(nd) + 1
        /\ nodes \in Seq([to : [{0, 1} -> Nat], link : Nat, len : Nat])
        /\ nodes[last] = [NewNode EXCEPT !.len = m + 1]
        /\ \A v \in 1..Len(nd) :
            /\ nodes[v].len = nd[v].len /\ nodes[v].link = nd[v].link
            /\ \A d \in {0, 1} :
                nodes[v].to[d] = IF d = w /\ OnPath(m, at, g, m, v) THEN last ELSE nd[v].to[d]
        /\ \A l \in g..m : nd[at[m][l]].to[w] = Null
    BY <1>1, <1>2 DEF FilledFrom
  <2>2. \A v : OnPath(m, at, h, m, v) <=> v = x \/ OnPath(m, at, g, m, v)
    <3>1. g \in Nat \ {0} /\ g - 1 <= m /\ m \in Nat /\ ClimbsTo(m, nd, at, g, h)
      BY <1>4, <1>5, <1>7
    <3> QED BY ONLY <1>4, <3>1, PathGrows
  <2>3. /\ nodes' \in Seq([to : [{0, 1} -> Nat], link : Nat, len : Nat]) /\ Len(nodes') = Len(nd) + 1
        /\ nodes'[last] = nodes[last]
        /\ \A v \in 1..Len(nd) :
            /\ nodes'[v].len = nodes[v].len /\ nodes'[v].link = nodes[v].link
            /\ \A d \in {0, 1} :
                nodes'[v].to[d] = IF d = w /\ v = x THEN last ELSE nodes[v].to[d]
    <3>1. x \in 1..Len(nodes) /\ x # last /\ last \in 1..Len(nodes) /\ last \in Nat
      <4>1. x \in 1..Len(nd) /\ Len(nd) \in Nat /\ last = Len(nd) + 1 /\ Len(nodes) = Len(nd) + 1
        BY <1>4, <1>5, <2>1
      <4> QED BY ONLY <4>1
    <3>2. nodes[x] \in [to : [{0, 1} -> Nat], link : Nat, len : Nat]
      BY <2>1, <3>1, ElementOfSeq
    <3>3. [nodes[x] EXCEPT !.to[w] = last] \in [to : [{0, 1} -> Nat], link : Nat, len : Nat]
      BY <1>4, <3>1, <3>2
    <3>4. nodes' = [nodes EXCEPT ![x] = [nodes[x] EXCEPT !.to[w] = last]]
      BY <1>3
    <3> DEFINE y == [nodes[x] EXCEPT !.to[w] = last]
    <3>5. y.len = nodes[x].len /\ y.link = nodes[x].link
          /\ \A d \in {0, 1} : y.to[d] = IF d = w THEN last ELSE nodes[x].to[d]
      BY <1>4, <3>2
    <3>6. y \in [to : [{0, 1} -> Nat], link : Nat, len : Nat] /\ nodes' = [nodes EXCEPT ![x] = y]
      BY <3>3, <3>4
    <3> HIDE DEF y
    <3>7. nodes' \in Seq([to : [{0, 1} -> Nat], link : Nat, len : Nat]) /\ Len(nodes') = Len(nodes)
          /\ \A v \in 1..Len(nodes) : nodes'[v] = IF v = x THEN y ELSE nodes[v]
      BY <2>1, <3>1, <3>6, ExceptSeq
    <3>8. \A v \in 1..Len(nd) : v \in 1..Len(nodes)
      BY <1>5, <2>1
    <3> QED BY <2>1, <3>1, <3>5, <3>7, <3>8
  <2>4. \A l \in h..m : nd[at[m][l]].to[w] = Null
    <3> SUFFICES ASSUME NEW l \in h..m PROVE nd[at[m][l]].to[w] = Null
      OBVIOUS
    <3>1. CASE l \in g..m
      BY <2>1, <3>1
    <3>2. CASE l \notin g..m
      <4>1. l \in h..g - 1
        BY <1>4, <1>5, <1>7, <3>2
      <4>2. at[m][l] = x
        BY <1>7, <4>1
      <4> QED BY <1>3, <1>4, <4>2
    <3> QED BY <3>1, <3>2
  <2>5. h \in 0..m + 1
    BY <1>4, <1>5, <1>7
  <2>6. ASSUME NEW v \in 1..Len(nd), NEW d \in {0, 1}
        PROVE  nodes'[v].to[d] = IF d = w /\ OnPath(m, at, h, m, v) THEN last ELSE nd[v].to[d]
    <3>1. nodes[v].to[d] = IF d = w /\ OnPath(m, at, g, m, v) THEN last ELSE nd[v].to[d]
      BY <2>1
    <3>2. nodes'[v].to[d] = IF d = w /\ v = x THEN last ELSE nodes[v].to[d]
      BY <2>3
    <3> QED BY ONLY <2>2, <3>1, <3>2
  <2>7. C' = w
    BY <1>2, <1>3 DEF C
  <2>8. \A v : OnPath(added, at, h, added, v)' <=> OnPath(m, at, h, m, v)
    BY <1>3 DEF OnPath
  <2>9. \A v \in 1..Len(nd) : nodes'[v].len = nd[v].len /\ nodes'[v].link = nd[v].link
    BY <2>1, <2>3
  <2>10. \A v \in 1..Len(nd) :
          /\ nodes'[v].len = nd[v].len /\ nodes'[v].link = nd[v].link
          /\ \A d \in {0, 1} :
                nodes'[v].to[d] = IF d = C' /\ OnPath(added, at, h, added, v)' THEN last' ELSE nd[v].to[d]
    BY ONLY <1>3, <2>6, <2>7, <2>8, <2>9
  <2>11. nodes'[last'] = [NewNode EXCEPT !.len = m + 1]
    BY <1>3, <2>1, <2>3
  <2>12. /\ m < Len(word') /\ last' = Len(nd) + 1
         /\ Len(nodes') = Len(nd) + 1
         /\ nodes' \in Seq([to : [{0, 1} -> Nat], link : Nat, len : Nat])
    BY <1>3, <2>1, <2>3
  <2>13. \A l \in h..m : nd[at[m][l]].to[C'] = Null
    BY ONLY <2>4, <2>7
  <2> QED BY ONLY <1>3, <2>5, <2>10, <2>11, <2>12, <2>13 DEF FilledFrom, NewNode, Null
<1>11. Len(nd) <= NodeBound(added')
  BY <1>1, <1>2, <1>3
<1>12. pc' = "fill" => \E dd, aa, gg :
            /\ Automaton(added, dd, aa)' /\ FilledFrom(dd, aa, gg)' /\ StandsAt(dd, aa, gg)'
            /\ Len(dd) <= NodeBound(added')
  BY <1>8, <1>9, <1>10, <1>11
<1> QED BY ONLY <1>3, <1>12 DEF BuildInv

(* The turn is over. *)
LEMMA TurnEnds ==
    ASSUME word' = word, pc' \notin {"fill", "redirect"}, NEW m, NEW nd, NEW at,
           Automaton(m, nd, at), Len(nd) <= NodeBound(m), NEW f, NEW j, Repeats(m, nd, at, f, j),
           added' = m + 1, last' = Len(nd) + 1,
           NEW nx, nodes' = nx, NewLens(m, nd, at, f, j, nx), NewSteps(m, nd, at, f, j, nx)
    PROVE  BuildInv'
<1>0. /\ m \in Nat /\ f \in 0..m /\ j \in 0..f /\ j \in Nat /\ f \in Nat
      /\ Len(nd) \in Nat \ {0} /\ at[f][j] \in 1..Len(nd) /\ nd[at[f][j]].len \in j..f
      /\ nd[at[f][j]].len > j => at[f][j] # Root
  BY TurnFacts
<1> DEFINE old(e, l) == IF nd[at[f][j]].len > j /\ at[e][l] = at[f][j] /\ l <= j
                        THEN Len(nd) + 2 ELSE at[e][l]
<1> DEFINE new(l) == IF l <= j THEN old(f, l) ELSE Len(nd) + 1
<1>1. PICK an : an = [e \in 0..m + 1 |-> [l \in 0..e |-> IF e <= m THEN old(e, l) ELSE new(l)]]
  OBVIOUS
<1>2. NewLabels(m, nd, at, f, j, an)
  <2>1. ASSUME NEW e \in 0..m, NEW l \in 0..e PROVE an[e][l] = old(e, l)
    <3>1. e \in 0..m + 1 /\ e <= m
      BY <1>0
    <3> HIDE DEF old, new
    <3> QED BY <1>1, <3>1
  <2>2. ASSUME NEW l \in 0..m + 1 PROVE an[m + 1][l] = new(l)
    <3>1. m + 1 \in 0..m + 1 /\ ~ (m + 1 <= m)
      BY <1>0
    <3> HIDE DEF old, new
    <3> QED BY <1>1, <3>1
  <2>3. ASSUME NEW l \in 0..j PROVE an[m + 1][l] = an[f][l]
    <3>1. l \in 0..f /\ l \in 0..m + 1 /\ l <= j
      BY <1>0
    <3>2. an[f][l] = old(f, l) /\ an[m + 1][l] = new(l)
      BY <1>0, <2>1, <2>2, <3>1
    <3> QED BY <3>1, <3>2
  <2>4. ASSUME NEW l \in j + 1..m + 1 PROVE an[m + 1][l] = Len(nd) + 1
    <3>1. l \in 0..m + 1 /\ ~ (l <= j)
      BY <1>0
    <3> QED BY <2>2, <3>1
  <2> QED BY <2>1, <2>3, <2>4 DEF NewLabels
<1>3. Automaton(m + 1, nx, an)
  BY <1>2, Turn
<1>4. Automaton(added, nodes, an)'
  BY <1>3, Carry
<1>5. last' = an[m + 1][m + 1]
  <2>1. m + 1 \in j + 1..m + 1
    BY <1>0
  <2> QED BY <1>2, <2>1 DEF NewLabels
<1>6. Len(nx) <= NodeBound(m + 1)
  <2>1. CASE nd[at[f][j]].len <= j
    <3>1. Len(nx) = Len(nd) + 1
      BY <2>1 DEF NewLens
    <3> QED BY <1>0, <3>1 DEF NodeBound
  <2>2. CASE nd[at[f][j]].len > j
    <3>1. Len(nx) = Len(nd) + 2
      BY <2>2 DEF NewLens
    <3>2. j # 0
      <4>1. 0 \in 0..f /\ at[f][0] = Root
        BY <1>0, StateFacts
      <4> QED BY <1>0, <2>2, <4>1
    <3>3. m >= 2
      BY <1>0, <2>2, <3>2
    <3> QED BY <1>0, <3>1, <3>3 DEF NodeBound
  <2> QED BY <1>0, <2>1, <2>2
<1>7. pc' \notin {"fill", "redirect"} =>
        \E aa : Automaton(added, nodes, aa)' /\ last' = aa[added'][added'] /\ Len(nodes') <= NodeBound(added')
  BY <1>4, <1>5, <1>6
<1> QED BY ONLY <1>7, pc' \notin {"fill", "redirect"} DEF BuildInv

(* The first loop has come to the longest suffix with a way on. *)
LEMMA SuffixFound ==
    ASSUME NEW m, m = added, NEW nd, NEW at, Automaton(m, nd, at), NEW g, FilledFrom(nd, at, g),
           StandsAt(nd, at, g), p # Null, Target # Null
    PROVE  \E f : /\ Repeats(m, nd, at, f, g) /\ at[f][g] = Target
                  /\ Target \in 1..Len(nd) /\ g > 0 /\ g \in Nat
<1>1. /\ g \in 1..m + 1 /\ p = at[m][g - 1] /\ nd[p].len = g - 1 /\ p \in 1..Len(nd)
      /\ nodes[p].to[C] = nd[p].to[C] /\ C \in {0, 1} /\ C = word[m + 1]
  BY PathStays DEF C
<1>2. m \in Nat /\ g \in Nat /\ m < Len(word) /\ \A l \in g..m : nd[at[m][l]].to[word[m + 1]] = Null
  BY <1>1 DEF Automaton, FilledFrom
<1>3. nd[p].to[C] # Null
  BY <1>1 DEF Target
<1>4. PICK e \in 0..m - 1 :
        /\ nd[p].len \in 0..e /\ at[e][nd[p].len] = p /\ word[e + 1] = C
        /\ at[e + 1][nd[p].len + 1] = nd[p].to[C] /\ nd[p].to[C] \in 1..Len(nd)
  <2>1. PICK x, c : x = p /\ c = C
    OBVIOUS
  <2>2. Automaton(m, nd, at) /\ x \in 1..Len(nd) /\ c \in {0, 1} /\ nd[x].to[c] # Null
    BY <1>1, <1>3, <2>1
  <2>3. \E e \in 0..m - 1 :
            /\ nd[x].len \in 0..e /\ at[e][nd[x].len] = x /\ word[e + 1] = c
            /\ at[e + 1][nd[x].len + 1] = nd[x].to[c]
    BY ONLY <2>2, StepPlace
  <2>4. nd[x].to[c] \in 1..Len(nd)
    BY ONLY <2>2, StepLonger
  <2> QED BY ONLY <2>1, <2>3, <2>4
<1>5. g - 1 \in 0..e /\ e \in 0..m /\ m \in 0..m /\ g - 1 \in 0..m /\ g - 1 \in Nat /\ e \in Nat
      /\ e + 1 \in 0..m /\ g \in 0..e + 1 /\ (g - 1) + 1 = g
  BY <1>1, <1>2, <1>4
<1>6. at[e + 1][g] = Target
  BY <1>1, <1>4, <1>5 DEF Target
<1>7. Same(m + 1, e + 1, g)
  <2>1. at[m][g - 1] = at[e][g - 1]
    BY <1>1, <1>4
  <2>2. Same(m, e, g - 1)
    BY <1>5, <2>1 DEF Automaton, SuffixOfOther
  <2>3. Same(m + 1, e + 1, (g - 1) + 1)
    BY ONLY <1>1, <1>2, <1>4, <1>5, <2>2, SameOneLess
  <2> QED BY <1>5, <2>3
<1>8. ASSUME NEW a \in g + 1..m PROVE ~ Same(m + 1, a, g + 1)
  <2>1. g \in 0..m /\ a \in 0..m /\ g + 1 <= a /\ g \in g..m
    BY <1>2
  <2> QED BY <1>2, <2>1, NoStep
<1>9. nd[at[m][g - 1]].len = g - 1
  BY <1>1
<1>10. Repeats(m, nd, at, e + 1, g)
  BY <1>2, <1>5, <1>7, <1>8, <1>9 DEF Repeats
<1>11. Target \in 1..Len(nd)
  BY <1>1, <1>4 DEF Target
<1> QED BY <1>1, <1>2, <1>6, <1>10, <1>11

(* The new state gets its link, and there is nothing to split. *)
LEMMA LinkOK ==
    ASSUME BuildInv, NEW m, m = added, NEW nd, NEW at, Automaton(m, nd, at),
           Len(nd) <= NodeBound(m), NEW f, NEW j, Repeats(m, nd, at, f, j),
           FilledFrom(nd, at, j), NEW v, v = at[f][j], nd[v].len <= j, LinkTo(v)
    PROVE  BuildInv'
<1>1. PICK w, x, nx : w = C /\ x = last /\ nx = nodes'
  OBVIOUS
<1>2. /\ nx = [nodes EXCEPT ![x].link = v] /\ added' = m + 1 /\ pc' = "add"
      /\ word' = word /\ last' = x /\ w = word[m + 1]
  BY <1>1 DEF LinkTo, C
<1>3. /\ m \in Nat /\ f \in 0..m /\ j \in 0..f /\ j \in Nat
      /\ Len(nd) \in Nat \ {0} /\ v \in 1..Len(nd)
  BY TurnFacts
<1>4. /\ x = Len(nd) + 1 /\ Len(nodes) = Len(nd) + 1
      /\ nodes \in Seq([to : [{0, 1} -> Nat], link : Nat, len : Nat])
      /\ nodes[x] = [NewNode EXCEPT !.len = m + 1]
      /\ \A a \in 1..Len(nd) :
          /\ nodes[a].len = nd[a].len /\ nodes[a].link = nd[a].link
          /\ \A d \in {0, 1} :
              nodes[a].to[d] = IF d = w /\ OnPath(m, at, j, m, a) THEN x ELSE nd[a].to[d]
  BY <1>1 DEF FilledFrom
<1> DEFINE y == [nodes[x] EXCEPT !.link = v]
<1>5. /\ y \in [to : [{0, 1} -> Nat], link : Nat, len : Nat] /\ nx = [nodes EXCEPT ![x] = y]
      /\ y.link = v /\ y.len = m + 1 /\ y.to[0] = Null /\ y.to[1] = Null
  <2>1. x \in 1..Len(nodes) /\ v \in Nat
    <3>1. x = Len(nd) + 1 /\ Len(nodes) = Len(nd) + 1
      BY ONLY <1>4
    <3>2. Len(nd) \in Nat /\ v \in 1..Len(nd)
      BY ONLY <1>3
    <3> QED BY ONLY <3>1, <3>2
  <2>2. nodes[x] \in [to : [{0, 1} -> Nat], link : Nat, len : Nat]
    BY ONLY <1>4, <2>1, ElementOfSeq
  <2>3. nx = [nodes EXCEPT ![x] = y]
    BY ONLY <1>2 DEF y
  <2>4. y \in [to : [{0, 1} -> Nat], link : Nat, len : Nat] /\ y.link = v
        /\ y.len = nodes[x].len /\ y.to = nodes[x].to
    BY ONLY <2>1, <2>2 DEF y
  <2>5. y.len = m + 1 /\ y.to[0] = Null /\ y.to[1] = Null
    BY ONLY <1>4, <2>4 DEF NewNode
  <2> QED BY ONLY <2>3, <2>4, <2>5
<1> HIDE DEF y
<1>6. /\ nx \in Seq([to : [{0, 1} -> Nat], link : Nat, len : Nat]) /\ Len(nx) = Len(nd) + 1
      /\ nx[Len(nd) + 1] = y /\ \A a \in 1..Len(nd) : nx[a] = nodes[a]
  <2>1. x \in 1..Len(nodes)
    BY <1>3, <1>4
  <2>2. /\ nx \in Seq([to : [{0, 1} -> Nat], link : Nat, len : Nat]) /\ Len(nx) = Len(nodes)
        /\ \A a \in 1..Len(nodes) : nx[a] = IF a = x THEN y ELSE nodes[a]
    BY <1>4, <1>5, <2>1, ExceptSeq
  <2>3. \A a \in 1..Len(nd) : a \in 1..Len(nodes) /\ a # x
    BY <1>3, <1>4
  <2> QED BY ONLY <1>4, <2>1, <2>2, <2>3
<1>7. ~ (nd[at[f][j]].len > j) /\ nd[at[f][j]].len <= j
  <2>1. nd[v].len \in Nat
    BY <1>3, NodeFacts DEF Automaton
  <2> QED BY <1>3, <2>1
<1>8. NewLens(m, nd, at, f, j, nx)
  BY ONLY <1>4, <1>5, <1>6, <1>7, v = at[f][j] DEF NewLens
<1>9. NewSteps(m, nd, at, f, j, nx)
  <2>1. \A d \in {0, 1} : nx[Len(nd) + 1].to[d] = Null
    BY <1>5, <1>6
  <2>2. ASSUME NEW a \in 1..Len(nd), NEW d \in {0, 1}
        PROVE  nx[a].to[d] = IF d = word[m + 1] /\ OnPath(m, at, j, m, a) THEN Len(nd) + 1 ELSE nd[a].to[d]
    <3>1. nx[a] = nodes[a]
      BY ONLY <1>6, a \in 1..Len(nd)
    <3>2. nodes[a].to[d] = IF d = word[m + 1] /\ OnPath(m, at, j, m, a) THEN Len(nd) + 1 ELSE nd[a].to[d]
      BY ONLY <1>2, <1>4, a \in 1..Len(nd), d \in {0, 1}
    <3> QED BY ONLY <3>1, <3>2
  <2>3. ASSUME NEW d \in {0, 1}, NEW a \in 1..Len(nd)
        PROVE  nx[a].to[d] =
                IF d = word[m + 1] /\ OnPath(m, at, j, m, a) THEN Len(nd) + 1
                ELSE IF /\ nd[at[f][j]].len > j /\ d = word[m + 1] /\ nd[a].to[d] = at[f][j]
                        /\ OnPath(m, at, 0, j - 1, a)
                THEN Len(nd) + 2 ELSE nd[a].to[d]
    BY ONLY <1>7, <2>2
  <2> QED BY ONLY <1>7, <2>1, <2>3 DEF NewSteps
<1>10. last' = Len(nd) + 1 /\ pc' \notin {"fill", "redirect"} /\ nodes' = nx
  BY <1>1, <1>2, <1>4
<1> QED BY <1>2, <1>8, <1>9, <1>10, TurnEnds

LEMMA LinkToRootOK ==
    ASSUME pc = "fill", BuildInv, LinkToRoot
    PROVE  BuildInv'
<1>1. PICK nd, at, g : /\ Automaton(added, nd, at) /\ FilledFrom(nd, at, g) /\ StandsAt(nd, at, g)
                       /\ Len(nd) <= NodeBound(added)
  BY DEF BuildInv
<1>2. PICK m : m = added
  OBVIOUS
<1>3. m \in Nat /\ m < Len(word) /\ g \in 0..m + 1 /\ p = Null /\ LinkTo(Root) /\ m \in 0..m
  BY <1>1, <1>2 DEF Automaton, FilledFrom, LinkToRoot
<1>4. g = 0
  <2> SUFFICES ASSUME g # 0 PROVE FALSE
    OBVIOUS
  <2>1. p = at[m][g - 1] /\ g - 1 \in 0..m
    BY <1>1, <1>2, <1>3 DEF StandsAt
  <2>2. at[m][g - 1] \in 1..Len(nd)
    BY <1>1, <1>2, <1>3, <2>1, StateFacts
  <2> QED BY <1>3, <2>1, <2>2 DEF Null
<1>5. Root = at[0][0] /\ nd[Root].len <= 0
  <2>1. 0 \in 0..m /\ 0 \in 0..0
    BY <1>3
  <2>2. at[0][0] = Root
    BY <1>1, <1>2, <2>1, StateFacts
  <2>3. nd[Root].len = 0
    BY <1>1 DEF Automaton, NodesOK
  <2> QED BY <2>2, <2>3
<1>6. Repeats(m, nd, at, 0, 0)
  <2>1. Same(m + 1, 0, 0)
    BY DEF Same
  <2>2. ASSUME NEW e \in 0 + 1..m PROVE ~ Same(m + 1, e, 0 + 1)
    <3>1. 0 \in 0..m /\ e \in 0..m /\ 0 + 1 <= e /\ 0 \in g..m
      BY <1>3, <1>4
    <3>2. nd[at[m][0]].to[word[m + 1]] = Null
      BY <1>1, <1>2, <3>1 DEF FilledFrom, C
    <3> QED BY <1>1, <1>2, <1>3, <3>1, <3>2, NoStep
  <2>3. 0 \in 0..m /\ 0 \in 0..0 /\ ~ (0 > 0)
    BY <1>3
  <2> QED BY ONLY <1>3, <2>1, <2>2, <2>3 DEF Repeats
<1>7. Automaton(m, nd, at) /\ FilledFrom(nd, at, 0) /\ Len(nd) <= NodeBound(m)
  BY <1>1, <1>2, <1>4
<1> QED BY ONLY BuildInv, <1>2, <1>3, <1>5, <1>6, <1>7, LinkOK

LEMMA LinkToTargetOK ==
    ASSUME pc = "fill", BuildInv, LinkToTarget
    PROVE  BuildInv'
<1>1. PICK nd, at, g : /\ Automaton(added, nd, at) /\ FilledFrom(nd, at, g) /\ StandsAt(nd, at, g)
                       /\ Len(nd) <= NodeBound(added)
  BY DEF BuildInv
<1>2. PICK m, v : m = added /\ v = Target
  OBVIOUS
<1>3. p # Null /\ Target # Null /\ Continuous /\ LinkTo(v)
  BY <1>2 DEF LinkToTarget
<1>4. Automaton(m, nd, at) /\ Len(nd) <= NodeBound(m)
  BY <1>1, <1>2
<1>5. PICK f : /\ Repeats(m, nd, at, f, g) /\ at[f][g] = Target
               /\ Target \in 1..Len(nd) /\ g > 0 /\ g \in Nat
  BY <1>1, <1>2, <1>3, <1>4, SuffixFound
<1>6. nodes[v].len = nd[v].len /\ nodes[p].len = g - 1
  <2>1. nodes[v].len = nd[v].len
    BY <1>1, <1>2, <1>5 DEF FilledFrom
  <2>2. nodes[p].len = g - 1
    BY <1>1, <1>3, PathStays
  <2> QED BY <2>1, <2>2
<1>7. nd[v].len <= g
  <2>1. nodes[v].len = nodes[p].len + 1
    BY <1>2, <1>3 DEF Continuous
  <2> QED BY <1>5, <1>6, <2>1
<1>8. v = at[f][g]
  BY <1>2, <1>5
<1> QED BY ONLY BuildInv, <1>1, <1>2, <1>3, <1>4, <1>5, <1>7, <1>8, LinkOK

LEMMA CloneTargetOK ==
    ASSUME pc = "fill", BuildInv, CloneTarget
    PROVE  BuildInv'
<1>1. PICK nd, at, g : /\ Automaton(added, nd, at) /\ FilledFrom(nd, at, g) /\ StandsAt(nd, at, g)
                       /\ Len(nd) <= NodeBound(added)
  BY DEF BuildInv
<1>2. PICK m, v, x, w, nx : m = added /\ v = Target /\ x = last /\ w = C /\ nx = nodes'
  OBVIOUS
<1>3. /\ p # Null /\ Target # Null /\ ~ Continuous
      /\ nx = Append([nodes EXCEPT ![x].link = Len(nodes) + 1, ![v].link = Len(nodes) + 1],
                     [nodes[v] EXCEPT !.len = nodes[p].len + 1])
      /\ q' = v /\ pc' = "redirect" /\ word' = word /\ added' = m /\ last' = x /\ p' = p
  BY <1>2 DEF CloneTarget
<1>4. Automaton(m, nd, at) /\ Len(nd) <= NodeBound(m)
  BY <1>1, <1>2
<1>5. PICK f : /\ Repeats(m, nd, at, f, g) /\ at[f][g] = Target
               /\ Target \in 1..Len(nd) /\ g > 0 /\ g \in Nat
  BY <1>1, <1>2, <1>3, <1>4, SuffixFound
<1>6. /\ m \in Nat /\ f \in 0..m /\ g \in 0..f /\ Len(nd) \in Nat \ {0} /\ nd[v].len \in Nat /\ nd[v].len >= g
  BY <1>2, <1>4, <1>5, TurnFacts
<1>7. /\ x = Len(nd) + 1 /\ Len(nodes) = Len(nd) + 1 /\ w = word[m + 1]
      /\ nodes \in Seq([to : [{0, 1} -> Nat], link : Nat, len : Nat])
      /\ nodes[x] = [NewNode EXCEPT !.len = m + 1]
      /\ \A a \in 1..Len(nd) :
          /\ nodes[a].len = nd[a].len /\ nodes[a].link = nd[a].link
          /\ \A d \in {0, 1} :
              nodes[a].to[d] = IF d = w /\ OnPath(m, at, g, m, a) THEN x ELSE nd[a].to[d]
  BY <1>1, <1>2 DEF FilledFrom, C
<1>8. nodes[p].len + 1 = g /\ v \in 1..Len(nd) /\ v = at[f][g]
  <2>1. nodes[p].len = g - 1
    BY <1>1, <1>3, PathStays
  <2> QED BY <1>2, <1>5, <2>1
<1>9. nd[v].len > g
  <2>1. nodes[v].len # g
    BY <1>2, <1>3, <1>8 DEF Continuous
  <2>2. nodes[v].len = nd[v].len
    BY <1>7, <1>8
  <2> QED BY <1>5, <1>6, <2>1, <2>2
<1> DEFINE y == [nodes[x] EXCEPT !.link = Len(nd) + 2]
<1> DEFINE z == [nodes[v] EXCEPT !.link = Len(nd) + 2]
<1> DEFINE t == [nodes[v] EXCEPT !.len = g]
<1> DEFINE Node == [to : [{0, 1} -> Nat], link : Nat, len : Nat]
<1>10. x \in 1..Len(nodes) /\ v \in 1..Len(nodes) /\ v # x /\ Len(nd) + 2 \in Nat /\ Len(nodes) + 1 = Len(nd) + 2
  <2>1. x = Len(nd) + 1 /\ Len(nodes) = Len(nd) + 1
    BY ONLY <1>7
  <2>2. Len(nd) \in Nat /\ v \in 1..Len(nd)
    BY ONLY <1>6, <1>8
  <2> QED BY ONLY <2>1, <2>2
<1>11. nodes[x] \in Node /\ nodes[v] \in Node
  BY ONLY <1>7, <1>10, ElementOfSeq
<1>12. /\ y \in Node /\ y.link = Len(nd) + 2 /\ y.len = nodes[x].len /\ y.to = nodes[x].to
       /\ z \in Node /\ z.link = Len(nd) + 2 /\ z.len = nodes[v].len /\ z.to = nodes[v].to
       /\ t \in Node /\ t.link = nodes[v].link /\ t.len = g /\ t.to = nodes[v].to
  BY ONLY <1>5, <1>10, <1>11
<1>13. nx = Append([[nodes EXCEPT ![x] = y] EXCEPT ![v] = z], t)
  <2>1. [nodes EXCEPT ![x] = y][v] = nodes[v]
    BY ONLY <1>7, <1>10, ExceptSeq
  <2>2. nx = Append([[nodes EXCEPT ![x] = y] EXCEPT ![v].link = Len(nd) + 2], t)
    BY ONLY <1>3, <1>8, <1>10
  <2>3. [[nodes EXCEPT ![x] = y] EXCEPT ![v].link = Len(nd) + 2] = [[nodes EXCEPT ![x] = y] EXCEPT ![v] = z]
    BY ONLY <2>1
  <2> QED BY ONLY <2>2, <2>3
<1> HIDE DEF y, z, t, Node
<1>14. /\ nx \in Seq(Node) /\ Len(nx) = Len(nd) + 2
       /\ nx[Len(nd) + 2] = t /\ nx[Len(nd) + 1] = y
       /\ \A a \in 1..Len(nd) : nx[a] = IF a = v THEN z ELSE nodes[a]
  <2>0. nodes \in Seq(Node) /\ Len(nodes) = Len(nd) + 1 /\ x = Len(nd) + 1 /\ Len(nd) \in Nat
    BY ONLY <1>6, <1>7 DEF Node
  <2> DEFINE s == [nodes EXCEPT ![x] = y]
  <2> DEFINE r == [s EXCEPT ![v] = z]
  <2>1. s \in Seq(Node) /\ Len(s) = Len(nodes)
        /\ \A a \in 1..Len(nodes) : s[a] = IF a = x THEN y ELSE nodes[a]
    BY ONLY <1>10, <1>12, <2>0, ExceptSeq
  <2>s. s = [nodes EXCEPT ![x] = y]
    OBVIOUS
  <2> HIDE DEF s
  <2>2. r \in Seq(Node) /\ Len(r) = Len(nodes)
        /\ \A a \in 1..Len(s) : r[a] = IF a = v THEN z ELSE s[a]
    BY ONLY <1>10, <1>12, <2>0, <2>1, ExceptSeq
  <2>r. r = [s EXCEPT ![v] = z]
    OBVIOUS
  <2> HIDE DEF r
  <2>3. nx = Append(r, t)
    BY ONLY <1>13, <2>s, <2>r
  <2>4. nx \in Seq(Node) /\ Len(nx) = Len(r) + 1 /\ nx[Len(r) + 1] = t /\ \A a \in 1..Len(r) : nx[a] = r[a]
    BY ONLY <1>12, <2>2, <2>3, AppendProperties
  <2>5. nx[Len(nd) + 2] = t /\ Len(nx) = Len(nd) + 2
    BY ONLY <2>0, <2>2, <2>4
  <2>6. nx[x] = y
    BY ONLY <1>10, <2>1, <2>2, <2>4
  <2>7. ASSUME NEW a \in 1..Len(nd) PROVE nx[a] = IF a = v THEN z ELSE nodes[a]
    <3>1. a \in 1..Len(nodes) /\ a # x
      BY ONLY <2>0, <2>7
    <3> QED BY ONLY <2>1, <2>2, <2>4, <3>1
  <2> QED BY ONLY <2>0, <2>4, <2>5, <2>6, <2>7
<1>15. nd[at[f][g]].len > g /\ ~ (nd[at[f][g]].len <= g)
  BY ONLY <1>5, <1>6, <1>8, <1>9
<1>16. /\ y.len = m + 1 /\ y.link = Len(nd) + 2 /\ \A d \in {0, 1} : y.to[d] = Null
       /\ z.len = nd[v].len /\ z.link = Len(nd) + 2 /\ z.to = nodes[v].to
       /\ t.len = g /\ t.link = nd[v].link /\ t.to = nodes[v].to
  <2>1. y.len = m + 1 /\ \A d \in {0, 1} : y.to[d] = Null
    BY ONLY <1>7, <1>12 DEF NewNode
  <2> QED BY ONLY <1>7, <1>8, <1>12, <2>1
<1>17. NewLens(m, nd, at, f, g, nx)
  <2>1. nx \in Seq([to : [{0, 1} -> Nat], link : Nat, len : Nat])
    BY ONLY <1>14 DEF Node
  <2>2. ASSUME NEW a \in 1..Len(nd)
        PROVE  /\ nx[a].len = nd[a].len
               /\ nx[a].link = IF nd[at[f][g]].len > g /\ a = at[f][g] THEN Len(nd) + 2 ELSE nd[a].link
    <3>1. nx[a] = IF a = v THEN z ELSE nodes[a]
      BY ONLY <1>14, a \in 1..Len(nd)
    <3>2. nodes[a].len = nd[a].len /\ nodes[a].link = nd[a].link
      BY ONLY <1>7, a \in 1..Len(nd)
    <3>3. z.len = nd[v].len /\ z.link = Len(nd) + 2 /\ v = at[f][g] /\ nd[at[f][g]].len > g
      BY ONLY <1>8, <1>15, <1>16
    <3> QED BY ONLY <3>1, <3>2, <3>3
  <2>3. /\ nx[Len(nd) + 1].len = m + 1
        /\ Len(nx) = Len(nd) + 2 /\ nx[Len(nd) + 1].link = Len(nd) + 2
        /\ nx[Len(nd) + 2].len = g /\ nx[Len(nd) + 2].link = nd[at[f][g]].link
    BY ONLY <1>8, <1>14, <1>16
  <2> QED BY ONLY <1>15, <2>1, <2>2, <2>3 DEF NewLens
<1>18. StepsFrom(m, nd, at, f, g, g, nx)
  <2>1. \A a : ~ OnPath(m, at, g, g - 1, a)
    <3>1. (g..(g - 1)) = {}
      BY <1>5
    <3> QED BY <3>1 DEF OnPath
  <2>2. \A a \in 1..Len(nd) : nx[a].to = nodes[a].to
    BY ONLY <1>14, <1>16
  <2>3. \A d \in {0, 1} : \A a \in 1..Len(nd) :
            nodes[a].to[d] = IF d = word[m + 1] /\ OnPath(m, at, g, m, a) THEN Len(nd) + 1 ELSE nd[a].to[d]
    BY ONLY <1>7
  <2>4. \A d \in {0, 1} : nx[Len(nd) + 1].to[d] = Null /\ nx[Len(nd) + 2].to[d] = nodes[v].to[d]
    BY ONLY <1>14, <1>16
  <2> QED BY ONLY <1>8, <1>15, <2>1, <2>2, <2>3, <2>4 DEF StepsFrom
<1>19. Automaton(added, nd, at)'
  BY <1>3, <1>4, Carry
<1>20. StandsAt(nd, at, g)'
  BY ONLY <1>1, <1>2, <1>3 DEF StandsAt
<1>21. RedirectedFrom(nd, at, f, g, g)'
  <2>1. Repeats(added, nd, at, f, g)'
    BY ONLY <1>3, <1>5 DEF Repeats, Same
  <2>2. NewLens(added, nd, at, f, g, nodes)' /\ StepsFrom(added, nd, at, f, g, g, nodes)'
    <3>1. nodes' = nx /\ added' = m /\ word' = word
      BY ONLY <1>2, <1>3
    <3>2. NewLens(added, nd, at, f, g, nodes)'
      BY ONLY <1>17, <3>1 DEF NewLens
    <3>3. \A h, k, a : OnPath(added, at, h, k, a)' <=> OnPath(m, at, h, k, a)
      BY ONLY <3>1 DEF OnPath
    <3>4. StepsFrom(added, nd, at, f, g, g, nodes)'
      BY ONLY <1>18, <3>1, StepsFromStays
    <3> QED BY ONLY <3>2, <3>4
  <2>3. g \in 0..g /\ q' = at[f][g] /\ last' = Len(nd) + 1
    BY ONLY <1>3, <1>5, <1>7, <1>8
  <2> QED BY ONLY <1>5, <1>15, <2>1, <2>2, <2>3 DEF RedirectedFrom
<1>22. pc' = "redirect" => \E dd, aa, ff, jj, gg :
          /\ Automaton(added, dd, aa)' /\ RedirectedFrom(dd, aa, ff, jj, gg)'
          /\ StandsAt(dd, aa, gg)' /\ Len(dd) <= NodeBound(added')
  BY ONLY <1>3, <1>4, <1>19, <1>20, <1>21
<1> QED BY ONLY <1>3, <1>22 DEF BuildInv

LEMMA RedirectOK ==
    ASSUME pc = "redirect", BuildInv, Redirect
    PROVE  BuildInv'
<1>1. PICK nd, at, f, j, g : /\ Automaton(added, nd, at) /\ RedirectedFrom(nd, at, f, j, g)
                             /\ StandsAt(nd, at, g) /\ Len(nd) <= NodeBound(added)
  BY DEF BuildInv
<1>2. PICK m, w, x, no, nx : m = added /\ w = C /\ x = p /\ no = nodes /\ nx = nodes'
  OBVIOUS
<1>3. /\ x # Null /\ no[x].to[w] = q /\ nx = [no EXCEPT ![x].to[w] = Len(no)]
      /\ p' = no[x].link /\ word' = word /\ added' = m /\ last' = last /\ q' = q /\ pc' = "redirect"
  BY <1>2 DEF Redirect, Target
<1>4. Automaton(m, nd, at) /\ Len(nd) <= NodeBound(m)
  BY <1>1, <1>2
<1>5. /\ Repeats(m, nd, at, f, j) /\ g \in 0..j /\ nd[at[f][j]].len > j /\ j > 0
      /\ q = at[f][j] /\ last = Len(nd) + 1
      /\ NewLens(m, nd, at, f, j, no) /\ StepsFrom(m, nd, at, f, j, g, no)
  BY <1>1, <1>2 DEF RedirectedFrom
<1>6. /\ m \in Nat /\ f \in 0..m /\ j \in 0..f /\ j \in Nat /\ f \in Nat /\ m \in 0..m /\ m < Len(word)
      /\ Len(nd) \in Nat \ {0} /\ q \in 1..Len(nd)
  <2>1. m < Len(word)
    BY <1>5 DEF Repeats
  <2> QED BY <1>4, <1>5, <2>1, TurnFacts
<1>7. w \in {0, 1} /\ w = word[m + 1]
  <2>1. word \in Seq({0, 1}) /\ m + 1 \in 1..Len(word)
    BY <1>4, <1>6 DEF Automaton
  <2> QED BY <1>2, <2>1, ElementOfSeq DEF C
<1>8. g \in 1..m + 1 /\ g \in Nat \ {0} /\ x = at[m][g - 1] /\ nd[x].len = g - 1 /\ g - 1 \in 0..m
  <2>1. g # 0
    BY <1>1, <1>2, <1>3 DEF StandsAt
  <2>2. g \in 1..m + 1 /\ g > 0 /\ g \in Nat \ {0} /\ g - 1 \in 0..m
    BY <1>5, <1>6, <2>1
  <2> QED BY <1>1, <1>2, <2>1, <2>2 DEF StandsAt
<1>9. x \in 1..Len(nd)
  BY <1>4, <1>6, <1>8, StateFacts
<1>10. ~ OnPath(m, at, j, m, x) /\ ~ OnPath(m, at, g, j - 1, x)
  <2>1. ASSUME NEW l \in g..m, at[m][l] = x PROVE FALSE
    <3>1. l \in 0..m /\ l \in Nat
      BY <1>6, <1>8
    <3>2. nd[x].len \in l..m
      BY <1>4, <1>6, <2>1, <3>1, StateFacts
    <3> QED BY <1>6, <1>8, <3>1, <3>2
  <2>2. j..m \subseteq g..m /\ g..j - 1 \subseteq g..m
    BY <1>5, <1>6, <1>8
  <2> QED BY <2>1, <2>2 DEF OnPath
<1>11. nd[x].to[w] = q /\ no[x].to[w] = nd[x].to[w]
  <2>1. no[x].to[w] = nd[x].to[w]
    BY ONLY <1>5, <1>7, <1>9, <1>10 DEF StepsFrom
  <2> QED BY <1>3, <2>1
<1>12. x # q
  <2>1. nd[q].len # nd[x].len
    BY <1>5, <1>6, <1>8
  <2> QED BY <2>1
<1>13. no[x].link = nd[x].link
  BY ONLY <1>5, <1>9, <1>12 DEF NewLens
<1>14. PICK h : h = Shortest(nd, at[m][g - 1])
  OBVIOUS
<1>15. ClimbsTo(m, nd, at, g, h)
  <2>1. nd[at[m][g - 1]].len = g - 1
    BY <1>8
  <2> QED BY ONLY <1>4, <1>6, <1>8, <1>14, <2>1, ClimbPath
<1>16. /\ h \in 0..g - 1 /\ h \in 0..j /\ h \in Nat
       /\ h = 0 => nd[x].link = Null
       /\ h > 0 => nd[x].link = at[m][h - 1] /\ nd[at[m][h - 1]].len = h - 1
  <2>1. /\ h \in 0..g - 1
        /\ h = 0 => nd[x].link = Null
        /\ h > 0 => nd[x].link = at[m][h - 1] /\ nd[at[m][h - 1]].len = h - 1
    BY <1>8, <1>15 DEF ClimbsTo
  <2>2. h \in 0..j /\ h \in Nat
    BY <1>5, <1>6, <2>1
  <2> QED BY <2>1, <2>2
<1> DEFINE Node == [to : [{0, 1} -> Nat], link : Nat, len : Nat]
<1>17. /\ no \in Seq(Node) /\ Len(no) = Len(nd) + 2 /\ x \in 1..Len(no) /\ no[x] \in Node /\ Len(no) \in Nat
  <2>1. no \in Seq(Node) /\ Len(no) = Len(nd) + 2
    BY ONLY <1>5 DEF NewLens
  <2>2. x \in 1..Len(no) /\ Len(no) \in Nat
    BY ONLY <1>6, <1>9, <2>1
  <2> QED BY ONLY <2>1, <2>2, ElementOfSeq
<1> DEFINE y == [no[x] EXCEPT !.to[w] = Len(no)]
<1>18. /\ y \in Node /\ y.len = no[x].len /\ y.link = no[x].link
       /\ \A d \in {0, 1} : y.to[d] = IF d = w THEN Len(no) ELSE no[x].to[d]
  BY ONLY <1>7, <1>17
<1>19. nx = [no EXCEPT ![x] = y]
  BY ONLY <1>3
<1> HIDE DEF y, Node
<1>20. nx \in Seq(Node) /\ Len(nx) = Len(no) /\ \A a \in 1..Len(no) : nx[a] = IF a = x THEN y ELSE no[a]
  BY ONLY <1>17, <1>18, <1>19, ExceptSeq
<1>21. /\ \A a \in 1..Len(no) : nx[a].len = no[a].len /\ nx[a].link = no[a].link
       /\ \A a \in 1..Len(no) : \A d \in {0, 1} :
            nx[a].to[d] = IF a = x /\ d = w THEN Len(nd) + 2 ELSE no[a].to[d]
  BY ONLY <1>17, <1>18, <1>20
<1>22. Len(nd) + 1 \in 1..Len(no) /\ Len(nd) + 2 \in 1..Len(no) /\ (\A a \in 1..Len(nd) : a \in 1..Len(no))
       /\ Len(nd) + 1 # x /\ Len(nd) + 2 # x
  BY ONLY <1>6, <1>9, <1>17
<1>23. NewLens(m, nd, at, f, j, nx)
  <2>1. nx \in Seq([to : [{0, 1} -> Nat], link : Nat, len : Nat])
    BY ONLY <1>20 DEF Node
  <2>2. /\ \A a \in 1..Len(nd) :
            /\ nx[a].len = nd[a].len
            /\ nx[a].link = IF nd[at[f][j]].len > j /\ a = at[f][j] THEN Len(nd) + 2 ELSE nd[a].link
        /\ nx[Len(nd) + 1].len = m + 1
        /\ nd[at[f][j]].len > j =>
            /\ Len(nx) = Len(nd) + 2 /\ nx[Len(nd) + 1].link = Len(nd) + 2
            /\ nx[Len(nd) + 2].len = j /\ nx[Len(nd) + 2].link = nd[at[f][j]].link
    <3>1. \A a \in 1..Len(nd) : nx[a].len = no[a].len /\ nx[a].link = no[a].link
      BY ONLY <1>21, <1>22
    <3>2. /\ nx[Len(nd) + 1].len = no[Len(nd) + 1].len /\ nx[Len(nd) + 1].link = no[Len(nd) + 1].link
          /\ nx[Len(nd) + 2].len = no[Len(nd) + 2].len /\ nx[Len(nd) + 2].link = no[Len(nd) + 2].link
      BY ONLY <1>21, <1>22
    <3>3. NewLens(m, nd, at, f, j, no) /\ Len(nx) = Len(no)
      BY <1>5, <1>20
    <3> QED BY ONLY <3>1, <3>2, <3>3 DEF NewLens
  <2>3. ~ (nd[at[f][j]].len <= j)
    BY ONLY <1>5, <1>6, <1>4, NodeFacts DEF Automaton
  <2> QED BY ONLY <2>1, <2>2, <2>3 DEF NewLens
<1>24. StepsFrom(m, nd, at, f, j, h, nx)
  <2>1. ASSUME NEW a PROVE OnPath(m, at, h, j - 1, a) <=> a = x \/ OnPath(m, at, g, j - 1, a)
    <3>1. j - 1 \in Nat /\ g - 1 <= j - 1
      BY <1>5, <1>6, <1>8
    <3> QED BY ONLY <1>8, <1>15, <3>1, PathGrows
  <2>2. ASSUME NEW d \in {0, 1}, NEW a \in 1..Len(nd)
        PROVE  nx[a].to[d] =
                  IF d = word[m + 1] /\ OnPath(m, at, j, m, a) THEN Len(nd) + 1
                  ELSE IF /\ nd[at[f][j]].len > j /\ d = word[m + 1] /\ nd[a].to[d] = at[f][j]
                          /\ OnPath(m, at, h, j - 1, a)
                  THEN Len(nd) + 2 ELSE nd[a].to[d]
    <3>1. no[a].to[d] =
                  IF d = word[m + 1] /\ OnPath(m, at, j, m, a) THEN Len(nd) + 1
                  ELSE IF /\ nd[at[f][j]].len > j /\ d = word[m + 1] /\ nd[a].to[d] = at[f][j]
                          /\ OnPath(m, at, g, j - 1, a)
                  THEN Len(nd) + 2 ELSE nd[a].to[d]
      BY ONLY <1>5 DEF StepsFrom
    <3>2. nx[a].to[d] = IF a = x /\ d = w THEN Len(nd) + 2 ELSE no[a].to[d]
      BY ONLY <1>21, <1>22
    <3>3. CASE a = x
      BY ONLY <1>5, <1>7, <1>10, <1>11, <2>1, <3>1, <3>2, <3>3
    <3>4. CASE a # x
      BY ONLY <2>1, <3>1, <3>2, <3>4
    <3> QED BY <3>3, <3>4
  <2>3. \A d \in {0, 1} : nx[Len(nd) + 1].to[d] = no[Len(nd) + 1].to[d]
                          /\ nx[Len(nd) + 2].to[d] = no[Len(nd) + 2].to[d]
    BY ONLY <1>21, <1>22
  <2>4. \A d \in {0, 1} :
          /\ no[Len(nd) + 1].to[d] = Null
          /\ nd[at[f][j]].len > j =>
              no[Len(nd) + 2].to[d] =
                IF d = word[m + 1] /\ OnPath(m, at, j, m, at[f][j]) THEN Len(nd) + 1
                ELSE nd[at[f][j]].to[d]
    BY ONLY <1>5 DEF StepsFrom
  <2> QED BY ONLY <2>2, <2>3, <2>4 DEF StepsFrom
<1>25. Automaton(added, nd, at)'
  BY <1>3, <1>4, Carry
<1>26. StandsAt(nd, at, h)'
  <2>1. p' = IF h = 0 THEN Null ELSE at[m][h - 1]
    BY ONLY <1>3, <1>13, <1>16
  <2>2. h > 0 => nd[at[m][h - 1]].len = h - 1
    BY ONLY <1>16
  <2> QED BY ONLY <1>3, <2>1, <2>2 DEF StandsAt
<1>27. RedirectedFrom(nd, at, f, j, h)'
  <2>1. nodes' = nx /\ added' = m /\ word' = word
    BY ONLY <1>2, <1>3
  <2>2. Repeats(added, nd, at, f, j)'
    BY ONLY <1>5, <2>1 DEF Repeats, Same
  <2>3. NewLens(added, nd, at, f, j, nodes)'
    BY ONLY <1>23, <2>1 DEF NewLens
  <2>4. StepsFrom(added, nd, at, f, j, h, nodes)'
    BY ONLY <1>24, <2>1, StepsFromStays
  <2> QED BY ONLY <1>3, <1>5, <1>16, <2>2, <2>3, <2>4 DEF RedirectedFrom
<1>28. pc' = "redirect" => \E dd, aa, ff, jj, gg :
          /\ Automaton(added, dd, aa)' /\ RedirectedFrom(dd, aa, ff, jj, gg)'
          /\ StandsAt(dd, aa, gg)' /\ Len(dd) <= NodeBound(added')
  BY ONLY <1>3, <1>4, <1>25, <1>26, <1>27
<1> QED BY ONLY <1>3, <1>28 DEF BuildInv

(* Where the character after m leads from the suffixes that it repeats. *)
LEMMA WayOn ==
    ASSUME NEW m, NEW nd, NEW at, Automaton(m, nd, at), NEW f, NEW j, Repeats(m, nd, at, f, j),
           NEW l \in 0..j - 1
    PROVE  nd[at[m][l]].to[word[m + 1]] = at[f][l + 1]
<1>1. m \in Nat /\ f \in 0..m /\ j \in 0..f /\ j \in Nat /\ f \in Nat /\ Same(m + 1, f, j)
  BY TurnFacts DEF Repeats
<1>2. f - 1 \in Nat /\ f - 1 \in 0..m - 1 /\ f - 1 \in 0..m /\ m \in 0..m /\ l \in 0..f - 1 /\ l \in Nat
      /\ l \in 0..m /\ l + 1 \in 0..j /\ (f - 1) + 1 = f
  BY <1>1
<1>3. Same(m + 1, f, l + 1)
  BY <1>1, <1>2, SameFacts
<1>4. Same(m, f - 1, l) /\ word[m + 1] = word[f]
  <2>1. Same(m + 1, (f - 1) + 1, l + 1)
    BY <1>2, <1>3
  <2>2. Same(m, f - 1, l) /\ word[m + 1] = word[(f - 1) + 1]
    BY ONLY <1>1, <1>2, <2>1, OneBack
  <2> QED BY <1>2, <2>2
<1>5. at[m][l] = at[f - 1][l]
  <2>1. l <= f - 1
    BY <1>2
  <2> QED BY ONLY Automaton(m, nd, at), <1>2, <1>4, <2>1 DEF Automaton, SameState
<1>6. nd[at[f - 1][l]].to[word[(f - 1) + 1]] = at[(f - 1) + 1][l + 1]
  BY ONLY Automaton(m, nd, at), <1>2 DEF Automaton, Steps
<1> QED BY <1>2, <1>4, <1>5, <1>6

LEMMA EndRedirectOK ==
    ASSUME pc = "redirect", BuildInv, EndRedirect
    PROVE  BuildInv'
<1>1. PICK nd, at, f, j, g : /\ Automaton(added, nd, at) /\ RedirectedFrom(nd, at, f, j, g)
                             /\ StandsAt(nd, at, g) /\ Len(nd) <= NodeBound(added)
  BY DEF BuildInv
<1>2. PICK m, w, x, nx : m = added /\ w = C /\ x = p /\ nx = nodes
  OBVIOUS
<1>3. /\ nodes' = nx /\ word' = word /\ added' = m + 1 /\ last' = last /\ pc' = "add"
      /\ x # Null => nx[x].to[w] # q
  BY <1>2 DEF EndRedirect, Target
<1>4. Automaton(m, nd, at) /\ Len(nd) <= NodeBound(m)
  BY <1>1, <1>2
<1>5. /\ Repeats(m, nd, at, f, j) /\ g \in 0..j /\ nd[at[f][j]].len > j /\ j > 0
      /\ q = at[f][j] /\ last = Len(nd) + 1
      /\ NewLens(m, nd, at, f, j, nx) /\ StepsFrom(m, nd, at, f, j, g, nx)
  BY <1>1, <1>2 DEF RedirectedFrom
<1>6. /\ m \in Nat /\ f \in 0..m /\ j \in 0..f /\ j \in Nat /\ f \in Nat /\ m \in 0..m
      /\ Len(nd) \in Nat \ {0}
  BY <1>4, <1>5, TurnFacts
<1>7. w = word[m + 1]
  BY <1>2 DEF C
<1>8. ASSUME NEW l \in 0..g - 1 PROVE nd[at[m][l]].to[w] # q
  <2> SUFFICES ASSUME nd[at[m][l]].to[w] = q PROVE FALSE
    OBVIOUS
  <2>1. g \in Nat \ {0} /\ g - 1 \in 0..m /\ g - 1 \in 0..j - 1 /\ l \in 0..j - 1 /\ (g - 1) + 1 = g
    BY <1>5, <1>6
  <2>2. x = at[m][g - 1] /\ nd[x].len = g - 1
    BY <1>1, <1>2, <2>1 DEF StandsAt
  <2>3. x \in 1..Len(nd) /\ x # Null
    <3>1. x \in 1..Len(nd)
      BY <1>4, <1>6, <2>1, <2>2, StateFacts
    <3> QED BY <3>1 DEF Null
  <2>4. ~ OnPath(m, at, j, m, x) /\ ~ OnPath(m, at, g, j - 1, x)
    <3>1. ASSUME NEW k \in g..m, at[m][k] = x PROVE FALSE
      <4>1. k \in 0..m /\ k \in Nat
        BY <1>6, <2>1
      <4>2. nd[x].len \in k..m
        BY <1>4, <1>6, <3>1, <4>1, StateFacts
      <4> QED BY <1>6, <2>1, <2>2, <4>1, <4>2
    <3>2. j..m \subseteq g..m /\ g..j - 1 \subseteq g..m
      BY <1>5, <1>6, <2>1
    <3> QED BY <3>1, <3>2 DEF OnPath
  <2>5. nx[x].to[w] = nd[x].to[w]
    <3>1. w \in {0, 1}
      <4>1. word \in Seq({0, 1}) /\ m + 1 \in 1..Len(word)
        BY <1>4, <1>5, <1>6 DEF Automaton, Repeats
      <4> QED BY <1>7, <4>1, ElementOfSeq
    <3> QED BY ONLY <1>5, <1>7, <2>3, <2>4, <3>1 DEF StepsFrom
  <2>6. nd[at[m][g - 1]].to[w] = at[f][g] /\ nd[at[m][l]].to[w] = at[f][l + 1]
    <3>1. nd[at[m][g - 1]].to[w] = at[f][(g - 1) + 1]
      BY <1>4, <1>5, <1>7, <2>1, WayOn
    <3>2. nd[at[m][l]].to[w] = at[f][l + 1]
      BY <1>4, <1>5, <1>7, <2>1, WayOn
    <3> QED BY <2>1, <3>1, <3>2
  <2>7. at[f][l + 1] = at[f][j] /\ g \in l + 1..j /\ l + 1 \in 0..f
    BY <1>5, <1>6, <2>1, <2>6
  <2>8. at[f][g] = at[f][l + 1]
    BY ONLY <1>4, <1>6, <2>7, Between
  <2> QED BY <1>3, <1>5, <2>2, <2>3, <2>5, <2>6, <2>7, <2>8
<1>9. NewSteps(m, nd, at, f, j, nx)
  <2>1. ASSUME NEW a, nd[a].to[w] = q
        PROVE  OnPath(m, at, 0, j - 1, a) <=> OnPath(m, at, g, j - 1, a)
    <3>1. 0..j - 1 = (0..g - 1) \cup (g..j - 1)
      BY <1>5, <1>6
    <3>2. \A l \in 0..g - 1 : at[m][l] # a
      BY <1>8, <2>1
    <3> QED BY ONLY <3>1, <3>2 DEF OnPath
  <2>2. ASSUME NEW d \in {0, 1}, NEW a \in 1..Len(nd)
        PROVE  nx[a].to[d] =
                  IF d = word[m + 1] /\ OnPath(m, at, j, m, a) THEN Len(nd) + 1
                  ELSE IF /\ nd[at[f][j]].len > j /\ d = word[m + 1] /\ nd[a].to[d] = at[f][j]
                          /\ OnPath(m, at, 0, j - 1, a)
                  THEN Len(nd) + 2 ELSE nd[a].to[d]
    <3>1. nx[a].to[d] =
                  IF d = word[m + 1] /\ OnPath(m, at, j, m, a) THEN Len(nd) + 1
                  ELSE IF /\ nd[at[f][j]].len > j /\ d = word[m + 1] /\ nd[a].to[d] = at[f][j]
                          /\ OnPath(m, at, g, j - 1, a)
                  THEN Len(nd) + 2 ELSE nd[a].to[d]
      BY ONLY <1>5 DEF StepsFrom
    <3>2. d = word[m + 1] /\ nd[a].to[d] = at[f][j] =>
              (OnPath(m, at, 0, j - 1, a) <=> OnPath(m, at, g, j - 1, a))
      BY ONLY <1>5, <1>7, <2>1
    <3> QED BY ONLY <3>1, <3>2
  <2>3. \A d \in {0, 1} :
          /\ nx[Len(nd) + 1].to[d] = Null
          /\ nd[at[f][j]].len > j =>
              nx[Len(nd) + 2].to[d] =
                IF d = word[m + 1] /\ OnPath(m, at, j, m, at[f][j]) THEN Len(nd) + 1
                ELSE nd[at[f][j]].to[d]
    BY ONLY <1>5 DEF StepsFrom
  <2> QED BY ONLY <2>2, <2>3 DEF NewSteps
<1>10. last' = Len(nd) + 1 /\ pc' \notin {"fill", "redirect"}
  BY <1>3, <1>5
<1> QED BY ONLY <1>3, <1>4, <1>5, <1>9, <1>10, TurnEnds

LEMMA BuildStart ==
    ASSUME StartsEmpty, word \in Seq({0, 1})
    PROVE  BuildInv
<1> DEFINE at == [e \in {0} |-> [l \in {0} |-> Root]]
<1>1. /\ added = 0 /\ nodes = <<NewNode>> /\ last = Root /\ pc = "add" /\ Len(nodes) = 1
      /\ NewNode \in [to : [{0, 1} -> Nat], link : Nat, len : Nat]
      /\ nodes \in Seq([to : [{0, 1} -> Nat], link : Nat, len : Nat])
  BY DEF StartsEmpty, NewNode, Null
<1>2. /\ nodes[Root].len = 0 /\ nodes[Root].link = Null /\ \A c \in {0, 1} : nodes[Root].to[c] = Null
      /\ \A v \in 1..Len(nodes) : v = Root
  BY <1>1 DEF NewNode, Root, Null
<1>3. NodesOK(nodes)
  BY <1>1, <1>2 DEF NodesOK, Null
<1>4. 0..0 = {0} /\ 1..0 = {} /\ 0..0 - 1 = {} /\ 0 + 1..0 = {}
  OBVIOUS
<1>5. at[0][0] = Root /\ \A e \in 0..0 : \A l \in 0..e : e = 0 /\ l = 0 /\ at[e][l] = Root
  BY <1>4
<1> HIDE DEF at
<1>6. \A e, f, l : l = 0 => Same(e, f, l)
  BY DEF Same
<1>7. StateThere(0, nodes, at) /\ SameState(0, at) /\ SuffixOfOther(0, at)
  <2>1. StateThere(0, nodes, at)
    BY <1>1, <1>5 DEF StateThere, Root
  <2>2. SameState(0, at)
    BY <1>4, <1>5 DEF SameState
  <2>3. SuffixOfOther(0, at)
    BY <1>4, <1>5, <1>6 DEF SuffixOfOther
  <2> QED BY <2>1, <2>2, <2>3
<1>8. Lengths(0, nodes, at) /\ Links(0, nodes, at)
  <2>1. Lengths(0, nodes, at)
    BY <1>2, <1>4, <1>5 DEF Lengths, LengthAt, Shortest
  <2>2. Links(0, nodes, at)
    BY <1>4, <1>5 DEF Links
  <2> QED BY <2>1, <2>2
<1>9. Distinct(0, nodes, at)
  BY <1>2, <1>5 DEF Distinct
<1>10. Steps(0, nodes, at) /\ OnlySteps(0, nodes, at)
  <2>1. Steps(0, nodes, at)
    BY <1>4 DEF Steps
  <2>2. OnlySteps(0, nodes, at)
    BY <1>2 DEF OnlySteps
  <2> QED BY <2>1, <2>2
<1>11. word \in Seq({0, 1}) /\ 0 \in 0..Len(word)
  OBVIOUS
<1>12. Automaton(added, nodes, at)
  BY ONLY <1>1, <1>3, <1>7, <1>8, <1>9, <1>10, <1>11 DEF Automaton
<1>13. last = at[added][added] /\ Len(nodes) <= NodeBound(added)
  BY <1>1, <1>5 DEF NodeBound
<1>14. \E aa : Automaton(added, nodes, aa) /\ last = aa[added][added] /\ Len(nodes) <= NodeBound(added)
  BY ONLY <1>12, <1>13
<1> QED BY ONLY <1>1, <1>14 DEF BuildInv

LEMMA BuildGoesOn ==
    ASSUME BuildInv, AddCharacters
    PROVE  BuildInv'
<1>1. CASE Add
  BY <1>1, AddOK DEF Add
<1>2. CASE Fill
  BY <1>2, FillOK DEF Fill
<1>3. CASE LinkToRoot
  BY <1>3, LinkToRootOK DEF LinkToRoot
<1>4. CASE LinkToTarget
  BY <1>4, LinkToTargetOK DEF LinkToTarget
<1>5. CASE CloneTarget
  BY <1>5, CloneTargetOK DEF CloneTarget
<1>6. CASE Redirect
  BY <1>6, RedirectOK DEF Redirect
<1>7. CASE EndRedirect
  BY <1>7, EndRedirectOK DEF EndRedirect
<1> QED BY <1>1, <1>2, <1>3, <1>4, <1>5, <1>6, <1>7 DEF AddCharacters

LEMMA BuildStays ==
    ASSUME BuildInv, UNCHANGED <<word, build>>,
           pc' = pc \/ (pc \notin {"fill", "redirect"} /\ pc' \notin {"fill", "redirect"})
    PROVE  BuildInv'
<1>1. /\ word' = word /\ added' = added /\ nodes' = nodes /\ last' = last /\ p' = p /\ q' = q
  BY DEF build
<1>2. \A e, f, l : Same(e, f, l)' <=> Same(e, f, l)
  BY <1>1 DEF Same
<1>3. ASSUME NEW nd, NEW at, Automaton(added, nd, at)
      PROVE  Automaton(added, nd, at)' /\ (nodes' = nd => Automaton(added, nodes, at)')
  <2>1. PICK m : m = added
    OBVIOUS
  <2> QED BY ONLY <1>1, <1>3, <2>1, Carry
<1>4. CASE pc \notin {"fill", "redirect"}
  <2>1. PICK at : Automaton(added, nodes, at) /\ last = at[added][added] /\ Len(nodes) <= NodeBound(added)
    BY <1>4 DEF BuildInv
  <2>2. PICK nd : nd = nodes
    OBVIOUS
  <2>3. Automaton(added, nodes, at)'
    BY ONLY <1>1, <1>3, <2>1, <2>2
  <2>4. last' = at[added'][added'] /\ Len(nodes') <= NodeBound(added')
    BY ONLY <1>1, <2>1
  <2>5. pc' \notin {"fill", "redirect"}
    BY <1>4
  <2>6. \E aa : Automaton(added, nodes, aa)' /\ last' = aa[added'][added'] /\ Len(nodes') <= NodeBound(added')
    BY ONLY <2>3, <2>4
  <2> QED BY ONLY <2>5, <2>6 DEF BuildInv
<1>5. CASE pc = "fill"
  <2>1. PICK nd, at, g : /\ Automaton(added, nd, at) /\ FilledFrom(nd, at, g) /\ StandsAt(nd, at, g)
                         /\ Len(nd) <= NodeBound(added)
    BY <1>5 DEF BuildInv
  <2>2. Automaton(added, nd, at)'
    BY <1>3, <2>1
  <2>3. FilledFrom(nd, at, g)' /\ StandsAt(nd, at, g)' /\ Len(nd) <= NodeBound(added')
    BY ONLY <1>1, <2>1 DEF FilledFrom, StandsAt, C, OnPath, NewNode, Null
  <2>4. pc' = "fill"
    BY <1>5
  <2> QED BY ONLY <2>2, <2>3, <2>4 DEF BuildInv
<1>6. CASE pc = "redirect"
  <2>1. PICK nd, at, f, j, g : /\ Automaton(added, nd, at) /\ RedirectedFrom(nd, at, f, j, g)
                               /\ StandsAt(nd, at, g) /\ Len(nd) <= NodeBound(added)
    BY <1>6 DEF BuildInv
  <2>2. Automaton(added, nd, at)'
    BY <1>3, <2>1
  <2>3. StandsAt(nd, at, g)' /\ Len(nd) <= NodeBound(added')
    BY ONLY <1>1, <2>1 DEF StandsAt
  <2>4. RedirectedFrom(nd, at, f, j, g)'
    BY ONLY <1>1, <2>1 DEF RedirectedFrom, Repeats, Same, NewLens, StepsFrom, OnPath
  <2>5. pc' = "redirect"
    BY <1>6
  <2> QED BY ONLY <2>2, <2>3, <2>4, <2>5 DEF BuildInv
<1> QED BY <1>4, <1>5, <1>6
-----------------------------------------------------------------------------
(* SuffAut. *)
Mirrored == text \in Texts /\ word = Reverse(text)

LEMMA ReverseFacts ==
    ASSUME NEW s \in Seq({0, 1})
    PROVE  /\ Reverse(s) \in Seq({0, 1}) /\ Len(Reverse(s)) = Len(s)
           /\ \A k \in 1..Len(s) : Reverse(s)[k] = s[(Len(s) - k) + 1]
<1>1. \A k \in 1..Len(s) : (Len(s) - k) + 1 \in 1..Len(s)
  OBVIOUS
<1>2. \A k \in 1..Len(s) : s[(Len(s) - k) + 1] \in {0, 1}
  BY <1>1, ElementOfSeq
<1>3. Reverse(s) = [k \in 1..Len(s) |-> s[(Len(s) - k) + 1]]
  BY DEF Reverse
<1>4. Reverse(s) \in [1..Len(s) -> {0, 1}] /\ Len(s) \in Nat
  BY <1>2, <1>3
<1> QED BY <1>3, <1>4

LEMMA SuffAutStep ==
    ASSUME BuildInv, Mirrored, [Next]_vars
    PROVE  BuildInv' /\ Mirrored'
<1>1. CASE Build
  BY <1>1, BuildGoesOn DEF Build, Mirrored, AddCharacters, Add, Fill, LinkToRoot, LinkToTarget,
     LinkTo, CloneTarget, Redirect, EndRedirect
<1>2. CASE ~ Build
  <2>1. /\ UNCHANGED <<text, word, build>>
        /\ pc' = pc \/ (pc \notin {"fill", "redirect"} /\ pc' \notin {"fill", "redirect"})
    BY <1>2 DEF Next, PrepareMatches, GetMatch, StartSuffix, Climb, EndSuffix, Return, Take, Skip,
       Done, vars, query, build
  <2>2. text' = text /\ word' = word /\ UNCHANGED <<word, build>>
    BY <2>1
  <2> QED BY <2>1, <2>2, BuildStays DEF Mirrored
<1> QED BY <1>1, <1>2

LEMMA SuffAutStart ==
    ASSUME Init
    PROVE  BuildInv /\ Mirrored
<1>1. word \in Seq({0, 1})
  BY SuffAutAssumption, ReverseFacts DEF Init
<1> QED BY <1>1, BuildStart DEF Init, Mirrored

(* Within add_c and between two characters the nodes are those of an automaton
   of the characters so far, less the links and steps that the loops of add_c
   have still to set: the invariant from which the others follow. *)
THEOREM BuildInvariant == Spec => [](BuildInv /\ Mirrored)
BY SuffAutStart, SuffAutStep, PTL DEF Spec
-----------------------------------------------------------------------------
(* The words that have been read, each as the last l characters up to e. *)
Piece(e, l) == SubSeq(word, (e - l) + 1, e)

LEMMA PieceFacts ==
    ASSUME word \in Seq({0, 1}), NEW e \in 0..Len(word), NEW l \in 0..e
    PROVE  /\ Piece(e, l) \in Seq({0, 1}) /\ Len(Piece(e, l)) = l
           /\ \A k \in 1..l : Piece(e, l)[k] = word[(e - l) + k]
<1>1. e - l \in Nat /\ e \in Nat /\ e - l <= e /\ e <= Len(word) /\ e - (e - l) = l
  OBVIOUS
<1>2. /\ SubSeq(word, (e - l) + 1, e) \in Seq({0, 1})
      /\ Len(SubSeq(word, (e - l) + 1, e)) = e - (e - l)
      /\ \A k \in 1..e - (e - l) : SubSeq(word, (e - l) + 1, e)[k] = word[(e - l) + k]
  BY <1>1, CutAt
<1> QED BY <1>1, <1>2 DEF Piece

LEMMA PiecesSame ==
    ASSUME word \in Seq({0, 1}), NEW e \in 0..Len(word), NEW f \in 0..Len(word), NEW l \in 0..e, l <= f
    PROVE  Piece(e, l) = Piece(f, l) <=> Same(e, f, l)
<1>0. l \in 0..f /\ e \in Nat /\ f \in Nat /\ l \in Nat
  OBVIOUS
<1>1. /\ Piece(e, l) \in Seq({0, 1}) /\ Len(Piece(e, l)) = l
      /\ \A k \in 1..l : Piece(e, l)[k] = word[(e - l) + k]
  BY PieceFacts
<1>2. /\ Piece(f, l) \in Seq({0, 1}) /\ Len(Piece(f, l)) = l
      /\ \A k \in 1..l : Piece(f, l)[k] = word[(f - l) + k]
  BY <1>0, PieceFacts
<1>3. ASSUME Piece(e, l) = Piece(f, l), NEW k \in 0..l - 1 PROVE word[e - k] = word[f - k]
  <2>1. l - k \in 1..l /\ (e - l) + (l - k) = e - k /\ (f - l) + (l - k) = f - k
    BY <1>0
  <2> QED BY <1>1, <1>2, <1>3, <2>1
<1>4. ASSUME Same(e, f, l) PROVE Piece(e, l) = Piece(f, l)
  <2>1. ASSUME NEW k \in 1..l PROVE word[(e - l) + k] = word[(f - l) + k]
    <3>1. l - k \in 0..l - 1 /\ e - (l - k) = (e - l) + k /\ f - (l - k) = (f - l) + k
      BY <1>0
    <3>2. word[e - (l - k)] = word[f - (l - k)]
      BY <1>4, <3>1 DEF Same
    <3> QED BY <3>1, <3>2
  <2>2. \A k \in 1..Len(Piece(e, l)) : Piece(e, l)[k] = Piece(f, l)[k]
    BY <1>1, <1>2, <2>1
  <2> QED BY ONLY <1>1, <1>2, <2>2, SeqEqual
<1> QED BY <1>3, <1>4 DEF Same

LEMMA ReadPiece ==
    ASSUME word \in Seq({0, 1}), added \in 0..Len(word), NEW a \in Nat, NEW b \in 0..added, a <= b
    PROVE  SubSeq(Read, a + 1, b) = Piece(b, b - a)
<1>0. added \in Nat /\ b \in Nat /\ b - a \in 0..b /\ b \in 0..Len(word) /\ b - (b - a) = a /\ 0 <= added
  OBVIOUS
<1>1. /\ Read \in Seq({0, 1}) /\ Len(Read) = added
      /\ \A k \in 1..added : Read[k] = word[k]
  <2>1. /\ SubSeq(word, 0 + 1, added) \in Seq({0, 1})
        /\ Len(SubSeq(word, 0 + 1, added)) = added - 0
        /\ \A k \in 1..added - 0 : SubSeq(word, 0 + 1, added)[k] = word[0 + k]
    BY <1>0, CutAt
  <2>2. 0 + 1 = 1 /\ added - 0 = added /\ \A k \in 1..added : 0 + k = k
    BY <1>0
  <2> QED BY <2>1, <2>2 DEF Read
<1>2. /\ SubSeq(Read, a + 1, b) \in Seq({0, 1})
      /\ Len(SubSeq(Read, a + 1, b)) = b - a
      /\ \A k \in 1..b - a : SubSeq(Read, a + 1, b)[k] = Read[a + k]
  <2>1. b <= Len(Read)
    BY <1>0, <1>1
  <2> QED BY <1>0, <1>1, <2>1, CutAt
<1>3. /\ Piece(b, b - a) \in Seq({0, 1}) /\ Len(Piece(b, b - a)) = b - a
      /\ \A k \in 1..b - a : Piece(b, b - a)[k] = word[a + k]
  BY <1>0, PieceFacts
<1>4. \A k \in 1..b - a : a + k \in 1..added
  BY <1>0
<1>5. \A k \in 1..Len(SubSeq(Read, a + 1, b)) : SubSeq(Read, a + 1, b)[k] = Piece(b, b - a)[k]
  BY <1>1, <1>2, <1>3, <1>4
<1> QED BY ONLY <1>2, <1>3, <1>5, SeqEqual

LEMMA WordsArePieces ==
    ASSUME word \in Seq({0, 1}), added \in 0..Len(word)
    PROVE  /\ \A e \in 0..added : \A l \in 0..e : Piece(e, l) \in Words
           /\ \A w \in Words : \E e \in 0..added : \E l \in 0..e : w = Piece(e, l)
<1>0. added \in Nat /\ Len(Read) = added
  <2>1. Len(SubSeq(word, 1, added)) = added
    <3>1. 0 \in Nat /\ added \in Nat /\ 0 <= added /\ added <= Len(word)
      OBVIOUS
    <3>2. Len(SubSeq(word, 0 + 1, added)) = added - 0
      BY <3>1, CutAt
    <3> QED BY <3>1, <3>2
  <2> QED BY <2>1 DEF Read
<1>1. Words = {SubSeq(Read, a + 1, b) : a, b \in 0..added}
  BY <1>0 DEF Words, SubSeqs
<1>w. /\ \A a, b \in 0..added : SubSeq(Read, a + 1, b) \in Words
      /\ \A w \in Words : \E a, b \in 0..added : w = SubSeq(Read, a + 1, b)
  <2>1. ASSUME NEW a \in 0..added, NEW b \in 0..added PROVE SubSeq(Read, a + 1, b) \in Words
    BY ONLY <1>1, SMT
  <2>2. ASSUME NEW w \in Words PROVE \E a, b \in 0..added : w = SubSeq(Read, a + 1, b)
    BY ONLY <1>1, SMT
  <2> QED BY ONLY <2>1, <2>2
<1>2. ASSUME NEW e \in 0..added, NEW l \in 0..e PROVE Piece(e, l) \in Words
  <2>1. e - l \in Nat /\ e - l \in 0..added /\ e - l <= e /\ e - (e - l) = l
    BY <1>0
  <2>2. SubSeq(Read, (e - l) + 1, e) = Piece(e, l)
    BY <2>1, ReadPiece
  <2>3. e \in 0..added
    OBVIOUS
  <2> QED BY ONLY <1>w, <2>1, <2>2, <2>3
<1>3. ASSUME NEW w \in Words PROVE \E e \in 0..added : \E l \in 0..e : w = Piece(e, l)
  <2>1. PICK a \in 0..added, b \in 0..added : w = SubSeq(Read, a + 1, b)
    BY ONLY <1>w, <1>3
  <2>2. CASE a <= b
    <3>1. w = Piece(b, b - a)
      <4>1. a \in Nat
        BY <1>0
      <4>2. SubSeq(Read, a + 1, b) = Piece(b, b - a)
        BY <2>2, <4>1, ReadPiece
      <4> QED BY <2>1, <4>2
    <3>2. b - a \in 0..b
      BY <1>0, <2>2
    <3> QED BY <3>1, <3>2
  <2>3. CASE ~ (a <= b)
    <3>1. w = << >>
      BY <2>1, <2>3, <1>0, SubSeqEmpty
    <3>2. Piece(0, 0) = << >> /\ 0 \in 0..0 /\ 0 \in 0..added
      BY <1>0, SubSeqEmpty DEF Piece
    <3> QED BY <3>1, <3>2
  <2> QED BY <1>0, <2>2, <2>3
<1> QED BY <1>2, <1>3

LEMMA EndsOfPiece ==
    ASSUME word \in Seq({0, 1}), added \in 0..Len(word), NEW e \in 0..added, NEW l \in 0..e, NEW f
    PROVE  f \in Ends(Piece(e, l)) <=> f \in l..added /\ Same(f, e, l)
<1>0. added \in Nat /\ e \in Nat /\ l \in Nat /\ Len(Piece(e, l)) = l /\ e \in 0..Len(word)
  <2>1. e \in 0..Len(word)
    OBVIOUS
  <2> QED BY <2>1, PieceFacts
<1>1. Ends(Piece(e, l)) = {g \in l..added : SubSeq(Read, (g - l) + 1, g) = Piece(e, l)}
  BY <1>0 DEF Ends
<1>2. ASSUME NEW g \in l..added PROVE SubSeq(Read, (g - l) + 1, g) = Piece(e, l) <=> Same(g, e, l)
  <2>1. g - l \in Nat /\ g \in 0..added /\ g - l <= g /\ g - (g - l) = l /\ g \in 0..Len(word) /\ l \in 0..g /\ l <= e
    BY <1>0
  <2>2. SubSeq(Read, (g - l) + 1, g) = Piece(g, l)
    BY <2>1, ReadPiece
  <2>3. Piece(g, l) = Piece(e, l) <=> Same(g, e, l)
    BY ONLY word \in Seq({0, 1}), <1>0, <2>1, PiecesSame
  <2> QED BY <2>2, <2>3
<1> QED BY <1>1, <1>2
-----------------------------------------------------------------------------
Run(r, w) ==
    /\ r \in [0..Len(w) -> 0..Len(nodes)] /\ r[0] = Root
    /\ \A k \in 1..Len(w) : r[k] = Down(r[k - 1], w[k])

LEMMA DownThere ==
    ASSUME NodesOK(nodes), NEW v \in 0..Len(nodes), NEW c \in {0, 1}
    PROVE  Down(v, c) \in 0..Len(nodes)
<1>1. CASE v = Null
  BY <1>1 DEF Down, Null, NodesOK
<1>2. CASE v # Null
  <2>1. v \in 1..Len(nodes)
    BY <1>2 DEF Null, NodesOK
  <2>2. nodes[v].to[c] \in 0..Len(nodes)
    BY <2>1, NodeFacts
  <2> QED BY <1>2, <2>2 DEF Down
<1> QED BY <1>1, <1>2

LEMMA StateRun ==
    ASSUME NodesOK(nodes), NEW w \in Seq({0, 1})
    PROVE  \E r : Run(r, w) /\ StateOf(w) = r[Len(w)]
<1> DEFINE Turned(r) == r = [k \in 0..Len(w) |-> IF k = 0 THEN Root ELSE Down(r[k - 1], w[k])]
<1>0. Len(w) \in Nat /\ Len(nodes) \in Nat \ {0}
  BY DEF NodesOK
<1>1. StateOf(w) = (CHOOSE r : Turned(r))[Len(w)]
  BY DEF StateOf
<1> DEFINE T == 0..Len(nodes)
           D == [x \in T \X Nat |-> IF x[2] + 1 \in 1..Len(w) THEN Down(x[1], w[x[2] + 1]) ELSE Null]
<1>2. \E r : Turned(r)
  <2>1. Root \in T
    BY <1>0 DEF Root
  <2>2. D \in [T \X Nat -> T]
    <3>1. ASSUME NEW x \in T \X Nat
          PROVE  (IF x[2] + 1 \in 1..Len(w) THEN Down(x[1], w[x[2] + 1]) ELSE Null) \in T
      <4>1. CASE x[2] + 1 \in 1..Len(w)
        <5>1. w[x[2] + 1] \in {0, 1} /\ x[1] \in 0..Len(nodes)
          BY <4>1, ElementOfSeq
        <5> QED BY <4>1, <5>1, DownThere
      <4>2. CASE x[2] + 1 \notin 1..Len(w)
        BY <1>0, <4>2 DEF Null
      <4> QED BY <4>1, <4>2
    <3> QED BY <3>1
  <2>3. Recursion(T, Root, D) # {}
    <3> HIDE DEF T, D
    <3> QED BY <2>1, <2>2, NatRecursion
  <2>4. PICK h \in [Nat -> T] : h[0] = Root /\ \A k \in Nat : h[k + 1] = D[<<h[k], k>>]
    <3> HIDE DEF T, D
    <3> QED BY <2>3 DEF Recursion
  <2> DEFINE r == [k \in 0..Len(w) |-> h[k]]
  <2>5. ASSUME NEW k \in 0..Len(w) PROVE r[k] = IF k = 0 THEN Root ELSE Down(r[k - 1], w[k])
    <3>1. CASE k = 0
      BY <2>4, <3>1
    <3>2. CASE k # 0
      <4>1. k - 1 \in Nat /\ k - 1 \in 0..Len(w) /\ (k - 1) + 1 = k /\ k \in 1..Len(w)
        BY <1>0, <3>2
      <4>2. h[k - 1] \in T
        BY <2>4, <4>1
      <4>3. h[(k - 1) + 1] = D[<<h[k - 1], k - 1>>]
        BY <2>4, <4>1
      <4>4. D[<<h[k - 1], k - 1>>] = Down(h[k - 1], w[k])
        BY <4>1, <4>2
      <4> QED BY <3>2, <4>1, <4>3, <4>4
    <3> QED BY <3>1, <3>2
  <2>6. Turned(r)
    <3>1. r = [k \in 0..Len(w) |-> r[k]]
      OBVIOUS
    <3> HIDE DEF r
    <3> QED BY <2>5, <3>1
  <2> QED BY <2>6
<1>3. PICK r : r = (CHOOSE x : Turned(x))
  OBVIOUS
<1>4. Turned(r)
  BY <1>2, <1>3
<1>5. /\ \A k \in 0..Len(w) : r[k] = IF k = 0 THEN Root ELSE Down(r[k - 1], w[k])
      /\ r = [k \in 0..Len(w) |-> r[k]]
  BY <1>4
<1>6. \A k \in 0..Len(w) : r[k] \in T
  <2> DEFINE S == {k \in Nat : k <= Len(w) => r[k] \in T}
  <2>1. 0 \in S
    <3>1. 0 \in 0..Len(w) /\ Root \in T
      BY <1>0 DEF Root
    <3>2. r[0] = Root
      BY ONLY <1>5, <3>1
    <3> QED BY ONLY <3>1, <3>2
  <2>2. ASSUME NEW k \in Nat, k \in S PROVE k + 1 \in S
    <3> SUFFICES ASSUME k + 1 <= Len(w) PROVE r[k + 1] \in T
      BY <2>2
    <3>1. k + 1 \in 0..Len(w) /\ k + 1 # 0 /\ (k + 1) - 1 = k /\ k + 1 \in 1..Len(w) /\ k <= Len(w)
      BY <1>0
    <3>2. r[k + 1] = Down(r[k], w[k + 1])
      BY <1>5, <3>1
    <3>3. r[k] \in 0..Len(nodes) /\ w[k + 1] \in {0, 1}
      BY <2>2, <3>1, ElementOfSeq
    <3> QED BY <3>2, <3>3, DownThere
  <2>3. Nat \subseteq S
    <3> HIDE DEF S
    <3> QED BY <2>1, <2>2, NatInduct
  <2> QED BY <1>0, <2>3
<1>7. r \in [0..Len(w) -> 0..Len(nodes)]
  <2> HIDE DEF T
  <2>1. r \in [0..Len(w) -> T]
    BY ONLY <1>5, <1>6
  <2> QED BY <2>1 DEF T
<1>8. \A k \in 1..Len(w) : k \in 0..Len(w) /\ k # 0
  BY <1>0
<1>9. Run(r, w)
  BY <1>0, <1>5, <1>7, <1>8 DEF Run
<1> QED BY <1>1, <1>3, <1>9

LEMMA RunsAgree ==
    ASSUME NEW w, NEW x, NEW r, NEW s, Run(r, w), Run(s, x), NEW l \in Nat, l <= Len(w), l <= Len(x),
           Len(w) \in Nat, Len(x) \in Nat, \A k \in 1..l : w[k] = x[k]
    PROVE  r[l] = s[l]
<1> DEFINE S == {k \in Nat : k <= l => r[k] = s[k]}
<1>1. 0 \in S
  BY DEF Run
<1>2. ASSUME NEW k \in Nat, k \in S PROVE k + 1 \in S
  <2> SUFFICES ASSUME k + 1 <= l PROVE r[k + 1] = s[k + 1]
    BY <1>2
  <2>1. k + 1 \in 1..l /\ k + 1 \in 1..Len(w) /\ k + 1 \in 1..Len(x) /\ (k + 1) - 1 = k /\ k <= l
    OBVIOUS
  <2>2. r[k + 1] = Down(r[k], w[k + 1]) /\ s[k + 1] = Down(s[k], x[k + 1])
    BY <2>1 DEF Run
  <2> QED BY <1>2, <2>1, <2>2
<1>3. Nat \subseteq S
  <2> HIDE DEF S
  <2> QED BY <1>1, <1>2, NatInduct
<1> QED BY <1>3

(* A longer word leads on from where its beginning leads. *)
LEMMA StateOfLonger ==
    ASSUME NodesOK(nodes), NEW w \in Seq({0, 1}), NEW c \in {0, 1}
    PROVE  StateOf(Append(w, c)) = Down(StateOf(w), c)
<1> DEFINE x == Append(w, c)
<1>1. /\ x \in Seq({0, 1}) /\ Len(x) = Len(w) + 1 /\ Len(w) \in Nat /\ Len(x) \in Nat
      /\ x[Len(w) + 1] = c /\ \A k \in 1..Len(w) : x[k] = w[k]
  BY PushFacts
<1> HIDE DEF x
<1>2. PICK r : Run(r, w) /\ StateOf(w) = r[Len(w)]
  BY StateRun
<1>3. PICK s : Run(s, x) /\ StateOf(x) = s[Len(x)]
  BY <1>1, StateRun
<1>4. r[Len(w)] = s[Len(w)]
  <2>1. Len(w) <= Len(w) /\ Len(w) <= Len(x)
    BY <1>1
  <2> QED BY <1>1, <1>2, <1>3, <2>1, RunsAgree
<1>5. s[Len(x)] = Down(s[Len(w)], c)
  <2>1. Len(x) \in 1..Len(x) /\ Len(x) - 1 = Len(w)
    BY <1>1
  <2> QED BY <1>1, <1>3, <2>1 DEF Run
<1>6. StateOf(x) = Down(StateOf(w), c)
  BY <1>2, <1>3, <1>4, <1>5
<1> QED BY <1>6 DEF x

LEMMA StateOfPiece ==
    ASSUME NEW at, Automaton(added, nodes, at), NEW e \in 0..added, NEW l \in 0..e
    PROVE  StateOf(Piece(e, l)) = at[e][l]
<1>0. word \in Seq({0, 1}) /\ added \in Nat /\ e \in 0..Len(word) /\ NodesOK(nodes) /\ l \in Nat /\ e \in Nat
  <2>1. word \in Seq({0, 1}) /\ added \in 0..Len(word) /\ NodesOK(nodes)
    BY DEF Automaton
  <2> QED BY <2>1
<1>1. /\ Piece(e, l) \in Seq({0, 1}) /\ Len(Piece(e, l)) = l
      /\ \A k \in 1..l : Piece(e, l)[k] = word[(e - l) + k]
  BY <1>0, PieceFacts
<1>2. PICK r : Run(r, Piece(e, l)) /\ StateOf(Piece(e, l)) = r[l]
  BY <1>0, <1>1, StateRun
<1> DEFINE S == {k \in Nat : k <= l => r[k] = at[(e - l) + k][k]}
<1>3. 0 \in S
  <2>1. (e - l) + 0 \in 0..added /\ 0 \in 0..(e - l) + 0
    BY <1>0
  <2>2. at[(e - l) + 0][0] = Root
    BY <2>1, StateFacts
  <2> QED BY <1>2, <2>2 DEF Run
<1>4. ASSUME NEW k \in Nat, k \in S PROVE k + 1 \in S
  <2> SUFFICES ASSUME k + 1 <= l PROVE r[k + 1] = at[(e - l) + (k + 1)][k + 1]
    BY <1>4
  <2>1. /\ k + 1 \in 1..l /\ (k + 1) - 1 = k /\ k <= l /\ (e - l) + k \in 0..added - 1
        /\ (e - l) + k \in 0..added /\ k \in 0..(e - l) + k
        /\ ((e - l) + k) + 1 = (e - l) + (k + 1)
    BY <1>0
  <2>2. r[k + 1] = Down(r[k], word[(e - l) + (k + 1)]) /\ r[k] = at[(e - l) + k][k]
    BY <1>1, <1>2, <1>4, <2>1 DEF Run
  <2>3. nodes[at[(e - l) + k][k]].to[word[((e - l) + k) + 1]] = at[((e - l) + k) + 1][k + 1]
    BY <2>1 DEF Automaton, Steps
  <2>4. at[(e - l) + k][k] \in 1..Len(nodes) /\ Len(nodes) \in Nat
    BY <2>1, StateFacts
  <2>5. at[(e - l) + k][k] # Null
    BY <2>4 DEF Null
  <2> QED BY <2>1, <2>2, <2>3, <2>5 DEF Down
<1>5. Nat \subseteq S
  <2> HIDE DEF S
  <2> QED BY <1>3, <1>4, NatInduct
<1>6. r[l] = at[(e - l) + l][l] /\ (e - l) + l = e
  BY <1>0, <1>5
<1> QED BY <1>2, <1>6
-----------------------------------------------------------------------------
LEMMA EndsTogether ==
    ASSUME NEW m, NEW nd, NEW at, Automaton(m, nd, at), NEW e \in 0..m, NEW l \in 0..e,
           NEW f \in 0..m, NEW k \in 0..f, at[e][l] = at[f][k], NEW g \in l..m, Same(g, e, l)
    PROVE  g \in k..m /\ Same(g, f, k)
<1>0. m \in Nat /\ e \in Nat /\ f \in Nat /\ l \in Nat /\ k \in Nat /\ g \in 0..m /\ g \in Nat /\ l \in 0..g
  <2>1. m \in Nat
    BY DEF Automaton
  <2> QED BY <2>1
<1>1. at[g][l] = at[f][k]
  <2>1. at[g][l] = at[e][l]
    BY <1>0 DEF Automaton, SameState
  <2> QED BY <2>1
<1>2. /\ nd[at[f][k]].len \in k..f /\ Shortest(nd, at[f][k]) \in 0..k
  BY DEF Automaton, Lengths, LengthAt
<1>3. /\ nd[at[g][l]].len \in l..g
      /\ \A h \in Shortest(nd, at[g][l])..nd[at[g][l]].len : at[g][h] = at[g][l]
  BY <1>0 DEF Automaton, Lengths, LengthAt
<1>4. k \in Shortest(nd, at[g][l])..nd[at[g][l]].len /\ k <= g
  BY ONLY <1>0, <1>1, <1>2, <1>3
<1>5. at[g][k] = at[f][k]
  BY ONLY <1>1, <1>3, <1>4
<1>6. k \in 0..g /\ k <= k
  BY ONLY <1>0, <1>4
<1>7. Same(g, f, k)
  BY <1>0, <1>5, <1>6 DEF Automaton, SuffixOfOther
<1> QED BY <1>0, <1>4, <1>7

EndAlike(m, e, l, f, k) ==
    \A g : (g \in l..m /\ Same(g, e, l)) <=> (g \in k..m /\ Same(g, f, k))

LEMMA AlikeOneState ==
    ASSUME NEW m, NEW nd, NEW at, Automaton(m, nd, at), NEW e \in 0..m, NEW l \in 0..e,
           NEW f \in 0..m, NEW k \in 0..f, l <= k, EndAlike(m, e, l, f, k)
    PROVE  at[e][l] = at[f][k]
<1> DEFINE v == at[e][l]
           L == nd[v].len
<1>0. m \in Nat /\ e \in Nat /\ f \in Nat /\ l \in Nat /\ k \in Nat /\ l \in 0..f /\ f \in k..m
  <2>1. m \in Nat
    BY DEF Automaton
  <2> QED BY <2>1
<1>1. Same(f, e, l)
  <2>1. Same(f, f, k)
    BY DEF Same
  <2> QED BY <1>0, <2>1 DEF EndAlike
<1>2. at[f][l] = v
  <2>1. l <= e /\ l <= f
    BY <1>0
  <2> QED BY <1>0, <1>1, <2>1 DEF Automaton, SameState
<1>3. v \in 1..Len(nd) /\ L \in l..e /\ L \in Nat /\ L \in l..f
  <2>1. v \in 1..Len(nd) /\ L \in l..e
    BY StateFacts
  <2>2. nd[at[f][l]].len \in l..f
    BY <1>0, StateFacts
  <2> QED BY <1>0, <1>2, <2>1, <2>2
<1> HIDE DEF v, L
<1>4. CASE k <= L
  <2>1. at[f][L] = v
    <3>1. at[f][nd[at[f][l]].len] = at[f][l]
      BY <1>0, LongestAt
    <3> QED BY <1>2, <3>1 DEF L
  <2>2. L \in 0..f /\ k \in l..L /\ at[f][l] = at[f][L]
    BY <1>0, <1>2, <1>3, <1>4, <2>1
  <2>3. at[f][k] = at[f][l]
    BY ONLY Automaton(m, nd, at), f \in 0..m, <1>0, <2>2, Between
  <2> QED BY <1>2, <2>3 DEF v
<1>5. CASE ~ (k <= L)
  <2>0. L \in Nat /\ L + 1 <= k /\ L <= k - 1 /\ L \in 0..k - 1
    BY <1>0, <1>3, <1>5
  <2>1. ASSUME NEW a \in 0..m, L <= a, at[a][L] = v PROVE a \in k..m /\ word[a - L] = word[f - L]
    <3>1. L \in 0..a /\ l <= L /\ a \in l..m
      BY <1>0, <1>3, <2>1
    <3>2. Same(e, a, l)
      BY <1>0, <2>1, <3>1 DEF Automaton, SuffixOfOther, v
    <3>3. Same(a, e, l)
      BY <1>0, <3>2, SameFacts
    <3>4. a \in k..m /\ Same(a, f, k)
      BY <3>1, <3>3 DEF EndAlike
    <3> QED BY <2>0, <3>4 DEF Same
  <2>2. \/ nd[v].len <= m /\ at[nd[v].len][nd[v].len] = v
        \/ \E a, b \in nd[v].len + 1..m :
            /\ at[a][nd[v].len] = v /\ at[b][nd[v].len] = v
            /\ word[a - nd[v].len] # word[b - nd[v].len]
    BY <1>3 DEF Automaton, Distinct
  <2>3. CASE L <= m /\ at[L][L] = v
    <3>1. L \in 0..m /\ L <= L
      BY <1>0, <1>3, <2>3
    <3>2. L \in k..m
      BY <2>1, <2>3, <3>1
    <3> QED BY <1>0, <2>0, <3>2
  <2>4. CASE \E a, b \in L + 1..m : at[a][L] = v /\ at[b][L] = v /\ word[a - L] # word[b - L]
    <3>1. PICK a \in L + 1..m, b \in L + 1..m : at[a][L] = v /\ at[b][L] = v /\ word[a - L] # word[b - L]
      BY <2>4
    <3>2. a \in 0..m /\ b \in 0..m /\ L <= a /\ L <= b
      BY <1>0, <1>3
    <3> QED BY <2>1, <3>1, <3>2
  <2> QED BY ONLY <2>2, <2>3, <2>4 DEF L
<1> QED BY <1>4, <1>5 DEF v

LEMMA AlikeBothWays ==
    ASSUME NEW m, NEW nd, NEW at, Automaton(m, nd, at), NEW e \in 0..m, NEW l \in 0..e,
           NEW f \in 0..m, NEW k \in 0..f
    PROVE  EndAlike(m, e, l, f, k) <=> at[e][l] = at[f][k]
<1>1. ASSUME EndAlike(m, e, l, f, k) PROVE at[e][l] = at[f][k]
  <2>1. CASE l <= k
    BY <1>1, <2>1, AlikeOneState
  <2>2. CASE ~ (l <= k)
    <3>1. k <= l
      <4>1. m \in Nat
        BY DEF Automaton
      <4> QED BY <2>2, <4>1
    <3>2. EndAlike(m, f, k, e, l)
      BY <1>1 DEF EndAlike
    <3>3. at[f][k] = at[e][l]
      BY <3>1, <3>2, AlikeOneState
    <3> QED BY <3>3
  <2> QED BY <2>1, <2>2
<1>2. ASSUME at[e][l] = at[f][k] PROVE EndAlike(m, e, l, f, k)
  <2>1. ASSUME NEW g, g \in l..m, Same(g, e, l) PROVE g \in k..m /\ Same(g, f, k)
    BY <1>2, <2>1, EndsTogether
  <2>2. ASSUME NEW g, g \in k..m, Same(g, f, k) PROVE g \in l..m /\ Same(g, e, l)
    BY <1>2, <2>2, EndsTogether
  <2> QED BY <2>1, <2>2 DEF EndAlike
<1> QED BY <1>1, <1>2

LEMMA EndsOfState ==
    ASSUME NEW at, Automaton(added, nodes, at), NEW e \in 0..added, NEW l \in 0..e,
           NEW f \in 0..added, NEW k \in 0..f
    PROVE  Ends(Piece(e, l)) = Ends(Piece(f, k)) <=> at[e][l] = at[f][k]
<1>0. word \in Seq({0, 1}) /\ added \in 0..Len(word)
  BY DEF Automaton
<1>1. \A g : g \in Ends(Piece(e, l)) <=> g \in l..added /\ Same(g, e, l)
  BY <1>0, EndsOfPiece
<1>2. \A g : g \in Ends(Piece(f, k)) <=> g \in k..added /\ Same(g, f, k)
  BY <1>0, EndsOfPiece
<1>3. EndAlike(added, e, l, f, k) <=> Ends(Piece(e, l)) = Ends(Piece(f, k))
  <2>1. EndAlike(added, e, l, f, k) <=> \A g : g \in Ends(Piece(e, l)) <=> g \in Ends(Piece(f, k))
    BY ONLY <1>1, <1>2 DEF EndAlike
  <2>2. ASSUME \A g : g \in Ends(Piece(e, l)) <=> g \in Ends(Piece(f, k))
        PROVE  Ends(Piece(e, l)) = Ends(Piece(f, k))
    <3>1. Ends(Piece(e, l)) \subseteq Ends(Piece(f, k)) /\ Ends(Piece(f, k)) \subseteq Ends(Piece(e, l))
      BY ONLY <2>2
    <3> QED BY ONLY <3>1
  <2> QED BY ONLY <2>1, <2>2
<1>4. EndAlike(added, e, l, f, k) <=> at[e][l] = at[f][k]
  <2>1. PICK m, nd : m = added /\ nd = nodes
    OBVIOUS
  <2>2. EndAlike(m, e, l, f, k) <=> at[e][l] = at[f][k]
    BY <2>1, AlikeBothWays
  <2> QED BY <2>1, <2>2
<1> QED BY ONLY <1>3, <1>4

LEMMA PieceIsOver ==
    ASSUME NEW at, Automaton(added, nodes, at), NEW e \in 0..added, NEW l \in 0..e, NEW c \in {0, 1},
           Append(Piece(e, l), c) \notin Words
    PROVE  StateOf(Append(Piece(e, l), c)) = Null
<1> DEFINE v == at[e][l]
           L == nodes[v].len
<1>0. /\ word \in Seq({0, 1}) /\ added \in Nat /\ added \in 0..Len(word) /\ e \in 0..Len(word) /\ NodesOK(nodes)
      /\ Piece(e, l) \in Seq({0, 1}) /\ Len(Piece(e, l)) = l /\ l \in Nat
      /\ \A k \in 1..l : Piece(e, l)[k] = word[(e - l) + k]
  <2>1. word \in Seq({0, 1}) /\ added \in 0..Len(word) /\ NodesOK(nodes)
    BY DEF Automaton
  <2>2. e \in 0..Len(word) /\ l \in Nat /\ added \in Nat
    <3>1. Len(word) \in Nat
      BY <2>1
    <3> QED BY <2>1, <3>1
  <2>3. /\ Piece(e, l) \in Seq({0, 1}) /\ Len(Piece(e, l)) = l
        /\ \A k \in 1..l : Piece(e, l)[k] = word[(e - l) + k]
    BY ONLY <2>1, <2>2, l \in 0..e, PieceFacts
  <2> QED BY ONLY <2>1, <2>2, <2>3
<1>1. v \in 1..Len(nodes) /\ L \in l..e /\ Len(nodes) \in Nat /\ L \in Nat
  <2>1. v \in 1..Len(nodes) /\ L \in l..e /\ Len(nodes) \in Nat
    BY StateFacts
  <2> QED BY <1>0, <2>1
<1>2. StateOf(Append(Piece(e, l), c)) = nodes[v].to[c]
  <2>1. StateOf(Append(Piece(e, l), c)) = Down(v, c)
    BY <1>0, StateOfPiece, StateOfLonger
  <2> QED BY <1>1, <2>1 DEF Down, Null
<1> SUFFICES ASSUME nodes[v].to[c] # Null PROVE FALSE
  BY <1>2
<1>3. PICK a \in 0..added - 1 : L <= a /\ at[a][L] = v /\ word[a + 1] = c
  BY <1>1 DEF Automaton, OnlySteps
<1> HIDE DEF v, L
<1>4. a \in 0..added /\ L \in 0..a /\ l <= L /\ l \in 0..a /\ a + 1 \in 0..added /\ l + 1 \in 0..a + 1
      /\ a + 1 \in 0..Len(word) /\ a \in Nat /\ (a + 1) - (l + 1) = a - l
  <2>1. /\ added \in Nat /\ added \in 0..Len(word) /\ Len(word) \in Nat /\ l \in Nat /\ L \in Nat
        /\ a \in 0..added - 1 /\ L <= a /\ L \in l..e
    BY <1>0, <1>1, <1>3
  <2> QED BY ONLY <2>1
<1>5. Same(e, a, l)
  BY <1>0, <1>3, <1>4 DEF Automaton, SuffixOfOther, v
<1>6. Piece(a, l) = Piece(e, l)
  <2>1. a \in 0..Len(word) /\ l <= a
    BY <1>0, <1>4
  <2> QED BY <1>0, <1>5, <2>1, PiecesSame
<1>7. /\ Piece(a, l) \in Seq({0, 1}) /\ Len(Piece(a, l)) = l
      /\ \A k \in 1..l : Piece(a, l)[k] = word[(a - l) + k]
  <2>1. a \in 0..Len(word)
    BY <1>0, <1>4
  <2> QED BY <1>0, <1>4, <2>1, PieceFacts
<1>8. /\ Piece(a + 1, l + 1) \in Seq({0, 1}) /\ Len(Piece(a + 1, l + 1)) = l + 1
      /\ \A k \in 1..l + 1 : Piece(a + 1, l + 1)[k] = word[(a - l) + k]
  <2>1. /\ Piece(a + 1, l + 1) \in Seq({0, 1}) /\ Len(Piece(a + 1, l + 1)) = l + 1
        /\ \A k \in 1..l + 1 : Piece(a + 1, l + 1)[k] = word[((a + 1) - (l + 1)) + k]
    BY ONLY <1>0, <1>4, PieceFacts
  <2> QED BY ONLY <1>4, <2>1
<1>9. Append(Piece(e, l), c) = Piece(a + 1, l + 1)
  <2> DEFINE x == Append(Piece(e, l), c)
  <2>1. x \in Seq({0, 1}) /\ Len(x) = l + 1 /\ x[l + 1] = c /\ \A k \in 1..l : x[k] = Piece(e, l)[k]
    BY <1>0, PushFacts
  <2> HIDE DEF x
  <2>2. ASSUME NEW k \in 1..Len(x) PROVE x[k] = Piece(a + 1, l + 1)[k]
    <3>1. CASE k \in 1..l
      <4>1. k \in 1..l + 1
        BY <1>0, <3>1
      <4> QED BY ONLY <1>6, <1>7, <1>8, <2>1, <3>1, <4>1
    <3>2. CASE k \notin 1..l
      <4>1. k = l + 1 /\ l + 1 \in 1..l + 1 /\ (a - l) + (l + 1) = a + 1
        BY <1>0, <1>4, <2>1, <3>2
      <4> QED BY <1>3, <1>8, <2>1, <4>1
    <3> QED BY <3>1, <3>2
  <2>3. x = Piece(a + 1, l + 1)
    BY ONLY <1>8, <2>1, <2>2, SeqEqual
  <2> QED BY <2>3 DEF x
<1> QED BY <1>0, <1>4, <1>9, WordsArePieces

LEMMA SuffixesArePieces ==
    ASSUME word \in Seq({0, 1}), NEW e \in 0..Len(word), NEW l \in 0..e
    PROVE  /\ \A k \in 0..l : Piece(e, k) \in Suffixes(Piece(e, l))
           /\ \A x \in Suffixes(Piece(e, l)) : \E k \in 0..l : x = Piece(e, k)
<1> DEFINE w == Piece(e, l)
<1>0. /\ w \in Seq({0, 1}) /\ Len(w) = l /\ \A k \in 1..l : w[k] = word[(e - l) + k]
      /\ l \in Nat /\ e \in Nat /\ l \in 0..e
  BY PieceFacts
<1> HIDE DEF w
<1>1. ASSUME NEW k \in 0..l PROVE SubSeq(w, (l - k) + 1, l) = Piece(e, k)
  <2>1. l - k \in Nat /\ l - k <= l /\ l <= Len(w) /\ l - (l - k) = k /\ k \in 0..e /\ k \in Nat /\ l \in Nat
    BY <1>0
  <2>2. /\ SubSeq(w, (l - k) + 1, l) \in Seq({0, 1}) /\ Len(SubSeq(w, (l - k) + 1, l)) = l - (l - k)
        /\ \A h \in 1..l - (l - k) : SubSeq(w, (l - k) + 1, l)[h] = w[(l - k) + h]
    <3>1. w \in Seq({0, 1})
      BY <1>0
    <3> QED BY ONLY <2>1, <3>1, CutAt
  <2>3. /\ Piece(e, k) \in Seq({0, 1}) /\ Len(Piece(e, k)) = k
        /\ \A h \in 1..k : Piece(e, k)[h] = word[(e - k) + h]
    BY <2>1, PieceFacts
  <2>4. \A h \in 1..k : (l - k) + h \in 1..l /\ (e - l) + ((l - k) + h) = (e - k) + h
    BY <1>0, <2>1
  <2>5. ASSUME NEW h \in 1..Len(SubSeq(w, (l - k) + 1, l))
        PROVE  SubSeq(w, (l - k) + 1, l)[h] = Piece(e, k)[h]
    <3>1. h \in 1..k /\ h \in 1..l - (l - k)
      BY ONLY <2>1, <2>2, h \in 1..Len(SubSeq(w, (l - k) + 1, l))
    <3>2. SubSeq(w, (l - k) + 1, l)[h] = w[(l - k) + h]
      BY ONLY <2>2, <3>1
    <3>3. w[(l - k) + h] = word[(e - l) + ((l - k) + h)]
      BY ONLY <1>0, <2>4, <3>1
    <3>4. Piece(e, k)[h] = word[(e - k) + h] /\ (e - l) + ((l - k) + h) = (e - k) + h
      BY ONLY <2>3, <2>4, <3>1
    <3> QED BY ONLY <3>2, <3>3, <3>4
  <2> QED BY ONLY <2>1, <2>2, <2>3, <2>5, SeqEqual
<1>2. Suffixes(w) = {SubSeq(w, a, l) : a \in 1..l} \cup {<< >>}
  BY <1>0 DEF Suffixes
<1>3. Piece(e, 0) = << >> /\ 0 \in 0..l
  BY <1>0, SubSeqEmpty DEF Piece
<1>4. ASSUME NEW k \in 0..l PROVE Piece(e, k) \in Suffixes(w)
  <2>1. CASE k = 0
    BY <1>2, <1>3, <2>1
  <2>2. CASE k # 0
    <3>1. (l - k) + 1 \in 1..l
      BY <1>0, <2>2
    <3>2. SubSeq(w, (l - k) + 1, l) \in {SubSeq(w, a, l) : a \in 1..l}
      BY <3>1
    <3> QED BY <1>1, <1>2, <3>2
  <2> QED BY <2>1, <2>2
<1>5. ASSUME NEW x \in Suffixes(w) PROVE \E k \in 0..l : x = Piece(e, k)
  <2>1. CASE x = << >>
    BY <1>3, <2>1
  <2>2. CASE x # << >>
    <3>1. PICK a \in 1..l : x = SubSeq(w, a, l)
      BY <1>2, <1>5, <2>2
    <3>2. l - (a - 1) \in 0..l /\ (l - (l - (a - 1))) + 1 = a
      BY <1>0
    <3>3. x = Piece(e, l - (a - 1))
      BY <1>1, <3>1, <3>2
    <3> QED BY <3>2, <3>3
  <2> QED BY <2>1, <2>2
<1> QED BY <1>4, <1>5 DEF w

(* The length of a state is the one of its longest word, and its link is the
   state of the longest suffix that is not of this state. *)
LEMMA StateShape ==
    ASSUME NEW at, Automaton(added, nodes, at), NEW e \in 0..added, NEW l \in 0..e
    PROVE  LET alike == {x \in Words : Ends(x) = Ends(Piece(e, l))}
               outer == {x \in Suffixes(Piece(e, l)) : Ends(x) # Ends(Piece(e, l))}
           IN  /\ \E x \in alike : Len(x) = nodes[at[e][l]].len
               /\ \A x \in alike : Len(x) <= nodes[at[e][l]].len
               /\ \A x \in outer :
                    (\A y \in outer : Len(y) <= Len(x)) => nodes[at[e][l]].link = StateOf(x)
<1> DEFINE v == at[e][l]
           L == nodes[v].len
           alike == {x \in Words : Ends(x) = Ends(Piece(e, l))}
           outer == {x \in Suffixes(Piece(e, l)) : Ends(x) # Ends(Piece(e, l))}
<1>0. /\ word \in Seq({0, 1}) /\ added \in Nat /\ added \in 0..Len(word) /\ e \in 0..Len(word) /\ e \in Nat
      /\ l \in Nat /\ NodesOK(nodes)
  <2>1. word \in Seq({0, 1}) /\ added \in 0..Len(word) /\ NodesOK(nodes)
    BY DEF Automaton
  <2>2. Len(word) \in Nat
    BY <2>1
  <2> QED BY <2>1, <2>2
<1>1. v \in 1..Len(nodes) /\ L \in l..e /\ at[e][L] = v /\ (l # 0 => v # Root) /\ (l = 0 => v = Root)
  <2>1. at[e][nodes[at[e][l]].len] = at[e][l]
    BY LongestAt
  <2>2. v \in 1..Len(nodes) /\ L \in l..e /\ (l # 0 => v # Root) /\ (l = 0 => v = Root)
    BY StateFacts
  <2> QED BY <2>1, <2>2
<1>2. /\ Shortest(nodes, v) \in 0..l
      /\ \A h \in Shortest(nodes, v)..L : at[e][h] = v
  BY DEF Automaton, Lengths, LengthAt
<1>p. \A h \in 0..e : Piece(e, h) \in Words /\ Len(Piece(e, h)) = h
  BY <1>0, WordsArePieces, PieceFacts
<1>s. \A h \in 0..e : StateOf(Piece(e, h)) = at[e][h]
  BY StateOfPiece
<1>3. \E x \in alike : Len(x) = L
  <2>1. L \in 0..e
    BY <1>0, <1>1
  <2>2. Ends(Piece(e, L)) = Ends(Piece(e, l))
    BY <1>1, <2>1, EndsOfState
  <2> QED BY <1>p, <2>1, <2>2
<1>4. ASSUME NEW x \in alike PROVE Len(x) <= L
  <2>1. PICK f \in 0..added : \E k \in 0..f : x = Piece(f, k)
    BY <1>0, WordsArePieces
  <2>2. PICK k \in 0..f : x = Piece(f, k)
    BY <2>1
  <2>3. at[f][k] = v
    <3>1. Ends(Piece(f, k)) = Ends(Piece(e, l))
      BY <2>2
    <3> QED BY <3>1, EndsOfState
  <2>4. nodes[at[f][k]].len \in k..f
    BY StateFacts
  <2>5. Len(x) = k
    <3>1. f \in 0..Len(word)
      BY <1>0
    <3> QED BY <1>0, <2>2, <3>1, PieceFacts
  <2>6. k \in Nat /\ f \in Nat /\ L \in k..f
    BY <1>0, <2>3, <2>4
  <2> QED BY ONLY <2>5, <2>6
<1>5. ASSUME NEW x \in outer, \A y \in outer : Len(y) <= Len(x)
      PROVE  nodes[v].link = StateOf(x)
  <2>1. PICK k \in 0..l : x = Piece(e, k)
    <3>1. x \in Suffixes(Piece(e, l))
      OBVIOUS
    <3> QED BY <1>0, <3>1, SuffixesArePieces
  <2>2. k \in 0..e /\ k \in Nat /\ k <= l
    BY <1>0
  <2>3. at[e][k] # v
    <3>1. Ends(Piece(e, k)) # Ends(Piece(e, l))
      BY <2>1
    <3> QED BY <2>2, <3>1, EndsOfState
  <2>4. k < Shortest(nodes, v)
    <3>1. k \notin Shortest(nodes, v)..L
      BY <1>2, <2>3
    <3>2. L \in l..e /\ Shortest(nodes, v) \in 0..l
      BY <1>1, <1>2
    <3> QED BY ONLY <1>0, <2>2, <3>1, <3>2
  <2>5. v # Root
    BY <2>2, <2>4 DEF Shortest
  <2>6. l \in 1..e
    BY <1>0, <1>1, <2>5
  <2> DEFINE u1 == nodes[v].link
             h == nodes[u1].len
  <2>7. u1 # Null /\ at[e][h] = u1
    BY <2>6 DEF Automaton, Links, LinkAt
  <2>8. Shortest(nodes, v) = h + 1
    BY <2>5 DEF Shortest
  <2>9. u1 \in 1..Len(nodes) /\ h \in Nat
    <3>1. nodes[v].link \in 1..Len(nodes) /\ nodes[nodes[v].link].len \in Nat
      BY <1>1, <2>5, LinkThere
    <3> QED BY <3>1
  <2>10. h \in 0..l /\ h \in 0..e /\ k <= h
    <3> HIDE DEF h
    <3>1. Shortest(nodes, v) \in 0..l
      BY <1>2
    <3> QED BY ONLY <1>0, <2>2, <2>4, <2>8, <2>9, <3>1
  <2>11. at[e][h] # v
    <3>1. nodes[nodes[v].link].len < nodes[v].len
      BY <1>1, <2>5, LinkThere
    <3>2. h < L /\ L \in Nat
      BY <1>0, <1>1, <3>1
    <3>3. u1 # v
      BY <2>9, <3>2
    <3> QED BY <2>7, <3>3
  <2>12. Piece(e, h) \in outer
    <3>1. Ends(Piece(e, h)) # Ends(Piece(e, l))
      BY <2>10, <2>11, EndsOfState
    <3>2. Piece(e, h) \in Suffixes(Piece(e, l))
      BY <1>0, <2>10, SuffixesArePieces
    <3> QED BY <3>1, <3>2
  <2>13. h <= k
    <3>1. Len(Piece(e, h)) <= Len(x)
      BY <1>5, <2>12
    <3>2. Len(Piece(e, h)) = h /\ Len(x) = k
      BY <1>p, <2>1, <2>2, <2>10
    <3> QED BY <3>1, <3>2
  <2>14. h = k
    <3> HIDE DEF h
    <3> QED BY ONLY <2>2, <2>9, <2>10, <2>13
  <2>15. StateOf(x) = at[e][h]
    BY <1>s, <2>1, <2>2, <2>14
  <2> QED BY <2>7, <2>15
<1> QED BY <1>3, <1>4, <1>5

LEMMA TextAutomaton ==
    ASSUME BuildInv
    PROVE  AutomatonOfText
<1> SUFFICES ASSUME pc = "add"
             PROVE  LET ends == [w \in Words |-> Ends(w)]
                        state == [w \in Words |-> StateOf(w)]
                        OneMore(w) == {Append(w, c) : c \in {0, 1}}
                    IN  /\ \A w \in Words : state[w] # Null /\ \A x \in OneMore(w) \ Words : StateOf(x) = Null
                        /\ \A w, x \in Words : ends[w] = ends[x] <=> state[w] = state[x]
                        /\ \A w \in Words :
                            LET alike == {x \in Words : ends[x] = ends[w]}
                                outer == {x \in Suffixes(w) : ends[x] # ends[w]}
                            IN  /\ \E x \in alike : Len(x) = nodes[state[w]].len
                                /\ \A x \in alike : Len(x) <= nodes[state[w]].len
                                /\ \A x \in outer :
                                    (\A y \in outer : Len(y) <= Len(x)) => nodes[state[w]].link = state[x]
  BY DEF AutomatonOfText
<1>1. PICK at : Automaton(added, nodes, at)
  BY DEF BuildInv
<1>2. word \in Seq({0, 1}) /\ added \in 0..Len(word)
  BY <1>1 DEF Automaton
<1>3. \A w \in Words : \E e \in 0..added : \E l \in 0..e : w = Piece(e, l)
  BY <1>2, WordsArePieces
<1>4. \A e \in 0..added : \A l \in 0..e : StateOf(Piece(e, l)) = at[e][l] /\ at[e][l] # Null
  <2>1. \A e \in 0..added : \A l \in 0..e : at[e][l] \in 1..Len(nodes)
    BY <1>1, StateFacts
  <2>2. \A e \in 0..added : \A l \in 0..e : at[e][l] # Null
    BY <2>1 DEF Null
  <2> QED BY <1>1, <2>2, StateOfPiece
<1>5. ASSUME NEW w \in Words, NEW c \in {0, 1}, Append(w, c) \notin Words
      PROVE  StateOf(Append(w, c)) = Null
  <2>1. PICK e \in 0..added : \E l \in 0..e : w = Piece(e, l)
    BY <1>3
  <2>2. PICK l \in 0..e : w = Piece(e, l)
    BY <2>1
  <2> QED BY <1>1, <1>5, <2>2, PieceIsOver
<1>6. ASSUME NEW w \in Words, NEW x \in Words PROVE Ends(w) = Ends(x) <=> StateOf(w) = StateOf(x)
  <2>1. PICK e \in 0..added : \E l \in 0..e : w = Piece(e, l)
    BY <1>3
  <2>2. PICK l \in 0..e : w = Piece(e, l)
    BY <2>1
  <2>3. PICK f \in 0..added : \E k \in 0..f : x = Piece(f, k)
    BY <1>3
  <2>4. PICK k \in 0..f : x = Piece(f, k)
    BY <2>3
  <2>5. Ends(Piece(e, l)) = Ends(Piece(f, k)) <=> at[e][l] = at[f][k]
    BY <1>1, EndsOfState
  <2> QED BY <1>4, <2>2, <2>4, <2>5
<1>7. ASSUME NEW w \in Words
      PROVE  LET alike == {x \in Words : Ends(x) = Ends(w)}
                 outer == {x \in Suffixes(w) : Ends(x) # Ends(w)}
             IN  /\ \E x \in alike : Len(x) = nodes[StateOf(w)].len
                 /\ \A x \in alike : Len(x) <= nodes[StateOf(w)].len
                 /\ \A x \in outer :
                      (\A y \in outer : Len(y) <= Len(x)) => nodes[StateOf(w)].link = StateOf(x)
  <2>1. PICK e \in 0..added : \E l \in 0..e : w = Piece(e, l)
    BY <1>3
  <2>2. PICK l \in 0..e : w = Piece(e, l)
    BY <2>1
  <2>3. StateOf(w) = at[e][l]
    BY <1>4, <2>2
  <2> QED BY <1>1, <2>2, <2>3, StateShape
<1>8. ASSUME NEW w \in Words PROVE Suffixes(w) \subseteq Words
  <2>1. PICK e \in 0..added : \E l \in 0..e : w = Piece(e, l)
    BY <1>3
  <2>2. PICK l \in 0..e : w = Piece(e, l)
    BY <2>1
  <2>3. ASSUME NEW x \in Suffixes(w) PROVE x \in Words
    <3>0. e \in 0..Len(word) /\ word \in Seq({0, 1})
      BY <1>2
    <3>1. PICK k \in 0..l : x = Piece(e, k)
      BY <2>2, <3>0, SuffixesArePieces
    <3>2. k \in 0..e
      BY <1>2
    <3> QED BY <1>2, <3>1, <3>2, WordsArePieces
  <2> QED BY <2>3
<1> DEFINE ends == [w \in Words |-> Ends(w)]
           state == [w \in Words |-> StateOf(w)]
<1>9. \A w \in Words : ends[w] = Ends(w) /\ state[w] = StateOf(w)
  OBVIOUS
<1>10. \A w \in Words : state[w] # Null
  <2>1. ASSUME NEW w \in Words PROVE StateOf(w) # Null
    BY <1>3, <1>4
  <2> QED BY <1>9, <2>1
<1> HIDE DEF ends, state
<1>11. \A w \in Words : \A x \in {Append(w, c) : c \in {0, 1}} \ Words : StateOf(x) = Null
  BY <1>5
<1>12. \A w, x \in Words : ends[w] = ends[x] <=> state[w] = state[x]
  BY <1>6, <1>9
<1>13. ASSUME NEW w \in Words
       PROVE  LET alike == {x \in Words : ends[x] = ends[w]}
                  outer == {x \in Suffixes(w) : ends[x] # ends[w]}
              IN  /\ \E x \in alike : Len(x) = nodes[state[w]].len
                  /\ \A x \in alike : Len(x) <= nodes[state[w]].len
                  /\ \A x \in outer :
                      (\A y \in outer : Len(y) <= Len(x)) => nodes[state[w]].link = state[x]
  <2> DEFINE alike == {x \in Words : Ends(x) = Ends(w)}
             outer == {x \in Suffixes(w) : Ends(x) # Ends(w)}
  <2>1. {x \in Words : ends[x] = ends[w]} = alike /\ {x \in Suffixes(w) : ends[x] # ends[w]} = outer
    BY <1>8, <1>9
  <2>2. \A x \in outer : state[x] = StateOf(x)
    BY <1>8, <1>9
  <2>3. /\ \E x \in alike : Len(x) = nodes[StateOf(w)].len
        /\ \A x \in alike : Len(x) <= nodes[StateOf(w)].len
        /\ \A x \in outer :
              (\A y \in outer : Len(y) <= Len(x)) => nodes[StateOf(w)].link = StateOf(x)
    BY <1>7
  <2>4. state[w] = StateOf(w)
    BY <1>9
  <2> HIDE DEF alike, outer
  <2> QED BY ONLY <2>1, <2>2, <2>3, <2>4
<1> QED BY ONLY <1>10, <1>11, <1>12, <1>13 DEF ends, state

(* The suffix automaton that add_c builds one character at a time is the one of
   the characters that it has been given. *)
THEOREM AutomatonIsOfText == Spec => []AutomatonOfText
BY BuildInvariant, TextAutomaton, PTL

LEMMA RoomForNodes ==
    ASSUME BuildInv, Mirrored
    PROVE  ReserveEnough
<1> SUFFICES ASSUME Len(text) > 1 PROVE Len(nodes) + 1 <= 2 * Len(text)
  BY DEF ReserveEnough
<1>0. Len(text) \in Nat /\ Len(word) = Len(text)
  BY SuffAutAssumption, ReverseFacts DEF Mirrored
<1>1. CASE pc \notin {"fill", "redirect"}
  <2>1. PICK at : Automaton(added, nodes, at) /\ Len(nodes) <= NodeBound(added)
    BY <1>1 DEF BuildInv
  <2>2. added \in Nat /\ added <= Len(text) /\ Len(nodes) \in Nat
    <3>1. added \in 0..Len(word) /\ Len(nodes) \in Nat
      BY <2>1 DEF Automaton, NodesOK
    <3> QED BY ONLY <1>0, <3>1
  <2>3. Len(nodes) <= NodeBound(added)
    BY <2>1
  <2> QED BY ONLY <1>0, <2>2, <2>3, Len(text) > 1 DEF NodeBound
<1>2. CASE pc = "fill"
  <2>1. PICK nd, at, g : /\ Automaton(added, nd, at) /\ FilledFrom(nd, at, g)
                         /\ Len(nd) <= NodeBound(added)
    BY <1>2 DEF BuildInv
  <2>2. added \in Nat /\ added < Len(text) /\ Len(nd) \in Nat /\ Len(nodes) = Len(nd) + 1
    <3>1. added \in 0..Len(word) /\ Len(nd) \in Nat
      BY <2>1 DEF Automaton, NodesOK
    <3>2. added < Len(word) /\ Len(nodes) = Len(nd) + 1
      BY <2>1 DEF FilledFrom
    <3> QED BY ONLY <1>0, <3>1, <3>2
  <2>3. Len(nd) <= NodeBound(added)
    BY <2>1
  <2> QED BY ONLY <1>0, <2>2, <2>3, Len(text) > 1 DEF NodeBound
<1>3. CASE pc = "redirect"
  <2>1. PICK nd, at, f, j, g : /\ Automaton(added, nd, at) /\ RedirectedFrom(nd, at, f, j, g)
                               /\ Len(nd) <= NodeBound(added)
    BY <1>3 DEF BuildInv
  <2>2. PICK m : m = added
    OBVIOUS
  <2>3. Repeats(m, nd, at, f, j) /\ nd[at[f][j]].len > j /\ j > 0 /\ Len(nodes) = Len(nd) + 2
    BY <2>1, <2>2 DEF RedirectedFrom, NewLens
  <2>4. m \in Nat /\ f \in 0..m /\ j \in 0..f /\ j \in Nat /\ Len(nd) \in Nat /\ nd[at[f][j]].len \in j..f
    BY <2>1, <2>2, <2>3, TurnFacts
  <2>5. m < Len(text)
    BY <1>0, <2>3 DEF Repeats
  <2>6. m >= 2
    BY ONLY <2>3, <2>4
  <2>7. Len(nd) <= NodeBound(m)
    BY <2>1, <2>2
  <2> QED BY ONLY <1>0, <2>3, <2>4, <2>5, <2>6, <2>7 DEF NodeBound
<1> QED BY <1>1, <1>2, <1>3

(* reserve(2 * s.size()) is enough for all the nodes that add_c will make, for
   any text of more than one bit: a text of one bit has two nodes and the null
   node. *)
THEOREM NodesFitReserve == Spec => []ReserveEnough
BY BuildInvariant, RoomForNodes, PTL
-----------------------------------------------------------------------------
(* get_match.  The suffix of the text at k is the word of the last N - k
   characters, read backwards, so it comes by the states on the path of N - k;
   passing are the suffixes before k that came by v. *)
Passing(N, at, v, k) == {j \in 0..k - 1 : OnPath(N - j, at, 0, N - j, v)}

IsLastOf(x, S) == IF S = {} THEN x = None ELSE x \in S /\ \A j \in S : j <= x

Noted(N, nd, at, ls, k) ==
    \A v \in 1..Len(nd) : nd[v].len >= MinMatchLen => IsLastOf(ls[v], Passing(N, at, v, k))

(* The climb of k has left behind the states of the lengths from g on. *)
Climbs(N, nd, at, x, k, g) ==
    /\ g \in 0..(N - k) + 1
    /\ x = IF g = 0 THEN Null ELSE at[N - k][g - 1]
    /\ g > 0 => nd[at[N - k][g - 1]].len = g - 1

NotedFrom(N, nd, at, ls, k, g) ==
    \A v \in 1..Len(nd) : nd[v].len >= MinMatchLen =>
        IF OnPath(N - k, at, g, N - k, v) THEN ls[v] = k ELSE IsLastOf(ls[v], Passing(N, at, v, k))

Shared(N, nd, at, k, g, v) ==
    /\ v \in 1..Len(nd) /\ nd[v].len >= MinMatchLen
    /\ OnPath(N - k, at, g, N - k, v) /\ Passing(N, at, v, k) # {}

FoundFrom(N, nd, at, fd, k, g) ==
    /\ fd \in Seq([start : Int, len : Nat])
    /\ \A r \in 1..Len(fd) : \E v : /\ Shared(N, nd, at, k, g, v) /\ fd[r].len = nd[v].len
                                    /\ IsLastOf(fd[r].start, Passing(N, at, v, k))
    /\ \A v : Shared(N, nd, at, k, g, v) => \E r \in 1..Len(fd) : fd[r].len = nd[v].len

Found ==
    /\ added = Len(word) /\ iPtr \in 0..Len(word)
    /\ lastSuff \in [1..Len(nodes) -> Int]
    /\ pc # "parse" => i < Len(word)
    /\ pc = "climb" => iPtr <= i
    /\ pc = "take" => iPtr = i + 1
    /\ pc = "get" => iPtr <= i + 1
    /\ \E at :
        /\ Automaton(added, nodes, at)
        /\ \A k \in 0..Len(word) - 1 : vs[k + 1] = at[Len(word) - k][Len(word) - k]
        /\ pc # "climb" => Noted(Len(word), nodes, at, lastSuff, iPtr)
        /\ pc = "climb" => \E g : /\ Climbs(Len(word), nodes, at, u, iPtr, g)
                                  /\ NotedFrom(Len(word), nodes, at, lastSuff, iPtr, g)
                                  /\ FoundFrom(Len(word), nodes, at, found, iPtr, g)
        /\ pc = "take" \/ (pc = "get" /\ iPtr = i + 1) =>
                FoundFrom(Len(word), nodes, at, found, i, 0)

MatchInv == i \in Nat /\ (pc \in {"parse", "get", "climb", "take"} => Found)

LEMMA OnPathIsSame ==
    ASSUME NEW m, NEW nd, NEW at, Automaton(m, nd, at), NEW e \in 0..m, NEW l \in 0..e, NEW f \in 0..m
    PROVE  OnPath(f, at, 0, f, at[e][l]) <=> l <= f /\ Same(e, f, l)
<1>0. m \in Nat /\ e \in Nat /\ f \in Nat /\ l \in Nat
  <2>1. m \in Nat
    BY DEF Automaton
  <2> QED BY <2>1
<1>1. ASSUME l <= f, Same(e, f, l) PROVE OnPath(f, at, 0, f, at[e][l])
  <2>1. at[e][l] = at[f][l]
    BY <1>0, <1>1 DEF Automaton, SameState
  <2>2. l \in 0..f
    BY <1>0, <1>1
  <2> QED BY <2>1, <2>2 DEF OnPath
<1>2. ASSUME OnPath(f, at, 0, f, at[e][l]) PROVE l <= f /\ Same(e, f, l)
  <2>1. PICK k \in 0..f : at[f][k] = at[e][l]
    BY <1>2 DEF OnPath
  <2>2. f \in k..m /\ Same(f, f, k)
    BY <1>0 DEF Same
  <2>3. f \in l..m /\ Same(f, e, l)
    BY <2>1, <2>2, EndsTogether
  <2> QED BY <1>0, <2>3, SameFacts
<1> QED BY <1>1, <1>2

(* A state is on a path with its longest word. *)
LEMMA OnPathLongest ==
    ASSUME NEW m, NEW nd, NEW at, Automaton(m, nd, at), NEW e \in 0..m, NEW g \in Nat, NEW v,
           OnPath(e, at, g, e, v)
    PROVE  /\ v \in 1..Len(nd) /\ nd[v].len \in g..e /\ nd[v].len \in 0..e
           /\ at[e][nd[v].len] = v
<1>0. m \in Nat /\ e \in Nat
  <2>1. m \in Nat
    BY DEF Automaton
  <2> QED BY <2>1
<1>1. PICK l \in g..e : at[e][l] = v
  BY DEF OnPath
<1>2. l \in 0..e /\ l \in Nat
  BY <1>0
<1>3. at[e][l] \in 1..Len(nd) /\ nd[at[e][l]].len \in l..e
  BY <1>2, StateFacts
<1>4. at[e][nd[at[e][l]].len] = at[e][l]
  BY <1>2, LongestAt
<1>5. nd[v].len \in g..e /\ nd[v].len \in 0..e
  BY ONLY <1>0, <1>1, <1>2, <1>3
<1> QED BY <1>1, <1>3, <1>4, <1>5

LEMMA Unvisited ==
    ASSUME NEW N, NEW nd, NEW at, Automaton(N, nd, at), NEW k \in 0..N - 1, NEW ls,
           Noted(N, nd, at, ls, k)
    PROVE  /\ Climbs(N, nd, at, at[N - k][N - k], k, (N - k) + 1)
           /\ NotedFrom(N, nd, at, ls, k, (N - k) + 1)
           /\ FoundFrom(N, nd, at, << >>, k, (N - k) + 1)
<1>0. N \in Nat /\ N - k \in 0..N /\ N - k \in Nat /\ N - k \in 0..N - k
  <2>1. N \in Nat
    BY DEF Automaton
  <2> QED BY <2>1
<1>1. \A v : ~ OnPath(N - k, at, (N - k) + 1, N - k, v)
  <2>1. ((N - k) + 1..N - k) = {}
    BY <1>0
  <2> QED BY <2>1 DEF OnPath
<1>2. NotedFrom(N, nd, at, ls, k, (N - k) + 1)
  BY <1>1 DEF NotedFrom, Noted
<1>3. FoundFrom(N, nd, at, << >>, k, (N - k) + 1)
  <2>1. << >> \in Seq([start : Int, len : Nat]) /\ Len(<< >>) = 0 /\ 1..0 = {}
    BY EmptySeq
  <2> QED BY <1>1, <2>1 DEF FoundFrom, Shared
<1>4. nd[at[N - k][N - k]].len = N - k
  <2>1. nd[at[N - k][N - k]].len \in N - k..N - k
    BY <1>0, StateFacts
  <2> QED BY <1>0, <2>1
<1>5. (N - k) + 1 \in 0..(N - k) + 1 /\ (N - k) + 1 # 0 /\ ((N - k) + 1) - 1 = N - k
  BY <1>0
<1>6. Climbs(N, nd, at, at[N - k][N - k], k, (N - k) + 1)
  BY ONLY <1>4, <1>5 DEF Climbs
<1> QED BY <1>2, <1>3, <1>6

LEMMA ClimbGoesOn ==
    ASSUME NEW N, NEW nd, NEW at, Automaton(N, nd, at), NEW k \in 0..N - 1,
           NEW ls \in [1..Len(nd) -> Int], NEW fd, NEW x, x # Null, NEW g, Climbs(N, nd, at, x, k, g),
           NotedFrom(N, nd, at, ls, k, g), FoundFrom(N, nd, at, fd, k, g), nd[x].len >= MinMatchLen
    PROVE  /\ x \in 1..Len(nd)
           /\ \E h : /\ Climbs(N, nd, at, nd[x].link, k, h)
                     /\ NotedFrom(N, nd, at, [ls EXCEPT ![x] = k], k, h)
                     /\ FoundFrom(N, nd, at, IF ls[x] = None THEN fd
                                  ELSE Append(fd, [start |-> ls[x], len |-> nd[x].len]), k, h)
<1> DEFINE e == N - k
<1>0. N \in Nat /\ e \in 0..N /\ e \in Nat /\ k \in Nat /\ NodesOK(nd)
  <2>1. N \in Nat /\ NodesOK(nd)
    BY DEF Automaton
  <2> QED BY <2>1
<1>e. e = N - k
  OBVIOUS
<1> HIDE DEF e
<1>1. g \in 1..e + 1 /\ x = at[e][g - 1] /\ nd[x].len = g - 1 /\ g \in Nat \ {0} /\ g - 1 \in 0..e
  BY <1>0, <1>e DEF Climbs
<1>2. x \in 1..Len(nd)
  BY <1>0, <1>1, StateFacts
<1>3. PICK h : h = Shortest(nd, at[e][g - 1])
  OBVIOUS
<1>4. ClimbsTo(e, nd, at, g, h)
  <2>1. nd[at[e][g - 1]].len = g - 1
    BY <1>1
  <2> QED BY ONLY Automaton(N, nd, at), <1>0, <1>1, <1>3, <2>1, ClimbPath
<1>5. /\ h \in 0..g - 1
      /\ h = 0 => nd[x].link = Null
      /\ h > 0 => nd[x].link = at[e][h - 1] /\ nd[at[e][h - 1]].len = h - 1
  BY <1>1, <1>4 DEF ClimbsTo
<1>6. Climbs(N, nd, at, nd[x].link, k, h)
  <2>1. h \in 0..e + 1 /\ (h # 0 => h > 0)
    BY <1>0, <1>1, <1>5
  <2> QED BY ONLY <1>5, <1>e, <2>1 DEF Climbs
<1>7. \A v : OnPath(e, at, h, e, v) <=> v = x \/ OnPath(e, at, g, e, v)
  <2>1. g - 1 <= e
    BY <1>0, <1>1
  <2> QED BY ONLY <1>0, <1>1, <1>4, <2>1, PathGrows
<1>8. ~ OnPath(e, at, g, e, x)
  <2> SUFFICES ASSUME OnPath(e, at, g, e, x) PROVE FALSE
    OBVIOUS
  <2>1. nd[x].len \in g..e
    BY <1>0, <1>1, OnPathLongest
  <2> QED BY <1>0, <1>1, <2>1
<1>9. IsLastOf(ls[x], Passing(N, at, x, k))
  BY <1>2, <1>8, <1>e DEF NotedFrom
<1>10. NotedFrom(N, nd, at, [ls EXCEPT ![x] = k], k, h)
  <2> SUFFICES ASSUME NEW v \in 1..Len(nd), nd[v].len >= MinMatchLen
               PROVE  IF OnPath(e, at, h, e, v) THEN [ls EXCEPT ![x] = k][v] = k
                      ELSE IsLastOf([ls EXCEPT ![x] = k][v], Passing(N, at, v, k))
    BY <1>e DEF NotedFrom
  <2>1. IF OnPath(e, at, g, e, v) THEN ls[v] = k ELSE IsLastOf(ls[v], Passing(N, at, v, k))
    BY <1>e DEF NotedFrom
  <2>2. [ls EXCEPT ![x] = k][v] = IF v = x THEN k ELSE ls[v]
    OBVIOUS
  <2>3. CASE v = x
    BY <1>7, <2>2, <2>3
  <2>4. CASE v # x
    BY <1>7, <2>1, <2>2, <2>4
  <2> QED BY <2>3, <2>4
<1>11. \A v : Shared(N, nd, at, k, h, v) <=> (v = x /\ Passing(N, at, x, k) # {}) \/ Shared(N, nd, at, k, g, v)
  BY ONLY <1>2, <1>7, <1>e, nd[x].len >= MinMatchLen DEF Shared
<1>12. CASE ls[x] = None
  <2>1. Passing(N, at, x, k) = {}
    <3>1. None \notin Passing(N, at, x, k)
      BY <1>0 DEF Passing, None
    <3> QED BY <1>9, <1>12, <3>1 DEF IsLastOf
  <2>2. \A v : Shared(N, nd, at, k, h, v) <=> Shared(N, nd, at, k, g, v)
    BY <1>11, <2>1
  <2>3. FoundFrom(N, nd, at, fd, k, h)
    BY <2>2 DEF FoundFrom
  <2> QED BY <1>2, <1>6, <1>10, <1>12, <2>3
<1>13. CASE ls[x] # None
  <2>1. Passing(N, at, x, k) # {}
    BY <1>9, <1>13 DEF IsLastOf
  <2> DEFINE y == [start |-> ls[x], len |-> nd[x].len]
             z == Append(fd, y)
  <2>2. y \in [start : Int, len : Nat] /\ y.start = ls[x] /\ y.len = nd[x].len
    BY <1>0, <1>1, <1>2
  <2> HIDE DEF y
  <2>3. /\ z \in Seq([start : Int, len : Nat]) /\ Len(z) = Len(fd) + 1 /\ z[Len(fd) + 1] = y
        /\ \A r \in 1..Len(fd) : z[r] = fd[r]
        /\ Len(fd) \in Nat
    <3>1. fd \in Seq([start : Int, len : Nat])
      BY DEF FoundFrom
    <3> QED BY <2>2, <3>1, PushFacts
  <2> HIDE DEF z
  <2>4. ASSUME NEW r \in 1..Len(z)
        PROVE  \E v : /\ Shared(N, nd, at, k, h, v) /\ z[r].len = nd[v].len
                      /\ IsLastOf(z[r].start, Passing(N, at, v, k))
    <3>1. CASE r = Len(fd) + 1
      BY <1>9, <1>11, <2>1, <2>2, <2>3, <3>1
    <3>2. CASE r # Len(fd) + 1
      <4>1. r \in 1..Len(fd)
        BY <2>3, <3>2
      <4>2. PICK v : /\ Shared(N, nd, at, k, g, v) /\ fd[r].len = nd[v].len
                     /\ IsLastOf(fd[r].start, Passing(N, at, v, k))
        BY <4>1 DEF FoundFrom
      <4> QED BY <1>11, <2>3, <4>1, <4>2
    <3> QED BY <3>1, <3>2
  <2>5. ASSUME NEW v, Shared(N, nd, at, k, h, v) PROVE \E r \in 1..Len(z) : z[r].len = nd[v].len
    <3>1. CASE v = x
      <4>1. Len(fd) + 1 \in 1..Len(z)
        BY <2>3
      <4> QED BY <2>2, <2>3, <3>1, <4>1
    <3>2. CASE v # x
      <4>1. Shared(N, nd, at, k, g, v)
        BY <1>11, <2>5, <3>2
      <4>2. PICK r \in 1..Len(fd) : fd[r].len = nd[v].len
        BY <4>1 DEF FoundFrom
      <4>3. r \in 1..Len(z)
        BY <2>3
      <4> QED BY <2>3, <4>2, <4>3
    <3> QED BY <3>1, <3>2
  <2>6. FoundFrom(N, nd, at, z, k, h)
    BY <2>3, <2>4, <2>5 DEF FoundFrom
  <2> QED BY <1>2, <1>6, <1>10, <1>13, <2>6 DEF y, z
<1> QED BY <1>12, <1>13

LEMMA ClimbIsOver ==
    ASSUME NEW N, NEW nd, NEW at, Automaton(N, nd, at), NEW k \in 0..N - 1, NEW ls, NEW fd,
           NEW x, NEW g, Climbs(N, nd, at, x, k, g), NotedFrom(N, nd, at, ls, k, g),
           FoundFrom(N, nd, at, fd, k, g), x # Null => nd[x].len < MinMatchLen
    PROVE  Noted(N, nd, at, ls, k + 1) /\ FoundFrom(N, nd, at, fd, k, 0)
<1> DEFINE e == N - k
<1>0. N \in Nat /\ e \in 0..N /\ e \in Nat /\ k \in Nat /\ NodesOK(nd) /\ MinMatchLen \in Nat \ {0}
  <2>1. N \in Nat /\ NodesOK(nd)
    BY DEF Automaton
  <2> QED BY <2>1, SuffAutAssumption
<1>e. e = N - k
  OBVIOUS
<1> HIDE DEF e
<1>1. g \in 0..e + 1 /\ g \in Nat
  BY <1>0, <1>e DEF Climbs
<1>2. ASSUME NEW v \in 1..Len(nd), nd[v].len >= MinMatchLen
      PROVE  OnPath(e, at, 0, e, v) <=> OnPath(e, at, g, e, v)
  <2>1. ASSUME OnPath(e, at, g, e, v) PROVE OnPath(e, at, 0, e, v)
    <3>1. g..e \subseteq 0..e
      BY <1>1
    <3> QED BY <2>1, <3>1 DEF OnPath
  <2>2. ASSUME OnPath(e, at, 0, e, v), ~ OnPath(e, at, g, e, v) PROVE FALSE
    <3>1. nd[v].len \in 0..e /\ at[e][nd[v].len] = v
      BY <1>0, <2>2, OnPathLongest
    <3>2. nd[v].len < g
      <4>1. nd[v].len \notin g..e
        BY <2>2, <3>1 DEF OnPath
      <4> QED BY <1>0, <1>1, <3>1, <4>1
    <3>3. g # 0 /\ g > 0 /\ nd[v].len <= g - 1 /\ g - 1 \in 0..e
      BY <1>0, <1>1, <3>1, <3>2
    <3>4. x = at[e][g - 1] /\ nd[x].len = g - 1
      BY <1>e, <3>3 DEF Climbs
    <3>5. x # Null
      <4>1. x \in 1..Len(nd)
        BY <1>0, <3>3, <3>4, StateFacts
      <4> QED BY <4>1 DEF Null
    <3> QED BY <1>0, <1>1, <1>2, <3>1, <3>3, <3>4, <3>5
  <2> QED BY <2>1, <2>2
<1>3. ASSUME NEW v \in 1..Len(nd), nd[v].len >= MinMatchLen PROVE IsLastOf(ls[v], Passing(N, at, v, k + 1))
  <2>1. IF OnPath(e, at, g, e, v) THEN ls[v] = k ELSE IsLastOf(ls[v], Passing(N, at, v, k))
    BY <1>3, <1>e DEF NotedFrom
  <2>2. CASE OnPath(e, at, g, e, v)
    <3>1. k \in Passing(N, at, v, k + 1)
      <4>1. k \in 0..(k + 1) - 1
        BY <1>0
      <4> QED BY <1>2, <1>3, <1>e, <2>2, <4>1 DEF Passing
    <3>2. \A j \in Passing(N, at, v, k + 1) : j <= k
      BY <1>0 DEF Passing
    <3> QED BY <2>1, <2>2, <3>1, <3>2 DEF IsLastOf
  <2>3. CASE ~ OnPath(e, at, g, e, v)
    <3>1. ~ OnPath(N - k, at, 0, N - k, v)
      BY <1>2, <1>3, <1>e, <2>3
    <3>2. 0..(k + 1) - 1 = (0..k - 1) \cup {k}
      BY <1>0
    <3>3. Passing(N, at, v, k + 1) = Passing(N, at, v, k)
      BY <3>1, <3>2 DEF Passing
    <3> QED BY <2>1, <2>3, <3>3
  <2> QED BY <2>2, <2>3
<1>4. \A v : Shared(N, nd, at, k, 0, v) <=> Shared(N, nd, at, k, g, v)
  BY <1>2, <1>e DEF Shared
<1>5. FoundFrom(N, nd, at, fd, k, 0)
  BY <1>4 DEF FoundFrom
<1> QED BY <1>3, <1>5 DEF Noted

(* What the words of the text's automaton are in the text. *)
LEMMA MirrorPiece ==
    ASSUME Mirrored, NEW k \in 0..Len(text), NEW l \in 0..Len(text) - k
    PROVE  /\ Len(word) = Len(text) /\ Len(text) \in Nat \ {0} /\ word \in Seq({0, 1})
           /\ Reverse(SubSeq(text, k + 1, k + l)) = Piece(Len(text) - k, l)
<1> DEFINE N == Len(text)
<1>0. /\ text \in Seq({0, 1}) /\ N \in Nat \ {0} /\ Len(word) = N /\ word \in Seq({0, 1})
      /\ \A a \in 1..N : word[a] = text[(N - a) + 1]
  <2>1. text \in Seq({0, 1}) /\ text # << >>
    BY SuffAutAssumption DEF Mirrored
  <2>2. N \in Nat \ {0}
    BY <2>1, EmptySeq
  <2> QED BY <2>1, <2>2, ReverseFacts DEF Mirrored
<1>n. N = Len(text)
  OBVIOUS
<1> HIDE DEF N
<1>1. k \in Nat /\ l \in Nat /\ k <= k + l /\ k + l \in Nat /\ k + l <= N /\ (k + l) - k = l
      /\ N - k \in 0..N /\ l \in 0..N - k
  BY <1>0, <1>n
<1> DEFINE s == SubSeq(text, k + 1, k + l)
<1>2. s \in Seq({0, 1}) /\ Len(s) = l /\ \A a \in 1..l : s[a] = text[k + a]
  <2>1. /\ s \in Seq({0, 1}) /\ Len(s) = (k + l) - k
        /\ \A a \in 1..(k + l) - k : s[a] = text[k + a]
    BY ONLY <1>0, <1>1, <1>n, CutAt
  <2> QED BY <1>1, <2>1
<1> HIDE DEF s
<1>3. Reverse(s) \in Seq({0, 1}) /\ Len(Reverse(s)) = l /\ \A a \in 1..l : Reverse(s)[a] = s[(l - a) + 1]
  BY <1>2, ReverseFacts
<1>4. /\ Piece(N - k, l) \in Seq({0, 1}) /\ Len(Piece(N - k, l)) = l
      /\ \A a \in 1..l : Piece(N - k, l)[a] = word[((N - k) - l) + a]
  <2>1. N - k \in 0..Len(word)
    BY <1>0, <1>1
  <2> QED BY ONLY <1>0, <1>1, <2>1, PieceFacts
<1>5. ASSUME NEW a \in 1..l PROVE Reverse(s)[a] = Piece(N - k, l)[a]
  <2>1. (l - a) + 1 \in 1..l /\ ((N - k) - l) + a \in 1..N
        /\ (N - (((N - k) - l) + a)) + 1 = k + ((l - a) + 1)
    BY <1>0, <1>1
  <2>2. Reverse(s)[a] = s[(l - a) + 1] /\ Piece(N - k, l)[a] = word[((N - k) - l) + a]
    BY ONLY <1>3, <1>4, a \in 1..l
  <2>3. s[(l - a) + 1] = text[k + ((l - a) + 1)]
    BY ONLY <1>2, <2>1
  <2>4. word[((N - k) - l) + a] = text[(N - (((N - k) - l) + a)) + 1]
    BY ONLY <1>0, <2>1
  <2> QED BY ONLY <2>1, <2>2, <2>3, <2>4
<1>6. Reverse(s) = Piece(N - k, l)
  BY ONLY <1>3, <1>4, <1>5, SeqEqual
<1> QED BY <1>0, <1>6 DEF s, N

LEMMA AgreeIsSame ==
    ASSUME Mirrored, NEW k \in 0..Len(text), NEW l \in 0..Len(text) - k, NEW j \in 0..Len(text)
    PROVE  AgreeOver(text, k, j, l) <=> l <= Len(text) - j /\ Same(Len(text) - k, Len(text) - j, l)
<1> DEFINE N == Len(text)
<1>0. N \in Nat /\ \A a \in 1..N : word[a] = text[(N - a) + 1]
  <2>1. text \in Seq({0, 1})
    BY SuffAutAssumption DEF Mirrored
  <2> QED BY <2>1, ReverseFacts DEF Mirrored
<1>n. N = Len(text)
  OBVIOUS
<1> HIDE DEF N
<1>1. k \in Nat /\ l \in Nat /\ j \in Nat /\ k + l <= N /\ j <= N /\ k <= N
  BY <1>0, <1>n
<1>2. AgreeOver(text, k, j, l) <=> j + l <= N /\ \A a \in 1..l : text[k + a] = text[j + a]
  BY <1>n DEF AgreeOver
<1>3. ASSUME j + l <= N, \A a \in 1..l : text[k + a] = text[j + a] PROVE Same(N - k, N - j, l)
  <2> SUFFICES ASSUME NEW a \in 0..l - 1 PROVE word[(N - k) - a] = word[(N - j) - a]
    BY DEF Same
  <2>1. /\ a + 1 \in 1..l /\ (N - k) - a \in 1..N /\ (N - j) - a \in 1..N
        /\ (N - ((N - k) - a)) + 1 = k + (a + 1) /\ (N - ((N - j) - a)) + 1 = j + (a + 1)
    BY <1>0, <1>1, <1>3
  <2> QED BY ONLY <1>0, <1>3, <2>1
<1>4. ASSUME j + l <= N, Same(N - k, N - j, l), NEW a \in 1..l PROVE text[k + a] = text[j + a]
  <2>1. /\ a - 1 \in 0..l - 1 /\ (N - k) - (a - 1) \in 1..N /\ (N - j) - (a - 1) \in 1..N
        /\ (N - ((N - k) - (a - 1))) + 1 = k + a /\ (N - ((N - j) - (a - 1))) + 1 = j + a
    BY <1>0, <1>1, <1>4
  <2>2. word[(N - k) - (a - 1)] = word[(N - j) - (a - 1)]
    BY <1>4, <2>1 DEF Same
  <2> QED BY ONLY <1>0, <2>1, <2>2
<1>5. l <= N - j <=> j + l <= N
  BY <1>0, <1>1
<1>6. AgreeOver(text, k, j, l) <=> l <= N - j /\ Same(N - k, N - j, l)
  BY <1>2, <1>3, <1>4, <1>5
<1> QED BY <1>6 DEF N

LEMMA PrepareOK ==
    ASSUME BuildInv, Mirrored, MatchInv, PrepareMatches
    PROVE  MatchInv'
<1>1. PICK at : Automaton(added, nodes, at)
  BY DEF BuildInv, PrepareMatches
<1>2. PICK N, nd : N = Len(text) /\ nd = nodes
  OBVIOUS
<1>3. 0 \in 0..Len(text) /\ 0 \in 0..Len(text) - 0 /\ Len(text) \in Nat
  BY SuffAutAssumption DEF Mirrored
<1>4. Len(word) = N /\ N \in Nat \ {0}
  BY <1>2, <1>3, MirrorPiece
<1>5. /\ added = N /\ added' = N /\ nodes' = nd /\ word' = word /\ i' = i /\ iPtr' = 0 /\ pc' = "parse"
      /\ vs' = [k \in 1..N |-> StateOf(Reverse(Suffix(k - 1)))]
      /\ lastSuff' = [v \in 1..Len(nd) |-> None]
  BY <1>2 DEF PrepareMatches, build
<1>6. Automaton(added, nodes, at)'
  <2>1. Automaton(N, nd, at)
    BY <1>1, <1>2, <1>5
  <2> QED BY ONLY <1>5, <2>1, Carry
<1>7. ASSUME NEW k \in 0..N - 1 PROVE vs'[k + 1] = at[N - k][N - k]
  <2>1. k + 1 \in 1..N /\ (k + 1) - 1 = k /\ k \in 0..N /\ N - k \in 0..N - k /\ k + (N - k) = N
        /\ N - k \in 0..N
    BY <1>4
  <2>2. vs'[k + 1] = StateOf(Reverse(SubSeq(text, k + 1, N)))
    BY ONLY <1>2, <1>5, <2>1 DEF Suffix
  <2>3. Reverse(SubSeq(text, k + 1, k + (N - k))) = Piece(N - k, N - k)
    BY <1>2, <2>1, MirrorPiece
  <2>4. StateOf(Piece(N - k, N - k)) = at[N - k][N - k]
    BY <1>1, <1>5, <2>1, StateOfPiece
  <2> QED BY <2>1, <2>2, <2>3, <2>4
<1>8. Noted(N, nd, at, lastSuff', 0)
  <2>1. \A v : Passing(N, at, v, 0) = {}
    BY DEF Passing
  <2> QED BY <1>5, <2>1 DEF Noted, IsLastOf
<1>9. lastSuff' \in [1..Len(nd) -> Int]
  BY <1>5 DEF None
<1>10. Found'
  <2>1. 0 \in 0..Len(word)
    BY <1>4
  <2> QED BY ONLY <1>4, <1>5, <1>6, <1>7, <1>8, <1>9, <2>1 DEF Found
<1> QED BY <1>5, <1>10 DEF MatchInv

(* What stays when the automaton is built. *)
LEMMA AutomatonStays ==
    ASSUME word' = word, UNCHANGED build, NEW at, Automaton(added, nodes, at)
    PROVE  Automaton(added, nodes, at)' /\ added' = added /\ nodes' = nodes
<1>1. PICK m, nd : m = added /\ nd = nodes
  OBVIOUS
<1>2. added' = m /\ nodes' = nd
  BY <1>1 DEF build
<1>3. Automaton(m, nd, at)
  BY <1>1
<1>4. Automaton(added, nodes, at)'
  BY ONLY word' = word, <1>2, <1>3, Carry
<1> QED BY <1>1, <1>2, <1>4

LEMMA TextLen ==
    ASSUME Mirrored
    PROVE  Len(text) = Len(word) /\ Len(word) \in Nat
BY SuffAutAssumption, ReverseFacts DEF Mirrored

LEMMA GetMatchOK ==
    ASSUME MatchInv, Mirrored, GetMatch
    PROVE  MatchInv'
<1>1. /\ pc = "parse" /\ pc' = "get" /\ i < Len(word) /\ iPtr <= i /\ word' = word /\ UNCHANGED build
      /\ UNCHANGED <<text, vs, lastSuff, iPtr, u, found, i>>
  BY TextLen DEF GetMatch, query
<1>2. PICK at : /\ Automaton(added, nodes, at)
                /\ \A k \in 0..Len(word) - 1 : vs[k + 1] = at[Len(word) - k][Len(word) - k]
                /\ Noted(Len(word), nodes, at, lastSuff, iPtr)
  BY <1>1 DEF MatchInv, Found
<1>3. Automaton(added, nodes, at)' /\ added' = added /\ nodes' = nodes
  BY <1>1, <1>2, AutomatonStays
<1>4. i \in Nat /\ added = Len(word) /\ iPtr \in 0..Len(word) /\ lastSuff \in [1..Len(nodes) -> Int]
      /\ iPtr <= i + 1 /\ iPtr # i + 1
  BY <1>1 DEF MatchInv, Found
<1>5. Found'
  BY ONLY <1>1, <1>2, <1>3, <1>4 DEF Found
<1> QED BY <1>1, <1>4, <1>5 DEF MatchInv

LEMMA StartSuffixOK ==
    ASSUME MatchInv, Mirrored, StartSuffix
    PROVE  MatchInv'
<1>1. /\ pc = "get" /\ pc' = "climb" /\ iPtr <= i /\ word' = word /\ UNCHANGED build
      /\ UNCHANGED <<text, vs, lastSuff, iPtr, i>> /\ found' = << >> /\ u' = vs[iPtr + 1]
  BY DEF StartSuffix
<1>2. PICK at : /\ Automaton(added, nodes, at)
                /\ \A k \in 0..Len(word) - 1 : vs[k + 1] = at[Len(word) - k][Len(word) - k]
                /\ Noted(Len(word), nodes, at, lastSuff, iPtr)
  BY <1>1 DEF MatchInv, Found
<1>3. Automaton(added, nodes, at)' /\ added' = added /\ nodes' = nodes
  BY <1>1, <1>2, AutomatonStays
<1>4. i \in Nat /\ added = Len(word) /\ iPtr \in 0..Len(word) /\ lastSuff \in [1..Len(nodes) -> Int]
      /\ i < Len(word) /\ Len(word) \in Nat
  BY <1>1, TextLen DEF MatchInv, Found
<1>5. PICK N, nd, ls, k : N = Len(word) /\ nd = nodes /\ ls = lastSuff /\ k = iPtr
  OBVIOUS
<1>6. k \in 0..N - 1
  BY <1>1, <1>4, <1>5
<1>7. u' = at[N - k][N - k]
  BY <1>1, <1>2, <1>5, <1>6
<1>8. /\ Climbs(N, nd, at, at[N - k][N - k], k, (N - k) + 1)
      /\ NotedFrom(N, nd, at, ls, k, (N - k) + 1)
      /\ FoundFrom(N, nd, at, << >>, k, (N - k) + 1)
  <2>1. Automaton(N, nd, at) /\ Noted(N, nd, at, ls, k)
    BY <1>2, <1>4, <1>5
  <2> QED BY ONLY <1>6, <2>1, Unvisited
<1>9. \E g : /\ Climbs(Len(word'), nodes', at, u', iPtr', g)
             /\ NotedFrom(Len(word'), nodes', at, lastSuff', iPtr', g)
             /\ FoundFrom(Len(word'), nodes', at, found', iPtr', g)
  BY ONLY <1>1, <1>3, <1>5, <1>7, <1>8
<1>10. Found'
  BY ONLY <1>1, <1>2, <1>3, <1>4, <1>9 DEF Found
<1> QED BY <1>1, <1>4, <1>10 DEF MatchInv

LEMMA ClimbOK ==
    ASSUME MatchInv, Mirrored, Climb
    PROVE  MatchInv'
<1>1. /\ pc = "climb" /\ pc' = "climb" /\ word' = word /\ UNCHANGED build
      /\ UNCHANGED <<text, vs, iPtr, i>> /\ u # Null /\ nodes[u].len >= MinMatchLen
      /\ found' = IF lastSuff[u] = None THEN found
                  ELSE Append(found, [start |-> lastSuff[u], len |-> nodes[u].len])
      /\ lastSuff' = [lastSuff EXCEPT ![u] = iPtr]
      /\ u' = nodes[u].link
  BY DEF Climb
<1>2. PICK at, g : /\ Automaton(added, nodes, at)
                   /\ \A k \in 0..Len(word) - 1 : vs[k + 1] = at[Len(word) - k][Len(word) - k]
                   /\ Climbs(Len(word), nodes, at, u, iPtr, g)
                   /\ NotedFrom(Len(word), nodes, at, lastSuff, iPtr, g)
                   /\ FoundFrom(Len(word), nodes, at, found, iPtr, g)
  BY <1>1 DEF MatchInv, Found
<1>3. Automaton(added, nodes, at)' /\ added' = added /\ nodes' = nodes
  BY <1>1, <1>2, AutomatonStays
<1>4. i \in Nat /\ added = Len(word) /\ iPtr \in 0..Len(word) /\ lastSuff \in [1..Len(nodes) -> Int]
      /\ i < Len(word) /\ iPtr <= i /\ Len(word) \in Nat
  BY <1>1, TextLen DEF MatchInv, Found
<1>5. PICK N, nd, ls, k, x, fd : /\ N = Len(word) /\ nd = nodes /\ ls = lastSuff /\ k = iPtr
                                 /\ x = u /\ fd = found
  OBVIOUS
<1>6. k \in 0..N - 1 /\ k \in Int
  BY <1>1, <1>4, <1>5
<1>7. /\ x \in 1..Len(nd)
      /\ \E h : /\ Climbs(N, nd, at, nd[x].link, k, h)
                /\ NotedFrom(N, nd, at, [ls EXCEPT ![x] = k], k, h)
                /\ FoundFrom(N, nd, at, IF ls[x] = None THEN fd
                             ELSE Append(fd, [start |-> ls[x], len |-> nd[x].len]), k, h)
  <2>1. /\ Automaton(N, nd, at) /\ ls \in [1..Len(nd) -> Int] /\ x # Null /\ Climbs(N, nd, at, x, k, g)
        /\ NotedFrom(N, nd, at, ls, k, g) /\ FoundFrom(N, nd, at, fd, k, g) /\ nd[x].len >= MinMatchLen
    BY <1>1, <1>2, <1>4, <1>5
  <2> QED BY ONLY <1>6, <2>1, ClimbGoesOn
<1>8. \E h : /\ Climbs(Len(word'), nodes', at, u', iPtr', h)
             /\ NotedFrom(Len(word'), nodes', at, lastSuff', iPtr', h)
             /\ FoundFrom(Len(word'), nodes', at, found', iPtr', h)
  BY ONLY <1>1, <1>3, <1>5, <1>7
<1>9. lastSuff' \in [1..Len(nodes') -> Int]
  BY ONLY <1>1, <1>3, <1>4, <1>5, <1>6
<1>10. Found'
  BY ONLY <1>1, <1>2, <1>3, <1>4, <1>8, <1>9 DEF Found
<1> QED BY <1>1, <1>4, <1>10 DEF MatchInv

LEMMA EndSuffixOK ==
    ASSUME MatchInv, Mirrored, EndSuffix
    PROVE  MatchInv'
<1>1. /\ pc = "climb" /\ pc' = "get" /\ word' = word /\ UNCHANGED build
      /\ UNCHANGED <<text, vs, lastSuff, u, found, i>> /\ iPtr' = iPtr + 1
      /\ u # Null => nodes[u].len < MinMatchLen
  BY DEF EndSuffix
<1>2. PICK at, g : /\ Automaton(added, nodes, at)
                   /\ \A k \in 0..Len(word) - 1 : vs[k + 1] = at[Len(word) - k][Len(word) - k]
                   /\ Climbs(Len(word), nodes, at, u, iPtr, g)
                   /\ NotedFrom(Len(word), nodes, at, lastSuff, iPtr, g)
                   /\ FoundFrom(Len(word), nodes, at, found, iPtr, g)
  BY <1>1 DEF MatchInv, Found
<1>3. Automaton(added, nodes, at)' /\ added' = added /\ nodes' = nodes
  BY <1>1, <1>2, AutomatonStays
<1>4. i \in Nat /\ added = Len(word) /\ iPtr \in 0..Len(word) /\ lastSuff \in [1..Len(nodes) -> Int]
      /\ i < Len(word) /\ iPtr <= i /\ Len(word) \in Nat
  BY <1>1, TextLen DEF MatchInv, Found
<1>5. PICK N, nd, ls, k, x, fd : /\ N = Len(word) /\ nd = nodes /\ ls = lastSuff /\ k = iPtr
                                 /\ x = u /\ fd = found
  OBVIOUS
<1>6. k \in 0..N - 1
  BY <1>4, <1>5
<1>7. Noted(N, nd, at, ls, k + 1) /\ FoundFrom(N, nd, at, fd, k, 0)
  <2>1. /\ Automaton(N, nd, at) /\ Climbs(N, nd, at, x, k, g) /\ (x # Null => nd[x].len < MinMatchLen)
        /\ NotedFrom(N, nd, at, ls, k, g) /\ FoundFrom(N, nd, at, fd, k, g)
    BY <1>1, <1>2, <1>4, <1>5
  <2> QED BY ONLY <1>6, <2>1, ClimbIsOver
<1>8. /\ Noted(Len(word'), nodes', at, lastSuff', iPtr')
      /\ iPtr' = i' + 1 => FoundFrom(Len(word'), nodes', at, found', i', 0)
  <2>1. iPtr' = i' + 1 => k = i'
    BY ONLY <1>1, <1>4, <1>5
  <2> QED BY ONLY <1>1, <1>3, <1>5, <1>7, <2>1
<1>9. iPtr' \in 0..Len(word') /\ iPtr' <= i' + 1
  BY ONLY <1>1, <1>4
<1>10. Found'
  BY ONLY <1>1, <1>2, <1>3, <1>4, <1>8, <1>9 DEF Found
<1> QED BY <1>1, <1>4, <1>10 DEF MatchInv

LEMMA ReturnOK ==
    ASSUME MatchInv, Mirrored, Return
    PROVE  MatchInv'
<1>1. /\ pc = "get" /\ pc' = "take" /\ iPtr > i /\ word' = word /\ UNCHANGED build
      /\ UNCHANGED <<text, vs, lastSuff, iPtr, u, found, i>>
  BY DEF Return, query
<1>2. i \in Nat /\ added = Len(word) /\ iPtr \in 0..Len(word) /\ lastSuff \in [1..Len(nodes) -> Int]
      /\ i < Len(word) /\ iPtr <= i + 1 /\ Len(word) \in Nat
  BY <1>1, TextLen DEF MatchInv, Found
<1>3. iPtr = i + 1
  BY ONLY <1>1, <1>2
<1>4. PICK at : /\ Automaton(added, nodes, at)
                /\ \A k \in 0..Len(word) - 1 : vs[k + 1] = at[Len(word) - k][Len(word) - k]
                /\ Noted(Len(word), nodes, at, lastSuff, iPtr)
                /\ FoundFrom(Len(word), nodes, at, found, i, 0)
  BY <1>1, <1>3 DEF MatchInv, Found
<1>5. Automaton(added, nodes, at)' /\ added' = added /\ nodes' = nodes
  BY <1>1, <1>4, AutomatonStays
<1>6. Found'
  BY ONLY <1>1, <1>2, <1>3, <1>4, <1>5 DEF Found
<1> QED BY <1>1, <1>2, <1>6 DEF MatchInv

LEMMA TakeOrSkipOK ==
    ASSUME MatchInv, Mirrored, Take \/ Skip
    PROVE  MatchInv'
<1>1. /\ pc = "take" /\ pc' = "parse" /\ word' = word /\ UNCHANGED build
      /\ UNCHANGED <<text, vs, lastSuff, iPtr, u, found>>
      /\ i' = i + 1 \/ \E k \in 1..Len(found) : i' = i + found[k].len
  BY DEF Take, Skip, query
<1>2. i \in Nat /\ added = Len(word) /\ iPtr \in 0..Len(word) /\ lastSuff \in [1..Len(nodes) -> Int]
  BY <1>1 DEF MatchInv, Found
<1>3. PICK at : /\ Automaton(added, nodes, at)
                /\ \A k \in 0..Len(word) - 1 : vs[k + 1] = at[Len(word) - k][Len(word) - k]
                /\ Noted(Len(word), nodes, at, lastSuff, iPtr)
                /\ FoundFrom(Len(word), nodes, at, found, i, 0)
  BY <1>1 DEF MatchInv, Found
<1>4. i' \in Nat
  <2>1. ASSUME NEW k \in 1..Len(found), i' = i + found[k].len PROVE i' \in Nat
    <3>1. found \in Seq([start : Int, len : Nat])
      BY <1>3 DEF FoundFrom
    <3>2. found[k] \in [start : Int, len : Nat]
      BY <3>1, ElementOfSeq
    <3> QED BY <1>2, <2>1, <3>2
  <2> QED BY <1>1, <1>2, <2>1
<1>5. Automaton(added, nodes, at)' /\ added' = added /\ nodes' = nodes
  BY <1>1, <1>3, AutomatonStays
<1>6. Found'
  BY ONLY <1>1, <1>2, <1>3, <1>5 DEF Found
<1> QED BY <1>1, <1>4, <1>6 DEF MatchInv

LEMMA MatchStays ==
    ASSUME MatchInv, UNCHANGED vars
    PROVE  MatchInv'
<1>1. /\ word' = word /\ UNCHANGED build /\ pc' = pc
      /\ UNCHANGED <<text, vs, lastSuff, iPtr, u, found, i>>
  BY DEF vars, query
<1>2. CASE pc \in {"parse", "get", "climb", "take"}
  <2>1. Found /\ added' = added /\ nodes' = nodes
    BY <1>1, <1>2 DEF MatchInv, build
  <2>2. \A at : Automaton(added, nodes, at) => Automaton(added, nodes, at)'
    BY <1>1, AutomatonStays
  <2>3. Found'
    BY ONLY <1>1, <2>1, <2>2 DEF Found
  <2> QED BY <1>1, <2>3 DEF MatchInv
<1>3. CASE pc \notin {"parse", "get", "climb", "take"}
  BY <1>1, <1>3 DEF MatchInv
<1> QED BY <1>2, <1>3

LEMMA MatchStep ==
    ASSUME BuildInv, Mirrored, MatchInv, [Next]_vars
    PROVE  MatchInv'
<1>1. CASE Build
  <2>1. pc' \in {"add", "fill", "redirect"} /\ i' = i
    BY <1>1 DEF Build, AddCharacters, Add, Fill, LinkToRoot, LinkToTarget, LinkTo, CloneTarget,
       Redirect, EndRedirect
  <2> QED BY <2>1 DEF MatchInv
<1>2. CASE UNCHANGED vars
  BY <1>2, MatchStays
<1> QED BY <1>1, <1>2, PrepareOK, GetMatchOK, StartSuffixOK, ClimbOK, EndSuffixOK, ReturnOK,
           TakeOrSkipOK DEF Next, Done

(* While run_lz asks for matches, last_suff holds the last suffix that each state
   was left with, and the matches found so far are those of the states that
   shift_start has climbed through. *)
THEOREM MatchInvariant == Spec => [](BuildInv /\ Mirrored /\ MatchInv)
<1>1. Init => MatchInv
  BY DEF Init, StartsEmpty, MatchInv
<1> QED BY <1>1, BuildInvariant, MatchStep, PTL DEF Spec

(* The suffixes that came by a state begin with each of its words. *)
LEMMA PassingPiece ==
    ASSUME Mirrored, added = Len(word), NEW at, Automaton(added, nodes, at),
           NEW k \in 0..Len(text) - 1, NEW l \in 0..Len(text) - k, NEW b \in 0..Len(text)
    PROVE  /\ Passing(Len(text), at, at[Len(text) - k][l], b) = {j \in 0..b - 1 : AgreeOver(text, k, j, l)}
           /\ at[Len(text) - k][l] \in 1..Len(nodes)
           /\ nodes[at[Len(text) - k][l]].len \in l..Len(text) - k
           /\ OnPath(Len(text) - k, at, 0, Len(text) - k, at[Len(text) - k][l])
<1> DEFINE N == Len(text)
<1>n. N = Len(text)
  OBVIOUS
<1> HIDE DEF N
<1>0. N \in Nat /\ added = N /\ k \in Nat /\ k \in 0..N /\ N - k \in 0..N /\ l \in 0..N - k /\ b \in 0..N
  BY TextLen, <1>n
<1>1. ASSUME NEW j \in 0..b - 1
      PROVE  OnPath(N - j, at, 0, N - j, at[N - k][l]) <=> AgreeOver(text, k, j, l)
  <2>1. j \in 0..N /\ N - j \in 0..N
    BY <1>0
  <2>2. OnPath(N - j, at, 0, N - j, at[N - k][l]) <=> l <= N - j /\ Same(N - k, N - j, l)
    BY <1>0, <2>1, OnPathIsSame
  <2>3. AgreeOver(text, k, j, l) <=> l <= N - j /\ Same(N - k, N - j, l)
    BY <1>0, <1>n, <2>1, AgreeIsSame
  <2> QED BY <2>2, <2>3
<1>2. Passing(N, at, at[N - k][l], b) = {j \in 0..b - 1 : AgreeOver(text, k, j, l)}
  BY <1>1 DEF Passing
<1>3. at[N - k][l] \in 1..Len(nodes) /\ nodes[at[N - k][l]].len \in l..N - k
  BY <1>0, StateFacts
<1>4. OnPath(N - k, at, 0, N - k, at[N - k][l])
  BY <1>0 DEF OnPath
<1> QED BY <1>2, <1>3, <1>4 DEF N

LEMMA LastIsNoted ==
    ASSUME BuildInv, Mirrored, MatchInv
    PROVE  NotedSuffixIsLast
<1> SUFFICES ASSUME pc \in {"get", "parse", "take"}, NEW k \in 0..Len(text) - 1, NEW l \in MinMatchLen..Len(text) - k
             PROVE  LET v == StateOf(Reverse(SubSeq(text, k + 1, k + l)))
                        before == {j \in 0..iPtr - 1 : AgreeOver(text, k, j, l)}
                    IN  IF before = {} THEN lastSuff[v] = None
                        ELSE lastSuff[v] \in before /\ \A j \in before : j <= lastSuff[v]
  BY DEF NotedSuffixIsLast
<1>1. Len(text) = Len(word) /\ Len(text) \in Nat /\ MinMatchLen \in Nat \ {0}
  BY TextLen, SuffAutAssumption
<1>2. k \in 0..Len(text) /\ l \in 0..Len(text) - k /\ Len(text) - k \in 0..Len(text)
  BY <1>1
<1>3. PICK at : /\ Automaton(added, nodes, at) /\ added = Len(word) /\ iPtr \in 0..Len(word)
                /\ Noted(Len(word), nodes, at, lastSuff, iPtr)
  BY DEF MatchInv, Found
<1> DEFINE v == at[Len(text) - k][l]
           before == {j \in 0..iPtr - 1 : AgreeOver(text, k, j, l)}
<1>4. /\ Passing(Len(text), at, v, iPtr) = before
      /\ v \in 1..Len(nodes) /\ nodes[v].len \in l..Len(text) - k
  BY <1>1, <1>2, <1>3, PassingPiece
<1>5. StateOf(Reverse(SubSeq(text, k + 1, k + l))) = v
  <2>1. Reverse(SubSeq(text, k + 1, k + l)) = Piece(Len(text) - k, l)
    BY <1>2, MirrorPiece
  <2>2. Len(text) - k \in 0..added
    BY <1>1, <1>2, <1>3
  <2> QED BY <1>2, <1>3, <2>1, <2>2, StateOfPiece
<1>6. IsLastOf(lastSuff[v], before)
  <2>1. nodes[v].len >= MinMatchLen
    BY <1>1, <1>2, <1>4
  <2> QED BY <1>1, <1>3, <1>4, <2>1 DEF Noted
<1> HIDE DEF v, before
<1>7. IF before = {} THEN lastSuff[v] = None
      ELSE lastSuff[v] \in before /\ \A j \in before : j <= lastSuff[v]
  BY <1>6 DEF IsLastOf
<1> QED BY <1>5, <1>7 DEF before

(* Between two suffixes the automaton notes in each state the last suffix that
   begins with the state's words, for every text. *)
THEOREM NotedIsLast == Spec => []NotedSuffixIsLast
BY MatchInvariant, LastIsNoted, PTL
-----------------------------------------------------------------------------
(* The parse. *)
LEMMA AgreeSwapped ==
    ASSUME NEW x \in Nat, NEW y \in Nat, NEW l \in Nat, Len(text) \in Nat, x < y
    PROVE  AgreeOver(text, x, y, l) <=> y + l <= Len(text) /\ AgreeOver(text, y, x, l)
<1>1. y + l <= Len(text) => x + l <= Len(text)
  OBVIOUS
<1> QED BY <1>1 DEF AgreeOver

LEMMA SharedIsMatch ==
    ASSUME Mirrored, added = Len(word), NEW at, Automaton(added, nodes, at),
           NEW k \in 0..Len(text) - 1, NEW v, Shared(Len(text), nodes, at, k, 0, v)
    PROVE  /\ nodes[v].len \in MinMatchLen..Len(text) - k
           /\ v = at[Len(text) - k][nodes[v].len]
           /\ Passing(Len(text), at, v, k) = {j \in 0..k - 1 : AgreeOver(text, j, k, nodes[v].len)}
<1> DEFINE N == Len(text)
<1>n. N = Len(text)
  OBVIOUS
<1> HIDE DEF N
<1>0. N \in Nat /\ added = N /\ k \in Nat /\ k \in 0..N /\ N - k \in 0..N /\ MinMatchLen \in Nat
  BY TextLen, SuffAutAssumption, <1>n
<1>1. OnPath(N - k, at, 0, N - k, v) /\ nodes[v].len >= MinMatchLen
  BY <1>n DEF Shared
<1>2. nodes[v].len \in 0..N - k /\ at[N - k][nodes[v].len] = v
  BY <1>0, <1>1, OnPathLongest
<1>3. Passing(N, at, v, k) = {j \in 0..k - 1 : AgreeOver(text, k, j, nodes[v].len)}
  <2>1. PICK l \in 0..N - k : l = nodes[v].len /\ at[N - k][l] = v
    BY <1>2
  <2>2. l \in 0..Len(text) - k /\ k \in 0..Len(text) - 1 /\ k \in 0..Len(text)
    BY <1>0, <1>n, <2>1
  <2>3. Passing(N, at, at[N - k][l], k) = {j \in 0..k - 1 : AgreeOver(text, k, j, l)}
    BY <1>n, <2>2, PassingPiece
  <2> QED BY <2>1, <2>3
<1>4. ASSUME NEW j \in 0..k - 1
      PROVE  AgreeOver(text, k, j, nodes[v].len) <=> AgreeOver(text, j, k, nodes[v].len)
  <2>1. j \in Nat /\ nodes[v].len \in Nat /\ j < k /\ k + nodes[v].len <= Len(text) /\ Len(text) \in Nat
    BY <1>0, <1>2, <1>n
  <2> QED BY ONLY <1>0, <2>1, AgreeSwapped
<1>5. Passing(N, at, v, k) = {j \in 0..k - 1 : AgreeOver(text, j, k, nodes[v].len)}
  BY <1>3, <1>4
<1>6. nodes[v].len \in MinMatchLen..N - k
  BY ONLY <1>0, <1>1, <1>2
<1> QED BY <1>2, <1>5, <1>6 DEF N

LEMMA MatchIsShared ==
    ASSUME Mirrored, added = Len(word), NEW at, Automaton(added, nodes, at),
           NEW k \in 0..Len(text) - 1, NEW a \in 0..k - 1, NEW l \in MinMatchLen..Len(text) - k,
           AgreeOver(text, a, k, l)
    PROVE  /\ Shared(Len(text), nodes, at, k, 0, at[Len(text) - k][l])
           /\ a \in Passing(Len(text), at, at[Len(text) - k][l], k)
           /\ nodes[at[Len(text) - k][l]].len \in Nat /\ l <= nodes[at[Len(text) - k][l]].len
<1> DEFINE N == Len(text)
<1>n. N = Len(text)
  OBVIOUS
<1> HIDE DEF N
<1>0. N \in Nat /\ added = N /\ k \in Nat /\ k \in 0..N /\ N - k \in 0..N /\ MinMatchLen \in Nat
      /\ l \in 0..N - k /\ l \in Nat /\ a \in Nat /\ a < k /\ l >= MinMatchLen
  BY TextLen, SuffAutAssumption, <1>n
<1>1. AgreeOver(text, k, a, l)
  <2>1. Len(text) \in Nat
    BY <1>0, <1>n
  <2> QED BY <1>0, <2>1, AgreeSwapped
<1>2. /\ Passing(N, at, at[N - k][l], k) = {j \in 0..k - 1 : AgreeOver(text, k, j, l)}
      /\ at[N - k][l] \in 1..Len(nodes) /\ nodes[at[N - k][l]].len \in l..N - k
      /\ OnPath(N - k, at, 0, N - k, at[N - k][l])
  BY <1>0, <1>n, PassingPiece
<1>3. a \in Passing(N, at, at[N - k][l], k)
  BY <1>1, <1>2
<1>4. nodes[at[N - k][l]].len \in Nat /\ l <= nodes[at[N - k][l]].len /\ nodes[at[N - k][l]].len >= MinMatchLen
  BY ONLY <1>0, <1>2
<1>5. Shared(N, nodes, at, k, 0, at[N - k][l])
  BY ONLY <1>2, <1>3, <1>4 DEF Shared
<1> QED BY <1>3, <1>4, <1>5 DEF N

LEMMA TakesBest ==
    ASSUME Mirrored, MatchInv, Take
    PROVE  ParsesGreedily!Take
<1>1. pc = "take"
  BY DEF Take
<1>2. PICK at : /\ Automaton(added, nodes, at) /\ added = Len(word)
                /\ FoundFrom(Len(word), nodes, at, found, i, 0)
  BY <1>1 DEF MatchInv, Found
<1>3. Len(text) = Len(word) /\ Len(text) \in Nat /\ i \in Nat /\ i < Len(text) /\ i \in 0..Len(text) - 1
      /\ MinMatchLen \in Nat
  BY <1>1, TextLen, SuffAutAssumption DEF MatchInv, Found
<1>4. PICK r \in 1..Len(found) :
        /\ \A l \in 1..Len(found) :
             found[l].len < found[r].len \/ (found[l].len = found[r].len /\ r <= l)
        /\ parse' = Append(parse, <<i, found[r].start, found[r].len>>)
        /\ i' = i + found[r].len
  BY DEF Take
<1>5. PICK v : /\ Shared(Len(text), nodes, at, i, 0, v) /\ found[r].len = nodes[v].len
               /\ IsLastOf(found[r].start, Passing(Len(text), at, v, i))
  BY <1>2, <1>3 DEF FoundFrom
<1>6. PICK s, t : s = found[r].start /\ t = found[r].len
  OBVIOUS
<1>7. /\ t \in MinMatchLen..Len(text) - i /\ v = at[Len(text) - i][t]
      /\ Passing(Len(text), at, v, i) = {j \in 0..i - 1 : AgreeOver(text, j, i, t)}
  BY <1>2, <1>3, <1>5, <1>6, SharedIsMatch
<1>8. s \in Passing(Len(text), at, v, i) /\ \A j \in Passing(Len(text), at, v, i) : j <= s
  BY <1>5, <1>6 DEF IsLastOf, Shared
<1>9. s \in 0..i - 1 /\ AgreeOver(text, s, i, t)
  BY <1>7, <1>8
<1>10. ASSUME NEW a \in 0..i - 1, NEW l \in MinMatchLen..Len(text) - i, AgreeOver(text, a, i, l)
       PROVE  l < t \/ (l = t /\ a <= s)
  <2>1. /\ Shared(Len(text), nodes, at, i, 0, at[Len(text) - i][l])
        /\ a \in Passing(Len(text), at, at[Len(text) - i][l], i)
        /\ nodes[at[Len(text) - i][l]].len \in Nat /\ l <= nodes[at[Len(text) - i][l]].len
    BY <1>2, <1>3, <1>10, MatchIsShared
  <2>2. PICK x \in 1..Len(found) : found[x].len = nodes[at[Len(text) - i][l]].len
    BY <1>2, <1>3, <2>1 DEF FoundFrom
  <2>3. found[x].len \in Nat /\ l <= found[x].len /\ (found[x].len < t \/ found[x].len = t)
    BY <1>4, <1>6, <2>1, <2>2
  <2>4. l < t \/ l = t
    BY ONLY <1>3, <1>7, <2>3, l \in MinMatchLen..Len(text) - i
  <2>5. l = t => a <= s
    BY <1>7, <1>8, <2>1
  <2> QED BY <2>4, <2>5
<1>11. <<s, t>> \in ParsesGreedily!Matches(text, i, MinMatchLen)
  BY <1>7, <1>9 DEF ParsesGreedily!Matches, ParsesGreedily!AgreeOver, AgreeOver
<1>12. ASSUME NEW o \in ParsesGreedily!Matches(text, i, MinMatchLen)
       PROVE  o[2] < t \/ (o[2] = t /\ o[1] <= s)
  <2>1. o[1] \in 0..i - 1 /\ o[2] \in MinMatchLen..Len(text) - i /\ AgreeOver(text, o[1], i, o[2])
    BY DEF ParsesGreedily!Matches, ParsesGreedily!AgreeOver, AgreeOver
  <2> QED BY ONLY <1>10, <2>1
<1>13. ParsesGreedily!IsBestMatch(text, i, MinMatchLen, <<s, t>>)
  BY <1>11, <1>12 DEF ParsesGreedily!IsBestMatch
<1>14. <<s, t>>[1] = s /\ <<s, t>>[2] = t
  OBVIOUS
<1>15. text' = text /\ parse' = Append(parse, <<i, s, t>>) /\ i' = i + t
  BY <1>4, <1>6 DEF Take
<1> QED BY ONLY <1>3, <1>11, <1>13, <1>14, <1>15 DEF ParsesGreedily!Take

LEMMA SkipsWithoutMatch ==
    ASSUME Mirrored, MatchInv, Skip
    PROVE  ParsesGreedily!Skip
<1>1. pc = "take" /\ Len(found) = 0
  BY EmptySeq DEF Skip
<1>2. PICK at : /\ Automaton(added, nodes, at) /\ added = Len(word)
                /\ FoundFrom(Len(word), nodes, at, found, i, 0)
  BY <1>1 DEF MatchInv, Found
<1>3. Len(text) = Len(word) /\ Len(text) \in Nat /\ i \in Nat /\ i < Len(text) /\ i \in 0..Len(text) - 1
  BY <1>1, TextLen DEF MatchInv, Found
<1>4. ASSUME NEW o \in ParsesGreedily!Matches(text, i, MinMatchLen) PROVE FALSE
  <2>1. o[1] \in 0..i - 1 /\ o[2] \in MinMatchLen..Len(text) - i /\ AgreeOver(text, o[1], i, o[2])
    BY DEF ParsesGreedily!Matches, ParsesGreedily!AgreeOver, AgreeOver
  <2>2. Shared(Len(text), nodes, at, i, 0, at[Len(text) - i][o[2]])
    BY <1>2, <1>3, <2>1, MatchIsShared
  <2>3. \E x \in 1..Len(found) : found[x].len = nodes[at[Len(text) - i][o[2]]].len
    BY <1>2, <1>3, <2>2 DEF FoundFrom
  <2> QED BY <1>1, <2>3
<1> QED BY <1>3, <1>4 DEF Skip, ParsesGreedily!Skip

(* What run_lz takes from get_match is a greedy parse, for every text: each
   match it takes is the longest at its position and the last of the longest
   ones, it goes on by one bit only where there is no match, and no other step
   touches the parse. *)
THEOREM TakesBestMatches ==
    Spec => ParsesGreedily!Init /\ [][ParsesGreedily!Next]_(ParsesGreedily!vars)
<1>1. Init => ParsesGreedily!Init
  BY DEF Init, ParsesGreedily!Init
<1>2. BuildInv /\ Mirrored /\ MatchInv /\ [Next]_vars => [ParsesGreedily!Next]_(ParsesGreedily!vars)
  <2> SUFFICES ASSUME Mirrored, MatchInv, [Next]_vars
               PROVE  ParsesGreedily!Next \/ UNCHANGED ParsesGreedily!vars
    OBVIOUS
  <2>1. CASE Take
    BY <2>1, TakesBest DEF ParsesGreedily!Next
  <2>2. CASE Skip
    BY <2>2, SkipsWithoutMatch DEF ParsesGreedily!Next
  <2>3. CASE ~ Take /\ ~ Skip
    BY <2>3 DEF Next, Build, PrepareMatches, GetMatch, StartSuffix, Climb, EndSuffix, Return, Done,
       vars, query, ParsesGreedily!vars
  <2> QED BY <2>1, <2>2, <2>3
<1> QED BY <1>1, <1>2, MatchInvariant, PTL DEF Spec
-----------------------------------------------------------------------------
(* Dictionary.  The training strings, put one behind the other. *)
LEMMA Flattened ==
    ASSUME NEW S, NEW t \in Seq(Seq(S)), Len(t) # 0
    PROVE  FlattenSeq(t) \in Seq(S) /\ PieceEnds(t, Len(t), FlattenSeq(t)) # {}
<1> DEFINE N == Len(t)
           T == Seq(S)
           Turned(g) == g = [k \in 1..N |-> IF k = 1 THEN t[k] ELSE g[k - 1] \o t[k]]
           D == [x \in T \X Nat |-> IF x[2] + 1 \in 1..N THEN x[1] \o t[x[2] + 1] ELSE x[1]]
<1>0. N \in Nat /\ 1 \in 1..N /\ N \in 1..N /\ \A k \in 1..N : t[k] \in T
  BY ElementOfSeq
<1>1. FlattenSeq(t) = (CHOOSE g : Turned(g))[N]
  BY DEF FlattenSeq
<1>2. \E g : Turned(g)
  <2>1. D \in [T \X Nat -> T]
    <3>1. ASSUME NEW x \in T \X Nat
          PROVE  (IF x[2] + 1 \in 1..N THEN x[1] \o t[x[2] + 1] ELSE x[1]) \in T
      <4>1. x[1] \in Seq(S) /\ (x[2] + 1 \in 1..N => t[x[2] + 1] \in Seq(S))
        BY <1>0
      <4> QED BY <4>1, ConcatProperties
    <3> QED BY <3>1
  <2>2. Recursion(T, << >>, D) # {}
    <3>1. << >> \in T
      BY EmptySeq
    <3> HIDE DEF T, D
    <3> QED BY <2>1, <3>1, NatRecursion
  <2>3. PICK h \in [Nat -> T] : h[0] = << >> /\ \A k \in Nat : h[k + 1] = D[<<h[k], k>>]
    <3> HIDE DEF T, D
    <3> QED BY <2>2 DEF Recursion
  <2> DEFINE g == [k \in 1..N |-> h[k]]
  <2>4. ASSUME NEW k \in 1..N PROVE g[k] = IF k = 1 THEN t[k] ELSE g[k - 1] \o t[k]
    <3>1. k - 1 \in Nat /\ (k - 1) + 1 = k
      OBVIOUS
    <3>2. h[(k - 1) + 1] = D[<<h[k - 1], k - 1>>] /\ h[k - 1] \in T
      BY <2>3, <3>1
    <3>3. D[<<h[k - 1], k - 1>>] = h[k - 1] \o t[k]
      BY <3>1, <3>2
    <3>4. CASE k = 1
      <4>1. t[1] \in Seq(S)
        BY <1>0
      <4>2. << >> \o t[1] = t[1]
        BY <4>1, ConcatEmptySeq
      <4>3. k - 1 = 0 /\ h[0] = << >> /\ g[k] = h[k]
        BY <2>3, <3>4
      <4>4. h[k] = h[k - 1] \o t[k]
        BY ONLY <3>1, <3>2, <3>3
      <4> HIDE DEF g
      <4> QED BY ONLY <3>4, <4>2, <4>3, <4>4
    <3>5. CASE k # 1
      <4>1. k - 1 \in 1..N
        BY <1>0, <3>5
      <4>2. g[k] = h[k] /\ g[k - 1] = h[k - 1]
        BY <4>1
      <4>3. h[k] = h[k - 1] \o t[k]
        BY ONLY <3>1, <3>2, <3>3
      <4> HIDE DEF g
      <4> QED BY ONLY <3>5, <4>2, <4>3
    <3> QED BY <3>4, <3>5
  <2>5. Turned(g)
    <3>1. g = [k \in 1..N |-> g[k]]
      OBVIOUS
    <3> HIDE DEF g
    <3> QED BY <2>4, <3>1
  <2> QED BY <2>5
<1>3. PICK g : g = (CHOOSE x : Turned(x))
  OBVIOUS
<1>4. Turned(g)
  BY <1>2, <1>3
<1>5. \A k \in 1..N : g[k] = IF k = 1 THEN t[k] ELSE g[k - 1] \o t[k]
  BY <1>4
<1> DEFINE I == {k \in Nat : k + 1 <= N => g[k + 1] \in T /\ PieceEnds(t, k + 1, g[k + 1]) # {}}
<1>6. 0 \in I
  <2> DEFINE e == [k \in 0..0 |-> 0]
  <2>1. PieceEnds(t, 0, << >>) # {}
    <3>1. e \in [0..0 -> 0..Len(<< >>)] /\ e[0] = 0 /\ Len(<< >>) = 0 /\ 1..0 = {}
      OBVIOUS
    <3>2. e \in PieceEnds(t, 0, << >>)
      BY <3>1 DEF PieceEnds
    <3> QED BY <3>2
  <2>2. t[1] \in Seq(S) /\ << >> \in Seq(S) /\ g[1] = t[1]
    BY <1>0, <1>5, EmptySeq
  <2>3. PieceEnds(t, 0 + 1, << >> \o t[1]) # {}
    <3>1. \A k \in 1..0 : t[k] \in Seq(S) /\ t[k] = t[k]
      OBVIOUS
    <3>2. t[0 + 1] = t[1]
      OBVIOUS
    <3> QED BY <2>1, <2>2, <3>1, <3>2, PiecesGoOn
  <2>4. << >> \o t[1] = t[1]
    BY <2>2, ConcatEmptySeq
  <2> QED BY <2>2, <2>3, <2>4
<1>7. ASSUME NEW k \in Nat, k \in I PROVE k + 1 \in I
  <2> SUFFICES ASSUME (k + 1) + 1 <= N
               PROVE  g[(k + 1) + 1] \in T /\ PieceEnds(t, (k + 1) + 1, g[(k + 1) + 1]) # {}
    OBVIOUS
  <2> DEFINE j == k + 1
  <2>1. j \in Nat /\ j + 1 \in 1..N /\ j + 1 # 1 /\ (j + 1) - 1 = j /\ j <= N
    BY <1>0
  <2>2. g[j] \in Seq(S) /\ PieceEnds(t, j, g[j]) # {}
    BY <1>7, <2>1
  <2> HIDE DEF j
  <2>3. t[j + 1] \in Seq(S) /\ \A a \in 1..j : t[a] \in Seq(S) /\ t[a] = t[a]
    BY <1>0, <2>1
  <2>4. PieceEnds(t, j + 1, g[j] \o t[j + 1]) # {} /\ g[j] \o t[j + 1] \in Seq(S)
    <3>1. j \in Nat
      BY <2>1
    <3>2. PieceEnds(t, j + 1, g[j] \o t[j + 1]) # {}
      BY ONLY <2>2, <2>3, <3>1, PiecesGoOn
    <3>3. g[j] \o t[j + 1] \in Seq(S)
      BY ONLY <2>2, <2>3, ConcatProperties
    <3> QED BY <3>2, <3>3
  <2>5. g[j + 1] = g[j] \o t[j + 1]
    BY <1>5, <2>1
  <2> QED BY <2>4, <2>5 DEF j
<1>8. Nat \subseteq I
  <2> HIDE DEF I
  <2> QED BY <1>6, <1>7, NatInduct
<1>9. g[N] \in T /\ PieceEnds(t, N, g[N]) # {}
  <2>1. N - 1 \in Nat /\ (N - 1) + 1 = N /\ N <= N
    BY <1>0
  <2>2. N - 1 \in I
    <3> HIDE DEF I
    <3> QED BY <1>8, <2>1
  <2> HIDE DEF N, T
  <2> QED BY ONLY <2>1, <2>2 DEF I
<1> QED BY ONLY <1>1, <1>3, <1>9 DEF N, T
-----------------------------------------------------------------------------
(* Lists without repetition. *)
Once(s) == \A j, k \in 1..Len(s) : s[j] = s[k] => j = k
Lists(s, A) == s \in Seq(A) /\ Once(s) /\ \A x \in A : \E k \in 1..Len(s) : s[k] = x

LEMMA OnceFits ==
    ASSUME NEW A, IsFiniteSet(A), NEW s \in Seq(A), Once(s)
    PROVE  Len(s) <= Cardinality(A)
<1>1. Len(s) \in Nat /\ s \in [1..Len(s) -> A]
  BY LenProperties
<1>2. s \in Injection(1..Len(s), A)
  BY <1>1 DEF Once, Injection, IsInjective
<1>3. Cardinality(1..Len(s)) <= Cardinality(A)
  BY <1>2, FS_Injection
<1>4. Cardinality(1..Len(s)) = Len(s)
  BY <1>1, FS_Interval
<1> QED BY <1>3, <1>4

LEMMA OnceListsAll ==
    ASSUME NEW A, IsFiniteSet(A), NEW s \in [1..Cardinality(A) -> A],
           \A j, k \in 1..Cardinality(A) : s[j] = s[k] => j = k
    PROVE  Lists(s, A) /\ Len(s) = Cardinality(A)
<1>1. Cardinality(A) \in Nat
  BY FS_CardinalityType
<1>2. s \in Injection(1..Cardinality(A), A)
  BY DEF Injection, IsInjective
<1>3. Cardinality(1..Cardinality(A)) = Cardinality(A)
  BY <1>1, FS_Interval
<1>4. s \in Surjection(1..Cardinality(A), A)
  BY <1>2, <1>3, FS_Injection
<1>5. \A x \in A : \E k \in 1..Cardinality(A) : s[k] = x
  BY <1>4 DEF Surjection
<1>6. s \in Seq(A) /\ Len(s) = Cardinality(A)
  BY <1>1
<1> QED BY <1>5, <1>6 DEF Lists, Once

LEMMA SetToSeqLists ==
    ASSUME NEW A, IsFiniteSet(A)
    PROVE  Lists(SetToSeq(A), A)
<1> DEFINE m == Cardinality(A)
<1>1. PICK s \in Bijection(1..m, A) : TRUE
  BY FS_CardinalityType DEF ExistsBijection
<1>2. \A b \in 1..m : \A a \in 1..m : s[a] = s[b] => a = b
  BY <1>1 DEF Bijection, Injection, IsInjective
<1>3. s \in [1..m -> A] /\ IsInjective(s)
  BY <1>1 DEF Bijection, Injection, IsInjective
<1>4. SetToSeq(A) \in [1..m -> A] /\ IsInjective(SetToSeq(A))
  BY <1>3 DEF SetToSeq
<1>5. \A j, k \in 1..m : SetToSeq(A)[j] = SetToSeq(A)[k] => j = k
  BY <1>4 DEF IsInjective
<1> HIDE DEF m
<1> QED BY <1>4, <1>5, OnceListsAll DEF m

(* A finite set of numbers that is not empty has a largest one. *)
LEMMA LargestOf ==
    ASSUME NEW N \in Nat, NEW A \in SUBSET (1..N), A # {}
    PROVE  \E x \in A : \A y \in A : y <= x
<1> DEFINE B == {b \in Nat : \A y \in A : y <= b}
<1>1. N \in B
  OBVIOUS
<1>2. PICK x \in B : \A b \in B : x <= b
  BY <1>1, NatMin
<1>3. x \in A
  <2> SUFFICES ASSUME x \notin A PROVE FALSE
    OBVIOUS
  <2>1. PICK y \in A : TRUE
    OBVIOUS
  <2>2. x \in Nat /\ y <= x /\ y \in 1..N
    BY <1>2
  <2>3. x - 1 \in Nat
    BY <2>2
  <2>4. \A z \in A : z <= x - 1
    BY <1>2, <2>2
  <2> QED BY <1>2, <2>3, <2>4
<1> QED BY <1>2, <1>3

LEMMA NodeSetFinite ==
    ASSUME NEW N \in Nat, NEW A \in SUBSET (1..N)
    PROVE  IsFiniteSet(A) /\ Cardinality(A) \in Nat /\ Cardinality(A) <= N
<1>1. 1 \in Int /\ N \in Int
  OBVIOUS
<1>2. IsFiniteSet(1..N) /\ Cardinality(1..N) = N
  BY <1>1, FS_Interval
<1>3. IsFiniteSet(A) /\ Cardinality(A) <= N
  BY <1>2, FS_Subset
<1> QED BY <1>3, FS_CardinalityType

LEMMA AscendingThere ==
    ASSUME NEW N \in Nat, NEW A \in SUBSET (1..N)
    PROVE  \E s \in [1..Cardinality(A) -> A] : \A j, k \in DOMAIN s : j < k => s[j] < s[k]
<1> DEFINE Good(B) == \E s \in [1..Cardinality(B) -> B] : \A j, k \in DOMAIN s : j < k => s[j] < s[k]
           I == {m \in Nat : \A B \in SUBSET (1..N) : Cardinality(B) = m => Good(B)}
<1>0. \A B \in SUBSET (1..N) : IsFiniteSet(B) /\ Cardinality(B) \in Nat
  BY NodeSetFinite
<1>1. 0 \in I
  <2> SUFFICES ASSUME NEW B \in SUBSET (1..N), Cardinality(B) = 0 PROVE Good(B)
    OBVIOUS
  <2> DEFINE s == [k \in 1..0 |-> k]
  <2>1. s \in [1..Cardinality(B) -> B] /\ DOMAIN s = {}
    OBVIOUS
  <2> HIDE DEF s
  <2> QED BY <2>1
<1>2. ASSUME NEW m \in Nat, m \in I PROVE m + 1 \in I
  <2> SUFFICES ASSUME NEW B \in SUBSET (1..N), Cardinality(B) = m + 1 PROVE Good(B)
    OBVIOUS
  <2>1. B # {}
    BY <1>0, FS_EmptySet
  <2>2. PICK x \in B : \A y \in B : y <= x
    BY <2>1, LargestOf
  <2>3. B \ {x} \in SUBSET (1..N) /\ Cardinality(B \ {x}) = m
    <3>1. Cardinality(B \ {x}) = Cardinality(B) - 1
      BY <1>0, FS_RemoveElement
    <3> QED BY <3>1
  <2>4. PICK t \in [1..m -> B \ {x}] : \A j, k \in 1..m : j < k => t[j] < t[k]
    <3>1. Good(B \ {x})
      BY <1>2, <2>3
    <3> QED BY <2>3, <3>1
  <2> DEFINE s == [k \in 1..m + 1 |-> IF k = m + 1 THEN x ELSE t[k]]
  <2>5. s \in [1..m + 1 -> B]
    OBVIOUS
  <2>6. ASSUME NEW j \in 1..m + 1, NEW k \in 1..m + 1, j < k PROVE s[j] < s[k]
    <3>1. j \in 1..m /\ s[j] = t[j] /\ t[j] \in B \ {x}
      BY <2>6
    <3>2. CASE k = m + 1
      <4>0. x \in 1..N /\ t[j] \in 1..N
        BY <2>2, <3>1
      <4>1. s[k] = x /\ t[j] <= x /\ t[j] # x /\ t[j] \in Nat /\ x \in Nat
        BY <2>2, <3>1, <3>2, <4>0
      <4> QED BY <3>1, <4>1
    <3>3. CASE k # m + 1
      <4>1. k \in 1..m /\ s[k] = t[k]
        BY <3>3
      <4> QED BY <2>4, <2>6, <3>1, <4>1
    <3> QED BY <3>2, <3>3
  <2> HIDE DEF s
  <2> QED BY <2>5, <2>6
<1>3. Nat \subseteq I
  <2> HIDE DEF I
  <2> QED BY <1>1, <1>2, NatInduct
<1> QED BY <1>0, <1>3

LEMMA AscendingLists ==
    ASSUME NEW N \in Nat, NEW A \in SUBSET (1..N)
    PROVE  Lists(Ascending(A), A)
<1>1. IsFiniteSet(A) /\ Cardinality(A) \in Nat
  BY NodeSetFinite
<1>2. Ascending(A) \in [1..Cardinality(A) -> A]
      /\ \A j, k \in 1..Cardinality(A) : j < k => Ascending(A)[j] < Ascending(A)[k]
  BY AscendingThere DEF Ascending
<1> DEFINE s == Ascending(A)
<1> HIDE DEF s
<1>3. s \in [1..Cardinality(A) -> A] /\ \A j, k \in 1..Cardinality(A) : j < k => s[j] < s[k]
  BY <1>2 DEF s
<1>4. ASSUME NEW j \in 1..Cardinality(A), NEW k \in 1..Cardinality(A), s[j] = s[k] PROVE j = k
  <2>0. s[j] \in A /\ s[k] \in A
    BY <1>3
  <2>1. s[j] \in Nat /\ s[k] \in Nat
    <3>1. \A x \in A : x \in Nat
      OBVIOUS
    <3> QED BY ONLY <2>0, <3>1
  <2>2. ~ (j < k) /\ ~ (k < j)
    BY <1>3, <1>4, <2>1
  <2> QED BY <1>1, <2>2
<1> QED BY <1>1, <1>3, <1>4, OnceListsAll DEF s

LEMMA Joined ==
    ASSUME NEW A, NEW B, A \cap B = {}, NEW s, Lists(s, A), NEW t, Lists(t, B)
    PROVE  Lists(s \o t, A \cup B)
<1>1. /\ s \in Seq(A \cup B) /\ t \in Seq(A \cup B) /\ Len(s) \in Nat /\ Len(t) \in Nat
      /\ \A k \in 1..Len(s) : s[k] \in A
      /\ \A k \in 1..Len(t) : t[k] \in B
  BY ElementOfSeq DEF Lists
<1>2. /\ s \o t \in Seq(A \cup B) /\ Len(s \o t) = Len(s) + Len(t)
      /\ \A k \in 1..Len(s) + Len(t) : (s \o t)[k] = IF k <= Len(s) THEN s[k] ELSE t[k - Len(s)]
  BY <1>1, ConcatProperties
<1> DEFINE both == s \o t
<1> HIDE DEF both
<1>3. both \in Seq(A \cup B) /\ Len(both) = Len(s) + Len(t)
      /\ \A k \in 1..Len(s) + Len(t) : both[k] = IF k <= Len(s) THEN s[k] ELSE t[k - Len(s)]
  BY <1>2 DEF both
<1>4. ASSUME NEW j \in 1..Len(both), NEW k \in 1..Len(both), both[j] = both[k] PROVE j = k
  <2>1. CASE j <= Len(s) /\ k <= Len(s)
    <3>1. j \in 1..Len(s) /\ k \in 1..Len(s) /\ s[j] = s[k]
      BY <1>1, <1>3, <1>4, <2>1
    <3> QED BY <3>1 DEF Lists, Once
  <2>2. CASE ~ (j <= Len(s)) /\ ~ (k <= Len(s))
    <3>1. j - Len(s) \in 1..Len(t) /\ k - Len(s) \in 1..Len(t) /\ t[j - Len(s)] = t[k - Len(s)]
      BY <1>1, <1>3, <1>4, <2>2
    <3>2. j - Len(s) = k - Len(s)
      BY <3>1 DEF Lists, Once
    <3> QED BY <1>1, <1>3, <3>2
  <2>3. CASE j <= Len(s) /\ ~ (k <= Len(s))
    <3>1. j \in 1..Len(s) /\ k - Len(s) \in 1..Len(t) /\ s[j] = t[k - Len(s)]
      BY <1>1, <1>3, <1>4, <2>3
    <3> QED BY <1>1, <3>1
  <2>4. CASE ~ (j <= Len(s)) /\ k <= Len(s)
    <3>1. j - Len(s) \in 1..Len(t) /\ k \in 1..Len(s) /\ t[j - Len(s)] = s[k]
      BY <1>1, <1>3, <1>4, <2>4
    <3> QED BY <1>1, <3>1
  <2> QED BY <2>1, <2>2, <2>3, <2>4
<1>5. ASSUME NEW x \in A \cup B PROVE \E k \in 1..Len(both) : both[k] = x
  <2>1. CASE x \in A
    <3>1. PICK k \in 1..Len(s) : s[k] = x
      BY <2>1 DEF Lists
    <3>2. k \in 1..Len(both) /\ both[k] = x
      BY <1>1, <1>3, <3>1
    <3> QED BY <3>2
  <2>2. CASE x \in B
    <3>1. PICK k \in 1..Len(t) : t[k] = x
      BY <2>2 DEF Lists
    <3>2. Len(s) + k \in 1..Len(both) /\ (Len(s) + k) - Len(s) = k /\ ~ (Len(s) + k <= Len(s))
      BY <1>1, <1>3
    <3>3. both[Len(s) + k] = x
      BY <1>3, <3>1, <3>2
    <3> QED BY <3>2, <3>3
  <2> QED BY <2>1, <2>2
<1> QED BY <1>3, <1>4, <1>5 DEF Lists, Once, both

LEMMA InOrderLists ==
    ASSUME NEW N \in Nat, NEW A \in SUBSET (1..N), NEW v
    PROVE  Lists(InOrder(v, A), A)
<1> DEFINE X == A \cap {nodes[v].link}
           Y == A \ {nodes[v].link}
<1>1. IsFiniteSet(X) /\ X \cap Y = {} /\ X \cup Y = A /\ Y \in SUBSET (1..N)
  BY FS_Singleton, FS_Intersection
<1> HIDE DEF X, Y
<1>2. Lists(SetToSeq(X), X) /\ Lists(Ascending(Y), Y)
  BY <1>1, SetToSeqLists, AscendingLists
<1>3. Lists(SetToSeq(X) \o Ascending(Y), A)
  BY <1>1, <1>2, Joined
<1> QED BY <1>3 DEF InOrder, X, Y
-----------------------------------------------------------------------------
(* Between the calls of add_c and after them the nodes are an automaton of all
   that has been read, and after the training of all the strings. *)
Fed ==
    /\ trainingStrings \in TrainingSets /\ maxDictSize \in MaxDictSizes
    /\ word = FlattenSeq(trainingStrings)
    /\ pc \notin {"add", "fill", "redirect"} => added = Len(word)
    /\ pc \in {"add", "fill", "redirect", "walk", "mark", "choose", "kill", "done"}
    /\ added \in 0..Len(word)

Labelled(at) == Automaton(added, nodes, at) /\ last = at[added][added]

LEMMA FedFacts ==
    ASSUME Fed
    PROVE  /\ trainingStrings \in Seq(Seq({0, 1}) \ {<< >>}) /\ trainingStrings \in Seq(Seq({0, 1}))
           /\ Len(trainingStrings) \in Nat \ {0} /\ maxDictSize \in Nat /\ MinMatchLength \in Nat
           /\ MinMatchLength >= 2
           /\ word \in Seq({0, 1}) /\ PieceEnds(trainingStrings, Len(trainingStrings), word) # {}
<1>1. /\ trainingStrings \in Seq(Seq({0, 1}) \ {<< >>}) /\ trainingStrings # << >> /\ maxDictSize \in Nat
      /\ MinMatchLength \in Nat \ {0, 1}
  BY DictionaryAssumption DEF Fed
<1>2. trainingStrings \in Seq(Seq({0, 1}))
  BY <1>1
<1>3. Len(trainingStrings) \in Nat \ {0}
  BY <1>1, EmptySeq
<1>4. /\ FlattenSeq(trainingStrings) \in Seq({0, 1})
      /\ PieceEnds(trainingStrings, Len(trainingStrings), FlattenSeq(trainingStrings)) # {}
  BY <1>2, <1>3, Flattened
<1> QED BY <1>1, <1>2, <1>3, <1>4 DEF Fed

LEMMA FedLabels ==
    ASSUME BuildInv, pc \notin {"fill", "redirect"}
    PROVE  \E at : Labelled(at)
BY DEF BuildInv, Labelled

LEMMA DictStart ==
    ASSUME DictInit
    PROVE  BuildInv /\ Fed
<1>1. /\ trainingStrings \in TrainingSets /\ maxDictSize \in MaxDictSizes
      /\ word = FlattenSeq(trainingStrings) /\ StartsEmpty
      /\ trainingStrings \in Seq(Seq({0, 1})) /\ trainingStrings # << >>
  BY DictionaryAssumption DEF DictInit
<1>2. FlattenSeq(trainingStrings) \in Seq({0, 1})
  BY <1>1, Flattened, EmptySeq
<1>3. BuildInv
  BY <1>1, <1>2, BuildStart
<1>4. Fed
  BY <1>1, <1>2 DEF Fed, StartsEmpty
<1> QED BY <1>3, <1>4

LEMMA DictStays ==
    ASSUME BuildInv, Fed, [DictNext]_dictVars
    PROVE  BuildInv' /\ Fed'
<1>0. /\ trainingStrings \in TrainingSets /\ maxDictSize \in MaxDictSizes
      /\ word = FlattenSeq(trainingStrings)
      /\ pc \notin {"add", "fill", "redirect"} => added = Len(word)
      /\ pc \in {"add", "fill", "redirect", "walk", "mark", "choose", "kill", "done"}
      /\ added \in 0..Len(word) /\ Len(word) \in Nat
  BY FedFacts DEF Fed
<1>1. CASE AddTrainingData
  <2>1. BuildInv'
    BY <1>1, BuildGoesOn DEF AddTrainingData
  <2>2. /\ trainingStrings' = trainingStrings /\ maxDictSize' = maxDictSize /\ word' = word
        /\ pc' \in {"add", "fill", "redirect"} /\ added' \in {added, added + 1}
        /\ pc \in {"fill", "redirect"} \/ added' = added
    BY <1>1 DEF AddTrainingData, AddCharacters, Add, Fill, LinkToRoot, LinkToTarget, LinkTo,
       CloneTarget, Redirect, EndRedirect
  <2>3. pc \in {"fill", "redirect"} => added < Len(word)
    <3>1. ASSUME pc = "fill" PROVE added < Len(word)
      BY <3>1 DEF BuildInv, FilledFrom
    <3>2. ASSUME pc = "redirect" PROVE added < Len(word)
      BY <3>2 DEF BuildInv, RedirectedFrom, Repeats
    <3> QED BY <3>1, <3>2
  <2>4. added' \in 0..Len(word)
    BY <1>0, <2>2, <2>3
  <2>5. Fed'
    BY <1>0, <2>2, <2>4 DEF Fed
  <2> QED BY <2>1, <2>5
<1>2. CASE ~ AddTrainingData
  <2>1. /\ UNCHANGED <<input, build>>
        /\ pc' \notin {"add", "fill", "redirect"} \/ pc' = pc
        /\ pc' = pc \/ (pc \notin {"fill", "redirect"} /\ pc' \notin {"fill", "redirect"})
        /\ pc' = pc \/ pc' \in {"walk", "mark", "choose", "kill", "done"}
        /\ pc = "add" /\ pc' # "add" => added = Len(word)
    BY <1>2 DEF DictNext, CountOccurred, WalkString, MarkLink, EndString, Collect, SkipCandidate,
       TakeCandidate, Kill, EndKill, Output, DictDone, dictVars, input, Counted
  <2>2. /\ trainingStrings' = trainingStrings /\ maxDictSize' = maxDictSize /\ word' = word
        /\ added' = added /\ UNCHANGED <<word, build>>
    BY <2>1 DEF input, build
  <2>3. BuildInv'
    BY <2>1, <2>2, BuildStays
  <2>4. Fed'
    BY <1>0, <2>1, <2>2 DEF Fed
  <2> QED BY <2>3, <2>4
<1> QED BY <1>1, <1>2
-----------------------------------------------------------------------------
(* The states that try_kill and the loop over the links come to from a state. *)
Below(v) == ({nodes[v].link} \cup RevTo(v)) \ {Null}

LEMMA BelowShorter ==
    ASSUME NEW at, Automaton(added, nodes, at), NEW v \in States, NEW w \in Below(v)
    PROVE  w \in States /\ LenOf(w) \in Nat /\ LenOf(v) \in Nat /\ LenOf(w) < LenOf(v)
<1>0. NodesOK(nodes) /\ States = 1..Len(nodes) /\ Len(nodes) \in Nat
  BY DEF Automaton, NodesOK, States
<1>1. LenOf(v) \in Nat
  BY <1>0, NodeFacts DEF LenOf
<1>2. CASE w \in RevTo(v)
  <2>1. PICK c \in {0, 1} : w \in States /\ nodes[w].to[c] = v
    BY <1>2 DEF RevTo
  <2>2. nodes[w].to[c] # Null
    BY <1>0, <2>1 DEF Null
  <2>3. nodes[w].len < nodes[v].len
    BY <1>0, <2>1, <2>2, StepLonger
  <2>4. LenOf(w) \in Nat
    BY <1>0, <2>1, NodeFacts DEF LenOf
  <2> QED BY <1>1, <2>1, <2>3, <2>4 DEF LenOf
<1>3. CASE w \notin RevTo(v)
  <2>1. w = nodes[v].link /\ w # Null
    BY <1>3 DEF Below
  <2>2. v # Root
    BY <1>0, <2>1 DEF NodesOK
  <2>3. /\ nodes[v].link \in 1..Len(nodes) /\ nodes[nodes[v].link].len \in Nat
        /\ nodes[nodes[v].link].len < nodes[v].len
    BY <1>0, <2>2, LinkThere
  <2> QED BY <1>0, <1>1, <2>1, <2>3 DEF LenOf
<1> QED BY <1>2, <1>3

LEMMA KillableIsBelow ==
    ASSUME NEW v
    PROVE  Killable(v) = Below(v) \ killed
BY DEF Killable, Below

(* The queue. *)
Training == pc \in {"add", "fill", "redirect"}

QueueInv ==
    /\ it \in 1..Len(trainingStrings) + 1 /\ (Training => it = 1)
    /\ pc = "mark" => it <= Len(trainingStrings)
    /\ Training => queue = << >> /\ ql = 1
    /\ ~ Training => queue \in Seq(States) /\ ql \in Nat \ {0} /\ Len(queue) <= Len(nodes)
    /\ pc = "mark" => marked \subseteq States /\ Lists(queue, marked)
    /\ pc \in {"choose", "kill", "done"} =>
        rest \subseteq States /\ killed \subseteq States /\ dictV \subseteq States
    /\ pc = "kill" =>
        /\ candidate \in States /\ candidate \notin killed
        /\ \E A \in SUBSET killed :
            /\ \A x \in A : LenOf(x) < LenOf(candidate)
            /\ Lists(queue, {candidate} \cup A)

LEMMA ListFits ==
    ASSUME NEW at, Automaton(added, nodes, at), NEW A \in SUBSET States, NEW s, Lists(s, A)
    PROVE  s \in Seq(States) /\ Len(s) <= Len(nodes) /\ Len(s) \in Nat
<1>1. Len(nodes) \in Nat /\ A \in SUBSET (1..Len(nodes))
  BY DEF Automaton, NodesOK, States
<1>2. IsFiniteSet(A) /\ Cardinality(A) \in Nat /\ Cardinality(A) <= Len(nodes)
  BY <1>1, NodeSetFinite
<1>3. s \in Seq(A) /\ Once(s)
  BY DEF Lists
<1>4. Len(s) <= Cardinality(A) /\ Len(s) \in Nat
  BY <1>2, <1>3, OnceFits, LenProperties
<1>5. s \in Seq(States)
  BY <1>3
<1> QED BY <1>1, <1>2, <1>4, <1>5

LEMMA SameNodes ==
    ASSUME nodes' = nodes
    PROVE  States' = States /\ \A v : LenOf(v)' = LenOf(v) /\ Below(v)' = Below(v)
BY DEF States, LenOf, Below, RevTo

(* A string puts every state of its path in the queue, once. *)
LEMMA PathListed ==
    ASSUME NEW at, Automaton(added, nodes, at), NEW s \in Seq({0, 1}), WalkChecks(StringStates(s))
    PROVE  Range(StringStates(s)) \subseteq States /\ Lists(StringStates(s), Range(StringStates(s)))
<1> DEFINE path == StringStates(s)
<1>0. NodesOK(nodes) /\ Len(nodes) \in Nat /\ States = 1..Len(nodes) /\ Len(s) \in Nat
  BY LenProperties DEF Automaton, NodesOK, States
<1>1. path = [k \in 1..Len(s) |-> StateOf(SubSeq(s, 1, k))]
  BY DEF StringStates
<1>2. ASSUME NEW k \in 1..Len(s) PROVE path[k] \in 0..Len(nodes)
  <2>1. 0 \in Nat /\ k \in Nat /\ 0 <= k /\ k <= Len(s) /\ 0 + 1 = 1
    BY <1>0
  <2>2. SubSeq(s, 0 + 1, k) \in Seq({0, 1})
    BY ONLY <2>1, s \in Seq({0, 1}), CutAt
  <2>3. SubSeq(s, 1, k) \in Seq({0, 1})
    BY <2>1, <2>2
  <2>4. PICK r : Run(r, SubSeq(s, 1, k)) /\ StateOf(SubSeq(s, 1, k)) = r[Len(SubSeq(s, 1, k))]
    BY <1>0, <2>3, StateRun
  <2>5. Len(SubSeq(s, 1, k)) \in 0..Len(SubSeq(s, 1, k))
    BY <2>3, LenProperties
  <2>6. r[Len(SubSeq(s, 1, k))] \in 0..Len(nodes)
    BY <2>4, <2>5 DEF Run
  <2> QED BY <1>1, <2>4, <2>6
<1> HIDE DEF path
<1>3. Range(path) = {path[k] : k \in 1..Len(s)} /\ DOMAIN path = 1..Len(s)
  BY <1>1 DEF Range
<1>4. Null \notin Range(path) /\ \A j, k \in 1..Len(s) : path[j] = path[k] => j = k
  <2>1. Null \notin Range(path) /\ IsInjective(path)
    BY DEF path, WalkChecks
  <2> QED BY <1>3, <2>1 DEF IsInjective
<1>5. Range(path) \subseteq States
  BY <1>0, <1>2, <1>3, <1>4 DEF Null
<1>6. path \in [1..Len(s) -> Range(path)]
  <2>1. path = [k \in 1..Len(s) |-> path[k]]
    BY <1>1
  <2> QED BY <1>3, <2>1
<1>7. path \in Seq(Range(path)) /\ Len(path) = Len(s)
  BY <1>0, <1>6
<1>8. Lists(path, Range(path))
  BY <1>3, <1>4, <1>7 DEF Lists, Once
<1> QED BY <1>5, <1>8 DEF path

LEMMA AddQueued ==
    ASSUME BuildInv, Fed, QueueInv, AddTrainingData
    PROVE  QueueInv'
<1>1. /\ queue' = queue /\ ql' = ql /\ pc' \in {"add", "fill", "redirect"}
      /\ pc \in {"add", "fill", "redirect"} /\ it' = it /\ trainingStrings' = trainingStrings
  BY DEF AddTrainingData, AddCharacters, Add, Fill, LinkToRoot, LinkToTarget, LinkTo,
     CloneTarget, Redirect, EndRedirect, counts
<1>2. queue = << >> /\ ql = 1 /\ it = 1 /\ it \in 1..Len(trainingStrings) + 1
  BY <1>1 DEF QueueInv, Training
<1> QED BY <1>1, <1>2 DEF QueueInv, Training

LEMMA CountQueued ==
    ASSUME BuildInv, Fed, QueueInv, CountOccurred
    PROVE  QueueInv'
<1>1. /\ queue' = queue /\ ql' = ql /\ pc' = "walk" /\ pc = "add" /\ nodes' = nodes
      /\ it' = it /\ trainingStrings' = trainingStrings
  BY DEF CountOccurred, input, build
<1>2. queue = << >> /\ ql = 1 /\ it \in 1..Len(trainingStrings) + 1
  BY <1>1 DEF QueueInv, Training
<1>3. PICK at : Automaton(added, nodes, at)
  BY <1>1 DEF BuildInv
<1>4. Len(nodes) \in Nat
  BY <1>3 DEF Automaton, NodesOK
<1>5. queue \in Seq(States) /\ Len(queue) <= Len(nodes) /\ ql \in Nat \ {0}
  BY <1>2, <1>4, EmptySeq
<1>6. States' = States
  BY <1>1, SameNodes
<1> QED BY <1>1, <1>2, <1>5, <1>6 DEF QueueInv, Training

LEMMA WalkQueued ==
    ASSUME BuildInv, Fed, QueueInv, WalkString
    PROVE  QueueInv'
<1> DEFINE path == StringStates(trainingStrings[it])
<1>1. /\ WalkChecks(path) /\ queue' = path /\ ql' = 1 /\ marked' = Range(path)
      /\ pc' = "mark" /\ pc = "walk" /\ nodes' = nodes /\ it <= Len(trainingStrings)
      /\ it' = it /\ trainingStrings' = trainingStrings
  BY DEF WalkString, input, build
<1>2. PICK at : Automaton(added, nodes, at)
  BY <1>1 DEF BuildInv
<1>3. it \in 1..Len(trainingStrings) /\ it \in 1..Len(trainingStrings) + 1
  BY <1>1, FedFacts DEF QueueInv
<1>4. trainingStrings[it] \in Seq({0, 1})
  BY <1>3, FedFacts, ElementOfSeq
<1>5. Range(path) \subseteq States /\ Lists(path, Range(path))
  BY <1>1, <1>2, <1>4, PathListed
<1> HIDE DEF path
<1>6. path \in Seq(States) /\ Len(path) <= Len(nodes)
  BY <1>2, <1>5, ListFits
<1>7. States' = States
  BY <1>1, SameNodes
<1> QED BY <1>1, <1>3, <1>5, <1>6, <1>7 DEF QueueInv, Training

LEMMA MarkQueued ==
    ASSUME BuildInv, Fed, QueueInv, MarkLink
    PROVE  QueueInv'
<1> DEFINE fresh == {nodes[queue[ql]].link} \ ({Null} \cup marked)
<1>1. /\ pc = "mark" /\ pc' = "mark" /\ ql <= Len(queue) /\ ql' = ql + 1
      /\ queue' = queue \o SetToSeq(fresh) /\ marked' = marked \cup fresh
      /\ nodes' = nodes /\ it' = it /\ trainingStrings' = trainingStrings
  BY DEF MarkLink, input, build
<1>2. PICK at : Automaton(added, nodes, at)
  BY <1>1 DEF BuildInv
<1>3. /\ it \in 1..Len(trainingStrings) + 1 /\ it <= Len(trainingStrings)
      /\ queue \in Seq(States) /\ ql \in Nat \ {0} /\ marked \subseteq States
      /\ Lists(queue, marked)
  BY <1>1 DEF QueueInv, Training
<1>4. fresh \subseteq States /\ IsFiniteSet(fresh) /\ marked \cap fresh = {}
  <2>1. queue[ql] \in States
    BY <1>1, <1>3, ElementOfSeq
  <2>2. fresh \subseteq Below(queue[ql])
    BY DEF Below
  <2>3. \A x \in fresh : x \in States
    BY <1>2, <2>1, <2>2, BelowShorter
  <2>4. IsFiniteSet(fresh)
    BY FS_Singleton, FS_Difference
  <2> QED BY <2>3, <2>4
<1> HIDE DEF fresh
<1>5. Lists(queue \o SetToSeq(fresh), marked \cup fresh)
  BY <1>3, <1>4, SetToSeqLists, Joined
<1>6. queue' \in Seq(States) /\ Len(queue') <= Len(nodes) /\ Lists(queue', marked')
      /\ marked' \subseteq States
  <2>1. marked \cup fresh \in SUBSET States
    BY <1>3, <1>4
  <2> QED BY <1>1, <1>2, <1>5, <2>1, ListFits
<1>7. States' = States
  BY <1>1, SameNodes
<1>8. ql' \in Nat \ {0}
  BY <1>1, <1>3
<1> QED BY <1>1, <1>3, <1>6, <1>7, <1>8 DEF QueueInv, Training

LEMMA KillQueued ==
    ASSUME BuildInv, Fed, QueueInv, Kill
    PROVE  QueueInv'
<1> DEFINE fresh == Killable(queue[ql])
<1>1. /\ pc = "kill" /\ pc' = "kill" /\ ql <= Len(queue) /\ ql' = ql + 1
      /\ queue' = queue \o InOrder(queue[ql], fresh) /\ killed' = killed \cup fresh
      /\ dictV' = dictV \ fresh /\ candidate' = candidate /\ rest' = rest
      /\ nodes' = nodes /\ it' = it /\ trainingStrings' = trainingStrings
  BY DEF Kill, input, build, counts
<1>2. PICK at : Automaton(added, nodes, at)
  BY <1>1 DEF BuildInv
<1>3. /\ it \in 1..Len(trainingStrings) + 1
      /\ queue \in Seq(States) /\ ql \in Nat \ {0}
      /\ rest \subseteq States /\ killed \subseteq States /\ dictV \subseteq States
      /\ candidate \in States /\ candidate \notin killed
  BY <1>1 DEF QueueInv, Training
<1>4. PICK A \in SUBSET killed :
        (\A x \in A : LenOf(x) < LenOf(candidate)) /\ Lists(queue, {candidate} \cup A)
  BY <1>1 DEF QueueInv
<1>5. queue[ql] \in States /\ queue[ql] \in {candidate} \cup A
  <2>1. ql \in 1..Len(queue)
    BY <1>1, <1>3
  <2>2. queue \in Seq({candidate} \cup A)
    BY <1>4 DEF Lists
  <2> QED BY <1>3, <2>1, <2>2, ElementOfSeq
<1>6. \A x \in fresh : x \in States /\ LenOf(x) < LenOf(candidate)
  <2> SUFFICES ASSUME NEW x \in fresh PROVE x \in States /\ LenOf(x) < LenOf(candidate)
    OBVIOUS
  <2>1. x \in Below(queue[ql])
    BY KillableIsBelow
  <2>2. x \in States /\ LenOf(x) \in Nat /\ LenOf(queue[ql]) \in Nat /\ LenOf(x) < LenOf(queue[ql])
    BY <1>2, <1>5, <2>1, BelowShorter
  <2>3. CASE queue[ql] = candidate
    BY <2>2, <2>3
  <2>4. CASE queue[ql] # candidate
    <3>1. LenOf(queue[ql]) < LenOf(candidate)
      BY <1>4, <1>5, <2>4
    <3>2. LenOf(candidate) \in Nat
      BY <1>2, <1>3, NodeFacts DEF LenOf, Automaton, States
    <3> QED BY <2>2, <3>1, <3>2
  <2> QED BY <2>3, <2>4
<1>7. candidate \notin fresh
  <2>1. LenOf(candidate) \in Nat
    BY <1>2, <1>3, NodeFacts DEF LenOf, Automaton, States
  <2>2. ~ (LenOf(candidate) < LenOf(candidate))
    BY <2>1
  <2> QED BY <1>6, <2>2
<1>8. fresh \cap killed = {}
  BY KillableIsBelow
<1> HIDE DEF fresh
<1>9. Lists(queue \o InOrder(queue[ql], fresh), {candidate} \cup (A \cup fresh))
  <2>1. Len(nodes) \in Nat /\ fresh \in SUBSET (1..Len(nodes))
    BY <1>2, <1>6 DEF Automaton, NodesOK, States
  <2>2. Lists(InOrder(queue[ql], fresh), fresh)
    BY <2>1, InOrderLists
  <2>3. ({candidate} \cup A) \cap fresh = {}
    BY <1>7, <1>8
  <2>4. ({candidate} \cup A) \cup fresh = {candidate} \cup (A \cup fresh)
    OBVIOUS
  <2>5. Lists(queue \o InOrder(queue[ql], fresh), ({candidate} \cup A) \cup fresh)
    BY ONLY <1>4, <2>2, <2>3, Joined
  <2> QED BY <2>4, <2>5
<1>10. queue' \in Seq(States) /\ Len(queue') <= Len(nodes)
  <2>1. {candidate} \cup (A \cup fresh) \in SUBSET States
    BY <1>3, <1>6
  <2> QED BY <1>1, <1>2, <1>9, <2>1, ListFits
<1>11. States' = States /\ \A v : LenOf(v)' = LenOf(v)
  BY <1>1, SameNodes
<1>12. ql' \in Nat \ {0} /\ killed' \subseteq States /\ dictV' \subseteq States
       /\ candidate' \notin killed'
  BY <1>1, <1>3, <1>6, <1>7
<1>13. \E B \in SUBSET killed' :
        (\A x \in B : LenOf(x)' < LenOf(candidate')) /\ Lists(queue', {candidate'} \cup B)
  <2>1. A \cup fresh \in SUBSET killed'
    BY <1>1
  <2>2. \A x \in A \cup fresh : LenOf(x) < LenOf(candidate)
    BY <1>4, <1>6
  <2> QED BY <1>1, <1>9, <1>11, <2>1, <2>2
<1>14. LenOf(candidate)' = LenOf(candidate')
  BY <1>1, <1>11 DEF LenOf
<1> QED BY <1>1, <1>3, <1>10, <1>11, <1>12, <1>13, <1>14 DEF QueueInv, Training
Choosing == pc \in {"choose", "kill", "done"}
Unchosen == ~ Choosing => killed = {} /\ dictV = {} /\ sumLen = 0 /\ out = << >>

LEMMA UnchosenStays ==
    ASSUME Unchosen, [DictNext]_dictVars
    PROVE  Unchosen'
<1>1. CASE ~ Choosing' /\ ~ Choosing
  <2>1. UNCHANGED <<killed, dictV, sumLen, out>>
    BY <1>1 DEF Choosing, DictNext, AddTrainingData, CountOccurred, WalkString, MarkLink, EndString,
       Collect, SkipCandidate, TakeCandidate, Kill, EndKill, Output, DictDone, dictVars, choice
  <2> QED BY <1>1, <2>1 DEF Unchosen
<1>2. CASE Choosing /\ ~ Choosing'
  <2>1. FALSE
    BY <1>2 DEF Choosing, DictNext, AddTrainingData, AddCharacters, Add, Fill, LinkToRoot,
       LinkToTarget, LinkTo, CloneTarget, Redirect, EndRedirect, CountOccurred, WalkString,
       MarkLink, EndString, Collect, SkipCandidate, TakeCandidate, Kill, EndKill, Output,
       DictDone, dictVars, Counted
  <2> QED BY <2>1
<1>3. CASE Choosing'
  BY <1>3 DEF Unchosen, Choosing
<1> QED BY <1>1, <1>2, <1>3

LEMMA RestQueued ==
    ASSUME BuildInv, Fed, QueueInv, Unchosen,
           EndString \/ Collect \/ SkipCandidate \/ TakeCandidate \/ EndKill \/ Output \/ UNCHANGED dictVars
    PROVE  QueueInv'
<1>0. nodes' = nodes /\ trainingStrings' = trainingStrings /\ States' = States
  BY SameNodes DEF EndString, Collect, SkipCandidate, TakeCandidate, EndKill, Output, dictVars, input,
     build
<1>1. CASE UNCHANGED dictVars
  <2>1. /\ queue' = queue /\ ql' = ql /\ it' = it /\ marked' = marked /\ pc' = pc /\ rest' = rest
        /\ killed' = killed /\ dictV' = dictV /\ candidate' = candidate
        /\ \A v : LenOf(v)' = LenOf(v)
    BY <1>0, <1>1, SameNodes DEF dictVars, counts, choice
  <2>2. LenOf(candidate)' = LenOf(candidate)
    BY <1>0, <2>1 DEF LenOf
  <2> QED BY <1>0, <2>1, <2>2 DEF QueueInv, Training
<1>2. CASE EndString
  <2>1. /\ queue' = queue /\ ql' = ql /\ it' = it + 1 /\ pc = "mark" /\ pc' = "walk"
    BY <1>2 DEF EndString
  <2>2. it' \in 1..Len(trainingStrings) + 1
    BY <2>1, FedFacts DEF QueueInv
  <2> QED BY <1>0, <2>1, <2>2 DEF QueueInv, Training
<1>3. CASE Collect
  <2>1. /\ queue' = queue /\ ql' = ql /\ it' = it /\ pc = "walk" /\ pc' = "choose"
        /\ killed' = killed /\ dictV' = dictV /\ rest' \subseteq States
    BY <1>3 DEF Collect, counts, Counted, Candidates
  <2>2. killed = {} /\ dictV = {}
    BY <2>1 DEF Unchosen, Choosing
  <2> QED BY <1>0, <2>1, <2>2 DEF QueueInv, Training
<1>4. CASE SkipCandidate
  <2>1. /\ queue' = queue /\ ql' = ql /\ it' = it /\ pc = "choose" /\ pc' = "choose"
        /\ killed' = killed /\ dictV' = dictV /\ rest' \subseteq rest
    BY <1>4 DEF SkipCandidate, counts
  <2> QED BY <1>0, <2>1 DEF QueueInv, Training
<1>5. CASE TakeCandidate
  <2>1. PICK v \in rest : /\ v \notin killed /\ queue' = <<v>> /\ ql' = 1 /\ candidate' = v
    BY <1>5 DEF TakeCandidate, Fits
  <2>2. /\ it' = it /\ pc = "choose" /\ pc' = "kill"
        /\ killed' = killed /\ dictV' = dictV /\ rest' \subseteq rest
    BY <1>5 DEF TakeCandidate, counts
  <2>3. it \in 1..Len(trainingStrings) + 1 /\ rest \subseteq States /\ killed \subseteq States
        /\ dictV \subseteq States
    BY <2>2 DEF QueueInv
  <2>4. PICK at : Automaton(added, nodes, at)
    BY <2>2 DEF BuildInv
  <2>5. Lists(<<v>>, {v})
    BY DEF Lists, Once
  <2>6. <<v>> \in Seq(States) /\ Len(<<v>>) <= Len(nodes)
    BY <2>1, <2>3, <2>4, <2>5, ListFits
  <2>7. \E A \in SUBSET killed' : /\ \A x \in A : LenOf(x)' < LenOf(candidate)'
                                  /\ Lists(queue', {candidate'} \cup A)
    <3>1. {} \in SUBSET killed' /\ {v} \cup {} = {v}
      OBVIOUS
    <3>2. Lists(queue', {candidate'} \cup {})
      BY <2>1, <2>5, <3>1
    <3> QED BY <3>1, <3>2
  <2>8. /\ it' \in 1..Len(trainingStrings') + 1 /\ queue' \in Seq(States') /\ Len(queue') <= Len(nodes')
        /\ ql' \in Nat \ {0} /\ rest' \subseteq States' /\ killed' \subseteq States'
        /\ dictV' \subseteq States' /\ candidate' \in States' /\ candidate' \notin killed'
    BY ONLY <1>0, <2>1, <2>2, <2>3, <2>6
  <2>9. pc' = "kill"
    BY <2>2
  <2> QED BY ONLY <2>7, <2>8, <2>9 DEF QueueInv, Training
<1>6. CASE EndKill
  <2>1. /\ queue' = queue /\ ql' = ql /\ it' = it /\ pc = "kill" /\ pc' = "choose"
        /\ killed' = killed /\ dictV' = dictV \cup {candidate} /\ rest' = rest
    BY <1>6 DEF EndKill, counts
  <2> QED BY <1>0, <2>1 DEF QueueInv, Training
<1>7. CASE Output
  <2>1. /\ queue' = queue /\ ql' = ql /\ it' = it /\ pc = "choose" /\ pc' = "done"
        /\ killed' = killed /\ dictV' = dictV /\ rest' = rest
    BY <1>7 DEF Output, counts
  <2> QED BY <1>0, <2>1 DEF QueueInv, Training
<1> QED BY <1>1, <1>2, <1>3, <1>4, <1>5, <1>6, <1>7

LEMMA DictQueued ==
    ASSUME BuildInv, Fed, QueueInv, Unchosen, [DictNext]_dictVars
    PROVE  QueueInv'
<1>1. CASE AddTrainingData
  BY <1>1, AddQueued
<1>2. CASE CountOccurred \/ WalkString \/ MarkLink \/ Kill
  BY <1>2, CountQueued, WalkQueued, MarkQueued, KillQueued
<1>3. CASE EndString \/ Collect \/ SkipCandidate \/ TakeCandidate \/ EndKill \/ Output \/ UNCHANGED dictVars
  BY <1>3, RestQueued
<1> QED BY ONLY [DictNext]_dictVars, <1>1, <1>2, <1>3 DEF DictNext, DictDone

LEMMA QueueHasRoom ==
    ASSUME BuildInv, Fed, QueueInv
    PROVE  QueueFits
<1>1. Len(nodes) \in Nat
  <2>1. CASE pc = "fill"
    BY <2>1 DEF BuildInv, FilledFrom
  <2>2. CASE pc = "redirect"
    BY <2>2 DEF BuildInv, RedirectedFrom, NewLens
  <2>3. CASE pc \notin {"fill", "redirect"}
    BY <2>3 DEF BuildInv, Automaton, NodesOK
  <2> QED BY <2>1, <2>2, <2>3
<1>2. CASE Training
  <2>1. queue = << >> /\ Len(<< >>) = 0
    BY <1>2 DEF QueueInv
  <2> QED BY <1>1, <2>1 DEF QueueFits, n
<1>3. CASE ~ Training
  <2>1. Len(queue) <= Len(nodes) /\ Len(queue) \in Nat
    BY <1>3, LenProperties DEF QueueInv
  <2> QED BY <1>1, <2>1 DEF QueueFits, n
<1> QED BY <1>2, <1>3

LEMMA QueueStart ==
    ASSUME DictInit
    PROVE  QueueInv /\ Unchosen
<1>1. /\ pc = "add" /\ queue = << >> /\ ql = 1 /\ it = 1 /\ killed = {} /\ dictV = {} /\ sumLen = 0
      /\ out = << >>
  BY DEF DictInit, StartsEmpty
<1>2. Len(trainingStrings) \in Nat
  BY DictStart, FedFacts
<1>3. it \in 1..Len(trainingStrings) + 1
  BY <1>1, <1>2
<1> QED BY <1>1, <1>3 DEF QueueInv, Unchosen, Training, Choosing

(* The array q of build_dict has room for what its loops put into it: the marking
   loop and the killing loop queue a state once each, for any training strings. *)
THEOREM QueueHoldsStates == DictSpec => []QueueFits
<1> DEFINE Inv == BuildInv /\ Fed /\ QueueInv /\ Unchosen
<1>1. DictInit => Inv
  BY DictStart, QueueStart
<1>2. Inv /\ [DictNext]_dictVars => Inv'
  BY DictStays, DictQueued, UnchosenStays
<1>3. Inv => QueueFits
  BY QueueHasRoom
<1> QED BY <1>1, <1>2, <1>3, PTL DEF DictSpec
-----------------------------------------------------------------------------
(* The choice of the dictionary. *)
LEMMA LengthsAdd ==
    ASSUME NEW at, Automaton(added, nodes, at),
           NEW A \in SUBSET States, NEW B \in SUBSET States, A \cap B = {}
    PROVE  /\ TotalLen(A) \in Nat /\ TotalLen(B) \in Nat
           /\ TotalLen(A \cup B) = TotalLen(A) + TotalLen(B)
<1> DEFINE w == [v \in States |-> LenOf(v)]
<1>1. Len(nodes) \in Nat /\ States = 1..Len(nodes) /\ NodesOK(nodes)
  BY DEF Automaton, NodesOK, States
<1>2. IsFiniteSet(States)
  BY <1>1, NodeSetFinite
<1>3. \A v \in States : LenOf(v) \in Nat
  BY <1>1, NodeFacts DEF LenOf
<1>4. w \in [States -> Nat]
  BY <1>3
<1>5. ASSUME NEW D \in SUBSET States PROVE TotalLen(D) = SumFunction(Restrict(w, D))
  <2>1. Restrict(w, D) = [v \in D |-> LenOf(v)]
    <3>1. \A v \in D : w[v] = LenOf(v)
      OBVIOUS
    <3> HIDE DEF w
    <3> QED BY <3>1 DEF Restrict
  <2> HIDE DEF w
  <2> QED BY <2>1 DEF TotalLen
<1> HIDE DEF w
<1>6. A \cup B \in SUBSET States
  OBVIOUS
<1> QED BY <1>2, <1>4, <1>5, <1>6, SumUnion

LEMMA LengthAlone ==
    ASSUME NEW at, Automaton(added, nodes, at), NEW v \in States
    PROVE  LenOf(v) \in Nat /\ TotalLen({v}) = LenOf(v) /\ TotalLen({}) = 0
<1> DEFINE w == [x \in {v} |-> LenOf(x)]
<1>1. LenOf(v) \in Nat
  BY NodeFacts DEF LenOf, Automaton, States
<1>2. w \in [{v} -> Nat] /\ w[v] = LenOf(v)
  BY <1>1
<1>3. TotalLen({v}) = SumFunction(w)
  BY DEF TotalLen
<1>4. TotalLen({}) = 0
  <2>1. [x \in {} |-> LenOf(x)] \in [{} -> Nat]
    OBVIOUS
  <2>2. IsFiniteSet({})
    BY FS_EmptySet
  <2> QED BY ONLY <2>1, <2>2, SumNat DEF TotalLen
<1> HIDE DEF w
<1>5. /\ SumFunction(Restrict(w, {} \cup {v})) = w[v] + SumFunction(Restrict(w, {}))
      /\ SumFunction(Restrict(w, {})) = 0 /\ Restrict(w, {v}) = w
  <2>1. IsFiniteSet({v}) /\ {} \in SUBSET {v} /\ v \in {v} \ {}
    BY FS_Singleton
  <2> QED BY ONLY <1>2, <2>1, SumGrows
<1>6. {} \cup {v} = {v} /\ LenOf(v) + 0 = LenOf(v)
  BY <1>1
<1> QED BY <1>1, <1>2, <1>3, <1>4, <1>5, <1>6

(* Whatever is below a state that has been killed or taken has been killed, or the
   loop will come to it. *)
Pending(v) == pc = "kill" /\ \E k \in ql..Len(queue) : queue[k] = v
Emptied(v) == Below(v) \subseteq killed \/ Pending(v)

ChoiceInv ==
    Choosing =>
    /\ \A v \in rest \cup dictV : LenOf(v) \in MinMatchLength..maxDictSize
    /\ dictV \cap killed = {} /\ rest \cap dictV = {}
    /\ \A v \in killed \cup dictV : Emptied(v)
    /\ sumLen \in 0..maxDictSize
    /\ pc # "kill" => sumLen = TotalLen(dictV)
    /\ pc = "kill" =>
        /\ LenOf(candidate) \in MinMatchLength..maxDictSize
        /\ candidate \notin dictV \cup rest
        /\ Emptied(candidate)
        /\ sumLen = TotalLen(dictV) + LenOf(candidate)

LEMMA ChoiceStart ==
    ASSUME BuildInv, Fed, QueueInv, Unchosen, Collect
    PROVE  ChoiceInv'
<1>1. /\ pc = "walk" /\ pc' = "choose" /\ rest' = Candidates /\ nodes' = nodes
      /\ killed' = killed /\ dictV' = dictV /\ sumLen' = sumLen /\ maxDictSize' = maxDictSize
      /\ \A v : LenOf(v)' = LenOf(v)
  BY SameNodes DEF Collect, Counted, input, build
<1>2. killed = {} /\ dictV = {} /\ sumLen = 0
  BY <1>1 DEF Unchosen, Choosing
<1>3. PICK at : Automaton(added, nodes, at)
  BY <1>1 DEF BuildInv
<1>4. TotalLen(dictV)' = 0
  <2>1. [x \in {} |-> LenOf(x)] \in [{} -> Nat]
    OBVIOUS
  <2>2. IsFiniteSet({})
    BY FS_EmptySet
  <2>3. SumFunction([x \in {} |-> LenOf(x)]) = 0
    BY ONLY <2>1, <2>2, SumNat
  <2>4. TotalLen(dictV)' = SumFunction([x \in dictV' |-> LenOf(x)'])
    BY DEF TotalLen
  <2>5. [x \in dictV' |-> LenOf(x)'] = [x \in {} |-> LenOf(x)]
    BY <1>1, <1>2
  <2> QED BY <2>3, <2>4, <2>5
<1>5. \A v \in rest' : LenOf(v)' \in MinMatchLength..maxDictSize'
  BY <1>1 DEF Candidates
<1>6. maxDictSize \in Nat
  BY FedFacts
<1> QED BY <1>1, <1>2, <1>4, <1>5, <1>6 DEF ChoiceInv, Choosing

LEMMA SameTotal ==
    ASSUME nodes' = nodes
    PROVE  /\ dictV' = dictV => TotalLen(dictV)' = TotalLen(dictV)
           /\ \A A : dictV' = A => TotalLen(dictV)' = TotalLen(A)
           /\ candidate' = candidate => LenOf(candidate)' = LenOf(candidate)
           /\ \A v : candidate' = v => LenOf(candidate)' = LenOf(v)
BY SameNodes DEF TotalLen, LenOf

LEMMA TakeChosen ==
    ASSUME BuildInv, Fed, QueueInv, ChoiceInv, TakeCandidate
    PROVE  ChoiceInv'
<1>1. PICK v \in rest : /\ v \notin killed /\ queue' = <<v>> /\ ql' = 1 /\ candidate' = v
                        /\ rest' = rest \ {v} /\ sumLen' = sumLen + LenOf(v)
                        /\ LenOf(v) + sumLen <= maxDictSize
  BY DEF TakeCandidate, Fits
<1>2. /\ pc = "choose" /\ pc' = "kill" /\ nodes' = nodes /\ maxDictSize' = maxDictSize
      /\ killed' = killed /\ dictV' = dictV
      /\ \A x : LenOf(x)' = LenOf(x) /\ Below(x)' = Below(x)
  BY SameNodes DEF TakeCandidate, input, build
<1>3. /\ \A x \in rest \cup dictV : LenOf(x) \in MinMatchLength..maxDictSize
      /\ dictV \cap killed = {} /\ rest \cap dictV = {}
      /\ \A x \in killed \cup dictV : Emptied(x)
      /\ sumLen \in 0..maxDictSize /\ sumLen = TotalLen(dictV)
  BY <1>2 DEF ChoiceInv, Choosing
<1>4. \A x \in killed \cup dictV : Below(x) \subseteq killed
  BY <1>2, <1>3 DEF Emptied, Pending
<1>5. maxDictSize \in Nat /\ MinMatchLength \in Nat
  BY FedFacts
<1>6. LenOf(v) \in MinMatchLength..maxDictSize /\ sumLen' \in 0..maxDictSize
  <2>1. LenOf(v) \in MinMatchLength..maxDictSize
    BY <1>3
  <2>2. LenOf(v) \in Nat /\ sumLen \in Nat
    BY <1>3, <1>5, <2>1
  <2>3. sumLen + LenOf(v) = LenOf(v) + sumLen
    BY <2>2
  <2> QED BY <1>1, <1>5, <2>1, <2>2, <2>3
<1>7. (Emptied(candidate))'
  <2>1. queue'[1] = v /\ 1 \in 1..Len(queue')
    BY <1>1
  <2>2. \E k \in ql'..Len(queue') : queue'[k] = candidate'
    BY <1>1, <2>1
  <2> QED BY <1>2, <2>2 DEF Emptied, Pending
<1>8. \A x \in killed' \cup dictV' : Emptied(x)'
  BY <1>2, <1>4 DEF Emptied
<1>9. TotalLen(dictV)' = TotalLen(dictV) /\ LenOf(candidate)' = LenOf(v)
  BY <1>1, <1>2, SameTotal
<1>10. /\ \A x \in rest' \cup dictV' : LenOf(x)' \in MinMatchLength..maxDictSize'
       /\ dictV' \cap killed' = {} /\ rest' \cap dictV' = {}
       /\ candidate' \notin dictV' \cup rest'
       /\ LenOf(candidate)' \in MinMatchLength..maxDictSize'
       /\ sumLen' \in 0..maxDictSize'
       /\ sumLen' = TotalLen(dictV)' + LenOf(candidate)'
  BY ONLY <1>1, <1>2, <1>3, <1>6, <1>9
<1>11. pc' = "kill"
  BY <1>2
<1> QED BY ONLY <1>7, <1>8, <1>10, <1>11 DEF ChoiceInv, Choosing

LEMMA EndKillChosen ==
    ASSUME BuildInv, Fed, QueueInv, ChoiceInv, EndKill
    PROVE  ChoiceInv'
<1>1. /\ pc = "kill" /\ pc' = "choose" /\ ql > Len(queue) /\ dictV' = dictV \cup {candidate}
      /\ nodes' = nodes /\ maxDictSize' = maxDictSize /\ rest' = rest /\ killed' = killed
      /\ sumLen' = sumLen /\ \A x : LenOf(x)' = LenOf(x) /\ Below(x)' = Below(x)
  BY SameNodes DEF EndKill, input, build
<1>2. /\ \A x \in rest \cup dictV : LenOf(x) \in MinMatchLength..maxDictSize
      /\ dictV \cap killed = {} /\ rest \cap dictV = {}
      /\ \A x \in killed \cup dictV : Emptied(x)
      /\ sumLen \in 0..maxDictSize
      /\ LenOf(candidate) \in MinMatchLength..maxDictSize
      /\ candidate \notin dictV \cup rest /\ Emptied(candidate)
      /\ sumLen = TotalLen(dictV) + LenOf(candidate)
  BY <1>1 DEF ChoiceInv, Choosing
<1>3. candidate \in States /\ candidate \notin killed /\ dictV \subseteq States
      /\ queue \in Seq(States) /\ ql \in Nat \ {0}
  BY <1>1 DEF QueueInv, Training
<1>4. ql..Len(queue) = {}
  BY <1>1, <1>3, LenProperties
<1>5. \A x \in (killed \cup dictV) \cup {candidate} : Below(x) \subseteq killed
  BY <1>2, <1>4 DEF Emptied, Pending
<1>6. TotalLen(dictV)' = TotalLen(dictV) + LenOf(candidate)
  <2>1. PICK at : Automaton(added, nodes, at)
    BY <1>1 DEF BuildInv
  <2>2. {candidate} \in SUBSET States /\ dictV \in SUBSET States /\ dictV \cap {candidate} = {}
    BY <1>2, <1>3
  <2>3. TotalLen(dictV \cup {candidate}) = TotalLen(dictV) + TotalLen({candidate})
    BY <2>1, <2>2, LengthsAdd
  <2>4. TotalLen({candidate}) = LenOf(candidate)
    BY <1>3, <2>1, LengthAlone
  <2>5. TotalLen(dictV)' = TotalLen(dictV \cup {candidate})
    BY <1>1, SameTotal
  <2> QED BY <2>3, <2>4, <2>5
<1>7. \A x \in killed' \cup dictV' : Emptied(x)'
  BY <1>1, <1>5 DEF Emptied
<1>8. /\ \A x \in rest' \cup dictV' : LenOf(x)' \in MinMatchLength..maxDictSize'
      /\ dictV' \cap killed' = {} /\ rest' \cap dictV' = {}
      /\ sumLen' \in 0..maxDictSize' /\ sumLen' = TotalLen(dictV)'
  BY ONLY <1>1, <1>2, <1>3, <1>6
<1>9. pc' = "choose"
  BY <1>1
<1> QED BY ONLY <1>7, <1>8, <1>9 DEF ChoiceInv, Choosing

LEMMA RestChosen ==
    ASSUME ChoiceInv, SkipCandidate \/ Output \/ UNCHANGED dictVars
    PROVE  ChoiceInv'
<1>1. /\ rest' \subseteq rest /\ nodes' = nodes /\ maxDictSize' = maxDictSize
      /\ killed' = killed /\ dictV' = dictV /\ sumLen' = sumLen /\ candidate' = candidate
      /\ queue' = queue /\ ql' = ql
      /\ pc' = pc \/ (pc = "choose" /\ pc' = "done")
      /\ \A x : LenOf(x)' = LenOf(x) /\ Below(x)' = Below(x)
  BY SameNodes DEF SkipCandidate, Output, dictVars, input, build, choice
<1>2. Choosing' => Choosing
  BY <1>1 DEF Choosing
<1>3. \A x : Emptied(x) => Emptied(x)'
  BY <1>1 DEF Emptied, Pending
<1>4. TotalLen(dictV)' = TotalLen(dictV) /\ LenOf(candidate)' = LenOf(candidate)
  BY <1>1, SameTotal
<1>5. Emptied(candidate)' <=> Emptied(candidate)
  BY <1>1 DEF Emptied, Pending, Below, RevTo, States
<1> QED BY <1>1, <1>2, <1>3, <1>4, <1>5 DEF ChoiceInv

LEMMA KillChosen ==
    ASSUME BuildInv, Fed, QueueInv, QueueInv', ChoiceInv, Kill
    PROVE  ChoiceInv'
<1> DEFINE fresh == Killable(queue[ql])
<1>1. /\ pc = "kill" /\ pc' = "kill" /\ ql <= Len(queue) /\ ql' = ql + 1
      /\ queue' = queue \o InOrder(queue[ql], fresh) /\ killed' = killed \cup fresh
      /\ dictV' = dictV \ fresh /\ candidate' = candidate /\ rest' = rest
      /\ sumLen' = sumLen - TotalLen(dictV \cap fresh)
      /\ nodes' = nodes /\ maxDictSize' = maxDictSize
      /\ \A x : LenOf(x)' = LenOf(x) /\ Below(x)' = Below(x)
  BY SameNodes DEF Kill, input, build
<1>2. /\ \A x \in rest \cup dictV : LenOf(x) \in MinMatchLength..maxDictSize
      /\ dictV \cap killed = {} /\ rest \cap dictV = {}
      /\ \A x \in killed \cup dictV : Emptied(x)
      /\ sumLen \in 0..maxDictSize
      /\ LenOf(candidate) \in MinMatchLength..maxDictSize
      /\ candidate \notin dictV \cup rest /\ Emptied(candidate)
      /\ sumLen = TotalLen(dictV) + LenOf(candidate)
  BY <1>1 DEF ChoiceInv, Choosing
<1>3. /\ candidate \in States /\ candidate \notin killed /\ dictV \subseteq States
      /\ queue \in Seq(States) /\ ql \in Nat \ {0} /\ killed' \subseteq States'
      /\ Len(queue) \in Nat
  BY <1>1, LenProperties DEF QueueInv, Training
<1>4. PICK at : Automaton(added, nodes, at)
  BY <1>1 DEF BuildInv
<1>5. States' = States
  BY <1>1, SameNodes
<1>6. fresh = Below(queue[ql]) \ killed /\ fresh \subseteq States
  BY <1>1, <1>3, <1>5, KillableIsBelow
<1> HIDE DEF fresh
<1>7. Lists(InOrder(queue[ql], fresh), fresh)
  <2>1. Len(nodes) \in Nat /\ fresh \in SUBSET (1..Len(nodes))
    BY <1>4, <1>6 DEF Automaton, NodesOK, States
  <2> QED BY <2>1, InOrderLists
<1> DEFINE newly == InOrder(queue[ql], fresh)
<1> HIDE DEF newly
<1>8. /\ Len(queue') = Len(queue) + Len(newly) /\ Len(newly) \in Nat
      /\ \A k \in 1..Len(queue) + Len(newly) :
            queue'[k] = IF k <= Len(queue) THEN queue[k] ELSE newly[k - Len(queue)]
  <2>1. newly \in Seq(fresh)
    BY <1>7 DEF Lists, newly
  <2>2. newly \in Seq(States)
    BY ONLY <1>6, <2>1
  <2>3. queue' = queue \o newly
    BY <1>1 DEF newly
  <2> QED BY ONLY <1>3, <2>2, <2>3, ConcatProperties, LenProperties
<1>9. ASSUME NEW x \in fresh PROVE \E k \in ql'..Len(queue') : queue'[k] = x
  <2>1. PICK j \in 1..Len(newly) : newly[j] = x
    BY <1>7 DEF Lists, newly
  <2>2. /\ Len(queue) + j \in 1..Len(queue) + Len(newly) /\ (Len(queue) + j) - Len(queue) = j
        /\ ~ (Len(queue) + j <= Len(queue)) /\ Len(queue) + j \in ql + 1..Len(queue) + Len(newly)
    BY <1>1, <1>3, <1>8
  <2>3. queue'[Len(queue) + j] = x
    BY ONLY <1>8, <2>1, <2>2
  <2> QED BY <1>1, <1>8, <2>2, <2>3
<1>10. ASSUME NEW x, Emptied(x) PROVE Emptied(x)'
  <2>1. CASE Below(x) \subseteq killed
    BY <1>1, <2>1 DEF Emptied
  <2>2. CASE Pending(x)
    <3>1. PICK k \in ql..Len(queue) : queue[k] = x
      BY <2>2 DEF Pending
    <3>2. CASE k = ql
      <4>1. Below(x) \subseteq killed'
        BY <1>1, <1>6, <3>1, <3>2
      <4> QED BY <1>1, <4>1 DEF Emptied
    <3>3. CASE k # ql
      <4>1. k \in ql + 1..Len(queue) + Len(newly) /\ k \in 1..Len(queue) + Len(newly) /\ k <= Len(queue)
        BY <1>3, <1>8, <3>1, <3>3
      <4>2. queue'[k] = x /\ k \in ql'..Len(queue')
        BY <1>1, <1>8, <3>1, <4>1
      <4> QED BY <1>1, <4>2 DEF Emptied, Pending
    <3> QED BY <3>2, <3>3
  <2> QED BY <1>10, <2>1, <2>2 DEF Emptied
<1>11. \A x \in killed' \cup dictV' : Emptied(x)'
  <2> SUFFICES ASSUME NEW x \in killed' \cup dictV' PROVE Emptied(x)'
    OBVIOUS
  <2>1. CASE x \in fresh
    BY <1>1, <1>9, <2>1 DEF Emptied, Pending
  <2>2. CASE x \notin fresh
    <3>1. x \in killed \cup dictV
      BY <1>1, <2>2
    <3> QED BY <1>2, <1>10, <3>1
  <2> QED BY <2>1, <2>2
<1>12. (Emptied(candidate))'
  <2>1. Emptied(candidate) => (Emptied(candidate))'
    <3>1. PICK x : x = candidate
      OBVIOUS
    <3>2. candidate' = x
      BY <1>1, <3>1
    <3>3. Emptied(x) => Emptied(x)'
      BY <1>10
    <3> QED BY <1>1, <3>1, <3>2, <3>3 DEF Emptied, Pending, Below, RevTo, States
  <2> QED BY <1>2, <2>1
<1>13. /\ sumLen' = TotalLen(dictV)' + LenOf(candidate)' /\ sumLen' \in 0..maxDictSize
  <2>1. /\ dictV \ fresh \in SUBSET States /\ dictV \cap fresh \in SUBSET States
        /\ (dictV \ fresh) \cap (dictV \cap fresh) = {}
        /\ (dictV \ fresh) \cup (dictV \cap fresh) = dictV
    BY <1>3
  <2>2. /\ TotalLen(dictV \ fresh) \in Nat /\ TotalLen(dictV \cap fresh) \in Nat
        /\ TotalLen(dictV) = TotalLen(dictV \ fresh) + TotalLen(dictV \cap fresh)
    BY <1>4, <2>1, LengthsAdd
  <2>3. LenOf(candidate) \in Nat
    BY <1>3, <1>4, LengthAlone
  <2>4. TotalLen(dictV)' = TotalLen(dictV \ fresh) /\ LenOf(candidate)' = LenOf(candidate)
    BY <1>1, SameTotal
  <2>5. maxDictSize \in Nat
    BY FedFacts
  <2> QED BY ONLY <1>1, <1>2, <2>2, <2>3, <2>4, <2>5
<1>14. /\ \A x \in rest' \cup dictV' : LenOf(x)' \in MinMatchLength..maxDictSize'
       /\ dictV' \cap killed' = {} /\ rest' \cap dictV' = {}
       /\ candidate' \notin dictV' \cup rest'
  BY ONLY <1>1, <1>2
<1>15. LenOf(candidate)' \in MinMatchLength..maxDictSize'
  <2>1. LenOf(candidate)' = LenOf(candidate)
    BY <1>1, SameTotal
  <2> QED BY ONLY <1>1, <1>2, <2>1
<1>16. pc' = "kill" /\ maxDictSize' = maxDictSize
  BY <1>1
<1> QED BY ONLY <1>11, <1>12, <1>13, <1>14, <1>15, <1>16 DEF ChoiceInv, Choosing
-----------------------------------------------------------------------------
(* Where the longest word of a state ends. *)
Place(at, v, e) == e \in 0..added /\ LenOf(v) \in 0..e /\ at[e][LenOf(v)] = v

LEMMA PlaceThere ==
    ASSUME NEW at, Automaton(added, nodes, at), NEW v \in States
    PROVE  \E e : Place(at, v, e)
<1>1. added \in Nat /\ nodes[v].len \in Nat /\ v \in 1..Len(nodes)
  BY NodeFacts DEF Automaton, States
<1>2. \/ nodes[v].len <= added /\ at[nodes[v].len][nodes[v].len] = v
      \/ \E e, f \in nodes[v].len + 1..added :
            /\ at[e][nodes[v].len] = v /\ at[f][nodes[v].len] = v
            /\ word[e - nodes[v].len] # word[f - nodes[v].len]
  BY <1>1 DEF Automaton, Distinct
<1>3. CASE nodes[v].len <= added /\ at[nodes[v].len][nodes[v].len] = v
  <2>1. nodes[v].len \in 0..added /\ nodes[v].len \in 0..nodes[v].len
    BY <1>1, <1>3
  <2> QED BY <1>3, <2>1 DEF Place, LenOf
<1>4. CASE \E e, f \in nodes[v].len + 1..added :
            /\ at[e][nodes[v].len] = v /\ at[f][nodes[v].len] = v
            /\ word[e - nodes[v].len] # word[f - nodes[v].len]
  <2>1. PICK e \in nodes[v].len + 1..added : at[e][nodes[v].len] = v
    BY <1>4
  <2>2. e \in 0..added /\ nodes[v].len \in 0..e
    BY <1>1, <2>1
  <2> QED BY <2>1, <2>2 DEF Place, LenOf
<1> QED BY <1>2, <1>3, <1>4

LEMMA PlacesAgree ==
    ASSUME NEW at, Automaton(added, nodes, at), NEW v, NEW e, NEW f, Place(at, v, e), Place(at, v, f)
    PROVE  Piece(e, LenOf(v)) = Piece(f, LenOf(v))
<1>1. /\ e \in 0..added /\ f \in 0..added /\ LenOf(v) \in 0..e /\ LenOf(v) \in 0..f
      /\ at[e][LenOf(v)] = at[f][LenOf(v)] /\ word \in Seq({0, 1}) /\ added \in 0..Len(word)
  BY DEF Place, Automaton
<1>2. LenOf(v) \in Nat /\ LenOf(v) <= LenOf(v) /\ LenOf(v) <= f
  BY <1>1
<1>3. Same(e, f, LenOf(v))
  BY <1>1, <1>2 DEF Automaton, SuffixOfOther
<1>4. e \in 0..Len(word) /\ f \in 0..Len(word)
  BY <1>1, LenProperties
<1> QED BY <1>1, <1>2, <1>3, <1>4, PiecesSame

(* The last character of the longest word. *)
LEMMA BeforeThere ==
    ASSUME NEW at, Automaton(added, nodes, at), NEW v \in States, v # Root
    PROVE  Before(v) # {}
<1>1. PICK e : Place(at, v, e)
  BY PlaceThere
<1>2. e \in 0..added /\ LenOf(v) \in 0..e /\ at[e][LenOf(v)] = v /\ added \in Nat
  BY <1>1 DEF Place, Automaton
<1>3. LenOf(v) # 0
  BY <1>2 DEF Automaton, StateThere
<1> DEFINE d == e - 1
           k == LenOf(v) - 1
<1>4. d \in 0..added - 1 /\ d \in 0..added /\ k \in 0..d /\ d + 1 = e /\ k + 1 = LenOf(v) /\ k \in Nat
  BY <1>2, <1>3
<1> HIDE DEF d, k
<1>5. nodes[at[d][k]].to[word[d + 1]] = v
  BY <1>2, <1>4 DEF Automaton, Steps
<1>6. at[d][k] \in 1..Len(nodes) /\ nodes[at[d][k]].len \in k..d
  BY <1>4, StateFacts
<1>7. word[d + 1] \in {0, 1}
  <2>1. d + 1 \in 1..Len(word)
    BY <1>4, LenProperties DEF Automaton
  <2> QED BY <2>1, ElementOfSeq DEF Automaton
<1>8. nodes[at[d][k]].len < LenOf(v)
  <2>1. nodes[at[d][k]].to[word[d + 1]] # Null
    BY <1>5 DEF States, Null
  <2> QED BY <1>5, <1>6, <1>7, <2>1, StepLonger DEF LenOf
<1>9. LenOf(v) = LenOf(at[d][k]) + 1
  <2>1. nodes[at[d][k]].len \in Nat /\ LenOf(v) \in Nat
    BY <1>2, <1>4, <1>6
  <2> QED BY <1>4, <1>6, <1>8, <2>1 DEF LenOf
<1>10. at[d][k] \in Before(v)
  BY <1>5, <1>6, <1>7, <1>9 DEF Before, RevTo, States
<1> QED BY <1>10

LEMMA BeforePlace ==
    ASSUME NEW at, Automaton(added, nodes, at), NEW v \in States, NEW w \in Before(v),
           NEW ch, ch = IF nodes[w].to[0] = v THEN 0 ELSE 1
    PROVE  \E e : Place(at, w, e) /\ Place(at, v, e + 1) /\ word[e + 1] = ch /\ e + 1 <= added
<1>1. w \in 1..Len(nodes) /\ LenOf(v) = LenOf(w) + 1 /\ \E c \in {0, 1} : nodes[w].to[c] = v
  BY DEF Before, RevTo, States
<1>2. ch \in {0, 1} /\ nodes[w].to[ch] = v /\ nodes[w].to[ch] # Null
  BY <1>1 DEF States, Null
<1>3. \E e \in 0..added - 1 :
        /\ nodes[w].len \in 0..e /\ at[e][nodes[w].len] = w /\ word[e + 1] = ch
        /\ at[e + 1][nodes[w].len + 1] = nodes[w].to[ch]
  BY <1>1, <1>2, StepPlace
<1>4. PICK e \in 0..added - 1 :
        /\ nodes[w].len \in 0..e /\ at[e][nodes[w].len] = w /\ word[e + 1] = ch
        /\ at[e + 1][nodes[w].len + 1] = nodes[w].to[ch]
  BY ONLY <1>3
<1>5. added \in Nat
  BY DEF Automaton
<1>6. e \in 0..added /\ e + 1 \in 0..added /\ nodes[w].len + 1 \in 0..e + 1 /\ e + 1 <= added
  BY <1>4, <1>5
<1>7. Place(at, w, e)
  BY <1>4, <1>6 DEF Place, LenOf
<1>8. Place(at, v, e + 1)
  <2>1. LenOf(v) = nodes[w].len + 1
    BY <1>1 DEF LenOf
  <2> QED BY <1>2, <1>4, <1>6, <2>1 DEF Place
<1> QED BY <1>4, <1>6, <1>7, <1>8

(* restore_longest_str_for_v goes back from state to state, always to the last one
   that precedes by one character. *)
LastBefore(v) == CHOOSE w \in Before(v) : \A x \in Before(v) : x <= w
LastChar(v) == IF nodes[LastBefore(v)].to[0] = v THEN 0 ELSE 1
Restored(s) ==
    s = [v \in States |-> IF v = Root THEN << >> ELSE Append(s[LastBefore(v)], LastChar(v))]

LEMMA LastBeforePlace ==
    ASSUME NEW at, Automaton(added, nodes, at), NEW v \in States, v # Root
    PROVE  /\ LastBefore(v) \in States /\ LenOf(v) = LenOf(LastBefore(v)) + 1
           /\ \E e : /\ Place(at, LastBefore(v), e) /\ Place(at, v, e + 1)
                     /\ word[e + 1] = LastChar(v) /\ e + 1 <= added
<1>1. Before(v) # {} /\ Before(v) \in SUBSET (1..Len(nodes)) /\ Len(nodes) \in Nat
  BY BeforeThere DEF Before, RevTo, States, Automaton, NodesOK
<1>2. \E w \in Before(v) : \A x \in Before(v) : x <= w
  BY <1>1, LargestOf
<1>3. LastBefore(v) \in Before(v)
  BY <1>2 DEF LastBefore
<1>4. LastBefore(v) \in States /\ LenOf(v) = LenOf(LastBefore(v)) + 1
  BY <1>3 DEF Before, RevTo
<1>5. \E e : /\ Place(at, LastBefore(v), e) /\ Place(at, v, e + 1)
             /\ word[e + 1] = LastChar(v) /\ e + 1 <= added
  BY <1>3, BeforePlace DEF LastChar
<1> QED BY <1>4, <1>5

LEMMA LongerPiece ==
    ASSUME word \in Seq({0, 1}), NEW e \in Nat, e + 1 <= Len(word), NEW l \in 0..e
    PROVE  Piece(e + 1, l + 1) = Append(Piece(e, l), word[e + 1])
<1>1. Len(word) \in Nat /\ e \in 0..Len(word) /\ e + 1 \in 0..Len(word) /\ l + 1 \in 0..e + 1 /\ l \in Nat
      /\ e + 1 \in 1..Len(word) /\ l + 1 \in Nat
  BY LenProperties
<1>2. word[e + 1] \in {0, 1}
  BY <1>1, ElementOfSeq
<1>3. /\ Piece(e, l) \in Seq({0, 1}) /\ Len(Piece(e, l)) = l
      /\ \A k \in 1..l : Piece(e, l)[k] = word[(e - l) + k]
  BY <1>1, PieceFacts
<1>4. /\ Piece(e + 1, l + 1) \in Seq({0, 1}) /\ Len(Piece(e + 1, l + 1)) = l + 1
      /\ \A k \in 1..l + 1 : Piece(e + 1, l + 1)[k] = word[((e + 1) - (l + 1)) + k]
  BY ONLY <1>1, word \in Seq({0, 1}), PieceFacts
<1> DEFINE a == Piece(e, l)
           b == Piece(e + 1, l + 1)
           z == Append(a, word[e + 1])
<1> HIDE DEF a, b, z
<1>5. /\ z \in Seq({0, 1}) /\ Len(z) = l + 1 /\ \A k \in 1..l : z[k] = a[k]
      /\ z[l + 1] = word[e + 1]
  <2>1. a \in Seq({0, 1}) /\ Len(a) = l
    BY <1>3 DEF a
  <2> QED BY ONLY <1>2, <2>1, PushFacts DEF z
<1>6. b \in Seq({0, 1}) /\ Len(b) = l + 1 /\ \A k \in 1..l + 1 : b[k] = word[(e - l) + k]
  <2>1. (e + 1) - (l + 1) = e - l
    BY <1>1
  <2> QED BY ONLY <1>4, <2>1 DEF b
<1>7. ASSUME NEW k \in 1..Len(b) PROVE b[k] = z[k]
  <2>1. k \in 1..l + 1
    BY ONLY <1>6, <1>7, k \in 1..Len(b)
  <2>2. CASE k = l + 1
    <3>1. (e - l) + (l + 1) = e + 1
      BY <1>1
    <3> QED BY ONLY <1>5, <1>6, <2>1, <2>2, <3>1
  <2>3. CASE k # l + 1
    <3>1. k \in 1..l
      BY <1>1, <2>1, <2>3
    <3>2. a[k] = word[(e - l) + k]
      BY ONLY <1>3, <3>1 DEF a
    <3> QED BY ONLY <1>5, <1>6, <2>1, <3>1, <3>2
  <2> QED BY <2>2, <2>3
<1>8. b = z
  BY ONLY <1>5, <1>6, <1>7, SeqEqual
<1> QED BY <1>8 DEF a, b, z

LEMMA RestoredWords ==
    ASSUME NEW at, Automaton(added, nodes, at)
    PROVE  \E s : Restored(s)
<1> DEFINE E(v) == CHOOSE e : Place(at, v, e)
           s == [v \in States |-> Piece(E(v), LenOf(v))]
<1>0. \A v \in States : Place(at, v, E(v))
  BY PlaceThere
<1> HIDE DEF E
<1>1. ASSUME NEW v \in States
      PROVE  s[v] = IF v = Root THEN << >> ELSE Append(s[LastBefore(v)], LastChar(v))
  <2>1. CASE v = Root
    <3>1. Place(at, v, E(v)) /\ LenOf(v) = 0
      BY <1>0, <2>1 DEF LenOf, Automaton, NodesOK
    <3>2. /\ word \in Seq({0, 1}) /\ E(v) \in 0..Len(word) /\ 0 \in 0..E(v)
      BY <3>1, LenProperties DEF Place, Automaton
    <3>3. Piece(E(v), 0) \in Seq({0, 1}) /\ Len(Piece(E(v), 0)) = 0
      BY <3>2, PieceFacts
    <3>4. Piece(E(v), 0) = << >>
      BY <3>3, EmptySeq
    <3> QED BY <2>1, <3>1, <3>4
  <2>2. CASE v # Root
    <3>1. /\ LastBefore(v) \in States /\ LenOf(v) = LenOf(LastBefore(v)) + 1
          /\ \E e : /\ Place(at, LastBefore(v), e) /\ Place(at, v, e + 1)
                    /\ word[e + 1] = LastChar(v) /\ e + 1 <= added
      BY <2>2, LastBeforePlace
    <3> DEFINE w == LastBefore(v)
    <3> HIDE DEF w
    <3>2. PICK e : /\ Place(at, w, e) /\ Place(at, v, e + 1) /\ word[e + 1] = LastChar(v)
                   /\ e + 1 <= added
      BY <3>1 DEF w
    <3>3. w \in States /\ LenOf(v) = LenOf(w) + 1
      BY <3>1 DEF w
    <3>4. s[v] = Piece(e + 1, LenOf(v)) /\ s[w] = Piece(e, LenOf(w))
      <4>1. Place(at, v, E(v)) /\ Place(at, w, E(w))
        BY <1>0, <3>3
      <4> QED BY <3>2, <3>3, <4>1, PlacesAgree
    <3>5. e \in Nat /\ LenOf(w) \in 0..e /\ e + 1 <= Len(word) /\ word \in Seq({0, 1})
      BY <3>2, LenProperties DEF Place, Automaton
    <3>6. Piece(e + 1, LenOf(w) + 1) = Append(Piece(e, LenOf(w)), word[e + 1])
      BY ONLY <3>5, LongerPiece
    <3> HIDE DEF s
    <3> QED BY ONLY <2>2, <3>2, <3>3, <3>4, <3>6 DEF w
  <2> QED BY <2>1, <2>2
<1>2. s = [v \in States |-> s[v]]
  OBVIOUS
<1> HIDE DEF s
<1>3. Restored(s)
  BY <1>1, <1>2 DEF Restored
<1> QED BY <1>3

LEMMA LongestRestored ==
    ASSUME NEW at, Automaton(added, nodes, at)
    PROVE  Restored(Longest)
<1>1. Longest = CHOOSE s : Restored(s)
  BY DEF Longest, Restored, LastBefore, LastChar
<1> QED BY <1>1, RestoredWords

LEMMA LongestIsPiece ==
    ASSUME NEW at, Automaton(added, nodes, at), NEW v \in States, NEW e, Place(at, v, e)
    PROVE  Longest[v] = Piece(e, LenOf(v))
<1> DEFINE I == {k \in Nat : \A w \in States : LenOf(w) = k =>
                    \A f : Place(at, w, f) => Longest[w] = Piece(f, LenOf(w))}
<1>0. Restored(Longest)
  BY LongestRestored
<1> DEFINE s == Longest
<1> HIDE DEF s
<1>1. \A w \in States : s[w] = IF w = Root THEN << >> ELSE Append(s[LastBefore(w)], LastChar(w))
  BY <1>0 DEF Restored, s
<1>2. ASSUME NEW w \in States, NEW f, Place(at, w, f), w = Root PROVE s[w] = Piece(f, LenOf(w))
  <2>1. LenOf(w) = 0 /\ s[w] = << >>
    BY <1>1, <1>2 DEF LenOf, Automaton, NodesOK
  <2>2. word \in Seq({0, 1}) /\ f \in 0..Len(word) /\ 0 \in 0..f
    BY <1>2, LenProperties DEF Place, Automaton
  <2>3. Piece(f, 0) \in Seq({0, 1}) /\ Len(Piece(f, 0)) = 0
    BY <2>2, PieceFacts
  <2>4. Piece(f, 0) = << >>
    BY <2>3, EmptySeq
  <2> QED BY <2>1, <2>4
<1>3. ASSUME NEW w \in States, NEW f, Place(at, w, f), w # Root,
             \A g : Place(at, LastBefore(w), g) => s[LastBefore(w)] = Piece(g, LenOf(LastBefore(w)))
      PROVE  s[w] = Piece(f, LenOf(w))
  <2>1. /\ LastBefore(w) \in States /\ LenOf(w) = LenOf(LastBefore(w)) + 1
        /\ \E g : /\ Place(at, LastBefore(w), g) /\ Place(at, w, g + 1)
                  /\ word[g + 1] = LastChar(w) /\ g + 1 <= added
    BY <1>3, LastBeforePlace
  <2> DEFINE x == LastBefore(w)
  <2> HIDE DEF x
  <2>2. PICK g : /\ Place(at, x, g) /\ Place(at, w, g + 1) /\ word[g + 1] = LastChar(w)
                 /\ g + 1 <= added
    BY <2>1 DEF x
  <2>3. s[x] = Piece(g, LenOf(x)) /\ LenOf(w) = LenOf(x) + 1 /\ s[w] = Append(s[x], LastChar(w))
    BY <1>1, <1>3, <2>1, <2>2 DEF x
  <2>4. g \in Nat /\ LenOf(x) \in 0..g /\ g + 1 <= Len(word) /\ word \in Seq({0, 1})
    BY <2>2, LenProperties DEF Place, Automaton
  <2>5. Piece(g + 1, LenOf(x) + 1) = Append(Piece(g, LenOf(x)), word[g + 1])
    BY ONLY <2>4, LongerPiece
  <2>6. Piece(g + 1, LenOf(w)) = Piece(f, LenOf(w))
    BY <1>3, <2>2, PlacesAgree
  <2> QED BY ONLY <2>2, <2>3, <2>5, <2>6
<1>4. 0 \in I
  <2> SUFFICES ASSUME NEW w \in States, LenOf(w) = 0, NEW f, Place(at, w, f)
               PROVE  s[w] = Piece(f, LenOf(w))
    BY DEF s
  <2>1. w = Root
    BY DEF Place, Automaton, StateThere
  <2> QED BY <1>2, <2>1
<1>5. ASSUME NEW k \in Nat, k \in I PROVE k + 1 \in I
  <2> SUFFICES ASSUME NEW w \in States, LenOf(w) = k + 1, NEW f, Place(at, w, f)
               PROVE  s[w] = Piece(f, LenOf(w))
    BY DEF s
  <2>1. CASE w = Root
    BY <1>2, <2>1
  <2>2. CASE w # Root
    <3>1. LastBefore(w) \in States /\ LenOf(w) = LenOf(LastBefore(w)) + 1
      BY <2>2, LastBeforePlace
    <3>2. LenOf(LastBefore(w)) \in Nat
      BY <3>1, LengthAlone
    <3>3. LenOf(LastBefore(w)) = k
      BY <3>1, <3>2
    <3>4. \A g : Place(at, LastBefore(w), g) => s[LastBefore(w)] = Piece(g, LenOf(LastBefore(w)))
      BY <1>5, <3>1, <3>3 DEF s
    <3> QED BY <1>3, <2>2, <3>4
  <2> QED BY <2>1, <2>2
<1>6. Nat \subseteq I
  <2> HIDE DEF I
  <2> QED BY <1>4, <1>5, NatInduct
<1>7. LenOf(v) \in I
  <2>1. LenOf(v) \in Nat
    BY LengthAlone
  <2> HIDE DEF I
  <2> QED BY <1>6, <2>1
<1> QED BY <1>7

(* From a state the way down leads to the states of all the words within its
   longest one: a character less in front is the link or the same state, a
   character less at the end a state before. *)
LEMMA ShorterSuffix ==
    ASSUME NEW at, Automaton(added, nodes, at), NEW e \in 0..added, NEW l \in Nat, l + 1 <= e
    PROVE  \/ at[e][l] = at[e][l + 1]
           \/ /\ at[e][l] = nodes[at[e][l + 1]].link /\ at[e][l] # Null
              /\ at[e][l] \in Below(at[e][l + 1])
<1>1. e \in Nat /\ added \in Nat /\ l + 1 \in 0..e /\ l + 1 \in 1..e /\ l \in 0..e /\ l + 1 \in Nat
      /\ l + 1 # 0
  BY DEF Automaton
<1> DEFINE v == at[e][l + 1]
<1>2. /\ nodes[v].len \in l + 1..e /\ Shortest(nodes, v) \in 0..l + 1
      /\ \A k \in Shortest(nodes, v)..nodes[v].len : at[e][k] = v
  BY <1>1 DEF Automaton, Lengths, LengthAt
<1>3. v # Root /\ v \in 1..Len(nodes) /\ at[e][l] \in 1..Len(nodes)
  BY <1>1, StateFacts
<1>4. nodes[v].link # Null /\ at[e][nodes[nodes[v].link].len] = nodes[v].link
  BY <1>1 DEF Automaton, Links, LinkAt
<1>5. nodes[nodes[v].link].len \in Nat /\ nodes[v].len \in Nat
  BY <1>3, LinkThere
<1> HIDE DEF v
<1>6. Shortest(nodes, v) = nodes[nodes[v].link].len + 1
  BY <1>3 DEF Shortest
<1>7. CASE Shortest(nodes, v) <= l
  <2>1. l \in Shortest(nodes, v)..nodes[v].len
    BY <1>1, <1>2, <1>5, <1>6, <1>7
  <2>2. at[e][l] = v
    BY ONLY <1>2, <2>1
  <2> QED BY <2>2 DEF v
<1>8. CASE ~ (Shortest(nodes, v) <= l)
  <2>1. nodes[nodes[v].link].len = l
    BY <1>1, <1>2, <1>5, <1>6, <1>8
  <2>2. at[e][l] = nodes[v].link
    BY ONLY <1>4, <2>1
  <2>3. at[e][l] \in Below(v)
    BY <1>4, <2>2 DEF Below
  <2> QED BY <1>4, <2>2, <2>3 DEF v
<1> QED BY <1>7, <1>8

LEMMA ShorterPrefix ==
    ASSUME NEW at, Automaton(added, nodes, at), NEW e \in 0..added - 1, NEW l \in 0..e
    PROVE  at[e][l] \in Below(at[e + 1][l + 1])
<1>1. added \in Nat /\ e \in 0..added /\ e + 1 \in 1..Len(word) /\ word \in Seq({0, 1})
  BY LenProperties DEF Automaton
<1>2. word[e + 1] \in {0, 1}
  BY <1>1, ElementOfSeq
<1>3. nodes[at[e][l]].to[word[e + 1]] = at[e + 1][l + 1]
  BY DEF Automaton, Steps
<1>4. at[e][l] \in States
  BY <1>1, StateFacts DEF States
<1>5. at[e][l] # Null
  BY <1>4 DEF States, Null
<1> QED BY <1>2, <1>3, <1>4, <1>5 DEF Below, RevTo

LEMMA AllBelow ==
    ASSUME NEW at, Automaton(added, nodes, at), NEW K, \A v \in K : Below(v) \subseteq K,
           NEW w, Below(w) \subseteq K, NEW e, Place(at, w, e),
           NEW a \in 0..LenOf(w), NEW l \in 0..LenOf(w) - a
    PROVE  at[e - a][l] \in K \cup {w}
<1> DEFINE L == LenOf(w)
           X == K \cup {w}
<1>0. e \in 0..added /\ L \in 0..e /\ at[e][L] = w /\ added \in Nat /\ e \in Nat /\ L \in Nat
  BY DEF Place, Automaton
<1>1. \A v \in X : Below(v) \subseteq X
  OBVIOUS
<1> HIDE DEF L, X
<1> DEFINE I == {k \in Nat : k <= L => at[e - k][L - k] \in X}
<1>2. 0 \in I
  BY <1>0 DEF X
<1>3. ASSUME NEW k \in Nat, k \in I PROVE k + 1 \in I
  <2> SUFFICES ASSUME k + 1 <= L PROVE at[e - (k + 1)][L - (k + 1)] \in X
    OBVIOUS
  <2> DEFINE d == e - (k + 1)
             m == L - (k + 1)
  <2>1. /\ k <= L /\ d \in 0..added - 1 /\ m \in 0..d /\ e - k = d + 1 /\ L - k = m + 1
    BY <1>0
  <2>2. at[d + 1][m + 1] \in X
    BY <1>3, <2>1
  <2> HIDE DEF d, m
  <2>3. at[d][m] \in Below(at[d + 1][m + 1])
    BY <2>1, ShorterPrefix
  <2>4. at[d][m] \in X
    BY <1>1, <2>2, <2>3
  <2> QED BY <2>4 DEF d, m
<1>4. Nat \subseteq I
  <2> HIDE DEF I
  <2> QED BY <1>2, <1>3, NatInduct
<1> DEFINE f == e - a
           N == L - a
<1>5. a \in Nat /\ a <= L /\ f \in 0..added /\ N \in 0..f /\ N \in Nat /\ f \in Nat /\ l \in 0..N
  BY <1>0 DEF L
<1>6. at[f][N] \in X
  BY <1>4, <1>5
<1> HIDE DEF f, N, I
<1> DEFINE J == {k \in Nat : k <= N => at[f][N - k] \in X}
<1>7. 0 \in J
  BY <1>5, <1>6
<1>8. ASSUME NEW k \in Nat, k \in J PROVE k + 1 \in J
  <2> SUFFICES ASSUME k + 1 <= N PROVE at[f][N - (k + 1)] \in X
    OBVIOUS
  <2> DEFINE m == N - (k + 1)
  <2>1. k <= N /\ m \in Nat /\ N - k = m + 1 /\ m + 1 <= f
    BY <1>5
  <2>2. at[f][m + 1] \in X
    BY <1>8, <2>1
  <2> HIDE DEF m
  <2>3. at[f][m] = at[f][m + 1] \/ at[f][m] \in Below(at[f][m + 1])
    BY <1>5, <2>1, ShorterSuffix
  <2>4. at[f][m] \in X
    BY <1>1, <2>2, <2>3
  <2> QED BY <2>4 DEF m
<1>9. Nat \subseteq J
  <2> HIDE DEF J
  <2> QED BY <1>7, <1>8, NatInduct
<1>10. N - l \in Nat /\ N - l <= N /\ N - (N - l) = l
  BY <1>5
<1>11. at[f][l] \in X
  BY <1>9, <1>10
<1> QED BY <1>11 DEF f, X

(* A word within a piece of the data is a piece itself. *)
LEMMA WithinPiece ==
    ASSUME word \in Seq({0, 1}), NEW e \in 0..Len(word), NEW L \in 0..e,
           NEW s, Within(s, Piece(e, L)), s # << >>
    PROVE  \E a \in 0..L : \E l \in 0..L - a : s = Piece(e - a, l)
<1> DEFINE w == Piece(e, L)
<1>0. /\ w \in Seq({0, 1}) /\ Len(w) = L /\ \A k \in 1..L : w[k] = word[(e - L) + k]
      /\ L \in Nat /\ e \in Nat /\ Len(word) \in Nat
  <2>1. Len(word) \in Nat
    BY LenProperties
  <2>2. e \in Nat /\ L \in Nat
    BY <2>1
  <2> QED BY <2>1, <2>2, PieceFacts
<1> HIDE DEF w
<1>1. PICK b \in 0..L, c \in 0..L : s = SubSeq(w, b + 1, c)
  <2>1. Within(s, w)
    BY DEF w
  <2>2. \E x \in 0..Len(w) : \E y \in 0..Len(w) : s = SubSeq(w, x + 1, y)
    BY <2>1 DEF Within, SubSeqs
  <2> QED BY <1>0, <2>2
<1>2. b <= c
  <2> SUFFICES ASSUME ~ (b <= c) PROVE FALSE
    OBVIOUS
  <2>1. b + 1 > c /\ b + 1 \in Int /\ c \in Int
    BY <1>0
  <2>2. SubSeq(w, b + 1, c) = << >>
    BY <1>0, <2>1, SubSeqEmpty
  <2> QED BY <1>1, <2>2
<1> DEFINE a == L - c
           l == c - b
           f == e - a
<1>3. /\ a \in 0..L /\ l \in 0..L - a /\ f \in 0..Len(word) /\ l \in 0..f /\ b \in Nat /\ c \in Nat
      /\ l = c - b /\ c <= Len(w) /\ l \in Nat
  BY <1>0, <1>2
<1>4. /\ s \in Seq({0, 1}) /\ Len(s) = l /\ \A k \in 1..l : s[k] = w[b + k]
  <2>1. w \in Seq({0, 1})
    BY <1>0
  <2> QED BY ONLY <1>1, <1>2, <1>3, <2>1, CutAt
<1>5. /\ Piece(f, l) \in Seq({0, 1}) /\ Len(Piece(f, l)) = l
      /\ \A k \in 1..l : Piece(f, l)[k] = word[(f - l) + k]
  BY <1>3, PieceFacts
<1>6. ASSUME NEW k \in 1..Len(s) PROVE s[k] = Piece(f, l)[k]
  <2>1. k \in 1..l /\ b + k \in 1..L /\ (e - L) + (b + k) = (f - l) + k
    BY <1>0, <1>1, <1>2, <1>3, <1>4
  <2>2. s[k] = w[b + k] /\ w[b + k] = word[(e - L) + (b + k)] /\ Piece(f, l)[k] = word[(f - l) + k]
    BY ONLY <1>0, <1>4, <1>5, <2>1
  <2> QED BY ONLY <2>1, <2>2
<1> HIDE DEF l, f
<1>7. s = Piece(f, l)
  BY ONLY <1>4, <1>5, <1>6, SeqEqual
<1> QED BY <1>3, <1>7 DEF f

LEMMA DictApart ==
    ASSUME BuildInv, Fed, QueueInv, ChoiceInv
    PROVE  KeptApart
<1> SUFFICES ASSUME pc \in {"choose", "done"}, NEW v \in dictV, NEW w \in dictV, v # w,
                    Within(Longest[v], Longest[w])
             PROVE  FALSE
  BY DEF KeptApart
<1>1. PICK at : Automaton(added, nodes, at)
  BY DEF BuildInv
<1>2. dictV \subseteq States /\ killed \subseteq States
  BY DEF QueueInv
<1>3. /\ \A x \in killed \cup dictV : Below(x) \subseteq killed
      /\ dictV \cap killed = {}
      /\ LenOf(v) >= MinMatchLength
  <2>1. LenOf(v) \in MinMatchLength..maxDictSize /\ dictV \cap killed = {}
        /\ \A x \in killed \cup dictV : Emptied(x)
    BY DEF ChoiceInv, Choosing
  <2>2. \A x : ~ Pending(x)
    BY DEF Pending
  <2> QED BY <2>1, <2>2, FedFacts DEF Emptied
<1>4. PICK e : Place(at, v, e)
  BY <1>1, <1>2, PlaceThere
<1>5. PICK f : Place(at, w, f)
  BY <1>1, <1>2, PlaceThere
<1>6. Longest[v] = Piece(e, LenOf(v)) /\ Longest[w] = Piece(f, LenOf(w))
  BY <1>1, <1>2, <1>4, <1>5, LongestIsPiece
<1>7. /\ e \in 0..added /\ LenOf(v) \in 0..e /\ at[e][LenOf(v)] = v
      /\ f \in 0..added /\ LenOf(w) \in 0..f /\ at[f][LenOf(w)] = w
      /\ added \in Nat /\ e \in 0..Len(word) /\ f \in 0..Len(word) /\ word \in Seq({0, 1})
  BY <1>1, <1>4, <1>5, LenProperties DEF Place, Automaton
<1>8. Len(Piece(e, LenOf(v))) = LenOf(v) /\ LenOf(v) \in Nat /\ LenOf(v) # 0
  BY <1>3, <1>7, FedFacts, PieceFacts
<1>9. Longest[v] # << >>
  BY <1>6, <1>8, EmptySeq
<1>10. PICK a \in 0..LenOf(w) : \E l \in 0..LenOf(w) - a : Longest[v] = Piece(f - a, l)
  <2>1. Within(Longest[v], Piece(f, LenOf(w)))
    BY <1>6
  <2>2. f \in 0..Len(word) /\ LenOf(w) \in 0..f /\ word \in Seq({0, 1})
    BY <1>7
  <2> HIDE DEF Place
  <2> QED BY ONLY <1>9, <2>1, <2>2, WithinPiece
<1>11. PICK l \in 0..LenOf(w) - a : Longest[v] = Piece(f - a, l)
  BY <1>10
<1>12. f - a \in 0..added /\ f - a \in 0..Len(word) /\ l \in 0..f - a /\ l \in Nat
  BY <1>7, LenProperties
<1>13. l = LenOf(v)
  <2>1. Len(Piece(f - a, l)) = l
    BY <1>7, <1>12, PieceFacts
  <2> QED BY ONLY <1>6, <1>8, <1>11, <2>1
<1>14. at[f - a][l] = v
  <2>1. l <= f - a /\ l \in 0..e
    BY <1>7, <1>12, <1>13
  <2>2. Same(e, f - a, l)
    BY <1>6, <1>7, <1>11, <1>12, <1>13, <2>1, PiecesSame
  <2> QED BY <1>1, <1>7, <1>12, <1>13, <2>1, <2>2 DEF Automaton, SameState
<1>15. at[f - a][l] \in killed \cup {w}
  BY <1>1, <1>3, <1>5, <1>10, <1>11, AllBelow
<1> QED BY <1>3, <1>14, <1>15

LEMMA DictChosen ==
    ASSUME BuildInv, Fed, QueueInv, QueueInv', Unchosen, ChoiceInv, [DictNext]_dictVars
    PROVE  ChoiceInv'
<1>1. CASE AddTrainingData \/ CountOccurred \/ WalkString \/ MarkLink \/ EndString
  <2>1. ~ Choosing'
    BY <1>1 DEF Choosing, AddTrainingData, AddCharacters, Add, Fill, LinkToRoot, LinkToTarget, LinkTo,
       CloneTarget, Redirect, EndRedirect, CountOccurred, WalkString, MarkLink, EndString
  <2> QED BY <2>1 DEF ChoiceInv
<1>2. CASE Collect
  BY <1>2, ChoiceStart
<1>3. CASE TakeCandidate
  BY <1>3, TakeChosen
<1>4. CASE Kill
  BY <1>4, KillChosen
<1>5. CASE EndKill
  BY <1>5, EndKillChosen
<1>6. CASE SkipCandidate \/ Output \/ UNCHANGED dictVars
  BY <1>6, RestChosen
<1> QED BY ONLY [DictNext]_dictVars, <1>1, <1>2, <1>3, <1>4, <1>5, <1>6 DEF DictNext, DictDone

LEMMA ChosenStart ==
    ASSUME DictInit
    PROVE  ChoiceInv
BY DEF DictInit, StartsEmpty, ChoiceInv, Choosing

(* build_dict keeps of its candidates only words that do not occur in each other,
   whatever the strings and in whichever order the sort puts equal scores. *)
THEOREM DictionaryApart == DictSpec => []KeptApart
<1> DEFINE Inv == BuildInv /\ Fed /\ QueueInv /\ Unchosen /\ ChoiceInv
<1>1. DictInit => Inv
  BY DictStart, QueueStart, ChosenStart
<1>2. Inv /\ [DictNext]_dictVars => Inv'
  BY DictStays, DictQueued, UnchosenStays, DictChosen
<1>3. Inv => KeptApart
  BY DictApart
<1> QED BY <1>1, <1>2, <1>3, PTL DEF DictSpec
-----------------------------------------------------------------------------
(* The counts.  The data hold the training strings one behind the other: string k
   lies between ends[k - 1] and ends[k]. *)
Strings == trainingStrings
Laid(ends) == ends \in PieceEnds(Strings, Len(Strings), word)

LEMMA LaidOut ==
    ASSUME Fed
    PROVE  \E ends : Laid(ends)
BY FedFacts DEF Laid, Strings

LEMMA StringFacts ==
    ASSUME Fed, NEW k \in 1..Len(Strings)
    PROVE  Strings[k] \in Seq({0, 1}) /\ Len(Strings[k]) \in Nat \ {0}
<1>1. Strings \in Seq(Seq({0, 1}) \ {<< >>})
  BY FedFacts DEF Strings
<1>2. Strings[k] \in Seq({0, 1}) \ {<< >>}
  BY ONLY <1>1, k \in 1..Len(Strings), ElementOfSeq
<1> QED BY <1>2, EmptySeq

LEMMA EndsGrow ==
    ASSUME Fed, NEW ends, Laid(ends)
    PROVE  /\ \A k \in 0..Len(Strings) : ends[k] \in 0..Len(word) /\ k <= ends[k]
           /\ \A j \in 0..Len(Strings) : \A k \in j..Len(Strings) : ends[j] <= ends[k]
           /\ Len(word) \in Nat /\ Len(Strings) \in Nat \ {0} /\ word \in Seq({0, 1})
           /\ ends[Len(Strings)] = Len(word)
<1> DEFINE N == Len(Strings)
<1>1. N \in Nat \ {0} /\ Len(word) \in Nat /\ word \in Seq({0, 1})
  BY FedFacts, LenProperties DEF Strings
<1>2. /\ ends \in [0..N -> 0..Len(word)] /\ ends[0] = 0 /\ ends[N] = Len(word)
      /\ \A k \in 1..N : ends[k] = ends[k - 1] + Len(Strings[k])
  BY DEF Laid, PieceEnds
<1>3. \A k \in 1..N : Len(Strings[k]) \in Nat \ {0}
  BY StringFacts
<1>4. \A k \in 0..N : ends[k] \in 0..Len(word) /\ ends[k] \in Nat
  BY <1>1, <1>2
<1> HIDE DEF N
<1>5. ASSUME NEW k \in 0..N, k + 1 <= N PROVE ends[k] + 1 <= ends[k + 1]
  <2>1. k + 1 \in 1..N /\ (k + 1) - 1 = k /\ k + 1 \in 0..N
    BY <1>1, <1>5
  <2>2. ends[k + 1] = ends[k] + Len(Strings[k + 1]) /\ Len(Strings[k + 1]) \in Nat \ {0}
    BY <1>2, <1>3, <2>1
  <2> QED BY <1>4, <2>1, <2>2
<1> DEFINE I == {k \in Nat : k <= N => k <= ends[k] /\ \A j \in 0..k : ends[j] <= ends[k]}
<1>6. 0 \in I
  <2>1. \A j \in 0..0 : j = 0
    OBVIOUS
  <2>2. 0 <= ends[0] /\ ends[0] <= ends[0]
    BY <1>2
  <2> QED BY <2>1, <2>2
<1>7. ASSUME NEW k \in Nat, k \in I PROVE k + 1 \in I
  <2> SUFFICES ASSUME k + 1 <= N PROVE k + 1 <= ends[k + 1] /\ \A j \in 0..k + 1 : ends[j] <= ends[k + 1]
    OBVIOUS
  <2>1. k \in 0..N /\ k + 1 \in 0..N /\ k <= N
    BY <1>1
  <2>2. ends[k] + 1 <= ends[k + 1] /\ ends[k] \in Nat /\ ends[k + 1] \in Nat
    BY <1>4, <1>5, <2>1
  <2>3. k <= ends[k] /\ \A j \in 0..k : ends[j] <= ends[k]
    BY <1>7, <2>1
  <2>4. ASSUME NEW j \in 0..k + 1 PROVE ends[j] <= ends[k + 1]
    <3>1. CASE j = k + 1
      BY <2>2, <3>1
    <3>2. CASE j # k + 1
      <4>1. j \in 0..k /\ j \in 0..N
        BY <1>1, <2>1, <3>2
      <4>2. ends[j] <= ends[k] /\ ends[j] \in Nat
        BY <1>4, <2>3, <4>1
      <4> QED BY <2>2, <4>2
    <3> QED BY <3>1, <3>2
  <2> QED BY <2>2, <2>3, <2>4
<1>8. Nat \subseteq I
  <2> HIDE DEF I
  <2> QED BY <1>6, <1>7, NatInduct
<1>9. \A k \in 0..N : k <= ends[k] /\ \A j \in 0..k : ends[j] <= ends[k]
  <2> SUFFICES ASSUME NEW k \in 0..N PROVE k <= ends[k] /\ \A j \in 0..k : ends[j] <= ends[k]
    OBVIOUS
  <2>1. k \in Nat /\ k <= N
    BY <1>1
  <2> QED BY <1>8, <2>1
<1>10. \A j \in 0..N : \A k \in j..N : ends[j] <= ends[k]
  <2> SUFFICES ASSUME NEW j \in 0..N, NEW k \in j..N PROVE ends[j] <= ends[k]
    OBVIOUS
  <2>1. k \in 0..N /\ j \in 0..k
    BY <1>1
  <2> QED BY <1>9, <2>1
<1> HIDE DEF I
<1> QED BY <1>1, <1>2, <1>4, <1>9, <1>10 DEF N

LEMMA StringPlace ==
    ASSUME Fed, NEW ends, Laid(ends), NEW k \in 1..Len(Strings)
    PROVE  /\ k - 1 \in 0..Len(Strings) /\ k \in 0..Len(Strings)
           /\ ends[k - 1] \in Nat /\ ends[k] \in Nat /\ ends[k] = ends[k - 1] + Len(Strings[k])
           /\ ends[k] <= Len(word) /\ Len(word) \in Nat /\ Len(Strings[k]) \in Nat \ {0}
           /\ Strings[k] \in Seq({0, 1})
           /\ \A l \in 1..Len(Strings[k]) : word[ends[k - 1] + l] = Strings[k][l]
<1>1. Len(Strings) \in Nat /\ k - 1 \in 0..Len(Strings) /\ k \in 0..Len(Strings)
  BY EndsGrow
<1>2. ends[k - 1] \in 0..Len(word) /\ ends[k] \in 0..Len(word) /\ Len(word) \in Nat
  BY <1>1, EndsGrow
<1>3. /\ ends[k] = ends[k - 1] + Len(Strings[k])
      /\ \A l \in 1..Len(Strings[k]) : word[ends[k - 1] + l] = Strings[k][l]
  BY DEF Laid, PieceEnds
<1> QED BY <1>1, <1>2, <1>3, StringFacts

LEMMA StringPieces ==
    ASSUME Fed, NEW ends, Laid(ends), NEW k \in 1..Len(Strings),
           NEW j \in 0..Len(Strings[k]), NEW l \in 0..j
    PROVE  /\ SubSeq(Strings[k], (j - l) + 1, j) = Piece(ends[k - 1] + j, l)
           /\ ends[k - 1] + j \in 0..Len(word) /\ l \in 0..ends[k - 1] + j
<1> DEFINE o == ends[k - 1]
           s == Strings[k]
<1>1. /\ o \in Nat /\ Len(s) \in Nat /\ o + Len(s) <= Len(word) /\ s \in Seq({0, 1})
      /\ Len(word) \in Nat /\ word \in Seq({0, 1})
      /\ \A h \in 1..Len(s) : word[o + h] = s[h]
  <2>1. /\ ends[k - 1] \in Nat /\ ends[k] = ends[k - 1] + Len(Strings[k])
        /\ ends[k] <= Len(word) /\ Len(word) \in Nat /\ Len(Strings[k]) \in Nat \ {0}
        /\ Strings[k] \in Seq({0, 1})
        /\ \A h \in 1..Len(Strings[k]) : word[ends[k - 1] + h] = Strings[k][h]
    BY StringPlace
  <2>2. word \in Seq({0, 1})
    BY FedFacts
  <2> QED BY <2>1, <2>2
<1> HIDE DEF o, s
<1>2. j \in 0..Len(s)
  BY DEF s
<1>3. /\ j - l \in Nat /\ j \in Nat /\ l \in Nat /\ j - l <= j /\ j <= Len(s) /\ j - (j - l) = l
      /\ o + j \in 0..Len(word) /\ l \in 0..o + j
  BY <1>1, <1>2
<1> DEFINE x == SubSeq(s, (j - l) + 1, j)
           y == Piece(o + j, l)
<1>4. /\ x \in Seq({0, 1}) /\ Len(x) = l /\ \A h \in 1..l : x[h] = s[(j - l) + h]
  <2>1. /\ x \in Seq({0, 1}) /\ Len(x) = j - (j - l)
        /\ \A h \in 1..j - (j - l) : x[h] = s[(j - l) + h]
    <3>1. s \in Seq({0, 1}) /\ j - l \in Nat /\ j \in Nat /\ j - l <= j /\ j <= Len(s)
      BY <1>1, <1>3
    <3> QED BY ONLY <3>1, CutAt
  <2> QED BY ONLY <1>3, <2>1
<1>5. /\ y \in Seq({0, 1}) /\ Len(y) = l /\ \A h \in 1..l : y[h] = word[((o + j) - l) + h]
  BY ONLY <1>1, <1>3, PieceFacts
<1> HIDE DEF x, y
<1>6. ASSUME NEW h \in 1..Len(x) PROVE x[h] = y[h]
  <2>1. h \in 1..l /\ (j - l) + h \in 1..Len(s) /\ ((o + j) - l) + h = o + ((j - l) + h)
    BY <1>1, <1>3, <1>4
  <2> QED BY ONLY <1>1, <1>4, <1>5, <2>1
<1>7. x = y
  BY ONLY <1>4, <1>5, <1>6, SeqEqual
<1> QED BY <1>3, <1>7 DEF x, y, o, s
-----------------------------------------------------------------------------
LEMMA NodesMany ==
    ASSUME NEW at, Automaton(added, nodes, at)
    PROVE  added + 1 <= Len(nodes) /\ added \in Nat /\ Len(nodes) \in Nat
<1>1. added \in Nat /\ Len(nodes) \in Nat
  BY DEF Automaton, NodesOK
<1> DEFINE f == [e \in 0..added |-> at[e][e]]
<1>2. \A e \in 0..added : e \in 0..e /\ f[e] = at[e][e] /\ at[e][e] \in 1..Len(nodes)
        /\ nodes[at[e][e]].len = e
  <2> SUFFICES ASSUME NEW e \in 0..added
               PROVE  /\ e \in 0..e /\ f[e] = at[e][e] /\ at[e][e] \in 1..Len(nodes)
                      /\ nodes[at[e][e]].len = e
    OBVIOUS
  <2>1. e \in 0..e
    BY <1>1
  <2>2. at[e][e] \in 1..Len(nodes) /\ nodes[at[e][e]].len \in e..e
    BY <2>1, StateFacts
  <2> QED BY <1>1, <2>1, <2>2
<1>3. f \in [0..added -> 1..Len(nodes)]
  <2>1. \A e \in 0..added : at[e][e] \in 1..Len(nodes)
    BY <1>2
  <2> QED BY ONLY <2>1
<1>4. \A d, e \in 0..added : f[d] = f[e] => d = e
  BY <1>2
<1> HIDE DEF f
<1>5. f \in Injection(0..added, 1..Len(nodes))
  BY <1>3, <1>4 DEF Injection, IsInjective
<1>6. IsFiniteSet(1..Len(nodes)) /\ Cardinality(1..Len(nodes)) = Len(nodes)
      /\ Cardinality(0..added) = added + 1
  <2>1. 1 \in Int /\ 0 \in Int /\ added \in Int /\ Len(nodes) \in Int
    BY <1>1
  <2>2. /\ IsFiniteSet(1..Len(nodes))
        /\ Cardinality(1..Len(nodes)) = IF 1 > Len(nodes) THEN 0 ELSE Len(nodes) - 1 + 1
        /\ Cardinality(0..added) = IF 0 > added THEN 0 ELSE added - 0 + 1
    BY <2>1, FS_Interval
  <2> QED BY <1>1, <2>2
<1>7. Cardinality(0..added) <= Cardinality(1..Len(nodes))
  BY <1>5, <1>6, FS_Injection
<1> QED BY <1>1, <1>6, <1>7

LEMMA LastLongest ==
    ASSUME NEW at, Automaton(added, nodes, at), last = at[added][added], NEW v \in States, v # last
    PROVE  LenOf(v) < LenOf(last)
<1>1. added \in Nat /\ added \in 0..added
  BY DEF Automaton
<1>2. nodes[last].len \in added..added
  BY <1>1, StateFacts
<1>3. LenOf(last) = added
  BY <1>1, <1>2 DEF LenOf
<1>4. PICK e : Place(at, v, e)
  BY PlaceThere
<1>5. e \in 0..added /\ LenOf(v) \in 0..e /\ at[e][LenOf(v)] = v
  BY <1>4 DEF Place
<1>6. LenOf(v) # added
  <2> SUFFICES ASSUME LenOf(v) = added PROVE FALSE
    OBVIOUS
  <2>1. e = added
    BY <1>1, <1>5
  <2> QED BY <1>5, <2>1
<1> QED BY <1>1, <1>3, <1>5, <1>6

LEMMA RootShortest ==
    ASSUME NEW at, Automaton(added, nodes, at), NEW v \in States
    PROVE  /\ LenOf(Root) = 0 /\ LenOf(v) \in Nat /\ LenOf(v) \in 0..added
           /\ v # Root => LenOf(v) > LenOf(Root)
<1>1. LenOf(Root) = 0
  BY DEF LenOf, Automaton, NodesOK
<1>2. PICK e : Place(at, v, e)
  BY PlaceThere
<1>3. e \in 0..added /\ LenOf(v) \in 0..e /\ at[e][LenOf(v)] = v /\ added \in Nat
  BY <1>2 DEF Place, Automaton
<1>4. LenOf(v) = 0 => v = Root
  BY <1>3 DEF Automaton, StateThere
<1> QED BY <1>1, <1>3, <1>4

(* The places where the words of a state end. *)
EndsOf(at, v) == {e \in 0..added : Place(at, v, e)}

LEMMA EndsOfFinite ==
    ASSUME NEW at, Automaton(added, nodes, at), NEW v \in States
    PROVE  /\ IsFiniteSet(EndsOf(at, v)) /\ Cardinality(EndsOf(at, v)) \in 1..added + 1
           /\ IsFiniteSet(0..added)
<1>1. added \in Nat /\ 0 \in Int /\ added \in Int
  BY DEF Automaton
<1>2. IsFiniteSet(0..added) /\ Cardinality(0..added) = added + 1
  <2>1. IsFiniteSet(0..added) /\ Cardinality(0..added) = IF 0 > added THEN 0 ELSE added - 0 + 1
    BY <1>1, FS_Interval
  <2> QED BY <1>1, <2>1
<1>3. IsFiniteSet(EndsOf(at, v)) /\ Cardinality(EndsOf(at, v)) <= added + 1
      /\ Cardinality(EndsOf(at, v)) \in Nat
  <2>1. EndsOf(at, v) \subseteq 0..added
    BY DEF EndsOf
  <2> QED BY <1>2, <2>1, FS_Subset, FS_CardinalityType
<1>4. EndsOf(at, v) # {}
  <2>1. PICK e : Place(at, v, e)
    BY PlaceThere
  <2> QED BY <2>1 DEF EndsOf, Place
<1>5. Cardinality(EndsOf(at, v)) # 0
  BY <1>3, <1>4, FS_EmptySet
<1> QED BY <1>1, <1>2, <1>3, <1>5

(* The transitions take the ends of a state apart. *)
OnwardsBy(at, v, c) == {e \in EndsOf(at, v) : e < added /\ word[e + 1] = c}

LEMMA OnwardsEnd ==
    ASSUME NEW at, Automaton(added, nodes, at), NEW v \in States, NEW c \in {0, 1},
           NEW e \in OnwardsBy(at, v, c)
    PROVE  nodes[v].to[c] \in States /\ e + 1 \in EndsOf(at, nodes[v].to[c]) /\ e \in Nat
<1>1. /\ e \in 0..added - 1 /\ e + 1 \in 0..added /\ LenOf(v) \in 0..e /\ at[e][LenOf(v)] = v
      /\ word[e + 1] = c /\ added \in Nat /\ e \in Nat /\ LenOf(v) \in Nat
  BY DEF OnwardsBy, EndsOf, Place, Automaton
<1>2. nodes[v].to[c] = at[e + 1][LenOf(v) + 1] /\ LenOf(v) + 1 \in 0..e + 1
  BY <1>1 DEF Automaton, Steps
<1> DEFINE t == at[e + 1][LenOf(v) + 1]
<1>3. t \in 1..Len(nodes) /\ nodes[t].len \in LenOf(v) + 1..e + 1
  BY <1>1, <1>2, StateFacts
<1>4. at[e + 1][nodes[t].len] = t
  BY <1>1, <1>2, LongestAt
<1> HIDE DEF t
<1>5. nodes[t].len \in 0..e + 1
  BY <1>1, <1>3
<1>6. Place(at, t, e + 1)
  BY <1>1, <1>4, <1>5 DEF Place, LenOf
<1> QED BY <1>1, <1>2, <1>3, <1>6 DEF EndsOf, States, t

LEMMA EndsFromOnwards ==
    ASSUME NEW at, Automaton(added, nodes, at), NEW v \in States, NEW c \in {0, 1},
           nodes[v].to[c] # Null, NEW g \in EndsOf(at, nodes[v].to[c])
    PROVE  g - 1 \in OnwardsBy(at, v, c) /\ (g - 1) + 1 = g
<1> DEFINE t == nodes[v].to[c]
<1>1. /\ added \in Nat /\ g \in 0..added /\ LenOf(t) \in 0..g /\ at[g][LenOf(t)] = t
      /\ v \in 1..Len(nodes)
  BY DEF EndsOf, Place, Automaton, States
<1>2. LenOf(v) < LenOf(t) /\ t \in 1..Len(nodes) /\ LenOf(v) \in Nat
  BY <1>1, StepLonger, RootShortest DEF LenOf
<1>3. \E e \in 0..added - 1 :
        /\ nodes[v].len \in 0..e /\ at[e][nodes[v].len] = v /\ word[e + 1] = c
        /\ at[e + 1][nodes[v].len + 1] = t
  BY <1>1, StepPlace
<1> HIDE DEF t
<1>4. PICK e \in 0..added - 1 :
        /\ nodes[v].len \in 0..e /\ at[e][nodes[v].len] = v /\ word[e + 1] = c
        /\ at[e + 1][nodes[v].len + 1] = t
  BY ONLY <1>3
<1> DEFINE l == LenOf(v)
           f == g - 1
<1>5. /\ l \in 0..e /\ at[e][l] = v /\ at[e + 1][l + 1] = t /\ l \in Nat
  BY <1>2, <1>4 DEF LenOf
<1>6. /\ g \in Nat /\ f \in Nat /\ f + 1 = g /\ f \in 0..added /\ f < added /\ l \in 0..f /\ e \in Nat
      /\ e \in 0..added /\ e + 1 \in 0..added /\ l + 1 \in 0..e + 1 /\ l + 1 \in 0..g /\ l <= f
      /\ l + 1 \in l + 1..LenOf(t) /\ LenOf(t) \in 0..g /\ l + 1 <= l + 1
  <2>1. g \in Nat /\ g <= added /\ added \in Nat /\ l \in Nat /\ LenOf(t) \in Nat /\ l < LenOf(t)
        /\ LenOf(t) <= g
    BY <1>1, <1>2
  <2>2. e \in 0..added - 1 /\ l \in 0..e
    BY <1>4, <1>5
  <2>3. f = g - 1
    OBVIOUS
  <2> HIDE DEF l, f, t
  <2> QED BY ONLY <2>1, <2>2, <2>3
<1> HIDE DEF l, f
<1>7. at[g][l + 1] = t
  <2>1. at[e + 1][l + 1] = at[g][LenOf(t)]
    BY <1>1, <1>5
  <2>0. g \in 0..added
    BY <1>1
  <2>2. at[g][l + 1] = at[e + 1][l + 1]
    BY ONLY Automaton(added, nodes, at), <1>6, <2>0, <2>1, Between
  <2> QED BY <1>5, <2>2
<1>8. Same(e + 1, f + 1, l + 1)
  BY <1>1, <1>5, <1>6, <1>7 DEF Automaton, SuffixOfOther
<1>9. Same(e, f, l) /\ word[e + 1] = word[f + 1]
  BY <1>5, <1>6, <1>8, OneBack
<1>10. at[f][l] = v
  BY <1>5, <1>6, <1>9 DEF Automaton, SameState
<1>11. Place(at, v, f)
  BY <1>6, <1>10 DEF Place, l
<1>12. f \in OnwardsBy(at, v, c)
  BY <1>4, <1>6, <1>9, <1>11 DEF OnwardsBy, EndsOf
<1> QED BY <1>6, <1>12 DEF f

LEMMA OnwardsCounted ==
    ASSUME NEW at, Automaton(added, nodes, at), NEW v \in States, NEW c \in {0, 1}
    PROVE  /\ IsFiniteSet(OnwardsBy(at, v, c))
           /\ Cardinality(OnwardsBy(at, v, c)) =
                IF nodes[v].to[c] = Null THEN 0 ELSE Cardinality(EndsOf(at, nodes[v].to[c]))
<1> DEFINE X == OnwardsBy(at, v, c)
           Y == EndsOf(at, nodes[v].to[c])
<1>1. IsFiniteSet(X)
  <2>1. X \subseteq EndsOf(at, v)
    BY DEF OnwardsBy
  <2> QED BY <2>1, EndsOfFinite, FS_Subset
<1>2. CASE nodes[v].to[c] = Null
  <2>1. X = {}
    BY <1>2, OnwardsEnd DEF States, Null
  <2> QED BY <1>1, <1>2, <2>1, FS_EmptySet
<1>3. CASE nodes[v].to[c] # Null
  <2>1. \A e \in X : e \in Nat /\ e + 1 \in Y
    BY OnwardsEnd
  <2>2. \A g \in Y : g - 1 \in X /\ (g - 1) + 1 = g
    BY <1>3, EndsFromOnwards
  <2> HIDE DEF X, Y
  <2> DEFINE h == [e \in X |-> e + 1]
  <2>3. h \in [X -> Y] /\ \A e \in X : h[e] = e + 1
    BY <2>1
  <2> HIDE DEF h
  <2>4. \A d, e \in X : h[d] = h[e] => d = e
    BY <2>1, <2>3
  <2>5. \A g \in Y : \E e \in X : h[e] = g
    BY <2>2, <2>3
  <2>6. h \in Bijection(X, Y)
    BY <2>3, <2>4, <2>5 DEF Bijection, Injection, IsInjective, Surjection
  <2>7. Cardinality(X) = Cardinality(Y)
    BY <1>1, <2>6, FS_Bijection DEF ExistsBijection
  <2> QED BY <1>1, <1>3, <2>7 DEF X, Y
<1> QED BY <1>2, <1>3

LEMMA EndsSplit ==
    ASSUME NEW at, Automaton(added, nodes, at), NEW v \in States
    PROVE  /\ Cardinality(OnwardsBy(at, v, 0)) \in Nat /\ Cardinality(OnwardsBy(at, v, 1)) \in Nat
           /\ Cardinality(EndsOf(at, v)) =
                (IF Place(at, v, added) THEN 1 ELSE 0)
                + Cardinality(OnwardsBy(at, v, 0)) + Cardinality(OnwardsBy(at, v, 1))
<1> DEFINE X == OnwardsBy(at, v, 0)
           Y == OnwardsBy(at, v, 1)
           Z == EndsOf(at, v) \cap {added}
<1>1. IsFiniteSet(X) /\ IsFiniteSet(Y) /\ Cardinality(X) \in Nat /\ Cardinality(Y) \in Nat
  BY OnwardsCounted, FS_CardinalityType
<1>2. added \in Nat /\ added \in 0..added
  BY DEF Automaton
<1>3. IsFiniteSet(Z) /\ Cardinality(Z) = IF Place(at, v, added) THEN 1 ELSE 0
  <2>1. CASE Place(at, v, added)
    <3>1. Z = {added}
      BY <1>2, <2>1 DEF EndsOf
    <3> QED BY <2>1, <3>1, FS_Singleton
  <2>2. CASE ~ Place(at, v, added)
    <3>1. Z = {}
      BY <2>2 DEF EndsOf
    <3> QED BY <2>2, <3>1, FS_EmptySet
  <2> QED BY <2>1, <2>2
<1>4. EndsOf(at, v) = (X \cup Y) \cup Z
  <2>1. ASSUME NEW e \in EndsOf(at, v) PROVE e \in (X \cup Y) \cup Z
    <3>1. e \in 0..added
      BY DEF EndsOf
    <3>2. CASE e = added
      BY <3>2
    <3>3. CASE e # added
      <4>1. e < added /\ e + 1 \in 1..Len(word) /\ word \in Seq({0, 1})
        BY <1>2, <3>1, <3>3, LenProperties DEF Automaton
      <4>2. word[e + 1] \in {0, 1}
        BY <4>1, ElementOfSeq
      <4> QED BY <4>1, <4>2 DEF OnwardsBy
    <3> QED BY <3>2, <3>3
  <2>2. (X \cup Y) \cup Z \subseteq EndsOf(at, v)
    BY DEF OnwardsBy
  <2> QED BY <2>1, <2>2
<1>5. X \cap Y = {} /\ (X \cup Y) \cap Z = {}
  BY <1>2 DEF OnwardsBy
<1> HIDE DEF X, Y, Z
<1>6. IsFiniteSet(X \cup Y) /\ Cardinality(X \cup Y) = Cardinality(X) + Cardinality(Y)
  BY <1>1, <1>5, FS_Union, FS_EmptySet
<1>7. Cardinality((X \cup Y) \cup Z) = Cardinality(X \cup Y) + Cardinality(Z)
  <2>1. Cardinality(X \cup Y) \in Nat /\ Cardinality(Z) \in Nat
    BY <1>3, <1>6, FS_CardinalityType
  <2>2. Cardinality((X \cup Y) \cap Z) = 0
    BY <1>5, FS_EmptySet
  <2>3. Cardinality((X \cup Y) \cup Z) = Cardinality(X \cup Y) + Cardinality(Z) - Cardinality((X \cup Y) \cap Z)
    BY ONLY <1>3, <1>6, FS_Union
  <2> QED BY <2>1, <2>2, <2>3
<1>8. Cardinality(EndsOf(at, v)) =
        (IF Place(at, v, added) THEN 1 ELSE 0) + Cardinality(X) + Cardinality(Y)
  BY ONLY <1>1, <1>3, <1>4, <1>6, <1>7
<1> QED BY <1>1, <1>8 DEF X, Y

(* The states of the suffixes of a state. *)
Up(at, v) ==
    {w \in States \ {Root} : LenOf(w) <= LenOf(v) /\ \E e : Place(at, v, e) /\ Place(at, w, e)}

LEMMA LinkPlace ==
    ASSUME NEW at, Automaton(added, nodes, at), NEW v \in States, v # Root, NEW e, Place(at, v, e)
    PROVE  /\ nodes[v].link \in States /\ LenOf(nodes[v].link) < LenOf(v)
           /\ LenOf(nodes[v].link) \in Nat /\ LenOf(v) \in Nat
           /\ Place(at, nodes[v].link, e)
           /\ \A l \in LenOf(nodes[v].link) + 1..LenOf(v) : at[e][l] = v
<1>1. e \in 0..added /\ LenOf(v) \in 0..e /\ at[e][LenOf(v)] = v /\ added \in Nat /\ LenOf(v) \in Nat
  BY RootShortest DEF Place, Automaton
<1>2. nodes[v].link \in 1..Len(nodes) /\ nodes[nodes[v].link].len \in Nat /\ nodes[v].len \in Nat
      /\ nodes[nodes[v].link].len < nodes[v].len
  BY LinkThere DEF States
<1>3. LenOf(v) \in 1..e
  <2>1. LenOf(v) # 0
    BY <1>2 DEF LenOf
  <2> QED BY <1>1, <2>1
<1>4. at[e][nodes[nodes[v].link].len] = nodes[v].link
  BY <1>1, <1>3 DEF Automaton, Links, LinkAt
<1>5. \A k \in Shortest(nodes, v)..nodes[v].len : at[e][k] = v
  BY <1>1 DEF Automaton, Lengths, LengthAt
<1>6. nodes[nodes[v].link].len \in 0..e
  BY <1>1, <1>2 DEF LenOf
<1> QED BY <1>1, <1>2, <1>4, <1>5, <1>6 DEF Place, LenOf, States, Shortest

LEMMA UpTurns ==
    ASSUME NEW at, Automaton(added, nodes, at), NEW v \in States
    PROVE  Up(at, v) = IF v = Root THEN {} ELSE {v} \cup Up(at, nodes[v].link)
<1>1. CASE v = Root
  <2> SUFFICES ASSUME NEW w \in Up(at, v) PROVE FALSE
    BY <1>1
  <2>1. w \in States /\ w # Root /\ LenOf(w) <= LenOf(Root)
    BY <1>1 DEF Up
  <2>2. LenOf(w) > LenOf(Root) /\ LenOf(w) \in Nat /\ LenOf(Root) = 0
    BY <2>1, RootShortest
  <2> QED BY <2>1, <2>2
<1>2. CASE v # Root
  <2> DEFINE x == nodes[v].link
  <2>1. ASSUME NEW w \in Up(at, v), w # v PROVE w \in Up(at, x)
    <3>1. w \in States \ {Root} /\ LenOf(w) <= LenOf(v)
      BY DEF Up
    <3>2. PICK e : Place(at, v, e) /\ Place(at, w, e)
      BY DEF Up
    <3>3. /\ LenOf(x) < LenOf(v) /\ Place(at, x, e) /\ LenOf(x) \in Nat /\ LenOf(v) \in Nat
          /\ \A l \in LenOf(x) + 1..LenOf(v) : at[e][l] = v
      BY <1>2, <3>2, LinkPlace
    <3>4. at[e][LenOf(w)] = w /\ LenOf(w) \in Nat
      BY <3>1, <3>2, RootShortest DEF Place
    <3>5. LenOf(w) \notin LenOf(x) + 1..LenOf(v)
      BY <2>1, <3>3, <3>4
    <3>6. LenOf(w) <= LenOf(x)
      BY <3>1, <3>3, <3>4, <3>5
    <3> HIDE DEF x
    <3> QED BY <3>1, <3>2, <3>3, <3>6 DEF Up
  <2>2. PICK f : Place(at, v, f)
    BY PlaceThere
  <2>3. /\ x \in States /\ LenOf(x) < LenOf(v) /\ Place(at, x, f) /\ LenOf(x) \in Nat /\ LenOf(v) \in Nat
    BY <1>2, <2>2, LinkPlace
  <2> HIDE DEF x
  <2>4. v \in Up(at, v)
    BY <1>2, <2>2, <2>3 DEF Up
  <2>5. ASSUME NEW w \in Up(at, x) PROVE w \in Up(at, v)
    <3>1. w \in States \ {Root} /\ LenOf(w) <= LenOf(x) /\ LenOf(w) \in Nat
      BY RootShortest DEF Up
    <3>2. PICK e : Place(at, x, e) /\ Place(at, w, e)
      BY DEF Up
    <3>3. /\ e \in 0..added /\ LenOf(x) \in 0..e /\ at[e][LenOf(x)] = x
          /\ f \in 0..added /\ LenOf(x) \in 0..f /\ at[f][LenOf(x)] = x
          /\ LenOf(w) \in 0..e /\ at[e][LenOf(w)] = w
      BY <2>3, <3>2 DEF Place
    <3>4. Same(e, f, LenOf(x))
      <4>1. LenOf(x) <= LenOf(x) /\ at[e][LenOf(x)] = at[f][LenOf(x)]
        BY <2>3, <3>3
      <4> QED BY <3>3, <4>1 DEF Automaton, SuffixOfOther
    <3>5. LenOf(w) \in 0..LenOf(x) /\ LenOf(w) \in 0..f /\ LenOf(w) <= f
      BY <2>3, <3>1, <3>3
    <3>6. Same(e, f, LenOf(w))
      BY <2>3, <3>4, <3>5, SameFacts
    <3>7. at[f][LenOf(w)] = w
      BY <3>3, <3>5, <3>6 DEF Automaton, SameState
    <3>8. Place(at, w, f)
      BY <3>3, <3>5, <3>7 DEF Place
    <3>9. LenOf(w) <= LenOf(v)
      BY <2>3, <3>1
    <3> QED BY <2>2, <3>1, <3>8, <3>9 DEF Up
  <2>6. Up(at, v) = {v} \cup Up(at, x)
    BY <2>1, <2>4, <2>5
  <2> QED BY <1>2, <2>6 DEF x
<1> QED BY <1>1, <1>2

UpBuilt(s) == s = [v \in States |-> IF v = Root THEN {} ELSE {v} \cup s[nodes[v].link]]

LEMMA UpOnly ==
    ASSUME NEW at, Automaton(added, nodes, at), NEW s, UpBuilt(s), NEW v \in States
    PROVE  s[v] = Up(at, v)
<1>1. \A w \in States : s[w] = IF w = Root THEN {} ELSE {w} \cup s[nodes[w].link]
  BY DEF UpBuilt
<1>2. \A w \in States : Up(at, w) = IF w = Root THEN {} ELSE {w} \cup Up(at, nodes[w].link)
  BY UpTurns
<1> DEFINE I == {k \in Nat : \A w \in States : LenOf(w) <= k => s[w] = Up(at, w)}
<1>3. 0 \in I
  <2> SUFFICES ASSUME NEW w \in States, LenOf(w) <= 0 PROVE s[w] = Up(at, w)
    OBVIOUS
  <2>1. w = Root
    BY RootShortest
  <2> QED BY <1>1, <1>2, <2>1
<1>4. ASSUME NEW k \in Nat, k \in I PROVE k + 1 \in I
  <2> SUFFICES ASSUME NEW w \in States, LenOf(w) <= k + 1 PROVE s[w] = Up(at, w)
    OBVIOUS
  <2>1. CASE w = Root
    BY <1>1, <1>2, <2>1
  <2>2. CASE w # Root
    <3>1. PICK e : Place(at, w, e)
      BY PlaceThere
    <3>2. nodes[w].link \in States /\ LenOf(nodes[w].link) < LenOf(w)
          /\ LenOf(nodes[w].link) \in Nat /\ LenOf(w) \in Nat
      BY <2>2, <3>1, LinkPlace
    <3>3. LenOf(nodes[w].link) <= k
      BY <3>2
    <3>4. s[nodes[w].link] = Up(at, nodes[w].link)
      BY <1>4, <3>2, <3>3
    <3> QED BY <1>1, <1>2, <2>2, <3>4
  <2> QED BY <2>1, <2>2
<1>5. Nat \subseteq I
  <2> HIDE DEF I
  <2> QED BY <1>3, <1>4, NatInduct
<1>6. LenOf(v) \in I /\ LenOf(v) <= LenOf(v)
  <2>1. LenOf(v) \in Nat /\ LenOf(v) <= LenOf(v)
    BY RootShortest
  <2> HIDE DEF I
  <2> QED BY <1>5, <2>1
<1> QED BY <1>6

LEMMA SuffixStatesEnd ==
    ASSUME NEW at, Automaton(added, nodes, at), last = at[added][added], NEW v \in States
    PROVE  v \in SuffixStates <=> v # Root /\ Place(at, v, added)
<1> DEFINE f == [w \in States |-> Up(at, w)]
<1>1. added \in Nat /\ added \in 0..added /\ last \in 1..Len(nodes) /\ nodes[last].len \in added..added
  <2>1. added \in Nat /\ added \in 0..added
    BY DEF Automaton
  <2> QED BY <2>1, StateFacts
<1>2. last \in States /\ LenOf(last) = added
  BY <1>1 DEF States, LenOf
<1>3. UpBuilt(f)
  <2>1. ASSUME NEW w \in States PROVE f[w] = IF w = Root THEN {} ELSE {w} \cup f[nodes[w].link]
    <3>1. CASE w = Root
      BY <3>1, UpTurns
    <3>2. CASE w # Root
      <4>1. nodes[w].link \in States
        BY <3>2, LinkThere DEF States
      <4> QED BY <3>2, <4>1, UpTurns
    <3> QED BY <3>1, <3>2
  <2>2. f = [w \in States |-> f[w]]
    OBVIOUS
  <2> HIDE DEF f
  <2> QED BY <2>1, <2>2 DEF UpBuilt
<1> HIDE DEF f
<1>4. SuffixStates = (CHOOSE s : UpBuilt(s))[last]
  BY DEF SuffixStates, UpBuilt
<1>5. PICK s : s = CHOOSE x : UpBuilt(x)
  OBVIOUS
<1>6. UpBuilt(s)
  BY <1>3, <1>5
<1>7. SuffixStates = Up(at, last)
  BY <1>2, <1>4, <1>5, <1>6, UpOnly
<1>8. Place(at, last, added) /\ \A e : Place(at, last, e) => e = added
  BY <1>1, <1>2 DEF Place
<1>9. LenOf(v) <= LenOf(last)
  BY <1>2, RootShortest
<1> QED BY <1>7, <1>8, <1>9 DEF Up

(* How often each state has occurred, as top_sort counts it. *)
Tally(at, v) == IF v = Root THEN added ELSE Cardinality(EndsOf(at, v))
Through(s, v, c) == IF nodes[v].to[c] = Null THEN 0 ELSE s[nodes[v].to[c]]
Tallied(s) ==
    s = [v \in States |-> (IF v \in SuffixStates THEN 1 ELSE 0) + Through(s, v, 0) + Through(s, v, 1)]

LEMMA TallyThrough ==
    ASSUME NEW at, Automaton(added, nodes, at), NEW v \in States, NEW c \in {0, 1}
    PROVE  /\ nodes[v].to[c] # Null =>
                /\ nodes[v].to[c] \in States /\ LenOf(v) < LenOf(nodes[v].to[c])
                /\ Tally(at, nodes[v].to[c]) = Cardinality(OnwardsBy(at, v, c))
           /\ nodes[v].to[c] = Null => Cardinality(OnwardsBy(at, v, c)) = 0
<1>1. CASE nodes[v].to[c] = Null
  BY <1>1, OnwardsCounted
<1>2. CASE nodes[v].to[c] # Null
  <2>1. nodes[v].to[c] \in States /\ LenOf(v) < LenOf(nodes[v].to[c])
    BY <1>2, StepLonger DEF States, LenOf
  <2>2. nodes[v].to[c] # Root
    <3> SUFFICES ASSUME nodes[v].to[c] = Root PROVE FALSE
      OBVIOUS
    <3>1. LenOf(v) < LenOf(Root) /\ LenOf(Root) = 0 /\ LenOf(v) \in Nat
      BY <2>1, RootShortest
    <3> QED BY <3>1
  <2>3. Cardinality(OnwardsBy(at, v, c)) = Cardinality(EndsOf(at, nodes[v].to[c]))
    BY <1>2, OnwardsCounted
  <2> QED BY <1>2, <2>1, <2>2, <2>3 DEF Tally
<1> QED BY <1>1, <1>2

LEMMA TallyTurns ==
    ASSUME NEW at, Automaton(added, nodes, at), last = at[added][added], NEW v \in States,
           NEW s, \A c \in {0, 1} : nodes[v].to[c] # Null => s[nodes[v].to[c]] = Tally(at, nodes[v].to[c])
    PROVE  Tally(at, v) = (IF v \in SuffixStates THEN 1 ELSE 0) + Through(s, v, 0) + Through(s, v, 1)
<1>1. /\ Through(s, v, 0) = Cardinality(OnwardsBy(at, v, 0))
      /\ Through(s, v, 1) = Cardinality(OnwardsBy(at, v, 1))
  <2>1. ASSUME NEW c \in {0, 1} PROVE Through(s, v, c) = Cardinality(OnwardsBy(at, v, c))
    BY TallyThrough DEF Through
  <2> QED BY <2>1
<1>2. /\ Cardinality(OnwardsBy(at, v, 0)) \in Nat /\ Cardinality(OnwardsBy(at, v, 1)) \in Nat
      /\ Cardinality(EndsOf(at, v)) = (IF Place(at, v, added) THEN 1 ELSE 0)
            + Cardinality(OnwardsBy(at, v, 0)) + Cardinality(OnwardsBy(at, v, 1))
  BY EndsSplit
<1>3. v \in SuffixStates <=> v # Root /\ Place(at, v, added)
  BY SuffixStatesEnd
<1>4. CASE v # Root
  BY <1>1, <1>2, <1>3, <1>4 DEF Tally
<1>5. CASE v = Root
  <2>1. added \in Nat /\ 0 \in Int /\ added \in Int
    BY DEF Automaton
  <2>2. \A e \in 0..added : Place(at, Root, e)
    <3>1. ASSUME NEW e \in 0..added PROVE Place(at, Root, e)
      <4>1. 0 \in 0..e /\ at[e][0] = Root /\ LenOf(Root) = 0
        BY <1>5, RootShortest DEF Automaton, StateThere
      <4> QED BY <4>1 DEF Place
    <3> QED BY <3>1
  <2>3. EndsOf(at, v) = 0..added /\ Place(at, v, added)
    BY <1>5, <2>1, <2>2 DEF EndsOf
  <2>4. Cardinality(0..added) = added + 1
    <3>1. Cardinality(0..added) = IF 0 > added THEN 0 ELSE added - 0 + 1
      BY <2>1, FS_Interval
    <3> QED BY <2>1, <3>1
  <2>5. Tally(at, v) = added /\ v \notin SuffixStates
    BY <1>3, <1>5 DEF Tally
  <2>6. added + 1 = 1 + Cardinality(OnwardsBy(at, v, 0)) + Cardinality(OnwardsBy(at, v, 1))
    BY ONLY <1>2, <2>3, <2>4
  <2>7. added = 0 + Cardinality(OnwardsBy(at, v, 0)) + Cardinality(OnwardsBy(at, v, 1))
    BY ONLY <1>2, <2>1, <2>6
  <2> QED BY ONLY <1>1, <2>5, <2>7
<1> QED BY <1>4, <1>5

LEMMA TalliedOnly ==
    ASSUME NEW at, Automaton(added, nodes, at), last = at[added][added],
           NEW s, Tallied(s), NEW v \in States
    PROVE  s[v] = Tally(at, v)
<1>1. \A w \in States :
        s[w] = (IF w \in SuffixStates THEN 1 ELSE 0) + Through(s, w, 0) + Through(s, w, 1)
  BY DEF Tallied
<1>2. added \in Nat /\ \A w \in States : LenOf(w) \in 0..added /\ LenOf(w) \in Nat
  BY RootShortest DEF Automaton
<1> DEFINE I == {k \in Nat : \A w \in States : added - LenOf(w) <= k => s[w] = Tally(at, w)}
<1>3. ASSUME NEW w \in States,
             \A c \in {0, 1} : nodes[w].to[c] # Null => s[nodes[w].to[c]] = Tally(at, nodes[w].to[c])
      PROVE  s[w] = Tally(at, w)
  <2>1. Tally(at, w) = (IF w \in SuffixStates THEN 1 ELSE 0) + Through(s, w, 0) + Through(s, w, 1)
    BY ONLY <1>3, w \in States, Automaton(added, nodes, at), last = at[added][added], TallyTurns
  <2> QED BY <1>1, <2>1
<1>4. \A w \in States, c \in {0, 1} :
        nodes[w].to[c] # Null => nodes[w].to[c] \in States /\ LenOf(w) < LenOf(nodes[w].to[c])
  BY TallyThrough
<1>5. 0 \in I
  <2> SUFFICES ASSUME NEW w \in States, added - LenOf(w) <= 0 PROVE s[w] = Tally(at, w)
    OBVIOUS
  <2>1. \A c \in {0, 1} : nodes[w].to[c] = Null
    <3> SUFFICES ASSUME NEW c \in {0, 1}, nodes[w].to[c] # Null PROVE FALSE
      OBVIOUS
    <3>1. nodes[w].to[c] \in States /\ LenOf(w) < LenOf(nodes[w].to[c])
      BY <1>4
    <3>2. LenOf(nodes[w].to[c]) \in 0..added /\ LenOf(w) \in 0..added
      BY <1>2, <3>1
    <3> QED BY <1>2, <3>1, <3>2
  <2> QED BY <1>3, <2>1
<1>6. ASSUME NEW k \in Nat, k \in I PROVE k + 1 \in I
  <2> SUFFICES ASSUME NEW w \in States, added - LenOf(w) <= k + 1 PROVE s[w] = Tally(at, w)
    OBVIOUS
  <2>1. \A c \in {0, 1} : nodes[w].to[c] # Null => s[nodes[w].to[c]] = Tally(at, nodes[w].to[c])
    <3> SUFFICES ASSUME NEW c \in {0, 1}, nodes[w].to[c] # Null
                 PROVE  s[nodes[w].to[c]] = Tally(at, nodes[w].to[c])
      OBVIOUS
    <3>1. nodes[w].to[c] \in States /\ LenOf(w) < LenOf(nodes[w].to[c])
      BY <1>4
    <3>2. LenOf(nodes[w].to[c]) \in 0..added /\ LenOf(w) \in 0..added
      BY <1>2, <3>1
    <3>3. added - LenOf(nodes[w].to[c]) <= k
      BY <1>2, <3>1, <3>2
    <3> QED BY <1>6, <3>1, <3>3
  <2> QED BY <1>3, <2>1
<1>7. Nat \subseteq I
  <2> HIDE DEF I
  <2> QED BY <1>5, <1>6, NatInduct
<1>8. added - LenOf(v) \in Nat
  BY <1>2
<1>9. added - LenOf(v) \in I /\ added - LenOf(v) <= added - LenOf(v)
  <2> HIDE DEF I
  <2> QED BY <1>7, <1>8
<1> QED BY <1>9

LEMMA OccurrencesTally ==
    ASSUME NEW at, Automaton(added, nodes, at), last = at[added][added], NEW v \in States
    PROVE  Occurrences[v] = Tally(at, v)
<1> DEFINE f == [w \in States |-> Tally(at, w)]
<1>1. Tallied(f)
  <2>1. ASSUME NEW w \in States
        PROVE  f[w] = (IF w \in SuffixStates THEN 1 ELSE 0) + Through(f, w, 0) + Through(f, w, 1)
    <3>1. \A c \in {0, 1} : nodes[w].to[c] # Null => f[nodes[w].to[c]] = Tally(at, nodes[w].to[c])
      BY TallyThrough
    <3>2. f[w] = Tally(at, w)
      OBVIOUS
    <3> HIDE DEF f
    <3>3. Tally(at, w) = (IF w \in SuffixStates THEN 1 ELSE 0) + Through(f, w, 0) + Through(f, w, 1)
      BY ONLY <3>1, w \in States, Automaton(added, nodes, at), last = at[added][added], TallyTurns
    <3> QED BY <3>2, <3>3
  <2>2. f = [w \in States |-> f[w]]
    OBVIOUS
  <2> HIDE DEF f
  <2> QED BY <2>1, <2>2 DEF Tallied
<1>2. Occurrences = CHOOSE s : Tallied(s)
  BY DEF Occurrences, Tallied, Through
<1>3. Tallied(Occurrences)
  BY <1>1, <1>2
<1> QED BY <1>3, TalliedOnly

LEMMA CountChecksHold ==
    ASSUME BuildInv, Fed, pc = "add", added = Len(word)
    PROVE  CountChecks
<1>1. PICK at : Automaton(added, nodes, at) /\ last = at[added][added]
  BY DEF BuildInv
<1>2. added + 1 <= Len(nodes) /\ added \in Nat /\ Len(nodes) \in Nat /\ n = Len(nodes) + 1
  BY <1>1, NodesMany DEF n
<1>3. Len(trainingStrings) \in Nat \ {0} /\ Len(trainingStrings) <= added
  <2>1. PICK ends : Laid(ends)
    BY LaidOut
  <2>2. /\ \A k \in 0..Len(Strings) : k <= ends[k]
        /\ Len(Strings) \in Nat \ {0} /\ ends[Len(Strings)] = Len(word)
    BY <2>1, EndsGrow
  <2>3. Len(Strings) \in 0..Len(Strings)
    BY <2>2
  <2> QED BY <2>2, <2>3 DEF Strings
<1>4. n >= Len(trainingStrings)
  BY <1>2, <1>3
<1>5. \A v \in States \ {last} : LenOf(v) < LenOf(last)
  BY <1>1, LastLongest
<1>6. \A v \in States \ {Root} : LenOf(v) > LenOf(Root)
  BY <1>1, RootShortest
<1>7. \A v \in States, c \in {0, 1} : nodes[v].to[c] # Null => LenOf(nodes[v].to[c]) > LenOf(v)
  <2> SUFFICES ASSUME NEW v \in States, NEW c \in {0, 1}, nodes[v].to[c] # Null
               PROVE  LenOf(nodes[v].to[c]) > LenOf(v)
    OBVIOUS
  <2>1. nodes[v].to[c] \in States /\ LenOf(v) < LenOf(nodes[v].to[c])
    BY <1>1, TallyThrough
  <2>2. LenOf(v) \in Nat /\ LenOf(nodes[v].to[c]) \in Nat
    BY <1>1, <2>1, RootShortest
  <2> QED BY <2>1, <2>2
<1>8. \A v \in States : Occurrences[v] \in 1..n
  <2> SUFFICES ASSUME NEW v \in States PROVE Occurrences[v] \in 1..n
    OBVIOUS
  <2>1. Occurrences[v] = Tally(at, v)
    BY <1>1, OccurrencesTally
  <2>2. Cardinality(EndsOf(at, v)) \in 1..added + 1
    BY <1>1, EndsOfFinite
  <2>3. Tally(at, v) \in 1..added + 1
    BY <1>2, <1>3, <2>2 DEF Tally
  <2> QED BY <1>2, <2>1, <2>3
<1> QED BY <1>4, <1>5, <1>6, <1>7, <1>8 DEF CountChecks
-----------------------------------------------------------------------------
(* The walk through a training string. *)
LEMMA PathPlace ==
    ASSUME Fed, added = Len(word), NEW at, Automaton(added, nodes, at), NEW ends, Laid(ends),
           NEW k \in 1..Len(Strings), NEW j \in 0..Len(Strings[k]), NEW l \in 0..j
    PROVE  /\ StateOf(SubSeq(Strings[k], (j - l) + 1, j)) = at[ends[k - 1] + j][l]
           /\ ends[k - 1] + j \in 0..added /\ l \in 0..ends[k - 1] + j
<1>1. /\ SubSeq(Strings[k], (j - l) + 1, j) = Piece(ends[k - 1] + j, l)
      /\ ends[k - 1] + j \in 0..Len(word) /\ l \in 0..ends[k - 1] + j
  BY StringPieces
<1>2. StateOf(Piece(ends[k - 1] + j, l)) = at[ends[k - 1] + j][l]
  BY <1>1, StateOfPiece
<1> QED BY <1>1, <1>2

LEMMA PathStates ==
    ASSUME Fed, added = Len(word), NEW at, Automaton(added, nodes, at), NEW ends, Laid(ends),
           NEW k \in 1..Len(Strings)
    PROVE  /\ DOMAIN StringStates(Strings[k]) = 1..Len(Strings[k])
           /\ Len(Strings[k]) \in Nat \ {0} /\ ends[k - 1] \in Nat
           /\ \A j \in 1..Len(Strings[k]) : StringStates(Strings[k])[j] = at[ends[k - 1] + j][j]
<1>1. Len(Strings[k]) \in Nat \ {0} /\ ends[k - 1] \in Nat
  BY StringPlace
<1>2. ASSUME NEW j \in 1..Len(Strings[k])
      PROVE  StateOf(SubSeq(Strings[k], 1, j)) = at[ends[k - 1] + j][j]
  <2>1. j \in 0..Len(Strings[k]) /\ j \in 0..j /\ (j - j) + 1 = 1
    BY <1>1
  <2>2. StateOf(SubSeq(Strings[k], (j - j) + 1, j)) = at[ends[k - 1] + j][j]
    BY <2>1, PathPlace
  <2> QED BY <2>1, <2>2
<1>3. StringStates(Strings[k]) = [j \in 1..Len(Strings[k]) |-> StateOf(SubSeq(Strings[k], 1, j))]
  BY DEF StringStates
<1> QED BY <1>1, <1>2, <1>3

(* Two beginnings of a string never end at the same places: the shorter one would
   end earlier than the first of them. *)
LEMMA BeginningsDiffer ==
    ASSUME NEW at, Automaton(added, nodes, at), NEW o \in Nat, NEW j \in Nat, NEW k \in Nat, j < k,
           o + k <= added
    PROVE  at[o + j][j] # at[o + k][k]
<1> SUFFICES ASSUME at[o + j][j] = at[o + k][k] PROVE FALSE
  OBVIOUS
<1> DEFINE v == at[o + j][j]
           X == {g \in Nat : g <= added /\ j <= g /\ at[g][j] = v}
<1>0. /\ added \in Nat /\ o + j \in 0..added /\ o + k \in 0..added /\ j \in 0..o + j /\ k \in 0..o + k
      /\ j <= j
  BY DEF Automaton
<1>1. o + j \in X
  BY <1>0
<1>2. PICK f \in X : \A g \in X : f <= g
  <2>1. X # {} /\ X \in SUBSET Nat
    BY <1>1
  <2> HIDE DEF X
  <2> QED BY <2>1, NatMin
<1>3. f \in Nat /\ f \in 0..added /\ f \in j..added /\ j \in 0..f /\ j <= f /\ at[f][j] = at[o + j][j]
  BY <1>0, <1>2
<1>4. Same(f, o + j, j)
  <2>1. at[f][j] = at[o + j][j] /\ j <= j
    BY <1>0, <1>3
  <2> QED BY <1>0, <1>3, <2>1 DEF Automaton, SuffixOfOther
<1>5. f \in k..added /\ Same(f, o + k, k)
  BY <1>0, <1>3, <1>4, EndsTogether
<1> DEFINE d == k - j
           g == f - d
<1>6. d \in Nat /\ d # 0 /\ k = j + d /\ g \in Nat /\ g < f /\ g <= added /\ j <= g /\ g \in 0..added
      /\ j \in 0..g /\ f = g + d
  BY <1>0, <1>3, <1>5
<1>7. Same(g, o + j, j)
  <2>1. ASSUME NEW h \in 0..j - 1 PROVE word[g - h] = word[(o + j) - h]
    <3>1. h + d \in 0..k - 1 /\ f - (h + d) = g - h /\ (o + k) - (h + d) = (o + j) - h
      BY <1>6
    <3>2. word[f - (h + d)] = word[(o + k) - (h + d)]
      BY <1>5, <3>1 DEF Same
    <3> QED BY <3>1, <3>2
  <2> HIDE DEF g
  <2> QED BY <2>1 DEF Same
<1>8. at[g][j] = at[o + j][j]
  BY <1>0, <1>6, <1>7 DEF Automaton, SameState
<1>9. g \in X
  BY <1>6, <1>8
<1> QED BY <1>2, <1>3, <1>6, <1>9

LEMMA WalkChecksHold ==
    ASSUME BuildInv, Fed, QueueInv, pc = "walk", it <= Len(trainingStrings)
    PROVE  WalkChecks(StringStates(trainingStrings[it]))
<1>1. PICK at : Automaton(added, nodes, at)
  BY DEF BuildInv
<1>2. PICK ends : Laid(ends)
  BY LaidOut
<1>3. it \in 1..Len(Strings) /\ added = Len(word)
  BY FedFacts DEF QueueInv, Fed, Strings
<1> DEFINE s == Strings[it]
           path == StringStates(s)
           o == ends[it - 1]
<1>4. /\ DOMAIN path = 1..Len(s) /\ Len(s) \in Nat \ {0} /\ o \in Nat
      /\ \A j \in 1..Len(s) : path[j] = at[o + j][j]
  BY <1>1, <1>2, <1>3, PathStates
<1>5. \A j \in 1..Len(s) : j \in 0..Len(s) /\ j \in 0..j /\ j \in Nat
  BY <1>4
<1>6. \A j \in 1..Len(s) : o + j \in 0..added /\ j \in 0..o + j
  <2> SUFFICES ASSUME NEW j \in 1..Len(s) PROVE o + j \in 0..added /\ j \in 0..o + j
    OBVIOUS
  <2> QED BY <1>1, <1>2, <1>3, <1>5, PathPlace
<1>7. \A j \in 1..Len(s) : path[j] # Null
  <2> SUFFICES ASSUME NEW j \in 1..Len(s) PROVE path[j] # Null
    OBVIOUS
  <2>1. at[o + j][j] \in 1..Len(nodes)
    BY <1>1, <1>6, StateFacts
  <2> QED BY <1>4, <2>1 DEF Null
<1> HIDE DEF s, path, o
<1>8. \A j, k \in 1..Len(s) : j < k => path[j] # path[k]
  <2> SUFFICES ASSUME NEW j \in 1..Len(s), NEW k \in 1..Len(s), j < k PROVE path[j] # path[k]
    OBVIOUS
  <2>1. o \in Nat /\ j \in Nat /\ k \in Nat /\ o + k <= added
    BY <1>4, <1>5, <1>6
  <2>2. at[o + j][j] # at[o + k][k]
    BY <1>1, <2>1, BeginningsDiffer
  <2> QED BY <1>4, <2>2
<1>9. \A j, k \in 1..Len(s) : path[j] = path[k] => j = k
  <2> SUFFICES ASSUME NEW j \in 1..Len(s), NEW k \in 1..Len(s), path[j] = path[k] PROVE j = k
    OBVIOUS
  <2>1. ~ (j < k) /\ ~ (k < j) /\ j \in Nat /\ k \in Nat
    BY <1>5, <1>8
  <2> QED BY <2>1
<1>10. WalkChecks(path)
  BY <1>4, <1>7, <1>9 DEF WalkChecks, Range, IsInjective
<1> QED BY <1>10 DEF path, s, Strings

(* The states of the words of a training string. *)
InString(k, v) == \E w \in SubSeqs(Strings[k]) : StateOf(w) = v

LEMMA SubSeqsPlaced ==
    ASSUME NEW S, NEW s \in Seq(S), NEW w
    PROVE  w \in SubSeqs(s) <=> \E j \in 0..Len(s) : \E l \in 0..j : w = SubSeq(s, (j - l) + 1, j)
<1>0. Len(s) \in Nat
  BY LenProperties
<1>1. w \in SubSeqs(s) <=> \E x \in 0..Len(s) : \E y \in 0..Len(s) : w = SubSeq(s, x + 1, y)
  BY DEF SubSeqs
<1>2. ASSUME NEW x \in 0..Len(s), NEW y \in 0..Len(s), w = SubSeq(s, x + 1, y)
      PROVE  \E j \in 0..Len(s) : \E l \in 0..j : w = SubSeq(s, (j - l) + 1, j)
  <2>1. CASE x <= y
    <3>1. y - x \in 0..y /\ (y - (y - x)) + 1 = x + 1
      BY <1>0, <2>1
    <3> QED BY <1>2, <3>1
  <2>2. CASE ~ (x <= y)
    <3>1. x + 1 > y /\ x + 1 \in Int /\ y \in Int /\ 1 > 0 /\ 1 \in Int /\ 0 \in Int
      BY <1>0, <2>2
    <3>2. SubSeq(s, x + 1, y) = << >> /\ SubSeq(s, 1, 0) = << >>
      BY <3>1, SubSeqEmpty
    <3>3. 0 \in 0..Len(s) /\ 0 \in 0..0 /\ (0 - 0) + 1 = 1
      BY <1>0
    <3> QED BY <1>2, <3>2, <3>3
  <2> QED BY <2>1, <2>2
<1>3. ASSUME NEW j \in 0..Len(s), NEW l \in 0..j, w = SubSeq(s, (j - l) + 1, j)
      PROVE  \E x \in 0..Len(s) : \E y \in 0..Len(s) : w = SubSeq(s, x + 1, y)
  <2>1. j - l \in 0..Len(s)
    BY <1>0
  <2> QED BY <1>3, <2>1
<1> QED BY <1>1, <1>2, <1>3

LEMMA InStringPlaced ==
    ASSUME Fed, added = Len(word), NEW at, Automaton(added, nodes, at), NEW ends, Laid(ends),
           NEW k \in 1..Len(Strings), NEW v
    PROVE  InString(k, v) <=>
             \E j \in 0..Len(Strings[k]) : \E l \in 0..j : at[ends[k - 1] + j][l] = v
<1>1. Strings[k] \in Seq({0, 1})
  BY StringFacts
<1>2. \A j \in 0..Len(Strings[k]) : \A l \in 0..j :
        StateOf(SubSeq(Strings[k], (j - l) + 1, j)) = at[ends[k - 1] + j][l]
  <2> SUFFICES ASSUME NEW j \in 0..Len(Strings[k]), NEW l \in 0..j
               PROVE  StateOf(SubSeq(Strings[k], (j - l) + 1, j)) = at[ends[k - 1] + j][l]
    OBVIOUS
  <2>1. /\ StateOf(SubSeq(Strings[k], (j - l) + 1, j)) = at[ends[k - 1] + j][l]
        /\ ends[k - 1] + j \in 0..added /\ l \in 0..ends[k - 1] + j
    BY PathPlace
  <2> QED BY ONLY <2>1
<1>3. ASSUME InString(k, v)
      PROVE  \E j \in 0..Len(Strings[k]) : \E l \in 0..j : at[ends[k - 1] + j][l] = v
  <2>1. PICK w \in SubSeqs(Strings[k]) : StateOf(w) = v
    BY <1>3 DEF InString
  <2>2. \E j \in 0..Len(Strings[k]) : \E l \in 0..j : w = SubSeq(Strings[k], (j - l) + 1, j)
    BY <1>1, <2>1, SubSeqsPlaced
  <2> QED BY <1>2, <2>1, <2>2
<1>4. ASSUME NEW j \in 0..Len(Strings[k]), NEW l \in 0..j, at[ends[k - 1] + j][l] = v
      PROVE  InString(k, v)
  <2>1. SubSeq(Strings[k], (j - l) + 1, j) \in SubSeqs(Strings[k])
    BY <1>1, SubSeqsPlaced
  <2> QED BY <1>2, <1>4, <2>1 DEF InString
<1> QED BY <1>3, <1>4

LEMMA SameWords ==
    ASSUME nodes' = nodes, trainingStrings' = trainingStrings
    PROVE  /\ \A w : StateOf(w)' = StateOf(w)
           /\ \A k, v : InString(k, v)' <=> InString(k, v)
<1>1. \A w : StateOf(w)' = StateOf(w)
  BY DEF StateOf, Down
<1>2. ASSUME NEW k, NEW v PROVE InString(k, v)' <=> InString(k, v)
  BY <1>1 DEF InString, Strings
<1> QED BY <1>1, <1>2

LEMMA SameOccurrences ==
    ASSUME nodes' = nodes, last' = last
    PROVE  Occurrences' = Occurrences
BY DEF Occurrences, SuffixStates, States

(* Every state of a word of the string has been marked when all the links of the
   marked states lead to marked states, and no other. *)
LEMMA LinkInString ==
    ASSUME Fed, added = Len(word), NEW at, Automaton(added, nodes, at), NEW k \in 1..Len(Strings),
           NEW v \in States, InString(k, v), nodes[v].link # Null
    PROVE  InString(k, nodes[v].link)
<1>1. PICK ends : Laid(ends)
  BY LaidOut
<1>2. PICK j \in 0..Len(Strings[k]) : \E l \in 0..j : at[ends[k - 1] + j][l] = v
  BY <1>1, InStringPlaced
<1>3. PICK l \in 0..j : at[ends[k - 1] + j][l] = v
  BY <1>2
<1> DEFINE e == ends[k - 1] + j
<1>4. e \in 0..added /\ l \in 0..e
  BY <1>1, PathPlace
<1> HIDE DEF e
<1>5. v # Root
  BY DEF Automaton, NodesOK
<1>6. at[e][l] = v
  BY <1>3 DEF e
<1>7. l # 0
  BY <1>4, <1>5, <1>6 DEF Automaton, StateThere
<1>8. added \in Nat /\ l \in 1..e /\ l \in Nat
  BY <1>4, <1>7 DEF Automaton
<1>9. at[e][nodes[nodes[v].link].len] = nodes[v].link
  BY <1>4, <1>6, <1>8 DEF Automaton, Links, LinkAt
<1>10. Shortest(nodes, v) \in 0..l
  BY <1>4, <1>6 DEF Automaton, Lengths, LengthAt
<1>11. nodes[nodes[v].link].len \in Nat
  BY <1>5, LinkThere DEF States
<1>12. nodes[nodes[v].link].len \in 0..j
  <2>1. nodes[nodes[v].link].len + 1 \in 0..l
    BY <1>5, <1>10 DEF Shortest
  <2>2. l \in 0..j /\ j \in Nat
    BY <1>1, StringPlace
  <2> QED BY <1>8, <1>11, <2>1, <2>2
<1>13. \E i1 \in 0..j : at[ends[k - 1] + j][i1] = nodes[v].link
  BY <1>9, <1>12 DEF e
<1> QED BY <1>1, <1>13, InStringPlaced

LEMMA AllMarked ==
    ASSUME Fed, added = Len(word), NEW at, Automaton(added, nodes, at), NEW k \in 1..Len(Strings),
           NEW A, Range(StringStates(Strings[k])) \subseteq A,
           \A x \in A : nodes[x].link \in A \cup {Null},
           NEW v, InString(k, v)
    PROVE  v \in A
<1>1. PICK ends : Laid(ends)
  BY LaidOut
<1> DEFINE o == ends[k - 1]
           N == Len(Strings[k])
<1>2. /\ DOMAIN StringStates(Strings[k]) = 1..N /\ N \in Nat \ {0} /\ o \in Nat
      /\ \A j \in 1..N : StringStates(Strings[k])[j] = at[o + j][j]
  BY <1>1, PathStates
<1>3. \A j \in 0..N : o + j \in 0..added /\ j \in 0..o + j
  <2> SUFFICES ASSUME NEW j \in 0..N PROVE o + j \in 0..added /\ j \in 0..o + j
    OBVIOUS
  <2>1. j \in 0..j
    BY <1>2
  <2> QED BY <1>1, <2>1, PathPlace
<1>4. \A j \in 1..N : at[o + j][j] \in A
  BY <1>2 DEF Range
<1>5. PICK j0 \in 0..N : \E l \in 0..j0 : at[o + j0][l] = v
  BY <1>1, InStringPlaced
<1>6. PICK l0 \in 0..j0 : at[o + j0][l0] = v
  BY <1>5
<1> HIDE DEF o, N
<1>7. ASSUME NEW j \in 1..N PROVE \A l \in 0..j : at[o + j][l] \in A
  <2> DEFINE I == {h \in Nat : h <= j => at[o + j][j - h] \in A}
  <2>0. j \in Nat /\ j \in 0..N /\ o + j \in 0..added /\ o \in Nat
    BY <1>2, <1>3
  <2>1. 0 \in I
    BY <1>4, <2>0
  <2>2. ASSUME NEW h \in Nat, h \in I PROVE h + 1 \in I
    <3> SUFFICES ASSUME h + 1 <= j PROVE at[o + j][j - (h + 1)] \in A
      OBVIOUS
    <3> DEFINE m == j - (h + 1)
    <3>1. h <= j /\ m \in Nat /\ j - h = m + 1 /\ m + 1 <= o + j
      BY <2>0
    <3>2. at[o + j][m + 1] \in A
      BY <2>2, <3>1
    <3> HIDE DEF m
    <3>3. \/ at[o + j][m] = at[o + j][m + 1]
          \/ at[o + j][m] = nodes[at[o + j][m + 1]].link /\ at[o + j][m] # Null
      BY <2>0, <3>1, ShorterSuffix
    <3>4. at[o + j][m] \in A
      BY <3>2, <3>3
    <3> QED BY <3>4 DEF m
  <2>3. Nat \subseteq I
    <3> HIDE DEF I
    <3> QED BY <2>1, <2>2, NatInduct
  <2>4. ASSUME NEW l \in 0..j PROVE at[o + j][l] \in A
    <3>1. j - l \in Nat /\ j - l <= j /\ j - (j - l) = l
      BY <2>0
    <3> QED BY <2>3, <3>1
  <2> QED BY <2>4
<1>8. CASE j0 # 0
  <2>1. j0 \in 1..N
    BY <1>2, <1>8
  <2> QED BY <1>6, <1>7, <2>1
<1>9. CASE j0 = 0
  <2>1. 1 \in 1..N /\ 1 \in 0..N /\ 0 \in 0..1 /\ l0 = 0 /\ 0 \in 0..N /\ o + 0 = o /\ o \in Nat
    BY <1>2, <1>6, <1>9
  <2>2. o + 1 \in 0..added /\ o \in 0..added /\ 0 \in 0..o /\ 0 \in 0..o + 1
    <3>1. o + 1 \in 0..added /\ o + 0 \in 0..added
      BY ONLY <1>3, <2>1
    <3> QED BY <2>1, <3>1
  <2>3. at[o + 1][0] = Root /\ at[o][0] = Root
    BY <2>2 DEF Automaton, StateThere
  <2>4. at[o + 1][0] \in A
    BY ONLY <1>7, <2>1
  <2>5. v = at[o][0]
    BY ONLY <1>6, <1>9, <2>1
  <2> QED BY <2>3, <2>4, <2>5
<1> QED BY <1>8, <1>9

(* The training strings up to m that hold a word of v. *)
Holding(v, m) == {k \in 1..m : InString(k, v)}

CountInv ==
    pc \in {"walk", "mark"} =>
    /\ cntOccured = Occurrences
    /\ cntDiffStrings \in [States -> Nat]
    /\ pc = "walk" => \A v \in States : cntDiffStrings[v] = Cardinality(Holding(v, it - 1))
    /\ pc = "mark" =>
        /\ \A v \in States :
            cntDiffStrings[v] = Cardinality(Holding(v, it - 1)) + (IF v \in marked THEN 1 ELSE 0)
        /\ \A x \in marked : InString(it, x)
        /\ Range(StringStates(Strings[it])) \subseteq marked
        /\ \A k \in 1..ql - 1 : nodes[queue[k]].link \in marked \cup {Null}

LEMMA HoldingFacts ==
    ASSUME NEW v, NEW m \in Nat
    PROVE  /\ IsFiniteSet(Holding(v, m)) /\ Cardinality(Holding(v, m)) \in Nat
           /\ m = 0 => Cardinality(Holding(v, m)) = 0
           /\ Cardinality(Holding(v, m + 1)) =
                Cardinality(Holding(v, m)) + (IF InString(m + 1, v) THEN 1 ELSE 0)
<1>1. IsFiniteSet(Holding(v, m)) /\ Cardinality(Holding(v, m)) \in Nat
  <2>1. Holding(v, m) \in SUBSET (1..m)
    BY DEF Holding
  <2> QED BY <2>1, NodeSetFinite
<1>2. m = 0 => Cardinality(Holding(v, m)) = 0
  <2>1. m = 0 => Holding(v, m) = {}
    BY DEF Holding
  <2> QED BY <2>1, FS_EmptySet
<1>3. m + 1 \notin Holding(v, m)
  BY DEF Holding
<1>4. Holding(v, m + 1) = IF InString(m + 1, v) THEN Holding(v, m) \cup {m + 1} ELSE Holding(v, m)
  <2>1. 1..m + 1 = (1..m) \cup {m + 1}
    OBVIOUS
  <2> QED BY <2>1 DEF Holding
<1>5. Cardinality(Holding(v, m) \cup {m + 1}) = Cardinality(Holding(v, m)) + 1
  BY <1>1, <1>3, FS_AddElement
<1> QED BY <1>1, <1>2, <1>4, <1>5

LEMMA SameHolding ==
    ASSUME nodes' = nodes, trainingStrings' = trainingStrings
    PROVE  /\ \A v, m : m = it' - 1 => Holding(v, it - 1)' = Holding(v, m)
           /\ \A x, m : m = it' => (InString(it, x)' <=> InString(m, x))
<1>1. \A k, x : InString(k, x)' <=> InString(k, x)
  BY SameWords
<1>2. ASSUME NEW v, NEW m, m = it' - 1 PROVE Holding(v, it - 1)' = Holding(v, m)
  BY <1>1, <1>2 DEF Holding
<1>3. \A w : StateOf(w)' = StateOf(w)
  BY SameWords
<1>4. ASSUME NEW x, NEW m, m = it' PROVE InString(it, x)' <=> InString(m, x)
  BY <1>3, <1>4 DEF InString, Strings
<1> QED BY <1>2, <1>4

LEMMA CountStarts ==
    ASSUME BuildInv, Fed, QueueInv, CountOccurred
    PROVE  CountInv'
<1>1. /\ pc = "add" /\ pc' = "walk" /\ nodes' = nodes /\ last' = last /\ it' = it
      /\ trainingStrings' = trainingStrings /\ cntOccured' = Occurrences
      /\ cntDiffStrings' = [v \in States |-> 0]
  BY DEF CountOccurred, input, build
<1>2. it = 1 /\ it' - 1 = 0
  BY <1>1 DEF QueueInv, Training
<1>3. States' = States /\ Occurrences' = Occurrences
  BY <1>1, SameNodes, SameOccurrences
<1>4. \A v : Cardinality(Holding(v, it - 1)') = 0
  <2> SUFFICES ASSUME NEW v PROVE Cardinality(Holding(v, it - 1)') = 0
    OBVIOUS
  <2>1. Holding(v, it - 1)' = Holding(v, 0)
    BY <1>1, <1>2, SameHolding
  <2>2. Cardinality(Holding(v, 0)) = 0
    BY HoldingFacts
  <2> QED BY <2>1, <2>2
<1>5. cntDiffStrings' \in [States -> Nat] /\ \A v \in States : cntDiffStrings'[v] = 0
  BY <1>1
<1>6. \A v \in States' : cntDiffStrings'[v] = Cardinality(Holding(v, it - 1)')
  BY ONLY <1>3, <1>4, <1>5
<1> QED BY ONLY <1>1, <1>3, <1>5, <1>6 DEF CountInv

LEMMA OneMore ==
    ASSUME cntDiffStrings \in [States -> Nat], NEW A
    PROVE  /\ OneMoreFor(A) \in [States -> Nat]
           /\ \A v \in States : OneMoreFor(A)[v] = cntDiffStrings[v] + (IF v \in A THEN 1 ELSE 0)
<1>1. OneMoreFor(A) = [v \in States |-> cntDiffStrings[v] + (IF v \in A THEN 1 ELSE 0)]
  BY DEF OneMoreFor
<1>2. \A v \in States : cntDiffStrings[v] + (IF v \in A THEN 1 ELSE 0) \in Nat
  OBVIOUS
<1> QED BY <1>1, <1>2

LEMMA PathInString ==
    ASSUME Fed, NEW k \in 1..Len(Strings), NEW x \in Range(StringStates(Strings[k]))
    PROVE  InString(k, x)
<1>1. Strings[k] \in Seq({0, 1})
  BY StringFacts
<1>2. PICK j \in 1..Len(Strings[k]) : x = StateOf(SubSeq(Strings[k], 1, j))
  BY DEF Range, StringStates
<1>3. SubSeq(Strings[k], 1, j) \in SubSeqs(Strings[k])
  <2>1. Len(Strings[k]) \in Nat
    BY <1>1, LenProperties
  <2>2. j \in 0..Len(Strings[k]) /\ j \in 0..j /\ (j - j) + 1 = 1
    BY <2>1
  <2> QED BY <1>1, <2>2, SubSeqsPlaced
<1> QED BY <1>2, <1>3 DEF InString

LEMMA WalkCounted ==
    ASSUME BuildInv, Fed, QueueInv, CountInv, WalkString
    PROVE  CountInv'
<1> DEFINE path == StringStates(Strings[it])
           A == Range(path)
<1>1. /\ pc = "walk" /\ pc' = "mark" /\ nodes' = nodes /\ last' = last /\ it' = it /\ ql' = 1
      /\ trainingStrings' = trainingStrings /\ cntOccured' = cntOccured /\ marked' = A
      /\ cntDiffStrings' = OneMoreFor(A) /\ it <= Len(trainingStrings) /\ word' = word
  BY DEF WalkString, input, build, Strings
<1>2. it \in 1..Len(Strings) /\ it - 1 = it' - 1 /\ it = it'
  BY <1>1, FedFacts DEF QueueInv, Strings
<1>3. /\ cntOccured = Occurrences /\ cntDiffStrings \in [States -> Nat]
      /\ \A v \in States : cntDiffStrings[v] = Cardinality(Holding(v, it - 1))
  BY <1>1 DEF CountInv
<1>4. States' = States /\ Occurrences' = Occurrences
  BY <1>1, SameNodes, SameOccurrences
<1>5. \A v : Holding(v, it - 1)' = Holding(v, it - 1)
  BY <1>1, <1>2, SameHolding
<1>6. \A x \in A : InString(it, x)'
  <2> SUFFICES ASSUME NEW x \in A PROVE InString(it, x)'
    OBVIOUS
  <2>1. InString(it, x)
    BY <1>2, PathInString
  <2> QED BY <1>1, <1>2, <2>1, SameHolding
<1>7. Range(StringStates(Strings[it]))' = A
  <2>1. \A x : StateOf(x)' = StateOf(x)
    BY <1>1, SameWords
  <2> QED BY <1>1, <2>1 DEF Range, StringStates, Strings
<1> HIDE DEF path, A
<1>8. /\ cntDiffStrings' \in [States -> Nat]
      /\ \A v \in States : cntDiffStrings'[v] = cntDiffStrings[v] + (IF v \in A THEN 1 ELSE 0)
  BY <1>1, <1>3, OneMore
<1>9. \A v \in States' :
        cntDiffStrings'[v] = Cardinality(Holding(v, it - 1)') + (IF v \in marked' THEN 1 ELSE 0)
  BY ONLY <1>1, <1>3, <1>4, <1>5, <1>8
<1>10. \A x \in marked' : InString(it, x)'
  BY ONLY <1>1, <1>6
<1>11. Range(StringStates(Strings[it]))' \subseteq marked'
  BY ONLY <1>1, <1>7
<1>12. 1..ql' - 1 = {}
  BY <1>1
<1>13. cntOccured' = Occurrences' /\ cntDiffStrings' \in [States' -> Nat] /\ pc' = "mark"
  BY ONLY <1>1, <1>3, <1>4, <1>8
<1> QED BY ONLY <1>9, <1>10, <1>11, <1>12, <1>13 DEF CountInv

LEMMA MarkCounted ==
    ASSUME BuildInv, Fed, QueueInv, CountInv, MarkLink
    PROVE  CountInv'
<1> DEFINE fresh == {nodes[queue[ql]].link} \ ({Null} \cup marked)
<1>1. /\ pc = "mark" /\ pc' = "mark" /\ nodes' = nodes /\ last' = last /\ it' = it
      /\ ql <= Len(queue) /\ ql' = ql + 1
      /\ trainingStrings' = trainingStrings /\ cntOccured' = cntOccured
      /\ marked' = marked \cup fresh /\ queue' = queue \o SetToSeq(fresh)
      /\ cntDiffStrings' = OneMoreFor(fresh)
  BY DEF MarkLink, input, build
<1>2. PICK at : Automaton(added, nodes, at)
  BY <1>1 DEF BuildInv
<1>3. /\ it \in 1..Len(Strings) /\ it - 1 = it' - 1 /\ it = it' /\ added = Len(word)
      /\ it - 1 \in Nat /\ queue \in Seq(States) /\ ql \in 1..Len(queue) /\ marked \subseteq States
      /\ Lists(queue, marked) /\ Len(queue) \in Nat
  <2>1. queue \in Seq(States) /\ ql \in Nat \ {0} /\ Len(queue) \in Nat
    BY <1>1, LenProperties DEF QueueInv, Training
  <2>2. it \in 1..Len(Strings) /\ it - 1 = it' - 1 /\ it = it' /\ it - 1 \in Nat
    BY <1>1, FedFacts DEF QueueInv, Strings
  <2> QED BY <1>1, <2>1, <2>2 DEF QueueInv, Fed
<1>4. /\ cntOccured = Occurrences /\ cntDiffStrings \in [States -> Nat]
      /\ \A v \in States :
          cntDiffStrings[v] = Cardinality(Holding(v, it - 1)) + (IF v \in marked THEN 1 ELSE 0)
      /\ \A x \in marked : InString(it, x)
      /\ Range(StringStates(Strings[it])) \subseteq marked
      /\ \A k \in 1..ql - 1 : nodes[queue[k]].link \in marked \cup {Null}
  BY <1>1 DEF CountInv
<1>5. States' = States /\ Occurrences' = Occurrences
  BY <1>1, SameNodes, SameOccurrences
<1>6. \A v : Holding(v, it - 1)' = Holding(v, it - 1)
  BY <1>1, <1>3, SameHolding
<1>7. queue[ql] \in States /\ queue[ql] \in marked
  BY <1>3, ElementOfSeq DEF Lists
<1>8. \A x \in fresh : InString(it, x)
  <2> SUFFICES ASSUME NEW x \in fresh PROVE InString(it, x)
    OBVIOUS
  <2>1. x = nodes[queue[ql]].link /\ x # Null /\ InString(it, queue[ql])
    BY <1>4, <1>7
  <2>2. InString(it, nodes[queue[ql]].link)
    BY <1>2, <1>3, <1>7, <2>1, LinkInString
  <2> QED BY <2>1, <2>2
<1>9. nodes[queue[ql]].link \in marked \cup fresh \cup {Null}
  OBVIOUS
<1>10. fresh \cap marked = {} /\ IsFiniteSet(fresh)
  BY FS_Singleton, FS_Difference
<1> HIDE DEF fresh
<1>11. \A k \in 1..Len(queue) : queue'[k] = queue[k]
  <2>1. SetToSeq(fresh) \in Seq(fresh)
    BY <1>10, SetToSeqLists DEF Lists
  <2> DEFINE t == SetToSeq(fresh)
  <2>2. t \in Seq(fresh \cup marked) /\ queue \in Seq(fresh \cup marked) /\ Len(t) \in Nat
    BY <1>3, <2>1, ElementOfSeq, LenProperties DEF Lists
  <2> HIDE DEF t
  <2>3. \A k \in 1..Len(queue) + Len(t) : (queue \o t)[k] = IF k <= Len(queue) THEN queue[k] ELSE t[k - Len(queue)]
    BY <2>2, ConcatProperties
  <2>4. \A k \in 1..Len(queue) : (queue \o t)[k] = queue[k]
    BY <1>3, <2>2, <2>3
  <2> QED BY <1>1, <2>4 DEF t
<1>12. \A x : InString(it, x)' <=> InString(it, x)
  BY <1>1, <1>3, SameHolding
<1>13. Range(StringStates(Strings[it]))' = Range(StringStates(Strings[it]))
  <2>1. \A x : StateOf(x)' = StateOf(x)
    BY <1>1, SameWords
  <2> QED BY <1>1, <2>1 DEF Range, StringStates, Strings
<1>14. /\ cntDiffStrings' \in [States -> Nat]
       /\ \A v \in States : cntDiffStrings'[v] = cntDiffStrings[v] + (IF v \in fresh THEN 1 ELSE 0)
  BY <1>1, <1>4, OneMore
<1>15. \A v \in States' :
         cntDiffStrings'[v] = Cardinality(Holding(v, it - 1)') + (IF v \in marked' THEN 1 ELSE 0)
  <2> SUFFICES ASSUME NEW v \in States
               PROVE  cntDiffStrings'[v] =
                        Cardinality(Holding(v, it - 1)') + (IF v \in marked' THEN 1 ELSE 0)
    BY <1>5
  <2>2. Cardinality(Holding(v, it - 1)) \in Nat /\ Holding(v, it - 1)' = Holding(v, it - 1)
    BY <1>3, <1>6, HoldingFacts
  <2>3. /\ cntDiffStrings'[v] = cntDiffStrings[v] + (IF v \in fresh THEN 1 ELSE 0)
        /\ cntDiffStrings[v] = Cardinality(Holding(v, it - 1)) + (IF v \in marked THEN 1 ELSE 0)
        /\ v \in marked' <=> v \in marked \/ v \in fresh
        /\ ~ (v \in marked /\ v \in fresh)
    BY <1>1, <1>4, <1>10, <1>14
  <2> QED BY ONLY <2>2, <2>3
<1>16. \A x \in marked' : InString(it, x)'
  BY <1>1, <1>4, <1>8, <1>12
<1>17. Range(StringStates(Strings[it]))' \subseteq marked'
  BY <1>1, <1>4, <1>13
<1>18. \A k \in 1..ql' - 1 : nodes'[queue'[k]].link \in marked' \cup {Null}
  <2> SUFFICES ASSUME NEW k \in 1..ql PROVE nodes[queue[k]].link \in marked \cup fresh \cup {Null}
    <3>1. ql' - 1 = ql /\ 1..ql \subseteq 1..Len(queue)
      BY <1>1, <1>3
    <3> QED BY <1>1, <1>11, <3>1
  <2>1. k = ql \/ k \in 1..ql - 1
    BY <1>3
  <2> QED BY <1>4, <1>9, <2>1
<1>19. cntOccured' = Occurrences' /\ cntDiffStrings' \in [States' -> Nat] /\ pc' = "mark"
  BY ONLY <1>1, <1>4, <1>5, <1>14
<1>20. Null' = Null
  BY DEF Null
<1> QED BY ONLY <1>15, <1>16, <1>17, <1>18, <1>19, <1>20 DEF CountInv

LEMMA EndCounted ==
    ASSUME BuildInv, Fed, QueueInv, CountInv, EndString
    PROVE  CountInv'
<1>1. /\ pc = "mark" /\ pc' = "walk" /\ nodes' = nodes /\ last' = last /\ it' = it + 1
      /\ ql > Len(queue) /\ trainingStrings' = trainingStrings /\ cntOccured' = cntOccured
      /\ cntDiffStrings' = cntDiffStrings
  BY DEF EndString, input, build
<1>2. PICK at : Automaton(added, nodes, at)
  BY <1>1 DEF BuildInv
<1>3. /\ it \in 1..Len(Strings) /\ it = it' - 1 /\ added = Len(word) /\ it - 1 \in Nat
      /\ queue \in Seq(States) /\ 1..Len(queue) \subseteq 1..ql - 1
      /\ Lists(queue, marked)
  <2>1. queue \in Seq(States) /\ ql \in Nat \ {0} /\ Len(queue) \in Nat
    BY <1>1, LenProperties DEF QueueInv, Training
  <2>2. it \in 1..Len(Strings) /\ it = it' - 1 /\ it - 1 \in Nat
    BY <1>1, FedFacts DEF QueueInv, Strings
  <2>3. 1..Len(queue) \subseteq 1..ql - 1
    BY <1>1, <2>1
  <2> QED BY <1>1, <2>1, <2>2, <2>3 DEF QueueInv, Fed
<1>4. /\ cntOccured = Occurrences /\ cntDiffStrings \in [States -> Nat]
      /\ \A v \in States :
          cntDiffStrings[v] = Cardinality(Holding(v, it - 1)) + (IF v \in marked THEN 1 ELSE 0)
      /\ \A x \in marked : InString(it, x)
      /\ Range(StringStates(Strings[it])) \subseteq marked
      /\ \A k \in 1..ql - 1 : nodes[queue[k]].link \in marked \cup {Null}
  BY <1>1 DEF CountInv
<1>5. States' = States /\ Occurrences' = Occurrences
  BY <1>1, SameNodes, SameOccurrences
<1>6. \A x \in marked : nodes[x].link \in marked \cup {Null}
  BY <1>3, <1>4 DEF Lists
<1>7. \A v : v \in marked <=> InString(it, v)
  <2> SUFFICES ASSUME NEW v, InString(it, v) PROVE v \in marked
    BY <1>4
  <2> QED BY <1>2, <1>3, <1>4, <1>6, AllMarked
<1>8. \A v \in States' : cntDiffStrings'[v] = Cardinality(Holding(v, it - 1)')
  <2> SUFFICES ASSUME NEW v \in States
               PROVE  cntDiffStrings[v] = Cardinality(Holding(v, it - 1)')
    BY <1>1, <1>5
  <2>1. Holding(v, it - 1)' = Holding(v, it)
    BY <1>1, <1>3, SameHolding
  <2>2. (it - 1) + 1 = it
    BY <1>3
  <2>3. Cardinality(Holding(v, (it - 1) + 1)) =
          Cardinality(Holding(v, it - 1)) + (IF InString((it - 1) + 1, v) THEN 1 ELSE 0)
    BY <1>3, HoldingFacts
  <2> QED BY <1>4, <1>7, <2>1, <2>2, <2>3
<1>9. cntOccured' = Occurrences' /\ cntDiffStrings' \in [States' -> Nat] /\ pc' = "walk"
  BY ONLY <1>1, <1>4, <1>5
<1> QED BY ONLY <1>8, <1>9 DEF CountInv

LEMMA RestCounted ==
    ASSUME BuildInv, Fed, QueueInv, CountInv,
           \/ AddTrainingData \/ Collect \/ SkipCandidate \/ TakeCandidate \/ Kill \/ EndKill \/ Output
           \/ UNCHANGED dictVars
    PROVE  CountInv'
<1>1. CASE pc' \notin {"walk", "mark"}
  BY <1>1 DEF CountInv
<1>2. CASE pc' \in {"walk", "mark"}
  <2>1. UNCHANGED dictVars
    BY <1>2 DEF AddTrainingData, AddCharacters, Add, Fill, LinkTo, LinkToRoot, LinkToTarget,
       CloneTarget, Redirect, EndRedirect, Collect, SkipCandidate, TakeCandidate, Kill, EndKill, Output
  <2>2. /\ nodes' = nodes /\ last' = last /\ it' = it /\ it - 1 = it' - 1 /\ it = it'
        /\ trainingStrings' = trainingStrings /\ cntOccured' = cntOccured /\ marked' = marked
        /\ cntDiffStrings' = cntDiffStrings /\ queue' = queue /\ ql' = ql /\ pc' = pc
    BY <2>1 DEF dictVars, input, build, counts
  <2>3. States' = States /\ Occurrences' = Occurrences
    BY <2>2, SameNodes, SameOccurrences
  <2>4. \A v : Holding(v, it - 1)' = Holding(v, it - 1)
    BY <2>2, SameHolding
  <2>5. \A x : InString(it, x)' <=> InString(it, x)
    BY <2>2, SameHolding
  <2>6. Range(StringStates(Strings[it]))' = Range(StringStates(Strings[it]))
    <3>1. \A x : StateOf(x)' = StateOf(x)
      BY <2>2, SameWords
    <3> QED BY <2>2, <3>1 DEF Range, StringStates, Strings
  <2>7. CountInv
    OBVIOUS
  <2> QED BY ONLY <2>2, <2>3, <2>4, <2>5, <2>6, <2>7 DEF CountInv, Null
<1> QED BY <1>1, <1>2

LEMMA DictCounted ==
    ASSUME BuildInv, Fed, QueueInv, CountInv, [DictNext]_dictVars
    PROVE  CountInv'
<1>1. CASE CountOccurred
  BY <1>1, CountStarts
<1>2. CASE WalkString \/ MarkLink \/ EndString
  BY <1>2, WalkCounted, MarkCounted, EndCounted
<1>3. CASE \/ AddTrainingData \/ Collect \/ SkipCandidate \/ TakeCandidate \/ Kill \/ EndKill \/ Output
           \/ UNCHANGED dictVars
  BY <1>3, RestCounted
<1> QED BY ONLY [DictNext]_dictVars, <1>1, <1>2, <1>3 DEF DictNext, DictDone
-----------------------------------------------------------------------------
(* A state other than the root ends within every string that holds a word of it,
   and the strings do not overlap. *)
LEMMA EndInString ==
    ASSUME Fed, added = Len(word), NEW at, Automaton(added, nodes, at), NEW ends, Laid(ends),
           NEW k \in 1..Len(Strings), NEW v \in States, v # Root, InString(k, v)
    PROVE  \E e \in EndsOf(at, v) : ends[k - 1] < e /\ e <= ends[k]
<1>1. PICK j \in 0..Len(Strings[k]) : \E l \in 0..j : at[ends[k - 1] + j][l] = v
  BY InStringPlaced
<1>2. PICK l \in 0..j : at[ends[k - 1] + j][l] = v
  BY <1>1
<1> DEFINE e == ends[k - 1] + j
<1>3. /\ ends[k - 1] \in Nat /\ ends[k] = ends[k - 1] + Len(Strings[k]) /\ Len(Strings[k]) \in Nat
  BY StringPlace
<1>4. e \in 0..added /\ l \in 0..e
  <2>1. /\ StateOf(SubSeq(Strings[k], (j - l) + 1, j)) = at[ends[k - 1] + j][l]
        /\ ends[k - 1] + j \in 0..added /\ l \in 0..ends[k - 1] + j
    BY PathPlace
  <2> QED BY <2>1
<1>5. e <= ends[k] /\ (j # 0 => ends[k - 1] < e) /\ (j = 0 => l = 0)
  BY <1>3
<1> HIDE DEF e
<1>6. at[e][l] = v
  BY <1>2 DEF e
<1>7. j # 0
  BY <1>4, <1>5, <1>6 DEF Automaton, StateThere
<1>8. LenOf(v) \in 0..e /\ e \in Nat
  <2>1. LenOf(v) \in l..e
    BY <1>4, <1>6, StateFacts DEF LenOf
  <2>2. added \in Nat /\ l \in Nat
    BY <1>4 DEF Automaton
  <2> QED BY <1>4, <2>1, <2>2
<1>9. at[e][LenOf(v)] = v
  BY <1>4, <1>6, LongestAt DEF LenOf
<1>10. e \in EndsOf(at, v)
  BY <1>4, <1>8, <1>9 DEF EndsOf, Place
<1> QED BY <1>5, <1>7, <1>10

LEMMA HoldingWithinEnds ==
    ASSUME Fed, added = Len(word), NEW at, Automaton(added, nodes, at), NEW v \in States, v # Root
    PROVE  Cardinality(Holding(v, Len(Strings))) <= Cardinality(EndsOf(at, v))
<1>1. PICK ends : Laid(ends)
  BY LaidOut
<1> DEFINE H == Holding(v, Len(Strings))
           E == EndsOf(at, v)
           f == [k \in H |-> CHOOSE e \in E : ends[k - 1] < e /\ e <= ends[k]]
<1>2. \A k \in H : f[k] \in E /\ ends[k - 1] < f[k] /\ f[k] <= ends[k] /\ k \in 1..Len(Strings)
  <2> SUFFICES ASSUME NEW k \in H
               PROVE  f[k] \in E /\ ends[k - 1] < f[k] /\ f[k] <= ends[k] /\ k \in 1..Len(Strings)
    OBVIOUS
  <2>1. k \in 1..Len(Strings) /\ InString(k, v)
    BY DEF Holding
  <2>2. \E e \in E : ends[k - 1] < e /\ e <= ends[k]
    BY <1>1, <2>1, EndInString
  <2> HIDE DEF E, H
  <2> QED BY <2>1, <2>2
<1>3. /\ \A k \in 0..Len(Strings) : ends[k] \in 0..Len(word) /\ k <= ends[k]
      /\ \A j \in 0..Len(Strings) : \A k \in j..Len(Strings) : ends[j] <= ends[k]
      /\ Len(word) \in Nat /\ Len(Strings) \in Nat \ {0} /\ word \in Seq({0, 1})
      /\ ends[Len(Strings)] = Len(word)
  BY <1>1, EndsGrow
<1>4. \A e \in E : e \in Nat
  BY <1>3 DEF EndsOf
<1>5. \A k \in 0..Len(Strings) : ends[k] \in Nat
  BY <1>3
<1> HIDE DEF f, E
<1>6. \A j, k \in H : j < k => f[j] < f[k]
  <2> SUFFICES ASSUME NEW j \in H, NEW k \in H, j < k PROVE f[j] < f[k]
    OBVIOUS
  <2>1. j \in 0..Len(Strings) /\ k - 1 \in j..Len(Strings) /\ k - 1 \in 0..Len(Strings)
    BY <1>2, <1>3
  <2>2. ends[j] <= ends[k - 1] /\ ends[j] \in Nat /\ ends[k - 1] \in Nat
    BY <1>3, <1>5, <2>1
  <2>3. f[j] <= ends[j] /\ ends[k - 1] < f[k] /\ f[j] \in Nat /\ f[k] \in Nat
    BY <1>2, <1>4
  <2> QED BY <2>2, <2>3
<1>7. f \in Injection(H, E)
  <2>1. f \in [H -> E]
    <3>1. f = [k \in H |-> f[k]]
      BY DEF f
    <3> QED BY <1>2, <3>1
  <2>2. \A j, k \in H : f[j] = f[k] => j = k
    <3> SUFFICES ASSUME NEW j \in H, NEW k \in H, f[j] = f[k] PROVE j = k
      OBVIOUS
    <3>1. j \in 1..Len(Strings) /\ k \in 1..Len(Strings) /\ f[j] \in Nat /\ f[k] \in Nat
      BY <1>2, <1>4
    <3>2. ~ (j < k) /\ ~ (k < j)
      BY <1>6, <3>1
    <3>3. Len(Strings) \in Nat
      BY <1>3
    <3> QED BY <3>1, <3>2, <3>3
  <2> QED BY <2>1, <2>2 DEF Injection, IsInjective
<1>8. IsFiniteSet(E)
  BY EndsOfFinite DEF E
<1> QED BY <1>7, <1>8, FS_Injection DEF E

LEMMA CountedFacts ==
    ASSUME BuildInv, Fed, QueueInv, CountInv, Counted, NEW v \in States, v # Root,
           NEW at, Automaton(added, nodes, at), last = at[added][added]
    PROVE  /\ cntOccured[v] = Cardinality(EndsOf(at, v))
           /\ cntDiffStrings[v] = Cardinality(Holding(v, Len(Strings)))
           /\ added = Len(word)
<1>1. pc = "walk" /\ it > Len(trainingStrings)
  BY DEF Counted
<1>2. it - 1 = Len(Strings)
  BY <1>1, FedFacts DEF QueueInv, Strings
<1>3. cntOccured = Occurrences /\ cntDiffStrings[v] = Cardinality(Holding(v, it - 1))
  BY <1>1 DEF CountInv
<1>4. Occurrences[v] = Tally(at, v)
  BY OccurrencesTally
<1> QED BY <1>1, <1>2, <1>3, <1>4 DEF Tally, Fed

LEMMA DiffChecksHold ==
    ASSUME BuildInv, Fed, QueueInv, CountInv, Counted
    PROVE  DiffChecks
<1>1. pc = "walk"
  BY DEF Counted
<1>2. PICK at : Labelled(at)
  BY <1>1, FedLabels
<1> SUFFICES ASSUME NEW v \in States, v # Root PROVE cntDiffStrings[v] <= cntOccured[v]
  BY DEF DiffChecks
<1>3. Automaton(added, nodes, at) /\ last = at[added][added]
  BY <1>2 DEF Labelled
<1>4. /\ cntOccured[v] = Cardinality(EndsOf(at, v))
      /\ cntDiffStrings[v] = Cardinality(Holding(v, Len(Strings)))
      /\ added = Len(word)
  BY <1>3, CountedFacts
<1> QED BY <1>3, <1>4, HoldingWithinEnds

(* Every state of the dictionary gets a word of its length back. *)
LEMMA RestoreChecksHold ==
    ASSUME BuildInv, Fed, QueueInv, ChoiceInv, pc = "choose"
    PROVE  RestoreChecks
<1>1. PICK at : Automaton(added, nodes, at)
  BY DEF BuildInv
<1> SUFFICES ASSUME NEW v \in dictV PROVE Before(v) # {} /\ Len(Longest[v]) = LenOf(v)
  BY DEF RestoreChecks
<1>2. v \in States
  BY DEF QueueInv
<1>3. LenOf(v) \in MinMatchLength..maxDictSize
  BY DEF ChoiceInv, Choosing
<1>4. v # Root
  <2>1. LenOf(Root) = 0
    BY <1>1, <1>2, RootShortest
  <2>2. MinMatchLength \in Nat /\ MinMatchLength >= 2
    BY FedFacts
  <2> QED BY <1>3, <2>1, <2>2
<1>5. PICK e : Place(at, v, e)
  BY <1>1, <1>2, PlaceThere
<1>6. Longest[v] = Piece(e, LenOf(v))
  BY <1>1, <1>2, <1>5, LongestIsPiece
<1>7. Len(Piece(e, LenOf(v))) = LenOf(v)
  <2>1. e \in 0..Len(word) /\ LenOf(v) \in 0..e /\ word \in Seq({0, 1})
    <3>1. word \in Seq({0, 1}) /\ added \in 0..Len(word)
      BY <1>1 DEF Automaton
    <3>2. Len(word) \in Nat
      BY <3>1, LenProperties
    <3> QED BY <1>5, <3>1, <3>2 DEF Place
  <2> QED BY <2>1, PieceFacts
<1> QED BY <1>1, <1>2, <1>4, <1>6, <1>7, BeforeThere

LEMMA DictChecksHold ==
    ASSUME BuildInv, Fed, QueueInv, CountInv, ChoiceInv
    PROVE  ChecksHold
<1>1. pc = "add" /\ added = Len(word) => CountChecks
  BY CountChecksHold
<1>2. pc = "walk" /\ ~ Counted => WalkChecks(StringStates(trainingStrings[it]))
  <2> SUFFICES ASSUME pc = "walk", ~ Counted PROVE WalkChecks(StringStates(trainingStrings[it]))
    OBVIOUS
  <2>1. it <= Len(trainingStrings)
    BY FedFacts DEF Counted, QueueInv
  <2> QED BY <2>1, WalkChecksHold
<1>3. Counted => DiffChecks
  BY DiffChecksHold
<1>4. pc = "choose" => sumLen <= maxDictSize /\ RestoreChecks /\ sumLen = TotalLen(dictV)
  <2> SUFFICES ASSUME pc = "choose"
               PROVE  sumLen <= maxDictSize /\ RestoreChecks /\ sumLen = TotalLen(dictV)
    OBVIOUS
  <2>1. sumLen \in 0..maxDictSize /\ sumLen = TotalLen(dictV)
    BY DEF ChoiceInv, Choosing
  <2>2. sumLen <= maxDictSize
    BY <2>1, FedFacts
  <2> QED BY <2>1, <2>2, RestoreChecksHold
<1> QED BY ONLY <1>1, <1>2, <1>3, <1>4 DEF ChecksHold

DictInv == BuildInv /\ Fed /\ QueueInv /\ Unchosen /\ CountInv /\ ChoiceInv

LEMMA DictInvStart ==
    ASSUME DictInit
    PROVE  DictInv
<1>1. CountInv
  BY DEF CountInv, DictInit, StartsEmpty
<1> QED BY <1>1, DictStart, QueueStart, ChosenStart DEF DictInv

LEMMA DictInvStays ==
    ASSUME DictInv, [DictNext]_dictVars
    PROVE  DictInv'
<1>1. BuildInv /\ Fed /\ QueueInv /\ Unchosen /\ CountInv /\ ChoiceInv
  BY DEF DictInv
<1>2. BuildInv' /\ Fed' /\ QueueInv' /\ Unchosen' /\ CountInv'
  BY <1>1, DictStays, DictQueued, UnchosenStays, DictCounted
<1>3. ChoiceInv'
  BY <1>1, <1>2, DictChosen
<1> QED BY <1>2, <1>3 DEF DictInv

(* No CHECK of build_dict fails, whatever the training strings: neither those on
   the automaton and the walks through it, nor the one that compares the two
   counts, nor those on the size of the output and the words that
   restore_longest_str_for_v gives back. *)
THEOREM DictionaryChecksHold == DictSpec => []ChecksHold
<1>1. DictInit => DictInv
  BY DictInvStart
<1>2. DictInv /\ [DictNext]_dictVars => DictInv'
  BY DictInvStays
<1>3. DictInv => ChecksHold
  BY DictChecksHold DEF DictInv
<1> QED BY <1>1, <1>2, <1>3, PTL DEF DictSpec
-----------------------------------------------------------------------------
(* What the counts say of the words. *)
LEMMA WordPlace ==
    ASSUME NEW at, Automaton(added, nodes, at), NEW v, NEW w \in WordsOf(v)
    PROVE  \E e \in 0..added : \E l \in 0..e : w = Piece(e, l) /\ at[e][l] = v /\ Len(w) = l
<1>1. w \in Words /\ StateOf(w) = v
  BY DEF WordsOf
<1>2. word \in Seq({0, 1}) /\ added \in 0..Len(word)
  BY DEF Automaton
<1>3. \E e \in 0..added : \E l \in 0..e : w = Piece(e, l)
  BY <1>1, <1>2, WordsArePieces
<1>4. PICK e \in 0..added : \E l \in 0..e : w = Piece(e, l)
  BY <1>3
<1>5. PICK l \in 0..e : w = Piece(e, l)
  BY <1>4
<1>6. StateOf(Piece(e, l)) = at[e][l]
  BY StateOfPiece
<1>7. Len(Piece(e, l)) = l
  <2>1. e \in 0..Len(word)
    BY <1>2, LenProperties
  <2> QED BY <1>2, <2>1, PieceFacts
<1> QED BY <1>1, <1>5, <1>6, <1>7

LEMMA EndsAreOfState ==
    ASSUME NEW at, Automaton(added, nodes, at), NEW v \in States, NEW w \in WordsOf(v)
    PROVE  Ends(w) = EndsOf(at, v)
<1>1. PICK e \in 0..added : \E l \in 0..e : w = Piece(e, l) /\ at[e][l] = v /\ Len(w) = l
  BY WordPlace
<1>2. PICK l \in 0..e : w = Piece(e, l) /\ at[e][l] = v /\ Len(w) = l
  BY <1>1
<1>3. word \in Seq({0, 1}) /\ added \in 0..Len(word) /\ added \in Nat /\ l \in Nat
  BY DEF Automaton
<1>4. \A f : f \in Ends(w) <=> f \in l..added /\ Same(f, e, l)
  <2> SUFFICES ASSUME NEW f PROVE f \in Ends(w) <=> f \in l..added /\ Same(f, e, l)
    OBVIOUS
  <2>1. f \in Ends(Piece(e, l)) <=> f \in l..added /\ Same(f, e, l)
    BY <1>3, EndsOfPiece
  <2> QED BY <1>2, <2>1
<1>5. LenOf(v) \in l..e
  BY <1>2, StateFacts DEF LenOf
<1>6. ASSUME NEW f \in l..added, Same(f, e, l) PROVE f \in EndsOf(at, v)
  <2>1. f \in 0..added /\ l \in 0..f /\ l <= e
    BY <1>3
  <2>2. at[f][l] = v
    BY <1>2, <1>6, <2>1 DEF Automaton, SameState
  <2>3. LenOf(v) \in l..f
    BY <2>1, <2>2, StateFacts DEF LenOf
  <2>4. at[f][LenOf(v)] = v
    BY <2>1, <2>2, LongestAt DEF LenOf
  <2>5. LenOf(v) \in 0..f
    BY <1>3, <2>1, <2>3
  <2> QED BY <2>1, <2>4, <2>5 DEF EndsOf, Place
<1>7. ASSUME NEW f \in EndsOf(at, v) PROVE f \in l..added /\ Same(f, e, l)
  <2>1. f \in 0..added /\ LenOf(v) \in 0..f /\ at[f][LenOf(v)] = v
    BY DEF EndsOf, Place
  <2>2. f \in l..added /\ l <= LenOf(v)
    BY <1>3, <1>5, <2>1
  <2>3. Same(e, f, l)
    <3>1. at[e][l] = at[f][LenOf(v)]
      BY <1>2, <2>1
    <3> QED BY <2>1, <2>2, <3>1 DEF Automaton, SuffixOfOther
  <2>4. Same(f, e, l)
    BY <1>3, <2>3, SameFacts
  <2> QED BY <2>2, <2>4
<1>8. \A f : f \in Ends(w) <=> f \in EndsOf(at, v)
  BY <1>4, <1>6, <1>7
<1> QED BY <1>8

LEMMA ShortestWithin ==
    ASSUME Fed, added = Len(word), NEW at, Automaton(added, nodes, at), NEW v \in States,
           NEW w \in WordsOf(v), \A x \in WordsOf(v) : Len(w) <= Len(x),
           NEW k \in 1..Len(Strings), InString(k, v)
    PROVE  Within(w, Strings[k])
<1>1. PICK e \in 0..added : \E l \in 0..e : w = Piece(e, l) /\ at[e][l] = v /\ Len(w) = l
  BY WordPlace
<1>2. PICK l \in 0..e : w = Piece(e, l) /\ at[e][l] = v /\ Len(w) = l
  BY <1>1
<1>3. word \in Seq({0, 1}) /\ added \in 0..Len(word) /\ added \in Nat /\ l \in Nat
  BY DEF Automaton
<1>4. PICK ends : Laid(ends)
  BY LaidOut
<1>5. PICK j \in 0..Len(Strings[k]) : \E m \in 0..j : at[ends[k - 1] + j][m] = v
  BY <1>4, InStringPlaced
<1>6. PICK m \in 0..j : at[ends[k - 1] + j][m] = v
  BY <1>5
<1> DEFINE f == ends[k - 1] + j
<1>7. f \in 0..added /\ m \in 0..f
  <2>1. /\ StateOf(SubSeq(Strings[k], (j - m) + 1, j)) = at[ends[k - 1] + j][m]
        /\ ends[k - 1] + j \in 0..added /\ m \in 0..ends[k - 1] + j
    BY <1>4, PathPlace
  <2> QED BY <2>1
<1>8. \A h \in 0..j : SubSeq(Strings[k], (j - h) + 1, j) = Piece(f, h)
  <2> SUFFICES ASSUME NEW h \in 0..j PROVE SubSeq(Strings[k], (j - h) + 1, j) = Piece(f, h)
    OBVIOUS
  <2>1. /\ SubSeq(Strings[k], (j - h) + 1, j) = Piece(ends[k - 1] + j, h)
        /\ ends[k - 1] + j \in 0..Len(word) /\ h \in 0..ends[k - 1] + j
    BY <1>4, StringPieces
  <2> QED BY <2>1
<1> HIDE DEF f
<1>9. at[f][m] = v
  BY <1>6 DEF f
<1>10. f \in 0..Len(word) /\ e \in 0..Len(word)
  BY <1>3, <1>7
<1>11. l <= m
  <2>1. Piece(f, m) \in Words
    BY <1>3, <1>7, WordsArePieces
  <2>2. StateOf(Piece(f, m)) = at[f][m]
    BY <1>7, StateOfPiece
  <2>3. Len(Piece(f, m)) = m
    BY <1>3, <1>7, <1>10, PieceFacts
  <2> QED BY <1>2, <1>9, <2>1, <2>2, <2>3 DEF WordsOf
<1>12. l \in 0..m /\ l \in 0..j /\ l \in 0..f /\ l \in l..m
  <2>1. Len(Strings[k]) \in Nat
    BY StringFacts
  <2> QED BY <1>3, <1>7, <1>11, <2>1
<1>13. Same(e, f, l)
  <2>1. at[e][l] = at[f][m]
    BY <1>2, <1>9
  <2> QED BY <1>7, <1>11, <2>1 DEF Automaton, SuffixOfOther
<1>14. Piece(e, l) = Piece(f, l)
  <2>1. l <= f
    BY <1>7, <1>12
  <2> QED BY <1>3, <1>10, <1>13, <2>1, PiecesSame
<1>15. w = SubSeq(Strings[k], (j - l) + 1, j)
  BY <1>2, <1>8, <1>12, <1>14
<1>16. Strings[k] \in Seq({0, 1})
  BY StringFacts
<1> QED BY <1>12, <1>15, <1>16, SubSeqsPlaced DEF Within

LEMMA WordsCounted ==
    ASSUME BuildInv, Fed, QueueInv, CountInv
    PROVE  CountsRight
<1> SUFFICES ASSUME Counted, NEW v \in States, v # Root, NEW w \in WordsOf(v)
             PROVE  /\ cntOccured[v] = Cardinality(Ends(w))
                    /\ (\A x \in WordsOf(v) : Len(w) <= Len(x)) =>
                          cntDiffStrings[v] = Cardinality(StringsWith(w))
  BY DEF CountsRight
<1>1. PICK at : Labelled(at)
  BY FedLabels DEF Counted
<1>2. Automaton(added, nodes, at) /\ last = at[added][added]
  BY <1>1 DEF Labelled
<1>3. /\ cntOccured[v] = Cardinality(EndsOf(at, v))
      /\ cntDiffStrings[v] = Cardinality(Holding(v, Len(Strings)))
      /\ added = Len(word)
  BY <1>2, CountedFacts
<1>4. cntOccured[v] = Cardinality(Ends(w))
  BY <1>2, <1>3, EndsAreOfState
<1>5. ASSUME \A x \in WordsOf(v) : Len(w) <= Len(x)
      PROVE  StringsWith(w) = Holding(v, Len(Strings))
  <2>1. DOMAIN trainingStrings = 1..Len(Strings)
    BY FedFacts, LenProperties DEF Strings
  <2>2. StateOf(w) = v
    BY DEF WordsOf
  <2>3. \A k \in 1..Len(Strings) : Within(w, Strings[k]) => InString(k, v)
    BY <2>2 DEF Within, InString
  <2>4. \A k \in 1..Len(Strings) : InString(k, v) => Within(w, Strings[k])
    <3> SUFFICES ASSUME NEW k \in 1..Len(Strings), InString(k, v) PROVE Within(w, Strings[k])
      OBVIOUS
    <3> QED BY <1>2, <1>3, <1>5, ShortestWithin
  <2>5. StringsWith(w) = {k \in 1..Len(Strings) : Within(w, Strings[k])}
    BY <2>1 DEF StringsWith, Strings
  <2> QED BY <2>3, <2>4, <2>5 DEF Holding
<1> QED BY <1>3, <1>4, <1>5

(* The counts that rank the candidates are those of the words: cnt_occured of a
   state is the number of places where its words end, and cnt_diff_strings the
   number of training strings that contain its shortest word, although one is
   summed along the transitions and the other marked along the links. *)
THEOREM CountsAreOfWords == DictSpec => []CountsRight
<1>1. DictInit => DictInv
  BY DictInvStart
<1>2. DictInv /\ [DictNext]_dictVars => DictInv'
  BY DictInvStays
<1>3. DictInv => CountsRight
  BY WordsCounted DEF DictInv
<1> QED BY <1>1, <1>2, <1>3, PTL DEF DictSpec
=============================================================================
