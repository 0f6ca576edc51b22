----------------------------- MODULE SuffAutBase -----------------------------
(***************************************************************************)
(* SuffAutBase of suff_aut.hpp: the suffix automaton that SuffAut builds   *)
(* from the reversed text and Dictionary from its training strings, one    *)
(* character after another.                                                *)
(***************************************************************************)
EXTENDS Naturals, FiniteSets, SequencesExt

VARIABLES
    word,       \* the characters given to add_c, in this order
    added,      \* how many of them it has taken
    nodes,      \* nodes but for nodes[0], the null node: to, link and len
    last,       \* last
    p, q,       \* p and q of add_c
    pc          \* "add" between two characters, "fill" and "redirect" within add_c

build == <<added, nodes, last, p, q>>

Null == 0
Root == 1
NewNode == [to |-> [c \in {0, 1} |-> Null], link |-> Null, len |-> 0]

StartsEmpty ==
    /\ added = 0 /\ p = Null /\ q = Null
    /\ nodes = <<NewNode>> /\ last = Root
    /\ pc = "add"
-----------------------------------------------------------------------------
C == word[added + 1]

Add ==
    /\ pc = "add" /\ added < Len(word)
    /\ nodes' = Append(nodes, [NewNode EXCEPT !.len = nodes[last].len + 1])
    /\ last' = Len(nodes) + 1
    /\ p' = last
    /\ pc' = "fill"
    /\ UNCHANGED <<word, added, q>>

(* A turn of the first loop; cur is last from here on. *)
Fill ==
    /\ pc = "fill" /\ p # Null /\ nodes[p].to[C] = Null
    /\ nodes' = [nodes EXCEPT ![p].to[C] = last]
    /\ p' = nodes[p].link
    /\ UNCHANGED <<word, added, last, q, pc>>

LinkTo(v) ==
    /\ nodes' = [nodes EXCEPT ![last].link = v]
    /\ added' = added + 1
    /\ pc' = "add"
    /\ UNCHANGED <<word, last, p, q>>

LinkToRoot == pc = "fill" /\ p = Null /\ LinkTo(Root)

Target == nodes[p].to[C]
Continuous == nodes[Target].len = nodes[p].len + 1

LinkToTarget == pc = "fill" /\ p # Null /\ Target # Null /\ Continuous /\ LinkTo(Target)

(* Mutants: q keeps its link; a clone in any case. *)
CloneTargetKeepLink ==
    /\ pc = "fill" /\ p # Null /\ Target # Null /\ ~ Continuous
    /\ LET clone == Len(nodes) + 1
       IN  nodes' = Append([nodes EXCEPT ![last].link = clone],
                           [nodes[Target] EXCEPT !.len = nodes[p].len + 1])
    /\ q' = Target
    /\ pc' = "redirect"
    /\ UNCHANGED <<word, added, last, p>>

CloneTargetAlways ==
    /\ pc = "fill" /\ p # Null /\ Target # Null
    /\ LET clone == Len(nodes) + 1
       IN  nodes' = Append([nodes EXCEPT ![last].link = clone, ![Target].link = clone],
                           [nodes[Target] EXCEPT !.len = nodes[p].len + 1])
    /\ q' = Target
    /\ pc' = "redirect"
    /\ UNCHANGED <<word, added, last, p>>

CloneTarget ==
    /\ pc = "fill" /\ p # Null /\ Target # Null /\ ~ Continuous
    /\ LET clone == Len(nodes) + 1
       IN  nodes' = Append([nodes EXCEPT ![last].link = clone, ![Target].link = clone],
                           [nodes[Target] EXCEPT !.len = nodes[p].len + 1])
    /\ q' = Target
    /\ pc' = "redirect"
    /\ UNCHANGED <<word, added, last, p>>

(* A turn of the second loop; the clone is the newest node. *)
Redirect ==
    /\ pc = "redirect" /\ p # Null /\ Target = q
    /\ nodes' = [nodes EXCEPT ![p].to[C] = Len(nodes)]
    /\ p' = nodes[p].link
    /\ UNCHANGED <<word, added, last, q, pc>>

EndRedirect ==
    /\ pc = "redirect" /\ (p # Null => Target # q)
    /\ added' = added + 1
    /\ pc' = "add"
    /\ UNCHANGED <<word, nodes, last, p, q>>

AddCharacters ==
    Add \/ Fill \/ LinkToRoot \/ LinkToTarget \/ CloneTarget \/ Redirect \/ EndRedirect
-----------------------------------------------------------------------------
Down(v, c) == IF v = Null THEN Null ELSE nodes[v].to[c]
StateOf(w) ==
    LET run[k \in 0..Len(w)] == IF k = 0 THEN Root ELSE Down(run[k - 1], w[k])
    IN  run[Len(w)]

Read == SubSeq(word, 1, added)
Words == SubSeqs(Read)
Ends(w) == {e \in Len(w)..added : SubSeq(Read, e - Len(w) + 1, e) = w}

(* After each character the automaton is the one of what has been read so far: a
   word leads to a state when it occurs, two words to one state when they end at
   the same places, len is the longest of them, and the link leads to the
   longest of its suffixes that ends at more places. *)
AutomatonOfText ==
    pc = "add" =>
    LET ends == [w \in Words |-> Ends(w)]
        state == [w \in Words |-> StateOf(w)]
        OneMore(w) == {Append(w, c) : c \in {0, 1}}
    IN  /\ \A w \in Words : state[w] # Null /\ \A x \in OneMore(w) \ Words : StateOf(x) = Null
        /\ \A w, x \in Words : ends[w] = ends[x] <=> state[w] = state[x]
        /\ \A w \in Words :
            LET alike == {x \in Words : ends[x] = ends[w]}
                outer == {x \in Suffixes(w) : ends[x] # ends[w]}
            IN  /\ \E x \in alike : Len(x) = nodes[state[w]].len
                /\ \A x \in alike : Len(x) <= nodes[state[w]].len
                /\ \A x \in outer :
                    (\A y \in outer : Len(y) <= Len(x)) => nodes[state[w]].link = state[x]
=============================================================================
