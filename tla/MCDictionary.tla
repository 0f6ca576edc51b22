---------------------------- MODULE MCDictionary -----------------------------
(***************************************************************************)
(* Instances of Dictionary: pairs and triples of short training strings,   *)
(* the first of which begins with 0, and triples in which one string is    *)
(* within the other two, so that a word is taken before a longer one that  *)
(* contains it.                                                            *)
(***************************************************************************)
EXTENDS Dictionary

Strings(k) == UNION {[1..j -> {0, 1}] : j \in 1..k}
Pairs == {t \in [1..2 -> Strings(4)] : t[1][1] = 0}
Triples == {t \in [1..3 -> Strings(3)] : t[1][1] = 0 /\ Len(t[2]) <= 2 /\ Len(t[1]) > 1}
Nested ==
    LET cores == {w \in [1..4 -> {0, 1}] : w[1] = 0}
    IN  {<<Append(w, c), w, Append(w, d)>> : w \in cores, c, d \in {0, 1}}
        \cup {<<w, <<c>> \o w, <<d>> \o w>> : w \in cores, c, d \in {0, 1}}
SmallTrainingSets == Pairs \cup Triples \cup Nested
=============================================================================
