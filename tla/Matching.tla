------------------------------ MODULE Matching ------------------------------
(***************************************************************************)
(* Repetitions in a text.  Positions are counted from 0, as in the code; a *)
(* match is a pair of where an earlier occurrence starts and its length.   *)
(***************************************************************************)
EXTENDS Naturals, Sequences

(* The bits from x and from y agree over l bits; the two may overlap. *)
AgreeOver(s, x, y, l) ==
    y + l <= Len(s) /\ \A k \in 1..l : s[x + k] = s[y + k]

Matches(s, y, minLen) ==
    {m \in (0..y - 1) \X (minLen..Len(s) - y) : AgreeOver(s, m[1], y, m[2])}

(* The longest match, and of several the one that starts last. *)
IsBestMatch(s, y, minLen, m) ==
    /\ m \in Matches(s, y, minLen)
    /\ \A o \in Matches(s, y, minLen) : o[2] < m[2] \/ (o[2] = m[2] /\ o[1] <= m[1])
=============================================================================
