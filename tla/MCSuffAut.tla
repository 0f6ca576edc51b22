------------------------------ MODULE MCSuffAut ------------------------------
(***************************************************************************)
(* Instances of SuffAut: every text of up to nine bits that begins with 0. *)
(***************************************************************************)
EXTENDS SuffAut

SmallTexts == {t \in UNION {[1..n -> {0, 1}] : n \in 1..9} : t[1] = 0}
=============================================================================
