----------------------------- MODULE MCByteCoder -----------------------------
(***************************************************************************)
(* Instances of ByteCoder: strings of up to five bytes, of which there are *)
(* four; the shortest code is 0, like the fill behind the mark, and the    *)
(* longest fills two bytes but for a bit.                                  *)
(***************************************************************************)
EXTENDS ByteCoder, TLC

LongCode(last) == [k \in 1..15 |-> IF k = 15 THEN last ELSE 1]
SmallCode ==
    (0 :> <<0>>) @@ (1 :> <<1, 0>>) @@ (2 :> LongCode(0)) @@ (3 :> LongCode(1))

SmallData == UNION {[1..n -> DOMAIN SmallCode] : n \in 1..5}
=============================================================================
