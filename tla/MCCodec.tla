------------------------------- MODULE MCCodec -------------------------------
(***************************************************************************)
(* Instances of Codec: all blocks of up to three cells in the order of     *)
(* apply_order, with the data among a few bit strings.                     *)
(***************************************************************************)
EXTENDS Codec, SequencesExt

(* Prefix codes with the real trees' shape: the likely symbols are short.  The
   symbol 8 is a special cell without references. *)
SmallD1Code ==
    (0 :> <<1, 1, 0>>) @@ (1 :> <<1, 0>>) @@ (2 :> <<0>>) @@ (8 :> <<1, 1, 1>>)
SmallSizeCode ==
    (0 :> <<1, 1>>) @@ (1 :> <<1, 0, 0>>) @@ (3 :> <<1, 0, 1>>) @@ (2 :> <<0>>)

DataChoices == {<< >>, <<1>>, <<0, 1>>, <<1, 1, 0>>}

Cell(refLists) == [refs : refLists, special : {0}, data : DataChoices]
Leaf ==
    [refs : {<< >>}, special : {0}, data : DataChoices]
        \cup [refs : {<< >>}, special : {1}, data : {<<0, 1>>, <<1, 1, 0>>}]

(* Every cell but the last is referred to. *)
AllReferred(b) ==
    \A c \in DOMAIN b : c + 1 \in DOMAIN b =>
        \E p \in DOMAIN b : \E j \in DOMAIN b[p].refs : b[p].refs[j] = c

FromZero(s) == [c \in 0..Len(s) - 1 |-> s[c + 1]]

SmallBlocks ==
    {FromZero(s) : s \in
        {<<x>> : x \in Leaf}
        \cup {<<x, y>> : x \in Leaf, y \in Cell({<<0>>, <<0, 0>>})}
        \cup {s \in {<<x, y, z>> : x \in Leaf, y \in Cell({<< >>, <<0>>}),
                                   z \in Cell({<<1>>, <<1, 0>>, <<0, 1>>, <<1, 1>>})} :
                AllReferred(FromZero(s))}}
=============================================================================
