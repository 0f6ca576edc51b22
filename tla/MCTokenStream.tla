---------------------------- MODULE MCTokenStream ----------------------------
(***************************************************************************)
(* Instances of TokenStream: numbers below, at and above each threshold,   *)
(* and at the multiples of the largest chunk above it.                     *)
(***************************************************************************)
EXTENDS TokenStream, TLC

SmallCode ==
    "literalLen" :> ((0 :> <<0>>) @@ (1 :> <<1, 0>>) @@ (2 :> <<1, 1>>))
    @@ "matchLen" :> ((0 :> <<1, 1, 1>>) @@ (1 :> <<1, 1, 0>>) @@ (2 :> <<1, 0>>) @@ (3 :> <<0>>))
    @@ "cellOffset" :> ((0 :> <<0>>) @@ (1 :> <<1, 1>>) @@ (2 :> <<1, 0>>))
    @@ "within" :> ((0 :> <<1, 0, 1>>) @@ (1 :> <<1, 0, 0>>) @@ (2 :> <<0>>) @@ (3 :> <<1, 1>>))

SmallChunk == ("literalLen" :> 2) @@ ("matchLen" :> 2) @@ ("within" :> 1)

Literals(lengths) == {[k \in 1..n |-> b] : n \in lengths, b \in Bit}

Tokens(literals, lens, offsets, withins) ==
    [literal : Literals(literals),
     match   : [len : lens, cellOffset : offsets, within : withins]]

Last(lengths) == {[literal |-> l, match |-> NoMatch] : l \in Literals(lengths)}

(* One token, its numbers over their whole range: thresholds 2, 3, 2 and 3,
   largest chunks 3, 3 and 1. *)
OneToken ==
    {[nCells |-> 6, tokens |-> <<t>>] :
        t \in Tokens({0, 1, 2, 4, 5, 8}, {2, 3, 5, 6, 9}, {0, 2, 5}, {1, 3, 4, 5})
                \cup Last({1, 2, 5, 7})}

(* Several, and a single cell or as many as there are symbols. *)
ManyTokens ==
    LET few == Tokens({0, 5}, {2, 6}, {0}, {1, 4})
        last == Last({1, 5})
    IN  {[nCells |-> 1, tokens |-> ts] :
            ts \in (few \X few) \cup (few \X last)}
        \cup {[nCells |-> 3, tokens |-> ts] :
            ts \in Tokens({0}, {3}, {0, 1, 2}, {0, 4}) \X Tokens({2}, {2}, {2}, {3}) \X last}

SmallStreams == OneToken \cup ManyTokens
=============================================================================
