---------------------------- MODULE FieldTransfer ----------------------------
(***************************************************************************)
(* What the codec promises, without bits, tokens or an order: the fields   *)
(* of a block become known at the other end, each once and with the value  *)
(* it was sent with, and in the end all of them are.                       *)
(***************************************************************************)
VARIABLES
    sent,       \* field -> value, for the fields of the block
    got         \* field -> value, for those the receiver knows

vars == <<sent, got>>

Init == DOMAIN got = {}

(* Some more fields become known; what is known stays as it is. *)
Learn ==
    /\ UNCHANGED sent
    /\ DOMAIN got' \subseteq DOMAIN sent
    /\ \A f \in DOMAIN got' : got'[f] = sent[f]
    /\ \A f \in DOMAIN got : f \in DOMAIN got' /\ got'[f] = got[f]

(* In the end everything that was sent is known. *)
AllKnown == <>(got = sent)

Spec == Init /\ [][Learn]_vars /\ AllKnown
=============================================================================
