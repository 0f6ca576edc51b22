---------------------------- MODULE TokenChannel -----------------------------
(***************************************************************************)
(* What Encoder and Decoder assume of the stream between them: the tokens  *)
(* arrive one by one, in order and unchanged, and in the end all of them   *)
(* have arrived.                                                           *)
(***************************************************************************)
EXTENDS Naturals, Sequences

VARIABLES
    sent,
    received

vars == <<sent, received>>

Init == received = << >>

Receive ==
    /\ Len(received) < Len(sent)
    /\ received' = Append(received, sent[Len(received) + 1])
    /\ UNCHANGED sent

AllReceived == <>(received = sent)

Spec == Init /\ [][Receive]_vars /\ AllReceived
=============================================================================
