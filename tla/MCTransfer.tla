----------------------------- MODULE MCTransfer -----------------------------
(* Instances of EnvelopeTransfer for TLC: two versions of a file.          *)
EXTENDS EnvelopeTransfer

\* Of the same size: a state file made for one is taken for the other.
A == [i \in 0..1 |-> <<"a", i>>]
B == [i \in 0..1 |-> <<"b", i>>]
Rewritten == {A, B}
=============================================================================
