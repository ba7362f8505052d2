------------------------------ MODULE MCSender ------------------------------
(* Instances of EnvelopeSender for TLC: files of no, one, two chunks.      *)
EXTENDS EnvelopeSender

A == [i \in 0..1 |-> <<"a", i>>]
B == [i \in 0..0 |-> <<"b", i>>]
C == [i \in 0..1 |-> <<"c", i>>]

OfOtherSize == {A, B, [i \in {} |-> None]}
OfSameSize  == {A, C}
=============================================================================
