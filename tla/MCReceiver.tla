----------------------------- MODULE MCReceiver -----------------------------
(* Instances of EnvelopeReceiver for TLC: a few short transfers.           *)
EXTENDS EnvelopeReceiver

CONSTANTS t1, t2

Transfer(t, e, file) == [transfer_id |-> t, ephemeral |-> e, file |-> file]

One   == {Transfer(t1, "e1", [i \in 0..1 |-> <<"a", i>>])}
Two   == One \cup {Transfer(t2, "e2", [i \in 0..0 |-> <<"b", i>>])}
Uneven == {Transfer(t1, "e1", [i \in 0..2 |-> <<"a", i>>]), Transfer(t2, "e2", EmptyFile)}
Impostor  == {Transfer(t1, "e9", [i \in 0..1 |-> <<"x", i>>])}
Nobody == {}

\* Around the edges of a window of 2 with a skew of 1.
EdgeAges == {-2, -1, 0, 2, 3}
Fresh == {0}
=============================================================================
