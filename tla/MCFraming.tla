------------------------------ MODULE MCFraming ------------------------------
(* Instances of Framing for TLC: bits for bytes, blocks of two.             *)
EXTENDS Framing

\* The end marker, and a payload whose flipped length is that of the marker.
Frames == [d \in Directions |-> IF d = "c2s" THEN {<<>>, <<1>>} ELSE {<<1>>}]
Few == [d \in Directions |-> IF d = "c2s" THEN 2 ELSE 1]

\* Flipped in the first length and in the second, cut in a length and in the
\* middle of the second frame.
Tampering ==
    {[mode |-> "pass", at |-> 0, direction |-> "c2s"],
     [mode |-> "flip", at |-> 1, direction |-> "c2s"],
     [mode |-> "flip", at |-> 3, direction |-> "c2s"],
     [mode |-> "truncate", at |-> 4, direction |-> "c2s"],
     [mode |-> "truncate", at |-> 1, direction |-> "s2c"]}
=============================================================================
