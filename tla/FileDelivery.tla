---------------------------- MODULE FileDelivery ----------------------------
(***************************************************************************)
(* What both approaches promise, without saying how: senders vouch for     *)
(* files they have read from end to end, and a final name only ever gets   *)
(* the whole of a file that has been vouched for by then.  TlsTransfer and *)
(* EnvelopeTransfer implement it.                                          *)
(***************************************************************************)
CONSTANTS
    None,               \* no file
    Outs,               \* the final names
    Versions            \* what the source holds, now or after an edit

VARIABLES
    offered,            \* what a sender vouched for: the bytes, and whether the
                        \* source was edited while the sender was reading it
    final               \* the file under each final name

Init ==
    /\ offered = {}
    /\ final = [o \in Outs |-> None]

\* A sender finishes reading.  What it has read under an editor's hands need
\* not be a version of the file; everything else it vouches for is.
Offer ==
    /\ \E x \in offered' :
         /\ offered' = offered \cup {x}
         /\ x.edited \/ x.bytes \in Versions
    /\ UNCHANGED final

\* A receiver promotes a file.
Deliver(o) ==
    /\ \E x \in offered : final' = [final EXCEPT ![o] = x.bytes]
    /\ UNCHANGED offered

Next == Offer \/ \E o \in Outs : Deliver(o)

Spec == Init /\ [][Next]_<<offered, final>>
=============================================================================
