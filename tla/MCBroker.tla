------------------------------ MODULE MCBroker ------------------------------
(* Instances of Broker for TLC: up to two clients and three keys.          *)
EXTENDS Broker, TLC

CONSTANTS w, r, k1, k2, bad, b1, b2, h1, h2, h3

\* Under "bad" nothing can be stored.
TwoBlobs == (k1 :> {b1, b2}) @@ (k2 :> {b1})
OneBlob  == (k1 :> {b1}) @@ (bad :> {b1})

\* k2 is in the second of two namespaces, the other keys in the first.
Places == [k \in Keys |-> IF k = k2 THEN 2 ELSE 1]

\* LIST "" and the LIST of one namespace.
AllOrOne == {Keys, Keys \ {k2}}

\* The state without the numbers of its inodes: an inode is what is in it and
\* who refers to it, and one that nobody refers to is nothing.
Inode(n) ==
    IF n = None THEN None
    ELSE <<content[n], {k \in Keys : blob[k] = n}, {k \in Keys : tmp[k] = n},
           {t \in Threads : thread[t].fd = n}>>
Numberless ==
    <<[k \in Keys |-> Inode(blob[k])], [k \in Keys |-> Inode(tmp[k])],
      [t \in Threads |-> [thread[t] EXCEPT !.fd = Inode(@)]],
      up, puts, inbox, outbox, clients, acked, crashes>>
=============================================================================
