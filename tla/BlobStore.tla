----------------------------- MODULE BlobStore ------------------------------
(***************************************************************************)
(* What the broker promises its clients as long as nothing times out: a    *)
(* store of whole blobs.  A PUT, GET or STAT takes effect, and its reply   *)
(* is what the store holds, at one moment between call and return.  A LIST *)
(* is no snapshot of the store: it sees each namespace at one such moment, *)
(* one after the other, while blobs are stored.  A call that fails, or is  *)
(* retried, may take effect all the same, and more than once.              *)
(***************************************************************************)
EXTENDS Naturals

CONSTANTS None, Clients, Keys, Illegal, Namespace, Commands

VARIABLES
    store,              \* the blob under each key
    pending,            \* the call each client is in
    answer              \* the reply it will get, once it is settled; of a LIST,
                        \* before that, what it has found and what is left

Init ==
    /\ store = [k \in Keys |-> None]
    /\ pending = [c \in Clients |-> None]
    /\ answer = [c \in Clients |-> None]

\* The reply to a command while the store is s.
Reply(cmd, s) ==
    IF cmd.arg \in Illegal /\ cmd.op = "PUT" THEN [status |-> "ERR", data |-> None]
    ELSE IF cmd.op = "PUT" THEN [status |-> "OK", data |-> None]
    ELSE IF s[cmd.arg] = None THEN [status |-> "MISSING", data |-> None]
    ELSE [status |-> "OK", data |-> IF cmd.op = "GET" THEN s[cmd.arg] ELSE None]

Stores(cmd) == cmd.op = "PUT" /\ cmd.arg \notin Illegal

Call(c) ==
    /\ pending[c] = None
    /\ \E cmd \in Commands : pending' = [pending EXCEPT ![c] = cmd]
    /\ UNCHANGED <<store, answer>>

\* The call takes effect and its answer is settled.
Settle(c) ==
    /\ pending[c] # None /\ pending[c].op # "LIST" /\ answer[c] = None
    /\ store' = IF Stores(pending[c]) THEN [store EXCEPT ![pending[c].arg] = pending[c].data]
                ELSE store
    /\ answer' = [answer EXCEPT ![c] = Reply(pending[c], store')]
    /\ UNCHANGED pending

\* A LIST sets out; namespaces in which nothing is stored may be left out.
List(c) ==
    /\ pending[c] # None /\ pending[c].op = "LIST" /\ answer[c] = None
    /\ \E left \in SUBSET {Namespace[k] : k \in Keys} :
         /\ \A k \in Keys : store[k] # None => Namespace[k] \in left
         /\ answer' = [answer EXCEPT ![c] =
                          [status |-> "LISTING", left |-> left, data |-> {}]]
    /\ UNCHANGED <<store, pending>>

\* It sees what the first namespace that is left holds under its prefix.
See(c) ==
    /\ answer[c] # None /\ answer[c].status = "LISTING"
    /\ \E n \in answer[c].left :
         /\ \A m \in answer[c].left : n <= m
         /\ answer' = [answer EXCEPT ![c] =
               [status |-> "LISTING",
                left |-> @.left \ {n},
                data |-> @.data \cup {k \in Keys : /\ Namespace[k] = n
                                                   /\ k \in pending[c].arg
                                                   /\ store[k] # None}]]
    /\ UNCHANGED <<store, pending>>

\* It has seen them all.
Listed(c) ==
    /\ answer[c] # None /\ answer[c].status = "LISTING" /\ answer[c].left = {}
    /\ answer' = [answer EXCEPT ![c] = [status |-> "OK", data |-> @.data]]
    /\ UNCHANGED <<store, pending>>

\* The broker dies: no client gets the answer it was about to get, and each
\* call may take effect again.
Lose ==
    /\ answer' = [c \in Clients |-> None]
    /\ UNCHANGED <<store, pending>>

\* The call returns its answer, or raises BrokerError without one.
Return(c) ==
    /\ pending[c] # None
    /\ pending' = [pending EXCEPT ![c] = None]
    /\ answer' = [answer EXCEPT ![c] = None]
    /\ UNCHANGED store

Next ==
    \/ Lose
    \/ \E c \in Clients : Call(c) \/ Settle(c) \/ List(c) \/ See(c) \/ Listed(c) \/ Return(c)

Spec == Init /\ [][Next]_<<store, pending, answer>>
=============================================================================
