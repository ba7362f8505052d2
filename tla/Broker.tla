------------------------------- MODULE Broker -------------------------------
(***************************************************************************)
(* The blob broker of Approach B (broker.py) when nobody tampers with it,  *)
(* and its retrying client (broker_client.py).                             *)
(*                                                                         *)
(* Every connection has a thread of its own; threads share the storage     *)
(* directory.  A file system name refers to an inode, and an open file     *)
(* descriptor keeps referring to its inode when the name is moved.  A blob *)
(* is written and read in two halves, so that a reader can come between.   *)
(* A client whose attempt fails drops the connection and tries again; the  *)
(* thread of the dropped connection still serves what it has received.     *)
(* Blobs lie in one directory per namespace, and LIST reads one directory  *)
(* after the other while other threads go on storing.                      *)
(***************************************************************************)
EXTENDS Naturals, Sequences, FiniteSets

CONSTANTS
    None, Dead,         \* no value; a socket whose other end is gone
    Clients, Writers,   \* the clients, and those of them that PUT
    Threads,            \* bound on the broker's connection threads
    Keys, Illegal,      \* blob keys, and those _safe_path rejects; none ends in
                        \* ".tmp", so no blob has a temporary file's name
    Namespace,          \* Namespace[k]: the place of k's namespace in their order
    Prefixes,           \* a prefix to LIST, as the set of the keys that start so
    Ops,                \* the commands the clients use
    Payload,            \* Payload[k]: the blobs put under key k
    MAX_ATTEMPTS,
    FailAfterPuts,      \* --fail-after-puts, 0 when not given
    Timeouts,           \* TRUE: an attempt may time out or lose its connection
    MaxCrashes          \* bound on the broker's crashes

VARIABLES
    blob, tmp,          \* inode of <path> and of <path>.tmp, per key
    content,            \* the halves of each inode
    up, puts,           \* the broker process; its _PUT_COUNT
    thread,             \* what each connection thread is doing
    inbox, outbox,      \* commands and replies on the connection of a thread
    client, call, attempt, sock,   \* _run() of each client
    acked,              \* history: the blob last acknowledged under a key
    crashes

storage == <<blob, tmp, content>>
broker  == <<up, puts, thread, inbox, outbox>>
clients == <<client, call, attempt, sock>>
vars    == <<storage, broker, clients, acked, crashes>>

\* One inode per name, and one per descriptor.
Inodes == 1..(2 * Cardinality(Keys) + Cardinality(Threads))

Blobs == UNION {Payload[k] : k \in Keys}
Commands == [op : Ops \cap {"PUT"}, arg : Keys, data : Blobs]
               \cup [op : Ops \cap {"GET", "STAT"}, arg : Keys, data : {None}]
               \cup [op : Ops \cap {"LIST"}, arg : Prefixes, data : {None}]

\* What is known of a LIST that is under way.
Listings == [status : {"LISTING"}, left : SUBSET {Namespace[k] : k \in Keys},
             data : SUBSET Keys]

\* None and Dead are nothing else.
ASSUME BrokerAssumption ==
    /\ Ops \subseteq {"PUT", "GET", "STAT", "LIST"}
    /\ Writers \subseteq Clients /\ Illegal \subseteq Keys
    /\ Namespace \in [Keys -> Nat] /\ Prefixes \subseteq SUBSET Keys
    /\ None \notin Threads \cup Inodes \cup Blobs \cup Commands \cup Listings \cup {Dead}
    /\ Dead \notin Threads
    /\ IsFiniteSet(Threads) /\ IsFiniteSet(Keys)
    /\ MAX_ATTEMPTS \in Nat \ {0}
    /\ FailAfterPuts \in Nat /\ MaxCrashes \in Nat
    /\ Timeouts \in BOOLEAN

Halves == 1..2
Whole(b) == [i \in Halves |-> b]
Blank == [i \in Halves |-> None]

\* A thread and what it holds: the command, an open file, what it has read of
\* it, and of a LIST the namespaces still to be listed and the keys found.
Task(at, cmd, fd, left) ==
    [at |-> at, cmd |-> cmd, fd |-> fd, got |-> Blank, left |-> left, found |-> {}]
Idle == Task("free", None, None, {})

\* Nothing is stored, and perhaps nobody has started the broker yet.
Init ==
    /\ blob = [k \in Keys |-> None] /\ tmp = [k \in Keys |-> None]
    /\ content = [n \in Inodes |-> Blank]
    /\ up \in BOOLEAN /\ puts = 0
    /\ thread = [t \in Threads |-> Idle]
    /\ inbox = [t \in Threads |-> <<>>] /\ outbox = [t \in Threads |-> <<>>]
    /\ client = [c \in Clients |-> "idle"]
    /\ call = [c \in Clients |-> None]
    /\ attempt = [c \in Clients |-> 0]
    /\ sock = [c \in Clients |-> None]
    /\ acked = [k \in Keys |-> None]
    /\ crashes = 0

-----------------------------------------------------------------------------
\* The client.  put(), get(), stat() or list() is called.
Call(c, cmd) ==
    /\ client[c] = "idle"
    /\ cmd.op = "PUT" => c \in Writers /\ cmd.data \in Payload[cmd.arg]
    /\ client' = [client EXCEPT ![c] = "try"]
    /\ call' = [call EXCEPT ![c] = cmd]
    /\ attempt' = [attempt EXCEPT ![c] = 1]
    /\ acked' = IF cmd.op = "PUT" THEN [acked EXCEPT ![cmd.arg] = None] ELSE acked
    /\ UNCHANGED <<storage, broker, sock, crashes>>

\* _connect() if there is no connection, then send_fn(): a new connection is
\* served by a new thread.
Send(c) ==
    /\ client[c] = "try" /\ up
    /\ \E t \in Threads :
         /\ \/ sock[c] = None /\ thread[t].at = "free"
            \/ sock[c] = t
         /\ sock' = [sock EXCEPT ![c] = t]
         /\ thread' = IF sock[c] = None THEN [thread EXCEPT ![t].at = "recv"] ELSE thread
         /\ inbox' = [inbox EXCEPT ![t] = Append(@, call[c])]
    /\ client' = [client EXCEPT ![c] = "wait"]
    /\ UNCHANGED <<storage, up, puts, outbox, call, attempt, acked, crashes>>

\* Mutant: the connection is kept after an error.
Failed_KeepsSocket(c) ==
    /\ sock' = [sock EXCEPT ![c] = IF @ = Dead THEN None ELSE @]
    /\ IF attempt[c] < MAX_ATTEMPTS
       THEN /\ client' = [client EXCEPT ![c] = "try"]
            /\ attempt' = [attempt EXCEPT ![c] = @ + 1]
            /\ call' = call
       ELSE /\ client' = [client EXCEPT ![c] = "idle"]
            /\ attempt' = [attempt EXCEPT ![c] = 0]
            /\ call' = [call EXCEPT ![c] = None]

\* Mutant: the attempts are not counted.
Failed_Unbounded(c) ==
    /\ sock' = [sock EXCEPT ![c] = None]
    /\ client' = [client EXCEPT ![c] = "try"]
    /\ UNCHANGED <<attempt, call>>

\* The attempt failed: _drop(), then try again or raise BrokerError.
Failed(c) ==
    /\ sock' = [sock EXCEPT ![c] = None]
    /\ IF attempt[c] < MAX_ATTEMPTS
       THEN /\ client' = [client EXCEPT ![c] = "try"]
            /\ attempt' = [attempt EXCEPT ![c] = @ + 1]
            /\ call' = call
       ELSE /\ client' = [client EXCEPT ![c] = "idle"]
            /\ attempt' = [attempt EXCEPT ![c] = 0]
            /\ call' = [call EXCEPT ![c] = None]

\* Connection refused, or reset by a broker that is gone.
Refused(c) ==
    /\ \/ client[c] = "try" /\ sock[c] = None /\ ~ up
       \/ client[c] \in {"try", "wait"} /\ sock[c] = Dead
    /\ Failed(c)
    /\ UNCHANGED <<storage, broker, acked, crashes>>

\* The attempt times out or its connection is lost.  A command the thread
\* has not read yet may have arrived in full or not.
TimesOut(c) ==
    /\ Timeouts
    /\ client[c] = "wait" /\ sock[c] \in Threads
    /\ Failed(c)
    /\ inbox' \in {inbox, [inbox EXCEPT ![sock[c]] = <<>>]}
    /\ UNCHANGED <<storage, up, puts, thread, outbox, acked, crashes>>

\* parse_fn() reads the reply and the call returns, or raises on "ERR".
Return(c) ==
    /\ client[c] = "wait" /\ sock[c] \in Threads
    /\ outbox[sock[c]] # <<>>
    /\ outbox' = [outbox EXCEPT ![sock[c]] = Tail(@)]
    /\ acked' = IF call[c].op = "PUT" /\ Head(outbox[sock[c]]).status = "OK"
                THEN [acked EXCEPT ![call[c].arg] = call[c].data] ELSE acked
    /\ client' = [client EXCEPT ![c] = "idle"]
    /\ call' = [call EXCEPT ![c] = None]
    /\ attempt' = [attempt EXCEPT ![c] = 0]
    /\ UNCHANGED <<storage, up, puts, thread, inbox, sock, crashes>>

-----------------------------------------------------------------------------
\* The broker.
Connected(t) == \E c \in Clients : sock[c] = t

\* send_frame: what is sent to a client that has gone is lost.
Reply(t, status, data, cmd) ==
    outbox' = IF Connected(t)
              THEN [outbox EXCEPT ![t] =
                        Append(@, [status |-> status, data |-> data, to |-> cmd])]
              ELSE outbox

Goto(t, label) == thread' = [thread EXCEPT ![t].at = label]

\* os.path.getsize, as the halves of the file that are there.
Size(f) == [i \in Halves |-> f[i] # None]

\* os.listdir(storage_root): a namespace has a directory from the first open()
\* of a temporary file in it, which follows makedirs at once.
Made == {Namespace[k] : k \in {j \in Keys : blob[j] # None \/ tmp[j] # None}}

\* Mutant: the names of temporary files are not left out.
Listing_Temporary(n, prefix) ==
    {k \in Keys : Namespace[k] = n /\ k \in prefix /\ (blob[k] # None \/ tmp[k] # None)}

\* os.listdir(ns_dir): the names that start with the prefix, without those that
\* end in .tmp.
Listing(n, prefix) == {k \in Keys : Namespace[k] = n /\ k \in prefix /\ blob[k] # None}

\* _handle_command gets a command.  The blob of a PUT always follows it and
\* is read with it, also when its key is rejected; GET opens the file, LIST
\* looks up which namespaces there are, the other commands answer at once.
Recv(t) ==
    LET cmd == Head(inbox[t])
        isfile == cmd.arg \notin Illegal /\ blob[cmd.arg] # None IN
    /\ thread[t].at = "recv" /\ inbox[t] # <<>>
    /\ inbox' = [inbox EXCEPT ![t] = Tail(@)]
    /\ \/ /\ cmd.op = "PUT" /\ cmd.arg \in Illegal
          /\ Reply(t, "ERR", None, cmd)
          /\ thread' = thread
       \/ /\ cmd.op = "PUT" /\ cmd.arg \notin Illegal
          /\ thread' = [thread EXCEPT ![t].at = "open", ![t].cmd = cmd]
          /\ outbox' = outbox
       \/ /\ cmd.op = "GET" /\ isfile
          /\ thread' = [thread EXCEPT ![t] = Task("read1", cmd, blob[cmd.arg], {})]
          /\ outbox' = outbox
       \/ /\ cmd.op \in {"GET", "STAT"} /\ ~ isfile
          /\ Reply(t, "MISSING", None, cmd)
          /\ thread' = thread
       \/ /\ cmd.op = "STAT" /\ isfile
          /\ Reply(t, "OK", Size(content[blob[cmd.arg]]), cmd)
          /\ thread' = thread
       \/ /\ cmd.op = "LIST"
          /\ thread' = [thread EXCEPT ![t] = Task("list", cmd, None, Made)]
          /\ outbox' = outbox
    /\ UNCHANGED <<storage, up, puts, clients, acked, crashes>>

Unused == {n \in Inodes : \A k \in Keys : blob[k] # n /\ tmp[k] # n}
              \ {thread[t].fd : t \in Threads}

\* Mutant: the blob is written in place, under its final name.
OpenTmp_InPlace(t) ==
    LET k == thread[t].cmd.arg
        n == IF blob[k] = None THEN CHOOSE m \in Unused : TRUE
                               ELSE blob[k] IN
    /\ thread[t].at = "open"
    /\ tmp' = [tmp EXCEPT ![k] = n]
    /\ blob' = [blob EXCEPT ![k] = n]
    /\ content' = [content EXCEPT ![n] = Blank]
    /\ thread' = [thread EXCEPT ![t].at = "write1", ![t].fd = n]
    /\ UNCHANGED <<up, puts, inbox, outbox, clients, acked, crashes>>

\* open(tmp, "wb"): a new inode, or the one that is there, truncated -- also
\* when another thread is writing to it.
OpenTmp(t) ==
    LET k == thread[t].cmd.arg
        n == IF tmp[k] = None THEN CHOOSE m \in Unused : TRUE
                              ELSE tmp[k] IN
    /\ thread[t].at = "open"
    /\ tmp' = [tmp EXCEPT ![k] = n]
    /\ content' = [content EXCEPT ![n] = Blank]
    /\ thread' = [thread EXCEPT ![t].at = "write1", ![t].fd = n]
    /\ UNCHANGED <<blob, up, puts, inbox, outbox, clients, acked, crashes>>

\* Mutant: a short write goes unnoticed.
Write_Short(t) ==
    /\ thread[t].at = "write1"
    /\ content' = [content EXCEPT ![thread[t].fd][1] = thread[t].cmd.data]
    /\ Goto(t, "replace")
    /\ UNCHANGED <<blob, tmp, up, puts, inbox, outbox, clients, acked, crashes>>

\* f.write(data), flush and fsync: each half at its own offset of the inode.
Write(t) ==
    /\ \/ /\ thread[t].at = "write1"
          /\ content' = [content EXCEPT ![thread[t].fd][1] = thread[t].cmd.data]
          /\ Goto(t, "write2")
       \/ /\ thread[t].at = "write2"
          /\ content' = [content EXCEPT ![thread[t].fd][2] = thread[t].cmd.data]
          /\ Goto(t, "replace")
    /\ UNCHANGED <<blob, tmp, up, puts, inbox, outbox, clients, acked, crashes>>

\* os.replace(tmp, path) moves whatever inode tmp names by now; when another
\* thread has moved it away the exception closes the connection.
Replace(t) ==
    LET k == thread[t].cmd.arg IN
    /\ thread[t].at = "replace"
    /\ \/ /\ tmp[k] # None
          /\ blob' = [blob EXCEPT ![k] = tmp[k]]
          /\ tmp' = [tmp EXCEPT ![k] = None]
          /\ thread' = [thread EXCEPT ![t].at = "count", ![t].fd = None]
          /\ UNCHANGED <<inbox, outbox, sock>>
       \/ /\ tmp[k] = None
          /\ thread' = [thread EXCEPT ![t] = Idle]
          /\ inbox' = [inbox EXCEPT ![t] = <<>>]
          /\ outbox' = [outbox EXCEPT ![t] = <<>>]
          /\ sock' = [c \in Clients |-> IF sock[c] = t THEN Dead ELSE sock[c]]
          /\ UNCHANGED <<blob, tmp>>
    /\ UNCHANGED <<content, up, puts, client, call, attempt, acked, crashes>>

\* Mutant: a client that waits keeps a connection to nobody.
Dies_Silently ==
    /\ up' = FALSE /\ puts' = 0
    /\ thread' = [t \in Threads |-> Idle]
    /\ inbox' = [t \in Threads |-> <<>>] /\ outbox' = [t \in Threads |-> <<>>]
    /\ sock' = sock

\* The process ends: every connection is reset, the files stay as they are.
Dies ==
    /\ up' = FALSE /\ puts' = 0
    /\ thread' = [t \in Threads |-> Idle]
    /\ inbox' = [t \in Threads |-> <<>>] /\ outbox' = [t \in Threads |-> <<>>]
    /\ sock' = [c \in Clients |-> IF sock[c] = None THEN None ELSE Dead]

\* The PUT is counted under the lock, then acknowledged -- or the broker
\* exits, with the blob stored and no reply.
CountPut(t) ==
    LET n == IF FailAfterPuts = 0 THEN 0 ELSE puts + 1 IN
    /\ thread[t].at = "count"
    /\ \/ /\ FailAfterPuts # 0 /\ n >= FailAfterPuts
          /\ Dies
       \/ /\ FailAfterPuts = 0 \/ n < FailAfterPuts
          /\ puts' = n
          /\ Reply(t, "OK", None, thread[t].cmd)
          /\ thread' = [thread EXCEPT ![t] = [Idle EXCEPT !.at = "recv"]]
          /\ UNCHANGED <<up, inbox, sock>>
    /\ UNCHANGED <<storage, client, call, attempt, acked, crashes>>

\* f.read() of the inode opened, then the reply.
Read(t) ==
    /\ \/ /\ thread[t].at = "read1"
          /\ thread' = [thread EXCEPT ![t].at = "read2",
                                      ![t].got[1] = content[thread[t].fd][1]]
          /\ outbox' = outbox
       \/ /\ thread[t].at = "read2"
          /\ Reply(t, "OK", [thread[t].got EXCEPT ![2] = content[thread[t].fd][2]],
                   thread[t].cmd)
          /\ thread' = [thread EXCEPT ![t] = [Idle EXCEPT !.at = "recv"]]
    /\ UNCHANGED <<storage, up, puts, inbox, clients, acked, crashes>>

\* LIST reads the directory of the next namespace, in their order, and replies
\* when it has read them all.
List(t) ==
    /\ thread[t].at = "list"
    /\ \/ \E n \in thread[t].left :
             /\ \A m \in thread[t].left : n <= m
             /\ thread' = [thread EXCEPT ![t].left = @ \ {n},
                             ![t].found = @ \cup Listing(n, thread[t].cmd.arg)]
             /\ outbox' = outbox
       \/ /\ thread[t].left = {}
          /\ Reply(t, "OK", thread[t].found, thread[t].cmd)
          /\ thread' = [thread EXCEPT ![t] = [Idle EXCEPT !.at = "recv"]]
    /\ UNCHANGED <<storage, up, puts, inbox, clients, acked, crashes>>

\* recv_frame raises ConnectionError: the client is gone, the thread ends.
Hangup(t) ==
    /\ thread[t].at = "recv" /\ inbox[t] = <<>> /\ ~ Connected(t)
    /\ thread' = [thread EXCEPT ![t] = Idle]
    /\ outbox' = [outbox EXCEPT ![t] = <<>>]
    /\ UNCHANGED <<storage, up, puts, inbox, clients, acked, crashes>>

Crash ==
    /\ up /\ crashes < MaxCrashes
    /\ Dies
    /\ crashes' = crashes + 1
    /\ UNCHANGED <<storage, client, call, attempt, acked>>

Restart ==
    /\ ~ up
    /\ up' = TRUE
    /\ UNCHANGED <<storage, puts, thread, inbox, outbox, clients, acked, crashes>>

-----------------------------------------------------------------------------
Run(c) == Send(c) \/ Refused(c) \/ TimesOut(c) \/ Return(c)
Serve(t) == \/ Recv(t) \/ OpenTmp(t) \/ Write(t) \/ Replace(t)
            \/ CountPut(t) \/ Read(t) \/ List(t) \/ Hangup(t)

Next ==
    \/ \E c \in Clients : Run(c) \/ \E cmd \in Commands : Call(c, cmd)
    \/ \E t \in Threads : Serve(t)
    \/ Crash \/ Restart

Spec == Init /\ [][Next]_vars

\* A client that is running takes its next step and so does every thread;
\* nobody has to call, to restart the broker or to break a connection.
Fairness ==
    /\ \A c \in Clients : WF_vars(Send(c) \/ Refused(c)) /\ WF_vars(Return(c))
    /\ \A t \in Threads : WF_vars(Serve(t))

FairSpec == Spec /\ Fairness

-----------------------------------------------------------------------------
\* Files, threads and connections have their shape; a thread that is not
\* serving has no connection.
TypeOK ==
    /\ blob \in [Keys -> Inodes \cup {None}] /\ tmp \in [Keys -> Inodes \cup {None}]
    /\ \A k \in Illegal : blob[k] = None /\ tmp[k] = None
    /\ up \in BOOLEAN /\ puts \in 0..FailAfterPuts
    /\ \A t \in Threads :
         /\ thread[t].at \in {"free", "recv", "open", "write1", "write2", "replace",
                              "count", "read1", "read2", "list"}
         /\ thread[t].at \in {"write1", "write2", "replace", "read1", "read2"}
               => thread[t].fd \in Inodes
         /\ thread[t].at = "free" => ~ Connected(t) /\ inbox[t] = <<>> /\ outbox[t] = <<>>
    /\ \A c \in Clients :
         /\ client[c] \in {"idle", "try", "wait"}
         /\ sock[c] \in Threads \cup {None, Dead}
         /\ client[c] # "idle" => call[c] \in Commands
         /\ attempt[c] \in 0..MAX_ATTEMPTS
    /\ crashes \in 0..MaxCrashes

\* "atomic: a GET never sees a half-written blob": the answer to a GET is the
\* whole of one blob that was put under its key.
GetSeesWholeBlobs ==
    \A t \in Threads : \A i \in DOMAIN outbox[t] :
        outbox[t][i].to.op = "GET" /\ outbox[t][i].status = "OK"
            => \E b \in Payload[outbox[t][i].to.arg] : outbox[t][i].data = Whole(b)

\* However PUTs of the same blob overlap, a file is left half-written only as
\* long as some thread is still writing to that very inode.
TornOnlyWhileWriting ==
    \A k \in Keys : blob[k] # None =>
        \/ \E b \in Payload[k] : content[blob[k]] = Whole(b)
        \/ \E t \in Threads : /\ thread[t].fd = blob[k]
                              /\ thread[t].at \in {"write1", "write2"}

\* A blob whose PUT was acknowledged stays stored, whole, until the next PUT
\* under its key is called -- through crashes of the broker, too.
AckedIsStored ==
    \A k \in Keys : acked[k] # None => /\ blob[k] # None
                                       /\ content[blob[k]] = Whole(acked[k])

\* The reply a client reads is the reply to the call it is in, however often
\* it had to give up on a connection before.
RepliesMatch ==
    \A c \in Clients :
        client[c] = "wait" /\ sock[c] \in Threads /\ outbox[sock[c]] # <<>>
            => Head(outbox[sock[c]]).to = call[c]

\* The store of whole blobs that the files and the threads implement: a PUT
\* takes effect when its file is renamed, a GET when the file is opened, a LIST
\* when each directory is read, and a reply is settled from then on.
Blob(f) == IF f[1] = f[2] THEN f[1] ELSE f
Stored == [k \in Keys |-> IF blob[k] = None THEN None ELSE Blob(content[blob[k]])]
Said(m) ==
    [status |-> m.status,
     data |-> CASE m.to.op = "GET" /\ m.status = "OK" -> Blob(m.data)
                [] m.to.op = "LIST" -> m.data
                [] OTHER -> None]
Settled(t) ==
    CASE outbox[t] # <<>> -> Said(Head(outbox[t]))
      [] outbox[t] = <<>> /\ thread[t].at = "count" -> [status |-> "OK", data |-> None]
      [] outbox[t] = <<>> /\ thread[t].at \in {"read1", "read2"} ->
            [status |-> "OK", data |-> Blob(content[thread[t].fd])]
      [] outbox[t] = <<>> /\ thread[t].at = "list" ->
            [status |-> "LISTING", left |-> thread[t].left, data |-> thread[t].found]
      [] OTHER -> None

\* While nothing times out the broker is a store of whole blobs: a PUT, GET or
\* STAT takes effect at one moment and a LIST at one moment per namespace,
\* however the threads interleave and wherever the broker dies.
Store == INSTANCE BlobStore WITH
            store <- Stored, pending <- call,
            answer <- [c \in Clients |->
                          IF sock[c] \in Threads THEN Settled(sock[c]) ELSE None]
ImplementsStore == Store!Spec

\* Every call returns or raises: attempts are bounded and every attempt ends.
CallsEnd == \A c \in Clients : client[c] # "idle" ~> client[c] = "idle"
=============================================================================
