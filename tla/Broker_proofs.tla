---------------------------- MODULE Broker_proofs ----------------------------
(***************************************************************************)
(* Proofs about Broker, for any number of clients, threads, keys and       *)
(* blobs, any bound on the attempts and any number of crashes.             *)
(***************************************************************************)
EXTENDS Broker, FiniteSetTheorems, TLAPS

\* What a client can ask for.
Requests == {cmd \in Commands : cmd.op = "PUT" => cmd.data \in Payload[cmd.arg]}

\* The namespaces of keys.
Spaces == {Namespace[k] : k \in Keys}

Places == {"free", "recv", "open", "write1", "write2", "replace", "count", "read1", "read2",
           "list"}
\* Where a thread has a file open, and where it serves a PUT, a GET or a LIST.
HasFile == {"write1", "write2", "replace", "read1", "read2"}
Putting == {"open", "write1", "write2", "replace", "count"}
Getting == {"read1", "read2"}
Serving == Putting \cup Getting \cup {"list"}

FilesTyped ==
    /\ blob \in [Keys -> Inodes \cup {None}]
    /\ tmp \in [Keys -> Inodes \cup {None}]
    /\ \A k \in Illegal : blob[k] = None /\ tmp[k] = None
    /\ content \in [Inodes -> [Halves -> Blobs \cup {None}]]

ThreadOK(t) ==
    /\ thread[t] \in [at : Places, cmd : Requests \cup {None}, fd : Inodes \cup {None},
                      got : [Halves -> Blobs \cup {None}],
                      left : SUBSET Spaces, found : SUBSET Keys]
    /\ IF thread[t].at \in HasFile THEN thread[t].fd \in Inodes ELSE thread[t].fd = None
    /\ thread[t].at \in Putting => /\ thread[t].cmd \in Requests
                                   /\ thread[t].cmd.op = "PUT"
                                   /\ thread[t].cmd.arg \notin Illegal
    /\ thread[t].at \in Getting => /\ thread[t].cmd \in Requests
                                   /\ thread[t].cmd.op = "GET"
    /\ thread[t].at = "list" => /\ thread[t].cmd \in Requests
                                /\ thread[t].cmd.op = "LIST"

ThreadsTyped == thread = [t \in Threads |-> thread[t]] /\ \A t \in Threads : ThreadOK(t)

\* At most one command or one reply is on a connection, and none while its
\* thread is busy.
LineOK(t) ==
    /\ inbox[t] = <<>> \/ \E cmd \in Requests : inbox[t] = <<cmd>>
    /\ outbox[t] = <<>> \/ outbox[t] = <<Head(outbox[t])>>
    /\ inbox[t] # <<>> => thread[t].at = "recv" /\ outbox[t] = <<>>
    /\ outbox[t] # <<>> => thread[t].at = "recv"

LinesTyped ==
    /\ inbox = [t \in Threads |-> inbox[t]] /\ outbox = [t \in Threads |-> outbox[t]]
    /\ \A t \in Threads : LineOK(t)

ClientsTyped ==
    /\ client \in [Clients -> {"idle", "try", "wait"}]
    /\ DOMAIN call = Clients
    /\ attempt \in [Clients -> 0..MAX_ATTEMPTS]
    /\ sock \in [Clients -> Threads \cup {None, Dead}]
    /\ \A c \in Clients :
         IF client[c] = "idle" THEN call[c] = None
         ELSE call[c] \in Requests /\ attempt[c] >= 1

BrokerTyped ==
    /\ up \in BOOLEAN /\ puts \in 0..FailAfterPuts /\ crashes \in 0..MaxCrashes
    /\ DOMAIN acked = Keys

\* Clients have connections of their own; where a call has got to: it is on
\* the line, it is being served, or it is answered.
Arrived(c)  == /\ inbox[sock[c]] = <<call[c]>>
               /\ outbox[sock[c]] = <<>>
Served(c)   == /\ thread[sock[c]].at \in Serving
               /\ thread[sock[c]].cmd = call[c]
               /\ inbox[sock[c]] = <<>> /\ outbox[sock[c]] = <<>>
Answered(c) == /\ inbox[sock[c]] = <<>> /\ outbox[sock[c]] # <<>>
               /\ Head(outbox[sock[c]]).to = call[c]

Quiet(c) == /\ thread[sock[c]].at = "recv"
            /\ inbox[sock[c]] = <<>> /\ outbox[sock[c]] = <<>>

ClientOK(c) ==
    IF client[c] = "wait" THEN Arrived(c) \/ Served(c) \/ Answered(c) ELSE Quiet(c)

Conversation ==
    /\ \A c, d \in Clients : sock[c] \in Threads /\ sock[c] = sock[d] => c = d
    /\ \A c \in Clients : sock[c] \in Threads => ClientOK(c)

Shape == FilesTyped /\ ThreadsTyped /\ LinesTyped /\ ClientsTyped /\ BrokerTyped /\ Conversation

-----------------------------------------------------------------------------
(* Type correctness.                                                       *)

\* There is an inode left for a temporary file that has to be created: what is
\* in use is at most one per name and one per thread, and t has none open.
LEMMA SomeUnused ==
    ASSUME FilesTyped, ThreadsTyped, NEW t \in Threads, thread[t].fd = None
    PROVE  Unused # {}
<1> DEFINE B == {blob[k] : k \in Keys}
           M == {tmp[k] : k \in Keys}
           Others == Threads \ {t}
           F == {thread[u].fd : u \in Others}
           K == Cardinality(Keys)
           T == Cardinality(Threads)
<1> USE BrokerAssumption
<1>1. IsFiniteSet(B) /\ Cardinality(B) <= K
  <2>1. blob \in Surjection(Keys, B)
    BY DEF FilesTyped, Surjection
  <2> QED BY <2>1, FS_Surjection
<1>2. IsFiniteSet(M) /\ Cardinality(M) <= K
  <2>1. tmp \in Surjection(Keys, M)
    BY DEF FilesTyped, Surjection
  <2> QED BY <2>1, FS_Surjection
<1>3. IsFiniteSet(Others) /\ Cardinality(Others) = T - 1
  BY FS_RemoveElement
<1>4. IsFiniteSet(F) /\ Cardinality(F) <= T - 1
  <2>1. [u \in Others |-> thread[u].fd] \in Surjection(Others, F)
    BY DEF Surjection
  <2> QED BY <2>1, <1>3, FS_Surjection
<1>5. K \in Nat /\ T \in Nat
  BY FS_CardinalityType
<1>6. /\ IsFiniteSet(Inodes) /\ Cardinality(Inodes) = 2 * K + T
  <2>1. Inodes = 1..(2 * K + T)
    BY DEF Inodes
  <2>2. 2 * K + T \in Nat
    BY <1>5
  <2> HIDE DEF K, T
  <2>3. \A n \in Nat : IsFiniteSet(1..n) /\ Cardinality(1..n) = n
    BY FS_Interval
  <2> QED BY <2>1, <2>2, <2>3
<1>7. /\ IsFiniteSet(B \cup M) /\ Cardinality(B \cup M) <= 2 * K
  <2>1. IsFiniteSet(B \cap M)
    BY <1>1, FS_Subset
  <2>2. Cardinality(B) \in Nat /\ Cardinality(M) \in Nat /\ Cardinality(B \cap M) \in Nat
    BY <1>1, <1>2, <2>1, FS_CardinalityType
  <2>3. /\ IsFiniteSet(B \cup M)
        /\ Cardinality(B \cup M) = Cardinality(B) + Cardinality(M) - Cardinality(B \cap M)
    BY <1>1, <1>2, FS_Union
  <2> QED BY <2>2, <2>3, <1>1, <1>2, <1>5
<1>8. /\ IsFiniteSet(B \cup M \cup F) /\ Cardinality(B \cup M \cup F) < 2 * K + T
  <2> DEFINE BM == B \cup M
  <2> HIDE DEF B, M
  <2>1. IsFiniteSet(BM \cap F)
    BY <1>7, FS_Subset
  <2>2. Cardinality(BM) \in Nat /\ Cardinality(F) \in Nat /\ Cardinality(BM \cap F) \in Nat
    BY <1>7, <1>4, <2>1, FS_CardinalityType
  <2>3. /\ IsFiniteSet(BM \cup F)
        /\ Cardinality(BM \cup F) = Cardinality(BM) + Cardinality(F) - Cardinality(BM \cap F)
    BY <1>7, <1>4, FS_Union
  <2> QED BY <2>2, <2>3, <1>7, <1>4, <1>5
<1>9. ~ (Inodes \subseteq B \cup M \cup F)
  <2> SUFFICES ASSUME Inodes \subseteq B \cup M \cup F PROVE FALSE
    OBVIOUS
  <2> HIDE DEF B, M, F
  <2>1. Cardinality(Inodes) <= Cardinality(B \cup M \cup F)
    BY <1>8, FS_Subset
  <2>2. Cardinality(B \cup M \cup F) \in Nat
    BY <1>8, FS_CardinalityType
  <2> QED BY <2>1, <2>2, <1>5, <1>6, <1>8
<1>10. PICK n \in Inodes : n \notin B \cup M \cup F
  BY <1>9
<1>11. \A k \in Keys : blob[k] # n /\ tmp[k] # n
  BY <1>10
<1>12. \A u \in Threads : thread[u].fd # n
  BY <1>10
<1> QED BY <1>11, <1>12 DEF Unused

LEMMA RequestShape ==
    \A cmd \in Requests :
        /\ cmd \in Commands /\ cmd # None
        /\ cmd = [op |-> cmd.op, arg |-> cmd.arg, data |-> cmd.data]
        /\ cmd.op \in {"PUT", "GET", "STAT", "LIST"}
        /\ cmd.op # "LIST" => cmd.arg \in Keys
        /\ cmd.op = "LIST" => cmd.arg \in SUBSET Keys
        /\ cmd.op = "PUT" => cmd.data \in Payload[cmd.arg] /\ cmd.data \in Blobs
BY BrokerAssumption DEF Requests, Commands

LEMMA InitShape == Init => Shape
<1> SUFFICES ASSUME Init PROVE Shape
  OBVIOUS
<1> USE BrokerAssumption DEF Init
<1>1. FilesTyped
  BY DEF FilesTyped, Blank
<1>2. ThreadsTyped
  BY DEF ThreadsTyped, ThreadOK, Idle, Task, Places, HasFile, Putting, Getting, Serving, Blank
<1>3. LinesTyped
  BY DEF LinesTyped, LineOK
<1>4. ClientsTyped
  BY DEF ClientsTyped
<1>5. BrokerTyped
  BY DEF BrokerTyped
<1>6. Conversation
  BY DEF Conversation
<1> QED BY <1>1, <1>2, <1>3, <1>4, <1>5, <1>6 DEF Shape

LEMMA FilesStep ==
    ASSUME Shape, Next
    PROVE  FilesTyped'
<1> USE BrokerAssumption DEF Shape, FilesTyped
<1>1. ASSUME NEW t \in Threads, OpenTmp(t) PROVE FilesTyped'
  <2>1. /\ thread[t].fd = None
        /\ thread[t].cmd.arg \in Keys \ Illegal
    BY <1>1, RequestShape DEF ThreadsTyped, ThreadOK, OpenTmp, HasFile, Putting
  <2>2. (CHOOSE m \in Unused : TRUE) \in Inodes
    BY <2>1, SomeUnused DEF Unused
  <2>3. Blank \in [Halves -> Blobs \cup {None}]
    BY DEF Blank
  <2> QED BY <1>1, <2>1, <2>2, <2>3 DEF OpenTmp
<1>2. ASSUME NEW t \in Threads, Write(t) PROVE FilesTyped'
  <2>1. /\ thread[t].fd \in Inodes /\ thread[t].cmd.data \in Blobs
    BY <1>2, RequestShape DEF ThreadsTyped, ThreadOK, Write, HasFile, Putting
  <2> QED BY <1>2, <2>1 DEF Write, Halves
<1>3. ASSUME NEW t \in Threads, Replace(t) PROVE FilesTyped'
  <2>1. thread[t].cmd.arg \in Keys \ Illegal
    BY <1>3, RequestShape DEF ThreadsTyped, ThreadOK, Replace, Putting
  <2> QED BY <1>3, <2>1 DEF Replace
<1>4. UNCHANGED storage => FilesTyped'
  BY DEF storage
<1> QED
  BY <1>1, <1>2, <1>3, <1>4
     DEF Next, Run, Serve, Call, Send, Refused, TimesOut, Return, Recv, CountPut, Read,
         List, Hangup, Crash, Restart

\* A step that does not concern a client and its connection.
LEMMA Unconcerned ==
    ASSUME NEW c \in Clients, ClientOK(c),
           client'[c] = client[c], call'[c] = call[c], sock'[c] = sock[c],
           thread'[sock[c]] = thread[sock[c]],
           inbox'[sock[c]] = inbox[sock[c]], outbox'[sock[c]] = outbox[sock[c]]
    PROVE  ClientOK(c)'
<1>1. Arrived(c) => Arrived(c)'
  BY DEF Arrived
<1>2. Served(c) => Served(c)'
  BY DEF Served
<1>3. Answered(c) => Answered(c)'
  BY DEF Answered
<1>4. Quiet(c) => Quiet(c)'
  BY DEF Quiet
<1> QED BY <1>1, <1>2, <1>3, <1>4 DEF ClientOK

\* A step that only concerns thread t and its connection.
LEMMA ServeFrame ==
    ASSUME Shape, NEW t \in Threads,
           thread' = [u \in Threads |-> IF u = t THEN thread'[u] ELSE thread[u]],
           inbox' = [u \in Threads |-> IF u = t THEN inbox'[u] ELSE inbox[u]],
           outbox' = [u \in Threads |-> IF u = t THEN outbox'[u] ELSE outbox[u]],
           UNCHANGED clients,
           ThreadOK(t)', LineOK(t)',
           \A c \in Clients : sock[c] = t => ClientOK(c)'
    PROVE  ThreadsTyped' /\ LinesTyped' /\ ClientsTyped' /\ Conversation'
<1> USE DEF clients
<1>1. ThreadsTyped'
  <2>1. \A u \in Threads \ {t} : thread'[u] = thread[u]
    OBVIOUS
  <2> QED BY <2>1 DEF Shape, ThreadsTyped, ThreadOK
<1>2. LinesTyped'
  <2>1. \A u \in Threads \ {t} : /\ thread'[u] = thread[u] /\ inbox'[u] = inbox[u]
                                 /\ outbox'[u] = outbox[u]
    OBVIOUS
  <2>2. \A u \in Threads \ {t} : LineOK(u)'
    BY <2>1 DEF Shape, LinesTyped, LineOK
  <2> QED BY <2>2 DEF LinesTyped
<1>3. ClientsTyped'
  BY DEF Shape, ClientsTyped
<1>4. Conversation'
  <2>1. \A u \in Threads \ {t} : /\ thread'[u] = thread[u] /\ inbox'[u] = inbox[u]
                                 /\ outbox'[u] = outbox[u]
    OBVIOUS
  <2>2. \A c \in Clients : sock[c] \in Threads \ {t} => ClientOK(c)'
    BY <2>1, Unconcerned DEF Shape, Conversation
  <2> QED BY <2>2 DEF Shape, Conversation
<1> QED BY <1>1, <1>2, <1>3, <1>4

LEMMA ReplyShape ==
    ASSUME Shape, NEW t \in Threads, outbox[t] = <<>>,
           NEW status, NEW data, NEW cmd, Reply(t, status, data, cmd)
    PROVE  /\ outbox' = [u \in Threads |-> IF u = t THEN outbox'[u] ELSE outbox[u]]
           /\ outbox'[t] = IF Connected(t) THEN <<[status |-> status, data |-> data, to |-> cmd]>>
                                           ELSE <<>>
<1>1. Append(<<>>, [status |-> status, data |-> data, to |-> cmd])
        = <<[status |-> status, data |-> data, to |-> cmd]>>
  OBVIOUS
<1> QED BY <1>1 DEF Shape, LinesTyped, Reply
\* A thread that is not serving has no connection.
LEMMA FreeIsAlone ==
    ASSUME Shape, NEW t \in Threads, thread[t].at = "free"
    PROVE  inbox[t] = <<>> /\ outbox[t] = <<>> /\ ~ Connected(t)
<1>1. inbox[t] = <<>> /\ outbox[t] = <<>>
  BY DEF Shape, LinesTyped, LineOK
<1>2. ASSUME NEW c \in Clients, sock[c] = t PROVE FALSE
  <2>1. ClientOK(c)
    BY <1>2 DEF Shape, Conversation
  <2>2. thread[t].at # "recv" /\ thread[t].at \notin Serving
    BY DEF Putting, Getting, Serving
  <2> QED BY <1>1, <1>2, <2>1, <2>2 DEF ClientOK, Arrived, Served, Answered, Quiet
<1> QED BY <1>1, <1>2 DEF Connected

LEMMA CallShape ==
    ASSUME Shape, NEW c \in Clients, NEW cmd \in Commands, Call(c, cmd)
    PROVE  ThreadsTyped' /\ LinesTyped' /\ ClientsTyped' /\ BrokerTyped' /\ Conversation'
<1> USE BrokerAssumption DEF Call, broker
<1>1. cmd \in Requests /\ cmd # None
  BY RequestShape DEF Requests
<1>2. ThreadsTyped'
  BY DEF Shape, ThreadsTyped, ThreadOK
<1>3. LinesTyped'
  BY DEF Shape, LinesTyped, LineOK
<1>4. ClientsTyped'
  BY <1>1 DEF Shape, ClientsTyped
<1>5. BrokerTyped'
  BY <1>1 DEF Shape, BrokerTyped
<1>6. Conversation'
  BY DEF Shape, Conversation, ClientsTyped, ClientOK, Arrived, Served, Answered, Quiet
<1> QED BY <1>2, <1>3, <1>4, <1>5, <1>6

LEMMA SendShape ==
    ASSUME Shape, NEW c \in Clients, Send(c)
    PROVE  ThreadsTyped' /\ LinesTyped' /\ ClientsTyped' /\ BrokerTyped' /\ Conversation'
<1> USE BrokerAssumption
<1>1. PICK t \in Threads :
        /\ \/ sock[c] = None /\ thread[t].at = "free"
           \/ sock[c] = t
        /\ sock' = [sock EXCEPT ![c] = t]
        /\ thread' = IF sock[c] = None THEN [thread EXCEPT ![t].at = "recv"] ELSE thread
        /\ inbox' = [inbox EXCEPT ![t] = Append(@, call[c])]
  BY DEF Send
<1>2. inbox[t] = <<>> /\ outbox[t] = <<>> /\ (\A d \in Clients : sock[d] = t => d = c)
  <2>1. CASE thread[t].at = "free"
    BY <2>1, FreeIsAlone DEF Connected
  <2>2. CASE sock[c] = t
    BY <2>2 DEF Send, Shape, Conversation, ClientOK, Quiet
  <2> QED BY <1>1, <2>1, <2>2
<1>3. call[c] \in Requests /\ attempt[c] >= 1 /\ client[c] = "try"
  BY DEF Send, Shape, ClientsTyped
<1>4. Append(<<>>, call[c]) = <<call[c]>> /\ <<call[c]>> # <<>>
  OBVIOUS
<1>5. /\ inbox' = [u \in Threads |-> IF u = t THEN <<call[c]>> ELSE inbox[u]]
      /\ outbox' = outbox
  BY <1>1, <1>2, <1>4 DEF Send, Shape, LinesTyped
<1>6. ThreadOK(t)' /\ thread'[t].at = "recv"
  <2>1. CASE sock[c] = None
    <3>1. thread[t].at = "free" /\ thread' = [thread EXCEPT ![t].at = "recv"]
      BY <2>1, <1>1 DEF Shape, ClientsTyped
    <3>2. ThreadOK(t)
      BY DEF Shape, ThreadsTyped
    <3>3. thread'[t] = [at |-> "recv", cmd |-> thread[t].cmd, fd |-> thread[t].fd,
                        got |-> thread[t].got,
                    left |-> thread[t].left, found |-> thread[t].found]
      BY <3>1, <3>2 DEF ThreadOK, Shape, ThreadsTyped
    <3> QED BY <3>1, <3>2, <3>3 DEF ThreadOK, Places, HasFile, Putting, Getting, Serving
  <2>2. CASE sock[c] = t
    <3>1. thread' = thread
      BY <2>2, <1>1
    <3> QED BY <3>1, <2>2, <1>3 DEF Shape, ThreadsTyped, ThreadOK, Conversation, ClientOK, Quiet
  <2> QED BY <1>1, <2>1, <2>2
<1>7. thread' = [u \in Threads |-> IF u = t THEN thread'[u] ELSE thread[u]]
  BY <1>1 DEF Shape, ThreadsTyped
<1>8. ThreadsTyped'
  <2>1. \A u \in Threads \ {t} : thread'[u] = thread[u]
    BY <1>7
  <2> QED BY <2>1, <1>6, <1>7 DEF Shape, ThreadsTyped, ThreadOK
<1>9. LinesTyped'
  <2>1. \A u \in Threads \ {t} : /\ thread'[u] = thread[u] /\ inbox'[u] = inbox[u]
                                 /\ outbox'[u] = outbox[u]
    BY <1>5, <1>7
  <2>2. \A u \in Threads \ {t} : LineOK(u)'
    BY <2>1 DEF Shape, LinesTyped, LineOK
  <2>3. LineOK(t)'
    BY <1>2, <1>3, <1>5, <1>6 DEF LineOK
  <2> QED BY <1>5, <2>2, <2>3 DEF Shape, LinesTyped
<1>10. ClientsTyped'
  BY <1>1, <1>3 DEF Send, Shape, ClientsTyped
<1>11. BrokerTyped'
  BY DEF Send, Shape, BrokerTyped
<1>12. Conversation'
  <2>1. DOMAIN sock = Clients /\ sock'[c] = t /\ \A d \in Clients \ {c} : sock'[d] = sock[d]
    BY <1>1 DEF Shape, ClientsTyped
  <2>2. DOMAIN client = Clients /\ client'[c] = "wait"
        /\ \A d \in Clients \ {c} : client'[d] = client[d]
    BY DEF Send, Shape, ClientsTyped
  <2>3. ClientOK(c)'
    BY <2>1, <2>2, <1>2, <1>5 DEF ClientOK, Arrived, Send
  <2>4. ASSUME NEW d \in Clients \ {c}, sock[d] \in Threads PROVE ClientOK(d)'
    <3>1. sock[d] # t
      BY <1>2, <2>4
    <3>2. /\ thread'[sock[d]] = thread[sock[d]] /\ inbox'[sock[d]] = inbox[sock[d]]
          /\ outbox' = outbox
      BY <3>1, <2>4, <1>5, <1>7
    <3>3. ClientOK(d) /\ sock'[d] = sock[d] /\ client'[d] = client[d] /\ call'[d] = call[d]
      BY <2>1, <2>2, <2>4 DEF Send, Shape, Conversation
    <3> QED BY <3>2, <3>3, Unconcerned
  <2> QED BY <1>2, <2>1, <2>3, <2>4 DEF Shape, Conversation
<1> QED BY <1>8, <1>9, <1>10, <1>11, <1>12

\* An attempt that failed: the client has no connection any more.
LEMMA FailedShape ==
    ASSUME Shape, NEW c \in Clients, client[c] # "idle", Failed(c),
           UNCHANGED <<thread, outbox, up, puts, crashes, acked>>,
           \A t \in Threads : sock[c] # t => inbox'[t] = inbox[t],
           inbox' = [t \in Threads |-> inbox'[t]],
           \A t \in Threads : inbox'[t] \in {inbox[t], <<>>}
    PROVE  ThreadsTyped' /\ LinesTyped' /\ ClientsTyped' /\ BrokerTyped' /\ Conversation'
<1> USE BrokerAssumption
<1>1. ThreadsTyped'
  BY DEF Shape, ThreadsTyped, ThreadOK
<1>2. LinesTyped'
  <2>1. \A t \in Threads : LineOK(t)'
    BY DEF Shape, LinesTyped, LineOK
  <2> QED BY <2>1 DEF Shape, LinesTyped
<1>3. ClientsTyped'
  <2>1. attempt[c] \in 0..MAX_ATTEMPTS /\ attempt[c] >= 1 /\ call[c] \in Requests
    BY DEF Shape, ClientsTyped
  <2>2. sock' \in [Clients -> Threads \cup {None, Dead}]
    BY DEF Shape, ClientsTyped, Failed
  <2>3. CASE attempt[c] < MAX_ATTEMPTS
    <3>1. attempt[c] + 1 \in 1..MAX_ATTEMPTS
      BY <2>1, <2>3
    <3>2. /\ attempt' = [attempt EXCEPT ![c] = attempt[c] + 1]
          /\ client' = [client EXCEPT ![c] = "try"] /\ call' = call
      BY <2>3 DEF Failed
    <3>3. attempt' \in [Clients -> 0..MAX_ATTEMPTS] /\ attempt'[c] >= 1
      BY <3>1, <3>2 DEF Shape, ClientsTyped
    <3>4. \A d \in Clients \ {c} : attempt'[d] = attempt[d]
      BY <3>2 DEF Shape, ClientsTyped
    <3> QED BY <2>1, <2>2, <3>2, <3>3, <3>4 DEF Shape, ClientsTyped
  <2>4. CASE ~ (attempt[c] < MAX_ATTEMPTS)
    <3>1. /\ attempt' = [attempt EXCEPT ![c] = 0]
          /\ client' = [client EXCEPT ![c] = "idle"] /\ call' = [call EXCEPT ![c] = None]
      BY <2>4 DEF Failed
    <3>2. attempt' \in [Clients -> 0..MAX_ATTEMPTS]
      BY <3>1 DEF Shape, ClientsTyped
    <3>3. \A d \in Clients \ {c} : attempt'[d] = attempt[d]
      BY <3>1 DEF Shape, ClientsTyped
    <3> QED BY <2>2, <3>1, <3>2, <3>3 DEF Shape, ClientsTyped
  <2> QED BY <2>3, <2>4
<1>4. BrokerTyped'
  BY DEF Shape, BrokerTyped
<1>5. Conversation'
  <2>1. /\ sock'[c] = None
        /\ \A d \in Clients \ {c} : /\ sock'[d] = sock[d] /\ client'[d] = client[d]
                                    /\ call'[d] = call[d]
    BY DEF Failed, Shape, ClientsTyped
  <2>2. ASSUME NEW d \in Clients, sock'[d] \in Threads PROVE ClientOK(d)' /\ d # c
    <3>1. d # c
      BY <2>1, <2>2
    <3>2. sock[d] # sock[c] /\ sock[d] \in Threads
      BY <3>1, <2>1, <2>2 DEF Shape, Conversation
    <3>3. inbox'[sock[d]] = inbox[sock[d]]
      BY <3>2
    <3>4. outbox' = outbox /\ thread' = thread /\ ClientOK(d)
      BY <3>2 DEF Shape, Conversation
    <3> QED BY <3>1, <3>3, <3>4, <2>1, Unconcerned
  <2> QED BY <2>1, <2>2 DEF Shape, Conversation
<1> QED BY <1>1, <1>2, <1>3, <1>4, <1>5

LEMMA RefusedShape ==
    ASSUME Shape, NEW c \in Clients, Refused(c)
    PROVE  ThreadsTyped' /\ LinesTyped' /\ ClientsTyped' /\ BrokerTyped' /\ Conversation'
BY FailedShape DEF Refused, broker, Shape, LinesTyped

LEMMA TimesOutShape ==
    ASSUME Shape, NEW c \in Clients, TimesOut(c)
    PROVE  ThreadsTyped' /\ LinesTyped' /\ ClientsTyped' /\ BrokerTyped' /\ Conversation'
<1>1. inbox = [t \in Threads |-> inbox[t]]
  BY DEF Shape, LinesTyped
<1>2. inbox' \in {inbox, [inbox EXCEPT ![sock[c]] = <<>>]}
  BY DEF TimesOut
<1> QED BY <1>1, <1>2, FailedShape DEF TimesOut

LEMMA ReturnShape ==
    ASSUME Shape, NEW c \in Clients, Return(c)
    PROVE  ThreadsTyped' /\ LinesTyped' /\ ClientsTyped' /\ BrokerTyped' /\ Conversation'
<1> USE BrokerAssumption
<1> DEFINE t == sock[c]
<1>1. /\ t \in Threads /\ client[c] = "wait" /\ call[c] \in Requests
      /\ outbox[t] # <<>> /\ outbox[t] = <<Head(outbox[t])>>
  BY DEF Return, Shape, ClientsTyped, LinesTyped, LineOK
<1>2. Tail(outbox[t]) = <<>>
  <2>1. \A m : Tail(<<m>>) = <<>>
    OBVIOUS
  <2> QED BY <2>1, <1>1
<1>3. outbox' = [u \in Threads |-> IF u = t THEN <<>> ELSE outbox[u]]
  BY <1>1, <1>2 DEF Return, Shape, LinesTyped
<1>4. thread[t].at = "recv" /\ inbox[t] = <<>>
  BY <1>1 DEF Shape, LinesTyped, LineOK
<1>5. ThreadsTyped'
  BY DEF Return, Shape, ThreadsTyped, ThreadOK
<1>6. LinesTyped'
  <2>1. LineOK(t)'
    BY <1>1, <1>3, <1>4 DEF Return, LineOK
  <2>2. ASSUME NEW u \in Threads \ {t} PROVE LineOK(u)'
    <3>1. LineOK(u) /\ thread' = thread /\ inbox' = inbox /\ outbox'[u] = outbox[u]
      BY <1>3, <2>2 DEF Return, Shape, LinesTyped
    <3> QED BY <3>1 DEF LineOK
  <2> QED BY <1>3, <2>1, <2>2 DEF Return, Shape, LinesTyped
<1>7. ClientsTyped'
  BY DEF Return, Shape, ClientsTyped
<1>8. BrokerTyped'
  BY <1>1, RequestShape DEF Return, Shape, BrokerTyped
<1>9. Conversation'
  <2>1. /\ client'[c] = "idle" /\ sock' = sock
        /\ \A d \in Clients \ {c} : client'[d] = client[d] /\ call'[d] = call[d]
    BY DEF Return, Shape, ClientsTyped
  <2>2. ClientOK(c)'
    BY <2>1, <1>1, <1>3, <1>4 DEF Return, ClientOK, Quiet
  <2>3. ASSUME NEW d \in Clients \ {c}, sock[d] \in Threads PROVE ClientOK(d)'
    <3>1. sock[d] # t
      BY <1>1, <2>3 DEF Shape, Conversation
    <3>2. outbox'[sock[d]] = outbox[sock[d]]
      BY <3>1, <2>3, <1>3
    <3>3. ClientOK(d) /\ sock'[d] = sock[d] /\ client'[d] = client[d] /\ call'[d] = call[d]
          /\ thread' = thread /\ inbox' = inbox
      BY <2>1, <2>3 DEF Return, Shape, Conversation
    <3> QED BY <3>2, <3>3, Unconcerned
  <2> QED BY <2>1, <2>2, <2>3 DEF Shape, Conversation
<1> QED BY <1>5, <1>6, <1>7, <1>8, <1>9
\* What a thread serves is the call of the client at the other end, if there
\* is one still.
LEMMA BusyThread ==
    ASSUME Shape, NEW t \in Threads, thread[t].at \in Serving
    PROVE  /\ inbox[t] = <<>> /\ outbox[t] = <<>>
           /\ \A c \in Clients : sock[c] = t => client[c] = "wait" /\ call[c] = thread[t].cmd
<1>1. inbox[t] = <<>> /\ outbox[t] = <<>>
  BY DEF Shape, LinesTyped, LineOK, Putting, Getting, Serving
<1>2. ASSUME NEW c \in Clients, sock[c] = t PROVE client[c] = "wait" /\ call[c] = thread[t].cmd
  BY <1>1, <1>2
     DEF Shape, Conversation, ClientOK, Arrived, Served, Answered, Quiet, Putting, Getting, Serving
<1> QED BY <1>1, <1>2

\* A thread goes on serving its command.
LEMMA WorkShape ==
    ASSUME Shape, NEW t \in Threads, thread[t].at \in Serving,
           NEW th, thread' = [thread EXCEPT ![t] = th],
           UNCHANGED <<inbox, outbox, clients>>,
           ThreadOK(t)', th.cmd = thread[t].cmd, th.at \in Serving
    PROVE  ThreadsTyped' /\ LinesTyped' /\ ClientsTyped' /\ Conversation'
<1>1. thread' = [u \in Threads |-> IF u = t THEN thread'[u] ELSE thread[u]] /\ thread'[t] = th
  BY DEF Shape, ThreadsTyped
<1>2. /\ inbox' = [u \in Threads |-> IF u = t THEN inbox'[u] ELSE inbox[u]]
      /\ outbox' = [u \in Threads |-> IF u = t THEN outbox'[u] ELSE outbox[u]]
  BY DEF Shape, LinesTyped
<1>3. LineOK(t)'
  BY BusyThread DEF Serving, LineOK
<1>4. ASSUME NEW c \in Clients, sock[c] = t PROVE ClientOK(c)'
  BY <1>4, <1>1, BusyThread DEF Serving, ClientOK, Served, clients
<1> QED BY <1>1, <1>2, <1>3, <1>4, ServeFrame DEF clients

\* A thread answers the command it has got.
LEMMA AnswerShape ==
    ASSUME Shape, NEW t \in Threads, NEW cmd, NEW status, NEW data,
           outbox[t] = <<>>, Reply(t, status, data, cmd),
           inbox' = [inbox EXCEPT ![t] = <<>>],
           NEW th, thread' = [thread EXCEPT ![t] = th],
           th.at = "recv", ThreadOK(t)',
           \A c \in Clients : sock[c] = t => client[c] = "wait" /\ call[c] = cmd,
           UNCHANGED clients
    PROVE  ThreadsTyped' /\ LinesTyped' /\ ClientsTyped' /\ Conversation'
<1> DEFINE m == [status |-> status, data |-> data, to |-> cmd]
<1>1. thread' = [u \in Threads |-> IF u = t THEN thread'[u] ELSE thread[u]] /\ thread'[t] = th
  BY DEF Shape, ThreadsTyped
<1>2. inbox' = [u \in Threads |-> IF u = t THEN inbox'[u] ELSE inbox[u]] /\ inbox'[t] = <<>>
  BY DEF Shape, LinesTyped
<1>3. /\ outbox' = [u \in Threads |-> IF u = t THEN outbox'[u] ELSE outbox[u]]
      /\ outbox'[t] = IF Connected(t) THEN <<m>> ELSE <<>>
  BY ReplyShape
<1>4. <<m>> # <<>> /\ Head(<<m>>) = m /\ m.to = cmd
  OBVIOUS
<1> HIDE DEF m
<1>5. LineOK(t)'
  BY <1>1, <1>2, <1>3, <1>4 DEF LineOK
<1>6. ASSUME NEW c \in Clients, sock[c] = t PROVE ClientOK(c)'
  <2>1. outbox'[t] = <<m>>
    BY <1>3, <1>6 DEF Connected
  <2> QED BY <1>6, <1>2, <1>4, <2>1 DEF ClientOK, Answered, clients
<1> QED BY <1>1, <1>2, <1>3, <1>5, <1>6, ServeFrame DEF clients

\* What a thread does next with a GET and a LIST, and what it holds of a LIST
\* when it has read the directory of namespace n.
Opened(cmd)  == Task("read1", cmd, blob[cmd.arg], {})
SetsOut(cmd) == Task("list", cmd, None, Made)
Seen(th, l, f) == [at |-> "list", cmd |-> th.cmd, fd |-> None, got |-> th.got,
                   left |-> l, found |-> f]
Sees(t, n)   == Seen(thread[t], thread[t].left \ {n},
                     thread[t].found \cup Listing(n, thread[t].cmd.arg))

LEMMA RecvForms ==
    ASSUME NEW t \in Threads, Recv(t), NEW cmd, cmd = Head(inbox[t])
    PROVE  \/ thread' = thread /\ \E status, data : Reply(t, status, data, cmd)
           \/ cmd.op = "PUT" /\ cmd.arg \notin Illegal /\ outbox' = outbox
                /\ thread' = [thread EXCEPT ![t].at = "open", ![t].cmd = cmd]
           \/ cmd.op = "GET" /\ cmd.arg \notin Illegal /\ blob[cmd.arg] # None
                /\ outbox' = outbox /\ thread' = [thread EXCEPT ![t] = Opened(cmd)]
           \/ cmd.op = "LIST" /\ outbox' = outbox
                /\ thread' = [thread EXCEPT ![t] = SetsOut(cmd)]
BY DEF Recv, Opened, Task, SetsOut

LEMMA ListForms ==
    ASSUME Shape, NEW t \in Threads, List(t)
    PROVE  /\ thread[t].at = "list"
           /\ \/ \E n \in thread[t].left :
                    /\ \A m \in thread[t].left : n <= m
                    /\ thread' = [thread EXCEPT ![t] = Sees(t, n)]
                    /\ outbox' = outbox
              \/ /\ thread[t].left = {}
                 /\ Reply(t, "OK", thread[t].found, thread[t].cmd)
                 /\ thread' = [thread EXCEPT ![t] = [Idle EXCEPT !.at = "recv"]]
<1>1. ThreadOK(t) /\ thread = [u \in Threads |-> thread[u]] /\ thread[t].at = "list"
  BY DEF Shape, ThreadsTyped, List
<1>2. \A l : [thread[t] EXCEPT !.left = l] = Seen(thread[t], l, thread[t].found)
  BY <1>1 DEF ThreadOK, HasFile, Seen
<1>3. \A th, l, f, d : [Seen(th, l, f) EXCEPT !.found = d] = Seen(th, l, d)
  BY DEF Seen
<1>4. ASSUME NEW n PROVE [thread EXCEPT ![t].left = @ \ {n},
                                        ![t].found = @ \cup Listing(n, thread[t].cmd.arg)]
                           = [thread EXCEPT ![t] = Sees(t, n)]
  <2> DEFINE l == thread[t].left \ {n}
             f == thread[t].found \cup Listing(n, thread[t].cmd.arg)
  <2>1. [[thread[t] EXCEPT !.left = l] EXCEPT !.found = f] = Seen(thread[t], l, f)
    <3> HIDE DEF l, f
    <3>1. [thread[t] EXCEPT !.left = l] = Seen(thread[t], l, thread[t].found)
      BY <1>2
    <3>2. [Seen(thread[t], l, thread[t].found) EXCEPT !.found = f] = Seen(thread[t], l, f)
      BY <1>3
    <3> QED BY ONLY <3>1, <3>2
  <2>2. [thread EXCEPT ![t].left = @ \ {n}, ![t].found = @ \cup Listing(n, thread[t].cmd.arg)]
          = [thread EXCEPT ![t] = [[thread[t] EXCEPT !.left = l] EXCEPT !.found = f]]
    BY <1>1, <1>2 DEF Seen
  <2> QED BY <2>1, <2>2 DEF Sees
<1>5. \A n : [thread EXCEPT ![t].left = @ \ {n},
                             ![t].found = @ \cup Listing(n, thread[t].cmd.arg)]
               = [thread EXCEPT ![t] = Sees(t, n)]
  BY <1>4
<1> QED BY <1>1, <1>5 DEF List

LEMMA RecvShape ==
    ASSUME Shape, NEW t \in Threads, Recv(t)
    PROVE  ThreadsTyped' /\ LinesTyped' /\ ClientsTyped' /\ BrokerTyped' /\ Conversation'
<1> DEFINE cmd == Head(inbox[t])
<1>1. cmd \in Requests /\ inbox[t] = <<cmd>>
  <2>1. PICK q \in Requests : inbox[t] = <<q>>
    BY DEF Recv, Shape, LinesTyped, LineOK
  <2>2. Head(<<q>>) = q
    OBVIOUS
  <2> QED BY <2>1, <2>2
<1>2. thread[t].at = "recv" /\ outbox[t] = <<>> /\ inbox[t] # <<>>
  BY DEF Recv, Shape, LinesTyped, LineOK
<1>3. ASSUME NEW c \in Clients, sock[c] = t PROVE client[c] = "wait" /\ call[c] = cmd
  <2>1. \A q : Head(<<q>>) = q
    OBVIOUS
  <2> QED BY <2>1, <1>1, <1>2, <1>3
          DEF Shape, Conversation, ClientOK, Arrived, Served, Answered, Quiet, Putting, Getting, Serving
<1>4. inbox' = [inbox EXCEPT ![t] = <<>>]
  <2>1. \A q : Tail(<<q>>) = <<>>
    OBVIOUS
  <2>2. inbox' = [inbox EXCEPT ![t] = Tail(inbox[t])]
    BY DEF Recv
  <2> QED BY <2>1, <2>2, <1>1
<1>5. ThreadOK(t) /\ thread = [u \in Threads |-> thread[u]]
  BY DEF Shape, ThreadsTyped
<1>6. BrokerTyped'
  BY DEF Recv, Shape, BrokerTyped
<1> HIDE DEF cmd
<1>7. ASSUME thread' = thread, NEW status, NEW data, Reply(t, status, data, cmd)
      PROVE  ThreadsTyped' /\ LinesTyped' /\ ClientsTyped' /\ Conversation'
  <2>1. thread' = [thread EXCEPT ![t] = thread[t]]
    BY <1>5, <1>7
  <2>2. ThreadOK(t)'
    BY <1>5, <1>7 DEF ThreadOK
  <2> QED BY <2>1, <2>2, <1>2, <1>3, <1>4, <1>7, AnswerShape DEF Recv
<1>8. ASSUME NEW th, thread' = [thread EXCEPT ![t] = th], outbox' = outbox,
             th \in [at : Places, cmd : Requests \cup {None}, fd : Inodes \cup {None},
                     got : [Halves -> Blobs \cup {None}],
                      left : SUBSET Spaces, found : SUBSET Keys],
             ThreadOK(t)', th.at \in Serving, th.cmd = cmd
      PROVE  ThreadsTyped' /\ LinesTyped' /\ ClientsTyped' /\ Conversation'
  <2>1. /\ thread' = [u \in Threads |-> IF u = t THEN thread'[u] ELSE thread[u]]
        /\ thread'[t] = th
    BY <1>5, <1>8
  <2>2. inbox' = [u \in Threads |-> IF u = t THEN inbox'[u] ELSE inbox[u]] /\ inbox'[t] = <<>>
    BY <1>4 DEF Shape, LinesTyped
  <2>3. outbox' = [u \in Threads |-> IF u = t THEN outbox'[u] ELSE outbox[u]]
    BY <1>8 DEF Shape, LinesTyped
  <2>4. LineOK(t)'
    BY <2>2, <1>8, <1>2 DEF LineOK
  <2>5. UNCHANGED clients
    BY DEF Recv
  <2>6. ASSUME NEW c \in Clients, sock[c] = t PROVE ClientOK(c)'
    BY <2>1, <2>2, <2>5, <2>6, <1>2, <1>3, <1>8 DEF ClientOK, Served, clients
  <2> QED BY <2>1, <2>2, <2>3, <2>4, <2>5, <2>6, <1>8, ServeFrame
<1>9. CASE cmd.op = "PUT" /\ cmd.arg \notin Illegal /\ outbox' = outbox
           /\ thread' = [thread EXCEPT ![t].at = "open", ![t].cmd = cmd]
  <2> DEFINE th == [at |-> "open", cmd |-> cmd, fd |-> thread[t].fd, got |-> thread[t].got,
                    left |-> thread[t].left, found |-> thread[t].found]
  <2>1. thread' = [thread EXCEPT ![t] = th] /\ thread'[t] = th
    <3>2. [[thread[t] EXCEPT !.at = "open"] EXCEPT !.cmd = cmd] = th
      <4> DEFINE a == [at |-> "open", cmd |-> thread[t].cmd, fd |-> thread[t].fd,
                       got |-> thread[t].got,
                    left |-> thread[t].left, found |-> thread[t].found]
      <4>1. [thread[t] EXCEPT !.at = "open"] = a
        BY <1>5 DEF ThreadOK
      <4>2. [a EXCEPT !.cmd = cmd] = th
        OBVIOUS
      <4> QED BY <4>1, <4>2
    <3>3. thread' = [thread EXCEPT ![t] = [[thread[t] EXCEPT !.at = "open"] EXCEPT !.cmd = cmd]]
      BY <1>9, <1>5
    <3> QED BY <3>2, <3>3, <1>5
  <2>2. /\ th \in [at : Places, cmd : Requests \cup {None}, fd : Inodes \cup {None},
                   got : [Halves -> Blobs \cup {None}],
                      left : SUBSET Spaces, found : SUBSET Keys]
        /\ ThreadOK(t)'
    BY <2>1, <1>1, <1>2, <1>5, <1>9 DEF ThreadOK, Places, HasFile, Putting, Getting, Serving
  <2>3. th.at \in Serving /\ th.cmd = cmd
    BY DEF Putting, Serving
  <2> HIDE DEF th
  <2> QED BY <2>1, <2>2, <2>3, <1>6, <1>8, <1>9
<1>10. CASE cmd.op = "GET" /\ cmd.arg \notin Illegal /\ blob[cmd.arg] # None
            /\ outbox' = outbox /\ thread' = [thread EXCEPT ![t] = Opened(cmd)]
  <2> DEFINE th == Opened(cmd)
  <2>1. thread' = [thread EXCEPT ![t] = th] /\ thread'[t] = th
    BY <1>10, <1>5
  <2>2. blob[cmd.arg] \in Inodes
    BY <1>1, <1>10, RequestShape DEF Shape, FilesTyped
  <2>3. Blank \in [Halves -> Blobs \cup {None}]
    BY DEF Blank
  <2>4. /\ th \in [at : Places, cmd : Requests \cup {None}, fd : Inodes \cup {None},
                   got : [Halves -> Blobs \cup {None}],
                   left : SUBSET Spaces, found : SUBSET Keys]
        /\ ThreadOK(t)'
    BY <2>1, <2>2, <2>3, <1>1, <1>10
       DEF Opened, Task, ThreadOK, Places, HasFile, Putting, Getting, Serving
  <2>5. th.at \in Serving /\ th.cmd = cmd
    BY DEF Opened, Task, Getting, Serving
  <2> HIDE DEF th
  <2> QED BY <2>1, <2>4, <2>5, <1>6, <1>8, <1>10
<1>11. CASE cmd.op = "LIST" /\ outbox' = outbox
            /\ thread' = [thread EXCEPT ![t] = SetsOut(cmd)]
  <2> DEFINE th == SetsOut(cmd)
  <2>1. thread' = [thread EXCEPT ![t] = th] /\ thread'[t] = th
    BY <1>11, <1>5
  <2>2. Made \subseteq Spaces
    BY DEF Made, Spaces
  <2>3. Blank \in [Halves -> Blobs \cup {None}]
    BY DEF Blank
  <2>4. /\ th \in [at : Places, cmd : Requests \cup {None}, fd : Inodes \cup {None},
                   got : [Halves -> Blobs \cup {None}],
                   left : SUBSET Spaces, found : SUBSET Keys]
        /\ ThreadOK(t)'
    BY <2>1, <2>2, <2>3, <1>1, <1>11
       DEF SetsOut, Task, ThreadOK, Places, HasFile, Putting, Getting, Serving
  <2>5. th.at \in Serving /\ th.cmd = cmd
    BY DEF SetsOut, Task, Serving
  <2> HIDE DEF th
  <2> QED BY <2>1, <2>4, <2>5, <1>6, <1>8, <1>11
<1> QED BY <1>6, <1>7, <1>9, <1>10, <1>11, RecvForms DEF cmd

\* A record of a thread that goes elsewhere with another file open.
LEMMA ThreadMoves ==
    ASSUME Shape, NEW t \in Threads, NEW at
    PROVE  /\ [thread EXCEPT ![t].at = at]
                = [thread EXCEPT ![t] = [at |-> at, cmd |-> thread[t].cmd,
                                         fd |-> thread[t].fd, got |-> thread[t].got,
                    left |-> thread[t].left, found |-> thread[t].found]]
           /\ \A fd : [thread EXCEPT ![t].at = at, ![t].fd = fd]
                        = [thread EXCEPT ![t] = [at |-> at, cmd |-> thread[t].cmd,
                                                 fd |-> fd, got |-> thread[t].got,
                    left |-> thread[t].left, found |-> thread[t].found]]
<1> DEFINE a == [at |-> at, cmd |-> thread[t].cmd, fd |-> thread[t].fd, got |-> thread[t].got,
                    left |-> thread[t].left, found |-> thread[t].found]
<1>1. ThreadOK(t) /\ thread = [u \in Threads |-> thread[u]]
  BY DEF Shape, ThreadsTyped
<1>2. [thread[t] EXCEPT !.at = at] = a
  BY <1>1 DEF ThreadOK
<1>3. \A fd : [a EXCEPT !.fd = fd] = [at |-> at, cmd |-> thread[t].cmd, fd |-> fd,
                                      got |-> thread[t].got,
                    left |-> thread[t].left, found |-> thread[t].found]
  OBVIOUS
<1>4. [thread EXCEPT ![t].at = at] = [thread EXCEPT ![t] = a]
  BY <1>1, <1>2
<1>5. \A fd : [thread EXCEPT ![t].at = at, ![t].fd = fd]
                = [thread EXCEPT ![t] = [a EXCEPT !.fd = fd]]
  BY <1>1, <1>2
<1> QED BY <1>3, <1>4, <1>5

LEMMA OpenTmpShape ==
    ASSUME Shape, NEW t \in Threads, OpenTmp(t)
    PROVE  ThreadsTyped' /\ LinesTyped' /\ ClientsTyped' /\ BrokerTyped' /\ Conversation'
<1>1. ThreadOK(t) /\ thread = [u \in Threads |-> thread[u]] /\ thread[t].at = "open"
  BY DEF Shape, ThreadsTyped, OpenTmp
<1>2. thread[t].cmd.arg \in Keys
  BY <1>1, RequestShape DEF ThreadOK, Putting
<1>3. PICK n \in Inodes : thread' = [thread EXCEPT ![t].at = "write1", ![t].fd = n]
  <2>1. (CHOOSE m \in Unused : TRUE) \in Inodes
    BY <1>1, SomeUnused DEF Unused, ThreadOK, HasFile, Shape
  <2>2. tmp[thread[t].cmd.arg] # None => tmp[thread[t].cmd.arg] \in Inodes
    BY <1>2 DEF Shape, FilesTyped
  <2> QED BY <2>1, <2>2 DEF OpenTmp
<1> DEFINE th == [at |-> "write1", cmd |-> thread[t].cmd, fd |-> n, got |-> thread[t].got,
                    left |-> thread[t].left, found |-> thread[t].found]
<1>4. thread' = [thread EXCEPT ![t] = th] /\ thread'[t] = th
  <2>1. [thread EXCEPT ![t].at = "write1", ![t].fd = n] = [thread EXCEPT ![t] = th]
    BY ThreadMoves, ZenonT(60)
  <2> HIDE DEF th
  <2> QED BY <1>1, <1>3, <2>1
<1>5. ThreadOK(t)'
  BY <1>1, <1>4 DEF ThreadOK, Places, HasFile, Putting, Getting, Serving
<1>6. th.cmd = thread[t].cmd /\ th.at \in Serving
      /\ thread[t].at \in Serving
  BY <1>1 DEF Putting, Serving
<1> HIDE DEF th
<1>7. ThreadsTyped' /\ LinesTyped' /\ ClientsTyped' /\ Conversation'
  BY <1>4, <1>5, <1>6, WorkShape DEF OpenTmp
<1>8. BrokerTyped'
  BY DEF OpenTmp, Shape, BrokerTyped
<1> QED BY <1>7, <1>8

LEMMA WriteShape ==
    ASSUME Shape, NEW t \in Threads, Write(t)
    PROVE  ThreadsTyped' /\ LinesTyped' /\ ClientsTyped' /\ BrokerTyped' /\ Conversation'
<1>1. ThreadOK(t) /\ thread = [u \in Threads |-> thread[u]] /\ thread[t].at \in {"write1", "write2"}
  BY DEF Shape, ThreadsTyped, Write
<1>2. PICK l \in {"write2", "replace"} : thread' = [thread EXCEPT ![t].at = l]
  BY DEF Write, Goto
<1> DEFINE th == [at |-> l, cmd |-> thread[t].cmd, fd |-> thread[t].fd, got |-> thread[t].got,
                    left |-> thread[t].left, found |-> thread[t].found]
<1>3. thread' = [thread EXCEPT ![t] = th] /\ thread'[t] = th
  <2>1. [thread EXCEPT ![t].at = l] = [thread EXCEPT ![t] = th]
    BY ThreadMoves
  <2> HIDE DEF th
  <2> QED BY <1>1, <1>2, <2>1
<1>4. ThreadOK(t)'
  BY <1>1, <1>3 DEF ThreadOK, Places, HasFile, Putting, Getting, Serving
<1>5. th.cmd = thread[t].cmd /\ th.at \in Serving
      /\ thread[t].at \in Serving
  BY <1>1 DEF Putting, Serving
<1> HIDE DEF th
<1>6. ThreadsTyped' /\ LinesTyped' /\ ClientsTyped' /\ Conversation'
  BY <1>3, <1>4, <1>5, WorkShape DEF Write
<1>7. BrokerTyped'
  BY DEF Write, Shape, BrokerTyped
<1> QED BY <1>6, <1>7

LEMMA IdleShape == Idle \in [at : Places, cmd : Requests \cup {None}, fd : Inodes \cup {None},
                             got : [Halves -> Blobs \cup {None}],
                      left : SUBSET Spaces, found : SUBSET Keys]
BY DEF Idle, Task, Blank, Places

LEMMA ReplaceShape ==
    ASSUME Shape, NEW t \in Threads, Replace(t)
    PROVE  ThreadsTyped' /\ LinesTyped' /\ ClientsTyped' /\ BrokerTyped' /\ Conversation'
<1>1. ThreadOK(t) /\ thread = [u \in Threads |-> thread[u]] /\ thread[t].at = "replace"
  BY DEF Shape, ThreadsTyped, Replace
<1>2. BrokerTyped'
  BY DEF Replace, Shape, BrokerTyped
<1>3. CASE tmp[thread[t].cmd.arg] # None
  <2> DEFINE th == [at |-> "count", cmd |-> thread[t].cmd, fd |-> None, got |-> thread[t].got,
                    left |-> thread[t].left, found |-> thread[t].found]
  <2>1. thread' = [thread EXCEPT ![t] = th] /\ thread'[t] = th
    <3>1. [thread EXCEPT ![t].at = "count", ![t].fd = None] = [thread EXCEPT ![t] = th]
      BY ThreadMoves, ZenonT(60)
    <3> HIDE DEF th
    <3> QED BY <1>1, <1>3, <3>1 DEF Replace
  <2>2. ThreadOK(t)'
    BY <1>1, <2>1 DEF ThreadOK, Places, HasFile, Putting, Getting, Serving
  <2>3. th.cmd = thread[t].cmd /\ th.at \in Serving
        /\ thread[t].at \in Serving
    BY <1>1 DEF Putting, Serving
  <2> HIDE DEF th
  <2>4. ThreadsTyped' /\ LinesTyped' /\ ClientsTyped' /\ Conversation'
    BY <1>3, <2>1, <2>2, <2>3, WorkShape DEF Replace, clients
  <2> QED BY <2>4, <1>2
<1>4. CASE tmp[thread[t].cmd.arg] = None
  <2>1. /\ thread' = [thread EXCEPT ![t] = Idle]
        /\ inbox' = [inbox EXCEPT ![t] = <<>>] /\ outbox' = [outbox EXCEPT ![t] = <<>>]
        /\ sock' = [c \in Clients |-> IF sock[c] = t THEN Dead ELSE sock[c]]
        /\ UNCHANGED <<client, call, attempt>>
    BY <1>4 DEF Replace
  <2>2. thread'[t] = Idle /\ inbox'[t] = <<>> /\ outbox'[t] = <<>>
    BY <1>1, <2>1 DEF Shape, LinesTyped
  <2>3. \A u \in Threads \ {t} : /\ thread'[u] = thread[u] /\ inbox'[u] = inbox[u]
                                 /\ outbox'[u] = outbox[u]
    BY <1>1, <2>1 DEF Shape, LinesTyped
  <2>4. ThreadsTyped'
    <3>1. ThreadOK(t)'
      BY <2>2, IdleShape DEF ThreadOK, Idle, Task, HasFile, Putting, Getting, Serving
    <3> QED BY <1>1, <2>1, <2>3, <3>1 DEF Shape, ThreadsTyped, ThreadOK
  <2>5. LinesTyped'
    <3>1. \A u \in Threads : LineOK(u)'
      BY <2>2, <2>3 DEF Shape, LinesTyped, LineOK
    <3> QED BY <2>1, <3>1 DEF Shape, LinesTyped
  <2>6. ClientsTyped'
    BY <2>1 DEF Shape, ClientsTyped
  <2>7. Conversation'
    <3>1. \A c \in Clients : sock'[c] \in Threads => sock'[c] = sock[c] /\ sock[c] \in Threads \ {t}
      BY <2>1, BrokerAssumption
    <3>2. \A c \in Clients : sock'[c] \in Threads => ClientOK(c)'
      BY <2>1, <2>3, <3>1, Unconcerned DEF Shape, Conversation
    <3> QED BY <3>1, <3>2 DEF Shape, Conversation
  <2> QED BY <1>2, <2>4, <2>5, <2>6, <2>7
<1> QED BY <1>3, <1>4

\* The broker dies, killed or by --fail-after-puts.
LEMMA DiesShape ==
    ASSUME Shape, Dies, UNCHANGED <<client, call, attempt>>
    PROVE  ThreadsTyped' /\ LinesTyped' /\ ClientsTyped' /\ Conversation'
<1> USE BrokerAssumption
<1>1. ThreadsTyped'
  BY IdleShape DEF Dies, ThreadsTyped, ThreadOK, Idle, Task, HasFile, Putting, Getting, Serving
<1>2. LinesTyped'
  BY DEF Dies, LinesTyped, LineOK
<1>3. ClientsTyped'
  BY DEF Dies, Shape, ClientsTyped
<1>4. Conversation'
  BY DEF Dies, Conversation
<1> QED BY <1>1, <1>2, <1>3, <1>4

LEMMA CountPutShape ==
    ASSUME Shape, NEW t \in Threads, CountPut(t)
    PROVE  ThreadsTyped' /\ LinesTyped' /\ ClientsTyped' /\ BrokerTyped' /\ Conversation'
<1> DEFINE n == IF FailAfterPuts = 0 THEN 0 ELSE puts + 1
<1>1. CASE FailAfterPuts # 0 /\ n >= FailAfterPuts /\ Dies
  <2>1. UNCHANGED <<client, call, attempt, acked, crashes>>
    BY DEF CountPut
  <2>2. BrokerTyped'
    <3>1. 0 \in 0..FailAfterPuts
      BY BrokerAssumption
    <3> QED BY <1>1, <2>1, <3>1 DEF Shape, BrokerTyped, Dies
  <2> QED BY <1>1, <2>1, <2>2, DiesShape
<1>2. CASE /\ FailAfterPuts = 0 \/ n < FailAfterPuts
           /\ puts' = n
           /\ Reply(t, "OK", None, thread[t].cmd)
           /\ thread' = [thread EXCEPT ![t] = [Idle EXCEPT !.at = "recv"]]
           /\ UNCHANGED <<up, inbox, sock>>
  <2> DEFINE th == [Idle EXCEPT !.at = "recv"]
  <2>1. ThreadOK(t) /\ thread = [u \in Threads |-> thread[u]] /\ thread[t].at \in Putting
    BY DEF Shape, ThreadsTyped, CountPut, Putting
  <2>2. thread' = [thread EXCEPT ![t] = th] /\ thread'[t] = th
    BY <1>2, <2>1
  <2>3. th.at = "recv" /\ ThreadOK(t)'
    BY <2>2, IdleShape DEF ThreadOK, Idle, Task, Places, HasFile, Putting, Getting, Serving
  <2>4. /\ inbox[t] = <<>> /\ outbox[t] = <<>>
        /\ \A c \in Clients : sock[c] = t => client[c] = "wait" /\ call[c] = thread[t].cmd
    <3>1. thread[t].at \in Serving
      BY <2>1 DEF Serving
    <3> QED BY <3>1, BusyThread DEF Putting, Getting, Serving
  <2>5. inbox' = [inbox EXCEPT ![t] = <<>>]
    BY <1>2, <2>4 DEF Shape, LinesTyped
  <2>6. UNCHANGED clients /\ UNCHANGED <<acked, crashes>>
    BY <1>2 DEF CountPut, clients
  <2> HIDE DEF th
  <2>7. Reply(t, "OK", None, thread[t].cmd)
    BY <1>2
  <2>8. ThreadsTyped' /\ LinesTyped' /\ ClientsTyped' /\ Conversation'
    BY <2>2, <2>3, <2>4, <2>5, <2>6, <2>7, AnswerShape
  <2>9. BrokerTyped'
    BY <1>2, <2>6, BrokerAssumption DEF Shape, BrokerTyped
  <2> QED BY <2>8, <2>9
<1> QED BY <1>1, <1>2 DEF CountPut

LEMMA ReadShape ==
    ASSUME Shape, NEW t \in Threads, Read(t)
    PROVE  ThreadsTyped' /\ LinesTyped' /\ ClientsTyped' /\ BrokerTyped' /\ Conversation'
<1>1. ThreadOK(t) /\ thread = [u \in Threads |-> thread[u]] /\ thread[t].at \in Getting
  BY DEF Shape, ThreadsTyped, Read, Getting
<1>2. BrokerTyped'
  BY DEF Read, Shape, BrokerTyped
<1>3. UNCHANGED clients /\ inbox' = inbox
  BY DEF Read
<1>4. CASE /\ thread[t].at = "read1" /\ outbox' = outbox
           /\ thread' = [thread EXCEPT ![t].at = "read2",
                                       ![t].got[1] = content[thread[t].fd][1]]
  <2> DEFINE g == [thread[t].got EXCEPT ![1] = content[thread[t].fd][1]]
             th == [at |-> "read2", cmd |-> thread[t].cmd, fd |-> thread[t].fd, got |-> g,
                    left |-> thread[t].left, found |-> thread[t].found]
             a == [at |-> "read2", cmd |-> thread[t].cmd, fd |-> thread[t].fd,
                   got |-> thread[t].got,
                    left |-> thread[t].left, found |-> thread[t].found]
  <2>1. thread' = [thread EXCEPT ![t] = th] /\ thread'[t] = th
    <3>1. [thread[t] EXCEPT !.at = "read2"] = a
      BY <1>1 DEF ThreadOK
    <3>2. [a EXCEPT !.got[1] = content[thread[t].fd][1]] = th
      OBVIOUS
    <3>3. thread' = [thread EXCEPT ![t] = [[thread[t] EXCEPT !.at = "read2"]
                                              EXCEPT !.got[1] = content[thread[t].fd][1]]]
      BY <1>1, <1>4
    <3> QED BY <3>1, <3>2, <3>3, <1>1
  <2>2. g \in [Halves -> Blobs \cup {None}]
    BY <1>1, <1>4 DEF ThreadOK, HasFile, Shape, FilesTyped, Halves
  <2> HIDE DEF g
  <2>3. ThreadOK(t)'
    <3>1. thread[t].fd \in Inodes /\ thread[t].cmd \in Requests /\ thread[t].cmd.op = "GET"
      BY <1>1, <1>4 DEF ThreadOK, HasFile, Getting
    <3>2. /\ thread'[t] \in [at : Places, cmd : Requests \cup {None}, fd : Inodes \cup {None},
                             got : [Halves -> Blobs \cup {None}],
                      left : SUBSET Spaces, found : SUBSET Keys]
          /\ thread'[t].at = "read2" /\ thread'[t].fd = thread[t].fd
          /\ thread'[t].cmd = thread[t].cmd
      <4>1. thread[t].left \in SUBSET Spaces /\ thread[t].found \in SUBSET Keys
        BY <1>1 DEF ThreadOK
      <4> QED BY <2>1, <2>2, <3>1, <4>1 DEF Places
    <3> QED BY <3>1, <3>2 DEF ThreadOK, HasFile, Putting, Getting, Serving
  <2>4. th.cmd = thread[t].cmd /\ th.at \in Serving
        /\ thread[t].at \in Serving
    BY <1>1 DEF Getting, Serving
  <2> HIDE DEF th
  <2>5. ThreadsTyped' /\ LinesTyped' /\ ClientsTyped' /\ Conversation'
    BY <1>3, <1>4, <2>1, <2>3, <2>4, WorkShape
  <2> QED BY <2>5, <1>2
<1>5. CASE /\ Reply(t, "OK", [thread[t].got EXCEPT ![2] = content[thread[t].fd][2]],
                    thread[t].cmd)
           /\ thread' = [thread EXCEPT ![t] = [Idle EXCEPT !.at = "recv"]]
  <2> DEFINE th == [Idle EXCEPT !.at = "recv"]
             data == [thread[t].got EXCEPT ![2] = content[thread[t].fd][2]]
  <2>1. thread' = [thread EXCEPT ![t] = th] /\ thread'[t] = th
    BY <1>1, <1>5
  <2>2. th.at = "recv" /\ ThreadOK(t)'
    BY <2>1, IdleShape DEF ThreadOK, Idle, Task, Places, HasFile, Putting, Getting, Serving
  <2>3. /\ inbox[t] = <<>> /\ outbox[t] = <<>>
        /\ \A c \in Clients : sock[c] = t => client[c] = "wait" /\ call[c] = thread[t].cmd
    <3>1. thread[t].at \in Serving
      BY <1>1 DEF Serving
    <3> QED BY <3>1, BusyThread DEF Putting, Getting, Serving
  <2>4. inbox' = [inbox EXCEPT ![t] = <<>>]
    BY <1>3, <2>3 DEF Shape, LinesTyped
  <2>5. Reply(t, "OK", data, thread[t].cmd)
    BY <1>5
  <2> HIDE DEF th, data
  <2>6. ThreadsTyped' /\ LinesTyped' /\ ClientsTyped' /\ Conversation'
    BY <1>3, <2>1, <2>2, <2>3, <2>4, <2>5, AnswerShape
  <2> QED BY <2>6, <1>2
<1> QED BY <1>4, <1>5 DEF Read

LEMMA ListShape ==
    ASSUME Shape, NEW t \in Threads, List(t)
    PROVE  ThreadsTyped' /\ LinesTyped' /\ ClientsTyped' /\ BrokerTyped' /\ Conversation'
<1>1. ThreadOK(t) /\ thread = [u \in Threads |-> thread[u]] /\ thread[t].at = "list"
      /\ thread[t].at \in Serving
  BY DEF Shape, ThreadsTyped, List, Serving
<1>2. BrokerTyped'
  BY DEF List, Shape, BrokerTyped
<1>3. UNCHANGED clients /\ inbox' = inbox
  BY DEF List
<1>4. ASSUME NEW n \in thread[t].left, thread' = [thread EXCEPT ![t] = Sees(t, n)],
             outbox' = outbox
      PROVE  ThreadsTyped' /\ LinesTyped' /\ ClientsTyped' /\ Conversation'
  <2> DEFINE th == Sees(t, n)
  <2>1. thread' = [thread EXCEPT ![t] = th] /\ thread'[t] = th
    BY <1>1, <1>4
  <2>2. Listing(n, thread[t].cmd.arg) \subseteq Keys
    BY DEF Listing
  <2>3. ThreadOK(t)'
    BY <1>1, <2>1, <2>2 DEF Sees, Seen, ThreadOK, Places, HasFile, Putting, Getting
  <2>4. th.cmd = thread[t].cmd /\ th.at \in Serving
    BY DEF Sees, Seen, Serving
  <2> HIDE DEF th
  <2> QED BY <1>1, <1>3, <1>4, <2>1, <2>3, <2>4, WorkShape
<1>5. CASE /\ Reply(t, "OK", thread[t].found, thread[t].cmd)
           /\ thread' = [thread EXCEPT ![t] = [Idle EXCEPT !.at = "recv"]]
  <2> DEFINE th == [Idle EXCEPT !.at = "recv"]
             data == thread[t].found
  <2>1. thread' = [thread EXCEPT ![t] = th] /\ thread'[t] = th
    BY <1>1, <1>5
  <2>2. th.at = "recv" /\ ThreadOK(t)'
    BY <2>1, IdleShape DEF ThreadOK, Idle, Task, Places, HasFile, Putting, Getting, Serving
  <2>3. /\ inbox[t] = <<>> /\ outbox[t] = <<>>
        /\ \A c \in Clients : sock[c] = t => client[c] = "wait" /\ call[c] = thread[t].cmd
    BY <1>1, BusyThread DEF Putting, Getting, Serving
  <2>4. inbox' = [inbox EXCEPT ![t] = <<>>]
    BY <1>3, <2>3 DEF Shape, LinesTyped
  <2>5. Reply(t, "OK", data, thread[t].cmd)
    BY <1>5
  <2> HIDE DEF th, data
  <2>6. ThreadsTyped' /\ LinesTyped' /\ ClientsTyped' /\ Conversation'
    BY <1>3, <2>1, <2>2, <2>3, <2>4, <2>5, AnswerShape
  <2> QED BY <2>6, <1>2
<1> QED BY <1>2, <1>4, <1>5, ListForms

LEMMA HangupShape ==
    ASSUME Shape, NEW t \in Threads, Hangup(t)
    PROVE  ThreadsTyped' /\ LinesTyped' /\ ClientsTyped' /\ BrokerTyped' /\ Conversation'
<1>1. /\ thread' = [u \in Threads |-> IF u = t THEN thread'[u] ELSE thread[u]]
      /\ thread'[t] = Idle
  BY DEF Hangup, Shape, ThreadsTyped
<1>2. /\ inbox' = [u \in Threads |-> IF u = t THEN inbox'[u] ELSE inbox[u]]
      /\ inbox'[t] = <<>>
  BY DEF Hangup, Shape, LinesTyped
<1>3. /\ outbox' = [u \in Threads |-> IF u = t THEN outbox'[u] ELSE outbox[u]]
      /\ outbox'[t] = <<>>
  BY DEF Hangup, Shape, LinesTyped
<1>4. ThreadOK(t)'
  BY <1>1, IdleShape DEF ThreadOK, Idle, Task, HasFile, Putting, Getting, Serving
<1>5. LineOK(t)'
  BY <1>2, <1>3 DEF LineOK
<1>6. \A c \in Clients : sock[c] # t
  BY DEF Hangup, Connected
<1>7. BrokerTyped' /\ UNCHANGED clients
  BY DEF Hangup, Shape, BrokerTyped
<1> QED BY <1>1, <1>2, <1>3, <1>4, <1>5, <1>6, <1>7, ServeFrame

LEMMA CrashShape ==
    ASSUME Shape, Crash
    PROVE  ThreadsTyped' /\ LinesTyped' /\ ClientsTyped' /\ BrokerTyped' /\ Conversation'
<1>1. BrokerTyped'
  <2>1. crashes \in 0..MaxCrashes /\ crashes < MaxCrashes /\ MaxCrashes \in Nat
        /\ FailAfterPuts \in Nat
    BY BrokerAssumption DEF Crash, Shape, BrokerTyped
  <2>2. crashes + 1 \in 0..MaxCrashes /\ 0 \in 0..FailAfterPuts
    BY <2>1
  <2> QED BY <2>2 DEF Crash, Dies, Shape, BrokerTyped
<1> QED BY <1>1, DiesShape DEF Crash

LEMMA SameShape ==
    ASSUME Shape, UNCHANGED <<thread, inbox, outbox, clients, puts, acked, crashes>>,
           up' \in BOOLEAN
    PROVE  ThreadsTyped' /\ LinesTyped' /\ ClientsTyped' /\ BrokerTyped' /\ Conversation'
<1> USE DEF Shape, clients
<1>1. ThreadsTyped'
  BY DEF ThreadsTyped, ThreadOK
<1>2. LinesTyped'
  BY DEF LinesTyped, LineOK
<1>3. ClientsTyped'
  BY DEF ClientsTyped
<1>4. BrokerTyped'
  BY DEF BrokerTyped
<1>5. Conversation'
  BY DEF Conversation, ClientOK, Arrived, Served, Answered, Quiet
<1> QED BY <1>1, <1>2, <1>3, <1>4, <1>5

LEMMA NextShape ==
    ASSUME Shape, [Next]_vars
    PROVE  Shape'
<1>1. CASE Next
  <2>1. FilesTyped'
    BY <1>1, FilesStep
  <2>2. ThreadsTyped' /\ LinesTyped' /\ ClientsTyped' /\ BrokerTyped' /\ Conversation'
    <3>1. ASSUME NEW c \in Clients, Run(c)
          PROVE  ThreadsTyped' /\ LinesTyped' /\ ClientsTyped' /\ BrokerTyped' /\ Conversation'
      BY <3>1, SendShape, RefusedShape, TimesOutShape, ReturnShape DEF Run
    <3>2. ASSUME NEW t \in Threads, Serve(t)
          PROVE  ThreadsTyped' /\ LinesTyped' /\ ClientsTyped' /\ BrokerTyped' /\ Conversation'
      BY <3>2, RecvShape, OpenTmpShape, WriteShape, ReplaceShape, CountPutShape, ReadShape,
         ListShape, HangupShape DEF Serve
    <3>3. ASSUME Restart
          PROVE  ThreadsTyped' /\ LinesTyped' /\ ClientsTyped' /\ BrokerTyped' /\ Conversation'
      BY <3>3, SameShape DEF Restart
    <3> QED BY <1>1, <3>1, <3>2, <3>3, CallShape, CrashShape DEF Next
  <2> QED BY <2>1, <2>2 DEF Shape
<1>2. CASE UNCHANGED vars
  <2>1. FilesTyped'
    BY <1>2 DEF vars, storage, Shape, FilesTyped
  <2>2. ThreadsTyped' /\ LinesTyped' /\ ClientsTyped' /\ BrokerTyped' /\ Conversation'
    BY <1>2, SameShape DEF vars, broker, Shape, BrokerTyped
  <2> QED BY <2>1, <2>2 DEF Shape
<1> QED BY <1>1, <1>2

LEMMA AlwaysShape == Spec => []Shape
BY InitShape, NextShape, PTL DEF Spec

\* However clients time out, connections break and the broker dies, its files,
\* threads, connections and clients keep their shape, and a thread that is not
\* serving has no connection (_serve_client, _run).
THEOREM BrokerTypeCorrect == Spec => []TypeOK
<1>1. ASSUME Shape PROVE TypeOK
  <2> USE <1>1 DEF Shape
  <2>1. \A t \in Threads :
          /\ thread[t].at \in Places
          /\ thread[t].at \in HasFile => thread[t].fd \in Inodes
          /\ thread[t].at = "free" => ~ Connected(t) /\ inbox[t] = <<>> /\ outbox[t] = <<>>
    BY FreeIsAlone DEF ThreadsTyped, ThreadOK
  <2>2. \A c \in Clients : /\ client[c] \in {"idle", "try", "wait"}
                           /\ sock[c] \in Threads \cup {None, Dead}
                           /\ client[c] # "idle" => call[c] \in Commands
                           /\ attempt[c] \in 0..MAX_ATTEMPTS
    BY RequestShape DEF ClientsTyped
  <2> QED BY <2>1, <2>2 DEF TypeOK, FilesTyped, BrokerTyped, Places, HasFile
<1> QED BY <1>1, AlwaysShape, PTL

\* The reply a client reads is the reply to the call it is in: an attempt that
\* failed leaves nothing behind that a later call could take for its answer,
\* because its connection is dropped (_run, _drop).
THEOREM RepliesAlwaysMatch == Spec => []RepliesMatch
<1>1. ASSUME Shape PROVE RepliesMatch
  BY <1>1 DEF Shape, Conversation, ClientOK, Arrived, Served, Answered, RepliesMatch
<1> QED BY <1>1, AlwaysShape, PTL
-----------------------------------------------------------------------------
(* Half-written files, when nobody stops a thread half way and one key     *)
(* stands for one blob.                                                    *)

NobodyDies == MaxCrashes = 0 /\ FailAfterPuts = 0
OneBlobPerKey == \A k \in Keys : \A b, c \in Payload[k] : b = c

NamedBy(k, n) == blob[k] = n \/ tmp[k] = n

NamesDiffer ==
    \A k, l \in Keys : \A n \in Inodes :
        /\ NamedBy(k, n) /\ NamedBy(l, n) => k = l
        /\ ~ (blob[k] = n /\ tmp[l] = n)

\* Where a thread still has to write a half of its file.
ToWrite(h) == IF h = 1 THEN {"write1"} ELSE {"write1", "write2"}

FilledIn ==
    \A k \in Keys : \A n \in Inodes : NamedBy(k, n) =>
        \A h \in Halves :
            \/ content[n][h] \in Payload[k]
            \/ \E t \in Threads : thread[t].fd = n /\ thread[t].at \in ToWrite(h)

\* A thread writes to a file of its key, or to one that has no name any more.
WritesItsKey ==
    \A t \in Threads : thread[t].at \in {"write1", "write2"} =>
        \A k \in Keys : NamedBy(k, thread[t].fd) => thread[t].cmd.arg = k

Intact == NamesDiffer /\ FilledIn /\ WritesItsKey

LEMMA IntactInit == Init => Intact
<1> SUFFICES ASSUME Init PROVE Intact
  OBVIOUS
<1>1. \A k \in Keys : \A n \in Inodes : ~ NamedBy(k, n)
  BY BrokerAssumption DEF Init, NamedBy
<1>2. \A t \in Threads : thread[t].at = "free"
  BY DEF Init, Idle, Task
<1> QED BY <1>1, <1>2 DEF Intact, NamesDiffer, FilledIn, WritesItsKey, NamedBy

\* The steps that touch no file leave those who write to one alone.
LEMMA OtherSteps ==
    ASSUME Shape, NobodyDies, Next,
           \A t \in Threads : ~ OpenTmp(t) /\ ~ Write(t) /\ ~ Replace(t)
    PROVE  /\ UNCHANGED storage
           /\ \A t \in Threads :
                \/ thread'[t] = thread[t]
                \/ thread[t].at \notin {"write1", "write2"} /\ thread'[t].at \notin {"write1", "write2"}
<1> DEFINE Goal == /\ UNCHANGED storage
                   /\ \A t \in Threads :
                        \/ thread'[t] = thread[t]
                        \/ /\ thread[t].at \notin {"write1", "write2"}
                           /\ thread'[t].at \notin {"write1", "write2"}
<1> USE DEF storage, broker
<1>1. thread = [t \in Threads |-> thread[t]] /\ \A t \in Threads : ThreadOK(t)
  BY DEF Shape, ThreadsTyped
<1>2. ASSUME NEW c \in Clients, NEW cmd \in Commands, Call(c, cmd) PROVE Goal
  BY <1>2 DEF Call
<1>3. ASSUME NEW c \in Clients, Send(c) PROVE Goal
  <2>1. PICK t \in Threads :
          /\ \/ sock[c] = None /\ thread[t].at = "free"
             \/ sock[c] = t
          /\ thread' = IF sock[c] = None THEN [thread EXCEPT ![t].at = "recv"] ELSE thread
    BY <1>3 DEF Send
  <2>2. CASE thread' = thread
    BY <1>3, <2>2 DEF Send
  <2>3. CASE thread[t].at = "free" /\ thread' = [thread EXCEPT ![t].at = "recv"]
    <3>1. thread'[t].at = "recv"
      BY <1>1, <2>3 DEF ThreadOK
    <3>2. \A u \in Threads \ {t} : thread'[u] = thread[u]
      BY <1>1, <2>3
    <3> QED BY <1>3, <2>3, <3>1, <3>2 DEF Send
  <2> QED BY <2>1, <2>2, <2>3, BrokerAssumption
<1>4. ASSUME NEW c \in Clients, Refused(c) \/ TimesOut(c) \/ Return(c) PROVE Goal
  BY <1>4 DEF Refused, TimesOut, Return
<1>5. ASSUME NEW t \in Threads, Recv(t) PROVE Goal
  <2>1. thread[t].at = "recv" /\ UNCHANGED storage
    BY <1>5 DEF Recv
  <2>2. \/ thread' = thread
        \/ \E cmd : thread' = [thread EXCEPT ![t].at = "open", ![t].cmd = cmd]
        \/ \E cmd : thread' = [thread EXCEPT ![t] = Opened(cmd)]
        \/ \E cmd : thread' = [thread EXCEPT ![t] = SetsOut(cmd)]
    BY <1>5, RecvForms
  <2>3. \A u \in Threads \ {t} : thread'[u] = thread[u]
    BY <1>1, <2>2
  <2>4. thread'[t].at \in {"recv", "open", "read1", "list"}
    <3>1. CASE thread' = thread
      BY <2>1, <3>1
    <3>2. ASSUME NEW cmd, thread' = [thread EXCEPT ![t].at = "open", ![t].cmd = cmd]
          PROVE  thread'[t].at = "open"
      <4>1. [thread[t] EXCEPT !.at = "open"] =
              [at |-> "open", cmd |-> thread[t].cmd, fd |-> thread[t].fd, got |-> thread[t].got,
                    left |-> thread[t].left, found |-> thread[t].found]
        BY <1>1 DEF ThreadOK
      <4>2. thread'[t] = [[thread[t] EXCEPT !.at = "open"] EXCEPT !.cmd = cmd]
        BY <1>1, <3>2
      <4> QED BY <4>1, <4>2
    <3>3. ASSUME NEW cmd, thread' = [thread EXCEPT ![t] = Opened(cmd)]
          PROVE  thread'[t].at = "read1"
      BY <1>1, <3>3 DEF Opened, Task
    <3>4. ASSUME NEW cmd, thread' = [thread EXCEPT ![t] = SetsOut(cmd)]
          PROVE  thread'[t].at = "list"
      BY <1>1, <3>4 DEF SetsOut, Task
    <3> QED BY <2>2, <3>1, <3>2, <3>3, <3>4
  <2> QED BY <2>1, <2>3, <2>4
<1>6. ASSUME NEW t \in Threads, CountPut(t) PROVE Goal
  BY <1>1, <1>6, BrokerAssumption DEF CountPut, NobodyDies, Idle, Task
<1>7. ASSUME NEW t \in Threads, Read(t) PROVE Goal
  <2>1. thread[t].at \in Getting /\ UNCHANGED storage
    BY <1>7 DEF Read, Getting
  <2>2. \/ thread' = [thread EXCEPT ![t].at = "read2", ![t].got[1] = content[thread[t].fd][1]]
        \/ thread' = [thread EXCEPT ![t] = [Idle EXCEPT !.at = "recv"]]
    BY <1>7 DEF Read
  <2>3. \A u \in Threads \ {t} : thread'[u] = thread[u]
    BY <1>1, <2>2
  <2>4. thread'[t].at \in {"recv", "read2"}
    <3>1. CASE thread' = [thread EXCEPT ![t].at = "read2",
                                        ![t].got[1] = content[thread[t].fd][1]]
      <4>1. [thread[t] EXCEPT !.at = "read2"] =
              [at |-> "read2", cmd |-> thread[t].cmd, fd |-> thread[t].fd, got |-> thread[t].got,
                    left |-> thread[t].left, found |-> thread[t].found]
        BY <1>1 DEF ThreadOK
      <4>2. thread'[t] = [[thread[t] EXCEPT !.at = "read2"]
                             EXCEPT !.got[1] = content[thread[t].fd][1]]
        BY <1>1, <3>1
      <4> QED BY <4>1, <4>2
    <3>2. CASE thread' = [thread EXCEPT ![t] = [Idle EXCEPT !.at = "recv"]]
      BY <1>1, <3>2 DEF Idle, Task
    <3> QED BY <2>2, <3>1, <3>2
  <2> QED BY <2>1, <2>3, <2>4 DEF Getting, Serving
<1>8. ASSUME NEW t \in Threads, Hangup(t) PROVE Goal
  BY <1>1, <1>8 DEF Hangup, Idle, Task
<1>9. ASSUME NEW t \in Threads, List(t) PROVE Goal
  <2>1. thread[t].at = "list" /\ UNCHANGED storage
    BY <1>9 DEF List
  <2>2. \/ \E n : thread' = [thread EXCEPT ![t] = Sees(t, n)]
        \/ thread' = [thread EXCEPT ![t] = [Idle EXCEPT !.at = "recv"]]
    BY <1>9, ListForms
  <2>3. \A u \in Threads \ {t} : thread'[u] = thread[u]
    BY <1>1, <2>2
  <2>4. thread'[t].at \in {"recv", "list"}
    BY <1>1, <2>2 DEF Sees, Seen, Idle, Task
  <2> QED BY <2>1, <2>3, <2>4
<1>10. ~ Crash
  BY BrokerAssumption DEF Crash, NobodyDies, Shape, BrokerTyped
<1>11. ASSUME Restart PROVE Goal
  BY <1>11 DEF Restart
<1> QED BY <1>2, <1>3, <1>4, <1>5, <1>6, <1>7, <1>8, <1>9, <1>10, <1>11 DEF Next, Run, Serve

LEMMA IntactUndisturbed ==
    ASSUME Intact, UNCHANGED storage,
           \A t \in Threads :
                \/ thread'[t] = thread[t]
                \/ thread[t].at \notin {"write1", "write2"} /\ thread'[t].at \notin {"write1", "write2"}
    PROVE  Intact'
<1> USE DEF Intact, storage
<1>1. NamesDiffer'
  BY DEF NamesDiffer, NamedBy
<1>2. FilledIn'
  BY DEF FilledIn, NamedBy, ToWrite
<1>3. WritesItsKey'
  BY DEF WritesItsKey, NamedBy
<1> QED BY <1>1, <1>2, <1>3

\* What a thread that creates, writes or renames a file changes, point by point.
LEMMA OpenTmpFacts ==
    ASSUME Shape, NEW t \in Threads, OpenTmp(t)
    PROVE  \E n \in Inodes, k \in Keys \ Illegal :
             /\ k = thread[t].cmd.arg /\ thread[t].cmd \in Requests /\ thread[t].at = "open"
             /\ thread[t].cmd.op = "PUT"
             /\ n = tmp[k] \/ (tmp[k] = None /\ n \in Unused)
             /\ tmp'[k] = n /\ \A l \in Keys \ {k} : tmp'[l] = tmp[l]
             /\ content'[n] = Blank /\ \A m \in Inodes \ {n} : content'[m] = content[m]
             /\ thread'[t].at = "write1" /\ thread'[t].fd = n /\ thread'[t].cmd = thread[t].cmd
             /\ \A u \in Threads \ {t} : thread'[u] = thread[u]
<1> DEFINE k == thread[t].cmd.arg
           new == CHOOSE m \in Unused : TRUE
           n == IF tmp[k] = None THEN new ELSE tmp[k]
           th == [at |-> "write1", cmd |-> thread[t].cmd, fd |-> n, got |-> thread[t].got,
                    left |-> thread[t].left, found |-> thread[t].found]
<1>1. /\ ThreadOK(t) /\ thread = [u \in Threads |-> thread[u]]
      /\ tmp \in [Keys -> Inodes \cup {None}] /\ DOMAIN content = Inodes
  BY DEF Shape, ThreadsTyped, FilesTyped
<1>2. /\ thread[t].at = "open" /\ tmp' = [tmp EXCEPT ![k] = n]
      /\ content' = [content EXCEPT ![n] = Blank]
      /\ thread' = [thread EXCEPT ![t].at = "write1", ![t].fd = n]
  BY DEF OpenTmp
<1>3. k \in Keys \ Illegal /\ thread[t].cmd \in Requests /\ thread[t].cmd.op = "PUT"
  BY <1>1, <1>2, RequestShape DEF ThreadOK, Putting
<1>4. n \in Inodes /\ (n = tmp[k] \/ (tmp[k] = None /\ n \in Unused))
  <2>1. Unused # {}
    BY <1>1, <1>2, SomeUnused DEF Shape, ThreadOK, HasFile
  <2>2. new \in Unused /\ Unused \subseteq Inodes
    BY <2>1 DEF Unused
  <2> HIDE DEF new
  <2>3. CASE tmp[k] = None
    BY <2>2, <2>3
  <2>4. CASE tmp[k] # None
    <3> HIDE DEF k, th
    <3>1. tmp[k] \in Inodes
      BY <2>4, <1>1, <1>3
    <3> QED BY <2>4, <3>1
  <2> QED BY <2>3, <2>4
<1> HIDE DEF k, n
<1>5. [thread EXCEPT ![t].at = "write1", ![t].fd = n] = [thread EXCEPT ![t] = th]
  BY ThreadMoves, ZenonT(60)
<1>6. /\ thread'[t] = th /\ \A u \in Threads \ {t} : thread'[u] = thread[u]
  BY <1>1, <1>2, <1>5
<1>7. tmp'[k] = n /\ \A l \in Keys \ {k} : tmp'[l] = tmp[l]
  BY <1>1, <1>2, <1>3
<1>8. content'[n] = Blank /\ \A m \in Inodes \ {n} : content'[m] = content[m]
  BY <1>1, <1>2, <1>4
<1>9. k = thread[t].cmd.arg
  BY DEF k
<1>10. thread'[t].at = "write1" /\ thread'[t].fd = n /\ thread'[t].cmd = thread[t].cmd
  BY <1>6
<1> HIDE DEF th
<1> n \in Inodes /\ k \in Keys \ Illegal
  BY <1>3, <1>4
<1> WITNESS n \in Inodes, k \in Keys \ Illegal
<1> QED BY <1>2, <1>3, <1>4, <1>6, <1>7, <1>8, <1>9, <1>10

LEMMA WriteFacts ==
    ASSUME Shape, NEW t \in Threads, Write(t)
    PROVE  \E h \in Halves :
             /\ thread[t].at = (IF h = 1 THEN "write1" ELSE "write2")
             /\ thread[t].fd \in Inodes /\ thread[t].cmd \in Requests /\ thread[t].cmd.op = "PUT"
             /\ content'[thread[t].fd] = [content[thread[t].fd] EXCEPT ![h] = thread[t].cmd.data]
             /\ \A m \in Inodes \ {thread[t].fd} : content'[m] = content[m]
             /\ thread'[t].at = (IF h = 1 THEN "write2" ELSE "replace")
             /\ thread'[t].fd = thread[t].fd /\ thread'[t].cmd = thread[t].cmd
             /\ \A u \in Threads \ {t} : thread'[u] = thread[u]
<1>1. PICK h \in Halves :
        /\ thread[t].at = (IF h = 1 THEN "write1" ELSE "write2")
        /\ content' = [content EXCEPT ![thread[t].fd][h] = thread[t].cmd.data]
        /\ thread' = [thread EXCEPT ![t].at = IF h = 1 THEN "write2" ELSE "replace"]
  BY DEF Write, Goto, Halves
<1> DEFINE l == IF h = 1 THEN "write2" ELSE "replace"
           th == [at |-> l, cmd |-> thread[t].cmd, fd |-> thread[t].fd, got |-> thread[t].got,
                    left |-> thread[t].left, found |-> thread[t].found]
<1>2. ThreadOK(t) /\ thread = [u \in Threads |-> thread[u]] /\ DOMAIN content = Inodes
  BY DEF Shape, ThreadsTyped, FilesTyped
<1>3. thread[t].fd \in Inodes /\ thread[t].cmd \in Requests /\ thread[t].cmd.op = "PUT"
  BY <1>1, <1>2 DEF ThreadOK, HasFile, Putting
<1>4. [thread EXCEPT ![t].at = l] = [thread EXCEPT ![t] = th]
  BY ThreadMoves
<1>5. thread'[t] = th /\ \A u \in Threads \ {t} : thread'[u] = thread[u]
  BY <1>1, <1>2, <1>4
<1>6. /\ content'[thread[t].fd] = [content[thread[t].fd] EXCEPT ![h] = thread[t].cmd.data]
      /\ \A m \in Inodes \ {thread[t].fd} : content'[m] = content[m]
  BY <1>1, <1>2, <1>3
<1>7. thread'[t].at = l /\ thread'[t].fd = thread[t].fd /\ thread'[t].cmd = thread[t].cmd
  BY <1>5
<1> HIDE DEF th
<1> WITNESS h \in Halves
<1> QED BY <1>1, <1>3, <1>5, <1>6, <1>7

LEMMA IntactOpenTmp ==
    ASSUME Shape, Intact, NEW t \in Threads, OpenTmp(t)
    PROVE  Intact'
<1> USE BrokerAssumption
<1>1. PICK n \in Inodes, k \in Keys \ Illegal :
        /\ k = thread[t].cmd.arg /\ thread[t].at = "open"
        /\ n = tmp[k] \/ (tmp[k] = None /\ n \in Unused)
        /\ tmp'[k] = n /\ \A l \in Keys \ {k} : tmp'[l] = tmp[l]
        /\ content'[n] = Blank /\ \A m \in Inodes \ {n} : content'[m] = content[m]
        /\ thread'[t].at = "write1" /\ thread'[t].fd = n /\ thread'[t].cmd = thread[t].cmd
        /\ \A u \in Threads \ {t} : thread'[u] = thread[u]
  BY OpenTmpFacts
<1>2. blob' = blob
  BY DEF OpenTmp
<1>3. \A l \in Keys : \A m \in Inodes \ {n} : NamedBy(l, m)' = NamedBy(l, m)
  BY <1>1, <1>2 DEF NamedBy, Intact, NamesDiffer
<1>4. \A l \in Keys : NamedBy(l, n)' <=> l = k
  <2>1. CASE n = tmp[k]
    BY <2>1, <1>1, <1>2 DEF Intact, NamesDiffer, NamedBy
  <2>2. CASE tmp[k] = None /\ n \in Unused
    BY <2>2, <1>1, <1>2 DEF Unused, NamedBy
  <2> QED BY <1>1, <2>1, <2>2
<1>5. \A l \in Keys : blob[l] # n
  BY <1>1 DEF Unused, Intact, NamesDiffer
<1>6. NamesDiffer'
  <2>1. ASSUME NEW l \in Keys, NEW j \in Keys, NEW m \in Inodes,
               NamedBy(l, m)', NamedBy(j, m)' PROVE l = j
    BY <2>1, <1>3, <1>4 DEF Intact, NamesDiffer
  <2>2. ASSUME NEW l \in Keys, NEW j \in Keys, NEW m \in Inodes PROVE ~ (blob'[l] = m /\ tmp'[j] = m)
    BY <1>1, <1>2, <1>5 DEF Intact, NamesDiffer
  <2> QED BY <2>1, <2>2 DEF NamesDiffer
<1>7. FilledIn'
  <2>1. ASSUME NEW l \in Keys, NEW m \in Inodes, NamedBy(l, m)', NEW h \in Halves
        PROVE  \/ content'[m][h] \in Payload[l]
               \/ \E u \in Threads : thread'[u].fd = m /\ thread'[u].at \in ToWrite(h)
    <3>1. CASE m = n
      BY <3>1, <1>1 DEF ToWrite
    <3>2. CASE m # n
      <4>1. \/ content[m][h] \in Payload[l]
            \/ \E u \in Threads : thread[u].fd = m /\ thread[u].at \in ToWrite(h)
        BY <2>1, <3>2, <1>3 DEF Intact, FilledIn
      <4>2. content'[m] = content[m] /\ \A u \in Threads : thread[u].at \in ToWrite(h) => u # t
        BY <3>2, <1>1 DEF ToWrite
      <4> QED BY <4>1, <4>2, <1>1
    <3> QED BY <3>1, <3>2
  <2> QED BY <2>1 DEF FilledIn, ToWrite
<1>8. WritesItsKey'
  <2>1. ASSUME NEW u \in Threads, thread'[u].at \in {"write1", "write2"},
               NEW l \in Keys, NEW m, m = thread'[u].fd, NamedBy(l, m)'
        PROVE  thread'[u].cmd.arg = l
    <3>1. CASE m = n /\ u = t
      BY <3>1, <2>1, <1>1, <1>4
    <3>2. CASE m = n /\ u # t
      <4>1. l = k /\ thread[u].fd = n /\ thread'[u] = thread[u]
        BY <3>2, <2>1, <1>1, <1>4
      <4>2. n = tmp[k]
        BY <4>1, <1>1 DEF Unused
      <4>3. NamedBy(k, thread[u].fd)
        BY <4>1, <4>2 DEF NamedBy
      <4> QED BY <4>1, <4>3, <2>1 DEF Intact, WritesItsKey
    <3>3. CASE m # n
      <4>1. u # t /\ thread'[u] = thread[u]
        BY <3>3, <2>1, <1>1
      <4>2. m \in Inodes /\ m = thread[u].fd
        BY <4>1, <2>1 DEF Shape, ThreadsTyped, ThreadOK, HasFile
      <4>3. NamedBy(l, m)
        BY <4>2, <3>3, <2>1, <1>3
      <4> QED BY <4>1, <4>2, <4>3, <2>1 DEF Intact, WritesItsKey
    <3> QED BY <3>1, <3>2, <3>3
  <2> QED BY <2>1 DEF WritesItsKey, NamedBy
<1> QED BY <1>6, <1>7, <1>8 DEF Intact

LEMMA IntactWrite ==
    ASSUME Shape, Intact, NEW t \in Threads, Write(t)
    PROVE  Intact'
<1>1. PICK g \in Halves :
        /\ thread[t].at = (IF g = 1 THEN "write1" ELSE "write2")
        /\ thread[t].fd \in Inodes /\ thread[t].cmd \in Requests /\ thread[t].cmd.op = "PUT"
        /\ content'[thread[t].fd] = [content[thread[t].fd] EXCEPT ![g] = thread[t].cmd.data]
        /\ \A m \in Inodes \ {thread[t].fd} : content'[m] = content[m]
        /\ thread'[t].at = (IF g = 1 THEN "write2" ELSE "replace")
        /\ thread'[t].fd = thread[t].fd /\ thread'[t].cmd = thread[t].cmd
        /\ \A u \in Threads \ {t} : thread'[u] = thread[u]
  BY WriteFacts
<1>2. blob' = blob /\ tmp' = tmp
  BY DEF Write
<1>3. NamesDiffer'
  BY <1>2 DEF Intact, NamesDiffer, NamedBy
<1>4. FilledIn'
  <2>1. ASSUME NEW k \in Keys, NEW n \in Inodes, NamedBy(k, n), NEW h \in Halves
        PROVE  \/ content'[n][h] \in Payload[k]
               \/ \E u \in Threads : thread'[u].fd = n /\ thread'[u].at \in ToWrite(h)
    <3>1. \/ content[n][h] \in Payload[k]
          \/ \E u \in Threads : thread[u].fd = n /\ thread[u].at \in ToWrite(h)
      BY <2>1 DEF Intact, FilledIn
    <3>2. CASE n = thread[t].fd /\ h = g
      <4>1. thread[t].cmd.arg = k /\ thread[t].cmd.data \in Payload[k]
        BY <2>1, <3>2, <1>1, RequestShape DEF Intact, WritesItsKey
      <4>2. DOMAIN content[n] = Halves
        BY DEF Shape, FilesTyped
      <4>3. content'[n][h] = thread[t].cmd.data
        BY <3>2, <4>2, <1>1
      <4> QED BY <4>1, <4>3
    <3>3. CASE n # thread[t].fd \/ h # g
      <4>1. DOMAIN content[n] = Halves
        BY DEF Shape, FilesTyped
      <4>2. content'[n][h] = content[n][h]
        BY <3>3, <4>1, <1>1
      <4>3. ASSUME NEW u \in Threads, thread[u].fd = n, thread[u].at \in ToWrite(h)
            PROVE  thread'[u].fd = n /\ thread'[u].at \in ToWrite(h)
        <5>1. CASE u # t
          BY <5>1, <4>3, <1>1
        <5>2. CASE u = t
          BY <5>2, <4>3, <3>3, <1>1 DEF ToWrite, Halves
        <5> QED BY <5>1, <5>2
      <4> QED BY <3>1, <4>2, <4>3
    <3> QED BY <3>2, <3>3
  <2> QED BY <2>1, <1>2 DEF FilledIn, NamedBy, ToWrite
<1>5. WritesItsKey'
  BY <1>1, <1>2 DEF Intact, WritesItsKey, NamedBy
<1> QED BY <1>3, <1>4, <1>5 DEF Intact

LEMMA IntactReplace ==
    ASSUME Shape, Intact, NEW t \in Threads, Replace(t)
    PROVE  Intact'
<1> DEFINE k == thread[t].cmd.arg
<1> USE BrokerAssumption
<1>1. /\ thread = [u \in Threads |-> thread[u]] /\ ThreadOK(t) /\ thread[t].at = "replace"
      /\ blob \in [Keys -> Inodes \cup {None}] /\ tmp \in [Keys -> Inodes \cup {None}]
      /\ content' = content
  BY DEF Shape, ThreadsTyped, FilesTyped, Replace
<1>2. k \in Keys
  BY <1>1, RequestShape DEF ThreadOK, Putting
<1>3. /\ \A u \in Threads \ {t} : thread'[u] = thread[u]
      /\ thread'[t].at \in {"count", "free"}
  <2>1. CASE thread' = [thread EXCEPT ![t].at = "count", ![t].fd = None]
    <3>1. [thread EXCEPT ![t].at = "count", ![t].fd = None]
            = [thread EXCEPT ![t] = [at |-> "count", cmd |-> thread[t].cmd, fd |-> None,
                                     got |-> thread[t].got,
                    left |-> thread[t].left, found |-> thread[t].found]]
      BY ThreadMoves
    <3> QED BY <1>1, <2>1, <3>1
  <2>2. CASE thread' = [thread EXCEPT ![t] = Idle]
    BY <1>1, <2>2 DEF Idle, Task
  <2> QED BY <2>1, <2>2 DEF Replace
<1>4. /\ \A l \in Keys \ {k} : blob'[l] = blob[l] /\ tmp'[l] = tmp[l]
      /\ \/ blob'[k] = tmp[k] /\ tmp'[k] = None
         \/ blob'[k] = blob[k] /\ tmp'[k] = tmp[k]
  BY <1>1, <1>2 DEF Replace
<1> HIDE DEF k
<1>5. \A l \in Keys : \A n \in Inodes : NamedBy(l, n)' => NamedBy(l, n)
  BY <1>4, <1>2 DEF NamedBy
<1>6. NamesDiffer'
  <2>1. ASSUME NEW l \in Keys, NEW j \in Keys, NEW n \in Inodes PROVE ~ (blob'[l] = n /\ tmp'[j] = n)
    BY <1>2, <1>4 DEF Intact, NamesDiffer, NamedBy
  <2> QED BY <1>5, <2>1 DEF Intact, NamesDiffer
<1>7. FilledIn'
  BY <1>1, <1>3, <1>5 DEF Intact, FilledIn, ToWrite
<1>8. WritesItsKey'
  <2>1. ASSUME NEW u \in Threads, thread'[u].at \in {"write1", "write2"},
               NEW l \in Keys, NEW m, m = thread'[u].fd, NamedBy(l, m)'
        PROVE  thread'[u].cmd.arg = l
    <3>1. u # t /\ thread'[u] = thread[u]
      BY <2>1, <1>3
    <3>2. m \in Inodes /\ m = thread[u].fd
      BY <3>1, <2>1 DEF Shape, ThreadsTyped, ThreadOK, HasFile
    <3> QED BY <3>1, <3>2, <2>1, <1>5 DEF Intact, WritesItsKey
  <2> QED BY <2>1 DEF WritesItsKey, NamedBy
<1> QED BY <1>6, <1>7, <1>8 DEF Intact

\* However PUTs of one blob overlap -- a retry while the thread of the attempt
\* that timed out still writes the same <path>.tmp -- a file that can be read is
\* half-written only as long as some thread still has it to fill in, if the
\* broker does not die meanwhile (_handle_command).
THEOREM TornOnlyForAWhile ==
    ASSUME NobodyDies, OneBlobPerKey
    PROVE  Spec => []TornOnlyWhileWriting
<1>1. Shape /\ Intact /\ [Next]_vars => Intact'
  <2>1. ASSUME Shape, Intact, Next, NEW t \in Threads, OpenTmp(t) \/ Write(t) \/ Replace(t)
        PROVE  Intact'
    BY <2>1, IntactOpenTmp, IntactWrite, IntactReplace
  <2>2. ASSUME Shape, Intact, Next, \A t \in Threads : ~ OpenTmp(t) /\ ~ Write(t) /\ ~ Replace(t)
        PROVE  Intact'
    BY <2>2, OtherSteps, IntactUndisturbed
  <2>3. ASSUME Intact, UNCHANGED vars PROVE Intact'
    BY <2>3, IntactUndisturbed DEF vars, broker
  <2> QED BY <2>1, <2>2, <2>3
<1>2. Shape /\ Intact => TornOnlyWhileWriting
  <2> SUFFICES ASSUME Shape, Intact, NEW k \in Keys, blob[k] # None,
                      \A t \in Threads : ~ (/\ thread[t].fd = blob[k]
                                            /\ thread[t].at \in {"write1", "write2"})
               PROVE  \E b \in Payload[k] : content[blob[k]] = Whole(b)
    BY DEF TornOnlyWhileWriting
  <2>1. blob[k] \in Inodes /\ content[blob[k]] \in [Halves -> Blobs \cup {None}]
    BY DEF Shape, FilesTyped
  <2>2. \A h \in Halves : content[blob[k]][h] \in Payload[k]
    BY <2>1 DEF Intact, FilledIn, NamedBy, ToWrite
  <2>3. \A h \in Halves : content[blob[k]][h] = content[blob[k]][1]
    BY <2>2 DEF OneBlobPerKey, Halves
  <2>4. content[blob[k]] = Whole(content[blob[k]][1])
    BY <2>1, <2>3 DEF Whole
  <2> QED BY <2>2, <2>4 DEF Halves
<1> QED BY <1>1, <1>2, IntactInit, AlwaysShape, PTL DEF Spec
-----------------------------------------------------------------------------
(* The store, when no attempt times out and one client PUTs.               *)

Reliable == ~ Timeouts
SingleWriter == \A c, d \in Writers : c = d

Attended == \A t \in Threads : thread[t].at # "free" => Connected(t)

\* The calls that PUT are those of the writer, and nothing is acknowledged
\* under their key.
PutsByWriters ==
    \A c \in Clients : call[c] # None /\ call[c].op = "PUT"
        => c \in Writers /\ acked[call[c].arg] = None

Holds(n, k) == \E b \in Payload[k] : content[n] = Whole(b)

BlobsWhole ==
    /\ \A k \in Keys : blob[k] # None => Holds(blob[k], k)
    /\ \A k, l \in Keys : tmp[k] # None => tmp[k] # blob[l] /\ (tmp[k] = tmp[l] => k = l)

\* A reader has the whole of a blob open, and nobody writes to it.
ReaderSafe(t) ==
    thread[t].at \in Getting =>
        /\ Holds(thread[t].fd, thread[t].cmd.arg)
        /\ \A k \in Keys : tmp[k] # thread[t].fd
        /\ thread[t].at = "read2" => thread[t].got[1] = content[thread[t].fd][1]

HasStored(cmd) == blob[cmd.arg] # None /\ content[blob[cmd.arg]] = Whole(cmd.data)

\* A writer has what it wrote so far in the temporary file of its key.
WriterSafe(t) ==
    /\ thread[t].at \in {"write1", "write2", "replace"} => tmp[thread[t].cmd.arg] = thread[t].fd
    /\ thread[t].at \in {"write2", "replace"} => content[thread[t].fd][1] = thread[t].cmd.data
    /\ thread[t].at = "replace" => content[thread[t].fd][2] = thread[t].cmd.data
    /\ thread[t].at = "count" => HasStored(thread[t].cmd)

Truthful(m) ==
    /\ m.to.op = "PUT" /\ m.status = "OK" => HasStored(m.to)
    /\ m.to.op = "GET" /\ m.status = "OK" => \E b \in Payload[m.to.arg] : m.data = Whole(b)

ReplySafe(t) == outbox[t] # <<>> => Truthful(Head(outbox[t]))

\* What the files and the replies hold.
Sound == /\ Attended /\ PutsByWriters /\ BlobsWhole /\ AckedIsStored
         /\ \A t \in Threads : ReaderSafe(t) /\ WriterSafe(t) /\ ReplySafe(t)

LEMMA SoundInit == Init => Sound
<1> SUFFICES ASSUME Init PROVE Sound
  OBVIOUS
<1> USE BrokerAssumption DEF Init, Idle, Task
<1>1. Attended /\ PutsByWriters /\ BlobsWhole
  BY DEF Attended, PutsByWriters, BlobsWhole
<1>2. \A t \in Threads : ReaderSafe(t) /\ WriterSafe(t) /\ ReplySafe(t)
  BY DEF ReaderSafe, Getting, WriterSafe, ReplySafe
<1>3. AckedIsStored
  BY DEF AckedIsStored
<1> QED BY <1>1, <1>2, <1>3 DEF Sound

\* A command that a thread reads is the call of the client at the other end.
LEMMA RecvFacts ==
    ASSUME Shape, NEW t \in Threads, Recv(t)
    PROVE  \E cmd \in Requests :
             /\ cmd = Head(inbox[t]) /\ inbox[t] = <<cmd>> /\ outbox[t] = <<>>
             /\ thread[t].at = "recv"
             /\ \A c \in Clients : sock[c] = t => client[c] = "wait" /\ call[c] = cmd
             /\ UNCHANGED <<storage, clients, acked>>
             /\ \A u \in Threads \ {t} : thread'[u] = thread[u] /\ outbox'[u] = outbox[u]
             /\ \/ /\ outbox' = outbox
                   /\ cmd.op = "PUT" /\ cmd.arg \notin Illegal /\ thread'[t].at = "open"
                \/ /\ outbox' = outbox
                   /\ cmd.op = "GET" /\ cmd.arg \notin Illegal /\ blob[cmd.arg] # None
                   /\ thread'[t].at = "read1" /\ thread'[t].cmd = cmd
                   /\ thread'[t].fd = blob[cmd.arg]
                \/ /\ thread' = thread
                   /\ cmd.op = "PUT" /\ cmd.arg \in Illegal /\ Reply(t, "ERR", None, cmd)
                \/ /\ thread' = thread
                   /\ cmd.op \in {"GET", "STAT"} /\ (cmd.arg \in Illegal \/ blob[cmd.arg] = None)
                   /\ Reply(t, "MISSING", None, cmd)
                \/ /\ thread' = thread
                   /\ cmd.op = "STAT" /\ cmd.arg \notin Illegal /\ blob[cmd.arg] # None
                   /\ Reply(t, "OK", Size(content[blob[cmd.arg]]), cmd)
                \/ /\ outbox' = outbox
                   /\ cmd.op = "LIST" /\ thread'[t] = SetsOut(cmd)
<1>1. PICK cmd \in Requests : cmd = Head(inbox[t]) /\ inbox[t] = <<cmd>>
  <2>1. PICK q \in Requests : inbox[t] = <<q>>
    BY DEF Recv, Shape, LinesTyped, LineOK
  <2>2. Head(<<q>>) = q
    OBVIOUS
  <2> QED BY <2>1, <2>2
<1>2. thread[t].at = "recv" /\ outbox[t] = <<>> /\ inbox[t] # <<>>
  BY DEF Recv, Shape, LinesTyped, LineOK
<1>3. ASSUME NEW c \in Clients, sock[c] = t PROVE client[c] = "wait" /\ call[c] = cmd
  <2>1. \A q : Head(<<q>>) = q
    OBVIOUS
  <2> QED BY <2>1, <1>1, <1>2, <1>3
          DEF Shape, Conversation, ClientOK, Arrived, Served, Answered, Quiet, Putting, Getting, Serving
<1>4. UNCHANGED <<storage, clients, acked>>
  BY DEF Recv
<1>5. thread = [u \in Threads |-> thread[u]] /\ ThreadOK(t) /\ outbox = [u \in Threads |-> outbox[u]]
  BY DEF Shape, ThreadsTyped, LinesTyped
<1>6. \A status, data : Reply(t, status, data, cmd) =>
        \A u \in Threads \ {t} : outbox'[u] = outbox[u]
  BY <1>2, ReplyShape
<1>7. ASSUME thread' = [thread EXCEPT ![t].at = "open", ![t].cmd = cmd]
      PROVE  thread'[t].at = "open" /\ \A u \in Threads \ {t} : thread'[u] = thread[u]
  <2>1. [thread[t] EXCEPT !.at = "open"] =
          [at |-> "open", cmd |-> thread[t].cmd, fd |-> thread[t].fd, got |-> thread[t].got,
                    left |-> thread[t].left, found |-> thread[t].found]
    BY <1>5 DEF ThreadOK
  <2>2. thread'[t] = [[thread[t] EXCEPT !.at = "open"] EXCEPT !.cmd = cmd]
    BY <1>5, <1>7
  <2> QED BY <1>5, <1>7, <2>1, <2>2
<1>8. ASSUME thread' = [thread EXCEPT ![t] = Opened(cmd)]
      PROVE  /\ thread'[t].at = "read1" /\ thread'[t].cmd = cmd /\ thread'[t].fd = blob[cmd.arg]
             /\ \A u \in Threads \ {t} : thread'[u] = thread[u]
  BY <1>5, <1>8 DEF Opened, Task
<1>9. \/ /\ outbox' = outbox
         /\ cmd.op = "PUT" /\ cmd.arg \notin Illegal
         /\ thread' = [thread EXCEPT ![t].at = "open", ![t].cmd = cmd]
      \/ /\ outbox' = outbox
         /\ cmd.op = "GET" /\ cmd.arg \notin Illegal /\ blob[cmd.arg] # None
         /\ thread' = [thread EXCEPT ![t] = Opened(cmd)]
      \/ /\ thread' = thread
         /\ cmd.op = "PUT" /\ cmd.arg \in Illegal /\ Reply(t, "ERR", None, cmd)
      \/ /\ thread' = thread
         /\ cmd.op \in {"GET", "STAT"} /\ (cmd.arg \in Illegal \/ blob[cmd.arg] = None)
         /\ Reply(t, "MISSING", None, cmd)
      \/ /\ thread' = thread
         /\ cmd.op = "STAT" /\ cmd.arg \notin Illegal /\ blob[cmd.arg] # None
         /\ Reply(t, "OK", Size(content[blob[cmd.arg]]), cmd)
      \/ /\ outbox' = outbox
         /\ cmd.op = "LIST" /\ thread' = [thread EXCEPT ![t] = SetsOut(cmd)]
  BY <1>1 DEF Recv, Opened, SetsOut
<1>10. ASSUME thread' = [thread EXCEPT ![t] = SetsOut(cmd)]
       PROVE  thread'[t] = SetsOut(cmd) /\ \A u \in Threads \ {t} : thread'[u] = thread[u]
  BY <1>5, <1>10
<1>11. \A u \in Threads \ {t} : thread'[u] = thread[u] /\ outbox'[u] = outbox[u]
  BY <1>6, <1>7, <1>8, <1>9, <1>10
<1> WITNESS cmd \in Requests
<1> QED BY <1>1, <1>2, <1>3, <1>4, <1>7, <1>8, <1>9, <1>10, <1>11

\* LIST: what one directory more holds, or the reply.
LEMMA ListFacts ==
    ASSUME Shape, NEW t \in Threads, List(t)
    PROVE  /\ UNCHANGED <<storage, clients, acked>>
           /\ thread[t].at = "list" /\ outbox[t] = <<>>
           /\ thread[t].cmd \in Requests /\ thread[t].cmd.op = "LIST"
           /\ \A u \in Threads \ {t} : thread'[u] = thread[u] /\ outbox'[u] = outbox[u]
           /\ \/ \E n \in thread[t].left :
                    /\ \A m \in thread[t].left : n <= m
                    /\ thread'[t] = Sees(t, n)
                    /\ outbox' = outbox
              \/ /\ thread[t].left = {} /\ thread'[t].at = "recv"
                 /\ Reply(t, "OK", thread[t].found, thread[t].cmd)
<1>1. /\ thread = [u \in Threads |-> thread[u]] /\ ThreadOK(t) /\ thread[t].at = "list"
      /\ outbox[t] = <<>>
  BY BusyThread DEF Shape, ThreadsTyped, List, Serving
<1>2. UNCHANGED <<storage, clients, acked>>
  BY DEF List
<1>3. ASSUME NEW n \in thread[t].left, \A m \in thread[t].left : n <= m,
             thread' = [thread EXCEPT ![t] = Sees(t, n)], outbox' = outbox
      PROVE  /\ thread'[t] = Sees(t, n)
             /\ \A u \in Threads \ {t} : thread'[u] = thread[u] /\ outbox'[u] = outbox[u]
  BY <1>1, <1>3
<1>4. ASSUME Reply(t, "OK", thread[t].found, thread[t].cmd),
             thread' = [thread EXCEPT ![t] = [Idle EXCEPT !.at = "recv"]]
      PROVE  /\ thread'[t].at = "recv"
             /\ \A u \in Threads \ {t} : thread'[u] = thread[u] /\ outbox'[u] = outbox[u]
  <2>1. thread'[t].at = "recv" /\ \A u \in Threads \ {t} : thread'[u] = thread[u]
    BY <1>1, <1>4 DEF Idle, Task
  <2>2. \A u \in Threads \ {t} : outbox'[u] = outbox[u]
    BY <1>1, <1>4, ReplyShape
  <2> QED BY <2>1, <2>2
<1>5. thread[t].cmd \in Requests /\ thread[t].cmd.op = "LIST"
  BY <1>1 DEF ThreadOK
<1> QED BY <1>1, <1>2, <1>3, <1>4, <1>5, ListForms

\* f.read(): a half more, or all of it and the reply.
LEMMA ReadFacts ==
    ASSUME Shape, NEW t \in Threads, Read(t)
    PROVE  /\ UNCHANGED <<storage, clients, acked>>
           /\ \A u \in Threads \ {t} : thread'[u] = thread[u] /\ outbox'[u] = outbox[u]
           /\ \/ /\ thread[t].at = "read1" /\ outbox' = outbox
                 /\ thread'[t].at = "read2" /\ thread'[t].fd = thread[t].fd
                 /\ thread'[t].cmd = thread[t].cmd
                 /\ thread'[t].got[1] = content[thread[t].fd][1]
              \/ /\ thread[t].at = "read2" /\ thread'[t].at = "recv" /\ outbox[t] = <<>>
                 /\ Reply(t, "OK", [thread[t].got EXCEPT ![2] = content[thread[t].fd][2]],
                          thread[t].cmd)
<1>1. /\ thread = [u \in Threads |-> thread[u]] /\ ThreadOK(t) /\ thread[t].at \in Getting
      /\ outbox[t] = <<>>
  BY BusyThread DEF Serving, Shape, ThreadsTyped, Read, Getting
<1>2. UNCHANGED <<storage, clients, acked>>
  BY DEF Read
<1>3. CASE /\ thread[t].at = "read1" /\ outbox' = outbox
           /\ thread' = [thread EXCEPT ![t].at = "read2",
                                       ![t].got[1] = content[thread[t].fd][1]]
  <2> DEFINE a == [at |-> "read2", cmd |-> thread[t].cmd, fd |-> thread[t].fd,
                   got |-> thread[t].got,
                    left |-> thread[t].left, found |-> thread[t].found]
  <2>1. [thread[t] EXCEPT !.at = "read2"] = a
    BY <1>1 DEF ThreadOK
  <2>2. thread'[t] = [[thread[t] EXCEPT !.at = "read2"]
                         EXCEPT !.got[1] = content[thread[t].fd][1]]
    BY <1>1, <1>3
  <2>3. thread'[t] = [a EXCEPT !.got = [thread[t].got EXCEPT ![1] = content[thread[t].fd][1]]]
    BY <2>1, <2>2
  <2>4. DOMAIN thread[t].got = Halves
    BY <1>1 DEF ThreadOK
  <2>5. /\ thread'[t].at = "read2" /\ thread'[t].fd = thread[t].fd
        /\ thread'[t].cmd = thread[t].cmd
        /\ thread'[t].got[1] = content[thread[t].fd][1]
    BY <2>3, <2>4 DEF Halves
  <2>6. \A u \in Threads \ {t} : thread'[u] = thread[u] /\ outbox'[u] = outbox[u]
    BY <1>1, <1>3
  <2> QED BY <1>2, <1>3, <2>5, <2>6
<1>4. CASE /\ thread[t].at = "read2"
           /\ Reply(t, "OK", [thread[t].got EXCEPT ![2] = content[thread[t].fd][2]],
                    thread[t].cmd)
           /\ thread' = [thread EXCEPT ![t] = [Idle EXCEPT !.at = "recv"]]
  <2>1. thread'[t].at = "recv" /\ \A u \in Threads \ {t} : thread'[u] = thread[u]
    BY <1>1, <1>4 DEF Idle, Task
  <2>2. \A u \in Threads \ {t} : outbox'[u] = outbox[u]
    BY <1>1, <1>4, ReplyShape
  <2> QED BY <1>1, <1>2, <1>4, <2>1, <2>2
<1> QED BY <1>3, <1>4 DEF Read

\* os.replace: it moves the file of <path>.tmp if there is one.
LEMMA ReplaceFacts ==
    ASSUME Shape, NEW t \in Threads, Replace(t)
    PROVE  \E k \in Keys \ Illegal :
             /\ k = thread[t].cmd.arg /\ thread[t].cmd \in Requests
             /\ thread[t].cmd.op = "PUT" /\ thread[t].at = "replace"
             /\ UNCHANGED <<content, client, call, attempt, acked>>
             /\ \A u \in Threads \ {t} : thread'[u] = thread[u] /\ outbox'[u] = outbox[u]
             /\ tmp[k] # None =>
                  /\ blob'[k] = tmp[k] /\ tmp'[k] = None
                  /\ \A l \in Keys \ {k} : blob'[l] = blob[l] /\ tmp'[l] = tmp[l]
                  /\ blob' = [blob EXCEPT ![k] = tmp[k]]
                  /\ thread'[t].at = "count" /\ thread'[t].cmd = thread[t].cmd
                  /\ outbox' = outbox /\ sock' = sock
<1> DEFINE k == thread[t].cmd.arg
<1>1. /\ thread = [u \in Threads |-> thread[u]] /\ ThreadOK(t) /\ thread[t].at = "replace"
      /\ blob \in [Keys -> Inodes \cup {None}] /\ tmp \in [Keys -> Inodes \cup {None}]
      /\ outbox = [u \in Threads |-> outbox[u]]
  BY DEF Shape, ThreadsTyped, FilesTyped, LinesTyped, Replace
<1>2. k \in Keys \ Illegal /\ thread[t].cmd \in Requests /\ thread[t].cmd.op = "PUT"
  BY <1>1, RequestShape DEF ThreadOK, Putting
<1>3. ASSUME thread' = [thread EXCEPT ![t].at = "count", ![t].fd = None]
      PROVE  /\ thread'[t].at = "count" /\ thread'[t].cmd = thread[t].cmd
             /\ \A u \in Threads \ {t} : thread'[u] = thread[u]
  <2>1. [thread EXCEPT ![t].at = "count", ![t].fd = None]
          = [thread EXCEPT ![t] = [at |-> "count", cmd |-> thread[t].cmd, fd |-> None,
                                   got |-> thread[t].got,
                    left |-> thread[t].left, found |-> thread[t].found]]
    BY ThreadMoves, ZenonT(60)
  <2> QED BY <1>1, <1>3, <2>1
<1>4. \A u \in Threads \ {t} : thread'[u] = thread[u] /\ outbox'[u] = outbox[u]
  BY <1>1, <1>3 DEF Replace
<1>5. UNCHANGED <<content, client, call, attempt, acked>>
  BY DEF Replace
<1>6. ASSUME tmp[k] # None
      PROVE  /\ blob' = [blob EXCEPT ![k] = tmp[k]] /\ tmp' = [tmp EXCEPT ![k] = None]
             /\ thread' = [thread EXCEPT ![t].at = "count", ![t].fd = None]
             /\ outbox' = outbox /\ sock' = sock
  BY <1>6 DEF Replace
<1> HIDE DEF k
<1>7. k = thread[t].cmd.arg
  BY DEF k
<1> k \in Keys \ Illegal
  BY <1>2
<1> WITNESS k \in Keys \ Illegal
<1> QED BY <1>1, <1>2, <1>3, <1>4, <1>5, <1>6, <1>7

\* The writer waits for the PUT that is being served, and nothing else of it
\* is under way.
LEMMA PutOwner ==
    ASSUME Shape, Attended, PutsByWriters, NEW t \in Threads, thread[t].at \in Putting
    PROVE  \E c \in Writers : /\ sock[c] = t /\ client[c] = "wait" /\ call[c] = thread[t].cmd
                              /\ acked[thread[t].cmd.arg] = None
<1>1. PICK c \in Clients : sock[c] = t
  BY DEF Attended, Connected, Putting
<1>2. client[c] = "wait" /\ call[c] = thread[t].cmd
  BY <1>1, BusyThread DEF Putting, Getting, Serving
<1>3. thread[t].cmd \in Requests /\ thread[t].cmd.op = "PUT"
  BY DEF Shape, ThreadsTyped, ThreadOK
<1> QED BY <1>1, <1>2, <1>3, RequestShape DEF PutsByWriters

LEMMA ReplyOwner ==
    ASSUME Shape, Attended, NEW t \in Threads, outbox[t] # <<>>
    PROVE  \E c \in Clients : /\ sock[c] = t /\ client[c] = "wait"
                              /\ call[c] = Head(outbox[t]).to /\ call[c] \in Requests
<1>1. thread[t].at = "recv"
  BY DEF Shape, LinesTyped, LineOK
<1>2. PICK c \in Clients : sock[c] = t
  BY <1>1 DEF Attended, Connected
<1>3. client[c] = "wait" /\ call[c] = Head(outbox[t]).to
  BY <1>2 DEF Shape, Conversation, ClientOK, Arrived, Served, Answered, Quiet
<1> QED BY <1>2, <1>3 DEF Shape, ClientsTyped

LEMMA SolePut ==
    ASSUME SingleWriter, Shape, Sound,
           NEW t \in Threads, thread[t].at \in Putting, NEW u \in Threads
    PROVE  /\ thread[u].at \in Putting => u = t
           /\ outbox[u] # <<>> => Head(outbox[u]).to.op # "PUT"
<1>1. PICK c \in Writers : sock[c] = t
  BY PutOwner DEF Sound
<1>2. ASSUME thread[u].at \in Putting PROVE u = t
  BY <1>1, <1>2, PutOwner DEF Sound, SingleWriter
<1>3. ASSUME outbox[u] # <<>>, Head(outbox[u]).to.op = "PUT" PROVE FALSE
  <2>1. PICK d \in Clients : /\ sock[d] = u /\ client[d] = "wait"
                             /\ call[d] = Head(outbox[u]).to /\ call[d] \in Requests
    BY <1>3, ReplyOwner DEF Sound
  <2>2. d \in Writers
    BY <1>3, <2>1, RequestShape DEF Sound, PutsByWriters
  <2>3. u = t
    BY <1>1, <2>1, <2>2 DEF SingleWriter
  <2> QED BY <1>3, <2>3, BusyThread DEF Putting, Getting, Serving
<1> QED BY <1>2, <1>3

\* A step that leaves the files alone.
LEMMA SoundFrame ==
    ASSUME Shape, Sound, UNCHANGED storage, Attended', PutsByWriters', AckedIsStored',
           \A t \in Threads : \/ thread'[t] = thread[t]
                              \/ thread'[t].at \in {"free", "recv", "open", "list"}
                              \/ ReaderSafe(t)' /\ thread'[t].at \in Getting,
           \A t \in Threads : \/ outbox'[t] = outbox[t]
                              \/ outbox'[t] = <<>>
                              \/ outbox'[t] = <<Head(outbox'[t])>> /\ Truthful(Head(outbox'[t]))
    PROVE  Sound'
<1> USE DEF storage
<1>1. BlobsWhole'
  BY DEF Sound, BlobsWhole, Holds
<1>2. ASSUME NEW t \in Threads PROVE ReaderSafe(t)'
  <2>1. CASE thread'[t] = thread[t]
    BY <2>1 DEF Sound, ReaderSafe, Holds
  <2>2. CASE thread'[t].at \in {"free", "recv", "open", "list"}
    BY <2>2 DEF ReaderSafe, Getting
  <2> QED BY <2>1, <2>2
<1>3. ASSUME NEW t \in Threads PROVE WriterSafe(t)'
  <2>1. CASE thread'[t] = thread[t]
    BY <2>1 DEF Sound, WriterSafe, HasStored
  <2>2. CASE thread'[t].at \in {"free", "recv", "open", "list"}
    BY <2>2 DEF WriterSafe
  <2>3. CASE thread'[t].at \in Getting
    BY <2>3 DEF WriterSafe, Getting
  <2> QED BY <2>1, <2>2, <2>3
<1>4. ASSUME NEW t \in Threads PROVE ReplySafe(t)'
  BY DEF Sound, ReplySafe, Truthful, HasStored
<1> QED BY <1>1, <1>2, <1>3, <1>4 DEF Sound

LEMMA SoundCall ==
    ASSUME SingleWriter, Shape, Sound, NEW c \in Clients, NEW cmd \in Commands, Call(c, cmd)
    PROVE  Sound'
<1>1. /\ cmd \in Requests /\ cmd # None /\ DOMAIN acked = Keys
      /\ cmd.op = "PUT" => cmd.arg \in Keys
      /\ DOMAIN call = Clients
  BY RequestShape DEF Call, Requests, Shape, BrokerTyped, ClientsTyped
<1>2. UNCHANGED <<storage, broker, sock>>
  BY DEF Call
<1>3. Attended'
  BY <1>2 DEF Sound, Attended, Connected, broker
<1>4. PutsByWriters'
  <2>1. call'[c] = cmd /\ \A d \in Clients \ {c} : call'[d] = call[d]
    BY <1>1 DEF Call
  <2>2. \A k \in Keys : acked[k] = None => acked'[k] = None
    BY <1>1 DEF Call
  <2>3. cmd.op = "PUT" => c \in Writers /\ acked'[cmd.arg] = None
    BY <1>1 DEF Call
  <2>4. \A d \in Clients : call[d] # None /\ call[d].op = "PUT" => call[d].arg \in Keys
    BY RequestShape DEF Shape, ClientsTyped
  <2> QED BY <2>1, <2>2, <2>3, <2>4 DEF Sound, PutsByWriters
<1>5. AckedIsStored'
  <2>1. \A k \in Keys : acked'[k] # None => acked'[k] = acked[k]
    BY <1>1 DEF Call
  <2> QED BY <1>2, <2>1 DEF Sound, AckedIsStored, storage
<1> QED BY <1>2, <1>3, <1>4, <1>5, SoundFrame DEF broker

LEMMA SoundSend ==
    ASSUME SingleWriter, Shape, Sound, NEW c \in Clients, Send(c)
    PROVE  Sound'
<1>1. PICK t \in Threads :
        /\ \/ sock[c] = None /\ thread[t].at = "free"
           \/ sock[c] = t
        /\ sock' = [sock EXCEPT ![c] = t]
        /\ thread' = IF sock[c] = None THEN [thread EXCEPT ![t].at = "recv"] ELSE thread
  BY DEF Send
<1>2. /\ thread = [u \in Threads |-> thread[u]] /\ ThreadOK(t) /\ DOMAIN sock = Clients
  BY DEF Shape, ThreadsTyped, ClientsTyped
<1>3. /\ \A u \in Threads \ {t} : thread'[u] = thread[u]
      /\ thread'[t] = thread[t] \/ thread'[t].at = "recv"
  <2>1. CASE thread' = thread
    BY <2>1
  <2>2. CASE thread' = [thread EXCEPT ![t].at = "recv"]
    BY <1>2, <2>2 DEF ThreadOK
  <2> QED BY <1>1, <2>1, <2>2
<1>4. UNCHANGED <<storage, outbox, call, acked>>
  BY DEF Send
<1>5. Attended'
  <2>1. sock'[c] = t /\ \A d \in Clients \ {c} : sock'[d] = sock[d]
    BY <1>1, <1>2
  <2>2. ASSUME NEW u \in Threads \ {t}, thread'[u].at # "free" PROVE \E d \in Clients : sock'[d] = u
    <3>1. PICK d \in Clients : sock[d] = u
      BY <1>3, <2>2 DEF Sound, Attended, Connected
    <3>2. d # c
      BY <1>1, <3>1, BrokerAssumption
    <3> QED BY <2>1, <3>1, <3>2
  <2> QED BY <2>1, <2>2 DEF Attended, Connected
<1>6. PutsByWriters' /\ AckedIsStored'
  BY <1>4 DEF Sound, PutsByWriters, AckedIsStored, storage
<1> QED BY <1>3, <1>4, <1>5, <1>6, SoundFrame

LEMMA SoundRefused ==
    ASSUME SingleWriter, Shape, Sound, NEW c \in Clients, Refused(c)
    PROVE  Sound'
<1>1. UNCHANGED <<storage, broker, acked>> /\ Failed(c) /\ sock[c] \notin Threads
  BY BrokerAssumption DEF Refused
<1>2. \A d \in Clients : sock[d] \in Threads => sock'[d] = sock[d]
  BY <1>1 DEF Failed, Shape, ClientsTyped
<1>3. \A d \in Clients : call'[d] \in {call[d], None}
  BY <1>1 DEF Failed, Shape, ClientsTyped
<1>4. Attended'
  BY <1>1, <1>2 DEF Sound, Attended, Connected, broker
<1>5. PutsByWriters' /\ AckedIsStored'
  BY <1>1, <1>3 DEF Sound, PutsByWriters, AckedIsStored, storage
<1> QED BY <1>1, <1>4, <1>5, SoundFrame DEF broker

LEMMA SoundReturn ==
    ASSUME SingleWriter, Shape, Sound, NEW c \in Clients, Return(c)
    PROVE  Sound'
<1> DEFINE t == sock[c]
<1>1. /\ t \in Threads /\ call[c] \in Requests /\ call[c] # None /\ outbox[t] # <<>>
      /\ outbox[t] = <<Head(outbox[t])>> /\ thread[t].at = "recv"
  BY RequestShape DEF Return, Shape, ClientsTyped, LinesTyped, LineOK
<1>2. Head(outbox[t]).to = call[c]
  BY <1>1 DEF Return, Shape, Conversation, ClientOK, Arrived, Served, Answered, Putting, Getting, Serving
<1>3. UNCHANGED <<storage, thread, sock>>
  BY DEF Return
<1>4. Attended'
  BY <1>3 DEF Sound, Attended, Connected
<1>5. \A u \in Threads : outbox'[u] \in {outbox[u], <<>>}
  <2>1. \A m : Tail(<<m>>) = <<>>
    OBVIOUS
  <2>2. outbox' = [outbox EXCEPT ![t] = Tail(outbox[t])]
    BY DEF Return
  <2> QED BY <1>1, <2>1, <2>2 DEF Shape, LinesTyped
<1>6. PutsByWriters'
  <2>1. call'[c] = None /\ \A d \in Clients \ {c} : call'[d] = call[d]
    BY DEF Return, Shape, ClientsTyped
  <2>2. ASSUME NEW d \in Clients \ {c}, call[d] # None, call[d].op = "PUT"
        PROVE  d \in Writers /\ acked'[call[d].arg] = None
    <3>1. d \in Writers /\ acked[call[d].arg] = None
      BY <2>2 DEF Sound, PutsByWriters
    <3>2. call[c].op # "PUT"
      BY <1>1, <2>2, <3>1 DEF Sound, PutsByWriters, SingleWriter
    <3> QED BY <3>1, <3>2 DEF Return
  <2> QED BY <2>1, <2>2 DEF PutsByWriters
<1>7. AckedIsStored'
  <2>1. CASE acked' = acked
    BY <1>3, <2>1 DEF Sound, AckedIsStored, storage
  <2>2. CASE /\ call[c].op = "PUT" /\ Head(outbox[t]).status = "OK"
             /\ acked' = [acked EXCEPT ![call[c].arg] = call[c].data]
    <3>1. HasStored(call[c])
      BY <1>1, <1>2, <2>2 DEF Sound, ReplySafe, Truthful
    <3>2. call[c].arg \in Keys /\ DOMAIN acked = Keys
      BY <1>1, <2>2, RequestShape DEF Shape, BrokerTyped
    <3> QED BY <1>3, <2>2, <3>1, <3>2 DEF Sound, AckedIsStored, HasStored, storage
  <2> QED BY <2>1, <2>2 DEF Return
<1> QED BY <1>3, <1>4, <1>5, <1>6, <1>7, SoundFrame

LEMMA SoundDies ==
    ASSUME Shape, Sound, Dies, UNCHANGED <<storage, call, acked>>
    PROVE  Sound'
<1>1. \A t \in Threads : thread'[t].at = "free" /\ outbox'[t] = <<>>
  BY DEF Dies, Idle, Task
<1>2. Attended'
  BY <1>1 DEF Attended
<1>3. PutsByWriters' /\ AckedIsStored'
  BY DEF Sound, PutsByWriters, AckedIsStored, storage
<1> QED BY <1>1, <1>2, <1>3, SoundFrame
LEMMA SoundRecv ==
    ASSUME Shape, Sound, NEW t \in Threads, Recv(t)
    PROVE  Sound'
<1>1. PICK cmd \in Requests :
        /\ cmd = Head(inbox[t]) /\ inbox[t] = <<cmd>> /\ outbox[t] = <<>>
        /\ thread[t].at = "recv"
        /\ UNCHANGED <<storage, clients, acked>>
        /\ \A u \in Threads \ {t} : thread'[u] = thread[u] /\ outbox'[u] = outbox[u]
        /\ \/ /\ outbox' = outbox
              /\ cmd.op = "PUT" /\ cmd.arg \notin Illegal /\ thread'[t].at = "open"
           \/ /\ outbox' = outbox
              /\ cmd.op = "GET" /\ cmd.arg \notin Illegal /\ blob[cmd.arg] # None
              /\ thread'[t].at = "read1" /\ thread'[t].cmd = cmd
              /\ thread'[t].fd = blob[cmd.arg]
           \/ /\ thread' = thread
              /\ cmd.op = "PUT" /\ cmd.arg \in Illegal /\ Reply(t, "ERR", None, cmd)
           \/ /\ thread' = thread
              /\ cmd.op \in {"GET", "STAT"} /\ (cmd.arg \in Illegal \/ blob[cmd.arg] = None)
              /\ Reply(t, "MISSING", None, cmd)
           \/ /\ thread' = thread
              /\ cmd.op = "STAT" /\ cmd.arg \notin Illegal /\ blob[cmd.arg] # None
              /\ Reply(t, "OK", Size(content[blob[cmd.arg]]), cmd)
           \/ /\ outbox' = outbox
              /\ cmd.op = "LIST" /\ thread'[t] = SetsOut(cmd)
  BY RecvFacts
<1>2. Attended'
  BY <1>1 DEF Sound, Attended, Connected, clients
<1>3. PutsByWriters' /\ AckedIsStored'
  BY <1>1 DEF Sound, PutsByWriters, AckedIsStored, clients, storage
<1>4. \/ thread'[t] = thread[t] \/ thread'[t].at \in {"open", "list"}
      \/ ReaderSafe(t)' /\ thread'[t].at \in Getting
  <2>1. CASE /\ cmd.op = "GET" /\ cmd.arg \notin Illegal /\ blob[cmd.arg] # None
             /\ thread'[t].at = "read1" /\ thread'[t].cmd = cmd
             /\ thread'[t].fd = blob[cmd.arg]
    <3>1. cmd.arg \in Keys /\ blob[cmd.arg] \in Inodes
      BY <2>1, RequestShape DEF Shape, FilesTyped
    <3>2. Holds(blob[cmd.arg], cmd.arg) /\ \A k \in Keys : tmp[k] # blob[cmd.arg]
      BY <2>1, <3>1 DEF Sound, BlobsWhole
    <3> QED BY <1>1, <2>1, <3>2 DEF ReaderSafe, Getting, Holds, storage
  <2>2. SetsOut(cmd).at = "list"
    BY DEF SetsOut, Task
  <2> QED BY <1>1, <2>1, <2>2
<1>5. \/ outbox'[t] \in {outbox[t], <<>>}
      \/ outbox'[t] = <<Head(outbox'[t])>> /\ Truthful(Head(outbox'[t]))
  <2>1. ASSUME NEW status, NEW data, Reply(t, status, data, cmd),
               status = "OK" => cmd.op \notin {"PUT", "GET"}
        PROVE  \/ outbox'[t] = <<>>
               \/ outbox'[t] = <<Head(outbox'[t])>> /\ Truthful(Head(outbox'[t]))
    <3> DEFINE m == [status |-> status, data |-> data, to |-> cmd]
    <3>1. outbox'[t] = IF Connected(t) THEN <<m>> ELSE <<>>
      BY <1>1, <2>1, ReplyShape
    <3>2. Head(<<m>>) = m /\ Truthful(m)
      BY <2>1 DEF Truthful
    <3> HIDE DEF m
    <3> QED BY <3>1, <3>2
  <2> QED BY <1>1, <2>1
<1>6. /\ \A u \in Threads : \/ thread'[u] = thread[u]
                            \/ thread'[u].at \in {"free", "recv", "open", "list"}
                            \/ ReaderSafe(u)' /\ thread'[u].at \in Getting
      /\ \A u \in Threads : \/ outbox'[u] = outbox[u]
                            \/ outbox'[u] = <<>>
                            \/ outbox'[u] = <<Head(outbox'[u])>> /\ Truthful(Head(outbox'[u]))
  BY <1>1, <1>4, <1>5
<1> QED BY <1>1, <1>2, <1>3, <1>6, SoundFrame

\* A reader that has both halves has the whole of one blob.
LEMMA BothHalves ==
    ASSUME NEW b, NEW f, DOMAIN f = Halves, NEW g, f = [i \in Halves |-> f[i]],
           g = Whole(b), f[1] = g[1]
    PROVE  [f EXCEPT ![2] = g[2]] = Whole(b)
BY DEF Whole, Halves

LEMMA SoundRead ==
    ASSUME Shape, Sound, NEW t \in Threads, Read(t)
    PROVE  Sound'
<1>1. /\ UNCHANGED <<storage, clients, acked>>
      /\ \A u \in Threads \ {t} : thread'[u] = thread[u] /\ outbox'[u] = outbox[u]
      /\ \/ /\ thread[t].at = "read1" /\ outbox' = outbox
            /\ thread'[t].at = "read2" /\ thread'[t].fd = thread[t].fd
            /\ thread'[t].cmd = thread[t].cmd
            /\ thread'[t].got[1] = content[thread[t].fd][1]
         \/ /\ thread[t].at = "read2" /\ thread'[t].at = "recv" /\ outbox[t] = <<>>
            /\ Reply(t, "OK", [thread[t].got EXCEPT ![2] = content[thread[t].fd][2]],
                     thread[t].cmd)
  BY ReadFacts
<1>2. Attended'
  BY <1>1 DEF Sound, Attended, Connected, clients
<1>3. PutsByWriters' /\ AckedIsStored'
  BY <1>1 DEF Sound, PutsByWriters, AckedIsStored, clients, storage
<1>4. /\ ReaderSafe(t) /\ thread[t].at \in Getting
      /\ thread[t].cmd.op = "GET" /\ DOMAIN thread[t].got = Halves
      /\ thread[t].got = [i \in Halves |-> thread[t].got[i]]
  BY <1>1 DEF Sound, Getting, Shape, ThreadsTyped, ThreadOK
<1>5. CASE thread[t].at = "read1"
  <2>1. ReaderSafe(t)' /\ thread'[t].at \in Getting
    BY <1>1, <1>4, <1>5 DEF ReaderSafe, Getting, Holds, storage
  <2>2. /\ \A u \in Threads : \/ thread'[u] = thread[u]
                              \/ ReaderSafe(u)' /\ thread'[u].at \in Getting
        /\ \A u \in Threads : outbox'[u] = outbox[u]
    BY <1>1, <1>5, <2>1
  <2> QED BY <1>1, <1>2, <1>3, <2>2, SoundFrame
<1>6. CASE thread[t].at = "read2"
  <2> DEFINE data == [thread[t].got EXCEPT ![2] = content[thread[t].fd][2]]
             m == [status |-> "OK", data |-> data, to |-> thread[t].cmd]
  <2>1. PICK b \in Payload[thread[t].cmd.arg] : content[thread[t].fd] = Whole(b)
    BY <1>4, <1>6 DEF ReaderSafe, Holds
  <2>2. data = Whole(b)
    BY <1>4, <1>6, <2>1, BothHalves DEF ReaderSafe
  <2> HIDE DEF data
  <2>3. Head(<<m>>) = m /\ m.data = data /\ m.to = thread[t].cmd
    OBVIOUS
  <2> HIDE DEF m
  <2>4. Truthful(m)
    BY <1>4, <2>2, <2>3 DEF Truthful
  <2>5. outbox'[t] = <<m>> \/ outbox'[t] = <<>>
    <3>1. Reply(t, "OK", data, thread[t].cmd) /\ outbox[t] = <<>>
      BY <1>1, <1>6 DEF data
    <3> QED BY <3>1, ReplyShape DEF m
  <2>6. /\ \A u \in Threads : \/ thread'[u] = thread[u]
                              \/ thread'[u].at \in {"free", "recv", "open", "list"}
        /\ \A u \in Threads : \/ outbox'[u] = outbox[u]
                              \/ outbox'[u] = <<>>
                              \/ outbox'[u] = <<Head(outbox'[u])>> /\ Truthful(Head(outbox'[u]))
    BY <1>1, <1>6, <2>3, <2>4, <2>5
  <2> QED BY <1>1, <1>2, <1>3, <2>6, SoundFrame
<1> QED BY <1>4, <1>5, <1>6 DEF Getting, Serving

LEMMA SoundList ==
    ASSUME Shape, Sound, NEW t \in Threads, List(t)
    PROVE  Sound'
<1>1. /\ UNCHANGED <<storage, clients, acked>>
      /\ thread[t].at = "list" /\ outbox[t] = <<>>
      /\ thread[t].cmd.op = "LIST"
      /\ \A u \in Threads \ {t} : thread'[u] = thread[u] /\ outbox'[u] = outbox[u]
      /\ \/ outbox' = outbox /\ \E n : thread'[t] = Sees(t, n)
         \/ /\ thread'[t].at = "recv"
            /\ Reply(t, "OK", thread[t].found, thread[t].cmd)
  BY ListFacts
<1>2. Attended'
  BY <1>1 DEF Sound, Attended, Connected, clients
<1>3. PutsByWriters' /\ AckedIsStored'
  BY <1>1 DEF Sound, PutsByWriters, AckedIsStored, clients, storage
<1>4. thread'[t].at \in {"recv", "list"}
  <2>1. \A n : Sees(t, n).at = "list"
    BY DEF Sees, Seen
  <2> QED BY <1>1, <2>1
<1>5. \/ outbox'[t] \in {outbox[t], <<>>}
      \/ outbox'[t] = <<Head(outbox'[t])>> /\ Truthful(Head(outbox'[t]))
  <2>1. ASSUME NEW data, Reply(t, "OK", data, thread[t].cmd)
        PROVE  \/ outbox'[t] = <<>>
               \/ outbox'[t] = <<Head(outbox'[t])>> /\ Truthful(Head(outbox'[t]))
    <3> DEFINE m == [status |-> "OK", data |-> data, to |-> thread[t].cmd]
    <3>1. outbox'[t] = IF Connected(t) THEN <<m>> ELSE <<>>
      BY <1>1, <2>1, ReplyShape
    <3>2. Head(<<m>>) = m /\ Truthful(m)
      BY <1>1 DEF Truthful
    <3> HIDE DEF m
    <3> QED BY <3>1, <3>2
  <2> QED BY <1>1, <2>1
<1>6. /\ \A u \in Threads : \/ thread'[u] = thread[u]
                            \/ thread'[u].at \in {"free", "recv", "open", "list"}
      /\ \A u \in Threads : \/ outbox'[u] = outbox[u]
                            \/ outbox'[u] = <<>>
                            \/ outbox'[u] = <<Head(outbox'[u])>> /\ Truthful(Head(outbox'[u]))
  BY <1>1, <1>4, <1>5
<1> QED BY <1>1, <1>2, <1>3, <1>6, SoundFrame

LEMMA SoundCountPut ==
    ASSUME Shape, Sound, NEW t \in Threads, CountPut(t)
    PROVE  Sound'
<1>1. UNCHANGED <<storage, client, call, attempt, acked>> /\ thread[t].at = "count"
  BY DEF CountPut
<1>2. CASE Dies
  BY <1>1, <1>2, SoundDies
<1>3. CASE /\ Reply(t, "OK", None, thread[t].cmd)
           /\ thread' = [thread EXCEPT ![t] = [Idle EXCEPT !.at = "recv"]]
           /\ sock' = sock
  <2> DEFINE m == [status |-> "OK", data |-> None, to |-> thread[t].cmd]
  <2>1. /\ thread = [u \in Threads |-> thread[u]] /\ outbox[t] = <<>>
        /\ thread[t].cmd.op = "PUT" /\ HasStored(thread[t].cmd)
    BY <1>1, BusyThread
       DEF Serving, Shape, ThreadsTyped, ThreadOK, Putting, Sound, WriterSafe
  <2>2. thread'[t].at = "recv" /\ \A u \in Threads \ {t} : thread'[u] = thread[u]
    BY <1>3, <2>1 DEF Idle, Task
  <2>3. Head(<<m>>) = m /\ Truthful(m)
    BY <2>1 DEF Truthful
  <2> HIDE DEF m
  <2>4. /\ outbox'[t] = <<m>> \/ outbox'[t] = <<>>
        /\ \A u \in Threads \ {t} : outbox'[u] = outbox[u]
    BY <1>3, <2>1, ReplyShape DEF m
  <2>5. Attended'
    BY <1>1, <1>3, <2>2 DEF Sound, Attended, Connected
  <2>6. PutsByWriters' /\ AckedIsStored'
    BY <1>1 DEF Sound, PutsByWriters, AckedIsStored, storage
  <2>7. /\ \A u \in Threads : \/ thread'[u] = thread[u]
                              \/ thread'[u].at \in {"free", "recv", "open", "list"}
        /\ \A u \in Threads : \/ outbox'[u] = outbox[u]
                              \/ outbox'[u] = <<>>
                              \/ outbox'[u] = <<Head(outbox'[u])>> /\ Truthful(Head(outbox'[u]))
    BY <2>2, <2>3, <2>4
  <2> QED BY <1>1, <2>5, <2>6, <2>7, SoundFrame
<1> QED BY <1>2, <1>3 DEF CountPut

\* A step of the thread that serves the PUT, and only changes what no name but
\* a temporary one refers to.
LEMMA SoundWork ==
    ASSUME SingleWriter, Shape, Sound, NEW t \in Threads, thread[t].at \in Putting,
           UNCHANGED <<blob, outbox, clients, acked>>,
           \A u \in Threads \ {t} : thread'[u] = thread[u],
           NEW n \in Inodes, \A m \in Inodes \ {n} : content'[m] = content[m],
           \A k \in Keys : blob[k] # n,
           \A u \in Threads : thread[u].at \in Getting => thread[u].fd # n,
           \A k \in Keys : tmp'[k] \in {tmp[k], n},
           \A k, l \in Keys : tmp'[k] = tmp'[l] => tmp'[k] = None \/ k = l,
           thread'[t].at \in {"write1", "write2", "replace"}, WriterSafe(t)'
    PROVE  Sound'
<1>1. Attended'
  BY DEF Sound, Attended, Connected, Putting, clients
<1>2. PutsByWriters'
  BY DEF Sound, PutsByWriters, clients
<1>3. \A k \in Keys : blob[k] # None => blob[k] \in Inodes /\ content'[blob[k]] = content[blob[k]]
  BY DEF Shape, FilesTyped
<1>4. BlobsWhole' /\ AckedIsStored'
  <2>1. AckedIsStored'
    BY <1>3 DEF Sound, AckedIsStored
  <2>2. \A k \in Keys : blob'[k] # None => Holds(blob[k], k)'
    BY <1>3 DEF Sound, BlobsWhole, Holds
  <2>3. \A k, l \in Keys : tmp'[k] # None => tmp'[k] # blob'[l] /\ (tmp'[k] = tmp'[l] => k = l)
    BY DEF Sound, BlobsWhole
  <2> QED BY <2>1, <2>2, <2>3 DEF BlobsWhole, Holds
<1>5. ASSUME NEW u \in Threads PROVE ReaderSafe(u)' /\ WriterSafe(u)' /\ ReplySafe(u)'
  <2>1. CASE u = t
    <3>1. outbox[u] = <<>>
      BY <2>1, BusyThread DEF Putting, Getting, Serving
    <3> QED BY <2>1, <3>1 DEF ReaderSafe, Getting, ReplySafe
  <2>2. CASE u # t
    <3>1. thread'[u] = thread[u] /\ thread[u].at \notin Putting
      BY <2>2, SolePut
    <3>2. WriterSafe(u)'
      BY <3>1 DEF WriterSafe, Putting
    <3>3. ReaderSafe(u)'
      <4>1. thread[u].at \in Getting => thread[u].fd \in Inodes \ {n}
        BY DEF Shape, ThreadsTyped, ThreadOK, Getting, HasFile
      <4>2. thread[u].at \in Getting => content'[thread[u].fd] = content[thread[u].fd]
        BY <4>1
      <4> QED BY <3>1, <4>1, <4>2 DEF Sound, ReaderSafe, Holds
    <3>4. ReplySafe(u)'
      <4>1. outbox[u] # <<>> => Head(outbox[u]).to.op # "PUT"
        BY SolePut
      <4> QED BY <4>1 DEF Sound, ReplySafe, Truthful
    <3> QED BY <3>2, <3>3, <3>4
  <2> QED BY <2>1, <2>2
<1> QED BY <1>1, <1>2, <1>4, <1>5 DEF Sound

LEMMA SoundOpenTmp ==
    ASSUME SingleWriter, Shape, Sound, NEW t \in Threads, OpenTmp(t)
    PROVE  Sound'
<1>1. PICK n \in Inodes, k \in Keys \ Illegal :
        /\ k = thread[t].cmd.arg /\ thread[t].at = "open"
        /\ n = tmp[k] \/ (tmp[k] = None /\ n \in Unused)
        /\ tmp'[k] = n /\ \A l \in Keys \ {k} : tmp'[l] = tmp[l]
        /\ content'[n] = Blank /\ \A m \in Inodes \ {n} : content'[m] = content[m]
        /\ thread'[t].at = "write1" /\ thread'[t].fd = n /\ thread'[t].cmd = thread[t].cmd
        /\ \A u \in Threads \ {t} : thread'[u] = thread[u]
  BY OpenTmpFacts
<1>2. UNCHANGED <<blob, outbox, clients, acked>> /\ thread[t].at \in Putting /\ n # None
  BY <1>1, BrokerAssumption DEF OpenTmp, Putting
<1>3. \A l \in Keys : blob[l] # n
  BY <1>1, <1>2 DEF Unused, Sound, BlobsWhole
<1>4. \A u \in Threads : thread[u].at \in Getting => thread[u].fd # n
  BY <1>1 DEF Unused, Sound, ReaderSafe
<1>5. \A l \in Keys \ {k} : tmp[l] # n
  BY <1>1, <1>2 DEF Unused, Sound, BlobsWhole
<1>6. \A l, j \in Keys : tmp'[l] = tmp'[j] => tmp'[l] = None \/ l = j
  BY <1>1, <1>5 DEF Sound, BlobsWhole
<1>7. WriterSafe(t)'
  BY <1>1 DEF WriterSafe
<1> QED BY <1>1, <1>2, <1>3, <1>4, <1>6, <1>7, SoundWork

LEMMA SoundWrite ==
    ASSUME SingleWriter, Shape, Sound, NEW t \in Threads, Write(t)
    PROVE  Sound'
<1>1. PICK h \in Halves :
        /\ thread[t].at = (IF h = 1 THEN "write1" ELSE "write2")
        /\ thread[t].fd \in Inodes /\ thread[t].cmd \in Requests
        /\ content'[thread[t].fd] = [content[thread[t].fd] EXCEPT ![h] = thread[t].cmd.data]
        /\ \A m \in Inodes \ {thread[t].fd} : content'[m] = content[m]
        /\ thread'[t].at = (IF h = 1 THEN "write2" ELSE "replace")
        /\ thread'[t].fd = thread[t].fd /\ thread'[t].cmd = thread[t].cmd
        /\ \A u \in Threads \ {t} : thread'[u] = thread[u]
  BY WriteFacts
<1>2. PICK n \in Inodes : n = thread[t].fd
  BY <1>1
<1>3. /\ UNCHANGED <<blob, tmp, outbox, clients, acked>> /\ thread[t].at \in Putting
      /\ thread[t].cmd.arg \in Keys /\ n # None /\ tmp[thread[t].cmd.arg] = n
      /\ DOMAIN content[n] = Halves
  <2>1. thread[t].cmd.arg \in Keys
    BY <1>1, RequestShape DEF Shape, ThreadsTyped, ThreadOK, Putting
  <2> QED BY <1>1, <1>2, <2>1, BrokerAssumption
          DEF Write, Putting, Sound, WriterSafe, Shape, FilesTyped
<1>4. \A l \in Keys : blob[l] # n
  BY <1>3 DEF Sound, BlobsWhole
<1>5. \A u \in Threads : thread[u].at \in Getting => thread[u].fd # n
  BY <1>3 DEF Sound, ReaderSafe
<1>6. \A l, j \in Keys : tmp'[l] = tmp'[j] => tmp'[l] = None \/ l = j
  BY <1>3 DEF Sound, BlobsWhole
<1>7. WriterSafe(t)'
  <2>1. WriterSafe(t)
    BY DEF Sound
  <2> QED BY <2>1, <1>1, <1>2, <1>3 DEF WriterSafe, Halves
<1> QED BY <1>1, <1>2, <1>3, <1>4, <1>5, <1>6, <1>7, SoundWork

\* The rename finds the file the thread has just written.
LEMMA ReplaceMoves ==
    ASSUME SingleWriter, Shape, Sound, NEW t \in Threads, Replace(t)
    PROVE  LET k == thread[t].cmd.arg IN
           /\ tmp[k] # None /\ tmp[k] \in Inodes
           /\ content[tmp[k]] = Whole(thread[t].cmd.data)
           /\ thread[t].cmd.data \in Payload[k]
<1> DEFINE k == thread[t].cmd.arg
<1>1. /\ thread[t].at = "replace" /\ WriterSafe(t) /\ ThreadOK(t)
  BY DEF Replace, Sound, Shape, ThreadsTyped
<1>2. k \in Keys /\ thread[t].cmd.data \in Payload[k]
  BY <1>1, RequestShape DEF ThreadOK, Putting
<1>3. tmp[k] = thread[t].fd /\ thread[t].fd \in Inodes
  BY <1>1 DEF WriterSafe, ThreadOK, HasFile
<1>4. content[thread[t].fd] \in [Halves -> Blobs \cup {None}]
  BY <1>3 DEF Shape, FilesTyped
<1>5. content[thread[t].fd] = Whole(thread[t].cmd.data)
  BY <1>1, <1>4 DEF WriterSafe, Whole, Halves
<1> QED BY <1>2, <1>3, <1>5, BrokerAssumption

LEMMA SoundReplace ==
    ASSUME SingleWriter, Shape, Sound, NEW t \in Threads, Replace(t)
    PROVE  Sound'
<1>1. PICK k \in Keys \ Illegal :
        /\ k = thread[t].cmd.arg /\ thread[t].cmd \in Requests /\ thread[t].at = "replace"
        /\ UNCHANGED <<content, client, call, attempt, acked>>
        /\ \A u \in Threads \ {t} : thread'[u] = thread[u] /\ outbox'[u] = outbox[u]
        /\ tmp[k] # None =>
             /\ blob'[k] = tmp[k] /\ tmp'[k] = None
             /\ \A l \in Keys \ {k} : blob'[l] = blob[l] /\ tmp'[l] = tmp[l]
             /\ thread'[t].at = "count" /\ thread'[t].cmd = thread[t].cmd
             /\ outbox' = outbox /\ sock' = sock
  BY ReplaceFacts
<1>2. /\ tmp[k] # None /\ content[tmp[k]] = Whole(thread[t].cmd.data)
      /\ thread[t].cmd.data \in Payload[k]
  BY <1>1, ReplaceMoves
<1>3. /\ blob'[k] = tmp[k] /\ tmp'[k] = None
      /\ \A l \in Keys \ {k} : blob'[l] = blob[l] /\ tmp'[l] = tmp[l]
      /\ thread'[t].at = "count" /\ thread'[t].cmd = thread[t].cmd
      /\ outbox' = outbox /\ sock' = sock /\ content' = content /\ acked' = acked /\ call' = call
  BY <1>1, <1>2
<1>4. thread[t].at \in Putting
  BY <1>1 DEF Putting, Serving
<1>5. Attended' /\ PutsByWriters'
  BY <1>1, <1>3, <1>4 DEF Sound, Attended, Connected, PutsByWriters, Putting
<1>6. BlobsWhole'
  <2>1. \A l \in Keys : blob'[l] # None => Holds(blob[l], l)'
    <3>1. Holds(blob[k], k)'
      BY <1>2, <1>3 DEF Holds
    <3>2. \A l \in Keys \ {k} : blob'[l] # None => Holds(blob[l], l)'
      BY <1>3 DEF Sound, BlobsWhole, Holds
    <3> QED BY <3>1, <3>2
  <2>2. \A l, j \in Keys : tmp'[l] # None => tmp'[l] # blob'[j] /\ (tmp'[l] = tmp'[j] => l = j)
    BY <1>2, <1>3 DEF Sound, BlobsWhole
  <2> QED BY <2>1, <2>2 DEF BlobsWhole, Holds
<1>7. AckedIsStored'
  <2>1. acked[k] = None
    BY <1>1, <1>4, PutOwner DEF Sound
  <2> QED BY <1>3, <2>1 DEF Sound, AckedIsStored
<1>8. ASSUME NEW u \in Threads PROVE ReaderSafe(u)' /\ WriterSafe(u)' /\ ReplySafe(u)'
  <2>1. CASE u = t
    <3>1. outbox[u] = <<>>
      BY <2>1, <1>4, BusyThread DEF Putting, Getting, Serving
    <3>2. HasStored(thread[t].cmd)'
      BY <1>1, <1>2, <1>3 DEF HasStored
    <3>3. WriterSafe(t)'
      BY <1>3, <3>2 DEF WriterSafe, HasStored
    <3> QED BY <2>1, <1>3, <3>1, <3>3 DEF ReaderSafe, Getting, ReplySafe
  <2>2. CASE u # t
    <3>1. thread'[u] = thread[u] /\ thread[u].at \notin Putting
      BY <2>2, <1>1, <1>4, SolePut
    <3>2. WriterSafe(u)'
      BY <3>1 DEF WriterSafe, Putting
    <3>3. ReaderSafe(u)'
      <4>1. thread[u].at \in Getting => thread[u].fd # None
        BY BrokerAssumption DEF Shape, ThreadsTyped, ThreadOK, Getting, HasFile
      <4>2. \A l \in Keys : tmp'[l] \in {tmp[l], None}
        BY <1>3
      <4> QED BY <3>1, <4>1, <4>2, <1>3 DEF Sound, ReaderSafe, Holds
    <3>4. ReplySafe(u)'
      <4>1. outbox[u] # <<>> => Head(outbox[u]).to.op # "PUT"
        BY <1>4, SolePut
      <4> QED BY <4>1, <1>3 DEF Sound, ReplySafe, Truthful
    <3> QED BY <3>2, <3>3, <3>4
  <2> QED BY <2>1, <2>2
<1> QED BY <1>5, <1>6, <1>7, <1>8 DEF Sound

LEMMA SoundSame ==
    ASSUME Shape, Sound, UNCHANGED <<storage, thread, outbox, clients, acked>>
    PROVE  Sound'
<1>1. Attended' /\ PutsByWriters' /\ AckedIsStored'
  BY DEF Sound, Attended, Connected, PutsByWriters, AckedIsStored, clients, storage
<1> QED BY <1>1, SoundFrame

LEMMA SoundNext ==
    ASSUME Reliable, SingleWriter, Shape, Sound, [Next]_vars
    PROVE  Sound'
<1>1. ASSUME NEW c \in Clients, Run(c) PROVE Sound'
  BY <1>1, SoundSend, SoundRefused, SoundReturn DEF Run, TimesOut, Reliable
<1>2. ASSUME NEW t \in Threads, Serve(t) PROVE Sound'
  <2>1. ~ Hangup(t)
    BY DEF Hangup, Sound, Attended
  <2> QED BY <1>2, <2>1, SoundRecv, SoundList, SoundOpenTmp, SoundWrite, SoundReplace, SoundCountPut,
             SoundRead DEF Serve
<1>3. Crash => Sound'
  BY SoundDies DEF Crash
<1>4. Restart => Sound'
  BY SoundSame DEF Restart
<1>5. UNCHANGED vars => Sound'
  BY SoundSame DEF vars, broker
<1> QED BY <1>1, <1>2, <1>3, <1>4, <1>5, SoundCall DEF Next

LEMMA AlwaysSound ==
    ASSUME Reliable, SingleWriter
    PROVE  Spec => [](Shape /\ Sound)
<1>1. Shape /\ Sound /\ [Next]_vars => Shape' /\ Sound'
  BY NextShape, SoundNext
<1>2. Init => Shape /\ Sound
  BY InitShape, SoundInit
<1> QED BY <1>1, <1>2, PTL DEF Spec

\* broker.py: "atomic: a GET never sees a half-written blob".  It holds for any
\* number of readers, keys and blobs, and wherever the broker dies, as long as
\* the one client that PUTs never gives up on an attempt the broker goes on with.
THEOREM GetsAlwaysSeeWholeBlobs ==
    ASSUME Reliable, SingleWriter
    PROVE  Spec => []GetSeesWholeBlobs
<1>1. ASSUME Shape, Sound PROVE GetSeesWholeBlobs
  <2> SUFFICES ASSUME NEW t \in Threads, NEW i \in DOMAIN outbox[t],
                      outbox[t][i].to.op = "GET", outbox[t][i].status = "OK"
               PROVE  \E b \in Payload[outbox[t][i].to.arg] : outbox[t][i].data = Whole(b)
    BY DEF GetSeesWholeBlobs
  <2>1. PICK m : outbox[t] = <<m>>
    <3>1. outbox[t] = <<>> \/ outbox[t] = <<Head(outbox[t])>>
      BY <1>1 DEF Shape, LinesTyped, LineOK
    <3> QED BY <3>1
  <2>2. outbox[t] # <<>> /\ Head(outbox[t]) = m /\ outbox[t][i] = m
    BY <2>1
  <2> QED BY <1>1, <2>2 DEF Sound, ReplySafe, Truthful
<1> QED BY <1>1, AlwaysSound, PTL

\* What a PUT acknowledged stays stored, whole, until the next PUT under its
\* key, also when the broker dies after --fail-after-puts or is killed.
THEOREM AckedIsAlwaysStored ==
    ASSUME Reliable, SingleWriter
    PROVE  Spec => []AckedIsStored
<1>1. Sound => AckedIsStored
  BY DEF Sound
<1> QED BY <1>1, AlwaysSound, PTL
-----------------------------------------------------------------------------
(* The broker implements the store of whole blobs.                         *)

Answers == [c \in Clients |-> IF sock[c] \in Threads THEN Settled(sock[c]) ELSE None]

LEMMA BlobOfWhole == \A b : Blob(Whole(b)) = b
BY DEF Blob, Whole, Halves

LEMMA StoredShape ==
    ASSUME Shape, Sound
    PROVE  \A k \in Keys :
             /\ Stored[k] = IF blob[k] = None THEN None ELSE Blob(content[blob[k]])
             /\ Stored[k] = None <=> blob[k] = None
<1> SUFFICES ASSUME NEW k \in Keys, blob[k] # None PROVE Blob(content[blob[k]]) # None
  BY DEF Stored
<1>1. PICK b \in Payload[k] : content[blob[k]] = Whole(b)
  BY DEF Sound, BlobsWhole, Holds
<1>2. b \in Blobs
  BY DEF Blobs
<1> QED BY <1>1, <1>2, BlobOfWhole, BrokerAssumption

\* What is settled about the call a thread has got, before and after a step.
LEMMA SettledIs ==
    ASSUME NEW t \in Threads
    PROVE  /\ outbox[t] # <<>> => Settled(t) = Said(Head(outbox[t]))
           /\ outbox[t] = <<>> =>
                /\ thread[t].at = "count" => Settled(t) = [status |-> "OK", data |-> None]
                /\ thread[t].at \in Getting =>
                     Settled(t) = [status |-> "OK", data |-> Blob(content[thread[t].fd])]
                /\ thread[t].at = "list" =>
                     Settled(t) = [status |-> "LISTING", left |-> thread[t].left,
                                   data |-> thread[t].found]
                /\ thread[t].at \notin {"count", "list"} \cup Getting => Settled(t) = None
BY DEF Settled, Getting

LEMMA SettledBecomes ==
    ASSUME NEW t \in Threads
    PROVE  /\ outbox'[t] # <<>> => Settled(t)' = Said(Head(outbox'[t]))
           /\ outbox'[t] = <<>> =>
                /\ thread'[t].at = "count" => Settled(t)' = [status |-> "OK", data |-> None]
                /\ thread'[t].at \in Getting =>
                     Settled(t)' = [status |-> "OK", data |-> Blob(content'[thread'[t].fd])]
                /\ thread'[t].at = "list" =>
                     Settled(t)' = [status |-> "LISTING", left |-> thread'[t].left,
                                    data |-> thread'[t].found]
                /\ thread'[t].at \notin {"count", "list"} \cup Getting => Settled(t)' = None
BY DEF Settled, Getting, Said, Blob

\* What a reply says.
LEMMA SaidOfGet ==
    ASSUME NEW cmd, cmd.op = "GET", NEW data
    PROVE  Said([status |-> "OK", data |-> data, to |-> cmd])
              = [status |-> "OK", data |-> Blob(data)]
BY DEF Said

LEMMA SaidOfList ==
    ASSUME NEW cmd, cmd.op = "LIST", NEW status, NEW data
    PROVE  Said([status |-> status, data |-> data, to |-> cmd])
              = [status |-> status, data |-> data]
BY DEF Said

LEMMA SaidOfOthers ==
    ASSUME NEW cmd, NEW status, NEW data,
           cmd.op # "LIST", cmd.op # "GET" \/ status # "OK"
    PROVE  Said([status |-> status, data |-> data, to |-> cmd])
              = [status |-> status, data |-> None]
BY DEF Said

\* A step of thread t leaves the answers of everybody else as they are.
LEMMA AnswersFrame ==
    ASSUME NEW t \in Threads, sock' = sock,
           \A u \in Threads \ {t} :
              /\ thread'[u] = thread[u] /\ outbox'[u] = outbox[u]
              /\ thread[u].at \in Getting => content'[thread[u].fd] = content[thread[u].fd]
    PROVE  /\ \A c \in Clients : sock[c] = t => Answers[c] = Settled(t) /\ Answers'[c] = Settled(t)'
           /\ \A c \in Clients : sock[c] # t => Answers'[c] = Answers[c]
<1>1. ASSUME NEW u \in Threads \ {t} PROVE Settled(u)' = Settled(u)
  BY <1>1, ZenonT(60) DEF Settled, Getting, Said, Blob
<1>2. ASSUME NEW c \in Clients, sock[c] = t
      PROVE  Answers[c] = Settled(t) /\ Answers'[c] = Settled(t)'
  BY <1>2 DEF Answers
<1>3. ASSUME NEW c \in Clients, sock[c] # t PROVE Answers'[c] = Answers[c]
  <2>1. CASE sock[c] \in Threads
    <3>1. PICK u \in Threads \ {t} : sock[c] = u
      BY <1>3, <2>1
    <3>2. Answers[c] = Settled(u) /\ Answers'[c] = Settled(u)'
      BY <3>1 DEF Answers
    <3> QED BY <3>1, <3>2, <1>1
  <2>2. CASE sock[c] \notin Threads
    BY <2>2 DEF Answers
  <2> QED BY <2>1, <2>2
<1> QED BY <1>2, <1>3

LEMMA AnswersSame ==
    ASSUME \A c \in Clients : Answers'[c] = Answers[c]
    PROVE  Answers' = Answers
BY DEF Answers

\* A step of a thread that somebody is connected to changes that answer.
LEMMA AnswersStep ==
    ASSUME NEW t \in Threads, NEW c \in Clients, sock[c] = t,
           \A d \in Clients : sock[d] = t => d = c,
           sock' = sock,
           \A u \in Threads \ {t} :
              /\ thread'[u] = thread[u] /\ outbox'[u] = outbox[u]
              /\ thread[u].at \in Getting => content'[thread[u].fd] = content[thread[u].fd]
    PROVE  Answers[c] = Settled(t) /\ Answers' = [Answers EXCEPT ![c] = Settled(t)']
<1>1. /\ \A d \in Clients : sock[d] = t => Answers[d] = Settled(t) /\ Answers'[d] = Settled(t)'
      /\ \A d \in Clients : sock[d] # t => Answers'[d] = Answers[d]
  BY AnswersFrame
<1>2. DOMAIN Answers = Clients /\ Answers' = [d \in Clients |-> Answers'[d]]
      /\ Answers = [d \in Clients |-> Answers[d]]
  BY DEF Answers
<1>3. \A d \in Clients \ {c} : Answers'[d] = Answers[d]
  BY <1>1
<1>4. Answers[c] = Settled(t) /\ Answers'[c] = Settled(t)'
  BY <1>1
<1> QED BY ONLY <1>2, <1>3, <1>4

\* A thread settles the call of its client.
LEMMA Settles ==
    ASSUME NEW t \in Threads, NEW c \in Clients, sock[c] = t, call' = call,
           \A d \in Clients : sock[d] = t => d = c,
           call[c] # None, call[c].op # "LIST", sock' = sock,
           \A u \in Threads \ {t} :
              /\ thread'[u] = thread[u] /\ outbox'[u] = outbox[u]
              /\ thread[u].at \in Getting => content'[thread[u].fd] = content[thread[u].fd],
           Settled(t) = None, Settled(t)' = Store!Reply(call[c], Stored'),
           Stored' = IF Store!Stores(call[c]) THEN [Stored EXCEPT ![call[c].arg] = call[c].data]
                     ELSE Stored
    PROVE  Store!Settle(c)
<1>1. Answers[c] = Settled(t) /\ Answers' = [Answers EXCEPT ![c] = Settled(t)']
  BY AnswersStep
<1>2. Answers[c] = None
  BY <1>1
<1>3. Answers' = [Answers EXCEPT ![c] = Store!Reply(call[c], Stored')]
  BY <1>1
<1> QED BY <1>2, <1>3 DEF Answers, Store!Settle

RefinesNext == Store!Next \/ UNCHANGED <<Stored, call, Answers>>

\* A thread does something nobody sees.
LEMMA Unseen ==
    ASSUME NEW t \in Threads, UNCHANGED <<call, sock>>, Stored' = Stored,
           \A u \in Threads \ {t} :
              /\ thread'[u] = thread[u] /\ outbox'[u] = outbox[u]
              /\ thread[u].at \in Getting => content'[thread[u].fd] = content[thread[u].fd],
           (\E c \in Clients : sock[c] = t) => Settled(t)' = Settled(t)
    PROVE  RefinesNext
<1>1. \A c \in Clients : Answers'[c] = Answers[c]
  BY AnswersFrame
<1>2. Answers' = Answers
  BY <1>1, AnswersSame
<1> QED BY <1>2 DEF RefinesNext
LEMMA RefineCall ==
    ASSUME Shape, NEW c \in Clients, NEW cmd \in Commands, Call(c, cmd)
    PROVE  RefinesNext
<1>1. call[c] = None /\ call' = [call EXCEPT ![c] = cmd]
  BY DEF Call, Shape, ClientsTyped
<1>2. UNCHANGED <<Stored, Answers>>
  BY DEF Call, storage, broker, Stored, Answers, Settled, Said, Blob
<1>3. Store!Call(c)
  BY <1>1, <1>2 DEF Store!Call, Answers
<1> QED BY <1>3 DEF RefinesNext, Store!Next

LEMMA RefineSend ==
    ASSUME Shape, NEW c \in Clients, Send(c)
    PROVE  RefinesNext
<1>1. PICK t \in Threads :
        /\ \/ sock[c] = None /\ thread[t].at = "free"
           \/ sock[c] = t
        /\ sock' = [sock EXCEPT ![c] = t]
        /\ thread' = IF sock[c] = None THEN [thread EXCEPT ![t].at = "recv"] ELSE thread
  BY DEF Send
<1>2. /\ thread = [u \in Threads |-> thread[u]] /\ ThreadOK(t) /\ DOMAIN sock = Clients
  BY DEF Shape, ThreadsTyped, ClientsTyped
<1>3. outbox[t] = <<>> /\ thread[t].at \in {"free", "recv"} /\ \A d \in Clients : sock[d] = t => d = c
  <2>1. CASE thread[t].at = "free"
    BY <2>1, FreeIsAlone DEF Connected
  <2>2. CASE sock[c] = t
    BY <2>2 DEF Send, Shape, Conversation, ClientOK, Quiet
  <2> QED BY <1>1, <2>1, <2>2
<1>4. /\ \A u \in Threads \ {t} : thread'[u] = thread[u]
      /\ thread'[t] = thread[t] \/ thread'[t].at = "recv"
  <2>1. CASE thread' = thread
    BY <2>1
  <2>2. CASE thread' = [thread EXCEPT ![t].at = "recv"]
    BY <1>2, <2>2 DEF ThreadOK
  <2> QED BY <1>1, <2>1, <2>2
<1>5. UNCHANGED <<storage, outbox, call>>
  BY DEF Send
<1>6. Settled(t) = None /\ Settled(t)' = None
  BY <1>3, <1>4, <1>5, SettledIs, SettledBecomes DEF Getting, Serving
<1>7. ASSUME NEW u \in Threads \ {t} PROVE Settled(u)' = Settled(u)
  BY <1>4, <1>5, <1>7 DEF Settled, Said, Blob, storage
<1>8. sock'[c] = t /\ \A d \in Clients \ {c} : sock'[d] = sock[d]
  BY <1>1, <1>2
<1>9. \A d \in Clients : Answers'[d] = Answers[d]
  <2>1. Answers[c] = None /\ Answers'[c] = None
    BY <1>1, <1>6, <1>8, BrokerAssumption DEF Answers
  <2>2. ASSUME NEW d \in Clients \ {c} PROVE Answers'[d] = Answers[d]
    <3>1. CASE sock[d] \in Threads
      <4>1. PICK u \in Threads : u = sock[d]
        BY <3>1
      <4>2. u # t
        BY <1>3, <4>1
      <4>3. Answers[d] = Settled(u) /\ Answers'[d] = Settled(u)'
        BY <1>8, <4>1 DEF Answers
      <4> QED BY <1>7, <4>2, <4>3
    <3>2. CASE sock[d] \notin Threads
      BY <1>8, <3>2 DEF Answers
    <3> QED BY <3>1, <3>2
  <2> QED BY <2>1, <2>2
<1>10. Stored' = Stored
  BY <1>5 DEF Stored, storage, Blob
<1> QED BY <1>5, <1>9, <1>10, AnswersSame DEF RefinesNext

LEMMA RefineRefused ==
    ASSUME Shape, NEW c \in Clients, Refused(c)
    PROVE  RefinesNext
<1>1. UNCHANGED <<storage, broker>> /\ Failed(c) /\ sock[c] \notin Threads /\ client[c] # "idle"
  BY BrokerAssumption DEF Refused
<1>2. sock'[c] = None /\ \A d \in Clients \ {c} : sock'[d] = sock[d]
  BY <1>1 DEF Failed, Shape, ClientsTyped
<1>3. Stored' = Stored
  BY <1>1 DEF Stored, storage, Blob
<1>4. \A u \in Threads : Settled(u)' = Settled(u)
  BY <1>1 DEF Settled, Said, Blob, storage, broker
<1>5. \A d \in Clients : Answers'[d] = Answers[d]
  <2>1. Answers'[c] = None /\ Answers[c] = None
    BY <1>1, <1>2, BrokerAssumption DEF Answers
  <2>2. ASSUME NEW d \in Clients \ {c} PROVE Answers'[d] = Answers[d]
    <3>1. CASE sock[d] \in Threads
      <4>1. PICK u \in Threads : u = sock[d]
        BY <3>1
      <4>2. Answers[d] = Settled(u) /\ Answers'[d] = Settled(u)'
        BY <1>2, <4>1 DEF Answers
      <4> QED BY <1>4, <4>2
    <3>2. CASE sock[d] \notin Threads
      BY <1>2, <3>2 DEF Answers
    <3> QED BY <3>1, <3>2
  <2> QED BY <2>1, <2>2
<1>6. Answers' = Answers /\ Answers[c] = None
  BY <1>1, <1>5, AnswersSame DEF Answers
<1>7. CASE call' = call
  BY <1>3, <1>6, <1>7 DEF RefinesNext
<1>8. CASE call' = [call EXCEPT ![c] = None]
  <2>1. call[c] # None
    BY <1>1, RequestShape DEF Shape, ClientsTyped
  <2>2. Answers = [Answers EXCEPT ![c] = None]
    <3>1. Answers = [d \in Clients |-> Answers[d]]
      BY DEF Answers
    <3> HIDE DEF Answers
    <3> QED BY <3>1, <1>6
  <2>3. Store!Return(c)
    BY <1>3, <1>6, <1>8, <2>1, <2>2 DEF Store!Return, Answers
  <2> QED BY <2>3 DEF RefinesNext, Store!Next
<1> QED BY <1>1, <1>7, <1>8 DEF Failed

LEMMA RefineReturn ==
    ASSUME Shape, NEW c \in Clients, Return(c)
    PROVE  RefinesNext
<1>1. PICK t \in Threads : t = sock[c]
  BY DEF Return
<1>2. /\ call[c] \in Requests /\ call[c] # None
      /\ outbox[t] = <<Head(outbox[t])>> /\ thread[t].at = "recv"
      /\ \A d \in Clients : sock[d] = t => d = c
  BY <1>1, RequestShape DEF Return, Shape, ClientsTyped, LinesTyped, LineOK, Conversation
<1>3. /\ outbox'[t] = <<>> /\ \A u \in Threads \ {t} : outbox'[u] = outbox[u]
  <2>1. \A m : Tail(<<m>>) = <<>>
    OBVIOUS
  <2>2. outbox' = [outbox EXCEPT ![t] = Tail(outbox[t])]
    BY <1>1 DEF Return
  <2> QED BY <1>2, <2>1, <2>2 DEF Shape, LinesTyped
<1>4. UNCHANGED <<storage, thread, sock>> /\ call' = [call EXCEPT ![c] = None]
  BY DEF Return
<1>5. Settled(t)' = None
  BY <1>2, <1>3, <1>4, SettledBecomes DEF Getting, Serving
<1>6. /\ \A d \in Clients : sock[d] = t => Answers[d] = Settled(t) /\ Answers'[d] = Settled(t)'
      /\ \A d \in Clients : sock[d] # t => Answers'[d] = Answers[d]
  BY <1>3, <1>4, AnswersFrame DEF storage
<1>7. Answers' = [Answers EXCEPT ![c] = None]
  <2>1. Answers = [d \in Clients |-> Answers[d]] /\ Answers' = [d \in Clients |-> Answers'[d]]
    BY DEF Answers
  <2>2. Answers'[c] = None /\ \A d \in Clients \ {c} : Answers'[d] = Answers[d]
    BY <1>1, <1>2, <1>5, <1>6
  <2> HIDE DEF Answers
  <2> QED BY <2>1, <2>2
<1>8. Stored' = Stored
  BY <1>4 DEF Stored, storage, Blob
<1>9. Store!Return(c)
  BY <1>2, <1>4, <1>7, <1>8 DEF Store!Return, Answers
<1> QED BY <1>9 DEF RefinesNext, Store!Next

LEMMA RefineDies ==
    ASSUME Dies, UNCHANGED <<storage, call>>
    PROVE  RefinesNext
<1>1. Stored' = Stored
  BY DEF Stored, storage, Blob
<1>2. \A c \in Clients : sock'[c] \notin Threads
  BY BrokerAssumption DEF Dies
<1>3. Answers' = [c \in Clients |-> None]
  BY <1>2 DEF Answers
<1>4. Store!Lose
  BY <1>1, <1>3 DEF Store!Lose, Answers
<1> QED BY <1>4 DEF RefinesNext, Store!Next

LEMMA RefineRecv ==
    ASSUME Shape, Sound, NEW t \in Threads, Recv(t)
    PROVE  RefinesNext
<1>1. PICK cmd \in Requests :
        /\ cmd = Head(inbox[t]) /\ inbox[t] = <<cmd>> /\ outbox[t] = <<>>
        /\ thread[t].at = "recv"
        /\ \A c \in Clients : sock[c] = t => client[c] = "wait" /\ call[c] = cmd
        /\ UNCHANGED <<storage, clients, acked>>
        /\ \A u \in Threads \ {t} : thread'[u] = thread[u] /\ outbox'[u] = outbox[u]
        /\ \/ /\ outbox' = outbox
              /\ cmd.op = "PUT" /\ cmd.arg \notin Illegal /\ thread'[t].at = "open"
           \/ /\ outbox' = outbox
              /\ cmd.op = "GET" /\ cmd.arg \notin Illegal /\ blob[cmd.arg] # None
              /\ thread'[t].at = "read1" /\ thread'[t].cmd = cmd
              /\ thread'[t].fd = blob[cmd.arg]
           \/ /\ thread' = thread
              /\ cmd.op = "PUT" /\ cmd.arg \in Illegal /\ Reply(t, "ERR", None, cmd)
           \/ /\ thread' = thread
              /\ cmd.op \in {"GET", "STAT"} /\ (cmd.arg \in Illegal \/ blob[cmd.arg] = None)
              /\ Reply(t, "MISSING", None, cmd)
           \/ /\ thread' = thread
              /\ cmd.op = "STAT" /\ cmd.arg \notin Illegal /\ blob[cmd.arg] # None
              /\ Reply(t, "OK", Size(content[blob[cmd.arg]]), cmd)
           \/ /\ outbox' = outbox
              /\ cmd.op = "LIST" /\ thread'[t] = SetsOut(cmd)
  BY RecvFacts
<1>2. UNCHANGED <<call, sock>> /\ Stored' = Stored /\ content' = content
  BY <1>1 DEF clients, storage, Stored, Blob
<1>3. Settled(t) = None
  BY <1>1, SettledIs DEF Getting, Serving
<1>4. /\ cmd # None
      /\ cmd.op # "LIST" =>
           /\ Stored[cmd.arg] = IF blob[cmd.arg] = None THEN None ELSE Blob(content[blob[cmd.arg]])
           /\ Stored[cmd.arg] = None <=> blob[cmd.arg] = None
           /\ cmd.arg \in Illegal => blob[cmd.arg] = None
  <2>1. cmd.op # "LIST" => cmd.arg \in Keys
    BY RequestShape
  <2> QED BY <2>1, RequestShape, StoredShape DEF Shape, FilesTyped
<1>5. PICK c \in Clients : sock[c] = t /\ call[c] = cmd
  BY <1>1 DEF Sound, Attended, Connected
<1>6. \A d \in Clients : sock[d] = t => d = c
  BY <1>5 DEF Shape, Conversation
<1>7. ASSUME ~ Store!Stores(cmd), cmd.op # "LIST", Settled(t)' = Store!Reply(cmd, Stored)
      PROVE  RefinesNext
  <2>1. Store!Settle(c)
    BY <1>1, <1>2, <1>3, <1>4, <1>5, <1>6, <1>7, Settles
  <2> QED BY <2>1 DEF RefinesNext, Store!Next
<1>8. ASSUME NEW status, NEW data, Reply(t, status, data, cmd)
      PROVE  Settled(t)' = Said([status |-> status, data |-> data, to |-> cmd])
  <2> DEFINE m == [status |-> status, data |-> data, to |-> cmd]
  <2>1. outbox'[t] = <<m>>
    <3>1. Connected(t) /\ outbox[t] = <<>>
      BY <1>1, <1>5 DEF Connected
    <3> QED BY <3>1, <1>8, ReplyShape
  <2>2. Head(<<m>>) = m /\ <<m>> # <<>>
    OBVIOUS
  <2> HIDE DEF m
  <2>3. Settled(t)' = Said(m)
    BY <2>1, <2>2, SettledBecomes
  <2> QED BY <2>3 DEF m
<1>9. CASE outbox' = outbox /\ thread'[t].at = "open"
  <2>1. Settled(t)' = None
    BY <1>1, <1>9, SettledBecomes DEF Getting, Serving
  <2> QED BY <1>1, <1>2, <1>3, <2>1, Unseen
<1>10. CASE /\ outbox' = outbox
            /\ cmd.op = "GET" /\ cmd.arg \notin Illegal /\ blob[cmd.arg] # None
            /\ thread'[t].at = "read1" /\ thread'[t].fd = blob[cmd.arg]
  <2>1. Settled(t)' = [status |-> "OK", data |-> Blob(content[blob[cmd.arg]])]
    BY <1>1, <1>2, <1>10, SettledBecomes DEF Getting, Serving
  <2> QED BY <1>4, <1>7, <1>10, <2>1 DEF Store!Reply, Store!Stores
<1>11. CASE cmd.op = "PUT" /\ cmd.arg \in Illegal /\ Reply(t, "ERR", None, cmd)
  <2>1. Settled(t)' = [status |-> "ERR", data |-> None]
    <3>1. cmd.op # "LIST" /\ cmd.op # "GET"
      BY <1>11
    <3>2. Settled(t)' = Said([status |-> "ERR", data |-> None, to |-> cmd])
      BY <1>8, <1>11
    <3> QED BY ONLY <3>1, <3>2, SaidOfOthers
  <2> QED BY <1>7, <1>11, <2>1 DEF Store!Reply, Store!Stores
<1>12. CASE /\ cmd.op \in {"GET", "STAT"} /\ (cmd.arg \in Illegal \/ blob[cmd.arg] = None)
            /\ Reply(t, "MISSING", None, cmd)
  <2>1. Settled(t)' = [status |-> "MISSING", data |-> None]
    <3>1. Settled(t)' = Said([status |-> "MISSING", data |-> None, to |-> cmd])
      BY <1>8, <1>12
    <3>2. cmd.op # "LIST" /\ "MISSING" # "OK"
      BY <1>12
    <3> QED BY ONLY <3>1, <3>2, SaidOfOthers
  <2> QED BY <1>4, <1>7, <1>12, <2>1 DEF Store!Reply, Store!Stores
<1>13. CASE /\ cmd.op = "STAT" /\ cmd.arg \notin Illegal /\ blob[cmd.arg] # None
            /\ Reply(t, "OK", Size(content[blob[cmd.arg]]), cmd)
  <2>1. Settled(t)' = [status |-> "OK", data |-> None]
    <3>1. cmd.op # "LIST" /\ cmd.op # "GET"
      BY <1>13
    <3>2. Settled(t)' = Said([status |-> "OK", data |-> Size(content[blob[cmd.arg]]), to |-> cmd])
      BY <1>8, <1>13
    <3> QED BY ONLY <3>1, <3>2, SaidOfOthers
  <2> QED BY <1>4, <1>7, <1>13, <2>1 DEF Store!Reply, Store!Stores
<1>14. CASE outbox' = outbox /\ cmd.op = "LIST" /\ thread'[t] = SetsOut(cmd)
  <2>1. Settled(t)' = [status |-> "LISTING", left |-> Made, data |-> {}]
    <3>1. thread'[t].at = "list" /\ thread'[t].left = Made /\ thread'[t].found = {}
      BY <1>14 DEF SetsOut, Task
    <3> QED BY <1>1, <1>14, <3>1, SettledBecomes
  <2>2. Made \in SUBSET Spaces /\ \A k \in Keys : Stored[k] # None => Namespace[k] \in Made
    BY StoredShape DEF Made, Spaces
  <2>3. Answers[c] = Settled(t) /\ Answers' = [Answers EXCEPT ![c] = Settled(t)']
    BY <1>1, <1>2, <1>5, <1>6, AnswersStep
  <2>4. Store!List(c)
    BY <1>2, <1>3, <1>4, <1>5, <1>14, <2>1, <2>2, <2>3 DEF Store!List, Answers, Spaces
  <2> QED BY <2>4 DEF RefinesNext, Store!Next
<1> QED BY <1>1, <1>9, <1>10, <1>11, <1>12, <1>13, <1>14

\* Store!See, of the answers the broker gives.
LEMMA SeeIs ==
    ASSUME NEW c,
           Answers[c] # None, Answers[c].status = "LISTING",
           \E n \in Answers[c].left :
             /\ \A m \in Answers[c].left : n <= m
             /\ Answers' = [Answers EXCEPT ![c] =
                   [status |-> "LISTING",
                    left |-> @.left \ {n},
                    data |-> @.data \cup {k \in Keys : /\ Namespace[k] = n
                                                       /\ k \in call[c].arg
                                                       /\ Stored[k] # None}]],
           UNCHANGED <<Stored, call>>
    PROVE  Store!See(c)
BY DEF Store!See, Answers

\* What a LIST has found is settled directory by directory.
LEMMA RefineList ==
    ASSUME Shape, Sound, NEW t \in Threads, List(t)
    PROVE  RefinesNext
<1>1. /\ UNCHANGED <<storage, clients, acked>>
      /\ thread[t].at = "list" /\ outbox[t] = <<>>
      /\ thread[t].cmd \in Requests /\ thread[t].cmd.op = "LIST"
      /\ \A u \in Threads \ {t} : thread'[u] = thread[u] /\ outbox'[u] = outbox[u]
      /\ \/ \E n \in thread[t].left :
               /\ \A m \in thread[t].left : n <= m
               /\ thread'[t] = Sees(t, n)
               /\ outbox' = outbox
         \/ /\ thread[t].left = {} /\ thread'[t].at = "recv"
            /\ Reply(t, "OK", thread[t].found, thread[t].cmd)
  BY ListFacts
<1>2. UNCHANGED <<call, sock>> /\ Stored' = Stored /\ content' = content
  BY <1>1 DEF clients, storage, Stored, Blob
<1>3. PICK c \in Clients : sock[c] = t
  BY <1>1 DEF Sound, Attended, Connected
<1>4. /\ call[c] = thread[t].cmd /\ call[c] # None
      /\ \A d \in Clients : sock[d] = t => d = c
  BY <1>1, <1>3, BusyThread, RequestShape DEF Serving, Shape, Conversation
<1>5. Settled(t) = [status |-> "LISTING", left |-> thread[t].left, data |-> thread[t].found]
  BY <1>1, SettledIs
<1>6. Answers[c] = Settled(t) /\ Answers' = [Answers EXCEPT ![c] = Settled(t)']
  BY <1>1, <1>2, <1>3, <1>4, AnswersStep
<1>7. /\ Answers[c] # None /\ Answers[c].status = "LISTING"
      /\ Answers[c].left = thread[t].left /\ Answers[c].data = thread[t].found
  <2>1. thread[t].left \in SUBSET Spaces /\ thread[t].found \in SUBSET Keys
    BY DEF Shape, ThreadsTyped, ThreadOK
  <2>2. Settled(t) \in Listings
    BY <1>5, <2>1 DEF Listings, Spaces
  <2>3. Settled(t) # None
    BY <2>2, BrokerAssumption
  <2> QED BY <1>5, <1>6, <2>3
<1>8. ASSUME NEW n \in thread[t].left, \A m \in thread[t].left : n <= m,
             thread'[t] = Sees(t, n), outbox' = outbox
      PROVE  RefinesNext
  <2> DEFINE new == {k \in Keys : /\ Namespace[k] = n
                               /\ k \in call[c].arg
                               /\ Stored[k] # None}
  <2>1. Listing(n, thread[t].cmd.arg) = new
    BY <1>4, StoredShape DEF Listing
  <2>2. Settled(t)' = [status |-> "LISTING", left |-> thread[t].left \ {n},
                       data |-> thread[t].found \cup new]
    <3>1. /\ thread'[t].at = "list" /\ thread'[t].left = thread[t].left \ {n}
          /\ thread'[t].found = thread[t].found \cup new
      BY <1>8, <2>1 DEF Sees, Seen
    <3> QED BY <1>1, <1>8, <3>1, SettledBecomes
  <2>3. Answers' = [Answers EXCEPT ![c] =
                      [status |-> "LISTING", left |-> Answers[c].left \ {n},
                       data |-> Answers[c].data \cup new]]
    BY <1>6, <1>7, <2>2
  <2>4. /\ n \in Answers[c].left /\ \A m \in Answers[c].left : n <= m
        /\ UNCHANGED <<Stored, call>>
    BY <1>2, <1>7, <1>8
  <2>5. Answers' = [Answers EXCEPT ![c] =
                      [status |-> "LISTING", left |-> @.left \ {n}, data |-> @.data \cup new]]
    <3>1. c \in DOMAIN Answers
      BY DEF Answers
    <3> HIDE DEF Answers, new
    <3> QED BY <2>3, <3>1
  <2>6. Store!See(c)
    <3> HIDE DEF Answers
    <3> QED BY <1>7, <2>4, <2>5, SeeIs
  <2> QED BY <2>6 DEF RefinesNext, Store!Next
<1>9. CASE thread[t].left = {} /\ Reply(t, "OK", thread[t].found, thread[t].cmd)
  <2> DEFINE m == [status |-> "OK", data |-> thread[t].found, to |-> thread[t].cmd]
  <2>1. outbox'[t] = <<m>>
    <3>1. Connected(t) /\ outbox[t] = <<>>
      BY <1>1, <1>3 DEF Connected
    <3> QED BY <3>1, <1>9, ReplyShape
  <2>2. Said(m) = [status |-> "OK", data |-> thread[t].found]
    <3>1. thread[t].cmd.op = "LIST"
      BY <1>1
    <3> QED BY ONLY <3>1, SaidOfList DEF m
  <2>3. Head(<<m>>) = m /\ <<m>> # <<>>
    OBVIOUS
  <2> HIDE DEF m
  <2>4. Settled(t)' = [status |-> "OK", data |-> thread[t].found]
    BY <2>1, <2>2, <2>3, SettledBecomes
  <2>5. Answers' = [Answers EXCEPT ![c] = [status |-> "OK", data |-> Answers[c].data]]
    BY <1>6, <1>7, <2>4
  <2>6. Store!Listed(c)
    BY <1>2, <1>7, <1>9, <2>5 DEF Store!Listed, Answers
  <2> QED BY <2>6 DEF RefinesNext, Store!Next
<1> QED BY <1>1, <1>8, <1>9

\* Writing to a temporary file is seen by nobody.
LEMMA RefineFill ==
    ASSUME Shape, Sound, NEW t \in Threads, thread[t].at \in {"open", "write1", "write2"},
           thread'[t].at \in {"write1", "write2", "replace"},
           UNCHANGED <<blob, outbox, call, sock>>,
           \A u \in Threads \ {t} : thread'[u] = thread[u],
           NEW n \in Inodes, \A m \in Inodes \ {n} : content'[m] = content[m],
           \A k \in Keys : blob[k] # n,
           \A u \in Threads : thread[u].at \in Getting => thread[u].fd # n
    PROVE  RefinesNext
<1>1. outbox[t] = <<>>
  BY BusyThread DEF Putting, Serving
<1>2. Settled(t) = None /\ Settled(t)' = None
  BY <1>1, SettledIs, SettledBecomes DEF Getting, Serving
<1>3. \A u \in Threads : thread[u].at \in Getting => content'[thread[u].fd] = content[thread[u].fd]
  BY DEF Shape, ThreadsTyped, ThreadOK, Getting, HasFile
<1>4. Stored' = Stored
  <2>1. \A k \in Keys : blob[k] # None => content'[blob[k]] = content[blob[k]]
    BY DEF Shape, FilesTyped
  <2> QED BY <2>1 DEF Stored, Blob
<1> QED BY <1>2, <1>3, <1>4, Unseen

LEMMA RefineOpenTmp ==
    ASSUME Shape, Sound, NEW t \in Threads, OpenTmp(t)
    PROVE  RefinesNext
<1>1. PICK n \in Inodes, k \in Keys \ Illegal :
        /\ thread[t].at = "open"
        /\ n = tmp[k] \/ (tmp[k] = None /\ n \in Unused)
        /\ \A m \in Inodes \ {n} : content'[m] = content[m]
        /\ thread'[t].at = "write1"
        /\ \A u \in Threads \ {t} : thread'[u] = thread[u]
  BY OpenTmpFacts
<1>2. UNCHANGED <<blob, outbox, call, sock>> /\ n # None
  BY BrokerAssumption DEF OpenTmp, clients
<1>3. \A l \in Keys : blob[l] # n
  BY <1>1, <1>2 DEF Unused, Sound, BlobsWhole
<1>4. \A u \in Threads : thread[u].at \in Getting => thread[u].fd # n
  BY <1>1 DEF Unused, Sound, ReaderSafe
<1> QED BY <1>1, <1>2, <1>3, <1>4, RefineFill

LEMMA RefineWrite ==
    ASSUME Shape, Sound, NEW t \in Threads, Write(t)
    PROVE  RefinesNext
<1>1. PICK h \in Halves :
        /\ thread[t].at = (IF h = 1 THEN "write1" ELSE "write2")
        /\ thread[t].fd \in Inodes /\ thread[t].cmd \in Requests
        /\ \A m \in Inodes \ {thread[t].fd} : content'[m] = content[m]
        /\ thread'[t].at = (IF h = 1 THEN "write2" ELSE "replace")
        /\ \A u \in Threads \ {t} : thread'[u] = thread[u]
  BY WriteFacts
<1>2. PICK n \in Inodes : n = thread[t].fd
  BY <1>1
<1>3. /\ UNCHANGED <<blob, outbox, call, sock>> /\ thread[t].cmd.arg \in Keys /\ n # None
      /\ tmp[thread[t].cmd.arg] = n
  <2>1. thread[t].cmd.arg \in Keys
    BY <1>1, RequestShape DEF Shape, ThreadsTyped, ThreadOK, Putting
  <2> QED BY <1>1, <1>2, <2>1, BrokerAssumption DEF Write, clients, Sound, WriterSafe
<1>4. \A l \in Keys : blob[l] # n
  BY <1>3 DEF Sound, BlobsWhole
<1>5. \A u \in Threads : thread[u].at \in Getting => thread[u].fd # n
  BY <1>3 DEF Sound, ReaderSafe
<1> QED BY <1>1, <1>2, <1>3, <1>4, <1>5, RefineFill

\* The rename is where a PUT takes effect.
LEMMA RefineReplace ==
    ASSUME SingleWriter, Shape, Sound, NEW t \in Threads, Replace(t)
    PROVE  RefinesNext
<1>1. PICK k \in Keys \ Illegal :
        /\ k = thread[t].cmd.arg /\ thread[t].cmd \in Requests /\ thread[t].cmd.op = "PUT"
        /\ thread[t].at = "replace"
        /\ UNCHANGED <<content, client, call, attempt, acked>>
        /\ \A u \in Threads \ {t} : thread'[u] = thread[u] /\ outbox'[u] = outbox[u]
        /\ tmp[k] # None =>
             /\ \A l \in Keys \ {k} : blob'[l] = blob[l] /\ tmp'[l] = tmp[l]
             /\ blob' = [blob EXCEPT ![k] = tmp[k]]
             /\ thread'[t].at = "count" /\ thread'[t].cmd = thread[t].cmd
             /\ outbox' = outbox /\ sock' = sock
  BY ReplaceFacts
<1>2. /\ tmp[k] # None /\ tmp[k] \in Inodes /\ content[tmp[k]] = Whole(thread[t].cmd.data)
  BY <1>1, ReplaceMoves
<1>3. /\ blob' = [blob EXCEPT ![k] = tmp[k]] /\ DOMAIN blob = Keys
      /\ thread'[t].at = "count" /\ outbox' = outbox /\ sock' = sock
      /\ content' = content /\ call' = call
  BY <1>1, <1>2 DEF Shape, FilesTyped
<1>4. outbox[t] = <<>>
  BY <1>1, BusyThread DEF Putting, Serving
<1>5. PICK c \in Clients : sock[c] = t
  BY <1>1 DEF Sound, Attended, Connected
<1>6. call[c] = thread[t].cmd /\ call[c] # None
  BY <1>1, <1>5, BusyThread, RequestShape DEF Putting, Serving
<1>7. \A d \in Clients : sock[d] = t => d = c
  BY <1>5 DEF Shape, Conversation
<1>8. Settled(t) = None /\ Settled(t)' = [status |-> "OK", data |-> None]
  BY <1>1, <1>3, <1>4, SettledIs, SettledBecomes DEF Getting, Serving
<1>9. Stored' = [Stored EXCEPT ![k] = thread[t].cmd.data]
  <2>1. Stored' = [l \in Keys |-> IF blob'[l] = None THEN None ELSE Blob(content[blob'[l]])]
    BY <1>3 DEF Stored, Blob
  <2>2. blob'[k] = tmp[k] /\ \A l \in Keys \ {k} : blob'[l] = blob[l]
    BY <1>3
  <2>3. Blob(content[tmp[k]]) = thread[t].cmd.data
    BY <1>2, BlobOfWhole
  <2>4. Stored = [l \in Keys |-> IF blob[l] = None THEN None ELSE Blob(content[blob[l]])]
    BY DEF Stored
  <2>5. DOMAIN Stored' = Keys /\ DOMAIN Stored = Keys
        /\ Stored'[k] = thread[t].cmd.data
        /\ \A l \in Keys \ {k} : Stored'[l] = Stored[l]
    BY <2>1, <2>2, <2>3, <2>4, <1>2
  <2>6. Stored' = [l \in Keys |-> Stored'[l]] /\ Stored = [l \in Keys |-> Stored[l]]
    BY <2>1, <2>4
  <2> QED BY ONLY <2>5, <2>6
<1>10. /\ Store!Stores(call[c])
       /\ Settled(t)' = Store!Reply(call[c], Stored')
  BY <1>1, <1>6, <1>8 DEF Store!Stores, Store!Reply
<1>11. Stored' = IF Store!Stores(call[c]) THEN [Stored EXCEPT ![call[c].arg] = call[c].data]
                 ELSE Stored
  BY <1>1, <1>6, <1>9, <1>10
<1>12. Store!Settle(c)
  BY <1>1, <1>3, <1>5, <1>6, <1>7, <1>8, <1>10, <1>11, Settles
<1> QED BY <1>12 DEF RefinesNext, Store!Next

LEMMA RefineCountPut ==
    ASSUME Shape, Sound, NEW t \in Threads, CountPut(t)
    PROVE  RefinesNext
<1>1. UNCHANGED <<storage, client, call, attempt, acked>> /\ thread[t].at = "count"
  BY DEF CountPut
<1>2. CASE Dies
  BY <1>1, <1>2, RefineDies
<1>3. CASE /\ Reply(t, "OK", None, thread[t].cmd)
           /\ thread' = [thread EXCEPT ![t] = [Idle EXCEPT !.at = "recv"]]
           /\ sock' = sock
  <2> DEFINE m == [status |-> "OK", data |-> None, to |-> thread[t].cmd]
  <2>1. /\ thread = [u \in Threads |-> thread[u]] /\ outbox[t] = <<>>
        /\ thread[t].cmd.op = "PUT"
    BY <1>1, BusyThread DEF Serving, Shape, ThreadsTyped, ThreadOK, Putting
  <2>2. \A u \in Threads \ {t} : thread'[u] = thread[u]
    BY <1>3, <2>1
  <2>3. Head(<<m>>) = m /\ <<m>> # <<>>
    OBVIOUS
  <2>4. Said(m) = [status |-> "OK", data |-> None]
    <3>1. thread[t].cmd.op # "LIST" /\ thread[t].cmd.op # "GET"
      BY <2>1
    <3> QED BY ONLY <3>1, SaidOfOthers DEF m
  <2> HIDE DEF m
  <2>5. /\ outbox'[t] = IF Connected(t) THEN <<m>> ELSE <<>>
        /\ \A u \in Threads \ {t} : outbox'[u] = outbox[u]
    BY <1>3, <2>1, ReplyShape DEF m
  <2>6. Connected(t)
    BY <1>1 DEF Sound, Attended
  <2>7. Settled(t) = [status |-> "OK", data |-> None] /\ Settled(t)' = Said(m)
    BY <1>1, <2>1, <2>3, <2>5, <2>6, SettledIs, SettledBecomes
  <2>8. Stored' = Stored /\ content' = content
    BY <1>1 DEF Stored, storage, Blob
  <2> QED BY <1>1, <1>3, <2>2, <2>4, <2>5, <2>7, <2>8, Unseen
<1> QED BY <1>2, <1>3 DEF CountPut

LEMMA RefineRead ==
    ASSUME Shape, Sound, NEW t \in Threads, Read(t)
    PROVE  RefinesNext
<1>1. /\ UNCHANGED <<storage, clients, acked>>
      /\ \A u \in Threads \ {t} : thread'[u] = thread[u] /\ outbox'[u] = outbox[u]
      /\ \/ /\ thread[t].at = "read1" /\ outbox' = outbox
            /\ thread'[t].at = "read2" /\ thread'[t].fd = thread[t].fd
            /\ thread'[t].cmd = thread[t].cmd
            /\ thread'[t].got[1] = content[thread[t].fd][1]
         \/ /\ thread[t].at = "read2" /\ thread'[t].at = "recv" /\ outbox[t] = <<>>
            /\ Reply(t, "OK", [thread[t].got EXCEPT ![2] = content[thread[t].fd][2]],
                     thread[t].cmd)
  BY ReadFacts
<1>2. UNCHANGED <<call, sock>> /\ Stored' = Stored /\ content' = content
  BY <1>1 DEF clients, storage, Stored, Blob
<1>3. /\ thread[t].at \in Getting /\ ReaderSafe(t) /\ outbox[t] = <<>>
      /\ thread[t].cmd.op = "GET" /\ DOMAIN thread[t].got = Halves
      /\ thread[t].got = [i \in Halves |-> thread[t].got[i]]
  BY <1>1, BusyThread DEF Serving, Sound, Getting, Shape, ThreadsTyped, ThreadOK
<1>4. Settled(t) = [status |-> "OK", data |-> Blob(content[thread[t].fd])]
  BY <1>3, SettledIs
<1>5. CASE thread[t].at = "read1"
  <2>1. Settled(t)' = Settled(t)
    BY <1>1, <1>2, <1>3, <1>4, <1>5, SettledBecomes DEF Getting, Serving
  <2> QED BY <1>1, <1>2, <2>1, Unseen
<1>6. CASE thread[t].at = "read2"
  <2> DEFINE data == [thread[t].got EXCEPT ![2] = content[thread[t].fd][2]]
             m == [status |-> "OK", data |-> data, to |-> thread[t].cmd]
  <2>1. PICK b \in Payload[thread[t].cmd.arg] : content[thread[t].fd] = Whole(b)
    BY <1>3, <1>6 DEF ReaderSafe, Holds
  <2>2. data = Whole(b)
    BY <1>3, <1>6, <2>1, BothHalves DEF ReaderSafe
  <2>3. Blob(data) = Blob(content[thread[t].fd])
    BY <2>1, <2>2
  <2> HIDE DEF data
  <2>4. Said(m) = [status |-> "OK", data |-> Blob(data)]
    <3>1. thread[t].cmd.op = "GET"
      BY <1>3
    <3> QED BY ONLY <3>1, SaidOfGet DEF m
  <2>5. Head(<<m>>) = m /\ <<m>> # <<>>
    OBVIOUS
  <2> HIDE DEF m
  <2>6. outbox'[t] = <<m>>
    <3>1. Reply(t, "OK", data, thread[t].cmd) /\ outbox[t] = <<>> /\ Connected(t)
      BY <1>1, <1>6 DEF data, Sound, Attended
    <3> QED BY <3>1, ReplyShape DEF m
  <2>7. Settled(t)' = Said(m)
    BY <2>5, <2>6, SettledBecomes
  <2> QED BY <1>1, <1>2, <1>4, <2>3, <2>4, <2>7, Unseen
<1> QED BY <1>3, <1>5, <1>6 DEF Getting, Serving

LEMMA RefineSame ==
    ASSUME UNCHANGED <<storage, thread, outbox, call, sock>>
    PROVE  RefinesNext
BY DEF RefinesNext, storage, Stored, Blob, Answers, Settled, Said

LEMMA RefineInit == Init => Store!Init
<1> SUFFICES ASSUME Init PROVE Store!Init
  OBVIOUS
<1>1. Stored = [k \in Keys |-> None]
  BY DEF Init, Stored
<1>2. \A c \in Clients : sock[c] \notin Threads
  BY BrokerAssumption DEF Init
<1> QED BY <1>1, <1>2 DEF Init, Store!Init

LEMMA RefineNext ==
    ASSUME Reliable, SingleWriter, Shape, Sound, [Next]_vars
    PROVE  RefinesNext
<1>1. ASSUME NEW c \in Clients, Run(c) PROVE RefinesNext
  BY <1>1, RefineSend, RefineRefused, RefineReturn DEF Run, TimesOut, Reliable
<1>2. ASSUME NEW t \in Threads, Serve(t) PROVE RefinesNext
  <2>1. ~ Hangup(t)
    BY DEF Hangup, Sound, Attended
  <2> QED BY <1>2, <2>1, RefineRecv, RefineList, RefineOpenTmp, RefineWrite, RefineReplace, RefineCountPut,
             RefineRead DEF Serve
<1>3. Crash => RefinesNext
  BY RefineDies DEF Crash
<1>4. Restart => RefinesNext
  BY RefineSame DEF Restart, clients
<1>5. UNCHANGED vars => RefinesNext
  BY RefineSame DEF vars, broker, clients
<1> QED BY <1>1, <1>2, <1>3, <1>4, <1>5, RefineCall DEF Next

\* The broker's files and threads implement a store of whole blobs: a PUT, GET
\* or STAT takes effect, and its reply is settled, at one moment between call
\* and return -- a PUT when its file is renamed, a GET when the file is opened --
\* and a LIST sees each namespace at one such moment, when its directory is
\* read, one after the other; however the threads interleave and wherever the
\* broker dies.
THEOREM BrokerImplementsStore ==
    ASSUME Reliable, SingleWriter
    PROVE  Spec => ImplementsStore
<1>1. Shape /\ Sound /\ [Next]_vars => [Store!Next]_<<Stored, call, Answers>>
  BY RefineNext DEF RefinesNext
<1> QED
  BY <1>1, RefineInit, AlwaysSound, PTL DEF Spec, ImplementsStore, Store!Spec, Answers
=============================================================================
