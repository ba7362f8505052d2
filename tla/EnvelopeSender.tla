--------------------------- MODULE EnvelopeSender ---------------------------
(***************************************************************************)
(* The Approach B sender (approach-b-broker-envelope/sender.py): runs of   *)
(* send() for one --file, perhaps several at a time, over the state file   *)
(* that makes an interrupted upload resumable and over a broker that       *)
(* stores what it is given (the broker's own races are in Broker).         *)
(***************************************************************************)
EXTENDS Integers, Envelope

CONSTANTS
    Torn,               \* a state file opened for writing and not yet written
    Senders,            \* sender processes that may run for the file
    Versions,           \* what the file holds, now or after an edit
    EditsWhileReading,  \* TRUE: the file may be edited while a sender runs
    MaxTransfers,       \* bound on transfer ids ever generated
    MaxEdits, MaxKills  \* bounds on edits of the file and kills

VARIABLES
    source,             \* --file: chunks by index
    statefile,          \* .send-state/<tag>.json: None or its inode and content
    store,              \* the broker's blobs by key
    pc,                 \* where each sender is
    size,               \* its os.path.getsize(file)
    tid,                \* the transfer_id in its state, which names its key too
    fd,                 \* inode of the state file it has open
    already,            \* keys the broker listed
    next,               \* index of the next chunk
    read, records,      \* what it has hashed; its list of ciphertext hashes
    generated,          \* number of transfer ids generated
    used,               \* history: every (key, nonce, plaintext) encrypted
    published,          \* history: transfer ids of runs that returned 0
    edits, kills

stream == <<next, read, records>>
memory == <<size, tid, fd, already, stream>>
vars == <<source, statefile, store, pc, memory, generated, used, published, edits, kills>>

TransferIds == 1..MaxTransfers

\* What becomes of the file if one run sends all of it, and nobody edits it.
Transfer(t, v) == [transfer_id |-> t, ephemeral |-> t, file |-> v]

\* A file is some number of chunks, none of them empty, and None is no blob.
ASSUME SenderAssumption ==
    /\ \A v \in Versions :
         /\ Cardinality(DOMAIN v) \in Nat
         /\ v = [i \in 0..(Cardinality(DOMAIN v) - 1) |-> v[i]]
         /\ \A i \in DOMAIN v : v[i] # NoBytes
         /\ \A t \in TransferIds :
              LET s == Transfer(t, v) IN
              None \notin {ManifestOf(s), Sign("sender", ManifestOf(s))}
                            \cup {ChunkCiphertext(s, i) : i \in DOMAIN v}
    /\ EditsWhileReading \in BOOLEAN
    /\ MaxTransfers \in Nat /\ MaxEdits \in Nat /\ MaxKills \in Nat

Nothing == [i \in {} |-> None]

Sizes == {Cardinality(DOMAIN v) : v \in Versions}
ChunkKeys == {<<t, i>> : t \in TransferIds, i \in UNION {DOMAIN v : v \in Versions}}
Keys == ChunkKeys \cup (TransferIds \X {-1, -2})
manifest_key(t) == <<t, -1>>
signature_key(t) == <<t, -2>>

Init ==
    /\ source \in Versions
    /\ statefile = None
    /\ store = [k \in Keys |-> None]
    /\ pc = [p \in Senders |-> "idle"]
    /\ size = [p \in Senders |-> 0]
    /\ tid = [p \in Senders |-> 0]
    /\ fd = [p \in Senders |-> 0]
    /\ already = [p \in Senders |-> {}]
    /\ next = [p \in Senders |-> 0]
    /\ read = [p \in Senders |-> Nothing] /\ records = [p \in Senders |-> Nothing]
    /\ generated = 0 /\ used = {} /\ published = {}
    /\ edits = 0 /\ kills = 0

\* A run ends, on success, by BrokerError or by an uncaught exception.
Ends(p) ==
    /\ pc' = [pc EXCEPT ![p] = "idle"]
    /\ size' = [size EXCEPT ![p] = 0]
    /\ tid' = [tid EXCEPT ![p] = 0]
    /\ fd' = [fd EXCEPT ![p] = 0]
    /\ already' = [already EXCEPT ![p] = {}]
    /\ next' = [next EXCEPT ![p] = 0]
    /\ read' = [read EXCEPT ![p] = Nothing]
    /\ records' = [records EXCEPT ![p] = Nothing]

Goto(p, label) == pc' = [pc EXCEPT ![p] = label]

-----------------------------------------------------------------------------
Start(p) ==
    /\ pc[p] = "idle"
    /\ size' = [size EXCEPT ![p] = Cardinality(DOMAIN source)]
    /\ Goto(p, "state")
    /\ UNCHANGED <<source, statefile, store, tid, fd, already, stream, generated, used,
                   published, edits, kills>>

\* _load_or_create_state: is there a state file?
FindState(p) ==
    /\ pc[p] = "state"
    /\ Goto(p, IF statefile = None THEN "create" ELSE "load")
    /\ UNCHANGED <<source, statefile, store, memory, generated, used, published, edits, kills>>

\* What there is to parse: a file gone by now is no better than a torn one.
StateContent == IF statefile = None THEN Torn ELSE statefile.content

\* Mutant: any state is taken, whatever the size of the file it was made for.
LoadState_AnySize(p) ==
    /\ pc[p] = "load"
    /\ \/ /\ StateContent = Torn
          /\ Ends(p)
       \/ /\ StateContent # Torn
          /\ tid' = [tid EXCEPT ![p] = StateContent.transfer_id]
          /\ Goto(p, "list")
          /\ UNCHANGED <<size, fd, already, stream>>
    /\ UNCHANGED <<source, statefile, store, generated, used, published, edits, kills>>

\* The state file is opened and parsed.  One that is gone by now raises
\* FileNotFoundError, a half-written one JSONDecodeError; neither is caught.
\* The state counts if it was made for a file of this size.
LoadState(p) ==
    /\ pc[p] = "load"
    /\ \/ /\ StateContent = Torn
          /\ Ends(p)
       \/ /\ StateContent # Torn /\ StateContent.file_size = size[p]
          /\ tid' = [tid EXCEPT ![p] = StateContent.transfer_id]
          /\ Goto(p, "list")
          /\ UNCHANGED <<size, fd, already, stream>>
       \/ /\ StateContent # Torn /\ StateContent.file_size # size[p]
          /\ Goto(p, "create")
          /\ UNCHANGED memory
    /\ UNCHANGED <<source, statefile, store, generated, used, published, edits, kills>>

\* A fresh ephemeral key and transfer_id; the state file is opened, created
\* or truncated, ...
CreateState(p) ==
    /\ pc[p] = "create" /\ generated < MaxTransfers
    /\ LET t == generated + 1
           inode == IF statefile = None THEN t ELSE statefile.inode IN
       /\ generated' = t
       /\ tid' = [tid EXCEPT ![p] = t]
       /\ fd' = [fd EXCEPT ![p] = inode]
       /\ statefile' = [inode |-> inode, content |-> Torn]
    /\ Goto(p, "write")
    /\ UNCHANGED <<source, store, size, already, stream, used, published, edits, kills>>

\* ... and written, which is lost if somebody has removed it meanwhile.
WriteState(p) ==
    /\ pc[p] = "write"
    /\ statefile' =
          IF statefile # None /\ statefile.inode = fd[p]
          THEN [statefile EXCEPT !.content = [transfer_id |-> tid[p], file_size |-> size[p]]]
          ELSE statefile
    /\ Goto(p, "list")
    /\ UNCHANGED <<source, store, memory, generated, used, published, edits, kills>>

\* broker.list: what the broker already holds of this transfer.
ListBlobs(p) ==
    /\ pc[p] = "list"
    /\ already' = [already EXCEPT ![p] = {k \in Keys : k[1] = tid[p] /\ store[k] # None}]
    /\ Goto(p, "chunks")
    /\ UNCHANGED <<source, statefile, store, size, tid, fd, stream, generated, used,
                   published, edits, kills>>

\* The chunk whose turn it is, as it is in the file now, and encrypted (its
\* ephemeral key came with the transfer_id).
AtChunk(p) == pc[p] = "chunks" /\ next[p] < size[p]
Plain(p) == IF next[p] \in DOMAIN source THEN source[next[p]] ELSE NoBytes
Chunk(p) == Encrypt(derive_chunk_key(tid[p], tid[p]), chunk_nonce(next[p]), Plain(p),
                    chunk_aad(tid[p], next[p], size[p]))

\* What a run hashes, records and encrypts of it.
Extend(f, x) == [i \in 0..Cardinality(DOMAIN f) |-> IF i \in DOMAIN f THEN f[i] ELSE x]
Encrypts(p) == used' = used \cup {<<Chunk(p).key, Chunk(p).nonce, Chunk(p).plain>>}
Hashes(p) ==
    /\ read' = IF Plain(p) = NoBytes THEN read
               ELSE [read EXCEPT ![p] = Extend(@, Plain(p))]
    /\ records' = [records EXCEPT ![p] = Extend(@, sha256(Chunk(p)))]

\* The PUT whose turn it is: a chunk, the manifest, the detached signature.
AtManifest(p) == pc[p] = "chunks" /\ next[p] = size[p]
BuildManifest(p) == Manifest(tid[p], tid[p], size[p], sha256(read[p]), records[p])
PutKey(p) == CASE AtChunk(p)    -> <<tid[p], next[p]>>
               [] AtManifest(p) -> manifest_key(tid[p])
               [] OTHER         -> signature_key(tid[p])
PutBlob(p) == CASE AtChunk(p)    -> Chunk(p)
                [] AtManifest(p) -> BuildManifest(p)
                [] OTHER         -> Sign("sender", BuildManifest(p))
Put(p) == store' = [store EXCEPT ![PutKey(p)] = PutBlob(p)]

\* Mutant: once the broker holds anything of the transfer, all is there.
IsThere_Anything(p) == already[p] # {}

IsThere(p) == <<tid[p], next[p]>> \in already[p]

\* Mutant: every other chunk.
SendChunk_Skips(p) ==
    /\ AtChunk(p)
    /\ Encrypts(p) /\ Hashes(p)
    /\ IF IsThere(p) THEN store' = store ELSE Put(p)
    /\ next' = [next EXCEPT ![p] = @ + 2]
    /\ UNCHANGED <<source, statefile, pc, size, tid, fd, already, generated, published,
                   edits, kills>>

\* The next chunk is read, hashed and encrypted, and uploaded if it is not
\* there.
SendChunk(p) ==
    /\ AtChunk(p)
    /\ Encrypts(p) /\ Hashes(p)
    /\ IF IsThere(p) THEN store' = store ELSE Put(p)
    /\ next' = [next EXCEPT ![p] = @ + 1]
    /\ UNCHANGED <<source, statefile, pc, size, tid, fd, already, generated, published,
                   edits, kills>>

\* The manifest, built and signed over what was read, ...
PutManifest(p) ==
    /\ AtManifest(p)
    /\ Put(p)
    /\ Goto(p, "signature")
    /\ UNCHANGED <<source, statefile, memory, generated, used, published, edits, kills>>

\* ... then its detached signature.
PutSignature(p) ==
    /\ pc[p] = "signature"
    /\ Put(p)
    /\ Goto(p, "remove")
    /\ UNCHANGED <<source, statefile, memory, generated, used, published, edits, kills>>

\* Mutant: the state file is left behind.
RemoveState_Leaves(p) ==
    /\ pc[p] = "remove"
    /\ published' = published \cup {tid[p]}
    /\ Ends(p)
    /\ UNCHANGED <<source, statefile, store, generated, used, edits, kills>>

\* Success: whatever state file there is now is removed; if there is none,
\* FileNotFoundError ends the run with a traceback.
RemoveState(p) ==
    /\ pc[p] = "remove"
    /\ statefile' = None
    /\ published' = IF statefile = None THEN published ELSE published \cup {tid[p]}
    /\ Ends(p)
    /\ UNCHANGED <<source, store, generated, used, edits, kills>>

\* A call to the broker fails for good.  A PUT may have been applied.
Uploads(p) == \/ AtChunk(p) /\ ~ IsThere(p)
              \/ AtManifest(p) \/ pc[p] = "signature"

BrokerFails(p) ==
    /\ \/ pc[p] = "list" /\ UNCHANGED <<store, used>>
       \/ /\ Uploads(p)
          /\ Put(p) \/ store' = store
          /\ IF AtChunk(p) THEN Encrypts(p) ELSE used' = used
    /\ Ends(p)
    /\ UNCHANGED <<source, statefile, generated, published, edits, kills>>

-----------------------------------------------------------------------------
\* A sender is killed: the state file stays as it is, half-written perhaps.
Kill(p) ==
    /\ kills < MaxKills
    /\ pc[p] # "idle"
    /\ Ends(p)
    /\ kills' = kills + 1
    /\ UNCHANGED <<source, statefile, store, generated, used, published, edits>>

\* Somebody edits the file, perhaps under the hands of a sender.
Edit ==
    /\ edits < MaxEdits
    /\ EditsWhileReading \/ \A p \in Senders : pc[p] = "idle"
    /\ source' \in Versions \ {source}
    /\ edits' = edits + 1
    /\ UNCHANGED <<statefile, store, pc, memory, generated, used, published, kills>>

-----------------------------------------------------------------------------
Send(p) ==
    \/ FindState(p) \/ LoadState(p) \/ CreateState(p) \/ WriteState(p)
    \/ ListBlobs(p) \/ SendChunk(p) \/ PutManifest(p) \/ PutSignature(p)
    \/ RemoveState(p)

Next ==
    \/ \E p \in Senders : Start(p) \/ Send(p) \/ BrokerFails(p) \/ Kill(p)
    \/ Edit

Spec == Init /\ [][Next]_vars

\* A running sender takes its next step, somebody re-runs it, and the broker
\* lets each kind of call succeed again and again; no particular chunk is
\* promised.
Fairness ==
    \A p \in Senders :
      /\ WF_vars(Start(p))
      /\ WF_vars(Send(p) \/ BrokerFails(p))
      /\ SF_vars(ListBlobs(p))
      /\ SF_vars(SendChunk(p) /\ ~ IsThere(p))
      /\ SF_vars(PutManifest(p)) /\ SF_vars(PutSignature(p))

-----------------------------------------------------------------------------
\* State file, store and senders have their shape.
TypeOK ==
    /\ source \in Versions
    /\ statefile # None =>
         /\ statefile.inode \in TransferIds
         /\ statefile.content # Torn => /\ statefile.content.transfer_id \in 1..generated
                                        /\ statefile.content.file_size \in Sizes
    /\ DOMAIN store = Keys
    /\ \A p \in Senders :
         /\ pc[p] \in {"idle", "state", "load", "create", "write", "list", "chunks",
                       "signature", "remove"}
         /\ pc[p] \in {"write", "list", "chunks", "signature", "remove"}
               => tid[p] \in 1..generated
         /\ size[p] \in Sizes \cup {0}
         /\ DOMAIN records[p] = 0..(next[p] - 1)
         /\ already[p] \subseteq Keys
         /\ next[p] \in 0..size[p]
    /\ generated \in 0..MaxTransfers
    /\ published \subseteq 1..generated
    /\ edits \in 0..MaxEdits /\ kills \in 0..MaxKills

\* "(key, nonce) never repeats": no two different plaintexts are ever
\* encrypted under the same key and nonce, in whatever runs.
NonceNeverRepeats ==
    \A u, v \in used : u[1] = v[1] /\ u[2] = v[2] => u[3] = v[3]

\* A receiver finds a transfer's manifest and signature on the broker, accepts
\* the signature, version, id and list of chunks, finds every chunk with its
\* hash and its tag, and the file it puts together has the size and the hash
\* of the manifest.  The age of the manifest is not looked at: a transfer
\* published after its window is refused as a replay, however whole.
Deliverable(t) ==
    LET m == store[manifest_key(t)]
        plain(i) == store[<<t, i>>].plain
        file == [i \in {j \in DOMAIN m.chunks : plain(j) # NoBytes} |-> plain(i)] IN
    /\ m # None
    /\ store[signature_key(t)] # None
    /\ SignatureValid(store[signature_key(t)], m)
    /\ m.version = MANIFEST_VERSION
    /\ m.transfer_id = t
    /\ DOMAIN m.chunks = 0..(m.total_chunks - 1)
    /\ \A i \in DOMAIN m.chunks :
         LET ct == store[<<t, i>>] IN
         /\ ct # None
         /\ sha256(ct) = m.chunks[i]
         /\ TagValid(derive_chunk_key(m.ephemeral, t), chunk_nonce(i), ct,
                     chunk_aad(t, i, m.total_chunks))
    /\ Cardinality(DOMAIN file) = m.file_size
    /\ m.plaintext_sha256 = sha256(file)

\* When a run returns 0 the broker holds a transfer that is deliverable but
\* for its age -- pieced together from however many interrupted runs, with
\* other senders at work on the same file.
PublishedIsDeliverable == \A t \in published : Deliverable(t)

\* "deleted on success": the key of a published transfer is not on disk.
PublishedKeyIsWiped ==
    \A t \in published :
        statefile # None /\ statefile.content # Torn
            => statefile.content.transfer_id # t
=============================================================================
