------------------------ MODULE EnvelopeSender_proofs ------------------------
(***************************************************************************)
(* Proofs about EnvelopeSender, for any number of senders at work on the   *)
(* same file, any number of transfers, edits and kills.                    *)
(***************************************************************************)
EXTENDS EnvelopeSender, FiniteSetTheorems, TLAPS

Places == {"idle", "state", "load", "create", "write", "list", "chunks", "signature", "remove"}
\* Where a run has its transfer_id, and where it is past the LIST.
Named    == {"write", "list", "chunks", "signature", "remove"}
PastList  == {"chunks", "signature", "remove"}


Typed ==
    /\ source \in Versions
    /\ statefile # None =>
         /\ statefile = [inode |-> statefile.inode, content |-> statefile.content]
         /\ statefile.inode \in TransferIds
         /\ statefile.content # Torn => /\ statefile.content.transfer_id \in 1..generated
                                        /\ statefile.content.file_size \in Sizes
    /\ DOMAIN store = Keys
    /\ pc \in [Senders -> Places]
    /\ size \in [Senders -> Nat]
    /\ tid \in [Senders -> Nat]
    /\ already \in [Senders -> SUBSET Keys]
    /\ next \in [Senders -> Nat]
    /\ DOMAIN fd = Senders /\ DOMAIN read = Senders /\ DOMAIN records = Senders
    /\ generated \in 0..MaxTransfers
    /\ published \subseteq 1..generated
    /\ edits \in 0..MaxEdits /\ kills \in 0..MaxKills
    /\ \A p \in Senders :
         /\ pc[p] \in Named => tid[p] \in 1..generated
         /\ IF pc[p] = "idle" THEN size[p] = 0 ELSE size[p] \in Sizes
         /\ next[p] <= size[p]
         /\ DOMAIN records[p] = 0..(next[p] - 1)
         /\ pc[p] \notin PastList => next[p] = 0 /\ read[p] = Nothing /\ records[p] = Nothing

-----------------------------------------------------------------------------
(* Type correctness.                                                       *)

\* The number of chunks of a file, and of what has been read of it.
LEMMA SizesAreNat == Sizes \subseteq Nat
BY SenderAssumption DEF Sizes

LEMMA ExtendShape ==
    ASSUME NEW n \in Nat, NEW f, DOMAIN f = 0..(n - 1), NEW x
    PROVE  /\ DOMAIN Extend(f, x) = 0..n
           /\ Extend(f, x) = [i \in 0..n |-> IF i \in 0..(n - 1) THEN f[i] ELSE x]
<1>1. Cardinality(0..(n - 1)) = n
  BY FS_Interval
<1> QED BY <1>1 DEF Extend

LEMMA ExtendPrefix ==
    ASSUME NEW n \in Nat, NEW g, NEW f, DOMAIN f = 0..(n - 1),
           \A i \in 0..(n - 1) : f[i] = g[i]
    PROVE  Extend(f, g[n]) = [i \in 0..n |-> g[i]]
<1>1. Extend(f, g[n]) = [i \in 0..n |-> IF i \in 0..(n - 1) THEN f[i] ELSE g[n]]
  BY ExtendShape
<1>2. \A i \in 0..n : (IF i \in 0..(n - 1) THEN f[i] ELSE g[n]) = g[i]
  OBVIOUS
<1> QED BY <1>1, <1>2

LEMMA TypeInit == Init => Typed
<1> SUFFICES ASSUME Init
             PROVE  Typed
  OBVIOUS
<1>1. DOMAIN Nothing = 0..(0 - 1)
  BY DEF Nothing
<1> QED BY <1>1, SenderAssumption DEF Init, Typed, Places, Named, PastList

\* A run that ends keeps the invariant, whatever it did to the broker's blobs.
LEMMA TypeEnds ==
    ASSUME Typed, NEW p \in Senders, Ends(p),
           UNCHANGED <<source, generated, edits>>,
           statefile' \in {statefile, None}, DOMAIN store' = Keys,
           published' \subseteq 1..generated, kills' \in 0..MaxKills
    PROVE  Typed'
<1>1. DOMAIN Nothing = 0..(0 - 1)
  BY DEF Nothing
<1> QED BY <1>1 DEF Typed, Ends, Places, Named, PastList

LEMMA TypeNext == Typed /\ [Next]_vars => Typed'
<1> SUFFICES ASSUME Typed, [Next]_vars
             PROVE  Typed'
  OBVIOUS
<1> USE SizesAreNat DEF Goto, memory, stream, Places, Named, PastList, TransferIds
<1>1. ASSUME NEW p \in Senders, Start(p)
      PROVE  Typed'
  <2>1. Cardinality(DOMAIN source) \in Sizes
    BY DEF Typed, Sizes
  <2> QED BY <1>1, <2>1 DEF Typed, Start
<1>2. ASSUME NEW p \in Senders, FindState(p)
      PROVE  Typed'
  BY <1>2 DEF Typed, FindState
<1>3. ASSUME NEW p \in Senders, LoadState(p)
      PROVE  Typed'
  <2>1. CASE Ends(p)
    BY <1>3, <2>1, TypeEnds DEF Typed, LoadState
  <2>2. CASE /\ StateContent # Torn
             /\ tid' = [tid EXCEPT ![p] = StateContent.transfer_id]
             /\ Goto(p, "list") /\ UNCHANGED <<size, fd, already, stream>>
    <3>1. StateContent.transfer_id \in 1..generated
      BY <2>2 DEF Typed, StateContent
    <3> QED BY <1>3, <2>2, <3>1 DEF Typed, LoadState
  <2>3. CASE Goto(p, "create") /\ UNCHANGED memory
    BY <1>3, <2>3 DEF Typed, LoadState
  <2> QED BY <1>3, <2>1, <2>2, <2>3 DEF LoadState
<1>4. ASSUME NEW p \in Senders, CreateState(p)
      PROVE  Typed'
  <2>1. PICK inode \in TransferIds : statefile' = [inode |-> inode, content |-> Torn]
    <3> DEFINE inode == IF statefile = None THEN generated + 1 ELSE statefile.inode
    <3>1. inode \in TransferIds
      BY <1>4, SenderAssumption DEF Typed, CreateState
    <3> QED BY <1>4, <3>1 DEF CreateState
  <2>2. /\ generated' = generated + 1 /\ generated' \in 0..MaxTransfers
        /\ tid' = [tid EXCEPT ![p] = generated + 1]
        /\ DOMAIN fd' = Senders
    BY <1>4, SenderAssumption DEF Typed, CreateState
  <2> QED BY <1>4, <2>1, <2>2 DEF Typed, CreateState
<1>5. ASSUME NEW p \in Senders, WriteState(p)
      PROVE  Typed'
  <2>1. CASE statefile' = statefile
    BY <1>5, <2>1 DEF Typed, WriteState
  <2>2. CASE statefile' # statefile
    <3>1. /\ statefile # None
          /\ statefile' = [statefile EXCEPT !.content =
                              [transfer_id |-> tid[p], file_size |-> size[p]]]
      BY <1>5, <2>2 DEF WriteState
    <3>2. statefile' = [inode |-> statefile.inode,
                        content |-> [transfer_id |-> tid[p], file_size |-> size[p]]]
      BY <3>1 DEF Typed
    <3>3. size[p] \in Sizes /\ tid[p] \in 1..generated
      BY <1>5 DEF Typed, WriteState
    <3>4. /\ statefile'.inode = statefile.inode
          /\ statefile'.content = [transfer_id |-> tid[p], file_size |-> size[p]]
          /\ statefile' = [inode |-> statefile'.inode, content |-> statefile'.content]
      BY <3>2
    <3>5. /\ statefile'.content.transfer_id \in 1..generated
          /\ statefile'.content.file_size \in Sizes
          /\ statefile'.inode \in TransferIds
      BY <3>1, <3>3, <3>4 DEF Typed
    <3> HIDE DEF TransferIds
    <3> QED BY <1>5, <3>4, <3>5 DEF Typed, WriteState
  <2> QED BY <2>1, <2>2
<1>6. ASSUME NEW p \in Senders, ListBlobs(p)
      PROVE  Typed'
  BY <1>6 DEF Typed, ListBlobs
<1>7. ASSUME NEW p \in Senders, SendChunk(p)
      PROVE  Typed'
  <2>1. /\ next' = [next EXCEPT ![p] = next[p] + 1]
        /\ records' = [records EXCEPT ![p] = Extend(records[p], sha256(Chunk(p)))]
        /\ read' \in {read, [read EXCEPT ![p] = Extend(read[p], Plain(p))]}
        /\ next[p] + 1 <= size[p] /\ pc[p] = "chunks"
    BY <1>7 DEF Typed, SendChunk, Hashes, AtChunk
  <2>4. DOMAIN store' = Keys
    BY <1>7 DEF Typed, SendChunk, Put
  <2>2. DOMAIN Extend(records[p], sha256(Chunk(p))) = 0..next[p]
    BY ExtendShape DEF Typed
  <2>3. UNCHANGED <<source, statefile, pc, size, tid, fd, already, generated, published,
                    edits, kills>>
    BY <1>7 DEF SendChunk
  <2> QED BY <2>1, <2>2, <2>3, <2>4 DEF Typed
<1>8. ASSUME NEW p \in Senders, PutManifest(p) \/ PutSignature(p)
      PROVE  Typed'
  BY <1>8 DEF Typed, PutManifest, PutSignature, Put, AtManifest
<1>9. ASSUME NEW p \in Senders, RemoveState(p)
      PROVE  Typed'
  <2>1. published' \subseteq 1..generated
    BY <1>9 DEF Typed, RemoveState
  <2> QED BY <1>9, <2>1, TypeEnds DEF Typed, RemoveState
<1>10. ASSUME NEW p \in Senders, BrokerFails(p)
       PROVE  Typed'
  <2>1. DOMAIN store' = Keys
    BY <1>10 DEF Typed, BrokerFails, Put
  <2> QED BY <1>10, <2>1, TypeEnds DEF Typed, BrokerFails
<1>11. ASSUME NEW p \in Senders, Kill(p)
       PROVE  Typed'
  <2>1. kills' \in 0..MaxKills
    BY <1>11, SenderAssumption DEF Typed, Kill
  <2> QED BY <1>11, <2>1, TypeEnds DEF Typed, Kill
<1>12. CASE Edit
  BY <1>12, SenderAssumption, SMTT(20) DEF Typed, Edit
<1>13. CASE UNCHANGED vars
  BY <1>13 DEF Typed, vars
<1> QED BY <1>1, <1>2, <1>3, <1>4, <1>5, <1>6, <1>7, <1>8, <1>9, <1>10, <1>11, <1>12,
           <1>13 DEF Next, Send

\* State file, store and senders keep their shape: in particular whoever
\* uploads has a transfer_id that was generated, and has not read past the size.
THEOREM SenderTypeCorrect == Spec => []TypeOK
<1>1. Spec => []Typed
  BY TypeInit, TypeNext, PTL DEF Spec
<1>2. Typed => TypeOK
  BY DEF Typed, TypeOK, Places, Named
<1> QED BY <1>1, <1>2, PTL

-----------------------------------------------------------------------------
(* The ephemeral key.                                                      *)

\* Until its state file is written, a run is the only one that knows its
\* transfer_id.
KeyIsFresh ==
    \A p \in Senders : pc[p] = "write" =>
        /\ tid[p] \notin published
        /\ statefile # None /\ statefile.content # Torn
              => statefile.content.transfer_id # tid[p]
        /\ \A q \in Senders \ {p} : pc[q] \in Named => tid[q] # tid[p]

LEMMA FreshNext ==
    Typed /\ KeyIsFresh /\ PublishedKeyIsWiped /\ [Next]_vars
        => KeyIsFresh' /\ PublishedKeyIsWiped'
<1> SUFFICES ASSUME Typed, KeyIsFresh, PublishedKeyIsWiped, [Next]_vars
             PROVE  KeyIsFresh' /\ PublishedKeyIsWiped'
  OBVIOUS
<1> USE DEF KeyIsFresh, PublishedKeyIsWiped, Named
\* Most steps create no transfer_id, write no state file and publish nothing.
<1>1. ASSUME NEW p \in Senders,
             statefile' = statefile \/ statefile' = None, published' = published,
             \A q \in Senders : pc'[q] \in Named =>
                 pc[q] \in Named /\ tid'[q] = tid[q] /\ (pc'[q] = "write" => pc[q] = "write")
      PROVE  KeyIsFresh' /\ PublishedKeyIsWiped'
  BY <1>1
<1>2. ASSUME NEW p \in Senders, Ends(p), statefile' = statefile, published' = published
      PROVE  KeyIsFresh' /\ PublishedKeyIsWiped'
  BY <1>1, <1>2 DEF Typed, Ends
<1>3. ASSUME NEW p \in Senders, LoadState(p)
      PROVE  KeyIsFresh' /\ PublishedKeyIsWiped'
  <2>1. CASE Ends(p)
    BY <1>2, <1>3, <2>1 DEF LoadState
  <2>2. CASE /\ StateContent # Torn
             /\ tid' = [tid EXCEPT ![p] = StateContent.transfer_id]
             /\ Goto(p, "list")
    <3>1. statefile # None /\ statefile.content # Torn
          /\ StateContent = statefile.content
      BY <2>2 DEF StateContent
    <3>2. statefile' = statefile /\ published' = published /\ pc[p] # "write"
      BY <1>3 DEF LoadState
    <3> QED BY <2>2, <3>1, <3>2 DEF Typed, Goto
  <2>3. CASE Goto(p, "create") /\ UNCHANGED memory
    BY <1>1, <1>3, <2>3 DEF Typed, LoadState, Goto, memory
  <2> QED BY <1>3, <2>1, <2>2, <2>3 DEF LoadState
<1>4. ASSUME NEW p \in Senders, CreateState(p)
      PROVE  KeyIsFresh' /\ PublishedKeyIsWiped'
  <2>1. /\ tid' = [tid EXCEPT ![p] = generated + 1] /\ pc' = [pc EXCEPT ![p] = "write"]
        /\ statefile'.content = Torn /\ published' = published
    BY <1>4 DEF CreateState, Goto
  <2>2. /\ generated \in Nat /\ published \subseteq 1..generated
        /\ \A q \in Senders : pc[q] \in Named => tid[q] \in 1..generated
        /\ DOMAIN tid = Senders /\ DOMAIN pc = Senders
    BY SenderAssumption DEF Typed
  <2>3. \A q \in Senders : /\ pc'[q] = IF q = p THEN "write" ELSE pc[q]
                           /\ tid'[q] = IF q = p THEN generated + 1 ELSE tid[q]
    BY <2>1, <2>2
  <2>4. generated + 1 \notin published
        /\ \A q \in Senders : pc[q] \in Named => tid[q] # generated + 1
    BY <2>2
  <2>5. PublishedKeyIsWiped'
    BY <2>1
  <2>6. KeyIsFresh'
    BY <2>1, <2>3, <2>4
  <2> QED BY <2>5, <2>6
<1>5. ASSUME NEW p \in Senders, WriteState(p)
      PROVE  KeyIsFresh' /\ PublishedKeyIsWiped'
  <2>1. pc[p] = "write" /\ pc' = [pc EXCEPT ![p] = "list"] /\ UNCHANGED <<tid, published>>
    BY <1>5 DEF WriteState, Goto, memory
  <2>2. CASE statefile' = statefile
    BY <1>1, <2>1, <2>2 DEF Typed
  <2>3. CASE statefile' # statefile
    <3>1. statefile'.content.transfer_id = tid[p]
      BY <1>5, <2>3 DEF WriteState, Typed
    <3> QED BY <2>1, <3>1 DEF Typed
  <2> QED BY <2>2, <2>3
<1>6. ASSUME NEW p \in Senders, RemoveState(p)
      PROVE  KeyIsFresh' /\ PublishedKeyIsWiped'
  <2>1. pc[p] = "remove" /\ statefile' = None /\ published' \subseteq published \cup {tid[p]}
    BY <1>6 DEF RemoveState
  <2>2. \A q \in Senders : pc'[q] \in Named => q # p /\ pc[q] = pc'[q] /\ tid'[q] = tid[q]
    BY <1>6 DEF Typed, RemoveState, Ends
  <2> QED BY <2>1, <2>2
<1>7. ASSUME NEW p \in Senders, Start(p) \/ FindState(p) \/ ListBlobs(p)
      PROVE  KeyIsFresh' /\ PublishedKeyIsWiped'
  BY <1>1, <1>7, ZenonT(60) DEF Typed, Start, FindState, ListBlobs, Goto, memory
<1>8. ASSUME NEW p \in Senders, SendChunk(p) \/ PutManifest(p) \/ PutSignature(p)
      PROVE  KeyIsFresh' /\ PublishedKeyIsWiped'
  BY <1>1, <1>8 DEF Typed, SendChunk, PutManifest, PutSignature, AtManifest, Goto, memory
<1>9. ASSUME NEW p \in Senders, BrokerFails(p) \/ Kill(p)
      PROVE  KeyIsFresh' /\ PublishedKeyIsWiped'
  BY <1>2, <1>9 DEF BrokerFails, Kill
<1>10. CASE Edit \/ UNCHANGED vars
  BY <1>10 DEF Edit, vars, memory
<1> QED BY <1>3, <1>4, <1>5, <1>6, <1>7, <1>8, <1>9, <1>10 DEF Next, Send

\* "deleted on success": once a run has returned 0 for a transfer, its
\* ephemeral key is on disk no more and never comes back, whatever other
\* senders do with the state file.
THEOREM PublishedKeysAreWiped == Spec => []PublishedKeyIsWiped
<1>1. Init => Typed /\ KeyIsFresh /\ PublishedKeyIsWiped
  BY TypeInit DEF Init, KeyIsFresh, PublishedKeyIsWiped
<1>2. Typed /\ KeyIsFresh /\ PublishedKeyIsWiped /\ [Next]_vars
         => (Typed /\ KeyIsFresh /\ PublishedKeyIsWiped)'
  BY TypeNext, FreshNext
<1> QED BY <1>1, <1>2, PTL DEF Spec

-----------------------------------------------------------------------------
(* What is uploaded.                                                       *)

\* Nobody edits the file while it is read, and no two versions of it have the
\* same size: what the state file of a sender can tell apart.
ToldApartBySize ==
    /\ ~ EditsWhileReading
    /\ \A u, v \in Versions : Cardinality(DOMAIN u) = Cardinality(DOMAIN v) => u = v

\* b[t] is the version that transfer t was created for, and size is what ties
\* state file and runs to it.
Sized(b) ==
    /\ statefile # None /\ statefile.content # Torn =>
          statefile.content.file_size = Cardinality(DOMAIN b[statefile.content.transfer_id])
    /\ \A p \in Senders :
         /\ pc[p] # "idle" => size[p] = Cardinality(DOMAIN source)
         /\ pc[p] \in Named => size[p] = Cardinality(DOMAIN b[tid[p]])

\* All that is ever encrypted of a transfer is chunks of that version.
Encrypted(b) ==
    \A u \in used : \E t \in 1..generated : \E i \in DOMAIN b[t] :
        u = <<derive_chunk_key(t, t), chunk_nonce(i), b[t][i]>>

\* The blob a transfer has under each of its keys, and those keys.
Due(b, k) ==
    LET s == Transfer(k[1], b[k[1]]) IN
    CASE k[2] = -1 -> ManifestOf(s)
      [] k[2] = -2 -> Sign("sender", ManifestOf(s))
      [] OTHER     -> ChunkCiphertext(s, k[2])
KeysOf(b, t) == {<<t, i>> : i \in DOMAIN b[t]} \cup {manifest_key(t), signature_key(t)}

\* Nothing else is on the broker.
Stored(b) ==
    \A k \in Keys : store[k] # None => k[1] \in 1..generated /\ store[k] = Due(b, k)

\* What a run has in hand is of that version, and all of it is on the broker.
Hashed(b) ==
    \A p \in Senders : pc[p] \in PastList =>
        /\ read[p] = [i \in 0..(next[p] - 1) |-> b[tid[p]][i]]
        /\ records[p] = [i \in 0..(next[p] - 1) |->
                            sha256(ChunkCiphertext(Transfer(tid[p], b[tid[p]]), i))]
Uploaded ==
    \A p \in Senders :
        /\ pc[p] = "chunks" => \A k \in already[p] : store[k] # None
        /\ pc[p] \in PastList => \A i \in 0..(next[p] - 1) : store[<<tid[p], i>>] # None
        /\ pc[p] \in {"signature", "remove"} =>
              next[p] = size[p] /\ store[manifest_key(tid[p])] # None
        /\ pc[p] = "remove" => store[signature_key(tid[p])] # None
Complete(b) == \A t \in published : \A k \in KeysOf(b, t) : store[k] # None

Content(b) ==
    Sized(b) /\ Encrypted(b) /\ Stored(b) /\ Hashed(b) /\ Uploaded /\ Complete(b)

\* A run that has its transfer_id reads the version the transfer is for.
LEMMA InHand ==
    ASSUME ToldApartBySize, Typed, NEW b \in [TransferIds -> Versions], Sized(b),
           NEW p \in Senders, pc[p] \in Named
    PROVE  /\ tid[p] \in TransferIds /\ tid[p] \in 1..generated
           /\ b[tid[p]] = source
           /\ size[p] \in Nat
           /\ source = [i \in 0..(size[p] - 1) |-> source[i]]
           /\ size[p] = Cardinality(DOMAIN source)
           /\ \A i \in 0..(size[p] - 1) : source[i] # NoBytes
<1>1. tid[p] \in 1..generated /\ tid[p] \in TransferIds
  BY SenderAssumption DEF Typed, TransferIds
<1>2. source \in Versions /\ b[tid[p]] \in Versions
  BY <1>1 DEF Typed
<1>3. size[p] = Cardinality(DOMAIN source) /\ size[p] = Cardinality(DOMAIN b[tid[p]])
  BY DEF Sized, Named
<1>4. b[tid[p]] = source
  BY <1>2, <1>3 DEF ToldApartBySize
<1>5. /\ Cardinality(DOMAIN source) \in Nat
      /\ source = [i \in 0..(Cardinality(DOMAIN source) - 1) |-> source[i]]
      /\ \A i \in DOMAIN source : source[i] # NoBytes
  BY <1>2, SenderAssumption
<1> QED BY <1>1, <1>3, <1>4, <1>5

\* No blob of a transfer is None.
LEMMA DueIsABlob ==
    ASSUME NEW b \in [TransferIds -> Versions], NEW t \in TransferIds, NEW k \in KeysOf(b, t)
    PROVE  k[1] = t /\ Due(b, k) # None
<1> DEFINE s == Transfer(t, b[t])
<1>1. /\ None # ManifestOf(s) /\ None # Sign("sender", ManifestOf(s))
      /\ \A i \in DOMAIN b[t] : None # ChunkCiphertext(s, i)
  BY SenderAssumption
<1>2. DOMAIN b[t] \subseteq Nat
  BY SenderAssumption
<1> HIDE DEF s
<1>3. CASE k = manifest_key(t)
  BY <1>1, <1>3 DEF Due, manifest_key, s
<1>4. CASE k = signature_key(t)
  BY <1>1, <1>4 DEF Due, signature_key, s
<1>5. ASSUME NEW i \in DOMAIN b[t], k = <<t, i>>
      PROVE  k[1] = t /\ Due(b, k) # None
  BY <1>1, <1>2, <1>5 DEF Due, s
<1> QED BY <1>3, <1>4, <1>5 DEF KeysOf

\* The keys of a transfer are keys of the broker.
LEMMA KeysOfAreKeys ==
    ASSUME NEW b \in [TransferIds -> Versions], NEW t \in TransferIds
    PROVE  KeysOf(b, t) \subseteq Keys
<1>1. b[t] \in Versions
  OBVIOUS
<1>2. \A i \in DOMAIN b[t] : <<t, i>> \in ChunkKeys
  BY <1>1 DEF ChunkKeys
<1> QED BY <1>2 DEF KeysOf, Keys, manifest_key, signature_key

\* The chunk a run has in hand is the one of that version.
LEMMA ChunkInHand ==
    ASSUME ToldApartBySize, Typed, NEW b \in [TransferIds -> Versions], Sized(b),
           NEW p \in Senders, AtChunk(p)
    PROVE  /\ next[p] \in DOMAIN b[tid[p]]
           /\ Plain(p) = b[tid[p]][next[p]] /\ Plain(p) # NoBytes
           /\ Chunk(p) = ChunkCiphertext(Transfer(tid[p], b[tid[p]]), next[p])
<1>1. pc[p] \in Named /\ next[p] \in 0..(size[p] - 1)
  BY DEF AtChunk, Named, Typed
<1>2. Plain(p) = source[next[p]] /\ Plain(p) # NoBytes /\ next[p] \in DOMAIN source
  BY <1>1, InHand DEF Plain
<1>3. total_chunks(Transfer(tid[p], b[tid[p]])) = size[p]
  BY <1>1, InHand DEF total_chunks, Transfer
<1> QED BY <1>1, <1>2, <1>3, InHand DEF Chunk, ChunkCiphertext, Transfer

\* So is whatever a run puts.
LEMMA PutIsDue ==
    ASSUME ToldApartBySize, Typed, NEW b \in [TransferIds -> Versions], Content(b),
           NEW p \in Senders, AtChunk(p) \/ AtManifest(p) \/ pc[p] = "signature"
    PROVE  /\ PutKey(p) \in KeysOf(b, tid[p])
           /\ PutBlob(p) = Due(b, PutKey(p))
           /\ AtChunk(p)    => PutKey(p) = <<tid[p], next[p]>>
           /\ AtManifest(p) => PutKey(p) = manifest_key(tid[p])
           /\ pc[p] = "signature" => PutKey(p) = signature_key(tid[p])
<1> DEFINE s == Transfer(tid[p], b[tid[p]])
<1>1. pc[p] \in Named /\ tid[p] \in Nat /\ next[p] \in Nat
  BY DEF AtChunk, AtManifest, Named, Typed
<1>2. CASE AtChunk(p)
  <2>0. pc[p] = "chunks" /\ ~ AtManifest(p)
    BY <1>2 DEF AtChunk, AtManifest, Typed
  <2>1. PutKey(p) = <<tid[p], next[p]>> /\ PutBlob(p) = Chunk(p)
    BY <1>2, <2>0 DEF PutKey, PutBlob
  <2>2. PutKey(p) \in KeysOf(b, tid[p])
    BY <1>2, <2>1, ChunkInHand DEF KeysOf, Content
  <2>3. PutBlob(p) = Due(b, PutKey(p))
    BY <1>1, <1>2, <2>1, ChunkInHand DEF Due, Content
  <2> QED BY <2>0, <2>1, <2>2, <2>3
<1>3. CASE ~ AtChunk(p)
  <2>1. next[p] = size[p] /\ pc[p] \in {"chunks", "signature"}
    BY <1>3 DEF Content, Uploaded, AtManifest, AtChunk
  <2>2. /\ read[p] = [i \in 0..(size[p] - 1) |-> source[i]]
        /\ records[p] = [i \in 0..(size[p] - 1) |-> sha256(ChunkCiphertext(s, i))]
    BY <1>1, <2>1, InHand DEF Content, Hashed, PastList
  <2>3. BuildManifest(p) = ManifestOf(s)
    <3>1. read[p] = s.file
      BY <1>1, <2>2, InHand DEF Content, Transfer
    <3>2. total_chunks(s) = size[p] /\ DOMAIN s.file = 0..(size[p] - 1)
      BY <1>1, InHand DEF Content, total_chunks, Transfer
    <3>3. s.transfer_id = tid[p] /\ s.ephemeral = tid[p]
      BY DEF Transfer
    <3> QED BY <2>2, <3>1, <3>2, <3>3 DEF BuildManifest, ManifestOf
  <2>4. CASE AtManifest(p)
    <3>1. PutKey(p) = manifest_key(tid[p]) /\ PutBlob(p) = ManifestOf(s)
      BY <1>3, <2>3, <2>4 DEF PutKey, PutBlob
    <3>2. Due(b, manifest_key(tid[p])) = ManifestOf(s)
      BY DEF Due, manifest_key
    <3> QED BY <1>3, <2>4, <3>1, <3>2 DEF KeysOf, AtManifest
  <2>5. CASE ~ AtManifest(p)
    <3>1. PutKey(p) = signature_key(tid[p]) /\ PutBlob(p) = Sign("sender", ManifestOf(s))
      BY <1>3, <2>3, <2>5 DEF PutKey, PutBlob
    <3>2. Due(b, signature_key(tid[p])) = Sign("sender", ManifestOf(s))
      BY DEF Due, signature_key
    <3> QED BY <1>3, <2>5, <3>1, <3>2 DEF KeysOf
  <2> QED BY <2>4, <2>5
<1> QED BY <1>2, <1>3

\* A PUT leaves what was there and adds what is due.
LEMMA PutKeepsStored ==
    ASSUME ToldApartBySize, Typed, NEW b \in [TransferIds -> Versions], Content(b),
           NEW p \in Senders, AtChunk(p) \/ AtManifest(p) \/ pc[p] = "signature",
           Put(p), generated' = generated
    PROVE  /\ Stored(b)'
           /\ store'[PutKey(p)] # None
           /\ \A k \in Keys : store[k] # None => store'[k] # None
<1>1. pc[p] \in Named
  BY DEF AtChunk, AtManifest, Named
<1>2. tid[p] \in TransferIds /\ tid[p] \in 1..generated
  BY <1>1, InHand DEF Content
<1>3. PutKey(p) \in Keys /\ PutKey(p)[1] = tid[p] /\ PutBlob(p) = Due(b, PutKey(p))
      /\ PutBlob(p) # None
  BY <1>2, PutIsDue, DueIsABlob, KeysOfAreKeys
<1>4. store' = [store EXCEPT ![PutKey(p)] = PutBlob(p)] /\ DOMAIN store = Keys
  BY DEF Put, Typed
<1> QED BY <1>2, <1>3, <1>4 DEF Content, Stored

\* What is on the broker stays there for those who counted on it.
LEMMA UploadedFrame ==
    ASSUME ToldApartBySize, Typed, NEW b \in [TransferIds -> Versions], Content(b),
           \A k \in Keys : store[k] # None => store'[k] # None,
           NEW q \in Senders
    PROVE  /\ pc[q] = "chunks" => \A j \in already[q] : store'[j] # None
           /\ pc[q] \in PastList => \A i \in 0..(next[q] - 1) : store'[<<tid[q], i>>] # None
           /\ pc[q] \in {"signature", "remove"} =>
                 next[q] = size[q] /\ store'[manifest_key(tid[q])] # None
           /\ pc[q] = "remove" => store'[signature_key(tid[q])] # None
<1>1. \A i \in 0..(next[q] - 1) : i \in 0..(size[q] - 1)
  BY DEF Typed
<1>2. CASE pc[q] \in PastList
  <2>1. KeysOf(b, tid[q]) \subseteq Keys /\ DOMAIN b[tid[q]] = 0..(size[q] - 1)
    BY <1>2, InHand, KeysOfAreKeys DEF Content, PastList, Named
  <2>2. already[q] \subseteq Keys
    BY DEF Typed
  <2>3. \A i \in 0..(next[q] - 1) : <<tid[q], i>> \in Keys
    BY <1>1, <2>1 DEF KeysOf
  <2>4. manifest_key(tid[q]) \in Keys /\ signature_key(tid[q]) \in Keys
    BY <2>1 DEF KeysOf
  <2> QED BY <2>2, <2>3, <2>4 DEF Content, Uploaded, PastList
<1>3. CASE pc[q] \notin PastList
  BY <1>3 DEF PastList
<1> QED BY <1>2, <1>3

LEMMA CompleteFrame ==
    ASSUME Typed, NEW b \in [TransferIds -> Versions], Complete(b),
           \A k \in Keys : store[k] # None => store'[k] # None
    PROVE  \A t \in published : \A k \in KeysOf(b, t) : store'[k] # None
<1>1. published \subseteq TransferIds
  BY SenderAssumption DEF Typed, TransferIds
<1>2. \A t \in published : KeysOf(b, t) \subseteq Keys
  BY <1>1, KeysOfAreKeys
<1> QED BY <1>2 DEF Complete

\* Runs that have in hand what they had still have it of the right version.
LEMMA HashedFrame ==
    ASSUME NEW b, NEW c, Hashed(b),
           \A q \in Senders : pc'[q] \in PastList =>
              /\ pc[q] \in PastList /\ c[tid'[q]] = b[tid[q]] /\ tid'[q] = tid[q]
              /\ next'[q] = next[q] /\ read'[q] = read[q] /\ records'[q] = records[q]
    PROVE  Hashed(c)'
<1> SUFFICES ASSUME NEW q \in Senders, pc'[q] \in PastList
             PROVE  /\ read'[q] = [i \in 0..(next'[q] - 1) |-> c[tid'[q]][i]]
                    /\ records'[q] = [i \in 0..(next'[q] - 1) |->
                           sha256(ChunkCiphertext(Transfer(tid'[q], c[tid'[q]]), i))]
  BY DEF Hashed
<1>1. /\ read[q] = [i \in 0..(next[q] - 1) |-> b[tid[q]][i]]
      /\ records[q] = [i \in 0..(next[q] - 1) |->
                          sha256(ChunkCiphertext(Transfer(tid[q], b[tid[q]]), i))]
  BY DEF Hashed
<1>2. /\ c[tid'[q]] = b[tid[q]] /\ tid'[q] = tid[q]
      /\ next'[q] = next[q] /\ read'[q] = read[q] /\ records'[q] = records[q]
  OBVIOUS
<1> QED BY ONLY <1>1, <1>2

LEMMA BlobsFrame ==
    ASSUME NEW b, Content(b), UNCHANGED <<store, used, generated>>
    PROVE  Stored(b)' /\ Encrypted(b)' /\ (published' = published => Complete(b)')
<1>1. Stored(b)'
  BY DEF Content, Stored
<1>2. Encrypted(b)'
  BY DEF Content, Encrypted
<1>3. ASSUME published' = published
      PROVE  Complete(b)'
  BY <1>3 DEF Content, Complete
<1> QED BY <1>1, <1>2, <1>3

\* Blobs that are there stay there, and the version of a transfer stays the
\* same: then runs that end or go on as they were keep the invariant.
LEMMA ContentFrame ==
    ASSUME ToldApartBySize, Typed, NEW b \in [TransferIds -> Versions], Content(b),
           Stored(b)', Encrypted(b)',
           \A k \in Keys : store[k] # None => store'[k] # None,
           UNCHANGED <<source, generated>>, statefile' \in {statefile, None},
           published' = published,
           \A q \in Senders :
              \/ pc'[q] = "idle"
              \/ /\ pc'[q] = pc[q] /\ size'[q] = size[q] /\ tid'[q] = tid[q]
                 /\ already'[q] = already[q] /\ next'[q] = next[q]
                 /\ read'[q] = read[q] /\ records'[q] = records[q]
    PROVE  Content(b)'
<1>1. Sized(b)'
  BY DEF Content, Sized, Named
<1>2. Hashed(b)'
  BY DEF Content, Hashed, PastList
<1>3. Complete(b)'
  BY CompleteFrame DEF Content, Complete
<1>5. Uploaded'
  BY UploadedFrame DEF Uploaded, PastList
<1> QED BY <1>1, <1>2, <1>3, <1>5 DEF Content

\* What is encrypted is a chunk of the version the transfer is for.
LEMMA EncryptedNext ==
    ASSUME ToldApartBySize, Typed, NEW b \in [TransferIds -> Versions], Content(b),
           NEW p \in Senders, AtChunk(p), Encrypts(p), generated' = generated
    PROVE  Encrypted(b)'
<1>1. tid[p] \in 1..generated
  BY InHand DEF Content, AtChunk, Named
<1>2. /\ Chunk(p).key = derive_chunk_key(tid[p], tid[p])
      /\ Chunk(p).nonce = chunk_nonce(next[p])
      /\ Chunk(p).plain = b[tid[p]][next[p]]
      /\ next[p] \in DOMAIN b[tid[p]]
  <2>1. Chunk(p).plain = Plain(p)
    BY DEF Chunk, Encrypt
  <2> QED BY <2>1, ChunkInHand DEF Content, Chunk, Encrypt
<1> QED BY <1>1, <1>2 DEF Encrypts, Content, Encrypted

\* A chunk that is sent, or is there, is read, recorded and on the broker.
LEMMA ContentSendChunk ==
    ASSUME ToldApartBySize, Typed, NEW b \in [TransferIds -> Versions], Content(b),
           NEW p \in Senders, SendChunk(p)
    PROVE  Content(b)'
<1> DEFINE t == tid[p]
           n == next[p]
           k == <<t, n>>
<1>1. /\ AtChunk(p) /\ pc[p] = "chunks"
      /\ UNCHANGED <<source, statefile, pc, size, tid, already, generated, published>>
      /\ next' = [next EXCEPT ![p] = n + 1]
      /\ n \in Nat /\ n < size[p] /\ size[p] \in Nat
  BY DEF SendChunk, AtChunk, Typed
<1>2. /\ t \in TransferIds /\ b[t] = source /\ n \in DOMAIN b[t] /\ KeysOf(b, t) \subseteq Keys
      /\ source = [i \in 0..(size[p] - 1) |-> source[i]]
  BY <1>1, InHand, ChunkInHand, KeysOfAreKeys DEF Content, Named
<1>3. Stored(b)' /\ store'[k] # None /\ \A j \in Keys : store[j] # None => store'[j] # None
  <2>1. CASE IsThere(p)
    BY <1>1, <2>1 DEF SendChunk, IsThere, Content, Uploaded, Stored
  <2>2. CASE ~ IsThere(p)
    BY <1>1, <2>2, PutIsDue, PutKeepsStored DEF SendChunk
  <2> QED BY <2>1, <2>2
<1>4. Encrypted(b)'
  BY <1>1, EncryptedNext DEF SendChunk
<1>5. Hashed(b)'
  <2>1. /\ read' = [read EXCEPT ![p] = Extend(read[p], b[t][n])]
        /\ records' = [records EXCEPT ![p] =
                          Extend(records[p], sha256(ChunkCiphertext(Transfer(t, b[t]), n)))]
    BY <1>1, ChunkInHand DEF SendChunk, Hashes, Content
  <2>2. /\ read[p] = [i \in 0..(n - 1) |-> b[t][i]]
        /\ records[p] = [i \in 0..(n - 1) |-> sha256(ChunkCiphertext(Transfer(t, b[t]), i))]
    BY <1>1 DEF Content, Hashed, PastList
  <2>3. Extend(read[p], b[t][n]) = [i \in 0..n |-> b[t][i]]
    <3>1. DOMAIN read[p] = 0..(n - 1) /\ \A i \in 0..(n - 1) : read[p][i] = b[t][i]
      BY <2>2
    <3>2. n \in Nat
      BY <1>1
    <3> QED BY ONLY <3>1, <3>2, ExtendPrefix
  <2>4. Extend(records[p], sha256(ChunkCiphertext(Transfer(t, b[t]), n)))
           = [i \in 0..n |-> sha256(ChunkCiphertext(Transfer(t, b[t]), i))]
    <3> DEFINE h == [i \in 0..n |-> sha256(ChunkCiphertext(Transfer(t, b[t]), i))]
    <3>1. DOMAIN records[p] = 0..(n - 1) /\ \A i \in 0..(n - 1) : records[p][i] = h[i]
      BY <1>1, <2>2
    <3>2. n \in Nat /\ h[n] = sha256(ChunkCiphertext(Transfer(t, b[t]), n))
      BY <1>1
    <3>3. h = [i \in 0..n |-> h[i]]
      OBVIOUS
    <3> HIDE DEF h
    <3>4. Extend(records[p], h[n]) = [i \in 0..n |-> h[i]]
      BY ONLY <3>1, <3>2, ExtendPrefix
    <3>5. Extend(records[p], h[n]) = h
      BY ONLY <3>3, <3>4
    <3> QED BY <3>2, <3>5 DEF h
  <2>5. \A q \in Senders \ {p} : read'[q] = read[q] /\ records'[q] = records[q] /\ next'[q] = next[q]
    BY <1>1, <2>1
  <2>6. /\ read'[p] = [i \in 0..n |-> b[t][i]]
        /\ records'[p] = [i \in 0..n |-> sha256(ChunkCiphertext(Transfer(t, b[t]), i))]
    BY <1>1, <2>1, <2>3, <2>4 DEF Typed
  <2>7. next'[p] - 1 = n /\ tid'[p] = t
    BY <1>1 DEF Typed
  <2>8. ASSUME NEW q \in Senders, pc[q] \in PastList
        PROVE  /\ read'[q] = [i \in 0..(next'[q] - 1) |-> b[tid'[q]][i]]
               /\ records'[q] = [i \in 0..(next'[q] - 1) |->
                      sha256(ChunkCiphertext(Transfer(tid'[q], b[tid'[q]]), i))]
    <3>1. CASE q = p
      BY <3>1, <2>6, <2>7
    <3>2. CASE q # p
      <4>1. tid'[q] = tid[q]
        BY <1>1
      <4> QED BY <3>2, <4>1, <2>5, <2>8 DEF Content, Hashed
    <3> QED BY <3>1, <3>2
  <2> QED BY <1>1, <2>8 DEF Hashed
<1>6. Uploaded'
  <2>1. /\ \A j \in already'[p] : store'[j] # None
        /\ \A i \in 0..(next'[p] - 1) : store'[<<tid'[p], i>>] # None
    <3>1. \A i \in 0..(n - 1) : i \in DOMAIN b[t] /\ store[<<t, i>>] # None
      <4>1. \A i \in 0..(n - 1) : i \in 0..(size[p] - 1)
        BY <1>1
      <4> QED BY <1>1, <1>2, <4>1 DEF Content, Uploaded, PastList
    <3>2. \A i \in 0..(n - 1) : <<t, i>> \in Keys
      BY <1>2, <3>1 DEF KeysOf
    <3>3. next'[p] - 1 = n /\ \A i \in 0..n : i = n \/ i \in 0..(n - 1)
      <4>1. DOMAIN next = Senders
        BY DEF Typed
      <4> QED BY <1>1, <4>1
    <3>4. already[p] \subseteq Keys /\ \A j \in already[p] : store[j] # None
      BY <1>1 DEF Typed, Content, Uploaded
    <3>5. tid'[p] = t /\ already'[p] = already[p]
      BY <1>1
    <3> QED BY <1>3, <3>1, <3>2, <3>3, <3>4, <3>5
  <2>3. \A q \in Senders : q # p => next'[q] = next[q]
    BY <1>1
  <2> QED BY <1>1, <1>3, <2>1, <2>3, UploadedFrame DEF Uploaded
<1>7. Complete(b)'
  BY <1>1, <1>3, CompleteFrame DEF Content, Complete
<1>8. Sized(b)'
  BY <1>1 DEF Content, Sized
<1> QED BY <1>3, <1>4, <1>5, <1>6, <1>7, <1>8 DEF Content

\* A step that does not create a transfer_id keeps the invariant, ...
LEMMA ContentStep ==
    ASSUME ToldApartBySize, Typed, NEW b \in [TransferIds -> Versions], Content(b),
           [Next]_vars, generated' = generated
    PROVE  Content(b)'
<1> USE DEF Goto, memory, stream
<1>1. ASSUME NEW p \in Senders, Start(p) \/ FindState(p)
      PROVE  Content(b)'
  <2>1. UNCHANGED <<statefile, store, used, published, generated, source, tid, already,
                    next, read, records>>
    BY <1>1 DEF Start, FindState
  <2>2. \A q \in Senders : /\ pc'[q] \in Named => pc'[q] = pc[q] /\ size'[q] = size[q]
                           /\ pc'[q] # "idle" => size'[q] = Cardinality(DOMAIN source)
    BY <1>1 DEF Typed, Start, FindState, Content, Sized, Named
  <2>3. Stored(b)' /\ Encrypted(b)' /\ Complete(b)'
    BY <2>1, BlobsFrame
  <2>4. Sized(b)'
    BY <2>1, <2>2 DEF Content, Sized
  <2>5. Hashed(b)' /\ Uploaded'
    BY <2>1, <2>2 DEF Content, Hashed, Uploaded, Named, PastList
  <2> QED BY <2>3, <2>4, <2>5 DEF Content
<1>2. ASSUME NEW p \in Senders, LoadState(p)
      PROVE  Content(b)'
  <2>1. UNCHANGED <<statefile, store, used, published, generated, source>>
    BY <1>2 DEF LoadState
  <2>2. Stored(b)' /\ Encrypted(b)' /\ Complete(b)'
    BY <2>1, BlobsFrame
  <2>3. CASE Ends(p)
    <3>1. \A q \in Senders : pc'[q] = "idle" \/ q # p
      BY <2>3 DEF Ends, Typed
    <3> QED BY <2>1, <2>2, <2>3, <3>1, ContentFrame DEF Typed, Ends
  <2>4. CASE /\ StateContent # Torn /\ StateContent.file_size = size[p]
             /\ tid' = [tid EXCEPT ![p] = StateContent.transfer_id]
             /\ Goto(p, "list") /\ UNCHANGED <<size, fd, already, stream>>
    <3>1. /\ statefile # None /\ statefile.content # Torn
          /\ StateContent = statefile.content
      BY <2>4 DEF StateContent
    <3>2. /\ pc[p] = "load" /\ pc' = [pc EXCEPT ![p] = "list"]
          /\ UNCHANGED <<size, already, next, read, records>>
      BY <1>2, <2>4 DEF LoadState
    <3>3. tid'[p] = statefile.content.transfer_id
          /\ size[p] = statefile.content.file_size
          /\ \A q \in Senders : q # p => tid'[q] = tid[q] /\ pc'[q] = pc[q]
      BY <2>4, <3>1, <3>2 DEF Typed
    <3>4. ASSUME NEW q \in Senders
          PROVE  /\ pc'[q] # "idle" => size[q] = Cardinality(DOMAIN source)
                 /\ pc'[q] \in Named => size[q] = Cardinality(DOMAIN b[tid'[q]])
      <4>1. CASE q = p
        BY <3>1, <3>2, <3>3, <4>1 DEF Content, Sized
      <4>2. CASE q # p
        BY <3>3, <4>2 DEF Content, Sized
      <4> QED BY <4>1, <4>2
    <3>5. Sized(b)'
      BY <2>1, <3>2, <3>4 DEF Content, Sized
    <3>6. Hashed(b)' /\ Uploaded'
      BY <2>1, <3>2, <3>3, SMTT(20) DEF Typed, Content, Hashed, Uploaded, PastList
    <3> QED BY <2>2, <3>5, <3>6 DEF Content
  <2>5. CASE Goto(p, "create") /\ UNCHANGED memory
    <3>1. Sized(b)'
      BY <1>2, <2>1, <2>5 DEF LoadState, Typed, Content, Sized, Named
    <3>2. Hashed(b)' /\ Uploaded'
      BY <2>1, <2>5 DEF Typed, Content, Hashed, Uploaded, PastList
    <3> QED BY <2>2, <3>1, <3>2 DEF Content
  <2> QED BY <1>2, <2>3, <2>4, <2>5 DEF LoadState
<1>3. ASSUME NEW p \in Senders, WriteState(p)
      PROVE  Content(b)'
  <2>1. UNCHANGED <<store, used, published, generated, source, size, tid, already,
                    next, read, records>>
        /\ pc[p] = "write" /\ pc' = [pc EXCEPT ![p] = "list"]
    BY <1>3 DEF WriteState
  <2>2. statefile' = statefile \/ statefile'.content = [transfer_id |-> tid[p], file_size |-> size[p]]
    BY <1>3 DEF WriteState, Typed
  <2>3. Sized(b)'
    BY <2>1, <2>2 DEF Typed, Content, Sized, Named
  <2> QED BY <2>1, <2>3 DEF Typed, Content, Encrypted, Stored, Hashed, Uploaded, Complete, PastList
<1>4. ASSUME NEW p \in Senders, ListBlobs(p)
      PROVE  Content(b)'
  <2>1. UNCHANGED <<statefile, store, used, published, generated, source, size, tid,
                    next, read, records>>
        /\ pc[p] = "list" /\ pc' = [pc EXCEPT ![p] = "chunks"]
        /\ already' = [already EXCEPT ![p] = {k \in Keys : k[1] = tid[p] /\ store[k] # None}]
    BY <1>4 DEF ListBlobs
  <2>2. Hashed(b)'
    <3>1. next[p] = 0 /\ read[p] = Nothing /\ records[p] = Nothing
      BY <2>1 DEF Typed, PastList
    <3>2. Nothing = [i \in 0..(0 - 1) |-> b[tid[p]][i]]
          /\ Nothing = [i \in 0..(0 - 1) |->
                          sha256(ChunkCiphertext(Transfer(tid[p], b[tid[p]]), i))]
      BY DEF Nothing
    <3>3. /\ read[p] = [i \in 0..(next[p] - 1) |-> b[tid[p]][i]]
          /\ records[p] = [i \in 0..(next[p] - 1) |->
                              sha256(ChunkCiphertext(Transfer(tid[p], b[tid[p]]), i))]
      BY <3>1, <3>2
    <3>4. \A q \in Senders : q = p \/ pc'[q] = pc[q]
      BY <2>1 DEF Typed
    <3>5. Hashed(b)
      BY DEF Content
    <3> QED BY <2>1, <3>3, <3>4, <3>5, ZenonT(60) DEF Hashed
  <2>3. Uploaded'
    BY <2>1 DEF Typed, Content, Uploaded, PastList
  <2> QED BY <2>1, <2>2, <2>3 DEF Typed, Content, Sized, Encrypted, Stored, Complete, Named
<1>5. ASSUME NEW p \in Senders, SendChunk(p)
      PROVE  Content(b)'
  BY <1>5, ContentSendChunk
<1>6. ASSUME NEW p \in Senders, PutManifest(p) \/ PutSignature(p)
      PROVE  Content(b)'
  <2>1. /\ UNCHANGED <<statefile, used, published, generated, source, size, tid, already,
                       next, read, records>>
        /\ AtManifest(p) \/ pc[p] = "signature"
        /\ Put(p)
    BY <1>6 DEF PutManifest, PutSignature
  <2>2. Stored(b)' /\ store'[PutKey(p)] # None /\ \A k \in Keys : store[k] # None => store'[k] # None
    BY <2>1, PutKeepsStored
  <2>3. \A q \in Senders : pc'[q] = pc[q] \/ (q = p /\ pc[q] \in {"chunks", "signature"}
                                               /\ pc'[q] \in {"signature", "remove"})
    BY <1>6 DEF PutManifest, PutSignature, AtManifest, Typed
  <2>4. Uploaded'
    <3>1. CASE PutManifest(p)
      <4>1. AtManifest(p) /\ pc[p] = "chunks" /\ pc' = [pc EXCEPT ![p] = "signature"]
        BY <3>1 DEF PutManifest, AtManifest
      <4>2. store'[manifest_key(tid[p])] # None /\ next[p] = size[p]
        BY <2>2, <4>1, PutIsDue DEF AtManifest
      <4> QED BY <2>1, <2>2, <4>1, <4>2, UploadedFrame, ZenonT(60) DEF Typed, Uploaded, PastList
    <3>2. CASE PutSignature(p)
      <4>1. pc[p] = "signature" /\ pc' = [pc EXCEPT ![p] = "remove"]
        BY <3>2 DEF PutSignature
      <4>2. store'[signature_key(tid[p])] # None
        BY <2>2, <4>1, PutIsDue
      <4> QED BY <2>1, <2>2, <4>1, <4>2, UploadedFrame DEF Typed, Uploaded, PastList
    <3> QED BY <1>6, <3>1, <3>2
  <2>5. Complete(b)'
    BY <2>1, <2>2, CompleteFrame DEF Content, Complete
  <2> QED BY <2>1, <2>2, <2>3, <2>4, <2>5, SMTT(20) DEF Content, Sized, Encrypted, Hashed, Named, PastList
<1>7. ASSUME NEW p \in Senders, RemoveState(p)
      PROVE  Content(b)'
  <2>1. /\ UNCHANGED <<store, used, generated, source>> /\ pc[p] = "remove"
        /\ statefile' = None /\ published' \subseteq published \cup {tid[p]} /\ Ends(p)
    BY <1>7 DEF RemoveState
  <2>2. \A q \in Senders :
              \/ pc'[q] = "idle"
              \/ /\ pc'[q] = pc[q] /\ size'[q] = size[q] /\ tid'[q] = tid[q]
                 /\ already'[q] = already[q] /\ next'[q] = next[q]
                 /\ read'[q] = read[q] /\ records'[q] = records[q]
    BY <2>1 DEF Typed, Ends
  <2>3. \A k \in KeysOf(b, tid[p]) : store[k] # None
    <3>1. DOMAIN b[tid[p]] = 0..(size[p] - 1)
      BY <2>1, InHand DEF Content, Named
    <3>2. next[p] = size[p] /\ store[manifest_key(tid[p])] # None
          /\ store[signature_key(tid[p])] # None
          /\ \A i \in 0..(next[p] - 1) : store[<<tid[p], i>>] # None
      BY <2>1 DEF Content, Uploaded, PastList
    <3> QED BY <3>1, <3>2 DEF KeysOf
  <2>4. Complete(b)'
    BY <2>1, <2>3 DEF Content, Complete
  <2>5. Hashed(b)' /\ Uploaded'
    <3>1. /\ \A q \in Senders : pc'[q] = "chunks" => \A k \in already'[q] : store[k] # None
          /\ \A q \in Senders : pc'[q] \in PastList =>
                \A i \in 0..(next'[q] - 1) : store[<<tid'[q], i>>] # None
          /\ \A q \in Senders : pc'[q] \in {"signature", "remove"} =>
                next'[q] = size'[q] /\ store[manifest_key(tid'[q])] # None
          /\ \A q \in Senders : pc'[q] = "remove" => store[signature_key(tid'[q])] # None
      BY <2>2 DEF Content, Uploaded, PastList
    <3>2. Uploaded'
      BY <2>1, <3>1 DEF Uploaded
    <3>3. Hashed(b)'
      BY <2>2, HashedFrame DEF Content, PastList
    <3> QED BY <3>2, <3>3
  <2>6. Sized(b)'
    BY <2>1, <2>2 DEF Content, Sized, Named
  <2> QED BY <2>1, <2>4, <2>5, <2>6 DEF Content, Encrypted, Stored
<1>8. ASSUME NEW p \in Senders, BrokerFails(p)
      PROVE  Content(b)'
  <2>1. UNCHANGED <<source, statefile, generated, published>> /\ Ends(p)
    BY <1>8 DEF BrokerFails
  <2>2. Stored(b)' /\ Encrypted(b)' /\ \A k \in Keys : store[k] # None => store'[k] # None
    <3>1. CASE UNCHANGED <<store, used>>
      BY <2>1, <3>1 DEF Content, Stored, Encrypted
    <3>2. CASE Uploads(p) /\ (Put(p) \/ store' = store)
               /\ (IF AtChunk(p) THEN Encrypts(p) ELSE used' = used)
      <4>1. Encrypted(b)'
        BY <2>1, <3>2, EncryptedNext DEF Content, Encrypted
      <4>2. CASE store' = store
        BY <2>1, <4>1, <4>2 DEF Content, Stored
      <4>3. CASE Put(p)
        BY <2>1, <3>2, <4>1, <4>3, PutKeepsStored DEF Uploads
      <4> QED BY <3>2, <4>2, <4>3
    <3> QED BY <1>8, <3>1, <3>2 DEF BrokerFails
  <2> QED BY <2>1, <2>2, ContentFrame DEF Typed, Ends
<1>9. ASSUME NEW p \in Senders, Kill(p)
      PROVE  Content(b)'
  <2>1. UNCHANGED <<source, statefile, store, generated, used, published>> /\ Ends(p)
    BY <1>9 DEF Kill
  <2>2. Stored(b)' /\ Encrypted(b)'
    BY <2>1, BlobsFrame
  <2> QED BY <2>1, <2>2, ContentFrame DEF Typed, Ends
<1>10. CASE Edit
  <2>1. \A p \in Senders : pc[p] = "idle"
    BY <1>10 DEF Edit, ToldApartBySize
  <2> QED BY <1>10, <2>1 DEF Edit, Content, Sized, Encrypted, Stored, Hashed, Uploaded,
                             Complete, Named, PastList
<1>11. CASE UNCHANGED vars
  <2>1. Stored(b)' /\ Encrypted(b)'
    BY <1>11, BlobsFrame DEF vars
  <2> QED BY <1>11, <2>1, ContentFrame DEF vars
<1>12. ASSUME NEW p \in Senders, CreateState(p)
       PROVE  FALSE
  BY <1>12 DEF CreateState, Typed
<1> QED BY <1>1, <1>2, <1>3, <1>4, <1>5, <1>6, <1>7, <1>8, <1>9, <1>10, <1>11, <1>12
        DEF Next, Send

\* ... and one that creates a transfer_id adds the version it is created for.
LEMMA ContentOfIds ==
    ASSUME Typed, NEW b, NEW c, \A t \in 1..generated : c[t] = b[t], Content(b)
    PROVE  Content(c)
<1>1. published \subseteq 1..generated
  BY DEF Typed
<1>2. Sized(c)
  BY DEF Typed, Content, Sized
<1>3. Encrypted(c)
  BY DEF Content, Encrypted
<1>4. Stored(c)
  BY DEF Content, Stored, Due, Transfer
<1>5. Hashed(c)
  <2>1. ASSUME NEW p \in Senders, pc[p] \in PastList
        PROVE  c[tid[p]] = b[tid[p]]
    BY <2>1 DEF Typed, Named, PastList
  <2> QED BY <2>1 DEF Content, Hashed
<1>6. Complete(c)
  BY <1>1 DEF Content, Complete, KeysOf
<1> QED BY <1>2, <1>3, <1>4, <1>5, <1>6 DEF Content

LEMMA ContentCreate ==
    ASSUME Typed, NEW b \in [TransferIds -> Versions], Content(b),
           NEW p \in Senders, CreateState(p)
    PROVE  \E c \in [TransferIds -> Versions] : Content(c)'
<1>1. /\ generated \in Nat /\ generated + 1 \in TransferIds /\ source \in Versions
      /\ generated' = generated + 1 /\ pc[p] = "create"
      /\ tid' = [tid EXCEPT ![p] = generated + 1] /\ pc' = [pc EXCEPT ![p] = "write"]
      /\ statefile'.content = Torn
      /\ UNCHANGED <<source, store, size, already, next, read, records, used, published>>
  BY SenderAssumption DEF Typed, CreateState, TransferIds, Goto, stream
<1>2. PICK c \in [TransferIds -> Versions] : c = [b EXCEPT ![generated + 1] = source]
  BY <1>1
<1>3. c[generated + 1] = source /\ \A t \in 1..generated : c[t] = b[t]
  BY <1>1, <1>2
<1>4. Content(c)
  BY <1>3, ContentOfIds
<1>5. Sized(c)'
  <2>1. size[p] = Cardinality(DOMAIN c[tid'[p]]) /\ size[p] = Cardinality(DOMAIN source)
    BY <1>1, <1>3, <1>4 DEF Typed, Content, Sized
  <2>2. \A q \in Senders : q # p => tid'[q] = tid[q] /\ pc'[q] = pc[q]
    BY <1>1 DEF Typed
  <2> QED BY <1>1, <1>4, <2>1, <2>2 DEF Content, Sized
<1>6. Encrypted(c)'
  BY <1>1, <1>4 DEF Content, Encrypted
<1>7. Stored(c)'
  <2>1. 1..generated \subseteq 1..(generated + 1)
    BY <1>1
  <2> QED BY <1>1, <1>4, <2>1 DEF Content, Stored
<1>8. \A q \in Senders : pc'[q] \in PastList => pc'[q] = pc[q] /\ tid'[q] = tid[q]
  BY <1>1 DEF Typed, PastList
<1>9. Hashed(c)'
  <2>1. Hashed(c)
    BY <1>4 DEF Content
  <2> QED BY <1>1, <1>8, <2>1, HashedFrame
<1>10. Uploaded'
  BY <1>1, <1>4, <1>8 DEF Content, Uploaded, PastList
<1>11. Complete(c)'
  BY <1>1, <1>4 DEF Content, Complete
<1> QED BY <1>5, <1>6, <1>7, <1>9, <1>10, <1>11 DEF Content

HasContent == \E b \in [TransferIds -> Versions] : Content(b)

LEMMA ContentInit == Init => HasContent
<1> SUFFICES ASSUME Init
             PROVE  HasContent
  OBVIOUS
<1> DEFINE b == [t \in TransferIds |-> source]
<1>1. b \in [TransferIds -> Versions]
  BY DEF Init
<1>2. \A k \in Keys : store[k] = None
  BY DEF Init
<1>3. statefile = None /\ used = {} /\ published = {} /\ \A p \in Senders : pc[p] = "idle"
  BY DEF Init
<1> HIDE DEF b
<1>4. Content(b)
  BY <1>2, <1>3 DEF Content, Sized, Encrypted, Stored, Hashed, Uploaded, Complete, Named, PastList
<1> QED BY <1>1, <1>4 DEF HasContent

LEMMA ContentNext ==
    ASSUME ToldApartBySize, Typed, HasContent, [Next]_vars
    PROVE  HasContent'
<1> PICK b \in [TransferIds -> Versions] : Content(b)
  BY DEF HasContent
<1>1. CASE generated' = generated
  BY <1>1, ContentStep DEF HasContent, TransferIds
<1>2. CASE generated' # generated
  <2>1. PICK p \in Senders : CreateState(p)
    BY <1>2 DEF Next, Send, vars, Start, FindState, LoadState, WriteState, ListBlobs, SendChunk,
                PutManifest, PutSignature, RemoveState, BrokerFails, Kill, Edit
  <2> QED BY <2>1, ContentCreate DEF HasContent, TransferIds
<1> QED BY <1>1, <1>2

LEMMA ContentAlways ==
    ASSUME ToldApartBySize
    PROVE  Spec => [](Typed /\ HasContent)
<1>1. Init => Typed /\ HasContent
  BY TypeInit, ContentInit
<1>2. (Typed /\ HasContent) /\ [Next]_vars => (Typed /\ HasContent)'
  BY TypeNext, ContentNext
<1> QED BY <1>1, <1>2, PTL DEF Spec

\* "(key, nonce) never repeats": in whatever runs, interrupted and resumed, two
\* of them at a time on one state file, no two different plaintexts are
\* encrypted under the same key and nonce -- as long as versions of the file
\* differ in size and nobody edits it under the hands of a sender.
THEOREM NoncesNeverRepeat ==
    ASSUME ToldApartBySize
    PROVE  Spec => []NonceNeverRepeats
<1>1. HasContent => NonceNeverRepeats
  <2> SUFFICES ASSUME NEW b \in [TransferIds -> Versions], Encrypted(b),
                      NEW u \in used, NEW v \in used, u[1] = v[1], u[2] = v[2]
               PROVE  u[3] = v[3]
    BY DEF HasContent, Content, NonceNeverRepeats
  <2>1. PICK t \in 1..generated : \E i \in DOMAIN b[t] :
             u = <<derive_chunk_key(t, t), chunk_nonce(i), b[t][i]>>
    BY DEF Encrypted
  <2>2. PICK i \in DOMAIN b[t] : u = <<derive_chunk_key(t, t), chunk_nonce(i), b[t][i]>>
    BY <2>1
  <2>3. PICK t2 \in 1..generated : \E j \in DOMAIN b[t2] :
             v = <<derive_chunk_key(t2, t2), chunk_nonce(j), b[t2][j]>>
    BY DEF Encrypted
  <2>4. PICK j \in DOMAIN b[t2] : v = <<derive_chunk_key(t2, t2), chunk_nonce(j), b[t2][j]>>
    BY <2>3
  <2>5. t = t2
    BY <2>2, <2>4 DEF derive_chunk_key
  <2>6. i = j
    BY <2>2, <2>4 DEF chunk_nonce
  <2> QED BY <2>2, <2>4, <2>5, <2>6
<1> QED BY <1>1, ContentAlways, PTL

\* When a run returns 0 the broker holds a transfer that is deliverable --
\* manifest, signature, version, id, list of chunks, every chunk's hash and
\* tag, size and hash of the file, but not its age -- pieced together from
\* however many interrupted runs, with other senders at work on the same file,
\* under the same hypothesis.
THEOREM PublishedIsAlwaysDeliverable ==
    ASSUME ToldApartBySize
    PROVE  Spec => []PublishedIsDeliverable
<1>1. Typed /\ HasContent => PublishedIsDeliverable
  <2> SUFFICES ASSUME Typed, NEW b \in [TransferIds -> Versions], Content(b), NEW t \in published
               PROVE  Deliverable(t)
    BY DEF HasContent, PublishedIsDeliverable
  <2> DEFINE s == Transfer(t, b[t])
             m == store[manifest_key(t)]
  <2>1. t \in TransferIds
    BY SenderAssumption DEF Typed, TransferIds
  <2>2. \A k \in KeysOf(b, t) : store[k] # None /\ store[k] = Due(b, k)
    <3>1. KeysOf(b, t) \subseteq Keys
      BY <2>1, KeysOfAreKeys
    <3> QED BY <3>1 DEF Content, Stored, Complete
  <2>3. m # None /\ m = ManifestOf(s)
    BY <2>2 DEF KeysOf, Due, manifest_key
  <2>4. store[signature_key(t)] # None /\ store[signature_key(t)] = Sign("sender", m)
    <3>1. signature_key(t) \in KeysOf(b, t)
      BY DEF KeysOf
    <3>2. Due(b, signature_key(t)) = Sign("sender", ManifestOf(s))
      BY DEF Due, signature_key
    <3> QED BY <2>2, <2>3, <3>1, <3>2
  <2>5. /\ m.version = MANIFEST_VERSION /\ m.transfer_id = t
        /\ m.chunks = [i \in DOMAIN b[t] |-> sha256(ChunkCiphertext(s, i))]
        /\ m.ephemeral = t
        /\ m.total_chunks = total_chunks(s) /\ m.file_size = total_chunks(s)
        /\ m.plaintext_sha256 = sha256(b[t])
    BY <2>3 DEF ManifestOf, Manifest, Transfer
  <2>6. ASSUME NEW i \in DOMAIN b[t]
        PROVE  store[<<t, i>>] # None /\ store[<<t, i>>] = ChunkCiphertext(s, i)
    <3>1. i \in Nat
      BY <2>1, SenderAssumption
    <3>2. <<t, i>> \in KeysOf(b, t)
      BY DEF KeysOf
    <3>3. Due(b, <<t, i>>) = ChunkCiphertext(s, i)
      BY <3>1 DEF Due
    <3> QED BY <2>2, <3>2, <3>3
  <2>7. \A i \in DOMAIN b[t] :
           /\ sha256(store[<<t, i>>]) = m.chunks[i]
           /\ TagValid(derive_chunk_key(m.ephemeral, t), chunk_nonce(i), store[<<t, i>>],
                       chunk_aad(t, i, m.total_chunks))
    BY <2>5, <2>6 DEF ChunkCiphertext, Encrypt, TagValid, Transfer
  <2>8. b[t] = [i \in {j \in DOMAIN b[t] : store[<<t, j>>].plain # NoBytes} |->
                    store[<<t, i>>].plain]
    <3>1. \A i \in DOMAIN b[t] : store[<<t, i>>].plain = b[t][i]
      <4>1. \A i \in DOMAIN b[t] : ChunkCiphertext(s, i).plain = s.file[i] /\ s.file = b[t]
        BY DEF ChunkCiphertext, Encrypt, Transfer
      <4> QED BY <2>6, <4>1
    <3>2. b[t] = [i \in DOMAIN b[t] |-> b[t][i]] /\ \A i \in DOMAIN b[t] : b[t][i] # NoBytes
      BY <2>1, SenderAssumption
    <3>3. {j \in DOMAIN b[t] : store[<<t, j>>].plain # NoBytes} = DOMAIN b[t]
      BY <3>1, <3>2
    <3> QED BY <3>1, <3>2, <3>3
  <2>9. DOMAIN m.chunks = DOMAIN b[t]
    BY <2>5
  <2>10. total_chunks(s) = Cardinality(DOMAIN b[t])
    BY DEF total_chunks, Transfer
  <2>11. DOMAIN b[t] = 0..(Cardinality(DOMAIN b[t]) - 1)
    BY <2>1, SenderAssumption
  <2> HIDE DEF s
  <2>12. DOMAIN m.chunks = 0..(m.total_chunks - 1)
    BY <2>5, <2>9, <2>10, <2>11
  <2> DEFINE file == [i \in {j \in DOMAIN m.chunks : store[<<t, j>>].plain # NoBytes} |->
                          store[<<t, i>>].plain]
  <2>13. file = b[t]
    BY <2>8, <2>9
  <2>14. Cardinality(DOMAIN b[t]) = m.file_size
    BY <2>5, <2>10
  <2>15. \A i \in DOMAIN m.chunks :
            /\ store[<<t, i>>] # None
            /\ sha256(store[<<t, i>>]) = m.chunks[i]
            /\ TagValid(derive_chunk_key(m.ephemeral, t), chunk_nonce(i), store[<<t, i>>],
                        chunk_aad(t, i, m.total_chunks))
    BY <2>6, <2>7, <2>9
  <2>16. SignatureValid(store[signature_key(t)], m)
    BY <2>4 DEF SignatureValid
  <2> HIDE DEF file
  <2>17. Cardinality(DOMAIN file) = m.file_size /\ m.plaintext_sha256 = sha256(file)
    BY <2>5, <2>13, <2>14
  <2>18. m.version = MANIFEST_VERSION /\ m.transfer_id = t
    BY <2>5
  <2> QED
    BY ONLY <2>3, <2>4, <2>12, <2>15, <2>16, <2>17, <2>18 DEF Deliverable, file
<1> QED BY <1>1, ContentAlways, PTL
=============================================================================
