----------------------- MODULE EnvelopeTransfer_proofs -----------------------
(***************************************************************************)
(* Proof that Approach B implements FileDelivery, for any number of        *)
(* senders, receivers, transfers, edits, crashes and late PUTs: a chain    *)
(* from the bytes a sender has read to the bytes under a final name.       *)
(***************************************************************************)
EXTENDS EnvelopeTransfer, EnvelopeSender_proofs

\* Some sender has vouched for the file of this manifest.
Vouched(m) == \E x \in offered : m.plaintext_sha256 = sha256(x.bytes)

\* What a sender has read is a prefix of the file as it is, unless the file was
\* edited under its hands; and it signs only what it has vouched for.
SendersHonest ==
    /\ DOMAIN edited = Senders
    /\ \A p \in Senders :
         /\ pc[p] # "idle" /\ ~ edited[p] =>
               /\ size[p] = Cardinality(DOMAIN source)
               /\ read[p] = [i \in 0..(next[p] - 1) |-> source[i]]
         /\ pc[p] = "signature" => \E x \in offered : x.bytes = read[p]

\* A signature that is on the broker, or may still get there, is of a manifest
\* some sender has vouched for.
SignsVouched(k, blob) ==
    k[2] = -2 /\ blob \notin {None, Corrupt} =>
        blob = Sign("sender", blob.signed) /\ Vouched(blob.signed)

BlobsVouched ==
    /\ \A k \in Keys : SignsVouched(k, store[k])
    /\ \A put \in late : SignsVouched(put[1], put[2])

\* So is every manifest a receiver has accepted, and what it is about to rename
\* has the digest of that manifest.
ReceiversVouched ==
    /\ DOMAIN rpc = Outs /\ DOMAIN manifest = Outs /\ DOMAIN part = Outs
    /\ \A o \in Outs :
         /\ rpc[o] \in Receiver!Accepted => Vouched(manifest[o])
         /\ rpc[o] = "promote" => sha256(part[o]) = manifest[o].plaintext_sha256

Chain == Typed /\ SendersHonest /\ BlobsVouched /\ ReceiversVouched

-----------------------------------------------------------------------------
LEMMA ChainInit == TransferInit => Chain
<1> SUFFICES ASSUME TransferInit
             PROVE  Chain
  OBVIOUS
<1>1. Init
  BY DEF TransferInit
<1>2. Typed
  BY <1>1, TypeInit
<1>3. SendersHonest
  BY <1>1 DEF TransferInit, Init, SendersHonest
<1>4. BlobsVouched
  BY <1>1 DEF TransferInit, Init, BlobsVouched, SignsVouched
<1>5. ReceiversVouched
  BY DEF TransferInit, Receiver!Init, ReceiversVouched, Receiver!Accepted, Receiver!Recording
<1> QED BY <1>2, <1>3, <1>4, <1>5 DEF Chain

\* What is vouched for stays so.
LEMMA VouchedStays ==
    ASSUME offered \subseteq offered'
    PROVE  /\ \A m : Vouched(m) => Vouched(m)'
           /\ \A k, blob : SignsVouched(k, blob) => SignsVouched(k, blob)'
<1>1. \A m : Vouched(m) => \E x \in offered' : m.plaintext_sha256 = sha256(x.bytes)
  BY DEF Vouched
<1> QED BY <1>1 DEF Vouched, SignsVouched

\* A sender that has read to the end vouches for a version of the file, or for
\* one that was edited under its hands.
LEMMA ReadsAVersion ==
    ASSUME Typed, SendersHonest, NEW p \in Senders, AtManifest(p)
    PROVE  edited[p] \/ read[p] \in Versions
<1> SUFFICES ASSUME ~ edited[p]
             PROVE  read[p] = source
  BY DEF Typed
<1>1. /\ next[p] = Cardinality(DOMAIN source)
      /\ read[p] = [i \in 0..(next[p] - 1) |-> source[i]]
  BY DEF SendersHonest, AtManifest
<1>2. source = [i \in 0..(Cardinality(DOMAIN source) - 1) |-> source[i]]
  BY SenderAssumption DEF Typed
<1> QED BY <1>1, <1>2

\* The steps of senders.
SenderStep(p) == Start(p) \/ Send(p) \/ BrokerFails(p)

LEMMA HonestStep ==
    ASSUME Typed, SendersHonest, NEW p \in Senders, SenderStep(p), Recorded(p)
    PROVE  SendersHonest' /\ offered \subseteq offered'
<1> USE DEF Goto, memory, stream
<1>1. /\ offered \subseteq offered' /\ DOMAIN edited' = Senders
      /\ edited' = [edited EXCEPT ![p] = edited[p] /\ pc'[p] # "idle"]
  BY DEF Recorded, SendersHonest
<1>2. source' = source
  BY DEF SenderStep, Start, Send, BrokerFails, FindState, LoadState, CreateState, WriteState,
         ListBlobs, SendChunk, PutManifest, PutSignature, RemoveState
\* Whatever the others do, they do not touch it.
<1>3. \A q \in Senders : q # p =>
         /\ pc'[q] = pc[q] /\ size'[q] = size[q] /\ next'[q] = next[q] /\ read'[q] = read[q]
         /\ edited'[q] = edited[q]
  <2>1. CASE Ends(p)
    BY <1>1, <2>1 DEF Typed, SendersHonest, Ends
  <2>2. CASE ~ Ends(p)
    <3>1. CASE Start(p) \/ FindState(p) \/ CreateState(p) \/ WriteState(p) \/ ListBlobs(p)
               \/ PutManifest(p) \/ PutSignature(p)
      BY <1>1, <3>1 DEF Typed, SendersHonest, Start, FindState, CreateState, WriteState,
            ListBlobs, PutManifest, PutSignature
    <3>2. CASE LoadState(p)
      BY <1>1, <2>2, <3>2 DEF Typed, SendersHonest, LoadState
    <3>3. CASE SendChunk(p)
      BY <1>1, <3>3 DEF Typed, SendersHonest, SendChunk, Hashes
    <3> QED BY <2>2, <3>1, <3>2, <3>3 DEF SenderStep, Send, RemoveState, BrokerFails
  <2> QED BY <2>1, <2>2
<1>4. /\ pc'[p] # "idle" /\ ~ edited'[p] =>
            /\ size'[p] = Cardinality(DOMAIN source)
            /\ read'[p] = [i \in 0..(next'[p] - 1) |-> source[i]]
      /\ pc'[p] = "signature" => \E x \in offered' : x.bytes = read'[p]
  <2>1. CASE Ends(p)
    BY <2>1 DEF Typed, Ends
  <2>2. CASE Start(p)
    <3>1. /\ size'[p] = Cardinality(DOMAIN source) /\ read'[p] = read[p] /\ next'[p] = next[p]
          /\ pc[p] = "idle" /\ pc'[p] = "state"
      BY <2>2 DEF Start, Typed
    <3>2. read[p] = Nothing /\ next[p] = 0
      BY <3>1 DEF Typed, PastList
    <3>3. Nothing = [i \in 0..(0 - 1) |-> source[i]]
      BY DEF Nothing
    <3> QED BY <3>1, <3>2, <3>3
  <2>3. CASE FindState(p) \/ CreateState(p) \/ WriteState(p) \/ ListBlobs(p)
             \/ PutSignature(p) \/ (LoadState(p) /\ ~ Ends(p))
    <3>1. /\ size'[p] = size[p] /\ read'[p] = read[p] /\ next'[p] = next[p]
          /\ pc[p] # "idle" /\ pc'[p] # "signature"
      BY <2>3 DEF Typed, FindState, CreateState, WriteState, ListBlobs, PutSignature, LoadState
    <3> QED BY <1>1, <3>1 DEF SendersHonest
  <2>4. CASE SendChunk(p)
    <3> DEFINE n == next[p]
    <3>1. /\ AtChunk(p) /\ pc[p] = "chunks" /\ pc' = pc /\ size' = size
          /\ next'[p] = n + 1 /\ n \in Nat /\ n < size[p]
      BY <2>4 DEF Typed, SendChunk, AtChunk
    <3>2. ASSUME ~ edited'[p]
          PROVE  /\ size'[p] = Cardinality(DOMAIN source)
                 /\ read'[p] = [i \in 0..n |-> source[i]]
      <4>1. size[p] = Cardinality(DOMAIN source) /\ read[p] = [i \in 0..(n - 1) |-> source[i]]
        BY <1>1, <3>1, <3>2 DEF SendersHonest
      <4>2. source = [i \in 0..(size[p] - 1) |-> source[i]] /\ \A i \in DOMAIN source : source[i] # NoBytes
        BY <4>1, SenderAssumption DEF Typed
      <4>3. n \in DOMAIN source
        BY <3>1, <4>2 DEF Typed
      <4>4. Plain(p) = source[n] /\ Plain(p) # NoBytes
        BY <4>2, <4>3 DEF Plain
      <4>5. read'[p] = Extend(read[p], source[n])
        BY <2>4, <4>4 DEF SendChunk, Hashes, Typed
      <4>6. DOMAIN read[p] = 0..(n - 1) /\ \A i \in 0..(n - 1) : read[p][i] = source[i]
        BY <4>1
      <4>7. n \in Nat
        BY <3>1
      <4>8. Extend(read[p], source[n]) = [i \in 0..n |-> source[i]]
        BY ONLY <4>6, <4>7, ExtendPrefix
      <4> QED BY <3>1, <4>1, <4>5, <4>8
    <3>3. next'[p] - 1 = n
      BY <3>1
    <3> QED BY <3>1, <3>2, <3>3
  <2>5. CASE PutManifest(p)
    <3>1. /\ AtManifest(p) /\ pc[p] # "idle" /\ UNCHANGED <<size, read, next>>
      BY <2>5 DEF PutManifest, AtManifest
    <3>2. [bytes |-> read[p], edited |-> edited[p]] \in offered'
      BY <3>1 DEF Recorded
    <3> QED BY <1>1, <3>1, <3>2 DEF SendersHonest
  <2>6. RemoveState(p) \/ BrokerFails(p) => Ends(p)
    BY DEF RemoveState, BrokerFails
  <2> QED BY <2>1, <2>2, <2>3, <2>4, <2>5, <2>6 DEF SenderStep, Send
<1>5. ASSUME NEW q \in Senders
      PROVE  /\ pc'[q] # "idle" /\ ~ edited'[q] =>
                   /\ size'[q] = Cardinality(DOMAIN source)
                   /\ read'[q] = [i \in 0..(next'[q] - 1) |-> source[i]]
             /\ pc'[q] = "signature" => \E x \in offered' : x.bytes = read'[q]
  <2>1. CASE q = p
    BY <1>4, <2>1
  <2>2. CASE q # p
    BY <1>1, <1>3, <2>2 DEF SendersHonest
  <2> QED BY <2>1, <2>2
<1> QED BY <1>1, <1>2, <1>5 DEF SendersHonest

\* What a sender puts under a signature key is signed over what it has read,
\* and it has vouched for that.
LEMMA PutIsVouched ==
    ASSUME Typed, SendersHonest, NEW p \in Senders,
           AtChunk(p) \/ AtManifest(p) \/ pc[p] = "signature"
    PROVE  SignsVouched(PutKey(p), PutBlob(p))
<1>1. CASE AtChunk(p) \/ AtManifest(p)
  <2>1. PutKey(p)[2] # -2
    BY <1>1 DEF PutKey, Typed, manifest_key
  <2> QED BY <2>1 DEF SignsVouched
<1>2. CASE pc[p] = "signature" /\ ~ AtChunk(p) /\ ~ AtManifest(p)
  <2>1. PutBlob(p) = Sign("sender", BuildManifest(p))
    BY <1>2 DEF PutBlob
  <2>2. PutBlob(p).signed = BuildManifest(p)
    BY <2>1 DEF Sign
  <2>3. BuildManifest(p).plaintext_sha256 = sha256(read[p])
    BY DEF BuildManifest, Manifest
  <2>4. Vouched(BuildManifest(p))
    BY <1>2, <2>3 DEF SendersHonest, Vouched
  <2> QED BY <2>1, <2>2, <2>4 DEF SignsVouched
<1> QED BY <1>1, <1>2

\* A step of a sender puts one of its blobs, if any.
LEMMA StoreStep ==
    ASSUME NEW p \in Senders, SenderStep(p)
    PROVE  \/ store' = store
           \/ (AtChunk(p) \/ AtManifest(p) \/ pc[p] = "signature") /\ Put(p)
BY DEF SenderStep, Send, Start, FindState, LoadState, CreateState, WriteState, ListBlobs,
       SendChunk, PutManifest, PutSignature, RemoveState, BrokerFails, Uploads, stream, memory

LEMMA BlobsStep ==
    ASSUME Typed, SendersHonest, BlobsVouched, NEW p \in Senders, SenderStep(p), Recorded(p),
           \/ late' = late
           \/ Uploads(p) /\ late' = late \cup {<<PutKey(p), PutBlob(p)>>}
    PROVE  BlobsVouched'
<1>1. \A k, blob : SignsVouched(k, blob) => SignsVouched(k, blob)'
  BY HonestStep, VouchedStays
<1>2. \A k \in Keys : SignsVouched(k, store'[k])
  <2>1. CASE store' = store
    BY <2>1 DEF BlobsVouched
  <2>2. CASE (AtChunk(p) \/ AtManifest(p) \/ pc[p] = "signature") /\ Put(p)
    <3>1. SignsVouched(PutKey(p), PutBlob(p))
      BY <2>2, PutIsVouched
    <3>2. \A k \in Keys : store'[k] = IF k = PutKey(p) THEN PutBlob(p) ELSE store[k]
      BY <2>2 DEF Put, Typed
    <3> QED BY <3>1, <3>2 DEF BlobsVouched
  <2> QED BY <2>1, <2>2, StoreStep
<1>3. \A put \in late' : SignsVouched(put[1], put[2])
  <2>1. Uploads(p) => SignsVouched(PutKey(p), PutBlob(p))
    BY PutIsVouched DEF Uploads
  <2> QED BY <2>1 DEF BlobsVouched
<1>4. ASSUME NEW k \in Keys
      PROVE  SignsVouched(k, store[k])'
  BY <1>1, <1>2 DEF SignsVouched, Vouched
<1>5. ASSUME NEW put \in late'
      PROVE  SignsVouched(put[1], put[2])'
  BY <1>1, <1>3 DEF SignsVouched, Vouched
<1> QED BY <1>4, <1>5 DEF BlobsVouched

-----------------------------------------------------------------------------
(* The steps of receivers.                                                 *)

\* A process that ends leaves nothing to say about its manifest.
LEMMA EndStep ==
    ASSUME ReceiversVouched, NEW ps, Receiver!EndProcesses(ps), offered' = offered,
           DOMAIN part' = Outs, \A o \in Outs \ ps : part'[o] = part[o]
    PROVE  ReceiversVouched'
<1>1. \A o \in Outs : \/ rpc'[o] = "idle"
                      \/ o \notin ps /\ rpc'[o] = rpc[o] /\ manifest'[o] = manifest[o]
  BY DEF Receiver!EndProcesses
<1>2. DOMAIN rpc' = Outs /\ DOMAIN manifest' = Outs
  BY DEF Receiver!EndProcesses
<1>3. \A m : Vouched(m) => Vouched(m)'
  BY VouchedStays
<1> QED BY <1>1, <1>2, <1>3 DEF ReceiversVouched, Receiver!Accepted, Receiver!Recording

LEMMA RejectStep ==
    ASSUME ReceiversVouched, NEW o, Receiver!Reject(o), offered' = offered
    PROVE  ReceiversVouched' /\ final' = final
BY EndStep DEF ReceiversVouched, Receiver!Reject, Receiver!disk

\* Only a verified manifest gets accepted, and what is verified is vouched for.
LEMMA AcceptedIsVouched ==
    ASSUME BlobsVouched, NEW t \in TransferIds, NEW o \in Outs, NEW age,
           Receiver!ManifestVerified(o, store[signature_key(t)], age)
    PROVE  Vouched(manifest[o])
<1> DEFINE sig == store[signature_key(t)]
<1>1. sig = Sign("sender", manifest[o]) /\ sig # None
  BY DEF Receiver!ManifestVerified, Receiver!SignatureValid, Receiver!Sign, Sign
<1>2. sig # Corrupt
  <2>1. DOMAIN Sign("sender", manifest[o]) # DOMAIN Corrupt
    BY DEF Sign, Corrupt, Encrypt
  <2> QED BY <1>1, <2>1
<1>3. signature_key(t) \in Keys /\ signature_key(t)[2] = -2
  BY DEF Keys, signature_key
<1>4. Vouched(sig.signed)
  BY <1>1, <1>2, <1>3 DEF BlobsVouched, SignsVouched
<1>5. sig.signed = manifest[o]
  BY <1>1 DEF Sign
<1> QED BY <1>4, <1>5

\* A step of a receiver keeps the chain, and what it renames has been vouched
\* for.
LEMMA ReceiveStep ==
    ASSUME BlobsVouched, ReceiversVouched, NEW o \in Outs, Receive(o), UNCHANGED <<senders, offered>>
    PROVE  /\ ReceiversVouched'
           /\ \/ final' = final
              \/ \E x \in offered : final' = [final EXCEPT ![o] = x.bytes]
<1> DEFINE Kept == ReceiversVouched' /\ final' = final
<1> USE DEF Receiver!Goto, Receiver!memory, Receiver!disk, Receiver!Accepted, Receiver!Recording
<1>0. \A m : Vouched(m) <=> Vouched(m)'
  BY DEF Vouched
<1>1. ASSUME Receiver!Reject(o)
      PROVE  Kept
  BY <1>1, RejectStep
<1>2. ASSUME NEW m, Receiver!GetManifest(o, m)
      PROVE  Kept
  BY <1>0, <1>2 DEF ReceiversVouched, Receiver!GetManifest
<1>3. ASSUME NEW t \in TransferIds, NEW age, Receiver!GetSignature(o, store[signature_key(t)], age)
      PROVE  Kept
  <2>1. CASE Receiver!ManifestVerified(o, store[signature_key(t)], age) /\ ~ Receiver!Reject(o)
    <3>1. Vouched(manifest[o])
      BY <2>1, AcceptedIsVouched
    <3> QED BY <1>0, <1>3, <2>1, <3>1 DEF ReceiversVouched, Receiver!GetSignature
  <2> QED BY <1>1, <1>3, <2>1 DEF Receiver!GetSignature
<1>4. ASSUME NEW i, NEW ct, Receiver!GetChunk(o, i, ct)
      PROVE  Kept
  <2>1. CASE ~ Receiver!Reject(o)
    BY <1>0, <1>4, <2>1 DEF ReceiversVouched, Receiver!GetChunk
  <2> QED BY <1>1, <2>1
<1>5. ASSUME Receiver!Prepare(o) \/ Receiver!OpenPart(o)
      PROVE  Kept
  BY <1>0, <1>5 DEF ReceiversVouched, Receiver!Prepare, Receiver!OpenPart
<1>6. ASSUME Receiver!SaveProgress(o) \/ Receiver!FinishFile(o)
      PROVE  Kept
  BY <1>0, <1>6 DEF ReceiversVouched, Receiver!SaveProgress, Receiver!FinishFile
<1>7. ASSUME Receiver!CheckWholeFile(o)
      PROVE  Kept
  <2>1. CASE ~ Receiver!Reject(o)
    BY <1>0, <1>7, <2>1 DEF ReceiversVouched, Receiver!CheckWholeFile, Receiver!WholeFileVerified,
                            Receiver!sha256, sha256
  <2> QED BY <1>1, <2>1
<1>8. ASSUME Receiver!Promote(o)
      PROVE  ReceiversVouched' /\ \E x \in offered : final' = [final EXCEPT ![o] = x.bytes]
  <2>1. PICK x \in offered : manifest[o].plaintext_sha256 = sha256(x.bytes)
    BY <1>8 DEF ReceiversVouched, Receiver!Promote, Vouched
  <2>2. part[o] = x.bytes
    BY <1>8, <2>1 DEF ReceiversVouched, Receiver!Promote, sha256
  <2>3. final' = [final EXCEPT ![o] = part[o]]
    BY <1>8 DEF Receiver!Promote
  <2>4. ReceiversVouched'
    BY <1>0, <1>8 DEF ReceiversVouched, Receiver!Promote
  <2> QED BY <2>2, <2>3, <2>4
<1>9. ASSUME Receiver!RemoveProgress(o) \/ Receiver!RecordLoad(o) \/ Receiver!RecordTruncate(o)
      PROVE  Kept
  BY <1>0, <1>9 DEF ReceiversVouched, Receiver!RemoveProgress, Receiver!RecordLoad,
                    Receiver!RecordTruncate
<1>10. ASSUME Receiver!RecordDump(o)
       PROVE  Kept
  <2>1. Receiver!EndProcesses({o}) /\ part' = part /\ final' = final
    BY <1>10 DEF Receiver!RecordDump
  <2> QED BY <2>1, EndStep DEF ReceiversVouched
<1>11. ASSUME Receiver!BrokerFails(o)
       PROVE  Kept
  BY <1>1, <1>11 DEF Receiver!BrokerFails
<1>12. CASE Receiver!Work(o)
  BY <1>5, <1>6, <1>7, <1>8, <1>9, <1>10, <1>11, <1>12 DEF Receiver!Work
<1>13. CASE GetManifest(o) \/ GetSignature(o) \/ GetChunk(o)
  BY <1>2, <1>3, <1>4, <1>13 DEF GetManifest, GetSignature, GetChunk
<1> QED BY <1>12, <1>13 DEF Receive

LEMMA ReceivingStep ==
    ASSUME BlobsVouched, ReceiversVouched, Receiving
    PROVE  /\ ReceiversVouched'
           /\ \/ final' = final
              \/ \E o \in Outs : \E x \in offered : final' = [final EXCEPT ![o] = x.bytes]
<1>1. UNCHANGED <<senders, offered>>
  BY DEF Receiving, history
<1>2. ASSUME NEW o \in Outs, Receive(o)
      PROVE  /\ ReceiversVouched'
             /\ \/ final' = final
                \/ \E x \in offered : final' = [final EXCEPT ![o] = x.bytes]
  BY <1>1, <1>2, ReceiveStep
<1>3. ASSUME NEW o \in Outs, NEW t, Receiver!Start(o, t, FALSE)
      PROVE  ReceiversVouched' /\ final' = final
  <2>1. \A m : Vouched(m) <=> Vouched(m)'
    BY <1>1 DEF Vouched
  <2> QED BY <1>3, <2>1 DEF ReceiversVouched, Receiver!Start, Receiver!Goto, Receiver!disk,
                            Receiver!Accepted, Receiver!Recording
<1>4. ASSUME NEW o \in Outs, Receiver!Kill(o)
      PROVE  ReceiversVouched' /\ final' = final
  <2>1. /\ Receiver!EndProcesses({o}) /\ final' = final
        /\ DOMAIN part' = Outs /\ \A q \in Outs \ {o} : part'[q] = part[q]
    BY <1>4 DEF Receiver!Kill, ReceiversVouched
  <2> QED BY <1>1, <2>1, EndStep
<1>5. ASSUME Receiver!PowerLoss
      PROVE  ReceiversVouched' /\ final' = final
  <2>1. Receiver!EndProcesses(Outs) /\ final' = final /\ DOMAIN part' = Outs
    BY <1>5 DEF Receiver!PowerLoss
  <2> QED BY <1>1, <2>1, EndStep
<1> QED BY <1>2, <1>3, <1>4, <1>5 DEF Receiving, StartNamed, StartOnly, Receiver!StartUnnamed

-----------------------------------------------------------------------------
(* All together.                                                           *)

\* Every step keeps the chain, and is a step of FileDelivery or none at all.
LEMMA ChainNext ==
    ASSUME Chain, [TransferNext]_allvars
    PROVE  Chain' /\ [Delivery!Next]_<<offered, final>>
<1> USE DEF Chain
<1>1. ASSUME NEW p \in Senders, SenderStep(p), Recorded(p), UNCHANGED <<receivers>>,
             late' = late \/ (Uploads(p) /\ late' = late \cup {<<PutKey(p), PutBlob(p)>>})
      PROVE  Chain' /\ [Delivery!Next]_<<offered, final>>
  <2>1. Typed'
    BY <1>1, TypeNext DEF SenderStep, Next
  <2>2. SendersHonest' /\ offered \subseteq offered'
    BY <1>1, HonestStep
  <2>3. BlobsVouched'
    BY <1>1, BlobsStep
  <2>4. ReceiversVouched'
    <3>1. \A m : Vouched(m) => Vouched(m)'
      BY <2>2, VouchedStays
    <3> QED BY <1>1, <3>1 DEF ReceiversVouched, receivers
  <2>5. [Delivery!Next]_<<offered, final>>
    <3>1. final' = final
      BY <1>1 DEF receivers
    <3>2. CASE AtManifest(p)
      <4> DEFINE x == [bytes |-> read[p], edited |-> edited[p]]
      <4>1. offered' = offered \cup {x}
        BY <1>1, <3>2 DEF Recorded
      <4>2. x.edited \/ x.bytes \in Versions
        BY <3>2, ReadsAVersion
      <4> QED BY <3>1, <4>1, <4>2 DEF Delivery!Next, Delivery!Offer
    <3>3. CASE ~ AtManifest(p)
      BY <1>1, <3>1, <3>3 DEF Recorded
    <3> QED BY <3>2, <3>3
  <2> QED BY <2>1, <2>2, <2>3, <2>4, <2>5
<1>2. ASSUME NEW p \in Senders, Sending(p)
      PROVE  Chain' /\ [Delivery!Next]_<<offered, final>>
  BY <1>1, <1>2 DEF Sending, SenderStep
<1>3. ASSUME NEW p \in Senders, GivesUpPut(p)
      PROVE  Chain' /\ [Delivery!Next]_<<offered, final>>
  BY <1>1, <1>3 DEF GivesUpPut, SenderStep
<1>4. CASE LatePut
  <2>1. PICK put \in late :
           /\ \E blob \in {put[2], Corrupt} : store' = [store EXCEPT ![put[1]] = blob]
           /\ late' = late \ {put}
           /\ UNCHANGED <<source, statefile, pc, memory, generated, used, published, edits, kills,
                          receivers, history>>
    BY <1>4 DEF LatePut
  <2>2. PICK blob \in {put[2], Corrupt} : store' = [store EXCEPT ![put[1]] = blob]
    BY <2>1
  <2>3. SignsVouched(put[1], blob)
    BY <2>2 DEF BlobsVouched, SignsVouched
  <2>4. Typed'
    BY <2>1, <2>2 DEF Typed, memory, stream
  <2>5. SendersHonest'
    BY <2>1 DEF SendersHonest, memory, stream, history
  <2>6. BlobsVouched'
    <3>1. \A k \in Keys : store'[k] = IF k = put[1] THEN blob ELSE store[k]
      BY <2>2 DEF Typed
    <3>2. \A k \in Keys : SignsVouched(k, store'[k])
      BY <2>3, <3>1 DEF BlobsVouched
    <3>3. \A q \in late' : SignsVouched(q[1], q[2])
      BY <2>1 DEF BlobsVouched
    <3> QED BY <2>1, <3>2, <3>3 DEF BlobsVouched, SignsVouched, Vouched, history
  <2>7. ReceiversVouched'
    BY <2>1 DEF ReceiversVouched, Vouched, receivers, history
  <2> QED BY <2>1, <2>4, <2>5, <2>6, <2>7 DEF receivers, history
<1>5. CASE Editing
  <2>1. /\ Edit /\ edited' = [p \in Senders |-> pc[p] # "idle"]
        /\ UNCHANGED <<receivers, late, offered>>
    BY <1>5 DEF Editing
  <2>2. Typed'
    BY <2>1, TypeNext DEF Next
  <2>3. UNCHANGED <<store, pc, read>>
    BY <2>1 DEF Edit, memory, stream
  <2>4. SendersHonest'
    BY <2>1, <2>3 DEF SendersHonest
  <2>5. BlobsVouched'
    BY <2>1, <2>3 DEF BlobsVouched, SignsVouched, Vouched
  <2>6. ReceiversVouched'
    BY <2>1 DEF ReceiversVouched, Vouched, receivers
  <2> QED BY <2>1, <2>2, <2>4, <2>5, <2>6 DEF receivers
<1>6. CASE Receiving
  <2>1. UNCHANGED <<senders, late, history>>
    BY <1>6 DEF Receiving
  <2>2. ReceiversVouched' /\ [Delivery!Next]_<<offered, final>>
    BY <1>6, <2>1, ReceivingStep DEF Delivery!Next, Delivery!Deliver, history
  <2>3. Typed'
    BY <2>1 DEF Typed, senders, memory, stream
  <2>4. SendersHonest'
    BY <2>1 DEF SendersHonest, senders, memory, stream, history
  <2>5. BlobsVouched'
    BY <2>1 DEF BlobsVouched, SignsVouched, Vouched, senders, history
  <2> QED BY <2>2, <2>3, <2>4, <2>5
<1>7. CASE Tick \/ UNCHANGED allvars
  <2>1. UNCHANGED <<senders, receivers, late, history>>
    BY <1>7 DEF Tick, allvars
  <2>2. Typed'
    BY <2>1 DEF Typed, senders, memory, stream
  <2>3. SendersHonest'
    BY <2>1 DEF SendersHonest, senders, memory, stream, history
  <2>4. BlobsVouched'
    BY <2>1 DEF BlobsVouched, SignsVouched, Vouched, senders, history
  <2>5. ReceiversVouched'
    BY <2>1 DEF ReceiversVouched, Vouched, receivers, history
  <2> QED BY <2>1, <2>2, <2>3, <2>4, <2>5 DEF receivers, history
<1> QED BY <1>2, <1>3, <1>4, <1>5, <1>6, <1>7 DEF TransferNext

\* Approach B from end to end implements FileDelivery: a final name only ever
\* gets, all at once, the whole of what some run of a sender has read from end
\* to end and vouched for -- whatever was edited, resumed, torn, late, stale or
\* crashed in between.
THEOREM TransferImplementsDelivery == TransferSpec => ImplementsDelivery
<1>1. TransferInit => Chain /\ Delivery!Init
  BY ChainInit DEF TransferInit, Receiver!Init, Delivery!Init
<1>2. Chain /\ [TransferNext]_allvars => Chain' /\ [Delivery!Next]_<<offered, final>>
  BY ChainNext
<1> QED BY <1>1, <1>2, PTL DEF TransferSpec, ImplementsDelivery, Delivery!Spec
=============================================================================
