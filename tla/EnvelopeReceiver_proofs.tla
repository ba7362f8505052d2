----------------------- MODULE EnvelopeReceiver_proofs -----------------------
(***************************************************************************)
(* Proofs about EnvelopeReceiver, for every set of paths, of transfers and *)
(* of clock readings, with crashes or without, one receiver or many.       *)
(***************************************************************************)
EXTENDS EnvelopeReceiver, TLAPS

-----------------------------------------------------------------------------
(* Files.                                                                  *)

\* Opening the partial file, writing a chunk at its offset and losing
\* chunks all leave a file.
LEMMA FileOps ==
    /\ EmptyFile \in Files
    /\ \A f \in Files, i \in ChunkIndices, p \in Plain : WriteAt(f, i, p) \in Files
    /\ \A f \in Files \cup {None} : \A lost : Without(f, lost) \in Files \cup {None}
<1>1. EmptyFile \in Files
  BY DEF EmptyFile, Files
<1>2. ASSUME NEW f \in Files, NEW i \in ChunkIndices, NEW p \in Plain
      PROVE  WriteAt(f, i, p) \in Files
  <2>1. PICK D \in SUBSET ChunkIndices : f \in [D -> Plain]
    BY DEF Files
  <2>2. CASE p = NoBytes
    BY <2>2 DEF WriteAt
  <2>3. CASE p # NoBytes
    <3>1. WriteAt(f, i, p) \in [D \cup {i} -> Plain]
      BY <2>1, <2>3 DEF WriteAt
    <3> QED BY <3>1 DEF Files
  <2> QED BY <2>2, <2>3
<1>3. ASSUME NEW f \in Files \cup {None}, NEW lost
      PROVE  Without(f, lost) \in Files \cup {None}
  <2>1. CASE f = None
    BY <2>1 DEF Without
  <2>2. CASE f # None
    <3>1. PICK D \in SUBSET ChunkIndices : f \in [D -> Plain]
      BY <2>2 DEF Files
    <3>2. Without(f, lost) \in [D \ lost -> Plain]
      BY <2>2, <3>1 DEF Without
    <3> QED BY <3>2 DEF Files
  <2> QED BY <2>1, <2>2
<1> QED BY <1>1, <1>2, <1>3

\* What a run may write comes out of a blob the broker may hold.
LEMMA RepliesPlain == \A ct \in ChunkReplies : ct # None => ct.plain \in Plain
BY DEF Plain

-----------------------------------------------------------------------------
(* Type correctness.                                                       *)

LEMMA TypeInit == Init => TypeOK
BY ReceiverAssumption DEF Init, TypeOK, ManifestReplies

\* Ending some processes keeps what their memory is made of.
LEMMA TypeEnd ==
    ASSUME TypeOK, NEW ps, EndProcesses(ps)
    PROVE  /\ pc' \in [Outs -> {"idle", "manifest", "signature"} \cup Accepted]
           /\ tid' \in [Outs -> TransferIds \cup {None}]
           /\ redeliver' \in [Outs -> BOOLEAN]
           /\ manifest' \in [Outs -> ManifestReplies]
           /\ done' \in [Outs -> SUBSET ChunkIndices]
           /\ seen' \in [Outs -> SUBSET TransferIds]
           /\ buffered' \in [Outs -> SUBSET ChunkIndices]
           /\ \A o \in Outs : /\ pc'[o] # "idle" => pc'[o] = pc[o] /\ tid'[o] = tid[o]
                              /\ o \in ps => pc'[o] = "idle"
BY DEF TypeOK, EndProcesses, ManifestReplies

\* So a rejected run keeps the invariant.
LEMMA TypeReject ==
    ASSUME TypeOK, NEW o \in Outs, Reject(o)
    PROVE  TypeOK'
<1>1. EndProcesses({o}) /\ UNCHANGED <<part, dirty, progress, final, ledger, delivered, crashes>>
  BY DEF Reject, disk
<1> QED BY <1>1, TypeEnd DEF TypeOK

LEMMA TypeNext == TypeOK /\ [Next]_vars => TypeOK'
<1> SUFFICES ASSUME TypeOK, [Next]_vars
             PROVE  TypeOK'
  OBVIOUS
<1> USE DEF Goto, memory, disk
<1>1. ASSUME NEW o \in Outs, NEW r \in BOOLEAN, NEW t \in TransferIds, Start(o, t, r)
      PROVE  TypeOK'
  BY <1>1 DEF TypeOK, Start
<1>2. ASSUME NEW o \in Outs, NEW m \in ManifestReplies, GetManifest(o, m)
      PROVE  TypeOK'
  BY <1>2 DEF TypeOK, GetManifest
<1>3. ASSUME NEW o \in Outs, NEW sig, NEW age, GetSignature(o, sig, age)
      PROVE  TypeOK'
  <2>1. CASE Reject(o)
    BY <2>1, TypeReject
  <2>2. CASE ~ Reject(o)
    BY <1>3, <2>2 DEF TypeOK, GetSignature, Accepted
  <2> QED BY <2>1, <2>2
<1>4. ASSUME NEW o \in Outs, BrokerFails(o)
      PROVE  TypeOK'
  BY <1>4, TypeReject DEF BrokerFails
<1>5. ASSUME NEW o \in Outs, Prepare(o)
      PROVE  TypeOK'
  <2>1. LoadProgress(o) \in SUBSET ChunkIndices
    BY DEF TypeOK, LoadProgress
  <2> QED BY <1>5, <2>1 DEF TypeOK, Prepare, Accepted
<1>6. ASSUME NEW o \in Outs, OpenPart(o)
      PROVE  TypeOK'
  BY <1>6, FileOps, ReceiverAssumption DEF TypeOK, OpenPart, Accepted
<1>7. ASSUME NEW o \in Outs, NEW i \in ChunkIndices, NEW ct \in ChunkReplies, GetChunk(o, i, ct)
      PROVE  TypeOK'
  <2>1. CASE Reject(o)
    BY <2>1, TypeReject
  <2>2. CASE ~ Reject(o)
    <3>1. ct # None
      BY <1>7, <2>2 DEF GetChunk, ChunkVerified
    <3>2. part[o] \in Files
      BY <1>7 DEF TypeOK, GetChunk
    <3>3. WriteAt(part[o], i, ct.plain) \in Files
      BY <3>1, <3>2, FileOps, RepliesPlain
    <3> QED BY <1>7, <2>2, <3>3, ReceiverAssumption DEF TypeOK, GetChunk, Accepted
  <2> QED BY <2>1, <2>2
<1>8. ASSUME NEW o \in Outs, SaveProgress(o)
      PROVE  TypeOK'
  BY <1>8 DEF TypeOK, SaveProgress, Accepted
<1>9. ASSUME NEW o \in Outs, FinishFile(o)
      PROVE  TypeOK'
  BY <1>9 DEF TypeOK, FinishFile, Accepted
<1>10. ASSUME NEW o \in Outs, CheckWholeFile(o)
       PROVE  TypeOK'
  <2>1. CASE Reject(o)
    BY <2>1, TypeReject
  <2>2. CASE ~ Reject(o)
    BY <1>10, <2>2 DEF TypeOK, CheckWholeFile, Accepted
  <2> QED BY <2>1, <2>2
<1>11. ASSUME NEW o \in Outs, Promote(o)
       PROVE  TypeOK'
  BY <1>11 DEF TypeOK, Promote, Accepted, Recording
<1>12. ASSUME NEW o \in Outs, RemoveProgress(o)
       PROVE  TypeOK'
  BY <1>12 DEF TypeOK, RemoveProgress, Accepted, Recording
<1>13. ASSUME NEW o \in Outs, RecordLoad(o)
       PROVE  TypeOK'
  BY <1>13 DEF TypeOK, RecordLoad, LoadLedger, Accepted, Recording
<1>14. ASSUME NEW o \in Outs, RecordTruncate(o)
       PROVE  TypeOK'
  BY <1>14 DEF TypeOK, RecordTruncate, Accepted, Recording
<1>15. ASSUME NEW o \in Outs, RecordDump(o)
       PROVE  TypeOK'
  BY <1>15, TypeEnd DEF TypeOK, RecordDump
<1>16. ASSUME NEW o \in Outs, Kill(o)
       PROVE  TypeOK'
  <2>1. PICK lost \in SUBSET buffered[o] :
           /\ part' = [part EXCEPT ![o] = Without(@, lost)]
           /\ dirty' = [dirty EXCEPT ![o] = @ \ lost]
    BY <1>16 DEF Kill
  <2>2. Without(part[o], lost) \in Files \cup {None}
    BY FileOps DEF TypeOK
  <2>3. part' \in [Outs -> Files \cup {None}] /\ \A p \in Outs \ {o} : part'[p] = part[p]
    BY <2>1, <2>2 DEF TypeOK
  <2>4. dirty' \in [Outs -> SUBSET ChunkIndices]
    BY <2>1 DEF TypeOK
  <2>5. crashes' \in 0..MaxCrashes
    BY <1>16, ReceiverAssumption DEF TypeOK, Kill
  <2> QED BY <1>16, <2>3, <2>4, <2>5, TypeEnd DEF TypeOK, Kill
<1>17. ASSUME PowerLoss
       PROVE  TypeOK'
  <2>1. PICK lost, torn :
           /\ part' = [o \in Outs |-> Without(part[o], lost[o])]
           /\ progress' = [o \in Outs |-> IF o \in torn THEN None ELSE progress[o]]
    BY <1>17 DEF PowerLoss
  <2>2. \A o \in Outs : Without(part[o], lost[o]) \in Files \cup {None}
    BY FileOps DEF TypeOK
  <2>3. part' \in [Outs -> Files \cup {None}]
    BY <2>1, <2>2
  <2>4. progress' \in [Outs -> [transfer_id : TransferIds, done : SUBSET ChunkIndices]
                                 \cup {None}]
    BY <2>1 DEF TypeOK
  <2>5. crashes' \in 0..MaxCrashes
    BY <1>17, ReceiverAssumption DEF TypeOK, PowerLoss
  <2> QED BY <1>17, <2>3, <2>4, <2>5, TypeEnd DEF TypeOK, PowerLoss
<1>18. CASE UNCHANGED vars
  BY <1>18 DEF TypeOK, vars
<1> QED BY <1>1, <1>2, <1>3, <1>4, <1>5, <1>6, <1>7, <1>8, <1>9, <1>10, <1>11,
           <1>12, <1>13, <1>14, <1>15, <1>16, <1>17, <1>18
        DEF Next, Receive, Work, StartUnnamed

\* The receiver's files and memory keep their shape.
THEOREM TypeCorrect == Spec => []TypeOK
<1>1. Init => TypeOK
  BY TypeInit
<1>2. TypeOK /\ [Next]_vars => TypeOK'
  BY TypeNext
<1> QED BY <1>1, <1>2, PTL DEF Spec
-----------------------------------------------------------------------------
(* Safety.                                                                 *)

\* What the checks passed so far are worth later in the run: past the
\* signature check the manifest is one the trusted sender signed for the
\* requested transfer, and before the rename <out>.part has its digest.
ChecksHold ==
    \A o \in Outs :
        /\ pc[o] \in Accepted => /\ manifest[o] \in Signed
                                 /\ manifest[o].transfer_id = tid[o]
        /\ pc[o] = "promote" => sha256(part[o]) = manifest[o].plaintext_sha256

\* A chunk that passes both checks against a signed manifest is the chunk the
\* trusted sender encrypted at that index.
LEMMA VerifiedChunkIsSent ==
    ASSUME NEW s \in Sent, NEW i \in 0..(total_chunks(s) - 1), NEW ct,
           ChunkVerified(ManifestOf(s), i, ct)
    PROVE  i \in DOMAIN s.file /\ ct.plain = s.file[i]
<1>1. i \in DOMAIN s.file
  BY ReceiverAssumption
<1>2. ct = ChunkCiphertext(s, i)
  BY <1>1 DEF ChunkVerified, ManifestOf, Manifest, sha256
<1> QED BY <1>1, <1>2 DEF ChunkCiphertext, Encrypt

\* A manifest that passes the checks is signed, and of the requested transfer.
LEMMA VerifiedManifestIsSigned ==
    ASSUME NEW o, NEW sig \in SignatureReplies, NEW age, ManifestVerified(o, sig, age)
    PROVE  manifest[o] \in Signed /\ manifest[o].transfer_id = tid[o]
<1>1. sig = Sign("sender", manifest[o]) /\ sig # None
  BY DEF ManifestVerified, SignatureValid
<1>2. \A m : sig # Sign("rogue", m)
  BY <1>1 DEF Sign
<1>3. PICK m \in Signed : sig = Sign("sender", m)
  BY <1>1, <1>2 DEF SignatureReplies
<1>4. m = manifest[o]
  BY <1>1, <1>3 DEF Sign
<1> QED BY <1>3, <1>4 DEF ManifestVerified

LEMMA ChecksInit == Init => ChecksHold
BY DEF Init, ChecksHold, Accepted, Recording

LEMMA ChecksNext == TypeOK /\ ChecksHold /\ [Next]_vars => ChecksHold'
<1> SUFFICES ASSUME TypeOK, ChecksHold, [Next]_vars
             PROVE  ChecksHold'
  OBVIOUS
<1> USE DEF Goto, memory, disk, Accepted, Recording
<1>0. ASSUME NEW o \in Outs, Reject(o)
      PROVE  ChecksHold'
  BY <1>0 DEF TypeOK, ChecksHold, Reject, EndProcesses
<1>1. ASSUME NEW o \in Outs, NEW r, NEW t, Start(o, t, r)
      PROVE  ChecksHold'
  BY <1>1 DEF TypeOK, ChecksHold, Start
<1>2. ASSUME NEW o \in Outs, NEW m, GetManifest(o, m)
      PROVE  ChecksHold'
  BY <1>2 DEF TypeOK, ChecksHold, GetManifest
<1>3. ASSUME NEW o \in Outs, NEW sig \in SignatureReplies, NEW age, GetSignature(o, sig, age)
      PROVE  ChecksHold'
  <2>1. CASE ~ Reject(o)
    <3>1. manifest[o] \in Signed /\ manifest[o].transfer_id = tid[o]
      BY <1>3, <2>1, VerifiedManifestIsSigned DEF GetSignature
    <3> QED BY <1>3, <2>1, <3>1 DEF TypeOK, ChecksHold, GetSignature
  <2> QED BY <2>1, <1>0
<1>4. ASSUME NEW o \in Outs, BrokerFails(o)
      PROVE  ChecksHold'
  BY <1>4, <1>0 DEF BrokerFails
<1>5. ASSUME NEW o \in Outs, Prepare(o)
      PROVE  ChecksHold'
  BY <1>5 DEF TypeOK, ChecksHold, Prepare
<1>6. ASSUME NEW o \in Outs, OpenPart(o)
      PROVE  ChecksHold'
  BY <1>6 DEF TypeOK, ChecksHold, OpenPart
<1>7. ASSUME NEW o \in Outs, NEW i, NEW ct, GetChunk(o, i, ct)
      PROVE  ChecksHold'
  <2>1. CASE ~ Reject(o)
    BY <1>7, <2>1 DEF TypeOK, ChecksHold, GetChunk
  <2> QED BY <2>1, <1>0
<1>8. ASSUME NEW o \in Outs, SaveProgress(o)
      PROVE  ChecksHold'
  BY <1>8 DEF TypeOK, ChecksHold, SaveProgress
<1>9. ASSUME NEW o \in Outs, FinishFile(o)
      PROVE  ChecksHold'
  BY <1>9 DEF TypeOK, ChecksHold, FinishFile
<1>10. ASSUME NEW o \in Outs, CheckWholeFile(o)
       PROVE  ChecksHold'
  <2>1. CASE ~ Reject(o)
    BY <1>10, <2>1 DEF TypeOK, ChecksHold, CheckWholeFile, WholeFileVerified
  <2> QED BY <2>1, <1>0
<1>11. ASSUME NEW o \in Outs, Promote(o)
       PROVE  ChecksHold'
  BY <1>11 DEF TypeOK, ChecksHold, Promote
<1>12. ASSUME NEW o \in Outs, RemoveProgress(o)
       PROVE  ChecksHold'
  BY <1>12 DEF TypeOK, ChecksHold, RemoveProgress
<1>13. ASSUME NEW o \in Outs, RecordLoad(o)
       PROVE  ChecksHold'
  BY <1>13 DEF TypeOK, ChecksHold, RecordLoad
<1>14. ASSUME NEW o \in Outs, RecordTruncate(o)
       PROVE  ChecksHold'
  BY <1>14 DEF TypeOK, ChecksHold, RecordTruncate
<1>15. ASSUME NEW o \in Outs, RecordDump(o)
       PROVE  ChecksHold'
  BY <1>15 DEF TypeOK, ChecksHold, RecordDump, EndProcesses
<1>16. ASSUME NEW o \in Outs, Kill(o)
       PROVE  ChecksHold'
  BY <1>16 DEF TypeOK, ChecksHold, Kill, EndProcesses
<1>17. ASSUME PowerLoss
       PROVE  ChecksHold'
  BY <1>17 DEF TypeOK, ChecksHold, PowerLoss, EndProcesses
<1>18. CASE UNCHANGED vars
  BY <1>18 DEF ChecksHold, vars
<1> QED BY <1>1, <1>2, <1>3, <1>4, <1>5, <1>6, <1>7, <1>8, <1>9, <1>10, <1>11,
           <1>12, <1>13, <1>14, <1>15, <1>16, <1>17, <1>18
        DEF Next, Receive, Work, StartUnnamed
\* The only step that touches a final name is the rename, and it puts there
\* the file of the requested transfer.
LEMMA FinalStep ==
    ASSUME TypeOK, ChecksHold, [Next]_vars, NEW p \in Outs, final'[p] # final[p]
    PROVE  \E s \in Sent : s.transfer_id = tid[p] /\ final'[p] = s.file
<1>1. ASSUME NEW o \in Outs, Promote(o)
      PROVE  \E s \in Sent : s.transfer_id = tid[p] /\ final'[p] = s.file
  <2>1. p = o /\ final'[o] = part[o]
    BY <1>1 DEF Promote, TypeOK
  <2>2. /\ manifest[o] \in Signed
        /\ manifest[o].transfer_id = tid[o]
        /\ sha256(part[o]) = manifest[o].plaintext_sha256
    BY <1>1 DEF Promote, ChecksHold, Accepted
  <2>3. PICK s \in Sent : manifest[o] = ManifestOf(s)
    BY <2>2 DEF Signed
  <2>4. part[o] = s.file /\ s.transfer_id = tid[o]
    BY <2>2, <2>3 DEF ManifestOf, Manifest, sha256
  <2> QED BY <2>1, <2>4
<1>2. ASSUME NEW o \in Outs, Receive(o)
      PROVE  Promote(o)
  <2>1. ~ UNCHANGED final
    OBVIOUS
  <2>2. ~ Reject(o)
    BY <2>1 DEF Reject, disk
  <2>3. /\ \A m : ~ GetManifest(o, m)
        /\ \A sig, age : ~ GetSignature(o, sig, age)
        /\ ~ BrokerFails(o) /\ ~ Prepare(o) /\ ~ OpenPart(o)
    BY <2>1, <2>2 DEF GetManifest, GetSignature, BrokerFails, Prepare, OpenPart, disk
  <2>4. \A i, ct : ~ GetChunk(o, i, ct)
    BY <2>1, <2>2 DEF GetChunk
  <2>5. ~ SaveProgress(o) /\ ~ FinishFile(o) /\ ~ CheckWholeFile(o) /\ ~ RemoveProgress(o)
    BY <2>1, <2>2 DEF SaveProgress, FinishFile, CheckWholeFile, RemoveProgress, disk
  <2>6. ~ RecordLoad(o) /\ ~ RecordTruncate(o) /\ ~ RecordDump(o)
    BY <2>1 DEF RecordLoad, RecordTruncate, RecordDump, disk
  <2> QED BY <1>2, <2>3, <2>4, <2>5, <2>6 DEF Receive, Work
<1>3. \E o \in Outs : Receive(o)
  BY DEF Next, StartUnnamed, Start, Kill, PowerLoss, vars, disk
<1> QED BY <1>1, <1>2, <1>3

LEMMA GenuineNext ==
    TypeOK /\ ChecksHold /\ PartIsGenuine /\ [Next]_vars => PartIsGenuine'
<1> SUFFICES ASSUME TypeOK, ChecksHold, PartIsGenuine, [Next]_vars
             PROVE  PartIsGenuine'
  OBVIOUS
<1> USE DEF memory, disk
<1>1. CASE UNCHANGED part
  BY <1>1 DEF PartIsGenuine
<1>2. ASSUME NEW o \in Outs, part' = [part EXCEPT ![o] = None]
      PROVE  PartIsGenuine'
  BY <1>2 DEF TypeOK, PartIsGenuine
<1>3. ASSUME NEW o \in Outs, OpenPart(o)
      PROVE  PartIsGenuine'
  BY <1>3 DEF TypeOK, PartIsGenuine, OpenPart, EmptyFile
<1>4. ASSUME NEW o \in Outs, NEW i \in ChunkIndices, NEW ct \in ChunkReplies, GetChunk(o, i, ct)
      PROVE  PartIsGenuine'
  <2>1. CASE ~ Reject(o)
    <3>1. /\ part' = [part EXCEPT ![o] = WriteAt(part[o], i, ct.plain)]
          /\ ChunkVerified(manifest[o], i, ct)
          /\ i \in 0..(manifest[o].total_chunks - 1)
      BY <1>4, <2>1 DEF GetChunk
    <3>2. manifest[o] \in Signed /\ part[o] # None
      BY <1>4 DEF GetChunk, TypeOK, ChecksHold, Accepted
    <3>3. PICK s \in Sent : manifest[o] = ManifestOf(s)
      BY <3>2 DEF Signed
    <3>4. i \in 0..(total_chunks(s) - 1)
      BY <3>1, <3>3 DEF ManifestOf, Manifest
    <3>5. i \in DOMAIN s.file /\ ct.plain = s.file[i]
      BY <3>1, <3>3, <3>4, VerifiedChunkIsSent
    <3>6. \A j \in DOMAIN WriteAt(part[o], i, ct.plain) :
            \E x \in Sent : /\ j \in DOMAIN x.file
                           /\ WriteAt(part[o], i, ct.plain)[j] = x.file[j]
      BY <3>2, <3>5 DEF WriteAt, PartIsGenuine
    <3> QED BY <3>1, <3>6 DEF TypeOK, PartIsGenuine
  <2> QED BY <2>1, <1>1 DEF Reject
<1>0. ASSUME NEW o \in Outs, NEW lost, Without(part[o], lost) # None,
             NEW j \in DOMAIN Without(part[o], lost)
      PROVE  \E s \in Sent : j \in DOMAIN s.file /\ Without(part[o], lost)[j] = s.file[j]
  <2>1. part[o] # None /\ Without(part[o], lost) = [k \in DOMAIN part[o] \ lost |-> part[o][k]]
    BY <1>0 DEF Without
  <2>2. j \in DOMAIN part[o] /\ Without(part[o], lost)[j] = part[o][j]
    BY <2>1
  <2> QED BY <2>1, <2>2 DEF PartIsGenuine
<1>5. ASSUME NEW o \in Outs, NEW lost, part' = [part EXCEPT ![o] = Without(part[o], lost)]
      PROVE  PartIsGenuine'
  BY <1>0, <1>5 DEF TypeOK, PartIsGenuine
<1>6. ASSUME NEW lost, part' = [o \in Outs |-> Without(part[o], lost[o])]
      PROVE  PartIsGenuine'
  BY <1>0, <1>6 DEF TypeOK, PartIsGenuine
<1>7. ASSUME NEW o \in Outs, Prepare(o)
      PROVE  PartIsGenuine'
  BY <1>1, <1>2, <1>7 DEF Prepare, TypeOK
<1>8. ASSUME NEW o \in Outs, Receive(o)
      PROVE  PartIsGenuine'
  <2>1. CASE Reject(o)
    BY <2>1, <1>1 DEF Reject
  <2>2. CASE Promote(o)
    BY <2>2, <1>2 DEF Promote
  <2>3. ASSUME NEW m, GetManifest(o, m)
        PROVE  PartIsGenuine'
    BY <2>3, <1>1 DEF GetManifest
  <2>4. ASSUME NEW sig, NEW age, GetSignature(o, sig, age)
        PROVE  PartIsGenuine'
    BY <2>4, <2>1, <1>1 DEF GetSignature
  <2>5. CASE SaveProgress(o) \/ FinishFile(o) \/ CheckWholeFile(o) \/ RemoveProgress(o)
    BY <2>5, <2>1, <1>1 DEF SaveProgress, FinishFile, CheckWholeFile, RemoveProgress
  <2>6. CASE RecordLoad(o) \/ RecordTruncate(o) \/ RecordDump(o)
    BY <2>6, <1>1 DEF RecordLoad, RecordTruncate, RecordDump
  <2> QED BY <1>3, <1>4, <1>7, <1>8, <2>1, <2>2, <2>3, <2>4, <2>5, <2>6
          DEF Receive, Work, BrokerFails
<1>9. ASSUME NEW o \in Outs, Kill(o)
      PROVE  PartIsGenuine'
  <2>1. PICK lost : part' = [part EXCEPT ![o] = Without(part[o], lost)]
    BY <1>9 DEF Kill
  <2> QED BY <2>1, <1>5
<1>10. ASSUME PowerLoss
       PROVE  PartIsGenuine'
  BY <1>6, <1>10 DEF PowerLoss
<1> QED BY <1>1, <1>8, <1>9, <1>10 DEF Next, vars, StartUnnamed, Start

\* The inductive invariant: what is on disk is only as good as the checks a
\* run has behind it, so the checks are carried along.
IInv == TypeOK /\ ChecksHold /\ PartIsGenuine /\ FailClosed

LEMMA Inductive == Spec => []IInv
<1>1. Init => IInv
  BY TypeInit, ChecksInit DEF Init, IInv, PartIsGenuine, FailClosed
<1>2. IInv /\ [Next]_vars => IInv'
  <2> SUFFICES ASSUME IInv, [Next]_vars
               PROVE  IInv'
    OBVIOUS
  <2>1. TypeOK' /\ ChecksHold' /\ PartIsGenuine'
    BY TypeNext, ChecksNext, GenuineNext DEF IInv
  <2>2. FailClosed'
    BY FinalStep DEF IInv, FailClosed
  <2> QED BY <2>1, <2>2 DEF IInv
<1> QED BY <1>1, <1>2, PTL DEF Spec

\* Whatever the broker answers and whenever a run is killed or the machine
\* stops, a file under a final name is one the trusted sender sent.
THEOREM FailsClosed == Spec => []FailClosed
<1>1. IInv => FailClosed
  BY DEF IInv
<1> QED BY <1>1, Inductive, PTL

\* Under the temporary name, too, there is never anything but chunks of sent
\* files, each at its own offset.
THEOREM PartGenuine == Spec => []PartIsGenuine
<1>1. IInv => PartIsGenuine
  BY DEF IInv
<1> QED BY <1>1, Inductive, PTL

\* A file is promoted only as the transfer its receiver was asked for.
THEOREM DeliversTheRequested == Spec => DeliversWhatWasAsked
<1>1. IInv /\ [Next]_vars =>
         [\A o \in Outs : final'[o] # final[o] =>
             \E s \in Sent : s.transfer_id = tid[o] /\ final'[o] = s.file]_vars
  BY FinalStep DEF IInv
<1> QED BY <1>1, Inductive, PTL DEF Spec, DeliversWhatWasAsked

-----------------------------------------------------------------------------
(* Receivers used one after the other.                                     *)

\* One receiver at a time, no other transfer to a path before the interrupted
\* one there is finished, and no crash.
Sequential == OneAtATime /\ CrashKinds = {}

\* transfer_id is drawn at random for every transfer (_load_or_create_state).
DistinctIds == \A s, u \in Sent : s.transfer_id = u.transfer_id => s = u

OnlyOne == \A o, q \in Outs : pc[o] # "idle" /\ pc[q] # "idle" => o = q

\* What _record_completed carries in memory while the ledger is behind, or gone.
LedgerKept ==
    /\ LedgerRemembers
    /\ \A o \in Outs :
         /\ pc[o] \in {"cleanup", "record"} => delivered \subseteq LoadLedger \cup {tid[o]}
         /\ pc[o] \in {"truncate", "dump"} => delivered \subseteq seen[o]

\* The ledger check is still good when the file is renamed.
NotYetDelivered ==
    \A o \in Outs : pc[o] \in Accepted \ Recording /\ ~ redeliver[o] => tid[o] \notin delivered

\* These chunks are in the file, as the transfer has them.
Holds(f, d, s) == \A i \in d : f # None /\ i \in DOMAIN f /\ f[i] = s.file[i]

\* What a run has recorded, and what it counts as done, is in <out>.part.
ProgressKept ==
    \A o \in Outs : progress[o] # None =>
        /\ pc[o] # "idle" => progress[o].transfer_id = tid[o]
        /\ pc[o] # "cleanup" =>
              \E s \in Sent : /\ s.transfer_id = progress[o].transfer_id
                              /\ Holds(part[o], progress[o].done, s)
DoneKept ==
    \A o \in Outs : pc[o] \in {"open", "fetch", "save", "check", "promote"} =>
        \A s \in Sent : manifest[o] = ManifestOf(s) => Holds(part[o], done[o], s)

\* A receiver that is started or takes a step is the only one there is.
LEMMA Alone ==
    ASSUME Sequential, TypeOK, OnlyOne, NEW o \in Outs,
           (\E r, t : Start(o, t, r)) \/ Receive(o)
    PROVE  \A q \in Outs : q # o => pc[q] = "idle" /\ pc'[q] = "idle"
<1> USE DEF Goto
<1>1. CASE \E r, t : Start(o, t, r)
  BY <1>1 DEF Sequential, Start, TypeOK
<1>2. CASE Receive(o)
  <2>1. pc[o] # "idle" /\ \A q \in Outs : q # o => pc'[q] = pc[q]
    <3>1. CASE Work(o)
      <4>1. CASE Reject(o) /\ pc[o] # "idle"
        BY <4>1 DEF TypeOK, Reject, EndProcesses
      <4>2. CASE Prepare(o) \/ OpenPart(o) \/ SaveProgress(o) \/ FinishFile(o)
        BY <4>2 DEF TypeOK, Prepare, OpenPart, SaveProgress, FinishFile
      <4>3. CASE Promote(o) \/ RemoveProgress(o) \/ RecordLoad(o) \/ RecordTruncate(o)
        BY <4>3 DEF TypeOK, Promote, RemoveProgress, RecordLoad, RecordTruncate
      <4>4. CASE RecordDump(o)
        BY <4>4 DEF TypeOK, RecordDump, EndProcesses
      <4>5. CASE CheckWholeFile(o)
        BY <4>1, <4>5 DEF TypeOK, CheckWholeFile
      <4>6. CASE BrokerFails(o)
        BY <4>1, <4>6 DEF BrokerFails
      <4> QED BY <3>1, <4>2, <4>3, <4>4, <4>5, <4>6 DEF Work
    <3>2. ASSUME NEW m, GetManifest(o, m)
          PROVE  pc[o] # "idle" /\ \A q \in Outs : q # o => pc'[q] = pc[q]
      BY <3>2 DEF TypeOK, GetManifest
    <3>3. ASSUME NEW sig, NEW age, GetSignature(o, sig, age)
          PROVE  pc[o] # "idle" /\ \A q \in Outs : q # o => pc'[q] = pc[q]
      BY <3>3, ZenonT(60) DEF TypeOK, GetSignature, Reject, EndProcesses
    <3>4. ASSUME NEW i, NEW ct, GetChunk(o, i, ct)
          PROVE  pc[o] # "idle" /\ \A q \in Outs : q # o => pc'[q] = pc[q]
      BY <3>4, ZenonT(60) DEF TypeOK, GetChunk, Reject, EndProcesses
    <3> QED BY <1>2, <3>1, <3>2, <3>3, <3>4 DEF Receive
  <2> QED BY <2>1 DEF OnlyOne
<1> QED BY <1>1, <1>2

\* Without crashes every step is one of a receiver that is alone.
LEMMA Steps ==
    ASSUME Sequential, [Next]_vars
    PROVE  \/ \E o \in Outs : (\E r, t : Start(o, t, r)) \/ Receive(o)
           \/ UNCHANGED vars
BY DEF Sequential, Next, StartUnnamed, Kill, PowerLoss

LEMMA OnlyOneNext ==
    ASSUME Sequential, TypeOK, OnlyOne, [Next]_vars
    PROVE  OnlyOne'
<1>1. CASE UNCHANGED vars
  BY <1>1 DEF vars, OnlyOne
<1>2. ASSUME NEW o \in Outs, (\E r, t : Start(o, t, r)) \/ Receive(o)
      PROVE  OnlyOne'
  BY <1>2, Alone DEF OnlyOne
<1> QED BY <1>1, <1>2, Steps

\* Steps that neither promote a file nor touch the ledger.
LEMMA LedgerFrame ==
    ASSUME TypeOK, OnlyOne, LedgerKept, NotYetDelivered, NEW o \in Outs,
           \A q \in Outs : q # o => pc[q] = "idle" /\ pc'[q] = "idle",
           UNCHANGED <<ledger, delivered>>,
           \/ pc[o] \notin Recording /\ pc'[o] \in {"idle", "manifest", "signature"}
           \/ /\ pc[o] \in Accepted \ Recording /\ pc'[o] \in Accepted \ Recording
              /\ tid'[o] = tid[o] /\ redeliver'[o] = redeliver[o]
    PROVE  LedgerKept' /\ NotYetDelivered'
BY DEF LedgerKept, LedgerRemembers, NotYetDelivered, LoadLedger, Accepted, Recording

LEMMA LedgerNext ==
    ASSUME Sequential, TypeOK, OnlyOne, LedgerKept, NotYetDelivered, [Next]_vars
    PROVE  LedgerKept' /\ NotYetDelivered'
<1> DEFINE Inv == LedgerKept' /\ NotYetDelivered'
<1> USE DEF Goto, memory, disk
<1>1. CASE UNCHANGED vars
  BY <1>1 DEF vars, LedgerKept, LedgerRemembers, NotYetDelivered, LoadLedger
<1>2. ASSUME NEW o \in Outs, NEW r, NEW t, Start(o, t, r)
      PROVE  Inv
  <2>1. \A q \in Outs : q # o => pc[q] = "idle" /\ pc'[q] = "idle"
    BY <1>2, Alone
  <2>2. UNCHANGED <<ledger, delivered>> /\ pc[o] \notin Recording /\ pc'[o] = "manifest"
    BY <1>2 DEF Start, TypeOK, Recording
  <2> QED BY <2>1, <2>2, LedgerFrame
<1>3. ASSUME NEW o \in Outs, Receive(o)
      PROVE  Inv
  <2>1. \A q \in Outs : q # o => pc[q] = "idle" /\ pc'[q] = "idle"
    BY <1>3, Alone
  <2>2. CASE Reject(o) /\ pc[o] \notin Recording
    BY <2>1, <2>2, LedgerFrame DEF Reject, EndProcesses
  <2>3. ASSUME NEW m, GetManifest(o, m)
        PROVE  Inv
    <3>1. UNCHANGED <<ledger, delivered>> /\ pc[o] = "manifest" /\ pc'[o] = "signature"
      BY <2>3 DEF GetManifest, TypeOK
    <3> QED BY <2>1, <3>1, LedgerFrame DEF Recording
  <2>4. ASSUME NEW sig, NEW age, GetSignature(o, sig, age)
        PROVE  Inv
    <3>1. CASE ManifestVerified(o, sig, age) /\ Goto(o, "prepare")
               /\ UNCHANGED <<memory, disk, ledger, delivered, crashes>>
      <4>1. redeliver[o] \/ tid[o] \notin LoadLedger
        BY <3>1 DEF ManifestVerified
      <4>2. \A q \in Outs : pc[q] \notin Recording
        BY <2>1, <2>4 DEF GetSignature, Recording
      <4>3. redeliver[o] \/ tid[o] \notin delivered
        BY <4>1, <4>2 DEF LedgerKept, LedgerRemembers
      <4>4. pc'[o] = "prepare"
        BY <3>1 DEF TypeOK
      <4> QED BY <2>1, <3>1, <4>2, <4>3, <4>4
              DEF LedgerKept, LedgerRemembers, NotYetDelivered, LoadLedger, Accepted, Recording
    <3>2. CASE Reject(o)
      BY <2>2, <2>4, <3>2 DEF GetSignature, Recording
    <3> QED BY <2>4, <3>1, <3>2 DEF GetSignature
  <2>5. ASSUME NEW i, NEW ct, GetChunk(o, i, ct)
        PROVE  Inv
    <3>1. CASE Reject(o)
      BY <2>2, <2>5, <3>1 DEF GetChunk, Recording
    <3>2. CASE ~ Reject(o)
      <4>1. UNCHANGED <<ledger, delivered, tid, redeliver>> /\ pc[o] = "fetch" /\ pc'[o] = "save"
        BY <2>5, <3>2 DEF GetChunk, TypeOK
      <4> QED BY <2>1, <4>1, LedgerFrame DEF Accepted, Recording
    <3> QED BY <3>1, <3>2
  <2>6. CASE Prepare(o) \/ OpenPart(o) \/ SaveProgress(o) \/ FinishFile(o)
             \/ (CheckWholeFile(o) /\ ~ Reject(o))
    <3>1. /\ UNCHANGED <<ledger, delivered, tid, redeliver>>
          /\ pc[o] \in {"prepare", "open", "fetch", "save", "check"}
          /\ pc'[o] \in {"open", "fetch", "check", "promote"}
      BY <2>6 DEF Prepare, OpenPart, SaveProgress, FinishFile, CheckWholeFile, TypeOK
    <3> QED BY <2>1, <3>1, LedgerFrame DEF Accepted, Recording
  <2>7. CASE BrokerFails(o) \/ (CheckWholeFile(o) /\ Reject(o))
    BY <2>2, <2>7 DEF BrokerFails, CheckWholeFile, Recording
  <2>8. CASE Promote(o)
    <3>1. /\ pc[o] = "promote" /\ pc'[o] = "cleanup" /\ tid'[o] = tid[o]
          /\ ledger' = ledger /\ delivered' = delivered \cup {tid[o]}
      BY <2>8 DEF Promote, TypeOK
    <3>2. delivered \subseteq LoadLedger
      BY <2>1, <3>1 DEF LedgerKept, LedgerRemembers, Recording
    <3> QED BY <2>1, <3>1, <3>2
            DEF LedgerKept, LedgerRemembers, NotYetDelivered, LoadLedger, Accepted, Recording
  <2>9. CASE RemoveProgress(o)
    <3>1. /\ pc[o] = "cleanup" /\ pc'[o] = "record" /\ tid'[o] = tid[o]
          /\ UNCHANGED <<ledger, delivered>>
      BY <2>9 DEF RemoveProgress, TypeOK
    <3> QED BY <2>1, <3>1
            DEF LedgerKept, LedgerRemembers, NotYetDelivered, LoadLedger, Accepted, Recording
  <2>10. CASE RecordLoad(o)
    <3>1. /\ pc[o] = "record" /\ pc'[o] = "truncate" /\ seen'[o] = LoadLedger \cup {tid[o]}
          /\ UNCHANGED <<ledger, delivered>>
      BY <2>10 DEF RecordLoad, TypeOK
    <3> QED BY <2>1, <3>1
            DEF LedgerKept, LedgerRemembers, NotYetDelivered, LoadLedger, Accepted, Recording
  <2>11. CASE RecordTruncate(o)
    <3>1. /\ pc[o] = "truncate" /\ pc'[o] = "dump" /\ seen'[o] = seen[o]
          /\ delivered' = delivered
      BY <2>11 DEF RecordTruncate, TypeOK
    <3> QED BY <2>1, <3>1
            DEF LedgerKept, LedgerRemembers, NotYetDelivered, Accepted, Recording
  <2>12. CASE RecordDump(o)
    <3>1. pc[o] = "dump" /\ pc'[o] = "idle" /\ ledger' = seen[o] /\ delivered' = delivered
      BY <2>12 DEF RecordDump, EndProcesses
    <3>2. seen[o] # None
      BY ReceiverAssumption DEF TypeOK
    <3>3. delivered \subseteq LoadLedger'
      BY <3>1, <3>2 DEF LedgerKept, LoadLedger
    <3> QED BY <2>1, <3>1, <3>3
            DEF LedgerKept, LedgerRemembers, NotYetDelivered, Accepted, Recording
  <2> QED BY <1>3, <2>3, <2>4, <2>5, <2>6, <2>7, <2>8, <2>9, <2>10, <2>11, <2>12 DEF Receive, Work
<1> QED BY <1>1, <1>2, <1>3, Steps

LEMMA SequentialInvariant ==
    ASSUME Sequential
    PROVE  Spec => [](IInv /\ OnlyOne /\ LedgerKept /\ NotYetDelivered)
<1> DEFINE Inv == TypeOK /\ OnlyOne /\ LedgerKept /\ NotYetDelivered
<1>1. Init => Inv
  BY TypeInit DEF Init, OnlyOne, LedgerKept, LedgerRemembers, NotYetDelivered, Accepted, Recording
<1>2. Inv /\ [Next]_vars => Inv'
  BY TypeNext, OnlyOneNext, LedgerNext
<1> HIDE DEF Inv
<1>3. Spec => []Inv
  BY <1>1, <1>2, PTL DEF Spec
<1>4. Inv => OnlyOne /\ LedgerKept /\ NotYetDelivered
  BY DEF Inv
<1> QED BY <1>3, <1>4, Inductive, PTL

\* Under Sequential, once a receiver is done the ledger knows every transfer
\* that was ever delivered.
THEOREM LedgerAlwaysRemembers ==
    ASSUME Sequential
    PROVE  Spec => []LedgerRemembers
<1>1. LedgerKept => LedgerRemembers
  BY DEF LedgerKept
<1> QED BY <1>1, SequentialInvariant, PTL

\* Under Sequential the replay defence holds: without --allow-redeliver no
\* transfer is delivered twice, under whatever path.
THEOREM DeliversAtMostOnce ==
    ASSUME Sequential
    PROVE  Spec => AtMostOnce
<1>1. NotYetDelivered =>
         [\A o \in Outs : pc[o] = "promote" /\ pc'[o] = "cleanup" /\ ~ redeliver[o]
             => tid[o] \notin delivered]_vars
  BY DEF NotYetDelivered, Accepted, Recording
<1> QED BY <1>1, SequentialInvariant, PTL DEF AtMostOnce

\* Writing a chunk keeps those that are in the file and adds this one.
LEMMA WriteKeeps ==
    ASSUME NEW s \in Sent, NEW f, NEW d, f # None, Holds(f, d, s),
           NEW i \in DOMAIN s.file, WriteAt(f, i, s.file[i]) # None
    PROVE  Holds(WriteAt(f, i, s.file[i]), d \cup {i}, s)
<1>1. WriteAt(f, i, s.file[i]) =
         [j \in DOMAIN f \cup {i} |-> IF j = i THEN s.file[i] ELSE f[j]]
  BY ReceiverAssumption DEF WriteAt
<1> DEFINE g == [j \in DOMAIN f \cup {i} |-> IF j = i THEN s.file[i] ELSE f[j]]
<1>2. \A j \in d \cup {i} : j \in DOMAIN g /\ g[j] = s.file[j]
  BY DEF Holds
<1> QED BY <1>1, <1>2 DEF Holds

\* Steps of a receiver that leave its partial and its progress file alone.
LEMMA ProgressFrame ==
    ASSUME TypeOK, ProgressKept, DoneKept, NEW o \in Outs,
           \A q \in Outs : q # o => pc[q] = "idle" /\ pc'[q] = "idle",
           part' = part, progress' = progress,
           \/ pc'[o] = "idle" /\ pc[o] # "cleanup"
           \/ /\ pc[o] # "idle" /\ tid'[o] = tid[o]
              /\ pc[o] = "cleanup" <=> pc'[o] = "cleanup"
              /\ pc'[o] \in {"open", "fetch", "save", "check", "promote"} =>
                    /\ pc[o] \in {"open", "fetch", "save", "check", "promote"}
                    /\ done'[o] = done[o] /\ manifest'[o] = manifest[o]
    PROVE  ProgressKept' /\ DoneKept'
BY DEF ProgressKept, DoneKept

LEMMA ProgressNext ==
    ASSUME Sequential, DistinctIds, TypeOK, ChecksHold, OnlyOne, ProgressKept, DoneKept,
           [Next]_vars
    PROVE  ProgressKept' /\ DoneKept'
<1> DEFINE Inv == ProgressKept' /\ DoneKept'
<1> USE DEF Goto, memory, disk
<1>1. CASE UNCHANGED vars
  BY <1>1 DEF vars, ProgressKept, DoneKept
<1>2. ASSUME NEW o \in Outs, NEW r, NEW t, Start(o, t, r)
      PROVE  Inv
  <2>1. \A q \in Outs : q # o => pc[q] = "idle" /\ pc'[q] = "idle"
    BY <1>2, Alone
  <2>2. /\ UNCHANGED <<part, progress>> /\ pc[o] = "idle" /\ pc'[o] = "manifest" /\ tid'[o] = t
        /\ progress[o] # None => progress[o].transfer_id = t
    BY <1>2 DEF Start, TypeOK, Sequential
  <2> QED BY <2>1, <2>2 DEF ProgressKept, DoneKept
<1>3. ASSUME NEW o \in Outs, Receive(o)
      PROVE  Inv
  <2>1. \A q \in Outs : q # o => pc[q] = "idle" /\ pc'[q] = "idle"
    BY <1>3, Alone
  <2>2. CASE Reject(o) /\ pc[o] # "cleanup"
    BY <2>1, <2>2, ProgressFrame DEF Reject, EndProcesses
  <2>3. ASSUME NEW m, GetManifest(o, m)
        PROVE  Inv
    <3>1. UNCHANGED <<part, progress, tid>> /\ pc[o] = "manifest" /\ pc'[o] = "signature"
      BY <2>3 DEF GetManifest, TypeOK
    <3> QED BY <2>1, <3>1, ProgressFrame
  <2>4. ASSUME NEW sig, NEW age, GetSignature(o, sig, age)
        PROVE  Inv
    <3>1. CASE Reject(o)
      BY <2>2, <2>4, <3>1 DEF GetSignature
    <3>2. CASE ~ Reject(o)
      <4>1. UNCHANGED <<part, progress, tid>> /\ pc[o] = "signature" /\ pc'[o] = "prepare"
        BY <2>4, <3>2 DEF GetSignature, TypeOK
      <4> QED BY <2>1, <4>1, ProgressFrame
    <3> QED BY <3>1, <3>2
  \* What the transfer of this run has, for any of them that claim its id.
  <2>5. ASSUME pc[o] \in Accepted
        PROVE  \E s \in Sent :
                 /\ manifest[o] = ManifestOf(s) /\ s.transfer_id = tid[o]
                 /\ \A u \in Sent : (u.transfer_id = tid[o] \/ manifest[o] = ManifestOf(u)) => u = s
    <3>1. PICK s \in Sent : manifest[o] = ManifestOf(s) /\ s.transfer_id = tid[o]
      <4>1. manifest[o] \in Signed /\ manifest[o].transfer_id = tid[o]
        BY <2>5 DEF ChecksHold
      <4>2. PICK s \in Sent : manifest[o] = ManifestOf(s)
        BY <4>1 DEF Signed
      <4>3. s.transfer_id = tid[o]
        BY <4>1, <4>2 DEF ManifestOf, Manifest
      <4> QED BY <4>2, <4>3
    <3>2. ASSUME NEW u \in Sent, u.transfer_id = tid[o] \/ manifest[o] = ManifestOf(u)
          PROVE  u = s
      <4>1. u.transfer_id = tid[o]
        BY <3>1, <3>2 DEF ManifestOf, Manifest
      <4> QED BY <3>1, <4>1 DEF DistinctIds
    <3> QED BY <3>1, <3>2
  <2>6. ASSUME NEW i \in ChunkIndices, NEW ct \in ChunkReplies, GetChunk(o, i, ct), ~ Reject(o)
        PROVE  Inv
    <3>1. /\ part'[o] = WriteAt(part[o], i, ct.plain) /\ done'[o] = done[o] \cup {i}
          /\ \A q \in Outs : q # o => part'[q] = part[q]
          /\ UNCHANGED <<progress, tid, manifest>> /\ pc[o] = "fetch" /\ pc'[o] = "save"
          /\ ChunkVerified(manifest[o], i, ct) /\ i \in 0..(manifest[o].total_chunks - 1)
      BY <2>6 DEF GetChunk, TypeOK
    <3>2. PICK s \in Sent :
           /\ manifest[o] = ManifestOf(s) /\ s.transfer_id = tid[o]
           /\ \A u \in Sent : (u.transfer_id = tid[o] \/ manifest[o] = ManifestOf(u)) => u = s
      BY <2>5, <3>1 DEF Accepted
    <3>3. i \in DOMAIN s.file /\ ct.plain = s.file[i]
      <4>1. manifest[o].total_chunks = total_chunks(s)
        BY <3>2 DEF ManifestOf, Manifest
      <4> QED BY <3>1, <3>2, <4>1, VerifiedChunkIsSent
    <3>4. part[o] # None /\ part'[o] # None
      <4>1. TypeOK'
        BY TypeNext
      <4> QED BY <3>1, <4>1 DEF TypeOK
    <3>5. \A d : Holds(part[o], d, s) => Holds(part'[o], d \cup {i}, s)
      <4>1. part'[o] = WriteAt(part[o], i, s.file[i])
        BY <3>1, <3>3
      <4> QED BY <3>3, <3>4, <4>1, WriteKeeps
    <3>6. Holds(part'[o], done'[o], s)
      BY <3>1, <3>2, <3>5 DEF DoneKept
    <3>7. ASSUME progress[o] # None
          PROVE  /\ progress[o].transfer_id = tid[o]
                 /\ Holds(part'[o], progress[o].done, s)
      <4>1. PICK u \in Sent : u.transfer_id = progress[o].transfer_id
                              /\ Holds(part[o], progress[o].done, u)
        BY <3>1, <3>7 DEF ProgressKept
      <4>2. progress[o].transfer_id = tid[o]
        BY <3>1, <3>7 DEF ProgressKept
      <4>4. u = s
        BY <3>2, <4>1, <4>2
      <4>3. Holds(part'[o], progress[o].done \cup {i}, s)
        BY <3>5, <4>1, <4>4
      <4> QED BY <4>2, <4>3 DEF Holds
    <3>8. DoneKept'
      <4>1. \A u \in Sent : manifest'[o] = ManifestOf(u) => Holds(part'[o], done'[o], u)
        BY <3>1, <3>2, <3>6
      <4> QED BY <2>1, <4>1 DEF DoneKept
    <3>9. ProgressKept'
      BY <2>1, <3>1, <3>2, <3>7 DEF ProgressKept
    <3> QED BY <3>8, <3>9
  <2>7. CASE Prepare(o)
    <3> DEFINE resumed == IF part[o] = None THEN {} ELSE LoadProgress(o)
    <3>1. /\ done'[o] = resumed /\ part'[o] = (IF resumed = {} THEN None ELSE part[o])
          /\ \A q \in Outs : q # o => part'[q] = part[q]
          /\ UNCHANGED <<progress, tid, manifest>> /\ pc[o] = "prepare" /\ pc'[o] = "open"
      BY <2>7 DEF Prepare, TypeOK
    <3>2. PICK s \in Sent :
           /\ manifest[o] = ManifestOf(s) /\ s.transfer_id = tid[o]
           /\ \A u \in Sent : (u.transfer_id = tid[o] \/ manifest[o] = ManifestOf(u)) => u = s
      BY <2>5, <3>1 DEF Accepted
    <3>3. ASSUME progress[o] # None
          PROVE  /\ progress[o].transfer_id = tid[o]
                 /\ Holds(part[o], progress[o].done, s)
      <4>1. PICK u \in Sent : u.transfer_id = progress[o].transfer_id
                              /\ Holds(part[o], progress[o].done, u)
        BY <3>1, <3>3 DEF ProgressKept
      <4>2. progress[o].transfer_id = tid[o]
        BY <3>1, <3>3 DEF ProgressKept
      <4>3. u = s
        BY <3>2, <4>1, <4>2
      <4> QED BY <4>1, <4>2, <4>3
    <3>4. progress[o] # None => resumed = progress[o].done
      BY <3>3 DEF Holds, LoadProgress
    <3>5. progress[o] = None => resumed = {}
      BY DEF LoadProgress
    <3>6. Holds(part'[o], resumed, s)
      BY <3>1, <3>3, <3>4, <3>5 DEF Holds
    <3>7. DoneKept'
      <4>1. \A u \in Sent : manifest'[o] = ManifestOf(u) => Holds(part'[o], done'[o], u)
        BY <3>1, <3>2, <3>6
      <4> QED BY <2>1, <4>1 DEF DoneKept
    <3>8. ProgressKept'
      BY <2>1, <3>1, <3>2, <3>3, <3>4, <3>6 DEF ProgressKept
    <3> QED BY <3>7, <3>8
  <2>8. CASE OpenPart(o)
    <3>1. /\ \A q \in Outs : part'[q] = part[q] \/ (q = o /\ part[o] = None)
          /\ UNCHANGED <<progress, tid, manifest, done>> /\ pc[o] = "open" /\ pc'[o] = "fetch"
      BY <2>8 DEF OpenPart, TypeOK
    <3>2. \A d, s : Holds(part[o], d, s) => Holds(part'[o], d, s)
      BY <3>1 DEF Holds
    <3>3. DoneKept'
      BY <2>1, <3>1, <3>2 DEF DoneKept
    <3>4. ProgressKept'
      BY <2>1, <3>1, <3>2 DEF ProgressKept
    <3> QED BY <3>3, <3>4
  <2>9. CASE SaveProgress(o) \/ FinishFile(o)
    <3>1. /\ progress'[o] = [transfer_id |-> tid[o], done |-> done[o]]
          /\ \A q \in Outs : q # o => progress'[q] = progress[q]
          /\ UNCHANGED <<part, tid, manifest, done>>
          /\ pc[o] \in {"fetch", "save"} /\ pc'[o] \in {"fetch", "check"}
      BY <2>9 DEF SaveProgress, FinishFile, TypeOK
    <3>2. PICK s \in Sent : manifest[o] = ManifestOf(s) /\ s.transfer_id = tid[o]
      BY <2>5, <3>1 DEF Accepted
    <3>3. Holds(part[o], done[o], s)
      BY <3>1, <3>2 DEF DoneKept
    <3>4. DoneKept'
      BY <2>1, <3>1 DEF DoneKept
    <3>5. ProgressKept'
      BY <2>1, <3>1, <3>2, <3>3 DEF ProgressKept
    <3> QED BY <3>4, <3>5
  <2>10. CASE CheckWholeFile(o) /\ ~ Reject(o)
    <3>1. UNCHANGED <<part, progress, tid, manifest, done>> /\ pc[o] = "check" /\ pc'[o] = "promote"
      BY <2>10 DEF CheckWholeFile, TypeOK
    <3> QED BY <2>1, <3>1, ProgressFrame
  <2>11. CASE BrokerFails(o) \/ (CheckWholeFile(o) /\ Reject(o))
    BY <2>2, <2>11 DEF BrokerFails, CheckWholeFile
  <2>12. CASE Promote(o)
    <3>1. /\ UNCHANGED <<progress, tid>> /\ pc[o] = "promote" /\ pc'[o] = "cleanup"
          /\ \A q \in Outs : q # o => part'[q] = part[q]
      BY <2>12 DEF Promote, TypeOK
    <3> QED BY <2>1, <3>1 DEF ProgressKept, DoneKept
  <2>13. CASE RemoveProgress(o)
    <3>1. /\ progress'[o] = None /\ \A q \in Outs : q # o => progress'[q] = progress[q]
          /\ part' = part /\ pc'[o] = "record"
      BY <2>13 DEF RemoveProgress, TypeOK
    <3> QED BY <2>1, <3>1 DEF ProgressKept, DoneKept
  <2>14. CASE RecordLoad(o) \/ RecordTruncate(o)
    <3>1. /\ UNCHANGED <<part, progress, tid>>
          /\ pc[o] \in {"record", "truncate"} /\ pc'[o] \in {"truncate", "dump"}
      BY <2>14 DEF RecordLoad, RecordTruncate, TypeOK
    <3> QED BY <2>1, <3>1, ProgressFrame
  <2>15. CASE RecordDump(o)
    <3>1. UNCHANGED <<part, progress>> /\ pc[o] = "dump" /\ pc'[o] = "idle"
      BY <2>15 DEF RecordDump, EndProcesses
    <3> QED BY <2>1, <3>1, ProgressFrame
  <2>16. ASSUME NEW i \in ChunkIndices, NEW ct \in ChunkReplies, GetChunk(o, i, ct)
         PROVE  Inv
    BY <2>2, <2>6, <2>16 DEF GetChunk
  <2> QED BY <1>3, <2>3, <2>4, <2>7, <2>8, <2>9, <2>10, <2>11, <2>12, <2>13, <2>14, <2>15, <2>16
          DEF Receive, Work
<1> QED BY <1>1, <1>2, <1>3, Steps

\* Under Sequential -- in particular, with no other transfer fetched to a path
\* whose download is unfinished, which the code does not rule out -- what the
\* progress file records is in the partial file, with the content the transfer
\* has.
THEOREM AlwaysResumesExactly ==
    ASSUME Sequential, DistinctIds
    PROVE  Spec => []ResumesExactly
<1> DEFINE Inv == ProgressKept /\ DoneKept
<1>1. Init => Inv
  BY DEF Init, ProgressKept, DoneKept
<1>2. (IInv /\ OnlyOne) /\ Inv /\ [Next]_vars => Inv'
  BY ProgressNext DEF IInv
<1>3. Inv => ResumesExactly
  BY DEF ProgressKept, ResumesExactly, Holds
<1> HIDE DEF Inv
<1> QED BY <1>1, <1>2, <1>3, SequentialInvariant, PTL DEF Spec
=============================================================================
