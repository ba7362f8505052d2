-------------------------- MODULE EnvelopeReceiver --------------------------
(***************************************************************************)
(* The Approach B receiver (approach-b-broker-envelope/receiver.py): runs  *)
(* of receive() for a set of --out paths, over the files they keep on disk *)
(* and the completed-transfer ledger they share.                           *)
(*                                                                         *)
(* The broker is untrusted: every GET may raise BrokerError, find nothing, *)
(* or answer with any blob the trusted sender or somebody else ever made,  *)
(* or with a corrupted one.  A run of receive() is cut where another run   *)
(* or a crash can come between two of its effects on shared state or disk. *)
(***************************************************************************)
EXTENDS Integers, Envelope

CONSTANTS
    Outs,               \* the --out paths; one receiver at a time per path
    Sent,               \* the transfers of the trusted sender
    Rogue,              \* transfers made and signed by somebody else
    Ages,               \* the values now - created_at may have
    FRESHNESS_WINDOW_S, CLOCK_SKEW_S,
    FSYNC_EVERY_CHUNKS,
    OneAtATime,         \* TRUE: one receiver at a time, and no other transfer to
                        \* a path before the interrupted one there is finished
    CrashKinds,         \* subset of {"kill", "power"}
    MaxCrashes          \* bound on the number of crashes

VARIABLES
    pc,                 \* where the receiver of each path is
    tid,                \* its --transfer-id
    redeliver,          \* its --allow-redeliver
    manifest,           \* the manifest it fetched
    done,               \* its set of verified chunk indices
    seen,               \* the ledger as it last loaded it
    buffered,           \* chunks still in Python's write buffer
    part,               \* <out>.part: the chunks at their offsets, or None
    dirty,              \* chunks of <out>.part not yet fsynced
    progress,           \* <out>.part.progress, or None
    final,              \* <out>, or None
    ledger,             \* seen_transfers.json, None when absent or unparsable
    delivered,          \* history: the transfer ids ever promoted
    crashes

memory == <<tid, redeliver, manifest, done, seen, buffered>>
disk   == <<part, dirty, progress, final>>
vars   == <<pc, memory, disk, ledger, delivered, crashes>>

TransferIds == {s.transfer_id : s \in Sent}
Signed      == {ManifestOf(s) : s \in Sent}
Recording   == {"cleanup", "record", "truncate", "dump"}
Accepted    == {"prepare", "open", "fetch", "save", "check", "promote"} \cup Recording

ChunkIndices == UNION {DOMAIN s.file : s \in Sent \cup Rogue}

\* What an untrusted broker may answer to GET <id>/manifest, /manifest.sig
\* and /chunk_NNNNNNNN.
ManifestReplies  == {None} \cup {ManifestOf(s) : s \in Sent \cup Rogue}
SignatureReplies == {None} \cup {Sign("sender", m) : m \in Signed}
                           \cup {Sign("rogue", ManifestOf(s)) : s \in Rogue}
ChunkReplies     == {None, Corrupt} \cup
                    UNION {{ChunkCiphertext(s, i) : i \in DOMAIN s.file} : s \in Sent \cup Rogue}

\* Anything a run could ever write: some chunks, each at some offset.
Plain == {ct.plain : ct \in ChunkReplies \ {None}}
Files == UNION {[D -> Plain] : D \in SUBSET ChunkIndices}

\* A sent file is some number of chunks, none of them empty; an absent file is
\* neither a file nor a ledger.
ASSUME ReceiverAssumption ==
    /\ \A s \in Sent : /\ DOMAIN s.file = 0..(total_chunks(s) - 1)
                       /\ \A i \in DOMAIN s.file : s.file[i] # NoBytes
    /\ None \notin Files /\ \A ids \in SUBSET TransferIds : ids # None
    /\ FSYNC_EVERY_CHUNKS \in Nat \ {0}
    /\ OneAtATime \in BOOLEAN
    /\ CrashKinds \subseteq {"kill", "power"}
    /\ MaxCrashes \in Nat

-----------------------------------------------------------------------------
\* A file as a partial function from chunk indices to plaintext: an index
\* outside its domain is a hole, or past the end.
EmptyFile == [i \in {} |-> None]
WriteAt_Off(f, i, plain) == [j \in DOMAIN f \cup {i + 1} |-> IF j = i + 1 THEN plain ELSE f[j]]
WriteAt(f, i, plain) ==
    IF plain = NoBytes THEN f
    ELSE [j \in DOMAIN f \cup {i} |-> IF j = i THEN plain ELSE f[j]]
Without(f, lost) == IF f = None THEN None ELSE [j \in DOMAIN f \ lost |-> f[j]]

\* _load_ledger: a missing or unparsable file reads as the empty set.
LoadLedger == IF ledger = None THEN {} ELSE ledger

\* _load_progress: only a progress file of this very transfer counts.
LoadProgress(o) ==
    IF progress[o] # None /\ progress[o].transfer_id = tid[o]
    THEN progress[o].done ELSE {}

Init ==
    /\ pc        = [o \in Outs |-> "idle"]
    /\ tid       = [o \in Outs |-> None]
    /\ redeliver = [o \in Outs |-> FALSE]
    /\ manifest  = [o \in Outs |-> None]
    /\ done      = [o \in Outs |-> {}]
    /\ seen      = [o \in Outs |-> {}]
    /\ buffered  = [o \in Outs |-> {}]
    /\ part      = [o \in Outs |-> None]
    /\ dirty     = [o \in Outs |-> {}]
    /\ progress  = [o \in Outs |-> None]
    /\ final     = [o \in Outs |-> None]
    /\ ledger    = None
    /\ delivered = {}
    /\ crashes   = 0

\* The processes in ps end and their memory is gone.
EndProcesses(ps) ==
    /\ pc'        = [o \in Outs |-> IF o \in ps THEN "idle" ELSE pc[o]]
    /\ tid'       = [o \in Outs |-> IF o \in ps THEN None ELSE tid[o]]
    /\ redeliver' = [o \in Outs |-> IF o \in ps THEN FALSE ELSE redeliver[o]]
    /\ manifest'  = [o \in Outs |-> IF o \in ps THEN None ELSE manifest[o]]
    /\ done'      = [o \in Outs |-> IF o \in ps THEN {} ELSE done[o]]
    /\ seen'      = [o \in Outs |-> IF o \in ps THEN {} ELSE seen[o]]
    /\ buffered'  = [o \in Outs |-> IF o \in ps THEN {} ELSE buffered[o]]

\* VerificationError or BrokerError: main() prints and returns 1.  Whatever
\* is on disk stays, <out>.part and its progress file included.
Reject(o) ==
    /\ EndProcesses({o})
    /\ UNCHANGED <<disk, ledger, delivered, crashes>>

Goto(o, label) == pc' = [pc EXCEPT ![o] = label]

-----------------------------------------------------------------------------
\* main() with --transfer-id t.
Start(o, t, r) ==
    /\ pc[o] = "idle"
    /\ OneAtATime => /\ \A p \in Outs : pc[p] = "idle"
                     /\ progress[o] # None => progress[o].transfer_id = t
    /\ Goto(o, "manifest")
    /\ tid' = [tid EXCEPT ![o] = t]
    /\ redeliver' = [redeliver EXCEPT ![o] = r]
    /\ UNCHANGED <<manifest, done, seen, buffered, disk, ledger, delivered, crashes>>

\* main() without --transfer-id: _resolve_transfer_id goes on only when the
\* LIST answer names exactly one transfer, and gives up otherwise.
StartUnnamed(o, ids, r) == \E t \in ids : ids = {t} /\ Start(o, t, r)

\* broker.get raises BrokerError once its attempts are used up.
BrokerFails(o) ==
    /\ pc[o] \in {"manifest", "signature", "fetch"}
    /\ pc[o] = "fetch" => ~ (0..(manifest[o].total_chunks - 1) \subseteq done[o])
    /\ Reject(o)

GetManifest(o, reply) ==
    /\ pc[o] = "manifest"
    /\ manifest' = [manifest EXCEPT ![o] = reply]
    /\ Goto(o, "signature")
    /\ UNCHANGED <<tid, redeliver, done, seen, buffered, disk, ledger, delivered, crashes>>

\* Mutants: the transfer_id check, and the ledger check, left out.
ManifestVerified_AnyTransfer(o, sig, age) ==
    /\ manifest[o] # None
    /\ sig # None
    /\ SignatureValid(sig, manifest[o])
    /\ redeliver[o] \/ tid[o] \notin LoadLedger

ManifestVerified_NoLedger(o, sig, age) ==
    /\ manifest[o] # None
    /\ sig # None
    /\ SignatureValid(sig, manifest[o])
    /\ manifest[o].transfer_id = tid[o]
    /\ redeliver[o] \/ age <= FRESHNESS_WINDOW_S

\* The checks of _fetch_verified_manifest, and the chunk-list check after it.
ManifestVerified(o, sig, age) ==
    /\ manifest[o] # None
    /\ sig # None
    /\ SignatureValid(sig, manifest[o])
    /\ manifest[o].version = MANIFEST_VERSION
    /\ manifest[o].transfer_id = tid[o]
    /\ \/ redeliver[o]
       \/ /\ age <= FRESHNESS_WINDOW_S
          /\ age >= - CLOCK_SKEW_S
          /\ tid[o] \notin LoadLedger
    /\ DOMAIN manifest[o].chunks = 0..(manifest[o].total_chunks - 1)

GetSignature(o, sig, age) ==
    /\ pc[o] = "signature"
    /\ \/ /\ ManifestVerified(o, sig, age)
          /\ Goto(o, "prepare")
          /\ UNCHANGED <<memory, disk, ledger, delivered, crashes>>
       \/ /\ ~ ManifestVerified(o, sig, age)
          /\ Reject(o)

\* Mutant: the recorded progress is not taken over.
Prepare_StartsOver(o) ==
    /\ pc[o] = "prepare"
    /\ done' = [done EXCEPT ![o] = {}]
    /\ Goto(o, "open")
    /\ UNCHANGED <<tid, redeliver, manifest, seen, buffered, disk, ledger, delivered, crashes>>

\* Resume bookkeeping: take over the recorded progress if there is data for
\* it; otherwise drop the stale partial file.
Prepare(o) ==
    /\ pc[o] = "prepare"
    /\ LET resumed == IF part[o] = None THEN {} ELSE LoadProgress(o) IN
       /\ done' = [done EXCEPT ![o] = resumed]
       /\ part' = [part EXCEPT ![o] = IF resumed = {} THEN None ELSE @]
       /\ dirty' = [dirty EXCEPT ![o] = IF resumed = {} THEN {} ELSE @]
    /\ Goto(o, "open")
    /\ UNCHANGED <<tid, redeliver, manifest, seen, buffered, progress, final,
                   ledger, delivered, crashes>>

\* Mutant: the partial file is not created.
OpenPart_Missing(o) ==
    /\ pc[o] = "open"
    /\ Goto(o, "fetch")
    /\ UNCHANGED <<memory, disk, ledger, delivered, crashes>>

\* open(part_path, "wb").close() if the file does not exist.
OpenPart(o) ==
    /\ pc[o] = "open"
    /\ part' = [part EXCEPT ![o] = IF @ = None THEN EmptyFile ELSE @]
    /\ Goto(o, "fetch")
    /\ UNCHANGED <<memory, dirty, progress, final, ledger, delivered, crashes>>

\* Mutant: any blob is taken for the chunk.
ChunkVerified_Any(m, i, ct) == ct # None

\* Check order of the loop body: SHA-256 against the signed manifest, then
\* the AEAD tag.  (The plaintext length follows from the tag.)
ChunkVerified(m, i, ct) ==
    /\ ct # None
    /\ sha256(ct) = m.chunks[i]
    /\ TagValid(derive_chunk_key(m.ephemeral, m.transfer_id), chunk_nonce(i), ct,
                chunk_aad(m.transfer_id, i, m.total_chunks))

\* One iteration of the chunk loop, up to the progress checkpoint: the first
\* index not done is fetched, verified and written at its offset.  The seek
\* before the write flushes the chunk before; only the last chunk is short
\* enough to stay in the write buffer.
GetChunk(o, i, ct) ==
    LET m == manifest[o]
        synced == Cardinality(done[o] \cup {i}) % FSYNC_EVERY_CHUNKS = 0
    IN
    /\ pc[o] = "fetch"
    /\ i \in 0..(m.total_chunks - 1)
    /\ i \notin done[o]
    /\ 0..(i - 1) \subseteq done[o]
    /\ \/ /\ ChunkVerified(m, i, ct)
          /\ part' = [part EXCEPT ![o] = WriteAt(@, i, ct.plain)]
          /\ done' = [done EXCEPT ![o] = @ \cup {i}]
          /\ dirty' = [dirty EXCEPT ![o] = IF synced THEN {} ELSE @ \cup {i}]
          /\ buffered' = [buffered EXCEPT ![o] =
                IF synced \/ i # m.total_chunks - 1 THEN {} ELSE {i}]
          /\ Goto(o, "save")
          /\ UNCHANGED <<tid, redeliver, manifest, seen, progress, final,
                         ledger, delivered, crashes>>
       \/ /\ ~ ChunkVerified(m, i, ct)
          /\ Reject(o)

\* _save_progress: written to a temporary name, then renamed.
SaveProgress(o) ==
    /\ pc[o] = "save"
    /\ progress' = [progress EXCEPT ![o] = [transfer_id |-> tid[o], done |-> done[o]]]
    /\ Goto(o, "fetch")
    /\ UNCHANGED <<memory, part, dirty, final, ledger, delivered, crashes>>

\* The loop is over: flush, fsync, close, checkpoint once more.
FinishFile(o) ==
    /\ pc[o] = "fetch"
    /\ 0..(manifest[o].total_chunks - 1) \subseteq done[o]
    /\ dirty' = [dirty EXCEPT ![o] = {}]
    /\ buffered' = [buffered EXCEPT ![o] = {}]
    /\ progress' = [progress EXCEPT ![o] = [transfer_id |-> tid[o], done |-> done[o]]]
    /\ Goto(o, "check")
    /\ UNCHANGED <<tid, redeliver, manifest, done, seen, part, final,
                   ledger, delivered, crashes>>

\* Mutant: every chunk was verified, so the whole-file check is skipped.
CheckWholeFile_Skipped(o) ==
    /\ pc[o] = "check"
    /\ Goto(o, "promote")
    /\ UNCHANGED <<memory, disk, ledger, delivered, crashes>>

\* The size and the whole-file SHA-256 against the signed manifest.  (A file
\* with a hole in it has the size, never the hash, of one without.)
WholeFileVerified(f, m) ==
    /\ Cardinality(DOMAIN f) = m.file_size
    /\ sha256(f) = m.plaintext_sha256

CheckWholeFile(o) ==
    /\ pc[o] = "check"
    /\ \/ /\ WholeFileVerified(part[o], manifest[o])
          /\ Goto(o, "promote")
          /\ UNCHANGED <<memory, disk, ledger, delivered, crashes>>
       \/ /\ ~ WholeFileVerified(part[o], manifest[o])
          /\ Reject(o)

\* atomic_promote: fsync, then rename <out>.part to <out>.
Promote(o) ==
    /\ pc[o] = "promote"
    /\ final' = [final EXCEPT ![o] = part[o]]
    /\ part' = [part EXCEPT ![o] = None]
    /\ dirty' = [dirty EXCEPT ![o] = {}]
    /\ delivered' = delivered \cup {tid[o]}
    /\ Goto(o, "cleanup")
    /\ UNCHANGED <<memory, progress, ledger, crashes>>

RemoveProgress(o) ==
    /\ pc[o] = "cleanup"
    /\ progress' = [progress EXCEPT ![o] = None]
    /\ Goto(o, "record")
    /\ UNCHANGED <<memory, part, dirty, final, ledger, delivered, crashes>>

\* Mutant: the ledger is started afresh.
RecordLoad_Afresh(o) ==
    /\ pc[o] = "record"
    /\ seen' = [seen EXCEPT ![o] = {tid[o]}]
    /\ Goto(o, "truncate")
    /\ UNCHANGED <<tid, redeliver, manifest, done, buffered, disk, ledger, delivered, crashes>>

\* _record_completed, in its three effects: load the ledger, ...
RecordLoad(o) ==
    /\ pc[o] = "record"
    /\ seen' = [seen EXCEPT ![o] = LoadLedger \cup {tid[o]}]
    /\ Goto(o, "truncate")
    /\ UNCHANGED <<tid, redeliver, manifest, done, buffered, disk, ledger, delivered, crashes>>

\* ... truncate it by opening it for writing, ...
RecordTruncate(o) ==
    /\ pc[o] = "truncate"
    /\ ledger' = None
    /\ Goto(o, "dump")
    /\ UNCHANGED <<memory, disk, delivered, crashes>>

\* ... and write it back; receive() returns 0.
RecordDump(o) ==
    /\ pc[o] = "dump"
    /\ ledger' = seen[o]
    /\ EndProcesses({o})
    /\ UNCHANGED <<disk, delivered, crashes>>

-----------------------------------------------------------------------------
\* The receiver process is killed: what Python had not flushed may be lost.
Kill(o) ==
    /\ "kill" \in CrashKinds /\ crashes < MaxCrashes
    /\ pc[o] # "idle"
    /\ \E lost \in SUBSET buffered[o] :
         /\ part' = [part EXCEPT ![o] = Without(@, lost)]
         /\ dirty' = [dirty EXCEPT ![o] = @ \ lost]
    /\ EndProcesses({o})
    /\ crashes' = crashes + 1
    /\ UNCHANGED <<progress, final, ledger, delivered>>

\* The machine stops: of what was not fsynced any part may be lost, and the
\* progress files and the ledger, never fsynced, may come back empty.
PowerLoss ==
    /\ "power" \in CrashKinds /\ crashes < MaxCrashes
    /\ \E lost \in [Outs -> SUBSET UNION {dirty[o] : o \in Outs}],
          torn \in SUBSET Outs :
         /\ \A o \in Outs : lost[o] \subseteq dirty[o]
         /\ part' = [o \in Outs |-> Without(part[o], lost[o])]
         /\ progress' = [o \in Outs |-> IF o \in torn THEN None ELSE progress[o]]
    /\ dirty' = [o \in Outs |-> {}]
    /\ EndProcesses(Outs)
    /\ ledger' \in {ledger, None}
    /\ crashes' = crashes + 1
    /\ UNCHANGED <<final, delivered>>

-----------------------------------------------------------------------------
\* What a receiver does without an answer of the broker.
Work(o) ==
    \/ BrokerFails(o)
    \/ Prepare(o) \/ OpenPart(o)
    \/ SaveProgress(o) \/ FinishFile(o)
    \/ CheckWholeFile(o) \/ Promote(o) \/ RemoveProgress(o)
    \/ RecordLoad(o) \/ RecordTruncate(o) \/ RecordDump(o)

Receive(o) ==
    \/ \E m \in ManifestReplies : GetManifest(o, m)
    \/ \E sig \in SignatureReplies, age \in Ages : GetSignature(o, sig, age)
    \/ \E i \in ChunkIndices, ct \in ChunkReplies : GetChunk(o, i, ct)
    \/ Work(o)

Next ==
    \/ \E o \in Outs, r \in BOOLEAN :
         \/ \E t \in TransferIds : Start(o, t, r)
         \/ \E ids \in SUBSET TransferIds : StartUnnamed(o, ids, r)
    \/ \E o \in Outs : Receive(o) \/ Kill(o)
    \/ PowerLoss

Spec == Init /\ [][Next]_vars

-----------------------------------------------------------------------------
\* Fairness.  A running receiver takes its next step: its own ones, and every
\* GET ends, because the socket times out and the attempts are bounded.
\* Somebody re-runs an interrupted download ("re-run to resume").  And the
\* broker is honest again and again: infinitely many of the manifest, of the
\* signature and of the chunk fetches succeed.  No particular chunk is
\* promised, so any run may still fail after a while.
HonestManifest(o) ==
    \E s \in Sent : s.transfer_id = tid[o] /\ GetManifest(o, ManifestOf(s))
HonestSignature(o) ==
    \E s \in Sent : /\ s.transfer_id = tid[o] /\ manifest[o] = ManifestOf(s)
                    /\ GetSignature(o, Sign("sender", manifest[o]), 0)
HonestChunk(o) ==
    \E s \in Sent : /\ manifest[o] = ManifestOf(s)
                    /\ \E i \in DOMAIN s.file : GetChunk(o, i, ChunkCiphertext(s, i))

Fairness ==
    \A o \in Outs :
      /\ WF_vars(Receive(o))
      /\ \A t \in TransferIds : SF_vars(Start(o, t, FALSE))
      /\ SF_vars(HonestManifest(o))
      /\ SF_vars(HonestSignature(o))
      /\ SF_vars(HonestChunk(o))

FairSpec == Spec /\ Fairness

-----------------------------------------------------------------------------
\* The files and the memory of every receiver have their shape, and while
\* the chunk loop and the checks after it run, <out>.part exists.
TypeOK ==
    /\ pc \in [Outs -> {"idle", "manifest", "signature"} \cup Accepted]
    /\ tid \in [Outs -> TransferIds \cup {None}]
    /\ redeliver \in [Outs -> BOOLEAN]
    /\ manifest \in [Outs -> ManifestReplies]
    /\ done \in [Outs -> SUBSET ChunkIndices]
    /\ seen \in [Outs -> SUBSET TransferIds]
    /\ buffered \in [Outs -> SUBSET ChunkIndices]
    /\ part \in [Outs -> Files \cup {None}]
    /\ dirty \in [Outs -> SUBSET ChunkIndices]
    /\ progress \in [Outs -> [transfer_id : TransferIds, done : SUBSET ChunkIndices] \cup {None}]
    /\ DOMAIN final = Outs
    /\ ledger = None \/ ledger \subseteq TransferIds
    /\ delivered \subseteq TransferIds
    /\ crashes \in 0..MaxCrashes
    /\ \A o \in Outs :
         /\ pc[o] # "idle" => tid[o] \in TransferIds
         /\ pc[o] \in {"fetch", "save", "check", "promote"} => part[o] # None

\* Fail closed: whatever is under the final name is, complete and in order,
\* a file the trusted sender sent -- whatever the broker answered, whatever
\* .part file and progress file a run found, and whatever crash came between.
FailClosed ==
    \A o \in Outs : final[o] # None => \E s \in Sent : final[o] = s.file

\* Nothing the broker made up reaches the disk, not even the temporary file:
\* every chunk in <out>.part is, at its own offset, a chunk of a sent file.
PartIsGenuine ==
    \A o \in Outs : part[o] # None =>
        \A i \in DOMAIN part[o] :
            \E s \in Sent : i \in DOMAIN s.file /\ part[o][i] = s.file[i]

\* A file appears under the final name only as the very transfer that this
\* receiver was asked for.
DeliversWhatWasAsked ==
    [][\A o \in Outs : final'[o] # final[o] =>
           \E s \in Sent : s.transfer_id = tid[o] /\ final'[o] = s.file]_vars

\* Replay defence: without --allow-redeliver no transfer is promoted that
\* has been promoted before, under whatever --out path.
AtMostOnce ==
    [][\A o \in Outs : pc[o] = "promote" /\ pc'[o] = "cleanup" /\ ~ redeliver[o]
           => tid[o] \notin delivered]_vars

\* The ledger forgets no delivered transfer, except while a receiver is
\* between promoting its file and having written the ledger back.
LedgerRemembers ==
    (\A o \in Outs : pc[o] \notin Recording) => delivered \subseteq LoadLedger

\* An interrupted download resumes exactly: the chunks its progress file
\* records are in <out>.part, with the content the transfer has.  Promised
\* (OneAtATime) as long as nobody fetches another transfer to the same path in
\* between, which drops the data and keeps the progress, and without crashes,
\* which may lose data that the progress file claims.
ResumesExactly ==
    \A o \in Outs : pc[o] = "idle" /\ progress[o] # None /\ part[o] # None =>
        \E s \in Sent :
            /\ s.transfer_id = progress[o].transfer_id
            /\ \A i \in progress[o].done : i \in DOMAIN part[o] /\ part[o][i] = s.file[i]

\* However often downloads are interrupted, re-running them delivers a file.
EventuallyDelivered == <>(delivered # {})
=============================================================================
