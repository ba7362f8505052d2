# Verifying the two secure file-transfer approaches

TLA+ modules, TLC runs and TLAPS proofs for the programs under `src/`: a file
of any size is carried from a sender to a receiver, either over one mutual-TLS
connection (Approach A, `approach-a-tls-mtls/`) or as an encrypted, signed set
of blobs through an untrusted broker (Approach B, `approach-b-broker-envelope/`).
Both promise the same thing: **the final file name only ever appears with
exactly what the sender sent** (*fail closed*), and an interrupted transfer is
finished by running the same command again (*fail safe*).

## 1. Inventory

| Component | State it keeps | Operations | Talks to |
|---|---|---|---|
| B sender, `sender.py` | state file `.send-state/<tag>.json` (transfer id, ephemeral key, size) | find / load / create / write state, LIST, encrypt and PUT chunks, PUT manifest, PUT signature, remove state | broker, through the client |
| B broker, `broker.py` | storage directory: `<ns>/<name>` and `<name>.tmp`; PUT counter under a lock | PUT, GET, STAT, LIST, one thread per connection; `--fail-after-puts` | clients |
| B client, `broker_client.py` | one socket | `put`, `get`, `stat`, `list` through `_run`: at most 5 attempts, new connection after each failure | broker |
| B receiver, `receiver.py` | `<out>.part`, `<out>.part.progress`, `<out>`, ledger `seen_transfers.json` | resolve id, fetch and verify the manifest, resume, fetch/verify/write/checkpoint chunks, whole-file check, promote, record | broker (never trusted) |
| Envelope, `envelope.py` | none | key derivation, nonce, AAD, manifest bytes, blob names | B sender and receiver |
| A sender, `sender.py` | none on disk | answer the resume offset, hash the prefix, hash and send the rest, end marker, digest | A receiver |
| A receiver, `receiver.py` | `<out>.part`, `<out>` | listen, handshake, claim an offset, receive and hash, verify, promote or delete | A sender |
| Plumbing, `common/util.py` | none | framing, hashing, fsync, atomic promote | all |
| Test proxy, `scripts/tamper_proxy.py` | two sockets, two relay threads, bytes transferred | pass on, flip a byte, cut off, kill the link | both ends of a connection |
| `gen_certs.py`, `gen_keys.py`, shell scripts | key files | run once by hand; tests | not modelled |

What is hard here, and what makes each part correct:

* **B receiver.** The broker may answer anything; the process may die between
  any two of its effects on disk; its progress file and its data file are
  written separately and neither is fsynced with the other; runs for different
  transfers may share an `--out` path and runs for different paths share the
  ledger. Correct: only whole files of the trusted sender are promoted, only
  the one asked for, at most once; progress is never claimed for data that is
  not there; re-running finishes.
* **Broker and client.** A thread outlives the connection its client has given
  up, and the retry runs on another thread: two PUTs of one key share
  `<path>.tmp`. LIST reads one namespace directory after another while PUTs go
  on. Correct: a GET sees whole blobs, an acknowledged PUT stays, a LIST answers
  what each namespace held at some moment of the call, a reply is never taken
  for the reply to another call, every call ends.
* **B sender.** The key material lives in a file so that an upload can be
  resumed; the file is matched to the source by size; two senders may share it.
  Correct: what is published can be downloaded, a nonce is used for one
  plaintext, the key is gone after success, re-running finishes.
* **Approach A.** The offset a partial file claims is trusted by its size; the
  partial file may be of another version of the source or have been damaged by
  a crash; the hash spans sessions; whoever connects first is accepted, and the
  accepted socket has no timeout. Correct: the hash covers what is promoted,
  a bad partial file is not resumed forever, every run ends unless its peer
  falls silent.
* **End to end, Approach B.** An upload may be pieced together from runs that
  saw different versions of the file, from blobs that a dead thread of the
  broker has torn or stored late, and be published when it is already too old.
  Correct: a receiver delivers only what one run of a sender has read from end
  to end; a transfer that is no good is never delivered, and the next one is.
* **Plumbing.** TCP cuts messages anywhere, and the link may die or be reset
  anywhere. Correct: a message cut short is never taken for a shorter one, nor
  a lost connection for the end of the stream; every loss is noticed.

## 2. Modules

| Module | Models | Runs |
|---|---|---|
| `Envelope` | symbolic cryptography of `envelope.py`, the manifest | (extended by the two below) |
| `EnvelopeReceiver` | `receiver.py` of Approach B against an arbitrary broker | `MCReceiver`: `receiver_*` |
| `EnvelopeReceiver_proofs` | theorems about it | |
| `EnvelopeSender` | `sender.py` of Approach B, several processes, an honest broker | `MCSender`: `sender_*` |
| `EnvelopeSender_proofs` | theorems about it | |
| `EnvelopeTransfer` | the sender (EXTENDS `EnvelopeSender`) and receivers (INSTANCE `EnvelopeReceiver`) over one broker and one clock | `MCTransfer`: `transfer_delivers` |
| `EnvelopeTransfer_proofs` | the proof that it implements `FileDelivery` | |
| `Broker` | `broker.py` together with `broker_client.py` | `MCBroker`: `broker_*` |
| `Broker_proofs` | theorems about it, and the proof that it implements `BlobStore` | |
| `TlsTransfer` | both programs of Approach A and their connection | `MCTls`: `tls_transfer` |
| `TlsTransfer_proofs` | theorems about it | |
| `Framing` | `send_frame`, `recv_exact`, `recv_frame` and the proxy of the tests | `MCFraming`: `framing` |
| `Framing_proofs` | theorems about it | |
| `InductionLemmas` | induction and recursion over the natural numbers, in a form the provers can use | |
| `FileDelivery` | abstract: what both approaches promise | implemented by `TlsTransfer` and `EnvelopeTransfer` |
| `BlobStore` | abstract: a store in which a PUT, GET or STAT takes effect at one moment, and a LIST at one moment per namespace | implemented by `Broker` |

The MC modules only define the constants of the runs. An operator whose name
has a suffix (`WriteAt_Off`) is the operator without the suffix with one
plausible mistake in it; no specification uses it. They serve to show that each
property can be violated by a mistake in the code.

### How state and actions correspond to the code

**Envelope.** A hash is a constructor (injective), a ciphertext is the record
of key, nonce, plaintext and AAD it was made from, a signature names its signer.
The ephemeral key stands for the ECDH secret and both public keys. Sizes,
file names, algorithm names and JSON are left out; the chunk-list check
`len(records) == total_chunks` is the check on the domain of `chunks`.

**EnvelopeReceiver.** One process per `--out` path; `pc` names the place in
`receive()`. A file is a partial function from chunk indices to plaintexts, so
that holes and missing tails are visible. Actions, in program order: `Start`
(or `StartUnnamed` through `_resolve_transfer_id`), `GetManifest`,
`GetSignature` (with every check of `_fetch_verified_manifest` and the
chunk-list check), `Prepare` and `OpenPart` (lines 184-200), `GetChunk`
(fetch, hash, tag, seek, write, periodic fsync), `SaveProgress`, `FinishFile`,
`CheckWholeFile`, `Promote`, `RemoveProgress`, and `_record_completed` in three
steps, because another receiver can come between loading, truncating and
writing the ledger. `BrokerFails` is the `BrokerError` of any call. A rejected
run leaves the disk as it is. `buffered` is what Python's write buffer still
holds: `seek` flushes, and a chunk of 1 MiB is bigger than the buffer and goes
straight to the file, so only the last, short chunk can be in it. `dirty` is
what was not fsynced. `Kill` may lose `buffered`; `PowerLoss` may lose `dirty`,
any progress file and the ledger, none of which is fsynced; renames survive.
The broker is the adversary: replies are drawn from all blobs of all sent and
rogue transfers, under any name, plus nothing and corruption.

**Broker.** A name refers to an inode and a descriptor keeps its inode when
the name moves; `open(tmp, "wb")` truncates the inode that is there;
`os.replace` moves whatever the name refers to by then. A blob has two halves,
written and read in separate steps. `thread[t].at` follows `_handle_command`.
A key lies in a namespace (`Namespace`, a number; `sorted` is their order).
`Recv` of a LIST is the `os.listdir` of the root (`Made`: the namespaces some
PUT has made), and each `List` step the `os.listdir` of the next namespace, one
system call, filtered by the prefix and without temporary files (`Listing`);
the last one replies. Other threads may come in between. A prefix is the set of
keys that start with it (`Prefixes`). `_KEY_RE` accepts names that end in
`.tmp`, whose files LIST would hide and other PUTs overwrite; the programs use
`chunk_...`, `manifest` and `manifest.sig`, and `Keys` are keys without that
ending. Seen as a `BlobStore`, a PUT takes effect when its file is renamed, a
GET when the file is opened, a LIST in each namespace when its directory is read.
A client call goes through `Send`, then `Return`, or `Refused`/`TimesOut` and
`Failed` (drop, retry, give up). A command sent on a connection the client has
dropped may or may not have reached the thread, which goes on with it.
`Dies` is the end of the process: `--fail-after-puts` (after storing, before
replying) or `Crash`; `Restart` is `main()`, also for a broker that was not yet
started (`Init`). The broker's machine does not lose power in this module.

**EnvelopeSender.** A transfer id is a number, fresh per `CreateState`; the
ephemeral key goes with it. The state file has an inode, because a sender that
has it open may find it removed by another one. `Put` is one PUT through
`BrokerClient`, atomic and perhaps applied without being acknowledged
(`BrokerFails`). Chunks are read and encrypted whether or not they are
uploaded, as in the code: `read` is what has gone into the plaintext hash,
`records` the manifest's list so far, `used` all that was encrypted. The source
is read chunk by chunk as it is at that moment, so that an edit may come in
between (`EditsWhileReading`); a chunk that is gone by then is read as nothing.
Sizes are counted in chunks.

**EnvelopeTransfer.** Each action of the two programs is the action of its own
module; the composition ties them together. The receiver's `GetManifest`,
`GetSignature` and `GetChunk` get what `store` has under the key they ask for,
and the age of a manifest is the time since `CreateState` made its id. When a
PUT fails for good, its thread on the broker may still be at work
(`GivesUpPut`): it stores the blob at any later time, or dies over it and
leaves it torn (`LatePut`), which is how the races of `Broker` look from
outside. A receiver is started for the id a sender printed last, or for the
only one with a manifest on the broker. `offered` records what a run has read
when it puts the manifest.

**Framing.** Bytes are digits of a small base, and the length prefix is a
number in that base, so that a flipped byte has the effect it has in the code.
A frame is sent in two calls of `sendall`. Each turn of a loop that calls
`recv` is a step, and the block it gets is any that TCP may give it. A socket
that is closed with bytes unread resets its connection, and the other side may
lose what it has not read yet: that is why a relay thread that ends can take
bytes of the other direction with it. The two ends are any programs that send
frames and read what comes; closing covers being done, failing and being killed.

**TlsTransfer.** TLS is external: an authenticated FIFO channel each way. `Cut`
loses everything in flight but a prefix; a tampered record is the same thing.
The receiver accepts one connection (`Connect` if it is the sender's), then
`wrap_socket` runs on both ends, to the end in `Handshake`. `Stranger` is
anybody else who is accepted: he hangs up or is rejected (`link = "cut"`), or
connects and says nothing, and since the accepted socket has no timeout the run
waits for ever (`link = "mute"`, as for a sender whose machine vanishes).
The sender takes the size of the source before it hears the offset (`size`).
A file is a sequence of bytes (0 is what a lost block reads as), frames hold
`CHUNK_SIZE` bytes. The sender hashes from the first byte but sends from the
accepted offset; reading the prefix and the rest stay separate steps so that an
edit of the source can come between. `tail` is what may still be in the
receiver's write buffer, `synced` what was fsynced.

## 3. Runs

State counts are distinct states found by TLC.

| Run | Instance | Checks | States |
|---|---|---|---|
| `receiver_safety` | one path, transfers of 2 and 1 chunks, an impostor reusing the first id, ages -2..3 around a window of 2 and a skew of 1, fsync every 2 chunks, 2 crashes of either kind | `TypeOK`, `FailClosed`, `PartIsGenuine`, `DeliversWhatWasAsked` | 19707 |
| `receiver_sequential` | two paths used one after the other, a transfer of 3 chunks and an empty one, no crash, fairness | `LedgerRemembers`, `AtMostOnce`, `ResumesExactly`, `EventuallyDelivered` | 10000 |
| `broker_reliable` | writer and reader, 2 threads, PUT, GET and LIST, a key in each of 2 namespaces, 2 values under one of them, the prefixes "" and the first namespace, `--fail-after-puts 2`, 1 crash, no timeouts | `TypeOK`, `GetSeesWholeBlobs`, `AckedIsStored`, `ImplementsStore` | 1176324 |
| `broker_retries` | one client that PUTs, GETs and STATs, 2 threads, an illegal key, timeouts, 2 attempts, a broker that may never be started, fairness | `TornOnlyWhileWriting`, `RepliesMatch`, `CallsEnd` | 176997 |
| `tls_transfer` | sources of 3, 2 and no bytes, frames of 2, strangers, 1 crash, 1 edit at any time, 2 cuts (noticed or silent), fairness | `TypeOK`, `HashCoversPart`, `FailClosed`, `ImplementsDelivery`, `EventuallyPromoted`, `ReceiverRunEnds` | 278590 |
| `sender_safety` | two senders, sources of 0, 1, 2 chunks, 2 transfer ids, 1 edit, 1 kill | `TypeOK`, `NonceNeverRepeats`, `PublishedIsDeliverable`, `PublishedKeyIsWiped` | 533198 |
| `transfer_delivers` | one sender, one receiver, two versions of 2 chunks, 2 transfer ids, one fault (an edit at any time, a kill or power loss of the receiver, a late or torn PUT, a tick past the freshness window), fairness | `ImplementsDelivery`, `EventuallyReceived` | 117991 |
| `framing` | bits for bytes, lengths of 2, blocks of 2, two frames one way and one the other, `pass`, a flip in the first and in the second length, a cutoff in a length and in the second frame, fairness | `TypeOK`, `FramesIntact`, `NothingPastCutoff`, `FramesArrive`, `LossIsNoticed` | 288761 |

Why the bounds are enough: two chunks are the least for which one can be missing
while another is there, or take the other's place, three the least for which a
download can stop with one chunk done and two missing; two crashes let a crash
hit the recovery from a crash; two threads let the thread of a given-up attempt
overlap with its retry, or a reader with a writer; two halves of a blob are
what a torn blob needs, and two namespaces what a LIST needs that misses an
earlier PUT and shows a later one; frames of two bytes with a source of three
give a short last frame and a resume offset inside a frame, a shorter source one
that is past its end. In `broker_reliable` states that differ only in the numbers of their inodes count as one (`VIEW Numberless`): no action and
no property looks at a number, only at what is in an inode and who refers to it.
`MAX_ATTEMPTS` is 2 (5 in the code): the second attempt is like each later one.
In `transfer_delivers` one fault is enough to spoil a transfer for good, and
the bound on transfer ids must leave room for one that is not spoilt, so faults
stop when there is none (`MayFail`); without the temporal property the same
model was also run with two faults (3.3 million states), and with three
transfers, with no violation. In `framing` a frame with a payload is longer
than a block and not a multiple of it, and its length, flipped, is that of the
empty frame; before the second length lies a whole frame, which the flip must
leave alone.

Deadlock is checked, except where a model stops on its own: `tls_transfer` (a
receiver waiting for a peer that has gone silent), `sender_safety` and
`transfer_delivers` (no more transfer ids) and `framing` (both ends gone).

### The abstract specifications

`FileDelivery` has two variables, what senders have vouched for and what is
under each final name, and two actions. A sender *offers* a file it has read to
the end: a version of the source, unless the source was edited meanwhile. A
receiver *delivers* one that has been offered. `TlsTransfer!SendTrailer` and
`EnvelopeSender!PutManifest` are offers, the two `Promote` are deliveries, and
every other step of both approaches is a stutter, crashes included.

`BlobStore` is a store in which, between its call and its return, a PUT, GET or
STAT takes effect at one moment, with the reply that the store gives at that
moment. A LIST has one such moment per namespace, in their order, and its reply
is what it saw in each: no snapshot of the whole store. With one writer that has
PUT first `a/x` and then `b/y`, it may answer `b/y` alone. Nothing more can be
promised: `broker.py:110-119` reads directory after directory. The sender's LIST
is of one namespace; the receiver's, of all, only has to find a manifest.
`Broker` implements the store as long as nothing times out (`broker_reliable`;
STAT is in the theorem only), over crashes and restarts; after a timeout it does
not (`broker_torn_get`), which is why `EnvelopeTransfer` does not build on it
and has torn and late blobs instead.

### Disagreements between the code and what is said of it

Each of these runs ends in a counterexample.

| Run | Property | What happens |
|---|---|---|
| `receiver_wedged` | `EventuallyDelivered` | The progress file is saved before the last, short chunk has left the write buffer. After a kill it claims a chunk that is lost; every re-run skips it, fails the whole-file check and keeps both files. `DESIGN.md:96` says the `.part` is deleted then. |
| `receiver_ledger_race` | `LedgerRemembers` | Two receivers that finish together: one ledger entry is lost. |
| `broker_torn_get` | `GetSeesWholeBlobs` | A retried PUT truncates the temporary file the first thread is about to rename. (`broker_retries` shows the damage is temporary while the broker lives, and for a receiver it is a failed check, never a wrong file.) |
| `sender_nonce_reuse` | `NonceNeverRepeats` | The state file is matched to the source by size only. |

Each differs from its passing counterpart by one allowance: the kill, the
second receiver at the same time, the timeouts, the edit that keeps the size.

### What the passing runs take for granted

Some properties hold only under a restriction that a constant or a bound of
the run expresses. Lifting it gives a counterexample; these are limits of the
programs that nothing in the repository denies.

* `OneAtATime` (`receiver_sequential`): one receiver at a time, and an
  interrupted download is finished before another transfer goes to its path.
  The code does not enforce it. Otherwise an interrupted run for another
  transfer (one that has chunks) has removed the partial file and left the first
  transfer's progress file (`receiver.py:190`), and `ResumesExactly` fails.
* No crash in `receiver_sequential`: a kill between promoting and recording
  delivers a transfer twice (`AtMostOnce`), a crash while the ledger is being
  written loses it (`LedgerRemembers`).
* `link = "mute"` in the two liveness properties of `tls_transfer`: the accepted
  socket has no timeout, so a receiver waits forever, in the handshake for a
  stranger who says nothing (`receiver.py:161`), or later for a sender whose
  machine vanishes without a FIN.
* No kill of the sender in `transfer_delivers`: after a kill while the state
  file is being written every re-run raises `JSONDecodeError`, and nothing is
  ever published.
* Another transfer in `transfer_delivers`: `EventuallyReceived` is about the
  file, not about a transfer. An edit while the sender reads, a chunk of an
  older version that a resumed sender takes for its own (`sender.py:133`), a
  torn one, an age past the window (`sender.py:142`) or a receiver killed
  between its progress and its data make one transfer useless for good: the
  sender exits 0 and the receiver refuses it every time. Sending the file again
  makes another one.
* `PublishedIsDeliverable` in `sender_safety` is for a file that is not edited
  while it is read and a broker whose blobs are neither torn nor late. And it is
  not about the age of the manifest (`receiver.py:139-144`): `created_at` is that
  of the state file, so an upload resumed after the freshness window is published,
  exits 0, and is refused by every receiver without `--allow-redeliver`.
* Silence of the server in `framing`: the proxy's socket to its target keeps the
  timeout of 60 s it was made with (`tamper_proxy.py:92`), so in every mode the
  link dies when the server has nothing to say for a minute. `FramesArrive`
  excepts a dead link, and a flipped length, which may ask for bytes that never
  come.
* Sources told apart by their size in `sender_safety`: see `sender_nonce_reuse`.

### Fairness

Liveness runs use `FairSpec` and assume only what the code and its users do.
A running program takes its next step (weak fairness): it never waits for
anything but the broker, whose calls end because sockets time out after 60 s
and attempts are bounded, or for the other end of the connection.
A user re-runs an interrupted command, which is what the README tells them to
do. The environment is good infinitely often, not forever: `EnvelopeReceiver`
assumes that manifest, signature and chunk fetches *of some chunk* succeed
again and again while they keep being tried (strong fairness), `EnvelopeTransfer`
that each kind of call of both programs does, and that the sender is re-run
until a file has arrived, `TlsTransfer` that both programs meet again and
again, whoever else connects in between. No particular chunk and no uninterrupted run is promised, so that
delivery rests on resuming. In `Broker` nobody has to call, to restart the
broker or to break a connection, and still every call ends. In `Framing` the
ends finish the frame they are sending and read what comes, and the proxy's
threads run; nobody has to send another frame or to close.

## 4. Proofs

Each theorem is about the specification for every value of its constants: any
number of programs, files, keys, values, edits, crashes and attempts. What a
theorem assumes of the constants is the named `ASSUME` of its module, which says
what they are (counts, sets, and that `None` is no blob and no file), and, where
the property needs one, a hypothesis that is named and part of the statement.
Every inductive invariant was first checked by TLC on the instance of a run.

| Theorem | States | Under |
|---|---|---|
| `TypeCorrect`, `FailsClosed`, `PartGenuine`, `DeliversTheRequested` | `EnvelopeReceiver`: `TypeOK`, `FailClosed`, `PartIsGenuine`, `DeliversWhatWasAsked` | |
| `LedgerAlwaysRemembers`, `DeliversAtMostOnce` | `LedgerRemembers`, `AtMostOnce` | `Sequential` |
| `AlwaysResumesExactly` | `ResumesExactly` | `Sequential`, `DistinctIds` |
| `SenderTypeCorrect`, `PublishedKeysAreWiped` | `EnvelopeSender`: `TypeOK`, `PublishedKeyIsWiped` | |
| `NoncesNeverRepeat`, `PublishedIsAlwaysDeliverable` | `NonceNeverRepeats`, `PublishedIsDeliverable` | `ToldApartBySize` |
| `TransferImplementsDelivery` | `EnvelopeTransfer` implements `FileDelivery` | |
| `BrokerTypeCorrect`, `RepliesAlwaysMatch` | `Broker`: `TypeOK`, `RepliesMatch` | |
| `TornOnlyForAWhile` | `TornOnlyWhileWriting` | `NobodyDies`, `OneBlobPerKey` |
| `GetsAlwaysSeeWholeBlobs`, `AckedIsAlwaysStored` | `GetSeesWholeBlobs`, `AckedIsStored` | `Reliable`, `SingleWriter` |
| `BrokerImplementsStore` | `Broker` implements `BlobStore` (LIST per namespace) | `Reliable`, `SingleWriter` |
| `TlsTypeCorrect`, `HashCovers`, `TlsFailsClosed` | `TlsTransfer`: `TypeOK`, `HashCoversPart`, `FailClosed` | |
| `TlsImplementsDelivery` | `TlsTransfer` implements `FileDelivery` | |
| `FramingTypeCorrect`, `Intact`, `CutoffHolds` | `Framing`: `TypeOK`, `FramesIntact`, `NothingPastCutoff` | |

The hypotheses are the restrictions of the runs, said once and for all sizes:

* `Sequential`: one receiver at a time, no crash, and nobody fetches another
  transfer to a path whose download is unfinished. The code enforces none of
  the three; without the last one `receiver.py:190` drops the data and keeps the
  progress, and `AlwaysResumesExactly` would be false. `DistinctIds`: a transfer
  id is that of one transfer.
* `ToldApartBySize`: no two versions of the file have the same size, and nobody
  edits it while it is read. `sender_nonce_reuse` shows what happens otherwise.
* `Reliable`: no attempt times out. `SingleWriter`: one client PUTs, as in the
  repository's scripts, which run one sender at a time; any number of others GET, STAT and LIST.
  `broker_torn_get` shows what a timeout does.
* `NobodyDies`: the broker is not killed and runs without `--fail-after-puts`;
  if it dies when one attempt has renamed the file another one is still filling,
  the file stays torn. `OneBlobPerKey`: whoever PUTs a key PUTs the
  same blob, as retries do.

### Approach B: the receiver

The inductive invariant of the first four theorems is
`IInv == TypeOK /\ ChecksHold /\ PartIsGenuine /\ FailClosed`. `FailClosed` is
not inductive: the step that promotes has to know that the whole-file check was
made, on this very partial file, against a manifest that was verified.
`ChecksHold` says so for every place in `receive()`: from `prepare` on the
manifest is the one of a sent transfer with the requested id, and at `promote`
the partial file has its hash. That nothing comes between the check and the
promotion is where "one receiver per `--out` path" is used. Two lemmas carry
the cryptographic argument: what passes the manifest checks is the manifest of
a sent transfer, and what passes the chunk checks against it is that transfer's
chunk.

For `LedgerRemembers` and `AtMostOnce` it has to be said what is true while
the ledger is behind, or truncated: `LedgerKept` follows what
`_record_completed` carries in memory through its three steps, and
`NotYetDelivered` says that the ledger check made before the download is still
good at the rename. Both rest on `OnlyOne`, that no other receiver is at work.
`ResumesExactly` needs the same of the progress file (`ProgressKept`) and of
what a run counts as done (`DoneKept`).

### Approach B: the sender

`PublishedKeyIsWiped` follows from `KeyIsFresh`: no state file, on disk or
about to be written, holds the key of a published transfer, and a new one gets
a new id.

The other two theorems need to know which bytes belong to a transfer. The
invariant `HasContent` says that there is an assignment of versions of the file
to transfer ids such that (`Content`)

* the size in a state file, and that of a run at work on the transfer, is the
  size of its version (`Sized`);
* all that was encrypted is chunks of it (`Encrypted`), and all that is on the
  broker is the chunk, manifest or signature due under that key (`Stored`);
* the digest and the chunk list a run has in hand are those of a prefix of it
  (`Hashed`), the chunks before that are on the broker (`Uploaded`), and a
  published transfer is all there (`Complete`).

What a receiver then accepts of a published transfer follows from `Complete`:
signature, version, id, list of chunks, hash and tag of each chunk, size and hash
of the whole; only its age is not spoken of.

The assignment is found when a transfer is created, and changes for no transfer
that exists. Without `ToldApartBySize` there is none: a resumed run may read
another version.

### Approach B: end to end

`TransferImplementsDelivery` has no hypotheses: whatever is edited, torn, late,
stale or crashed, a final name only ever gets the whole of what some run of a
sender has read to the end. The invariant `Chain` follows the bytes from one
program to the other: what a sender has read is a prefix of the file as it is,
unless it was edited under its hands (`SendersHonest`); a signature on the
broker, or on its way there in a late PUT, is of a manifest that was offered
(`BlobsVouched`); so is the manifest a receiver has accepted, and at the rename
the partial file has its digest (`ReceiversVouched`). That the chunks are
genuine does not enter: they are tied to the manifest by the digest of the whole.

### Approach B: the broker

Three invariants, each on top of the one before.

`Shape`, without hypotheses, is types and the protocol of one connection: what
each place of `_handle_command` has in its variables, at most one command or one
reply on a connection, and `Conversation`: no two clients share a connection,
and the call of a client is on the line, being served, or answered. That is
`RepliesMatch`. That a temporary file can always be created (there is an inode
left) is a counting argument over names and descriptors (`SomeUnused`).

`Intact` is for `TornOnlyWhileWriting`: no two names have the same inode, a
thread writes to an inode of its own key or to one that has no name any more,
and a half that is missing from a named inode has a thread that still has to
write it. The property by itself is about final names only, and a rename may
bring any file under one: the invariant has to be about temporary names too.

`Sound` is for the store. The temporary file a writer is filling is the one
under the name, has the halves it has written, and no reader has it open; a
reader has the whole of a blob open, to which nobody writes, although its name
may have moved on (`ReaderSafe`, `WriterSafe`); replies on the line are true
(`ReplySafe`), and nothing is acknowledged under the key of a PUT at work. It
holds over every crash. For the refinement every action is shown to be one step
of `BlobStore` or a stutter: `Replace` is where a PUT takes effect, the opening
of the file (or its absence) in `Recv` where a GET does, each step of `List`
where a LIST sees a namespace (`RefineList`), and the answer a client has yet to
read is worked out from where its thread is.

### Approach A

`FailClosed` needs the history of the step that promotes, and here it
spans both programs. `HashCoversPart` turns the comparison with the digest into
a statement about the partial file. `TrailersVouched` says that a digest on the
wire or in the receiver is that of bytes the sender read to the end;
`ReadsSource`, that what the sender has read so far is a prefix of the source
unless it was edited meanwhile, so that at the end of the source it is the
source. `Ordered` is the protocol: only a digest follows the end marker, nothing
follows an end marker while the connection is up, and the first message is the
header; without it the receiver could take another message for the trailer.
`PartShape` makes sure that a crash cuts nothing off that was fsynced. `Typed`
replaces `TypeOK`, whose parts on lengths are consequences of the others.

The refinement needs nothing more: at the end of the source `ReadsSource` makes
the trailer an offer, and at the promotion `HashCoversPart` and
`TrailersVouched` name the offer that is delivered.

### Plumbing

The theorems about `Framing` hold for bytes of any size, a length prefix of any
length, frames and streams of any length, and any place to flip or to cut. They
have two halves.

What a stream of bytes means is proved by induction over data. The induction
theorems of the library take a predicate as a parameter, which the provers
cannot instantiate; `InductionLemmas` derives from the well-foundedness of `<`
the same for sets (`SetInduction`: what contains 0 and, with a number, the next
one, contains all) and that a function may be defined by recursion
(`Recursion`). From that, for the recursive functions of `Framing`: a length is
read as it was written (`UnpackOfPack`), and whatever bytes are read for a
length, its packing is those bytes (`PackOfUnpack`, which is what is needed
where the length has been flipped); a stream has its frames where they belong
(`NextFrame`, `StreamStarts`); and streams that agree as far as both go are of
frames that agree as far as both go (`Parse`): no frame can be mistaken for a
shorter or a longer one.

How bytes get through is an ordinary invariant, `FlowInv`. For each direction:
the bytes of the frames received, those of the frame being read and those on
the way to the far end are, in this order, the first bytes of what the near end
was given to send, but for the flipped one (`Follows`); while the link is up
there are as many of them as the proxy has transferred, and what is on the way
to the proxy comes next (`OnTheWay`); what `send_frame` has yet to hand over is
the end of the stream (`Sending`); and `recv_exact` lacks at least one byte of
a length or of a payload that fits in a frame (`Reading`). Everything that is
lost, by a reset, by a closed socket or with the link, is an end of what is on
the way, which is why `Follows` survives it (`LosesKeeps`). None of the three
properties is inductive: they say nothing of bytes that are not frames yet.

`FramingAssumption` says that there are at least two values of a byte, that a
payload is bytes and fits its prefix, and that `--at` is a byte offset; a
negative one, which `argparse` lets pass, is not one.

### Only model-checked

All liveness properties (`EventuallyDelivered`, `CallsEnd`, `EventuallyPromoted`,
`ReceiverRunEnds`, `EventuallyReceived`, `FramesArrive`, `LossIsNoticed`):
fairness is beyond the prover. Every other property of a passing run is a
theorem. The properties of the four runs that end in a counterexample are
theorems under the hypotheses that exclude it, except `EventuallyDelivered`.

## 5. Not modelled

* Cryptographic primitives and TLS are ideal.
* `gen_certs.py` and `gen_keys.py`: straight-line scripts that are run once and
  write files, with nothing to branch on and nobody to interleave with. Ends
  whose credentials do not match appear as failing handshakes in `TlsTransfer`
  and as impostors in `EnvelopeReceiver`. Key loading, the shell scripts,
  messages and throughput have no behaviour to check.
* Directory durability: a rename survives a power loss.
* Two receivers on one `--out` path at the same time.
* `TlsTransfer` has messages, not bytes: what a message is made of is in
  `Framing`, for connections that are not encrypted; inside TLS a flipped byte
  ends the connection.
* Composition of `Broker` itself with the two programs: its files, descriptors
  and threads are too many states beside theirs. `EnvelopeTransfer` has what
  they amount to for the programs.

## 6. Plan

1. `EnvelopeReceiver` with two receivers on one path: what is left of
   `FailClosed` then.
2. A run of `Broker` with writers of different blobs under one key, and what
   its readers may see.
