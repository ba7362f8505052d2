------------------------------ MODULE Envelope ------------------------------
(***************************************************************************)
(* The cryptographic envelope of Approach B (envelope.py), as the sender   *)
(* and the receiver share it.  Primitives are ideal and symbolic: a hash   *)
(* is an injective constructor, a ciphertext is a record of everything it  *)
(* was computed from, a signature names its signer and what was signed.    *)
(*                                                                         *)
(* A transfer is what one sender run has in hand: its transfer_id, its     *)
(* ephemeral key and the file, a function from chunk indices 0..n-1 to     *)
(* plaintext chunks.                                                       *)
(***************************************************************************)
EXTENDS Naturals, FiniteSets

CONSTANT None       \* Python's None: an absent file, a missing blob

MANIFEST_VERSION == "cmpe272-approach-b/v1"

sha256(x) == <<"sha256", x>>

\* HKDF over the ECDH secret, salted with the transfer_id.
derive_chunk_key(ephemeral, transfer_id) == <<ephemeral, transfer_id>>

\* Four zero bytes, then the chunk index.
chunk_nonce(index) == <<0, index>>

chunk_aad(transfer_id, index, total_chunks) == <<transfer_id, index, total_chunks>>

\* ChaCha20-Poly1305: the ciphertext is bound to key, nonce and AAD, ...
Encrypt(key, nonce, plain, aad) ==
    [key |-> key, nonce |-> nonce, plain |-> plain, aad |-> aad]

\* ... and decryption raises InvalidTag unless all three are the same.
TagValid(key, nonce, ct, aad) ==
    ct.key = key /\ ct.nonce = nonce /\ ct.aad = aad

\* What a corrupted or half-written blob is: no key opens it.
Corrupt == Encrypt(None, None, None, None)

Sign(signer, m) == [signer |-> signer, signed |-> m]

\* Verification uses the pre-distributed key of the trusted sender.
SignatureValid(sig, m) == sig = Sign("sender", m)

-----------------------------------------------------------------------------
\* What read() returns past the end of a file.
NoBytes == <<>>

\* The manifest (created_at is left to the receiver's age check; names and the
\* lengths of single chunks are left out, sizes are counted in chunks).
Manifest(transfer_id, ephemeral, file_size, plaintext_hash, records) ==
    [version          |-> MANIFEST_VERSION,
     transfer_id      |-> transfer_id,
     ephemeral        |-> ephemeral,
     file_size        |-> file_size,
     total_chunks     |-> file_size,
     plaintext_sha256 |-> plaintext_hash,
     chunks           |-> records]

\* ceil(file_size / CHUNK_SIZE): one chunk per index, none for an empty file.
total_chunks(s) == Cardinality(DOMAIN s.file)

\* What becomes of a transfer whose file nobody edits while it is read.
ChunkCiphertext(s, i) ==
    Encrypt(derive_chunk_key(s.ephemeral, s.transfer_id),
            chunk_nonce(i),
            s.file[i],
            chunk_aad(s.transfer_id, i, total_chunks(s)))

ManifestOf(s) ==
    Manifest(s.transfer_id, s.ephemeral, total_chunks(s), sha256(s.file),
             [i \in DOMAIN s.file |-> sha256(ChunkCiphertext(s, i))])
=============================================================================
