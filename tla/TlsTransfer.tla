----------------------------- MODULE TlsTransfer -----------------------------
(***************************************************************************)
(* Approach A (approach-a-tls-mtls): sender.py streams one file to         *)
(* receiver.py over a mutual-TLS connection, again and again until the     *)
(* file is under its final name.                                           *)
(*                                                                         *)
(* TLS is external: the connection is a FIFO channel each way that nobody  *)
(* can read, forge or reorder; tampering shows as a lost connection.       *)
(* A file is a sequence of bytes, a hash the injective image of what was   *)
(* hashed.                                                                 *)
(***************************************************************************)
EXTENDS Integers, Sequences

CONSTANTS
    None,
    Versions,           \* what the source file holds, now or after an edit
    CHUNK_SIZE,         \* bytes per frame
    SilentLoss,         \* TRUE: the receiver's peer may go silent without a FIN
    CrashKinds,         \* subset of {"kill", "power"}: crashes of the receiver
    MaxEdits, MaxCrashes, MaxCuts   \* bounds on edits, crashes, lost connections

VARIABLES
    source,             \* --file
    spc, size, accepted, pos, read,       \* the sender: where it is, file_size, the
                                \* resume offset, bytes read, what it hashed
    rpc, claimed, total, hashed, digest,  \* the receiver and its hash
    part, tail, synced, final,  \* <out>.part: bytes, unflushed and fsynced count
    link, toS, toR,     \* the connection and what is in flight
    offered, edited,    \* history: what the sender vouched for with a trailer; was
                        \* the source edited while the sender was streaming it
    edits, crashes, cuts

sender   == <<spc, size, accepted, pos, read>>
receiver == <<rpc, claimed, total, hashed, digest>>
disk     == <<part, tail, synced, final>>
channel  == <<link, toS, toR>>
history  == <<offered, edited>>
bounds   == <<edits, crashes, cuts>>
vars     == <<source, sender, receiver, disk, channel, history, bounds>>

ASSUME TlsAssumption ==
    /\ Versions \subseteq Seq(Nat)
    /\ None \notin Seq(Nat)
    /\ CHUNK_SIZE \in Nat \ {0}
    /\ SilentLoss \in BOOLEAN
    /\ CrashKinds \subseteq {"kill", "power"}
    /\ MaxEdits \in Nat /\ MaxCrashes \in Nat /\ MaxCuts \in Nat

sha256(bytes) == <<"sha256", bytes>>

Init ==
    /\ source \in Versions
    /\ spc = "idle" /\ size = 0 /\ accepted = 0 /\ pos = 0 /\ read = <<>>
    /\ rpc = "idle" /\ claimed = 0 /\ total = 0 /\ hashed = <<>> /\ digest = None
    /\ part = None /\ tail = 0 /\ synced = 0 /\ final = None
    /\ link = "none" /\ toS = <<>> /\ toR = <<>>
    /\ offered = {} /\ edited = FALSE
    /\ edits = 0 /\ crashes = 0 /\ cuts = 0

\* The run of a program ends and its memory is gone.  The other end, if it
\* is still there, reads what is in flight and then finds the end of it.
SenderEnds ==
    /\ spc' = "idle" /\ size' = 0 /\ accepted' = 0 /\ pos' = 0 /\ read' = <<>>
    /\ link' = IF rpc \in {"idle", "listen"} THEN "none" ELSE "cut"

ReceiverEnds ==
    /\ rpc' = "idle" /\ claimed' = 0 /\ total' = 0 /\ hashed' = <<>> /\ digest' = None
    /\ link' = IF spc = "idle" THEN "none" ELSE "cut"
    /\ toS' = IF spc = "idle" THEN <<>> ELSE toS
    /\ toR' = <<>>

-----------------------------------------------------------------------------
\* Receiver main(): listens for one connection, ...
Listen ==
    /\ rpc = "idle" /\ link = "none"
    /\ rpc' = "listen"
    /\ UNCHANGED <<source, sender, claimed, total, hashed, digest, disk, channel, history,
                   bounds>>

\* ... and gives up after 120 seconds.
AcceptTimeout ==
    /\ rpc = "listen"
    /\ rpc' = "idle"
    /\ UNCHANGED <<source, sender, claimed, total, hashed, digest, disk, channel, history,
                   bounds>>

\* Sender main() connects, and the receiver accepts.
Connect ==
    /\ rpc = "listen" /\ spc = "idle" /\ link = "none"
    /\ rpc' = "handshake" /\ spc' = "handshake"
    /\ link' = "up" /\ toS' = <<>> /\ toR' = <<>>
    /\ UNCHANGED <<source, size, accepted, pos, read, claimed, total, hashed, digest, disk,
                   history, bounds>>

\* Somebody else connects: he hangs up or fails to authenticate, or he says
\* nothing, and the accepted socket has no timeout.
Stranger ==
    /\ rpc = "listen"
    /\ rpc' = "handshake"
    /\ \/ link' = "cut"
       \/ SilentLoss /\ link' = "mute"
    /\ UNCHANGED <<source, sender, claimed, total, hashed, digest, disk, toS, toR, history,
                   bounds>>

\* Both ends have authenticated each other.  The size of the source is taken
\* here, before anything is heard from the receiver.
Handshake ==
    /\ rpc = "handshake" /\ spc = "handshake" /\ link = "up"
    /\ rpc' = "claim" /\ spc' = "claim"
    /\ size' = Len(source)
    /\ UNCHANGED <<source, accepted, pos, read, claimed, total, hashed, digest, disk,
                   channel, history, bounds>>

\* receive(): the size of the partial file is the offset it asks for.
Claim ==
    LET offset == IF part = None THEN 0 ELSE Len(part) IN
    /\ rpc = "claim"
    /\ claimed' = offset
    /\ toS' = Append(toS, offset)
    /\ rpc' = "header"
    /\ UNCHANGED <<source, sender, total, hashed, digest, disk, link, toR, history, bounds>>

\* stream(): an offset beyond the size the source had is not accepted.
Accepts(offset) == 0 <= offset /\ offset <= size

Header ==
    LET offset == IF Accepts(Head(toS)) THEN Head(toS) ELSE 0 IN
    /\ spc = "claim" /\ toS # <<>> /\ link = "up"
    /\ accepted' = offset
    /\ toS' = Tail(toS)
    /\ toR' = Append(toR, [kind |-> "header", total |-> size, accepted |-> offset])
    /\ spc' = "stream"
    /\ edited' = FALSE
    /\ UNCHANGED <<source, size, pos, read, receiver, disk, link, offered, bounds>>

\* Mutant: the prefix that is on disk is not hashed.
StartStream_NoPrefix ==
    LET m == Head(toR) IN
    /\ rpc = "header" /\ toR # <<>>
    /\ total' = m.total
    /\ hashed' = <<>>
    /\ part' = IF m.accepted # claimed \/ claimed = 0 THEN <<>> ELSE part
    /\ synced' = IF m.accepted # claimed THEN 0 ELSE synced
    /\ tail' = 0
    /\ rpc' = "stream" /\ toR' = Tail(toR)
    /\ UNCHANGED <<source, sender, claimed, digest, final, link, toS, history, bounds>>

\* The header arrives.  If the sender took another offset the partial file
\* is removed; otherwise its bytes are hashed.  Then it is opened, "wb" when
\* starting from zero.
StartStream ==
    LET m == Head(toR)
        resumed == m.accepted = claimed /\ claimed # 0 IN
    /\ rpc = "header" /\ toR # <<>>
    /\ total' = m.total
    /\ hashed' = IF resumed THEN part ELSE <<>>
    /\ part' = IF resumed THEN part ELSE <<>>
    /\ synced' = IF resumed THEN synced ELSE 0
    /\ tail' = 0
    /\ rpc' = "stream" /\ toR' = Tail(toR)
    /\ UNCHANGED <<source, sender, claimed, digest, final, link, toS, history, bounds>>

\* Mutant: the sender takes a block that is not full for the last one.
NextBlock_StopsEarly ==
    IF pos + CHUNK_SIZE <= Len(source) THEN SubSeq(source, pos + 1, pos + CHUNK_SIZE)
    ELSE <<>>

\* The sender's next f.read(): up to CHUNK_SIZE bytes, but not across the
\* resume offset.
NextBlock ==
    LET limit == IF pos < accepted /\ accepted < pos + CHUNK_SIZE
                 THEN accepted ELSE pos + CHUNK_SIZE
    IN  SubSeq(source, pos + 1, IF limit < Len(source) THEN limit ELSE Len(source))

\* Mutant: the sender hashes only what it sends.
SendBlock_HashesSent ==
    /\ spc = "stream" /\ link = "up"
    /\ NextBlock # <<>>
    /\ read' = IF pos < accepted THEN read ELSE read \o NextBlock
    /\ pos' = pos + Len(NextBlock)
    /\ toR' = IF pos < accepted THEN toR
              ELSE Append(toR, [kind |-> "chunk", data |-> NextBlock])
    /\ UNCHANGED <<source, spc, size, accepted, receiver, disk, link, toS, history, bounds>>

\* Bytes the receiver has are hashed only, the others hashed and sent.  A
\* source that ends before the resume offset is an IOError.
SendBlock ==
    /\ spc = "stream" /\ link = "up"
    /\ \/ /\ NextBlock # <<>>
          /\ read' = read \o NextBlock
          /\ pos' = pos + Len(NextBlock)
          /\ toR' = IF pos < accepted THEN toR
                    ELSE Append(toR, [kind |-> "chunk", data |-> NextBlock])
          /\ UNCHANGED <<spc, size, accepted, link>>
       \/ /\ NextBlock = <<>> /\ pos < accepted
          /\ SenderEnds
          /\ toR' = toR
    /\ UNCHANGED <<source, receiver, disk, toS, history, bounds>>

\* The end-of-stream marker and the digest trailer; the sender is done and
\* exits 0, whatever becomes of them.
SendTrailer ==
    /\ spc = "stream" /\ link = "up"
    /\ NextBlock = <<>> /\ pos >= accepted
    /\ toR' = toR \o <<[kind |-> "eos"], [kind |-> "digest", digest |-> sha256(read)]>>
    /\ offered' = offered \cup {[bytes |-> read, edited |-> edited]}
    /\ SenderEnds
    /\ UNCHANGED <<source, receiver, disk, toS, edited, bounds>>

\* A chunk frame is written and hashed.
ReceiveChunk ==
    LET m == Head(toR) IN
    /\ rpc = "stream" /\ toR # <<>> /\ m.kind = "chunk"
    /\ part' = part \o m.data
    /\ hashed' = hashed \o m.data
    /\ tail' = Len(m.data)
    /\ toR' = Tail(toR)
    /\ UNCHANGED <<source, sender, rpc, claimed, total, digest, synced, final, link, toS,
                   history, bounds>>

\* The empty frame ends the loop.
ReceiveEos ==
    /\ rpc = "stream" /\ toR # <<>> /\ Head(toR).kind = "eos"
    /\ rpc' = "trailer" /\ toR' = Tail(toR)
    /\ UNCHANGED <<source, sender, claimed, total, hashed, digest, disk, link, toS, history,
                   bounds>>

\* The trailer; closing the file flushes it.
ReceiveTrailer ==
    /\ rpc = "trailer" /\ toR # <<>>
    /\ digest' = Head(toR).digest
    /\ tail' = 0
    /\ rpc' = "verify" /\ toR' = Tail(toR)
    /\ UNCHANGED <<source, sender, claimed, total, hashed, part, synced, final, link, toS,
                   history, bounds>>

\* Mutant: only the size is checked.
Verified_SizeOnly == Len(hashed) = total

Verified == Len(hashed) = total /\ sha256(hashed) = digest

\* Both checks hold: fsync and rename.
Promote ==
    /\ rpc = "verify" /\ Verified
    /\ final' = part
    /\ part' = None /\ synced' = 0 /\ tail' = 0
    /\ ReceiverEnds
    /\ UNCHANGED <<source, sender, history, bounds>>

\* Mutant: the bad partial file is kept for the next run.
Quarantine_Keeps ==
    /\ rpc = "verify" /\ ~ Verified
    /\ ReceiverEnds
    /\ UNCHANGED <<source, sender, disk, history, bounds>>

\* Otherwise the partial file is deleted: never leave a bad one on disk.
Quarantine ==
    /\ rpc = "verify" /\ ~ Verified
    /\ part' = None /\ synced' = 0 /\ tail' = 0
    /\ ReceiverEnds
    /\ UNCHANGED <<source, sender, final, history, bounds>>

-----------------------------------------------------------------------------
\* The connection is lost: of what is in flight only a prefix arrives.
Cut ==
    /\ link \in {"up", "cut"} /\ cuts < MaxCuts
    /\ link' = "cut"
    /\ \E n \in 0..Len(toR) : toR' = SubSeq(toR, 1, n)
    /\ toS' = <<>>
    /\ cuts' = cuts + 1
    /\ UNCHANGED <<source, sender, receiver, disk, history, edits, crashes>>

\* The machine of the sender vanishes: nothing tells the receiver.
Vanish ==
    /\ SilentLoss /\ link = "up" /\ spc # "idle" /\ cuts < MaxCuts
    /\ spc' = "idle" /\ size' = 0 /\ accepted' = 0 /\ pos' = 0 /\ read' = <<>>
    /\ link' = "mute"
    /\ cuts' = cuts + 1
    /\ UNCHANGED <<source, receiver, disk, toS, toR, history, edits, crashes>>

\* Sending or receiving raises: the sender exits 1.
SenderLoses ==
    /\ spc # "idle" /\ link = "cut"
    /\ SenderEnds
    /\ UNCHANGED <<source, receiver, disk, toS, toR, history, bounds>>

\* Mutant: a short read during the stream is read again, forever.
ReceiverLoses_Spins ==
    /\ link = "cut" /\ toR = <<>>
    /\ \/ /\ rpc \in {"handshake", "claim", "header"}
          /\ ReceiverEnds
          /\ UNCHANGED <<source, sender, disk, history, bounds>>
       \/ /\ rpc \in {"stream", "trailer"}
          /\ UNCHANGED vars

\* recv_exact raises: before the stream nothing has changed on disk; in the
\* stream the partial file is flushed, fsynced and kept.
ReceiverLoses ==
    /\ link = "cut" /\ toR = <<>>
    /\ \/ rpc \in {"handshake", "claim", "header"} /\ UNCHANGED disk
       \/ /\ rpc \in {"stream", "trailer"}
          /\ synced' = Len(part) /\ tail' = 0
          /\ UNCHANGED <<part, final>>
    /\ ReceiverEnds
    /\ UNCHANGED <<source, sender, history, bounds>>

\* The receiver is killed: a suffix of the last write may be lost.
Kill ==
    /\ "kill" \in CrashKinds /\ crashes < MaxCrashes /\ rpc # "idle"
    /\ \E n \in 0..tail :
            part' = IF part = None THEN None ELSE SubSeq(part, 1, Len(part) - n)
    /\ tail' = 0
    /\ ReceiverEnds
    /\ crashes' = crashes + 1
    /\ UNCHANGED <<source, sender, synced, final, history, edits, cuts>>

\* The receiver's machine stops: the file may be shorter, and what was not
\* fsynced may read as zeros.
PowerLoss ==
    /\ "power" \in CrashKinds /\ crashes < MaxCrashes
    /\ \/ part = None /\ part' = None
       \/ /\ part # None
          /\ \E n \in synced..Len(part) : \E zeros \in SUBSET ((synced + 1)..n) :
                part' = [i \in 1..n |-> IF i \in zeros THEN 0 ELSE part[i]]
    /\ tail' = 0
    /\ ReceiverEnds
    /\ crashes' = crashes + 1
    /\ UNCHANGED <<source, sender, synced, final, history, edits, cuts>>

\* Somebody edits the source, or another file is sent next: at any time.
Edit ==
    /\ edits < MaxEdits
    /\ source' \in Versions \ {source}
    /\ edited' = (edited \/ spc = "stream")
    /\ edits' = edits + 1
    /\ UNCHANGED <<sender, receiver, disk, channel, offered, crashes, cuts>>

-----------------------------------------------------------------------------
SenderStep == Header \/ SendBlock \/ SendTrailer \/ SenderLoses
ReceiverStep ==
    \/ Claim \/ StartStream \/ ReceiveChunk \/ ReceiveEos \/ ReceiveTrailer
    \/ Promote \/ Quarantine \/ ReceiverLoses

Next ==
    \/ Listen \/ AcceptTimeout \/ Connect \/ Stranger \/ Handshake
    \/ SenderStep \/ ReceiverStep
    \/ Cut \/ Vanish \/ Kill \/ PowerLoss \/ Edit

Spec == Init /\ [][Next]_vars

\* Both programs run on, the accept times out, and somebody keeps re-running
\* both ("just re-run both commands") until they meet: strangers do not take
\* every connection.
Fairness ==
    /\ WF_vars(SenderStep) /\ WF_vars(ReceiverStep)
    /\ WF_vars(Listen) /\ WF_vars(AcceptTimeout) /\ WF_vars(Handshake)
    /\ SF_vars(Connect)

FairSpec == Spec /\ Fairness

-----------------------------------------------------------------------------
\* Offsets, files and channels have their shape.
TypeOK ==
    /\ source \in Versions
    /\ spc \in {"idle", "handshake", "claim", "stream"}
    /\ rpc \in {"idle", "listen", "handshake", "claim", "header", "stream", "trailer", "verify"}
    /\ size \in Nat /\ accepted \in Nat /\ pos \in Nat /\ claimed \in Nat /\ total \in Nat
    /\ Len(read) = pos
    /\ rpc \in {"stream", "trailer", "verify"} => part # None
    /\ part # None => synced + tail <= Len(part)
    /\ link \in {"none", "up", "cut", "mute"}
    /\ link = "none" => toR = <<>> /\ spc = "idle" /\ rpc \in {"idle", "listen"}
    /\ crashes \in 0..MaxCrashes /\ edits \in 0..MaxEdits /\ cuts \in 0..MaxCuts

\* The hash the receiver compares covers exactly the bytes it will promote,
\* those of earlier sessions included.
HashCoversPart == rpc \in {"stream", "trailer", "verify"} => part = hashed

\* Fail closed: only what the sender read from end to end in one session ever
\* gets the final name -- and if nobody edited the source under the sender's
\* hands, that is one version of the file, whatever partial file was resumed.
FailClosed ==
    final # None =>
        \E x \in offered : x.bytes = final /\ (x.edited \/ final \in Versions)

\* Approach A implements the promise both approaches share: with one final
\* name, a promotion is the delivery of a file whose trailer was sent before.
Delivery == INSTANCE FileDelivery WITH Outs <- {"out"}, final <- [o \in {"out"} |-> final]
ImplementsDelivery == Delivery!Spec

\* A quarantined partial file is not resumed, and a resumed one ends up whole
\* or quarantined: re-running both programs delivers in the end, after every
\* edit and every crash -- unless the receiver waits for ever for a peer that
\* has gone silent: the accepted socket has no timeout, in the handshake, too.
EventuallyPromoted == <>(final # None) \/ <>[](link = "mute")

\* Every run of the receiver ends, unless its peer has gone silent without
\* closing the connection: a sender whose machine vanished, at whatever point
\* of the handshake or the transfer, or a stranger who never said a word.
ReceiverRunEnds == rpc # "idle" ~> rpc = "idle" \/ link = "mute"
=============================================================================
