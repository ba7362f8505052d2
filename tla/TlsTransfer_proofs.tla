------------------------- MODULE TlsTransfer_proofs -------------------------
(***************************************************************************)
(* Proofs about TlsTransfer, for every set of file contents, every chunk   *)
(* size and any number of edits, crashes and lost connections.             *)
(***************************************************************************)
EXTENDS TlsTransfer, SequenceTheorems, TLAPS

\* What the sender puts on the wire.
Message ==
    [kind : {"header"}, total : Nat, accepted : Nat]
        \cup [kind : {"chunk"}, data : Seq(Nat)]
        \cup [kind : {"eos"}]
        \cup [kind : {"digest"}, digest : {"sha256"} \X Seq(Nat)]

Typed ==
    /\ source \in Versions
    /\ spc \in {"idle", "handshake", "claim", "stream"}
    /\ rpc \in {"idle", "listen", "handshake", "claim", "header", "stream", "trailer", "verify"}
    /\ size \in Nat /\ accepted \in Nat /\ pos \in Nat /\ claimed \in Nat /\ total \in Nat
    /\ read \in Seq(Nat)
    /\ part \in Seq(Nat) \cup {None}
    /\ tail \in Nat /\ synced \in Nat
    /\ toS \in Seq(Nat) /\ toR \in Seq(Message)
    /\ link \in {"none", "up", "cut", "mute"}
    /\ edited \in BOOLEAN
    /\ crashes \in 0..MaxCrashes /\ edits \in 0..MaxEdits /\ cuts \in 0..MaxCuts

\* Messages that may follow one another: only the digest after the end marker.
EosThenDigest(s) ==
    \A i \in 1..Len(s) : s[i].kind = "eos" /\ i < Len(s) => s[i + 1].kind = "digest"

NoEos(s) == \A i \in 1..Len(s) : s[i].kind # "eos"

\* Who is where while the connection is up, and in which order messages come.
Ordered ==
    /\ link = "none" => spc = "idle" /\ rpc \in {"idle", "listen"}
    /\ link = "up" => /\ spc # "idle" /\ NoEos(toR)
                     /\ rpc \notin {"idle", "listen", "trailer", "verify"}
    /\ link = "up" => (spc = "handshake" <=> rpc = "handshake")
    /\ rpc \in {"idle", "listen", "handshake"} => toR = <<>>
    /\ link = "up" /\ spc = "claim" => toR = <<>> /\ rpc \in {"claim", "header"}
    /\ link = "up" /\ spc = "stream" /\ rpc \in {"claim", "header"} => toR # <<>>
    /\ rpc \in {"claim", "header"} /\ toR # <<>> => toR[1].kind = "header"
    /\ rpc = "trailer" /\ toR # <<>> => toR[1].kind = "digest"
    /\ EosThenDigest(toR)

\* The partial file and the counters that say what of it is safe.
PartShape ==
    /\ rpc \in {"stream", "trailer", "verify"} => part # None
    /\ part # None => synced + tail <= Len(part)
    /\ rpc = "header" => claimed = IF part = None THEN 0 ELSE Len(part)

\* What the sender has read is a prefix of the source it has not seen edited.
ReadsSource ==
    /\ Len(read) = pos
    /\ spc = "stream" /\ ~ edited => /\ pos <= Len(source)
                                     /\ read = SubSeq(source, 1, pos)
    /\ spc # "stream" => read = <<>>

\* A digest on the wire, or received, is that of something vouched for.
Vouched(d, by) ==
    \E x \in by : d = sha256(x.bytes) /\ (x.edited \/ x.bytes \in Versions)

TrailersVouched ==
    /\ \A i \in 1..Len(toR) : toR[i].kind = "digest" => Vouched(toR[i].digest, offered)
    /\ rpc = "verify" => Vouched(digest, offered)

IInv == /\ Typed /\ Ordered /\ PartShape /\ ReadsSource
        /\ HashCoversPart /\ TrailersVouched /\ FailClosed

-----------------------------------------------------------------------------
(* Sequences and messages.                                                 *)

\* Taking the first element off a sequence.
LEMMA HeadTail ==
    ASSUME NEW S, NEW s \in Seq(S), s # <<>>
    PROVE  /\ Head(s) \in S /\ Head(s) = s[1]
           /\ Tail(s) \in Seq(S) /\ Len(Tail(s)) = Len(s) - 1
           /\ \A i \in 1..Len(Tail(s)) : i + 1 \in 1..Len(s) /\ Tail(s)[i] = s[i + 1]
OBVIOUS

\* Adding an element to a sequence.
LEMMA AppendLast ==
    ASSUME NEW S, NEW s \in Seq(S), NEW e \in S
    PROVE  /\ Append(s, e) \in Seq(S) /\ Len(Append(s, e)) = Len(s) + 1
           /\ Append(s, e) # <<>>
           /\ \A i \in 1..Len(s) : Append(s, e)[i] = s[i]
           /\ Append(s, e)[Len(s) + 1] = e
OBVIOUS

\* Cutting a sequence off after n elements.
LEMMA Prefix ==
    ASSUME NEW S, NEW s \in Seq(S), NEW n \in 0..Len(s)
    PROVE  /\ SubSeq(s, 1, n) \in Seq(S) /\ Len(SubSeq(s, 1, n)) = n
           /\ \A i \in 1..n : SubSeq(s, 1, n)[i] = s[i]
OBVIOUS

\* Cutting a piece out of a sequence.
LEMMA Segment ==
    ASSUME NEW S, NEW s \in Seq(S), NEW a \in Nat, NEW b \in 0..Len(s)
    PROVE  /\ SubSeq(s, a + 1, b) \in Seq(S)
           /\ a < b => /\ Len(SubSeq(s, a + 1, b)) = b - a
                       /\ \A i \in 1..(b - a) : SubSeq(s, a + 1, b)[i] = s[a + i]
           /\ a >= b => SubSeq(s, a + 1, b) = <<>>
<1>1. \A i \in (a + 1)..b : s[i] \in S
  OBVIOUS
<1>2. CASE a < b
  BY <1>1, <1>2
<1>3. CASE a >= b
  BY <1>3
<1> QED BY <1>2, <1>3

\* What each kind of message carries.
LEMMA MessageKinds ==
    \A m \in Message : /\ m.kind \in {"header", "chunk", "eos", "digest"}
                       /\ m.kind = "header" => m.total \in Nat /\ m.accepted \in Nat
                       /\ m.kind = "chunk" => m.data \in Seq(Nat)
BY DEF Message

\* The next block is a piece of the source.
LEMMA BlockOfSource ==
    ASSUME Typed
    PROVE  /\ source \in Seq(Nat)
           /\ NextBlock \in Seq(Nat)
           /\ pos < Len(source) => /\ NextBlock # <<>>
                                   /\ pos + Len(NextBlock) <= Len(source)
                                   /\ \A i \in 1..Len(NextBlock) : NextBlock[i] = source[pos + i]
           /\ pos >= Len(source) => NextBlock = <<>>
<1> DEFINE limit == IF pos < accepted /\ accepted < pos + CHUNK_SIZE
                    THEN accepted ELSE pos + CHUNK_SIZE
           end == IF limit < Len(source) THEN limit ELSE Len(source)
<1>1. source \in Seq(Nat) /\ CHUNK_SIZE \in Nat /\ CHUNK_SIZE > 0
  BY TlsAssumption DEF Typed
<1>2. /\ pos \in Nat /\ Len(source) \in Nat
      /\ end \in Nat /\ end <= Len(source)
      /\ pos < Len(source) => end > pos
  BY <1>1 DEF Typed
<1>3. NextBlock = SubSeq(source, pos + 1, end)
  BY DEF NextBlock
<1> HIDE DEF end
<1>4. /\ NextBlock \in Seq(Nat)
      /\ pos >= end => NextBlock = <<>>
      /\ pos < end => /\ Len(NextBlock) = end - pos
                      /\ \A i \in 1..(end - pos) : NextBlock[i] = source[pos + i]
  <2>1. end \in 0..Len(source)
    BY <1>2
  <2> DEFINE piece == SubSeq(source, pos + 1, end)
  <2>2. /\ piece \in Seq(Nat)
        /\ pos < end => /\ Len(piece) = end - pos
                        /\ \A i \in 1..(end - pos) : piece[i] = source[pos + i]
        /\ pos >= end => piece = <<>>
    BY ONLY <1>1, <1>2, <2>1, Segment
  <2> QED BY ONLY <1>3, <2>2
<1>5. ASSUME pos < Len(source)
      PROVE  /\ NextBlock # <<>>
             /\ pos + Len(NextBlock) <= Len(source)
             /\ \A i \in 1..Len(NextBlock) : NextBlock[i] = source[pos + i]
  <2>1. Len(NextBlock) = end - pos /\ end - pos > 0
    BY <1>2, <1>4, <1>5
  <2>2. NextBlock # <<>>
    BY <2>1
  <2> QED BY <1>2, <1>4, <1>5, <2>1, <2>2
<1>6. pos >= Len(source) => NextBlock = <<>>
  BY <1>2, <1>4
<1> QED BY <1>1, <1>4, <1>5, <1>6

-----------------------------------------------------------------------------
(* Types.                                                                  *)

LEMMA TypedNext == Typed /\ Ordered /\ PartShape /\ [Next]_vars => Typed'
<1> SUFFICES ASSUME Typed, Ordered, PartShape, [Next]_vars
             PROVE  Typed'
  OBVIOUS
<1> USE TlsAssumption
<1>1. CASE UNCHANGED vars
  BY <1>1 DEF Typed, vars, sender, receiver, disk, channel, history, bounds
<1>2. CASE Listen
  BY <1>2 DEF Typed, Listen, sender, disk, channel, history, bounds
<1>18. CASE AcceptTimeout
  BY <1>18 DEF Typed, AcceptTimeout, sender, disk, channel, history, bounds
<1>19. CASE Connect
  <2>1. <<>> \in Seq(Nat) /\ <<>> \in Seq(Message)
    OBVIOUS
  <2>2. toS' \in Seq(Nat) /\ toR' \in Seq(Message)
    BY <1>19, <2>1 DEF Connect
  <2> QED BY <1>19, <2>2 DEF Typed, Connect, disk, history, bounds
<1>22. CASE Stranger
  BY <1>22 DEF Typed, Stranger, sender, disk, history, bounds
<1>23. CASE Handshake
  <2>1. Len(source) \in Nat
    BY DEF Typed
  <2> QED BY <1>23, <2>1 DEF Typed, Handshake, disk, channel, history, bounds
<1>3. CASE Claim
  BY <1>3 DEF Typed, Claim, sender, disk, history, bounds
<1>4. CASE Header
  <2>1. size \in Nat
    BY DEF Typed
  <2>2. Head(toS) \in Nat /\ Tail(toS) \in Seq(Nat)
    BY <1>4, HeadTail DEF Header, Typed
  <2>3. accepted' \in Nat
    BY <1>4, <2>2 DEF Header
  <2>4. [kind |-> "header", total |-> size, accepted |-> accepted'] \in Message
    BY <2>1, <2>3 DEF Message
  <2>5. toR' \in Seq(Message)
    BY <1>4, <2>4, AppendLast DEF Header, Typed
  <2> QED BY <1>4, <2>2, <2>3, <2>5 DEF Header, Typed, receiver, disk, bounds
<1>5. CASE StartStream
  <2>1. Head(toR) \in Message /\ Tail(toR) \in Seq(Message) /\ Head(toR).kind = "header"
    BY <1>5, HeadTail DEF StartStream, Typed, Ordered
  <2>2. total' \in Nat
    BY <1>5, <2>1, MessageKinds DEF StartStream
  <2> QED BY <1>5, <2>1, <2>2 DEF StartStream, Typed, sender, history, bounds
<1>6. CASE SendBlock
  <2>1. NextBlock \in Seq(Nat) /\ read \o NextBlock \in Seq(Nat)
    BY BlockOfSource DEF Typed
  <2>2. [kind |-> "chunk", data |-> NextBlock] \in Message
    BY <2>1 DEF Message
  <2>3. Append(toR, [kind |-> "chunk", data |-> NextBlock]) \in Seq(Message)
    BY <2>2, AppendLast DEF Typed
  <2>4. toR' \in Seq(Message)
    BY <1>6, <2>3 DEF SendBlock, Typed
  <2>5. read' \in Seq(Nat) /\ pos' \in Nat /\ accepted' \in Nat
    <3>1. /\ Len(NextBlock) \in Nat /\ pos \in Nat /\ accepted \in Nat
          /\ pos + Len(NextBlock) \in Nat
      BY <2>1 DEF Typed
    <3>2. \/ /\ read' = read \o NextBlock /\ pos' = pos + Len(NextBlock)
             /\ accepted' = accepted
          \/ read' = <<>> /\ pos' = 0 /\ accepted' = 0
      BY <1>6 DEF SendBlock, SenderEnds
    <3>3. <<>> \in Seq(Nat)
      OBVIOUS
    <3>4. CASE read' = <<>> /\ pos' = 0 /\ accepted' = 0
      BY <3>3, <3>4
    <3> QED BY <2>1, <3>1, <3>2, <3>4
  <2>6. spc' \in {"idle", "handshake", "claim", "stream"} /\ link' \in {"none", "up", "cut", "mute"}
    BY <1>6 DEF SendBlock, SenderEnds, Typed
  <2> QED BY <1>6, <2>4, <2>5, <2>6 DEF SendBlock, SenderEnds, Typed, receiver, disk, history, bounds
<1>7. CASE SendTrailer
  <2>1. [kind |-> "eos"] \in Message
    BY DEF Message
  <2>2. [kind |-> "digest", digest |-> sha256(read)] \in Message
    BY DEF Message, sha256, Typed
  <2>3. toR' \in Seq(Message)
    BY <1>7, <2>1, <2>2 DEF SendTrailer, Typed
  <2> QED BY <1>7, <2>3 DEF SendTrailer, SenderEnds, Typed, receiver, disk, bounds
<1>8. CASE ReceiveChunk
  <2>1. Head(toR) \in Message /\ Tail(toR) \in Seq(Message)
    BY <1>8, HeadTail DEF ReceiveChunk, Typed
  <2>2. Head(toR).data \in Seq(Nat)
    BY <1>8, <2>1, MessageKinds DEF ReceiveChunk
  <2>3. part \in Seq(Nat)
    BY <1>8 DEF ReceiveChunk, Typed, PartShape
  <2> QED BY <1>8, <2>1, <2>2, <2>3 DEF ReceiveChunk, Typed, sender, history, bounds
<1>9. CASE ReceiveEos
  <2>1. Tail(toR) \in Seq(Message)
    BY <1>9, HeadTail DEF ReceiveEos, Typed
  <2> QED BY <1>9, <2>1 DEF ReceiveEos, Typed, sender, disk, history, bounds
<1>20. CASE ReceiveTrailer
  <2>1. Tail(toR) \in Seq(Message)
    BY <1>20, HeadTail DEF ReceiveTrailer, Typed
  <2> QED BY <1>20, <2>1 DEF ReceiveTrailer, Typed, sender, history, bounds
<1>10. CASE Promote
  BY <1>10 DEF Promote, ReceiverEnds, Typed, sender, history, bounds
<1>21. CASE Quarantine
  BY <1>21 DEF Quarantine, ReceiverEnds, Typed, sender, history, bounds
<1>17. CASE ReceiverLoses
  <2>1. part' = part /\ tail' \in Nat /\ synced' \in Nat
    BY <1>17 DEF ReceiverLoses, Typed, PartShape, disk
  <2> QED BY <1>17, <2>1 DEF ReceiverLoses, ReceiverEnds, Typed, sender, history, bounds
<1>11. CASE SenderLoses
  BY <1>11 DEF SenderLoses, SenderEnds, Typed, receiver, disk, history, bounds
<1>12. CASE Cut
  <2>1. toR' \in Seq(Message)
    BY <1>12, Prefix DEF Cut, Typed
  <2> QED BY <1>12, <2>1 DEF Cut, Typed, sender, receiver, disk, history
<1>13. CASE Vanish
  BY <1>13 DEF Vanish, Typed, receiver, disk, history
<1>14. CASE Kill
  <2>1. part' \in Seq(Nat) \cup {None}
    BY <1>14, SMTT(20) DEF Kill, Typed, PartShape
  <2> QED BY <1>14, <2>1 DEF Kill, ReceiverEnds, Typed, sender, history
<1>15. CASE PowerLoss
  <2>1. CASE part = None
    BY <1>15, <2>1 DEF PowerLoss, ReceiverEnds, Typed, sender, history
  <2>2. CASE part # None
    <3>1. part \in Seq(Nat) /\ Len(part) \in Nat
      BY <2>2 DEF Typed
    <3>2. PICK n \in synced..Len(part) : \E zeros \in SUBSET ((synced + 1)..n) :
                part' = [i \in 1..n |-> IF i \in zeros THEN 0 ELSE part[i]]
      BY <1>15, <2>2 DEF PowerLoss
    <3>3. PICK zeros \in SUBSET ((synced + 1)..n) :
                part' = [i \in 1..n |-> IF i \in zeros THEN 0 ELSE part[i]]
      BY <3>2
    <3>4. n \in Nat /\ \A i \in 1..n : part[i] \in Nat
      BY <3>1, <3>2 DEF Typed
    <3>5. part' \in Seq(Nat)
      <4>1. part' \in [1..n -> Nat]
        BY <3>3, <3>4
      <4> QED BY <3>4, <4>1
    <3> QED BY <1>15, <3>5 DEF PowerLoss, ReceiverEnds, Typed, sender, history
  <2> QED BY <2>1, <2>2
<1>16. CASE Edit
  BY <1>16 DEF Edit, Typed, sender, receiver, disk, channel
<1> QED
  BY <1>1, <1>2, <1>3, <1>4, <1>5, <1>6, <1>7, <1>8, <1>9, <1>10, <1>11, <1>12, <1>13,
     <1>14, <1>15, <1>16, <1>17, <1>18, <1>19, <1>20, <1>21, <1>22, <1>23
  DEF Next, SenderStep, ReceiverStep

-----------------------------------------------------------------------------
(* The order of messages.                                                  *)

\* Taking the first message leaves the order of the others.
LEMMA OrderTail ==
    ASSUME NEW s \in Seq(Message), s # <<>>, EosThenDigest(s)
    PROVE  /\ EosThenDigest(Tail(s))
           /\ NoEos(s) => NoEos(Tail(s))
           /\ Head(s).kind = "eos" /\ Tail(s) # <<>> => Tail(s)[1].kind = "digest"
<1>1. /\ Tail(s) \in Seq(Message) /\ Len(Tail(s)) = Len(s) - 1 /\ Head(s) = s[1]
      /\ Len(s) \in Nat
      /\ \A i \in 1..Len(Tail(s)) : i + 1 \in 1..Len(s) /\ Tail(s)[i] = s[i + 1]
  BY HeadTail
<1>2. NoEos(s) => NoEos(Tail(s))
  BY <1>1 DEF NoEos
<1>3. EosThenDigest(Tail(s))
  <2> SUFFICES ASSUME NEW i \in 1..Len(Tail(s)), Tail(s)[i].kind = "eos", i < Len(Tail(s))
               PROVE  Tail(s)[i + 1].kind = "digest"
    BY DEF EosThenDigest
  <2>1. i + 1 \in 1..Len(s) /\ i + 1 < Len(s) /\ i + 1 \in 1..Len(Tail(s))
    BY <1>1
  <2>2. s[i + 1].kind = "eos" /\ Tail(s)[i + 1] = s[(i + 1) + 1]
    BY <1>1, <2>1
  <2> QED BY <2>1, <2>2 DEF EosThenDigest
<1>4. ASSUME Head(s).kind = "eos", Tail(s) # <<>>
      PROVE  Tail(s)[1].kind = "digest"
  <2>1. 1 \in 1..Len(Tail(s)) /\ 1 \in 1..Len(s) /\ 1 < Len(s)
    BY <1>1, <1>4
  <2> QED BY <1>1, <1>4, <2>1 DEF EosThenDigest
<1> QED BY <1>2, <1>3, <1>4

\* A message other than an end marker may follow any but an end marker.
LEMMA OrderAppend ==
    ASSUME NEW s \in Seq(Message), NEW m \in Message, NoEos(s), m.kind # "eos"
    PROVE  NoEos(Append(s, m)) /\ EosThenDigest(Append(s, m))
<1>1. NoEos(Append(s, m))
  BY AppendLast DEF NoEos
<1> QED BY <1>1 DEF NoEos, EosThenDigest

\* A connection that is lost keeps the order of what still arrives.
LEMMA OrderPrefix ==
    ASSUME NEW s \in Seq(Message), NEW n \in 0..Len(s), EosThenDigest(s)
    PROVE  EosThenDigest(SubSeq(s, 1, n))
<1>1. /\ Len(SubSeq(s, 1, n)) = n /\ n \in Nat /\ Len(s) \in Nat
      /\ \A i \in 1..n : SubSeq(s, 1, n)[i] = s[i]
  BY Prefix
<1> SUFFICES ASSUME NEW i \in 1..n, SubSeq(s, 1, n)[i].kind = "eos", i < n
             PROVE  SubSeq(s, 1, n)[i + 1].kind = "digest"
  BY <1>1 DEF EosThenDigest
<1>2. i + 1 \in 1..n /\ i \in 1..Len(s) /\ i < Len(s)
  BY <1>1
<1> QED BY <1>1, <1>2 DEF EosThenDigest

\* The trailer goes out behind messages none of which is an end marker.
LEMMA OrderTrailer ==
    ASSUME NEW s \in Seq(Message), NEW e \in Message, NEW d \in Message,
           NoEos(s), e.kind = "eos", d.kind = "digest"
    PROVE  /\ s \o <<e, d>> \in Seq(Message)
           /\ Len(s \o <<e, d>>) = Len(s) + 2
           /\ \A i \in 1..Len(s) : (s \o <<e, d>>)[i] = s[i]
           /\ (s \o <<e, d>>)[Len(s) + 1] = e
           /\ (s \o <<e, d>>)[Len(s) + 2] = d
           /\ EosThenDigest(s \o <<e, d>>)
<1> DEFINE t == s \o <<e, d>>
<1>1. /\ t \in Seq(Message) /\ Len(t) = Len(s) + 2 /\ Len(s) \in Nat
      /\ \A i \in 1..Len(s) : t[i] = s[i]
      /\ t[Len(s) + 1] = e /\ t[Len(s) + 2] = d
  OBVIOUS
<1> HIDE DEF t
<1>2. EosThenDigest(t)
  <2> SUFFICES ASSUME NEW i \in 1..Len(t), t[i].kind = "eos", i < Len(t)
               PROVE  t[i + 1].kind = "digest"
    BY DEF EosThenDigest
  <2>1. i \notin 1..Len(s)
    BY <1>1 DEF NoEos
  <2>2. i = Len(s) + 1
    BY <1>1, <2>1
  <2>3. i + 1 = Len(s) + 2
    BY <1>1, <2>2
  <2> QED BY <1>1, <2>3
<1> QED BY <1>1, <1>2 DEF t

\* A connection on which nothing is in flight is in order.
LEMMA OrderEmpty == NoEos(<<>>) /\ EosThenDigest(<<>>)
BY DEF NoEos, EosThenDigest

LEMMA OrderedNext == Typed /\ Ordered /\ [Next]_vars => Ordered'
<1> SUFFICES ASSUME Typed, Ordered, [Next]_vars
             PROVE  Ordered'
  OBVIOUS
<1>0. /\ toR \in Seq(Message)
      /\ spc \in {"idle", "handshake", "claim", "stream"}
      /\ link \in {"none", "up", "cut", "mute"}
      /\ rpc \in {"idle", "listen", "handshake", "claim", "header", "stream", "trailer", "verify"}
  BY DEF Typed
<1>1. CASE UNCHANGED vars
  BY <1>1 DEF Ordered, vars, sender, receiver, channel, NoEos, EosThenDigest
<1>2. CASE Listen
  BY <1>2 DEF Ordered, Listen, sender, channel, NoEos, EosThenDigest
<1>3. CASE AcceptTimeout
  BY <1>3 DEF Ordered, AcceptTimeout, sender, channel, NoEos, EosThenDigest
<1>4. CASE Connect
  BY <1>0, <1>4, OrderEmpty DEF Ordered, Connect
<1>19. CASE Stranger
  BY <1>0, <1>19 DEF Ordered, Stranger, sender
<1>20. CASE Handshake
  BY <1>0, <1>20 DEF Ordered, Handshake, channel, NoEos, EosThenDigest
<1>5. CASE Claim
  BY <1>5 DEF Ordered, Claim, sender, NoEos, EosThenDigest
<1>6. CASE Header
  <2> DEFINE m == [kind |-> "header", total |-> size, accepted |-> accepted']
  <2>1. m \in Message /\ m.kind = "header"
    <3>1. size \in Nat
      BY DEF Typed
    <3>2. Head(toS) \in Nat
      BY <1>6, HeadTail DEF Header, Typed
    <3> QED BY <1>6, <3>1, <3>2 DEF Header, Message
  <2>2. toR = <<>> /\ toR' = Append(toR, m) /\ rpc \in {"claim", "header"} /\ link = "up"
    BY <1>6 DEF Header, Ordered
  <2>3. toR' # <<>> /\ toR'[1] = m /\ NoEos(toR') /\ EosThenDigest(toR')
    <3> HIDE DEF m
    <3>1. NoEos(toR)
      BY <2>2, OrderEmpty
    <3>2. NoEos(toR') /\ EosThenDigest(toR')
      BY <1>0, <2>1, <2>2, <3>1, OrderAppend
    <3>3. toR' # <<>> /\ toR'[1] = m
      BY <2>2
    <3> QED BY <3>2, <3>3
  <2> QED BY <1>6, <2>1, <2>2, <2>3 DEF Header, Ordered, receiver
<1>7. CASE StartStream
  <2>1. EosThenDigest(toR') /\ (NoEos(toR) => NoEos(toR'))
    BY <1>0, <1>7, OrderTail DEF StartStream, Ordered
  <2> QED BY <1>7, <2>1 DEF StartStream, Ordered, sender
<1>8. CASE SendBlock
  <2> DEFINE m == [kind |-> "chunk", data |-> NextBlock]
  <2>1. m \in Message /\ m.kind = "chunk"
    BY BlockOfSource DEF Message
  <2>2. CASE toR' = toR
    BY <1>8, <2>2 DEF SendBlock, SenderEnds, Ordered, receiver
  <2>3. CASE toR' = Append(toR, m) /\ UNCHANGED <<spc, link>>
    <3>1. NoEos(toR') /\ EosThenDigest(toR') /\ (toR # <<>> => toR'[1] = toR[1])
      <4>1. toR # <<>> => 1 \in 1..Len(toR)
        BY <1>0
      <4> QED BY <1>0, <1>8, <2>1, <2>3, <4>1, AppendLast, OrderAppend DEF SendBlock, Ordered
    <3>2. toR' # <<>>
      BY <1>0, <2>1, <2>3, AppendLast
    <3> QED BY <1>8, <2>3, <3>1, <3>2 DEF SendBlock, Ordered, receiver
  <2> QED BY <1>8, <2>2, <2>3 DEF SendBlock
<1>9. CASE SendTrailer
  <2> DEFINE e == [kind |-> "eos"]
             d == [kind |-> "digest", digest |-> sha256(read)]
  <2>1. e \in Message /\ d \in Message /\ e.kind = "eos" /\ d.kind = "digest"
    BY DEF Message, sha256, Typed
  <2>2. /\ link = "up" /\ NoEos(toR) /\ spc = "stream" /\ toR' = toR \o <<e, d>>
        /\ link' = "cut" /\ rpc' = rpc /\ rpc \in {"claim", "header", "stream"}
    BY <1>0, <1>9 DEF SendTrailer, SenderEnds, Ordered, receiver
  <2>3. EosThenDigest(toR') /\ (toR # <<>> => toR'[1] = toR[1])
    <3>1. toR # <<>> => 1 \in 1..Len(toR)
      BY <1>0
    <3> QED BY <1>0, <2>1, <2>2, <3>1, OrderTrailer
  <2> QED BY <2>2, <2>3 DEF Ordered
<1>10. CASE SenderLoses
  BY <1>0, <1>10 DEF SenderLoses, SenderEnds, Ordered, receiver
<1>11. CASE ReceiveChunk
  <2>1. EosThenDigest(toR') /\ (NoEos(toR) => NoEos(toR'))
    BY <1>0, <1>11, OrderTail DEF ReceiveChunk, Ordered
  <2> QED BY <1>11, <2>1 DEF ReceiveChunk, Ordered, sender
<1>12. CASE ReceiveEos
  <2>1. /\ EosThenDigest(toR')
        /\ toR' # <<>> => toR'[1].kind = "digest"
    BY <1>0, <1>12, OrderTail DEF ReceiveEos, Ordered
  <2>2. link # "up"
    <3>1. 1 \in 1..Len(toR) /\ toR[1].kind = "eos"
      BY <1>0, <1>12, HeadTail DEF ReceiveEos
    <3> QED BY <3>1 DEF Ordered, NoEos
  <2> QED BY <1>0, <1>12, <2>1, <2>2 DEF ReceiveEos, Ordered, sender
<1>13. CASE ReceiveTrailer
  <2>1. EosThenDigest(toR')
    BY <1>0, <1>13, OrderTail DEF ReceiveTrailer, Ordered
  <2> QED BY <1>0, <1>13, <2>1 DEF ReceiveTrailer, Ordered, sender
<1>14. CASE ReceiverEnds /\ UNCHANGED sender
  BY <1>0, <1>14, OrderEmpty DEF ReceiverEnds, Ordered, sender
<1>15. CASE Cut
  <2>1. PICK n \in 0..Len(toR) : toR' = SubSeq(toR, 1, n)
    BY <1>15 DEF Cut
  <2>2. EosThenDigest(toR')
    BY <1>0, <2>1, OrderPrefix DEF Ordered
  <2>3. /\ toR = <<>> => toR' = <<>>
        /\ toR' # <<>> => toR # <<>> /\ toR'[1] = toR[1]
    <3>1. Len(toR') = n /\ \A i \in 1..n : toR'[i] = toR[i]
      BY <1>0, <2>1, Prefix
    <3>2. toR' \in Seq(Message)
      BY <1>0, <2>1, Prefix
    <3> QED BY <1>0, <2>1, <3>1, <3>2
  <2> QED BY <1>15, <2>2, <2>3 DEF Cut, Ordered, sender, receiver
<1>16. CASE Vanish
  BY <1>16 DEF Vanish, Ordered, receiver
<1>17. CASE Edit
  BY <1>17 DEF Edit, Ordered, sender, receiver, channel, NoEos, EosThenDigest
<1>18. CASE Promote \/ Quarantine \/ ReceiverLoses \/ Kill \/ PowerLoss
  BY <1>14, <1>18 DEF Promote, Quarantine, ReceiverLoses, Kill, PowerLoss
<1> QED
  BY <1>1, <1>2, <1>3, <1>4, <1>5, <1>6, <1>7, <1>8, <1>9, <1>10, <1>11, <1>12, <1>13,
     <1>15, <1>16, <1>17, <1>18, <1>19, <1>20 DEF Next, SenderStep, ReceiverStep

-----------------------------------------------------------------------------
(* The partial file and its hash.                                          *)

LEMMA PartShapeNext == Typed /\ Ordered /\ PartShape /\ [Next]_vars => PartShape'
<1> SUFFICES ASSUME Typed, Ordered, PartShape, [Next]_vars
             PROVE  PartShape'
  OBVIOUS
<1>0. /\ part \in Seq(Nat) \cup {None} /\ tail \in Nat /\ synced \in Nat
      /\ part # None => Len(part) \in Nat
      /\ toR \in Seq(Message) /\ claimed \in Nat
  BY DEF Typed
<1>1. CASE UNCHANGED <<rpc, claimed, disk>>
  BY <1>1 DEF PartShape, disk
<1>2. CASE Listen \/ AcceptTimeout \/ Connect \/ Stranger \/ Handshake
  BY <1>2 DEF Listen, AcceptTimeout, Connect, Stranger, Handshake, PartShape, disk
<1>3. CASE Claim
  BY <1>0, <1>3 DEF Claim, PartShape, disk
<1>4. CASE StartStream
  <2>1. None # <<>>
    <3>1. <<>> \in Seq(Nat)
      OBVIOUS
    <3> QED BY <3>1, TlsAssumption
  <2>2. rpc' = "stream" /\ tail' = 0
    BY <1>4 DEF StartStream
  <2>3. CASE Head(toR).accepted = claimed /\ claimed # 0
    BY <1>0, <1>4, <2>2, <2>3 DEF StartStream, PartShape
  <2>4. CASE ~ (Head(toR).accepted = claimed /\ claimed # 0)
    BY <1>4, <2>1, <2>2, <2>4 DEF StartStream, PartShape
  <2> QED BY <2>3, <2>4
<1>5. CASE ReceiveChunk
  <2> DEFINE data == Head(toR).data
  <2>1. data \in Seq(Nat)
    BY <1>0, <1>5, HeadTail, MessageKinds DEF ReceiveChunk
  <2>2. part \in Seq(Nat) /\ part # None /\ part' = part \o data /\ tail' = Len(data)
    BY <1>0, <1>5 DEF ReceiveChunk, PartShape
  <2> HIDE DEF data
  <2>3. /\ part' \in Seq(Nat) /\ Len(part') = Len(part) + Len(data)
        /\ Len(part) \in Nat /\ Len(data) \in Nat
    BY <2>1, <2>2
  <2>4. part' # None
    BY <2>3, TlsAssumption
  <2>5. synced + tail <= Len(part) /\ synced' = synced /\ rpc' = "stream"
    BY <1>5, <2>2 DEF ReceiveChunk, PartShape
  <2>6. synced' + tail' <= Len(part')
    BY <1>0, <2>2, <2>3, <2>5
  <2> QED BY <2>4, <2>5, <2>6 DEF PartShape
<1>6. CASE ReceiveEos
  BY <1>6 DEF ReceiveEos, PartShape, disk
<1>7. CASE ReceiveTrailer
  BY <1>0, <1>7 DEF ReceiveTrailer, PartShape
<1>8. CASE Promote
  BY <1>8 DEF Promote, ReceiverEnds, PartShape
<1>9. CASE Quarantine
  BY <1>9 DEF Quarantine, ReceiverEnds, PartShape
<1>10. CASE ReceiverLoses
  BY <1>0, <1>10 DEF ReceiverLoses, ReceiverEnds, PartShape, disk
<1>11. CASE Kill
  <2>1. rpc' = "idle" /\ tail' = 0 /\ synced' = synced
    BY <1>11 DEF Kill, ReceiverEnds
  <2>2. CASE part = None
    BY <1>11, <2>1, <2>2 DEF Kill, PartShape
  <2>3. CASE part # None
    <3>1. PICK n \in 0..tail : part' = SubSeq(part, 1, Len(part) - n)
      BY <1>11, <2>3 DEF Kill
    <3>2. /\ part \in Seq(Nat) /\ synced + tail <= Len(part) /\ n \in Nat
          /\ Len(part) - n \in 0..Len(part) /\ synced <= Len(part) - n
      BY <1>0, <2>3, <3>1 DEF PartShape
    <3>3. Len(part') = Len(part) - n
      BY <3>1, <3>2, Prefix
    <3> QED BY <1>0, <2>1, <3>2, <3>3 DEF PartShape
  <2> QED BY <2>2, <2>3
<1>12. CASE PowerLoss
  <2>1. rpc' = "idle" /\ tail' = 0 /\ synced' = synced
    BY <1>12 DEF PowerLoss, ReceiverEnds
  <2>2. CASE part = None
    BY <1>12, <2>1, <2>2 DEF PowerLoss, PartShape
  <2>3. CASE part # None
    <3>1. PICK n \in synced..Len(part) : \E zeros \in SUBSET ((synced + 1)..n) :
                part' = [i \in 1..n |-> IF i \in zeros THEN 0 ELSE part[i]]
      BY <1>12, <2>3 DEF PowerLoss
    <3>2. n \in Nat /\ n >= synced
      BY <1>0, <2>3, <3>1
    <3>3. Len(part') = n
      BY <3>1, <3>2
    <3> QED BY <1>0, <2>1, <3>2, <3>3 DEF PartShape
  <2> QED BY <2>2, <2>3
<1>13. CASE UNCHANGED vars \/ SenderStep \/ Cut \/ Vanish \/ Edit
  BY <1>1, <1>13 DEF vars, SenderStep, Header, SendBlock, SendTrailer, SenderLoses, Cut,
                     Vanish, Edit, receiver
<1> QED
  BY <1>2, <1>3, <1>4, <1>5, <1>6, <1>7, <1>8, <1>9, <1>10, <1>11, <1>12, <1>13
  DEF Next, ReceiverStep

\* No step needs more than the invariant itself: chunks go to the file and to
\* the hash, and a resumed file is hashed first.
LEMMA HashCoversPartNext == HashCoversPart /\ [Next]_vars => HashCoversPart'
<1> SUFFICES ASSUME HashCoversPart, [Next]_vars
             PROVE  HashCoversPart'
  OBVIOUS
<1>1. CASE UNCHANGED <<rpc, hashed, part>>
  BY <1>1 DEF HashCoversPart
<1>2. CASE Listen \/ AcceptTimeout \/ Connect \/ Stranger \/ Handshake \/ Claim
  BY <1>2 DEF Listen, AcceptTimeout, Connect, Stranger, Handshake, Claim, HashCoversPart, disk
<1>3. CASE StartStream
  BY <1>3 DEF StartStream, HashCoversPart
<1>4. CASE ReceiveChunk
  BY <1>4 DEF ReceiveChunk, HashCoversPart
<1>5. CASE ReceiveEos \/ ReceiveTrailer
  BY <1>5 DEF ReceiveEos, ReceiveTrailer, HashCoversPart, disk
<1>6. CASE Promote \/ Quarantine \/ ReceiverLoses \/ Kill \/ PowerLoss
  BY <1>6 DEF Promote, Quarantine, ReceiverLoses, Kill, PowerLoss, ReceiverEnds,
              HashCoversPart
<1>7. CASE UNCHANGED vars \/ SenderStep \/ Cut \/ Vanish \/ Edit
  BY <1>1, <1>7 DEF vars, SenderStep, Header, SendBlock, SendTrailer, SenderLoses, Cut,
                    Vanish, Edit, receiver, disk
<1> QED BY <1>2, <1>3, <1>4, <1>5, <1>6, <1>7 DEF Next, ReceiverStep

-----------------------------------------------------------------------------
(* What the sender has read and what it vouches for.                       *)

LEMMA ReadsSourceNext == Typed /\ ReadsSource /\ [Next]_vars => ReadsSource'
<1> SUFFICES ASSUME Typed, ReadsSource, [Next]_vars
             PROVE  ReadsSource'
  OBVIOUS
<1>0. /\ source \in Seq(Nat) /\ Len(source) \in Nat
      /\ read \in Seq(Nat) /\ pos \in Nat
  BY TlsAssumption DEF Typed
<1>1. CASE UNCHANGED <<source, spc, pos, read, edited>>
  BY <1>1 DEF ReadsSource
<1>2. CASE spc' # "stream" /\ pos' = 0 /\ read' = <<>>
  BY <1>2 DEF ReadsSource
<1>3. CASE Connect \/ Handshake
  BY <1>1, <1>3 DEF Connect, Handshake, ReadsSource, history
<1>4. CASE Header
  <2>1. pos = 0 /\ read = <<>> /\ UNCHANGED <<source, pos, read>>
    BY <1>0, <1>4 DEF Header, ReadsSource
  <2>2. SubSeq(source, 1, 0) = <<>>
    BY <1>0
  <2> QED BY <1>0, <1>4, <2>1, <2>2 DEF Header, ReadsSource
<1>5. CASE SendBlock
  <2>1. CASE SenderEnds
    BY <1>2, <2>1 DEF SenderEnds
  <2>2. CASE NextBlock # <<>> /\ ~ SenderEnds
    <3> DEFINE b == NextBlock
    <3>1. /\ read' = read \o b /\ pos' = pos + Len(b)
          /\ UNCHANGED <<spc, source, edited>> /\ spc = "stream"
      BY <1>5, <2>2 DEF SendBlock, history
    <3>2. /\ b \in Seq(Nat) /\ pos < Len(source) /\ Len(b) \in Nat
          /\ pos + Len(b) <= Len(source)
          /\ \A i \in 1..Len(b) : b[i] = source[pos + i]
      BY <1>0, <2>2, BlockOfSource
    <3> HIDE DEF b
    <3>3. Len(read') = pos'
      BY <1>0, <3>1, <3>2, ConcatProperties, ZenonT(60) DEF ReadsSource
    <3>4. ASSUME ~ edited
          PROVE  read' = SubSeq(source, 1, pos')
      <4> DEFINE t == SubSeq(source, 1, pos')
      <4>1. Len(read) = pos /\ \A i \in 1..pos : read[i] = source[i]
        BY <1>0, <3>1, <3>2, <3>4 DEF ReadsSource
      <4>2. /\ t \in Seq(Nat) /\ Len(t) = pos' /\ \A i \in 1..pos' : t[i] = source[i]
        BY <1>0, <3>1, <3>2, Prefix
      <4>3. /\ read' \in Seq(Nat) /\ Len(read') = Len(t)
            /\ \A i \in 1..pos' : read'[i] = IF i <= pos THEN read[i] ELSE b[i - pos]
        BY <1>0, <3>1, <3>2, <3>3, <4>1, <4>2, ConcatProperties, SMTT(20)
      <4> HIDE DEF t
      <4>4. ASSUME NEW i \in 1..Len(t)
            PROVE  read'[i] = t[i]
        <5>1. i \in Nat /\ i >= 1
          BY <4>2
        <5>2. i \in 1..pos' /\ t[i] = source[i]
          BY <4>2
        <5>3. CASE i <= pos
          BY <1>0, <4>1, <4>3, <5>1, <5>2, <5>3
        <5>4. CASE i > pos
          <6>1. i - pos \in 1..Len(b) /\ pos + (i - pos) = i
            BY <1>0, <3>1, <3>2, <5>2, <5>4
          <6>2. read'[i] = b[i - pos]
            BY <1>0, <4>3, <5>2, <5>4
          <6> QED BY <3>2, <5>2, <6>1, <6>2
        <5> QED BY <1>0, <5>1, <5>3, <5>4
      <4>5. read' = t
        BY <4>2, <4>3, <4>4, SeqEqual
      <4> QED BY <4>5 DEF t
    <3> QED BY <1>0, <3>1, <3>2, <3>3, <3>4 DEF ReadsSource
  <2> QED BY <1>5, <2>1, <2>2 DEF SendBlock
<1>6. CASE SendTrailer \/ SenderLoses \/ Vanish
  BY <1>2, <1>6 DEF SendTrailer, SenderLoses, Vanish, SenderEnds
<1>7. CASE Edit
  BY <1>7 DEF Edit, ReadsSource, sender
<1>8. CASE Listen \/ AcceptTimeout \/ Stranger \/ ReceiverStep \/ Cut \/ Kill \/ PowerLoss
           \/ UNCHANGED vars
  BY <1>1, <1>8 DEF Listen, AcceptTimeout, Stranger, ReceiverStep, Claim, StartStream, ReceiveChunk,
                    ReceiveEos, ReceiveTrailer, Promote, Quarantine, ReceiverLoses, Cut,
                    Kill, PowerLoss, vars, sender, history
<1> QED BY <1>3, <1>4, <1>5, <1>6, <1>7, <1>8 DEF Next, SenderStep

\* At the end of the source the sender has read a version of it, unless
\* somebody edited it meanwhile.
LEMMA ReadToTheEnd ==
    ASSUME Typed, ReadsSource, spc = "stream", NextBlock = <<>>
    PROVE  edited \/ read \in Versions
<1>1. source \in Seq(Nat) /\ source \in Versions /\ read \in Seq(Nat)
  BY TlsAssumption DEF Typed
<1>2. pos \in Nat /\ pos >= Len(source)
  BY <1>1, BlockOfSource DEF Typed
<1>3. ASSUME ~ edited
      PROVE  read = source
  <2>1. pos = Len(source) /\ read = SubSeq(source, 1, pos)
    BY <1>1, <1>2, <1>3 DEF ReadsSource
  <2> QED BY <1>1, <2>1
<1> QED BY <1>1, <1>3

\* What was vouched for stays so.
LEMMA VouchedStays ==
    ASSUME NEW d, NEW by, NEW more, Vouched(d, by), by \subseteq more
    PROVE  Vouched(d, more)
BY DEF Vouched

LEMMA TrailersVouchedNext ==
    Typed /\ Ordered /\ ReadsSource /\ TrailersVouched /\ [Next]_vars => TrailersVouched'
<1> SUFFICES ASSUME Typed, Ordered, ReadsSource, TrailersVouched, [Next]_vars
             PROVE  TrailersVouched'
  OBVIOUS
<1> DEFINE Wire(s) == \A i \in 1..Len(s) : s[i].kind = "digest" => Vouched(s[i].digest, offered)
<1>0. toR \in Seq(Message) /\ Wire(toR)
  BY DEF Typed, TrailersVouched
<1>1. CASE rpc' # "verify" /\ toR' = <<>>
  BY <1>1 DEF TrailersVouched
<1>2. CASE UNCHANGED <<rpc, digest, toR, offered>>
  BY <1>2 DEF TrailersVouched, Vouched
<1>3. CASE rpc' = rpc /\ rpc # "verify" /\ UNCHANGED <<digest, offered>>
           /\ \E m \in Message : m.kind # "digest" /\ toR' = Append(toR, m)
  <2>1. PICK m \in Message : m.kind # "digest" /\ toR' = Append(toR, m)
    BY <1>3
  <2>2. /\ Len(toR') = Len(toR) + 1 /\ toR'[Len(toR) + 1] = m /\ Len(toR) \in Nat
        /\ \A i \in 1..Len(toR) : toR'[i] = toR[i]
    BY <1>0, <2>1, AppendLast
  <2>3. ASSUME NEW i \in 1..Len(toR'), toR'[i].kind = "digest"
        PROVE  Vouched(toR'[i].digest, offered)
    <3>1. i \in 1..Len(toR)
      BY <2>1, <2>2, <2>3
    <3> QED BY <1>0, <2>2, <2>3, <3>1
  <2> QED BY <1>3, <2>3 DEF TrailersVouched, Vouched
<1>4. CASE toR # <<>> /\ toR' = Tail(toR) /\ UNCHANGED <<offered, digest>> /\ rpc' # "verify"
  <2>1. ASSUME NEW i \in 1..Len(toR'), toR'[i].kind = "digest"
        PROVE  Vouched(toR'[i].digest, offered)
    BY <1>0, <1>4, <2>1, HeadTail
  <2> QED BY <1>4, <2>1 DEF TrailersVouched, Vouched
<1>5. CASE Listen
  BY <1>5 DEF Listen, channel, history, TrailersVouched, Vouched
<1>6. CASE AcceptTimeout
  BY <1>6 DEF AcceptTimeout, channel, history, TrailersVouched, Vouched
<1>7. CASE Handshake
  BY <1>7 DEF Handshake, channel, history, TrailersVouched, Vouched
<1>20. CASE Connect
  BY <1>1, <1>20 DEF Connect
<1>21. CASE Stranger
  BY <1>21 DEF Stranger, history, TrailersVouched, Vouched
<1>8. CASE Claim
  BY <1>8 DEF Claim, history, TrailersVouched, Vouched
<1>9. CASE Header
  <2> DEFINE m == [kind |-> "header", total |-> size, accepted |-> accepted']
  <2>1. m \in Message /\ m.kind # "digest"
    <3>1. size \in Nat
      BY DEF Typed
    <3>2. Head(toS) \in Nat
      BY <1>9, HeadTail DEF Header, Typed
    <3> QED BY <1>9, <3>1, <3>2 DEF Header, Message
  <2>2. toR' = Append(toR, m) /\ rpc' = rpc /\ rpc # "verify" /\ UNCHANGED <<digest, offered>>
    BY <1>9 DEF Header, receiver, Ordered
  <2> QED BY <1>3, <2>1, <2>2
<1>10. CASE SendBlock
  <2> DEFINE m == [kind |-> "chunk", data |-> NextBlock]
  <2>1. m \in Message /\ m.kind # "digest"
    BY BlockOfSource DEF Message
  <2>2. rpc' = rpc /\ rpc # "verify" /\ UNCHANGED <<digest, offered>>
    BY <1>10 DEF SendBlock, receiver, history, Ordered
  <2>3. toR' = toR \/ toR' = Append(toR, m)
    BY <1>10 DEF SendBlock
  <2> QED BY <1>2, <1>3, <2>1, <2>2, <2>3
<1>11. CASE SendTrailer
  <2> DEFINE e == [kind |-> "eos"]
             d == [kind |-> "digest", digest |-> sha256(read)]
             x == [bytes |-> read, edited |-> edited]
  <2>1. /\ e \in Message /\ d \in Message /\ e.kind = "eos" /\ d.kind = "digest"
        /\ d.digest = sha256(read)
    BY DEF Message, sha256, Typed
  <2>2. /\ NoEos(toR) /\ toR' = toR \o <<e, d>> /\ offered' = offered \cup {x}
        /\ rpc' = rpc /\ rpc # "verify"
    BY <1>11 DEF SendTrailer, Ordered, receiver
  <2>3. /\ Len(toR') = Len(toR) + 2
        /\ \A i \in 1..Len(toR) : toR'[i] = toR[i]
        /\ toR'[Len(toR) + 1] = e /\ toR'[Len(toR) + 2] = d
    BY <1>0, <2>1, <2>2, OrderTrailer
  <2>4. Vouched(sha256(read), offered')
    <3>1. edited \/ read \in Versions
      BY <1>11, ReadToTheEnd DEF SendTrailer
    <3>2. x \in offered' /\ sha256(read) = sha256(x.bytes) /\ (x.edited \/ x.bytes \in Versions)
      BY <2>2, <3>1
    <3> QED BY <3>2 DEF Vouched
  <2>5. ASSUME NEW i \in 1..Len(toR'), toR'[i].kind = "digest"
        PROVE  Vouched(toR'[i].digest, offered')
    <3>1. CASE i \in 1..Len(toR)
      BY <1>0, <2>2, <2>3, <2>5, <3>1, VouchedStays
    <3>2. CASE i = Len(toR) + 2
      BY <2>1, <2>3, <2>4, <3>2
    <3> QED BY <1>0, <2>1, <2>3, <2>5, <3>1, <3>2
  <2> QED BY <2>2, <2>5 DEF TrailersVouched
<1>12. CASE SenderLoses
  BY <1>2, <1>12 DEF SenderLoses, receiver, history
<1>13. CASE StartStream
  BY <1>4, <1>13 DEF StartStream, history
<1>14. CASE ReceiveChunk
  BY <1>4, <1>14 DEF ReceiveChunk, history
<1>15. CASE ReceiveEos
  BY <1>4, <1>15 DEF ReceiveEos, history
<1>16. CASE ReceiveTrailer
  <2>1. Vouched(digest', offered)
    <3>1. 1 \in 1..Len(toR) /\ Head(toR) = toR[1] /\ toR[1].kind = "digest"
      BY <1>0, <1>16, HeadTail DEF ReceiveTrailer, Ordered
    <3> QED BY <1>0, <1>16, <3>1 DEF ReceiveTrailer
  <2>2. ASSUME NEW i \in 1..Len(toR'), toR'[i].kind = "digest"
        PROVE  Vouched(toR'[i].digest, offered)
    BY <1>0, <1>16, <2>2, HeadTail DEF ReceiveTrailer
  <2> QED BY <1>16, <2>1, <2>2 DEF ReceiveTrailer, TrailersVouched, Vouched, history
<1>17. CASE Promote \/ Quarantine \/ ReceiverLoses \/ Kill \/ PowerLoss
  BY <1>1, <1>17 DEF Promote, Quarantine, ReceiverLoses, Kill, PowerLoss, ReceiverEnds
<1>18. CASE Cut
  <2>1. PICK n \in 0..Len(toR) : toR' = SubSeq(toR, 1, n)
    BY <1>18 DEF Cut
  <2>2. /\ Len(toR') = n /\ \A i \in 1..n : toR'[i] = toR[i]
        /\ \A i \in 1..n : i \in 1..Len(toR)
    BY <1>0, <2>1, Prefix
  <2>3. ASSUME NEW i \in 1..Len(toR'), toR'[i].kind = "digest"
        PROVE  Vouched(toR'[i].digest, offered)
    BY <1>0, <2>2, <2>3
  <2> QED BY <1>18, <2>3 DEF Cut, TrailersVouched, Vouched, receiver, history
<1>19. CASE Vanish \/ Edit \/ UNCHANGED vars
  BY <1>2, <1>19 DEF Vanish, Edit, vars, receiver, channel, history
<1> QED
  BY <1>5, <1>6, <1>7, <1>8, <1>9, <1>10, <1>11, <1>12, <1>13, <1>14, <1>15, <1>16,
     <1>17, <1>18, <1>19, <1>20, <1>21 DEF Next, SenderStep, ReceiverStep

-----------------------------------------------------------------------------
(* Fail closed.                                                            *)

\* The step that promotes has compared the hash of the partial file with a
\* digest that was vouched for; no other step touches the final name.
LEMMA FailClosedNext ==
    HashCoversPart /\ TrailersVouched /\ FailClosed /\ [Next]_vars => FailClosed'
<1> SUFFICES ASSUME HashCoversPart, TrailersVouched, FailClosed, [Next]_vars
             PROVE  FailClosed'
  OBVIOUS
<1>1. CASE final' = final /\ offered \subseteq offered'
  BY <1>1 DEF FailClosed
<1>2. CASE Promote
  <2>1. part = hashed /\ sha256(hashed) = digest /\ Vouched(digest, offered)
    BY <1>2 DEF Promote, Verified, HashCoversPart, TrailersVouched
  <2>2. PICK x \in offered : digest = sha256(x.bytes) /\ (x.edited \/ x.bytes \in Versions)
    BY <2>1 DEF Vouched
  <2>3. x.bytes = part
    BY <2>1, <2>2 DEF sha256
  <2>4. final' = part /\ offered' = offered
    BY <1>2 DEF Promote, history
  <2> QED BY <2>2, <2>3, <2>4 DEF FailClosed
<1>3. CASE SendTrailer
  BY <1>1, <1>3 DEF SendTrailer, disk
<1>4. CASE UNCHANGED vars \/ Listen \/ AcceptTimeout \/ Connect \/ Stranger \/ Handshake
           \/ Header \/ SendBlock \/ SenderLoses
  BY <1>1, <1>4 DEF vars, Listen, AcceptTimeout, Connect, Stranger, Handshake, Header,
                    SendBlock, SenderLoses, disk, history
<1>5. CASE Claim \/ StartStream \/ ReceiveChunk \/ ReceiveEos \/ ReceiveTrailer
  BY <1>1, <1>5 DEF Claim, StartStream, ReceiveChunk, ReceiveEos, ReceiveTrailer, disk, history
<1>6. CASE Quarantine \/ ReceiverLoses \/ Cut \/ Vanish \/ Kill \/ PowerLoss \/ Edit
  BY <1>1, <1>6 DEF Quarantine, ReceiverLoses, Cut, Vanish, Kill, PowerLoss, Edit, disk, history
<1> QED
  BY <1>2, <1>3, <1>4, <1>5, <1>6 DEF Next, SenderStep, ReceiverStep

LEMMA InitInvariant == Init => IInv
<1> SUFFICES ASSUME Init
             PROVE  IInv
  OBVIOUS
<1> USE TlsAssumption
<1>1. <<>> \in Seq(Nat) /\ <<>> \in Seq(Message) /\ Len(<<>>) = 0
  OBVIOUS
<1>2. Typed
  <2>1. read \in Seq(Nat) /\ toS \in Seq(Nat) /\ toR \in Seq(Message)
    BY <1>1 DEF Init
  <2>2. crashes \in 0..MaxCrashes /\ edits \in 0..MaxEdits /\ cuts \in 0..MaxCuts
    BY DEF Init
  <2>3. part \in Seq(Nat) \cup {None} /\ edited \in BOOLEAN
    BY DEF Init
  <2>4. spc = "idle" /\ rpc = "idle" /\ link = "none" /\ source \in Versions
    BY DEF Init
  <2>5. size = 0 /\ accepted = 0 /\ pos = 0 /\ claimed = 0 /\ total = 0 /\ tail = 0 /\ synced = 0
    BY DEF Init
  <2> QED BY <2>1, <2>2, <2>3, <2>4, <2>5 DEF Typed
<1>3. Ordered
  BY OrderEmpty DEF Init, Ordered
<1>4. PartShape /\ ReadsSource /\ HashCoversPart /\ TrailersVouched /\ FailClosed
  BY DEF Init, PartShape, ReadsSource, HashCoversPart, TrailersVouched, FailClosed
<1> QED BY <1>2, <1>3, <1>4 DEF IInv

LEMMA NextInvariant == IInv /\ [Next]_vars => IInv'
BY TypedNext, OrderedNext, PartShapeNext, ReadsSourceNext, HashCoversPartNext,
   TrailersVouchedNext, FailClosedNext DEF IInv

LEMMA Invariant == Spec => []IInv
BY InitInvariant, NextInvariant, PTL DEF Spec

\* Offsets, files and channels of both programs keep their shape: in
\* particular the receiver always has a partial file while it writes to one,
\* and what it counts as fsynced is there after any crash.
THEOREM TlsTypeCorrect == Spec => []TypeOK
<1>1. IInv => TypeOK
  BY DEF IInv, Typed, Ordered, PartShape, ReadsSource, TypeOK
<1> QED BY <1>1, Invariant, PTL

\* The hash that receiver.py compares with the digest trailer is that of the
\* bytes it is about to rename, over any number of resumed sessions.
THEOREM HashCovers == Spec => []HashCoversPart
<1>1. IInv => HashCoversPart
  BY DEF IInv
<1> QED BY <1>1, Invariant, PTL

\* Fail closed: whatever edits, crashes and lost connections there were, the
\* final name only ever has what the sender read from end to end in one
\* session, a version of the file if nobody edited it meanwhile.
THEOREM TlsFailsClosed == Spec => []FailClosed
<1>1. IInv => FailClosed
  BY DEF IInv
<1> QED BY <1>1, Invariant, PTL

-----------------------------------------------------------------------------
(* Approach A implements FileDelivery.                                     *)

\* The trailer offers the file, the rename delivers it, and no other step of
\* the two programs, no edit, crash or lost connection shows.
LEMMA DeliveryNext ==
    IInv /\ [Next]_vars => [Delivery!Next]_<<offered, [o \in {"out"} |-> final]>>
<1> DEFINE Final == [o \in {"out"} |-> final]
<1> SUFFICES ASSUME IInv, [Next]_vars
             PROVE  Delivery!Next \/ UNCHANGED <<offered, Final>>
  OBVIOUS
<1>1. CASE UNCHANGED <<offered, final>>
  BY <1>1
<1>2. CASE SendTrailer
  <2> DEFINE x == [bytes |-> read, edited |-> edited]
  <2>1. /\ offered' = offered \cup {x} /\ x \in offered' /\ final' = final
    BY <1>2 DEF SendTrailer, disk
  <2>2. x.edited \/ x.bytes \in Versions
    BY <1>2, ReadToTheEnd DEF SendTrailer, IInv
  <2>3. Delivery!Offer
    BY <2>1, <2>2 DEF Delivery!Offer
  <2> QED BY <2>3 DEF Delivery!Next
<1>3. CASE Promote
  <2>1. part = hashed /\ sha256(hashed) = digest /\ Vouched(digest, offered)
    BY <1>3 DEF Promote, Verified, IInv, HashCoversPart, TrailersVouched
  <2>2. PICK x \in offered : digest = sha256(x.bytes)
    BY <2>1 DEF Vouched
  <2>3. x.bytes = part
    BY <2>1, <2>2 DEF sha256
  <2>4. final' = x.bytes /\ offered' = offered
    BY <1>3, <2>3 DEF Promote, history
  <2>5. Final' = [Final EXCEPT !["out"] = x.bytes]
    BY <2>4
  <2>6. Delivery!Deliver("out")
    BY <2>4, <2>5 DEF Delivery!Deliver
  <2> QED BY <2>6 DEF Delivery!Next
<1>4. CASE UNCHANGED vars \/ Listen \/ AcceptTimeout \/ Connect \/ Stranger \/ Handshake
           \/ Header \/ SendBlock \/ SenderLoses
  BY <1>1, <1>4 DEF vars, Listen, AcceptTimeout, Connect, Stranger, Handshake, Header,
                    SendBlock, SenderLoses, disk, history
<1>5. CASE Claim \/ StartStream \/ ReceiveChunk \/ ReceiveEos \/ ReceiveTrailer
  BY <1>1, <1>5 DEF Claim, StartStream, ReceiveChunk, ReceiveEos, ReceiveTrailer, disk, history
<1>6. CASE Quarantine \/ ReceiverLoses \/ Cut \/ Vanish \/ Kill \/ PowerLoss \/ Edit
  BY <1>1, <1>6 DEF Quarantine, ReceiverLoses, Cut, Vanish, Kill, PowerLoss, Edit, disk, history
<1> QED
  BY <1>2, <1>3, <1>4, <1>5, <1>6 DEF Next, SenderStep, ReceiverStep

\* Approach A keeps the promise both approaches share: seen from outside,
\* files are offered by trailers and delivered by renames, each delivery the
\* whole of a file offered before it.
THEOREM TlsImplementsDelivery == Spec => ImplementsDelivery
<1>1. Init => Delivery!Init
  BY DEF Init, Delivery!Init
<1> QED BY <1>1, DeliveryNext, Invariant, PTL DEF Spec, ImplementsDelivery, Delivery!Spec
=============================================================================
