------------------------------- MODULE Framing -------------------------------
(***************************************************************************)
(* The framing both approaches talk in (common/util.py: send_frame,        *)
(* recv_exact, recv_frame), over a TCP connection through the proxy of the *)
(* tests (scripts/tamper_proxy.py), which passes on, flips a byte or kills *)
(* the link.  Without TLS: what the programs see if nothing below protects *)
(* them.                                                                   *)
(*                                                                         *)
(* TCP is external: each hop carries bytes in order, cut into blocks       *)
(* anyhow.  A socket closed with bytes unread resets its hop: of what the  *)
(* other side has not read yet, any suffix is lost.                        *)
(***************************************************************************)
EXTENDS Integers, Sequences, SequencesExt

CONSTANTS
    None,
    BASE,               \* values of a byte
    LEN_PREFIX,         \* bytes of the length prefix
    RECV_MAX,           \* the most one recv() returns
    Payloads,           \* per direction: what may be sent in a frame
    MaxFrames,          \* per direction: bound on the frames
    CommandLines        \* how the proxy is called: --mode, --at, --direction

Ends == {"client", "server"}
Directions == {"c2s", "s2c"}
From(d) == IF d = "c2s" THEN "client" ELSE "server"
To(d)   == IF d = "c2s" THEN "server" ELSE "client"
Back(d) == IF d = "c2s" THEN "s2c" ELSE "c2s"

Byte == 0..(BASE - 1)

\* struct ">Q": big-endian digits.
Weight[i \in Nat] == IF i = 0 THEN 1 ELSE BASE * Weight[i - 1]
pack(n) == [i \in 1..LEN_PREFIX |-> (n \div Weight[LEN_PREFIX - i]) % BASE]
unpack(bytes) ==
    LET value[i \in 0..Len(bytes)] == IF i = 0 THEN 0 ELSE value[i - 1] * BASE + bytes[i]
    IN  value[Len(bytes)]

\* A payload is bytes, and its length fits the prefix (struct.error otherwise).
ASSUME FramingAssumption ==
    /\ BASE \in Nat /\ BASE > 1
    /\ LEN_PREFIX \in Nat \ {0} /\ RECV_MAX \in Nat \ {0}
    /\ \A d \in Directions :
         /\ \A p \in Payloads[d] : p \in Seq(Byte) /\ Len(p) < Weight[LEN_PREFIX] /\ p # None
         /\ MaxFrames[d] \in Nat
    /\ CommandLines \subseteq [mode : {"pass", "flip", "truncate"}, at : Nat, direction : Directions]

VARIABLES
    args,               \* how the proxy is called
    open,               \* per end: is its socket open
    sent, rest,         \* per direction: frames handed to send_frame; the
                        \* payload of the last one while only its length is sent
    wire,               \* bytes on the way to the proxy
    link, relay, transferred,   \* the proxy's sockets, its two threads
    line,               \* bytes on the way from the proxy to the far end
    got, kind, need, buf        \* the far end: frames received, and recv_exact

flow == <<sent, rest>>
proxy == <<args, link, relay, transferred>>
reader == <<got, kind, need, buf>>
vars == <<args, open, sent, rest, wire, link, relay, transferred, line, got, kind, need, buf>>


Shortest(S) == CHOOSE n \in S : \A m \in S : n <= m
Drop(s, n) == SubSeq(s, n + 1, Len(s))

Init ==
    /\ args \in CommandLines
    /\ open = [e \in Ends |-> TRUE]
    /\ sent = [d \in Directions |-> <<>>]
    /\ rest = [d \in Directions |-> None]
    /\ wire = [d \in Directions |-> <<>>]
    /\ link = "up"
    /\ relay = [d \in Directions |-> "running"]
    /\ transferred = [d \in Directions |-> 0]
    /\ line = [d \in Directions |-> <<>>]
    /\ got = [d \in Directions |-> <<>>]
    /\ kind = [d \in Directions |-> "length"]
    /\ need = [d \in Directions |-> LEN_PREFIX]
    /\ buf = [d \in Directions |-> <<>>]

-----------------------------------------------------------------------------
\* sendall(), while there is a link: afterwards the bytes go nowhere, or the
\* sender is reset, which for it is Close.
sendall(d, bytes) ==
    /\ link = "up"
    /\ wire' = [wire EXCEPT ![d] = @ \o bytes]

\* send_frame(): the length, ...
SendLength(d) ==
    /\ open[From(d)] /\ rest[d] = None /\ Len(sent[d]) < MaxFrames[d]
    /\ \E payload \in Payloads[d] :
         /\ sent' = [sent EXCEPT ![d] = Append(@, payload)]
         /\ rest' = [rest EXCEPT ![d] = payload]
         /\ sendall(d, pack(Len(payload)))
    /\ UNCHANGED <<open, proxy, line, reader>>

\* ... and then the payload.
SendPayload(d) ==
    /\ open[From(d)] /\ rest[d] # None
    /\ rest' = [rest EXCEPT ![d] = None]
    /\ sendall(d, rest[d])
    /\ UNCHANGED <<open, sent, proxy, line, reader>>

\* An end is done, or fails, or is killed: its socket is closed.
Close(e) ==
    /\ open[e]
    /\ open' = [open EXCEPT ![e] = FALSE]
    /\ \E d \in Directions :
         /\ From(d) = e
         /\ IF line[Back(d)] = <<>> THEN wire' = wire
            ELSE \E w \in Prefixes(wire[d]) : wire' = [wire EXCEPT ![d] = w]
         /\ line' = [line EXCEPT ![Back(d)] = <<>>]
    /\ UNCHANGED <<flow, proxy, reader>>

-----------------------------------------------------------------------------
\* Mutant: an empty payload is waited for like any other.
Complete_WaitsForEmpty(d, bytes) ==
    /\ buf' = [buf EXCEPT ![d] = <<>>]
    /\ IF kind[d] = "length"
       THEN /\ kind' = [kind EXCEPT ![d] = "payload"]
            /\ need' = [need EXCEPT ![d] = unpack(bytes)]
            /\ got' = got
       ELSE /\ kind' = [kind EXCEPT ![d] = "length"]
            /\ need' = [need EXCEPT ![d] = LEN_PREFIX]
            /\ got' = [got EXCEPT ![d] = Append(@, bytes)]

\* recv_exact() has its bytes: those of a length call for a payload, those of
\* a payload are a frame.  No bytes are asked for an empty payload.
Complete(d, bytes) ==
    LET n == unpack(bytes)
        frame == IF kind[d] = "payload" THEN bytes ELSE <<>>
    IN  /\ buf' = [buf EXCEPT ![d] = <<>>]
        /\ IF kind[d] = "length" /\ n > 0
           THEN /\ kind' = [kind EXCEPT ![d] = "payload"]
                /\ need' = [need EXCEPT ![d] = n]
                /\ got' = got
           ELSE /\ kind' = [kind EXCEPT ![d] = "length"]
                /\ need' = [need EXCEPT ![d] = LEN_PREFIX]
                /\ got' = [got EXCEPT ![d] = Append(@, frame)]

\* Mutant: one recv() is taken for all that was asked.
recv_exact_ShortRead(d) ==
    /\ open[To(d)] /\ line[d] # <<>>
    /\ \E k \in 1..Shortest({RECV_MAX, need[d], Len(line[d])}) :
         /\ line' = [line EXCEPT ![d] = Drop(@, k)]
         /\ Complete(d, SubSeq(line[d], 1, k))
    /\ UNCHANGED <<open, flow, wire, proxy>>

\* One turn of recv_exact's loop: a block is all there is, or less.
recv_exact(d) ==
    /\ open[To(d)] /\ line[d] # <<>>
    /\ \E k \in 1..Shortest({RECV_MAX, need[d] - Len(buf[d]), Len(line[d])}) :
         LET bytes == buf[d] \o SubSeq(line[d], 1, k) IN
         /\ line' = [line EXCEPT ![d] = Drop(@, k)]
         /\ IF Len(bytes) < need[d]
            THEN buf' = [buf EXCEPT ![d] = bytes] /\ UNCHANGED <<got, kind, need>>
            ELSE Complete(d, bytes)
    /\ UNCHANGED <<open, flow, wire, proxy>>

\* Mutant: an empty block in the middle of a message is read again, forever.
PeerClosed_MidFrame(d) ==
    /\ open[To(d)] /\ line[d] = <<>> /\ link = "down"
    /\ buf[d] = <<>>
    /\ open' = [open EXCEPT ![To(d)] = FALSE]
    /\ UNCHANGED <<flow, wire, proxy, line, reader>>

\* An empty block: ConnectionError, which ends the program.
PeerClosed(d) ==
    /\ open[To(d)] /\ line[d] = <<>> /\ link = "down"
    /\ open' = [open EXCEPT ![To(d)] = FALSE]
    /\ UNCHANGED <<flow, wire, proxy, line, reader>>

-----------------------------------------------------------------------------
\* The end of _relay: whichever thread is first shuts and closes both sockets.
\* By then it has brought the far end `arrived` and not read `unread`.
KillLink(d, arrived, unread) ==
    /\ relay' = [relay EXCEPT ![d] = "done"]
    /\ link' = "down"
    /\ wire' = [x \in Directions |-> <<>>]
    /\ \E back \in Prefixes(line[Back(d)]) : \E ahead \in Prefixes(arrived) :
         /\ unread # <<>> \/ back = line[Back(d)]
         /\ wire[Back(d)] # <<>> \/ ahead = arrived
         /\ line' = [x \in Directions |-> IF x = d THEN ahead ELSE back]

Tampers(d, mode) == args.mode = mode /\ args.direction = d

\* XOR 0xFF.
Flip(data, i) == [data EXCEPT ![i] = BASE - 1 - @]

\* What the far end finds there: nobody reads from a closed socket.
Arriving(d, data) == IF open[To(d)] THEN line[d] \o data ELSE <<>>

\* Mutant: the block in which the cutoff falls is passed on whole.
Allowed_Whole(data, i) == data

\* Just up to the cutoff.
Allowed(data, i) == SubSeq(data, 1, i)

\* _relay: a block is read, tampered with, and sent on.
Relay(d) ==
    /\ relay[d] = "running" /\ link = "up" /\ wire[d] # <<>>
    /\ \E n \in 1..Shortest({RECV_MAX, Len(wire[d])}) :
         LET data == SubSeq(wire[d], 1, n)
             i == args.at - transferred[d]
         IN  \/ /\ Tampers(d, "truncate") /\ i < n
                /\ KillLink(d, Arriving(d, Allowed(data, i)), Drop(wire[d], n))
                /\ UNCHANGED transferred
             \/ /\ ~ (Tampers(d, "truncate") /\ i < n)
                /\ line' = [line EXCEPT ![d] = Arriving(d,
                       IF Tampers(d, "flip") /\ i \in 0..(n - 1) THEN Flip(data, i + 1)
                       ELSE data)]
                /\ wire' = [wire EXCEPT ![d] = Drop(@, n)]
                /\ transferred' = [transferred EXCEPT ![d] = @ + n]
                /\ UNCHANGED <<link, relay>>
    /\ UNCHANGED <<args, open, flow, reader>>

\* Mutant: a thread that is done leaves the sockets to the other one.
RelayEnds_KeepsLink(d) ==
    /\ relay[d] = "running"
    /\ \/ link = "down"
       \/ wire[d] = <<>> /\ ~ open[From(d)]
       \/ wire[d] # <<>> /\ ~ open[To(d)]
    /\ relay' = [relay EXCEPT ![d] = "done"]
    /\ UNCHANGED <<args, open, flow, wire, link, transferred, line, reader>>

\* The end of the stream, or an OSError because a socket is closed.
RelayEnds(d) ==
    /\ relay[d] = "running"
    /\ \/ /\ link = "down"
          /\ relay' = [relay EXCEPT ![d] = "done"]
          /\ UNCHANGED <<wire, link, line>>
       \/ /\ link = "up"
          /\ \/ wire[d] = <<>> /\ ~ open[From(d)]
             \/ wire[d] # <<>> /\ ~ open[To(d)]
          /\ KillLink(d, line[d], wire[d])
    /\ UNCHANGED <<args, open, flow, transferred, reader>>

\* The socket to the target was made with timeout=60: a server that has
\* nothing to say for that long loses its link, in every mode.
UpstreamSilent ==
    /\ relay["s2c"] = "running" /\ link = "up" /\ wire["s2c"] = <<>>
    /\ KillLink("s2c", line["s2c"], <<>>)
    /\ UNCHANGED <<args, open, flow, transferred, reader>>

-----------------------------------------------------------------------------
Next ==
    \/ \E d \in Directions : \/ SendLength(d) \/ SendPayload(d)
                             \/ recv_exact(d) \/ PeerClosed(d)
                             \/ Relay(d) \/ RelayEnds(d)
    \/ \E e \in Ends : Close(e)
    \/ UpstreamSilent

\* The ends go on with the frame they send and read what comes; the threads
\* of the proxy run on.  Nobody need start another frame or close.
Fairness ==
    \A d \in Directions :
      /\ WF_vars(SendPayload(d)) /\ WF_vars(recv_exact(d)) /\ WF_vars(PeerClosed(d))
      /\ WF_vars(Relay(d)) /\ WF_vars(RelayEnds(d))

Spec == Init /\ [][Next]_vars
FairSpec == Spec /\ Fairness

-----------------------------------------------------------------------------
\* The bytes of a sequence of frames.
Stream(frames) ==
    LET bytes[i \in 0..Len(frames)] ==
          IF i = 0 THEN <<>> ELSE bytes[i - 1] \o pack(Len(frames[i])) \o frames[i]
    IN  bytes[Len(frames)]

\* The state has its shape, and recv_exact never holds more than was asked.
TypeOK ==
    /\ \A d \in Directions :
         /\ Len(sent[d]) <= MaxFrames[d] /\ Len(got[d]) <= Len(Stream(sent[d]))
         /\ kind[d] \in {"length", "payload"} /\ Len(buf[d]) <= need[d]
         /\ relay[d] \in {"running", "done"}
    /\ link = "down" <=> \E d \in Directions : relay[d] = "done"

\* However TCP cuts the stream into blocks and wherever the link dies or is
\* reset: the frames recv_frame returns are the frames given to send_frame, in
\* order and whole -- a message cut short is never taken for a shorter one, nor
\* for the empty frame that ends a stream.  Only a flipped byte changes frames,
\* and none before it.
FramesIntact ==
    \A d \in Directions :
        \/ IsPrefix(got[d], sent[d])
        \/ /\ Tampers(d, "flip")
           /\ \A i \in 1..Len(sent[d]) :
                LET before == SubSeq(sent[d], 1, i) IN
                Len(Stream(before)) <= args.at =>
                    IsPrefix(got[d], before) \/ IsPrefix(before, got[d])

\* "relay N bytes, then kill both sides": nothing after the cutoff is received.
NothingPastCutoff ==
    \A d \in Directions : Tampers(d, "truncate") => Len(Stream(got[d])) <= args.at

\* Every frame arrives unless somebody closes, the link dies, or a byte of this
\* direction is flipped (a flipped length may ask for bytes that never come).
FramesArrive ==
    \A d \in Directions :
        []<>(got[d] = sent[d] \/ link = "down" \/ ~ open[To(d)] \/ Tampers(d, "flip"))

\* One end that is gone, for whatever reason, takes everything with it: both
\* threads of the proxy end and the other end finds out, even in the middle of
\* a frame.
LossIsNoticed ==
    (\E e \in Ends : ~ open[e]) ~>
        (\A e \in Ends : ~ open[e]) /\ (\A d \in Directions : relay[d] = "done")
=============================================================================
