-------------------------- MODULE EnvelopeTransfer --------------------------
(***************************************************************************)
(* Approach B from end to end: the sender of EnvelopeSender and receivers  *)
(* of EnvelopeReceiver at work at the same time, over one broker.  The     *)
(* broker answers with what it stores; what it stores is what senders and  *)
(* the threads of PUTs they have given up on have left there, torn blobs   *)
(* included (see Broker).  Both programs read the same clock.  What a kill *)
(* of a sender does to its state file is in EnvelopeSender.                *)
(***************************************************************************)
EXTENDS EnvelopeSender

CONSTANTS
    Original,           \* the version the file holds first
    Outs,               \* the --out paths; one receiver at a time per path
    FRESHNESS_WINDOW_S, CLOCK_SKEW_S, FSYNC_EVERY_CHUNKS,
    CrashKinds,         \* subset of {"kill", "power"}: crashes of the receivers
    MaxCrashes,         \* bound on them
    MaxFaults           \* bound on edits, crashes, late PUTs, ticks together

VARIABLES
    rpc, rtid, redeliver, manifest, done, seen, buffered,   \* the receivers, ...
    part, dirty, progress, final, ledger,                   \* their files, ...
    delivered, crashes,                                     \* their history
    late, lates,        \* PUTs the broker may still carry out; how many ever
    now, created,       \* the clock; created_at of each transfer
    edited,             \* was the file edited during this run of a sender
    offered             \* history: what senders signed, see FileDelivery

receivers == <<rpc, rtid, redeliver, manifest, done, seen, buffered,
               part, dirty, progress, final, ledger, delivered, crashes>>
senders == <<source, statefile, store, pc, memory, generated, used, published, edits, kills>>
history == <<created, edited, offered>>
allvars == <<senders, receivers, late, lates, now, history>>

\* No blob is made up: what a broker answers comes from its store.
Receiver == INSTANCE EnvelopeReceiver
            WITH pc <- rpc, tid <- rtid, OneAtATime <- FALSE,
                 Sent <- {}, Rogue <- {}, Ages <- {}

TransferInit ==
    /\ Init /\ source = Original
    /\ Receiver!Init
    /\ late = {} /\ lates = 0
    /\ now = 0
    /\ created = [t \in TransferIds |-> 0]
    /\ edited = [p \in Senders |-> FALSE]
    /\ offered = {}

\* A fault comes while the bounds still allow a transfer after it, besides the
\* one a sender that has taken the file's size may be about to make.
Faults == edits + crashes + lates + now
AboutToCreate == {p \in Senders : pc[p] \in {"state", "load", "create"}}
MayFail == Faults < MaxFaults /\ generated + Cardinality(AboutToCreate) < MaxTransfers

-----------------------------------------------------------------------------
\* What a step of a sender adds to the history: created_at is the time its
\* state was made, and with the manifest it vouches for all it has read.
Recorded(p) ==
    /\ created' = IF generated' = generated THEN created
                  ELSE [created EXCEPT ![generated'] = now]
    /\ edited' = [edited EXCEPT ![p] = @ /\ pc'[p] # "idle"]
    /\ offered' = IF AtManifest(p)
                  THEN offered \cup {[bytes |-> read[p], edited |-> edited[p]]}
                  ELSE offered

Sending(p) ==
    /\ Start(p) \/ Send(p) \/ BrokerFails(p)
    /\ Recorded(p)
    /\ UNCHANGED <<receivers, late, lates, now>>

\* A call of a sender fails for good, and its PUT is still on the way.
GivesUpPut(p) ==
    /\ MayFail
    /\ Uploads(p)
    /\ BrokerFails(p)
    /\ store' = store
    /\ late' = late \cup {<<PutKey(p), PutBlob(p)>>}
    /\ lates' = lates + 1
    /\ Recorded(p)
    /\ UNCHANGED <<receivers, now>>

\* The broker's thread carries it out after all, or dies over it and leaves
\* the blob half-written.
LatePut ==
    \E put \in late :
      /\ \E blob \in {put[2], Corrupt} : store' = [store EXCEPT ![put[1]] = blob]
      /\ late' = late \ {put}
      /\ UNCHANGED <<source, statefile, pc, memory, generated, used, published, edits, kills,
                     receivers, lates, now, history>>

\* The file is edited, perhaps between two reads of a sender.
Editing ==
    /\ MayFail /\ Edit
    /\ edited' = [p \in Senders |-> pc[p] # "idle"]
    /\ UNCHANGED <<receivers, late, lates, now, created, offered>>

Tick ==
    /\ MayFail
    /\ now' = now + 1
    /\ UNCHANGED <<senders, receivers, late, lates, history>>

-----------------------------------------------------------------------------
\* A receiver is started for the transfer whose id a sender printed last, or
\* for the only one that has a manifest on the broker.
StartNamed(o, t) ==
    /\ t \in published /\ \A u \in published : u <= t
    /\ Receiver!Start(o, t, FALSE)
StartOnly(o) ==
    Receiver!StartUnnamed(o, {t \in TransferIds : store[manifest_key(t)] # None}, FALSE)

GetManifest(o) ==
    \E t \in TransferIds : rtid[o] = t /\ Receiver!GetManifest(o, store[manifest_key(t)])
GetSignature(o) ==
    \E t \in TransferIds :
        rtid[o] = t /\ Receiver!GetSignature(o, store[signature_key(t)], now - created[t])
GetChunk(o) ==
    \E k \in ChunkKeys : rtid[o] = k[1] /\ Receiver!GetChunk(o, k[2], store[k])

Receive(o) == GetManifest(o) \/ GetSignature(o) \/ GetChunk(o) \/ Receiver!Work(o)

Receiving ==
    /\ \/ \E o \in Outs : \/ \E t \in TransferIds : StartNamed(o, t)
                          \/ StartOnly(o) \/ Receive(o)
                          \/ MayFail /\ Receiver!Kill(o)
       \/ MayFail /\ Receiver!PowerLoss
    /\ UNCHANGED <<senders, late, lates, now, history>>

TransferNext ==
    \/ \E p \in Senders : Sending(p) \/ GivesUpPut(p)
    \/ LatePut \/ Editing \/ Tick
    \/ Receiving

TransferSpec == TransferInit /\ [][TransferNext]_allvars

\* Senders as in EnvelopeSender: whoever finds that a transfer is no good
\* sends the file again.  A running receiver takes its next step, receivers
\* are re-run for every published transfer, and the broker lets each kind of
\* call succeed again and again.
TransferFairness ==
    /\ Fairness
    /\ \A o \in Outs :
         /\ WF_receivers(Receive(o))
         /\ WF_receivers(\E t \in TransferIds : StartNamed(o, t))
         /\ SF_receivers(GetManifest(o)) /\ SF_receivers(GetSignature(o))
         /\ SF_receivers(GetChunk(o))

TransferFairSpec == TransferSpec /\ TransferFairness

-----------------------------------------------------------------------------
\* Approach B implements the promise: whatever was edited, resumed, late, torn
\* or stale in between, a final name gets what one run of a sender has read
\* from end to end and signed.
Delivery == INSTANCE FileDelivery
ImplementsDelivery == Delivery!Spec

\* The sender publishes and the file arrives in the end.  A fault may make one
\* transfer useless for ever: an edit under the sender's hands, a chunk of an
\* older version or a torn one that a resumed sender takes for its own, an
\* upload so slow that its manifest is too old, a receiver killed between
\* writing its progress and its data.  It never harms the transfers after it.
EventuallyReceived == <>(published # {} /\ \E o \in Outs : final[o] # None)
=============================================================================
