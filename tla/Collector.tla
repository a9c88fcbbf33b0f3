----------------------------- MODULE Collector -----------------------------
(***************************************************************************)
(* The collectors of internal/collector/collector.go and the repository    *)
(* they write to.  A collector gathers messages from its subscription      *)
(* channel into a batch, saves the batch's GPUs, then its records one by   *)
(* one, then acknowledges the messages whose record was saved.             *)
(*                                                                         *)
(* The queue behind the channel and the acknowledgements is not part of    *)
(* this module: Arrive is its side of the channel, requests its side of    *)
(* Ack.  The repository answers every call in one of three ways, because   *)
(* the call may go over HTTP under the five seconds processBatch allows    *)
(* itself: it saves and says so, it fails, or it saves and the answer is   *)
(* lost.                                                                   *)
(***************************************************************************)
EXTENDS Naturals, SequencesExt

CONSTANTS
    Message,      \* message IDs
    Consumer,     \* collectors, by instance ID
    Gpu,          \* GPU UUIDs
    None,         \* an empty GPU UUID
    GpuOf,        \* the GPU of a message's payload
    Valid,        \* messages that pass validateTelemetryRecord
    BatchSize,    \* config.BatchSize
    ForeignKeys,  \* whether the backend demands the GPU of a record
    MaxFaults,    \* model bound: repository calls that go wrong
    MaxInbox      \* model bound: messages waiting in a channel

ASSUME CollectorAssumption ==
    /\ None \notin Gpu
    /\ GpuOf \in [Message -> Gpu \cup {None}]
    /\ Valid \subseteq {m \in Message : GpuOf[m] # None}
    /\ BatchSize \in Nat \ {0}
    /\ ForeignKeys \in BOOLEAN
    /\ MaxFaults \in Nat
    /\ MaxInbox \in Nat \ {0}

Phase == {"off", "select", "gpus", "records", "acks", "stopped"}

VARIABLES
    phase,      \* where processMessages is
    inbox,      \* contents of the subscription channel
    inboxOpen,  \* whether the channel is open
    ctxDone,    \* c.ctx is cancelled
    batch,      \* batch; in "records" and "acks" what is left to process
    gpuMap,     \* keys of gpuMap not saved yet
    processed,  \* processedMessages not acknowledged yet
    last,       \* processBatch was called on the way out
    gpus,       \* the repository's GPUs
    stored,     \* messages whose record the repository holds
    requests,   \* Ack calls under way
    faults,     \* repository calls that went wrong
    taken,      \* history: messages received since the collector started
    attempted   \* history: messages given to processMessage since then

collectorVars == <<phase, inbox, inboxOpen, ctxDone, batch, gpuMap,
                   processed, last, taken, attempted>>
repositoryVars == <<gpus, stored, faults>>
vars == <<phase, inbox, inboxOpen, ctxDone, batch, gpuMap, processed, last,
          gpus, stored, requests, faults, taken, attempted>>

TypeOK ==
    /\ phase \in [Consumer -> Phase]
    /\ inbox \in [Consumer -> Seq(Message)]
    /\ inboxOpen \in [Consumer -> BOOLEAN]
    /\ ctxDone \in [Consumer -> BOOLEAN]
    /\ batch \in [Consumer -> Seq(Message)]
    /\ gpuMap \in [Consumer -> SUBSET Gpu]
    /\ processed \in [Consumer -> Seq(Message)]
    /\ last \in [Consumer -> BOOLEAN]
    /\ gpus \subseteq Gpu
    /\ stored \subseteq Message
    /\ requests \subseteq Consumer \X Message
    /\ faults \in 0..MaxFaults
    /\ taken \in [Consumer -> SUBSET Message]
    /\ attempted \in [Consumer -> SUBSET Message]

Init ==
    /\ phase = [c \in Consumer |-> "off"]
    /\ inbox = [c \in Consumer |-> <<>>]
    /\ inboxOpen = [c \in Consumer |-> FALSE]
    /\ ctxDone = [c \in Consumer |-> FALSE]
    /\ batch = [c \in Consumer |-> <<>>]
    /\ gpuMap = [c \in Consumer |-> {}]
    /\ processed = [c \in Consumer |-> <<>>]
    /\ last = [c \in Consumer |-> FALSE]
    /\ gpus = {}
    /\ stored = {}
    /\ requests = {}
    /\ faults = 0
    /\ taken = [c \in Consumer |-> {}]
    /\ attempted = [c \in Consumer |-> {}]

-----------------------------------------------------------------------------
(* The process and its channel.                                            *)

\* Start subscribes and spawns processMessages.
Start(c) ==
    /\ phase[c] = "off"
    /\ phase' = [phase EXCEPT ![c] = "select"]
    /\ inboxOpen' = [inboxOpen EXCEPT ![c] = TRUE]
    /\ UNCHANGED <<inbox, ctxDone, batch, gpuMap, processed, last, taken,
                   attempted, repositoryVars, requests>>

\* Stop, or a signal: the context is cancelled.
Stop(c) ==
    /\ phase[c] \notin {"off", "stopped"}
    /\ ~ctxDone[c]
    /\ ctxDone' = [ctxDone EXCEPT ![c] = TRUE]
    /\ UNCHANGED <<phase, inbox, inboxOpen, batch, gpuMap, processed, last,
                   taken, attempted, repositoryVars, requests>>

\* The process is killed, or has exited, and is to be started again.
Crash(c) ==
    /\ phase[c] # "off"
    /\ phase' = [phase EXCEPT ![c] = "off"]
    /\ inbox' = [inbox EXCEPT ![c] = <<>>]
    /\ inboxOpen' = [inboxOpen EXCEPT ![c] = FALSE]
    /\ ctxDone' = [ctxDone EXCEPT ![c] = FALSE]
    /\ batch' = [batch EXCEPT ![c] = <<>>]
    /\ gpuMap' = [gpuMap EXCEPT ![c] = {}]
    /\ processed' = [processed EXCEPT ![c] = <<>>]
    /\ last' = [last EXCEPT ![c] = FALSE]
    /\ taken' = [taken EXCEPT ![c] = {}]
    /\ attempted' = [attempted EXCEPT ![c] = {}]
    /\ UNCHANGED <<repositoryVars, requests>>

Arrive(c, m) ==
    /\ inboxOpen[c]
    /\ Len(inbox[c]) < MaxInbox
    /\ inbox' = [inbox EXCEPT ![c] = Append(@, m)]
    /\ UNCHANGED <<phase, inboxOpen, ctxDone, batch, gpuMap, processed, last,
                   taken, attempted, repositoryVars, requests>>

\* The queue closes the channel, or the connection breaks and is not resumed.
ChannelClose(c) ==
    /\ inboxOpen[c]
    /\ inboxOpen' = [inboxOpen EXCEPT ![c] = FALSE]
    /\ UNCHANGED <<phase, inbox, ctxDone, batch, gpuMap, processed, last,
                   taken, attempted, repositoryVars, requests>>

-----------------------------------------------------------------------------
(* processMessages.                                                        *)

GpusInAll(b) == {GpuOf[m] : m \in ToSet(b)}
GpusIn(b) == {GpuOf[m] : m \in ToSet(b)} \ {None}

\* processBatch(b): the GPUs are collected first.
Begin(c, b) ==
    /\ batch' = [batch EXCEPT ![c] = b]
    /\ gpuMap' = [gpuMap EXCEPT ![c] = GpusIn(b)]
    /\ phase' = [phase EXCEPT ![c] = IF GpusIn(b) = {} THEN "records" ELSE "gpus"]

BatchFullLate(b) == Len(b) > BatchSize
BatchFull(b) == Len(b) >= BatchSize

Receive(c) ==
    /\ phase[c] = "select"
    /\ inbox[c] # <<>>
    /\ inbox' = [inbox EXCEPT ![c] = Tail(@)]
    /\ taken' = [taken EXCEPT ![c] = @ \cup {Head(inbox[c])}]
    /\ LET b == Append(batch[c], Head(inbox[c])) IN
          IF BatchFull(b)
            THEN Begin(c, b)
            ELSE batch' = [batch EXCEPT ![c] = b] /\ UNCHANGED <<gpuMap, phase>>
    /\ UNCHANGED <<inboxOpen, ctxDone, processed, last, attempted,
                   repositoryVars, requests>>

FlushDueNever(c) == FALSE
FlushDue(c) == batch[c] # <<>>

Tick(c) ==
    /\ phase[c] = "select"
    /\ FlushDue(c)
    /\ Begin(c, batch[c])
    /\ UNCHANGED <<inbox, inboxOpen, ctxDone, processed, last, taken,
                   attempted, repositoryVars, requests>>

\* The context is done, or the channel is closed and empty: what was received
\* is still processed.
RemainingNone(c) == <<>>
Remaining(c) == batch[c]

LeaveDueClosedOnly(c) == ~inboxOpen[c] /\ inbox[c] = <<>>
LeaveDue(c) == ctxDone[c] \/ (~inboxOpen[c] /\ inbox[c] = <<>>)

Leave(c) ==
    /\ phase[c] = "select"
    /\ LeaveDue(c)
    /\ last' = [last EXCEPT ![c] = TRUE]
    /\ IF Remaining(c) # <<>>
         THEN Begin(c, Remaining(c))
         ELSE phase' = [phase EXCEPT ![c] = "stopped"] /\ UNCHANGED <<batch, gpuMap>>
    /\ UNCHANGED <<inbox, inboxOpen, ctxDone, processed, taken, attempted,
                   repositoryVars, requests>>

-----------------------------------------------------------------------------
(* processBatch.                                                           *)

Fault == faults < MaxFaults /\ faults' = faults + 1

\* SaveGPU for some GPU of the map; an error is logged and ignored.
SaveGPU(c, g) ==
    /\ phase[c] = "gpus"
    /\ g \in gpuMap[c]
    /\ \/ gpus' = gpus \cup {g} /\ UNCHANGED faults
       \/ Fault /\ gpus' \in {gpus, gpus \cup {g}}
    /\ gpuMap' = [gpuMap EXCEPT ![c] = @ \ {g}]
    /\ phase' = [phase EXCEPT ![c] = IF gpuMap[c] = {g} THEN "records" ELSE "gpus"]
    /\ UNCHANGED <<inbox, inboxOpen, ctxDone, batch, processed, last, taken,
                   attempted, stored, requests>>

\* validateTelemetryRecord accepts the record of m.
Validated(m) == m \in Valid

\* The repository accepts the record of m.
Storable(m) == ForeignKeys => GpuOf[m] \in gpus

\* Once the last message has been processed its batch is acknowledged, or, with
\* nothing to acknowledge, over.
AfterBatch(c) == IF last[c] THEN "stopped" ELSE "select"
AfterRecord(c, done) ==
    IF Len(batch[c]) > 1 THEN "records"
    ELSE IF done # <<>> THEN "acks"
    ELSE AfterBatch(c)

\* processedMessages after m could not be saved.
FailedAppendAnyway(c, m) == Append(processed[c], m)
FailedAppend(c, m) == processed[c]

Processed(c, m, done) ==
    /\ batch' = [batch EXCEPT ![c] = Tail(@)]
    /\ processed' = [processed EXCEPT ![c] = done]
    /\ phase' = [phase EXCEPT ![c] = AfterRecord(c, done)]
    /\ attempted' = [attempted EXCEPT ![c] = @ \cup {m}]
    /\ UNCHANGED <<inbox, inboxOpen, ctxDone, gpuMap, last, taken, gpus, requests>>

RecordSaved(c) ==
    /\ phase[c] = "records"
    /\ LET m == Head(batch[c]) IN
          /\ Validated(m)
          /\ Storable(m)
          /\ stored' = stored \cup {m}
          /\ Processed(c, m, Append(processed[c], m))
    /\ UNCHANGED faults

\* Refused by validation or by the foreign key, at no one's fault.
RecordRefused(c) ==
    /\ phase[c] = "records"
    /\ LET m == Head(batch[c]) IN
          /\ ~Validated(m) \/ ~Storable(m)
          /\ Processed(c, m, FailedAppend(c, m))
    /\ UNCHANGED <<stored, faults>>

\* The call fails, or succeeds without the collector learning of it.
RecordFails(c) ==
    /\ phase[c] = "records"
    /\ LET m == Head(batch[c]) IN
          /\ Validated(m)
          /\ Storable(m)
          /\ Fault
          /\ stored' \in {stored, stored \cup {m}}
          /\ Processed(c, m, FailedAppend(c, m))

\* The arguments of Ack.
AckRequest(c, m) == <<c, m>>

\* Ack; its error is logged and ignored, so the collector goes on whatever
\* becomes of the request.
Ack(c) ==
    /\ phase[c] = "acks"
    /\ requests' = requests \cup {AckRequest(c, Head(processed[c]))}
    /\ processed' = [processed EXCEPT ![c] = Tail(@)]
    /\ phase' = [phase EXCEPT ![c] = IF Len(processed[c]) > 1 THEN "acks" ELSE AfterBatch(c)]
    /\ UNCHANGED <<inbox, inboxOpen, ctxDone, batch, gpuMap, last, taken,
                   attempted, repositoryVars>>

-----------------------------------------------------------------------------

\* A request is answered, or its context expires on the way.
RequestEnds(c, m) ==
    /\ <<c, m>> \in requests
    /\ requests' = requests \ {<<c, m>>}
    /\ UNCHANGED <<collectorVars, repositoryVars>>

ProcessMessages(c) == Receive(c) \/ Tick(c) \/ Leave(c)

ProcessBatch(c) ==
    \/ \E g \in Gpu : SaveGPU(c, g)
    \/ RecordSaved(c) \/ RecordRefused(c) \/ RecordFails(c) \/ Ack(c)

Next ==
    \E c \in Consumer :
        \/ Start(c) \/ Stop(c) \/ Crash(c) \/ ChannelClose(c)
        \/ \E m \in Message : Arrive(c, m) \/ RequestEnds(c, m)
        \/ ProcessMessages(c)
        \/ ProcessBatch(c)

Spec == Init /\ [][Next]_vars

\* The collector's goroutine keeps running.  Its select chooses at random among
\* the ready cases, so it does not ignore the ticker or the context for ever.
Fairness ==
    \A c \in Consumer :
        /\ WF_vars(ProcessMessages(c) \/ ProcessBatch(c))
        /\ SF_vars(Tick(c))
        /\ SF_vars(Leave(c))

FairSpec == Spec /\ Fairness

-----------------------------------------------------------------------------
(* Properties.                                                             *)

\* Only messages whose record is in the repository are acknowledged, however
\* calls fail, answers get lost, and collectors are killed between the steps.
AckedIsStored ==
    /\ \A r \in requests : r[2] \in stored
    /\ \A c \in Consumer : ToSet(processed[c]) \subseteq stored

\* A collector that stops, rather than being killed, has tried to save every
\* message it took off its channel.
NothingTakenIsAbandoned ==
    \A c \in Consumer : phase[c] = "stopped" => taken[c] = attempted[c]

\* A batch is closed before the next one is opened: nothing of the earlier one
\* is left to save or to acknowledge.
BatchesDoNotMix ==
    \A c \in Consumer :
        /\ phase[c] \in {"select", "stopped"} => processed[c] = <<>> /\ gpuMap[c] = {}
        /\ phase[c] # "gpus" => gpuMap[c] = {}
        /\ phase[c] \in {"gpus", "records"} => batch[c] # <<>>
        /\ phase[c] = "acks" => processed[c] # <<>> /\ batch[c] = <<>>
        /\ phase[c] = "stopped" => batch[c] = <<>>
        /\ Len(batch[c]) + Len(processed[c]) <= BatchSize

\* What the comments of processBatch (collector.go:180) say: every stored record
\* has its GPU. No invariant of the code: a failed SaveGPU is only logged, and a
\* backend without foreign keys takes the record all the same.
StoredHasGPU == \A m \in stored : GpuOf[m] \in gpus

\* A message taken off the channel is tried within the flush interval, unless
\* the collector is killed.
TakenIsAttempted ==
    \A c \in Consumer, m \in Message :
        m \in taken[c] ~> (m \in attempted[c] \/ phase[c] = "off")

\* Stop returns: the batch under way and the remaining one are finished.
StopReturns ==
    \A c \in Consumer : ctxDone[c] ~> phase[c] \in {"stopped", "off"}
=============================================================================
