-------------------------- MODULE Pipeline_proofs --------------------------
(***************************************************************************)
(* Machine-checked facts about Pipeline, for any messages, subscriptions,  *)
(* collectors and faults.  What Collector_proofs shows of the collectors   *)
(* and the repository is taken over through Sound: every step of the       *)
(* pipeline is one of theirs, leaves them alone, or does to them what the  *)
(* network does.                                                           *)
(***************************************************************************)
EXTENDS Pipeline, TLAPS

Sound == INSTANCE Collector_proofs

-----------------------------------------------------------------------------
(* The collectors within the pipeline.                                     *)

\* The pipeline assumes of the collectors' constants what they do.
LEMMA SoundAssumption == Sound!CollectorAssumption
BY PipelineAssumption DEF Sound!CollectorAssumption, Coll!CollectorAssumption

\* What a collector does in the pipeline is what it does on its own.
LEMMA CollectorSteps ==
    ASSUME NEW c \in Consumer
    PROVE  /\ Coll!Start(c) => Sound!Next
           /\ Coll!Stop(c) => Sound!Next
           /\ Coll!Crash(c) => Sound!Next
           /\ \A m \in Message : Coll!Arrive(c, m) \/ Coll!RequestEnds(c, m) => Sound!Next
           /\ Coll!ProcessMessages(c) => Sound!Next
           /\ Coll!ProcessBatch(c) => Sound!Next
<1> USE DEF Coll!repositoryVars, Sound!repositoryVars
<1>1. Coll!Start(c) => Sound!Start(c)
  BY DEF Coll!Start, Sound!Start
<1>2. Coll!Stop(c) => Sound!Stop(c)
  BY DEF Coll!Stop, Sound!Stop
<1>3. Coll!Crash(c) => Sound!Crash(c)
  BY DEF Coll!Crash, Sound!Crash
<1>4. ASSUME NEW m \in Message
      PROVE  /\ Coll!Arrive(c, m) => Sound!Arrive(c, m)
             /\ Coll!RequestEnds(c, m) => Sound!RequestEnds(c, m)
  BY DEF Coll!Arrive, Sound!Arrive, Coll!RequestEnds, Sound!RequestEnds,
         Coll!collectorVars, Sound!collectorVars
<1>5. ASSUME NEW b PROVE Coll!Begin(c, b) => Sound!Begin(c, b)
  BY DEF Coll!Begin, Sound!Begin, Coll!GpusIn, Sound!GpusIn, Coll!ToSet, Sound!ToSet
<1>6. Coll!ProcessMessages(c) => Sound!ProcessMessages(c)
  <2>1. Coll!Receive(c) => Sound!Receive(c)
    BY <1>5 DEF Coll!Receive, Sound!Receive, Coll!BatchFull, Sound!BatchFull
  <2>2. Coll!Tick(c) => Sound!Tick(c)
    BY <1>5 DEF Coll!Tick, Sound!Tick, Coll!FlushDue, Sound!FlushDue
  <2>3. Coll!Leave(c) => Sound!Leave(c)
    BY <1>5 DEF Coll!Leave, Sound!Leave, Coll!LeaveDue, Sound!LeaveDue, Coll!Remaining,
                Sound!Remaining
  <2> QED
    BY <2>1, <2>2, <2>3 DEF Coll!ProcessMessages, Sound!ProcessMessages
<1>7. ASSUME NEW m, NEW done PROVE Coll!Processed(c, m, done) => Sound!Processed(c, m, done)
  BY DEF Coll!Processed, Sound!Processed, Coll!AfterRecord, Sound!AfterRecord,
         Coll!AfterBatch, Sound!AfterBatch
<1>8. Coll!ProcessBatch(c) => Sound!ProcessBatch(c)
  <2> USE DEF Coll!Fault, Sound!Fault, Coll!Validated, Sound!Validated, Coll!Storable,
              Sound!Storable, Coll!FailedAppend, Sound!FailedAppend
  <2>1. ASSUME NEW g \in Gpu PROVE Coll!SaveGPU(c, g) => Sound!SaveGPU(c, g)
    BY DEF Coll!SaveGPU, Sound!SaveGPU
  <2>2. Coll!RecordSaved(c) => Sound!RecordSaved(c)
    BY <1>7 DEF Coll!RecordSaved, Sound!RecordSaved
  <2>3. Coll!RecordRefused(c) => Sound!RecordRefused(c)
    BY <1>7 DEF Coll!RecordRefused, Sound!RecordRefused
  <2>4. Coll!RecordFails(c) => Sound!RecordFails(c)
    BY <1>7 DEF Coll!RecordFails, Sound!RecordFails
  <2>5. Coll!Ack(c) => Sound!Ack(c)
    BY DEF Coll!Ack, Sound!Ack, Coll!AckRequest, Sound!AckRequest, Coll!AfterBatch,
           Sound!AfterBatch
  <2> QED
    BY <2>1, <2>2, <2>3, <2>4, <2>5 DEF Coll!ProcessBatch, Sound!ProcessBatch
<1> QED
  BY <1>1, <1>2, <1>3, <1>4, <1>6, <1>8 DEF Sound!Next

-----------------------------------------------------------------------------
(* The inductive invariant.                                                *)

QueueType ==
    /\ status \in [Message -> {"new", "ready", "handed", "leased", "settled", "lost"}]
    /\ recipients \in [Message -> SUBSET Sub]
    /\ holder \in [Message -> Consumer \cup {None}]

StreamType ==
    /\ stream \in [Consumer -> Sub \cup {None}]
    /\ listed \subseteq used
    /\ used \subseteq Sub

\* Each half of the pipeline keeps its own invariant; between them stands
\* SettledIsStored, which rests on AckedIsStored of the collectors: a request
\* under way names a record that is stored.
Inv == QueueType /\ StreamType /\ Sound!Inv /\ SettledIsStored /\ OpenStreamIsFed

\* The pipeline's types are those of its parts.
LEMMA Types == Inv => TypeOK
<1>1. Sound!TypeOK => Coll!TypeOK
  BY DEF Sound!TypeOK, Coll!TypeOK, Sound!Phase, Coll!Phase
<1> QED
  BY <1>1 DEF Inv, TypeOK, Queue!TypeOK, Queue!Status, QueueType, StreamType, Sound!Inv

\* The parts of the pipeline start with it.
LEMMA InvInit == Init => Inv
<1> SUFFICES ASSUME Init PROVE Inv
  OBVIOUS
<1>1. Sound!Init
  BY DEF Init, Coll!Init, Sound!Init
<1>2. Sound!Inv
  BY <1>1, SoundAssumption, Sound!InvInit
<1> QED
  BY <1>2, PipelineAssumption
     DEF Init, Inv, Queue!Init, QueueType, StreamType, SettledIsStored, Queue!In, OpenStreamIsFed

\* A stream that breaks takes what was not read with it and nothing else.
LEMMA DisconnectKeeps ==
    ASSUME Sound!Inv, NEW c \in Consumer, Disconnect(c)
    PROVE  Sound!Inv'
<1>1. PICK n \in 0..Len(inbox[c]) : inbox' = [inbox EXCEPT ![c] = SubSeq(@, 1, n)]
  BY DEF Disconnect
<1>2. inbox \in [Consumer -> Seq(Message)]
  BY DEF Sound!Inv, Sound!TypeOK
<1>3. SubSeq(inbox[c], 1, n) \in Seq(Message)
  BY <1>2
<1>4. inbox' \in [Consumer -> Seq(Message)]
  BY <1>1, <1>2, <1>3
<1>5. UNCHANGED <<phase, inboxOpen, ctxDone, batch, gpuMap, processed, last, gpus,
                  stored, requests, faults, taken, attempted>>
  BY DEF Disconnect
<1>6. Sound!TypeOK'
  BY <1>4, <1>5 DEF Sound!Inv, Sound!TypeOK
<1>7. Sound!AckedIsStored'
  BY <1>5 DEF Sound!Inv, Sound!AckedIsStored
<1>8. \A d \in Consumer : Sound!Shape(d)'
  BY <1>5 DEF Sound!Inv, Sound!Shape
<1> QED
  BY <1>6, <1>7, <1>8 DEF Sound!Inv

\* Requests that get lost, or are repeated, leave the collectors as they are.
LEMMA NetworkKeeps ==
    ASSUME Sound!Inv, Coll!Fault, requests' \subseteq requests,
           UNCHANGED <<localVars, gpus, stored>>
    PROVE  Sound!Inv'
<1>1. faults' \in 0..MaxFaults
  BY PipelineAssumption DEF Coll!CollectorAssumption, Coll!Fault, Sound!Inv, Sound!TypeOK
<1>2. UNCHANGED <<phase, inbox, inboxOpen, ctxDone, batch, gpuMap, processed, last,
                  taken, attempted, gpus, stored>>
  BY DEF localVars
<1>3. Sound!TypeOK'
  BY <1>1, <1>2 DEF Sound!Inv, Sound!TypeOK
<1>4. Sound!AckedIsStored'
  BY <1>2 DEF Sound!Inv, Sound!AckedIsStored
<1>5. \A d \in Consumer : Sound!Shape(d)'
  BY <1>2 DEF Sound!Inv, Sound!Shape
<1> QED
  BY <1>3, <1>4, <1>5 DEF Sound!Inv

\* Every step keeps what holds of the collectors, and no record is removed.
LEMMA CollectorsKeep ==
    ASSUME Sound!Inv, [Next]_vars
    PROVE  Sound!Inv' /\ stored \subseteq stored'
<1>1. ASSUME UNCHANGED collVars PROVE Sound!Inv' /\ stored \subseteq stored'
  <2>1. [Sound!Next]_(Sound!vars)
    BY <1>1 DEF collVars, localVars, Sound!vars
  <2> QED
    BY <1>1, <2>1, SoundAssumption, Sound!InvStep DEF collVars
<1>2. ASSUME Sound!Next PROVE Sound!Inv' /\ stored \subseteq stored'
  <2>1. Sound!Inv'
    BY <1>2, SoundAssumption, Sound!InvStep
  <2>2. stored \subseteq stored'
    BY <1>2 DEF Sound!Next, Sound!Start, Sound!Stop, Sound!Crash, Sound!ChannelClose,
                Sound!Arrive, Sound!RequestEnds, Sound!ProcessMessages, Sound!Receive,
                Sound!Tick, Sound!Leave, Sound!ProcessBatch, Sound!SaveGPU,
                Sound!RecordSaved, Sound!RecordRefused, Sound!RecordFails, Sound!Ack,
                Sound!repositoryVars
  <2> QED
    BY <2>1, <2>2
<1>3. CASE UNCHANGED vars
  BY <1>1, <1>3 DEF vars
<1>4. ASSUME NEW m \in Message, QueueStep(m) PROVE Sound!Inv' /\ stored \subseteq stored'
  BY <1>1, <1>4 DEF QueueStep, Publish, RecordLease, Drop, LeaseTimesOut, LeaseExpires
<1>5. ASSUME NEW m \in Message, NEW s \in Sub, Deliver(m, s)
      PROVE  Sound!Inv' /\ stored \subseteq stored'
  <2>1. ConsumerOf[s] \in Consumer
    BY PipelineAssumption
  <2> QED
    BY <1>1, <1>2, <1>5, <2>1, CollectorSteps DEF Deliver
<1>6. ASSUME NEW s \in Sub, Forget(s) \/ \E c \in Consumer : Connect(c, s)
      PROVE  Sound!Inv' /\ stored \subseteq stored'
  BY <1>1, <1>6 DEF Forget, Connect
<1>7. ASSUME NEW c \in Consumer, CollectorStep(c) PROVE Sound!Inv' /\ stored \subseteq stored'
  <2>1. CASE Disconnect(c)
    BY <2>1, DisconnectKeeps DEF Disconnect
  <2>2. CASE ~Disconnect(c)
    BY <1>2, <1>7, <2>2, CollectorSteps
       DEF CollectorStep, StartCollector, StopCollector, KillCollector, Collect
  <2> QED
    BY <2>1, <2>2
<1>8. ASSUME NEW c \in Consumer, NEW m \in Message, AckArrives(c, m)
      PROVE  Sound!Inv' /\ stored \subseteq stored'
  <2>1. CASE Coll!RequestEnds(c, m)
    BY <1>2, <2>1, CollectorSteps
  <2>2. CASE Coll!Fault /\ UNCHANGED <<localVars, gpus, stored, requests>>
    BY <2>2, NetworkKeeps
  <2> QED
    BY <1>8, <2>1, <2>2 DEF AckArrives
<1>9. ASSUME NEW c \in Consumer, NEW m \in Message, AckLost(c, m)
      PROVE  Sound!Inv' /\ stored \subseteq stored'
  BY <1>9, NetworkKeeps DEF AckLost
<1> QED
  BY <1>3, <1>4, <1>5, <1>6, <1>7, <1>8, <1>9 DEF Next

-----------------------------------------------------------------------------
(* The queue and the streams.                                              *)

\* Every step keeps the types of the queue and of the streams.
LEMMA TypesKept ==
    ASSUME QueueType, StreamType, [Next]_vars
    PROVE  QueueType' /\ StreamType'
<1> USE DEF QueueType, StreamType
<1>1. CASE UNCHANGED vars
  BY <1>1 DEF vars, queueVars, streamVars
<1>2. ASSUME NEW m \in Message, QueueStep(m) PROVE QueueType' /\ StreamType'
  <2>1. UNCHANGED streamVars
    BY <1>2 DEF QueueStep, Publish, RecordLease, Drop, LeaseTimesOut, LeaseExpires
  <2>2. CASE Publish(m) \/ Drop(m)
    BY <2>1, <2>2 DEF Publish, Drop, Queue!Accept, Queue!Lose, Queue!Move, streamVars
  <2>3. CASE RecordLease(m)
    BY <2>1, <2>3, PipelineAssumption DEF RecordLease, Queue!Lease, streamVars
  <2>4. CASE LeaseTimesOut(m) \/ LeaseExpires(m)
    BY <2>1, <2>4 DEF LeaseTimesOut, LeaseExpires, Queue!Reclaim, streamVars
  <2> QED
    BY <1>2, <2>2, <2>3, <2>4 DEF QueueStep
<1>3. ASSUME NEW m \in Message, NEW s \in Sub, Deliver(m, s) PROVE QueueType' /\ StreamType'
  BY <1>3 DEF Deliver, Queue!Hand, Queue!Move, streamVars
<1>4. ASSUME NEW s \in Sub, Forget(s) PROVE QueueType' /\ StreamType'
  BY <1>4 DEF Forget, queueVars
<1>5. ASSUME NEW c \in Consumer, NEW s \in Sub, Connect(c, s) PROVE QueueType' /\ StreamType'
  BY <1>5 DEF Connect, queueVars
<1>6. ASSUME NEW c \in Consumer, CollectorStep(c) PROVE QueueType' /\ StreamType'
  BY <1>6 DEF CollectorStep, StartCollector, StopCollector, KillCollector, Collect, Disconnect,
              queueVars, streamVars
<1>7. ASSUME NEW c \in Consumer, NEW m \in Message, AckArrives(c, m) \/ AckLost(c, m)
      PROVE  QueueType' /\ StreamType'
  BY <1>7 DEF AckArrives, AckLost, Queue!Settle, Queue!Move, queueVars, streamVars
<1> QED
  BY <1>1, <1>2, <1>3, <1>4, <1>5, <1>6, <1>7 DEF Next

\* Only an Ack request settles a message, and it names a stored one.
LEMMA SettledKept ==
    ASSUME QueueType, Sound!Inv, SettledIsStored, [Next]_vars, stored \subseteq stored'
    PROVE  SettledIsStored'
<1> USE DEF QueueType, SettledIsStored, Queue!In
<1>1. ASSUME \A m \in Message : status'[m] = "settled" => status[m] = "settled" \/ m \in stored
      PROVE  SettledIsStored'
  BY <1>1
<1>2. CASE UNCHANGED queueVars
  BY <1>1, <1>2 DEF queueVars
<1>3. ASSUME NEW m \in Message, QueueStep(m) PROVE SettledIsStored'
  <2>1. CASE Publish(m) \/ Drop(m)
    BY <1>1, <2>1 DEF Publish, Drop, Queue!Accept, Queue!Lose, Queue!Move
  <2>2. CASE RecordLease(m)
    BY <1>1, <2>2 DEF RecordLease, Queue!Lease
  <2>3. CASE LeaseTimesOut(m) \/ LeaseExpires(m)
    BY <1>1, <2>3 DEF LeaseTimesOut, LeaseExpires, Queue!Reclaim
  <2> QED
    BY <1>3, <2>1, <2>2, <2>3 DEF QueueStep
<1>4. ASSUME NEW m \in Message, NEW s \in Sub, Deliver(m, s) PROVE SettledIsStored'
  BY <1>1, <1>4 DEF Deliver, Queue!Hand, Queue!Move
<1>5. ASSUME NEW c \in Consumer, NEW m \in Message, AckArrives(c, m) PROVE SettledIsStored'
  <2>1. m \in stored
    BY <1>5 DEF AckArrives, Sound!Inv, Sound!AckedIsStored
  <2>2. CASE Queue!Settle(m)
    BY <1>1, <2>1, <2>2 DEF Queue!Settle, Queue!Move
  <2> QED
    BY <1>2, <1>5, <2>2 DEF AckArrives
<1>6. CASE \/ UNCHANGED vars
           \/ \E s \in Sub : Forget(s)
           \/ \E c \in Consumer, s \in Sub : Connect(c, s)
           \/ \E c \in Consumer : CollectorStep(c)
           \/ \E c \in Consumer, m \in Message : AckLost(c, m)
  <2>1. UNCHANGED queueVars
    BY <1>6 DEF vars, Forget, Connect, CollectorStep, StartCollector, StopCollector,
                KillCollector, Collect, Disconnect, AckLost
  <2> QED
    BY <1>2, <2>1
<1> QED
  BY <1>3, <1>4, <1>5, <1>6 DEF Next

\* The clean-up of one subscription takes none out of the list that a stream is
\* open for.
LEMMA StreamsFed ==
    ASSUME StreamType, OpenStreamIsFed, [Next]_vars
    PROVE  OpenStreamIsFed'
<1> USE DEF StreamType, OpenStreamIsFed
<1>1. CASE UNCHANGED streamVars
  BY <1>1 DEF streamVars
<1>2. ASSUME NEW s \in Sub, Forget(s) PROVE OpenStreamIsFed'
  <2>1. \A c \in Consumer : stream[c] # None => stream[c] # s
    BY <1>2, PipelineAssumption DEF Forget
  <2> QED
    BY <1>2, <2>1 DEF Forget, Removed
<1>3. ASSUME NEW c \in Consumer, NEW s \in Sub, Connect(c, s) PROVE OpenStreamIsFed'
  BY <1>3 DEF Connect
<1>4. ASSUME NEW c \in Consumer, KillCollector(c) \/ Disconnect(c) PROVE OpenStreamIsFed'
  BY <1>4 DEF KillCollector, Disconnect
<1>5. CASE \/ UNCHANGED vars
           \/ \E m \in Message : QueueStep(m)
           \/ \E m \in Message, s \in Sub : Deliver(m, s)
           \/ \E c \in Consumer : StartCollector(c) \/ StopCollector(c) \/ Collect(c)
           \/ \E c \in Consumer, m \in Message : AckArrives(c, m) \/ AckLost(c, m)
  <2>1. UNCHANGED streamVars
    BY <1>5 DEF vars, QueueStep, Publish, RecordLease, Drop, LeaseTimesOut, LeaseExpires,
                Deliver, StartCollector, StopCollector, Collect, AckArrives, AckLost
  <2> QED
    BY <1>1, <2>1
<1> QED
  BY <1>2, <1>3, <1>4, <1>5 DEF Next, CollectorStep

-----------------------------------------------------------------------------
(* The theorems.                                                           *)

\* No step breaks the invariant.
LEMMA InvStep == Inv /\ [Next]_vars => Inv'
<1> SUFFICES ASSUME Inv, [Next]_vars PROVE Inv'
  OBVIOUS
<1>1. Sound!Inv' /\ stored \subseteq stored'
  BY CollectorsKeep DEF Inv
<1>2. QueueType' /\ StreamType'
  BY TypesKept DEF Inv
<1>3. SettledIsStored'
  BY <1>1, SettledKept DEF Inv
<1>4. OpenStreamIsFed'
  BY StreamsFed DEF Inv
<1> QED
  BY <1>1, <1>2, <1>3, <1>4 DEF Inv

\* So it always holds.
LEMMA Invariance == Spec => []Inv
BY InvInit, InvStep, PTL DEF Spec

\* Every reachable state of the pipeline is well typed.
THEOREM TypeCorrect == Spec => []TypeOK
BY Types, Invariance, PTL

\* For any number of messages, collectors, subscriptions and faults: what the
\* queue takes for acknowledged, and so never delivers again, is in the
\* repository, whichever collector saved it and whichever acknowledged it,
\* however late.
THEOREM NothingSettledIsLost == Spec => []SettledIsStored
<1>1. Inv => SettledIsStored
  BY DEF Inv
<1> QED
  BY <1>1, Invariance, PTL

\* The subscription behind an open stream is in the queue's list, however often
\* its consumer has come back and whenever the old ones are cleaned up.
THEOREM StreamsStayFed == Spec => []OpenStreamIsFed
<1>1. Inv => OpenStreamIsFed
  BY DEF Inv
<1> QED
  BY <1>1, Invariance, PTL

\* Redelivery, reopened streams and acknowledgements that arrive twice do not
\* mix the batches of a collector, and one that stops has tried all it took.
THEOREM CollectorsStaySound ==
    Spec => [](Sound!BatchesDoNotMix /\ Sound!NothingTakenIsAbandoned)
<1>1. Inv => Sound!BatchesDoNotMix /\ Sound!NothingTakenIsAbandoned
  BY SoundAssumption, Sound!ShapesTell DEF Inv
<1> QED
  BY <1>1, Invariance, PTL

\* The pipeline uses the queue only as LeaseQueue promises: what InMemoryQueue
\* is shown to implement is all that the theorems above rest on.
THEOREM QueueIsLeaseQueue == Spec => Queue!Spec
<1>1. Init => Queue!Init
  BY DEF Init
<1>2. [Next]_vars => [Queue!Next]_(Queue!vars)
  <2> SUFFICES ASSUME [Next]_vars PROVE Queue!Next \/ UNCHANGED queueVars
    BY DEF Queue!vars, queueVars
  <2> USE DEF Queue!Next
  <2>1. ASSUME NEW m \in Message, QueueStep(m) PROVE Queue!Next
    <3>1. CASE Publish(m)
      BY <3>1 DEF Publish, Queue!Accept
    <3>2. CASE RecordLease(m)
      BY <3>2 DEF RecordLease, Queue!Lease
    <3>3. CASE Drop(m)
      <4>1. {m} \in (SUBSET Queue!In("ready")) \cup (SUBSET Queue!In("handed"))
        BY <3>3 DEF Drop
      <4> QED
        BY <3>3, <4>1 DEF Drop
    <3>4. CASE LeaseTimesOut(m)
      <4>1. {m} \in SUBSET Queue!In("leased") /\ {} \in SUBSET Queue!In("leased")
        BY <3>4 DEF LeaseTimesOut
      <4> QED
        BY <3>4, <4>1 DEF LeaseTimesOut
    <3>5. CASE LeaseExpires(m)
      <4>1. {m} \in SUBSET Queue!In("leased") /\ {} \in SUBSET Queue!In("leased")
        BY <3>5 DEF LeaseExpires
      <4> QED
        BY <3>5, <4>1 DEF LeaseExpires
    <3> QED
      BY <2>1, <3>1, <3>2, <3>3, <3>4, <3>5 DEF QueueStep
  <2>2. ASSUME NEW m \in Message, NEW s \in Sub, Deliver(m, s) PROVE Queue!Next
    BY <2>2 DEF Deliver, Queue!Hand
  <2>3. ASSUME NEW c \in Consumer, NEW m \in Message, AckArrives(c, m)
        PROVE  Queue!Next \/ UNCHANGED queueVars
    BY <2>3 DEF AckArrives, AckSettles
  <2>4. CASE \/ UNCHANGED vars
             \/ \E s \in Sub : Forget(s)
             \/ \E c \in Consumer, s \in Sub : Connect(c, s)
             \/ \E c \in Consumer : CollectorStep(c)
             \/ \E c \in Consumer, m \in Message : AckLost(c, m)
    BY <2>4 DEF vars, Forget, Connect, CollectorStep, StartCollector, StopCollector,
                KillCollector, Collect, Disconnect, AckLost
  <2> QED
    BY <2>1, <2>2, <2>3, <2>4 DEF Next
<1> QED
  BY <1>1, <1>2, PTL DEF Spec, Queue!Spec
=============================================================================
