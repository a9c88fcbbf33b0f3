-------------------------- MODULE Collector_proofs --------------------------
(***************************************************************************)
(* Machine-checked facts about Collector, for any messages, collectors,    *)
(* GPUs and batch size, and for any number of faults: what is acknowledged *)
(* is stored, batches do not mix, and a collector that stops has tried     *)
(* everything it took.                                                     *)
(***************************************************************************)
EXTENDS Collector, SequenceTheorems, TLAPS

-----------------------------------------------------------------------------
(* Facts about sequences and the set of their elements.                    *)

\* The elements of a list.
LEMMA Elements ==
    ASSUME NEW S, NEW s \in Seq(S)
    PROVE  ToSet(s) = {s[i] : i \in 1..Len(s)}
<1>1. DOMAIN s = 1..Len(s)
  OBVIOUS
<1> QED
  BY <1>1, Zenon DEF ToSet

\* Nothing is in the empty list, and only in it.
LEMMA EmptyList ==
    /\ ToSet(<<>>) = {}
    /\ Len(<<>>) = 0
    /\ \A S : \A s \in Seq(S) : s # <<>> <=> Len(s) # 0
BY DEF ToSet

\* The first element of a list and the rest of it.
LEMMA HeadTail ==
    ASSUME NEW S, NEW s \in Seq(S), s # <<>>
    PROVE  /\ Head(s) \in S
           /\ Tail(s) \in Seq(S)
           /\ Len(s) \in Nat \ {0}
           /\ Len(Tail(s)) = Len(s) - 1
           /\ Len(s) > 1 <=> Tail(s) # <<>>
           /\ ToSet(s) = {Head(s)} \cup ToSet(Tail(s))
<1>1. /\ Head(s) \in S /\ Head(s) = s[1] /\ Tail(s) \in Seq(S)
      /\ Len(s) \in Nat \ {0} /\ Len(Tail(s)) = Len(s) - 1
  OBVIOUS
<1>2. \A i \in 1..Len(Tail(s)) : Tail(s)[i] = s[i + 1]
  BY <1>1
<1>3. ToSet(s) = {s[i] : i \in 1..Len(s)} /\ ToSet(Tail(s)) = {Tail(s)[i] : i \in 1..Len(Tail(s))}
  BY <1>1, Elements, Zenon
<1>4. ASSUME NEW i \in 1..Len(s) PROVE s[i] \in {Head(s)} \cup ToSet(Tail(s))
  <2>1. CASE i = 1
    BY <2>1, <1>1
  <2>2. CASE i # 1
    <3>1. i - 1 \in 1..Len(Tail(s)) /\ Tail(s)[i - 1] = s[i]
      BY <2>2, <1>1, <1>2
    <3> QED
      BY <3>1, <1>3
  <2> QED
    BY <2>1, <2>2
<1>5. ASSUME NEW i \in 1..Len(Tail(s)) PROVE Tail(s)[i] \in ToSet(s)
  <2>1. i + 1 \in 1..Len(s)
    BY <1>1
  <2> QED
    BY <2>1, <1>2, <1>3
<1>6. Head(s) \in ToSet(s)
  BY <1>1, <1>3
<1>7. Len(s) > 1 <=> Tail(s) # <<>>
  <2>1. \A n \in Nat \ {0} : n > 1 <=> n - 1 # 0
    OBVIOUS
  <2>2. Len(s) > 1 <=> Len(Tail(s)) # 0
    BY <1>1, <2>1, Zenon
  <2> QED
    BY <1>1, <2>2, EmptyList, Zenon
<1> QED
  BY <1>1, <1>3, <1>4, <1>5, <1>6, <1>7

\* A batch that shrinks while the list of its messages to be acknowledged grows
\* by one at most.
LEMMA StillFits ==
    ASSUME NEW k \in Nat \ {0}, NEW p \in Nat, NEW n \in Nat, NEW size \in Nat,
           k + p <= size, n <= p + 1
    PROVE  (k - 1) + n <= size
OBVIOUS

\* A list with one more element.
LEMMA AppendOne ==
    ASSUME NEW S, NEW s \in Seq(S), NEW x \in S
    PROVE  /\ Append(s, x) \in Seq(S)
           /\ Append(s, x) # <<>>
           /\ Len(s) \in Nat
           /\ Len(Append(s, x)) = Len(s) + 1
           /\ ToSet(Append(s, x)) = ToSet(s) \cup {x}
<1>1. /\ Append(s, x) \in Seq(S) /\ Append(s, x) # <<>> /\ Len(s) \in Nat
      /\ Len(Append(s, x)) = Len(s) + 1 /\ Append(s, x)[Len(s) + 1] = x
  OBVIOUS
<1>2. \A i \in 1..Len(s) : Append(s, x)[i] = s[i]
  OBVIOUS
<1>3. /\ ToSet(s) = {s[i] : i \in 1..Len(s)}
      /\ ToSet(Append(s, x)) = {Append(s, x)[i] : i \in 1..(Len(s) + 1)}
  <2>1. ToSet(Append(s, x)) = {Append(s, x)[i] : i \in 1..Len(Append(s, x))}
    BY <1>1, Elements, Zenon
  <2>2. ToSet(s) = {s[i] : i \in 1..Len(s)}
    BY Elements, Zenon
  <2> QED
    BY <1>1, <2>1, <2>2, Zenon
<1>4. 1..(Len(s) + 1) = (1..Len(s)) \cup {Len(s) + 1}
  BY <1>1
<1> QED
  BY <1>1, <1>2, <1>3, <1>4

-----------------------------------------------------------------------------
(* The inductive invariant.                                                *)

\* What the loop and the batch of one collector look like in each phase, and
\* that a message it has taken is still in its batch until it has been tried.
\* BatchesDoNotMix alone is not inductive: that a batch stays within its size
\* rests on its being shorter while it is gathered, that a collector starts
\* with nothing left over on there being nothing while it is down.
Shape(c) ==
    /\ phase[c] \in {"off", "select", "stopped"} => processed[c] = <<>>
    /\ phase[c] # "gpus" => gpuMap[c] = {}
    /\ phase[c] \in {"gpus", "records"} => batch[c] # <<>>
    /\ phase[c] = "acks" => processed[c] # <<>>
    /\ phase[c] \in {"off", "stopped", "acks"} => batch[c] = <<>>
    /\ phase[c] = "select" => Len(batch[c]) < BatchSize
    /\ Len(batch[c]) + Len(processed[c]) <= BatchSize
    /\ taken[c] = attempted[c] \cup ToSet(batch[c])

Inv == TypeOK /\ AckedIsStored /\ \A c \in Consumer : Shape(c)

\* The collectors start well typed.
LEMMA TypeInit == Init => TypeOK
BY CollectorAssumption DEF Init, TypeOK, Phase

\* What a call of processBatch begins with is well typed.
LEMMA BeginType ==
    ASSUME TypeOK, NEW c \in Consumer, NEW b \in Seq(Message), Begin(c, b)
    PROVE  /\ batch' \in [Consumer -> Seq(Message)]
           /\ gpuMap' \in [Consumer -> SUBSET Gpu]
           /\ phase' \in [Consumer -> Phase]
<1>1. \A m \in ToSet(b) : m \in Message
  BY Elements
<1>2. GpusIn(b) \in SUBSET Gpu
  BY <1>1, CollectorAssumption DEF GpusIn
<1> QED
  BY <1>2 DEF TypeOK, Begin, Phase

\* What is left when one message of a batch has been processed is well typed.
LEMMA ProcessedType ==
    ASSUME TypeOK, NEW c \in Consumer, NEW m \in Message, batch[c] # <<>>,
           NEW done \in Seq(Message), Processed(c, m, done)
    PROVE  /\ batch' \in [Consumer -> Seq(Message)]
           /\ processed' \in [Consumer -> Seq(Message)]
           /\ phase' \in [Consumer -> Phase]
           /\ attempted' \in [Consumer -> SUBSET Message]
<1>1. Tail(batch[c]) \in Seq(Message)
  BY HeadTail DEF TypeOK
<1>2. AfterRecord(c, done) \in Phase
  BY DEF AfterRecord, AfterBatch, Phase
<1> QED
  BY <1>1, <1>2 DEF TypeOK, Processed

\* Every step of a collector, and of its surroundings, keeps the types.
LEMMA TypeStep ==
    ASSUME TypeOK, \A c \in Consumer : Shape(c), [Next]_vars
    PROVE  TypeOK'
<1> USE DEF TypeOK
<1>1. CASE UNCHANGED vars
  BY <1>1 DEF vars
<1>2. ASSUME NEW c \in Consumer, Start(c) PROVE TypeOK'
  BY <1>2 DEF Start, repositoryVars, Phase
<1>3. ASSUME NEW c \in Consumer, Stop(c) PROVE TypeOK'
  BY <1>3 DEF Stop, repositoryVars
<1>4. ASSUME NEW c \in Consumer, Crash(c) PROVE TypeOK'
  BY <1>4 DEF Crash, repositoryVars, Phase
<1>5. ASSUME NEW c \in Consumer, ChannelClose(c) PROVE TypeOK'
  BY <1>5 DEF ChannelClose, repositoryVars
<1>6. ASSUME NEW c \in Consumer, NEW m \in Message, Arrive(c, m) PROVE TypeOK'
  <2>1. Append(inbox[c], m) \in Seq(Message)
    BY AppendOne
  <2> QED
    BY <1>6, <2>1 DEF Arrive, repositoryVars
<1>7. ASSUME NEW c \in Consumer, NEW m \in Message, RequestEnds(c, m) PROVE TypeOK'
  BY <1>7 DEF RequestEnds, collectorVars, repositoryVars
<1>8. ASSUME NEW c \in Consumer, Receive(c) PROVE TypeOK'
  <2> DEFINE b == Append(batch[c], Head(inbox[c]))
  <2>1. Head(inbox[c]) \in Message /\ Tail(inbox[c]) \in Seq(Message)
    BY <1>8, HeadTail DEF Receive
  <2>2. b \in Seq(Message)
    BY <2>1, AppendOne
  <2>3. /\ inbox' \in [Consumer -> Seq(Message)]
        /\ taken' \in [Consumer -> SUBSET Message]
        /\ UNCHANGED <<inboxOpen, ctxDone, processed, last, attempted, gpus, stored, faults, requests>>
    BY <1>8, <2>1 DEF Receive, repositoryVars
  <2>4. /\ batch' \in [Consumer -> Seq(Message)]
        /\ gpuMap' \in [Consumer -> SUBSET Gpu]
        /\ phase' \in [Consumer -> Phase]
    <3>1. CASE BatchFull(b)
      BY <3>1, <1>8, <2>2, BeginType DEF Receive
    <3>2. CASE ~BatchFull(b)
      BY <3>2, <1>8, <2>2 DEF Receive
    <3> QED
      BY <3>1, <3>2
  <2> QED
    BY <2>3, <2>4
<1>9. ASSUME NEW c \in Consumer, Tick(c) PROVE TypeOK'
  <2>1. batch[c] \in Seq(Message)
    OBVIOUS
  <2> QED
    BY <1>9, <2>1, BeginType DEF Tick, repositoryVars
<1>10. ASSUME NEW c \in Consumer, Leave(c) PROVE TypeOK'
  <2>1. Remaining(c) \in Seq(Message)
    BY DEF Remaining
  <2>2. /\ batch' \in [Consumer -> Seq(Message)]
        /\ gpuMap' \in [Consumer -> SUBSET Gpu]
        /\ phase' \in [Consumer -> Phase]
    <3>1. CASE Remaining(c) # <<>>
      BY <3>1, <1>10, <2>1, BeginType DEF Leave
    <3>2. CASE Remaining(c) = <<>>
      BY <3>2, <1>10 DEF Leave, Phase
    <3> QED
      BY <3>1, <3>2
  <2> QED
    BY <1>10, <2>2 DEF Leave, repositoryVars
<1>11. ASSUME NEW c \in Consumer, NEW g \in Gpu, SaveGPU(c, g) PROVE TypeOK'
  BY <1>11, CollectorAssumption DEF SaveGPU, Fault, Phase
<1>12. ASSUME NEW c \in Consumer, RecordSaved(c) \/ RecordRefused(c) \/ RecordFails(c)
       PROVE  TypeOK'
  <2> DEFINE m == Head(batch[c])
  <2>0. batch[c] # <<>>
    BY <1>12 DEF Shape, RecordSaved, RecordRefused, RecordFails
  <2>1. m \in Message
    BY <2>0, HeadTail
  <2>2. PICK done \in Seq(Message) : Processed(c, m, done)
    BY <1>12, <2>1, AppendOne DEF RecordSaved, RecordRefused, RecordFails, FailedAppend
  <2>3. stored' \subseteq Message /\ faults' \in 0..MaxFaults
    BY <1>12, <2>1, CollectorAssumption DEF RecordSaved, RecordRefused, RecordFails, Fault
  <2>4. UNCHANGED <<inbox, inboxOpen, ctxDone, gpuMap, last, taken, gpus, requests>>
    BY <2>2 DEF Processed
  <2> QED
    BY <2>0, <2>1, <2>2, <2>3, <2>4, ProcessedType
<1>13. ASSUME NEW c \in Consumer, Ack(c) PROVE TypeOK'
  <2>1. Head(processed[c]) \in Message /\ Tail(processed[c]) \in Seq(Message)
    BY <1>13, HeadTail DEF Ack, Shape
  <2> QED
    BY <1>13, <2>1 DEF Ack, AckRequest, AfterBatch, repositoryVars, Phase
<1> QED
  BY <1>1, <1>2, <1>3, <1>4, <1>5, <1>6, <1>7, <1>8, <1>9, <1>10, <1>11, <1>12, <1>13
     DEF Next, ProcessMessages, ProcessBatch

-----------------------------------------------------------------------------
(* What is acknowledged is stored.                                         *)

\* Only RecordSaved lets a message be acknowledged, and nothing takes a record
\* out of the repository.
LEMMA AckedStep ==
    ASSUME TypeOK, AckedIsStored, \A c \in Consumer : Shape(c), [Next]_vars
    PROVE  AckedIsStored'
<1> USE DEF AckedIsStored
<1>1. CASE UNCHANGED vars
  BY <1>1 DEF vars
<1>2. ASSUME NEW c \in Consumer,
             \/ Start(c) \/ Stop(c) \/ ChannelClose(c) \/ ProcessMessages(c)
             \/ \E m \in Message : Arrive(c, m)
             \/ \E g \in Gpu : SaveGPU(c, g)
      PROVE  AckedIsStored'
  <2>1. UNCHANGED <<processed, requests, stored>>
    BY <1>2 DEF Start, Stop, ChannelClose, ProcessMessages, Receive, Tick, Leave, Arrive,
                SaveGPU, repositoryVars
  <2> QED
    BY <2>1
<1>3. ASSUME NEW c \in Consumer, Crash(c) PROVE AckedIsStored'
  <2>1. processed' = [processed EXCEPT ![c] = <<>>] /\ UNCHANGED <<requests, stored>>
    BY <1>3 DEF Crash, repositoryVars
  <2> QED
    BY <2>1, EmptyList DEF TypeOK
<1>4. ASSUME NEW c \in Consumer, NEW m \in Message, RequestEnds(c, m) PROVE AckedIsStored'
  BY <1>4 DEF RequestEnds, collectorVars, repositoryVars
<1>5. ASSUME NEW c \in Consumer, RecordSaved(c) PROVE AckedIsStored'
  <2> DEFINE m == Head(batch[c])
  <2>1. m \in Message
    BY <1>5, HeadTail DEF RecordSaved, Shape, TypeOK
  <2>2. /\ processed' = [processed EXCEPT ![c] = Append(processed[c], m)]
        /\ stored' = stored \cup {m}
        /\ UNCHANGED requests
    BY <1>5 DEF RecordSaved, Processed
  <2>3. ToSet(Append(processed[c], m)) = ToSet(processed[c]) \cup {m}
    BY <2>1, AppendOne DEF TypeOK
  <2> QED
    BY <2>2, <2>3 DEF TypeOK
<1>6. ASSUME NEW c \in Consumer, RecordRefused(c) \/ RecordFails(c) PROVE AckedIsStored'
  <2>1. processed' = [processed EXCEPT ![c] = processed[c]] /\ UNCHANGED requests
    BY <1>6 DEF RecordRefused, RecordFails, Processed, FailedAppend
  <2>2. stored \subseteq stored'
    BY <1>6 DEF RecordRefused, RecordFails
  <2> QED
    BY <2>1, <2>2 DEF TypeOK
<1>7. ASSUME NEW c \in Consumer, Ack(c) PROVE AckedIsStored'
  <2> DEFINE m == Head(processed[c])
  <2>1. processed[c] # <<>> /\ processed[c] \in Seq(Message)
    BY <1>7 DEF Ack, Shape, TypeOK
  <2>2. m \in stored /\ ToSet(Tail(processed[c])) \subseteq stored
    BY <2>1, HeadTail
  <2>3. /\ requests' = requests \cup {<<c, m>>}
        /\ processed' = [processed EXCEPT ![c] = Tail(processed[c])]
        /\ UNCHANGED stored
    BY <1>7 DEF Ack, AckRequest, repositoryVars
  <2> QED
    BY <2>2, <2>3 DEF TypeOK
<1> QED
  BY <1>1, <1>2, <1>3, <1>4, <1>5, <1>6, <1>7 DEF Next, ProcessBatch

-----------------------------------------------------------------------------
(* The shape of a batch.                                                   *)

\* A step that leaves a collector's loop alone leaves its shape alone.
LEMMA ShapeFrame ==
    ASSUME NEW d \in Consumer, Shape(d),
           phase'[d] = phase[d], processed'[d] = processed[d], gpuMap'[d] = gpuMap[d],
           batch'[d] = batch[d], taken'[d] = taken[d], attempted'[d] = attempted[d]
    PROVE  Shape(d)'
BY DEF Shape

\* The shape after processBatch has been called with b, of which everything had
\* been taken before.
LEMMA ShapeBegin ==
    ASSUME TypeOK, NEW c \in Consumer, NEW b \in Seq(Message), b # <<>>,
           Begin(c, b), processed[c] = <<>>, UNCHANGED <<processed, attempted>>,
           Len(b) <= BatchSize, taken'[c] = attempted[c] \cup ToSet(b)
    PROVE  Shape(c)'
<1>1. /\ batch'[c] = b /\ gpuMap'[c] = GpusIn(b)
      /\ phase'[c] = IF GpusIn(b) = {} THEN "records" ELSE "gpus"
  BY DEF Begin, TypeOK
<1>2. processed'[c] = <<>> /\ attempted'[c] = attempted[c] /\ Len(b) \in Nat
  OBVIOUS
<1>3. Len(batch'[c]) + Len(processed'[c]) <= BatchSize
  BY <1>1, <1>2, EmptyList, CollectorAssumption
<1> QED
  BY <1>1, <1>2, <1>3 DEF Shape

\* The shape after one more record of the batch has been tried, whether or not
\* its message is to be acknowledged.
LEMMA ShapeProcessed ==
    ASSUME TypeOK, NEW c \in Consumer, Shape(c), phase[c] = "records",
           NEW done \in Seq(Message), Len(done) <= Len(processed[c]) + 1,
           Processed(c, Head(batch[c]), done)
    PROVE  Shape(c)'
<1>1. batch[c] \in Seq(Message) /\ batch[c] # <<>>
  BY DEF TypeOK, Shape
<1>2. /\ Tail(batch[c]) \in Seq(Message)
      /\ Len(batch[c]) \in Nat \ {0}
      /\ Len(Tail(batch[c])) = Len(batch[c]) - 1
      /\ Len(batch[c]) > 1 <=> Tail(batch[c]) # <<>>
      /\ ToSet(batch[c]) = {Head(batch[c])} \cup ToSet(Tail(batch[c]))
  BY <1>1, HeadTail
<1>3. /\ batch'[c] = Tail(batch[c]) /\ processed'[c] = done
      /\ phase'[c] = AfterRecord(c, done) /\ gpuMap'[c] = gpuMap[c]
      /\ attempted'[c] = attempted[c] \cup {Head(batch[c])} /\ taken'[c] = taken[c]
  BY DEF Processed, TypeOK
<1>4. Len(processed[c]) \in Nat /\ Len(done) \in Nat
  BY DEF TypeOK
<1>5. Len(batch'[c]) + Len(processed'[c]) <= BatchSize
  <2>1. Len(batch'[c]) = Len(batch[c]) - 1 /\ Len(processed'[c]) = Len(done)
    BY <1>2, <1>3
  <2>2. Len(batch[c]) + Len(processed[c]) <= BatchSize
    BY DEF Shape
  <2> QED
    BY <1>2, <1>4, <2>1, <2>2, StillFits, CollectorAssumption, Zenon
<1>6. gpuMap'[c] = {}
  BY <1>3 DEF Shape
<1>7. taken'[c] = attempted'[c] \cup ToSet(batch'[c])
  BY <1>2, <1>3 DEF Shape
<1>8. CASE Len(batch[c]) > 1
  <2>1. phase'[c] = "records"
    BY <1>8, <1>3 DEF AfterRecord
  <2>2. batch'[c] # <<>>
    BY <1>8, <1>2, <1>3, Zenon
  <2> QED
    BY <2>1, <2>2, <1>5, <1>6, <1>7 DEF Shape
<1>9. CASE ~(Len(batch[c]) > 1)
  <2>1. batch'[c] = <<>> /\ Len(batch'[c]) < BatchSize
    BY <1>9, <1>2, <1>3, EmptyList, CollectorAssumption
  <2>2. \/ phase'[c] = "acks" /\ processed'[c] # <<>>
        \/ phase'[c] \in {"select", "stopped"} /\ processed'[c] = <<>>
    BY <1>9, <1>3 DEF AfterRecord, AfterBatch
  <2> QED
    BY <2>1, <2>2, <1>5, <1>6, <1>7 DEF Shape
<1> QED
  BY <1>8, <1>9

\* Every step keeps the shape of every collector.
LEMMA ShapeStep ==
    ASSUME TypeOK, \A c \in Consumer : Shape(c), [Next]_vars
    PROVE  \A c \in Consumer : Shape(c)'
<1> SUFFICES ASSUME NEW d \in Consumer PROVE Shape(d)'
  OBVIOUS
<1>0. Shape(d)
  OBVIOUS
<1>1. CASE UNCHANGED vars
  BY <1>0, <1>1, ShapeFrame DEF vars
<1>2. ASSUME NEW c \in Consumer, c # d,
             \/ Start(c) \/ Crash(c) \/ ProcessMessages(c) \/ ProcessBatch(c)
      PROVE  Shape(d)'
  <2>1. /\ phase'[d] = phase[d] /\ processed'[d] = processed[d] /\ gpuMap'[d] = gpuMap[d]
        /\ batch'[d] = batch[d] /\ taken'[d] = taken[d] /\ attempted'[d] = attempted[d]
    BY <1>2 DEF Start, Crash, ProcessMessages, Receive, Tick, Leave, Begin, ProcessBatch,
                SaveGPU, RecordSaved, RecordRefused, RecordFails, Processed, Ack,
                repositoryVars, TypeOK
  <2> QED
    BY <1>0, <2>1, ShapeFrame
<1>3. ASSUME NEW c \in Consumer,
             \/ Stop(c) \/ ChannelClose(c)
             \/ \E m \in Message : Arrive(c, m) \/ RequestEnds(c, m)
      PROVE  Shape(d)'
  <2>1. UNCHANGED <<phase, processed, gpuMap, batch, taken, attempted>>
    BY <1>3 DEF Stop, ChannelClose, Arrive, RequestEnds, collectorVars
  <2> QED
    BY <1>0, <2>1, ShapeFrame
<1>4. CASE Start(d)
  <2>1. /\ phase'[d] = "select" /\ phase[d] = "off"
        /\ UNCHANGED <<processed, gpuMap, batch, taken, attempted>>
    BY <1>4 DEF Start, TypeOK
  <2>2. batch[d] = <<>> /\ Len(batch[d]) < BatchSize
    BY <1>0, <2>1, EmptyList, CollectorAssumption DEF Shape
  <2> QED
    BY <1>0, <2>1, <2>2 DEF Shape
<1>5. CASE Crash(d)
  <2>1. /\ phase'[d] = "off" /\ processed'[d] = <<>> /\ gpuMap'[d] = {}
        /\ batch'[d] = <<>> /\ taken'[d] = {} /\ attempted'[d] = {}
    BY <1>5 DEF Crash, TypeOK
  <2>2. Len(batch'[d]) + Len(processed'[d]) <= BatchSize
    BY <2>1, EmptyList, CollectorAssumption
  <2>3. taken'[d] = attempted'[d] \cup ToSet(batch'[d])
    BY <2>1, EmptyList
  <2> QED
    BY <2>1, <2>2, <2>3 DEF Shape
<1>6. CASE Receive(d)
  <2> DEFINE h == Head(inbox[d])
             b == Append(batch[d], h)
  <2>1. h \in Message
    BY <1>6, HeadTail DEF Receive, TypeOK
  <2>2. batch[d] \in Seq(Message)
    BY DEF TypeOK
  <2>3. /\ b \in Seq(Message) /\ b # <<>> /\ Len(batch[d]) \in Nat
        /\ Len(b) = Len(batch[d]) + 1 /\ ToSet(b) = ToSet(batch[d]) \cup {h}
    BY <2>1, <2>2, AppendOne
  <2>4. /\ phase[d] = "select" /\ taken'[d] = taken[d] \cup {h}
        /\ UNCHANGED <<processed, attempted>>
    BY <1>6 DEF Receive, TypeOK
  <2>5. /\ processed[d] = <<>> /\ gpuMap[d] = {} /\ Len(b) <= BatchSize
        /\ taken'[d] = attempted[d] \cup ToSet(b)
    BY <1>0, <2>3, <2>4, CollectorAssumption DEF Shape
  <2>6. CASE BatchFull(b)
    <3>1. Begin(d, b)
      BY <1>6, <2>6 DEF Receive
    <3> QED
      BY <2>3, <2>4, <2>5, <3>1, ShapeBegin
  <2>7. CASE ~BatchFull(b)
    <3>1. batch'[d] = b /\ UNCHANGED <<gpuMap, phase>>
      BY <1>6, <2>7 DEF Receive, TypeOK
    <3>2. Len(b) < BatchSize
      BY <2>3, <2>7, CollectorAssumption DEF BatchFull
    <3>3. Len(batch'[d]) + Len(processed'[d]) <= BatchSize
      BY <2>3, <2>4, <2>5, <3>1, <3>2, EmptyList, CollectorAssumption
    <3> QED
      BY <2>3, <2>4, <2>5, <3>1, <3>2, <3>3 DEF Shape
  <2> QED
    BY <2>6, <2>7
<1>7. CASE Tick(d) \/ (Leave(d) /\ batch[d] # <<>>)
  <2>1. /\ Begin(d, batch[d]) /\ phase[d] = "select" /\ batch[d] # <<>>
        /\ UNCHANGED <<processed, attempted, taken>>
    BY <1>7 DEF Tick, FlushDue, Leave, Remaining
  <2>2. /\ batch[d] \in Seq(Message) /\ Len(batch[d]) \in Nat
    BY DEF TypeOK
  <2>3. processed[d] = <<>> /\ Len(batch[d]) <= BatchSize
    BY <1>0, <2>1, <2>2, CollectorAssumption DEF Shape
  <2>4. taken'[d] = attempted[d] \cup ToSet(batch[d])
    BY <1>0, <2>1 DEF Shape
  <2> QED
    BY <2>1, <2>2, <2>3, <2>4, ShapeBegin
<1>8. CASE Leave(d) /\ batch[d] = <<>>
  <2>1. /\ phase[d] = "select" /\ phase'[d] = "stopped"
        /\ UNCHANGED <<processed, gpuMap, batch, taken, attempted>>
    BY <1>8 DEF Leave, Remaining, TypeOK
  <2> QED
    BY <1>0, <1>8, <2>1 DEF Shape
<1>9. ASSUME NEW g \in Gpu, SaveGPU(d, g) PROVE Shape(d)'
  <2>1. /\ phase[d] = "gpus" /\ gpuMap'[d] = gpuMap[d] \ {g}
        /\ phase'[d] = IF gpuMap[d] = {g} THEN "records" ELSE "gpus"
        /\ UNCHANGED <<processed, batch, taken, attempted>>
    BY <1>9 DEF SaveGPU, TypeOK
  <2>2. phase'[d] # "gpus" => gpuMap'[d] = {}
    BY <2>1
  <2> QED
    BY <1>0, <2>1, <2>2 DEF Shape
<1>10. CASE RecordSaved(d) \/ RecordRefused(d) \/ RecordFails(d)
  <2>1. phase[d] = "records" /\ processed[d] \in Seq(Message) /\ batch[d] \in Seq(Message)
    BY <1>10 DEF RecordSaved, RecordRefused, RecordFails, TypeOK
  <2>2. Head(batch[d]) \in Message
    BY <1>0, <2>1, HeadTail DEF Shape
  <2>3. /\ Append(processed[d], Head(batch[d])) \in Seq(Message)
        /\ Len(Append(processed[d], Head(batch[d]))) = Len(processed[d]) + 1
        /\ Len(processed[d]) \in Nat
    BY <2>1, <2>2, AppendOne
  <2>4. \E done \in {processed[d], Append(processed[d], Head(batch[d]))} :
           Processed(d, Head(batch[d]), done)
    BY <1>10 DEF RecordSaved, RecordRefused, RecordFails, FailedAppend
  <2>5. PICK done \in Seq(Message) :
           Len(done) <= Len(processed[d]) + 1 /\ Processed(d, Head(batch[d]), done)
    <3>1. \A n \in Nat : n <= n + 1 /\ n + 1 <= n + 1
      OBVIOUS
    <3>2. CASE Processed(d, Head(batch[d]), processed[d])
      BY <2>1, <2>3, <3>1, <3>2, Zenon
    <3>3. CASE Processed(d, Head(batch[d]), Append(processed[d], Head(batch[d])))
      BY <2>3, <3>1, <3>3, Zenon
    <3> QED
      BY <2>4, <3>2, <3>3, Zenon
  <2> QED
    BY <1>0, <2>1, <2>5, ShapeProcessed
<1>11. CASE Ack(d)
  <2>1. phase[d] = "acks" /\ processed[d] # <<>> /\ batch[d] = <<>>
    BY <1>0, <1>11 DEF Ack, Shape
  <2>2. /\ Len(processed[d]) \in Nat \ {0}
        /\ Tail(processed[d]) \in Seq(Message)
        /\ Len(Tail(processed[d])) = Len(processed[d]) - 1
        /\ Len(processed[d]) > 1 <=> Tail(processed[d]) # <<>>
    BY <2>1, HeadTail DEF TypeOK
  <2>3. /\ processed'[d] = Tail(processed[d])
        /\ phase'[d] = IF Len(processed[d]) > 1 THEN "acks" ELSE AfterBatch(d)
        /\ UNCHANGED <<gpuMap, batch, taken, attempted>>
    BY <1>11 DEF Ack, TypeOK
  <2>4. Len(processed[d]) > 1 <=> processed'[d] # <<>>
    BY <2>2, <2>3, Zenon
  <2>5. phase'[d] = "acks" \/ phase'[d] \in {"select", "stopped"}
    BY <2>3 DEF AfterBatch
  <2>6. phase'[d] = "acks" <=> processed'[d] # <<>>
    BY <2>3, <2>4 DEF AfterBatch
  <2>7. Len(batch'[d]) + Len(processed'[d]) <= BatchSize /\ Len(batch'[d]) < BatchSize
    <3>1. Len(batch'[d]) = 0 /\ Len(processed'[d]) = Len(processed[d]) - 1
      BY <2>1, <2>2, <2>3, EmptyList
    <3>2. Len(batch[d]) + Len(processed[d]) <= BatchSize /\ Len(batch[d]) = 0
      BY <1>0, <2>1, EmptyList DEF Shape
    <3> QED
      BY <2>2, <3>1, <3>2, CollectorAssumption
  <2> QED
    BY <1>0, <2>1, <2>3, <2>5, <2>6, <2>7 DEF Shape
<1> QED
  BY <1>1, <1>2, <1>3, <1>4, <1>5, <1>6, <1>7, <1>8, <1>9, <1>10, <1>11
     DEF Next, ProcessMessages, ProcessBatch

-----------------------------------------------------------------------------
(* The theorems.                                                           *)

\* The collectors start with the invariant.
LEMMA InvInit == Init => Inv
<1> SUFFICES ASSUME Init PROVE Inv
  OBVIOUS
<1>1. TypeOK
  BY TypeInit
<1>2. AckedIsStored
  BY EmptyList DEF Init, AckedIsStored
<1>3. ASSUME NEW c \in Consumer PROVE Shape(c)
  <2>1. /\ phase[c] = "off" /\ batch[c] = <<>> /\ processed[c] = <<>> /\ gpuMap[c] = {}
        /\ taken[c] = {} /\ attempted[c] = {}
    BY DEF Init
  <2>2. Len(batch[c]) + Len(processed[c]) <= BatchSize
    BY <2>1, EmptyList, CollectorAssumption
  <2>3. taken[c] = attempted[c] \cup ToSet(batch[c])
    BY <2>1, EmptyList
  <2> QED
    BY <2>1, <2>2, <2>3 DEF Shape
<1> QED
  BY <1>1, <1>2, <1>3 DEF Inv

\* No step breaks it.
LEMMA InvStep == Inv /\ [Next]_vars => Inv'
<1> SUFFICES ASSUME Inv, [Next]_vars PROVE Inv'
  OBVIOUS
<1>1. TypeOK /\ AckedIsStored /\ \A c \in Consumer : Shape(c)
  BY DEF Inv
<1>2. TypeOK'
  BY <1>1, TypeStep
<1>3. AckedIsStored'
  BY <1>1, AckedStep
<1>4. \A c \in Consumer : Shape(c)'
  BY <1>1, ShapeStep
<1> QED
  BY <1>2, <1>3, <1>4 DEF Inv

\* So it always holds.
LEMMA Invariance == Spec => []Inv
BY InvInit, InvStep, PTL DEF Spec

\* Every reachable state of the collectors is well typed.
THEOREM TypeCorrect == Spec => []TypeOK
<1>1. Inv => TypeOK
  BY DEF Inv
<1> QED
  BY <1>1, Invariance, PTL

\* Whatever fails, is killed or loses its answer, and in any number of
\* collectors, batches and faults: a message that is being acknowledged, or is
\* about to be, has its record in the repository.
THEOREM OnlyStoredIsAcked == Spec => []AckedIsStored
<1>1. Inv => AckedIsStored
  BY DEF Inv
<1> QED
  BY <1>1, Invariance, PTL

\* What the shapes of the collectors say of their batches, and of what they
\* leave behind.
LEMMA ShapesTell == Inv => BatchesDoNotMix /\ NothingTakenIsAbandoned
<1>1. Inv => BatchesDoNotMix
  <2> SUFFICES ASSUME Inv, NEW c \in Consumer, Shape(c)
               PROVE  /\ phase[c] \in {"select", "stopped"}
                            => processed[c] = <<>> /\ gpuMap[c] = {}
                      /\ phase[c] # "gpus" => gpuMap[c] = {}
                      /\ phase[c] \in {"gpus", "records"} => batch[c] # <<>>
                      /\ phase[c] = "acks" => processed[c] # <<>> /\ batch[c] = <<>>
                      /\ phase[c] = "stopped" => batch[c] = <<>>
                      /\ Len(batch[c]) + Len(processed[c]) <= BatchSize
    BY DEF Inv, BatchesDoNotMix
  <2> QED
    BY DEF Shape
<1>2. Inv => NothingTakenIsAbandoned
  BY EmptyList DEF Inv, NothingTakenIsAbandoned, Shape
<1> QED
  BY <1>1, <1>2

\* Batches of any size do not mix.
THEOREM BatchesStayApart == Spec => []BatchesDoNotMix
BY ShapesTell, Invariance, PTL

\* A collector that stops by itself has tried every message it took off its
\* channel, however its batches were cut.
THEOREM StopsWithNothingLeft == Spec => []NothingTakenIsAbandoned
BY ShapesTell, Invariance, PTL
=============================================================================
