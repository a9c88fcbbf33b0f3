------------------------ MODULE InMemoryQueue_proofs ------------------------
(***************************************************************************)
(* Machine-checked facts about InMemoryQueue, for all values of its        *)
(* constants: types and capacities first; then where every accepted        *)
(* message is - one place at a time, one consumer at a time, nothing in    *)
(* flight after Close; and last that the queue implements LeaseQueue.      *)
(***************************************************************************)
EXTENDS InMemoryQueue, FiniteSetTheorems, SequenceTheorems, TLAPS

-----------------------------------------------------------------------------
(* Facts about the sequence operators the queue is built from.             *)

\* Removing one subscriber from the list.
LEMMA RemoveAtType ==
    ASSUME NEW S, NEW s \in Seq(S), NEW i \in DOMAIN s
    PROVE  /\ RemoveAt(s, i) \in Seq(S)
           /\ Len(RemoveAt(s, i)) = Len(s) - 1
BY DEF RemoveAt

\* An ordering of a finite set is a sequence over it, empty only for {}.
LEMMA OrderingType ==
    ASSUME NEW S, IsFiniteSet(S), NEW order \in SetToSeqs(S)
    PROVE  /\ order \in Seq(S)
           /\ Len(order) = Cardinality(S)
           /\ S # {} => order # <<>>
<1>1. Cardinality(S) \in Nat
  BY FS_CardinalityType
<1>2. order \in [1..Cardinality(S) -> S]
  BY DEF SetToSeqs
<1>3. order \in Seq(S) /\ Len(order) = Cardinality(S)
  BY <1>1, <1>2
<1>4. S # {} => Cardinality(S) # 0
  BY FS_EmptySet
<1> QED
  BY <1>1, <1>3, <1>4

\* A sequence is empty exactly when its length is 0.
LEMMA EmptyIffLen0 ==
    ASSUME NEW S, NEW s \in Seq(S)
    PROVE  s = <<>> <=> Len(s) = 0
OBVIOUS

\* What Head and Tail of a list that is not empty return.
LEMMA HeadTailType ==
    ASSUME NEW S, NEW s \in Seq(S), s # <<>>
    PROVE  /\ Head(s) \in S
           /\ Tail(s) \in Seq(S)
           /\ Len(s) \in Nat \ {0}
           /\ Tail(s) = <<>> <=> Len(s) = 1
<1>1. Head(s) \in S /\ Tail(s) \in Seq(S) /\ Len(s) \in Nat \ {0}
  OBVIOUS
<1>2. Len(Tail(s)) = Len(s) - 1
  OBVIOUS
<1>3. Tail(s) = <<>> <=> Len(Tail(s)) = 0
  BY <1>1, EmptyIffLen0
<1> QED
  BY <1>1, <1>2, <1>3

\* Appending an element keeps the sequence type.
LEMMA AppendType ==
    ASSUME NEW S, NEW s \in Seq(S), NEW e \in S
    PROVE  Append(s, e) \in Seq(S) /\ Append(s, e) # <<>>
BY AppendProperties

-----------------------------------------------------------------------------
(* Types.                                                                  *)

\* What a goroutine's local variables are at each of its control points.
WorkerShape ==
    \A w \in Worker :
        /\ pc[w] \in {"idle", "done"} <=> todo[w] = <<>>
        /\ target[w] \in Sub <=> pc[w] \in {"advance", "send", "record"}
        /\ pc[w] \in {"route"} => w = "distribute"
        /\ pc[w] = "rebuffer" => w = "redeliver"

\* The last subscriber to leave resets the round-robin index, so that the next
\* one to come finds it in range.
IndexOfEmptyList == subscribers = <<>> /\ shutdown = "running" => index = 0

\* The types are inductive only together with the control points and the range
\* of the index the subscriber list is addressed with.
TypeInv == TypeOK /\ WorkerShape /\ IndexInRange /\ IndexOfEmptyList

\* A queue NewInMemoryMessageQueue has just built satisfies the invariant.
LEMMA TypeInvInit == Init => TypeInv
<1> USE QueueAssumption
<1> QED
  BY DEF Init, TypeInv, TypeOK, WorkerShape, IndexInRange, IndexOfEmptyList, Worker, PCValue, Fate

\* The two delivering goroutines.
LEMMA Workers == Worker = {"distribute", "redeliver"}
BY DEF Worker

\* Finishing with the head of a list.
LEMMA FinishHeadStep ==
    ASSUME TypeInv, NEW w \in Worker, pc[w] \notin {"idle", "done"}, FinishHead(w)
    PROVE  /\ Head(todo[w]) \in Message
           /\ pc' \in [Worker -> PCValue]
           /\ todo' \in [Worker -> Seq(Message)]
           /\ target' \in [Worker -> Sub \cup {None}]
           /\ slot' \in [Worker -> Nat]
           /\ tries' \in [Worker -> Nat]
           /\ \A v \in Worker \ {w} : /\ pc'[v] = pc[v]
                                      /\ todo'[v] = todo[v]
                                      /\ target'[v] = target[v]
           /\ pc'[w] \in {"pick", "idle"}
           /\ pc'[w] = "idle" <=> todo'[w] = <<>>
           /\ target'[w] = None
<1>1. /\ pc \in [Worker -> PCValue]
      /\ todo \in [Worker -> Seq(Message)]
      /\ target \in [Worker -> Sub \cup {None}]
      /\ slot \in [Worker -> Nat]
      /\ tries \in [Worker -> Nat]
  BY DEF TypeInv, TypeOK
<1>2. todo[w] \in Seq(Message) /\ todo[w] # <<>>
  BY <1>1 DEF TypeInv, WorkerShape
<1>3. /\ Head(todo[w]) \in Message
      /\ Tail(todo[w]) \in Seq(Message)
      /\ Len(todo[w]) \in Nat \ {0}
      /\ Tail(todo[w]) = <<>> <=> Len(todo[w]) = 1
  BY <1>2, HeadTailType
<1>4. pc'[w] = (IF Len(todo[w]) > 1 THEN "pick" ELSE "idle") /\ todo'[w] = Tail(todo[w])
  BY <1>1 DEF FinishHead, Rest
<1>5. pc'[w] \in {"pick", "idle"} /\ (pc'[w] = "idle" <=> todo'[w] = <<>>)
  BY <1>3, <1>4
<1> QED
  BY <1>1, <1>3, <1>5 DEF FinishHead, Rest, PCValue

\* The non-blocking send of Publish keeps the types it touches.
LEMMA PublishSendStep ==
    ASSUME TypeOK, NEW m \in Message, PublishSend(m)
    PROVE  /\ messages' \in Seq(Message)
           /\ pub' \in [Message ->
                 {"idle", "checked", "accepted", "refused", "panicked"}]
<1>1. messages \in Seq(Message)
  BY DEF TypeOK
<1>2. pub \in [Message -> {"idle", "checked", "accepted", "refused", "panicked"}]
  BY DEF TypeOK
<1>3. messages' = messages \/ messages' = Append(messages, m)
  BY DEF PublishSend
<1>4. \E r \in {"panicked", "accepted", "idle"} : pub' = [pub EXCEPT ![m] = r]
  BY DEF PublishSend
<1> QED
  BY <1>1, <1>2, <1>3, <1>4, AppendType

\* Recording the lease of the head of a list, or leaving it untracked.
LEMMA RecordStep ==
    ASSUME TypeInv, NEW w \in Worker, Record(w)
    PROVE  /\ pendingMessages' \in [Message -> Consumer \cup {None}]
           /\ elapsed' \in [Message -> {"within", "ackTimeout", "ttl"}]
           /\ fate' \in [Message -> Fate]
<1>1. /\ pendingMessages \in [Message -> Consumer \cup {None}]
      /\ elapsed \in [Message -> {"within", "ackTimeout", "ttl"}]
      /\ fate \in [Message -> Fate]
      /\ pc[w] = "record"
  BY DEF TypeInv, TypeOK, Record
<1>2. ConsumerOf[target[w]] \in Consumer
  BY <1>1, QueueAssumption DEF TypeInv, WorkerShape
<1>3. Head(todo[w]) \in Message
  BY <1>1, FinishHeadStep DEF Record
<1>4. CASE PendingRoom
  BY <1>1, <1>2, <1>4 DEF Record, LeaseHolder, Fate
<1>5. CASE ~PendingRoom
  BY <1>1, <1>3, <1>5 DEF Record, Fate
<1> QED
  BY <1>4, <1>5

\* Parking the head of a list in the backlog, or dropping it.
LEMMA ParkStep ==
    ASSUME TypeInv, NEW w \in Worker, pc[w] \notin {"idle", "done"},
           FinishHead(w), Buffer(w) \/ (w = "distribute" /\ DistributePark)
    PROVE  undelivered' \in Seq(Message) /\ fate' \in [Message -> Fate]
<1>1. Head(todo[w]) \in Message
  BY FinishHeadStep
<1>2. undelivered \in Seq(Message) /\ fate \in [Message -> Fate]
  BY DEF TypeInv, TypeOK
<1>3. \/ undelivered' = Append(undelivered, Head(todo[w])) /\ fate' = fate
      \/ undelivered' = undelivered /\ fate' = [fate EXCEPT ![Head(todo[w])] = "overflow"]
  BY DEF Buffer, DistributePark
<1> QED
  BY <1>1, <1>2, <1>3, AppendType DEF Fate

\* Every step keeps the types, one step of the proof per action.
LEMMA TypeStep ==
    ASSUME TypeInv, [Next]_vars
    PROVE  TypeOK'
<1> USE QueueAssumption
<1> USE DEF TypeInv, TypeOK, PCValue, Fate, clientVars, workerVars, history
<1>1. ASSUME NEW m \in Message, Publisher(m)
      PROVE  TypeOK'
  <2>1. CASE PublishCheck(m)
    BY <2>1 DEF PublishCheck
  <2>2. CASE PublishSend(m)
    BY <2>2, PublishSendStep DEF PublishSend
  <2>3. CASE PublishCancelled(m)
    BY <2>3 DEF PublishCancelled
  <2> QED
    BY <1>1, <2>1, <2>2, <2>3 DEF Publisher
<1>2. ASSUME NEW m \in Message, Elapse(m)
      PROVE  TypeOK'
  BY <1>2 DEF Elapse
<1>3. ASSUME NEW s \in Sub, Subscription(s)
      PROVE  TypeOK'
  <2>1. CASE Subscribe(s)
    BY <2>1 DEF Subscribe
  <2>2. CASE CancelContext(s)
    BY <2>2 DEF CancelContext
  <2>3. CASE Cleanup(s)
    <3>1. PICK i \in DOMAIN subscribers :
             /\ subscribers' = RemoveAt(subscribers, i)
             /\ index' = IndexAfterRemoval(subscribers')
      BY <2>3 DEF Cleanup
    <3>2. subscribers' \in Seq(Sub) /\ index' \in Nat
      BY <3>1, RemoveAtType DEF IndexAfterRemoval
    <3> QED
      BY <2>3, <3>2 DEF Cleanup
  <2>4. CASE Receive(s)
    BY <2>4, HeadTailType DEF Receive
  <2>5. ASSUME NEW m \in Message, AckHeld(s, m)
        PROVE  TypeOK'
    <3>1. PICK k \in Message :
             /\ pendingMessages' = [pendingMessages EXCEPT ![k] = None]
             /\ elapsed' = [elapsed EXCEPT ![k] = "within"]
             /\ fate' = [fate EXCEPT ![k] = "acked"]
      BY <2>5 DEF AckHeld, Copies
    <3>2. /\ pendingMessages' \in [Message -> Consumer \cup {None}]
          /\ elapsed' \in [Message -> {"within", "ackTimeout", "ttl"}]
          /\ fate' \in [Message -> Fate]
      BY <3>1
    <3>3. /\ acked' = acked \cup {m}
          /\ UNCHANGED <<shutdown, messages, undelivered, subscribers, index,
                         chan, chanState, clientVars, workerVars, swept>>
      BY <2>5 DEF AckHeld
    <3> QED
      BY <3>2, <3>3
  <2>6. ASSUME NEW m \in Message, AckUnknown(s, m)
        PROVE  TypeOK'
    BY <2>6 DEF AckUnknown
  <2> QED
    BY <1>3, <2>1, <2>2, <2>3, <2>4, <2>5, <2>6 DEF Subscription
<1>4. ASSUME NEW w \in Worker, Deliver(w)
      PROVE  TypeOK'
  <2>1. CASE PickNobody(w)
    BY <2>1 DEF PickNobody
  <2>2. CASE Pick(w)
    <3>1. /\ pc' = [pc EXCEPT ![w] = "advance"] /\ index' = NextSlot
          /\ slot' = [slot EXCEPT ![w] = NextSlot]
          /\ target' = [target EXCEPT ![w] = subscribers[NextSlot + 1]]
          /\ subscribers # <<>>
      BY <2>2 DEF Pick
    <3>2. NextSlot \in Nat /\ NextSlot < Len(subscribers)
      BY <3>1, EmptyIffLen0 DEF NextSlot
    <3>3. subscribers[NextSlot + 1] \in Sub
      BY <3>2
    <3>4. /\ pc' \in [Worker -> PCValue] /\ index' \in Nat /\ slot' \in [Worker -> Nat]
          /\ target' \in [Worker -> Sub \cup {None}]
      BY <3>1, <3>2, <3>3
    <3> QED
      BY <2>2, <3>4 DEF Pick
  <2>3. CASE Advance(w)
    <3>1. /\ pc[w] = "advance" /\ pc' = [pc EXCEPT ![w] = "send"]
          /\ slot' = [slot EXCEPT ![w] = 0]
          /\ \E i \in {slot[w], index} : index' = SlotAfter(i)
      BY <2>3 DEF Advance
    <3>2. Len(subscribers) \in Nat \ {0}
      BY <3>1 DEF IndexInRange
    <3>3. index' \in Nat
      BY <3>1, <3>2 DEF SlotAfter
    <3>4. pc' \in [Worker -> PCValue] /\ slot' \in [Worker -> Nat]
      BY <3>1
    <3> QED
      BY <2>3, <3>3, <3>4 DEF Advance
  <2>4. CASE SendOK(w)
    <3>1. todo[w] \in Seq(Message) /\ todo[w] # <<>>
      BY <2>4 DEF SendOK, WorkerShape
    <3>2. Append(chan[target[w]], Head(todo[w])) \in Seq(Message)
      BY <3>1, <2>4, HeadTailType, AppendType DEF SendOK, WorkerShape
    <3> QED
      BY <2>4, <3>2 DEF SendOK
  <2>5. CASE SendFail(w)
    BY <2>5 DEF SendFail, AfterFailure
  <2>6. CASE Record(w)
    <3>1. FinishHead(w) /\ pc[w] \notin {"idle", "done"}
      BY <2>6 DEF Record
    <3> QED
      BY <2>6, <3>1, FinishHeadStep, RecordStep DEF Record
  <2>7. CASE Buffer(w)
    <3>1. FinishHead(w) /\ pc[w] \notin {"idle", "done"}
      BY <2>7 DEF Buffer
    <3> QED
      BY <2>7, <3>1, FinishHeadStep, ParkStep DEF Buffer
  <2> QED
    BY <1>4, <2>1, <2>2, <2>3, <2>4, <2>5, <2>6, <2>7 DEF Deliver
<1>5. CASE Distribute
  <2>1. CASE DistributeReceive
    <3>1. /\ messages # <<>> /\ messages' = Tail(messages)
          /\ todo' = [todo EXCEPT !["distribute"] = <<Head(messages)>>]
          /\ pc' = [pc EXCEPT !["distribute"] = "route"]
      BY <2>1 DEF DistributeReceive
    <3>2. Head(messages) \in Message /\ messages' \in Seq(Message)
      BY <3>1, HeadTailType
    <3>3. todo' \in [Worker -> Seq(Message)]
      <4>1. <<Head(messages)>> \in Seq(Message)
        BY <3>2
      <4> QED
        BY <3>1, <4>1
    <3>4. pc' \in [Worker -> PCValue]
      BY <3>1
    <3> QED
      BY <2>1, <3>2, <3>3, <3>4 DEF DistributeReceive
  <2>2. CASE DistributePark
    <3>1. FinishHead("distribute") /\ pc["distribute"] \notin {"idle", "done"}
      BY <2>2 DEF DistributePark
    <3> QED
      BY <2>2, <3>1, FinishHeadStep, ParkStep, Workers DEF DistributePark
  <2>3. CASE DistributeFlush
    BY <2>3, Workers DEF DistributeFlush
  <2>4. CASE DistributeExit
    BY <2>4, Workers DEF DistributeExit, CloseListed
  <2> QED
    BY <1>5, <2>1, <2>2, <2>3, <2>4 DEF Distribute
<1>6. CASE Redeliver
  <2>1. CASE Sweep
    <3>1. PICK order \in SetToSeqs(Overdue) :
             todo' = [todo EXCEPT !["redeliver"] = order]
      BY <2>1 DEF Sweep
    <3>2. Overdue \subseteq Message /\ IsFiniteSet(Overdue)
      BY FS_Subset DEF Overdue, Pending
    <3>3. order \in Seq(Message)
      BY <3>2, OrderingType
    <3>4. todo' \in [Worker -> Seq(Message)] /\ pc' \in [Worker -> PCValue]
      BY <2>1, <3>1, <3>3, Workers DEF Sweep
    <3>5. pendingMessages' \in [Message -> Consumer \cup {None}] /\ swept' \subseteq Message
      BY <2>1, <3>2 DEF Sweep
    <3>6. fate' \in [Message -> Fate] /\ elapsed' \in [Message -> {"within", "ackTimeout", "ttl"}]
      BY <2>1 DEF Sweep
    <3> QED
      BY <2>1, <3>4, <3>5, <3>6 DEF Sweep
  <2>2. CASE Rebuffer
    <3>1. undelivered' \in Seq(Message)
      BY <2>2, Workers DEF Rebuffer, MaxUndelivered
    <3>2. fate' \in [Message -> Fate]
      BY <2>2 DEF Rebuffer
    <3> QED
      BY <2>2, <3>1, <3>2, Workers DEF Rebuffer
  <2>3. CASE RedeliverExit
    BY <2>3, Workers DEF RedeliverExit
  <2> QED
    BY <1>6, <2>1, <2>2, <2>3 DEF Redeliver
<1>7. CASE CloseBegin
  BY <1>7 DEF CloseBegin
<1>8. CASE CloseEnd
  BY <1>8 DEF CloseEnd, CloseListed
<1>9. CASE UNCHANGED vars
  BY <1>9 DEF vars
<1> QED
  BY <1>1, <1>2, <1>3, <1>4, <1>5, <1>6, <1>7, <1>8, <1>9 DEF Next

\* Every step keeps the shape of the goroutines' local variables.
LEMMA WorkerStep ==
    ASSUME TypeInv, [Next]_vars
    PROVE  WorkerShape'
<1> USE QueueAssumption
<1> USE DEF WorkerShape, clientVars, workerVars, history
<1>0. /\ pc \in [Worker -> PCValue]
      /\ todo \in [Worker -> Seq(Message)]
      /\ target \in [Worker -> Sub \cup {None}]
      /\ subscribers \in Seq(Sub)
      /\ WorkerShape
      /\ None \notin Sub
  BY DEF TypeInv, TypeOK
<1>1. ASSUME NEW m \in Message, Publisher(m)
      PROVE  WorkerShape'
  <2>1. CASE PublishCheck(m)
    BY <2>1, <1>0 DEF PublishCheck
  <2>2. CASE PublishSend(m)
    BY <2>2, <1>0 DEF PublishSend
  <2>3. CASE PublishCancelled(m)
    BY <2>3, <1>0 DEF PublishCancelled
  <2> QED
    BY <1>1, <2>1, <2>2, <2>3 DEF Publisher
<1>2. ASSUME NEW m \in Message, Elapse(m)
      PROVE  WorkerShape'
  BY <1>2, <1>0 DEF Elapse
<1>3. ASSUME NEW s \in Sub, Subscription(s)
      PROVE  WorkerShape'
  <2>1. CASE Subscribe(s)
    BY <2>1, <1>0 DEF Subscribe
  <2>2. CASE CancelContext(s)
    BY <2>2, <1>0 DEF CancelContext
  <2>3. CASE Cleanup(s)
    BY <2>3, <1>0 DEF Cleanup
  <2>4. CASE Receive(s)
    BY <2>4, <1>0 DEF Receive
  <2>5. ASSUME NEW m \in Message, AckHeld(s, m)
        PROVE  WorkerShape'
    BY <2>5, <1>0 DEF AckHeld
  <2>6. ASSUME NEW m \in Message, AckUnknown(s, m)
        PROVE  WorkerShape'
    BY <2>6, <1>0 DEF AckUnknown
  <2> QED
    BY <1>3, <2>1, <2>2, <2>3, <2>4, <2>5, <2>6 DEF Subscription
<1>4. ASSUME NEW w \in Worker, Deliver(w)
      PROVE  WorkerShape'
  <2>1. CASE PickNobody(w)
    BY <2>1, <1>0 DEF PickNobody
  <2>2. CASE Pick(w)
    BY <2>2, <1>0 DEF Pick, NextSlot, TypeInv, TypeOK, IndexInRange
  <2>3. CASE Advance(w)
    BY <2>3, <1>0 DEF Advance
  <2>4. CASE SendOK(w)
    BY <2>4, <1>0 DEF SendOK
  <2>5. CASE SendFail(w)
    BY <2>5, <1>0 DEF SendFail, AfterFailure
  <2>6. CASE Record(w)
    BY <2>6, <1>0, FinishHeadStep DEF Record
  <2>7. CASE Buffer(w)
    BY <2>7, <1>0, FinishHeadStep DEF Buffer
  <2> QED
    BY <1>4, <2>1, <2>2, <2>3, <2>4, <2>5, <2>6, <2>7 DEF Deliver
<1>5. CASE Distribute
  <2>1. CASE DistributeReceive
    BY <2>1, <1>0, Workers DEF DistributeReceive
  <2>2. CASE DistributePark
    BY <2>2, <1>0, FinishHeadStep, Workers DEF DistributePark
  <2>3. CASE DistributeFlush
    <3>1. undelivered \o todo["distribute"] # <<>>
      BY <1>0, <2>3, Workers DEF DistributeFlush, TypeInv, TypeOK
    <3> QED
      BY <1>0, <2>3, <3>1, Workers DEF DistributeFlush
  <2>4. CASE DistributeExit
    BY <2>4, <1>0, Workers DEF DistributeExit
  <2> QED
    BY <1>5, <2>1, <2>2, <2>3, <2>4 DEF Distribute
<1>6. CASE Redeliver
  <2>1. CASE Sweep
    <3>1. PICK order \in SetToSeqs(Overdue) :
             todo' = [todo EXCEPT !["redeliver"] = order]
      BY <2>1 DEF Sweep
    <3>2. Overdue \subseteq Message /\ IsFiniteSet(Overdue)
      BY FS_Subset DEF Overdue, Pending
    <3>3. order = <<>> <=> Overdue = {}
      BY <3>2, OrderingType, FS_EmptySet
    <3> QED
      BY <1>0, <2>1, <3>1, <3>3, Workers DEF Sweep
  <2>2. CASE Rebuffer
    BY <2>2, <1>0, Workers DEF Rebuffer
  <2>3. CASE RedeliverExit
    BY <2>3, <1>0, Workers DEF RedeliverExit
  <2> QED
    BY <1>6, <2>1, <2>2, <2>3 DEF Redeliver
<1>7. CASE CloseBegin
  BY <1>7, <1>0 DEF CloseBegin
<1>8. CASE CloseEnd
  BY <1>8, <1>0 DEF CloseEnd
<1>9. CASE UNCHANGED vars
  BY <1>9, <1>0 DEF vars
<1> QED
  BY <1>1, <1>2, <1>3, <1>4, <1>5, <1>6, <1>7, <1>8, <1>9 DEF Next

\* Every step keeps the round-robin index within the subscriber list: Pick
\* wraps it, Advance takes it modulo the list, Cleanup resets it.
LEMMA IndexStep ==
    ASSUME TypeInv, [Next]_vars
    PROVE  (IndexInRange /\ IndexOfEmptyList)'
<1> USE DEF IndexInRange, IndexOfEmptyList, clientVars, workerVars, history
<1>0. /\ pc \in [Worker -> PCValue]
      /\ slot \in [Worker -> Nat]
      /\ index \in Nat
      /\ subscribers \in Seq(Sub)
      /\ IndexInRange /\ IndexOfEmptyList
      /\ shutdown \in {"running", "closing", "closed"}
  BY DEF TypeInv, TypeOK
<1>1. ASSUME NEW m \in Message, Publisher(m)
      PROVE  (IndexInRange /\ IndexOfEmptyList)'
  <2>1. CASE PublishCheck(m)
    BY <2>1, <1>0 DEF PublishCheck
  <2>2. CASE PublishSend(m)
    BY <2>2, <1>0 DEF PublishSend
  <2>3. CASE PublishCancelled(m)
    BY <2>3, <1>0 DEF PublishCancelled
  <2> QED
    BY <1>1, <2>1, <2>2, <2>3 DEF Publisher
<1>2. ASSUME NEW m \in Message, Elapse(m)
      PROVE  (IndexInRange /\ IndexOfEmptyList)'
  BY <1>2, <1>0 DEF Elapse
<1>3. ASSUME NEW s \in Sub, Subscription(s)
      PROVE  (IndexInRange /\ IndexOfEmptyList)'
  <2>1. CASE Subscribe(s)
    <3>1. /\ NoReader /\ shutdown = "running" /\ subscribers' = Append(subscribers, s)
          /\ index' = index /\ slot' = slot /\ pc' = pc
      BY <2>1 DEF Subscribe
    <3>2. /\ subscribers' # <<>> /\ Len(subscribers') = Len(subscribers) + 1
          /\ subscribers = <<>> => Len(subscribers) = 0
      BY <1>0, <3>1, AppendType, EmptyIffLen0
    <3>3. \A w \in Worker : pc'[w] # "advance"
      BY <3>1 DEF NoReader
    <3>4. index < Len(subscribers')
      <4>1. Len(subscribers) \in Nat /\ index \in Nat
        BY <1>0
      <4>2. index < Len(subscribers) \/ (index = 0 /\ Len(subscribers) = 0)
        BY <1>0, <3>1, <3>2
      <4> QED
        BY <3>2, <4>1, <4>2
    <3> QED
      BY <3>1, <3>2, <3>3, <3>4
  <2>2. CASE CancelContext(s)
    BY <2>2, <1>0 DEF CancelContext
  <2>3. CASE Cleanup(s)
    <3>1. PICK i \in DOMAIN subscribers :
             /\ subscribers' = RemoveAt(subscribers, i)
             /\ index' = IndexAfterRemoval(subscribers')
      BY <2>3 DEF Cleanup
    <3>2. subscribers' \in Seq(Sub)
      BY <1>0, <3>1, RemoveAtType
    <3>3. /\ subscribers' # <<>> => index' < Len(subscribers')
          /\ subscribers' = <<>> => index' = 0
      BY <1>0, <3>1, <3>2 DEF IndexAfterRemoval
    <3> QED
      BY <2>3, <3>3 DEF Cleanup, NoReader
  <2>4. CASE Receive(s)
    BY <2>4, <1>0 DEF Receive
  <2>5. ASSUME NEW m \in Message, AckHeld(s, m)
        PROVE  (IndexInRange /\ IndexOfEmptyList)'
    BY <2>5, <1>0 DEF AckHeld
  <2>6. ASSUME NEW m \in Message, AckUnknown(s, m)
        PROVE  (IndexInRange /\ IndexOfEmptyList)'
    BY <2>6, <1>0 DEF AckUnknown
  <2> QED
    BY <1>3, <2>1, <2>2, <2>3, <2>4, <2>5, <2>6 DEF Subscription
<1>4. ASSUME NEW w \in Worker, Deliver(w)
      PROVE  (IndexInRange /\ IndexOfEmptyList)'
  <2>1. CASE PickNobody(w)
    BY <2>1, <1>0 DEF PickNobody
  <2>2. CASE Pick(w)
    BY <2>2, <1>0 DEF Pick, NextSlot
  <2>3. CASE Advance(w)
    BY <2>3, <1>0 DEF Advance, SlotAfter
  <2>4. CASE SendOK(w)
    BY <2>4, <1>0 DEF SendOK
  <2>5. CASE SendFail(w)
    BY <2>5, <1>0 DEF SendFail, AfterFailure
  <2>6. CASE Record(w)
    BY <2>6, <1>0 DEF Record, FinishHead, NoReader
  <2>7. CASE Buffer(w)
    BY <2>7, <1>0 DEF Buffer, FinishHead, NoReader
  <2> QED
    BY <1>4, <2>1, <2>2, <2>3, <2>4, <2>5, <2>6, <2>7 DEF Deliver
<1>5. CASE Distribute
  <2>1. CASE DistributeReceive
    BY <2>1, <1>0, Workers DEF DistributeReceive
  <2>2. CASE DistributePark
    BY <2>2, <1>0, Workers DEF DistributePark, FinishHead
  <2>3. CASE DistributeFlush
    BY <2>3, <1>0, Workers DEF DistributeFlush
  <2>4. CASE DistributeExit
    BY <2>4, <1>0, Workers DEF DistributeExit, NoReader, StopSignalled
  <2> QED
    BY <1>5, <2>1, <2>2, <2>3, <2>4 DEF Distribute
<1>6. CASE Redeliver
  <2>1. CASE Sweep
    BY <2>1, <1>0, Workers DEF Sweep, NoReader
  <2>2. CASE Rebuffer
    BY <2>2, <1>0, Workers DEF Rebuffer
  <2>3. CASE RedeliverExit
    BY <2>3, <1>0, Workers DEF RedeliverExit
  <2> QED
    BY <1>6, <2>1, <2>2, <2>3 DEF Redeliver
<1>7. CASE CloseBegin
  BY <1>7, <1>0 DEF CloseBegin
<1>8. CASE CloseEnd
  BY <1>8, <1>0 DEF CloseEnd, NoReader
<1>9. CASE UNCHANGED vars
  BY <1>9, <1>0 DEF vars
<1> QED
  BY <1>1, <1>2, <1>3, <1>4, <1>5, <1>6, <1>7, <1>8, <1>9 DEF Next

\* The inductive invariant behind the two theorems that follow.
LEMMA TypeInvariant == Spec => []TypeInv
<1>1. TypeInv /\ [Next]_vars => TypeInv'
  BY TypeStep, WorkerStep, IndexStep DEF TypeInv
<1> QED
  BY <1>1, TypeInvInit, PTL DEF Spec

\* Every variable keeps its type, whatever the goroutines and clients do.
THEOREM TypeCorrect == Spec => []TypeOK
BY TypeInvariant, PTL DEF TypeInv

\* The index the deliveries address the subscriber list with stays inside the
\* list: the unsynchronised updates in deliverMessage, Subscribe and the
\* removal in its cleanup goroutine never push it out, for any number of
\* subscribers.
THEOREM IndexStaysInRange == Spec => []IndexInRange
BY TypeInvariant, PTL DEF TypeInv

-----------------------------------------------------------------------------
(* Capacities.                                                             *)

\* The pending table is finite, so its size is a number.
LEMMA PendingFinite ==
    ASSUME NEW S, S \subseteq Message
    PROVE  IsFiniteSet(S) /\ Cardinality(S) \in Nat
BY QueueAssumption, FS_Subset, FS_CardinalityType

\* A step that adds no lease leaves the pending table within its limit.
LEMMA FewerLeases ==
    ASSUME Cardinality(Pending) <= MaxPending, Pending' \subseteq Pending
    PROVE  Cardinality(Pending)' <= MaxPending
<1>1. Pending \subseteq Message
  BY DEF Pending
<1>2. IsFiniteSet(Pending) /\ Cardinality(Pending) \in Nat
  BY <1>1, PendingFinite
<1>3. Cardinality(Pending') \in Nat /\ Cardinality(Pending') <= Cardinality(Pending)
  BY <1>2, FS_Subset, FS_CardinalityType
<1>4. MaxPending \in Nat
  BY QueueAssumption DEF MaxPending
<1> QED
  BY <1>2, <1>3, <1>4

\* A lease is recorded only after the room has been tested, in one step.
LEMMA OneMoreLease ==
    ASSUME TypeInv, Cardinality(Pending) <= MaxPending, NEW w \in Worker, Record(w)
    PROVE  Cardinality(Pending)' <= MaxPending
<1>1. CASE PendingRoom
  <2>1. \E m \in Message : Pending' \subseteq Pending \cup {m}
    <3>1. Head(todo[w]) \in Message
      BY FinishHeadStep DEF Record
    <3>2. \A m \in Message \ {Head(todo[w])} : pendingMessages'[m] \in {pendingMessages[m], None}
      BY <1>1 DEF Record, TypeInv, TypeOK
    <3> QED
      BY <3>1, <3>2 DEF Pending
  <2>2. PICK m \in Message : Pending' \subseteq Pending \cup {m}
    BY <2>1
  <2>3. Pending \subseteq Message
    BY DEF Pending
  <2>4. IsFiniteSet(Pending) /\ Cardinality(Pending) \in Nat
    BY <2>3, PendingFinite
  <2>5. /\ IsFiniteSet(Pending \cup {m})
        /\ Cardinality(Pending \cup {m}) <= Cardinality(Pending) + 1
        /\ Cardinality(Pending \cup {m}) \in Nat
    <3>1. /\ IsFiniteSet(Pending \cup {m})
          /\ \/ Cardinality(Pending \cup {m}) = Cardinality(Pending)
             \/ Cardinality(Pending \cup {m}) = Cardinality(Pending) + 1
      BY <2>4, FS_AddElement
    <3> QED
      BY <2>4, <3>1
  <2>6. Cardinality(Pending') \in Nat /\ Cardinality(Pending') <= Cardinality(Pending \cup {m})
    BY <2>2, <2>5, FS_Subset, FS_CardinalityType
  <2>7. MaxPending \in Nat
    BY QueueAssumption DEF MaxPending
  <2> QED
    BY <1>1, <2>4, <2>5, <2>6, <2>7 DEF PendingRoom
<1>2. CASE ~PendingRoom
  <2>1. Pending' = Pending
    BY <1>2 DEF Record, Pending
  <2> QED
    BY <2>1, FewerLeases
<1> QED
  BY <1>1, <1>2

\* Nothing is stored at the start.
LEMMA BoundedInit == Init => Bounded
<1> SUFFICES ASSUME Init PROVE Bounded
  OBVIOUS
<1>1. Pending = {}
  BY DEF Init, Pending
<1>2. Cardinality(Pending) = 0
  BY <1>1, FS_EmptySet
<1> QED
  BY <1>2, QueueAssumption DEF Init, Bounded, MaxUndelivered, MaxPending

\* The bound of each table, without the others.
LEMMA MessagesBounded ==
    ASSUME TypeInv, Bounded, [Next]_vars
    PROVE  Len(messages') <= BufferSize
<1> USE DEF clientVars, workerVars, history
<1>0. messages \in Seq(Message) /\ Len(messages) <= BufferSize /\ BufferSize \in Nat \ {0}
  BY QueueAssumption DEF TypeInv, TypeOK, Bounded
<1>1. ASSUME NEW m \in Message, Publisher(m)
      PROVE  Len(messages') <= BufferSize
  <2>1. CASE PublishCheck(m)
    BY <2>1, <1>0 DEF PublishCheck
  <2>2. CASE PublishSend(m)
    <3>1. messages' = messages \/ (HasRoom /\ messages' = Append(messages, m))
      BY <2>2 DEF PublishSend
    <3> QED
      BY <1>0, <3>1 DEF HasRoom
  <2>3. CASE PublishCancelled(m)
    BY <2>3, <1>0 DEF PublishCancelled
  <2> QED
    BY <1>1, <2>1, <2>2, <2>3 DEF Publisher
<1>2. ASSUME NEW m \in Message, Elapse(m)
      PROVE  Len(messages') <= BufferSize
  BY <1>2, <1>0 DEF Elapse
<1>3. ASSUME NEW s \in Sub, Subscription(s)
      PROVE  Len(messages') <= BufferSize
  <2>1. CASE Subscribe(s)
    BY <2>1, <1>0 DEF Subscribe
  <2>2. CASE CancelContext(s)
    BY <2>2, <1>0 DEF CancelContext
  <2>3. CASE Cleanup(s)
    BY <2>3, <1>0 DEF Cleanup
  <2>4. CASE Receive(s)
    BY <2>4, <1>0 DEF Receive
  <2>5. ASSUME NEW m \in Message, AckHeld(s, m)
        PROVE  Len(messages') <= BufferSize
    BY <2>5, <1>0 DEF AckHeld
  <2>6. ASSUME NEW m \in Message, AckUnknown(s, m)
        PROVE  Len(messages') <= BufferSize
    BY <2>6, <1>0 DEF AckUnknown
  <2> QED
    BY <1>3, <2>1, <2>2, <2>3, <2>4, <2>5, <2>6 DEF Subscription
<1>4. ASSUME NEW w \in Worker, Deliver(w)
      PROVE  Len(messages') <= BufferSize
  <2>1. CASE PickNobody(w)
    BY <2>1, <1>0 DEF PickNobody
  <2>2. CASE Pick(w)
    BY <2>2, <1>0 DEF Pick
  <2>3. CASE Advance(w)
    BY <2>3, <1>0 DEF Advance
  <2>4. CASE SendOK(w)
    BY <2>4, <1>0 DEF SendOK
  <2>5. CASE SendFail(w)
    BY <2>5, <1>0 DEF SendFail
  <2>6. CASE Record(w)
    BY <2>6, <1>0 DEF Record
  <2>7. CASE Buffer(w)
    BY <2>7, <1>0 DEF Buffer
  <2> QED
    BY <1>4, <2>1, <2>2, <2>3, <2>4, <2>5, <2>6, <2>7 DEF Deliver
<1>5. CASE Distribute
  <2>1. CASE DistributeReceive
    <3>1. Len(Tail(messages)) = Len(messages) - 1
      BY <1>0, <2>1 DEF DistributeReceive
    <3> QED
      BY <1>0, <2>1, <3>1 DEF DistributeReceive
  <2>2. CASE DistributePark
    BY <2>2, <1>0 DEF DistributePark
  <2>3. CASE DistributeFlush
    BY <2>3, <1>0 DEF DistributeFlush
  <2>4. CASE DistributeExit
    BY <2>4, <1>0 DEF DistributeExit
  <2> QED
    BY <1>5, <2>1, <2>2, <2>3, <2>4 DEF Distribute
<1>6. CASE Redeliver
  <2>1. CASE Sweep
    BY <2>1, <1>0 DEF Sweep
  <2>2. CASE Rebuffer
    BY <2>2, <1>0 DEF Rebuffer
  <2>3. CASE RedeliverExit
    BY <2>3, <1>0 DEF RedeliverExit
  <2> QED
    BY <1>6, <2>1, <2>2, <2>3 DEF Redeliver
<1>7. CASE CloseBegin
  BY <1>7, <1>0 DEF CloseBegin
<1>8. CASE CloseEnd
  BY <1>8, <1>0 DEF CloseEnd
<1>9. CASE UNCHANGED vars
  BY <1>9, <1>0 DEF vars
<1> QED
  BY <1>1, <1>2, <1>3, <1>4, <1>5, <1>6, <1>7, <1>8, <1>9 DEF Next

\* The backlog: the four places that append to it.
LEMMA UndeliveredBounded ==
    ASSUME TypeInv, Bounded, [Next]_vars
    PROVE  Len(undelivered') <= MaxUndelivered
<1> USE DEF clientVars, workerVars, history
<1>0. /\ undelivered \in Seq(Message)
      /\ Len(undelivered) <= MaxUndelivered
      /\ MaxUndelivered \in Nat
      /\ todo \in [Worker -> Seq(Message)]
  BY QueueAssumption DEF TypeInv, TypeOK, Bounded, MaxUndelivered
<1>park. ASSUME NEW w \in Worker, pc[w] \notin {"idle", "done"}, FinishHead(w),
                Buffer(w) \/ (w = "distribute" /\ DistributePark)
         PROVE  Len(undelivered') <= MaxUndelivered
  <2>1. Head(todo[w]) \in Message
    BY <1>park, FinishHeadStep
  <2>2. \/ UndeliveredRoom /\ undelivered' = Append(undelivered, Head(todo[w]))
        \/ undelivered' = undelivered
    BY <1>park DEF Buffer, DistributePark
  <2> QED
    BY <1>0, <2>1, <2>2 DEF UndeliveredRoom
<1>1. ASSUME NEW m \in Message, Publisher(m)
      PROVE  Len(undelivered') <= MaxUndelivered
  <2>1. CASE PublishCheck(m)
    BY <2>1, <1>0 DEF PublishCheck
  <2>2. CASE PublishSend(m)
    BY <2>2, <1>0 DEF PublishSend
  <2>3. CASE PublishCancelled(m)
    BY <2>3, <1>0 DEF PublishCancelled
  <2> QED
    BY <1>1, <2>1, <2>2, <2>3 DEF Publisher
<1>2. ASSUME NEW m \in Message, Elapse(m)
      PROVE  Len(undelivered') <= MaxUndelivered
  BY <1>2, <1>0 DEF Elapse
<1>3. ASSUME NEW s \in Sub, Subscription(s)
      PROVE  Len(undelivered') <= MaxUndelivered
  <2>1. CASE Subscribe(s)
    BY <2>1, <1>0 DEF Subscribe
  <2>2. CASE CancelContext(s)
    BY <2>2, <1>0 DEF CancelContext
  <2>3. CASE Cleanup(s)
    BY <2>3, <1>0 DEF Cleanup
  <2>4. CASE Receive(s)
    BY <2>4, <1>0 DEF Receive
  <2>5. ASSUME NEW m \in Message, AckHeld(s, m)
        PROVE  Len(undelivered') <= MaxUndelivered
    BY <2>5, <1>0 DEF AckHeld
  <2>6. ASSUME NEW m \in Message, AckUnknown(s, m)
        PROVE  Len(undelivered') <= MaxUndelivered
    BY <2>6, <1>0 DEF AckUnknown
  <2> QED
    BY <1>3, <2>1, <2>2, <2>3, <2>4, <2>5, <2>6 DEF Subscription
<1>4. ASSUME NEW w \in Worker, Deliver(w)
      PROVE  Len(undelivered') <= MaxUndelivered
  <2>1. CASE PickNobody(w)
    BY <2>1, <1>0 DEF PickNobody
  <2>2. CASE Pick(w)
    BY <2>2, <1>0 DEF Pick
  <2>3. CASE Advance(w)
    BY <2>3, <1>0 DEF Advance
  <2>4. CASE SendOK(w)
    BY <2>4, <1>0 DEF SendOK
  <2>5. CASE SendFail(w)
    BY <2>5, <1>0 DEF SendFail
  <2>6. CASE Record(w)
    BY <2>6, <1>0 DEF Record
  <2>7. CASE Buffer(w)
    BY <2>7, <1>park DEF Buffer
  <2> QED
    BY <1>4, <2>1, <2>2, <2>3, <2>4, <2>5, <2>6, <2>7 DEF Deliver
<1>5. CASE Distribute
  <2>1. CASE DistributeReceive
    BY <2>1, <1>0 DEF DistributeReceive
  <2>2. CASE DistributePark
    BY <2>2, <1>park, Workers DEF DistributePark
  <2>3. CASE DistributeFlush
    BY <2>3, <1>0 DEF DistributeFlush
  <2>4. CASE DistributeExit
    BY <2>4, <1>0 DEF DistributeExit
  <2> QED
    BY <1>5, <2>1, <2>2, <2>3, <2>4 DEF Distribute
<1>6. CASE Redeliver
  <2>1. CASE Sweep
    BY <2>1, <1>0 DEF Sweep
  <2>2. CASE Rebuffer
    <3> DEFINE room == MaxUndelivered - Len(undelivered)
               batch == todo["redeliver"]
    <3>1. batch \in Seq(Message) /\ room \in Nat
      BY <1>0, Workers
    <3>2. undelivered' = undelivered \o (IF room >= Len(batch) THEN batch ELSE SubSeq(batch, 1, room))
      BY <2>2 DEF Rebuffer
    <3>3. CASE room >= Len(batch)
      BY <1>0, <3>1, <3>2, <3>3
    <3>4. CASE ~(room >= Len(batch))
      <4>1. SubSeq(batch, 1, room) \in Seq(Message) /\ Len(SubSeq(batch, 1, room)) = room
        BY <3>1, <3>4
      <4> HIDE DEF room, batch
      <4>2. Len(undelivered') = Len(undelivered) + room
        BY <1>0, <4>1, <3>2, <3>4
      <4> QED
        BY <1>0, <4>2 DEF room
    <3> QED
      BY <3>3, <3>4
  <2>3. CASE RedeliverExit
    BY <2>3, <1>0 DEF RedeliverExit
  <2> QED
    BY <1>6, <2>1, <2>2, <2>3 DEF Redeliver
<1>7. CASE CloseBegin
  BY <1>7, <1>0 DEF CloseBegin
<1>8. CASE CloseEnd
  BY <1>8, <1>0 DEF CloseEnd
<1>9. CASE UNCHANGED vars
  BY <1>9, <1>0 DEF vars
<1> QED
  BY <1>1, <1>2, <1>3, <1>4, <1>5, <1>6, <1>7, <1>8, <1>9 DEF Next

\* The pending table: only Record adds to it.
LEMMA PendingBounded ==
    ASSUME TypeInv, Bounded, [Next]_vars
    PROVE  Cardinality(Pending)' <= MaxPending
<1> USE DEF clientVars, workerVars, history
<1>0. Cardinality(Pending) <= MaxPending
  BY DEF Bounded
<1>1. ASSUME NEW w \in Worker, Record(w)
      PROVE  Cardinality(Pending)' <= MaxPending
  BY <1>0, <1>1, OneMoreLease
<1>2. CASE \E w \in Worker : Record(w)
  BY <1>1, <1>2
<1>3. CASE ~ \E w \in Worker : Record(w)
  <2>1. pendingMessages \in [Message -> Consumer \cup {None}]
    BY DEF TypeInv, TypeOK
  <2>2. Pending' \subseteq Pending
    <3>1. ASSUME NEW s \in Sub, NEW m \in Message, AckHeld(s, m)
          PROVE  Pending' \subseteq Pending
      BY <2>1, <3>1 DEF AckHeld, Pending
    <3>2. CASE Sweep \/ CloseEnd
      BY <3>2 DEF Sweep, CloseEnd, Pending
    <3>3. CASE \/ UNCHANGED pendingMessages
               \/ Sweep \/ CloseEnd
               \/ \E s \in Sub, m \in Message : AckHeld(s, m)
      BY <3>1, <3>2, <3>3 DEF Pending
    <3>4. \/ UNCHANGED pendingMessages
          \/ Sweep \/ CloseEnd
          \/ \E s \in Sub, m \in Message : AckHeld(s, m)
      <4>1. ASSUME NEW m \in Message, Publisher(m) \/ Elapse(m)
            PROVE  UNCHANGED pendingMessages
        BY <4>1 DEF Publisher, PublishCheck, PublishSend, PublishCancelled, Elapse
      <4>2. ASSUME NEW s \in Sub, Subscription(s)
            PROVE  UNCHANGED pendingMessages \/ \E m \in Message : AckHeld(s, m)
        BY <4>2 DEF Subscription, Subscribe, CancelContext, Cleanup, Receive, AckUnknown
      <4>3. ASSUME NEW w \in Worker, Deliver(w)
            PROVE  UNCHANGED pendingMessages
        BY <1>3, <4>3 DEF Deliver, PickNobody, Pick, Advance, SendOK, SendFail, Buffer
      <4>4. Distribute => UNCHANGED pendingMessages
        BY DEF Distribute, DistributeReceive, DistributePark, DistributeFlush, DistributeExit
      <4>5. Redeliver => UNCHANGED pendingMessages \/ Sweep
        BY DEF Redeliver, Rebuffer, RedeliverExit
      <4>6. CloseBegin \/ UNCHANGED vars => UNCHANGED pendingMessages
        BY DEF CloseBegin, vars
      <4> QED
        BY <4>1, <4>2, <4>3, <4>4, <4>5, <4>6 DEF Next
    <3> QED
      BY <3>3, <3>4
  <2> QED
    BY <1>0, <2>2, FewerLeases
<1> QED
  BY <1>2, <1>3

\* The subscriber channels: only safeSend adds to them.
LEMMA ChannelsBounded ==
    ASSUME TypeInv, Bounded, [Next]_vars
    PROVE  \A s \in Sub : Len(chan'[s]) <= BufferSize
<1> USE DEF clientVars, workerVars, history
<1>0. /\ chan \in [Sub -> Seq(Message)]
      /\ \A s \in Sub : Len(chan[s]) <= BufferSize
      /\ BufferSize \in Nat \ {0}
  BY QueueAssumption DEF TypeInv, TypeOK, Bounded
<1>1. ASSUME NEW m \in Message, Publisher(m)
      PROVE  \A r \in Sub : Len(chan'[r]) <= BufferSize
  <2>1. CASE PublishCheck(m)
    BY <2>1, <1>0 DEF PublishCheck
  <2>2. CASE PublishSend(m)
    BY <2>2, <1>0 DEF PublishSend
  <2>3. CASE PublishCancelled(m)
    BY <2>3, <1>0 DEF PublishCancelled
  <2> QED
    BY <1>1, <2>1, <2>2, <2>3 DEF Publisher
<1>2. ASSUME NEW m \in Message, Elapse(m)
      PROVE  \A r \in Sub : Len(chan'[r]) <= BufferSize
  BY <1>2, <1>0 DEF Elapse
<1>3. ASSUME NEW s \in Sub, Subscription(s)
      PROVE  \A r \in Sub : Len(chan'[r]) <= BufferSize
  <2>1. CASE Subscribe(s)
    BY <2>1, <1>0 DEF Subscribe
  <2>2. CASE CancelContext(s)
    BY <2>2, <1>0 DEF CancelContext
  <2>3. CASE Cleanup(s)
    BY <2>3, <1>0 DEF Cleanup
  <2>4. CASE Receive(s)
    <3>1. Len(Tail(chan[s])) = Len(chan[s]) - 1 /\ Len(chan[s]) \in Nat
      BY <1>0, <2>4 DEF Receive
    <3> QED
      BY <1>0, <2>4, <3>1 DEF Receive
  <2>5. ASSUME NEW m \in Message, AckHeld(s, m)
        PROVE  \A r \in Sub : Len(chan'[r]) <= BufferSize
    BY <2>5, <1>0 DEF AckHeld
  <2>6. ASSUME NEW m \in Message, AckUnknown(s, m)
        PROVE  \A r \in Sub : Len(chan'[r]) <= BufferSize
    BY <2>6, <1>0 DEF AckUnknown
  <2> QED
    BY <1>3, <2>1, <2>2, <2>3, <2>4, <2>5, <2>6 DEF Subscription
<1>4. ASSUME NEW w \in Worker, Deliver(w)
      PROVE  \A r \in Sub : Len(chan'[r]) <= BufferSize
  <2>1. CASE PickNobody(w)
    BY <2>1, <1>0 DEF PickNobody
  <2>2. CASE Pick(w)
    BY <2>2, <1>0 DEF Pick
  <2>3. CASE Advance(w)
    BY <2>3, <1>0 DEF Advance
  <2>4. CASE SendOK(w)
    <3>1. target[w] \in Sub /\ Len(Append(chan[target[w]], Head(todo[w]))) = Len(chan[target[w]]) + 1
      BY <1>0, <2>4 DEF SendOK, TypeInv, WorkerShape
    <3>2. Len(chan[target[w]]) \in Nat /\ Len(chan[target[w]]) < BufferSize
      BY <1>0, <2>4, <3>1 DEF SendOK, CanSend
    <3> QED
      BY <1>0, <2>4, <3>1, <3>2 DEF SendOK
  <2>5. CASE SendFail(w)
    BY <2>5, <1>0 DEF SendFail
  <2>6. CASE Record(w)
    BY <2>6, <1>0 DEF Record
  <2>7. CASE Buffer(w)
    BY <2>7, <1>0 DEF Buffer
  <2> QED
    BY <1>4, <2>1, <2>2, <2>3, <2>4, <2>5, <2>6, <2>7 DEF Deliver
<1>5. CASE Distribute
  <2>1. CASE DistributeReceive
    BY <2>1, <1>0 DEF DistributeReceive
  <2>2. CASE DistributePark
    BY <2>2, <1>0 DEF DistributePark
  <2>3. CASE DistributeFlush
    BY <2>3, <1>0 DEF DistributeFlush
  <2>4. CASE DistributeExit
    BY <2>4, <1>0 DEF DistributeExit
  <2> QED
    BY <1>5, <2>1, <2>2, <2>3, <2>4 DEF Distribute
<1>6. CASE Redeliver
  <2>1. CASE Sweep
    BY <2>1, <1>0 DEF Sweep
  <2>2. CASE Rebuffer
    BY <2>2, <1>0 DEF Rebuffer
  <2>3. CASE RedeliverExit
    BY <2>3, <1>0 DEF RedeliverExit
  <2> QED
    BY <1>6, <2>1, <2>2, <2>3 DEF Redeliver
<1>7. CASE CloseBegin
  BY <1>7, <1>0 DEF CloseBegin
<1>8. CASE CloseEnd
  BY <1>8, <1>0 DEF CloseEnd
<1>9. CASE UNCHANGED vars
  BY <1>9, <1>0 DEF vars
<1> QED
  BY <1>1, <1>2, <1>3, <1>4, <1>5, <1>6, <1>7, <1>8, <1>9 DEF Next

\* The bounds are inductive together with the types.
LEMMA BoundedInvariant == Spec => [](TypeInv /\ Bounded)
<1>1. TypeInv /\ Bounded /\ [Next]_vars => TypeInv' /\ Bounded'
  BY TypeStep, WorkerStep, IndexStep, MessagesBounded, UndeliveredBounded,
     PendingBounded, ChannelsBounded DEF TypeInv, Bounded
<1> QED
  BY <1>1, TypeInvInit, BoundedInit, PTL DEF Spec

\* The message channel, the backlog, the pending table and the subscriber
\* channels stay within their limits, for every bufferSize: the goroutines test
\* the room again in the step that uses it.
THEOREM CapacitiesRespected == Spec => []Bounded
BY BoundedInvariant, PTL

-----------------------------------------------------------------------------
(* What the queue's sequence operations do to the set of their elements.   *)

\* The head of a list is an element of it, and leaves it for good.
LEMMA TailSet ==
    ASSUME NEW S, NEW s \in Seq(S), s # <<>>, IsInjective(s)
    PROVE  /\ Head(s) \in ToSet(s)
           /\ ToSet(Tail(s)) = ToSet(s) \ {Head(s)}
           /\ IsInjective(Tail(s))
<1>1. /\ Len(s) \in Nat \ {0} /\ DOMAIN s = 1..Len(s)
      /\ Tail(s) \in Seq(S) /\ DOMAIN Tail(s) = 1..Len(Tail(s))
      /\ Len(Tail(s)) = Len(s) - 1 /\ Head(s) = s[1]
      /\ \A i \in 1..Len(Tail(s)) : Tail(s)[i] = s[i + 1]
  BY HeadTailProperties, LenProperties
<1>2. \A i, j \in 1..Len(s) : s[i] = s[j] => i = j
  BY <1>1 DEF IsInjective
<1>3. Head(s) \in ToSet(s)
  BY <1>1 DEF ToSet
<1>4. IsInjective(Tail(s))
  BY <1>1, <1>2 DEF IsInjective
<1>5. ToSet(Tail(s)) \subseteq ToSet(s) \ {Head(s)}
  BY <1>1, <1>2 DEF ToSet
<1>6. ASSUME NEW e \in ToSet(s) \ {Head(s)}
      PROVE  e \in ToSet(Tail(s))
  <2>1. PICK i \in 2..Len(s) : e = s[i]
    BY <1>1, <1>6 DEF ToSet
  <2>2. i - 1 \in 1..Len(Tail(s)) /\ Tail(s)[i - 1] = e
    BY <1>1, <2>1
  <2> QED
    BY <1>1, <2>2 DEF ToSet
<1> QED
  BY <1>3, <1>4, <1>5, <1>6

\* Appending something new.
LEMMA AppendSet ==
    ASSUME NEW S, NEW s \in Seq(S), NEW e \in S
    PROVE  /\ ToSet(Append(s, e)) = ToSet(s) \cup {e}
           /\ IsInjective(s) /\ e \notin ToSet(s) => IsInjective(Append(s, e))
<1>1. /\ Len(s) \in Nat /\ DOMAIN s = 1..Len(s)
      /\ DOMAIN Append(s, e) = 1..(Len(s) + 1)
      /\ \A i \in 1..Len(s) : Append(s, e)[i] = s[i]
      /\ Append(s, e)[Len(s) + 1] = e
  BY AppendProperties, LenProperties
<1>2. ToSet(Append(s, e)) = ToSet(s) \cup {e}
  <2>1. \A x \in ToSet(Append(s, e)) : x \in ToSet(s) \cup {e}
    BY <1>1 DEF ToSet
  <2>2. \A i \in 1..Len(s) : i \in 1..(Len(s) + 1)
    BY <1>1
  <2>3. \A x \in ToSet(s) : x \in ToSet(Append(s, e))
    BY <1>1, <2>2 DEF ToSet
  <2>4. e \in ToSet(Append(s, e))
    BY <1>1 DEF ToSet
  <2> QED
    BY <2>1, <2>3, <2>4
<1>3. ASSUME IsInjective(s), e \notin ToSet(s)
      PROVE  IsInjective(Append(s, e))
  BY <1>1, <1>3 DEF IsInjective, ToSet
<1> QED
  BY <1>2, <1>3

\* One list after the other.
LEMMA ConcatSet ==
    ASSUME NEW S, NEW s \in Seq(S), NEW t \in Seq(S)
    PROVE  /\ ToSet(s \o t) = ToSet(s) \cup ToSet(t)
           /\ IsInjective(s) /\ IsInjective(t) /\ ToSet(s) \cap ToSet(t) = {}
                  => IsInjective(s \o t)
<1>1. /\ Len(s) \in Nat /\ Len(t) \in Nat
      /\ DOMAIN s = 1..Len(s) /\ DOMAIN t = 1..Len(t)
      /\ DOMAIN (s \o t) = 1..(Len(s) + Len(t))
      /\ \A i \in 1..(Len(s) + Len(t)) :
            (s \o t)[i] = IF i <= Len(s) THEN s[i] ELSE t[i - Len(s)]
  BY ConcatProperties, LenProperties
<1>2. \A x \in ToSet(s \o t) : x \in ToSet(s) \cup ToSet(t)
  <2> TAKE x \in ToSet(s \o t)
  <2>1. PICK i \in 1..(Len(s) + Len(t)) : x = (s \o t)[i]
    BY <1>1 DEF ToSet
  <2>2. CASE i <= Len(s)
    BY <1>1, <2>1, <2>2 DEF ToSet
  <2>3. CASE ~(i <= Len(s))
    <3>1. i - Len(s) \in 1..Len(t) /\ x = t[i - Len(s)]
      BY <1>1, <2>1, <2>3
    <3> QED
      BY <1>1, <3>1 DEF ToSet
  <2> QED
    BY <2>2, <2>3
<1>3. \A x \in ToSet(s) : x \in ToSet(s \o t)
  <2> TAKE x \in ToSet(s)
  <2>1. PICK i \in 1..Len(s) : x = s[i]
    BY <1>1 DEF ToSet
  <2>2. i \in 1..(Len(s) + Len(t)) /\ (s \o t)[i] = x
    BY <1>1, <2>1
  <2> QED
    BY <1>1, <2>2 DEF ToSet
<1>4. \A x \in ToSet(t) : x \in ToSet(s \o t)
  <2> TAKE x \in ToSet(t)
  <2>1. PICK i \in 1..Len(t) : x = t[i]
    BY <1>1 DEF ToSet
  <2>2. Len(s) + i \in 1..(Len(s) + Len(t)) /\ (s \o t)[Len(s) + i] = x
    BY <1>1, <2>1
  <2> QED
    BY <1>1, <2>2 DEF ToSet
<1>5. ASSUME IsInjective(s), IsInjective(t), ToSet(s) \cap ToSet(t) = {}
      PROVE  IsInjective(s \o t)
  <2> SUFFICES ASSUME NEW i \in 1..(Len(s) + Len(t)), NEW j \in 1..(Len(s) + Len(t)),
                      (s \o t)[i] = (s \o t)[j]
               PROVE  i = j
    BY <1>1 DEF IsInjective
  <2>1. CASE i <= Len(s) /\ j <= Len(s)
    BY <1>1, <1>5, <2>1 DEF IsInjective
  <2>2. CASE i > Len(s) /\ j > Len(s)
    <3>1. i - Len(s) \in 1..Len(t) /\ j - Len(s) \in 1..Len(t)
      BY <1>1, <2>2
    <3>2. t[i - Len(s)] = t[j - Len(s)]
      BY <1>1, <2>2
    <3>3. i - Len(s) = j - Len(s)
      BY <1>1, <1>5, <3>1, <3>2 DEF IsInjective
    <3> QED
      BY <1>1, <3>3
  <2>3. \A a \in 1..Len(s), b \in 1..Len(t) : s[a] # t[b]
    BY <1>1, <1>5 DEF ToSet
  <2>4. CASE i <= Len(s) /\ j > Len(s)
    BY <1>1, <2>3, <2>4
  <2>5. CASE i > Len(s) /\ j <= Len(s)
    BY <1>1, <2>3, <2>5
  <2> QED
    BY <1>1, <2>1, <2>2, <2>4, <2>5
<1> QED
  BY <1>2, <1>3, <1>4, <1>5

\* A first part of a list.
LEMMA SubSeqSet ==
    ASSUME NEW S, NEW s \in Seq(S), NEW n \in Int, n <= Len(s), IsInjective(s)
    PROVE  /\ SubSeq(s, 1, n) \in Seq(S)
           /\ ToSet(SubSeq(s, 1, n)) \subseteq ToSet(s)
           /\ IsInjective(SubSeq(s, 1, n))
<1>1. Len(s) \in Nat /\ DOMAIN s = 1..Len(s)
  BY LenProperties
<1>2. \A i \in 1..n : i \in 1..Len(s) /\ s[i] \in S
  BY <1>1, ElementOfSeq
<1>3. /\ SubSeq(s, 1, n) \in Seq(S)
      /\ Len(SubSeq(s, 1, n)) = IF 1 <= n THEN n - 1 + 1 ELSE 0
      /\ \A i \in 1..(n - 1 + 1) : SubSeq(s, 1, n)[i] = s[1 + i - 1]
  BY <1>2, SubSeqProperties
<1>4. DOMAIN SubSeq(s, 1, n) = 1..Len(SubSeq(s, 1, n))
  BY <1>3, LenProperties
<1>5. \A i \in DOMAIN SubSeq(s, 1, n) : i \in 1..Len(s) /\ SubSeq(s, 1, n)[i] = s[i]
  BY <1>1, <1>3, <1>4
<1>6. IsInjective(SubSeq(s, 1, n))
  BY <1>1, <1>5 DEF IsInjective
<1> QED
  BY <1>1, <1>3, <1>5, <1>6 DEF ToSet

\* The sweep's list: every overdue message, once.
LEMMA OrderingSet ==
    ASSUME NEW S, IsFiniteSet(S), NEW order \in SetToSeqs(S)
    PROVE  ToSet(order) = S /\ IsInjective(order)
<1>1. /\ order \in [1..Cardinality(S) -> S]
      /\ \A i, j \in 1..Cardinality(S) : i # j => order[i] # order[j]
  BY DEF SetToSeqs
<1>2. IsInjective(order)
  BY <1>1 DEF IsInjective
<1>3. Cardinality(S) \in Nat
  BY FS_CardinalityType
<1>4. IsFiniteSet(1..Cardinality(S)) /\ Cardinality(1..Cardinality(S)) = Cardinality(S)
  BY <1>3, FS_Interval
<1>5. order \in Injection(1..Cardinality(S), S)
  BY <1>1, <1>2 DEF Injection
<1>6. order \in Surjection(1..Cardinality(S), S)
  BY <1>4, <1>5, FS_Injection
<1>7. \A e \in S : \E i \in 1..Cardinality(S) : order[i] = e
  BY <1>6 DEF Surjection
<1> QED
  BY <1>1, <1>2, <1>7 DEF ToSet

-----------------------------------------------------------------------------
(* Places.                                                                 *)

\* The places the queue keeps a message it answers for, and what is in each.
PlaceName == {"buffer", "backlog", "lease"} \cup Worker

Place == [p \in PlaceName |->
    CASE p = "buffer"  -> ToSet(messages)
      [] p = "backlog" -> ToSet(undelivered)
      [] p = "lease"   -> Pending
      [] OTHER         -> ToSet(todo[p])]

\* Accepted, and not let go of.
Live == {m \in Message : pub[m] = "accepted" /\ fate[m] = "none"}

\* The places f share nothing and hold together exactly L.
Apart(f, L) ==
    /\ \A p, q \in PlaceName : p # q => f[p] \cap f[q] = {}
    /\ \A m \in Message : m \in L <=> \E p \in PlaceName : m \in f[p]

\* Each part of the invariant, named.
EachOnce ==
    /\ IsInjective(messages) /\ IsInjective(undelivered)
    /\ \A w \in Worker : IsInjective(todo[w])

LeasedOnce == \A k, l \in Pending : IdOf[k] = IdOf[l] => k = l

NewIsUntouched ==
    \A m \in Message : pub[m] # "accepted" => fate[m] = "none" /\ Recipients(m) = {}

\* Of the copies of an ID one was not overwritten.
OneCopyRemains ==
    \A m \in Message : fate[m] = "superseded" =>
        \E k \in Copies(m) : pub[k] = "accepted" /\ fate[k] # "superseded"

CustodyInv ==
    Apart(Place, Live) /\ EachOnce /\ LeasedOnce /\ NewIsUntouched /\ OneCopyRemains

\* Places as five sets.
LEMMA PlaceValues ==
    /\ PlaceName = {"buffer", "backlog", "lease", "distribute", "redeliver"}
    /\ Place["buffer"] = ToSet(messages)
    /\ Place["backlog"] = ToSet(undelivered)
    /\ Place["lease"] = Pending
    /\ \A w \in Worker : w \in PlaceName /\ Place[w] = ToSet(todo[w])
BY DEF Place, PlaceName, Worker

\* A set S of messages leaves place p for place q; a part T of it goes nowhere
\* and is let go of.
LEMMA MoveKeeps ==
    ASSUME NEW f, NEW g, NEW L, NEW M, Apart(f, L),
           NEW p \in PlaceName, NEW q \in PlaceName, p # q,
           NEW S \in SUBSET f[p], NEW T \in SUBSET S, S \subseteq Message,
           g[p] = f[p] \ S, g[q] = f[q] \cup (S \ T),
           \A r \in PlaceName \ {p, q} : g[r] = f[r],
           M = L \ T
    PROVE  Apart(g, M)
<1>1. \A r, u \in PlaceName : r # u => f[r] \cap f[u] = {}
  BY DEF Apart
<1>2. \A m \in Message : m \in L <=> \E r \in PlaceName : m \in f[r]
  BY DEF Apart
<1>3. \A r, u \in PlaceName : r # u => g[r] \cap g[u] = {}
  <2> TAKE r, u \in PlaceName
  <2> HAVE r # u
  <2>1. CASE r \notin {p, q} /\ u \notin {p, q}
    BY <1>1, <2>1
  <2>2. CASE r \in {p, q} /\ u \notin {p, q}
    BY <1>1, <2>2
  <2>3. CASE r \notin {p, q} /\ u \in {p, q}
    BY <1>1, <2>3
  <2>4. CASE r \in {p, q} /\ u \in {p, q}
    BY <1>1, <2>4
  <2> QED
    BY <2>1, <2>2, <2>3, <2>4
<1>4. \A m \in Message : m \in M <=> \E r \in PlaceName : m \in g[r]
  <2> TAKE m \in Message
  <2>1. ASSUME m \in M
        PROVE  \E r \in PlaceName : m \in g[r]
    <3>1. PICK r \in PlaceName : m \in f[r]
      BY <1>2, <2>1
    <3>2. CASE m \in S
      BY <2>1, <3>2
    <3>3. CASE m \notin S
      BY <3>1, <3>3
    <3> QED
      BY <3>2, <3>3
  <2>2. ASSUME NEW r \in PlaceName, m \in g[r]
        PROVE  m \in M
    <3>1. m \notin T
      BY <1>1, <2>2
    <3>2. \E u \in PlaceName : m \in f[u]
      BY <2>2
    <3> QED
      BY <1>2, <3>1, <3>2
  <2> QED
    BY <2>1, <2>2
<1> QED
  BY <1>3, <1>4 DEF Apart

\* The same after a step.
LEMMA PlaceValuesNext ==
    /\ Place'["buffer"] = ToSet(messages')
    /\ Place'["backlog"] = ToSet(undelivered')
    /\ Place'["lease"] = Pending'
    /\ \A w \in Worker : Place'[w] = ToSet(todo'[w])
BY DEF Place, PlaceName, Worker

\* A set S of messages leaves place p for good ...
LEMMA DropKeeps ==
    ASSUME NEW f, NEW g, NEW L, NEW M, Apart(f, L),
           NEW p \in PlaceName, NEW S \in SUBSET f[p], S \subseteq Message,
           g[p] = f[p] \ S, \A r \in PlaceName \ {p} : g[r] = f[r],
           M = L \ S
    PROVE  Apart(g, M)
<1>1. PICK q \in PlaceName : q # p
  BY DEF PlaceName
<1>2. S \in SUBSET S /\ g[q] = f[q] \cup (S \ S)
  BY <1>1
<1> QED
  BY <1>1, <1>2, MoveKeeps

\* ... or goes over to place q as a whole.
LEMMA CarryKeeps ==
    ASSUME NEW f, NEW g, NEW L, Apart(f, L),
           NEW p \in PlaceName, NEW q \in PlaceName, p # q,
           NEW S \in SUBSET f[p], S \subseteq Message,
           g[p] = f[p] \ S, g[q] = f[q] \cup S,
           \A r \in PlaceName \ {p, q} : g[r] = f[r]
    PROVE  Apart(g, L)
<1> DEFINE T == {}
<1>1. T \in SUBSET S /\ g[q] = f[q] \cup (S \ T) /\ L = L \ T
  OBVIOUS
<1> HIDE DEF T
<1> QED
  BY <1>1, MoveKeeps

\* The same for a step of the queue.
LEMMA PlaceMove ==
    ASSUME Apart(Place, Live), NEW p \in PlaceName, NEW q \in PlaceName, p # q,
           NEW S, NEW T, S \in SUBSET Place[p], T \in SUBSET S, S \subseteq Message,
           Place'[p] = Place[p] \ S, Place'[q] = Place[q] \cup (S \ T),
           \A r \in PlaceName \ {p, q} : Place'[r] = Place[r],
           Live' = Live \ T
    PROVE  Apart(Place', Live')
BY MoveKeeps

\* A message Publish has just accepted enters the buffer.
LEMMA EnterKeeps ==
    ASSUME Apart(Place, Live), NEW m \in Message, m \notin Live,
           Place'["buffer"] = Place["buffer"] \cup {m},
           \A r \in PlaceName \ {"buffer"} : Place'[r] = Place[r],
           Live' = Live \cup {m}
    PROVE  Apart(Place', Live')
<1>1. \A r \in PlaceName : m \notin Place[r]
  BY DEF Apart
<1>2. "buffer" \in PlaceName
  BY DEF PlaceName
<1>3. \A p, q \in PlaceName : p # q => Place'[p] \cap Place'[q] = {}
  BY <1>1, <1>2 DEF Apart
<1>4. ASSUME NEW k \in Message
      PROVE  k \in Live' <=> \E p \in PlaceName : k \in Place'[p]
  BY <1>2, <1>4 DEF Apart
<1> QED
  BY <1>3, <1>4 DEF Apart

\* Nothing moves.
LEMMA StayKeeps ==
    ASSUME Apart(Place, Live), EachOnce, LeasedOnce, Live' = Live,
           UNCHANGED <<messages, undelivered, todo, pendingMessages>>
    PROVE  Apart(Place', Live') /\ EachOnce' /\ LeasedOnce'
<1>1. Pending' = Pending
  BY DEF Pending
<1>2. Place' = Place
  BY <1>1 DEF Place
<1> QED
  BY <1>1, <1>2 DEF EachOnce, LeasedOnce

\* An accepted message stays accepted, and only one in custody is let go of.
LEMMA HistoryKeeps ==
    ASSUME CustodyInv,
           \A m \in Message : pub[m] = "accepted" => pub'[m] = "accepted",
           \A m \in Message : fate'[m] # fate[m] => m \in Live /\ fate'[m] # "superseded",
           \A m \in Message : pub[m] # "accepted" => Recipients(m)' = Recipients(m)
    PROVE  NewIsUntouched' /\ OneCopyRemains'
<1>1. NewIsUntouched'
  BY DEF NewIsUntouched, CustodyInv, Live
<1>2. ASSUME NEW m \in Message, fate'[m] = "superseded"
      PROVE  \E k \in Copies(m) : pub'[k] = "accepted" /\ fate'[k] # "superseded"
  <2>1. fate[m] = "superseded"
    BY <1>2
  <2>2. PICK k \in Copies(m) : pub[k] = "accepted" /\ fate[k] # "superseded"
    BY <2>1 DEF CustodyInv, OneCopyRemains
  <2>3. k \in Message
    BY DEF Copies
  <2> QED
    BY <2>2, <2>3
<1> QED
  BY <1>1, <1>2 DEF OneCopyRemains, Copies

\* The invariant Custody is proved from.
Inv == TypeInv /\ CustodyInv

\* What the invariant says of the head of a goroutine's list.
LEMMA HeadIsLive ==
    ASSUME Inv, NEW w \in Worker, pc[w] \notin {"idle", "done"}
    PROVE  /\ todo[w] \in Seq(Message) /\ todo[w] # <<>>
           /\ Head(todo[w]) \in Message /\ Head(todo[w]) \in ToSet(todo[w])
           /\ ToSet(Tail(todo[w])) = ToSet(todo[w]) \ {Head(todo[w])}
           /\ IsInjective(Tail(todo[w]))
           /\ Head(todo[w]) \in Live
           /\ Head(todo[w]) \notin Pending
<1>1. todo[w] \in Seq(Message) /\ todo[w] # <<>> /\ IsInjective(todo[w])
  BY DEF Inv, TypeInv, TypeOK, WorkerShape, CustodyInv, EachOnce
<1>2. /\ Head(todo[w]) \in Message /\ Head(todo[w]) \in ToSet(todo[w])
      /\ ToSet(Tail(todo[w])) = ToSet(todo[w]) \ {Head(todo[w])}
      /\ IsInjective(Tail(todo[w]))
  BY <1>1, TailSet, HeadTailType
<1>3. w # "lease" /\ {w, "lease"} \subseteq PlaceName
  BY PlaceValues, Workers
<1>4. Head(todo[w]) \in Place[w] /\ Place["lease"] = Pending
  BY <1>2, PlaceValues
<1> QED
  BY <1>1, <1>2, <1>3, <1>4 DEF Inv, CustodyInv, Apart

\* A goroutine finishing with the head of its list gives the head away.
LEMMA FinishHeadPlaces ==
    ASSUME Inv, NEW w \in Worker, pc[w] \notin {"idle", "done"}, FinishHead(w)
    PROVE  /\ Place'[w] = Place[w] \ {Head(todo[w])}
           /\ \A v \in Worker \ {w} : Place'[v] = Place[v]
           /\ \A v \in Worker : IsInjective(todo'[v])
           /\ pc'[w] # "record"
<1>1. todo \in [Worker -> Seq(Message)]
  BY DEF Inv, TypeInv, TypeOK
<1>2. todo' = [todo EXCEPT ![w] = Tail(todo[w])]
  BY DEF FinishHead, Rest
<1>3. pc'[w] # "record"
  BY DEF FinishHead, Inv, TypeInv, TypeOK
<1>4. \A v \in Worker : IsInjective(todo'[v])
  BY <1>1, <1>2, HeadIsLive DEF Inv, CustodyInv, EachOnce
<1> QED
  BY <1>1, <1>2, <1>3, <1>4, HeadIsLive, PlaceValues, PlaceValuesNext

-----------------------------------------------------------------------------
(* The actions that move messages.                                         *)

\* Publish enters a new message into the buffer.
LEMMA PublishSendCustody ==
    ASSUME Inv, NEW m \in Message, PublishSend(m)
    PROVE  CustodyInv'
<1> USE DEF workerVars, history
<1>0. /\ TypeOK /\ CustodyInv /\ pub[m] = "checked"
      /\ UNCHANGED <<undelivered, todo, pendingMessages, fate, chan, got>>
  BY DEF Inv, TypeInv, PublishSend
<1>1. \A k \in Message : Recipients(k)' = Recipients(k)
  BY <1>0 DEF Recipients, Delivered
<1>2. NewIsUntouched' /\ OneCopyRemains'
  <2>1. \A k \in Message : pub[k] = "accepted" => pub'[k] = "accepted"
    BY <1>0 DEF PublishSend, TypeOK
  <2> QED
    BY <1>0, <1>1, <2>1, HistoryKeeps
<1>3. CASE pub'[m] # "accepted"
  <2>1. messages' = messages /\ Live' = Live
    BY <1>0, <1>3 DEF PublishSend, TypeOK, Live
  <2> QED
    BY <1>0, <1>2, <2>1, StayKeeps DEF CustodyInv
<1>4. CASE pub'[m] = "accepted"
  <2>1. messages' = Append(messages, m) /\ pub' = [pub EXCEPT ![m] = "accepted"]
    BY <1>0, <1>4 DEF PublishSend, TypeOK
  <2>2. fate[m] = "none" /\ m \notin Live /\ Live' = Live \cup {m}
    BY <1>0, <2>1 DEF CustodyInv, NewIsUntouched, Live, TypeOK
  <2>3. m \notin ToSet(messages)
    BY <1>0, <2>2, PlaceValues DEF CustodyInv, Apart
  <2>4. ToSet(messages') = ToSet(messages) \cup {m} /\ IsInjective(messages')
    BY <1>0, <2>1, <2>3, AppendSet DEF TypeOK, CustodyInv, EachOnce
  <2>5. Pending' = Pending
    BY <1>0 DEF Pending
  <2>6. /\ Place'["buffer"] = Place["buffer"] \cup {m}
        /\ \A r \in PlaceName \ {"buffer"} : Place'[r] = Place[r]
    BY <1>0, <2>4, <2>5, PlaceValues, PlaceValuesNext, Workers
  <2>7. Apart(Place', Live')
    BY <1>0, <2>2, <2>6, EnterKeeps DEF CustodyInv
  <2> QED
    BY <1>0, <1>2, <2>4, <2>5, <2>7 DEF CustodyInv, EachOnce, LeasedOnce
<1> QED
  BY <1>3, <1>4

\* Ack lets go of the copy on lease.
LEMMA AckHeldCustody ==
    ASSUME Inv, NEW s \in Sub, NEW m \in Message, AckHeld(s, m)
    PROVE  CustodyInv'
<1> USE DEF clientVars, workerVars
<1>0. /\ TypeOK /\ CustodyInv
      /\ UNCHANGED <<messages, undelivered, todo, pub, chan, got>>
  BY DEF Inv, TypeInv, AckHeld
<1>1. PICK k \in Pending :
         /\ pendingMessages' = [pendingMessages EXCEPT ![k] = None]
         /\ fate' = [fate EXCEPT ![k] = "acked"]
  BY DEF AckHeld
<1>2. k \in Message /\ Pending' = Pending \ {k}
  BY <1>0, <1>1 DEF Pending, TypeOK
<1>3. k \in Live
  BY <1>0, <1>1, <1>2, PlaceValues DEF CustodyInv, Apart
<1>4. Live' = Live \ {k}
  BY <1>0, <1>1, <1>2 DEF Live, TypeOK
<1>5. NewIsUntouched' /\ OneCopyRemains'
  <2>1. \A l \in Message : Recipients(l)' = Recipients(l)
    BY <1>0 DEF Recipients, Delivered
  <2>2. \A l \in Message : fate'[l] # fate[l] => l \in Live /\ fate'[l] # "superseded"
    BY <1>0, <1>1, <1>3 DEF TypeOK
  <2> QED
    BY <1>0, <2>1, <2>2, HistoryKeeps
<1>6. Apart(Place', Live')
  <2> DEFINE S == {k}
             T == {k}
  <2>1. /\ Place'["lease"] = Place["lease"] \ S
        /\ Place'["buffer"] = Place["buffer"] \cup (S \ T)
        /\ \A r \in PlaceName \ {"lease", "buffer"} : Place'[r] = Place[r]
    BY <1>0, <1>2, PlaceValues, PlaceValuesNext, Workers
  <2>2. Live' = Live \ T /\ S \in SUBSET Place["lease"] /\ T \in SUBSET S /\ S \subseteq Message
    BY <1>1, <1>2, <1>4, PlaceValues
  <2>3. "lease" \in PlaceName /\ "buffer" \in PlaceName /\ Apart(Place, Live)
    BY <1>0, PlaceValues DEF CustodyInv
  <2> HIDE DEF S, T
  <2> QED
    BY <2>1, <2>2, <2>3, PlaceMove
<1> QED
  BY <1>0, <1>2, <1>5, <1>6 DEF CustodyInv, EachOnce, LeasedOnce

\* The distributor takes the oldest message of the buffer.
LEMMA DistributeReceiveCustody ==
    ASSUME Inv, DistributeReceive
    PROVE  CustodyInv'
<1> USE DEF clientVars, history
<1>0. /\ TypeOK /\ CustodyInv /\ messages # <<>> /\ pc["distribute"] = "idle"
      /\ UNCHANGED <<undelivered, pendingMessages, pub, fate, chan, got>>
      /\ messages' = Tail(messages)
      /\ todo' = [todo EXCEPT !["distribute"] = <<Head(messages)>>]
      /\ todo["distribute"] = <<>>
  BY Workers DEF Inv, TypeInv, WorkerShape, DistributeReceive
<1>1. /\ Head(messages) \in Message /\ Head(messages) \in ToSet(messages)
      /\ ToSet(messages') = ToSet(messages) \ {Head(messages)}
      /\ IsInjective(messages')
  BY <1>0, TailSet, HeadTailType DEF TypeOK, CustodyInv, EachOnce
<1>2. Live' = Live /\ Pending' = Pending
  BY <1>0 DEF Live, Pending
<1>3. NewIsUntouched' /\ OneCopyRemains'
  <2>1. \A l \in Message : Recipients(l)' = Recipients(l)
    BY <1>0 DEF Recipients, Delivered
  <2> QED
    BY <1>0, <2>1, HistoryKeeps
<1>4. /\ todo'["distribute"] = <<Head(messages)>>
      /\ todo'["redeliver"] = todo["redeliver"]
  BY <1>0, Workers DEF TypeOK
<1>5. ToSet(todo["distribute"]) = {} /\ ToSet(todo'["distribute"]) = {Head(messages)}
  BY <1>0, <1>4 DEF ToSet
<1>6. Apart(Place', Live')
  <2> DEFINE S == {Head(messages)}
             T == {}
  <2>1. /\ Place'["buffer"] = Place["buffer"] \ S
        /\ Place'["distribute"] = Place["distribute"] \cup (S \ T)
        /\ \A r \in PlaceName \ {"buffer", "distribute"} : Place'[r] = Place[r]
    BY <1>0, <1>1, <1>2, <1>4, <1>5, PlaceValues, PlaceValuesNext, Workers
  <2>2. Live' = Live \ T /\ S \in SUBSET Place["buffer"] /\ T \in SUBSET S /\ S \subseteq Message
    BY <1>1, <1>2, PlaceValues
  <2>3. "buffer" \in PlaceName /\ "distribute" \in PlaceName /\ Apart(Place, Live)
    BY <1>0, PlaceValues DEF CustodyInv
  <2> HIDE DEF S, T
  <2> QED
    BY <2>1, <2>2, <2>3, PlaceMove
<1>7. \A w \in Worker : IsInjective(todo'[w])
  BY <1>0, <1>4, Workers DEF CustodyInv, EachOnce, IsInjective
<1> QED
  BY <1>0, <1>1, <1>2, <1>3, <1>6, <1>7 DEF CustodyInv, EachOnce, LeasedOnce

\* A goroutine lets go of the head of its list.
LEMMA DropHeadCustody ==
    ASSUME Inv, NEW w \in Worker, pc[w] \notin {"idle", "done"}, FinishHead(w),
           NEW x \in {"overflow", "untracked"},
           fate' = [fate EXCEPT ![Head(todo[w])] = x],
           UNCHANGED <<messages, undelivered, pendingMessages, pub, chan, got>>
    PROVE  CustodyInv'
<1> DEFINE m == Head(todo[w])
<1>0. /\ TypeOK /\ CustodyInv
      /\ m \in Message /\ m \in ToSet(todo[w]) /\ m \in Live
  BY HeadIsLive DEF Inv, TypeInv
<1>1. /\ Place'[w] = Place[w] \ {m}
      /\ \A v \in Worker \ {w} : Place'[v] = Place[v]
      /\ \A v \in Worker : IsInjective(todo'[v])
  BY FinishHeadPlaces
<1>2. Pending' = Pending
  BY DEF Pending
<1>3. Live' = Live \ {m}
  BY <1>0 DEF Live, TypeOK
<1>4. NewIsUntouched' /\ OneCopyRemains'
  <2>1. \A l \in Message : Recipients(l)' = Recipients(l)
    BY DEF Recipients, Delivered
  <2>2. \A l \in Message : fate'[l] # fate[l] => l \in Live /\ fate'[l] # "superseded"
    BY <1>0 DEF TypeOK
  <2> QED
    BY <1>0, <2>1, <2>2, HistoryKeeps
<1>5. Apart(Place', Live')
  <2> DEFINE S == {m}
             T == {m}
  <2>1. /\ Place'[w] = Place[w] \ S
        /\ Place'["buffer"] = Place["buffer"] \cup (S \ T)
        /\ \A r \in PlaceName \ {w, "buffer"} : Place'[r] = Place[r]
    BY <1>1, <1>2, PlaceValues, PlaceValuesNext, Workers
  <2>2. Live' = Live \ T /\ S \in SUBSET Place[w] /\ T \in SUBSET S /\ S \subseteq Message
    BY <1>0, <1>3, PlaceValues
  <2>3. w \in PlaceName /\ "buffer" \in PlaceName /\ w # "buffer" /\ Apart(Place, Live)
    BY <1>0, PlaceValues, Workers DEF CustodyInv
  <2> HIDE DEF S, T
  <2> QED
    BY <2>1, <2>2, <2>3, PlaceMove
<1> QED
  BY <1>0, <1>1, <1>2, <1>4, <1>5 DEF CustodyInv, EachOnce, LeasedOnce

\* A goroutine parks the head of its list in the backlog.
LEMMA ParkHeadCustody ==
    ASSUME Inv, NEW w \in Worker, pc[w] \notin {"idle", "done"}, FinishHead(w),
           undelivered' = Append(undelivered, Head(todo[w])),
           UNCHANGED <<messages, pendingMessages, pub, fate, chan, got>>
    PROVE  CustodyInv'
<1> DEFINE m == Head(todo[w])
<1>0. /\ TypeOK /\ CustodyInv
      /\ m \in Message /\ m \in ToSet(todo[w]) /\ m \in Live
  BY HeadIsLive DEF Inv, TypeInv
<1>1. /\ Place'[w] = Place[w] \ {m}
      /\ \A v \in Worker \ {w} : Place'[v] = Place[v]
      /\ \A v \in Worker : IsInjective(todo'[v])
  BY FinishHeadPlaces
<1>2. Pending' = Pending /\ Live' = Live
  BY DEF Pending, Live
<1>3. NewIsUntouched' /\ OneCopyRemains'
  <2>1. \A l \in Message : Recipients(l)' = Recipients(l)
    BY DEF Recipients, Delivered
  <2> QED
    BY <1>0, <2>1, HistoryKeeps
<1>4. w \in PlaceName /\ "backlog" \in PlaceName /\ w # "backlog" /\ Apart(Place, Live)
  BY <1>0, PlaceValues, Workers DEF CustodyInv
<1>5. m \notin ToSet(undelivered)
  BY <1>0, <1>4, PlaceValues DEF Apart
<1>6. ToSet(undelivered') = ToSet(undelivered) \cup {m} /\ IsInjective(undelivered')
  BY <1>0, <1>5, AppendSet DEF TypeOK, CustodyInv, EachOnce
<1>7. Apart(Place', Live')
  <2> DEFINE S == {m}
             T == {}
  <2>1. /\ Place'[w] = Place[w] \ S
        /\ Place'["backlog"] = Place["backlog"] \cup (S \ T)
        /\ \A r \in PlaceName \ {w, "backlog"} : Place'[r] = Place[r]
    BY <1>1, <1>2, <1>6, PlaceValues, PlaceValuesNext, Workers
  <2>2. Live' = Live \ T /\ S \in SUBSET Place[w] /\ T \in SUBSET S /\ S \subseteq Message
    BY <1>0, <1>2, PlaceValues
  <2> HIDE DEF S, T
  <2> QED
    BY <1>4, <2>1, <2>2, PlaceMove
<1> QED
  BY <1>0, <1>1, <1>2, <1>3, <1>6, <1>7 DEF CustodyInv, EachOnce, LeasedOnce

\* Buffer and DistributePark do the one or the other.
LEMMA ParkCustody ==
    ASSUME Inv, NEW w \in Worker, Buffer(w) \/ (w = "distribute" /\ DistributePark)
    PROVE  CustodyInv'
<1>1. /\ pc[w] \notin {"idle", "done"} /\ FinishHead(w)
      /\ UNCHANGED <<messages, pendingMessages, pub, chan, got>>
  BY DEF Buffer, DistributePark, clientVars
<1>2. \/ undelivered' = Append(undelivered, Head(todo[w])) /\ fate' = fate
      \/ undelivered' = undelivered /\ fate' = [fate EXCEPT ![Head(todo[w])] = "overflow"]
  BY DEF Buffer, DistributePark
<1> QED
  BY <1>1, <1>2, ParkHeadCustody, DropHeadCustody

\* The distributor puts the whole backlog in front of the new message.
LEMMA DistributeFlushCustody ==
    ASSUME Inv, DistributeFlush
    PROVE  CustodyInv'
<1> USE DEF clientVars, history
<1>0. /\ TypeOK /\ CustodyInv /\ "distribute" \in Worker
      /\ UNCHANGED <<messages, pendingMessages, pub, fate, chan, got>>
      /\ undelivered' = <<>>
      /\ todo' = [todo EXCEPT !["distribute"] = undelivered \o todo["distribute"]]
  BY Workers DEF Inv, TypeInv, DistributeFlush
<1>1. ToSet(undelivered) \cap ToSet(todo["distribute"]) = {}
  BY <1>0, PlaceValues DEF CustodyInv, Apart
<1>2. /\ todo'["distribute"] = undelivered \o todo["distribute"]
      /\ todo'["redeliver"] = todo["redeliver"]
  BY <1>0, Workers DEF TypeOK
<1>3. /\ ToSet(todo'["distribute"]) = ToSet(undelivered) \cup ToSet(todo["distribute"])
      /\ IsInjective(todo'["distribute"])
  BY <1>0, <1>1, <1>2, ConcatSet DEF TypeOK, CustodyInv, EachOnce
<1>4. Pending' = Pending /\ Live' = Live
  BY <1>0 DEF Pending, Live
<1>5. NewIsUntouched' /\ OneCopyRemains'
  <2>1. \A l \in Message : Recipients(l)' = Recipients(l)
    BY <1>0 DEF Recipients, Delivered
  <2> QED
    BY <1>0, <2>1, HistoryKeeps
<1>6. ToSet(undelivered') = {} /\ IsInjective(undelivered')
  BY <1>0 DEF ToSet, IsInjective
<1>7. Apart(Place', Live')
  <2> DEFINE S == ToSet(undelivered)
             T == {}
  <2>1. /\ Place'["backlog"] = Place["backlog"] \ S
        /\ Place'["distribute"] = Place["distribute"] \cup (S \ T)
        /\ \A r \in PlaceName \ {"backlog", "distribute"} : Place'[r] = Place[r]
    BY <1>0, <1>2, <1>3, <1>4, <1>6, PlaceValues, PlaceValuesNext, Workers
  <2>2. Live' = Live \ T /\ S \in SUBSET Place["backlog"] /\ T \in SUBSET S
    BY <1>4, PlaceValues
  <2>3. S \subseteq Message
    BY <1>0 DEF TypeOK, ToSet
  <2>4. "backlog" \in PlaceName /\ "distribute" \in PlaceName /\ Apart(Place, Live)
    BY <1>0, PlaceValues DEF CustodyInv
  <2> HIDE DEF S, T
  <2> QED
    BY <2>1, <2>2, <2>3, <2>4, PlaceMove
<1> QED
  BY <1>0, <1>2, <1>3, <1>4, <1>5, <1>6, <1>7, Workers DEF CustodyInv, EachOnce, LeasedOnce

\* Recording a lease: the head goes into the pending table and the copy whose
\* entry it overwrites falls out of it.
LEMMA RecordCustody ==
    ASSUME Inv, NEW w \in Worker, Record(w)
    PROVE  CustodyInv'
<1> USE DEF clientVars
<1> DEFINE m == Head(todo[w])
           Out == Superseded(m)
<1>0. /\ TypeOK /\ CustodyInv /\ pc[w] \notin {"idle", "done"} /\ FinishHead(w)
      /\ UNCHANGED <<messages, undelivered, pub, chan, got>>
      /\ m \in Message /\ m \in ToSet(todo[w]) /\ m \in Live /\ m \notin Pending
  BY HeadIsLive DEF Inv, TypeInv, Record
<1>1. CASE ~PendingRoom
  <2>1. fate' = [fate EXCEPT ![m] = "untracked"] /\ UNCHANGED pendingMessages
    BY <1>1 DEF Record
  <2> QED
    BY <1>0, <2>1, DropHeadCustody
<1>2. CASE PendingRoom
  <2>1. /\ pendingMessages' = [k \in Message |->
               IF k = m THEN LeaseHolder(w) ELSE IF k \in Out THEN None ELSE pendingMessages[k]]
        /\ fate' = [k \in Message |-> IF k \in Out THEN "superseded" ELSE fate[k]]
    BY <1>2 DEF Record
  <2>2. LeaseHolder(w) \in Consumer /\ LeaseHolder(w) # None
    BY QueueAssumption DEF Inv, TypeInv, TypeOK, WorkerShape, LeaseHolder, Record
  <2>3. Out \subseteq Pending /\ m \notin Out /\ \A k \in Pending : IdOf[k] = IdOf[m] => k \in Out
    BY <1>0 DEF Superseded, Copies, Pending
  <2>4. Pending' = (Pending \ Out) \cup {m}
    BY <1>0, <2>1, <2>2, <2>3 DEF Pending
  <2>5. Pending \subseteq Live
    BY <1>0, PlaceValues DEF CustodyInv, Apart, Pending
  <2>6. Live' = Live \ Out
    BY <1>0, <2>1, <2>3, <2>5 DEF Live
  <2>7. LeasedOnce'
    BY <1>0, <2>3, <2>4 DEF CustodyInv, LeasedOnce
  <2>8. /\ Place'[w] = Place[w] \ {m}
        /\ \A v \in Worker \ {w} : Place'[v] = Place[v]
        /\ \A v \in Worker : IsInjective(todo'[v])
    BY <1>0, FinishHeadPlaces
  <2>9. NewIsUntouched'
    <3>1. \A l \in Message : Recipients(l)' = Recipients(l)
      BY <1>0 DEF Recipients, Delivered
    <3>2. \A l \in Message : pub'[l] # "accepted" => l \notin Out
      BY <1>0, <2>3, <2>5 DEF Live
    <3> QED
      BY <1>0, <2>1, <3>1, <3>2 DEF CustodyInv, NewIsUntouched
  <2>10. OneCopyRemains'
    <3> SUFFICES ASSUME NEW l \in Message, fate'[l] = "superseded"
                 PROVE  \E k \in Copies(l) : pub'[k] = "accepted" /\ fate'[k] # "superseded"
      BY DEF OneCopyRemains, Copies
    <3>1. pub'[m] = "accepted" /\ fate'[m] # "superseded"
      BY <1>0, <2>1, <2>3 DEF Live
    <3>2. CASE l \in Out
      BY <1>0, <3>1, <3>2 DEF Superseded, Copies
    <3>3. CASE l \notin Out
      <4>1. fate[l] = "superseded"
        BY <2>1, <3>3
      <4>2. PICK k \in Copies(l) : pub[k] = "accepted" /\ fate[k] # "superseded"
        BY <1>0, <4>1 DEF CustodyInv, OneCopyRemains
      <4>3. CASE k \notin Out
        BY <1>0, <2>1, <4>2, <4>3 DEF Copies
      <4>4. CASE k \in Out
        <5>1. IdOf[k] = IdOf[l] /\ IdOf[k] = IdOf[m]
          BY <4>2, <4>4 DEF Superseded, Copies
        <5> QED
          BY <1>0, <3>1, <5>1 DEF Copies
      <4> QED
        BY <4>3, <4>4
    <3> QED
      BY <3>2, <3>3
  <2>11. Apart(Place', Live')
    <3> DEFINE mid == [Place EXCEPT !["lease"] = Pending \ Out]
               S == {m}
    <3>1. /\ {"lease", w} \subseteq PlaceName /\ w # "lease"
          /\ Apart(Place, Live) /\ Place["lease"] = Pending
      BY <1>0, PlaceValues, Workers DEF CustodyInv
    <3>2. /\ mid["lease"] = Place["lease"] \ Out
          /\ \A r \in PlaceName \ {"lease"} : mid[r] = Place[r]
      BY <3>1 DEF Place
    <3>3. Out \in SUBSET Place["lease"] /\ Out \subseteq Message
      BY <2>3, <3>1 DEF Pending
    <3>4. /\ Place'[w] = mid[w] \ S
          /\ Place'["lease"] = mid["lease"] \cup S
          /\ \A r \in PlaceName \ {w, "lease"} : Place'[r] = mid[r]
      BY <1>0, <2>4, <2>8, <3>1, <3>2, PlaceValues, PlaceValuesNext, Workers
    <3>5. S \in SUBSET mid[w] /\ S \subseteq Message
      BY <1>0, <3>1, <3>2, PlaceValues
    <3> HIDE DEF S, Out, mid
    <3>6. Apart(mid, Live')
      BY <2>6, <3>1, <3>2, <3>3, DropKeeps
    <3> QED
      BY <3>1, <3>4, <3>5, <3>6, CarryKeeps
  <2> QED
    BY <1>0, <2>7, <2>8, <2>9, <2>10, <2>11 DEF CustodyInv, EachOnce
<1> QED
  BY <1>1, <1>2

\* The sweep collects the overdue leases and drops the expired ones.
LEMMA SweepCustody ==
    ASSUME Inv, Sweep
    PROVE  CustodyInv'
<1> USE DEF clientVars
<1>0. /\ TypeOK /\ CustodyInv /\ "redeliver" \in Worker /\ todo["redeliver"] = <<>>
      /\ UNCHANGED <<messages, undelivered, pub, chan, got>>
      /\ pendingMessages' = [m \in Message |->
             IF m \in Overdue \cup Expired THEN None ELSE pendingMessages[m]]
      /\ fate' = [m \in Message |-> IF m \in Expired THEN "expired" ELSE fate[m]]
      /\ \E order \in SetToSeqs(Overdue) : todo' = [todo EXCEPT !["redeliver"] = order]
  BY Workers DEF Inv, TypeInv, WorkerShape, Sweep
<1>1. PICK order \in SetToSeqs(Overdue) : todo' = [todo EXCEPT !["redeliver"] = order]
  BY <1>0
<1>2. /\ Overdue \subseteq Pending /\ Expired \subseteq Pending /\ Pending \subseteq Message
      /\ Overdue \cap Expired = {}
  BY DEF Overdue, Expired, Pending
<1>3. ToSet(order) = Overdue /\ IsInjective(order)
  BY <1>1, <1>2, OrderingSet, PendingFinite
<1>4. todo'["redeliver"] = order /\ todo'["distribute"] = todo["distribute"]
  BY <1>0, <1>1, Workers DEF TypeOK
<1>5. Pending' = Pending \ (Overdue \cup Expired)
  BY <1>0 DEF Pending
<1>6. Pending \subseteq Live
  BY <1>0, PlaceValues DEF CustodyInv, Apart, Pending
<1>7. Live' = Live \ Expired
  BY <1>0, <1>2, <1>6 DEF Live
<1>8. NewIsUntouched' /\ OneCopyRemains'
  <2>1. \A l \in Message : Recipients(l)' = Recipients(l)
    BY <1>0 DEF Recipients, Delivered
  <2>2. \A l \in Message : fate'[l] # fate[l] => l \in Live /\ fate'[l] # "superseded"
    BY <1>0, <1>2, <1>6
  <2> QED
    BY <1>0, <2>1, <2>2, HistoryKeeps
<1>9. Apart(Place', Live')
  <2> DEFINE S == Overdue \cup Expired
             T == Expired
  <2>1. ToSet(todo["redeliver"]) = {}
    BY <1>0 DEF ToSet
  <2>2. S \ T = Overdue
    BY <1>2
  <2>3. /\ Place'["lease"] = Place["lease"] \ S
        /\ Place'["redeliver"] = Place["redeliver"] \cup (S \ T)
        /\ \A r \in PlaceName \ {"lease", "redeliver"} : Place'[r] = Place[r]
    BY <1>0, <1>3, <1>4, <1>5, <2>1, <2>2, PlaceValues, PlaceValuesNext, Workers
  <2>4. Live' = Live \ T /\ S \in SUBSET Place["lease"] /\ T \in SUBSET S /\ S \subseteq Message
    BY <1>2, <1>7, PlaceValues
  <2>5. "lease" \in PlaceName /\ "redeliver" \in PlaceName /\ Apart(Place, Live)
    BY <1>0, PlaceValues DEF CustodyInv
  <2> HIDE DEF S, T
  <2> QED
    BY <2>3, <2>4, <2>5, PlaceMove
<1>10. \A w \in Worker : IsInjective(todo'[w])
  BY <1>0, <1>3, <1>4, Workers DEF CustodyInv, EachOnce
<1> QED
  BY <1>0, <1>5, <1>8, <1>9, <1>10 DEF CustodyInv, EachOnce, LeasedOnce

\* What the backlog has no room for is dropped.
LEMMA RebufferCustody ==
    ASSUME Inv, Rebuffer
    PROVE  CustodyInv'
<1> USE DEF clientVars
<1> DEFINE list == todo["redeliver"]
           room == MaxUndelivered - Len(undelivered)
<1>0. /\ TypeOK /\ CustodyInv /\ "redeliver" \in Worker
      /\ UNCHANGED <<messages, pendingMessages, pub, chan, got>>
      /\ undelivered' = undelivered \o
            (IF room >= Len(list) THEN list ELSE SubSeq(list, 1, room))
      /\ fate' = [m \in Message |-> IF m \in ToSet(list) \ ToSet(undelivered')
                                      THEN "overflow" ELSE fate[m]]
      /\ todo' = [todo EXCEPT !["redeliver"] = <<>>]
  BY Workers DEF Inv, TypeInv, Rebuffer
<1>1. /\ list \in Seq(Message) /\ IsInjective(list)
      /\ undelivered \in Seq(Message) /\ IsInjective(undelivered)
      /\ room \in Int
  BY <1>0, QueueAssumption, LenProperties DEF TypeOK, CustodyInv, EachOnce, MaxUndelivered
<1>2. PICK kept \in Seq(Message) : /\ undelivered' = undelivered \o kept
                                   /\ ToSet(kept) \subseteq ToSet(list)
                                   /\ IsInjective(kept)
  <2>1. CASE room >= Len(list)
    BY <1>0, <1>1, <2>1
  <2>2. CASE ~(room >= Len(list))
    <3>1. room <= Len(list) /\ Len(list) \in Nat
      BY <1>1, <2>2, LenProperties
    <3> QED
      BY <1>0, <1>1, <2>2, <3>1, SubSeqSet
  <2> QED
    BY <2>1, <2>2
<1>3. /\ {"redeliver", "backlog"} \subseteq PlaceName /\ Apart(Place, Live)
      /\ Place["redeliver"] = ToSet(list) /\ Place["backlog"] = ToSet(undelivered)
  BY <1>0, PlaceValues DEF CustodyInv
<1>4. ToSet(undelivered) \cap ToSet(list) = {}
  BY <1>3 DEF Apart
<1>5. ToSet(undelivered') = ToSet(undelivered) \cup ToSet(kept) /\ IsInjective(undelivered')
  BY <1>1, <1>2, <1>4, ConcatSet
<1>6. ToSet(list) \subseteq Message /\ ToSet(list) \subseteq Live
  <2>1. ToSet(list) \subseteq Message
    BY <1>1 DEF ToSet
  <2> QED
    BY <1>3, <2>1 DEF Apart
<1>7. Live' = Live \ (ToSet(list) \ ToSet(undelivered'))
  BY <1>0, <1>6 DEF Live
<1>8. NewIsUntouched' /\ OneCopyRemains'
  <2>1. \A l \in Message : Recipients(l)' = Recipients(l)
    BY <1>0 DEF Recipients, Delivered
  <2>2. \A l \in Message : fate'[l] # fate[l] => l \in Live /\ fate'[l] # "superseded"
    BY <1>0, <1>6
  <2> QED
    BY <1>0, <2>1, <2>2, HistoryKeeps
<1>9. /\ todo'["redeliver"] = <<>> /\ todo'["distribute"] = todo["distribute"]
      /\ ToSet(todo'["redeliver"]) = {} /\ Pending' = Pending
  BY <1>0, Workers DEF TypeOK, ToSet, Pending
<1>10. Apart(Place', Live')
  <2> DEFINE S == ToSet(list)
             T == ToSet(list) \ ToSet(undelivered')
  <2>1. S \ T = ToSet(kept)
    BY <1>2, <1>4, <1>5
  <2>2. /\ Place'["redeliver"] = Place["redeliver"] \ S
        /\ Place'["backlog"] = Place["backlog"] \cup (S \ T)
        /\ \A r \in PlaceName \ {"redeliver", "backlog"} : Place'[r] = Place[r]
    BY <1>0, <1>3, <1>5, <1>9, <2>1, PlaceValues, PlaceValuesNext, Workers
  <2>3. /\ Live' = Live \ T /\ S \in SUBSET Place["redeliver"] /\ T \in SUBSET S
        /\ S \subseteq Message
    BY <1>3, <1>6, <1>7
  <2> HIDE DEF S, T
  <2> QED
    BY <1>3, <2>2, <2>3, PlaceMove
<1>11. \A w \in Worker : IsInjective(todo'[w])
  BY <1>0, <1>9, Workers DEF CustodyInv, EachOnce, IsInjective
<1> QED
  BY <1>0, <1>5, <1>8, <1>9, <1>10, <1>11 DEF CustodyInv, EachOnce, LeasedOnce

\* Close empties the pending table.
LEMMA CloseEndCustody ==
    ASSUME Inv, CloseEnd
    PROVE  CustodyInv'
<1> USE DEF clientVars, workerVars
<1>0. /\ TypeOK /\ CustodyInv
      /\ UNCHANGED <<messages, undelivered, todo, pub, chan, got>>
      /\ pendingMessages' = [m \in Message |-> None]
      /\ fate' = [m \in Message |-> IF m \in Pending THEN "shutdown" ELSE fate[m]]
  BY DEF Inv, TypeInv, CloseEnd
<1>1. Pending' = {} /\ Pending \subseteq Message
  BY <1>0 DEF Pending
<1>2. Pending \subseteq Live
  BY <1>0, <1>1, PlaceValues DEF CustodyInv, Apart
<1>3. Live' = Live \ Pending
  BY <1>0, <1>2 DEF Live
<1>4. NewIsUntouched' /\ OneCopyRemains'
  <2>1. \A l \in Message : Recipients(l)' = Recipients(l)
    BY <1>0 DEF Recipients, Delivered
  <2>2. \A l \in Message : fate'[l] # fate[l] => l \in Live /\ fate'[l] # "superseded"
    BY <1>0, <1>2
  <2> QED
    BY <1>0, <2>1, <2>2, HistoryKeeps
<1>5. Apart(Place', Live')
  <2> DEFINE S == Pending
             T == Pending
  <2>1. /\ Place'["lease"] = Place["lease"] \ S
        /\ Place'["buffer"] = Place["buffer"] \cup (S \ T)
        /\ \A r \in PlaceName \ {"lease", "buffer"} : Place'[r] = Place[r]
    BY <1>0, <1>1, PlaceValues, PlaceValuesNext, Workers
  <2>2. Live' = Live \ T /\ S \in SUBSET Place["lease"] /\ T \in SUBSET S /\ S \subseteq Message
    BY <1>1, <1>3, PlaceValues
  <2>3. "lease" \in PlaceName /\ "buffer" \in PlaceName /\ Apart(Place, Live)
    BY <1>0, PlaceValues DEF CustodyInv
  <2> HIDE DEF S, T
  <2> QED
    BY <2>1, <2>2, <2>3, PlaceMove
<1> QED
  BY <1>0, <1>1, <1>4, <1>5 DEF CustodyInv, EachOnce, LeasedOnce

-----------------------------------------------------------------------------
(* Custody.                                                                *)

\* Every other action leaves the messages where they are; a send and a receive
\* change who has seen an accepted message.
LEMMA QuietCustody ==
    ASSUME CustodyInv,
           UNCHANGED <<messages, undelivered, todo, pendingMessages, fate>>,
           \A m \in Message : pub'[m] = "accepted" <=> pub[m] = "accepted",
           \A m \in Message : pub[m] # "accepted" => Recipients(m)' = Recipients(m)
    PROVE  CustodyInv'
<1>1. Live' = Live
  BY DEF Live
<1> QED
  BY <1>1, StayKeeps, HistoryKeeps DEF CustodyInv

\* Sending the head of a list shows it to one more subscription.
LEMMA SendRecipients ==
    ASSUME Inv, NEW w \in Worker, SendOK(w)
    PROVE  /\ target[w] \in Sub /\ Head(todo[w]) \in Live
           /\ Recipients(Head(todo[w]))' = Recipients(Head(todo[w])) \cup {target[w]}
           /\ \A m \in Message \ {Head(todo[w])} : Recipients(m)' = Recipients(m)
<1>1. /\ chan \in [Sub -> Seq(Message)] /\ target[w] \in Sub
      /\ got' = got /\ target' = target /\ todo' = todo
      /\ Head(todo[w]) \in Message /\ Head(todo[w]) \in Live
      /\ chan' = [chan EXCEPT ![target[w]] = Append(chan[target[w]], Head(todo[w]))]
  BY HeadIsLive DEF SendOK, Inv, TypeInv, TypeOK, WorkerShape, clientVars
<1>2. ToSet(chan'[target[w]]) = ToSet(chan[target[w]]) \cup {Head(todo[w])}
  BY <1>1, AppendSet
<1>3. /\ \A s \in Sub \ {target[w]} : Delivered(s)' = Delivered(s)
      /\ Delivered(target[w])' = Delivered(target[w]) \cup {Head(todo[w])}
  BY <1>1, <1>2 DEF Delivered
<1>4. Recipients(Head(todo[w]))' = Recipients(Head(todo[w])) \cup {target[w]}
  BY <1>1, <1>3 DEF Recipients
<1>5. ASSUME NEW m \in Message \ {Head(todo[w])}
      PROVE  Recipients(m)' = Recipients(m)
  BY <1>1, <1>3, <1>5 DEF Recipients
<1> QED
  BY <1>1, <1>4, <1>5

\* Receiving moves a message from the channel to the consumer.
LEMMA ReceiveRecipients ==
    ASSUME TypeOK, NEW s \in Sub, Receive(s)
    PROVE  \A m \in Message : Recipients(m)' = Recipients(m)
<1>1. /\ chan \in [Sub -> Seq(Message)] /\ got \in [Sub -> SUBSET Message]
      /\ chan[s] # <<>> /\ chan' = [chan EXCEPT ![s] = Tail(chan[s])]
      /\ got' = [got EXCEPT ![s] = got[s] \cup {Head(chan[s])}]
  BY DEF Receive, TypeOK
<1>2. ToSet(chan[s]) = ToSet(Tail(chan[s])) \cup {Head(chan[s])}
  <2> DEFINE q == chan[s]
  <2>1. /\ Len(q) \in Nat \ {0} /\ DOMAIN q = 1..Len(q) /\ Head(q) = q[1]
        /\ DOMAIN Tail(q) = 1..(Len(q) - 1)
        /\ \A i \in 1..(Len(q) - 1) : Tail(q)[i] = q[i + 1]
    BY <1>1, HeadTailProperties, LenProperties
  <2> HIDE DEF q
  <2>2. \A x \in ToSet(q) : x \in ToSet(Tail(q)) \cup {Head(q)}
    <3> TAKE x \in ToSet(q)
    <3>1. PICK i \in 1..Len(q) : x = q[i]
      BY <2>1 DEF ToSet
    <3>2. CASE i = 1
      BY <2>1, <3>1, <3>2
    <3>3. CASE i # 1
      <4>1. i - 1 \in 1..(Len(q) - 1) /\ Tail(q)[i - 1] = x
        BY <2>1, <3>1, <3>3
      <4> QED
        BY <2>1, <4>1 DEF ToSet
    <3> QED
      BY <3>2, <3>3
  <2>3. \A x \in ToSet(Tail(q)) \cup {Head(q)} : x \in ToSet(q)
    BY <2>1 DEF ToSet
  <2> QED
    BY <2>2, <2>3 DEF q
<1>3. \A r \in Sub : Delivered(r)' = Delivered(r)
  BY <1>1, <1>2 DEF Delivered
<1> QED
  BY <1>3 DEF Recipients

\* Every step keeps each message in one place.
LEMMA CustodyStep ==
    ASSUME Inv, [Next]_vars
    PROVE  CustodyInv'
<1> USE DEF clientVars, workerVars, history
<1>0. TypeOK /\ CustodyInv
  BY DEF Inv, TypeInv
<1>1. ASSUME UNCHANGED <<messages, undelivered, todo, pendingMessages, fate, pub, chan, got>>
      PROVE  CustodyInv'
  BY <1>0, <1>1, QuietCustody DEF Recipients, Delivered
<1>2. ASSUME NEW m \in Message, Publisher(m)
      PROVE  CustodyInv'
  <2>1. CASE PublishSend(m)
    BY <2>1, PublishSendCustody
  <2>2. CASE PublishCheck(m) \/ PublishCancelled(m)
    <3>1. /\ UNCHANGED <<messages, undelivered, todo, pendingMessages, fate, chan, got>>
          /\ pub[m] # "accepted"
          /\ \E r \in {"checked", "refused", "idle"} : pub' = [pub EXCEPT ![m] = r]
      BY <2>2 DEF PublishCheck, PublishCancelled
    <3>2. \A k \in Message : pub'[k] = "accepted" <=> pub[k] = "accepted"
      BY <1>0, <3>1 DEF TypeOK
    <3> QED
      BY <1>0, <3>1, <3>2, QuietCustody DEF Recipients, Delivered
  <2> QED
    BY <1>2, <2>1, <2>2 DEF Publisher
<1>3. ASSUME NEW m \in Message, Elapse(m)
      PROVE  CustodyInv'
  BY <1>1, <1>3 DEF Elapse
<1>4. ASSUME NEW s \in Sub, Subscription(s)
      PROVE  CustodyInv'
  <2>1. CASE Subscribe(s)
    BY <1>1, <2>1 DEF Subscribe
  <2>2. CASE CancelContext(s)
    BY <1>1, <2>2 DEF CancelContext
  <2>3. CASE Cleanup(s)
    BY <1>1, <2>3 DEF Cleanup
  <2>4. CASE Receive(s)
    BY <1>0, <2>4, ReceiveRecipients, QuietCustody DEF Receive
  <2>5. ASSUME NEW m \in Message, AckHeld(s, m)
        PROVE  CustodyInv'
    BY <2>5, AckHeldCustody
  <2>6. ASSUME NEW m \in Message, AckUnknown(s, m)
        PROVE  CustodyInv'
    BY <1>1, <2>6 DEF AckUnknown
  <2> QED
    BY <1>4, <2>1, <2>2, <2>3, <2>4, <2>5, <2>6 DEF Subscription
<1>5. ASSUME NEW w \in Worker, Deliver(w)
      PROVE  CustodyInv'
  <2>1. CASE PickNobody(w)
    BY <1>1, <2>1 DEF PickNobody
  <2>2. CASE Pick(w)
    BY <1>1, <2>2 DEF Pick
  <2>3. CASE Advance(w)
    BY <1>1, <2>3 DEF Advance
  <2>4. CASE SendOK(w)
    BY <1>0, <2>4, SendRecipients, QuietCustody DEF SendOK, Live
  <2>5. CASE SendFail(w)
    BY <1>1, <2>5 DEF SendFail
  <2>6. CASE Record(w)
    BY <2>6, RecordCustody
  <2>7. CASE Buffer(w)
    BY <2>7, ParkCustody
  <2> QED
    BY <1>5, <2>1, <2>2, <2>3, <2>4, <2>5, <2>6, <2>7 DEF Deliver
<1>6. CASE Distribute
  <2>1. CASE DistributeExit
    BY <1>1, <2>1 DEF DistributeExit
  <2> QED
    BY <1>6, <2>1, DistributeReceiveCustody, ParkCustody, DistributeFlushCustody, Workers
       DEF Distribute
<1>7. CASE Redeliver
  <2>1. CASE RedeliverExit
    BY <1>1, <2>1 DEF RedeliverExit
  <2> QED
    BY <1>7, <2>1, SweepCustody, RebufferCustody DEF Redeliver
<1>8. CASE CloseBegin
  BY <1>1, <1>8 DEF CloseBegin
<1>9. CASE CloseEnd
  BY <1>9, CloseEndCustody
<1>10. CASE UNCHANGED vars
  BY <1>1, <1>10 DEF vars
<1> QED
  BY <1>2, <1>3, <1>4, <1>5, <1>6, <1>7, <1>8, <1>9, <1>10 DEF Next

\* A queue that has just been built holds nothing.
LEMMA CustodyInit == Init => CustodyInv
<1> SUFFICES ASSUME Init PROVE CustodyInv
  OBVIOUS
<1>1. Pending = {} /\ Live = {}
  BY DEF Init, Pending, Live
<1>2. \A p \in PlaceName : Place[p] = {}
  BY <1>1, PlaceValues, Workers DEF Init, ToSet
<1>3. Apart(Place, Live)
  BY <1>1, <1>2 DEF Apart
<1>4. EachOnce
  BY DEF Init, EachOnce, IsInjective
<1>5. NewIsUntouched
  BY DEF Init, NewIsUntouched, Recipients, Delivered, ToSet
<1>6. OneCopyRemains
  BY DEF Init, OneCopyRemains
<1> QED
  BY <1>1, <1>3, <1>4, <1>5, <1>6 DEF CustodyInv, LeasedOnce

\* The inductive invariant, for the theorems of this module.
LEMMA CustodyInvariant == Spec => []Inv
<1>1. Inv /\ [Next]_vars => Inv'
  BY TypeStep, WorkerStep, IndexStep, CustodyStep DEF Inv, TypeInv
<1>2. Init => Inv
  BY TypeInvInit, CustodyInit DEF Inv
<1> QED
  BY <1>1, <1>2, PTL DEF Spec

\* Custody counts places where the invariant tells them apart.
LEMMA CustodyFromPlaces == Inv => Custody
<1> SUFFICES ASSUME Inv PROVE Custody
  OBVIOUS
<1>0. CustodyInv
  BY DEF Inv
<1>1. ASSUME NEW m \in Message
      PROVE  Cardinality(Where(m)) = IF pub[m] = "accepted" /\ fate[m] = "none" THEN 1 ELSE 0
  <2>1. Where(m) = {p \in PlaceName : m \in Place[p]}
    BY PlaceValues, Workers DEF Where, Pending
  <2>2. CASE m \in Live
    <3>1. PICK p \in PlaceName : m \in Place[p]
      BY <1>0, <2>2 DEF CustodyInv, Apart
    <3>2. Where(m) = {p}
      BY <1>0, <2>1, <3>1 DEF CustodyInv, Apart
    <3> QED
      BY <2>2, <3>2, FS_Singleton DEF Live
  <2>3. CASE m \notin Live
    <3>1. Where(m) = {}
      BY <1>0, <2>1, <2>3 DEF CustodyInv, Apart
    <3> QED
      BY <2>3, <3>1, FS_EmptySet DEF Live
  <2> QED
    BY <2>2, <2>3
<1>2. ASSUME NEW m \in Message
      PROVE  Cardinality(Copies(m) \cap Pending) <= 1
  <2>1. CASE Copies(m) \cap Pending = {}
    BY <2>1, FS_EmptySet
  <2>2. CASE Copies(m) \cap Pending # {}
    <3>1. PICK k : k \in Copies(m) \cap Pending
      BY <2>2
    <3>2. Copies(m) \cap Pending = {k}
      BY <1>0, <3>1 DEF CustodyInv, LeasedOnce, Copies
    <3> QED
      BY <3>2, FS_Singleton
  <2> QED
    BY <2>1, <2>2
<1> QED
  BY <1>0, <1>1, <1>2 DEF Custody, CustodyInv, NewIsUntouched, OneCopyRemains, EachOnce

\* An accepted message is in exactly one place until the queue lets go of it,
\* no place holds it twice, an ID has one lease, and of the copies of an ID one
\* is not overwritten: for any number of messages, subscriptions and copies,
\* and whatever the capacities and retry limits are.
THEOREM MessagesAreInCustody == Spec => []Custody
BY CustodyInvariant, CustodyFromPlaces, PTL

-----------------------------------------------------------------------------
(* One consumer at a time.                                                 *)

\* Until a sweep takes a message back it is seen by one subscription only, and
\* once it has been seen it is on its way into the pending table, in it, or
\* gone.
SeenOnce ==
    \A m \in Message \ swept :
        /\ \A s, t \in Recipients(m) : s = t
        /\ Recipients(m) # {} => m \notin Live \/ m \in Pending \/ BeingRecorded(m)

\* Nobody leases, and nothing but the backlog's limit loses, an unseen message.
SeenBefore ==
    /\ \A m \in Pending : Recipients(m) # {}
    /\ \A w \in Worker : pc[w] = "record" => target[w] \in Recipients(Head(todo[w]))
    /\ \A m \in Message : fate[m] \notin {"none", "overflow"} => Recipients(m) # {}

Handover == SeenOnce /\ SeenBefore

\* Steps that show a message to nobody and take no goroutine to or from the
\* point between a send and the record of the lease.
LEMMA QuietHandover ==
    ASSUME Inv, Handover, swept \subseteq swept', Pending' \subseteq Pending,
           \A m \in Message : Recipients(m)' = Recipients(m),
           \A w \in Worker : pc'[w] = "record" <=> pc[w] = "record",
           \A w \in Worker : pc[w] = "record" => todo'[w] = todo[w] /\ target'[w] = target[w],
           \A m \in Message : m \in Live' => m \in Live \/ Recipients(m) = {},
           \A m \in Message :
               m \in Pending => m \in Pending' \/ m \notin Live' \/ m \in swept',
           \A m \in Message : fate'[m] # fate[m] => m \in Pending \/ fate'[m] = "overflow"
    PROVE  Handover'
<1>1. \A m \in Message : BeingRecorded(m)' <=> BeingRecorded(m)
  BY DEF BeingRecorded
<1>2. SeenOnce'
  BY <1>1 DEF Handover, SeenOnce
<1>3. ASSUME NEW m \in Pending'
      PROVE  Recipients(m)' # {}
  <2>1. m \in Pending /\ m \in Message
    BY DEF Pending
  <2> QED
    BY <2>1 DEF Handover, SeenBefore
<1>4. ASSUME NEW w \in Worker, pc'[w] = "record"
      PROVE  target'[w] \in Recipients(Head(todo[w]))'
  <2>1. /\ target'[w] = target[w] /\ todo'[w] = todo[w] /\ pc[w] = "record"
        /\ target[w] \in Recipients(Head(todo[w]))
    BY <1>4 DEF Handover, SeenBefore
  <2>2. Head(todo[w]) \in Message
    BY <2>1, HeadIsLive
  <2>3. \A s \in Sub : Head(todo[w]) \in Delivered(s)' <=> Head(todo[w]) \in Delivered(s)
    <3>1. \A m \in Message, s \in Sub : m \in Delivered(s)' <=> m \in Delivered(s)
      BY DEF Recipients
    <3> QED
      BY <2>1, <2>2, <3>1
  <2> QED
    BY <2>1, <2>3 DEF Recipients
<1> QED
  BY <1>2, <1>3, <1>4 DEF Handover, SeenBefore

\* Sending: the head was seen by nobody unless a sweep took it back.
LEMMA SendHandover ==
    ASSUME Inv, Handover, NEW w \in Worker, SendOK(w)
    PROVE  Handover'
<1> DEFINE m == Head(todo[w])
<1>0. /\ pc \in [Worker -> PCValue] /\ pc[w] = "send"
      /\ pc' = [pc EXCEPT ![w] = "record"]
      /\ UNCHANGED <<todo, target, swept, fate, pub, pendingMessages>>
  BY DEF Inv, TypeInv, TypeOK, SendOK, history, clientVars
<1>1. /\ target[w] \in Sub /\ m \in Live /\ m \in Message /\ m \in ToSet(todo[w])
      /\ m \notin Pending
  BY <1>0, HeadIsLive, SendRecipients
<1>2. /\ \A s \in Sub : s \in Recipients(m)' <=> s \in Recipients(m) \/ s = target[w]
      /\ \A k \in Message \ {m} : Recipients(k)' = Recipients(k)
  BY SendRecipients, <1>0, <1>1 DEF Recipients
<1>3. Live' = Live /\ Pending' = Pending /\ swept' = swept
  BY <1>0 DEF Live, Pending
<1>4. ~BeingRecorded(m)
  <2> SUFFICES ASSUME NEW v \in Worker, pc[v] = "record", Head(todo[v]) = m
               PROVE  FALSE
    BY DEF BeingRecorded
  <2>1. v # w /\ v \in PlaceName /\ w \in PlaceName
    BY <1>0, PlaceValues
  <2>2. m \in ToSet(todo[v])
    BY HeadIsLive
  <2> QED
    BY <1>1, <2>1, <2>2, PlaceValues DEF Inv, CustodyInv, Apart
<1>5. m \notin swept => Recipients(m) = {}
  BY <1>1, <1>4 DEF Handover, SeenOnce
<1>6. /\ BeingRecorded(m)'
      /\ \A k \in Message \ {m} : BeingRecorded(k)' <=> BeingRecorded(k)
  BY <1>0 DEF BeingRecorded
<1>7. SeenOnce'
  <2> SUFFICES ASSUME NEW k \in Message, k \notin swept'
               PROVE  /\ \A s, t \in Recipients(k)' : s = t
                      /\ Recipients(k)' # {} => k \notin Live' \/ k \in Pending' \/ BeingRecorded(k)'
    BY DEF SeenOnce
  <2>1. CASE k = m
    <3>1. BeingRecorded(k)'
      BY <1>0, <2>1 DEF BeingRecorded
    <3>2. \A s \in Recipients(k)' : s = target[w]
      BY <1>0, <1>2, <1>3, <1>5, <2>1 DEF Recipients
    <3> QED
      BY <3>1, <3>2
  <2>2. CASE k # m
    BY <1>2, <1>3, <1>6, <2>2 DEF Handover, SeenOnce
  <2> QED
    BY <2>1, <2>2
<1>8. SeenBefore'
  <2>1. \A k \in Message : Recipients(k) \subseteq Recipients(k)'
    BY <1>0, <1>2 DEF Recipients
  <2>2. ASSUME NEW v \in Worker, pc'[v] = "record"
        PROVE  target'[v] \in Recipients(Head(todo[v]))'
    <3>1. CASE v = w
      BY <1>0, <1>1, <1>2, <3>1 DEF Recipients
    <3>2. CASE v # w
      <4>1. target[v] \in Recipients(Head(todo[v])) /\ Head(todo[v]) \in Message
        BY <1>0, <2>2, <3>2, HeadIsLive DEF Handover, SeenBefore
      <4>2. \A k \in Message : k = Head(todo[v]) => target[v] \in Recipients(k)'
        BY <2>1, <4>1
      <4> QED
        BY <1>0, <4>1, <4>2 DEF Recipients
    <3> QED
      BY <3>1, <3>2
  <2> QED
    BY <1>0, <1>3, <2>1, <2>2 DEF Handover, SeenBefore, Pending
<1> QED
  BY <1>7, <1>8 DEF Handover

\* Recording: the message that was just sent reaches the pending table or is
\* let go of.
LEMMA RecordHandover ==
    ASSUME Inv, Handover, NEW w \in Worker, Record(w)
    PROVE  Handover'
<1> DEFINE m == Head(todo[w])
<1>0. /\ TypeOK /\ pc[w] = "record" /\ FinishHead(w)
      /\ UNCHANGED <<swept, pub, chan, got>>
      /\ m \in Message /\ m \in Live /\ m \in ToSet(todo[w]) /\ m \notin Pending
  BY HeadIsLive DEF Inv, TypeInv, Record, clientVars
<1>1. \A k \in Message : Recipients(k)' = Recipients(k)
  BY <1>0 DEF Recipients, Delivered
<1>2. target[w] \in Recipients(m)
  BY <1>0 DEF Handover, SeenBefore
<1>3. /\ \A v \in Worker \ {w} : /\ pc'[v] = pc[v] /\ todo'[v] = todo[v]
                                   /\ target'[v] = target[v]
      /\ pc'[w] # "record"
  BY <1>0, FinishHeadStep DEF Inv
<1>4. \A k \in Message : k # m => (BeingRecorded(k)' <=> BeingRecorded(k))
  BY <1>3 DEF BeingRecorded
<1>5. /\ m \in Pending' \/ m \notin Live'
      /\ \A k \in Pending : k \in Pending' \/ k \notin Live'
      /\ \A k \in Message : k \in Live' => k \in Live
      /\ Pending' \subseteq Pending \cup {m}
      /\ \A k \in Message : fate'[k] # fate[k] => k = m \/ k \in Pending
  <2>1. CASE PendingRoom
    <3>1. /\ pendingMessages' = [k \in Message |->
                 IF k = m THEN LeaseHolder(w)
                 ELSE IF k \in Superseded(m) THEN None ELSE pendingMessages[k]]
          /\ fate' = [k \in Message |-> IF k \in Superseded(m) THEN "superseded" ELSE fate[k]]
      BY <2>1 DEF Record
    <3>2. LeaseHolder(w) # None
      BY QueueAssumption DEF Inv, TypeInv, TypeOK, WorkerShape, LeaseHolder, Record
    <3>3. Superseded(m) \subseteq Pending
      BY DEF Superseded
    <3> QED
      BY <1>0, <3>1, <3>2, <3>3 DEF Live, Pending
  <2>2. CASE ~PendingRoom
    <3>1. fate' = [fate EXCEPT ![m] = "untracked"] /\ UNCHANGED pendingMessages
      BY <2>2 DEF Record
    <3> QED
      BY <1>0, <3>1 DEF Live, Pending, TypeOK
  <2> QED
    BY <2>1, <2>2
<1>6. SeenOnce'
  BY <1>0, <1>1, <1>4, <1>5 DEF Handover, SeenOnce
<1>7. SeenBefore'
  <2>1. ASSUME NEW k \in Pending'
        PROVE  Recipients(k)' # {}
    BY <1>0, <1>1, <1>2, <1>5, <2>1 DEF Handover, SeenBefore, Pending
  <2>2. ASSUME NEW k \in Message, fate'[k] \notin {"none", "overflow"}
        PROVE  Recipients(k)' # {}
    BY <1>1, <1>2, <1>5, <2>2 DEF Handover, SeenBefore, Pending
  <2>3. ASSUME NEW v \in Worker, pc'[v] = "record"
        PROVE  target'[v] \in Recipients(Head(todo[v]))'
    <3>1. v # w /\ pc[v] = "record" /\ todo'[v] = todo[v] /\ target'[v] = target[v]
      BY <1>3, <2>3
    <3>2. target[v] \in Recipients(Head(todo[v]))
      BY <3>1 DEF Handover, SeenBefore
    <3> QED
      BY <1>0, <3>1, <3>2 DEF Recipients, Delivered
  <2> QED
    BY <2>1, <2>2, <2>3 DEF SeenBefore
<1> QED
  BY <1>6, <1>7 DEF Handover

\* The head of a list is parked, or dropped for want of room.
LEMMA ParkHandover ==
    ASSUME Inv, Handover, NEW w \in Worker, Buffer(w) \/ (w = "distribute" /\ DistributePark)
    PROVE  Handover'
<1>0. /\ TypeOK /\ pc[w] \in {"buffer", "route"} /\ FinishHead(w)
      /\ UNCHANGED <<pendingMessages, swept, pub, chan, got>>
      /\ \/ fate' = fate
         \/ fate' = [fate EXCEPT ![Head(todo[w])] = "overflow"]
  BY DEF Inv, TypeInv, Buffer, DistributePark, clientVars
<1>1. /\ \A v \in Worker \ {w} : /\ pc'[v] = pc[v] /\ todo'[v] = todo[v]
                                 /\ target'[v] = target[v]
      /\ pc'[w] # "record" /\ pc[w] # "record"
  BY <1>0, FinishHeadStep DEF Inv
<1>2. \A m \in Message : Recipients(m)' = Recipients(m)
  BY <1>0 DEF Recipients, Delivered
<1>3. \A m \in Message : fate'[m] = fate[m] \/ fate'[m] = "overflow"
  BY <1>0 DEF TypeOK
<1>4. \A m \in Message : m \in Live' => m \in Live
  BY <1>0, <1>3 DEF Live
<1>5. Pending' = Pending
  BY <1>0 DEF Pending
<1> QED
  BY <1>0, <1>1, <1>2, <1>3, <1>4, <1>5, QuietHandover

\* Every step keeps a message with one consumer at a time.
LEMMA HandoverStep ==
    ASSUME Inv, Handover, [Next]_vars
    PROVE  Handover'
<1> USE DEF clientVars, workerVars, history
<1>0. TypeOK /\ CustodyInv
  BY DEF Inv, TypeInv
<1>1. ASSUME UNCHANGED <<todo, target, pc, pendingMessages, fate, swept, pub, chan, got>>
      PROVE  Handover'
  <2>1. /\ Live' = Live /\ Pending' = Pending
        /\ \A m \in Message : Recipients(m)' = Recipients(m)
    BY <1>1 DEF Live, Pending, Recipients, Delivered
  <2> QED
    BY <1>1, <2>1, QuietHandover
<1>2. ASSUME NEW m \in Message, Publisher(m)
      PROVE  Handover'
  <2>1. UNCHANGED <<todo, target, pc, pendingMessages, fate, swept, chan, got>>
    BY <1>2 DEF Publisher, PublishCheck, PublishSend, PublishCancelled
  <2>2. Pending' = Pending /\ \A k \in Message : Recipients(k)' = Recipients(k)
    BY <2>1 DEF Pending, Recipients, Delivered
  <2>3. pub[m] # "accepted" /\ \A k \in Message \ {m} : pub'[k] = pub[k]
    BY <1>0, <1>2 DEF Publisher, PublishCheck, PublishSend, PublishCancelled, TypeOK
  <2>4. \A k \in Message : k \in Live' => k \in Live \/ Recipients(k) = {}
    BY <1>0, <2>1, <2>3 DEF Live, CustodyInv, NewIsUntouched
  <2> QED
    BY <2>1, <2>2, <2>4, QuietHandover
<1>3. ASSUME NEW m \in Message, Elapse(m)
      PROVE  Handover'
  BY <1>1, <1>3 DEF Elapse
<1>4. ASSUME NEW s \in Sub, Subscription(s)
      PROVE  Handover'
  <2>1. CASE Subscribe(s)
    BY <1>1, <2>1 DEF Subscribe
  <2>2. CASE CancelContext(s)
    BY <1>1, <2>2 DEF CancelContext
  <2>3. CASE Cleanup(s)
    BY <1>1, <2>3 DEF Cleanup
  <2>4. CASE Receive(s)
    <3>1. UNCHANGED <<todo, target, pc, pendingMessages, fate, swept, pub>>
      BY <2>4 DEF Receive
    <3>2. Live' = Live /\ Pending' = Pending
      BY <3>1 DEF Live, Pending
    <3> QED
      BY <1>0, <2>4, <3>1, <3>2, ReceiveRecipients, QuietHandover
  <2>5. ASSUME NEW m \in Message, AckHeld(s, m)
        PROVE  Handover'
    <3>1. PICK k \in Pending :
             /\ pendingMessages' = [pendingMessages EXCEPT ![k] = None]
             /\ fate' = [fate EXCEPT ![k] = "acked"]
      BY <2>5 DEF AckHeld
    <3>2. UNCHANGED <<todo, target, pc, swept, pub, chan, got>>
      BY <2>5 DEF AckHeld
    <3>3. Pending' \subseteq Pending /\ \A l \in Pending \ {k} : l \in Pending'
      BY <1>0, <3>1 DEF Pending, TypeOK
    <3>4. \A l \in Message : fate'[l] # fate[l] => l = k
      BY <1>0, <3>1 DEF TypeOK
    <3>5. k \notin Live' /\ \A l \in Message : l \in Live' => l \in Live
      BY <1>0, <3>1, <3>2 DEF Live, TypeOK
    <3>6. \A l \in Message : Recipients(l)' = Recipients(l)
      BY <3>2 DEF Recipients, Delivered
    <3> QED
      BY <3>1, <3>2, <3>3, <3>4, <3>5, <3>6, QuietHandover
  <2>6. ASSUME NEW m \in Message, AckUnknown(s, m)
        PROVE  Handover'
    BY <1>1, <2>6 DEF AckUnknown
  <2> QED
    BY <1>4, <2>1, <2>2, <2>3, <2>4, <2>5, <2>6 DEF Subscription
<1>5. ASSUME UNCHANGED <<pendingMessages, fate, swept, pub, chan, got>>,
             \A w \in Worker : pc'[w] = "record" <=> pc[w] = "record",
             \A w \in Worker : pc[w] = "record" => todo'[w] = todo[w] /\ target'[w] = target[w]
      PROVE  Handover'
  <2>1. /\ Live' = Live /\ Pending' = Pending
        /\ \A m \in Message : Recipients(m)' = Recipients(m)
    BY <1>5 DEF Live, Pending, Recipients, Delivered
  <2> QED
    BY <1>5, <2>1, QuietHandover
<1>6. ASSUME NEW w \in Worker, Deliver(w)
      PROVE  Handover'
  <2>1. CASE PickNobody(w)
    BY <1>0, <1>5, <2>1 DEF PickNobody, TypeOK
  <2>2. CASE Pick(w)
    BY <1>0, <1>5, <2>2 DEF Pick, TypeOK
  <2>3. CASE Advance(w)
    BY <1>0, <1>5, <2>3 DEF Advance, TypeOK
  <2>4. CASE SendOK(w)
    BY <2>4, SendHandover
  <2>5. CASE SendFail(w)
    BY <1>0, <1>5, <2>5 DEF SendFail, AfterFailure, TypeOK
  <2>6. CASE Record(w)
    BY <2>6, RecordHandover
  <2>7. CASE Buffer(w)
    BY <2>7, ParkHandover
  <2> QED
    BY <1>6, <2>1, <2>2, <2>3, <2>4, <2>5, <2>6, <2>7 DEF Deliver
<1>7. CASE Distribute
  <2>1. CASE DistributeReceive
    BY <1>0, <1>5, <2>1, Workers DEF DistributeReceive, TypeOK
  <2>2. CASE DistributePark
    BY <2>2, ParkHandover, Workers
  <2>3. CASE DistributeFlush
    BY <1>0, <1>5, <2>3, Workers DEF DistributeFlush, TypeOK
  <2>4. CASE DistributeExit
    BY <1>0, <1>5, <2>4, Workers DEF DistributeExit, TypeOK
  <2> QED
    BY <1>7, <2>1, <2>2, <2>3, <2>4 DEF Distribute
<1>8. CASE Redeliver
  <2>1. CASE Sweep
    <3>1. /\ UNCHANGED <<target, pub, chan, got>> /\ swept' = swept \cup Overdue
          /\ pendingMessages' = [m \in Message |->
                 IF m \in Overdue \cup Expired THEN None ELSE pendingMessages[m]]
          /\ fate' = [m \in Message |-> IF m \in Expired THEN "expired" ELSE fate[m]]
          /\ pc["redeliver"] = "idle"
          /\ \E order : todo' = [todo EXCEPT !["redeliver"] = order]
          /\ \E v \in {"idle", "pick", "rebuffer"} : pc' = [pc EXCEPT !["redeliver"] = v]
      BY <2>1 DEF Sweep
    <3>2. /\ \A w \in Worker : pc'[w] = "record" <=> pc[w] = "record"
          /\ \A w \in Worker : pc[w] = "record" => todo'[w] = todo[w] /\ target'[w] = target[w]
      BY <1>0, <3>1, Workers DEF TypeOK
    <3>3. Overdue \subseteq Pending /\ Expired \subseteq Pending
      BY DEF Overdue, Expired
    <3>4. Pending' = Pending \ (Overdue \cup Expired)
      BY <3>1 DEF Pending
    <3>5. /\ \A m \in Message : m \in Live' => m \in Live
          /\ \A m \in Expired : m \notin Live'
      BY <3>1, <3>3 DEF Live, Pending
    <3>6. \A m \in Message : Recipients(m)' = Recipients(m)
      BY <3>1 DEF Recipients, Delivered
    <3>7. \A m \in Message : fate'[m] # fate[m] => m \in Pending
      BY <3>1, <3>3
    <3> QED
      BY <3>1, <3>2, <3>3, <3>4, <3>5, <3>6, <3>7, QuietHandover
  <2>2. CASE Rebuffer
    <3>1. /\ UNCHANGED <<target, pendingMessages, swept, pub, chan, got>>
          /\ pc["redeliver"] = "rebuffer" /\ pc' = [pc EXCEPT !["redeliver"] = "idle"]
          /\ todo' = [todo EXCEPT !["redeliver"] = <<>>]
          /\ \A m \in Message : fate'[m] = fate[m] \/ fate'[m] = "overflow"
      BY <2>2 DEF Rebuffer
    <3>2. /\ \A w \in Worker : pc'[w] = "record" <=> pc[w] = "record"
          /\ \A w \in Worker : pc[w] = "record" => todo'[w] = todo[w] /\ target'[w] = target[w]
      BY <1>0, <3>1, Workers DEF TypeOK
    <3>3. Pending' = Pending /\ \A m \in Message : m \in Live' => m \in Live
      BY <3>1 DEF Pending, Live
    <3>4. \A m \in Message : Recipients(m)' = Recipients(m)
      BY <3>1 DEF Recipients, Delivered
    <3> QED
      BY <3>1, <3>2, <3>3, <3>4, QuietHandover
  <2>3. CASE RedeliverExit
    BY <1>0, <1>5, <2>3, Workers DEF RedeliverExit, TypeOK
  <2> QED
    BY <1>8, <2>1, <2>2, <2>3 DEF Redeliver
<1>9. CASE CloseBegin
  BY <1>1, <1>9 DEF CloseBegin
<1>10. CASE CloseEnd
  <2>1. /\ UNCHANGED <<todo, target, pc, swept, pub, chan, got>>
        /\ pendingMessages' = [m \in Message |-> None]
        /\ fate' = [m \in Message |-> IF m \in Pending THEN "shutdown" ELSE fate[m]]
    BY <1>10 DEF CloseEnd
  <2>2. Pending' = {}
    BY <2>1 DEF Pending
  <2>3. \A m \in Message : m \in Live' => m \in Live /\ m \notin Pending
    BY <2>1 DEF Live
  <2>4. \A m \in Message : Recipients(m)' = Recipients(m)
    BY <2>1 DEF Recipients, Delivered
  <2>5. Pending \subseteq Message
    BY DEF Pending
  <2> QED
    BY <2>1, <2>2, <2>3, <2>4, <2>5, QuietHandover
<1>11. CASE UNCHANGED vars
  BY <1>1, <1>11 DEF vars
<1> QED
  BY <1>2, <1>3, <1>4, <1>6, <1>7, <1>8, <1>9, <1>10, <1>11 DEF Next

\* Nobody has seen anything at the start.
LEMMA HandoverInit == Init => Handover
<1> SUFFICES ASSUME Init PROVE Handover
  OBVIOUS
<1>1. Pending = {} /\ Live = {} /\ \A m \in Message : Recipients(m) = {}
  BY DEF Init, Pending, Live, Recipients, Delivered, ToSet
<1>2. \A w \in Worker : pc[w] # "record"
  BY DEF Init
<1>3. \A m \in Message : fate[m] = "none"
  BY DEF Init
<1> QED
  BY <1>1, <1>2, <1>3 DEF Handover, SeenOnce, SeenBefore

\* The two parts together.
LEMMA HandoverInvariant == Spec => [](Inv /\ Handover)
<1>1. Inv /\ Handover /\ [Next]_vars => Inv' /\ Handover'
  BY TypeStep, WorkerStep, IndexStep, CustodyStep, HandoverStep DEF Inv, TypeInv
<1>2. Init => Inv /\ Handover
  BY TypeInvInit, CustodyInit, HandoverInit DEF Inv
<1> QED
  BY <1>1, <1>2, PTL DEF Spec

\* Work queue, not fan-out: for any number of subscriptions a message goes to a
\* second one only after a sweep has found its first consumer late.
THEOREM OneConsumerAtATime == Spec => []WorkQueue
<1>1. Inv /\ Handover => WorkQueue
  <2> SUFFICES ASSUME Handover, NEW m \in Message, m \notin swept
               PROVE  Cardinality(Recipients(m)) <= 1
    BY DEF WorkQueue
  <2>1. CASE Recipients(m) = {}
    BY <2>1, FS_EmptySet
  <2>2. CASE Recipients(m) # {}
    <3>1. PICK s : s \in Recipients(m)
      BY <2>2
    <3>2. Recipients(m) = {s}
      BY <3>1 DEF Handover, SeenOnce
    <3> QED
      BY <3>2, FS_Singleton
  <2> QED
    BY <2>1, <2>2
<1> QED
  BY <1>1, HandoverInvariant, PTL

-----------------------------------------------------------------------------
(* Leases.                                                                 *)

\* The head being recorded is in no other goroutine's list ...
LEMMA NotBeingRecorded ==
    ASSUME Inv, NEW w \in Worker, pc[w] # "record", NEW m \in Message, m \in ToSet(todo[w])
    PROVE  ~BeingRecorded(m)
<1> SUFFICES ASSUME NEW v \in Worker, pc[v] = "record", Head(todo[v]) = m
             PROVE  FALSE
  BY DEF BeingRecorded
<1>1. v # w /\ v \in PlaceName /\ w \in PlaceName
  BY PlaceValues
<1>2. m \in ToSet(todo[v])
  BY HeadIsLive
<1> QED
  BY <1>1, <1>2, PlaceValues DEF Inv, CustodyInv, Apart

\* ... and not yet, or no longer, in the pending table.
LEMMA RecordedIsLive ==
    ASSUME Inv, NEW m \in Message, BeingRecorded(m)
    PROVE  m \in Live /\ m \notin Pending
<1>1. PICK w \in Worker : pc[w] = "record" /\ Head(todo[w]) = m
  BY DEF BeingRecorded
<1> QED
  BY <1>1, HeadIsLive

\* Every lease is of a message in custody.
LEMMA PendingIsLive ==
    ASSUME Inv
    PROVE  Pending \subseteq Live /\ Pending \subseteq Message
<1>1. Pending \subseteq Message
  BY DEF Pending
<1> QED
  BY <1>1, PlaceValues DEF Inv, CustodyInv, Apart

\* A message on lease before the step whose lease has changed by it.
LeaseEnds(m) ==
    /\ pendingMessages'[m] = None
    /\ \/ elapsed[m] # "within"
       \/ shutdown' = "closed"
       \/ \E k \in Copies(m) \ Pending : pendingMessages'[k] # None
       \/ \E k \in Copies(m) \cap acked', s \in Sub :
              k \in got[s] /\ ConsumerOf[s] = pendingMessages[m]

\* Only an acknowledgement, a sweep, the record of another copy and Close touch
\* a lease.
LEMMA LeaseStep ==
    ASSUME Inv, [Next]_vars, NEW m \in Pending, pendingMessages'[m] # pendingMessages[m]
    PROVE  LeaseEnds(m)
<1> USE DEF clientVars, workerVars, history
<1>0. TypeOK /\ m \in Message /\ pendingMessages[m] # None
  BY DEF Inv, TypeInv, Pending
<1>1. ASSUME NEW s \in Sub, NEW a \in Message, AckHeld(s, a)
      PROVE  LeaseEnds(m)
  <2>1. /\ a \in got[s] /\ acked' = acked \cup {a}
        /\ \E k \in Copies(a) \cap Pending :
              /\ pendingMessages[k] = ConsumerOf[s]
              /\ pendingMessages' = [pendingMessages EXCEPT ![k] = None]
    BY <1>1 DEF AckHeld, HoldsLease
  <2>2. m \in Copies(a) /\ pendingMessages[m] = ConsumerOf[s] /\ pendingMessages'[m] = None
    BY <1>0, <2>1 DEF TypeOK
  <2>3. a \in Copies(m) \cap acked'
    BY <2>1, <2>2 DEF Copies
  <2> QED
    BY <2>1, <2>2, <2>3 DEF LeaseEnds
<1>2. ASSUME NEW w \in Worker, Record(w)
      PROVE  LeaseEnds(m)
  <2> DEFINE h == Head(todo[w])
  <2>1. h \in Message /\ h \notin Pending
    BY <1>2, HeadIsLive DEF Record
  <2>2. PendingRoom
    BY <1>2 DEF Record
  <2>3. pendingMessages' = [k \in Message |->
             IF k = h THEN LeaseHolder(w)
             ELSE IF k \in Superseded(h) THEN None ELSE pendingMessages[k]]
    BY <1>2, <2>2 DEF Record
  <2>4. LeaseHolder(w) # None
    BY <1>2, QueueAssumption DEF Inv, TypeInv, TypeOK, WorkerShape, LeaseHolder, Record
  <2>5. m \in Superseded(h) /\ pendingMessages'[m] = None /\ pendingMessages'[h] # None
    BY <1>0, <2>1, <2>3, <2>4
  <2>6. h \in Copies(m) \ Pending
    BY <2>1, <2>5 DEF Superseded, Copies
  <2> QED
    BY <2>5, <2>6 DEF LeaseEnds
<1>3. CASE Sweep
  <2>1. pendingMessages'[m] = None /\ m \in Overdue \cup Expired
    BY <1>0, <1>3 DEF Sweep
  <2> QED
    BY <2>1 DEF LeaseEnds, Overdue, Expired
<1>4. CASE CloseEnd
  BY <1>0, <1>4 DEF CloseEnd, LeaseEnds
<1>5. ASSUME NEW a \in Message, Publisher(a) \/ Elapse(a)
      PROVE  FALSE
  BY <1>5 DEF Publisher, PublishCheck, PublishSend, PublishCancelled, Elapse
<1>6. ASSUME NEW s \in Sub, Subscription(s)
      PROVE  LeaseEnds(m)
  BY <1>1, <1>6 DEF Subscription, Subscribe, CancelContext, Cleanup, Receive, AckUnknown
<1>7. ASSUME NEW w \in Worker, Deliver(w)
      PROVE  LeaseEnds(m)
  BY <1>2, <1>7 DEF Deliver, PickNobody, Pick, Advance, SendOK, SendFail, Buffer
<1>8. CASE Distribute
  BY <1>8 DEF Distribute, DistributeReceive, DistributePark, DistributeFlush, DistributeExit
<1>9. CASE Redeliver
  BY <1>3, <1>9 DEF Redeliver, Rebuffer, RedeliverExit
<1>10. CASE CloseBegin
  BY <1>10 DEF CloseBegin
<1>11. CASE UNCHANGED vars
  BY <1>11 DEF vars
<1> QED
  BY <1>4, <1>5, <1>6, <1>7, <1>8, <1>9, <1>10, <1>11 DEF Next

\* A lease ends by its own consumer's acknowledgement, by time, by Close or by
\* the lease of another copy, and never changes hands: for any number of
\* consumers, copies and capacities.
THEOREM LeasesEndProperly == Spec => LeaseEndsProperly
<1>1. Inv /\ [Next]_vars =>
          \A m \in Pending : pendingMessages'[m] # pendingMessages[m] =>
              /\ pendingMessages'[m] = None
              /\ \/ elapsed[m] # "within"
                 \/ shutdown' = "closed"
                 \/ \E k \in Copies(m) \ Pending : pendingMessages'[k] # None
                 \/ \E k \in Copies(m) \cap acked', s \in Sub :
                        k \in got[s] /\ ConsumerOf[s] = pendingMessages[m]
  BY LeaseStep DEF LeaseEnds
<1> QED
  BY <1>1, CustodyInvariant, PTL DEF Spec, LeaseEndsProperly

-----------------------------------------------------------------------------
(* Close.                                                                  *)

\* How far the goroutines and the channels are when Close makes progress.
Closing ==
    /\ \A w \in Worker : pc[w] = "done" => shutdown # "running"
    /\ pc["distribute"] = "done" => messages = <<>>
    /\ \A s \in Sub : chanState[s] = "open" => s \in ToSet(subscribers)
    /\ shutdown = "closed" => /\ \A w \in Worker : pc[w] = "done"
                              /\ Pending = {}
                              /\ \A s \in Sub : chanState[s] # "open"

\* Removing an element from a list leaves the others in it.
LEMMA RemoveAtKeeps ==
    ASSUME NEW S, NEW s \in Seq(S), NEW i \in DOMAIN s
    PROVE  \A e \in ToSet(s) \ {s[i]} : e \in ToSet(RemoveAt(s, i))
<1>1. /\ Len(s) \in Nat /\ DOMAIN s = 1..Len(s) /\ i \in 1..Len(s)
      /\ RemoveAt(s, i) = SubSeq(s, 1, i - 1) \o SubSeq(s, i + 1, Len(s))
  BY LenProperties DEF RemoveAt
<1>2. /\ SubSeq(s, 1, i - 1) \in Seq(S) /\ Len(SubSeq(s, 1, i - 1)) = i - 1
      /\ \A j \in 1..(i - 1) : SubSeq(s, 1, i - 1)[j] = s[j]
  BY <1>1
<1>3. /\ SubSeq(s, i + 1, Len(s)) \in Seq(S)
      /\ Len(SubSeq(s, i + 1, Len(s))) = Len(s) - i
      /\ \A j \in 1..(Len(s) - i) : SubSeq(s, i + 1, Len(s))[j] = s[i + j]
  BY <1>1
<1>4. ToSet(RemoveAt(s, i)) = ToSet(SubSeq(s, 1, i - 1)) \cup ToSet(SubSeq(s, i + 1, Len(s)))
  BY <1>1, <1>2, <1>3, ConcatSet
<1> SUFFICES ASSUME NEW j \in 1..Len(s), j # i
             PROVE  s[j] \in ToSet(RemoveAt(s, i))
  BY <1>1 DEF ToSet
<1>5. CASE j < i
  <2>1. j \in DOMAIN SubSeq(s, 1, i - 1) /\ SubSeq(s, 1, i - 1)[j] = s[j]
    BY <1>1, <1>2, <1>5
  <2> QED
    BY <1>4, <2>1 DEF ToSet
<1>6. CASE j > i
  <2>1. j - i \in 1..(Len(s) - i) /\ s[i + (j - i)] = s[j]
    BY <1>1, <1>6
  <2>2. DOMAIN SubSeq(s, i + 1, Len(s)) = 1..(Len(s) - i)
    BY <1>1, <1>3
  <2>3. SubSeq(s, i + 1, Len(s))[j - i] = s[j]
    BY <1>3, <2>1
  <2> QED
    BY <1>4, <2>1, <2>2, <2>3 DEF ToSet
<1> QED
  BY <1>1, <1>5, <1>6

\* Steps that keep the list of subscribers and open no channel.
LEMMA QuietClosing ==
    ASSUME Closing, UNCHANGED <<shutdown, subscribers, chanState>>,
           Pending' \subseteq Pending \/ shutdown # "closed",
           \A w \in Worker : pc'[w] = "done" <=> pc[w] = "done",
           messages = <<>> => messages' = <<>> \/ shutdown = "running"
    PROVE  Closing'
<1>1. "distribute" \in Worker
  BY Workers
<1> QED
  BY <1>1 DEF Closing

\* Every step keeps that order of events.
LEMMA ClosingStep ==
    ASSUME Inv, Closing, [Next]_vars
    PROVE  Closing'
<1> USE DEF clientVars, workerVars, history
<1>0. TypeOK
  BY DEF Inv, TypeInv
<1>1. ASSUME UNCHANGED <<shutdown, subscribers, chanState, pendingMessages, pc, messages>>
      PROVE  Closing'
  BY <1>1, QuietClosing DEF Pending
<1>2. ASSUME NEW m \in Message, Publisher(m)
      PROVE  Closing'
  <2>1. /\ UNCHANGED <<shutdown, subscribers, chanState, pendingMessages, pc>>
        /\ messages' = messages \/ shutdown = "running"
    BY <1>2 DEF Publisher, PublishCheck, PublishSend, PublishCancelled
  <2> QED
    BY <2>1, QuietClosing DEF Pending
<1>3. ASSUME NEW m \in Message, Elapse(m)
      PROVE  Closing'
  BY <1>1, <1>3 DEF Elapse
<1>4. ASSUME NEW s \in Sub, Subscription(s)
      PROVE  Closing'
  <2>1. CASE Subscribe(s)
    <3>1. /\ shutdown = "running" /\ subscribers' = Append(subscribers, s)
          /\ chanState' = [chanState EXCEPT ![s] = "open"]
          /\ UNCHANGED <<shutdown, pc, messages>>
      BY <2>1 DEF Subscribe
    <3>2. ToSet(subscribers') = ToSet(subscribers) \cup {s}
      BY <1>0, <3>1, AppendSet DEF TypeOK
    <3> QED
      BY <1>0, <3>1, <3>2 DEF Closing, TypeOK
  <2>2. CASE CancelContext(s)
    BY <1>1, <2>2 DEF CancelContext
  <2>3. CASE Cleanup(s)
    <3>1. PICK i \in DOMAIN subscribers :
             subscribers[i] = s /\ subscribers' = RemoveAt(subscribers, i)
      BY <2>3 DEF Cleanup
    <3>2. /\ chanState' = [chanState EXCEPT ![s] = "closed"]
          /\ UNCHANGED <<shutdown, pc, messages, pendingMessages>>
      BY <2>3 DEF Cleanup
    <3>3. \A r \in ToSet(subscribers) \ {s} : r \in ToSet(subscribers')
      BY <1>0, <3>1, RemoveAtKeeps DEF TypeOK
    <3> QED
      BY <1>0, <3>2, <3>3 DEF Closing, TypeOK, Pending
  <2>4. CASE Receive(s)
    BY <1>1, <2>4 DEF Receive
  <2>5. ASSUME NEW m \in Message, AckHeld(s, m)
        PROVE  Closing'
    <3>1. /\ UNCHANGED <<shutdown, subscribers, chanState, pc, messages>>
          /\ \E k : pendingMessages' = [pendingMessages EXCEPT ![k] = None]
      BY <2>5 DEF AckHeld
    <3>2. Pending' \subseteq Pending
      BY <1>0, <3>1 DEF Pending, TypeOK
    <3> QED
      BY <3>1, <3>2, QuietClosing
  <2>6. ASSUME NEW m \in Message, AckUnknown(s, m)
        PROVE  Closing'
    BY <1>1, <2>6 DEF AckUnknown
  <2> QED
    BY <1>4, <2>1, <2>2, <2>3, <2>4, <2>5, <2>6 DEF Subscription
<1>5. ASSUME NEW w \in Worker, Deliver(w)
      PROVE  Closing'
  <2>1. /\ pc[w] # "done" /\ \A v \in Worker \ {w} : pc'[v] = pc[v]
        /\ pc'[w] # "done"
        /\ UNCHANGED <<shutdown, subscribers, chanState, messages>>
    BY <1>0, <1>5 DEF Deliver, PickNobody, Pick, Advance, SendOK, SendFail, AfterFailure,
                      Record, Buffer, FinishHead, TypeOK
  <2>2. shutdown # "closed"
    BY <2>1 DEF Closing
  <2> QED
    BY <2>1, <2>2, QuietClosing
<1>6. CASE Distribute
  <2>1. CASE DistributeReceive
    <3>1. /\ UNCHANGED <<shutdown, subscribers, chanState, pendingMessages>>
          /\ pc["distribute"] = "idle" /\ pc' = [pc EXCEPT !["distribute"] = "route"]
          /\ messages # <<>>
      BY <2>1 DEF DistributeReceive
    <3> QED
      BY <1>0, <3>1, Workers, QuietClosing DEF TypeOK, Pending
  <2>2. CASE DistributePark
    <3>1. /\ UNCHANGED <<shutdown, subscribers, chanState, pendingMessages, messages>>
          /\ pc["distribute"] = "route"
          /\ \E v \in {"pick", "idle"} : pc' = [pc EXCEPT !["distribute"] = v]
      BY <2>2 DEF DistributePark, FinishHead
    <3> QED
      BY <1>0, <3>1, Workers, QuietClosing DEF TypeOK, Pending
  <2>3. CASE DistributeFlush
    <3>1. /\ UNCHANGED <<shutdown, subscribers, chanState, pendingMessages, messages>>
          /\ pc["distribute"] = "route" /\ pc' = [pc EXCEPT !["distribute"] = "pick"]
      BY <2>3 DEF DistributeFlush
    <3> QED
      BY <1>0, <3>1, Workers, QuietClosing DEF TypeOK, Pending
  <2>4. CASE DistributeExit
    <3>1. /\ UNCHANGED <<shutdown, pendingMessages, messages>> /\ messages = <<>>
          /\ shutdown # "running"
          /\ pc["distribute"] = "idle" /\ pc' = [pc EXCEPT !["distribute"] = "done"]
          /\ chanState' = [s \in Sub |-> IF s \in ToSet(subscribers)
                                            THEN "closed" ELSE chanState[s]]
      BY <2>4 DEF DistributeExit, StopSignalled, Drained, CloseListed
    <3>2. shutdown # "closed"
      BY <3>1, Workers DEF Closing
    <3>3. \A s \in Sub : chanState'[s] # "open"
      BY <3>1 DEF Closing
    <3> QED
      BY <1>0, <3>1, <3>2, <3>3, Workers DEF TypeOK, Closing
  <2> QED
    BY <1>6, <2>1, <2>2, <2>3, <2>4 DEF Distribute
<1>7. CASE Redeliver
  <2>1. CASE Sweep \/ Rebuffer
    <3>1. /\ UNCHANGED <<shutdown, subscribers, chanState, messages>>
          /\ pc["redeliver"] # "done"
          /\ \E v \in {"pick", "idle", "rebuffer"} : pc' = [pc EXCEPT !["redeliver"] = v]
      BY <2>1 DEF Sweep, Rebuffer
    <3>2. shutdown # "closed"
      BY <3>1, Workers DEF Closing
    <3> QED
      BY <1>0, <3>1, <3>2, Workers, QuietClosing DEF TypeOK
  <2>2. CASE RedeliverExit
    <3>1. /\ UNCHANGED <<shutdown, subscribers, chanState, messages, pendingMessages>>
          /\ shutdown # "running" /\ pc["redeliver"] = "idle"
          /\ pc' = [pc EXCEPT !["redeliver"] = "done"]
      BY <2>2 DEF RedeliverExit, StopSignalled
    <3>2. /\ \A w \in Worker : pc[w] = "done" => pc'[w] = "done"
          /\ pc'["distribute"] = pc["distribute"]
      BY <1>0, <3>1, Workers DEF TypeOK
    <3> QED
      BY <3>1, <3>2, Workers DEF Closing, Pending
  <2> QED
    BY <1>7, <2>1, <2>2 DEF Redeliver
<1>8. CASE CloseBegin
  BY <1>8 DEF CloseBegin, Closing, Pending
<1>9. CASE CloseEnd
  <2>1. /\ shutdown = "closing" /\ shutdown' = "closed" /\ UNCHANGED <<pc, messages>>
        /\ \A w \in Worker : pc[w] = "done"
        /\ pendingMessages' = [m \in Message |-> None]
        /\ chanState' = [s \in Sub |-> IF s \in ToSet(subscribers)
                                          THEN "closed" ELSE chanState[s]]
    BY <1>9 DEF CloseEnd, CloseListed
  <2>2. Pending' = {} /\ \A s \in Sub : chanState'[s] # "open"
    BY <2>1 DEF Pending, Closing
  <2> QED
    BY <2>1, <2>2 DEF Closing
<1>10. CASE UNCHANGED vars
  BY <1>1, <1>10 DEF vars
<1> QED
  BY <1>2, <1>3, <1>4, <1>5, <1>6, <1>7, <1>8, <1>9, <1>10 DEF Next

\* Nothing is closed or listed at the start.
LEMMA ClosingInit == Init => Closing
BY DEF Init, Closing, Worker

\* Once Close has returned nothing is in flight, every channel is closed, and
\* an accepted message nobody was sent is in the backlog or was dropped for want
\* of room there: whatever was under way when Close was called.
THEOREM CloseLeavesNothingInFlight == Spec => []CloseIsQuiescent
<1>1. Inv /\ Handover /\ Closing => CloseIsQuiescent
  <2> SUFFICES ASSUME Inv, Handover, Closing, shutdown = "closed"
               PROVE  /\ \A m \in Message :
                             /\ Where(m) \subseteq {"backlog"}
                             /\ pub[m] = "accepted" /\ Recipients(m) = {}
                                  => Where(m) = {"backlog"} \/ fate[m] = "overflow"
                      /\ \A s \in Sub : chanState[s] # "open"
    BY DEF CloseIsQuiescent
  <2>1. /\ \A s \in Sub : chanState[s] # "open"
        /\ messages = <<>> /\ Pending = {}
        /\ \A w \in Worker : todo[w] = <<>>
    BY Workers DEF Closing, Inv, TypeInv, WorkerShape
  <2>2. /\ ToSet(messages) = {} /\ \A w \in Worker : ToSet(todo[w]) = {}
    BY <2>1 DEF ToSet
  <2>3. ASSUME NEW m \in Message
        PROVE  Where(m) \subseteq {"backlog"}
    BY <2>1, <2>2 DEF Where, Pending
  <2>4. ASSUME NEW m \in Message, pub[m] = "accepted", Recipients(m) = {}, fate[m] # "overflow"
        PROVE  Where(m) = {"backlog"}
    <3>1. m \in Live
      BY <2>4 DEF Handover, SeenBefore, Live
    <3>2. m \in ToSet(undelivered)
      BY <2>1, <2>2, <3>1, PlaceValues, Workers DEF Inv, CustodyInv, Apart
    <3> QED
      BY <2>3, <3>2 DEF Where
  <2> QED
    BY <2>1, <2>3, <2>4
<1>2. Inv /\ Handover /\ Closing /\ [Next]_vars => Closing'
  BY ClosingStep
<1> QED
  BY <1>1, <1>2, ClosingInit, HandoverInvariant, PTL DEF Spec

-----------------------------------------------------------------------------
(* The queue implements LeaseQueue.                                        *)

\* Where a message is in its life, told from the invariant's sets.  Under the
\* invariant the cases of StatusOf exclude each other.
StatusTable ==
    \A m \in Message :
        /\ pub[m] # "accepted" => StatusOf(m) = "new"
        /\ pub[m] = "accepted" /\ fate[m] = "acked" => StatusOf(m) = "settled"
        /\ pub[m] = "accepted" /\ fate[m] \notin {"none", "acked"} => StatusOf(m) = "lost"
        /\ m \in Live /\ m \in Pending => StatusOf(m) = "leased"
        /\ m \in Live /\ m \notin Pending /\ BeingRecorded(m) => StatusOf(m) = "handed"
        /\ m \in Live /\ m \notin Pending /\ ~BeingRecorded(m) => StatusOf(m) = "ready"
        /\ m \in Pending \/ BeingRecorded(m) => m \in Live

LEMMA StatusFacts == Inv => StatusTable
<1> SUFFICES ASSUME Inv, NEW m \in Message
             PROVE  /\ pub[m] # "accepted" => StatusOf(m) = "new"
                    /\ pub[m] = "accepted" /\ fate[m] = "acked" => StatusOf(m) = "settled"
                    /\ pub[m] = "accepted" /\ fate[m] \notin {"none", "acked"} => StatusOf(m) = "lost"
                    /\ m \in Live /\ m \in Pending => StatusOf(m) = "leased"
                    /\ m \in Live /\ m \notin Pending /\ BeingRecorded(m) => StatusOf(m) = "handed"
                    /\ m \in Live /\ m \notin Pending /\ ~BeingRecorded(m) => StatusOf(m) = "ready"
                    /\ m \in Pending \/ BeingRecorded(m) => m \in Live
  BY DEF StatusTable
<1>1. m \in Pending => m \in Live
  BY PendingIsLive
<1>2. BeingRecorded(m) => m \in Live /\ m \notin Pending
  BY RecordedIsLive
<1>3. pub[m] # "accepted" => fate[m] = "none"
  BY DEF Inv, CustodyInv, NewIsUntouched
<1>4. m \in Live <=> pub[m] = "accepted" /\ fate[m] = "none"
  BY DEF Live
<1>5. StatusOf(m) =
         CASE pub[m] # "accepted"           -> "new"
           [] fate[m] = "acked"             -> "settled"
           [] fate[m] \notin {"none", "acked"} -> "lost"
           [] m \in Pending                 -> "leased"
           [] BeingRecorded(m)              -> "handed"
           [] OTHER                         -> "ready"
  BY DEF StatusOf
<1>6. CASE pub[m] # "accepted"
  BY <1>1, <1>2, <1>3, <1>4, <1>5, <1>6
<1>7. CASE pub[m] = "accepted" /\ fate[m] = "acked"
  BY <1>1, <1>2, <1>4, <1>5, <1>7
<1>8. CASE pub[m] = "accepted" /\ fate[m] \notin {"none", "acked"}
  BY <1>1, <1>2, <1>4, <1>5, <1>8
<1>9. CASE m \in Live /\ m \in Pending
  BY <1>1, <1>2, <1>4, <1>5, <1>9
<1>10. CASE m \in Live /\ m \notin Pending /\ BeingRecorded(m)
  BY <1>1, <1>2, <1>4, <1>5, <1>10
<1>11. CASE m \in Live /\ m \notin Pending /\ ~BeingRecorded(m)
  BY <1>1, <1>2, <1>4, <1>5, <1>11
<1> QED
  BY <1>4, <1>6, <1>7, <1>8, <1>9, <1>10, <1>11

\* The same after a step.
LEMMA StatusFactsNext == Inv' => StatusTable'
BY StatusFacts, PTL

\* A message whose life a step does not touch.
LEMMA StatusKept ==
    ASSUME Inv, Inv', NEW m \in Message, fate'[m] = fate[m],
           pub'[m] = pub[m] \/ (pub'[m] # "accepted" /\ pub[m] # "accepted"),
           m \in Pending' <=> m \in Pending, BeingRecorded(m)' <=> BeingRecorded(m)
    PROVE  StatusOf(m)' = StatusOf(m)
<1>1. m \in Live' <=> m \in Live
  BY DEF Live
<1> QED
  BY <1>1, StatusFacts, StatusFactsNext DEF StatusTable, Live

\* Steps outside the point between a send and the record of the lease.
LEMMA RecordingKept ==
    ASSUME \A w \in Worker : pc'[w] = "record" <=> pc[w] = "record",
           \A w \in Worker : pc[w] = "record" => todo'[w] = todo[w]
    PROVE  \A m \in Message : BeingRecorded(m)' <=> BeingRecorded(m)
BY DEF BeingRecorded

\* Steps LeaseQueue does not see.
LEMMA Stutters ==
    ASSUME Inv, Inv', UNCHANGED <<fate, pendingMessages>>,
           \A m \in Message : \/ pub'[m] = pub[m]
                              \/ pub'[m] # "accepted" /\ pub[m] # "accepted",
           \A m \in Message : BeingRecorded(m)' <=> BeingRecorded(m),
           \A m \in Message : Recipients(m)' = Recipients(m)
    PROVE  UNCHANGED LQ!vars
<1>1. Pending' = Pending
  BY DEF Pending
<1>2. \A m \in Message : StatusOf(m)' = StatusOf(m)
  BY <1>1, StatusKept
<1> QED
  BY <1>2 DEF LQ!vars

\* Steps that let go of messages S without a lease.
LEMMA Loses ==
    ASSUME Inv, Inv', NEW S \in SUBSET Message, pendingMessages' = pendingMessages,
           \/ \A m \in S : StatusOf(m) = "ready"
           \/ \A m \in S : StatusOf(m) = "handed",
           \A m \in S : StatusOf(m)' = "lost",
           \A m \in Message \ S : StatusOf(m)' = StatusOf(m),
           \A m \in Message : Recipients(m)' = Recipients(m)
    PROVE  LQ!Next
<1>1. S \in (SUBSET LQ!In("ready")) \cup (SUBSET LQ!In("handed"))
  BY DEF LQ!In
<1>2. LQ!Lose(S)
  BY DEF LQ!Lose, LQ!Move
<1> QED
  BY <1>1, <1>2 DEF LQ!Next

\* Steps that end leases: back are taken back, dropped are not.
LEMMA Reclaims ==
    ASSUME Inv, Inv', NEW back \in SUBSET Pending, NEW dropped \in SUBSET Pending,
           back \cap dropped = {},
           pendingMessages' = [m \in Message |->
               IF m \in back \cup dropped THEN None ELSE pendingMessages[m]],
           \A m \in back : StatusOf(m)' = "ready",
           \A m \in dropped : StatusOf(m)' = "lost",
           \A m \in Message \ (back \cup dropped) : StatusOf(m)' = StatusOf(m),
           \A m \in Message : Recipients(m)' = Recipients(m)
    PROVE  LQ!Next
<1>1. back \in SUBSET LQ!In("leased") /\ dropped \in SUBSET LQ!In("leased")
  BY StatusFacts, PendingIsLive DEF LQ!In, StatusTable
<1>2. LQ!Reclaim(back, dropped)
  BY <1>1 DEF LQ!Reclaim
<1> QED
  BY <1>1, <1>2 DEF LQ!Next

\* Publish: a new message becomes ready, or nothing happens.
LEMMA PublishRefines ==
    ASSUME Inv, Inv', NEW m \in Message, Publisher(m)
    PROVE  LQ!Next \/ UNCHANGED LQ!vars
<1>0. /\ TypeOK /\ pub[m] # "accepted"
      /\ UNCHANGED <<pc, todo, fate, pendingMessages, chan, got>>
      /\ \E r : pub' = [pub EXCEPT ![m] = r]
  BY DEF Inv, TypeInv, Publisher, PublishCheck, PublishSend, PublishCancelled, workerVars, history
<1>1. /\ \A k \in Message : BeingRecorded(k)' <=> BeingRecorded(k)
      /\ \A k \in Message : Recipients(k)' = Recipients(k)
      /\ \A k \in Message \ {m} : pub'[k] = pub[k]
      /\ Pending' = Pending
  BY <1>0, RecordingKept DEF Recipients, Delivered, TypeOK, Pending
<1>2. CASE pub'[m] # "accepted"
  BY <1>0, <1>1, <1>2, Stutters
<1>3. CASE pub'[m] = "accepted"
  <2>1. StatusOf(m) = "new" /\ m \notin Live /\ m \notin Pending /\ ~BeingRecorded(m)
    BY <1>0, StatusFacts DEF StatusTable, Live
  <2>2. m \in Live'
    BY <1>0, <1>3 DEF Live, Inv, CustodyInv, NewIsUntouched
  <2>3. StatusOf(m)' = "ready"
    BY <1>1, <2>1, <2>2, StatusFactsNext DEF StatusTable
  <2>4. \A k \in Message \ {m} : StatusOf(k)' = StatusOf(k)
    BY <1>0, <1>1, StatusKept
  <2>5. LQ!Accept(m) /\ m \in LQ!In("new")
    BY <1>0, <1>1, <2>1, <2>3, <2>4 DEF LQ!Accept, LQ!In, LQ!Move
  <2> QED
    BY <2>5 DEF LQ!Next
<1> QED
  BY <1>2, <1>3

\* A send hands the head of a list to one more subscription.
LEMMA SendRefines ==
    ASSUME Inv, Inv', NEW w \in Worker, SendOK(w)
    PROVE  LQ!Next
<1> DEFINE m == Head(todo[w])
           s == target[w]
<1>0. /\ TypeOK /\ pc[w] = "send" /\ pc' = [pc EXCEPT ![w] = "record"]
      /\ UNCHANGED <<todo, target, fate, pub, pendingMessages>>
  BY DEF Inv, TypeInv, SendOK, history, clientVars
<1>1. s \in Sub /\ m \in Live /\ m \in Message /\ m \in ToSet(todo[w]) /\ m \notin Pending
  BY <1>0, HeadIsLive, SendRecipients
<1>2. ~BeingRecorded(m)
  BY <1>0, <1>1, NotBeingRecorded
<1>3. StatusOf(m) = "ready"
  BY <1>1, <1>2, StatusFacts DEF StatusTable
<1>4. /\ Live' = Live /\ Pending' = Pending
      /\ \A k \in Message \ {m} : BeingRecorded(k)' <=> BeingRecorded(k)
      /\ \A k \in Message : k = m => BeingRecorded(k)'
  BY <1>0 DEF Live, Pending, BeingRecorded, TypeOK
<1>5. \A k \in Message : StatusOf(k)' = IF k = m THEN "handed" ELSE StatusOf(k)
  <2> TAKE k \in Message
  <2>1. CASE k = m
    BY <1>1, <1>4, <2>1, StatusFactsNext DEF StatusTable
  <2>2. CASE k # m
    BY <1>0, <1>4, <2>2, StatusKept
  <2> QED
    BY <2>1, <2>2
<1>6. \A k \in Message : Recipients(k)' = IF k = m THEN Recipients(k) \cup {s} ELSE Recipients(k)
  BY <1>0, <1>1, SendRecipients DEF Recipients
<1> HIDE DEF m, s
<1>7. LQ!Hand(m, s) /\ m \in LQ!In("ready")
  BY <1>0, <1>1, <1>3, <1>5, <1>6 DEF LQ!Hand, LQ!In, LQ!Move
<1> QED
  BY <1>1, <1>7 DEF LQ!Next

\* The record of the lease leases the message, or loses it for want of room.
LEMMA RecordRefines ==
    ASSUME Inv, Inv', Handover, NEW w \in Worker, Record(w)
    PROVE  LQ!Next
<1> DEFINE m == Head(todo[w])
           s == target[w]
<1>0. /\ TypeOK /\ pc[w] = "record" /\ FinishHead(w)
      /\ UNCHANGED <<pub, chan, got>>
      /\ m \in Message /\ m \in Live /\ m \notin Pending /\ BeingRecorded(m)
      /\ s \in Recipients(m)
  BY HeadIsLive DEF Inv, TypeInv, Record, clientVars, BeingRecorded, Handover, SeenBefore
<1>1. StatusOf(m) = "handed"
  BY <1>0, StatusFacts DEF StatusTable
<1>2. /\ \A v \in Worker \ {w} : pc'[v] = pc[v] /\ todo'[v] = todo[v]
      /\ pc'[w] # "record"
  BY <1>0, FinishHeadStep DEF Inv
<1>3. \A k \in Message \ {m} : BeingRecorded(k)' <=> BeingRecorded(k)
  BY <1>2 DEF BeingRecorded
<1>4. \A k \in Message : Recipients(k)' = Recipients(k)
  BY <1>0 DEF Recipients, Delivered
<1>5. CASE ~PendingRoom
  <2>1. fate' = [fate EXCEPT ![m] = "untracked"] /\ pendingMessages' = pendingMessages
    BY <1>5 DEF Record
  <2>2. \A k \in Message : k = m => StatusOf(k)' = "lost"
    BY <1>0, <2>1, StatusFactsNext DEF StatusTable, TypeOK, Live
  <2>3. Pending' = Pending
    BY <2>1 DEF Pending
  <2>4. \A k \in Message \ {m} : StatusOf(k)' = StatusOf(k)
    BY <1>0, <1>3, <2>1, <2>3, StatusKept DEF TypeOK
  <2> DEFINE S == {m}
  <2>5. /\ S \in SUBSET Message /\ \A k \in S : StatusOf(k) = "handed"
        /\ \A k \in S : StatusOf(k)' = "lost"
        /\ \A k \in Message \ S : StatusOf(k)' = StatusOf(k)
    BY <1>0, <1>1, <2>2, <2>4
  <2> HIDE DEF S
  <2> QED
    BY <1>4, <2>1, <2>5, Loses
<1>6. CASE PendingRoom
  <2> DEFINE Out == Superseded(m)
  <2>1. /\ pendingMessages' = [k \in Message |->
               IF k = m THEN ConsumerOf[s] ELSE IF k \in Out THEN None ELSE pendingMessages[k]]
        /\ fate' = [k \in Message |-> IF k \in Out THEN "superseded" ELSE fate[k]]
    BY <1>6 DEF Record, LeaseHolder
  <2>2. s \in Sub /\ ConsumerOf[s] # None
    BY <1>0, QueueAssumption DEF Recipients
  <2>3. Out = LQ!Superseded(m) /\ Out \subseteq Pending /\ Out \subseteq Message /\ m \notin Out
    <3>1. \A k \in Message : StatusOf(k) = "leased" <=> k \in Pending
      BY StatusFacts, PendingIsLive DEF StatusTable, Live
    <3> QED
      BY <1>0, <3>1 DEF LQ!Superseded, LQ!In, Superseded, Copies, Pending
  <2>4. Pending' = (Pending \ Out) \cup {m}
    BY <1>0, <2>1, <2>2, <2>3 DEF Pending
  <2>5. \A k \in Message : k = m => StatusOf(k)' = "leased"
    <3>1. \A k \in Message : k = m => k \in Live'
      BY <1>0, <2>1, <2>3 DEF Live
    <3> QED
      BY <2>4, <3>1, StatusFactsNext DEF StatusTable
  <2>6. \A k \in Out : StatusOf(k)' = "lost"
    BY <1>0, <2>1, <2>3, PendingIsLive, StatusFactsNext DEF StatusTable, Live
  <2>7. \A k \in Message \ (Out \cup {m}) : StatusOf(k)' = StatusOf(k)
    BY <1>0, <1>3, <2>1, <2>4, StatusKept
  <2>8. \A k \in Message : StatusOf(k)' = IF k = m THEN "leased"
                                          ELSE IF k \in Out THEN "lost" ELSE StatusOf(k)
    BY <2>3, <2>5, <2>6, <2>7
  <2> HIDE DEF m, s, Out
  <2>9. LQ!Lease(m) /\ m \in LQ!In("handed")
    BY <1>0, <1>1, <1>4, <2>1, <2>3, <2>8 DEF LQ!Lease, LQ!In
  <2> QED
    BY <2>9 DEF LQ!Next
<1> QED
  BY <1>5, <1>6

\* Parking the head changes nothing; dropping it loses a message that is ready.
LEMMA ParkRefines ==
    ASSUME Inv, Inv', NEW w \in Worker, Buffer(w) \/ (w = "distribute" /\ DistributePark)
    PROVE  LQ!Next \/ UNCHANGED LQ!vars
<1> DEFINE m == Head(todo[w])
<1>0. /\ TypeOK /\ pc[w] \in {"buffer", "route"} /\ FinishHead(w)
      /\ UNCHANGED <<pendingMessages, pub, chan, got>>
      /\ \/ fate' = fate
         \/ fate' = [fate EXCEPT ![m] = "overflow"]
  BY DEF Inv, TypeInv, Buffer, DistributePark, clientVars
<1>1. m \in Message /\ m \in Live /\ m \notin Pending /\ m \in ToSet(todo[w])
  BY <1>0, HeadIsLive
<1>2. /\ \A v \in Worker \ {w} : pc'[v] = pc[v] /\ todo'[v] = todo[v]
      /\ pc'[w] # "record" /\ pc[w] # "record"
  BY <1>0, FinishHeadStep DEF Inv
<1>3. \A k \in Message : BeingRecorded(k)' <=> BeingRecorded(k)
  BY <1>2, RecordingKept
<1>4. (\A k \in Message : Recipients(k)' = Recipients(k)) /\ Pending' = Pending
  BY <1>0 DEF Recipients, Delivered, Pending
<1>5. CASE fate' = fate
  BY <1>0, <1>3, <1>4, <1>5, Stutters
<1>6. CASE fate' = [fate EXCEPT ![m] = "overflow"]
  <2> DEFINE S == {m}
  <2>1. StatusOf(m) = "ready"
    BY <1>0, <1>1, NotBeingRecorded, StatusFacts DEF StatusTable
  <2>2. \A k \in Message : k = m => StatusOf(k)' = "lost"
    BY <1>0, <1>1, <1>6, StatusFactsNext DEF StatusTable, TypeOK, Live
  <2>3. \A k \in Message \ {m} : StatusOf(k)' = StatusOf(k)
    BY <1>0, <1>3, <1>4, <1>6, StatusKept DEF TypeOK
  <2>4. /\ S \in SUBSET Message /\ \A k \in S : StatusOf(k) = "ready"
        /\ \A k \in S : StatusOf(k)' = "lost"
        /\ \A k \in Message \ S : StatusOf(k)' = StatusOf(k)
    BY <1>1, <2>1, <2>2, <2>3
  <2> HIDE DEF S
  <2> QED
    BY <1>0, <1>4, <2>4, Loses
<1> QED
  BY <1>0, <1>5, <1>6

\* What the backlog has no room for was ready and is lost.
LEMMA RebufferRefines ==
    ASSUME Inv, Inv', Rebuffer
    PROVE  LQ!Next
<1> DEFINE S == ToSet(todo["redeliver"]) \ ToSet(undelivered')
<1>0. /\ TypeOK /\ "redeliver" \in Worker /\ pc["redeliver"] = "rebuffer"
      /\ UNCHANGED <<pendingMessages, pub, chan, got>>
      /\ pc' = [pc EXCEPT !["redeliver"] = "idle"]
      /\ todo' = [todo EXCEPT !["redeliver"] = <<>>]
      /\ fate' = [m \in Message |-> IF m \in S THEN "overflow" ELSE fate[m]]
  BY Workers DEF Inv, TypeInv, Rebuffer, clientVars
<1>1. \A m \in Message : BeingRecorded(m)' <=> BeingRecorded(m)
  <2>1. \A w \in Worker : pc'[w] = "record" <=> pc[w] = "record"
    BY <1>0 DEF TypeOK
  <2>2. \A w \in Worker : pc[w] = "record" => todo'[w] = todo[w]
    BY <1>0 DEF TypeOK
  <2> QED
    BY <2>1, <2>2, RecordingKept
<1>2. (\A m \in Message : Recipients(m)' = Recipients(m)) /\ Pending' = Pending
  BY <1>0 DEF Recipients, Delivered, Pending
<1>3. todo["redeliver"] \in Seq(Message)
  BY <1>0 DEF TypeOK
<1>4. S \in SUBSET Message
  BY <1>3 DEF ToSet
<1>5. \A m \in S : m \in Live /\ m \notin Pending
  BY <1>0, <1>4, PlaceValues DEF Inv, CustodyInv, Apart
<1>6. \A m \in S : StatusOf(m) = "ready"
  BY <1>0, <1>4, <1>5, NotBeingRecorded, StatusFacts DEF StatusTable
<1>7. \A m \in S : StatusOf(m)' = "lost"
  BY <1>0, <1>4, <1>5, StatusFactsNext DEF StatusTable, Live
<1>8. \A m \in Message \ S : StatusOf(m)' = StatusOf(m)
  BY <1>0, <1>1, <1>2, StatusKept
<1> HIDE DEF S
<1> QED
  BY <1>0, <1>2, <1>4, <1>6, <1>7, <1>8, Loses

\* The sweep takes overdue leases back and drops expired ones.
LEMMA SweepRefines ==
    ASSUME Inv, Inv', Sweep
    PROVE  LQ!Next
<1>0. /\ TypeOK /\ "redeliver" \in Worker /\ pc["redeliver"] = "idle"
      /\ UNCHANGED <<pub, chan, got>>
      /\ pendingMessages' = [m \in Message |->
             IF m \in Overdue \cup Expired THEN None ELSE pendingMessages[m]]
      /\ fate' = [m \in Message |-> IF m \in Expired THEN "expired" ELSE fate[m]]
      /\ \E order : todo' = [todo EXCEPT !["redeliver"] = order]
      /\ \E v \in {"idle", "pick", "rebuffer"} : pc' = [pc EXCEPT !["redeliver"] = v]
  BY Workers DEF Inv, TypeInv, Sweep, clientVars
<1>1. \A m \in Message : BeingRecorded(m)' <=> BeingRecorded(m)
  <2>1. \A w \in Worker : pc'[w] = "record" <=> pc[w] = "record"
    BY <1>0 DEF TypeOK
  <2>2. \A w \in Worker : pc[w] = "record" => todo'[w] = todo[w]
    BY <1>0 DEF TypeOK
  <2> QED
    BY <2>1, <2>2, RecordingKept
<1>2. \A m \in Message : Recipients(m)' = Recipients(m)
  BY <1>0 DEF Recipients, Delivered
<1>3. /\ Overdue \in SUBSET Pending /\ Expired \in SUBSET Pending
      /\ Overdue \cap Expired = {} /\ Pending \subseteq Message /\ Pending \subseteq Live
  BY PendingIsLive DEF Overdue, Expired
<1>4. Pending' = Pending \ (Overdue \cup Expired)
  BY <1>0 DEF Pending
<1>5. \A m \in Pending : ~BeingRecorded(m)'
  BY <1>1, <1>3, RecordedIsLive
<1>6. \A m \in Overdue : StatusOf(m)' = "ready"
  <2>1. \A m \in Overdue : m \in Live' /\ m \notin Pending' /\ m \in Message
    BY <1>0, <1>3, <1>4 DEF Live
  <2> QED
    BY <1>3, <1>5, <2>1, StatusFactsNext DEF StatusTable
<1>7. \A m \in Expired : StatusOf(m)' = "lost"
  BY <1>0, <1>3, StatusFactsNext DEF StatusTable, Live
<1>8. \A m \in Message \ (Overdue \cup Expired) : StatusOf(m)' = StatusOf(m)
  BY <1>0, <1>1, <1>4, StatusKept
<1> QED
  BY <1>0, <1>2, <1>3, <1>6, <1>7, <1>8, Reclaims

\* Close loses what is on lease.
LEMMA CloseEndRefines ==
    ASSUME Inv, Inv', CloseEnd
    PROVE  LQ!Next
<1>0. /\ UNCHANGED <<pc, todo, pub, chan, got>>
      /\ pendingMessages' = [m \in Message |-> None]
      /\ fate' = [m \in Message |-> IF m \in Pending THEN "shutdown" ELSE fate[m]]
  BY DEF CloseEnd, clientVars, workerVars
<1>1. /\ \A m \in Message : BeingRecorded(m)' <=> BeingRecorded(m)
      /\ \A m \in Message : Recipients(m)' = Recipients(m)
      /\ Pending' = {}
  BY <1>0, RecordingKept DEF Recipients, Delivered, Pending
<1>2. Pending \subseteq Message /\ Pending \subseteq Live
  BY PendingIsLive
<1>3. \A m \in Pending : StatusOf(m)' = "lost"
  BY <1>0, <1>2, StatusFactsNext DEF StatusTable, Live
<1>4. \A m \in Message \ Pending : StatusOf(m)' = StatusOf(m)
  BY <1>0, <1>1, StatusKept
<1> DEFINE none == {}
           all == Pending
<1>5. /\ none \in SUBSET Pending /\ all \in SUBSET Pending /\ none \cap all = {}
      /\ pendingMessages' = [m \in Message |->
             IF m \in none \cup all THEN None ELSE pendingMessages[m]]
      /\ \A m \in none : StatusOf(m)' = "ready"
      /\ \A m \in all : StatusOf(m)' = "lost"
      /\ \A m \in Message \ (none \cup all) : StatusOf(m)' = StatusOf(m)
  BY <1>0, <1>3, <1>4 DEF Pending
<1> HIDE DEF none, all
<1> QED
  BY <1>1, <1>5, Reclaims

\* Ack settles the copy on lease.
LEMMA AckRefines ==
    ASSUME Inv, Inv', NEW s \in Sub, NEW m \in Message, AckHeld(s, m)
    PROVE  LQ!Next
<1>0. TypeOK /\ UNCHANGED <<pc, todo, pub, chan, got>>
  BY DEF Inv, TypeInv, AckHeld, clientVars, workerVars
<1>1. PICK k \in Pending : /\ pendingMessages' = [pendingMessages EXCEPT ![k] = None]
                           /\ fate' = [fate EXCEPT ![k] = "acked"]
  BY DEF AckHeld
<1>2. /\ \A l \in Message : BeingRecorded(l)' <=> BeingRecorded(l)
      /\ \A l \in Message : Recipients(l)' = Recipients(l)
  BY <1>0, RecordingKept DEF Recipients, Delivered
<1>3. k \in Message /\ k \in Live /\ StatusOf(k) = "leased"
  BY PendingIsLive, StatusFacts DEF StatusTable
<1>4. \A l \in Message \ {k} : l \in Pending' <=> l \in Pending
  BY <1>0, <1>1 DEF Pending, TypeOK
<1>5. StatusOf(k)' = "settled"
  BY <1>0, <1>1, <1>3, StatusFactsNext DEF StatusTable, TypeOK, Live
<1>6. \A l \in Message \ {k} : StatusOf(l)' = StatusOf(l)
  BY <1>0, <1>1, <1>2, <1>4, StatusKept DEF TypeOK
<1>7. LQ!Settle(k) /\ k \in LQ!In("leased")
  BY <1>0, <1>1, <1>2, <1>3, <1>5, <1>6 DEF LQ!Settle, LQ!In, LQ!Move
<1> QED
  BY <1>7 DEF LQ!Next

\* Every step of the queue is a step of LeaseQueue or changes nothing there.
LEMMA RefinementStep ==
    ASSUME Inv, Inv', Handover, [Next]_vars
    PROVE  LQ!Next \/ UNCHANGED LQ!vars
<1> USE DEF clientVars, workerVars, history
<1>0. TypeOK
  BY DEF Inv, TypeInv
<1>1. ASSUME UNCHANGED <<fate, pub, pendingMessages, chan, got>>,
             \A w \in Worker : pc'[w] = "record" <=> pc[w] = "record",
             \A w \in Worker : pc[w] = "record" => todo'[w] = todo[w]
      PROVE  UNCHANGED LQ!vars
  BY <1>1, RecordingKept, Stutters DEF Recipients, Delivered
<1>2. ASSUME NEW m \in Message, Publisher(m) \/ Elapse(m)
      PROVE  LQ!Next \/ UNCHANGED LQ!vars
  BY <1>1, <1>2, PublishRefines DEF Elapse
<1>3. ASSUME NEW s \in Sub, Subscription(s)
      PROVE  LQ!Next \/ UNCHANGED LQ!vars
  <2>1. CASE Receive(s)
    <3>1. UNCHANGED <<fate, pub, pendingMessages, pc, todo>>
      BY <2>1 DEF Receive
    <3> QED
      BY <1>0, <2>1, <3>1, ReceiveRecipients, RecordingKept, Stutters
  <2>2. CASE Subscribe(s)
    BY <1>1, <2>2 DEF Subscribe
  <2>3. CASE CancelContext(s)
    BY <1>1, <2>3 DEF CancelContext
  <2>4. CASE Cleanup(s)
    BY <1>1, <2>4 DEF Cleanup
  <2>5. ASSUME NEW m \in Message, AckHeld(s, m) \/ AckUnknown(s, m)
        PROVE  LQ!Next \/ UNCHANGED LQ!vars
    BY <1>1, <2>5, AckRefines DEF AckUnknown
  <2> QED
    BY <1>3, <2>1, <2>2, <2>3, <2>4, <2>5 DEF Subscription
<1>4. ASSUME NEW w \in Worker, Deliver(w)
      PROVE  LQ!Next \/ UNCHANGED LQ!vars
  <2>1. CASE PickNobody(w)
    BY <1>0, <1>1, <2>1 DEF PickNobody, TypeOK
  <2>2. CASE Pick(w)
    BY <1>0, <1>1, <2>2 DEF Pick, TypeOK
  <2>3. CASE Advance(w)
    BY <1>0, <1>1, <2>3 DEF Advance, TypeOK
  <2>4. CASE SendFail(w)
    BY <1>0, <1>1, <2>4 DEF SendFail, AfterFailure, TypeOK
  <2> QED
    BY <1>4, <2>1, <2>2, <2>3, <2>4, SendRefines, RecordRefines, ParkRefines DEF Deliver
<1>5. CASE Distribute
  <2>1. CASE DistributeReceive
    BY <1>0, <1>1, <2>1, Workers DEF DistributeReceive, TypeOK
  <2>2. CASE DistributeFlush
    BY <1>0, <1>1, <2>2, Workers DEF DistributeFlush, TypeOK
  <2>3. CASE DistributeExit
    BY <1>0, <1>1, <2>3, Workers DEF DistributeExit, TypeOK
  <2> QED
    BY <1>5, <2>1, <2>2, <2>3, ParkRefines, Workers DEF Distribute
<1>6. CASE Redeliver
  <2>1. CASE RedeliverExit
    BY <1>0, <1>1, <2>1, Workers DEF RedeliverExit, TypeOK
  <2> QED
    BY <1>6, <2>1, SweepRefines, RebufferRefines DEF Redeliver
<1>7. CASE CloseBegin
  BY <1>1, <1>7 DEF CloseBegin
<1>8. CASE CloseEnd
  BY <1>8, CloseEndRefines
<1>9. CASE UNCHANGED vars
  BY <1>1, <1>9 DEF vars
<1> QED
  BY <1>2, <1>3, <1>4, <1>5, <1>6, <1>7, <1>8, <1>9 DEF Next

\* An empty queue is LeaseQueue's initial state.
LEMMA RefinementInit == Init => LQ!Init
<1> SUFFICES ASSUME Init PROVE LQ!Init
  OBVIOUS
<1>1. Inv
  BY TypeInvInit, CustodyInit DEF Inv
<1>2. \A m \in Message : StatusOf(m) = "new"
  BY <1>1, StatusFacts DEF StatusTable, Init
<1>3. \A m \in Message : Recipients(m) = {}
  BY DEF Init, Recipients, Delivered, ToSet
<1> QED
  BY <1>2, <1>3 DEF Init, LQ!Init

\* The queue of pkg/mq/inmemory.go, with its channels, goroutines, locks and
\* tables, does for its clients only what LeaseQueue allows: a message is handed
\* to one subscription, leased to that subscription's consumer, and settled,
\* taken back or lost only as a lease ends.
THEOREM QueueImplementsLeaseQueue == Spec => ImplementsLeaseQueue
<1>1. Inv /\ Inv' /\ Handover /\ [Next]_vars => [LQ!Next]_(LQ!vars)
  BY RefinementStep
<1> QED
  BY <1>1, RefinementInit, HandoverInvariant, PTL DEF Spec, ImplementsLeaseQueue, LQ!Spec

=============================================================================
