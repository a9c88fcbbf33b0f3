------------------------------ MODULE Pipeline ------------------------------
(***************************************************************************)
(* The queue service and the collectors together: LeaseQueue stands for    *)
(* the queue, which InMemoryQueue implements, Collector for the collectors *)
(* and the repository.  In between are the HTTP client and server of       *)
(* pkg/mq/httpclient.go and pkg/mq/server.go: event streams that break and *)
(* are opened again, as new subscriptions of the same consumer, and Ack    *)
(* requests that arrive late, twice or not at all.                         *)
(***************************************************************************)
EXTENDS Naturals, Sequences

CONSTANTS
    Message, Sub, Consumer, None, ConsumerOf,               \* LeaseQueue
    Gpu, GpuOf, Valid, BatchSize, ForeignKeys, MaxFaults,   \* Collector
    MaxInbox            \* room of an event stream and the channels at its ends

VARIABLES
    status, recipients, holder,
    phase, inbox, inboxOpen, ctxDone, batch, gpuMap, processed, last,
    gpus, stored, requests, faults, taken, attempted,
    stream,             \* the subscription a collector's open stream feeds from
    listed,             \* subscriptions in the queue's list
    used                \* subscriptions there have been

\* Every message has an ID of its own here.
Queue == INSTANCE LeaseQueue WITH IdOf <- [m \in Message |-> m]
Coll == INSTANCE Collector

queueVars == <<status, recipients, holder>>
localVars == <<phase, inbox, inboxOpen, ctxDone, batch, gpuMap, processed,
               last, taken, attempted>>
collVars == <<localVars, gpus, stored, requests, faults>>
streamVars == <<stream, listed, used>>
vars == <<queueVars, collVars, streamVars>>

ASSUME PipelineAssumption ==
    /\ Coll!CollectorAssumption
    /\ ConsumerOf \in [Sub -> Consumer]
    /\ None \notin Consumer \cup Sub

TypeOK ==
    /\ Queue!TypeOK
    /\ Coll!TypeOK
    /\ stream \in [Consumer -> Sub \cup {None}]
    /\ listed \subseteq used
    /\ used \subseteq Sub

Init ==
    /\ Queue!Init
    /\ Coll!Init
    /\ stream = [c \in Consumer |-> None]
    /\ listed = {}
    /\ used = {}

-----------------------------------------------------------------------------
(* The queue service on its own.                                           *)

Publish(m) == Queue!Accept(m) /\ UNCHANGED <<collVars, streamVars>>

RecordLease(m) == Queue!Lease(m) /\ UNCHANGED <<collVars, streamVars>>

\* The backlog or the pending table is full.
Drop(m) ==
    /\ m \in Queue!In("ready") \cup Queue!In("handed")
    /\ Queue!Lose({m})
    /\ UNCHANGED <<collVars, streamVars>>

LeaseTimesOut(m) ==
    /\ m \in Queue!In("leased")
    /\ Queue!Reclaim({m}, {})
    /\ UNCHANGED <<collVars, streamVars>>

LeaseExpires(m) ==
    /\ m \in Queue!In("leased")
    /\ Queue!Reclaim({}, {m})
    /\ UNCHANGED <<collVars, streamVars>>

-----------------------------------------------------------------------------
(* Event streams.                                                          *)

\* Model bound: a collector is cut off only if a subscription is left for it
\* to come back with.
Spare(c) == \E s \in Sub \ used : ConsumerOf[s] = c

\* Subscribe's goroutine opens a stream, again and again until the context is
\* done; the server subscribes for it.
Connect(c, s) ==
    /\ inboxOpen[c] /\ ~ctxDone[c]
    /\ stream[c] = None
    /\ ConsumerOf[s] = c
    /\ s \notin used
    /\ stream' = [stream EXCEPT ![c] = s]
    /\ listed' = listed \cup {s}
    /\ used' = used \cup {s}
    /\ UNCHANGED <<queueVars, collVars>>

\* The stream breaks: what the client has not read yet is gone.
Disconnect(c) ==
    /\ stream[c] # None
    /\ Spare(c)
    /\ stream' = [stream EXCEPT ![c] = None]
    /\ \E n \in 0..Len(inbox[c]) : inbox' = [inbox EXCEPT ![c] = SubSeq(@, 1, n)]
    /\ UNCHANGED <<queueVars, phase, inboxOpen, ctxDone, batch, gpuMap,
                   processed, last, gpus, stored, requests, faults, taken,
                   attempted, listed, used>>

\* The server notices, and the queue's cleanup goroutine takes the
\* subscription, and not another one of the same consumer, out of the list.
RemovedByConsumer(s) == {t \in Sub : ConsumerOf[t] = ConsumerOf[s]}
Removed(s) == {s}

Forget(s) ==
    /\ s \in listed
    /\ stream[ConsumerOf[s]] # s
    /\ listed' = listed \ Removed(s)
    /\ UNCHANGED <<queueVars, collVars, stream, used>>

\* A message is handed to a listed subscription, whether or not anybody still
\* reads what it is sent.
Deliver(m, s) ==
    /\ s \in listed
    /\ Queue!Hand(m, s)
    /\ IF stream[ConsumerOf[s]] = s
         THEN Coll!Arrive(ConsumerOf[s], m)
         ELSE UNCHANGED collVars
    /\ UNCHANGED streamVars

-----------------------------------------------------------------------------
(* Collectors.                                                             *)

StartCollector(c) == Coll!Start(c) /\ UNCHANGED <<queueVars, streamVars>>

StopCollector(c) ==
    /\ Spare(c)
    /\ Coll!Stop(c)
    /\ UNCHANGED <<queueVars, streamVars>>

\* The process is killed, or exits after Stop.
KillCollector(c) ==
    /\ Spare(c)
    /\ Coll!Crash(c)
    /\ stream' = [stream EXCEPT ![c] = None]
    /\ UNCHANGED <<queueVars, listed, used>>

Collect(c) ==
    /\ Coll!ProcessMessages(c) \/ Coll!ProcessBatch(c)
    /\ UNCHANGED <<queueVars, streamVars>>

\* An Ack request reaches the queue, which settles the lease of its holder and
\* changes nothing otherwise; the answer may be lost and the request repeated.
AckSettles(c, m) == m \in Queue!In("leased") /\ holder[m] = c

AckArrives(c, m) ==
    /\ <<c, m>> \in requests
    /\ IF AckSettles(c, m) THEN Queue!Settle(m) ELSE UNCHANGED queueVars
    /\ \/ Coll!RequestEnds(c, m)
       \/ /\ Coll!Fault
          /\ UNCHANGED <<localVars, gpus, stored, requests>>
    /\ UNCHANGED streamVars

AckLost(c, m) ==
    /\ <<c, m>> \in requests
    /\ requests' = requests \ {<<c, m>>}
    /\ Coll!Fault
    /\ UNCHANGED <<queueVars, localVars, gpus, stored, streamVars>>

-----------------------------------------------------------------------------

QueueStep(m) ==
    Publish(m) \/ RecordLease(m) \/ Drop(m) \/ LeaseTimesOut(m) \/ LeaseExpires(m)

CollectorStep(c) ==
    \/ StartCollector(c) \/ StopCollector(c) \/ KillCollector(c) \/ Collect(c)
    \/ Disconnect(c)

Next ==
    \/ \E m \in Message : QueueStep(m)
    \/ \E m \in Message, s \in Sub : Deliver(m, s)
    \/ \E s \in Sub : Forget(s)
    \/ \E c \in Consumer, s \in Sub : Connect(c, s)
    \/ \E c \in Consumer : CollectorStep(c)
    \/ \E c \in Consumer, m \in Message : AckArrives(c, m) \/ AckLost(c, m)

Spec == Init /\ [][Next]_vars

\* Both services keep running: leases are recorded and end, dead subscriptions
\* are dropped, collectors are restarted when they are down (by their
\* deployment), not always killed before they have opened a stream again, and
\* their goroutine runs.  A message finds a
\* subscriber with room if there is one again and again: publishers keep
\* publishing, which is what flushes the backlog.
Fairness ==
    /\ \A m \in Message :
          /\ WF_vars(RecordLease(m))
          /\ WF_vars(LeaseTimesOut(m) \/ LeaseExpires(m))
          /\ SF_vars(\E s \in Sub : Deliver(m, s))
    /\ \A s \in Sub : WF_vars(Forget(s))
    /\ \A c \in Consumer :
          /\ WF_vars(StartCollector(c))
          /\ WF_vars(phase[c] = "stopped" /\ KillCollector(c))
          /\ SF_vars(\E s \in Sub : Connect(c, s))
          /\ WF_vars(Collect(c))
          /\ SF_vars(Coll!Tick(c) /\ UNCHANGED <<queueVars, streamVars>>)
          /\ SF_vars(Coll!Leave(c) /\ UNCHANGED <<queueVars, streamVars>>)

FairSpec == Spec /\ Fairness

-----------------------------------------------------------------------------
(* Properties.                                                             *)

\* The queue lets go of an acknowledged message only once its record is in the
\* repository, whatever is killed, cut off, late or repeated on the way.
SettledIsStored == Queue!In("settled") \subseteq stored

\* The queue sends to the subscription behind every open stream, also when the
\* one it replaces is cleaned up after it was opened.
OpenStreamIsFed ==
    \A c \in Consumer : stream[c] # None => stream[c] \in listed /\ ConsumerOf[stream[c]] = c

\* A valid message the queue has accepted is stored in the end, unless the
\* queue reports it lost: also when its first collectors die with it, its
\* stream breaks, and the repository fails.
EveryMessageIsStored ==
    \A m \in Valid : m \in Queue!In("ready") ~> (m \in stored \/ m \in Queue!In("lost"))
=============================================================================
