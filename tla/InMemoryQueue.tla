--------------------------- MODULE InMemoryQueue ---------------------------
(***************************************************************************)
(* The in-memory message queue of pkg/mq/inmemory.go: a bounded channel of *)
(* published messages, one goroutine that distributes them round-robin to  *)
(* the subscribers, one goroutine that redelivers messages whose consumer  *)
(* did not acknowledge in time, and the Publish, Subscribe, Ack and Close  *)
(* methods that other goroutines call.                                     *)
(*                                                                         *)
(* Every section under q.mu is one step.  A section under the write lock   *)
(* waits until no delivering goroutine is inside the read-locked section   *)
(* of deliverMessage (NoReader); that section itself takes two steps       *)
(* because both goroutines write currentSubscriberIndex inside it.         *)
(***************************************************************************)
EXTENDS Naturals, FiniteSets, SequencesExt

CONSTANTS
    Message,        \* messages published, copies included
    IdOf,           \* the ID of each: a repeated publish makes a copy with the same ID
    Sub,            \* calls of Subscribe, each with its own channel
    Consumer,       \* consumer IDs
    None,           \* no consumer, no subscription
    ConsumerOf,     \* the consumerID argument of each call of Subscribe
    BufferSize,     \* capacity of the message and subscriber channels
    PendingFactor,  \* maxPending is bufferSize times this (10 in the code)
    MaxRetries      \* failed sends before a message is parked (100 in the code)

ASSUME QueueAssumption ==
    /\ IsFiniteSet(Message)
    /\ ConsumerOf \in [Sub -> Consumer]
    /\ None \notin Consumer \cup Sub
    /\ BufferSize \in Nat \ {0}
    /\ PendingFactor \in Nat \ {0}
    /\ MaxRetries \in Nat \ {0}

MaxUndelivered == BufferSize
MaxPending == PendingFactor * BufferSize

Worker == {"distribute", "redeliver"}
PCValue == {"idle", "route", "pick", "advance", "send", "record", "buffer",
            "rebuffer", "done"}
Fate == {"none", "acked", "expired", "untracked", "overflow", "superseded",
         "shutdown"}

VARIABLES
    shutdown,         \* closed flag, and whether Close has returned
    messages,         \* q.messages
    undelivered,      \* q.undeliveredQueue
    subscribers,      \* q.subscribers
    index,            \* q.currentSubscriberIndex, counted from 0
    pendingMessages,  \* consumer a message is leased to
    elapsed,          \* age of the lease, as the sweep classifies it
    chan,             \* contents of each subscriber channel
    chanState,        \* whether the channel exists, is open, is closed
    ctxDone,          \* subscriptions whose context is cancelled
    got,              \* history: messages received over each subscription
    pub,              \* progress of the Publish call for each message
    pc,               \* where each goroutine is
    todo,             \* messages the goroutine still has to deliver
    target,           \* subInfo of the attempt under way
    slot,             \* index the goroutine read in the read-locked section
    tries,            \* totalAttempts of the delivery under way
    fate,             \* history: how the queue let go of a message
    swept,            \* history: messages some sweep took back
    acked             \* history: messages for which Ack returned nil

clientVars == <<ctxDone, got, pub>>
workerVars == <<pc, todo, target, slot, tries>>
history == <<fate, swept, acked>>
vars == <<shutdown, messages, undelivered, subscribers, index,
          pendingMessages, elapsed, chan, chanState, ctxDone, got, pub,
          pc, todo, target, slot, tries, fate, swept, acked>>

TypeOK ==
    /\ shutdown \in {"running", "closing", "closed"}
    /\ messages \in Seq(Message)
    /\ undelivered \in Seq(Message)
    /\ subscribers \in Seq(Sub)
    /\ index \in Nat
    /\ pendingMessages \in [Message -> Consumer \cup {None}]
    /\ elapsed \in [Message -> {"within", "ackTimeout", "ttl"}]
    /\ chan \in [Sub -> Seq(Message)]
    /\ chanState \in [Sub -> {"none", "open", "closed"}]
    /\ ctxDone \subseteq Sub
    /\ got \in [Sub -> SUBSET Message]
    /\ pub \in [Message ->
                   {"idle", "checked", "accepted", "refused", "panicked"}]
    /\ pc \in [Worker -> PCValue]
    /\ todo \in [Worker -> Seq(Message)]
    /\ target \in [Worker -> Sub \cup {None}]
    /\ slot \in [Worker -> Nat]
    /\ tries \in [Worker -> Nat]
    /\ fate \in [Message -> Fate]
    /\ swept \subseteq Message
    /\ acked \subseteq Message

Init ==
    /\ shutdown = "running"
    /\ messages = <<>>
    /\ undelivered = <<>>
    /\ subscribers = <<>>
    /\ index = 0
    /\ pendingMessages = [m \in Message |-> None]
    /\ elapsed = [m \in Message |-> "within"]
    /\ chan = [s \in Sub |-> <<>>]
    /\ chanState = [s \in Sub |-> "none"]
    /\ ctxDone = {}
    /\ got = [s \in Sub |-> {}]
    /\ pub = [m \in Message |-> "idle"]
    /\ pc = [w \in Worker |-> "idle"]
    /\ todo = [w \in Worker |-> <<>>]
    /\ target = [w \in Worker |-> None]
    /\ slot = [w \in Worker |-> 0]
    /\ tries = [w \in Worker |-> 0]
    /\ fate = [m \in Message |-> "none"]
    /\ swept = {}
    /\ acked = {}

-----------------------------------------------------------------------------
(* Helpers.                                                                *)

\* The pending table is keyed by ID.  Its entry for an ID is kept here under
\* the copy the entry points to.
Pending == {m \in Message : pendingMessages[m] # None}
Copies(m) == {k \in Message : IdOf[k] = IdOf[m]}
OverdueNone == {}
OverdueFallsThrough == {m \in Pending : elapsed[m] \in {"ackTimeout", "ttl"}}
Overdue == {m \in Pending : elapsed[m] = "ackTimeout"}
Expired == {m \in Pending : elapsed[m] = "ttl"}

\* No goroutine is between RLock and RUnlock in deliverMessage.
NoReader == \A w \in Worker : pc[w] # "advance"

HasRoom == Len(messages) < BufferSize
UndeliveredRoom == Len(undelivered) < MaxUndelivered
PendingRoomOffByOne == Cardinality(Pending) <= MaxPending
PendingRoom == Cardinality(Pending) < MaxPending
CanSend(s) == chanState[s] = "open" /\ Len(chan[s]) < BufferSize
CanFail(s) == chanState[s] = "closed" \/ s \in ctxDone \/ Len(chan[s]) >= BufferSize

\* q.messages, or redeliverCh, has been closed.
StopSignalledNever == FALSE
StopSignalled == shutdown # "running"

\* The slot the next delivery takes, with the wrap-around test of
\* deliverMessage, and the slot after i.
NextSlot == IF index >= Len(subscribers) THEN 0 ELSE index
SlotAfter(i) == (i + 1) % Len(subscribers)

\* currentSubscriberIndex once the subscriber list has become subs.
IndexAfterRemovalKept(subs) == index
IndexAfterRemoval(subs) == IF index >= Len(subs) THEN 0 ELSE index

\* What the goroutine delivers next, and where it goes, when it is done with
\* the head of its list.
RestAgain(w) == todo[w]
Rest(w) == Tail(todo[w])

FinishHead(w) ==
    /\ todo' = [todo EXCEPT ![w] = Rest(w)]
    /\ pc' = [pc EXCEPT ![w] = IF Len(todo[w]) > 1 THEN "pick" ELSE "idle"]
    /\ target' = [target EXCEPT ![w] = None]
    /\ slot' = [slot EXCEPT ![w] = 0]
    /\ tries' = [tries EXCEPT ![w] = 0]

CloseListed ==
    chanState' = [s \in Sub |-> IF s \in ToSet(subscribers)
                                  THEN "closed" ELSE chanState[s]]

-----------------------------------------------------------------------------
(* Publish.  The closed flag is read under the lock, the send happens      *)
(* after the lock is released.                                             *)

PublishCheck(m) ==
    /\ pub[m] = "idle"
    /\ pub' = [pub EXCEPT ![m] = IF shutdown = "running" THEN "checked" ELSE "refused"]
    /\ UNCHANGED <<shutdown, messages, undelivered, subscribers, index,
                   pendingMessages, elapsed, chan, chanState, ctxDone, got,
                   workerVars, history>>

\* The send: it panics on a closed channel, takes a slot, or reports
\* ErrQueueFull.
PublishSend(m) ==
    /\ pub[m] = "checked"
    /\ \/ /\ shutdown # "running"
          /\ pub' = [pub EXCEPT ![m] = "panicked"]
          /\ UNCHANGED messages
       \/ /\ shutdown = "running" /\ HasRoom
          /\ pub' = [pub EXCEPT ![m] = "accepted"]
          /\ messages' = Append(messages, m)
       \/ /\ shutdown = "running" /\ ~HasRoom
          /\ pub' = [pub EXCEPT ![m] = "idle"]
          /\ UNCHANGED messages
    /\ UNCHANGED <<shutdown, undelivered, subscribers, index,
                   pendingMessages, elapsed, chan, chanState, ctxDone, got,
                   workerVars, history>>

\* The publisher's context is done before the send.
PublishCancelled(m) ==
    /\ pub[m] = "checked"
    /\ pub' = [pub EXCEPT ![m] = "idle"]
    /\ UNCHANGED <<shutdown, messages, undelivered, subscribers, index,
                   pendingMessages, elapsed, chan, chanState, ctxDone, got,
                   workerVars, history>>

-----------------------------------------------------------------------------
(* Subscriptions and their consumers.                                      *)

Subscribe(s) ==
    /\ NoReader
    /\ shutdown = "running"
    /\ chanState[s] = "none"
    /\ subscribers' = Append(subscribers, s)
    /\ chanState' = [chanState EXCEPT ![s] = "open"]
    /\ UNCHANGED <<shutdown, messages, undelivered, index, pendingMessages,
                   elapsed, chan, clientVars, workerVars, history>>

CancelContext(s) ==
    /\ chanState[s] # "none"
    /\ s \notin ctxDone
    /\ ctxDone' = ctxDone \cup {s}
    /\ UNCHANGED <<shutdown, messages, undelivered, subscribers, index,
                   pendingMessages, elapsed, chan, chanState, got, pub,
                   workerVars, history>>

\* The goroutine Subscribe started: it leaves the list and closes the channel.
Cleanup(s) ==
    /\ NoReader
    /\ s \in ctxDone
    /\ chanState[s] = "open"
    /\ chanState' = [chanState EXCEPT ![s] = "closed"]
    /\ \E i \in DOMAIN subscribers :
          /\ subscribers[i] = s
          /\ subscribers' = RemoveAt(subscribers, i)
          /\ index' = IndexAfterRemoval(subscribers')
    /\ UNCHANGED <<shutdown, messages, undelivered, pendingMessages, elapsed,
                   chan, clientVars, workerVars, history>>

Receive(s) ==
    /\ chan[s] # <<>>
    /\ got' = [got EXCEPT ![s] = @ \cup {Head(chan[s])}]
    /\ chan' = [chan EXCEPT ![s] = Tail(@)]
    /\ UNCHANGED <<shutdown, messages, undelivered, subscribers, index,
                   pendingMessages, elapsed, chanState, ctxDone, pub,
                   workerVars, history>>

\* Ack looks the ID up.  It deletes the entry if the caller holds the lease,
\* answers nil when there is no entry and refuses anybody else.
HoldsLeaseAnyone(c, m) == TRUE
HoldsLease(c, m) == pendingMessages[m] = c

AckHeld(s, m) ==
    /\ NoReader
    /\ m \in got[s]
    /\ \E k \in Copies(m) \cap Pending :
          /\ HoldsLease(ConsumerOf[s], k)
          /\ pendingMessages' = [pendingMessages EXCEPT ![k] = None]
          /\ elapsed' = [elapsed EXCEPT ![k] = "within"]
          /\ fate' = [fate EXCEPT ![k] = "acked"]
    /\ acked' = acked \cup {m}
    /\ UNCHANGED <<shutdown, messages, undelivered, subscribers, index, chan,
                   chanState, clientVars, workerVars, swept>>

AckUnknown(s, m) ==
    /\ NoReader
    /\ m \in got[s]
    /\ Copies(m) \cap Pending = {}
    /\ acked' = acked \cup {m}
    /\ UNCHANGED <<shutdown, messages, undelivered, subscribers, index,
                   pendingMessages, elapsed, chan, chanState, clientVars,
                   workerVars, fate, swept>>

-----------------------------------------------------------------------------
(* distribute: the loop over q.messages.                                   *)

DistributeReceive ==
    /\ pc["distribute"] = "idle"
    /\ messages # <<>>
    /\ messages' = Tail(messages)
    /\ todo' = [todo EXCEPT !["distribute"] = <<Head(messages)>>]
    /\ pc' = [pc EXCEPT !["distribute"] = "route"]
    /\ UNCHANGED <<shutdown, undelivered, subscribers, index,
                   pendingMessages, elapsed, chan, chanState, clientVars,
                   target, slot, tries, history>>

\* Without subscribers the new message is parked or dropped ...
DistributePark ==
    /\ NoReader
    /\ pc["distribute"] = "route"
    /\ subscribers = <<>>
    /\ LET m == Head(todo["distribute"]) IN
          IF UndeliveredRoom
            THEN undelivered' = Append(undelivered, m) /\ UNCHANGED fate
            ELSE UNCHANGED undelivered /\ fate' = [fate EXCEPT ![m] = "overflow"]
    /\ FinishHead("distribute")
    /\ UNCHANGED <<shutdown, messages, subscribers, index, pendingMessages,
                   elapsed, chan, chanState, clientVars, swept, acked>>

\* ... with subscribers the backlog goes first.
DistributeFlush ==
    /\ NoReader
    /\ pc["distribute"] = "route"
    /\ subscribers # <<>>
    /\ todo' = [todo EXCEPT !["distribute"] = undelivered \o @]
    /\ undelivered' = <<>>
    /\ pc' = [pc EXCEPT !["distribute"] = "pick"]
    /\ UNCHANGED <<shutdown, messages, subscribers, index, pendingMessages,
                   elapsed, chan, chanState, clientVars, target, slot, tries,
                   history>>

DrainedAlways == TRUE
Drained == messages = <<>>

DistributeExit ==
    /\ NoReader
    /\ pc["distribute"] = "idle"
    /\ StopSignalled
    /\ Drained
    /\ CloseListed
    /\ subscribers' = <<>>
    /\ pc' = [pc EXCEPT !["distribute"] = "done"]
    /\ UNCHANGED <<shutdown, messages, undelivered, index, pendingMessages,
                   elapsed, chan, clientVars, todo, target, slot, tries,
                   history>>

-----------------------------------------------------------------------------
(* deliverMessage, run by both goroutines on the head of their list.       *)

\* The read lock is taken: without subscribers it is released at once.
PickNobody(w) ==
    /\ pc[w] = "pick"
    /\ subscribers = <<>>
    /\ pc' = [pc EXCEPT ![w] = "buffer"]
    /\ UNCHANGED <<shutdown, messages, undelivered, subscribers, index,
                   pendingMessages, elapsed, chan, chanState, clientVars,
                   todo, target, slot, tries, history>>

Pick(w) ==
    /\ pc[w] = "pick"
    /\ subscribers # <<>>
    /\ index' = NextSlot
    /\ slot' = [slot EXCEPT ![w] = NextSlot]
    /\ target' = [target EXCEPT ![w] = subscribers[NextSlot + 1]]
    /\ pc' = [pc EXCEPT ![w] = "advance"]
    /\ UNCHANGED <<shutdown, messages, undelivered, subscribers,
                   pendingMessages, elapsed, chan, chanState, clientVars,
                   todo, tries, history>>

\* The index is advanced from the value read before or from the value the
\* other goroutine has written meanwhile: the lock is only a read lock.
Advance(w) ==
    /\ pc[w] = "advance"
    /\ \E i \in {slot[w], index} : index' = SlotAfter(i)
    /\ slot' = [slot EXCEPT ![w] = 0]
    /\ pc' = [pc EXCEPT ![w] = "send"]
    /\ UNCHANGED <<shutdown, messages, undelivered, subscribers,
                   pendingMessages, elapsed, chan, chanState, clientVars,
                   todo, target, tries, history>>

\* safeSend, outside the lock.
SendOK(w) ==
    /\ pc[w] = "send"
    /\ CanSend(target[w])
    /\ chan' = [chan EXCEPT ![target[w]] = Append(@, Head(todo[w]))]
    /\ pc' = [pc EXCEPT ![w] = "record"]
    /\ UNCHANGED <<shutdown, messages, undelivered, subscribers, index,
                   pendingMessages, elapsed, chanState, clientVars, todo,
                   target, slot, tries, history>>

AfterFailure(w) == IF tries[w] + 1 >= MaxRetries THEN "buffer" ELSE "pick"

SendFail(w) ==
    /\ pc[w] = "send"
    /\ CanFail(target[w])
    /\ tries' = [tries EXCEPT ![w] = @ + 1]
    /\ pc' = [pc EXCEPT ![w] = AfterFailure(w)]
    /\ target' = [target EXCEPT ![w] = None]
    /\ UNCHANGED <<shutdown, messages, undelivered, subscribers, index,
                   pendingMessages, elapsed, chan, chanState, clientVars,
                   todo, slot, history>>

\* The consumerID the lease is recorded under.
LeaseHolderByIndex(w) ==
    ConsumerOf[IF subscribers = <<>> THEN target[w] ELSE subscribers[NextSlot + 1]]
LeaseHolderChannel(w) == target[w]
LeaseHolder(w) == ConsumerOf[target[w]]

\* The lease is recorded after the send, if the table has room; an entry under
\* the same ID is overwritten, and the table lets go of the copy it was for.
SupersededNone(m) == {}
Superseded(m) == (Copies(m) \ {m}) \cap Pending

Record(w) ==
    /\ NoReader
    /\ pc[w] = "record"
    /\ LET m == Head(todo[w]) IN
          IF PendingRoom
            THEN /\ pendingMessages' = [k \in Message |->
                       IF k = m THEN LeaseHolder(w)
                       ELSE IF k \in Superseded(m) THEN None ELSE pendingMessages[k]]
                 /\ elapsed' = [k \in Message |->
                       IF k = m \/ k \in Superseded(m) THEN "within" ELSE elapsed[k]]
                 /\ fate' = [k \in Message |->
                       IF k \in Superseded(m) THEN "superseded" ELSE fate[k]]
            ELSE /\ fate' = [fate EXCEPT ![m] = "untracked"]
                 /\ UNCHANGED <<pendingMessages, elapsed>>
    /\ FinishHead(w)
    /\ UNCHANGED <<shutdown, messages, undelivered, subscribers, index, chan,
                   chanState, clientVars, swept, acked>>

Buffer(w) ==
    /\ NoReader
    /\ pc[w] = "buffer"
    /\ LET m == Head(todo[w]) IN
          IF UndeliveredRoom
            THEN undelivered' = Append(undelivered, m) /\ UNCHANGED fate
            ELSE UNCHANGED undelivered /\ fate' = [fate EXCEPT ![m] = "overflow"]
    /\ FinishHead(w)
    /\ UNCHANGED <<shutdown, messages, subscribers, index, pendingMessages,
                   elapsed, chan, chanState, clientVars, swept, acked>>

-----------------------------------------------------------------------------
(* redeliveryLoop.                                                         *)

\* A tick that finds something: expired leases are dropped, overdue ones are
\* collected in the order the map iteration yields them.
Sweep ==
    /\ NoReader
    /\ pc["redeliver"] = "idle"
    /\ Overdue \cup Expired # {}
    /\ pendingMessages' = [m \in Message |->
          IF m \in Overdue \cup Expired THEN None ELSE pendingMessages[m]]
    /\ elapsed' = [m \in Message |->
          IF m \in Overdue \cup Expired THEN "within" ELSE elapsed[m]]
    /\ fate' = [m \in Message |-> IF m \in Expired THEN "expired" ELSE fate[m]]
    /\ swept' = swept \cup Overdue
    /\ \E order \in SetToSeqs(Overdue) :
          todo' = [todo EXCEPT !["redeliver"] = order]
    /\ pc' = [pc EXCEPT !["redeliver"] =
                 IF Overdue = {} THEN "idle"
                 ELSE IF subscribers # <<>> THEN "pick" ELSE "rebuffer"]
    /\ UNCHANGED <<shutdown, messages, undelivered, subscribers, index, chan,
                   chanState, clientVars, target, slot, tries, acked>>

\* Without subscribers at the sweep, everything collected is parked.
Rebuffer ==
    /\ NoReader
    /\ pc["redeliver"] = "rebuffer"
    /\ LET room == MaxUndelivered - Len(undelivered)
           kept == SubSeq(todo["redeliver"], 1, room)
       IN /\ undelivered' = undelivered \o
                (IF room >= Len(todo["redeliver"]) THEN todo["redeliver"] ELSE kept)
          /\ fate' = [m \in Message |->
                IF m \in ToSet(todo["redeliver"]) \ ToSet(undelivered')
                  THEN "overflow" ELSE fate[m]]
    /\ todo' = [todo EXCEPT !["redeliver"] = <<>>]
    /\ pc' = [pc EXCEPT !["redeliver"] = "idle"]
    /\ UNCHANGED <<shutdown, messages, subscribers, index, pendingMessages,
                   elapsed, chan, chanState, clientVars, target, slot, tries,
                   swept, acked>>

RedeliverExit ==
    /\ pc["redeliver"] = "idle"
    /\ StopSignalled
    /\ pc' = [pc EXCEPT !["redeliver"] = "done"]
    /\ UNCHANGED <<shutdown, messages, undelivered, subscribers, index,
                   pendingMessages, elapsed, chan, chanState, clientVars,
                   todo, target, slot, tries, history>>

\* Time.  A lease is swept within one tick of its ackTimeout, so it reaches
\* pendingTTL only while the loop is busy delivering.
Elapse(m) ==
    /\ pendingMessages[m] # None
    /\ \/ /\ elapsed[m] = "within"
          /\ elapsed' = [elapsed EXCEPT ![m] = "ackTimeout"]
       \/ /\ elapsed[m] = "ackTimeout"
          /\ pc["redeliver"] # "idle"
          /\ elapsed' = [elapsed EXCEPT ![m] = "ttl"]
    /\ UNCHANGED <<shutdown, messages, undelivered, subscribers, index,
                   pendingMessages, chan, chanState, clientVars, workerVars,
                   history>>

-----------------------------------------------------------------------------
(* Close.                                                                  *)

CloseBegin ==
    /\ NoReader
    /\ shutdown = "running"
    /\ shutdown' = "closing"
    /\ UNCHANGED <<messages, undelivered, subscribers, index,
                   pendingMessages, elapsed, chan, chanState, clientVars,
                   workerVars, history>>

CloseEnd ==
    /\ NoReader
    /\ shutdown = "closing"
    /\ \A w \in Worker : pc[w] = "done"
    /\ shutdown' = "closed"
    /\ CloseListed
    /\ subscribers' = <<>>
    /\ pendingMessages' = [m \in Message |-> None]
    /\ elapsed' = [m \in Message |-> "within"]
    /\ fate' = [m \in Message |-> IF m \in Pending THEN "shutdown" ELSE fate[m]]
    /\ UNCHANGED <<messages, undelivered, index, chan, clientVars,
                   workerVars, swept, acked>>

-----------------------------------------------------------------------------

Publisher(m) == PublishCheck(m) \/ PublishSend(m) \/ PublishCancelled(m)

Subscription(s) ==
    \/ Subscribe(s) \/ CancelContext(s) \/ Cleanup(s) \/ Receive(s)
    \/ \E m \in Message : AckHeld(s, m) \/ AckUnknown(s, m)

Deliver(w) ==
    \/ PickNobody(w) \/ Pick(w) \/ Advance(w) \/ SendOK(w) \/ SendFail(w)
    \/ Record(w) \/ Buffer(w)

Distribute ==
    DistributeReceive \/ DistributePark \/ DistributeFlush \/ DistributeExit

Redeliver == Sweep \/ Rebuffer \/ RedeliverExit

Next ==
    \/ \E m \in Message : Publisher(m) \/ Elapse(m)
    \/ \E s \in Sub : Subscription(s)
    \/ \E w \in Worker : Deliver(w)
    \/ Distribute
    \/ Redeliver
    \/ CloseBegin
    \/ CloseEnd

Spec == Init /\ [][Next]_vars

\* Each goroutine keeps running, also when it has to wait for the write lock
\* again and again (sync.RWMutex blocks new readers behind a waiting writer):
\* strong fairness of everything one goroutine does between two visits to its
\* select.  redeliveryLoop's select chooses at random among the ready cases,
\* so it does not ignore redeliverCh forever.  Time passes.  Nothing is
\* assumed of publishers, consumers and contexts.
Fairness ==
    /\ SF_vars(Deliver("distribute") \/ Distribute)
    /\ SF_vars(Deliver("redeliver") \/ Sweep \/ Rebuffer)
    /\ SF_vars(RedeliverExit)
    /\ SF_vars(CloseEnd)
    /\ \A m \in Message : WF_vars(Elapse(m))

FairSpec == Spec /\ Fairness

-----------------------------------------------------------------------------
(* Properties.                                                             *)

\* Where the queue keeps a message it still answers for.
Where(m) ==
    {w \in Worker : m \in ToSet(todo[w])}
    \cup {p \in {"buffer"} : m \in ToSet(messages)}
    \cup {p \in {"backlog"} : m \in ToSet(undelivered)}
    \cup {p \in {"lease"} : pendingMessages[m] # None}

Delivered(s) == ToSet(chan[s]) \cup got[s]
Recipients(m) == {s \in Sub : m \in Delivered(s)}

\* A message accepted by Publish is in exactly one place (the channel, a
\* goroutine's hands, the backlog, the pending table) until the queue lets go
\* of it, and never comes back after that; no place holds it twice.  An ID has
\* one entry in the pending table, and the copies of an ID do not all get lost
\* by overwriting each other's entry.
Custody ==
    /\ \A m \in Message :
          /\ Cardinality(Where(m)) =
                IF pub[m] = "accepted" /\ fate[m] = "none" THEN 1 ELSE 0
          /\ pub[m] # "accepted" => fate[m] = "none" /\ Recipients(m) = {}
          /\ Cardinality(Copies(m) \cap Pending) <= 1
          /\ fate[m] = "superseded" =>
                \E k \in Copies(m) : pub[k] = "accepted" /\ fate[k] # "superseded"
    /\ IsInjective(messages) /\ IsInjective(undelivered)
    /\ \A w \in Worker : IsInjective(todo[w])

\* Work queue, not fan-out: a message is given to a second subscription only
\* after a sweep found its first consumer late.
WorkQueue ==
    \A m \in Message : m \notin swept => Cardinality(Recipients(m)) <= 1

\* The round-robin index addresses a subscriber whenever there is one, also
\* while both goroutines update it and subscribers come and go.
IndexInRange ==
    /\ subscribers # <<>> => index < Len(subscribers)
    /\ \A w \in Worker : pc[w] = "advance" => slot[w] < Len(subscribers)

\* The tables respect their limits although the room is tested in one critical
\* section and the message was sent in an earlier one.
Bounded ==
    /\ Len(messages) <= BufferSize
    /\ Len(undelivered) <= MaxUndelivered
    /\ Cardinality(Pending) <= MaxPending
    /\ \A s \in Sub : Len(chan[s]) <= BufferSize

\* Once Close has returned nothing is in flight and every channel is closed; a
\* message that was accepted and never sent to anybody is still in the backlog
\* or was dropped because the backlog was full.
CloseIsQuiescent ==
    shutdown = "closed" =>
        /\ \A m \in Message :
              /\ Where(m) \subseteq {"backlog"}
              /\ pub[m] = "accepted" /\ Recipients(m) = {}
                    => Where(m) = {"backlog"} \/ fate[m] = "overflow"
        /\ \A s \in Sub : chanState[s] # "open"

\* A lease ends when its own consumer acknowledges a message of that ID, when it
\* times out, when the queue closes, or when another copy is leased; the lease
\* of one copy never passes straight to another consumer.
LeaseEndsProperly ==
    [][\A m \in Pending : pendingMessages'[m] # pendingMessages[m] =>
          /\ pendingMessages'[m] = None
          /\ \/ elapsed[m] # "within"
             \/ shutdown' = "closed"
             \/ \E k \in Copies(m) \ Pending : pendingMessages'[k] # None
             \/ \E k \in Copies(m) \cap acked', s \in Sub :
                    k \in got[s] /\ ConsumerOf[s] = pendingMessages[m]
      ]_vars

\* The queue does not deliver a message again once Ack has returned nil for it.
AckedStaysAcked == \A m \in acked : pendingMessages[m] = None

\* Publish on a queue that is being closed returns an error.
PublishNeverPanics == \A m \in Message : pub[m] # "panicked"

\* Close returns: both goroutines notice it and drain what they hold.
CloseReturns == shutdown = "closing" ~> shutdown = "closed"

\* No lease lasts: it is acknowledged, expires, or its message is taken back.
LeasesEnd == \A m \in Message : pendingMessages[m] # None ~> pendingMessages[m] = None

\* The distributor takes every accepted message off the channel and finds it a
\* recipient, parks it or lets it go.
BufferDrains ==
    \A m \in Message : pub[m] = "accepted" ~> \/ Recipients(m) # {}
                                              \/ Where(m) = {"backlog"}
                                              \/ fate[m] = "overflow"

-----------------------------------------------------------------------------
(* The queue implements LeaseQueue.                                        *)

\* A worker that has sent m and not yet recorded the lease.
BeingRecorded(m) ==
    \E w \in Worker : pc[w] = "record" /\ Head(todo[w]) = m

StatusOf(m) ==
    CASE pub[m] # "accepted"           -> "new"
      [] fate[m] = "acked"             -> "settled"
      [] fate[m] \notin {"none", "acked"} -> "lost"
      [] m \in Pending                 -> "leased"
      [] BeingRecorded(m)              -> "handed"
      [] OTHER                         -> "ready"

LQ == INSTANCE LeaseQueue WITH
    status <- [m \in Message |-> StatusOf(m)],
    recipients <- [m \in Message |-> Recipients(m)],
    holder <- pendingMessages

\* Every step of the queue is a step of LeaseQueue or changes nothing there.
ImplementsLeaseQueue == LQ!Spec
=============================================================================
