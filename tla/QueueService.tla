---------------------------- MODULE QueueService ----------------------------
(***************************************************************************)
(* The queue service's process and the clients at the other end of its     *)
(* event streams: main of cmd/queue-service/main.go with Start and Stop of *)
(* pkg/mq/server.go, the handlers of server.go, and Subscribe with         *)
(* connectAndStream of pkg/mq/httpclient.go.  The queue itself is          *)
(* InMemoryQueue's; here it hands messages to subscriptions (Hand) and is  *)
(* closed by main.                                                         *)
(*                                                                         *)
(* net/http: a handler's request context is done when its client has gone  *)
(* away or when the read deadline ReadTimeout sets has passed, never       *)
(* because of Shutdown, which waits for the handlers.                      *)
(***************************************************************************)
EXTENDS Naturals, SequencesExt

CONSTANTS
    Client,       \* calls of HTTPMessageQueue.Subscribe, one per collector
    Request,      \* short requests: publish, acknowledge, health, statistics
    Message,      \* messages the queue hands out, each once
    SubRoom,      \* capacity of a subscription's channel
    ClientRoom,   \* capacity of msgChan (10 in the code)
    MaxFaults     \* model bound: crashes, failures of Serve, broken streams

ASSUME ServiceAssumption ==
    /\ SubRoom \in Nat \ {0}
    /\ ClientRoom \in Nat \ {0}
    /\ MaxFaults \in Nat

VARIABLES
    main,      \* where main is
    server,    \* the http.Server
    request,   \* the short requests
    subChan,   \* messages the queue has put into the subscription of a stream
    reqDone,   \* streams whose request context is done
    orphans,   \* handlers whose client has gone away unnoticed
    conn,      \* the stream's connection; a handler serves it while it is open
    wire,      \* events written and not yet read
    client,    \* where Subscribe's goroutine is
    hand,      \* the message it has decoded
    msgChan,   \* what it has handed to the collector
    ctxDone,   \* calls of Subscribe whose context is done
    closed,    \* clients that have been closed
    left,      \* messages the queue has not handed out yet
    faults,    \* faults so far
    written,   \* history: messages written to the current stream
    seen       \* history: messages of the current stream put into msgChan

processVars == <<main, server, request>>
handlerVars == <<subChan, reqDone, orphans, left>>
streamVars == <<conn, wire, written, seen>>
clientVars == <<client, hand, msgChan>>
callerVars == <<ctxDone, closed>>
vars == <<processVars, handlerVars, streamVars, clientVars, callerVars, faults>>

TypeOK ==
    /\ main \in {"waiting", "draining", "closing", "down"}
    /\ server \in {"new", "listening", "failed", "shut"}
    /\ request \in [Request -> {"idle", "handled", "done", "cut"}]
    /\ conn \in [Client -> {"none", "open", "eof", "broken"}]
    /\ client \in [Client -> {"try", "read", "hand", "pause", "ended"}]
    /\ \A c \in Client :
          /\ subChan[c] \in Seq(Message) /\ Len(subChan[c]) <= SubRoom
          /\ msgChan[c] \in Seq(Message) /\ Len(msgChan[c]) <= ClientRoom
          /\ hand[c] \in Seq(Message)
          /\ Len(hand[c]) = IF client[c] = "hand" THEN 1 ELSE 0
          /\ {wire[c], written[c], seen[c]} \subseteq Seq(Message)
          /\ conn[c] # "open" => subChan[c] = <<>>
    /\ reqDone \cup ctxDone \cup closed \subseteq Client
    /\ orphans \in Nat
    /\ left \subseteq Message
    /\ faults \in 0..MaxFaults

Empty == [c \in Client |-> <<>>]

Init ==
    /\ main = "waiting"
    /\ server = "new"
    /\ request = [r \in Request |-> "idle"]
    /\ subChan = Empty /\ wire = Empty /\ hand = Empty /\ msgChan = Empty
    /\ written = Empty /\ seen = Empty
    /\ reqDone = {} /\ ctxDone = {} /\ closed = {}
    /\ orphans = 0
    /\ conn = [c \in Client |-> "none"]
    /\ client = [c \in Client |-> "try"]
    /\ left = Message
    /\ faults = 0

Fault == faults < MaxFaults /\ faults' = faults + 1

\* The handler of c's stream loses its client without noticing it yet.
OrphanedKept(c, state) ==
    /\ conn' = [conn EXCEPT ![c] = IF @ = "open" THEN state ELSE @]
    /\ orphans' = IF conn[c] = "open" THEN orphans + 1 ELSE orphans
    /\ UNCHANGED <<subChan, reqDone>>
Orphaned(c, state) ==
    /\ conn' = [conn EXCEPT ![c] = IF @ = "open" THEN state ELSE @]
    /\ orphans' = IF conn[c] = "open" THEN orphans + 1 ELSE orphans
    /\ subChan' = [subChan EXCEPT ![c] = <<>>]
    /\ reqDone' = reqDone \ {c}

-----------------------------------------------------------------------------
(* The process.                                                            *)

Running == main # "down"
Accepting == Running /\ server = "listening"
Busy == \/ \E r \in Request : request[r] = "handled"
        \/ \E c \in Client : conn[c] = "open"
        \/ orphans > 0

\* Whatever the handlers are doing is cut off.
Exit ==
    /\ main' = "down"
    /\ server' = "shut"
    /\ request' = [r \in Request |-> IF request[r] = "handled" THEN "cut" ELSE request[r]]
    /\ conn' = [c \in Client |-> IF conn[c] = "open" THEN "broken" ELSE conn[c]]
    /\ subChan' = Empty /\ reqDone' = {} /\ orphans' = 0
    /\ UNCHANGED <<left, wire, written, seen, clientVars, callerVars>>

Listen ==
    /\ Running /\ server = "new"
    /\ server' = "listening"
    /\ UNCHANGED <<main, request, handlerVars, streamVars, clientVars, callerVars, faults>>

\* Start reports that it cannot listen, and main exits.
StartFails == Fault /\ main = "waiting" /\ server = "new" /\ Exit

\* Serve fails after Start has returned: nobody reads errCh any more, and main
\* goes on waiting.
ServeFails ==
    /\ Fault
    /\ Running /\ server = "listening"
    /\ server' = "failed"
    /\ UNCHANGED <<main, request, handlerVars, streamVars, clientVars, callerVars>>

\* Stop starts the Shutdown of the server, or returns at once when Start has
\* not yet made it; then main's deferred Close runs while Start goes on.
Signal ==
    /\ main = "waiting"
    /\ \/ main' = "draining" /\ server' = "shut"
       \/ server = "new" /\ main' = "closing" /\ UNCHANGED server
    /\ UNCHANGED <<request, handlerVars, streamVars, clientVars, callerVars, faults>>

ShutdownReturns ==
    /\ main = "draining"
    /\ ~Busy
    /\ main' = "closing"
    /\ UNCHANGED <<server, request, handlerVars, streamVars, clientVars, callerVars, faults>>

\* Stop gives up after five seconds: os.Exit does not run the deferred Close.
DeadlineNone == FALSE
Deadline == main = "draining"
AfterDeadlineClose ==
    /\ main' = "closing"
    /\ UNCHANGED <<server, request, handlerVars, streamVars, clientVars, callerVars>>
AfterDeadline == Exit

ShutdownTimesOut == Deadline /\ AfterDeadline /\ UNCHANGED faults

\* Close of the queue has returned and with it main.
QueueCloses == main = "closing" /\ Exit /\ UNCHANGED faults

Killed == Fault /\ Running /\ Exit

\* The deployment starts it again, with an empty queue.
Restart ==
    /\ main = "down"
    /\ main' = "waiting"
    /\ server' = "new"
    /\ UNCHANGED <<request, handlerVars, streamVars, clientVars, callerVars, faults>>

-----------------------------------------------------------------------------
(* Handlers.                                                               *)

Arrive(r) ==
    /\ Accepting
    /\ request[r] = "idle"
    /\ request' = [request EXCEPT ![r] = "handled"]
    /\ UNCHANGED <<main, server, handlerVars, streamVars, clientVars, callerVars, faults>>

Serve(r) ==
    /\ request[r] = "handled"
    /\ request' = [request EXCEPT ![r] = "done"]
    /\ UNCHANGED <<main, server, handlerVars, streamVars, clientVars, callerVars, faults>>

\* The queue delivers to the stream's subscription.
Hand(m, c) ==
    /\ m \in left
    /\ conn[c] = "open"
    /\ Len(subChan[c]) < SubRoom
    /\ subChan' = [subChan EXCEPT ![c] = Append(@, m)]
    /\ left' = left \ {m}
    /\ UNCHANGED <<processVars, reqDone, orphans, streamVars, clientVars, callerVars, faults>>

\* The handler's select takes a message, also when the context is done as well.
WriteEvent(c) ==
    /\ subChan[c] # <<>>
    /\ subChan' = [subChan EXCEPT ![c] = Tail(@)]
    /\ wire' = [wire EXCEPT ![c] = Append(@, Head(subChan[c]))]
    /\ written' = [written EXCEPT ![c] = Append(@, Head(subChan[c]))]
    /\ UNCHANGED <<processVars, reqDone, orphans, left, conn, seen, clientVars, callerVars, faults>>

ReadTimeout(c) ==
    /\ conn[c] = "open"
    /\ reqDone' = reqDone \cup {c}
    /\ UNCHANGED <<processVars, subChan, orphans, left, streamVars, clientVars, callerVars, faults>>

\* The handler returns, after ctx.Done or after the cleanup has closed its
\* channel; what is left in the channel stays behind.
HandlerReturns(c) ==
    /\ c \in reqDone
    /\ conn' = [conn EXCEPT ![c] = "eof"]
    /\ subChan' = [subChan EXCEPT ![c] = <<>>]
    /\ reqDone' = reqDone \ {c}
    /\ UNCHANGED <<processVars, orphans, left, wire, written, seen, clientVars, callerVars, faults>>

OrphanReturns ==
    /\ orphans > 0
    /\ orphans' = orphans - 1
    /\ UNCHANGED <<processVars, subChan, reqDone, left, streamVars, clientVars, callerVars, faults>>

StreamBreaks(c) ==
    /\ Fault
    /\ conn[c] = "open"
    /\ Orphaned(c, "broken")
    /\ UNCHANGED <<processVars, left, wire, written, seen, clientVars, callerVars>>

-----------------------------------------------------------------------------
(* Subscribe's goroutine and its caller.                                   *)

\* The loop ends at its top, in its pause or inside connectAndStream once the
\* context is done, at its top or after an error once the client is closed.
Ends(c) ==
    /\ client' = [client EXCEPT ![c] = "ended"]
    /\ hand' = [hand EXCEPT ![c] = <<>>]
    /\ wire' = [wire EXCEPT ![c] = <<>>]
    /\ UNCHANGED <<processVars, left, written, seen, msgChan, callerVars, faults>>

WatchesContextButWhenFull(c) == client[c] # "hand"
WatchesContext(c) == client[c] # "ended"

ContextSeen(c) ==
    /\ c \in ctxDone
    /\ WatchesContext(c)
    /\ Orphaned(c, "none")
    /\ Ends(c)

ClosedSeen(c) ==
    /\ c \in closed
    /\ client[c] = "try"
    /\ Ends(c)
    /\ UNCHANGED <<conn, subChan, reqDone, orphans>>

Connect(c) ==
    /\ client[c] = "try" /\ c \notin ctxDone \cup closed
    /\ Accepting
    /\ client' = [client EXCEPT ![c] = "read"]
    /\ conn' = [conn EXCEPT ![c] = "open"]
    /\ written' = [written EXCEPT ![c] = <<>>]
    /\ seen' = [seen EXCEPT ![c] = <<>>]
    /\ UNCHANGED <<processVars, handlerVars, wire, hand, msgChan, callerVars, faults>>

ConnectFails(c) ==
    /\ client[c] = "try" /\ c \notin ctxDone \cup closed
    /\ ~Accepting
    /\ client' = [client EXCEPT ![c] = "pause"]
    /\ UNCHANGED <<processVars, handlerVars, streamVars, hand, msgChan, callerVars, faults>>

ReadEvent(c) ==
    /\ client[c] = "read" /\ c \notin ctxDone
    /\ wire[c] # <<>>
    /\ hand' = [hand EXCEPT ![c] = <<Head(wire[c])>>]
    /\ wire' = [wire EXCEPT ![c] = Tail(@)]
    /\ client' = [client EXCEPT ![c] = "hand"]
    /\ UNCHANGED <<processVars, handlerVars, conn, written, seen, msgChan, callerVars, faults>>

\* A broken connection may lose what was on it, an orderly end does not.
SeesEndEarly(c) == conn[c] \in {"eof", "broken"}
SeesEnd(c) == conn[c] = "broken" \/ (conn[c] = "eof" /\ wire[c] = <<>>)

AfterEnd(c) == IF c \in closed THEN "ended" ELSE "pause"

StreamEnds(c) ==
    /\ client[c] = "read"
    /\ SeesEnd(c)
    /\ client' = [client EXCEPT ![c] = AfterEnd(c)]
    /\ wire' = [wire EXCEPT ![c] = <<>>]
    /\ UNCHANGED <<processVars, handlerVars, conn, written, seen, hand, msgChan, callerVars, faults>>

PauseOver(c) ==
    /\ client[c] = "pause"
    /\ client' = [client EXCEPT ![c] = "try"]
    /\ UNCHANGED <<processVars, handlerVars, streamVars, hand, msgChan, callerVars, faults>>

HandOver(c) ==
    /\ client[c] = "hand"
    /\ Len(msgChan[c]) < ClientRoom
    /\ msgChan' = [msgChan EXCEPT ![c] = @ \o hand[c]]
    /\ seen' = [seen EXCEPT ![c] = @ \o hand[c]]
    /\ hand' = [hand EXCEPT ![c] = <<>>]
    /\ client' = [client EXCEPT ![c] = "read"]
    /\ UNCHANGED <<processVars, handlerVars, conn, wire, written, callerVars, faults>>

Receive(c) ==
    /\ msgChan[c] # <<>>
    /\ msgChan' = [msgChan EXCEPT ![c] = Tail(@)]
    /\ UNCHANGED <<processVars, handlerVars, streamVars, client, hand, callerVars, faults>>

Cancel(c) ==
    /\ ctxDone' = ctxDone \cup {c}
    /\ UNCHANGED <<processVars, handlerVars, streamVars, clientVars, closed, faults>>

\* Close of the client sets its flag, and does not wake a read.
CloseClient(c) ==
    /\ closed' = closed \cup {c}
    /\ UNCHANGED <<processVars, handlerVars, streamVars, clientVars, ctxDone, faults>>

-----------------------------------------------------------------------------

Main ==
    \/ Listen \/ StartFails \/ ServeFails \/ Signal \/ ShutdownReturns
    \/ ShutdownTimesOut \/ QueueCloses \/ Killed \/ Restart

Handler(c) == WriteEvent(c) \/ HandlerReturns(c)

Subscriber(c) ==
    \/ ContextSeen(c) \/ ClosedSeen(c) \/ Connect(c) \/ ConnectFails(c)
    \/ ReadEvent(c) \/ StreamEnds(c) \/ PauseOver(c) \/ HandOver(c)

Caller(c) == Receive(c) \/ Cancel(c) \/ CloseClient(c)

Next ==
    \/ Main
    \/ \E r \in Request : Arrive(r) \/ Serve(r)
    \/ \E c \in Client :
          \/ Handler(c) \/ Subscriber(c) \/ Caller(c)
          \/ ReadTimeout(c) \/ StreamBreaks(c)
          \/ \E m \in Message : Hand(m, c)
    \/ OrphanReturns

Spec == Init /\ [][Next]_vars

\* Goroutines run, timers end and the deployment restarts the process.  A
\* handler's select chooses at random, so it does not overlook a context that
\* is done.  A caller receives until it cancels its context, as the collector
\* does.  Nothing is assumed of the requests, the queue, the network and the
\* signal, nor that a context is ever done.
Fairness ==
    /\ WF_vars(Listen) /\ WF_vars(Restart)
    /\ WF_vars(ShutdownReturns \/ ShutdownTimesOut)
    /\ WF_vars(QueueCloses)
    /\ \A c \in Client : /\ WF_vars(Subscriber(c))
                         /\ WF_vars(WriteEvent(c))
                         /\ WF_vars(HandlerReturns(c))
                         /\ WF_vars(c \notin ctxDone /\ Receive(c))

FairSpec == Spec /\ Fairness

-----------------------------------------------------------------------------
(* Properties.                                                             *)

\* Once Shutdown has returned no handler is left that could call the queue
\* while main closes it, so Publish does not meet Close.  (It can when the
\* signal comes before Start has made the server: then server is not shut.)
QuietClose == main = "closing" /\ server = "shut" => ~Busy

\* What the client hands on is what the server wrote to the stream, in that
\* order, each message once; a suffix is missing only when the connection broke
\* or the caller has gone, not when the handler returned.
StreamFaithful ==
    \A c \in Client :
        LET read == seen[c] \o hand[c] \o wire[c] IN
            /\ IsPrefix(read, written[c])
            /\ conn[c] \in {"open", "eof"} /\ client[c] # "ended" => read = written[c]

\* The process ends after a signal although its clients stay connected.
SignalEndsProcess == main = "draining" ~> main = "down"

\* A subscriber comes back to a server that stays up, however often its stream
\* ends, until its context is done or its client closed; and it ends when its
\* context is done, also with msgChan full.
Up == main = "waiting" /\ server = "listening"
SubscriptionLives ==
    \A c \in Client :
        /\ <>[](Up /\ c \notin ctxDone \cup closed) => []<>(conn[c] = "open")
        /\ c \in ctxDone ~> client[c] = "ended"
=============================================================================
