------------------------ MODULE QueueService_proofs ------------------------
(***************************************************************************)
(* Machine-checked facts about QueueService, for any clients, requests,    *)
(* messages, channel capacities and number of faults.                      *)
(***************************************************************************)
EXTENDS QueueService, SequenceTheorems, TLAPS

-----------------------------------------------------------------------------
(* The inductive invariant.                                                *)

\* The types, variable group by variable group.
ProcessType ==
    /\ main \in {"waiting", "draining", "closing", "down"}
    /\ server \in {"new", "listening", "failed", "shut"}
    /\ request \in [Request -> {"idle", "handled", "done", "cut"}]
    /\ faults \in 0 .. MaxFaults

HandlerType ==
    /\ conn \in [Client -> {"none", "open", "eof", "broken"}]
    /\ subChan \in [Client -> Seq(Message)]
    /\ \A c \in Client : Len(subChan[c]) <= SubRoom
    /\ \A c \in Client : conn[c] # "open" => subChan[c] = <<>>
    /\ reqDone \subseteq Client
    /\ orphans \in Nat
    /\ left \subseteq Message

StreamType == {wire, written, seen} \subseteq [Client -> Seq(Message)]

ClientType ==
    /\ client \in [Client -> {"try", "read", "hand", "pause", "ended"}]
    /\ {hand, msgChan} \subseteq [Client -> Seq(Message)]
    /\ \A c \in Client : Len(msgChan[c]) <= ClientRoom
    /\ \A c \in Client : Len(hand[c]) = IF client[c] = "hand" THEN 1 ELSE 0

CallerType == ctxDone \subseteq Client /\ closed \subseteq Client

TypeInv == ProcessType /\ HandlerType /\ StreamType /\ ClientType /\ CallerType

\* A handler's context is done only while the handler serves its stream, and a
\* client that is not reading has neither a stream nor events of an old one: so
\* what it reads after it has come back is the new stream from its beginning.
BetweenStreams ==
    /\ \A c \in reqDone : conn[c] = "open"
    /\ \A c \in Client : client[c] \in {"try", "pause", "ended"} =>
                            conn[c] # "open" /\ wire[c] = <<>>

Inv == TypeInv /\ BetweenStreams /\ QuietClose /\ StreamFaithful

LEMMA InitInv == Init => Inv
<1> SUFFICES ASSUME Init PROVE Inv
  OBVIOUS
<1> USE DEF Init, Empty
<1>1. Empty \in [Client -> Seq(Message)]
  OBVIOUS
<1>2. TypeInv
  BY <1>1, ServiceAssumption
  DEF TypeInv, ProcessType, HandlerType, StreamType, ClientType, CallerType
<1>3. BetweenStreams /\ QuietClose
  BY DEF BetweenStreams, QuietClose
<1>4. StreamFaithful
  BY DEF StreamFaithful, IsPrefix
<1> QED
  BY <1>2, <1>3, <1>4 DEF Inv

-----------------------------------------------------------------------------
(* Facts about sequences.                                                  *)

\* A stream that has lost nothing is a prefix of itself.
LEMMA PrefixSelf ==
    ASSUME NEW S, NEW s \in Seq(S)
    PROVE  IsPrefix(s, s)
BY DEF IsPrefix

\* Losing the end of what was read leaves a prefix.
LEMMA PrefixDrop ==
    ASSUME NEW S, NEW a \in Seq(S), NEW b \in Seq(S), NEW t \in Seq(S),
           IsPrefix(a \o b, t)
    PROVE  IsPrefix(a, t)
<1> DEFINE n == Len(a)
<1>1. n \in Nat /\ Len(a \o b) \in Nat /\ Len(t) \in Nat /\ n <= Len(a \o b) /\ a \o b \in Seq(S)
  OBVIOUS
<1>2. Len(a \o b) <= Len(t) /\ SubSeq(a \o b, 1, Len(a \o b)) = SubSeq(t, 1, Len(a \o b))
  BY DEF IsPrefix
<1>3. \A i \in 1 .. n : a[i] = t[i]
  <2> TAKE i \in 1 .. n
  <2>1. i \in 1 .. Len(a \o b)
    BY <1>1
  <2>2. SubSeq(a \o b, 1, Len(a \o b))[i] = (a \o b)[i] /\ SubSeq(t, 1, Len(a \o b))[i] = t[i]
    BY <1>1, <1>2, <2>1
  <2>3. (a \o b)[i] = a[i]
    OBVIOUS
  <2> QED
    BY <1>2, <2>2, <2>3
<1>4. SubSeq(a, 1, n) = SubSeq(t, 1, n)
  BY <1>1, <1>2, <1>3
<1> QED
  BY <1>1, <1>2, <1>4 DEF IsPrefix

\* Nothing is added or lost by handing on.
LEMMA ConcatLength ==
    ASSUME NEW S, NEW a \in Seq(S), NEW b \in Seq(S)
    PROVE  Len(a \o b) = Len(a) + Len(b)
OBVIOUS

\* An event taken off the wire and held in the hand is still the next one.
LEMMA HeadInHand ==
    ASSUME NEW S, NEW a \in Seq(S), NEW w \in Seq(S), w # <<>>
    PROVE  a \o <<Head(w)>> \o Tail(w) = a \o <<>> \o w
<1>1. <<Head(w)>> \in Seq(S) /\ Tail(w) \in Seq(S)
  OBVIOUS
<1>2. <<Head(w)>> \o Tail(w) = w
  OBVIOUS
<1>3. (a \o <<Head(w)>>) \o Tail(w) = a \o (<<Head(w)>> \o Tail(w))
  BY <1>1, ConcatAssociative
<1>4. a \o <<>> = a
  BY ConcatEmptySeq
<1> QED
  BY <1>2, <1>3, <1>4

\* A message written to the wire and to the history keeps them equal.
LEMMA WrittenAtEnd ==
    ASSUME NEW a \in Seq(Message), NEW b \in Seq(Message), NEW w \in Seq(Message),
           NEW e \in Message
    PROVE  a \o b \o Append(w, e) = Append(a \o b \o w, e)
<1>1. a \o b \in Seq(Message) /\ <<e>> \in Seq(Message)
  OBVIOUS
<1>2. (a \o b) \o (w \o <<e>>) = ((a \o b) \o w) \o <<e>>
  BY <1>1, ConcatAssociative
<1>3. Append(w, e) = w \o <<e>>
  BY AppendIsConcat
<1>4. (a \o b) \o w \in Seq(Message)
  BY <1>1, ConcatProperties
<1>5. Append((a \o b) \o w, e) = ((a \o b) \o w) \o <<e>>
  BY <1>4, AppendIsConcat
<1> QED
  BY <1>2, <1>3, <1>5

-----------------------------------------------------------------------------
(* Types.                                                                  *)

LEMMA TypesAreTypes == TypeInv => TypeOK
BY DEF TypeInv, ProcessType, HandlerType, StreamType, ClientType, CallerType, TypeOK

\* A group of variables that a step leaves alone keeps its types.
LEMMA TypesKept ==
    /\ ProcessType /\ UNCHANGED <<processVars, faults>> => ProcessType'
    /\ HandlerType /\ UNCHANGED <<handlerVars, conn>> => HandlerType'
    /\ StreamType /\ UNCHANGED <<wire, written, seen>> => StreamType'
    /\ ClientType /\ UNCHANGED clientVars => ClientType'
    /\ CallerType /\ UNCHANGED callerVars => CallerType'
BY DEF ProcessType, HandlerType, StreamType, ClientType, CallerType,
       processVars, handlerVars, clientVars, callerVars

LEMMA TypeStep ==
    ASSUME TypeInv, [Next]_vars
    PROVE  TypeInv'
<1> USE ServiceAssumption, TypesKept
<1> USE DEF TypeInv
<1>v. UNCHANGED vars => TypeInv'
  BY DEF vars, processVars, handlerVars, streamVars, clientVars, callerVars
<1>1. ASSUME Main PROVE TypeInv'
  <2>1. ASSUME Exit, faults' \in 0 .. MaxFaults PROVE TypeInv'
    <3>1. Empty \in [Client -> Seq(Message)] /\ \A c \in Client : Empty[c] = <<>>
      BY DEF Empty
    <3>2. HandlerType'
      BY <2>1, <3>1 DEF Exit, HandlerType
    <3>3. ProcessType'
      BY <2>1 DEF Exit, ProcessType
    <3>4. StreamType' /\ ClientType' /\ CallerType'
      BY <2>1 DEF Exit
    <3> QED
      BY <3>2, <3>3, <3>4
  <2>2. CASE Listen \/ Signal \/ ShutdownReturns \/ Restart \/ ServeFails
    <3>1. ProcessType'
      BY <2>2 DEF ProcessType, Listen, Signal, ShutdownReturns, Restart, ServeFails, Fault
    <3>2. UNCHANGED <<handlerVars, streamVars, clientVars, callerVars>>
      BY <2>2 DEF Listen, Signal, ShutdownReturns, Restart, ServeFails
    <3> QED
      BY <3>1, <3>2 DEF streamVars
  <2>3. CASE StartFails \/ ShutdownTimesOut \/ QueueCloses \/ Killed
    BY <2>1, <2>3
    DEF StartFails, ShutdownTimesOut, AfterDeadline, QueueCloses, Killed, Fault, ProcessType
  <2> QED
    BY <1>1, <2>2, <2>3 DEF Main
<1>2. ASSUME NEW r \in Request, Arrive(r) \/ Serve(r) PROVE TypeInv'
  <2>1. ProcessType'
    BY <1>2 DEF Arrive, Serve, ProcessType
  <2> QED
    BY <1>2, <2>1 DEF Arrive, Serve, streamVars
<1>3. ASSUME NEW c \in Client, Handler(c) PROVE TypeInv'
  <2>1. CASE WriteEvent(c)
    <3> DEFINE h == Head(subChan[c])
               t == Tail(subChan[c])
    <3>1. /\ subChan[c] \in Seq(Message) /\ subChan[c] # <<>> /\ conn[c] = "open"
          /\ Len(subChan[c]) <= SubRoom
      BY <2>1 DEF WriteEvent, HandlerType
    <3>2. h \in Message /\ t \in Seq(Message) /\ Len(t) <= SubRoom
      BY <3>1
    <3>3. /\ subChan' = [subChan EXCEPT ![c] = t]
          /\ wire' = [wire EXCEPT ![c] = Append(@, h)]
          /\ written' = [written EXCEPT ![c] = Append(@, h)]
          /\ UNCHANGED <<processVars, reqDone, orphans, left, conn, seen, clientVars,
                         callerVars, faults>>
      BY <2>1 DEF WriteEvent
    <3> HIDE DEF h, t
    <3>4. HandlerType'
      BY <3>1, <3>2, <3>3 DEF HandlerType
    <3>5. Append(wire[c], h) \in Seq(Message) /\ Append(written[c], h) \in Seq(Message)
      BY <3>2, AppendProperties DEF StreamType
    <3>6. StreamType'
      BY <3>3, <3>5 DEF StreamType
    <3> QED
      BY <3>3, <3>4, <3>6
  <2>2. CASE HandlerReturns(c)
    <3>1. HandlerType'
      BY <2>2 DEF HandlerReturns, HandlerType
    <3> QED
      BY <2>2, <3>1 DEF HandlerReturns
  <2> QED
    BY <1>3, <2>1, <2>2 DEF Handler
<1>4. ASSUME NEW c \in Client, NEW state \in {"none", "broken"}, Orphaned(c, state),
             UNCHANGED left
      PROVE  HandlerType'
  BY <1>4 DEF Orphaned, HandlerType
<1>5. ASSUME NEW c \in Client, Ends(c)
      PROVE  ProcessType' /\ StreamType' /\ ClientType' /\ CallerType'
  <2>1. StreamType'
    BY <1>5 DEF Ends, StreamType
  <2>2. ClientType'
    <3>1. client' \in [Client -> {"try", "read", "hand", "pause", "ended"}]
      BY <1>5 DEF Ends, ClientType
    <3>2. {hand', msgChan'} \subseteq [Client -> Seq(Message)]
      BY <1>5 DEF Ends, ClientType
    <3>3. \A d \in Client : Len(msgChan'[d]) <= ClientRoom
      BY <1>5 DEF Ends, ClientType
    <3>4. \A d \in Client : Len(hand'[d]) = IF client'[d] = "hand" THEN 1 ELSE 0
      BY <1>5 DEF Ends, ClientType
    <3> QED
      BY <3>1, <3>2, <3>3, <3>4 DEF ClientType
  <2> QED
    BY <1>5, <2>1, <2>2 DEF Ends
<1>6. ASSUME NEW c \in Client, Subscriber(c) PROVE TypeInv'
  <2>1. CASE ContextSeen(c)
    BY <1>4, <1>5, <2>1 DEF ContextSeen, Ends
  <2>2. CASE ClosedSeen(c)
    BY <1>5, <2>2 DEF ClosedSeen, Ends, handlerVars
  <2>3. CASE Connect(c)
    <3>1. HandlerType'
      BY <2>3 DEF Connect, HandlerType, handlerVars
    <3>2. StreamType'
      BY <2>3 DEF Connect, StreamType
    <3>3. ClientType'
      BY <2>3 DEF Connect, ClientType
    <3> QED
      BY <2>3, <3>1, <3>2, <3>3 DEF Connect
  <2>4. CASE ConnectFails(c) \/ PauseOver(c)
    <3>1. ClientType'
      BY <2>4 DEF ConnectFails, PauseOver, ClientType
    <3> QED
      BY <2>4, <3>1 DEF ConnectFails, PauseOver, streamVars
  <2>5. CASE ReadEvent(c)
    <3> DEFINE h == Head(wire[c])
               t == Tail(wire[c])
    <3>1. wire[c] \in Seq(Message) /\ wire[c] # <<>>
      BY <2>5 DEF ReadEvent, StreamType
    <3>2. h \in Message /\ t \in Seq(Message)
      BY <3>1
    <3>3. /\ wire' = [wire EXCEPT ![c] = t]
          /\ hand' = [hand EXCEPT ![c] = <<h>>]
          /\ client' = [client EXCEPT ![c] = "hand"]
          /\ UNCHANGED <<processVars, handlerVars, conn, written, seen, msgChan, callerVars,
                         faults>>
      BY <2>5 DEF ReadEvent
    <3> HIDE DEF h, t
    <3>4. StreamType'
      BY <3>2, <3>3 DEF StreamType
    <3>5. <<h>> \in Seq(Message) /\ Len(<<h>>) = 1
      BY <3>2
    <3>6. ClientType'
      <4>1. /\ client' \in [Client -> {"try", "read", "hand", "pause", "ended"}]
            /\ {hand', msgChan'} \subseteq [Client -> Seq(Message)]
            /\ \A d \in Client : Len(msgChan'[d]) <= ClientRoom
        BY <3>3, <3>5 DEF ClientType
      <4>2. \A d \in Client : Len(hand'[d]) = IF client'[d] = "hand" THEN 1 ELSE 0
        BY <3>3, <3>5 DEF ClientType
      <4> QED
        BY <4>1, <4>2 DEF ClientType
    <3> QED
      BY <3>3, <3>4, <3>6
  <2>6. CASE StreamEnds(c)
    <3>1. StreamType'
      BY <2>6 DEF StreamEnds, StreamType
    <3>2. ClientType'
      BY <2>6 DEF StreamEnds, AfterEnd, ClientType
    <3> QED
      BY <2>6, <3>1, <3>2 DEF StreamEnds
  <2>7. CASE HandOver(c)
    <3>1. /\ msgChan[c] \in Seq(Message) /\ seen[c] \in Seq(Message)
          /\ hand[c] \in Seq(Message) /\ Len(hand[c]) = 1 /\ Len(msgChan[c]) < ClientRoom
      BY <2>7 DEF HandOver, ClientType, StreamType
    <3> DEFINE more == msgChan[c] \o hand[c]
               all == seen[c] \o hand[c]
    <3>2. /\ more \in Seq(Message) /\ all \in Seq(Message)
          /\ Len(more) <= ClientRoom
      <4>1. more \in Seq(Message) /\ all \in Seq(Message)
        BY <3>1
      <4>2. Len(more) = Len(msgChan[c]) + Len(hand[c])
        BY <3>1, ConcatLength
      <4> QED
        BY <3>1, <4>2 DEF ServiceAssumption
    <3>3. /\ msgChan' = [msgChan EXCEPT ![c] = more]
          /\ seen' = [seen EXCEPT ![c] = all]
          /\ hand' = [hand EXCEPT ![c] = <<>>]
          /\ client' = [client EXCEPT ![c] = "read"]
          /\ UNCHANGED <<processVars, handlerVars, conn, wire, written, callerVars, faults>>
      BY <2>7 DEF HandOver
    <3> HIDE DEF more, all
    <3>4. StreamType'
      BY <3>2, <3>3 DEF StreamType
    <3>5. ClientType'
      <4>1. client' \in [Client -> {"try", "read", "hand", "pause", "ended"}]
        BY <3>3 DEF ClientType
      <4>2. {hand', msgChan'} \subseteq [Client -> Seq(Message)]
        BY <3>2, <3>3 DEF ClientType
      <4>3. \A d \in Client : Len(msgChan'[d]) <= ClientRoom
        BY <3>2, <3>3 DEF ClientType
      <4>4. \A d \in Client : Len(hand'[d]) = IF client'[d] = "hand" THEN 1 ELSE 0
        BY <3>3 DEF ClientType
      <4> QED
        BY <4>1, <4>2, <4>3, <4>4 DEF ClientType
    <3> QED
      BY <3>3, <3>4, <3>5
  <2> QED
    BY <1>6, <2>1, <2>2, <2>3, <2>4, <2>5, <2>6, <2>7 DEF Subscriber
<1>7. ASSUME NEW c \in Client, Caller(c) PROVE TypeInv'
  <2>1. CASE Receive(c)
    <3> DEFINE t == Tail(msgChan[c])
    <3>1. msgChan[c] \in Seq(Message) /\ msgChan[c] # <<>> /\ Len(msgChan[c]) <= ClientRoom
      BY <2>1 DEF Receive, ClientType
    <3>2. t \in Seq(Message) /\ Len(t) <= ClientRoom
      BY <3>1
    <3>3. msgChan' = [msgChan EXCEPT ![c] = t] /\ UNCHANGED <<client, hand>>
      BY <2>1 DEF Receive
    <3> HIDE DEF t
    <3>4. ClientType'
      BY <3>2, <3>3 DEF ClientType
    <3> QED
      BY <2>1, <3>4 DEF Receive, streamVars
  <2>2. CASE Cancel(c) \/ CloseClient(c)
    <3>1. CallerType'
      BY <2>2 DEF Cancel, CloseClient, CallerType
    <3> QED
      BY <2>2, <3>1 DEF Cancel, CloseClient, streamVars
  <2> QED
    BY <1>7, <2>1, <2>2 DEF Caller
<1>8. ASSUME NEW c \in Client, ReadTimeout(c) PROVE TypeInv'
  <2>1. HandlerType'
    BY <1>8 DEF ReadTimeout, HandlerType, streamVars
  <2> QED
    BY <1>8, <2>1 DEF ReadTimeout, streamVars
<1>9. ASSUME NEW c \in Client, StreamBreaks(c) PROVE TypeInv'
  <2>1. ProcessType'
    BY <1>9 DEF StreamBreaks, Fault, ProcessType, processVars
  <2> QED
    BY <1>4, <1>9, <2>1 DEF StreamBreaks
<1>10. ASSUME NEW c \in Client, NEW m \in Message, Hand(m, c) PROVE TypeInv'
  <2> DEFINE s == Append(subChan[c], m)
  <2>1. /\ subChan[c] \in Seq(Message) /\ Len(subChan[c]) < SubRoom /\ conn[c] = "open"
    BY <1>10 DEF Hand, HandlerType
  <2>2. s \in Seq(Message) /\ Len(s) <= SubRoom
    BY <2>1
  <2>3. /\ subChan' = [subChan EXCEPT ![c] = s] /\ left' = left \ {m}
        /\ UNCHANGED <<conn, reqDone, orphans>>
    BY <1>10 DEF Hand, streamVars
  <2> HIDE DEF s
  <2>4. HandlerType'
    BY <2>1, <2>2, <2>3 DEF HandlerType
  <2> QED
    BY <1>10, <2>4 DEF Hand, streamVars
<1>11. CASE OrphanReturns
  <2>1. HandlerType'
    BY <1>11 DEF OrphanReturns, HandlerType, streamVars
  <2> QED
    BY <1>11, <2>1 DEF OrphanReturns, streamVars
<1> QED
  BY <1>v, <1>1, <1>2, <1>3, <1>6, <1>7, <1>8, <1>9, <1>10, <1>11 DEF Next

-----------------------------------------------------------------------------
(* Safety.                                                                 *)

LEMMA BetweenStep ==
    ASSUME TypeInv, BetweenStreams, [Next]_vars
    PROVE  BetweenStreams'
<1> USE DEF BetweenStreams
<1> DEFINE Away == {"try", "pause", "ended"}
<1>0. /\ conn \in [Client -> {"none", "open", "eof", "broken"}]
      /\ client \in [Client -> {"try", "read", "hand", "pause", "ended"}]
      /\ wire \in [Client -> Seq(Message)]
      /\ reqDone \subseteq Client
      /\ \A c \in Client : conn[c] # "open" => subChan[c] = <<>>
  BY DEF TypeInv, HandlerType, StreamType, ClientType
<1>1. ASSUME UNCHANGED <<conn, reqDone, client, wire>> PROVE BetweenStreams'
  BY <1>1
<1>2. ASSUME Exit PROVE BetweenStreams'
  BY <1>0, <1>2 DEF Exit, clientVars
<1>3. ASSUME Main PROVE BetweenStreams'
  BY <1>1, <1>2, <1>3
  DEF Main, Listen, StartFails, ServeFails, Signal, ShutdownReturns, ShutdownTimesOut,
      AfterDeadline, QueueCloses, Killed, Restart, handlerVars, streamVars, clientVars
<1>4. ASSUME NEW r \in Request, Arrive(r) \/ Serve(r) PROVE BetweenStreams'
  BY <1>1, <1>4 DEF Arrive, Serve, handlerVars, streamVars, clientVars
<1>5. ASSUME NEW c \in Client, WriteEvent(c) PROVE BetweenStreams'
  BY <1>0, <1>5 DEF WriteEvent, clientVars
<1>6. ASSUME NEW c \in Client, HandlerReturns(c) PROVE BetweenStreams'
  BY <1>0, <1>6 DEF HandlerReturns, clientVars
<1>7. ASSUME NEW c \in Client, ContextSeen(c) PROVE BetweenStreams'
  BY <1>0, <1>7 DEF ContextSeen, Orphaned, Ends
<1>8. ASSUME NEW c \in Client, ClosedSeen(c) PROVE BetweenStreams'
  BY <1>0, <1>8 DEF ClosedSeen, Ends
<1>9. ASSUME NEW c \in Client, Connect(c) PROVE BetweenStreams'
  BY <1>0, <1>9 DEF Connect, handlerVars
<1>10. ASSUME NEW c \in Client, ConnectFails(c) \/ PauseOver(c) PROVE BetweenStreams'
  BY <1>0, <1>10 DEF ConnectFails, PauseOver, handlerVars, streamVars
<1>11. ASSUME NEW c \in Client, ReadEvent(c) \/ HandOver(c) PROVE BetweenStreams'
  BY <1>0, <1>11 DEF ReadEvent, HandOver, handlerVars
<1>12. ASSUME NEW c \in Client, StreamEnds(c) PROVE BetweenStreams'
  BY <1>0, <1>12 DEF StreamEnds, SeesEnd, AfterEnd, handlerVars
<1>13. ASSUME NEW c \in Client, Caller(c) PROVE BetweenStreams'
  BY <1>1, <1>13 DEF Caller, Receive, Cancel, CloseClient, handlerVars, streamVars, clientVars
<1>14. ASSUME NEW c \in Client, ReadTimeout(c) PROVE BetweenStreams'
  BY <1>0, <1>14 DEF ReadTimeout, streamVars, clientVars
<1>15. ASSUME NEW c \in Client, StreamBreaks(c) PROVE BetweenStreams'
  BY <1>0, <1>15 DEF StreamBreaks, Orphaned, clientVars
<1>16. ASSUME NEW c \in Client, NEW m \in Message, Hand(m, c) PROVE BetweenStreams'
  BY <1>1, <1>16 DEF Hand, streamVars, clientVars
<1>17. CASE OrphanReturns \/ UNCHANGED vars
  BY <1>1, <1>17 DEF OrphanReturns, vars, handlerVars, streamVars, clientVars
<1> QED
  BY <1>3, <1>4, <1>5, <1>6, <1>7, <1>8, <1>9, <1>10, <1>11, <1>12, <1>13, <1>14, <1>15,
     <1>16, <1>17
  DEF Next, Handler, Subscriber

\* Nothing starts a handler once the server is shut, and Signal sets out for
\* the closing of the queue only over a drained server or before there is one.
LEMMA QuietStep ==
    ASSUME TypeInv, QuietClose, [Next]_vars
    PROVE  QuietClose'
<1> USE DEF QuietClose
<1>0. /\ conn \in [Client -> {"none", "open", "eof", "broken"}]
      /\ request \in [Request -> {"idle", "handled", "done", "cut"}]
      /\ orphans \in Nat
  BY DEF TypeInv, ProcessType, HandlerType
<1>1. ASSUME UNCHANGED <<main, server>>, ~Busy => ~Busy' PROVE QuietClose'
  BY <1>1
<1>2. ASSUME Main PROVE QuietClose'
  BY <1>2
  DEF Main, Exit, Listen, StartFails, ServeFails, Signal, ShutdownReturns, ShutdownTimesOut,
      AfterDeadline, QueueCloses, Killed, Restart, Running, Busy, handlerVars, streamVars
<1>3. ASSUME NEW r \in Request, Arrive(r) PROVE QuietClose'
  BY <1>3 DEF Arrive, Accepting
<1>4. ASSUME NEW r \in Request, Serve(r) PROVE QuietClose'
  BY <1>0, <1>1, <1>4 DEF Serve, Busy, handlerVars, streamVars
<1>5. ASSUME NEW c \in Client, Handler(c) PROVE QuietClose'
  BY <1>0, <1>1, <1>5 DEF Handler, WriteEvent, HandlerReturns, Busy, processVars
<1>6. ASSUME NEW c \in Client, Connect(c) PROVE QuietClose'
  BY <1>6 DEF Connect, Accepting, processVars
<1>7. ASSUME NEW c \in Client, ContextSeen(c) \/ ClosedSeen(c) PROVE QuietClose'
  BY <1>0, <1>1, <1>7 DEF ContextSeen, ClosedSeen, Orphaned, Ends, Busy, processVars
<1>8. ASSUME NEW c \in Client,
             ConnectFails(c) \/ ReadEvent(c) \/ StreamEnds(c) \/ PauseOver(c) \/ HandOver(c)
      PROVE  QuietClose'
  BY <1>1, <1>8
  DEF ConnectFails, ReadEvent, StreamEnds, PauseOver, HandOver, Busy, processVars,
      handlerVars, streamVars
<1>9. ASSUME NEW c \in Client, Caller(c) \/ ReadTimeout(c) PROVE QuietClose'
  BY <1>1, <1>9
  DEF Caller, Receive, Cancel, CloseClient, ReadTimeout, Busy, processVars, handlerVars,
      streamVars
<1>10. ASSUME NEW c \in Client, StreamBreaks(c) PROVE QuietClose'
  BY <1>0, <1>1, <1>10 DEF StreamBreaks, Orphaned, Busy, processVars
<1>11. ASSUME NEW c \in Client, NEW m \in Message, Hand(m, c) PROVE QuietClose'
  BY <1>1, <1>11 DEF Hand, Busy, processVars, streamVars
<1>12. CASE OrphanReturns \/ UNCHANGED vars
  BY <1>0, <1>1, <1>12 DEF OrphanReturns, vars, processVars, handlerVars, streamVars, Busy
<1> QED
  BY <1>2, <1>3, <1>4, <1>5, <1>6, <1>7, <1>8, <1>9, <1>10, <1>11, <1>12 DEF Next, Subscriber

-----------------------------------------------------------------------------
(* What the client reads.                                                  *)

\* The part of the current stream that the client has read or has before it.
Read(c) == seen[c] \o hand[c] \o wire[c]

\* StreamFaithful of one client.
FaithfulTo(c) ==
    /\ IsPrefix(Read(c), written[c])
    /\ conn[c] \in {"open", "eof"} /\ client[c] # "ended" => Read(c) = written[c]

AllFaithful == \A c \in Client : FaithfulTo(c)

LEMMA FaithfulToAll == StreamFaithful <=> AllFaithful
BY DEF StreamFaithful, AllFaithful, FaithfulTo, Read

\* A client keeps its stream as long as what it has read and what was written
\* stay the same and no connection that broke becomes whole.
LEMMA FaithfulKept ==
    ASSUME NEW c \in Client, FaithfulTo(c),
           Read(c)' = Read(c), UNCHANGED written[c],
           conn'[c] \in {"open", "eof"} /\ client'[c] # "ended"
               => conn[c] \in {"open", "eof"} /\ client[c] # "ended"
    PROVE  FaithfulTo(c)'
<1>1. FaithfulTo(c)' <=>
        /\ IsPrefix(Read(c)', written'[c])
        /\ conn'[c] \in {"open", "eof"} /\ client'[c] # "ended" => Read(c)' = written'[c]
  BY DEF FaithfulTo, IsPrefix
<1>2. written'[c] = written[c]
  OBVIOUS
<1> QED
  BY <1>1, <1>2 DEF FaithfulTo

\* The other clients, and steps that touch no stream.
LEMMA OthersKept ==
    ASSUME NEW d \in Client, FaithfulTo(d),
           UNCHANGED <<seen[d], hand[d], wire[d], written[d]>>,
           conn'[d] \in {"open", "eof"} /\ client'[d] # "ended"
               => conn[d] \in {"open", "eof"} /\ client[d] # "ended"
    PROVE  FaithfulTo(d)'
<1>1. Read(d)' = seen'[d] \o hand'[d] \o wire'[d]
  BY DEF Read
<1>2. Read(d)' = Read(d)
  BY <1>1 DEF Read
<1> QED
  BY <1>2, FaithfulKept

\* A client that loses what it has not read, of a stream that is broken or that
\* it has given up, keeps a prefix.
LEMMA FaithfulDropped ==
    ASSUME NEW c \in Client, TypeInv, FaithfulTo(c),
           UNCHANGED <<seen[c], written[c]>>,
           \/ UNCHANGED hand[c] /\ wire'[c] = <<>>
           \/ hand'[c] = <<>> /\ wire'[c] = <<>>,
           conn'[c] \in {"open", "eof"} => client'[c] = "ended"
    PROVE  FaithfulTo(c)'
<1>1. /\ seen[c] \in Seq(Message) /\ hand[c] \in Seq(Message) /\ wire[c] \in Seq(Message)
      /\ written[c] \in Seq(Message)
  BY DEF TypeInv, StreamType, ClientType
<1>2. IsPrefix((seen[c] \o hand[c]) \o wire[c], written[c])
  BY DEF FaithfulTo, Read
<1>3. seen[c] \o hand[c] \in Seq(Message)
  BY <1>1, ConcatProperties
<1>4. IsPrefix(seen[c] \o hand[c], written[c])
  BY <1>1, <1>2, <1>3, PrefixDrop
<1>5. IsPrefix(seen[c], written[c])
  BY <1>1, <1>4, PrefixDrop
<1>6. (seen[c] \o hand[c]) \o <<>> = seen[c] \o hand[c] /\ seen[c] \o <<>> = seen[c]
  BY <1>1, <1>3, ConcatEmptySeq
<1>7. Read(c)' = seen'[c] \o hand'[c] \o wire'[c]
  BY DEF Read
<1>8. Read(c)' \in {seen[c] \o hand[c], seen[c]}
  BY <1>6, <1>7
<1>9. IsPrefix(Read(c)', written'[c])
  BY <1>4, <1>5, <1>8
<1>10. FaithfulTo(c)' <=>
        /\ IsPrefix(Read(c)', written'[c])
        /\ conn'[c] \in {"open", "eof"} /\ client'[c] # "ended" => Read(c)' = written'[c]
  BY DEF FaithfulTo, IsPrefix
<1> QED
  BY <1>9, <1>10

\* A client whose stream has nothing missing.
LEMMA FaithfulWhole ==
    ASSUME NEW c \in Client, written'[c] \in Seq(Message), Read(c)' = written'[c]
    PROVE  FaithfulTo(c)'
<1>1. IsPrefix(written'[c], written'[c])
  BY PrefixSelf
<1>2. FaithfulTo(c)' <=>
        /\ IsPrefix(Read(c)', written'[c])
        /\ conn'[c] \in {"open", "eof"} /\ client'[c] # "ended" => Read(c)' = written'[c]
  BY DEF FaithfulTo, IsPrefix
<1> QED
  BY <1>1, <1>2

LEMMA FaithfulStep ==
    ASSUME TypeInv, TypeInv', BetweenStreams, StreamFaithful, [Next]_vars
    PROVE  StreamFaithful'
<1>0. \A d \in Client : FaithfulTo(d)
  BY FaithfulToAll DEF AllFaithful
<1>t. /\ \A d \in Client : /\ {seen[d], hand[d], wire[d], written[d]} \subseteq Seq(Message)
                           /\ written'[d] \in Seq(Message)
                           /\ conn[d] # "open" => subChan[d] = <<>>
                           /\ subChan[d] \in Seq(Message)
                           /\ client[d] # "hand" => hand[d] = <<>>
      /\ conn \in [Client -> {"none", "open", "eof", "broken"}]
      /\ client \in [Client -> {"try", "read", "hand", "pause", "ended"}]
      /\ {seen, hand, wire, written} \subseteq [Client -> Seq(Message)]
  BY DEF TypeInv, HandlerType, StreamType, ClientType
<1>s. SUFFICES ASSUME NEW d \in Client PROVE FaithfulTo(d)'
  <2>1. StreamFaithful' <=> AllFaithful'
    BY FaithfulToAll, PTL
  <2> QED
    BY <2>1 DEF AllFaithful
<1>d. FaithfulTo(d)
  BY <1>0
<1>q. /\ seen[d] \in Seq(Message) /\ hand[d] \in Seq(Message) /\ wire[d] \in Seq(Message)
      /\ written[d] \in Seq(Message) /\ written'[d] \in Seq(Message)
      /\ subChan[d] \in Seq(Message)
      /\ client[d] # "hand" => hand[d] = <<>>
      /\ conn[d] # "open" => subChan[d] = <<>>
  <2>1. /\ seen[d] \in Seq(Message) /\ wire[d] \in Seq(Message)
        /\ written[d] \in Seq(Message) /\ written'[d] \in Seq(Message)
    BY DEF TypeInv, StreamType
  <2>2. /\ hand[d] \in Seq(Message)
        /\ client[d] # "hand" => hand[d] = <<>>
    BY DEF TypeInv, ClientType
  <2>3. /\ subChan[d] \in Seq(Message)
        /\ conn[d] # "open" => subChan[d] = <<>>
    BY DEF TypeInv, HandlerType
  <2> QED
    BY <2>1, <2>2, <2>3
\* Steps that leave the streams and the clients alone, or end the process.
<1>1. ASSUME UNCHANGED <<seen, hand, wire, written, client>>,
             conn'[d] \in {"open", "eof"} => conn[d] \in {"open", "eof"}
      PROVE  FaithfulTo(d)'
  BY <1>d, <1>1, OthersKept
<1>2. ASSUME Main PROVE FaithfulTo(d)'
  <2>1. UNCHANGED <<seen, hand, wire, written, client>>
    BY <1>2
    DEF Main, Exit, Listen, StartFails, ServeFails, Signal, ShutdownReturns, ShutdownTimesOut,
        AfterDeadline, QueueCloses, Killed, Restart, streamVars, clientVars
  <2>2. conn'[d] \in {"open", "eof"} => conn[d] \in {"open", "eof"}
    BY <1>2, <1>t
    DEF Main, Exit, Listen, StartFails, ServeFails, Signal, ShutdownReturns, ShutdownTimesOut,
        AfterDeadline, QueueCloses, Killed, Restart, streamVars, clientVars
  <2> QED
    BY <1>1, <2>1, <2>2
<1>3. ASSUME NEW c \in Client, Handler(c) PROVE FaithfulTo(d)'
  <2>1. CASE HandlerReturns(c)
    <3>1. conn'[d] \in {"open", "eof"} => conn[d] \in {"open", "eof"}
      BY <1>t, <2>1 DEF HandlerReturns, BetweenStreams
    <3> QED
      BY <1>1, <2>1, <3>1 DEF HandlerReturns, clientVars
  <2>2. CASE WriteEvent(c) /\ c # d
    BY <1>d, <1>t, <2>2, OthersKept DEF WriteEvent, clientVars
  <2>3. CASE WriteEvent(c) /\ c = d
    <3> DEFINE h == Head(subChan[d])
    <3>1. /\ h \in Message /\ conn[d] = "open" /\ client[d] # "ended"
      <4>1. subChan[d] # <<>>
        BY <2>3 DEF WriteEvent
      <4>2. h \in Message
        BY <1>q, <4>1
      <4>3. conn[d] = "open"
        BY <1>q, <4>1
      <4> QED
        BY <4>2, <4>3 DEF BetweenStreams
    <3>2. Read(d) = written[d]
      BY <1>d, <3>1 DEF FaithfulTo
    <3>3. /\ wire'[d] = Append(wire[d], h) /\ written'[d] = Append(written[d], h)
          /\ UNCHANGED <<seen[d], hand[d]>>
      BY <1>t, <2>3 DEF WriteEvent, clientVars
    <3> HIDE DEF h
    <3>4. seen[d] \o hand[d] \o Append(wire[d], h) = Append(seen[d] \o hand[d] \o wire[d], h)
      <4>1. ASSUME NEW a \in Seq(Message), NEW b \in Seq(Message), NEW w \in Seq(Message)
            PROVE  a \o b \o Append(w, h) = Append(a \o b \o w, h)
        BY <3>1, WrittenAtEnd
      <4>2. seen[d] \in Seq(Message) /\ hand[d] \in Seq(Message) /\ wire[d] \in Seq(Message)
        BY <1>q
      <4> QED
        BY <4>1, <4>2
    <3>5. Read(d)' = seen'[d] \o hand'[d] \o wire'[d]
      BY DEF Read
    <3>6. Read(d)' = written'[d]
      BY <3>2, <3>3, <3>4, <3>5 DEF Read
    <3> QED
      BY <1>q, <3>6, FaithfulWhole
  <2> QED
    BY <1>3, <2>1, <2>2, <2>3 DEF Handler
<1>4. ASSUME NEW c \in Client, Subscriber(c), c # d PROVE FaithfulTo(d)'
  <2>1. /\ UNCHANGED <<seen[d], hand[d], wire[d], written[d], client[d]>>
        /\ conn'[d] = conn[d]
    BY <1>4, <1>t
    DEF Subscriber, ContextSeen, ClosedSeen, Orphaned, Ends, Connect, ConnectFails, ReadEvent,
        StreamEnds, PauseOver, HandOver, handlerVars, streamVars
  <2> QED
    BY <1>d, <2>1, OthersKept
<1>5. ASSUME Subscriber(d) PROVE FaithfulTo(d)'
  <2>1. CASE ContextSeen(d) \/ ClosedSeen(d)
    <3>1. /\ UNCHANGED <<seen[d], written[d]>> /\ hand'[d] = <<>> /\ wire'[d] = <<>>
          /\ client'[d] = "ended"
      BY <1>t, <2>1 DEF ContextSeen, ClosedSeen, Ends
    <3> QED
      BY <1>d, <3>1, FaithfulDropped
  <2>2. CASE Connect(d)
    <3>1. /\ seen'[d] = <<>> /\ written'[d] = <<>> /\ hand'[d] = <<>> /\ wire'[d] = <<>>
      <4>1. client[d] = "try" /\ wire[d] = <<>> /\ hand[d] = <<>>
        BY <1>q, <2>2 DEF Connect, BetweenStreams
      <4> QED
        BY <1>t, <2>2, <4>1 DEF Connect
    <3>2. Read(d)' = seen'[d] \o hand'[d] \o wire'[d]
      BY DEF Read
    <3>3. Read(d)' = written'[d]
      BY <3>1, <3>2
    <3> QED
      BY <1>q, <3>3, FaithfulWhole
  <2>3. CASE ConnectFails(d) \/ PauseOver(d)
    <3>1. /\ UNCHANGED <<seen[d], hand[d], wire[d], written[d], conn[d]>>
          /\ client[d] # "ended"
      BY <2>3 DEF ConnectFails, PauseOver, streamVars
    <3> QED
      BY <1>d, <3>1, OthersKept
  <2>4. CASE ReadEvent(d)
    <3>1. /\ wire[d] # <<>> /\ hand[d] = <<>> /\ hand'[d] = <<Head(wire[d])>>
          /\ wire'[d] = Tail(wire[d])
          /\ UNCHANGED <<seen[d], written[d], conn[d]>> /\ client[d] = "read"
      <4>1. client[d] = "read" /\ wire[d] # <<>>
        BY <2>4 DEF ReadEvent
      <4>2. hand[d] = <<>>
        BY <1>q, <4>1
      <4>3. hand'[d] = <<Head(wire[d])>> /\ wire'[d] = Tail(wire[d])
        BY <1>t, <2>4 DEF ReadEvent
      <4>4. UNCHANGED <<seen[d], written[d], conn[d]>>
        BY <2>4 DEF ReadEvent
      <4> QED
        BY <4>1, <4>2, <4>3, <4>4
    <3>2. seen[d] \o <<Head(wire[d])>> \o Tail(wire[d]) = seen[d] \o <<>> \o wire[d]
      BY <1>q, <3>1, HeadInHand
    <3>3. Read(d)' = seen'[d] \o hand'[d] \o wire'[d]
      BY DEF Read
    <3>4. Read(d)' = Read(d)
      BY <3>1, <3>2, <3>3 DEF Read
    <3> QED
      BY <1>d, <3>1, <3>4, FaithfulKept
  <2>5. CASE StreamEnds(d)
    <3>1. /\ UNCHANGED <<seen[d], hand[d], written[d], conn[d]>> /\ wire'[d] = <<>>
          /\ client[d] = "read"
          /\ conn[d] = "broken" \/ (conn[d] = "eof" /\ wire[d] = <<>>)
      BY <1>t, <2>5 DEF StreamEnds, SeesEnd, handlerVars
    <3>2. CASE conn[d] = "broken"
      BY <1>d, <3>1, <3>2, FaithfulDropped
    <3>3. CASE wire[d] = <<>>
      BY <1>d, <3>1, <3>3, OthersKept
    <3> QED
      BY <3>1, <3>2, <3>3
  <2>6. CASE HandOver(d)
    <3>1. /\ seen'[d] = seen[d] \o hand[d] /\ hand'[d] = <<>>
          /\ UNCHANGED <<wire[d], written[d], conn[d]>> /\ client[d] = "hand"
      BY <1>t, <2>6 DEF HandOver, handlerVars
    <3>2. seen[d] \o hand[d] \in Seq(Message)
      BY <1>t, ConcatProperties
    <3>3. (seen[d] \o hand[d]) \o <<>> = seen[d] \o hand[d]
      BY <3>2, ConcatEmptySeq
    <3>4. Read(d)' = seen'[d] \o hand'[d] \o wire'[d]
      BY DEF Read
    <3>5. Read(d)' = Read(d)
      BY <3>1, <3>3, <3>4 DEF Read
    <3> QED
      BY <1>d, <3>1, <3>5, FaithfulKept
  <2> QED
    BY <1>5, <2>1, <2>2, <2>3, <2>4, <2>5, <2>6 DEF Subscriber
<1>6. ASSUME NEW c \in Client, StreamBreaks(c) PROVE FaithfulTo(d)'
  <2>1. conn'[d] \in {"open", "eof"} => conn[d] \in {"open", "eof"}
    BY <1>t, <1>6 DEF StreamBreaks, Orphaned
  <2> QED
    BY <1>1, <1>6, <2>1 DEF StreamBreaks, clientVars
<1>7. ASSUME NEW c \in Client, Caller(c) \/ ReadTimeout(c) PROVE FaithfulTo(d)'
  BY <1>1, <1>7
  DEF Caller, Receive, Cancel, CloseClient, ReadTimeout, streamVars, clientVars
<1>8. ASSUME NEW c \in Client, NEW m \in Message, Hand(m, c) PROVE FaithfulTo(d)'
  BY <1>1, <1>8 DEF Hand, streamVars, clientVars
<1>9. ASSUME NEW r \in Request, Arrive(r) \/ Serve(r) PROVE FaithfulTo(d)'
  BY <1>1, <1>9 DEF Arrive, Serve, streamVars, clientVars
<1>10. CASE OrphanReturns \/ UNCHANGED vars
  BY <1>1, <1>10 DEF OrphanReturns, vars, streamVars, clientVars
<1> QED
  BY <1>2, <1>3, <1>4, <1>5, <1>6, <1>7, <1>8, <1>9, <1>10 DEF Next

-----------------------------------------------------------------------------
(* The theorems.                                                           *)

LEMMA Invariance == Spec => []Inv
<1>1. Inv /\ [Next]_vars => Inv'
  <2> SUFFICES ASSUME Inv, [Next]_vars PROVE Inv'
    OBVIOUS
  <2>1. TypeInv'
    BY TypeStep DEF Inv
  <2>2. BetweenStreams' /\ QuietClose'
    BY BetweenStep, QuietStep DEF Inv
  <2>3. StreamFaithful'
    BY <2>1, FaithfulStep DEF Inv
  <2> QED
    BY <2>1, <2>2, <2>3 DEF Inv
<1> QED
  BY InitInv, <1>1, PTL DEF Spec

\* The channels keep to their capacities, a decoded message is held exactly
\* while the client waits to hand it over, and a subscription's channel is
\* empty as soon as no handler serves the stream.
THEOREM TypeCorrect == Spec => []TypeOK
BY Invariance, TypesAreTypes, PTL DEF Inv

\* main closes the queue only when no handler is left, once it has shut the
\* server down: no Publish or Subscribe is under way that Close could meet.
THEOREM CloseMeetsNoHandler == Spec => []QuietClose
BY Invariance, PTL DEF Inv

\* A client hands on what was written to its stream, in order and each message
\* once, and all of it unless the connection broke or the caller has gone.
THEOREM StreamsAreFaithful == Spec => []StreamFaithful
BY Invariance, PTL DEF Inv
=============================================================================
