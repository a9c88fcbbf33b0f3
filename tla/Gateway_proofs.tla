--------------------------- MODULE Gateway_proofs ---------------------------
(***************************************************************************)
(* Machine-checked facts about Gateway, for any requests, queries,         *)
(* contexts, records, limits and number of faults.  What is said of the    *)
(* storage service's store is instantiated from MemoryStore_proofs.        *)
(***************************************************************************)
EXTENDS Gateway, SequenceTheorems, TLAPS

Facts == INSTANCE MemoryStore_proofs

-----------------------------------------------------------------------------
(* The inductive invariant.                                                *)

RequestType ==
    /\ conn \in [Req -> {"idle", "waiting", "aborted", "returned"}]
    /\ handler \in [Req -> {"none", "list", "gpu", "telemetry", "respond", "done"}]
    /\ {expired, cut, reached} \subseteq [Req -> BOOLEAN]

ContextType ==
    /\ ctxOf \in [Req -> Context \cup {None}]
    /\ serving \in [Context -> Req \cup {None}]

AnswerType ==
    /\ asked \in [Req -> Query \cup {None}]
    /\ answer \in [Req -> Body \cup {None}]
    /\ written \in [Req -> Seq(Req)]
    /\ known \in [Req -> SUBSET Gpu]
    /\ since \in [Req -> Nat]

TypeInv == RequestType /\ ContextType /\ AnswerType

\* A request has a context and a handler from when it comes, and until its
\* middleware returns the context serves it; a context serves nobody else.
ContextInv ==
    /\ \A r \in Req :
          /\ conn[r] = "idle" <=> handler[r] = "none"
          /\ conn[r] # "idle" => ctxOf[r] \in Context
          /\ conn[r] \in {"waiting", "aborted"} => serving[ctxOf[r]] = r
    /\ \A c \in Context : serving[c] # None =>
          conn[serving[c]] \in {"waiting", "aborted"} /\ ctxOf[serving[c]] = c

\* Without a timeout nothing is cut off, nothing is answered for a handler, and
\* the middleware returns only when the handler is done.
Punctual ==
    \A r \in Req : ~expired[r] =>
        /\ ~cut[r]
        /\ conn[r] # "aborted"
        /\ conn[r] = "returned" => handler[r] = "done" /\ reached[r]

\* Until the first timeout a response holds its own answer, once its handler
\* is done, and nothing before.
WrittenInv ==
    (\A r \in Req : ~expired[r]) =>
        \A r \in Req : written[r] = IF handler[r] = "done" THEN <<r>> ELSE <<>>

\* The index of the store is true, and what is stored is the end of the log.
StoreInv == Facts!StoreInv

\* What the history says of a request: its GPUs are known, and its records saved.
ComesBefore ==
    \A r \in Req :
        /\ known[r] \subseteq gpus
        /\ since[r] <= Len(log)
        /\ handler[r] # "none" => asked[r] \in Query
        /\ handler[r] = "list" => asked[r].gpu = None
        /\ handler[r] \in {"gpu", "telemetry"} =>
               asked[r].gpu # None /\ known[r] \subseteq {asked[r].gpu}
        /\ handler[r] # "respond" => answer[r] = None

Inv ==
    /\ TypeInv /\ ContextInv /\ Punctual /\ WrittenInv
    /\ StoreInv /\ ComesBefore /\ AnswerComplete

-----------------------------------------------------------------------------
(* The store.                                                              *)

LEMMA SameAssumption == Facts!StoreAssumption
<1>1. Store!StoreAssumption
  BY GatewayAssumption DEF GatewayAssumption
<1> QED
  BY <1>1 DEF Store!StoreAssumption, Facts!StoreAssumption

LEMMA SameMethods ==
    /\ Store!Init <=> Facts!Init
    /\ \A g : Store!SaveGPU(g) <=> Facts!SaveGPU(g)
    /\ \A rec : Store!SaveTelemetry(rec) <=> Facts!SaveTelemetry(rec)
<1>1. Store!Init <=> Facts!Init
  BY DEF Store!Init, Facts!Init
<1>2. ASSUME NEW g PROVE Store!SaveGPU(g) <=> Facts!SaveGPU(g)
  BY DEF Store!SaveGPU, Facts!SaveGPU
<1>3. ASSUME NEW rec PROVE Store!SaveTelemetry(rec) <=> Facts!SaveTelemetry(rec)
  BY DEF Store!SaveTelemetry, Store!Kept, Store!Full, Store!EvictCount,
         Store!IndexAfterEviction, Store!Positions, Store!Arranged, Store!Bijection,
         Store!Injection, Store!Surjection, Store!IsInjective, Store!Cardinality,
         Store!IsFiniteSet, Store!GpusAfterEviction, Store!ToSet,
         Facts!SaveTelemetry, Facts!Kept, Facts!Full, Facts!EvictCount,
         Facts!IndexAfterEviction, Facts!Positions, Facts!Arranged, Facts!Bijection,
         Facts!Injection, Facts!Surjection, Facts!IsInjective, Facts!Cardinality,
         Facts!IsFiniteSet, Facts!GpusAfterEviction, Facts!ToSet
<1> QED
  BY <1>1, <1>2, <1>3

LEMMA SameQueries ==
    /\ Store!ListGPUs = Facts!ListGPUs
    /\ \A g, start, end :
          Store!GetTelemetryByGPU(g, start, end) = Facts!GetTelemetryByGPU(g, start, end)
<1>1. Store!ListGPUs = Facts!ListGPUs
  BY DEF Store!ListGPUs, Facts!ListGPUs
<1>2. ASSUME NEW g, NEW start, NEW end
      PROVE  Store!GetTelemetryByGPU(g, start, end) = Facts!GetTelemetryByGPU(g, start, end)
  BY DEF Store!GetTelemetryByGPU, Store!Within, Store!Arranged, Store!Bijection,
         Store!Injection, Store!Surjection, Store!IsInjective, Store!Cardinality,
         Store!IsFiniteSet,
         Facts!GetTelemetryByGPU, Facts!Within, Facts!Arranged, Facts!Bijection,
         Facts!Injection, Facts!Surjection, Facts!IsInjective, Facts!Cardinality,
         Facts!IsFiniteSet
<1> QED
  BY <1>1, <1>2

\* What is stored is the end of what was saved.
LEMMA StoreFacts ==
    ASSUME StoreInv
    PROVE  /\ telemetry \in Seq(Record) /\ log \in Seq(Record) /\ gpus \subseteq Gpu
           /\ Len(telemetry) \in Nat /\ Len(log) \in Nat /\ Len(telemetry) <= Len(log)
           /\ \A i \in 1 .. Len(telemetry) :
                 telemetry[i] = log[Len(log) - Len(telemetry) + i]
BY DEF StoreInv, Facts!StoreInv, Facts!TypeOK, Facts!KeptInv, Facts!EndOf

\* A record that is still stored is found in what is stored.
LEMMA Lasting ==
    ASSUME StoreInv, NEW p \in 1 .. Len(log), Lasts(p)
    PROVE  \E i \in 1 .. Len(telemetry) : telemetry[i] = log[p]
<1> DEFINE i == p - (Len(log) - Len(telemetry))
<1>1. i \in 1 .. Len(telemetry) /\ Len(log) - Len(telemetry) + i = p
  BY StoreFacts DEF Lasts
<1> HIDE DEF i
<1> QED
  BY <1>1, StoreFacts

\* A save leaves the log as it was before it; a record that is still stored
\* afterwards was stored before, or is the new one.
LEMMA SaveTelemetryKeeps ==
    ASSUME StoreInv, NEW rec \in Record, Store!SaveTelemetry(rec)
    PROVE  /\ StoreInv' /\ gpus' = gpus
           /\ Len(log') = Len(log) + 1
           /\ \A p \in 1 .. Len(log) : log'[p] = log[p] /\ (Lasts(p)' => Lasts(p))
<1> DEFINE kept == Facts!Kept
<1>1. Facts!SaveTelemetry(rec)
  BY SameMethods
<1>2. StoreInv'
  BY <1>1, SameAssumption, Facts!SaveTelemetryInv DEF StoreInv
<1>3. telemetry' = Append(kept, rec) /\ log' = Append(log, rec) /\ gpus' = gpus
  BY <1>1 DEF Facts!SaveTelemetry
<1>4. kept \in Seq(Record) /\ Len(kept) <= Len(telemetry)
  BY SameAssumption, Facts!KeptFacts DEF StoreInv, Facts!StoreInv
<1> HIDE DEF kept
<1>5. /\ Len(telemetry') = Len(kept) + 1 /\ Len(kept) \in Nat
      /\ Len(log') = Len(log) + 1 /\ \A p \in 1 .. Len(log) : log'[p] = log[p]
  BY <1>3, <1>4, StoreFacts
<1>6. \A p \in 1 .. Len(log) : Lasts(p)' => Lasts(p)
  BY <1>4, <1>5, StoreFacts DEF Lasts
<1> QED
  BY <1>2, <1>3, <1>5, <1>6

-----------------------------------------------------------------------------
(* The answers.                                                            *)

\* What AnswerComplete says of a body for r.
Stands(r, body) ==
    /\ body.status = 404 => known[r] = {}
    /\ (body.status = 200 /\ asked[r].gpu = None) =>
          /\ body.listed \subseteq gpus
          /\ \A g \in known[r] :
                (\E p \in 1..since[r] : Lasts(p) /\ log[p].gpu = g) => g \in body.listed
    /\ (body.status = 200 /\ asked[r].gpu # None /\ WholeSeconds(asked[r])) =>
          LET found == {body.records[i] : i \in DOMAIN body.records} IN
          /\ \A rec \in found : Matches(asked[r], rec)
          /\ \A p \in 1..since[r] :
                (Lasts(p) /\ Matches(asked[r], log[p])) => log[p] \in found

LEMMA StandsIsComplete ==
    AnswerComplete <=> \A r \in Req : answer[r] # None => Stands(r, answer[r])
BY DEF AnswerComplete, UnknownIsUnknown, ListComplete, TelemetryComplete, WholeSeconds,
           Matches, Lasts, Stands

\* A body of nothing but a status.
LEMMA PlainBody ==
    ASSUME NEW status \in {200, 400, 404, 500}
    PROVE  Plain(status) \in Body
BY DEF Plain, Body

\* The list, at the moment it is read, holds every known GPU with a record.
LEMMA ListStands ==
    ASSUME TypeInv, StoreInv, ComesBefore, NEW r \in Req, handler[r] = "list"
    PROVE  LET body == [Plain(200) EXCEPT !.listed = Store!ListGPUs] IN
           body \in Body /\ Stands(r, body)
<1> DEFINE body == [Plain(200) EXCEPT !.listed = Store!ListGPUs]
<1>1. body.status = 200 /\ body.listed = Store!ListGPUs
  BY DEF Plain
<1>2. Store!ListGPUs = {g \in gpus : \E i \in 1 .. Len(telemetry) : telemetry[i].gpu = g}
  <2>1. Facts!ListGPUs = {g \in gpus : \E rec \in Facts!ToSet(telemetry) : rec.gpu = g}
    BY Facts!ListExact DEF StoreInv
  <2>2. DOMAIN telemetry = 1 .. Len(telemetry)
    BY StoreFacts
  <2> QED
    BY <2>1, <2>2, SameQueries DEF Facts!ToSet
<1>3. body \in Body
  <2>1. Store!ListGPUs \subseteq Gpu
    BY <1>2, StoreFacts
  <2>2. body = [status |-> 200, records |-> <<>>, listed |-> Store!ListGPUs]
    BY DEF Plain
  <2>3. <<>> \in Seq(Record)
    OBVIOUS
  <2> HIDE DEF body
  <2> QED
    BY <2>1, <2>2, <2>3 DEF Body
<1>4. ASSUME NEW g \in known[r], NEW p \in 1 .. since[r], Lasts(p), log[p].gpu = g
      PROVE  g \in Store!ListGPUs
  <2>1. p \in 1 .. Len(log) /\ g \in gpus
    BY StoreFacts DEF ComesBefore, TypeInv, AnswerType
  <2>2. \E i \in 1 .. Len(telemetry) : telemetry[i] = log[p]
    BY <1>4, <2>1, Lasting
  <2> QED
    BY <1>2, <1>4, <2>1, <2>2
<1>5. asked[r].gpu = None
  BY DEF ComesBefore
<1>6. Store!ListGPUs \subseteq gpus
  BY <1>2
<1> HIDE DEF body
<1>7. Stands(r, body)
  BY <1>1, <1>4, <1>5, <1>6 DEF Stands
<1> QED
  BY <1>3, <1>7 DEF body

\* The bounds that are sent are times, the request's own if in whole seconds.
LEMMA SentBounds ==
    ASSUME NEW t \in Instant \cup {None}
    PROVE  /\ Sent(t) \in Nat \cup {None}
           /\ (t # None => t % Second = 0) => Sent(t) = t
<1>1. Second \in Nat \ {0} /\ Instant \subseteq Nat
  BY GatewayAssumption DEF GatewayAssumption, Store!StoreAssumption
<1>2. CASE t = None
  BY <1>2 DEF Sent
<1>3. CASE t # None
  <2>1. t \in Nat /\ t % Second \in 0 .. Second - 1 /\ t % Second <= t
    BY <1>1, <1>3
  <2>2. Sent(t) = t - (t % Second)
    BY <1>3 DEF Sent
  <2>3. t - (t % Second) \in Nat /\ (t % Second = 0 => t - (t % Second) = t)
    BY <2>1
  <2> QED
    BY <1>3, <2>2, <2>3
<1> QED
  BY <1>2, <1>3

\* What the store answers is, for bounds in whole seconds, what matches.
LEMMA TelemetryStands ==
    ASSUME TypeInv, StoreInv, ComesBefore, NEW r \in Req, handler[r] = "telemetry"
    PROVE  LET body == [Plain(200) EXCEPT !.records = Found(asked[r])] IN
           body \in Body /\ Stands(r, body)
<1> DEFINE body == [Plain(200) EXCEPT !.records = Found(asked[r])]
           q == asked[r]
           start == Sent(q.start)
           end == Sent(q.end)
           records == Facts!GetTelemetryByGPU(q.gpu, start, end)
<1>1. /\ q.gpu \in Gpu /\ q.gpu # None
      /\ q.start \in Instant \cup {None} /\ q.end \in Instant \cup {None}
  BY GatewayAssumption DEF GatewayAssumption, ComesBefore
<1>2. /\ start \in Nat \cup {None} /\ end \in Nat \cup {None}
      /\ WholeSeconds(q) => start = q.start /\ end = q.end
  BY <1>1, SentBounds DEF WholeSeconds
<1>3. Found(q) = records
  BY SameQueries DEF Found, Bounds
<1>4. records \in Seq(Record)
  BY <1>1, <1>2, SameAssumption, Facts!QueryAnswers DEF StoreInv
<1>5. Facts!ToSet(records) = {telemetry[p] : p \in Facts!Stored(q.gpu, start, end)}
  BY <1>1, <1>2, SameAssumption, Facts!QueryReturns DEF StoreInv
<1>6. body.status = 200 /\ body.records = records /\ body \in Body
  BY <1>3, <1>4 DEF Plain, Body
<1> HIDE DEF records, body
<1>7. ASSUME WholeSeconds(q)
      PROVE  {records[i] : i \in DOMAIN records} =
                 {telemetry[p] : p \in {p \in 1 .. Len(telemetry) : Matches(q, telemetry[p])}}
  <2>1. start = q.start /\ end = q.end
    BY <1>2, <1>7
  <2>2. DOMAIN telemetry = 1 .. Len(telemetry)
    BY StoreFacts
  <2>3. Facts!Stored(q.gpu, q.start, q.end) = {p \in 1 .. Len(telemetry) : Matches(q, telemetry[p])}
    BY <2>2 DEF Facts!Stored, Matches
  <2> QED
    BY <1>5, <2>1, <2>3 DEF Facts!ToSet
<1>8. ASSUME NEW p \in 1 .. since[r], Lasts(p)
      PROVE  \E i \in 1 .. Len(telemetry) : telemetry[i] = log[p]
  <2>1. p \in 1 .. Len(log)
    BY StoreFacts DEF ComesBefore, TypeInv, AnswerType
  <2> QED
    BY <1>8, <2>1, Lasting
<1>9. ASSUME WholeSeconds(q)
      PROVE  LET found == {body.records[i] : i \in DOMAIN body.records} IN
             /\ \A rec \in found : Matches(q, rec)
             /\ \A p \in 1 .. since[r] :
                   (Lasts(p) /\ Matches(q, log[p])) => log[p] \in found
  <2>1. {body.records[i] : i \in DOMAIN body.records} =
            {telemetry[p] : p \in {p \in 1 .. Len(telemetry) : Matches(q, telemetry[p])}}
    BY <1>6, <1>7, <1>9
  <2> HIDE DEF q
  <2> QED
    BY <1>8, <2>1
<1>10. Stands(r, body)
  BY <1>1, <1>6, <1>9 DEF Stands
<1> QED
  BY <1>6, <1>10 DEF body

-----------------------------------------------------------------------------
(* One step at a time.                                                     *)

LEMMA InitInv == Init => Inv
<1> SUFFICES ASSUME Init PROVE Inv
  OBVIOUS
<1> USE DEF Init, Store!Init
<1>1. TypeInv
  BY DEF TypeInv, RequestType, ContextType, AnswerType
<1>2. ContextInv
  BY DEF ContextInv
<1>3. Punctual
  BY DEF Punctual
<1>4. WrittenInv
  BY DEF WrittenInv
<1>5. StoreInv
  BY SameAssumption, SameMethods, Facts!InitInv DEF StoreInv
<1>6. ComesBefore /\ AnswerComplete
  BY DEF ComesBefore, AnswerComplete
<1> QED
  BY <1>1, <1>2, <1>3, <1>4, <1>5, <1>6 DEF Inv

\* A group of variables that a step leaves alone keeps what is said of it.
LEMMA Kept ==
    /\ RequestType /\ UNCHANGED <<conn, handler, connVars>> => RequestType'
    /\ ContextType /\ UNCHANGED <<ctxOf, serving>> => ContextType'
    /\ AnswerType /\ UNCHANGED <<asked, answer, written, historyVars>> => AnswerType'
    /\ StoreInv /\ UNCHANGED storeVars => StoreInv'
    /\ ContextInv /\ UNCHANGED <<conn, handler, ctxOf, serving>> => ContextInv'
    /\ Punctual /\ UNCHANGED <<conn, handler, connVars>> => Punctual'
    /\ WrittenInv /\ UNCHANGED <<handler, expired, written>> => WrittenInv'
    /\ ComesBefore /\ UNCHANGED <<storeVars, handler, asked, answer, historyVars>> => ComesBefore'
    /\ AnswerComplete /\ UNCHANGED <<storeVars, asked, answer, historyVars>> => AnswerComplete'
<1>1. RequestType /\ UNCHANGED <<conn, handler, connVars>> => RequestType'
  BY DEF RequestType, connVars
<1>2. ContextType /\ UNCHANGED <<ctxOf, serving>> => ContextType'
  BY DEF ContextType
<1>3. AnswerType /\ UNCHANGED <<asked, answer, written, historyVars>> => AnswerType'
  BY DEF AnswerType, historyVars
<1>4. StoreInv /\ UNCHANGED storeVars => StoreInv'
  <2> SUFFICES ASSUME StoreInv, UNCHANGED storeVars PROVE StoreInv'
    OBVIOUS
  <2>1. /\ UNCHANGED <<telemetry, gpuTelemetryIndex, gpusWithTelemetry, log>>
        /\ gpus' \subseteq Gpu
    BY StoreFacts DEF storeVars
  <2> QED
    BY <2>1, Facts!UnchangedInv DEF StoreInv
<1>5. ContextInv /\ UNCHANGED <<conn, handler, ctxOf, serving>> => ContextInv'
  BY DEF ContextInv
<1>6. Punctual /\ UNCHANGED <<conn, handler, connVars>> => Punctual'
  BY DEF Punctual, connVars
<1>7. WrittenInv /\ UNCHANGED <<handler, expired, written>> => WrittenInv'
  BY DEF WrittenInv
<1>8. ComesBefore /\ UNCHANGED <<storeVars, handler, asked, answer, historyVars>> => ComesBefore'
  BY DEF ComesBefore, storeVars, historyVars
<1>9. AnswerComplete /\ UNCHANGED <<storeVars, asked, answer, historyVars>> => AnswerComplete'
  BY DEF AnswerComplete, UnknownIsUnknown, ListComplete, TelemetryComplete, WholeSeconds,
         Matches, Lasts, storeVars, historyVars
<1> QED
  BY <1>1, <1>2, <1>3, <1>4, <1>5, <1>6, <1>7, <1>8, <1>9

LEMMA SaveInv == Inv /\ Save => Inv'
<1> SUFFICES ASSUME Inv, Save PROVE Inv'
  OBVIOUS
<1> USE DEF Inv, TypeInv
<1>1. /\ UNCHANGED <<asked, conn, handler, connVars, ctxOf, serving, answer, written>>
      /\ UNCHANGED historyVars
  BY DEF Save
<1>2. /\ RequestType' /\ ContextType' /\ AnswerType' /\ ContextInv' /\ Punctual' /\ WrittenInv'
  BY <1>1, Kept DEF connVars
<1>3. /\ StoreInv' /\ gpus \subseteq gpus' /\ Len(log) <= Len(log')
      /\ \A p \in 1 .. Len(log) : log'[p] = log[p] /\ (Lasts(p)' => Lasts(p))
  <2>1. CASE \E g \in Gpu : Store!SaveGPU(g)
    <3>1. PICK g \in Gpu : Store!SaveGPU(g)
      BY <2>1
    <3>2. gpus' = gpus \cup {g} /\ telemetry' = telemetry /\ log' = log
      BY <3>1 DEF Store!SaveGPU
    <3>3. StoreInv'
      BY <3>1, SameMethods, Facts!SaveGPUInv DEF StoreInv
    <3> QED
      BY <3>2, <3>3, StoreFacts DEF Lasts
  <2>2. CASE \E rec \in Record : Store!SaveTelemetry(rec)
    <3>1. PICK rec \in Record : Store!SaveTelemetry(rec)
      BY <2>2
    <3> QED
      BY <3>1, StoreFacts, SaveTelemetryKeeps
  <2> QED
    BY <2>1, <2>2 DEF Save
<1>4. ASSUME NEW r \in Req
      PROVE  since[r] <= Len(log) /\ since[r] \in Nat /\ Len(log) \in Nat /\ Len(log') \in Nat
  <2>1. Len(log) \in Nat /\ Len(log') \in Nat
    <3>1. log' \in Seq(Record)
      BY <1>3 DEF StoreInv, Facts!StoreInv, Facts!TypeOK
    <3> QED
      BY <3>1, StoreFacts
  <2> QED
    BY <2>1 DEF ComesBefore, AnswerType
<1>5. ComesBefore'
  BY <1>1, <1>3, <1>4 DEF ComesBefore, historyVars
<1>6. AnswerComplete'
  <2> SUFFICES ASSUME NEW r \in Req, answer[r] # None
               PROVE  /\ UnknownIsUnknown(r)' /\ ListComplete(r)'
                      /\ TelemetryComplete(r)'
    BY <1>1 DEF AnswerComplete
  <2>1. UnknownIsUnknown(r) /\ ListComplete(r) /\ TelemetryComplete(r)
    BY DEF AnswerComplete
  <2>2. UnknownIsUnknown(r)'
    BY <1>1, <2>1 DEF UnknownIsUnknown, historyVars
  <2>3. \A p \in 1 .. since[r] : log'[p] = log[p] /\ (Lasts(p)' => Lasts(p))
    BY <1>3, <1>4
  <2>4. ListComplete(r)'
    BY <1>1, <1>3, <2>1, <2>3 DEF ListComplete, historyVars
  <2>5. TelemetryComplete(r)'
    BY <1>1, <2>1, <2>3 DEF TelemetryComplete, WholeSeconds, Matches, historyVars
  <2> QED
    BY <2>2, <2>4, <2>5
<1> QED
  BY <1>2, <1>3, <1>5, <1>6

\* The handler's next call returns.
LEMMA HandleInv ==
    ASSUME Inv, NEW r \in Req, NEW state, NEW body, Handle(r, state, body),
           \/ /\ handler[r] \in {"list", "gpu", "telemetry"}
              /\ state = "respond" /\ body \in Body /\ Stands(r, body)
           \/ handler[r] = "gpu" /\ state = "telemetry" /\ body = None
    PROVE  Inv'
<1> USE DEF Inv, TypeInv
<1>1. /\ handler' = [handler EXCEPT ![r] = state] /\ answer' = [answer EXCEPT ![r] = body]
      /\ UNCHANGED <<storeVars, asked, conn, connVars, ctxOf, serving, written, historyVars>>
  BY DEF Handle
<1>2. /\ handler[r] \in {"list", "gpu", "telemetry"} /\ state \in {"respond", "telemetry"}
  OBVIOUS
<1>3. RequestType'
  BY <1>1, <1>2 DEF RequestType, connVars
<1>4. ContextType' /\ StoreInv'
  BY <1>1, Kept
<1>5. AnswerType'
  BY <1>1 DEF AnswerType, historyVars
<1>6. ContextInv'
  BY <1>1, <1>2 DEF ContextInv, RequestType
<1>7. Punctual'
  BY <1>1, <1>2 DEF Punctual, RequestType, connVars
<1>8. WrittenInv'
  BY <1>1, <1>2 DEF WrittenInv, RequestType, connVars
<1>9. ComesBefore'
  BY <1>1, <1>2 DEF ComesBefore, RequestType, AnswerType, storeVars, historyVars
<1>10. AnswerComplete'
  <2> SUFFICES ASSUME NEW q \in Req, answer'[q] # None
               PROVE  Stands(q, answer[q])'
    BY DEF AnswerComplete, UnknownIsUnknown, ListComplete, TelemetryComplete, WholeSeconds,
           Matches, Lasts, Stands
  <2>1. Stands(q, answer'[q])
    <3>1. CASE q = r
      BY <1>1, <3>1 DEF AnswerType
    <3>2. CASE q # r
      BY <1>1, <3>2, StandsIsComplete DEF AnswerType
    <3> QED
      BY <3>1, <3>2
  <2> QED
    BY <1>1, <2>1 DEF Stands, WholeSeconds, Matches, Lasts, storeVars, historyVars
<1> QED
  BY <1>3, <1>4, <1>5, <1>6, <1>7, <1>8, <1>9, <1>10

\* A body goes to one request, whose context serves it, or nowhere.
LEMMA WriteType ==
    ASSUME Inv, NEW r \in Req, conn[r] # "idle", Write(r)
    PROVE  written' \in [Req -> Seq(Req)]
<1>1. ctxOf[r] \in Context /\ serving[ctxOf[r]] \in Req \cup {None}
  BY DEF Inv, TypeInv, ContextInv, ContextType
<1>2. written \in [Req -> Seq(Req)]
  BY DEF Inv, TypeInv, AnswerType
<1>3. CASE serving[ctxOf[r]] = None
  BY <1>2, <1>3 DEF Write
<1>4. CASE serving[ctxOf[r]] # None
  <2> DEFINE to == serving[ctxOf[r]]
  <2>1. to \in Req
    BY <1>1, <1>4
  <2>2. written' = [written EXCEPT ![to] = Append(@, r)]
    BY <1>4 DEF Write
  <2> HIDE DEF to
  <2>3. Append(written[to], r) \in Seq(Req)
    BY <1>2, <2>1
  <2> QED
    BY <1>2, <2>1, <2>2, <2>3
<1> QED
  BY <1>3, <1>4

LEMMA ArriveInv ==
    ASSUME Inv, NEW r \in Req, NEW q \in Query, NEW c \in Context, Arrive(r, q, c)
    PROVE  Inv'
<1> USE DEF Inv, TypeInv
<1>1. /\ conn[r] = "idle" /\ serving[c] = None
      /\ asked' = [asked EXCEPT ![r] = q]
      /\ conn' = [conn EXCEPT ![r] = "waiting"]
      /\ handler' = [handler EXCEPT ![r] = IF q.gpu = None THEN "list" ELSE "gpu"]
      /\ ctxOf' = [ctxOf EXCEPT ![r] = c]
      /\ serving' = [serving EXCEPT ![c] = r]
      /\ known' = [known EXCEPT ![r] = IF q.gpu = None THEN Store!ListGPUs ELSE {q.gpu} \cap gpus]
      /\ since' = [since EXCEPT ![r] = Len(log)]
      /\ UNCHANGED <<storeVars, connVars, answer, written>>
  BY DEF Arrive
<1>2. RequestType' /\ ContextType'
  BY <1>1 DEF RequestType, ContextType, connVars
<1>3. StoreInv'
  BY <1>1, Kept
<1>4. known[r]' \subseteq gpus /\ gpus \subseteq Gpu /\ Len(log) \in Nat
  BY <1>1, StoreFacts DEF Store!ListGPUs, AnswerType
<1>5. AnswerType'
  <2>1. known' \in [Req -> SUBSET Gpu]
    BY <1>1, <1>4 DEF AnswerType
  <2>2. since' \in [Req -> Nat]
    BY <1>1, <1>4 DEF AnswerType
  <2> QED
    BY <1>1, <2>1, <2>2 DEF AnswerType
<1>6. ContextInv'
  <2>1. ASSUME NEW x \in Req
        PROVE  /\ conn'[x] = "idle" <=> handler'[x] = "none"
               /\ conn'[x] # "idle" => ctxOf'[x] \in Context
               /\ conn'[x] \in {"waiting", "aborted"} => serving'[ctxOf'[x]] = x
    <3>1. CASE x = r
      BY <1>1, <3>1 DEF RequestType, ContextType
    <3>2. CASE x # r
      <4>1. conn'[x] = conn[x] /\ handler'[x] = handler[x] /\ ctxOf'[x] = ctxOf[x]
        BY <1>1, <3>2 DEF RequestType, ContextType
      <4>2. conn[x] \in {"waiting", "aborted"} => serving[ctxOf[x]] = x /\ ctxOf[x] \in Context
        BY DEF ContextInv
      <4>3. x # None
        BY GatewayAssumption DEF GatewayAssumption
      <4>4. conn[x] \in {"waiting", "aborted"} => serving'[ctxOf[x]] = x
        BY <1>1, <4>2, <4>3 DEF ContextType
      <4> QED
        BY <4>1, <4>4 DEF ContextInv
    <3> QED
      BY <3>1, <3>2
  <2>2. ASSUME NEW d \in Context, serving'[d] # None
        PROVE  conn'[serving'[d]] \in {"waiting", "aborted"} /\ ctxOf'[serving'[d]] = d
    <3>1. CASE d = c
      BY <1>1, <3>1 DEF RequestType, ContextType
    <3>2. CASE d # c
      <4>1. serving'[d] = serving[d] /\ serving[d] \in Req
        BY <1>1, <2>2, <3>2 DEF ContextType
      <4>2. conn[serving[d]] \in {"waiting", "aborted"} /\ ctxOf[serving[d]] = d
        BY <2>2, <4>1 DEF ContextInv
      <4>3. serving[d] # r
        BY <1>1, <4>2
      <4> QED
        BY <1>1, <4>1, <4>2, <4>3 DEF RequestType, ContextType
    <3> QED
      BY <3>1, <3>2
  <2> QED
    BY <2>1, <2>2 DEF ContextInv
<1>7. Punctual'
  BY <1>1 DEF Punctual, RequestType, connVars
<1>8. handler[r] = "none" /\ answer[r] = None
  BY <1>1 DEF ContextInv, ComesBefore
<1>9. WrittenInv'
  BY <1>1, <1>8 DEF WrittenInv, RequestType, connVars
<1>10. ComesBefore'
  <2> SUFFICES ASSUME NEW x \in Req
               PROVE  /\ known'[x] \subseteq gpus'
                      /\ since'[x] <= Len(log')
                      /\ handler'[x] # "none" => asked'[x] \in Query
                      /\ handler'[x] = "list" => asked'[x].gpu = None
                      /\ handler'[x] \in {"gpu", "telemetry"} =>
                             asked'[x].gpu # None /\ known'[x] \subseteq {asked'[x].gpu}
                      /\ handler'[x] # "respond" => answer'[x] = None
    BY DEF ComesBefore
  <2>1. CASE x = r
    <3>1. /\ asked'[x] = q /\ since'[x] = Len(log) /\ answer'[x] = None
          /\ known'[x] = IF q.gpu = None THEN Store!ListGPUs ELSE {q.gpu} \cap gpus
          /\ handler'[x] = IF q.gpu = None THEN "list" ELSE "gpu"
      BY <1>1, <1>8, <2>1 DEF RequestType, AnswerType
    <3> QED
      BY <1>1, <1>4, <2>1, <3>1 DEF storeVars
  <2>2. CASE x # r
    <3>1. /\ asked'[x] = asked[x] /\ since'[x] = since[x] /\ answer'[x] = answer[x]
          /\ known'[x] = known[x] /\ handler'[x] = handler[x]
      BY <1>1, <2>2 DEF RequestType, AnswerType
    <3> QED
      BY <1>1, <3>1 DEF ComesBefore, storeVars
  <2> QED
    BY <2>1, <2>2
<1>11. AnswerComplete'
  <2> SUFFICES ASSUME NEW x \in Req, answer'[x] # None
               PROVE  Stands(x, answer[x])'
    BY DEF AnswerComplete, UnknownIsUnknown, ListComplete, TelemetryComplete, WholeSeconds,
           Matches, Lasts, Stands
  <2>1. x # r /\ answer'[x] = answer[x]
    BY <1>1, <1>8
  <2>2. asked'[x] = asked[x] /\ since'[x] = since[x] /\ known'[x] = known[x]
    BY <1>1, <2>1 DEF AnswerType
  <2>3. Stands(x, answer[x])
    BY <2>1, StandsIsComplete
  <2> QED
    BY <1>1, <2>1, <2>2, <2>3 DEF Stands, WholeSeconds, Matches, Lasts, storeVars
<1> QED
  BY <1>2, <1>3, <1>5, <1>6, <1>7, <1>9, <1>10, <1>11

LEMMA ExpireInv == ASSUME Inv, NEW r \in Req, Expire(r) PROVE Inv'
<1> USE DEF Inv, TypeInv
<1>1. /\ expired' = [expired EXCEPT ![r] = TRUE]
      /\ UNCHANGED <<storeVars, asked, conn, handler, cut, ctxOf, serving, answer,
                     written, reached, historyVars>>
  BY DEF Expire
<1>2. RequestType'
  BY <1>1 DEF RequestType
<1>3. /\ ContextType' /\ AnswerType' /\ StoreInv' /\ ContextInv'
      /\ ComesBefore' /\ AnswerComplete'
  BY <1>1, Kept
<1>4. Punctual'
  BY <1>1 DEF Punctual, RequestType
<1>5. expired'[r]
  BY <1>1 DEF RequestType
<1>6. WrittenInv'
  BY <1>5 DEF WrittenInv
<1> QED
  BY <1>2, <1>3, <1>4, <1>6

LEMMA CutOffInv == ASSUME Inv, NEW r \in Req, CutOff(r) PROVE Inv'
<1> USE DEF Inv, TypeInv
<1>1. /\ expired[r] /\ cut' = [cut EXCEPT ![r] = TRUE]
      /\ UNCHANGED <<storeVars, asked, conn, handler, expired, ctxOf, serving, answer,
                     written, reached, historyVars>>
  BY DEF CutOff, BeforeWriteDeadline
<1>2. RequestType'
  BY <1>1 DEF RequestType
<1>3. /\ ContextType' /\ AnswerType' /\ StoreInv' /\ ContextInv'
      /\ WrittenInv' /\ ComesBefore' /\ AnswerComplete'
  BY <1>1, Kept
<1>4. Punctual'
  BY <1>1 DEF Punctual, RequestType
<1> QED
  BY <1>2, <1>3, <1>4

\* The middleware returns, for a handler that is done or for a request that
\* timed out.
LEMMA ReturnInv ==
    ASSUME Inv, NEW r \in Req, Return(r),
           \/ conn[r] = "waiting" /\ handler[r] = "done"
           \/ conn[r] = "aborted",
           UNCHANGED <<storeVars, asked, handler, expired, cut, ctxOf, answer, written,
                       historyVars>>
    PROVE  Inv'
<1> USE DEF Inv, TypeInv
<1>1. /\ conn' = [conn EXCEPT ![r] = "returned"]
      /\ reached' = [reached EXCEPT ![r] = ~cut[r]]
      /\ serving' = [serving EXCEPT ![ctxOf[r]] = None]
  BY DEF Return
<1>2. RequestType' /\ ContextType'
  BY <1>1 DEF RequestType, ContextType
<1>3. AnswerType' /\ StoreInv' /\ WrittenInv' /\ ComesBefore' /\ AnswerComplete'
  BY Kept
<1>4. ctxOf[r] \in Context /\ serving[ctxOf[r]] = r /\ conn[r] # "idle" /\ r # None
  BY GatewayAssumption DEF ContextInv, GatewayAssumption
<1>5. ContextInv'
  <2>1. ASSUME NEW x \in Req
        PROVE  /\ conn'[x] = "idle" <=> handler'[x] = "none"
               /\ conn'[x] # "idle" => ctxOf'[x] \in Context
               /\ conn'[x] \in {"waiting", "aborted"} => serving'[ctxOf'[x]] = x
    <3>1. CASE x = r
      BY <1>1, <1>4, <3>1 DEF ContextInv, RequestType, ContextType
    <3>2. CASE x # r
      <4>1. conn'[x] = conn[x] /\ handler'[x] = handler[x] /\ ctxOf'[x] = ctxOf[x]
        BY <1>1, <3>2 DEF RequestType
      <4>2. conn[x] \in {"waiting", "aborted"} => serving[ctxOf[x]] = x /\ ctxOf[x] \in Context
        BY DEF ContextInv
      <4>3. conn[x] \in {"waiting", "aborted"} => serving'[ctxOf[x]] = x
        BY <1>1, <1>4, <3>2, <4>2 DEF ContextType
      <4> QED
        BY <4>1, <4>3 DEF ContextInv
    <3> QED
      BY <3>1, <3>2
  <2>2. ASSUME NEW d \in Context, serving'[d] # None
        PROVE  conn'[serving'[d]] \in {"waiting", "aborted"} /\ ctxOf'[serving'[d]] = d
    <3>1. d # ctxOf[r] /\ serving'[d] = serving[d]
      BY <1>1, <1>4, <2>2 DEF ContextType
    <3>2. /\ serving[d] \in Req /\ conn[serving[d]] \in {"waiting", "aborted"}
          /\ ctxOf[serving[d]] = d
      BY <2>2, <3>1 DEF ContextInv, ContextType
    <3>3. serving[d] # r
      BY <3>1, <3>2
    <3> QED
      BY <1>1, <3>1, <3>2, <3>3 DEF RequestType
  <2> QED
    BY <2>1, <2>2 DEF ContextInv
<1>6. Punctual'
  BY <1>1 DEF Punctual, RequestType
<1> QED
  BY <1>2, <1>3, <1>5, <1>6

\* The deadline passes: the middleware writes its own answer.
LEMMA TimedOutInv == ASSUME Inv, NEW r \in Req, TimedOut(r) PROVE Inv'
<1> USE DEF Inv, TypeInv
<1>1. /\ conn[r] = "waiting" /\ expired[r] /\ conn' = [conn EXCEPT ![r] = "aborted"]
      /\ Write(r)
      /\ UNCHANGED <<storeVars, asked, handler, connVars, ctxOf, serving, answer, historyVars>>
  BY DEF TimedOut, ContextEnds
<1>2. RequestType'
  BY <1>1 DEF RequestType, connVars
<1>3. ContextType' /\ StoreInv' /\ ComesBefore' /\ AnswerComplete'
  BY <1>1, Kept
<1>4. AnswerType'
  BY <1>1, WriteType DEF AnswerType, historyVars
<1>5. ContextInv'
  BY <1>1 DEF ContextInv, RequestType, ContextType
<1>6. Punctual'
  BY <1>1 DEF Punctual, RequestType, connVars
<1>7. WrittenInv'
  BY <1>1 DEF WrittenInv, connVars
<1> QED
  BY <1>2, <1>3, <1>4, <1>5, <1>6, <1>7

\* The handler writes its answer: without timeouts, into its own response,
\* which is empty.
LEMMA RespondInv == ASSUME Inv, NEW r \in Req, Respond(r) PROVE Inv'
<1> USE DEF Inv, TypeInv
<1>1. /\ handler[r] = "respond" /\ handler' = [handler EXCEPT ![r] = "done"]
      /\ Write(r)
      /\ answer' = [answer EXCEPT ![r] = None]
      /\ known' = [known EXCEPT ![r] = {}] /\ since' = [since EXCEPT ![r] = 0]
      /\ UNCHANGED <<storeVars, asked, conn, connVars, ctxOf, serving>>
  BY DEF Respond
<1>2. conn[r] # "idle"
  BY <1>1 DEF ContextInv
<1>3. RequestType'
  BY <1>1 DEF RequestType, connVars
<1>4. ContextType' /\ StoreInv'
  BY <1>1, Kept
<1>5. AnswerType'
  BY <1>1, <1>2, WriteType DEF AnswerType
<1>6. ContextInv'
  BY <1>1, <1>2 DEF ContextInv, RequestType
<1>7. Punctual'
  BY <1>1 DEF Punctual, RequestType, connVars
<1>8. WrittenInv'
  <2> SUFFICES ASSUME \A x \in Req : ~expired[x], NEW x \in Req
               PROVE  written'[x] = IF handler'[x] = "done" THEN <<x>> ELSE <<>>
    BY <1>1 DEF WrittenInv, connVars
  <2>1. \A y \in Req : written[y] = IF handler[y] = "done" THEN <<y>> ELSE <<>>
    BY DEF WrittenInv
  <2>2. conn[r] = "waiting"
    BY <1>1, <1>2 DEF Punctual, RequestType
  <2>3. serving[ctxOf[r]] = r /\ r # None
    BY <2>2, GatewayAssumption DEF ContextInv, GatewayAssumption
  <2>4. written' = [written EXCEPT ![r] = Append(written[r], r)] /\ written[r] = <<>>
    BY <1>1, <2>1, <2>3 DEF Write
  <2>5. CASE x = r
    <3>1. written'[x] = Append(<<>>, r)
      BY <2>4, <2>5 DEF AnswerType
    <3>2. handler'[x] = "done"
      BY <1>1, <2>5 DEF RequestType
    <3> QED
      BY <2>5, <3>1, <3>2
  <2>6. CASE x # r
    BY <1>1, <2>1, <2>4, <2>6 DEF RequestType, AnswerType
  <2> QED
    BY <2>5, <2>6
<1>9. ComesBefore'
  <2> SUFFICES ASSUME NEW x \in Req
               PROVE  /\ known'[x] \subseteq gpus
                      /\ since'[x] <= Len(log)
                      /\ handler'[x] = "list" => asked[x].gpu = None
                      /\ handler'[x] \in {"gpu", "telemetry"} =>
                             asked[x].gpu # None /\ known'[x] \subseteq {asked[x].gpu}
                      /\ handler'[x] # "respond" => answer'[x] = None
    BY <1>1 DEF ComesBefore, storeVars
  <2>1. CASE x = r
    BY <1>1, <2>1 DEF RequestType, AnswerType
  <2>2. CASE x # r
    BY <1>1, <2>2 DEF ComesBefore, RequestType, AnswerType
  <2> QED
    BY <2>1, <2>2
<1>10. AnswerComplete'
  <2> SUFFICES ASSUME NEW x \in Req, answer'[x] # None
               PROVE  Stands(x, answer[x])'
    BY DEF AnswerComplete, UnknownIsUnknown, ListComplete, TelemetryComplete, WholeSeconds,
           Matches, Lasts, Stands
  <2>1. x # r /\ answer'[x] = answer[x]
    BY <1>1 DEF AnswerType
  <2>2. known'[x] = known[x] /\ since'[x] = since[x]
    BY <1>1, <2>1 DEF AnswerType
  <2>3. Stands(x, answer[x])
    BY <2>1, StandsIsComplete
  <2> QED
    BY <1>1, <2>1, <2>2, <2>3 DEF Stands, WholeSeconds, Matches, Lasts, storeVars
<1> QED
  BY <1>3, <1>4, <1>5, <1>6, <1>7, <1>8, <1>9, <1>10

LEMMA HandlerInv == ASSUME Inv, NEW r \in Req, Handler(r) PROVE Inv'
<1>1. \A status \in {400, 500} : Plain(status) \in Body /\ Stands(r, Plain(status))
  <2> SUFFICES ASSUME NEW status \in {400, 500}
               PROVE  Plain(status) \in Body /\ Stands(r, Plain(status))
    OBVIOUS
  <2>1. Plain(status).status = status
    BY DEF Plain
  <2> QED
    BY <2>1, PlainBody DEF Stands
<1>2. CASE Reject(r)
  BY <1>1, <1>2, HandleInv DEF Reject
<1>3. CASE GetGPU(r)
  <2>1. handler[r] = "gpu"
    BY <1>3 DEF GetGPU
  <2>2. CASE asked[r].gpu \in Registered
    <3>1. Handle(r, "telemetry", None)
      BY <1>3, <2>2 DEF GetGPU
    <3> QED
      BY <2>1, <3>1, HandleInv
  <2>3. CASE asked[r].gpu \notin Registered
    <3>1. Handle(r, "respond", Plain(404))
      BY <1>3, <2>3 DEF GetGPU
    <3>2. known[r] = {}
      BY <2>1, <2>3 DEF Inv, ComesBefore, Registered
    <3>3. Plain(404) \in Body /\ Stands(r, Plain(404))
      BY <3>2, PlainBody DEF Stands, Plain
    <3> QED
      BY <2>1, <3>1, <3>3, HandleInv
  <2> QED
    BY <2>2, <2>3
<1>4. CASE GetTelemetryByGPU(r)
  <2> DEFINE body == [Plain(200) EXCEPT !.records = Found(asked[r])]
  <2>1. handler[r] = "telemetry" /\ Handle(r, "respond", body)
    BY <1>4 DEF GetTelemetryByGPU
  <2>2. body \in Body /\ Stands(r, body)
    BY <2>1, TelemetryStands DEF Inv
  <2> HIDE DEF body
  <2> QED
    BY <2>1, <2>2, HandleInv
<1>5. CASE ListGPUs(r)
  <2>1. handler[r] = "list" /\ Handle(r, "respond", [Plain(200) EXCEPT !.listed = Store!ListGPUs])
    BY <1>5 DEF ListGPUs
  <2> QED
    BY <2>1, ListStands, HandleInv DEF Inv
<1>6. CASE CallFails(r)
  BY <1>1, <1>6, HandleInv DEF CallFails, Calling
<1>7. CASE CallEnds(r)
  BY <1>1, <1>7, HandleInv DEF CallEnds, Calling
<1>8. CASE Respond(r)
  BY <1>8, RespondInv
<1> QED
  BY <1>2, <1>3, <1>4, <1>5, <1>6, <1>7, <1>8 DEF Handler

LEMMA InvStep == Inv /\ [Next]_vars => Inv'
<1> SUFFICES ASSUME Inv, [Next]_vars PROVE Inv'
  OBVIOUS
<1>1. CASE Save
  BY <1>1, SaveInv
<1>2. ASSUME NEW r \in Req, NEW q \in Query, NEW c \in Context, Arrive(r, q, c) PROVE Inv'
  BY <1>2, ArriveInv
<1>3. ASSUME NEW r \in Req, Expire(r) \/ CutOff(r) PROVE Inv'
  BY <1>3, ExpireInv, CutOffInv
<1>4. ASSUME NEW r \in Req, TimeoutMiddleware(r) PROVE Inv'
  <2>1. CASE Completed(r)
    BY <2>1, ReturnInv DEF Completed, Done
  <2>2. CASE TimedOut(r)
    BY <2>2, TimedOutInv
  <2>3. CASE Abandon(r)
    BY <2>3, ReturnInv DEF Abandon
  <2> QED
    BY <1>4, <2>1, <2>2, <2>3 DEF TimeoutMiddleware
<1>5. ASSUME NEW r \in Req, Handler(r) PROVE Inv'
  BY <1>5, HandlerInv
<1>6. CASE UNCHANGED vars
  BY <1>6, Kept DEF vars, historyVars, connVars, Inv, TypeInv
<1> QED
  BY <1>1, <1>2, <1>3, <1>4, <1>5, <1>6 DEF Next

LEMMA Invariance == Spec => []Inv
BY InitInv, InvStep, PTL DEF Spec

\* No more calls fail than the bound of the model allows.
FaultsInv == faults \in 0..MaxFaults

LEMMA FaultsBounded == Spec => []FaultsInv
<1>1. Init => FaultsInv
  BY GatewayAssumption DEF GatewayAssumption, Init, FaultsInv
<1>2. FaultsInv /\ [Next]_vars => FaultsInv'
  <2> SUFFICES ASSUME faults \in 0..MaxFaults, [Next]_vars PROVE faults' \in 0..MaxFaults
    BY DEF FaultsInv
  <2>1. CASE faults' = faults
    BY <2>1
  <2>2. ASSUME NEW r \in Req, CallFails(r) PROVE faults' \in 0..MaxFaults
    BY <2>2, GatewayAssumption DEF GatewayAssumption, CallFails
  <2> QED
    BY <2>1, <2>2
    DEF Next, vars, Save, Arrive, Expire, CutOff, TimeoutMiddleware, Completed, TimedOut,
        Abandon, Handler, Reject, GetGPU, GetTelemetryByGPU, ListGPUs, CallEnds, Respond
<1> QED
  BY <1>1, <1>2, PTL DEF Spec

-----------------------------------------------------------------------------
(* The theorems.                                                           *)

\* Every reachable state of the gateway is well typed, the bodies it is about
\* to write included.
THEOREM TypeCorrect == Spec => []TypeOK
<1>1. Inv /\ FaultsInv => TypeOK
  <2> SUFFICES ASSUME Inv, FaultsInv PROVE TypeOK
    OBVIOUS
  <2>1. Store!TypeOK
    BY DEF Inv, StoreInv, Facts!StoreInv, Facts!TypeOK, Store!TypeOK
  <2>2. RequestType /\ ContextType /\ AnswerType
    BY DEF Inv, TypeInv
  <2> QED
    BY <2>1, <2>2 DEF RequestType, ContextType, AnswerType, FaultsInv, TypeOK
<1> QED
  BY <1>1, Invariance, FaultsBounded, PTL

\* Until the first timeout every request that is over has one answer, its own,
\* whole, however many requests share the pool of contexts.
THEOREM OneAnswerWithoutTimeouts == Spec => []OneAnswerEach
<1>1. Inv => OneAnswerEach
  BY DEF Inv, Punctual, WrittenInv, OneAnswerEach
<1> QED
  BY <1>1, Invariance, PTL

\* What an answer says stands when it is sent, also after timeouts: a known GPU
\* is not called unknown, and what was there when the request came and still is,
\* the GPUs of a list or the records of a GPU, is in its answer, whatever was
\* saved and evicted between its two calls.
THEOREM NothingIsLeftOut == Spec => []AnswerComplete
<1>1. Inv => AnswerComplete
  BY DEF Inv
<1> QED
  BY <1>1, Invariance, PTL

\* Until its middleware returns, a request is served by the context it was
\* given, and a context serves no request but such a one: gin reuses a context
\* only when nothing but an abandoned handler still holds it.
THEOREM ContextsAreNotShared == Spec => []ContextInv
BY Invariance, PTL DEF Inv
=============================================================================
