------------------------------ MODULE Gateway ------------------------------
(***************************************************************************)
(* The API gateway: the two handlers of pkg/api/handlers.go under          *)
(* TimeoutMiddleware of pkg/api/middleware.go and the deadlines of the     *)
(* server of cmd/api-gateway/main.go, over the HTTP repository of          *)
(* pkg/storage/httpclient.go and a storage service that keeps its records  *)
(* in a MemoryStore.                                                       *)
(*                                                                         *)
(* TimeoutMiddleware runs the handler in a goroutine of its own and        *)
(* returns without it when the deadline passes.  gin then puts the         *)
(* request's context back into its pool and may serve the next request     *)
(* with it; what is written through a context goes to the response of the  *)
(* request it serves at that moment.                                       *)
(***************************************************************************)
EXTENDS Integers, Sequences

CONSTANTS
    Gpu, Instant, Record, None, MaxRecords, EvictShare, MaxSaves,  \* MemoryStore
    Second,       \* instants to a second
    Req,          \* requests
    Query,        \* what a request may ask for; no GPU for GET /gpus
    Context,      \* gin contexts
    MaxFaults     \* model bound: repository calls that fail before the deadline

VARIABLES
    gpus, telemetry, gpuTelemetryIndex, gpusWithTelemetry, log,
    asked,      \* the query of each request
    conn,       \* where TimeoutMiddleware is
    handler,    \* where the handler is, in the goroutine it spawned
    expired,    \* whether the request's context has ended
    cut,        \* whether the connection's write deadline has passed
    ctxOf,      \* context a request was given
    serving,    \* request a context serves, None while it is in the pool
    answer,     \* what the handler is about to write
    written,    \* the response of each request: for whom each body in it is
    reached,    \* whether the response reached the client whole
    faults,     \* calls that failed
    known,      \* history: the GPUs asked for that were known when it came
    since       \* history: how many records had been saved by then

Store == INSTANCE MemoryStore

storeVars == <<gpus, telemetry, gpuTelemetryIndex, gpusWithTelemetry, log>>
historyVars == <<known, since>>
connVars == <<expired, cut, reached>>
vars == <<storeVars, asked, conn, handler, expired, cut, ctxOf, serving, answer,
          written, reached, faults, known, since>>

ASSUME GatewayAssumption ==
    /\ Store!StoreAssumption
    /\ Second \in Nat \ {0}
    /\ Query \subseteq [gpu : Gpu \cup {None}, start : Instant \cup {None}, end : Instant \cup {None}]
    /\ None \notin Req
    /\ MaxFaults \in Nat

Body ==
    [status : {200, 400, 404, 500}, records : Seq(Record), listed : SUBSET Gpu]

TypeOK ==
    /\ Store!TypeOK
    /\ asked \in [Req -> Query \cup {None}]
    /\ conn \in [Req -> {"idle", "waiting", "aborted", "returned"}]
    /\ handler \in [Req -> {"none", "list", "gpu", "telemetry", "respond", "done"}]
    /\ expired \in [Req -> BOOLEAN]
    /\ cut \in [Req -> BOOLEAN]
    /\ ctxOf \in [Req -> Context \cup {None}]
    /\ serving \in [Context -> Req \cup {None}]
    /\ answer \in [Req -> Body \cup {None}]
    /\ written \in [Req -> Seq(Req)]
    /\ reached \in [Req -> BOOLEAN]
    /\ faults \in 0..MaxFaults
    /\ known \in [Req -> SUBSET Gpu]
    /\ since \in [Req -> Nat]

Init ==
    /\ Store!Init
    /\ asked = [r \in Req |-> None]
    /\ conn = [r \in Req |-> "idle"]
    /\ handler = [r \in Req |-> "none"]
    /\ expired = [r \in Req |-> FALSE]
    /\ cut = [r \in Req |-> FALSE]
    /\ ctxOf = [r \in Req |-> None]
    /\ serving = [c \in Context |-> None]
    /\ answer = [r \in Req |-> None]
    /\ written = [r \in Req |-> <<>>]
    /\ reached = [r \in Req |-> FALSE]
    /\ faults = 0
    /\ known = [r \in Req |-> {}]
    /\ since = [r \in Req |-> 0]

-----------------------------------------------------------------------------
(* The storage service, fed by the collectors.                             *)

Save ==
    /\ \/ \E g \in Gpu : Store!SaveGPU(g)
       \/ \E rec \in Record : Store!SaveTelemetry(rec)
    /\ UNCHANGED <<asked, conn, handler, connVars, ctxOf, serving, answer, written,
                   faults, historyVars>>

-----------------------------------------------------------------------------
(* TimeoutMiddleware, and gin around it.                                   *)

\* A request is given a context nobody uses, and its handler a goroutine.
Arrive(r, q, c) ==
    /\ conn[r] = "idle"
    /\ serving[c] = None
    /\ asked' = [asked EXCEPT ![r] = q]
    /\ conn' = [conn EXCEPT ![r] = "waiting"]
    /\ handler' = [handler EXCEPT ![r] = IF q.gpu = None THEN "list" ELSE "gpu"]
    /\ ctxOf' = [ctxOf EXCEPT ![r] = c]
    /\ serving' = [serving EXCEPT ![c] = r]
    /\ known' = [known EXCEPT ![r] = IF q.gpu = None THEN Store!ListGPUs ELSE {q.gpu} \cap gpus]
    /\ since' = [since EXCEPT ![r] = Len(log)]
    /\ UNCHANGED <<storeVars, connVars, answer, written, faults>>

\* The request's context ends: the middleware would end it after 30 s, but the
\* server's ReadTimeout of 15 s, which net/http lets end a running request's
\* context too, comes first.
Expire(r) ==
    /\ conn[r] = "waiting"
    /\ ~expired[r]
    /\ expired' = [expired EXCEPT ![r] = TRUE]
    /\ UNCHANGED <<storeVars, asked, conn, handler, cut, ctxOf, serving, answer,
                   written, reached, faults, historyVars>>

\* The WriteTimeout, also of 15 s, is counted from a moment later.
BeforeWriteDeadlineAny(r) == FALSE
BeforeWriteDeadline(r) == ~expired[r]

CutOff(r) ==
    /\ conn[r] \in {"waiting", "aborted"}
    /\ ~cut[r]
    /\ ~BeforeWriteDeadline(r)
    /\ cut' = [cut EXCEPT ![r] = TRUE]
    /\ UNCHANGED <<storeVars, asked, conn, handler, expired, ctxOf, serving, answer,
                   written, reached, faults, historyVars>>

\* An answer that holds nothing but its status.
Plain(status) == [status |-> status, records |-> <<>>, listed |-> {}]

\* A body for r goes to the request that r's context serves at the moment.
Write(r) ==
    LET to == serving[ctxOf[r]] IN
    written' = IF to = None THEN written ELSE [written EXCEPT ![to] = Append(@, r)]

\* The end of the response is sent when everything around it has returned.
Return(r) ==
    /\ conn' = [conn EXCEPT ![r] = "returned"]
    /\ reached' = [reached EXCEPT ![r] = ~cut[r]]
    /\ serving' = [serving EXCEPT ![ctxOf[r]] = None]

DoneEarly(r) == TRUE
Done(r) == handler[r] = "done"

Completed(r) ==
    /\ conn[r] = "waiting"
    /\ Done(r)
    /\ Return(r)
    /\ UNCHANGED <<storeVars, asked, handler, expired, cut, ctxOf, answer, written,
                   faults, historyVars>>

\* The deadline ends the request's context, for the middleware and for the
\* repository calls made with it.
ContextEndsNever(r) == FALSE
ContextEnds(r) == expired[r]

\* The deadline passes: the middleware answers 408 for the handler, and returns.
TimedOut(r) ==
    /\ conn[r] = "waiting"
    /\ ContextEnds(r)
    /\ conn' = [conn EXCEPT ![r] = "aborted"]
    /\ Write(r)
    /\ UNCHANGED <<storeVars, asked, handler, connVars, ctxOf, serving, answer,
                   faults, historyVars>>

Abandon(r) ==
    /\ conn[r] = "aborted"
    /\ Return(r)
    /\ UNCHANGED <<storeVars, asked, handler, expired, cut, ctxOf, answer, written,
                   faults, historyVars>>

-----------------------------------------------------------------------------
(* The handler.                                                            *)

\* The HTTP repository sends times in whole seconds.
Sent(t) == IF t = None THEN None ELSE t - (t % Second)
BoundsSwapped(q) == <<Sent(q.end), Sent(q.start)>>
Bounds(q) == <<Sent(q.start), Sent(q.end)>>

\* What the storage service answers.
Found(q) == Store!GetTelemetryByGPU(q.gpu, Bounds(q)[1], Bounds(q)[2])

InvalidRange(q) == q.start # None /\ q.end # None /\ q.start > q.end

Handle(r, state, body) ==
    /\ handler' = [handler EXCEPT ![r] = state]
    /\ answer' = [answer EXCEPT ![r] = body]
    /\ UNCHANGED <<storeVars, asked, conn, connVars, ctxOf, serving, written, historyVars>>

Reject(r) ==
    /\ handler[r] = "gpu"
    /\ InvalidRange(asked[r])
    /\ Handle(r, "respond", Plain(400))
    /\ UNCHANGED faults

\* The GPUs the storage service answers for.
RegisteredWithTelemetry == Store!ListGPUs
Registered == gpus

GetGPU(r) ==
    /\ handler[r] = "gpu"
    /\ ~InvalidRange(asked[r])
    /\ IF asked[r].gpu \in Registered
         THEN Handle(r, "telemetry", None)
         ELSE Handle(r, "respond", Plain(404))
    /\ UNCHANGED faults

GetTelemetryByGPU(r) ==
    /\ handler[r] = "telemetry"
    /\ Handle(r, "respond", [Plain(200) EXCEPT !.records = Found(asked[r])])
    /\ UNCHANGED faults

ListGPUs(r) ==
    /\ handler[r] = "list"
    /\ Handle(r, "respond", [Plain(200) EXCEPT !.listed = Store!ListGPUs])
    /\ UNCHANGED faults

Calling(r) == handler[r] \in {"list", "gpu", "telemetry"} /\ ~InvalidRange(asked[r])

CallFails(r) ==
    /\ Calling(r)
    /\ faults < MaxFaults
    /\ faults' = faults + 1
    /\ Handle(r, "respond", Plain(500))

\* A repository call ends with the request's context.
CallEnds(r) ==
    /\ Calling(r)
    /\ ContextEnds(r)
    /\ Handle(r, "respond", Plain(500))
    /\ UNCHANGED faults

Respond(r) ==
    /\ handler[r] = "respond"
    /\ handler' = [handler EXCEPT ![r] = "done"]
    /\ Write(r)
    /\ answer' = [answer EXCEPT ![r] = None]
    /\ known' = [known EXCEPT ![r] = {}]
    /\ since' = [since EXCEPT ![r] = 0]
    /\ UNCHANGED <<storeVars, asked, conn, connVars, ctxOf, serving, faults>>

-----------------------------------------------------------------------------

TimeoutMiddleware(r) == Completed(r) \/ TimedOut(r) \/ Abandon(r)
Handler(r) ==
    \/ Reject(r) \/ GetGPU(r) \/ GetTelemetryByGPU(r) \/ ListGPUs(r)
    \/ CallFails(r) \/ CallEnds(r) \/ Respond(r)

Next ==
    \/ Save
    \/ \E r \in Req :
          \/ \E q \in Query, c \in Context : Arrive(r, q, c)
          \/ Expire(r) \/ CutOff(r)
          \/ TimeoutMiddleware(r)
          \/ Handler(r)

Spec == Init /\ [][Next]_vars

\* Time passes and the gateway's goroutines run; the storage service may hang.
Fairness ==
    \A r \in Req :
        /\ WF_vars(Expire(r))
        /\ WF_vars(TimeoutMiddleware(r))
        /\ WF_vars(Reject(r) \/ CallEnds(r) \/ Respond(r))

FairSpec == Spec /\ Fairness

-----------------------------------------------------------------------------
(* Properties.                                                             *)

\* What a request is sent was written for it.
AnswersAreOwn ==
    \A r \in Req : \A i \in DOMAIN written[r] : written[r][i] = r

\* Until the first timeout every request that is over has one answer, its own,
\* and the client has got it: no deadline of the connection is shorter than
\* what the handler is given.
OneAnswerEach ==
    (\A r \in Req : ~expired[r]) =>
        \A r \in Req :
            /\ written[r] \in {<<>>, <<r>>}
            /\ conn[r] = "returned" => written[r] = <<r>> /\ reached[r]

WholeSeconds(q) == \A t \in {q.start, q.end} \ {None} : t % Second = 0

\* Whether the record saved as the p-th is still stored.
Lasts(p) == p > Len(log) - Len(telemetry)

Matches(q, rec) ==
    /\ rec.gpu = q.gpu
    /\ q.start = None \/ q.start <= rec.time
    /\ q.end = None \/ rec.time <= q.end

\* A GPU that was known when the request came is not called unknown.
UnknownIsUnknown(r) == answer[r].status = 404 => known[r] = {}

\* Only known GPUs are listed, and all whose telemetry was listed when the
\* request came and still is.
ListComplete(r) ==
    (answer[r].status = 200 /\ asked[r].gpu = None) =>
        /\ answer[r].listed \subseteq gpus
        /\ \A g \in known[r] :
              (\E p \in 1..since[r] : Lasts(p) /\ log[p].gpu = g)
                  => g \in answer[r].listed

\* A request with bounds in whole seconds is sent only records that match it,
\* and all of those that were there when it came and still are.
TelemetryComplete(r) ==
    (answer[r].status = 200 /\ asked[r].gpu # None /\ WholeSeconds(asked[r])) =>
        LET found == {answer[r].records[i] : i \in DOMAIN answer[r].records} IN
            /\ \A rec \in found : Matches(asked[r], rec)
            /\ \A p \in 1..since[r] :
                  (Lasts(p) /\ Matches(asked[r], log[p])) => log[p] \in found

\* What was there when the request came and still is, is in its answer, saves
\* and evictions between its two calls notwithstanding.
AnswerComplete ==
    \A r \in Req : answer[r] # None =>
        UnknownIsUnknown(r) /\ ListComplete(r) /\ TelemetryComplete(r)

\* Every request is over some time, also when the storage service hangs, and no
\* handler outlives its request for ever.
RequestsEnd ==
    \A r \in Req : conn[r] = "waiting" ~> (conn[r] = "returned" /\ handler[r] = "done")
=============================================================================
