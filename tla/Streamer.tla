------------------------------ MODULE Streamer ------------------------------
(***************************************************************************)
(* A streamer and its way to the queue: LoadCSV and streamLoop of          *)
(* internal/streamer/streamer.go, which publishes the records of a file    *)
(* one after the other, over Publish of the in-memory queue in its own     *)
(* process or over the retrying HTTP client of pkg/mq/httpclient.go and    *)
(* publishMessage of pkg/mq/server.go.                                     *)
(*                                                                         *)
(* Message n is the one streamLoop makes of its n-th record, counted       *)
(* through all the rounds over the file.  The queue is the channel of the  *)
(* in-memory queue; what happens behind it is Take.                        *)
(***************************************************************************)
EXTENDS Integers, SequencesExt

CONSTANTS
    Columns, Empty, \* CSVParser
    File,         \* what may be at CSVFilePath
    Transports,   \* how the queue may be reached, by configuration
    BufferSize,   \* capacity of the queue's channel
    MaxRetries,   \* attempts of one Publish over HTTP (3 in the code)
    MaxFaults,    \* model bound: requests or answers lost on the way
    MaxMessages   \* model bound: messages of a behaviour

Parser == INSTANCE CSVParser

ASSUME StreamerAssumption ==
    /\ \A f \in File :
          /\ f.header \in Nat /\ f.lines \in Seq(Range(f.lines))
          /\ \A i \in DOMAIN f.lines : f.lines[i].columns \in Nat
    /\ Transports \subseteq {"local", "http"}
    /\ BufferSize \in Nat \ {0}
    /\ MaxRetries \in Nat \ {0}
    /\ MaxFaults \in Nat
    /\ MaxMessages \in Nat \ {0}

MessageNo == 1..MaxMessages
Attempt == 0..(MaxRetries - 1)
Code == {"ok", "failed"}

VARIABLES
    transport, \* how the queue is reached
    file,      \* the file
    records,   \* s.records
    pos,       \* the current record of the round
    pc,        \* where main, streamLoop and the Publish it calls are
    msg,       \* number of the current message
    attempt,   \* attempt of the HTTP client
    ctxDone,   \* s.ctx is cancelled
    requests,  \* requests on their way to the server
    answers,   \* answers on their way back
    faults,    \* requests and answers lost
    queue,     \* contents of the queue's channel
    closed,    \* whether the queue has been closed
    outcome,   \* what streamLoop took each message for
    content,   \* history: the record in each message, in the order made
    copies     \* history: how often the queue accepted each message

fileVars == <<file, records, pos, content>>
loopVars == <<pc, msg, attempt, outcome>>
netVars == <<requests, answers, faults>>
queueVars == <<queue, closed, copies>>
setup == <<transport, ctxDone, fileVars>>
vars == <<transport, file, records, pos, content, pc, msg, attempt, ctxDone, requests, answers, faults, queue,
          closed, outcome, copies>>

TypeOK ==
    /\ transport \in {"local", "http"}
    /\ file \in File
    /\ pos \in 1..(Len(records) + 1)
    /\ Len(content) <= MaxMessages
    /\ pc \in {"load", "next", "publish", "pressure", "await", "backoff", "interval", "stopped"}
    /\ msg \in MessageNo
    /\ attempt \in Attempt
    /\ ctxDone \in BOOLEAN
    /\ requests \subseteq MessageNo \X Attempt
    /\ answers \subseteq MessageNo \X Attempt \X Code
    /\ faults \in 0..MaxFaults
    /\ queue \in Seq(MessageNo)
    /\ closed \in BOOLEAN
    /\ outcome \in [MessageNo -> {"none", "published", "skipped"}]
    /\ copies \in [MessageNo -> Nat]

Init ==
    /\ transport \in Transports
    /\ file \in File
    /\ records = <<>>
    /\ pos = 1
    /\ content = <<>>
    /\ pc = "load"
    /\ msg = 1
    /\ attempt = 0
    /\ ctxDone = FALSE
    /\ requests = {}
    /\ answers = {}
    /\ faults = 0
    /\ queue = <<>>
    /\ closed = FALSE
    /\ outcome = [n \in MessageNo |-> "none"]
    /\ copies = [n \in MessageNo |-> 0]

-----------------------------------------------------------------------------
(* The queue.                                                              *)

HasRoom == Len(queue) < BufferSize

Enqueue(n) ==
    /\ queue' = Append(queue, n)
    /\ copies' = [copies EXCEPT ![n] = @ + 1]

Take ==
    /\ queue # <<>>
    /\ queue' = Tail(queue)
    /\ UNCHANGED <<loopVars, setup, netVars, closed, copies>>

CloseQueue ==
    /\ ~closed
    /\ closed' = TRUE
    /\ UNCHANGED <<loopVars, setup, netVars, queue, copies>>

-----------------------------------------------------------------------------
(* streamLoop.                                                             *)

\* LoadCSV, and Start: main exits where there is nothing to stream.
LoadCSV ==
    /\ pc = "load"
    /\ records' = Parser!Parse(file).records
    /\ pc' = IF records' = <<>> THEN "stopped" ELSE "next"
    /\ UNCHANGED <<msg, attempt, outcome, transport, ctxDone, file, pos, content,
                   netVars, queueVars>>

\* Stop, or a signal.
Cancel ==
    /\ ~ctxDone /\ pc # "load"
    /\ ctxDone' = TRUE
    /\ UNCHANGED <<transport, fileVars, loopVars, netVars, queueVars>>

NewMessage ==
    /\ pc = "next"
    /\ ~ctxDone
    /\ pc' = "publish"
    /\ attempt' = 0
    /\ content' = Append(content, records[pos])
    /\ UNCHANGED <<msg, outcome, transport, ctxDone, file, records, pos, netVars, queueVars>>

\* Every wait of the loop, and of the client below it, ends with the context.
WaitsButNotForAnswers == pc \notin {"load", "stopped", "await"}
WaitsForContext == pc \notin {"load", "stopped"}

Leave ==
    /\ ctxDone
    /\ WaitsForContext
    /\ pc' = "stopped"
    /\ UNCHANGED <<msg, attempt, outcome, setup, netVars, queueVars>>

\* Publish has returned: nil, or an error that is not ErrQueueFull, which with
\* the context done ends the loop instead.
AfterPublishAgain == "publish"
AfterPublish == "interval"

Returned(o) ==
    /\ outcome' = [outcome EXCEPT ![msg] = o]
    /\ pc' = AfterPublish
    /\ UNCHANGED <<msg, attempt>>

Skipped == ~ctxDone /\ Returned("skipped")

\* A round over the file is followed by the next.
FollowingUnlessRefused == IF outcome[msg] = "skipped" THEN 1 ELSE (pos % Len(records)) + 1
Following == (pos % Len(records)) + 1

NextRecord ==
    /\ pc = "interval"
    /\ msg < MaxMessages
    /\ msg' = msg + 1
    /\ pos' = Following
    /\ pc' = "next"
    /\ UNCHANGED <<attempt, outcome, transport, ctxDone, file, records, content,
                   netVars, queueVars>>

\* The in-memory queue in the same process: published, skipped because the
\* queue is closed, or full and to be tried again with the same record.
PublishAccepted ==
    /\ transport = "local" /\ pc = "publish"
    /\ ~ctxDone
    /\ ~closed /\ HasRoom
    /\ Enqueue(msg)
    /\ Returned("published")
    /\ UNCHANGED <<setup, netVars, closed>>

PublishClosed ==
    /\ transport = "local" /\ pc = "publish"
    /\ closed
    /\ Skipped
    /\ UNCHANGED <<setup, netVars, queueVars>>

FullSkips == pc' = "interval" /\ outcome' = [outcome EXCEPT ![msg] = "skipped"]
FullWaits == pc' = "pressure" /\ UNCHANGED outcome

PublishFull ==
    /\ transport = "local" /\ pc = "publish"
    /\ ~ctxDone
    /\ ~closed /\ ~HasRoom
    /\ FullWaits
    /\ UNCHANGED <<msg, attempt, setup, netVars, queueVars>>

PressureOver ==
    /\ pc = "pressure"
    /\ pc' = "publish"
    /\ UNCHANGED <<msg, attempt, outcome, setup, netVars, queueVars>>

-----------------------------------------------------------------------------
(* The HTTP client: up to MaxRetries requests for one Publish.             *)

SendRequest ==
    /\ transport = "http" /\ pc = "publish"
    /\ requests' = requests \cup {<<msg, attempt>>}
    /\ pc' = "await"
    /\ UNCHANGED <<msg, attempt, outcome, setup, answers, faults, queueVars>>

RetriesLeftOneMore == attempt < MaxRetries
RetriesLeft == attempt < MaxRetries - 1

Retry == pc' = "backoff" /\ UNCHANGED <<msg, attempt, outcome>>

AnswerOK ==
    /\ pc = "await"
    /\ <<msg, attempt, "ok">> \in answers
    /\ answers' = answers \ {<<msg, attempt, "ok">>}
    /\ Returned("published")
    /\ UNCHANGED <<setup, requests, faults, queueVars>>

AnswerFailed ==
    /\ pc = "await"
    /\ <<msg, attempt, "failed">> \in answers
    /\ answers' = answers \ {<<msg, attempt, "failed">>}
    /\ IF RetriesLeft THEN Retry ELSE Skipped
    /\ UNCHANGED <<setup, requests, faults, queueVars>>

\* The connection breaks while the request is on its way, which it may still
\* complete, or after it has been answered.
ConnectionBreaks ==
    /\ pc = "await"
    /\ faults < MaxFaults
    /\ faults' = faults + 1
    /\ requests' \in {requests, requests \ {<<msg, attempt>>}}
    /\ answers' = answers \ ({msg} \X {attempt} \X Code)
    /\ pc' = "backoff"
    /\ UNCHANGED <<msg, attempt, outcome, setup, queueVars>>

\* The pause before the next attempt; after the last one Publish returns the
\* error.
BackoffOver ==
    /\ pc = "backoff"
    /\ IF RetriesLeft
         THEN pc' = "publish" /\ attempt' = attempt + 1 /\ UNCHANGED <<msg, outcome>>
         ELSE Skipped
    /\ UNCHANGED <<setup, netVars, queueVars>>

-----------------------------------------------------------------------------
(* publishMessage.                                                         *)

\* Every error of the queue's Publish, ErrQueueFull too, is answered with
\* status 500.
Refusal == "failed"

\* Nobody waits any more for the answer to an earlier attempt.
Answered(n, a, code) ==
    /\ requests' = requests \ {<<n, a>>}
    /\ answers' = IF pc = "await" /\ <<n, a>> = <<msg, attempt>>
                    THEN answers \cup {<<n, a, code>>} ELSE answers

ServeAccept(n, a) ==
    /\ <<n, a>> \in requests
    /\ ~closed /\ HasRoom
    /\ Enqueue(n)
    /\ Answered(n, a, "ok")
    /\ UNCHANGED <<loopVars, setup, faults, closed>>

ServeRefuse(n, a) ==
    /\ <<n, a>> \in requests
    /\ closed \/ ~HasRoom
    /\ Answered(n, a, Refusal)
    /\ UNCHANGED <<loopVars, setup, faults, queueVars>>

-----------------------------------------------------------------------------

Loop == LoadCSV \/ NewMessage \/ NextRecord \/ PublishAccepted \/ PublishClosed \/ PublishFull \/ PressureOver
Client == SendRequest \/ AnswerOK \/ AnswerFailed \/ BackoffOver
Server == \E n \in MessageNo, a \in Attempt : ServeAccept(n, a) \/ ServeRefuse(n, a)

Next ==
    \/ Loop \/ Leave \/ Client \/ ConnectionBreaks \/ Server
    \/ Take \/ CloseQueue \/ Cancel

Spec == Init /\ [][Next]_vars

\* The streamer's goroutine runs, and a cancelled context ends its waits.
Fairness == WF_vars(Loop \/ Client) /\ WF_vars(Leave)
FairSpec == Spec /\ Fairness

-----------------------------------------------------------------------------
(* Properties.                                                             *)

\* A file is streamed whole or not at all: when every line of it that is not
\* blank is a record, the messages hold those records in the order of the file,
\* round after round, whatever was refused or skipped on the way; a single
\* line that is none keeps all the others from being streamed.
WholeFileInOrder ==
    LET lines == file.lines
        rows == {i \in DOMAIN lines : lines[i].columns # 0}
        isRecord(l) == l.columns = Columns /\ l.uuid # Empty
    IN  content # <<>> =>
          /\ file.header = Columns /\ rows # {} /\ \A i \in rows : isRecord(lines[i])
          /\ \A n \in DOMAIN content : \E i \in rows :
                /\ Cardinality({j \in rows : j < i}) = (n - 1) % Cardinality(rows)
                /\ content[n] = [gpu |-> lines[i].uuid, says |-> lines[i].says]

\* A record the streamer takes for published is in the queue, or was; one
\* Publish puts at most MaxRetries copies there, and more than one only if an
\* answer was lost.
CopiesAccountedFor ==
    \A n \in MessageNo :
        /\ outcome[n] = "published" => copies[n] > 0
        /\ copies[n] + Cardinality({r \in requests : r[1] = n}) <= MaxRetries
        /\ copies[n] > 1 => faults > 0

\* In one process no record is queued twice, those queued are in order, and
\* none is skipped before the queue is closed.
ExactlyOnceInOrder ==
    transport = "local" =>
        /\ \A n \in MessageNo :
              /\ copies[n] <= 1 /\ (copies[n] = 1 <=> outcome[n] = "published")
              /\ outcome[n] = "skipped" => closed
        /\ \A i, j \in DOMAIN queue : i < j => queue[i] < queue[j]

\* As long as the queue's consumers keep taking messages, every record is
\* published in one process, however full the queue gets, unless the streamer
\* is stopped or the queue closed.
EveryRecordPublished ==
    WF_vars(Take) =>
        \A n \in MessageNo :
            (transport = "local" /\ pc = "publish" /\ msg = n)
                ~> (outcome[n] = "published" \/ ctxDone \/ closed)

\* Stop returns, also while the queue is full or the server does not answer.
StopReturns == ctxDone ~> pc = "stopped"
=============================================================================
