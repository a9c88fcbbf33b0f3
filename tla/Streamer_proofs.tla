-------------------------- MODULE Streamer_proofs --------------------------
(***************************************************************************)
(* Machine-checked facts about Streamer, for any files, channel capacity,  *)
(* number of attempts and of faults.                                       *)
(***************************************************************************)
EXTENDS Streamer, FiniteSetTheorems, SequenceTheorems, NaturalsInduction, TLAPS

-----------------------------------------------------------------------------
(* The inductive invariant.                                                *)

\* The types of what decides how often a record is published.
TypeInv ==
    /\ transport \in {"local", "http"}
    /\ pc \in {"load", "next", "publish", "pressure", "await", "backoff", "interval", "stopped"}
    /\ msg \in MessageNo
    /\ attempt \in Attempt
    /\ ctxDone \in BOOLEAN
    /\ requests \subseteq MessageNo \X Attempt /\ IsFiniteSet(requests)
    /\ answers \subseteq MessageNo \X Attempt \X Code
    /\ faults \in 0..MaxFaults
    /\ queue \in Seq(MessageNo)
    /\ closed \in BOOLEAN
    /\ outcome \in [MessageNo -> {"none", "published", "skipped"}]
    /\ copies \in [MessageNo -> Nat]

\* Where the current message has not been decided about.
Undecided == {"load", "next", "publish", "pressure"}

\* The only answer there can be is the one to the attempt that is waited for,
\* or was when the loop stopped; it says ok only if the message was accepted.
AnswerInv ==
    /\ answers # {} => pc \in {"await", "stopped"}
    /\ \A x \in answers : x[1] = msg /\ x[2] = attempt /\ <<x[1], x[2]>> \notin requests
    /\ \A x, y \in answers : x = y
    /\ \A x \in answers : x[3] = "ok" => copies[x[1]] > 0

Of(R, n) == {r \in R : r[1] = n}
InFlight(n) == Cardinality(Of(requests, n))

\* How many requests the client can have sent for a message by now, and how
\* many copies the loop may have queued in one process.
Sent(n) ==
    IF n > msg THEN 0
    ELSE IF n < msg \/ pc \in {"interval", "stopped"} THEN MaxRetries
    ELSE IF pc \in {"await", "backoff"} THEN attempt + 1
    ELSE IF pc \in {"publish", "pressure"} THEN attempt
    ELSE 0

\* What a message has cost so far: copies queued and requests under way.
Spent(n) == copies[n] + InFlight(n)

\* A copy is a request that was accepted, so copies and requests under way are
\* together no more than the requests sent.
SentInv == \A n \in MessageNo : Spent(n) <= Sent(n)

\* Without a fault every attempt but the last has been refused: nothing is
\* spent when the next one is made.
Refused == pc = "await" /\ <<msg, attempt, "failed">> \in answers
OneAttemptCounts ==
    faults = 0 =>
        \A n \in MessageNo :
            /\ Spent(n) <= 1
            /\ n = msg /\ (pc \in {"publish", "pressure", "backoff"} \/ Refused) => Spent(n) = 0

\* In one process nothing is on its way, and a record is queued as the loop
\* takes it for published.
LocalInv ==
    transport = "local" =>
        /\ requests = {} /\ pc \notin {"await", "backoff"}
        /\ \A n \in MessageNo :
              n > msg \/ (n = msg /\ pc \in Undecided) => outcome[n] = "none"
        /\ \A i \in DOMAIN queue :
              queue[i] < msg \/ (queue[i] = msg /\ pc \in {"interval", "stopped"})

PublishedInv == \A n \in MessageNo : outcome[n] = "published" => copies[n] > 0

\* The loop's rounds over the records: which record is the current one, and
\* which is in each message made so far.
RoundInv ==
    /\ file \in File
    /\ records # <<>> => records = Parser!Parse(file).records
    /\ pc = "load" => records = <<>> /\ msg = 1
    /\ pc \notin {"load", "stopped"} => records # <<>>
    /\ content \in Seq({records[k] : k \in 1..Len(records)})
    /\ records = <<>> => content = <<>> /\ pos = 1
    /\ Len(content) <= msg
    /\ pc \in {"load", "next"} => Len(content) = msg - 1
    /\ pc \notin {"load", "next", "stopped"} => Len(content) = msg
    /\ records # <<>> => pos = ((msg - 1) % Len(records)) + 1
    /\ \A n \in 1..Len(content) : content[n] = records[((n - 1) % Len(records)) + 1]

Inv ==
    /\ TypeInv /\ AnswerInv /\ SentInv /\ OneAttemptCounts /\ PublishedInv
    /\ LocalInv /\ ExactlyOnceInOrder /\ RoundInv

-----------------------------------------------------------------------------
(* Counting requests.                                                      *)

LEMMA OfType ==
    ASSUME NEW R, IsFiniteSet(R), NEW n
    PROVE  IsFiniteSet(Of(R, n)) /\ Cardinality(Of(R, n)) \in Nat
<1>1. Of(R, n) \in SUBSET R
  BY DEF Of
<1>2. IsFiniteSet(Of(R, n))
  BY <1>1, FS_Subset
<1> QED
  BY <1>2, FS_CardinalityType

\* A request that is lost.
LEMMA OfFewer ==
    ASSUME NEW R, IsFiniteSet(R), NEW T, T \subseteq R, NEW n
    PROVE  Cardinality(Of(T, n)) <= Cardinality(Of(R, n))
<1>1. Of(T, n) \in SUBSET Of(R, n)
  BY DEF Of
<1> QED
  BY <1>1, OfType, FS_Subset

\* A request that is sent, perhaps like one that is still under way.
LEMMA OfAdded ==
    ASSUME NEW R, IsFiniteSet(R), NEW k, NEW a
    PROVE  Cardinality(Of(R \cup {<<k, a>>}, k)) <= Cardinality(Of(R, k)) + 1
<1> DEFINE S == Of(R, k)
<1>1. Of(R \cup {<<k, a>>}, k) = S \cup {<<k, a>>}
  BY DEF Of
<1>2. IsFiniteSet(S) /\ Cardinality(S) \in Nat
  BY OfType
<1> HIDE DEF S
<1>3. Cardinality(S \cup {<<k, a>>}) \in {Cardinality(S), Cardinality(S) + 1}
  BY <1>2, FS_AddElement
<1>4. Cardinality(S \cup {<<k, a>>}) <= Cardinality(S) + 1
  BY <1>2, <1>3
<1> QED
  BY <1>1, <1>4 DEF S

\* A request that is answered.
LEMMA OfAnswered ==
    ASSUME NEW R, IsFiniteSet(R), NEW k, NEW a, <<k, a>> \in R, NEW n
    PROVE  /\ n # k => Of(R \ {<<k, a>>}, n) = Of(R, n)
           /\ Cardinality(Of(R \ {<<k, a>>}, k)) = Cardinality(Of(R, k)) - 1
<1>1. n # k => Of(R \ {<<k, a>>}, n) = Of(R, n)
  BY DEF Of
<1>2. Of(R \ {<<k, a>>}, k) = Of(R, k) \ {<<k, a>>} /\ <<k, a>> \in Of(R, k)
  BY DEF Of
<1>3. IsFiniteSet(Of(R, k))
  BY OfType
<1> QED
  BY <1>1, <1>2, <1>3, FS_RemoveElement

LEMMA OfNone == \A n : Cardinality(Of({}, n)) = 0
BY FS_EmptySet DEF Of

-----------------------------------------------------------------------------
(* Types.                                                                  *)

LEMMA Numbers ==
    /\ MessageNo \subseteq Nat \ {0} /\ Attempt \subseteq Nat
    /\ MaxRetries \in Nat \ {0} /\ 0 \in Attempt /\ 1 \in MessageNo
    /\ \A a \in Attempt : a + 1 <= MaxRetries
    /\ MaxFaults \in Nat
BY StreamerAssumption DEF MessageNo, Attempt, StreamerAssumption

LEMMA InitRounds == Init => RoundInv
<1> SUFFICES ASSUME Init PROVE RoundInv
  OBVIOUS
<1>1. records = <<>> /\ content = <<>> /\ pos = 1 /\ msg = 1 /\ pc = "load" /\ file \in File
  BY DEF Init
<1>2. Len(content) = 0 /\ content \in Seq({records[k] : k \in 1..Len(records)})
  BY <1>1
<1> QED
  BY <1>1, <1>2 DEF RoundInv

LEMMA InitInv == Init => Inv
<1> SUFFICES ASSUME Init PROVE Inv
  OBVIOUS
<1> USE Numbers DEF Init
<1>1. TypeInv
  <2>1. transport \in {"local", "http"}
    BY StreamerAssumption DEF StreamerAssumption
  <2>2. IsFiniteSet(requests)
    BY FS_EmptySet
  <2>3. queue \in Seq(MessageNo) /\ faults \in 0 .. MaxFaults
    OBVIOUS
  <2>4. outcome \in [MessageNo -> {"none", "published", "skipped"}] /\ copies \in [MessageNo -> Nat]
    OBVIOUS
  <2> QED
    BY <2>1, <2>2, <2>3, <2>4 DEF TypeInv
<1>2. AnswerInv /\ PublishedInv /\ LocalInv /\ ExactlyOnceInOrder
  BY DEF AnswerInv, PublishedInv, LocalInv, ExactlyOnceInOrder, Undecided
<1>3. \A n \in MessageNo : Spent(n) = 0
  BY OfNone DEF InFlight, Spent
<1>4. SentInv /\ OneAttemptCounts
  BY <1>3 DEF SentInv, OneAttemptCounts, Sent
<1> QED
  BY <1>1, <1>2, <1>4, InitRounds DEF Inv

LEMMA TypeStep ==
    ASSUME TypeInv, [Next]_vars
    PROVE  TypeInv'
<1> USE Numbers DEF TypeInv, loopVars, setup, fileVars, netVars, queueVars
<1>1. CASE LoadCSV \/ NewMessage \/ PublishFull \/ PressureOver \/ Leave
  BY <1>1 DEF LoadCSV, NewMessage, PublishFull, FullWaits, PressureOver, Leave
<1>2. CASE NextRecord
  <2>1. msg' \in MessageNo
    BY <1>2, StreamerAssumption DEF NextRecord, MessageNo, StreamerAssumption
  <2> QED
    BY <1>2, <2>1 DEF NextRecord
<1>3. ASSUME NEW n \in MessageNo, Enqueue(n)
      PROVE  queue' \in Seq(MessageNo) /\ copies' \in [MessageNo -> Nat]
  BY <1>3 DEF Enqueue
<1>4. ASSUME NEW o \in {"published", "skipped"}, Returned(o)
      PROVE  /\ outcome' \in [MessageNo -> {"none", "published", "skipped"}]
             /\ pc' = "interval" /\ msg' \in MessageNo /\ attempt' \in Attempt
  BY <1>4 DEF Returned, AfterPublish
<1>5. CASE PublishAccepted
  BY <1>3, <1>4, <1>5 DEF PublishAccepted
<1>6. CASE PublishClosed
  BY <1>4, <1>6 DEF PublishClosed, Skipped
<1>7. CASE SendRequest
  <2>1. requests' \subseteq MessageNo \X Attempt
    BY <1>7 DEF SendRequest
  <2>2. IsFiniteSet(requests')
    BY <1>7, FS_AddElement DEF SendRequest
  <2> QED
    BY <1>7, <2>1, <2>2 DEF SendRequest
<1>8. CASE AnswerOK
  BY <1>4, <1>8 DEF AnswerOK
<1>9. CASE AnswerFailed
  <2>1. CASE RetriesLeft
    BY <1>9, <2>1 DEF AnswerFailed, Retry
  <2>2. CASE ~RetriesLeft
    BY <1>4, <1>9, <2>2 DEF AnswerFailed, Skipped
  <2> QED
    BY <2>1, <2>2
<1>10. CASE BackoffOver
  <2>1. CASE RetriesLeft
    <3>1. attempt' \in Attempt /\ pc' = "publish" /\ UNCHANGED <<msg, outcome>>
      BY <1>10, <2>1 DEF BackoffOver, RetriesLeft, Attempt
    <3> QED
      BY <1>10, <3>1 DEF BackoffOver
  <2>2. CASE ~RetriesLeft
    BY <1>4, <1>10, <2>2 DEF BackoffOver, Skipped
  <2> QED
    BY <2>1, <2>2
<1>11. CASE ConnectionBreaks
  <2>1. requests' \in SUBSET requests /\ answers' \subseteq answers
    BY <1>11 DEF ConnectionBreaks
  <2>2. IsFiniteSet(requests')
    BY <2>1, FS_Subset
  <2>3. faults' \in 0 .. MaxFaults
    BY <1>11 DEF ConnectionBreaks
  <2> QED
    BY <1>11, <2>1, <2>2, <2>3 DEF ConnectionBreaks
<1>12. ASSUME NEW n \in MessageNo, NEW a \in Attempt, NEW code \in Code, Answered(n, a, code)
       PROVE  /\ requests' \subseteq MessageNo \X Attempt /\ IsFiniteSet(requests')
              /\ answers' \subseteq MessageNo \X Attempt \X Code
  <2>1. requests' \in SUBSET requests
    BY <1>12 DEF Answered
  <2>2. IsFiniteSet(requests')
    BY <2>1, FS_Subset
  <2>3. answers' \subseteq answers \cup {<<n, a, code>>}
    BY <1>12 DEF Answered
  <2> QED
    BY <2>1, <2>2, <2>3
<1>13. ASSUME NEW n \in MessageNo, NEW a \in Attempt, ServeAccept(n, a) PROVE TypeInv'
  BY <1>3, <1>12, <1>13 DEF ServeAccept, Code
<1>14. ASSUME NEW n \in MessageNo, NEW a \in Attempt, ServeRefuse(n, a) PROVE TypeInv'
  BY <1>12, <1>14 DEF ServeRefuse, Refusal, Code
<1>15. CASE Take
  BY <1>15 DEF Take
<1>16. CASE CloseQueue \/ Cancel \/ UNCHANGED vars
  BY <1>16 DEF CloseQueue, Cancel, vars
<1> QED
  BY <1>1, <1>2, <1>5, <1>6, <1>7, <1>8, <1>9, <1>10, <1>11, <1>13, <1>14, <1>15, <1>16
  DEF Next, Loop, Client, Server

-----------------------------------------------------------------------------
(* Answers.                                                                *)

LEMMA AnswerStep ==
    ASSUME TypeInv, AnswerInv, [Next]_vars
    PROVE  AnswerInv'
<1> USE DEF loopVars, setup, fileVars, netVars, queueVars
<1>0. copies \in [MessageNo -> Nat] /\ answers \subseteq MessageNo \X Attempt \X Code
  BY DEF TypeInv
<1>1. ASSUME answers' = {} PROVE AnswerInv'
  BY <1>1 DEF AnswerInv
<1>2. CASE pc \notin {"await", "stopped"} /\ UNCHANGED answers
  BY <1>1, <1>2 DEF AnswerInv
<1>3. CASE LoadCSV \/ NewMessage \/ NextRecord \/ PublishAccepted \/ PublishClosed
           \/ PublishFull \/ PressureOver \/ SendRequest \/ BackoffOver
  BY <1>2, <1>3
  DEF LoadCSV, NewMessage, NextRecord, PublishAccepted, PublishClosed, PublishFull,
      PressureOver, SendRequest, BackoffOver
<1>4. CASE AnswerOK \/ AnswerFailed \/ ConnectionBreaks
  <2>1. ASSUME NEW code \in Code, <<msg, attempt, code>> \in answers,
               answers' = answers \ {<<msg, attempt, code>>}
        PROVE  answers' = {}
    BY <2>1 DEF AnswerInv
  <2>2. CASE AnswerOK
    BY <1>1, <2>1, <2>2 DEF AnswerOK, Code
  <2>3. CASE AnswerFailed
    BY <1>1, <2>1, <2>3 DEF AnswerFailed, Code
  <2>4. CASE ConnectionBreaks
    <3>1. \A x \in answers : x \in {msg} \X {attempt} \X Code
      BY <1>0 DEF AnswerInv
    <3> QED
      BY <1>1, <2>4, <3>1 DEF ConnectionBreaks
  <2> QED
    BY <1>4, <2>2, <2>3, <2>4
<1>5. CASE Leave
  BY <1>5 DEF Leave, AnswerInv
<1>6. ASSUME NEW n \in MessageNo, NEW a \in Attempt, NEW code \in Code, Answered(n, a, code),
             <<n, a>> \in requests, UNCHANGED <<pc, msg, attempt>>,
             \A k \in MessageNo : copies[k] > 0 => copies'[k] > 0,
             code = "ok" => copies'[n] > 0
      PROVE  AnswerInv'
  <2>1. CASE pc = "await" /\ <<n, a>> = <<msg, attempt>>
    <3>1. answers = {}
      BY <1>6, <2>1 DEF AnswerInv
    <3>2. answers' = {<<n, a, code>>} /\ requests' = requests \ {<<n, a>>}
      BY <1>6, <2>1, <3>1 DEF Answered
    <3> QED
      BY <1>6, <2>1, <3>2 DEF AnswerInv
  <2>2. CASE ~(pc = "await" /\ <<n, a>> = <<msg, attempt>>)
    <3>1. answers' = answers /\ requests' \subseteq requests
      BY <1>6, <2>2 DEF Answered
    <3> QED
      BY <1>0, <1>6, <3>1 DEF AnswerInv
  <2> QED
    BY <2>1, <2>2
<1>7. ASSUME NEW n \in MessageNo, NEW a \in Attempt, ServeAccept(n, a) PROVE AnswerInv'
  <2>1. /\ \A k \in MessageNo : copies[k] > 0 => copies'[k] > 0
        /\ copies'[n] > 0
    BY <1>0, <1>7 DEF ServeAccept, Enqueue
  <2> QED
    BY <1>6, <1>7, <2>1 DEF ServeAccept, Code
<1>8. ASSUME NEW n \in MessageNo, NEW a \in Attempt, ServeRefuse(n, a) PROVE AnswerInv'
  BY <1>6, <1>8 DEF ServeRefuse, Refusal, Code
<1>9. CASE Take \/ CloseQueue \/ Cancel \/ UNCHANGED vars
  BY <1>9 DEF Take, CloseQueue, Cancel, vars, AnswerInv
<1> QED
  BY <1>3, <1>4, <1>5, <1>7, <1>8, <1>9 DEF Next, Loop, Client, Server

-----------------------------------------------------------------------------
(* Copies and requests.                                                    *)

SpentTypes == \A n \in MessageNo : copies[n] \in Nat /\ InFlight(n) \in Nat /\ Spent(n) \in Nat

LEMMA SpentType == TypeInv => SpentTypes
BY OfType DEF TypeInv, InFlight, Spent, SpentTypes

\* Only a publish of the current message adds to it, and never more than one.
LEMMA SpentStep ==
    ASSUME TypeInv, TypeInv', [Next]_vars, NEW n \in MessageNo
    PROVE  /\ Spent(n)' <= Spent(n) + 1
           /\ (n = msg /\ (SendRequest \/ PublishAccepted)) \/ Spent(n)' <= Spent(n)
<1> USE DEF loopVars, setup, fileVars, netVars, queueVars
<1>0. /\ copies[n] \in Nat /\ InFlight(n) \in Nat /\ Spent(n) = copies[n] + InFlight(n)
      /\ copies'[n] \in Nat /\ InFlight(n)' \in Nat /\ Spent(n)' = copies'[n] + InFlight(n)'
  <2>1. SpentTypes /\ SpentTypes'
    BY SpentType, PTL
  <2> QED
    BY <2>1 DEF SpentTypes, Spent
<1>f. IsFiniteSet(requests) /\ copies \in [MessageNo -> Nat] /\ msg \in MessageNo
  BY DEF TypeInv
<1>i. InFlight(n) = Cardinality(Of(requests, n)) /\ InFlight(n)' = Cardinality(Of(requests', n))
  BY DEF InFlight, Of
<1>1. ASSUME UNCHANGED <<requests, copies>> PROVE Spent(n)' = Spent(n)
  BY <1>0, <1>1, <1>i
<1>2. CASE LoadCSV \/ NewMessage \/ NextRecord \/ PublishClosed \/ PublishFull \/ PressureOver
           \/ AnswerOK \/ AnswerFailed \/ BackoffOver \/ Leave \/ Take \/ CloseQueue \/ Cancel
           \/ UNCHANGED vars
  <2>1. UNCHANGED <<requests, copies>>
    BY <1>2
    DEF LoadCSV, NewMessage, NextRecord, PublishClosed, PublishFull, PressureOver, AnswerOK,
        AnswerFailed, BackoffOver, Leave, Take, CloseQueue, Cancel, vars
  <2> QED
    BY <1>0, <1>1, <2>1
<1>3. CASE PublishAccepted
  <2>1. requests' = requests /\ copies' = [copies EXCEPT ![msg] = @ + 1]
    BY <1>3 DEF PublishAccepted, Enqueue
  <2>2. copies'[n] = IF n = msg THEN copies[n] + 1 ELSE copies[n]
    BY <1>f, <2>1
  <2> QED
    BY <1>0, <1>3, <1>i, <2>1, <2>2
<1>4. CASE SendRequest
  <2>1. requests' = requests \cup {<<msg, attempt>>} /\ copies' = copies
    BY <1>4 DEF SendRequest
  <2>2. n # msg => InFlight(n)' = InFlight(n)
    <3> SUFFICES ASSUME n # msg PROVE InFlight(n)' = InFlight(n)
      OBVIOUS
    <3>1. Of(requests \cup {<<msg, attempt>>}, n) = Of(requests, n)
      BY DEF Of
    <3> QED
      BY <1>i, <2>1, <3>1
  <2>3. n = msg => InFlight(n)' <= InFlight(n) + 1
    BY <1>f, <1>i, <2>1, OfAdded
  <2> QED
    BY <1>0, <1>4, <2>1, <2>2, <2>3
<1>5. CASE ConnectionBreaks
  <2>1. requests' \subseteq requests /\ copies' = copies
    BY <1>5 DEF ConnectionBreaks
  <2>2. InFlight(n)' <= InFlight(n)
    BY <1>f, <1>i, <2>1, OfFewer
  <2> QED
    BY <1>0, <2>1, <2>2
<1>6. ASSUME NEW k \in MessageNo, NEW a \in Attempt, ServeAccept(k, a) PROVE Spent(n)' <= Spent(n)
  <2>1. /\ <<k, a>> \in requests /\ requests' = requests \ {<<k, a>>}
        /\ copies' = [copies EXCEPT ![k] = @ + 1]
    BY <1>6 DEF ServeAccept, Answered, Enqueue
  <2>2. copies'[n] = IF n = k THEN copies[n] + 1 ELSE copies[n]
    BY <1>f, <2>1
  <2>3. n # k => InFlight(n)' = InFlight(n)
    BY <1>f, <1>i, <2>1, OfAnswered
  <2>4. n = k => InFlight(n)' = InFlight(n) - 1
    BY <1>f, <1>i, <2>1, OfAnswered
  <2> QED
    BY <1>0, <2>2, <2>3, <2>4
<1>7. ASSUME NEW k \in MessageNo, NEW a \in Attempt, ServeRefuse(k, a) PROVE Spent(n)' <= Spent(n)
  <2>1. requests' \subseteq requests /\ copies' = copies
    BY <1>7 DEF ServeRefuse, Answered
  <2>2. InFlight(n)' <= InFlight(n)
    BY <1>f, <1>i, <2>1, OfFewer
  <2> QED
    BY <1>0, <2>1, <2>2
<1> QED
  <2>1. CASE SendRequest \/ PublishAccepted
    BY <1>3, <1>4, <2>1
  <2>2. CASE ~(SendRequest \/ PublishAccepted)
    <3>1. Spent(n)' <= Spent(n)
      BY <1>2, <1>5, <1>6, <1>7, <2>2 DEF Next, Loop, Client, Server
    <3> QED
      BY <1>0, <3>1
  <2> QED
    BY <2>1, <2>2

SentTypes == \A n \in MessageNo : Sent(n) \in 0 .. MaxRetries

LEMMA SentType == TypeInv => SentTypes
<1> SUFFICES ASSUME TypeInv PROVE SentTypes
  OBVIOUS
<1>1. attempt \in Nat /\ attempt + 1 <= MaxRetries /\ msg \in Nat /\ MaxRetries \in Nat
  BY Numbers DEF TypeInv
<1> QED
  BY <1>1 DEF Sent, SentTypes

\* What the client may have spent never decreases, and a publish adds one.
LEMMA SentGrows ==
    ASSUME TypeInv, TypeInv', [Next]_vars, NEW n \in MessageNo
    PROVE  /\ Sent(n)' >= Sent(n)
           /\ n = msg /\ (SendRequest \/ PublishAccepted) => Sent(n)' >= Sent(n) + 1
<1> USE DEF loopVars, setup, fileVars, netVars, queueVars
<1>0. /\ attempt \in Nat /\ attempt + 1 <= MaxRetries /\ msg \in Nat /\ MaxRetries \in Nat \ {0}
      /\ attempt' \in Nat /\ attempt' + 1 <= MaxRetries /\ msg' \in Nat /\ n \in Nat
  BY Numbers DEF TypeInv
<1>1. ASSUME pc' \in {"stopped", "interval"}, UNCHANGED msg, ~SendRequest
      PROVE  Sent(n)' >= Sent(n)
  BY <1>0, <1>1 DEF Sent
<1>2. CASE LoadCSV
  BY <1>0, <1>2 DEF LoadCSV, Sent, SendRequest, PublishAccepted
<1>3. CASE NewMessage
  BY <1>0, <1>3 DEF NewMessage, Sent, SendRequest, PublishAccepted
<1>4. CASE NextRecord
  BY <1>0, <1>4 DEF NextRecord, Sent, SendRequest, PublishAccepted
<1>5. CASE PublishAccepted
  BY <1>0, <1>5 DEF PublishAccepted, Returned, AfterPublish, Sent
<1>6. CASE SendRequest
  BY <1>0, <1>6 DEF SendRequest, Sent
<1>7. CASE PublishFull \/ PressureOver
  <2>1. /\ {pc, pc'} \subseteq {"publish", "pressure"} /\ UNCHANGED <<msg, attempt>>
        /\ ~SendRequest /\ ~PublishAccepted
    BY <1>7 DEF PublishFull, FullWaits, PressureOver, SendRequest, PublishAccepted, Returned,
                AfterPublish
  <2> QED
    BY <1>0, <2>1 DEF Sent
<1>8. CASE Leave \/ PublishClosed \/ AnswerOK
  <2>1. /\ pc' \in {"stopped", "interval"} /\ UNCHANGED msg /\ ~SendRequest
        /\ ~PublishAccepted \/ PublishAccepted
    BY <1>8 DEF Leave, PublishClosed, Skipped, AnswerOK, Returned, AfterPublish, SendRequest
  <2> QED
    BY <1>1, <1>5, <2>1
<1>9. CASE AnswerFailed \/ BackoffOver \/ ConnectionBreaks
  <2>1. ~SendRequest /\ ~PublishAccepted /\ UNCHANGED msg /\ pc \in {"await", "backoff"}
    BY <1>9 DEF AnswerFailed, Retry, BackoffOver, ConnectionBreaks, SendRequest,
                PublishAccepted, Skipped, Returned, AfterPublish
  <2>2. \/ pc' = "interval"
        \/ pc' = "backoff" /\ UNCHANGED attempt
        \/ pc' = "publish" /\ attempt' = attempt + 1
    BY <1>9 DEF AnswerFailed, Retry, BackoffOver, ConnectionBreaks, Skipped, Returned,
                AfterPublish
  <2>3. CASE pc' = "interval"
    BY <1>1, <2>1, <2>3
  <2>4. CASE pc' = "backoff" /\ UNCHANGED attempt
    BY <1>0, <2>1, <2>4 DEF Sent
  <2>5. CASE pc' = "publish" /\ attempt' = attempt + 1
    BY <1>0, <2>1, <2>5 DEF Sent
  <2> QED
    BY <2>2, <2>3, <2>4, <2>5
<1>10. CASE Server \/ Take \/ CloseQueue \/ Cancel \/ UNCHANGED vars
  <2>1. UNCHANGED <<pc, msg, attempt>>
    BY <1>10 DEF Server, ServeAccept, ServeRefuse, Take, CloseQueue, Cancel, vars
  <2>2. ~SendRequest /\ ~PublishAccepted
    BY <2>1 DEF SendRequest, PublishAccepted, Returned, AfterPublish
  <2> QED
    BY <1>0, <2>1, <2>2 DEF Sent
<1> QED
  BY <1>2, <1>3, <1>4, <1>5, <1>6, <1>7, <1>8, <1>9, <1>10 DEF Next, Loop, Client

LEMMA SentStep ==
    ASSUME TypeInv, TypeInv', SentInv, [Next]_vars
    PROVE  SentInv'
<1> SUFFICES ASSUME NEW n \in MessageNo PROVE Spent(n)' <= Sent(n)'
  BY DEF SentInv
<1>1. Spent(n) <= Sent(n)
  BY DEF SentInv
<1>2. /\ Spent(n) \in Nat /\ Sent(n) \in Nat
      /\ Spent(n)' \in Nat /\ Sent(n)' \in Nat
  <2>1. SpentTypes /\ SpentTypes' /\ SentTypes /\ SentTypes'
    BY SpentType, SentType, PTL
  <2> QED
    BY <2>1, Numbers DEF SpentTypes, SentTypes
<1>4. /\ Spent(n)' <= Spent(n) + 1
      /\ (n = msg /\ (SendRequest \/ PublishAccepted)) \/ Spent(n)' <= Spent(n)
  BY SpentStep
<1>5. /\ Sent(n)' >= Sent(n)
      /\ n = msg /\ (SendRequest \/ PublishAccepted) => Sent(n)' >= Sent(n) + 1
  BY SentGrows
<1>6. CASE n = msg /\ (SendRequest \/ PublishAccepted)
  BY <1>1, <1>2, <1>4, <1>5, <1>6
<1>7. CASE Spent(n)' <= Spent(n)
  BY <1>1, <1>2, <1>5, <1>7
<1> QED
  BY <1>4, <1>6, <1>7

LEMMA OneAttemptStep ==
    ASSUME TypeInv, TypeInv', AnswerInv, SentInv, OneAttemptCounts, [Next]_vars
    PROVE  OneAttemptCounts'
<1> USE DEF loopVars, setup, fileVars, netVars, queueVars
<1> SUFFICES ASSUME faults' = 0, NEW n \in MessageNo
             PROVE  /\ Spent(n)' <= 1
                    /\ n = msg' /\ (pc' \in {"publish", "pressure", "backoff"} \/ Refused')
                          => Spent(n)' = 0
  BY DEF OneAttemptCounts
<1>t. /\ Spent(n) \in Nat /\ Spent(n)' \in Nat /\ copies[n] \in Nat /\ InFlight(n) \in Nat
      /\ Sent(n) \in Nat
  <2>1. SpentTypes /\ SpentTypes' /\ SentTypes
    BY SpentType, SentType, PTL
  <2> QED
    BY <2>1, Numbers DEF SpentTypes, SentTypes
<1>s. /\ Spent(n)' <= Spent(n) + 1
      /\ (n = msg /\ (SendRequest \/ PublishAccepted)) \/ Spent(n)' <= Spent(n)
  BY SpentStep
<1>0. faults = 0 /\ ~ConnectionBreaks
  <2>1. CASE ConnectionBreaks
    BY <2>1 DEF ConnectionBreaks, TypeInv
  <2>2. CASE Loop
    BY <2>2 DEF Loop, LoadCSV, NewMessage, NextRecord, PublishAccepted, PublishClosed,
                PublishFull, PressureOver, ConnectionBreaks
  <2>3. CASE Client
    BY <2>3 DEF Client, SendRequest, AnswerOK, AnswerFailed, BackoffOver, ConnectionBreaks
  <2>4. CASE Server
    BY <2>4 DEF Server, ServeAccept, ServeRefuse, ConnectionBreaks
  <2>5. CASE Leave \/ Take \/ CloseQueue \/ Cancel \/ UNCHANGED vars
    BY <2>5 DEF Leave, Take, CloseQueue, Cancel, vars, ConnectionBreaks
  <2> QED
    BY <2>1, <2>2, <2>3, <2>4, <2>5 DEF Next
<1>1. /\ Spent(n) <= 1
      /\ n = msg /\ (pc \in {"publish", "pressure", "backoff"} \/ Refused) => Spent(n) = 0
  BY <1>0 DEF OneAttemptCounts
\* A step that does not publish, and leaves no one waiting who was not before.
<1>2. ASSUME Spent(n)' <= Spent(n),
             n = msg' /\ (pc' \in {"publish", "pressure", "backoff"} \/ Refused') =>
                 Spent(n)' = 0 \/ (n = msg /\ (pc \in {"publish", "pressure", "backoff"} \/ Refused))
      PROVE  /\ Spent(n)' <= 1
             /\ n = msg' /\ (pc' \in {"publish", "pressure", "backoff"} \/ Refused')
                   => Spent(n)' = 0
  BY <1>1, <1>2, <1>t
<1>3. CASE pc' \notin {"publish", "pressure", "backoff", "await"} /\ ~SendRequest /\ ~PublishAccepted
  BY <1>2, <1>3, <1>s DEF Refused
<1>4. CASE PublishAccepted
  <2>1. pc = "publish" /\ pc' = "interval" /\ UNCHANGED msg
    BY <1>4 DEF PublishAccepted, Returned, AfterPublish
  <2>2. Spent(n)' <= 1
    BY <1>1, <1>s, <1>t, <2>1
  <2> QED
    BY <2>1, <2>2 DEF Refused
<1>5. CASE SendRequest
  <2>1. pc = "publish" /\ pc' = "await" /\ UNCHANGED <<msg, answers>>
    BY <1>5 DEF SendRequest
  <2>2. Spent(n)' <= 1
    BY <1>1, <1>s, <1>t, <2>1
  <2>3. ~Refused'
    BY <2>1 DEF AnswerInv, Refused
  <2> QED
    BY <2>1, <2>2, <2>3
<1>6. CASE NewMessage
  <2>1. pc = "next" /\ UNCHANGED msg /\ ~SendRequest /\ ~PublishAccepted /\ pc' = "publish"
    BY <1>6 DEF NewMessage, SendRequest, PublishAccepted
  <2>2. n = msg => Sent(n) = 0
    BY <2>1 DEF Sent, TypeInv, MessageNo
  <2>3. n = msg => Spent(n) = 0
    BY <1>t, <2>2 DEF SentInv
  <2> QED
    BY <1>2, <1>s, <1>t, <2>1, <2>3
<1>7. CASE PublishFull \/ PressureOver \/ BackoffOver
  <2>1. /\ pc \in {"publish", "pressure", "backoff"} /\ UNCHANGED msg
        /\ ~SendRequest /\ ~PublishAccepted
    BY <1>7 DEF PublishFull, FullWaits, PressureOver, BackoffOver, Skipped, Returned,
                AfterPublish, SendRequest, PublishAccepted
  <2> QED
    BY <1>2, <1>s, <2>1
<1>8. CASE AnswerFailed
  <2>1. Refused /\ UNCHANGED msg /\ ~SendRequest /\ ~PublishAccepted
    BY <1>8 DEF AnswerFailed, Refused, Retry, Skipped, Returned, SendRequest, PublishAccepted
  <2> QED
    BY <1>2, <1>s, <2>1
<1>9. ASSUME NEW k \in MessageNo, NEW a \in Attempt, ServeAccept(k, a) \/ ServeRefuse(k, a)
      PROVE  /\ Spent(n)' <= 1
             /\ n = msg' /\ (pc' \in {"publish", "pressure", "backoff"} \/ Refused')
                   => Spent(n)' = 0
  <2>1. UNCHANGED <<pc, msg, attempt>> /\ <<k, a>> \in requests /\ ~SendRequest /\ ~PublishAccepted
    BY <1>9 DEF ServeAccept, ServeRefuse, SendRequest, PublishAccepted, Returned, AfterPublish
  <2>2. CASE Refused' /\ ~Refused /\ n = msg
    <3>1. ServeRefuse(k, a) /\ k = n
      BY <1>9, <2>1, <2>2 DEF ServeAccept, ServeRefuse, Answered, Refused
    <3>2. requests' = requests \ {<<n, a>>} /\ copies' = copies /\ <<n, a>> \in requests
      BY <2>1, <3>1 DEF ServeRefuse, Answered
    <3>3. Cardinality(Of(requests', n)) = Cardinality(Of(requests, n)) - 1
      BY <3>2, OfAnswered DEF TypeInv
    <3>4. Spent(n)' = Spent(n) - 1
      BY <1>t, <3>2, <3>3 DEF Spent, InFlight, Of
    <3>5. Spent(n)' = 0
      BY <1>1, <1>t, <3>4
    <3> QED
      BY <3>5
  <2>3. CASE ~(Refused' /\ ~Refused /\ n = msg)
    BY <1>2, <1>s, <2>1, <2>3
  <2> QED
    BY <2>2, <2>3
<1>10. CASE Take \/ CloseQueue \/ Cancel \/ UNCHANGED vars
  <2>1. UNCHANGED <<pc, msg, attempt, answers>> /\ ~SendRequest /\ ~PublishAccepted
    BY <1>10 DEF Take, CloseQueue, Cancel, vars, SendRequest, PublishAccepted, Returned,
                 AfterPublish
  <2> QED
    BY <1>2, <1>s, <2>1 DEF Refused
<1>11. CASE LoadCSV \/ NextRecord \/ PublishClosed \/ Leave \/ AnswerOK
  <2>1. pc' \notin {"publish", "pressure", "backoff", "await"}
    BY <1>11 DEF LoadCSV, NextRecord, PublishClosed, Leave, AnswerOK, Skipped, Returned,
                 AfterPublish
  <2>2. CASE SendRequest \/ PublishAccepted
    BY <1>4, <1>5, <2>2
  <2> QED
    BY <1>3, <2>1, <2>2
<1> QED
  BY <1>0, <1>4, <1>5, <1>6, <1>7, <1>8, <1>9, <1>10, <1>11 DEF Next, Loop, Client, Server

\* What is taken for published has been accepted.
LEMMA PublishedStep ==
    ASSUME TypeInv, AnswerInv, PublishedInv, [Next]_vars
    PROVE  PublishedInv'
<1> USE DEF loopVars, setup, fileVars, netVars, queueVars
<1>t. /\ copies \in [MessageNo -> Nat] /\ msg \in MessageNo
      /\ outcome \in [MessageNo -> {"none", "published", "skipped"}]
  BY DEF TypeInv
<1>1. ASSUME outcome' = outcome,
             copies' = copies \/ \E n \in MessageNo : copies' = [copies EXCEPT ![n] = @ + 1]
      PROVE  PublishedInv'
  BY <1>t, <1>1 DEF PublishedInv
<1>2. CASE PublishAccepted
  BY <1>t, <1>2 DEF PublishAccepted, Enqueue, Returned, PublishedInv
<1>3. ASSUME Skipped, UNCHANGED copies PROVE PublishedInv'
  BY <1>t, <1>3 DEF Skipped, Returned, PublishedInv
<1>4. CASE AnswerOK
  <2>1. copies[msg] > 0
    BY <1>4 DEF AnswerOK, AnswerInv
  <2> QED
    BY <1>t, <1>4, <2>1 DEF AnswerOK, Returned, PublishedInv
<1>5. CASE PublishClosed \/ AnswerFailed \/ BackoffOver
  BY <1>1, <1>3, <1>5 DEF PublishClosed, AnswerFailed, BackoffOver, Retry
<1>6. CASE Server
  BY <1>1, <1>6 DEF Server, ServeAccept, ServeRefuse, Enqueue
<1>7. CASE \/ LoadCSV \/ NewMessage \/ NextRecord \/ PublishFull \/ PressureOver \/ Leave
           \/ SendRequest \/ ConnectionBreaks \/ Take \/ CloseQueue \/ Cancel \/ UNCHANGED vars
  BY <1>1, <1>7
  DEF LoadCSV, NewMessage, NextRecord, PublishFull, FullWaits, PressureOver, Leave, SendRequest,
      ConnectionBreaks, Take, CloseQueue, Cancel, vars
<1> QED
  BY <1>2, <1>4, <1>5, <1>6, <1>7 DEF Next, Loop, Client

-----------------------------------------------------------------------------
(* One process.                                                            *)

LEMMA LocalStep ==
    ASSUME TypeInv, LocalInv, ExactlyOnceInOrder, [Next]_vars
    PROVE  LocalInv' /\ ExactlyOnceInOrder'
<1> USE DEF loopVars, setup, fileVars, netVars, queueVars
<1>0. transport' = transport
  BY DEF Next, Loop, LoadCSV, NewMessage, NextRecord, PublishAccepted, PublishClosed, PublishFull,
         PressureOver, Leave, Client, SendRequest, AnswerOK, AnswerFailed, BackoffOver,
         ConnectionBreaks, Server, ServeAccept, ServeRefuse, Take, CloseQueue, Cancel, vars
<1>1. SUFFICES ASSUME transport = "local" PROVE LocalInv' /\ ExactlyOnceInOrder'
  BY <1>0 DEF LocalInv, ExactlyOnceInOrder
<1>t. /\ copies \in [MessageNo -> Nat] /\ msg \in MessageNo /\ MessageNo \subseteq Nat
      /\ outcome \in [MessageNo -> {"none", "published", "skipped"}]
      /\ queue \in Seq(MessageNo)
  BY Numbers DEF TypeInv
<1>l. /\ requests = {} /\ pc \notin {"await", "backoff"}
      /\ \A n \in MessageNo : n > msg \/ (n = msg /\ pc \in Undecided) => outcome[n] = "none"
      /\ \A i \in DOMAIN queue :
              queue[i] < msg \/ (queue[i] = msg /\ pc \in {"interval", "stopped"})
  BY <1>1 DEF LocalInv
<1>e. /\ \A n \in MessageNo :
            /\ copies[n] <= 1 /\ (copies[n] = 1 <=> outcome[n] = "published")
            /\ outcome[n] = "skipped" => closed
      /\ \A i, j \in DOMAIN queue : i < j => queue[i] < queue[j]
  BY <1>1 DEF ExactlyOnceInOrder
\* Steps of the loop between the records, and those of others.
<1>2. ASSUME UNCHANGED <<requests, queue, copies, outcome>>, closed => closed',
             pc' \notin {"await", "backoff"},
             \/ msg' = msg /\ (pc' \in Undecided => pc \in Undecided)
                           /\ (pc' \in {"interval", "stopped"} \/ pc \in Undecided)
             \/ msg' = msg + 1
      PROVE  LocalInv' /\ ExactlyOnceInOrder'
  <2>1. ExactlyOnceInOrder'
    BY <1>2, <1>e DEF ExactlyOnceInOrder
  <2>2. \A n \in MessageNo :
            n > msg' \/ (n = msg' /\ pc' \in Undecided) => n > msg \/ (n = msg /\ pc \in Undecided)
    BY <1>2, <1>t
  <2>3. ASSUME NEW i \in DOMAIN queue
        PROVE  queue[i] < msg' \/ (queue[i] = msg' /\ pc' \in {"interval", "stopped"})
    <3>1. queue[i] \in Nat /\ msg \in Nat
      BY <1>t
    <3>2. queue[i] < msg \/ (queue[i] = msg /\ pc \in {"interval", "stopped"})
      BY <1>l
    <3> QED
      BY <1>2, <3>1, <3>2 DEF Undecided
  <2>4. LocalInv'
    BY <1>2, <1>l, <2>2, <2>3 DEF LocalInv
  <2> QED
    BY <2>1, <2>4
<1>3. CASE LoadCSV \/ NewMessage \/ NextRecord \/ PublishFull \/ PressureOver \/ Leave
  BY <1>2, <1>3
  DEF LoadCSV, NewMessage, NextRecord, PublishFull, FullWaits, PressureOver, Leave, Undecided
<1>4. CASE PublishAccepted
  <2>1. /\ pc = "publish" /\ pc' = "interval" /\ UNCHANGED <<msg, requests, closed>>
        /\ queue' = Append(queue, msg) /\ copies' = [copies EXCEPT ![msg] = @ + 1]
        /\ outcome' = [outcome EXCEPT ![msg] = "published"]
    BY <1>4 DEF PublishAccepted, Enqueue, Returned, AfterPublish
  <2>2. outcome[msg] = "none" /\ copies[msg] = 0
    BY <1>l, <1>e, <1>t, <2>1 DEF Undecided
  <2>3. \A i \in DOMAIN queue : queue[i] < msg
    BY <1>l, <2>1
  <2>4. /\ Len(queue) \in Nat /\ DOMAIN queue = 1 .. Len(queue)
        /\ DOMAIN queue' = 1 .. (Len(queue) + 1)
        /\ \A i \in DOMAIN queue' : queue'[i] = IF i = Len(queue) + 1 THEN msg ELSE queue[i]
    BY <1>t, <2>1
  <2>5. \A i, j \in DOMAIN queue' : i < j => queue'[i] < queue'[j]
    BY <1>e, <2>3, <2>4
  <2>6. \A n \in MessageNo :
            /\ copies'[n] <= 1 /\ (copies'[n] = 1 <=> outcome'[n] = "published")
            /\ outcome'[n] = "skipped" => closed'
    BY <1>e, <1>t, <2>1, <2>2
  <2>7. \A i \in DOMAIN queue' :
            queue'[i] < msg' \/ (queue'[i] = msg' /\ pc' \in {"interval", "stopped"})
    BY <2>1, <2>3, <2>4
  <2>8. \A n \in MessageNo : n > msg' \/ (n = msg' /\ pc' \in Undecided) => outcome'[n] = "none"
    BY <1>l, <1>t, <2>1 DEF Undecided
  <2> QED
    BY <1>l, <2>1, <2>5, <2>6, <2>7, <2>8 DEF LocalInv, ExactlyOnceInOrder
<1>5. CASE PublishClosed
  <2>1. /\ pc = "publish" /\ pc' = "interval" /\ UNCHANGED <<msg, requests, closed, queue, copies>>
        /\ outcome' = [outcome EXCEPT ![msg] = "skipped"] /\ closed
    BY <1>5 DEF PublishClosed, Skipped, Returned, AfterPublish
  <2>2. outcome[msg] = "none"
    BY <1>l, <1>t, <2>1 DEF Undecided
  <2>3. ExactlyOnceInOrder'
    BY <1>e, <1>t, <2>1, <2>2 DEF ExactlyOnceInOrder
  <2>4. LocalInv'
    BY <1>l, <1>t, <2>1 DEF LocalInv, Undecided
  <2> QED
    BY <2>3, <2>4
<1>6. CASE Take
  <2>1. UNCHANGED <<msg, pc, requests, closed, copies, outcome>>
    BY <1>6 DEF Take
  <2>2. /\ queue # <<>> /\ queue' = Tail(queue)
    BY <1>6 DEF Take
  <2>3. /\ Len(queue) \in Nat \ {0} /\ DOMAIN queue = 1 .. Len(queue)
        /\ DOMAIN queue' = 1 .. (Len(queue) - 1)
        /\ \A i \in DOMAIN queue' : queue'[i] = queue[i + 1]
    BY <1>t, <2>2
  <2>4. \A i \in DOMAIN queue' : i + 1 \in DOMAIN queue
    BY <2>3
  <2>5. ExactlyOnceInOrder'
    BY <1>e, <2>1, <2>3, <2>4 DEF ExactlyOnceInOrder
  <2>6. LocalInv'
    BY <1>l, <2>1, <2>3, <2>4 DEF LocalInv
  <2> QED
    BY <2>5, <2>6
<1>7. CASE CloseQueue \/ Cancel \/ UNCHANGED vars
  <2>1. UNCHANGED <<msg, pc, requests, copies, outcome, queue>> /\ (closed => closed')
    BY <1>7 DEF CloseQueue, Cancel, vars
  <2> QED
    BY <1>l, <1>e, <2>1 DEF LocalInv, ExactlyOnceInOrder
<1>8. ~Client /\ ~ConnectionBreaks /\ ~Server
  BY <1>1, <1>l
  DEF Client, SendRequest, AnswerOK, AnswerFailed, BackoffOver, ConnectionBreaks, Server,
      ServeAccept, ServeRefuse
<1> QED
  BY <1>3, <1>4, <1>5, <1>6, <1>7, <1>8 DEF Next, Loop

-----------------------------------------------------------------------------
(* What Parse returns.                                                     *)

\* The natural numbers are well-founded, with the relation written out.
LEMMA NatWellFounded == IsWellFoundedOn({p \in Nat \X Nat : p[1] < p[2]}, Nat)
<1>1. OpToRel(<, Nat) = {p \in Nat \X Nat : p[1] < p[2]}
  BY DEF OpToRel
<1> QED
  BY <1>1, NatLessThanWellFounded

\* Induction, for a set of natural numbers.
LEMMA SetInduction ==
    ASSUME NEW A, 0 \in A, \A n \in Nat : n \in A => n + 1 \in A
    PROVE  Nat \subseteq A
<1> SUFFICES ASSUME Nat \ A # {} PROVE FALSE
  OBVIOUS
<1> DEFINE R == {p \in Nat \X Nat : p[1] < p[2]}
<1>1. PICK n \in Nat \ A : \A m \in Nat \ A : <<m, n>> \notin R
  <2>1. Nat \ A \subseteq Nat
    OBVIOUS
  <2> QED
    BY <2>1, NatWellFounded, WFMin
<1>2. n - 1 \in Nat /\ <<n - 1, n>> \in R
  BY <1>1
<1>3. n - 1 \in A
  BY <1>1, <1>2
<1> QED
  BY <1>1, <1>2, <1>3

\* What the loop over the first n lines does, one line at a time.
Turns(g, lines, n) ==
    \A k \in 0..n : g[k] = IF k = 0 THEN Parser!Nothing ELSE Parser!Read(g[k - 1], lines[k])

\* The loop has a result after each of the lines.
LEMMA ReadUpToExists ==
    ASSUME NEW lines, Len(lines) \in Nat
    PROVE  Turns(Parser!ReadUpTo(lines), lines, Len(lines))
<1> DEFINE A == {n \in Nat : \E g : DOMAIN g = 0..n /\ Turns(g, lines, n)}
<1>1. 0 \in A
  <2>1. Turns([k \in 0..0 |-> Parser!Nothing], lines, 0)
    BY DEF Turns
  <2> QED
    BY <2>1
<1>2. \A n \in Nat : n \in A => n + 1 \in A
  <2> SUFFICES ASSUME NEW n \in Nat, NEW g, DOMAIN g = 0..n, Turns(g, lines, n)
               PROVE  \E h : DOMAIN h = 0..(n + 1) /\ Turns(h, lines, n + 1)
    OBVIOUS
  <2> DEFINE h == [k \in 0..(n + 1) |-> IF k <= n THEN g[k] ELSE Parser!Read(g[n], lines[n + 1])]
  <2>1. ASSUME NEW k \in 0..(n + 1)
        PROVE  h[k] = IF k = 0 THEN Parser!Nothing ELSE Parser!Read(h[k - 1], lines[k])
    <3>1. CASE k = n + 1
      BY <3>1
    <3>2. CASE k \in 0..n
      <4>1. k # 0 => h[k - 1] = g[k - 1]
        BY <3>2
      <4>2. h[k] = g[k]
        BY <3>2
      <4> QED
        BY <3>2, <4>1, <4>2 DEF Turns
    <3> QED
      BY <3>1, <3>2
  <2>2. Turns(h, lines, n + 1)
    BY <2>1 DEF Turns
  <2>3. DOMAIN h = 0..(n + 1)
    OBVIOUS
  <2> QED
    BY <2>2, <2>3
<1>3. Len(lines) \in A
  <2> HIDE DEF A
  <2> QED
    BY <1>1, <1>2, SetInduction
<1>4. PICK g : DOMAIN g = 0..Len(lines) /\ Turns(g, lines, Len(lines))
  BY <1>3
<1> DEFINE Result(f) == [n \in 0..Len(lines) |-> IF n = 0 THEN Parser!Nothing ELSE Parser!Read(f[n - 1], lines[n])]
           f0 == [k \in 0..Len(lines) |-> g[k]]
<1>5. f0 = Result(f0)
  <2>1. ASSUME NEW n \in 0..Len(lines) PROVE f0[n] = Result(f0)[n]
    BY <1>4, <2>1 DEF Turns
  <2> QED
    BY <2>1
<1>6. Parser!ReadUpTo(lines) = CHOOSE f : f = Result(f)
  BY DEF Parser!ReadUpTo
<1>7. Parser!ReadUpTo(lines) = Result(Parser!ReadUpTo(lines))
  <2> HIDE DEF f0, Result
  <2> QED
    BY <1>5, <1>6
<1> QED
  BY <1>7 DEF Turns

\* The rows among the first n lines: those that are not blank.
Rows(lines, n) == {i \in 1..n : lines[i].columns # 0}
IsRecord(line) == line.columns = Columns /\ line.uuid # Empty

LEMMA RowsFinite ==
    ASSUME NEW lines, NEW n \in Nat
    PROVE  IsFiniteSet(Rows(lines, n)) /\ Cardinality(Rows(lines, n)) \in Nat
<1>1. IsFiniteSet(1..n) /\ Rows(lines, n) \in SUBSET (1..n)
  BY FS_Interval DEF Rows
<1> QED
  BY <1>1, FS_Subset, FS_CardinalityType

\* Record k is made of the row that has k - 1 rows before it.
RecordsOfRows(s, lines, n) ==
    /\ Len(s) = Cardinality(Rows(lines, n))
    /\ \A i \in Rows(lines, n) : IsRecord(lines[i])
    /\ \A k \in 1..Len(s) : \E i \in Rows(lines, n) :
          /\ Cardinality(Rows(lines, i - 1)) = k - 1
          /\ s[k] = Parser!RecordOf(lines[i])

\* The loop has read the rows so far into records, or has failed and has none.
ReadSoFar(r, lines, n) ==
    /\ r \in [ok : BOOLEAN, records : Seq({Parser!RecordOf(lines[i]) : i \in 1..Len(lines)})]
    /\ r.ok => RecordsOfRows(r.records, lines, n)
    /\ ~r.ok => r.records = <<>>

LEMMA ReadKeeps ==
    ASSUME NEW lines, Len(lines) \in Nat, NEW n \in 0..(Len(lines) - 1), NEW r, ReadSoFar(r, lines, n)
    PROVE  ReadSoFar(Parser!Read(r, lines[n + 1]), lines, n + 1)
<1> DEFINE line == lines[n + 1]
           S == Rows(lines, n)
           R == {Parser!RecordOf(lines[i]) : i \in 1..Len(lines)}
           q == Parser!Read(r, line)
<1>1. n \in Nat /\ n + 1 \in 1..Len(lines) /\ Parser!RecordOf(line) \in R
  OBVIOUS
<1>2. CASE ~r.ok
  BY <1>2 DEF ReadSoFar, Parser!Read
<1>3. CASE r.ok /\ line.columns = 0
  <2>1. q = r
    BY <1>3 DEF Parser!Read, Parser!IsBlank
  <2>2. Rows(lines, n + 1) = S
    BY <1>1, <1>3 DEF Rows
  <2> QED
    BY <1>3, <2>1, <2>2 DEF ReadSoFar, RecordsOfRows
<1>4. CASE r.ok /\ line.columns # 0 /\ ~IsRecord(line)
  <2>1. q = [ok |-> FALSE, records |-> <<>>]
    BY <1>4 DEF Parser!Read, Parser!IsBlank, Parser!IsRecord, Parser!HasColumns, Parser!Failure, IsRecord
  <2> QED
    BY <2>1 DEF ReadSoFar
<1>5. CASE r.ok /\ line.columns # 0 /\ IsRecord(line)
  <2> DEFINE s == r.records
             t == Append(s, Parser!RecordOf(line))
  <2>1. q = [r EXCEPT !.records = t]
    BY <1>5 DEF Parser!Read, Parser!IsBlank, Parser!IsRecord, Parser!HasColumns, IsRecord
  <2>2. s \in Seq(R) /\ RecordsOfRows(s, lines, n)
    BY <1>5 DEF ReadSoFar
  <2>3. Rows(lines, n + 1) = S \cup {n + 1} /\ n + 1 \notin S
    BY <1>1, <1>5 DEF Rows
  <2>4. Cardinality(Rows(lines, n + 1)) = Cardinality(S) + 1
    <3>1. IsFiniteSet(S)
      BY <1>1, RowsFinite
    <3> HIDE DEF S
    <3> QED
      BY <2>3, <3>1, FS_AddElement
  <2>5. Cardinality(S) \in Nat
    BY <1>1, RowsFinite
  <2> HIDE DEF R, S
  <2>6. t \in Seq(R) /\ Len(t) = Len(s) + 1 /\ t[Len(s) + 1] = Parser!RecordOf(line)
        /\ \A k \in 1..Len(s) : t[k] = s[k]
    BY <1>1, <2>2
  <2>7. Len(s) = Cardinality(S)
    BY <2>2 DEF RecordsOfRows, S
  <2>8. ASSUME NEW k \in 1..Len(t)
        PROVE  \E i \in Rows(lines, n + 1) :
                  /\ Cardinality(Rows(lines, i - 1)) = k - 1
                  /\ t[k] = Parser!RecordOf(lines[i])
    <3>1. CASE k = Len(s) + 1
      <4>1. Rows(lines, (n + 1) - 1) = S
        BY <1>1 DEF S
      <4>2. k - 1 = Cardinality(S)
        BY <3>1, <2>7, <2>5
      <4> QED
        BY <3>1, <2>3, <2>6, <4>1, <4>2
    <3>2. CASE k \in 1..Len(s)
      <4>1. PICK i \in S : Cardinality(Rows(lines, i - 1)) = k - 1 /\ s[k] = Parser!RecordOf(lines[i])
        BY <3>2, <2>2 DEF RecordsOfRows, S
      <4> QED
        BY <3>2, <2>3, <2>6, <4>1
    <3> QED
      BY <3>1, <3>2, <2>5, <2>6, <2>7
  <2>9. \A i \in Rows(lines, n + 1) : IsRecord(lines[i])
    BY <1>5, <2>2, <2>3 DEF RecordsOfRows, S
  <2>10. RecordsOfRows(t, lines, n + 1)
    BY <2>4, <2>6, <2>7, <2>8, <2>9 DEF RecordsOfRows
  <2>11. q \in [ok : BOOLEAN, records : Seq(R)] /\ q.ok /\ q.records = t
    <3>1. r \in [ok : BOOLEAN, records : Seq(R)]
      BY DEF ReadSoFar, R
    <3> HIDE DEF q, t
    <3> QED
      BY <1>5, <2>1, <2>6, <3>1
  <2> QED
    BY <2>10, <2>11 DEF ReadSoFar, R
<1> QED
  BY <1>2, <1>3, <1>4, <1>5

\* Of a file that yields records every row is one of them, in order.
LEMMA ParseReads ==
    ASSUME NEW f \in File, Parser!Parse(f).records # <<>>
    PROVE  /\ f.header = Columns
           /\ Parser!Parse(f).records \in Seq({Parser!RecordOf(f.lines[i]) : i \in 1..Len(f.lines)})
           /\ RecordsOfRows(Parser!Parse(f).records, f.lines, Len(f.lines))
<1> DEFINE lines == f.lines
           g == Parser!ReadUpTo(lines)
           A == {n \in Nat : n <= Len(lines) => ReadSoFar(g[n], lines, n)}
<1>1. Len(lines) \in Nat
  <2>1. lines \in Seq(Range(lines))
    BY StreamerAssumption DEF StreamerAssumption
  <2> HIDE DEF lines
  <2> QED
    BY <2>1
<1>2. Turns(g, lines, Len(lines))
  BY <1>1, ReadUpToExists
<1>3. f.header = Columns /\ Parser!Parse(f) = g[Len(lines)]
  BY DEF Parser!Parse, Parser!Failure
<1> HIDE DEF lines, g
<1>4. 0 \in A
  <2>1. g[0] = [ok |-> TRUE, records |-> <<>>]
    BY <1>1, <1>2 DEF Turns, Parser!Nothing
  <2>2. Rows(lines, 0) = {}
    BY DEF Rows
  <2>3. RecordsOfRows(<<>>, lines, 0)
    <3>1. Cardinality(Rows(lines, 0)) = 0
      BY <2>2, FS_EmptySet, Zenon
    <3>2. Len(<<>>) = 0
      OBVIOUS
    <3> QED
      BY <2>2, <3>1, <3>2 DEF RecordsOfRows
  <2>4. g[0] \in [ok : BOOLEAN, records : Seq({Parser!RecordOf(lines[i]) : i \in 1..Len(lines)})]
    <3>1. <<>> \in Seq({Parser!RecordOf(lines[i]) : i \in 1..Len(lines)})
      OBVIOUS
    <3> QED
      BY <2>1, <3>1
  <2>5. ReadSoFar(g[0], lines, 0)
    BY <2>1, <2>3, <2>4 DEF ReadSoFar
  <2> QED
    BY <2>5
<1>5. \A n \in Nat : n \in A => n + 1 \in A
  <2> SUFFICES ASSUME NEW n \in Nat, n + 1 <= Len(lines), ReadSoFar(g[n], lines, n)
               PROVE  ReadSoFar(g[n + 1], lines, n + 1)
    BY <1>1
  <2>1. g[n + 1] = Parser!Read(g[n], lines[n + 1])
    <3>1. n + 1 \in 0..Len(lines) /\ n + 1 # 0 /\ (n + 1) - 1 = n
      BY <1>1
    <3> QED
      BY <1>2, <3>1 DEF Turns
  <2>2. n \in 0..(Len(lines) - 1)
    BY <1>1
  <2> QED
    BY <1>1, <2>1, <2>2, ReadKeeps
<1>6. Len(lines) \in A
  <2> HIDE DEF A
  <2> QED
    BY <1>1, <1>4, <1>5, SetInduction
<1>7. ReadSoFar(g[Len(lines)], lines, Len(lines))
  BY <1>1, <1>6
<1> QED
  BY <1>3, <1>7 DEF ReadSoFar, lines

-----------------------------------------------------------------------------
(* What is in the messages.                                                *)

\* Counting on by one within a round, or into the next.
LEMMA NextInRound ==
    ASSUME NEW m \in Nat, NEW L \in Nat \ {0}
    PROVE  ((m % L) + 1) % L = (m + 1) % L /\ m % L \in 0..(L - 1)
<1>1. m % L \in 0..(L - 1) /\ m \div L \in Nat
  OBVIOUS
<1>2. m = L * (m \div L) + (m % L)
  OBVIOUS
<1>3. \A q \in Nat, r \in 0..(L - 1) : (L * q + r) % L = r
  OBVIOUS
<1> DEFINE q == m \div L
           r == m % L
<1> HIDE DEF q, r
<1>4. q \in Nat /\ r \in 0..(L - 1) /\ m = L * q + r
  BY <1>1, <1>2 DEF q, r
<1>5. CASE r + 1 < L
  <2>1. r + 1 \in 0..(L - 1) /\ m + 1 = L * q + (r + 1)
    BY <1>4, <1>5
  <2>2. (m + 1) % L = r + 1
    BY <1>3, <1>4, <2>1
  <2>3. r + 1 = L * 0 + (r + 1)
    BY <1>4
  <2>4. (r + 1) % L = r + 1
    BY <1>3, <2>1, <2>3
  <2> QED
    BY <1>1, <2>2, <2>4 DEF r
<1>6. CASE r + 1 = L
  <2>1. m + 1 = L * (q + 1) + 0 /\ q + 1 \in Nat /\ 0 \in 0..(L - 1)
    BY <1>4, <1>6
  <2>2. (m + 1) % L = 0
    BY <1>3, <2>1
  <2>3. (r + 1) % L = 0
    BY <1>6
  <2> QED
    BY <1>1, <2>2, <2>3 DEF r
<1> QED
  BY <1>4, <1>5, <1>6

\* The records of a file that yields some are a sequence of at least one.
LEMMA RecordsExist ==
    ASSUME RoundInv, records # <<>>
    PROVE  Len(records) \in Nat \ {0} /\ records \in Seq({records[k] : k \in 1..Len(records)})
<1>1. PICK S : records \in Seq(S)
  BY ParseReads DEF RoundInv
<1> QED
  BY <1>1

LEMMA RoundStep ==
    ASSUME TypeInv, RoundInv, [Next]_vars
    PROVE  RoundInv'
<1> USE Numbers DEF RoundInv, loopVars, setup, fileVars, netVars, queueVars
<1>1. msg \in Nat \ {0}
  BY DEF TypeInv
<1>2. CASE LoadCSV
  <2> USE <1>2 DEF LoadCSV
  <2>1. content = <<>> /\ pos = 1 /\ msg = 1
    OBVIOUS
  <2>2. records' # <<>> => (msg - 1) % Len(records') = 0 /\ Len(records') \in Nat \ {0}
    <3> SUFFICES ASSUME records' # <<>> PROVE (msg - 1) % Len(records') = 0 /\ Len(records') \in Nat \ {0}
      OBVIOUS
    <3>1. PICK S : records' \in Seq(S)
      BY ParseReads
    <3>2. Len(records') \in Nat \ {0}
      BY <3>1
    <3>3. \A L \in Nat \ {0} : (1 - 1) % L = 0
      OBVIOUS
    <3> QED
      BY <2>1, <3>2, <3>3
  <2>3. content' = <<>> /\ Len(content') = 0 /\ pos' = 1 /\ msg' = 1 /\ file' = file
    BY <2>1
  <2>4. records' # <<>> => pos' = ((msg' - 1) % Len(records')) + 1
    <3>1. msg' = msg
      BY <2>1, <2>3
    <3>2. records' # <<>> => (msg' - 1) % Len(records') = 0
      BY <2>2, <3>1
    <3> HIDE <1>2 DEF LoadCSV, RoundInv
    <3> QED
      BY <2>3, <3>2
  <2>5. /\ records' = Parser!Parse(file').records
        /\ pc' = IF records' = <<>> THEN "stopped" ELSE "next"
    BY <2>3
  <2>6. content' \in Seq({records'[k] : k \in 1..Len(records')})
    BY <2>3
  <2>7. \A n \in 1..Len(content') : content'[n] = records'[((n - 1) % Len(records')) + 1]
    BY <2>3
  <2> QED
    BY <2>3, <2>4, <2>5, <2>6, <2>7
<1>3. CASE NewMessage
  <2> USE <1>3 DEF NewMessage
  <2>1. Len(records) \in Nat \ {0} /\ pos \in 1..Len(records)
    <3>1. records # <<>> /\ msg - 1 \in Nat /\ pos = ((msg - 1) % Len(records)) + 1
      BY <1>1
    <3>2. Len(records) \in Nat \ {0}
      BY <3>1, RecordsExist
    <3>3. (msg - 1) % Len(records) \in 0..(Len(records) - 1)
      BY <3>1, <3>2, NextInRound
    <3> QED
      BY <3>1, <3>2, <3>3
  <2> DEFINE R == {records[k] : k \in 1..Len(records)}
  <2>2. content \in Seq(R) /\ records[pos] \in R
    BY <2>1
  <2>3. Len(content) = msg - 1 /\ pos = ((msg - 1) % Len(records)) + 1
    OBVIOUS
  <2> HIDE DEF R
  <2>4. /\ content' \in Seq(R) /\ Len(content') = msg
        /\ content'[msg] = records[pos]
        /\ \A n \in 1..Len(content) : content'[n] = content[n]
    BY <1>1, <2>2, <2>3
  <2>5. \A n \in 1..Len(content') : content'[n] = records[((n - 1) % Len(records)) + 1]
    <3> SUFFICES ASSUME NEW n \in 1..Len(content')
                 PROVE  content'[n] = records[((n - 1) % Len(records)) + 1]
      OBVIOUS
    <3>1. CASE n = msg
      BY <2>3, <2>4, <3>1
    <3>2. CASE n \in 1..Len(content)
      BY <2>4, <3>2
    <3> QED
      BY <1>1, <2>3, <2>4, <3>1, <3>2
  <2> QED
    BY <2>4, <2>5 DEF R
<1>4. CASE NextRecord
  <2> USE <1>4 DEF NextRecord, Following
  <2>1. Len(records) \in Nat \ {0} /\ records # <<>>
    BY RecordsExist
  <2>2. pos' = ((msg' - 1) % Len(records')) + 1
    <3>1. pos' = ((((msg - 1) % Len(records)) + 1) % Len(records)) + 1 /\ records' = records /\ msg' - 1 = (msg - 1) + 1
      BY <1>1, <2>1
    <3>2. msg - 1 \in Nat
      BY <1>1
    <3> QED
      BY <2>1, <3>1, <3>2, NextInRound
  <2>3. Len(content') = msg' - 1
    BY <1>1
  <2> QED
    BY <2>1, <2>2, <2>3
<1>5. ASSUME UNCHANGED <<file, records, pos, content, msg, pc>>
      PROVE  RoundInv'
  BY <1>5
<1>6. ASSUME UNCHANGED <<file, records, pos, content, msg>>, pc # "load",
             pc' \notin {"load", "next"},
             pc' # "stopped" => pc \notin {"next", "stopped"}
      PROVE  RoundInv'
  BY <1>6
<1>7. ASSUME NEW o, Returned(o), UNCHANGED setup, pc \in {"publish", "await", "backoff"}
      PROVE  RoundInv'
  BY <1>6, <1>7 DEF Returned, AfterPublish
<1>8. CASE PublishAccepted \/ PublishClosed
  BY <1>7, <1>8 DEF PublishAccepted, PublishClosed, Skipped
<1>9. CASE PublishFull \/ PressureOver \/ SendRequest \/ ConnectionBreaks
  BY <1>6, <1>9 DEF PublishFull, FullWaits, PressureOver, SendRequest, ConnectionBreaks
<1>10. CASE Leave
  BY <1>6, <1>10 DEF Leave, WaitsForContext
<1>11. CASE AnswerOK
  BY <1>7, <1>11 DEF AnswerOK
<1>12. CASE AnswerFailed \/ BackoffOver
  BY <1>6, <1>7, <1>12 DEF AnswerFailed, BackoffOver, Retry, Skipped
<1>13. CASE Server
  BY <1>5, <1>13 DEF Server, ServeAccept, ServeRefuse
<1>14. CASE Take \/ CloseQueue \/ Cancel
  BY <1>5, <1>14 DEF Take, CloseQueue, Cancel
<1>15. CASE UNCHANGED vars
  BY <1>5, <1>15 DEF vars
<1> QED
  BY <1>2, <1>3, <1>4, <1>8, <1>9, <1>10, <1>11, <1>12, <1>13, <1>14, <1>15 DEF Next, Loop, Client

\* What the records of a file are is what it is in the messages.
LEMMA MessagesHoldTheFile == RoundInv => WholeFileInOrder
<1> DEFINE lines == file.lines
           rows == {i \in DOMAIN lines : lines[i].columns # 0}
<1> SUFFICES ASSUME RoundInv, content # <<>>
             PROVE  /\ file.header = Columns /\ rows # {} /\ \A i \in rows : IsRecord(lines[i])
                    /\ \A n \in DOMAIN content : \E i \in rows :
                          /\ Cardinality({j \in rows : j < i}) = (n - 1) % Cardinality(rows)
                          /\ content[n] = [gpu |-> lines[i].uuid, says |-> lines[i].says]
  BY DEF WholeFileInOrder, IsRecord
<1>1. file \in File /\ records # <<>> /\ records = Parser!Parse(file).records
  BY DEF RoundInv
<1>2. file.header = Columns /\ RecordsOfRows(records, lines, Len(lines))
  BY <1>1, ParseReads
<1>3. DOMAIN lines = 1..Len(lines) /\ Len(lines) \in Nat
  <2>1. lines \in Seq(Range(lines))
    BY <1>1, StreamerAssumption DEF StreamerAssumption
  <2> HIDE DEF lines
  <2> QED
    BY <2>1
<1>4. rows = Rows(lines, Len(lines))
  BY <1>3 DEF Rows
<1>5. \A i \in rows : {j \in rows : j < i} = Rows(lines, i - 1)
  BY <1>3 DEF Rows
<1> HIDE DEF lines, rows
<1>6. Len(records) = Cardinality(rows) /\ Len(records) \in Nat \ {0}
  BY <1>1, <1>2, <1>4, RecordsExist DEF RecordsOfRows
<1>7. rows # {}
  BY <1>6, FS_EmptySet
<1>8. \A i \in rows : IsRecord(lines[i])
  BY <1>2, <1>4 DEF RecordsOfRows
<1>9. ASSUME NEW n \in DOMAIN content
      PROVE  \E i \in rows : /\ Cardinality({j \in rows : j < i}) = (n - 1) % Cardinality(rows)
                             /\ content[n] = [gpu |-> lines[i].uuid, says |-> lines[i].says]
  <2> DEFINE k == ((n - 1) % Len(records)) + 1
  <2>1. n \in 1..Len(content) /\ n - 1 \in Nat /\ content[n] = records[k]
    <3>1. n \in 1..Len(content) /\ Len(content) \in Nat
      BY DEF RoundInv
    <3> QED
      BY <3>1 DEF RoundInv
  <2>2. k \in 1..Len(records) /\ k - 1 = (n - 1) % Cardinality(rows)
    <3>1. (n - 1) % Len(records) \in 0..(Len(records) - 1)
      BY <1>6, <2>1, NextInRound
    <3> QED
      BY <1>6, <3>1
  <2> HIDE DEF k
  <2>3. PICK i \in rows : Cardinality(Rows(lines, i - 1)) = k - 1 /\ records[k] = Parser!RecordOf(lines[i])
    BY <1>2, <1>4, <2>2 DEF RecordsOfRows
  <2> QED
    BY <1>5, <2>1, <2>2, <2>3 DEF Parser!RecordOf
<1> QED
  BY <1>2, <1>7, <1>8, <1>9 DEF lines

-----------------------------------------------------------------------------
(* The theorems.                                                           *)

LEMMA Invariance == Spec => []Inv
<1>1. Inv /\ [Next]_vars => Inv'
  <2> SUFFICES ASSUME Inv, [Next]_vars PROVE Inv'
    OBVIOUS
  <2>1. TypeInv'
    BY TypeStep DEF Inv
  <2>2. AnswerInv' /\ SentInv' /\ OneAttemptCounts'
    BY <2>1, AnswerStep, SentStep, OneAttemptStep DEF Inv
  <2>3. PublishedInv' /\ LocalInv' /\ ExactlyOnceInOrder'
    BY PublishedStep, LocalStep DEF Inv
  <2>4. RoundInv'
    BY RoundStep DEF Inv
  <2> QED
    BY <2>1, <2>2, <2>3, <2>4 DEF Inv
<1> QED
  BY InitInv, <1>1, PTL DEF Spec

\* Every variable keeps its type; no run checks this one.
THEOREM TypeCorrect == Spec => []TypeOK
<1>1. Inv => TypeOK
  <2> SUFFICES ASSUME TypeInv, RoundInv PROVE TypeOK
    BY DEF Inv
  <2>1. msg \in 1..MaxMessages /\ MaxMessages \in Nat
    BY StreamerAssumption DEF TypeInv, MessageNo, StreamerAssumption
  <2>2. Len(content) <= MaxMessages
    <3>1. Len(content) \in Nat /\ Len(content) <= msg
      BY DEF RoundInv
    <3> QED
      BY <2>1, <3>1
  <2>3. pos \in 1..(Len(records) + 1)
    <3>1. CASE records = <<>>
      BY <3>1 DEF RoundInv
    <3>2. CASE records # <<>>
      <4>1. Len(records) \in Nat \ {0} /\ msg - 1 \in Nat
        BY <2>1, <3>2, RecordsExist
      <4>2. (msg - 1) % Len(records) \in 0..(Len(records) - 1)
        BY <4>1, NextInRound
      <4> QED
        BY <3>2, <4>1, <4>2 DEF RoundInv
    <3> QED
      BY <3>1, <3>2
  <2> QED
    BY <2>2, <2>3 DEF TypeOK, TypeInv, RoundInv
<1> QED
  BY <1>1, Invariance, PTL

\* A file is streamed whole or not at all: every message holds the record of
\* the row whose turn it is, round after round, however often the queue refuses
\* or the client gives up, and a file of which one row is no record is not
\* streamed.
THEOREM FilesAreStreamedWhole == Spec => []WholeFileInOrder
BY MessagesHoldTheFile, Invariance, PTL DEF Inv

\* The loop takes a record for published only if the queue accepted it; one
\* Publish, with all its retries and whatever is lost on the way, puts at most
\* MaxRetries copies there, and more than one only after a fault.
THEOREM CopiesAreAccountedFor == Spec => []CopiesAccountedFor
<1>1. Inv => CopiesAccountedFor
  <2> SUFFICES ASSUME Inv, NEW n \in MessageNo
               PROVE  /\ outcome[n] = "published" => copies[n] > 0
                      /\ copies[n] + Cardinality({r \in requests : r[1] = n}) <= MaxRetries
                      /\ copies[n] > 1 => faults > 0
    BY DEF CopiesAccountedFor
  <2>1. /\ copies[n] \in Nat /\ InFlight(n) \in Nat /\ Sent(n) \in 0 .. MaxRetries
        /\ Spent(n) = copies[n] + InFlight(n) /\ faults \in Nat /\ MaxRetries \in Nat
    BY SpentType, SentType, Numbers DEF Inv, TypeInv, SpentTypes, SentTypes, Spent
  <2>2. Spent(n) <= Sent(n) /\ (faults = 0 => Spent(n) <= 1)
    BY DEF Inv, SentInv, OneAttemptCounts
  <2>3. InFlight(n) = Cardinality({r \in requests : r[1] = n})
    BY DEF InFlight, Of
  <2>4. outcome[n] = "published" => copies[n] > 0
    BY DEF Inv, PublishedInv
  <2>5. copies[n] + InFlight(n) <= MaxRetries
    BY <2>1, <2>2
  <2>6. copies[n] > 1 => faults > 0
    BY <2>1, <2>2
  <2> QED
    BY <2>3, <2>4, <2>5, <2>6
<1> QED
  BY <1>1, Invariance, PTL

\* In one process the queue gets every message at most once and in the order
\* they were made, and none is skipped before the queue is closed.
THEOREM OneProcessExactlyOnce == Spec => []ExactlyOnceInOrder
BY Invariance, PTL DEF Inv
=============================================================================
