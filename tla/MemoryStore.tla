---------------------------- MODULE MemoryStore ----------------------------
(***************************************************************************)
(* The in-memory repository of pkg/storage/memory/store.go: a bounded      *)
(* slice of telemetry records with two indexes that eviction rebuilds, and *)
(* the queries answered from them.  Every method holds the lock from its   *)
(* first access to its last, so each is one step.                          *)
(***************************************************************************)
EXTENDS Integers, SequencesExt, Ordering

CONSTANTS
    Gpu,          \* GPU UUIDs
    Instant,      \* ingestion times
    Record,       \* telemetry records; a gpu and a time, and what else tells them apart
    None,         \* an absent time bound
    MaxRecords,   \* maxRecords
    EvictShare,   \* the fraction evicted when full is one in this many (10)
    MaxSaves      \* model bound: records saved over a behaviour

\* Assumed by the modules that use this one.
StoreAssumption ==
    /\ Instant \subseteq Nat
    /\ None \notin Instant
    /\ \A r \in Record : r.gpu \in Gpu /\ r.time \in Instant
    /\ MaxRecords \in Nat \ {0}
    /\ EvictShare \in Nat \ {0}
    /\ MaxSaves \in Nat

VARIABLES
    gpus,               \* s.gpus, its keys
    telemetry,          \* s.telemetry
    gpuTelemetryIndex,  \* s.gpuTelemetryIndex; <<>> stands for a missing key
    gpusWithTelemetry,  \* s.gpusWithTelemetry
    log                 \* history: every record this process saved, in order

vars == <<gpus, telemetry, gpuTelemetryIndex, gpusWithTelemetry, log>>

TypeOK ==
    /\ gpus \subseteq Gpu
    /\ telemetry \in Seq(Record)
    /\ gpuTelemetryIndex \in [Gpu -> Seq(Nat)]
    /\ gpusWithTelemetry \subseteq Gpu
    /\ log \in Seq(Record)

\* NewStore
Init ==
    /\ gpus = {}
    /\ telemetry = <<>>
    /\ gpuTelemetryIndex = [g \in Gpu |-> <<>>]
    /\ gpusWithTelemetry = {}
    /\ log = <<>>

-----------------------------------------------------------------------------
(* Eviction.                                                               *)

EvictCount == IF MaxRecords \div EvictShare < 1 THEN 1 ELSE MaxRecords \div EvictShare

\* evictOldestRecords: what is left of the slice, and the indexes rebuilt
\* from it.
FullLate == Len(telemetry) > MaxRecords
Full == Len(telemetry) >= MaxRecords

Kept == IF Full THEN SubSeq(telemetry, EvictCount + 1, Len(telemetry)) ELSE telemetry

Positions(t, g) ==
    LET held == {i \in 0..Len(t) - 1 : t[i + 1].gpu = g}
    IN  Arranged(held, {p \in held \X held : p[1] < p[2]})

IndexAfterEvictionStale == gpuTelemetryIndex
IndexAfterEvictionShifted ==
    [g \in Gpu |-> [k \in DOMAIN gpuTelemetryIndex[g] |->
       IF Full THEN gpuTelemetryIndex[g][k] - EvictCount ELSE gpuTelemetryIndex[g][k]]]
IndexAfterEviction ==
    IF Full THEN [g \in Gpu |-> Positions(Kept, g)] ELSE gpuTelemetryIndex

GpusAfterEviction ==
    IF Full THEN {r.gpu : r \in ToSet(Kept)} ELSE gpusWithTelemetry

-----------------------------------------------------------------------------
(* Methods that change the store.                                          *)

SaveGPU(g) ==
    /\ gpus' = gpus \cup {g}
    /\ UNCHANGED <<telemetry, gpuTelemetryIndex, gpusWithTelemetry, log>>

SaveTelemetry(r) ==
    /\ Len(log) < MaxSaves
    /\ telemetry' = Append(Kept, r)
    /\ gpuTelemetryIndex' =
          [IndexAfterEviction EXCEPT ![r.gpu] = Append(@, Len(Kept))]
    /\ gpusWithTelemetry' = GpusAfterEviction \cup {r.gpu}
    /\ log' = Append(log, r)
    /\ UNCHANGED gpus

\* The process ends and starts again: nothing of the store is kept.
Restart ==
    /\ gpus' = {}
    /\ telemetry' = <<>>
    /\ gpuTelemetryIndex' = [g \in Gpu |-> <<>>]
    /\ gpusWithTelemetry' = {}
    /\ log' = <<>>

-----------------------------------------------------------------------------
(* Queries.                                                                *)

ListGPUs == gpusWithTelemetry \cap gpus

Within(t, start, end) ==
    /\ start = None \/ ~(t < start)
    /\ end = None \/ ~(t > end)

\* The records at the positions the index holds, those past the end skipped.
GetTelemetryByGPU(g, start, end) ==
    LET At(k) == telemetry[gpuTelemetryIndex[g][k] + 1]
        results == {k \in DOMAIN gpuTelemetryIndex[g] :
                      /\ gpuTelemetryIndex[g][k] < Len(telemetry)
                      /\ Within(At(k).time, start, end)}
        order == Arranged(results,
                     {p \in results \X results : At(p[1]).time < At(p[2]).time})
    IN  [i \in 1..Cardinality(results) |-> At(order[i])]

-----------------------------------------------------------------------------
(* Properties.                                                             *)

\* The limit holds after every save, and eviction takes the oldest records and
\* no more of them than its share: what is stored is the end of the log, all
\* of it or at least MaxRecords - EvictCount + 1 records.
KeepsTheNewest ==
    /\ Len(telemetry) <= MaxRecords
    /\ IsSuffix(telemetry, log)
    /\ \/ telemetry = log
       \/ Len(telemetry) > MaxRecords - EvictCount

\* A query through the index returns exactly the stored records of the GPU
\* whose times lie between the bounds, both inclusive, oldest first, however
\* many evictions have shifted the positions the index holds; and ListGPUs
\* names a registered GPU as long as one of its records is stored, and not
\* after the last of them has been evicted.
QueryExact ==
    /\ \A g \in Gpu, start, end \in Instant \cup {None} :
        LET answer == GetTelemetryByGPU(g, start, end)
            stored == {p \in DOMAIN telemetry :
                         /\ telemetry[p].gpu = g
                         /\ start = None \/ start <= telemetry[p].time
                         /\ end = None \/ telemetry[p].time <= end}
        IN  /\ \A i \in 1..Len(answer) - 1 : answer[i].time <= answer[i + 1].time
            /\ \E place \in Bijection(DOMAIN answer, stored) :
                  \A i \in DOMAIN answer : answer[i] = telemetry[place[i]]
    /\ ListGPUs = {g \in gpus : \E r \in ToSet(telemetry) : r.gpu = g}
=============================================================================
