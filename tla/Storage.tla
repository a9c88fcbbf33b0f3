------------------------------ MODULE Storage ------------------------------
(***************************************************************************)
(* The two repositories a storage service can be started with, side by     *)
(* side: pkg/storage/interface.go says what both promise.  They are given  *)
(* the same calls, in the same order, and the service restarts now and     *)
(* then: the in-memory store loses what it has, the database keeps it.     *)
(***************************************************************************)
EXTENDS Integers, SequencesExt

CONSTANTS
    Gpu, Instant, Record, None, MaxRecords, EvictShare, MaxSaves,   \* MemoryStore
    Micro,         \* PostgresStore
    MaxRestarts    \* model bounds: calls (MaxSaves), and restarts of the service

VARIABLES
    gpus, telemetry, gpuTelemetryIndex, gpusWithTelemetry, log,
    pgGpus, rows,
    accepted,      \* history: the records the database accepted, in order
    refused,       \* history: the records it refused
    restarts       \* restarts of the service so far

Mem == INSTANCE MemoryStore
Pg == INSTANCE PostgresStore

memVars == <<gpus, telemetry, gpuTelemetryIndex, gpusWithTelemetry, log>>
vars == <<memVars, pgGpus, rows, accepted, refused, restarts>>

ASSUME StorageAssumption ==
    /\ Mem!StoreAssumption
    /\ Pg!PostgresAssumption
    /\ \A t \in Instant : None # [time |-> t, zone |-> 0]
    /\ MaxRestarts \in Nat

TypeOK ==
    /\ Mem!TypeOK
    /\ Pg!TypeOK
    /\ accepted \in Seq(Record)
    /\ refused \in Seq(Record)
    /\ restarts \in 0..MaxRestarts

Init ==
    /\ Mem!Init
    /\ Pg!Init
    /\ accepted = <<>>
    /\ refused = <<>>
    /\ restarts = 0

-----------------------------------------------------------------------------

SaveGPU(g) ==
    /\ Mem!SaveGPU(g)
    /\ Pg!SaveGPU(g)
    /\ UNCHANGED <<accepted, refused, restarts>>

CallsLeft == Len(accepted) + Len(refused) < MaxSaves

SaveTelemetry(r) ==
    /\ CallsLeft
    /\ Mem!SaveTelemetry(r)
    /\ Pg!SaveTelemetry(r)
    /\ accepted' = Append(accepted, r)
    /\ UNCHANGED <<refused, restarts>>

\* Only the database refuses a record of a GPU nobody has saved.
SaveRefused(r) ==
    /\ CallsLeft
    /\ Mem!SaveTelemetry(r)
    /\ Pg!RefuseTelemetry(r)
    /\ refused' = Append(refused, r)
    /\ UNCHANGED <<accepted, restarts>>

Restart ==
    /\ restarts < MaxRestarts
    /\ restarts' = restarts + 1
    /\ Mem!Restart
    /\ UNCHANGED <<pgGpus, rows, accepted, refused>>

Next ==
    \/ \E g \in Gpu : SaveGPU(g)
    \/ \E r \in Record : SaveTelemetry(r) \/ SaveRefused(r)
    \/ Restart

Spec == Init /\ [][Next]_vars

-----------------------------------------------------------------------------
(* Properties.                                                             *)

\* The in-memory store keeps its limit by giving up the oldest records.
KeepsTheNewest == Mem!KeepsTheNewest

\* A query of the in-memory store answers exactly what is stored.
QueryExact == Mem!QueryExact

\* The last of the records with the same key, for each key in s.
Latest(s) ==
    {Pg!RowOf(s[i]) : i \in {i \in DOMAIN s : \A j \in i + 1 .. Len(s) :
                               ~Pg!SameKey(Pg!RowOf(s[i]), Pg!RowOf(s[j]))}}

\* The table holds the value accepted last for each key, once: a record that is
\* saved again, because its answer was lost or its batch was redelivered, adds
\* nothing, and a restart of the service loses nothing.
LastSavedWins == rows = Latest(accepted)

\* The stamp of an instant in UTC, and what is stored of one exactly.
UTC(t) == IF t = None THEN None ELSE [time |-> t, zone |-> 0]
IsExact(r) == r.zone = 0 /\ r.time % Micro = 0

\* A GPU whose records are stamped in whole microseconds of UTC, none of them
\* refused: what the in-memory store answers about it the database answers
\* too, with the value saved last where a record was saved twice, and it says
\* no more than the in-memory store unless that has evicted or restarted.
BackendsAgree ==
    \A g \in Gpu :
        /\ \A r \in ToSet(telemetry) : r.gpu = g => IsExact(r)
        /\ \A r \in ToSet(refused) : r.gpu # g
        =>
            /\ g \in Mem!ListGPUs => g \in Pg!ListGPUs
            /\ \A start, end \in {t \in Instant : t % Micro = 0} \cup {None} :
                 LET mem == ToSet(Mem!GetTelemetryByGPU(g, start, end))
                     pg == ToSet(Pg!GetTelemetryByGPU(g, UTC(start), UTC(end)))
                 IN  /\ Latest(telemetry) \cap {Pg!RowOf(r) : r \in mem} \subseteq pg
                     /\ \A r \in mem : \E row \in pg : Pg!SameKey(row, Pg!RowOf(r))
                     /\ (telemetry = log /\ restarts = 0) =>
                           /\ pg \subseteq {Pg!RowOf(r) : r \in mem}
                           /\ g \in Pg!ListGPUs => g \in Mem!ListGPUs
=============================================================================
