--------------------------- MODULE PostgresStore ---------------------------
(***************************************************************************)
(* The PostgreSQL repository of pkg/storage/postgres/store.go: the tables  *)
(* gpus and telemetry, and the statements its methods execute.  Each       *)
(* method executes one statement, so each is one step.                     *)
(*                                                                         *)
(* ingestion_time is a TIMESTAMP: the database rounds what it is given to  *)
(* microseconds and keeps the wall clock, not the zone it was read in.     *)
(***************************************************************************)
EXTENDS Integers, Ordering

CONSTANTS
    Gpu,      \* GPU UUIDs
    Record,   \* records: gpu, metric, value, and a stamp: time and zone
    None,     \* an absent time bound
    Micro     \* instants to a microsecond

\* Assumed by Storage.
PostgresAssumption ==
    /\ Micro \in Nat \ {0}
    /\ \A r \in Record : r.gpu \in Gpu /\ r.time \in Nat /\ r.zone \in Int

VARIABLES
    pgGpus,   \* the keys of table gpus
    rows      \* table telemetry

vars == <<pgGpus, rows>>

-----------------------------------------------------------------------------
(* The schema.                                                             *)

\* A fraction of a microsecond is rounded to the nearest, a half to even.
Rounded(t) ==
    LET whole == t \div Micro
        rest == t % Micro
    IN  IF 2 * rest > Micro \/ (2 * rest = Micro /\ whole % 2 = 1)
          THEN whole + 1 ELSE whole

\* What a stamp is in a TIMESTAMP column: zone is the offset from UTC.
Column(stamp) == Rounded(stamp.time) + stamp.zone

RowOf(r) ==
    [gpu |-> r.gpu, metric |-> r.metric, column |-> Column(r), value |-> r.value]

\* CONSTRAINT unique_telemetry
SameKey(a, b) == a.gpu = b.gpu /\ a.metric = b.metric /\ a.column = b.column

TypeOK ==
    /\ pgGpus \subseteq Gpu
    /\ rows \subseteq {RowOf(r) : r \in Record}

\* initSchema, on a database that is new; on one that is not it changes nothing.
Init ==
    /\ pgGpus = {}
    /\ rows = {}

-----------------------------------------------------------------------------
(* Statements.                                                             *)

SaveGPU(g) ==
    /\ pgGpus' = pgGpus \cup {g}
    /\ UNCHANGED rows

References(r) == r.gpu \in pgGpus

\* ON CONFLICT (gpu_uuid, metric_name, ingestion_time) DO UPDATE
UpsertDoNothing(row) ==
    IF \E old \in rows : SameKey(old, row) THEN rows ELSE rows \cup {row}
Upsert(row) == {old \in rows : ~SameKey(old, row)} \cup {row}

SaveTelemetry(r) ==
    /\ References(r)
    /\ rows' = Upsert(RowOf(r))
    /\ UNCHANGED pgGpus

\* The foreign key: a record of a GPU nobody has saved is an error.
RefuseTelemetry(r) ==
    /\ ~References(r)
    /\ UNCHANGED vars

ListGPUs == {g \in pgGpus : \E row \in rows : row.gpu = g}

\* A bound is a stamp too, and loses its zone like any other.
WithinHalfOpen(column, start, end) ==
    /\ start = None \/ column >= Column(start)
    /\ end = None \/ column < Column(end)
Within(column, start, end) ==
    /\ start = None \/ column >= Column(start)
    /\ end = None \/ column <= Column(end)

GetTelemetryByGPU(g, start, end) ==
    LET found == {row \in rows : row.gpu = g /\ Within(row.column, start, end)}
    IN  Arranged(found, {p \in found \X found : p[1].column < p[2].column})
=============================================================================
