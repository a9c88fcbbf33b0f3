----------------------------- MODULE MCStorage -----------------------------
(***************************************************************************)
(* Instances of Storage for TLC.                                           *)
(***************************************************************************)
EXTENDS Storage

CONSTANTS g1, g2

Sample(g, metric, time, zone, value) ==
    [gpu |-> g, metric |-> metric, time |-> time, zone |-> zone, value |-> value]

\* With three instants to the microsecond: a record, the same key with another
\* value, another metric a microsecond later, a key that rounds to the first
\* one's, and a record of another GPU, stamped in another zone.
MCRecord ==
    {Sample(g1, "util", 3, 0, 10), Sample(g1, "util", 3, 0, 20),
     Sample(g1, "temp", 6, 0, 30), Sample(g1, "util", 4, 0, 40),
     Sample(g2, "util", 3, 1, 50)}
=============================================================================
