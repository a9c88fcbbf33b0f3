---------------------------- MODULE MCCollector ----------------------------
(***************************************************************************)
(* Instances of Collector for TLC.                                         *)
(***************************************************************************)
EXTENDS Collector

CONSTANTS m1, m2, m3, c1, c2, g1, g2

\* The payloads of m1 and m2 are of one GPU, that of m3 has none.
MCGpuOf == [m \in Message |-> IF m = m3 THEN None ELSE g1]
=============================================================================
