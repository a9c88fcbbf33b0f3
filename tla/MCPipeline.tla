----------------------------- MODULE MCPipeline -----------------------------
(***************************************************************************)
(* Instances of Pipeline for TLC.                                          *)
(***************************************************************************)
EXTENDS Pipeline, TLC

CONSTANTS m1, m2, c1, c2, s1, s2, s3, g1

\* The payload of m2 names no GPU.
MCGpuOf == [m \in Message |-> IF m = m2 THEN None ELSE g1]

\* c1 connects up to twice, c2 once; or c1 alone, up to three times.
MCTwoConsumers == [s \in Sub |-> IF s = s3 THEN c2 ELSE c1]
MCOneConsumer == [s \in Sub |-> c1]

MessageSymmetry == Permutations(Message)
=============================================================================
