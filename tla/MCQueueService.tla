--------------------------- MODULE MCQueueService ---------------------------
(***************************************************************************)
(* Instances of QueueService for TLC.                                      *)
(***************************************************************************)
EXTENDS QueueService

CONSTANTS c1, r1, m1, m2
=============================================================================
