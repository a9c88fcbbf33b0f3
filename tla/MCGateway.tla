----------------------------- MODULE MCGateway -----------------------------
(***************************************************************************)
(* Instances of Gateway for TLC.                                           *)
(***************************************************************************)
EXTENDS Gateway

CONSTANT g1

MCRecord == [gpu : {g1}, time : Instant]

\* Everything up to a whole second, a range the wrong way round, and the list.
MCQuery ==
    {[gpu |-> g1, start |-> b[1], end |-> b[2]] : b \in {<<None, 2>>, <<3, 2>>}}
        \cup {[gpu |-> None, start |-> None, end |-> None]}
=============================================================================
