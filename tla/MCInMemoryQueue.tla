-------------------------- MODULE MCInMemoryQueue --------------------------
(***************************************************************************)
(* Instances of InMemoryQueue for TLC.                                     *)
(***************************************************************************)
EXTENDS InMemoryQueue

CONSTANTS m1, m2, s1, s2, c1, c2

\* Two collectors, one subscription each.
MCTwoConsumers == (s1 :> c1) @@ (s2 :> c2)

\* A single subscription.
MCOneConsumer == s1 :> c1

\* Every message has its own ID, or all are copies of one.
MCOwnId == [m \in Message |-> m]
MCSameId == [m \in Message |-> m1]

MessageSymmetry == Permutations(Message)
=============================================================================
