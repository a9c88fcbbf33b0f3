----------------------------- MODULE LeaseQueue -----------------------------
(***************************************************************************)
(* What a MessageQueue promises its clients, without channels, goroutines  *)
(* or tables: a message is handed to one subscription at a time, then      *)
(* leased to that subscription's consumer, and only the end of the lease   *)
(* settles it, returns it for another hand-over or loses it.  Copies of a   *)
(* message share an ID; the lease of one ends when another one is leased.  *)
(***************************************************************************)
EXTENDS FiniteSets

CONSTANTS Message, IdOf, Sub, Consumer, None, ConsumerOf

VARIABLES
    status,      \* where each message is in its life
    recipients,  \* subscriptions it has been handed to
    holder       \* consumer that has it on lease

vars == <<status, recipients, holder>>

Status == {"new", "ready", "handed", "leased", "settled", "lost"}

TypeOK ==
    /\ status \in [Message -> Status]
    /\ recipients \in [Message -> SUBSET Sub]
    /\ holder \in [Message -> Consumer \cup {None}]

In(st) == {m \in Message : status[m] = st}

Init ==
    /\ status = [m \in Message |-> "new"]
    /\ recipients = [m \in Message |-> {}]
    /\ holder = [m \in Message |-> None]

Move(S, st) == status' = [m \in Message |-> IF m \in S THEN st ELSE status[m]]

Accept(m) ==
    /\ m \in In("new")
    /\ Move({m}, "ready")
    /\ UNCHANGED <<recipients, holder>>

Hand(m, s) ==
    /\ m \in In("ready")
    /\ Move({m}, "handed")
    /\ recipients' = [recipients EXCEPT ![m] = @ \cup {s}]
    /\ UNCHANGED holder

Superseded(m) == {k \in In("leased") : IdOf[k] = IdOf[m]}

Lease(m) ==
    /\ m \in In("handed")
    /\ status' = [k \in Message |-> IF k = m THEN "leased"
                                    ELSE IF k \in Superseded(m) THEN "lost"
                                    ELSE status[k]]
    /\ \E s \in recipients[m] :
          holder' = [k \in Message |-> IF k = m THEN ConsumerOf[s]
                                      ELSE IF k \in Superseded(m) THEN None
                                      ELSE holder[k]]
    /\ UNCHANGED recipients

\* Otherwise messages are lost before a hand-over or just after one, never out
\* of a lease ...
Lose(S) ==
    /\ Move(S, "lost")
    /\ UNCHANGED <<recipients, holder>>

Settle(m) ==
    /\ m \in In("leased")
    /\ Move({m}, "settled")
    /\ holder' = [holder EXCEPT ![m] = None]
    /\ UNCHANGED recipients

\* ... unless leases run out: some messages are taken back, others dropped.
Reclaim(back, dropped) ==
    /\ back \cap dropped = {}
    /\ status' = [m \in Message |-> IF m \in back THEN "ready"
                                    ELSE IF m \in dropped THEN "lost"
                                    ELSE status[m]]
    /\ holder' = [m \in Message |-> IF m \in back \cup dropped
                                      THEN None ELSE holder[m]]
    /\ UNCHANGED recipients

Next ==
    \/ \E m \in In("new") : Accept(m)
    \/ \E m \in In("ready"), s \in Sub : Hand(m, s)
    \/ \E m \in In("handed") : Lease(m)
    \/ \E S \in (SUBSET In("ready")) \cup (SUBSET In("handed")) : Lose(S)
    \/ \E m \in In("leased") : Settle(m)
    \/ \E back, dropped \in SUBSET In("leased") : Reclaim(back, dropped)

Spec == Init /\ [][Next]_vars
=============================================================================
