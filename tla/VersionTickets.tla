--------------------------- MODULE VersionTickets ---------------------------
(***************************************************************************)
(* What optimistic locking promises to the writers of a resource: a        *)
(* counter whose values are handed out one at a time, each to one writer.  *)
(* The newest value may be given back by the writer that got it.           *)
(***************************************************************************)
EXTENDS Integers

CONSTANT Versions       \* the values the counter may take

VARIABLES current,      \* the newest value
          holders       \* per value: how many writers hold it

ticketVars == <<current, holders>>

TicketInit ==
    /\ current \in Versions
    /\ holders = [v \in Versions |-> 0]

\* A value is handed out only while nobody holds it.
Grant ==
    /\ current + 1 \in Versions
    /\ holders[current + 1] = 0
    /\ current' = current + 1
    /\ holders' = [holders EXCEPT ![current + 1] = 1]

GiveBack ==
    /\ holders[current] = 1
    /\ current - 1 \in Versions
    /\ current' = current - 1
    /\ holders' = [holders EXCEPT ![current] = 0]

TicketSpec == TicketInit /\ [][Grant \/ GiveBack]_ticketVars

=============================================================================
