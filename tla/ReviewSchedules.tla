--------------------------- MODULE ReviewSchedules ---------------------------
(***************************************************************************)
(* Recurring access reviews: a schedule that becomes due is listed by a    *)
(* runner (one per replica, two of them while leadership changes) and      *)
(* fired by a transaction that looks at next_run_at again.                 *)
(*                                                                         *)
(* enabled, due   the schedule: enabled; next_run_at <= NOW()              *)
(* runner         per replica: idle, or about to fire what it has listed   *)
(* periods        how often the schedule became due (history)              *)
(* fired          campaigns created for it (history)                       *)
(***************************************************************************)
EXTENDS Integers

CONSTANTS Runners,      \* replicas that may run the ticker
          MaxPeriods    \* bound on the times the schedule becomes due

VARIABLES enabled, due, runner, periods, fired

scheduleVars == <<enabled, due, runner, periods, fired>>

\* CreateReviewSchedule: next_run_at lies in the future.
ScheduleInit ==
    /\ enabled = TRUE /\ due = FALSE
    /\ runner = [q \in Runners |-> "idle"]
    /\ periods = 0 /\ fired = 0

\* Time passes next_run_at.
BecomesDue ==
    /\ ~ due /\ periods < MaxPeriods
    /\ due' = TRUE /\ periods' = periods + 1
    /\ UNCHANGED <<enabled, runner, fired>>

\* Enable or disable.
UpdateReviewSchedule ==
    /\ enabled' = ~ enabled
    /\ UNCHANGED <<due, runner, periods, fired>>

\* RunDueReviewSchedules lists the schedules that are due.
RunDueReviewSchedules(q) ==
    /\ runner[q] = "idle" /\ enabled /\ due
    /\ runner' = [runner EXCEPT ![q] = "fire"]
    /\ UNCHANGED <<enabled, due, periods, fired>>

\* Mutant: the transaction trusts the listing.
FireAsListed(q) ==
    /\ runner[q] = "fire"
    /\ due' = FALSE /\ fired' = fired + 1
    /\ runner' = [runner EXCEPT ![q] = "idle"]
    /\ UNCHANGED <<enabled, periods>>

\* fireReviewSchedule: UPDATE ... WHERE enabled AND next_run_at <= NOW(), and
\* in the same transaction the campaign; no row means another one was faster.
fireReviewSchedule(q) ==
    /\ runner[q] = "fire"
    /\ IF enabled /\ due THEN due' = FALSE /\ fired' = fired + 1 ELSE UNCHANGED <<due, fired>>
    /\ runner' = [runner EXCEPT ![q] = "idle"]
    /\ UNCHANGED <<enabled, periods>>

\* The transaction is rolled back, or the replica stops.
FireFails(q) ==
    /\ runner[q] = "fire"
    /\ runner' = [runner EXCEPT ![q] = "idle"]
    /\ UNCHANGED <<enabled, due, periods, fired>>

ScheduleNext ==
    \/ BecomesDue \/ UpdateReviewSchedule
    \/ \E q \in Runners : RunDueReviewSchedules(q) \/ fireReviewSchedule(q) \/ FireFails(q)

-----------------------------------------------------------------------------
(* Properties.                                                             *)

\* A schedule creates exactly one campaign each time it is due, with two
\* runners at work, transactions that fail and replicas that stop: none twice,
\* and none lost.
OneCampaignPerPeriod == fired + (IF due THEN 1 ELSE 0) = periods

\* A schedule that is due is fired, unless it is disabled.
DueFires == due ~> (~ due \/ ~ enabled)

=============================================================================
