------------------------------ MODULE Analytics ------------------------------
(* The analytics snapshots of one organisation: a pass of the leader-gated   *)
(* ticker computes each number with a query of its own, outside any          *)
(* transaction, and stores one row.  Two replicas may run a pass at once,    *)
(* since a leader that lost its lock finishes the pass it began.             *)
EXTENDS Clock, FiniteSets

CONSTANTS Replicas, Devices, Persons, Events, Null,
          OnboardEvents,  \* those of the Events that are onboardings
          Retention,      \* analyticsSnapshotRetention
          MaxPasses,      \* bound on passes
          MaxMoves        \* bound on changes of what the rates are computed from

VARIABLES focus,      \* bound: a behaviour changes the rates' tables or the activity
          device,     \* devices.org_id joined with device_posture_cache
          person,     \* the org's users joined with mfa_coverage_cache
          event,      \* audit_logs: onboard and offboard entries and their stamps
          captured,   \* captured_at of the org's rows in analytics_snapshots
          pass,       \* each replica's pass in progress
          row,        \* the row the step just taken stored
          counted,    \* how many rows counted each event
          straddling, \* events whose transaction met the counting or the instant of a row
          owed,       \* events committed before a completed pass began
          repeated,   \* passes overlapped, or the newest row was pruned
          budget
snapVars == <<focus, device, person, event, captured, pass, row, counted, straddling, owed,
              repeated, budget>>

NoPass == [pc |-> "idle"]
Stamp == now + 1

AnalyticsInit ==
  /\ focus \in {"rates", "activity"}
  /\ device = [d \in Devices |-> [org |-> "none", cached |-> "no"]]
  /\ person = [u \in Persons |-> [disabled |-> FALSE, mfa |-> FALSE]]
  /\ event = [e \in Events |-> [state |-> "none", at |-> 0]]
  /\ captured = {} /\ pass = [r \in Replicas |-> NoPass] /\ row = Null
  /\ counted = [e \in Events |-> 0] /\ straddling = {} /\ owed = {} /\ repeated = FALSE
  /\ budget = [moves |-> MaxMoves, passes |-> MaxPasses]

------------------------------------------------------------------------------
(* What the queries read, and what changes it meanwhile *)

Enrolled == {d \in Devices : device[d].org = "mine"}

Cached == {d \in Enrolled : device[d].cached # "no"}

Compliant == {d \in Cached : device[d].cached = "compliant"}
Active == {u \in Persons : ~person[u].disabled}
WithMFA == {u \in Persons : person[u].mfa}

Move ==
  /\ focus = "rates" /\ budget.moves > 0 /\ budget' = [budget EXCEPT !.moves = @ - 1]
  /\ pass' = [r \in Replicas |-> IF pass[r].pc = "idle" THEN NoPass
                                 ELSE [pass[r] EXCEPT !.calm = FALSE]]
  /\ row' = Null
  /\ UNCHANGED <<now, focus, event, captured, counted, straddling, owed, repeated>>

Enroll(d, o) ==
  /\ device[d].org # o
  /\ device' = [device EXCEPT ![d].org = o] /\ UNCHANGED person /\ Move

(* GetOrgCompliance caches what Fleet answers for each device it listed,     *)
(* one upsert at a time; a device Fleet does not answer for is not           *)
(* compliant.  Requests overlap, so any answer may be the last.              *)
SyncPostureCache(d, verdict) ==
  /\ device[d].org # "none" /\ device[d].cached # verdict
  /\ device' = [device EXCEPT ![d].cached = verdict] /\ UNCHANGED person /\ Move

MFACoverageChanges(u, has) ==
  /\ person[u].mfa # has
  /\ person' = [person EXCEPT ![u].mfa = has] /\ UNCHANGED device /\ Move

DisableUser(u) ==
  /\ person' = [person EXCEPT ![u].disabled = ~@] /\ UNCHANGED device /\ Move

Counting == {"onboard", "offboard", "insert"}
Activity == /\ focus = "activity" /\ row' = Null
            /\ UNCHANGED <<now, focus, device, person, captured, pass, counted, owed, repeated, budget>>

(* an onboarding or offboarding begins its transaction, and commits          *)
BeginEvent(e) ==
  /\ event[e].state = "none"
  /\ event' = [event EXCEPT ![e] = [state |-> "open", at |-> Stamp]]
  /\ straddling' = IF Stamp \in captured \/ \E r \in Replicas : pass[r].pc \in Counting
                   THEN straddling \cup {e} ELSE straddling
  /\ Activity

CommitEvent(e) ==
  /\ event[e].state = "open"
  /\ event' = [event EXCEPT ![e].state = "done"] /\ UNCHANGED straddling /\ Activity

------------------------------------------------------------------------------
(* The pass: takeSnapshotForOrg, one query a step *)

Committed == {e \in Events : event[e].state = "done"}

(* Mutant: created_at >= last                                                *)
SinceInclusive(last, kind) == {e \in Committed \cap kind : event[e].at >= last}

Since(last, kind) == {e \in Committed \cap kind : event[e].at > last}

SnapRest == UNCHANGED <<now, focus, device, person, event>>
Advance(r, rec) == pass' = [pass EXCEPT ![r] = rec]

(* Start: the ticker of a replica that takes itself for the leader           *)
TakeSnapshot(r) ==
  /\ pass[r].pc = "idle" /\ budget.passes > 0
  /\ budget' = [budget EXCEPT !.passes = @ - 1]
  /\ Advance(r, [pc |-> "devices", enrolled |-> 0, total |-> 0, compliant |-> 0, users |-> 0,
                 mfa |-> 0, last |-> 0, events |-> {}, calm |-> TRUE, before |-> Committed])
  /\ row' = Null
  /\ UNCHANGED <<captured, counted, straddling, owed, repeated>> /\ SnapRest

Queried(r, rec) ==
  /\ Advance(r, rec) /\ row' = Null
  /\ UNCHANGED <<captured, counted, straddling, owed, repeated, budget>> /\ SnapRest

CountDevices(r) ==
  /\ pass[r].pc = "devices"
  /\ Queried(r, [pass[r] EXCEPT !.pc = "total", !.enrolled = Cardinality(Enrolled)])
CountCached(r) ==
  /\ pass[r].pc = "total"
  /\ Queried(r, [pass[r] EXCEPT !.pc = IF Cached = {} THEN "users" ELSE "compliant",
                                !.total = Cardinality(Cached)])
CountCompliant(r) ==
  /\ pass[r].pc = "compliant"
  /\ Queried(r, [pass[r] EXCEPT !.pc = "users", !.compliant = Cardinality(Compliant)])
CountUsers(r) ==
  /\ pass[r].pc = "users"
  /\ Queried(r, [pass[r] EXCEPT !.pc = IF Active = {} THEN "last" ELSE "mfa",
                                !.users = Cardinality(Active)])
(* every user of the org with MFA, the disabled ones included                *)
CountMFA(r) ==
  /\ pass[r].pc = "mfa"
  /\ Queried(r, [pass[r] EXCEPT !.pc = "last", !.mfa = Cardinality(WithMFA)])

Newest == IF captured = {} THEN 0 ELSE CHOOSE t \in captured : \A s \in captured : s <= t

(* COALESCE(MAX(captured_at), '1970-01-01')                                  *)
ReadLast(r) ==
  /\ pass[r].pc = "last"
  /\ Advance(r, [pass[r] EXCEPT !.pc = "onboard", !.last = Newest])
  /\ straddling' = straddling \cup {e \in Events : event[e].state = "open"}
  /\ repeated' = (repeated \/ \E q \in Replicas \ {r} : pass[q].pc \in Counting)
  /\ row' = Null
  /\ UNCHANGED <<captured, counted, owed, budget>> /\ SnapRest

CountOnboards(r) ==
  /\ pass[r].pc = "onboard"
  /\ Queried(r, [pass[r] EXCEPT !.pc = "offboard", !.events = Since(pass[r].last, OnboardEvents)])
CountOffboards(r) ==
  /\ pass[r].pc = "offboard"
  /\ Queried(r, [pass[r] EXCEPT !.pc = "insert",
                   !.events = @ \cup Since(pass[r].last, Events \ OnboardEvents)])

(* the row, stamped by the column's DEFAULT NOW()                            *)
InsertSnapshot(r) ==
  /\ pass[r].pc = "insert" /\ Advance(r, NoPass)
  /\ captured' = captured \cup {Stamp} /\ row' = pass[r]
  /\ counted' = [e \in Events |-> counted[e] + (IF e \in pass[r].events THEN 1 ELSE 0)]
  /\ owed' = owed \cup pass[r].before
  /\ UNCHANGED <<straddling, repeated, budget>> /\ SnapRest

(* any query fails: the pass stops without a row                             *)
PassFails(r) == pass[r].pc # "idle" /\ Queried(r, NoPass)

(* Prune, every so many ticks                                                *)
Prune ==
  /\ \E t \in captured : t + Retention < Stamp
  /\ captured' = {t \in captured : t + Retention >= Stamp} /\ row' = Null
  /\ repeated' = (repeated \/ captured' = {})
  /\ UNCHANGED <<pass, counted, straddling, owed, budget>> /\ SnapRest

SnapTick == /\ focus = "activity" /\ ClockTick /\ row' = Null
            /\ UNCHANGED <<focus, device, person, event, captured, pass, counted, straddling, owed,
                           repeated, budget>>

AnalyticsNext ==
  \/ SnapTick \/ Prune
  \/ \E d \in Devices : \E o \in {"mine", "other"} : Enroll(d, o)
  \/ \E d \in Devices : \E v \in {"compliant", "not"} : SyncPostureCache(d, v)
  \/ \E u \in Persons : DisableUser(u) \/ \E has \in BOOLEAN : MFACoverageChanges(u, has)
  \/ \E e \in Events : BeginEvent(e) \/ CommitEvent(e)
  \/ \E r \in Replicas :
       \/ TakeSnapshot(r) \/ CountDevices(r) \/ CountCached(r) \/ CountCompliant(r) \/ CountUsers(r)
       \/ CountMFA(r) \/ ReadLast(r) \/ CountOnboards(r) \/ CountOffboards(r) \/ InsertSnapshot(r)
       \/ PassFails(r)

------------------------------------------------------------------------------
(* The rates are shares: snapshot.go:38 says "every rate-like field is a     *)
(* ratio in the range 0-1" of complianceRate and mfaCoveragePct.             *)
RatesAreRatios == row # Null => row.compliant <= row.total /\ (row.users > 0 => row.mfa <= row.users)

(* A pass during which nothing changed stores the organisation's own         *)
(* numbers: its enrolled devices, those with a cached posture among them,    *)
(* the compliant among those, and no other organisation's                    *)
(* (snapshot.go TakeSnapshot: "must never reflect another org's").           *)
CalmRowIsOwn ==
  row # Null /\ row.calm =>
    /\ row.enrolled = Cardinality(Enrolled) /\ row.total = Cardinality(Cached)
    /\ row.compliant = Cardinality({d \in Devices : device[d] = [org |-> "mine", cached |-> "compliant"]})

(* An onboarding or offboarding is counted in at most one row, unless two    *)
(* passes overlapped or the retention sweep took the newest row              *)
(* (snapshot.go: activity "since the previous snapshot").                    *)
CountedAtMostOnce == repeated \/ \A e \in Events : counted[e] <= 1

(* And in at least one: what was committed before a completed pass began has *)
(* been counted, unless its transaction met the counting of a pass or began  *)
(* at the instant of a row, when its stamp does not follow that row's.       *)
CommittedIsCounted == \A e \in owed \ straddling : counted[e] >= 1

(* A snapshot tells the organisation's own numbers and counts its events     *)
(* once (snapshot.go TakeSnapshot).                                          *)
SnapshotIsTruthful == CalmRowIsOwn /\ CountedAtMostOnce /\ CommittedIsCounted
==============================================================================
