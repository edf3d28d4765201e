----------------------------- MODULE Deployment ------------------------------
(***************************************************************************)
(* What the replicas do as a deployment, apart from the requests of users: *)
(* they come up and provision the realm, the first administrator is set    *)
(* up, they elect leaders for the background jobs and run them (review     *)
(* schedules, drift detection), and administrators change the settings     *)
(* Keycloak and Fleet are given (mail relay, password policy, directories, *)
(* Fleet server).  The parts share no variable; a run explores one.        *)
(***************************************************************************)
EXTENDS LeaderElection, Startup, FirstAdmin, ReviewSchedules, Drift,
        RealmSettings, Federation, FleetClient

VARIABLE stage          \* the part this behaviour is about

deploymentVars == <<vars, startVars, setupVars, scheduleVars, driftVars,
                    settingsVars, federationVars, now, fleetVars, stage>>

Stages == {"elect", "start", "setup", "review", "drift", "settings", "federation", "fleet"}

DeploymentInit ==
    /\ Init /\ StartInit /\ SetupInit /\ ScheduleInit /\ DriftInit
    /\ SettingsInit /\ FederationInit /\ ClockInit /\ FleetInit
    /\ stage \in Stages
    /\ stage # "start" => pinned        \* no matter to the other parts

\* The jobs of the replicas, and the settings, do not change.
KeepJobs == UNCHANGED <<vars, startVars, setupVars, scheduleVars, driftVars>>
KeepSettings == UNCHANGED <<settingsVars, federationVars, now, fleetVars>>

DeploymentNext ==
    /\ \/ /\ KeepSettings
          /\ \/ stage = "elect" /\ Next /\ UNCHANGED <<startVars, setupVars, scheduleVars, driftVars>>
             \/ stage = "start" /\ StartNext /\ UNCHANGED <<vars, setupVars, scheduleVars, driftVars>>
             \/ stage = "setup" /\ SetupNext /\ UNCHANGED <<vars, startVars, scheduleVars, driftVars>>
             \/ stage = "review" /\ ScheduleNext /\ UNCHANGED <<vars, startVars, setupVars, driftVars>>
             \/ stage = "drift" /\ DriftNext /\ UNCHANGED <<vars, startVars, setupVars, scheduleVars>>
       \/ /\ KeepJobs
          /\ \/ stage = "settings" /\ SettingsNext /\ UNCHANGED <<federationVars, now, fleetVars>>
             \/ stage = "federation" /\ FederationNext /\ UNCHANGED <<settingsVars, now, fleetVars>>
             \/ stage = "fleet" /\ FleetNext /\ UNCHANGED <<settingsVars, federationVars>>
    /\ UNCHANGED stage

DeploymentSpec == DeploymentInit /\ [][DeploymentNext]_deploymentVars

\* The elector's loop never blocks for good (its queries carry deadlines), Ping
\* notices a cut connection, the server ends lingering sessions, and an answer
\* that is awaited again and again arrives in the end.
ElectorFairness ==
    \A r \in Replicas :
        /\ WF_vars(stage = "elect" /\ tryAcquire(r))
        /\ SF_vars(stage = "elect" /\ BecomeLeader(r))
        /\ WF_vars(stage = "elect" /\ Unlock(r))
        /\ WF_vars(stage = "elect" /\ PingFails(r) /\ conn[r] = "cut")
        /\ WF_vars(stage = "elect" /\ SessionEnds(r))

\* A job or server that can go on does (its supervisor restarts it), and the
\* database ends the sessions of dead processes.
StartFairness ==
    /\ \A j \in Jobs : WF_startVars(stage = "start" /\ JobStep(j))
    /\ \A s \in Servers : WF_startVars(stage = "start" /\ ServerStep(s))
    /\ \A l \in {"migrate", "bootstrap"} : WF_startVars(stage = "start" /\ SessionReaped(l))

\* The ticker of a replica goes on, and a transaction that is tried again and
\* again succeeds.
ScheduleFairness ==
    \A q \in Runners :
        /\ WF_scheduleVars(stage = "review" /\ RunDueReviewSchedules(q))
        /\ SF_scheduleVars(stage = "review" /\ fireReviewSchedule(q))
        /\ WF_scheduleVars(stage = "review" /\ (fireReviewSchedule(q) \/ FireFails(q)))

FairDeployment == DeploymentSpec /\ ElectorFairness /\ StartFairness /\ ScheduleFairness

-----------------------------------------------------------------------------
(* Liveness of the parts that have it.                                     *)

\* There is a leader again and again, whatever replicas crash and sessions end.
LeadersRecur == stage = "elect" => LeaderRecurs

\* All replicas are in service in the end, whatever failed while they started.
ServersServe == stage = "start" => AllServeInTheEnd

\* Every schedule that is due and stays enabled is fired, by whichever runner.
SchedulesFire == stage = "review" => DueFires

-----------------------------------------------------------------------------
\* Work that is to be done again and again is done: some replica leads every
\* job, and every review schedule that is due fires, however often leaders lose
\* their connection (Elector.loop, RunDueReviewSchedules).
JobsGoOn == LeadersRecur /\ SchedulesFire

\* What the deployment's own tables say is what Keycloak and Fleet are given:
\* the mail relay, the password policy, and the Fleet server a call goes to
\* (UpsertSMTPConfig, UpdateAccountPolicy, DynamicFleetClient.client).
SettingsAgree == RelaysAgree /\ PolicyReadsBack /\ FleetClientCurrent
=============================================================================
