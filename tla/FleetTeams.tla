----------------------------- MODULE FleetTeams -----------------------------
(* Fleet's teams and hosts, shared by all organisations, and the two tables  *)
(* that say whose they are: devices.org_id and fleet_team_orgs.  Fleet knows *)
(* nothing of organisations; every handler first checks the tables and then  *)
(* calls Fleet, and the two are not one step.                                *)
(*                                                                           *)
(* Fleet is external: a call takes effect or not, and its answer may be lost *)
(* after it took effect.                                                     *)
EXTENDS Naturals, FiniteSets

CONSTANTS Admins, Orgs, FleetHosts, Teams, Names, Nobody,
          AdminOrg,      \* the organisation an administrator's request acts in
          SystemAdmins,  \* those who pass isSystemAdminCaller
          MaxRequests    \* bound on requests, enrollments and imports

VARIABLES fleetTeam,  \* Fleet: the names of the teams that exist
          teamOrg,    \* fleet_team_orgs
          hostOrg,    \* devices.org_id
          issued,     \* Fleet: the hosts a command was issued to
          commands,   \* the hosts with a row in device_commands
          call,       \* each administrator's request in progress
          acted,      \* what the step just taken did in Fleet, and for whom
          litter,     \* teams whose creation met a fault it could not undo
          requests
fleetVars == <<fleetTeam, teamOrg, hostOrg, issued, commands, call, acted, litter, requests>>

NoCall == [pc |-> "idle"]
NoAct == [by |-> Nobody]

FleetInit ==
  /\ fleetTeam = [t \in Teams |-> Nobody] /\ teamOrg = [t \in Teams |-> Nobody]
  /\ hostOrg = [h \in FleetHosts |-> Nobody] /\ issued = {} /\ commands = {}
  /\ call = [a \in Admins |-> NoCall] /\ acted = NoAct /\ litter = {} /\ requests = 0

Exists(t) == fleetTeam[t] # Nobody
OrgHosts(o) == {h \in FleetHosts : hostOrg[h] = o}
OrgTeams(o) == {t \in Teams : teamOrg[t] = o}

Counted == requests < MaxRequests /\ requests' = requests + 1

(* What an administrator's request may rely on: the hosts and the teams that *)
(* were their organisation's at some moment since the request began.         *)
Owning(hosts, teams) ==
  call' = [a \in Admins |->
             IF call[a].pc = "idle" THEN NoCall
             ELSE [call[a] EXCEPT !.ownHosts = @ \cup hosts[AdminOrg[a]],
                                  !.ownTeams = @ \cup teams[AdminOrg[a]]]]
Nothing == [o \in Orgs |-> {}]

(* linkEnrolledDevice: a re-enrollment moves the device to the token's org   *)
EnrollHost(h, o) ==
  /\ Counted /\ hostOrg[h] # o
  /\ hostOrg' = [hostOrg EXCEPT ![h] = o]
  /\ Owning([Nothing EXCEPT ![o] = {h}], Nothing)
  /\ acted' = NoAct
  /\ UNCHANGED <<fleetTeam, teamOrg, issued, commands, litter>>

(* the import-fleet-teams tool: the rows of one file, in one transaction,    *)
(* no team twice                                                             *)
ApplyMappings(rows) ==
  /\ Counted /\ rows # {} /\ \A r, s \in rows : r[1] = s[1] => r = s
  /\ \A r \in rows : Exists(r[1])
  /\ teamOrg' = [t \in Teams |-> IF \E r \in rows : r[1] = t
                                 THEN (CHOOSE r \in rows : r[1] = t)[2] ELSE teamOrg[t]]
  /\ Owning(Nothing, [o \in Orgs |-> {r[1] : r \in {s \in rows : s[2] = o}}])
  /\ litter' = litter \cup {r[1] : r \in {s \in rows : \E a \in Admins :
                                  call[a].pc \in {"record", "undo"} /\ call[a].team = s[1]}}
  /\ acted' = NoAct
  /\ UNCHANGED <<fleetTeam, hostOrg, issued, commands>>

------------------------------------------------------------------------------
(* Requests.  A request begins with its inputs and with what is owned then.  *)

Arrive(a, pc, team, hosts) ==
  /\ Counted /\ call[a].pc = "idle"
  /\ call' = [call EXCEPT ![a] = [pc |-> pc, team |-> team, hosts |-> hosts,
                                  ownHosts |-> OrgHosts(AdminOrg[a]),
                                  ownTeams |-> OrgTeams(AdminOrg[a])]]
  /\ acted' = NoAct
  /\ UNCHANGED <<fleetTeam, teamOrg, hostOrg, issued, commands, litter>>

MoveHostToTeam(a, t, hosts) == hosts # {} /\ Arrive(a, "team", t, hosts)
AssignTeamPolicy(a, t) == Arrive(a, "team", t, {})
RemoteCommand(a, h) == Arrive(a, "hosts", Nobody, {h})

Done(a) == call' = [call EXCEPT ![a] = NoCall]
To(a, pc) == call' = [call EXCEPT ![a].pc = pc]

(* requireFleetTeamInCallerOrg                                               *)
RequireFleetTeam(a) == a \in SystemAdmins \/ teamOrg[call[a].team] = AdminOrg[a]

CheckTeam(a) ==
  /\ call[a].pc = "team"
  /\ IF ~RequireFleetTeam(a) THEN Done(a)
     ELSE To(a, IF call[a].hosts = {} THEN "fleet" ELSE "hosts")
  /\ acted' = NoAct
  /\ UNCHANGED <<fleetTeam, teamOrg, hostOrg, issued, commands, litter, requests>>

(* Mutant: one host of the batch is enough                                   *)
RequireSomeDevice(a) == call[a].hosts \cap OrgHosts(AdminOrg[a]) # {}

(* requireDevicesInCallerOrg: one query, the whole batch or nothing          *)
RequireDevices(a) == call[a].hosts \subseteq OrgHosts(AdminOrg[a])

CheckHosts(a) ==
  /\ call[a].pc = "hosts"
  /\ IF RequireDevices(a) THEN To(a, "fleet") ELSE Done(a)
  /\ acted' = NoAct
  /\ UNCHANGED <<fleetTeam, teamOrg, hostOrg, issued, commands, litter, requests>>

Commanding(a) == call[a].team = Nobody

(* Fleet answers the move, the policy or the command                         *)
FleetAnswers(a) ==
  /\ call[a].pc = "fleet"
  /\ acted' = [by |-> a, hosts |-> call[a].hosts, team |-> call[a].team,
               ownHosts |-> call[a].ownHosts, ownTeams |-> call[a].ownTeams]
  /\ issued' = IF Commanding(a) THEN issued \cup call[a].hosts ELSE issued
  /\ IF Commanding(a) THEN To(a, "row") ELSE Done(a)
  /\ UNCHANGED <<fleetTeam, teamOrg, hostOrg, commands, litter, requests>>

(* Fleet refuses or is out of reach: 502, and nothing is recorded            *)
FleetRefuses(a) ==
  /\ call[a].pc = "fleet" /\ Done(a) /\ acted' = NoAct
  /\ UNCHANGED <<fleetTeam, teamOrg, hostOrg, issued, commands, litter, requests>>

(* persistDeviceCommand, best effort: the row is lost with the request's     *)
(* context or with the database                                              *)
PersistDeviceCommand(a, stored) ==
  /\ call[a].pc = "row" /\ Done(a) /\ acted' = NoAct
  /\ commands' = IF stored THEN commands \cup call[a].hosts ELSE commands
  /\ UNCHANGED <<fleetTeam, teamOrg, hostOrg, issued, litter, requests>>

------------------------------------------------------------------------------
(* CreateTeam: Fleet first, then the mapping, then, if that failed, undo     *)

FleetName(a, n) == <<AdminOrg[a], n>>
NameFree(name) == \A t \in Teams : fleetTeam[t] # name

(* Fleet creates the team under a globally unique name; when the answer is   *)
(* lost the handler reports a failure and the team stays.                    *)
CreateTeam(a, n, t, answered) ==
  /\ Counted /\ call[a].pc = "idle" /\ acted' = NoAct
  /\ ~Exists(t) /\ teamOrg[t] = Nobody /\ t \notin litter /\ NameFree(FleetName(a, n))
  /\ fleetTeam' = [fleetTeam EXCEPT ![t] = FleetName(a, n)]
  /\ IF answered
     THEN /\ call' = [call EXCEPT ![a] = [pc |-> "record", team |-> t, hosts |-> {},
                                          ownHosts |-> {}, ownTeams |-> {}]]
          /\ UNCHANGED litter
     ELSE litter' = litter \cup {t} /\ UNCHANGED call
  /\ UNCHANGED <<teamOrg, hostOrg, issued, commands>>

(* The upsert of the mapping row.  An error may hide a row that was stored.  *)
RecordTeam(a, stored, ok) ==
  /\ call[a].pc = "record" /\ (ok => stored) /\ acted' = NoAct
  /\ teamOrg' = IF stored THEN [teamOrg EXCEPT ![call[a].team] = AdminOrg[a]] ELSE teamOrg
  /\ litter' = IF stored /\ ~ok THEN litter \cup {call[a].team} ELSE litter
  /\ IF ok THEN Done(a) ELSE To(a, "undo")
  /\ UNCHANGED <<fleetTeam, hostOrg, issued, commands, requests>>

(* Mutant: the failed mapping is reported and the team left in Fleet         *)
LeaveTeam(a, ok) ==
  /\ call[a].pc = "undo" /\ Done(a) /\ acted' = NoAct
  /\ UNCHANGED <<fleetTeam, teamOrg, hostOrg, issued, commands, litter, requests>>

(* the compensating delete, on a context of its own                          *)
DeleteFleetTeam(a, ok) ==
  /\ call[a].pc = "undo" /\ Done(a) /\ acted' = NoAct
  /\ fleetTeam' = IF ok THEN [fleetTeam EXCEPT ![call[a].team] = Nobody] ELSE fleetTeam
  /\ litter' = IF ok THEN litter ELSE litter \cup {call[a].team}
  /\ UNCHANGED <<teamOrg, hostOrg, issued, commands, requests>>

(* the process stops in the middle of a request                              *)
CrashRequest(a) ==
  /\ call[a].pc # "idle" /\ Done(a) /\ acted' = NoAct
  /\ litter' = IF call[a].pc \in {"record", "undo"} THEN litter \cup {call[a].team} ELSE litter
  /\ UNCHANGED <<fleetTeam, teamOrg, hostOrg, issued, commands, requests>>

FleetNext ==
  \/ \E h \in FleetHosts, o \in Orgs : EnrollHost(h, o)
  \/ \E rows \in SUBSET (Teams \X Orgs) : ApplyMappings(rows)
  \/ \E a \in Admins :
       \/ CheckTeam(a) \/ CheckHosts(a) \/ FleetAnswers(a) \/ FleetRefuses(a) \/ CrashRequest(a)
       \/ \E h \in FleetHosts : RemoteCommand(a, h)
       \/ \E t \in Teams : AssignTeamPolicy(a, t)
       \/ \E t \in Teams, hosts \in SUBSET FleetHosts : MoveHostToTeam(a, t, hosts)
       \/ \E n \in Names, t \in Teams, answered \in BOOLEAN : CreateTeam(a, n, t, answered)
       \/ \E stored, ok \in BOOLEAN : RecordTeam(a, stored, ok)
       \/ \E ok \in BOOLEAN : DeleteFleetTeam(a, ok) \/ PersistDeviceCommand(a, ok)

------------------------------------------------------------------------------
(* What Fleet is told to do to a host or a team, it is told for an           *)
(* organisation that owned it at some moment since the request began; only a *)
(* system administrator reaches a team beyond.  The checks read two tables,  *)
(* one after the other, while devices re-enroll and mappings are imported    *)
(* (device_policy.go MoveHostToTeam, device_actions.go).                     *)
OnlyOwnHosts ==
  acted # NoAct =>
    /\ acted.hosts \subseteq acted.ownHosts
    /\ acted.team # Nobody /\ acted.by \notin SystemAdmins => acted.team \in acted.ownTeams

(* Fleet's teams and the mapping agree whenever no creation is under way,    *)
(* but for the teams whose creation met a fault: a lost answer, a failed     *)
(* compensation, a crash, an import of the team under creation.  So a failed *)
(* creation leaves its name free for the retry (device_policy.go: the        *)
(* "Compensating delete").                                                   *)
TeamsAgree ==
  \A t \in Teams \ litter :
    (\A a \in Admins : call[a].pc \in {"record", "undo"} => call[a].team # t)
      => (Exists(t) <=> teamOrg[t] # Nobody)

(* A command in a device's history is one Fleet accepted                     *)
(* (device_actions.go RemoteLock and the others, persistDeviceCommand).      *)
HistoryWasIssued == commands \subseteq issued

(* What the tables say of Fleet is so: its teams and the commands it took.   *)
FleetRecordsAgree == TeamsAgree /\ HistoryWasIssued
==============================================================================
