------------------------------ MODULE Endpoints ------------------------------
(* What the backend knows and does about devices and the logins that depend  *)
(* on them: enrollment and login (DeviceAccess), Fleet's hosts and teams     *)
(* (FleetTeams), a user's own MFA page (MfaSelf), and the analytics computed *)
(* from all of it (Analytics).  They share no table that more than one of    *)
(* them writes within a request, so a behaviour exercises one, chosen at the *)
(* start, and the others rest.                                               *)
EXTENDS DeviceAccess, FleetTeams, MfaSelf, Analytics

VARIABLE area

Init ==
  /\ area \in {"login", "fleet", "factors", "codes", "analytics"}
  /\ ClockInit /\ DeviceInit /\ FleetInit /\ MfaInit /\ AnalyticsInit
  /\ area # "analytics" => focus = "rates"

vars == <<area, now, deviceVars, fleetVars, mfaVars, snapVars>>

Next ==
  /\ UNCHANGED area
  /\ \/ area = "login" /\ DeviceNext /\ UNCHANGED <<fleetVars, mfaVars, snapVars>>
     \/ area = "fleet" /\ FleetNext /\ UNCHANGED <<now, deviceVars, mfaVars, snapVars>>
     \/ area = "factors" /\ FactorsNext /\ UNCHANGED <<now, deviceVars, fleetVars, snapVars>>
     \/ area = "codes" /\ CodesNext /\ UNCHANGED <<now, deviceVars, fleetVars, snapVars>>
     \/ area = "analytics" /\ AnalyticsNext /\ UNCHANGED <<deviceVars, fleetVars, mfaVars>>

Spec == Init /\ [][Next]_vars
==============================================================================
