----------------------------- MODULE FleetClient -----------------------------
(***************************************************************************)
(* The Fleet client of one replica (handlers/dynamic_fleet.go): built from *)
(* the fleet_config row and reused for fleetClientCacheTTL.  The address   *)
(* and the token each fall back to the environment's (0) when the row has  *)
(* none, when it cannot be read, and, for the token, when it cannot be     *)
(* decrypted.  All of client() runs under a mutex; its query takes no time.*)
(***************************************************************************)
EXTENDS Clock

CONSTANTS FleetUrls, FleetTokens, FleetTTL, NoClient

ASSUME FleetClientAssumption == FleetTTL \in Nat \ {0} /\ 0 \in FleetUrls \cap FleetTokens

VARIABLES
    fleetRow,   \* the fleet_config row: url and token
    savedAt,    \* when it was last saved
    cached,     \* the cached client: the settings it was built from, and when
    fellBack,   \* when the row or its token last could not be read
    used        \* the settings of the client the call just made used

fleetVars == <<fleetRow, savedAt, cached, fellBack, used>>

FleetInit ==
    /\ fleetRow = [url |-> 0, token |-> 0] /\ savedAt = 0
    /\ cached = NoClient /\ fellBack = NoClient /\ used = NoClient

\* PUT: without a token in the request, the stored one stays.
UpsertFleetConfig ==
    /\ \E u \in FleetUrls, t \in FleetTokens :
          fleetRow' = [url |-> u, token |-> IF t = 0 THEN fleetRow.token ELSE t]
    /\ savedAt' = now /\ used' = NoClient /\ UNCHANGED <<cached, fellBack, now>>

Within(t) == t # NoClient /\ now - t < FleetTTL
StillGood == cached # NoClient /\ Within(cached.at)

\* A call finds a fresh client.
Reuse ==
    /\ StillGood
    /\ used' = cached.of /\ UNCHANGED <<fleetRow, savedAt, cached, fellBack, now>>

\* A call builds one, and caches it even when it had to fall back.
Build ==
    /\ ~StillGood
    /\ \/ used' = fleetRow /\ UNCHANGED fellBack
       \/ /\ used' \in {[url |-> 0, token |-> 0], [fleetRow EXCEPT !.token = 0]}
          /\ fellBack' = now
    /\ cached' = [of |-> used', at |-> now]
    /\ UNCHANGED <<fleetRow, savedAt, now>>

FleetTick == ClockTick /\ used' = NoClient /\ UNCHANGED <<fleetRow, savedAt, cached, fellBack>>

FleetNext == UpsertFleetConfig \/ Reuse \/ Build \/ FleetTick

\* A call talks to the Fleet server the settings name, with their token, unless
\* they were saved, or could not be read, less than the cache's lifetime ago.
FleetClientCurrent ==
    used # NoClient => used = fleetRow \/ Within(savedAt) \/ Within(fellBack)

=============================================================================
