------------------------------ MODULE FirstAdmin ------------------------------
(***************************************************************************)
(* POST /api/v1/setup: the first administrator of a fresh realm.  Requests *)
(* reach any replica; a session-level advisory lock (acquireSetupLock)     *)
(* serializes the check of HasAdminUser and the calls of CreateAdminUser.  *)
(* A request ends "made" (201), "refused" (409) or "failed" (500); the     *)
(* body is validated before any of this and not modelled.                  *)
(***************************************************************************)
EXTENDS Naturals, FiniteSets

CONSTANTS Askers, NoAsker

ASSUME AskerAssumption == NoAsker \notin Askers

VARIABLES
    setup,      \* per request: where it is
    people,     \* the users of the realm, each with the request that made it
    setupLock,  \* the request whose session holds the lock
    cut         \* a session was ended by the database while it held the lock

setupVars == <<setup, people, setupLock, cut>>

Ended == {"made", "refused", "failed"}

SetupInit ==
    /\ setup = [q \in Askers |-> "start"] /\ people = {}
    /\ setupLock = NoAsker /\ cut = FALSE

Unlocked(q) == IF setupLock = q THEN NoAsker ELSE setupLock

\* Mutant: a mutex of the process, which other replicas do not share.
LockLocally(q) ==
    /\ setup[q] = "start" /\ setup' = [setup EXCEPT ![q] = "check"]
    /\ UNCHANGED <<people, setupLock, cut>>

acquireSetupLock(q) ==
    /\ setup[q] = "start" /\ setupLock = NoAsker
    /\ setupLock' = q /\ setup' = [setup EXCEPT ![q] = "check"]
    /\ UNCHANGED <<people, cut>>

\* The lock is held for 30 seconds by someone else, or a query fails.
LockFails(q) ==
    /\ setup[q] = "start" /\ setup' = [setup EXCEPT ![q] = "failed"]
    /\ UNCHANGED <<people, setupLock, cut>>

\* HasAdminUser: any user but a service account counts.
HasAdminUser == people # {}

CheckProvisioned(q) ==
    /\ setup[q] = "check"
    /\ IF HasAdminUser
       THEN setup' = [setup EXCEPT ![q] = "refused"] /\ setupLock' = Unlocked(q)
       ELSE setup' = [setup EXCEPT ![q] = "create"] /\ UNCHANGED setupLock
    /\ UNCHANGED <<people, cut>>

CreateUser(q) ==
    /\ setup[q] = "create" /\ setup' = [setup EXCEPT ![q] = "password"]
    /\ people' = people \cup {[by |-> q, password |-> FALSE, admin |-> FALSE]}
    /\ UNCHANGED <<setupLock, cut>>

SetPassword(q) ==
    /\ setup[q] = "password" /\ setup' = [setup EXCEPT ![q] = "grant"]
    /\ people' = {IF p.by = q THEN [p EXCEPT !.password = TRUE] ELSE p : p \in people}
    /\ UNCHANGED <<setupLock, cut>>

\* The admin role is looked up (created if bootstrap's is gone) and assigned;
\* the organization is named, best effort, and the request answered.
GrantAdmin(q) ==
    /\ setup[q] = "grant" /\ setup' = [setup EXCEPT ![q] = "made"]
    /\ people' = {IF p.by = q THEN [p EXCEPT !.admin = TRUE] ELSE p : p \in people}
    /\ setupLock' = Unlocked(q)
    /\ UNCHANGED cut

\* A call fails, or its answer is lost; what was created stays.
SetupFails(q) ==
    /\ setup[q] \in {"check", "create", "password", "grant"}
    /\ setup' = [setup EXCEPT ![q] = "failed"] /\ setupLock' = Unlocked(q)
    /\ UNCHANGED <<people, cut>>

SetupCut ==
    /\ setupLock # NoAsker /\ setupLock' = NoAsker /\ cut' = TRUE
    /\ UNCHANGED <<setup, people>>

SetupNext ==
    \/ \E q \in Askers :
          \/ acquireSetupLock(q) \/ LockFails(q) \/ CheckProvisioned(q)
          \/ CreateUser(q) \/ SetPassword(q) \/ GrantAdmin(q) \/ SetupFails(q)
    \/ SetupCut

-----------------------------------------------------------------------------
(* Properties.                                                             *)

\* First-run provisioning happens once across replicas (the comment H3 on Setup):
\* while no lock session is lost, one user at most is created by setup, and a
\* request that was told 409 has a user to log in with or to repair.
OneFirstAdmin ==
    /\ ~cut => Cardinality(people) <= 1
    /\ \A q \in Askers : setup[q] = "refused" => people # {}

\* "Provisioned" is "true when at least one user holds the admin realm role"
\* (setup.go:27): a realm that refuses setup for good has an administrator.
ProvisionedHasAdmin ==
    (\A q \in Askers : setup[q] \in Ended) /\ HasAdminUser => \E p \in people : p.admin

=============================================================================
