------------------------------- MODULE Startup -------------------------------
(***************************************************************************)
(* How a deployment comes up.  `server migrate` jobs apply the migrations  *)
(* under one session-level advisory lock (db.RunMigrations); every server  *)
(* waits for the schema (db.WaitForSchema), then provisions the Keycloak   *)
(* realm under another one (bootstrap.Run) and serves.  The locks sit on a *)
(* connection of their own and the work runs on others, so a session that  *)
(* the database ends frees the lock while its owner goes on.               *)
(*                                                                         *)
(* A job or server that gives up while it waits is run again by its        *)
(* supervisor and waits again; both are the state "start" ("lock" for the  *)
(* second wait of a server).  The seeding of demo and e2e users, which     *)
(* only development environments ask for, is left out.                     *)
(***************************************************************************)
EXTENDS Naturals, FiniteSets

CONSTANTS Servers, Jobs, Latest, NoOne, MaxFaults

ASSUME StartupAssumption == Latest \in Nat \ {0} /\ NoOne \notin Servers \cup Jobs

VARIABLES
    applied,    \* the ids in schema_migrations
    ran,        \* per migration: how often its statement took effect
    task,       \* per migrate job: where it is, and the ids it read
    holder,     \* per advisory lock: who holds it; "lingering": a dead process's session
    boot,       \* per server: where its start is, and the client secret it holds
    idp,        \* the Keycloak realm
    pinned,     \* KEYCLOAK_CLIENT_SECRET is configured
    rotated,    \* Keycloak has refused to hand the secret out, and it was regenerated
    faults      \* bound on failures, crashes and cut sessions

startVars == <<applied, ran, task, holder, boot, idp, pinned, rotated, faults>>

Migrations == 1..Latest
Items == {"realm", "groups", "role", "dashboard", "grants"}

\* The calls of bootstrap.Run in their order, between taking and leaving the lock.
Following == [realm |-> "groups", groups |-> "role", role |-> "client", client |-> "dashboard",
              dashboard |-> "grants", grants |-> "flow", flow |-> "copy", copy |-> "add",
              add |-> "require", require |-> "bind", bind |-> "leave"]
Provisioning == DOMAIN Following \cup {"leave"}

StartInit ==
    /\ applied = {} /\ ran = [m \in Migrations |-> 0]
    /\ task = [j \in Jobs |-> [at |-> "start", seen |-> {}]]
    /\ holder = [l \in {"migrate", "bootstrap"} |-> NoOne]
    /\ boot = [s \in Servers |-> [at |-> "start", secret |-> 0]]
    /\ idp = [made |-> {}, secret |-> 0, copied |-> FALSE, required |-> FALSE, bound |-> FALSE]
    /\ pinned \in BOOLEAN /\ rotated = FALSE /\ faults = 0

\* AcquireAdvisoryLock polls until pg_try_advisory_lock is granted.
AcquireAdvisoryLock(x, l) == holder[l] = NoOne /\ holder' = [holder EXCEPT ![l] = x]

\* Mutant: the deferred unlock is missing; the pooled connection keeps the lock.
KeepLock(x, l) == holder' = holder

\* The deferred pg_advisory_unlock; it has no effect when the session is gone.
ReleaseLock(x, l) == holder' = [holder EXCEPT ![l] = IF @ = x THEN NoOne ELSE @]

\* The owner's process ends with its lock held: the session ends now or lingers.
AbandonLock(x, l) ==
    \/ ReleaseLock(x, l)
    \/ holder[l] = x /\ holder' = [holder EXCEPT ![l] = "lingering"]

Fault == faults < MaxFaults /\ faults' = faults + 1

-----------------------------------------------------------------------------
(* The migrate job.                                                        *)

JobLock(j) ==
    /\ task[j].at = "start" /\ AcquireAdvisoryLock(j, "migrate")
    /\ task' = [task EXCEPT ![j].at = "read"]
    /\ UNCHANGED <<applied, ran, boot, idp, pinned, rotated, faults>>

JobRead(j) ==
    /\ task[j].at = "read"
    /\ task' = [task EXCEPT ![j] = [at |-> "apply", seen |-> applied]]
    /\ UNCHANGED <<applied, ran, holder, boot, idp, pinned, rotated, faults>>

Pending(j) == Migrations \ task[j].seen

\* Mutant: the list is walked from its end.
LastPending(j, m) == m \in Pending(j) /\ \A n \in Pending(j) : n <= m

NextPending(j, m) == m \in Pending(j) /\ \A n \in Pending(j) : m <= n

\* Mutant: the id is recorded with ON CONFLICT DO NOTHING.
ApplyAgain(j) ==
    /\ task[j].at = "apply"
    /\ \E m \in Migrations :
          /\ NextPending(j, m)
          /\ applied' = applied \cup {m}
          /\ ran' = [ran EXCEPT ![m] = @ + 1]
          /\ task' = [task EXCEPT ![j].seen = @ \cup {m}]
    /\ UNCHANGED <<holder, boot, idp, pinned, rotated, faults>>

\* One transaction runs the statement and records the id, whose primary key
\* refuses a migration that somebody else has committed: the job then fails.
JobApply(j) ==
    /\ task[j].at = "apply"
    /\ \E m \in Migrations :
          /\ NextPending(j, m)
          /\ \/ /\ m \in applied
                /\ task' = [task EXCEPT ![j] = [at |-> "start", seen |-> {}]]
                /\ ReleaseLock(j, "migrate") /\ UNCHANGED <<applied, ran>>
             \/ /\ m \notin applied
                /\ applied' = applied \cup {m}
                /\ ran' = [ran EXCEPT ![m] = @ + 1]
                /\ task' = [task EXCEPT ![j].seen = @ \cup {m}]
                /\ UNCHANGED holder
    /\ UNCHANGED <<boot, idp, pinned, rotated, faults>>

JobDone(j) ==
    /\ task[j].at = "apply" /\ Pending(j) = {}
    /\ task' = [task EXCEPT ![j].at = "done"] /\ ReleaseLock(j, "migrate")
    /\ UNCHANGED <<applied, ran, boot, idp, pinned, rotated, faults>>

\* A statement fails (a COMMIT whose answer is lost included), or the job dies.
JobFails(j) ==
    /\ task[j].at \in {"read", "apply"} /\ Fault
    /\ task' = [task EXCEPT ![j] = [at |-> "start", seen |-> {}]]
    /\ AbandonLock(j, "migrate")
    /\ UNCHANGED <<applied, ran, boot, idp, pinned, rotated>>

-----------------------------------------------------------------------------
(* The server's start.                                                     *)

At(s, step) == boot[s].at = step
Goes(s, step) == boot' = [boot EXCEPT ![s].at = step]
KeepsDatabase == UNCHANGED <<applied, ran, task, pinned>>

\* AppliedSchemaVersion is the HIGHEST recorded id.
SchemaIsCurrent == \E m \in applied : m >= Latest

WaitForSchema(s) ==
    /\ At(s, "start") /\ SchemaIsCurrent /\ Goes(s, "lock")
    /\ KeepsDatabase /\ UNCHANGED <<holder, idp, rotated, faults>>

BootLock(s) ==
    /\ At(s, "lock") /\ AcquireAdvisoryLock(s, "bootstrap") /\ Goes(s, "realm")
    /\ KeepsDatabase /\ UNCHANGED <<idp, rotated, faults>>

Ensure(s, item) ==
    /\ At(s, item) /\ Goes(s, Following[item])
    /\ idp' = [idp EXCEPT !.made = @ \cup {item}]
    /\ KeepsDatabase /\ UNCHANGED <<holder, rotated, faults>>

ensureRealm(s) == Ensure(s, "realm")
ensureGroups(s) == Ensure(s, "groups")
ensureAdminRole(s) == Ensure(s, "role")
ensureDashboardClient(s) == Ensure(s, "dashboard")
ensureServiceAccountRoles(s) == Ensure(s, "grants")

HasSecret(s, value) ==
    /\ boot' = [boot EXCEPT ![s] = [at |-> Following["client"], secret |-> value]]
    /\ idp' = [idp EXCEPT !.secret = value]

\* A new client gets a fresh secret, an existing one the configured secret or
\* the one it has; when Keycloak will not tell, a new one is generated.  (A
\* create that loses against another one is refused: the start fails.)
ensureServiceClient(s) ==
    /\ At(s, "client")
    /\ \/ /\ HasSecret(s, IF pinned \/ idp.secret = 0 THEN 1 ELSE idp.secret)
          /\ UNCHANGED <<rotated, faults>>
       \/ /\ ~pinned /\ idp.secret # 0 /\ Fault
          /\ HasSecret(s, idp.secret + 1) /\ rotated' = TRUE
    /\ KeepsDatabase /\ UNCHANGED holder

\* A flow of the alias's name is taken to be complete.
ensurePostureFlow(s) ==
    /\ At(s, "flow") /\ Goes(s, IF idp.copied THEN "leave" ELSE "copy")
    /\ KeepsDatabase /\ UNCHANGED <<holder, idp, rotated, faults>>

FlowStep(s, step, field) ==
    /\ At(s, step) /\ Goes(s, Following[step])
    /\ idp' = [idp EXCEPT ![field] = TRUE]
    /\ KeepsDatabase /\ UNCHANGED <<holder, rotated, faults>>

CopyFlow(s) == FlowStep(s, "copy", "copied")

\* The execution is added at the head of the sub-flow; it is not REQUIRED yet.
AddExecution(s) ==
    /\ At(s, "add") /\ Goes(s, "require")
    /\ KeepsDatabase /\ UNCHANGED <<holder, idp, rotated, faults>>

\* It is set REQUIRED, then moved behind its siblings.
RequireExecution(s) == FlowStep(s, "require", "required")

BindFlow(s) == FlowStep(s, "bind", "bound")

Serve(s) ==
    /\ At(s, "leave") /\ Goes(s, "serving") /\ ReleaseLock(s, "bootstrap")
    /\ KeepsDatabase /\ UNCHANGED <<idp, rotated, faults>>

\* An error of any call ends the process (logger.Fatal), and so does a crash.
ServerFails(s) ==
    /\ boot[s].at \in Provisioning \cup {"serving"} /\ Fault
    /\ boot' = [boot EXCEPT ![s] = [at |-> "start", secret |-> 0]]
    /\ AbandonLock(s, "bootstrap")
    /\ KeepsDatabase /\ UNCHANGED <<idp, rotated>>

\* The database ends a lock's session behind its owner's back ...
SessionCut(l) ==
    /\ holder[l] \in Servers \cup Jobs /\ Fault
    /\ holder' = [holder EXCEPT ![l] = NoOne]
    /\ KeepsDatabase /\ UNCHANGED <<boot, idp, rotated>>

\* ... and notices in the end that a client is gone.
SessionReaped(l) ==
    /\ holder[l] = "lingering" /\ holder' = [holder EXCEPT ![l] = NoOne]
    /\ KeepsDatabase /\ UNCHANGED <<boot, idp, rotated, faults>>

JobStep(j) == JobLock(j) \/ JobRead(j) \/ JobApply(j) \/ JobDone(j)

ServerStep(s) ==
    \/ WaitForSchema(s) \/ BootLock(s)
    \/ ensureRealm(s) \/ ensureGroups(s) \/ ensureAdminRole(s) \/ ensureServiceClient(s)
    \/ ensureDashboardClient(s) \/ ensureServiceAccountRoles(s)
    \/ ensurePostureFlow(s) \/ CopyFlow(s) \/ AddExecution(s) \/ RequireExecution(s)
    \/ BindFlow(s) \/ Serve(s)

StartNext ==
    \/ \E j \in Jobs : JobStep(j) \/ JobFails(j)
    \/ \E s \in Servers : ServerStep(s) \/ ServerFails(s)
    \/ \E l \in DOMAIN holder : SessionCut(l) \/ SessionReaped(l)

StartSpec == StartInit /\ [][StartNext]_startVars

-----------------------------------------------------------------------------
(* Properties.                                                             *)

Tasks == [at : {"start", "read", "apply", "done"}, seen : SUBSET Migrations]
Owners == Servers \cup Jobs \cup {NoOne, "lingering"}
Boots == [at : {"start", "lock", "serving"} \cup Provisioning, secret : Nat]
Realm == [made : SUBSET Items, secret : Nat, copied : BOOLEAN, required : BOOLEAN, bound : BOOLEAN]

\* Type invariant.
StartTypeOK ==
    /\ applied \subseteq Migrations /\ ran \in [Migrations -> Nat]
    /\ task \in [Jobs -> Tasks]
    /\ holder \in [{"migrate", "bootstrap"} -> Owners]
    /\ boot \in [Servers -> Boots] /\ idp \in Realm
    /\ pinned \in BOOLEAN /\ rotated \in BOOLEAN /\ faults \in Nat

\* WaitForSchema compares the highest recorded id only; that is enough, because
\* ids are committed in order whatever jobs overlap: a server past the check
\* never runs on a schema with a hole.
WholeSchema == \A s \in Servers : ~At(s, "start") => applied = Migrations

\* "so it runs exactly once per database" (RunMigrations): also when the lock's
\* session is lost and two jobs apply the same list side by side.
AppliedOnce == \A m \in Migrations : ran[m] = IF m \in applied THEN 1 ELSE 0

\* "The secret must be STABLE across boots" (ensureServiceClient): a serving
\* replica's secret is the realm's, unless Keycloak refused to tell it once.
SecretsWork == \A s \in Servers : At(s, "serving") => boot[s].secret = idp.secret \/ rotated

\* A replica serves only on a realm with its groups, role, clients and grants,
\* whichever replicas provisioned them and died on the way.
RealmReady == \A s \in Servers : At(s, "serving") => idp.made = Items /\ idp.copied

\* A replica serves over a whole schema and a whole realm, with a secret that
\* Keycloak accepts, whichever jobs and replicas died on the way (WaitForSchema,
\* bootstrap.Run).
ServedIsReady == WholeSchema /\ RealmReady /\ SecretsWork

\* The realm is bound to the posture flow only once the check in it is REQUIRED,
\* so no order of crashes leaves users in a flow without the check.
BoundIsEnforced == idp.bound => idp.required

\* However jobs and servers fail on the way, all of them serve in the end: no
\* lock stays behind that shuts a replica out.
AllServeInTheEnd == <>[](\A s \in Servers : At(s, "serving"))

\* "... and binds it as the realm browser flow ... all idempotent" (the comment on
\* ensurePostureFlow): a serving replica has the posture flow bound.
PostureInForce == \A s \in Servers : At(s, "serving") => idp.bound

=============================================================================
