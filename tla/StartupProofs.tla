---------------------------- MODULE StartupProofs ----------------------------
(***************************************************************************)
(* Proofs about Startup, for any number of migrations, jobs and servers    *)
(* and any number of failures.                                             *)
(***************************************************************************)
EXTENDS Startup, TLAPS

\* The migrations that are recorded have no gap below them, and a job has seen
\* only what is recorded: the migration it applies next extends the prefix.
SchemaInv ==
    /\ \A m \in applied : \A n \in Migrations : n <= m => n \in applied
    /\ \A j \in Jobs : task[j].seen \subseteq applied
    /\ AppliedOnce
    /\ \A s \in Servers : ~At(s, "start") => Latest \in applied

Flow == {"flow", "copy", "add", "require", "bind", "leave", "serving"}

\* What the realm i has when a server stands at a step, whoever has made it.
RealmAt(at, i) ==
    /\ at \in {"groups", "role", "client", "dashboard", "grants"} \cup Flow => "realm" \in i.made
    /\ at \in {"role", "client", "dashboard", "grants"} \cup Flow => "groups" \in i.made
    /\ at \in {"client", "dashboard", "grants"} \cup Flow => "role" \in i.made
    /\ at \in {"grants"} \cup Flow => "dashboard" \in i.made
    /\ at \in Flow => "grants" \in i.made
    /\ at \in {"add", "require", "bind", "leave", "serving"} => i.copied
    /\ at = "bind" => i.required

RealmInv == BoundIsEnforced /\ \A s \in Servers : RealmAt(boot[s].at, idp)

\* A server that has passed ensureServiceClient holds the client's secret, and a
\* pinned secret is the only one the client ever has.
HoldsSecret == {"dashboard", "grants"} \cup Flow

SecretInv ==
    /\ \A s \in Servers : boot[s].at \in HoldsSecret
          => idp.secret # 0 /\ (boot[s].secret = idp.secret \/ rotated)
    /\ pinned => idp.secret \in {0, 1}

StartInv == StartTypeOK /\ SchemaInv /\ RealmInv /\ SecretInv

LEMMA StartInitInv == StartInit => StartInv
  <1> SUFFICES ASSUME StartInit PROVE StartInv
    OBVIOUS
  <1> USE StartupAssumption DEF StartInit, Flow
  <1>1. StartTypeOK
    <2>1. rotated \in BOOLEAN /\ pinned \in BOOLEAN
      BY Zenon
    <2>2. idp \in Realm
      BY DEF Realm
    <2>3. boot \in [Servers -> Boots] /\ task \in [Jobs -> Tasks]
      BY DEF Boots, Tasks
    <2>4. holder \in [{"migrate", "bootstrap"} -> Owners]
      BY DEF Owners
    <2> QED
      BY <2>1, <2>2, <2>3, <2>4 DEF StartTypeOK
  <1>2. SchemaInv
    BY DEF SchemaInv, AppliedOnce, At
  <1>3. RealmInv
    BY DEF RealmInv, RealmAt, BoundIsEnforced
  <1>4. SecretInv
    BY DEF SecretInv, HoldsSecret
  <1> QED
    BY <1>1, <1>2, <1>3, <1>4 DEF StartInv

-----------------------------------------------------------------------------
(* The steps, one lemma per actor.                                         *)

\* Taking, giving up and losing a lock.
LEMMA LockTypes ==
    ASSUME StartTypeOK, NEW x \in Servers \cup Jobs, NEW l \in {"migrate", "bootstrap"},
           AcquireAdvisoryLock(x, l) \/ ReleaseLock(x, l) \/ AbandonLock(x, l)
    PROVE  holder' \in [{"migrate", "bootstrap"} -> Owners]
  BY DEF StartTypeOK, Owners, AcquireAdvisoryLock, ReleaseLock, AbandonLock

\* A job's step that records nothing.
LEMMA JobKeepsTables ==
    ASSUME StartInv, UNCHANGED <<applied, ran, boot, idp, pinned, rotated>>,
           task' \in [Jobs -> Tasks], faults' \in Nat,
           holder' \in [{"migrate", "bootstrap"} -> Owners],
           \A i \in Jobs : task'[i].seen \subseteq applied
    PROVE  StartInv'
  <1>1. StartTypeOK'
    BY DEF StartInv, StartTypeOK
  <1>2. SchemaInv'
    BY DEF StartInv, SchemaInv, AppliedOnce, At
  <1>3. RealmInv' /\ SecretInv'
    BY DEF StartInv, RealmInv, SecretInv, BoundIsEnforced
  <1> QED
    BY <1>1, <1>2, <1>3 DEF StartInv

\* A job's step extends the recorded prefix by one migration or fails.
LEMMA JobKeepsInv ==
    ASSUME StartInv, NEW j \in Jobs, JobStep(j) \/ JobFails(j)
    PROVE  StartInv'
  <1> USE DEF StartInv, StartTypeOK
  <1>0. \A i \in Jobs : task[i] \in Tasks /\ task[i].seen \subseteq applied
    BY DEF SchemaInv
  <1>1. CASE JobLock(j)
    <2>1. task' \in [Jobs -> Tasks] /\ \A i \in Jobs : task'[i].seen \subseteq applied
      BY <1>0, <1>1 DEF JobLock, Tasks
    <2> QED
      BY <1>1, <2>1, LockTypes, JobKeepsTables DEF JobLock
  <1>2. CASE JobRead(j)
    <2>1. task' \in [Jobs -> Tasks] /\ \A i \in Jobs : task'[i].seen \subseteq applied
      BY <1>0, <1>2 DEF JobRead, Tasks
    <2> QED
      BY <1>2, <2>1, JobKeepsTables DEF JobRead
  <1>3. CASE JobApply(j)
    <2>1. PICK m \in Migrations :
             /\ NextPending(j, m)
             /\ \/ /\ task' = [task EXCEPT ![j] = [at |-> "start", seen |-> {}]]
                   /\ ReleaseLock(j, "migrate") /\ UNCHANGED <<applied, ran>>
                \/ /\ m \notin applied
                   /\ applied' = applied \cup {m}
                   /\ ran' = [ran EXCEPT ![m] = @ + 1]
                   /\ task' = [task EXCEPT ![j].seen = @ \cup {m}]
                   /\ UNCHANGED holder
      BY <1>3 DEF JobApply
    <2>2. UNCHANGED <<boot, idp, pinned, rotated, faults>>
      BY <1>3 DEF JobApply
    <2>3. CASE /\ task' = [task EXCEPT ![j] = [at |-> "start", seen |-> {}]]
               /\ ReleaseLock(j, "migrate") /\ UNCHANGED <<applied, ran>>
      <3>1. task' \in [Jobs -> Tasks] /\ \A i \in Jobs : task'[i].seen \subseteq applied
        BY <1>0, <2>3 DEF Tasks
      <3> QED
        BY <2>2, <2>3, <3>1, LockTypes, JobKeepsTables
    <2>4. CASE /\ m \notin applied
               /\ applied' = applied \cup {m}
               /\ ran' = [ran EXCEPT ![m] = @ + 1]
               /\ task' = [task EXCEPT ![j].seen = @ \cup {m}]
               /\ UNCHANGED holder
      <3>1. task' \in [Jobs -> Tasks] /\ \A i \in Jobs : task'[i].seen \subseteq applied'
        BY <1>0, <2>4 DEF Tasks
      <3>2. StartTypeOK'
        BY <2>2, <2>4, <3>1
      <3>3. \A n \in Migrations : n < m => n \in applied
        BY <1>0, <2>1 DEF NextPending, Pending, Migrations
      <3>4. \A k \in applied' : \A n \in Migrations : n <= k => n \in applied'
        BY <2>4, <3>3 DEF SchemaInv, Migrations
      <3>5. AppliedOnce'
        BY <2>4 DEF SchemaInv, AppliedOnce
      <3>6. \A s \in Servers : ~At(s, "start")' => Latest \in applied'
        BY <2>2, <2>4 DEF SchemaInv, At
      <3>7. RealmInv' /\ SecretInv'
        BY <2>2 DEF RealmInv, SecretInv, BoundIsEnforced
      <3> QED
        BY <3>1, <3>2, <3>4, <3>5, <3>6, <3>7 DEF SchemaInv
    <2> QED
      BY <2>1, <2>3, <2>4
  <1>4. CASE JobDone(j)
    <2>1. task' \in [Jobs -> Tasks] /\ \A i \in Jobs : task'[i].seen \subseteq applied
      BY <1>0, <1>4 DEF JobDone, Tasks
    <2> QED
      BY <1>4, <2>1, LockTypes, JobKeepsTables DEF JobDone
  <1>5. CASE JobFails(j)
    <2>1. task' \in [Jobs -> Tasks] /\ \A i \in Jobs : task'[i].seen \subseteq applied
      BY <1>0, <1>5 DEF JobFails, Tasks
    <2> QED
      BY <1>5, <2>1, LockTypes, JobKeepsTables DEF JobFails, Fault
  <1> QED
    BY <1>1, <1>2, <1>3, <1>4, <1>5 DEF JobStep

\* A server that goes from step to step keeps its secret; the others stay.
LEMMA ServerGoes ==
    ASSUME StartTypeOK, NEW s \in Servers,
           NEW step \in {"start", "lock", "serving"} \cup Provisioning, Goes(s, step)
    PROVE  /\ boot' \in [Servers -> Boots]
           /\ boot'[s].at = step /\ boot'[s].secret = boot[s].secret
           /\ \A q \in Servers \ {s} : boot'[q] = boot[q]
  BY DEF StartTypeOK, Goes, Boots

\* What a step of server s has to show: the realm only grows, and has what the
\* place the server has come to requires.
LEMMA ServerMoves ==
    ASSUME StartInv, NEW s \in Servers, KeepsDatabase,
           boot' \in [Servers -> Boots], \A q \in Servers \ {s} : boot'[q] = boot[q],
           boot[s].at = "start" /\ boot'[s].at # "start" => Latest \in applied,
           idp' \in Realm, idp.made \subseteq idp'.made,
           idp.copied => idp'.copied, idp.required => idp'.required, idp'.bound => idp'.required,
           RealmAt(boot'[s].at, idp'), SecretInv',
           holder' \in [{"migrate", "bootstrap"} -> Owners], rotated' \in BOOLEAN, faults' \in Nat
    PROVE  StartInv'
  <1>1. StartTypeOK'
    BY DEF StartInv, StartTypeOK, KeepsDatabase
  <1>2. SchemaInv'
    BY DEF StartInv, SchemaInv, AppliedOnce, At, KeepsDatabase
  <1>3. \A q \in Servers : RealmAt(boot'[q].at, idp')
    <2> SUFFICES ASSUME NEW q \in Servers, q # s PROVE RealmAt(boot'[q].at, idp')
      OBVIOUS
    <2>1. RealmAt(boot[q].at, idp)
      BY DEF StartInv, RealmInv
    <2> QED
      BY <2>1 DEF RealmAt
  <1> QED
    BY <1>1, <1>2, <1>3 DEF StartInv, RealmInv, BoundIsEnforced

\* A step that leaves the client's secret alone keeps SecretInv, unless it is the
\* one that hands the secret out.
LEMMA SecretKept ==
    ASSUME StartInv, NEW s \in Servers, KeepsDatabase, UNCHANGED rotated,
           \A q \in Servers \ {s} : boot'[q] = boot[q],
           boot'[s].secret = boot[s].secret, idp'.secret = idp.secret,
           boot'[s].at \in HoldsSecret => boot[s].at \in HoldsSecret
    PROVE  SecretInv'
  BY DEF StartInv, SecretInv, KeepsDatabase

\* The order of the calls.
LEMMA Order ==
    /\ Following["realm"] = "groups" /\ Following["groups"] = "role" /\ Following["role"] = "client"
    /\ Following["client"] = "dashboard" /\ Following["dashboard"] = "grants"
    /\ Following["grants"] = "flow" /\ Following["copy"] = "add" /\ Following["require"] = "bind"
    /\ Following["bind"] = "leave"
    /\ Provisioning = {"realm", "groups", "role", "client", "dashboard", "grants", "flow", "copy",
                       "add", "require", "bind", "leave"}
  BY DEF Following, Provisioning

\* ensureRealm, ensureGroups, ensureAdminRole, ensureDashboardClient and
\* ensureServiceAccountRoles each add their item and go on to the next call.
LEMMA EnsureKeepsInv ==
    ASSUME StartInv, NEW s \in Servers, NEW item \in Items, Ensure(s, item)
    PROVE  StartInv'
  <1> DEFINE next == Following[item]
  <1>1. next \in Provisioning /\ next # "start" /\ item # "start"
    BY Order DEF Items
  <1>2. /\ boot' \in [Servers -> Boots]
        /\ boot'[s].at = next /\ boot'[s].secret = boot[s].secret
        /\ \A q \in Servers \ {s} : boot'[q] = boot[q]
    BY <1>1, ServerGoes DEF Ensure, StartInv
  <1>3. /\ idp' \in Realm /\ idp'.made = idp.made \cup {item} /\ idp'.secret = idp.secret
        /\ idp'.copied = idp.copied /\ idp'.required = idp.required /\ idp'.bound = idp.bound
    BY DEF Ensure, StartInv, StartTypeOK, Realm
  <1>4. RealmAt(item, idp) /\ (idp.bound => idp.required)
    BY DEF Ensure, At, StartInv, RealmInv, BoundIsEnforced
  <1>5. RealmAt(next, idp')
    BY <1>3, <1>4, Order DEF RealmAt, Flow, Items
  <1>6. next \in HoldsSecret => item \in HoldsSecret
    BY Order DEF HoldsSecret, Flow, Items
  <1>7. SecretInv'
    BY <1>2, <1>3, <1>6, SecretKept DEF Ensure, At
  <1> QED
    BY <1>1, <1>2, <1>3, <1>4, <1>5, <1>7, ServerMoves DEF Ensure, At, StartInv, StartTypeOK

\* ensureServiceClient gives the client another secret only when it has none,
\* or when it records that Keycloak would not tell the one there is.
LEMMA ClientKeepsInv ==
    ASSUME StartInv, NEW s \in Servers, ensureServiceClient(s)
    PROVE  StartInv'
  <1>1. PICK v \in Nat :
           /\ v # 0 /\ HasSecret(s, v)
           /\ \/ /\ v = IF pinned \/ idp.secret = 0 THEN 1 ELSE idp.secret
                 /\ UNCHANGED <<rotated, faults>>
              \/ ~pinned /\ Fault /\ rotated' = TRUE
    <2>1. idp.secret \in Nat
      BY DEF StartInv, StartTypeOK, Realm
    <2> QED
      BY <2>1 DEF ensureServiceClient
  <1>2. /\ boot' \in [Servers -> Boots]
        /\ boot'[s].at = "dashboard" /\ boot'[s].secret = v
        /\ \A q \in Servers \ {s} : boot'[q] = boot[q]
    BY <1>1, Order DEF HasSecret, StartInv, StartTypeOK, Boots
  <1>3. /\ idp' \in Realm /\ idp'.made = idp.made /\ idp'.secret = v
        /\ idp'.copied = idp.copied /\ idp'.required = idp.required /\ idp'.bound = idp.bound
    BY <1>1 DEF HasSecret, StartInv, StartTypeOK, Realm
  <1>4. RealmAt("client", idp) /\ (idp.bound => idp.required)
    BY DEF ensureServiceClient, At, StartInv, RealmInv, BoundIsEnforced
  <1>5. RealmAt("dashboard", idp')
    BY <1>3, <1>4 DEF RealmAt, Flow
  <1>6. rotated' \in BOOLEAN /\ faults' \in Nat
    <2>1. rotated' \in BOOLEAN
      BY <1>1, Zenon DEF StartInv, StartTypeOK
    <2>2. faults' \in Nat
      BY <1>1 DEF StartInv, StartTypeOK, Fault
    <2> QED
      BY <2>1, <2>2
  <1>7. SecretInv'
    <2>1. pinned' = pinned
      BY DEF ensureServiceClient, KeepsDatabase
    <2>2. pinned => v = 1
      BY <1>1
    <2>3. ASSUME NEW q \in Servers, boot'[q].at \in HoldsSecret, q # s
          PROVE  boot'[q].secret = v \/ rotated'
      <3>1. idp.secret # 0 /\ (boot[q].secret = idp.secret \/ rotated) /\ boot'[q] = boot[q]
        BY <1>2, <2>3 DEF StartInv, SecretInv
      <3>2. pinned => idp.secret = 1
        BY <3>1 DEF StartInv, SecretInv
      <3>3. CASE UNCHANGED rotated /\ v = IF pinned \/ idp.secret = 0 THEN 1 ELSE idp.secret
        <4>1. v = idp.secret
          BY <3>1, <3>2, <3>3
        <4> QED
          BY <3>1, <3>3, <4>1
      <3>4. CASE rotated' = TRUE
        BY <3>4
      <3> QED
        BY <1>1, <3>3, <3>4
    <2> QED
      BY <1>1, <1>2, <1>3, <2>1, <2>2, <2>3 DEF SecretInv
  <1> QED
    BY <1>2, <1>3, <1>4, <1>5, <1>6, <1>7, ServerMoves
    DEF ensureServiceClient, At, StartInv, StartTypeOK

\* The steps of ensurePostureFlow.
LEMMA FlowKeepsInv ==
    ASSUME StartInv, NEW s \in Servers,
           ensurePostureFlow(s) \/ CopyFlow(s) \/ AddExecution(s) \/ RequireExecution(s) \/ BindFlow(s)
    PROVE  StartInv'
  <1>1. PICK next \in {"leave", "copy", "add", "require", "bind"} : Goes(s, next)
    BY Order DEF ensurePostureFlow, CopyFlow, AddExecution, RequireExecution, BindFlow, FlowStep
  <1>2. /\ boot' \in [Servers -> Boots]
        /\ boot'[s].at = next /\ boot'[s].secret = boot[s].secret
        /\ \A q \in Servers \ {s} : boot'[q] = boot[q]
    BY <1>1, Order, ServerGoes DEF StartInv
  <1>3. KeepsDatabase /\ UNCHANGED <<holder, rotated, faults>> /\ boot[s].at \in Flow
    BY DEF ensurePostureFlow, CopyFlow, AddExecution, RequireExecution, BindFlow, FlowStep, At, Flow
  <1>4. /\ idp' \in Realm /\ idp'.made = idp.made /\ idp'.secret = idp.secret
        /\ idp.copied => idp'.copied
        /\ idp.required => idp'.required
    BY DEF ensurePostureFlow, CopyFlow, AddExecution, RequireExecution, BindFlow, FlowStep,
           StartInv, StartTypeOK, Realm
  <1>5. RealmAt(boot[s].at, idp) /\ (idp.bound => idp.required)
    BY DEF StartInv, RealmInv, BoundIsEnforced
  <1>6. (idp'.bound => idp'.required) /\ RealmAt(next, idp')
    <2> USE <1>2, <1>5 DEF At, RealmAt, Flow
    <2>1. CASE ensurePostureFlow(s)
      <3>1. UNCHANGED idp /\ boot[s].at = "flow" /\ (next = "leave" => idp.copied) /\ next \in {"leave", "copy"}
        BY <2>1, <1>1 DEF ensurePostureFlow, Goes, StartInv, StartTypeOK, Boots
      <3> QED
        BY <3>1
    <2>2. CASE CopyFlow(s)
      <3>1. /\ boot[s].at = "copy" /\ next = "add"
            /\ idp'.copied /\ idp'.made = idp.made /\ idp'.bound = idp.bound /\ idp'.required = idp.required
        BY <2>2, <1>1, Order DEF CopyFlow, FlowStep, Goes, StartInv, StartTypeOK, Boots, Realm
      <3> QED
        BY <3>1
    <2>3. CASE AddExecution(s)
      <3>1. UNCHANGED idp /\ boot[s].at = "add" /\ next = "require"
        BY <2>3, <1>1 DEF AddExecution, Goes, StartInv, StartTypeOK, Boots
      <3> QED
        BY <3>1
    <2>4. CASE RequireExecution(s)
      <3>1. /\ boot[s].at = "require" /\ next = "bind"
            /\ idp'.required /\ idp'.made = idp.made /\ idp'.copied = idp.copied
        BY <2>4, <1>1, Order DEF RequireExecution, FlowStep, Goes, StartInv, StartTypeOK, Boots, Realm
      <3> QED
        BY <3>1
    <2>5. CASE BindFlow(s)
      <3>1. /\ boot[s].at = "bind" /\ next = "leave"
            /\ idp'.required = idp.required /\ idp'.made = idp.made /\ idp'.copied = idp.copied
        BY <2>5, <1>1, Order DEF BindFlow, FlowStep, Goes, StartInv, StartTypeOK, Boots, Realm
      <3> QED
        BY <3>1
    <2> QED
      BY <2>1, <2>2, <2>3, <2>4, <2>5
  <1>7. SecretInv'
    BY <1>2, <1>3, <1>4, SecretKept DEF HoldsSecret
  <1> QED
    BY <1>2, <1>3, <1>4, <1>6, <1>7, ServerMoves DEF StartInv, StartTypeOK, Flow

\* The other steps of a server: it waits, takes the lock, serves or fails.
LEMMA ServerKeepsInv ==
    ASSUME StartInv, NEW s \in Servers,
           WaitForSchema(s) \/ BootLock(s) \/ Serve(s) \/ ServerFails(s)
    PROVE  StartInv'
  <1> USE DEF WaitForSchema, BootLock, Serve, ServerFails
  <1>1. KeepsDatabase /\ UNCHANGED <<idp, rotated>>
    OBVIOUS
  <1>2. holder' \in [{"migrate", "bootstrap"} -> Owners] /\ faults' \in Nat
    BY LockTypes DEF StartInv, StartTypeOK, Fault
  <1>3. SchemaIsCurrent => Latest \in applied
    BY StartupAssumption DEF SchemaIsCurrent, StartInv, StartTypeOK, SchemaInv, Migrations
  <1>4. /\ boot' \in [Servers -> Boots]
        /\ \A q \in Servers \ {s} : boot'[q] = boot[q]
        /\ \/ boot'[s].at = "lock" /\ Latest \in applied
           \/ boot'[s].at = "realm" /\ boot[s].at = "lock"
           \/ boot'[s].at = "start"
           \/ boot'[s].at = "serving" /\ boot[s].at = "leave" /\ boot'[s].secret = boot[s].secret
    <2>1. CASE WaitForSchema(s)
      BY <2>1, <1>3, ServerGoes DEF StartInv
    <2>2. CASE BootLock(s)
      BY <2>2, Order, ServerGoes DEF StartInv, At
    <2>3. CASE Serve(s)
      BY <2>3, ServerGoes DEF StartInv, At
    <2>4. CASE ServerFails(s)
      BY <2>4 DEF StartInv, StartTypeOK, Boots
    <2> QED
      BY <2>1, <2>2, <2>3, <2>4
  <1>5. RealmAt(boot[s].at, idp) /\ (idp.bound => idp.required)
    BY DEF StartInv, RealmInv, BoundIsEnforced
  <1>6. RealmAt(boot'[s].at, idp)
    BY <1>4, <1>5 DEF RealmAt, Flow
  <1>7. SecretInv'
    BY <1>1, <1>4 DEF StartInv, SecretInv, HoldsSecret, Flow, KeepsDatabase
  <1> QED
    BY <1>1, <1>2, <1>4, <1>5, <1>6, <1>7, ServerMoves DEF StartInv, StartTypeOK

\* The database's part: it frees locks.
LEMMA SessionKeepsInv ==
    ASSUME StartInv, NEW l \in DOMAIN holder, SessionCut(l) \/ SessionReaped(l)
    PROVE  StartInv'
  <1> USE DEF SessionCut, SessionReaped, KeepsDatabase
  <1>1. holder' \in [{"migrate", "bootstrap"} -> Owners] /\ faults' \in Nat
    BY DEF StartInv, StartTypeOK, Owners, Fault
  <1>2. StartTypeOK'
    BY <1>1 DEF StartInv, StartTypeOK
  <1>3. SchemaInv' /\ RealmInv' /\ SecretInv'
    BY DEF StartInv, SchemaInv, AppliedOnce, At, RealmInv, BoundIsEnforced, SecretInv
  <1> QED
    BY <1>2, <1>3 DEF StartInv

LEMMA StartStepInv == StartInv /\ [StartNext]_startVars => StartInv'
  <1> SUFFICES ASSUME StartInv, [StartNext]_startVars PROVE StartInv'
    OBVIOUS
  <1>1. CASE UNCHANGED startVars
    BY <1>1 DEF startVars, StartInv, StartTypeOK, SchemaInv, AppliedOnce, At, RealmInv,
                BoundIsEnforced, SecretInv
  <1>2. ASSUME NEW j \in Jobs, JobStep(j) \/ JobFails(j) PROVE StartInv'
    BY <1>2, JobKeepsInv
  <1>3. ASSUME NEW s \in Servers, ServerStep(s) \/ ServerFails(s) PROVE StartInv'
    <2>1. CASE \E item \in Items : Ensure(s, item)
      BY <2>1, EnsureKeepsInv
    <2> QED
      BY <1>3, <2>1, ClientKeepsInv, FlowKeepsInv, ServerKeepsInv
      DEF ServerStep, ensureRealm, ensureGroups, ensureAdminRole, ensureDashboardClient,
          ensureServiceAccountRoles, Items
  <1>4. ASSUME NEW l \in DOMAIN holder, SessionCut(l) \/ SessionReaped(l) PROVE StartInv'
    BY <1>4, SessionKeepsInv
  <1> QED
    BY <1>1, <1>2, <1>3, <1>4 DEF StartNext

-----------------------------------------------------------------------------
(* The theorems.                                                           *)

LEMMA StartInvHolds == StartSpec => []StartInv
  BY StartInitInv, StartStepInv, PTL DEF StartSpec

\* The tables, the locks, the servers and the realm keep their types.
THEOREM StartTypeCorrect == StartSpec => []StartTypeOK
  BY StartInvHolds, PTL DEF StartInv

\* RunMigrations and WaitForSchema: a server past the check of the highest
\* recorded id runs on the whole schema, whatever jobs overlap and fail.
THEOREM SchemaIsWhole == StartSpec => []WholeSchema
  <1>1. StartInv => WholeSchema
    <2> SUFFICES ASSUME StartInv, NEW s \in Servers, ~At(s, "start") PROVE applied = Migrations
      BY DEF WholeSchema
    <2>1. Latest \in applied /\ \A n \in Migrations : n <= Latest => n \in applied
      BY DEF StartInv, SchemaInv
    <2>2. \A n \in Migrations : n <= Latest
      BY StartupAssumption DEF Migrations
    <2>3. applied \subseteq Migrations
      BY DEF StartInv, StartTypeOK
    <2> QED
      BY <2>1, <2>2, <2>3
  <1> QED
    BY <1>1, StartInvHolds, PTL

\* RunMigrations: every migration takes effect once, also when the session of the
\* lock is lost and jobs run side by side.
THEOREM MigrationsApplyOnce == StartSpec => []AppliedOnce
  <1>1. StartInv => AppliedOnce
    BY DEF StartInv, SchemaInv
  <1> QED
    BY <1>1, StartInvHolds, PTL

\* WaitForSchema and bootstrap.Run: a replica serves on a whole schema and a
\* complete realm, with a secret that works there, whichever jobs and replicas
\* provisioned them and failed on the way.
THEOREM ServedRealmIsReady == StartSpec => []ServedIsReady
  <1>1. StartInv => RealmReady /\ SecretsWork
    <2> SUFFICES ASSUME StartInv, NEW s \in Servers, At(s, "serving")
                 PROVE  idp.made = Items /\ idp.copied /\ (boot[s].secret = idp.secret \/ rotated)
      BY DEF RealmReady, SecretsWork
    <2>1. RealmAt("serving", idp) /\ idp.made \subseteq Items
      BY DEF StartInv, StartTypeOK, Realm, RealmInv, At
    <2>2. boot[s].secret = idp.secret \/ rotated
      BY DEF StartInv, SecretInv, HoldsSecret, Flow, At
    <2> QED
      BY <2>1, <2>2 DEF RealmAt, Flow, Items
  <1> QED
    BY <1>1, StartInvHolds, SchemaIsWhole, PTL DEF ServedIsReady

\* ensurePostureFlow: no order of starts and failures binds the realm to a flow
\* whose posture check is not REQUIRED.
THEOREM BoundFlowEnforces == StartSpec => []BoundIsEnforced
  <1>1. StartInv => BoundIsEnforced
    BY DEF StartInv, RealmInv
  <1> QED
    BY <1>1, StartInvHolds, PTL

=============================================================================
