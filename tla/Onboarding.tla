----------------------------- MODULE Onboarding -----------------------------
(***************************************************************************)
(* Onboarding of one e-mail address: the user is created in Keycloak and   *)
(* then recorded in FreeCloud's own database, two stores without a common  *)
(* transaction.  A failure of the second step is compensated by deleting   *)
(* the Keycloak user.  Any number of requests for the same address run at  *)
(* once: from the onboard form, a bulk upload, SCIM, or an approval.       *)
(*                                                                         *)
(* account  the Keycloak user with this address (0: none); Keycloak keeps  *)
(*          addresses unique in the realm                                  *)
(* users    keycloak_user_id of the users row with this address (0: none); *)
(*          the row, its membership, its audit entry and its enrollment    *)
(*          token are one transaction, and users.email is UNIQUE           *)
(* run      per request: where it is, and the id Keycloak gave it          *)
(* acked    no COMMIT was applied whose answer did not arrive              *)
(* clean    acked, and no crash, lost answer of Keycloak, failed           *)
(*          SetPassword or failed DeleteUser has happened                  *)
(***************************************************************************)
EXTENDS Naturals

CONSTANTS Requests,   \* concurrent onboard, bulk-onboard and SCIM requests
          Runs,       \* everything that can run the pipeline
          MaxId       \* bound on the users Keycloak creates

ASSUME OnboardingAssumption == Requests \subseteq Runs /\ MaxId \in Nat

VARIABLES account, users, nextId, run, acked, clean

onboardVars == <<account, users, nextId, run, acked, clean>>

NoRun == [pc |-> "idle", id |-> 0]

OnboardInit ==
    /\ account = 0 /\ users = 0 /\ nextId = 1
    /\ run = [r \in Runs |-> NoRun]
    /\ acked = TRUE /\ clean = TRUE

\* r created a Keycloak user and has neither recorded nor given it up.
Holds(r) == run[r].pc \in {"password", "persist", "rollback"}

AtRest(r) == run[r].pc \in {"idle", "ok", "failed"}

Goto(r, pc, id) == run' = [run EXCEPT ![r] = [pc |-> pc, id |-> id]]

-----------------------------------------------------------------------------
(* Starting.                                                               *)

\* Onboard, and each row of BulkOnboard: an address that has a users row is a
\* conflict; otherwise the pipeline starts.
Onboard(r) ==
    /\ AtRest(r)
    /\ Goto(r, IF users # 0 THEN "failed" ELSE "create", 0)
    /\ UNCHANGED <<account, users, nextId, acked, clean>>

\* POST /scim/v2/Users looks for the row itself, and a failed look-up is an error
\* of its own; from CreateUser on it installs the same compensation.
SCIMCreateUser(r) ==
    /\ AtRest(r)
    /\ \/ users = 0 /\ Goto(r, "create", 0)
       \/ Goto(r, "failed", 0)
    /\ UNCHANGED <<account, users, nextId, acked, clean>>

-----------------------------------------------------------------------------
(* The pipeline.                                                           *)

\* Mutant: a conflict in Keycloak is taken as "already created".
CreateAdopts(r) ==
    /\ run[r].pc = "create"
    /\ \/ account # 0 /\ Goto(r, "password", account) /\ UNCHANGED <<account, nextId>>
       \/ account = 0 /\ nextId <= MaxId /\ account' = nextId /\ nextId' = nextId + 1
          /\ Goto(r, "password", nextId)
    /\ UNCHANGED <<users, acked, clean>>

\* Keycloak's POST /users: refused when the address is taken.
CreateUser(r) ==
    /\ run[r].pc = "create"
    /\ account = 0 /\ nextId <= MaxId
    /\ account' = nextId
    /\ nextId' = nextId + 1
    /\ Goto(r, "password", nextId)
    /\ UNCHANGED <<users, acked, clean>>

\* The conflict, an unreachable Keycloak, or a cancelled request: nothing made.
CreateRefused(r) ==
    /\ run[r].pc = "create"
    /\ Goto(r, "failed", 0)
    /\ UNCHANGED <<account, users, nextId, acked, clean>>

\* Keycloak made the user, the answer did not arrive: CreateUser returns an
\* error, and its callers return before they install the compensation.
CreateUnanswered(r) ==
    /\ run[r].pc = "create"
    /\ account = 0 /\ nextId <= MaxId
    /\ account' = nextId
    /\ nextId' = nextId + 1
    /\ Goto(r, "failed", 0)
    /\ clean' = FALSE
    /\ UNCHANGED <<users, acked>>

\* The temporary password; the reset mail and the group are best-effort.
SetPassword(r) ==
    /\ run[r].pc = "password"
    /\ Goto(r, "persist", run[r].id)
    /\ UNCHANGED <<account, users, nextId, acked, clean>>

\* CreateUser returns the error without deleting what it created.
SetPasswordFails(r) ==
    /\ run[r].pc = "password"
    /\ Goto(r, "failed", 0)
    /\ clean' = FALSE
    /\ UNCHANGED <<account, users, nextId, acked>>

\* persistOnboard: one transaction; users.email is UNIQUE.
persistOnboard(r) ==
    /\ run[r].pc = "persist"
    /\ users = 0
    /\ users' = run[r].id
    /\ Goto(r, "ok", run[r].id)
    /\ UNCHANGED <<account, nextId, acked, clean>>

\* The transaction is rolled back: a duplicate, a timeout, a lost connection.
PersistFails(r) ==
    /\ run[r].pc = "persist"
    /\ Goto(r, "rollback", run[r].id)
    /\ UNCHANGED <<account, users, nextId, acked, clean>>

\* COMMIT is applied and its answer does not arrive before the deadline of
\* persistCtx: the handler sees an error and starts the compensation.
CommitUnanswered(r) ==
    /\ run[r].pc = "persist"
    /\ users = 0
    /\ users' = run[r].id
    /\ Goto(r, "rollback", run[r].id)
    /\ acked' = FALSE /\ clean' = FALSE
    /\ UNCHANGED <<account, nextId>>

\* The deferred compensation: DeleteUser(kcUserID) on a fresh context.
Rollback(r) ==
    /\ run[r].pc = "rollback"
    /\ account' = IF account = run[r].id THEN 0 ELSE account
    /\ Goto(r, "failed", 0)
    /\ UNCHANGED <<users, nextId, acked, clean>>

\* The compensation fails and is only logged.
RollbackFails(r) ==
    /\ run[r].pc = "rollback"
    /\ Goto(r, "failed", 0)
    /\ clean' = FALSE
    /\ UNCHANGED <<account, users, nextId, acked>>

\* The replica dies in the middle of the request.
Crash(r) ==
    /\ ~ AtRest(r)
    /\ Goto(r, "idle", 0)
    /\ clean' = (clean /\ ~ Holds(r))
    /\ UNCHANGED <<account, users, nextId, acked>>

-----------------------------------------------------------------------------

Pipeline(r) ==
    \/ CreateUser(r) \/ CreateRefused(r) \/ CreateUnanswered(r)
    \/ SetPassword(r) \/ SetPasswordFails(r)
    \/ persistOnboard(r) \/ PersistFails(r) \/ CommitUnanswered(r)
    \/ Rollback(r) \/ RollbackFails(r)

OnboardNext ==
    \/ \E r \in Requests : Onboard(r) \/ SCIMCreateUser(r)
    \/ \E r \in Runs : Pipeline(r) \/ Crash(r)

OnboardSpec == OnboardInit /\ [][OnboardNext]_onboardVars

-----------------------------------------------------------------------------
(* Properties.                                                             *)

\* Type invariant: ids are Keycloak's, and a run that holds a user knows its id.
OnboardTypeOK ==
    /\ nextId \in 1 .. MaxId + 1
    /\ account \in 0 .. nextId - 1
    /\ users \in 0 .. nextId - 1
    /\ run \in [Runs -> [pc : {"idle", "create", "password", "persist", "rollback", "ok", "failed"},
                         id : 0 .. nextId - 1]]
    /\ \A r \in Runs : Holds(r) => run[r].id # 0
    /\ acked \in BOOLEAN /\ clean \in BOOLEAN

\* A users row always has its Keycloak user behind it, whatever races, crashes
\* and compensations happen, unless the answer of a COMMIT was lost: the deferred
\* DeleteUser never removes the user of somebody else's row.
RowHasAccount == acked /\ users # 0 => account = users

\* When all requests are over and none of the listed faults happened, the two
\* stores agree: no Keycloak user without a row and no row without a user.
NoOrphanAtRest == clean /\ (\A r \in Runs : AtRest(r)) => account = users

\* Keycloak and the users table tell the same of the address, at every moment
\* what can be promised with two stores and a compensation (Onboard, onboardOne,
\* SCIMCreateUser, persistOnboard).
StoresConsistent == RowHasAccount /\ NoOrphanAtRest

\* What onboarding.go says of its compensation: it deletes an orphan, a Keycloak
\* user that no row of users refers to.
DeletesOnlyOrphans == [][account # 0 /\ account' = 0 => users # account]_onboardVars

-----------------------------------------------------------------------------
(* The inductive invariant behind RowHasAccount and NoOrphanAtRest.        *)

\* A run that holds a Keycloak user holds the current one, and no row has it.
HolderOwns(r) == Holds(r) => account = run[r].id /\ (acked => users # run[r].id)

\* While the history is clean, every Keycloak user has its row or its holder.
Accounted == clean => account = users \/ \E r \in Runs : Holds(r)

OnboardInv ==
    /\ OnboardTypeOK
    /\ \A r \in Runs : HolderOwns(r)
    /\ \A q, r \in Runs : Holds(q) /\ Holds(r) => q = r
    /\ RowHasAccount
    /\ Accounted
    /\ clean => acked

=============================================================================
